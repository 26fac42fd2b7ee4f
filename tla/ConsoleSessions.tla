-------------------------- MODULE ConsoleSessions --------------------------
(***************************************************************************)
(* The browser console's in-memory logins and sessions                     *)
(* (src/internal/console/server.go).  Every HTTP request is a goroutine    *)
(* of its own; the two maps are protected by one mutex, but the calls to   *)
(* the identity provider are made outside it.  One action is one critical  *)
(* section, or one external call.                                          *)
(*                                                                         *)
(* A Go map lookup of an absent key gives the zero value, so an absent     *)
(* session is ZeroSession and an absent login has expiry 0.  Tokens are    *)
(* numbered in the order the provider mints them; token 0 is "" and time 0 *)
(* is the zero time.Time.                                                  *)
(*                                                                         *)
(* A definition introduced by "Variant:" is a deliberately wrong version   *)
(* of the one after it.  Nothing uses it; it documents which property      *)
(* would notice that bug, and PROJECT.json lists the pairs.                *)
(***************************************************************************)
EXTENDS Naturals

CONSTANTS
  Requests,       \* request goroutines
  SessionIds,     \* random session cookies establishSession may draw
  LoginStates,    \* random OIDC states PrepareAuthorization may draw
  SessionTTL,     \* sessionTTL
  PendingTTL,     \* pendingTTL
  RequestLimit,   \* requestLimit: how long one provider call may take
  AccessTTL,      \* life of an access token (external)
  RefreshMargin,  \* how early session() refreshes
  Loopback,       \* isLoopback(origin)
  Rotations,      \* external: what providers do to the refresh token on a refresh
  MaxTime,        \* bound on the clock
  MaxTokens       \* bound on the tokens minted

ASSUME TimesAssumption ==
  /\ SessionTTL \in Nat \ {0}
  /\ PendingTTL \in Nat \ {0}
  /\ AccessTTL \in Nat \ {0}
  /\ RequestLimit \in Nat
  /\ RefreshMargin \in Nat
  /\ MaxTime \in Nat
  /\ MaxTokens \in Nat

(* Providers either replace the refresh token and reject the old one, or   *)
(* replace it and accept the old one a while longer, or keep it.           *)
ASSUME SwitchesAssumption ==
  /\ Loopback \in BOOLEAN
  /\ Rotations \subseteq {"strict", "grace", "static"}

(* Markers for the absence of an identifier. *)
NotIssued == "not issued"
Local == "local bootstrap"
NoLogin == "no login"
NoCookie == "no cookie"

ASSUME NamesAssumption ==
  /\ LoginStates \cap {NotIssued, Local, NoLogin} = {}
  /\ NoCookie \notin SessionIds

VARIABLES
  now,         \* time.Now()
  sessions,    \* s.sessions
  pending,     \* s.pending: when each login expires, 0 when absent
  begun,       \* history: the login states handed out
  origin,      \* history: what each session was established from
  pc, loc,     \* each request's control state and local variables
  rotation,    \* external: which kind of provider it is
  minted,      \* external: tokens the provider has issued so far
  redeemable   \* external: refresh tokens the provider would accept

vars == <<now, sessions, pending, begun, origin, pc, loc, rotation, minted, redeemable>>
provider == <<rotation, minted, redeemable>>

----------------------------------------------------------------------------
(* Data *)

Session == [token : Nat, refresh : Nat, expires : Nat, deadline : Nat]
ZeroSession == [token |-> 0, refresh |-> 0, expires |-> 0, deadline |-> 0]

(* idp.TokenBundle; access token 0 stands for a call that failed. *)
Bundle == [access : Nat, refresh : Nat, expiry : Nat]
ZeroBundle == [access |-> 0, refresh |-> 0, expiry |-> 0]

Kinds == {"serve", "logout"}
PCs == {"idle", "refreshing", "refreshed", "admitted", "exchanging", "exchanged"}

(* Local variables of a request: which handler it runs, the cookie it      *)
(* presented, the session it holds, the bundle the provider returned, the  *)
(* login it redeems and when its provider call started.                    *)
Locals == [kind : Kinds, cookie : SessionIds \cup {NoCookie}, sess : Session,
           bundle : Bundle, login : LoginStates \cup {NoLogin}, since : Nat]
NoLocals == [kind |-> "serve", cookie |-> NoCookie, sess |-> ZeroSession,
             bundle |-> ZeroBundle, login |-> NoLogin, since |-> 0]

Present(id) == sessions[id] # ZeroSession
Issued(id) == origin[id] # NotIssued

Finish(r) == /\ pc' = [pc EXCEPT ![r] = "idle"]
             /\ loc' = [loc EXCEPT ![r] = NoLocals]

Admit(r, l) == /\ pc' = [pc EXCEPT ![r] = "admitted"]
               /\ loc' = [loc EXCEPT ![r] = l]

Init ==
  /\ now = 0
  /\ sessions = [id \in SessionIds |-> ZeroSession]
  /\ pending = [s \in LoginStates |-> 0]
  /\ begun = {}
  /\ origin = [id \in SessionIds |-> NotIssued]
  /\ pc = [r \in Requests |-> "idle"]
  /\ loc = [r \in Requests |-> NoLocals]
  /\ rotation \in Rotations
  /\ minted = 0
  /\ redeemable = {}

----------------------------------------------------------------------------
(* session(): the lookup, the refresh outside the lock, the write-back *)

\* Variant: the margin is added on the wrong side.
NeedsRefreshTooLate(sess) ==
  /\ sess.expires # 0
  /\ now > sess.expires + RefreshMargin
  /\ sess.refresh # 0

NeedsRefresh(sess) ==
  /\ sess.expires # 0
  /\ now + RefreshMargin > sess.expires
  /\ sess.refresh # 0

\* Variant: looks at the access token's expiry instead of the deadline.
ExpiredByToken(sess) == now > sess.expires

Expired(sess) == now > sess.deadline

(* First critical section.  A cookie that was issued is presented, however *)
(* long ago: unknown cookies behave like ended ones.                       *)
SessionLookup(r, kind, id) ==
  LET sess == sessions[id]
      mine == [NoLocals EXCEPT !.kind = kind, !.cookie = id, !.sess = sess]
  IN
  /\ pc[r] = "idle"
  /\ Issued(id)
  /\ \/ /\ sess = ZeroSession \/ Expired(sess)
        /\ sessions' = [sessions EXCEPT ![id] = ZeroSession]
        /\ UNCHANGED <<pc, loc>>
     \/ /\ sess # ZeroSession /\ ~Expired(sess) /\ ~NeedsRefresh(sess)
        /\ Admit(r, mine)
        /\ UNCHANGED sessions
     \/ /\ sess # ZeroSession /\ ~Expired(sess) /\ NeedsRefresh(sess)
        /\ pc' = [pc EXCEPT ![r] = "refreshing"]
        /\ loc' = [loc EXCEPT ![r] = [mine EXCEPT !.since = now]]
        /\ UNCHANGED sessions
  /\ UNCHANGED <<now, pending, begun, origin, provider>>

(* The provider accepts a refresh token and mints an access token, with or *)
(* without an expiry.  The answer may be lost on the way back.             *)
RefreshGranted(r, expiry, lost) ==
  LET old == loc[r].sess.refresh
      new == minted + 1
      rotated == IF rotation = "static" THEN 0 ELSE new
      answer == [access |-> new, refresh |-> rotated, expiry |-> expiry]
  IN
  /\ pc[r] = "refreshing"
  /\ minted < MaxTokens
  /\ old \in redeemable
  /\ minted' = new
  /\ redeemable' = CASE rotation = "strict" -> (redeemable \ {old}) \cup {new}
                     [] rotation = "grace" -> redeemable \cup {new}
                     [] rotation = "static" -> redeemable
  /\ pc' = [pc EXCEPT ![r] = "refreshed"]
  /\ loc' = [loc EXCEPT ![r].bundle = IF lost THEN ZeroBundle ELSE answer]
  /\ UNCHANGED <<now, sessions, pending, begun, origin, rotation>>

\* Variant: a failed refresh is tried again without end.
RefreshRetriedForever(r) == pc[r] = "refreshing" /\ UNCHANGED vars

(* RefreshTokens fails without an effect: rejected, unreachable, timed out. *)
RefreshFailed(r) ==
  /\ pc[r] = "refreshing"
  /\ pc' = [pc EXCEPT ![r] = "refreshed"]
  /\ UNCHANGED <<now, sessions, pending, begun, origin, loc, provider>>

\* Variant: an answer without a refresh token clears the one kept.
RefreshedDropsToken(current, bundle) ==
  [current EXCEPT !.token = bundle.access,
                  !.refresh = bundle.refresh,
                  !.expires = bundle.expiry]

\* Variant: a rotated refresh token is not stored.
RefreshedKeepsToken(current, bundle) ==
  [current EXCEPT !.token = bundle.access,
                  !.expires = bundle.expiry]

(* How session() merges a granted bundle into the entry it finds. *)
Refreshed(current, bundle) ==
  [current EXCEPT !.token = bundle.access,
                  !.refresh = IF bundle.refresh # 0 THEN bundle.refresh ELSE @,
                  !.expires = bundle.expiry]

\* Variant: the entry is written back unseen.
OvertakenNever(l) == FALSE

(* The entry is gone, or was renewed by another request meanwhile. *)
Overtaken(l) == ~Present(l.cookie) \/ sessions[l.cookie].refresh # l.sess.refresh

(* Second critical section: the entry may be gone, or rotated by another   *)
(* request, by now.  A failed refresh ends the session in any case.        *)
SessionRelock(r) ==
  LET l == loc[r]
      current == sessions[l.cookie]
      failed == l.bundle = ZeroBundle
      merged == Refreshed(current, l.bundle)
  IN
  /\ pc[r] = "refreshed"
  /\ \/ /\ failed
        /\ sessions' = [sessions EXCEPT ![l.cookie] = ZeroSession]
        /\ Finish(r)
     \/ /\ ~failed /\ Overtaken(l)
        /\ IF Present(l.cookie) /\ now < current.deadline
             THEN Admit(r, [l EXCEPT !.sess = current, !.bundle = ZeroBundle])
             ELSE Finish(r)
        /\ UNCHANGED sessions
     \/ /\ ~failed /\ ~Overtaken(l)
        /\ sessions' = [sessions EXCEPT ![l.cookie] = merged]
        /\ Admit(r, [l EXCEPT !.sess = merged, !.bundle = ZeroBundle])
  /\ UNCHANGED <<now, pending, begun, origin, provider>>

----------------------------------------------------------------------------
(* The handlers behind session() *)

(* index and sandboxAction use the token they hold and leave the maps      *)
(* alone; logout does so too when the form or its CSRF token is invalid.   *)
Serve(r) ==
  /\ pc[r] = "admitted"
  /\ Finish(r)
  /\ UNCHANGED <<now, sessions, pending, begun, origin, provider>>

Logout(r) ==
  /\ pc[r] = "admitted"
  /\ loc[r].kind = "logout"
  /\ sessions' = [sessions EXCEPT ![loc[r].cookie] = ZeroSession]
  /\ Finish(r)
  /\ UNCHANGED <<now, pending, begun, origin, provider>>

----------------------------------------------------------------------------
(* Login *)

(* pruneLocked *)
Pruned(ss) == [id \in SessionIds |-> IF Expired(ss[id]) THEN ZeroSession ELSE ss[id]]
PrunedLogins(ps) == [s \in LoginStates |-> IF now > ps[s] THEN 0 ELSE ps[s]]

(* login with OIDC.  The browser token is drawn with the state, so a login *)
(* is named by its state alone.                                            *)
LoginStart(s) ==
  /\ s \notin begun
  /\ begun' = begun \cup {s}
  /\ sessions' = Pruned(sessions)
  /\ pending' = [PrunedLogins(pending) EXCEPT ![s] = now + PendingTTL]
  /\ UNCHANGED <<now, origin, pc, loc, provider>>

\* Variant: the session's life is subtracted.
DeadlineInThePast == now - SessionTTL

Deadline == now + SessionTTL

(* establishSession, when the random identifier it draws is id. *)
Establish(id, from, token, bundle) ==
  /\ ~Issued(id)
  /\ origin' = [origin EXCEPT ![id] = from]
  /\ pending' = PrunedLogins(pending)
  /\ sessions' = [Pruned(sessions) EXCEPT ![id] =
                    [token |-> token, refresh |-> bundle.refresh,
                     expires |-> bundle.expiry, deadline |-> Deadline]]

(* login without OIDC: the loopback bootstrap. *)
LoginLocal(id) ==
  /\ Loopback
  /\ minted < MaxTokens
  /\ minted' = minted + 1
  /\ Establish(id, Local, minted + 1, ZeroBundle)
  /\ UNCHANGED <<now, begun, pc, loc, rotation, redeemable>>

\* Variant: the login is not taken out of the map.
TakenLate(s) == pending

TakenOut(s) == [pending EXCEPT ![s] = 0]

(* callback, first part: the login is taken out of the map before anything *)
(* about the request is verified.  browser is the login whose cookie the   *)
(* request carries; ok tells whether the provider approved the login.      *)
CallbackTake(r, s, browser, ok) ==
  /\ pc[r] = "idle"
  /\ s \in begun /\ browser \in begun
  /\ pending' = TakenOut(s)
  /\ IF pending[s] # 0 /\ now <= pending[s] /\ browser = s /\ ok
       THEN /\ pc' = [pc EXCEPT ![r] = "exchanging"]
            /\ loc' = [loc EXCEPT ![r].login = s, ![r].since = now]
       ELSE UNCHANGED <<pc, loc>>
  /\ UNCHANGED <<now, sessions, begun, origin, provider>>

(* ExchangeAuthorizationCode: a bundle with or without a refresh token and *)
(* an expiry.                                                              *)
ExchangeGranted(r, refreshable, expiry) ==
  LET new == minted + 1 IN
  /\ pc[r] = "exchanging"
  /\ minted < MaxTokens
  /\ minted' = new
  /\ redeemable' = IF refreshable THEN redeemable \cup {new} ELSE redeemable
  /\ pc' = [pc EXCEPT ![r] = "exchanged"]
  /\ loc' = [loc EXCEPT ![r].bundle =
               [access |-> new, refresh |-> IF refreshable THEN new ELSE 0, expiry |-> expiry]]
  /\ UNCHANGED <<now, sessions, pending, begun, origin, rotation>>

ExchangeFailed(r) ==
  /\ pc[r] = "exchanging"
  /\ Finish(r)
  /\ UNCHANGED <<now, sessions, pending, begun, origin, provider>>

CallbackEstablish(r, id) ==
  /\ pc[r] = "exchanged"
  /\ Establish(id, loc[r].login, loc[r].bundle.access, loc[r].bundle)
  /\ Finish(r)
  /\ UNCHANGED <<now, begun, provider>>

(* establishSession gives up when the system has no randomness to offer. *)
EstablishFailed(r) ==
  /\ pc[r] = "exchanged"
  /\ Finish(r)
  /\ UNCHANGED <<now, sessions, pending, begun, origin, provider>>

----------------------------------------------------------------------------
(* Time.  A provider call ends within RequestLimit (context.WithTimeout)   *)
(* and its result is handled at once; reading a form or talking to the     *)
(* gateway takes as long as it takes.                                      *)
MayWait(r) ==
  CASE pc[r] \in {"refreshing", "exchanging"} -> now < loc[r].since + RequestLimit
    [] pc[r] \in {"refreshed", "exchanged"} -> FALSE
    [] OTHER -> TRUE

Tick ==
  /\ now < MaxTime
  /\ \A r \in Requests : MayWait(r)
  /\ now' = now + 1
  /\ UNCHANGED <<sessions, pending, begun, origin, pc, loc, provider>>

Expiries == {0, now + AccessTTL}

Refresh(r) ==
  \/ \E expiry \in Expiries, lost \in BOOLEAN : RefreshGranted(r, expiry, lost)
  \/ RefreshFailed(r)

Exchange(r) ==
  \/ \E refreshable \in BOOLEAN, expiry \in Expiries : ExchangeGranted(r, refreshable, expiry)
  \/ ExchangeFailed(r)

(* What a request does on its own once it was sent. *)
Proceed(r) ==
  \/ Refresh(r)
  \/ SessionRelock(r)
  \/ Serve(r)
  \/ Logout(r)
  \/ Exchange(r)
  \/ \E id \in SessionIds : CallbackEstablish(r, id)
  \/ EstablishFailed(r)

Arrive(r) ==
  \/ \E kind \in Kinds, id \in SessionIds : SessionLookup(r, kind, id)
  \/ \E s, browser \in LoginStates, ok \in BOOLEAN : CallbackTake(r, s, browser, ok)

Next ==
  \/ Tick
  \/ \E s \in LoginStates : LoginStart(s)
  \/ \E id \in SessionIds : LoginLocal(id)
  \/ \E r \in Requests : Arrive(r) \/ Proceed(r)

(* The Go scheduler runs every goroutine, and every provider call returns. *)
Fairness == \A r \in Requests : WF_vars(Proceed(r))

SafetySpec == Init /\ [][Next]_vars
Spec == SafetySpec /\ Fairness

----------------------------------------------------------------------------
(* Properties *)

(* Every variable has its type. *)
TypeOK ==
  /\ now \in Nat
  /\ sessions \in [SessionIds -> Session]
  /\ pending \in [LoginStates -> Nat]
  /\ begun \subseteq LoginStates
  /\ origin \in [SessionIds -> LoginStates \cup {Local, NotIssued}]
  /\ pc \in [Requests -> PCs]
  /\ loc \in [Requests -> Locals]
  /\ rotation \in Rotations
  /\ minted \in Nat
  /\ redeemable \subseteq Nat

(* A session that no request is refreshing holds a refresh token its       *)
(* provider still accepts, whatever answers were lost and whichever of     *)
(* several concurrent refreshes won: session() drops the entry rather than *)
(* keep a token it cannot tell to be good.                                 *)
RefreshableAtRest ==
  \A id \in SessionIds :
    \/ sessions[id].refresh = 0
    \/ sessions[id].refresh \in redeemable
    \/ \E r \in Requests : pc[r] \in {"refreshing", "refreshed"} /\ loc[r].cookie = id

(* The console holds at most one session per completed login, even when    *)
(* the same callback is delivered several times at once.                   *)
OneSessionPerLogin ==
  \A i, j \in SessionIds : i # j /\ origin[i] \in LoginStates => origin[i] # origin[j]

(* session() never admits a request more than one provider call after the  *)
(* session's deadline: the deadline is not looked at again after a refresh *)
(* that succeeds.                                                          *)
AdmittedInTime ==
  [][\A r \in Requests :
       pc[r] # "admitted" /\ pc'[r] = "admitted"
         => now <= loc'[r].sess.deadline + RequestLimit]_vars

(* A request that session() admits with a renewable session never carries  *)
(* an access token that has expired already, also when another request     *)
(* refreshed the session first.                                            *)
AdmittedWithLiveToken ==
  [][\A r \in Requests :
       LET held == loc'[r].sess
           admits == pc[r] # "admitted" /\ pc'[r] = "admitted"
           renewable == held.expires # 0 /\ held.refresh # 0
       IN admits /\ renewable => now <= held.expires]_vars

(* When the provider hands out new refresh tokens, the access token of a   *)
(* session is only ever replaced by one minted later: a slow refresh does  *)
(* not overwrite the result of a faster one.                               *)
TokensMoveForward ==
  [][\A id \in SessionIds :
       LET kept == Present(id) /\ Present(id)' /\ rotation # "static"
       IN kept => sessions'[id].token >= sessions[id].token]_vars

(* A session that can be renewed stays so until it ends, whether or not    *)
(* the provider repeats the refresh token in its answers.                  *)
RenewableForLife ==
  [][\A id \in SessionIds :
       Present(id)' /\ sessions[id].refresh # 0 => sessions'[id].refresh # 0]_vars

(* Every request is answered: no path through a handler keeps the mutex or *)
(* waits for another request.                                              *)
EveryRequestAnswered == \A r \in Requests : pc[r] # "idle" ~> pc[r] = "idle"

----------------------------------------------------------------------------
(* Refinement of the ledger of logins and sessions *)

LoginOf(s) ==
  CASE s \notin begun -> "new"
    [] s \in begun /\ pending[s] # 0 -> "open"
    [] s \in begun /\ pending[s] = 0 ->
         IF \E id \in SessionIds : origin[id] = s THEN "redeemed" ELSE "spent"

StatusOf(id) ==
  CASE ~Issued(id) -> "unissued"
    [] Issued(id) -> IF Present(id) THEN "live" ELSE "ended"

Ledger == INSTANCE SessionLedger
            WITH login <- [s \in LoginStates |-> LoginOf(s)],
                 status <- [id \in SessionIds |-> StatusOf(id)]

(* Whatever the console does is a step of the ledger or none at all. *)
ImplementsLedger == Ledger!LedgerSpec
=============================================================================
