----------------------- MODULE ConsoleSessionsProofs -----------------------
(***************************************************************************)
(* Proofs about ConsoleSessions, for any number of requests, sessions and  *)
(* logins: its type invariant, that it implements SessionLedger, and what  *)
(* becomes of the tokens.                                                  *)
(***************************************************************************)
EXTENDS ConsoleSessions, TLAPS

USE TimesAssumption, SwitchesAssumption, NamesAssumption DEF Deadline, TakenOut

(* A request in one of these states holds a cookie it presented. *)
HoldsCookie(r) == pc[r] \in {"refreshing", "refreshed", "admitted"}

(* A request in one of these states has taken a login out of the map. *)
Redeeming(r) == pc[r] \in {"exchanging", "exchanged"}

LocalsInv ==
  \A r \in Requests :
    /\ HoldsCookie(r) => loc[r].cookie \in SessionIds
    /\ Redeeming(r) => loc[r].login \in LoginStates

TypeInv == TypeOK /\ LocalsInv

(* The values a session can start from have their types. *)
LEMMA ConstantsTyped ==
  /\ ZeroSession \in Session
  /\ ZeroBundle \in Bundle
  /\ NoLocals \in Locals
  /\ \A n \in Nat : {0, n + AccessTTL} \subseteq Nat
BY DEF Session, ZeroSession, Bundle, ZeroBundle, NoLocals, Locals, Kinds

(* The console starts with its types. *)
LEMMA InitTyped == Init => TypeInv
BY ConstantsTyped DEF Init, TypeInv, TypeOK, LocalsInv, HoldsCookie, Redeeming, PCs

(* Pruning leaves a table of sessions and one of logins. *)
LEMMA PrunedTyped ==
  ASSUME TypeOK
  PROVE  /\ Pruned(sessions) \in [SessionIds -> Session]
         /\ PrunedLogins(pending) \in [LoginStates -> Nat]
BY ConstantsTyped DEF TypeOK, Pruned, PrunedLogins

(* A refreshed session is a session. *)
LEMMA RefreshedTyped ==
  ASSUME NEW c \in Session, NEW b \in Bundle
  PROVE  Refreshed(c, b) \in Session
BY DEF Refreshed, Session, Bundle

(* One request moves to control state p with locals l. *)
LEMMA RequestMoves ==
  ASSUME TypeInv, NEW r \in Requests, NEW p \in PCs, NEW l \in Locals,
         pc' = [pc EXCEPT ![r] = p], loc' = [loc EXCEPT ![r] = l],
         p \in {"refreshing", "refreshed", "admitted"} => l.cookie \in SessionIds,
         p \in {"exchanging", "exchanged"} => l.login \in LoginStates
  PROVE  /\ pc' \in [Requests -> PCs]
         /\ loc' \in [Requests -> Locals]
         /\ LocalsInv'
BY DEF TypeInv, TypeOK, LocalsInv, HoldsCookie, Redeeming

(* Every step keeps the types. *)
LEMMA StepTyped == TypeInv /\ [Next]_vars => TypeInv'
<1> SUFFICES ASSUME TypeInv, [Next]_vars PROVE TypeInv'
  OBVIOUS
<1> USE DEF TypeInv
<1>1. CASE Tick
  BY <1>1 DEF Tick, TypeOK, LocalsInv, HoldsCookie, Redeeming, provider
<1>2. ASSUME NEW s \in LoginStates, LoginStart(s) PROVE TypeInv'
  <2>1. /\ sessions' = Pruned(sessions)
        /\ pending' = [PrunedLogins(pending) EXCEPT ![s] = now + PendingTTL]
        /\ begun' = begun \cup {s}
        /\ UNCHANGED <<now, origin, pc, loc, rotation, minted, redeemable>>
    BY <1>2 DEF LoginStart, provider
  <2> QED BY <2>1, PrunedTyped DEF TypeOK, LocalsInv, HoldsCookie, Redeeming
<1>3. ASSUME NEW id \in SessionIds, LoginLocal(id) PROVE TypeInv'
  <2>1. [token |-> minted + 1, refresh |-> 0, expires |-> 0, deadline |-> now + SessionTTL]
          \in Session
    BY DEF Session, TypeOK
  <2> QED BY <1>3, <2>1, PrunedTyped
       DEF LoginLocal, Establish, ZeroBundle, TypeOK, LocalsInv, HoldsCookie, Redeeming
<1>4. ASSUME NEW r \in Requests, NEW kind \in Kinds, NEW id \in SessionIds,
             SessionLookup(r, kind, id)
      PROVE  TypeInv'
  <2> DEFINE mine == [NoLocals EXCEPT !.kind = kind, !.cookie = id, !.sess = sessions[id]]
  <2>1. mine \in Locals /\ [mine EXCEPT !.since = now] \in Locals
    BY ConstantsTyped DEF Locals, NoLocals, TypeOK
  <2>2. mine.cookie = id /\ [mine EXCEPT !.since = now].cookie = id
    BY DEF NoLocals
  <2> HIDE DEF mine
  <2>3. \/ /\ sessions' = [sessions EXCEPT ![id] = ZeroSession]
           /\ UNCHANGED <<pc, loc>>
        \/ /\ UNCHANGED sessions
           /\ pc' = [pc EXCEPT ![r] = "admitted"]
           /\ loc' = [loc EXCEPT ![r] = mine]
        \/ /\ UNCHANGED sessions
           /\ pc' = [pc EXCEPT ![r] = "refreshing"]
           /\ loc' = [loc EXCEPT ![r] = [mine EXCEPT !.since = now]]
    BY <1>4 DEF SessionLookup, Admit, mine
  <2>4. UNCHANGED <<now, pending, begun, origin, rotation, minted, redeemable>>
    BY <1>4 DEF SessionLookup, provider
  <2>5. sessions' \in [SessionIds -> Session]
    BY <2>3, ConstantsTyped DEF TypeOK
  <2>6. pc' \in [Requests -> PCs] /\ loc' \in [Requests -> Locals] /\ LocalsInv'
    <3>1. CASE UNCHANGED <<pc, loc>>
      BY <3>1 DEF TypeOK, LocalsInv, HoldsCookie, Redeeming
    <3>2. CASE pc' = [pc EXCEPT ![r] = "admitted"] /\ loc' = [loc EXCEPT ![r] = mine]
      BY <3>2, <2>1, <2>2, RequestMoves DEF PCs
    <3>3. CASE /\ pc' = [pc EXCEPT ![r] = "refreshing"]
               /\ loc' = [loc EXCEPT ![r] = [mine EXCEPT !.since = now]]
      BY <3>3, <2>1, <2>2, RequestMoves DEF PCs
    <3> QED BY <2>3, <3>1, <3>2, <3>3
  <2> QED BY <2>4, <2>5, <2>6 DEF TypeOK
<1>5. ASSUME NEW r \in Requests, NEW s \in LoginStates, NEW browser \in LoginStates,
             NEW ok \in BOOLEAN, CallbackTake(r, s, browser, ok)
      PROVE  TypeInv'
  <2> DEFINE taken == [loc[r] EXCEPT !.login = s, !.since = now]
  <2>1. taken \in Locals /\ taken.login = s
    BY DEF TypeOK, Locals
  <2>2. \/ UNCHANGED <<pc, loc>>
        \/ /\ pc' = [pc EXCEPT ![r] = "exchanging"]
           /\ loc' = [loc EXCEPT ![r] = taken]
    BY <1>5 DEF CallbackTake
  <2> HIDE DEF taken
  <2> QED BY <1>5, <2>1, <2>2
       DEF CallbackTake, provider, TypeOK, LocalsInv, HoldsCookie, Redeeming, PCs
<1>6. ASSUME NEW r \in Requests, NEW expiry \in Expiries, NEW lost \in BOOLEAN,
             RefreshGranted(r, expiry, lost)
      PROVE  TypeInv'
  <2>1. /\ minted' \in Nat /\ redeemable' \subseteq Nat
        /\ UNCHANGED <<now, sessions, pending, begun, origin, rotation>>
    BY <1>6 DEF RefreshGranted, TypeOK
  <2>2. PICK b \in Bundle : loc' = [loc EXCEPT ![r] = [loc[r] EXCEPT !.bundle = b]]
    <3>1. /\ expiry \in Nat
          /\ minted + 1 \in Nat
          /\ (IF rotation = "static" THEN 0 ELSE minted + 1) \in Nat
      BY <1>6 DEF Expiries, TypeOK
    <3>2. [access |-> minted + 1, refresh |-> IF rotation = "static" THEN 0 ELSE minted + 1,
           expiry |-> expiry] \in Bundle
      BY <3>1 DEF Bundle
    <3> QED BY <1>6, <3>2, ConstantsTyped DEF RefreshGranted
  <2>3. [loc[r] EXCEPT !.bundle = b] \in Locals /\ [loc[r] EXCEPT !.bundle = b].cookie = loc[r].cookie
    BY DEF TypeOK, Locals
  <2>4. loc[r].cookie \in SessionIds /\ pc' = [pc EXCEPT ![r] = "refreshed"]
    BY <1>6 DEF RefreshGranted, LocalsInv, HoldsCookie
  <2> HIDE DEF TypeInv
  <2>5. pc' \in [Requests -> PCs] /\ loc' \in [Requests -> Locals] /\ LocalsInv'
    BY <2>2, <2>3, <2>4, RequestMoves DEF PCs
  <2> QED BY <2>1, <2>5 DEF TypeInv, TypeOK
<1>7. ASSUME NEW r \in Requests, RefreshFailed(r) PROVE TypeInv'
  BY <1>7 DEF RefreshFailed, provider, TypeOK, LocalsInv, HoldsCookie, Redeeming, PCs
<1>8. ASSUME NEW r \in Requests, SessionRelock(r) PROVE TypeInv'
  <2> DEFINE l == loc[r]
             merged == Refreshed(sessions[l.cookie], l.bundle)
  <2>1. l.cookie \in SessionIds /\ l \in Locals /\ sessions[l.cookie] \in Session
    BY <1>8 DEF SessionRelock, TypeOK, LocalsInv, HoldsCookie, Redeeming
  <2>2. merged \in Session
    BY <2>1, RefreshedTyped DEF Locals
  <2>3. /\ [l EXCEPT !.sess = sessions[l.cookie], !.bundle = ZeroBundle] \in Locals
        /\ [l EXCEPT !.sess = merged, !.bundle = ZeroBundle] \in Locals
        /\ [l EXCEPT !.sess = sessions[l.cookie], !.bundle = ZeroBundle].cookie = l.cookie
        /\ [l EXCEPT !.sess = merged, !.bundle = ZeroBundle].cookie = l.cookie
    BY <2>1, <2>2, ConstantsTyped DEF Locals
  <2> HIDE DEF l, merged
  <2>4. \/ /\ sessions' = [sessions EXCEPT ![l.cookie] = ZeroSession]
           /\ Finish(r)
        \/ /\ UNCHANGED sessions
           /\ \/ Admit(r, [l EXCEPT !.sess = sessions[l.cookie], !.bundle = ZeroBundle])
              \/ Finish(r)
        \/ /\ sessions' = [sessions EXCEPT ![l.cookie] = merged]
           /\ Admit(r, [l EXCEPT !.sess = merged, !.bundle = ZeroBundle])
    BY <1>8 DEF SessionRelock, l, merged
  <2>5. UNCHANGED <<now, pending, begun, origin, rotation, minted, redeemable>>
    BY <1>8 DEF SessionRelock, provider
  <2>6. sessions' \in [SessionIds -> Session]
    BY <2>2, <2>4, ConstantsTyped DEF TypeOK
  <2>7. pc' \in [Requests -> PCs] /\ loc' \in [Requests -> Locals] /\ LocalsInv'
    <3>1. CASE Finish(r)
      BY <3>1, ConstantsTyped, RequestMoves DEF Finish, PCs
    <3>2. CASE Admit(r, [l EXCEPT !.sess = sessions[l.cookie], !.bundle = ZeroBundle])
      BY <3>2, <2>1, <2>3, RequestMoves DEF Admit, PCs
    <3>3. CASE Admit(r, [l EXCEPT !.sess = merged, !.bundle = ZeroBundle])
      BY <3>3, <2>1, <2>3, RequestMoves DEF Admit, PCs
    <3> QED BY <2>4, <3>1, <3>2, <3>3
  <2> QED BY <2>5, <2>6, <2>7 DEF TypeOK
<1>9. ASSUME NEW r \in Requests, Serve(r) PROVE TypeInv'
  BY <1>9, ConstantsTyped DEF Serve, Finish, provider, TypeOK, LocalsInv, HoldsCookie, Redeeming, PCs
<1>10. ASSUME NEW r \in Requests, Logout(r) PROVE TypeInv'
  BY <1>10, ConstantsTyped DEF Logout, Finish, provider, TypeOK, LocalsInv, HoldsCookie, Redeeming, PCs
<1>11. ASSUME NEW r \in Requests, NEW refreshable \in BOOLEAN, NEW expiry \in Expiries,
              ExchangeGranted(r, refreshable, expiry)
       PROVE  TypeInv'
  <2>1. /\ minted' \in Nat /\ redeemable' \subseteq Nat
        /\ UNCHANGED <<now, sessions, pending, begun, origin, rotation>>
    BY <1>11 DEF ExchangeGranted, TypeOK
  <2>2. PICK b \in Bundle : loc' = [loc EXCEPT ![r] = [loc[r] EXCEPT !.bundle = b]]
    <3>1. /\ expiry \in Nat
          /\ minted + 1 \in Nat
          /\ (IF refreshable THEN minted + 1 ELSE 0) \in Nat
      BY <1>11 DEF Expiries, TypeOK
    <3>2. [access |-> minted + 1, refresh |-> IF refreshable THEN minted + 1 ELSE 0,
           expiry |-> expiry] \in Bundle
      BY <3>1 DEF Bundle
    <3> QED BY <1>11, <3>2 DEF ExchangeGranted
  <2>3. [loc[r] EXCEPT !.bundle = b] \in Locals /\ [loc[r] EXCEPT !.bundle = b].login = loc[r].login
    BY DEF TypeOK, Locals
  <2>4. loc[r].login \in LoginStates /\ pc' = [pc EXCEPT ![r] = "exchanged"]
    BY <1>11 DEF ExchangeGranted, LocalsInv, Redeeming
  <2> HIDE DEF TypeInv
  <2>5. pc' \in [Requests -> PCs] /\ loc' \in [Requests -> Locals] /\ LocalsInv'
    BY <2>2, <2>3, <2>4, RequestMoves DEF PCs
  <2> QED BY <2>1, <2>5 DEF TypeInv, TypeOK
<1>12. ASSUME NEW r \in Requests, ExchangeFailed(r) PROVE TypeInv'
  BY <1>12, ConstantsTyped
     DEF ExchangeFailed, Finish, provider, TypeOK, LocalsInv, HoldsCookie, Redeeming, PCs
<1>13. ASSUME NEW r \in Requests, NEW id \in SessionIds, CallbackEstablish(r, id)
       PROVE  TypeInv'
  <2> DEFINE b == loc[r].bundle
             sess == [token |-> b.access, refresh |-> b.refresh, expires |-> b.expiry,
                      deadline |-> now + SessionTTL]
  <2>1. sess \in Session
    BY DEF TypeOK, Locals, Bundle, Session
  <2>2. sessions' = [Pruned(sessions) EXCEPT ![id] = sess]
    BY <1>13 DEF CallbackEstablish, Establish
  <2>3. sessions' \in [SessionIds -> Session] /\ pending' \in [LoginStates -> Nat]
    BY <1>13, <2>1, <2>2, PrunedTyped DEF CallbackEstablish, Establish
  <2>4. pc' \in [Requests -> PCs] /\ loc' \in [Requests -> Locals] /\ LocalsInv'
    BY <1>13, ConstantsTyped, RequestMoves DEF CallbackEstablish, Finish, PCs
  <2>5. origin' \in [SessionIds -> LoginStates \cup {Local, NotIssued}]
    <3>1. loc[r].login \in LoginStates
      BY <1>13 DEF CallbackEstablish, TypeInv, LocalsInv, Redeeming
    <3> QED BY <1>13, <3>1 DEF CallbackEstablish, Establish, TypeOK
  <2> QED BY <1>13, <2>3, <2>4, <2>5 DEF CallbackEstablish, provider, TypeOK
<1>14. ASSUME NEW r \in Requests, EstablishFailed(r) PROVE TypeInv'
  BY <1>14, ConstantsTyped
     DEF EstablishFailed, Finish, provider, TypeOK, LocalsInv, HoldsCookie, Redeeming, PCs
<1>15. CASE UNCHANGED vars
  BY <1>15 DEF vars, TypeOK, LocalsInv, HoldsCookie, Redeeming
<1> QED
  BY <1>1, <1>2, <1>3, <1>4, <1>5, <1>6, <1>7, <1>8, <1>9, <1>10, <1>11, <1>12, <1>13,
     <1>14, <1>15 DEF Next, Arrive, Proceed, Refresh, Exchange

(* Every variable of the console keeps its type, and a request that is     *)
(* past the first lookup of session() holds a cookie (server.go, session). *)
THEOREM ConsoleTyped == SafetySpec => [](TypeOK /\ LocalsInv)
<1>1. TypeInv => TypeOK /\ LocalsInv
  BY DEF TypeInv
<1> QED BY <1>1, InitTyped, StepTyped, PTL DEF SafetySpec

----------------------------------------------------------------------------
(* The ledger.  A present session was issued; a login that a request is    *)
(* redeeming is out of the map, has no session yet and is redeemed by no   *)
(* other request: this is what taking the login out of the map before      *)
(* anything else (server.go, callback) is good for.                        *)

PresentInv == \A id \in SessionIds : Present(id) => Issued(id) /\ sessions[id].deadline # 0

PendingInv == \A s \in LoginStates : pending[s] # 0 => s \in begun

OriginInv ==
  \A id \in SessionIds :
    origin[id] \in LoginStates => origin[id] \in begun /\ pending[origin[id]] = 0

RedeemingInv ==
  /\ \A r \in Requests :
       Redeeming(r) => /\ loc[r].login \in begun
                       /\ pending[loc[r].login] = 0
                       /\ \A id \in SessionIds : origin[id] # loc[r].login
  /\ \A r, q \in Requests :
       r # q /\ Redeeming(r) /\ Redeeming(q) => loc[r].login # loc[q].login

LedgerInv == PresentInv /\ PendingInv /\ OriginInv /\ RedeemingInv /\ OneSessionPerLogin

(* Nothing is established or redeemed at first. *)
LEMMA InitLedger == Init => LedgerInv
BY DEF Init, LedgerInv, PresentInv, PendingInv, OriginInv, RedeemingInv, OneSessionPerLogin,
       Present, Redeeming, NotIssued

(* The sweep removes entries and adds none. *)
LEMMA PrunedEntries ==
  /\ \A id \in SessionIds : Pruned(sessions)[id] \in {sessions[id], ZeroSession}
  /\ \A s \in LoginStates : PrunedLogins(pending)[s] \in {pending[s], 0}
BY DEF Pruned, PrunedLogins

(* Steps that issue no session and start no login keep the ledger sound    *)
(* when they only drop sessions or renew them, and let no request begin to *)
(* redeem a login.                                                         *)
LEMMA QuietStep ==
  ASSUME TypeInv, LedgerInv,
         UNCHANGED <<pending, begun, origin>>,
         \A id \in SessionIds :
           \/ sessions'[id] \in {sessions[id], ZeroSession}
           \/ Present(id) /\ sessions'[id].deadline = sessions[id].deadline,
         \A r \in Requests : Redeeming(r)' => Redeeming(r) /\ loc'[r].login = loc[r].login
  PROVE  LedgerInv'
<1>1. PresentInv'
  BY DEF LedgerInv, PresentInv, Present, Issued, ZeroSession
<1>2. PendingInv' /\ OriginInv' /\ OneSessionPerLogin'
  BY DEF LedgerInv, PendingInv, OriginInv, OneSessionPerLogin
<1>3. RedeemingInv'
  BY DEF LedgerInv, RedeemingInv
<1> QED BY <1>1, <1>2, <1>3 DEF LedgerInv

(* What establishSession does to the two maps. *)
LEMMA EstablishKeepsLedger ==
  ASSUME TypeInv, LedgerInv, NEW id \in SessionIds, NEW from \in LoginStates \cup {Local},
         NEW token \in Nat, NEW bundle \in Bundle,
         Establish(id, from, token, bundle), UNCHANGED begun,
         from \in LoginStates => /\ from \in begun /\ pending[from] = 0
                                 /\ \A j \in SessionIds : origin[j] # from
  PROVE  PresentInv' /\ PendingInv' /\ OriginInv' /\ OneSessionPerLogin'
<1>1. /\ \A j \in SessionIds \ {id} : sessions'[j] \in {sessions[j], ZeroSession}
      /\ sessions'[id].deadline = now + SessionTTL
      /\ origin' = [origin EXCEPT ![id] = from]
      /\ \A s \in LoginStates : pending'[s] \in {pending[s], 0}
  BY PrunedEntries DEF Establish, Pruned
<1>2. PresentInv'
  <2>0. Local # NotIssued
    BY DEF NotIssued, Local
  <2>1. from # NotIssued /\ now + SessionTTL # 0
    BY <2>0 DEF TypeInv, TypeOK
  <2>2. ASSUME NEW j \in SessionIds, Present(j)'
        PROVE  Issued(j)' /\ sessions'[j].deadline # 0
    <3>1. CASE j = id
      BY <3>1, <2>1, <1>1 DEF Issued, TypeInv, TypeOK
    <3>2. CASE j # id
      BY <3>2, <2>2, <1>1 DEF Issued, LedgerInv, PresentInv, Present, TypeInv, TypeOK
    <3> QED BY <3>1, <3>2
  <2> QED BY <2>2 DEF PresentInv
<1>3. PendingInv' /\ OriginInv'
  BY <1>1 DEF LedgerInv, PendingInv, OriginInv, TypeInv, TypeOK
<1>4. OneSessionPerLogin'
  BY <1>1 DEF LedgerInv, OneSessionPerLogin, TypeInv, TypeOK
<1> QED BY <1>2, <1>3, <1>4

(* Every step keeps what ties logins, requests in flight and sessions       *)
(* together.                                                                *)
LEMMA StepLedger == TypeInv /\ LedgerInv /\ [Next]_vars => LedgerInv'
<1> SUFFICES ASSUME TypeInv, LedgerInv, [Next]_vars PROVE LedgerInv'
  OBVIOUS
<1> USE DEF Redeeming
<1>1. CASE Tick
  BY <1>1, QuietStep DEF Tick, provider
<1>2. ASSUME NEW s \in LoginStates, LoginStart(s) PROVE LedgerInv'
  <2>1. /\ \A id \in SessionIds : sessions'[id] \in {sessions[id], ZeroSession}
        /\ \A t \in LoginStates \ {s} : pending'[t] \in {pending[t], 0}
        /\ s \notin begun /\ begun' = begun \cup {s}
        /\ UNCHANGED <<origin, pc, loc>>
    BY <1>2, PrunedEntries DEF LoginStart, PrunedLogins
  <2>2. PresentInv'
    BY <2>1 DEF LedgerInv, PresentInv, Present, Issued
  <2>3. PendingInv' /\ OriginInv' /\ OneSessionPerLogin'
    BY <2>1 DEF LedgerInv, PendingInv, OriginInv, OneSessionPerLogin
  <2>4. RedeemingInv'
    BY <2>1 DEF LedgerInv, RedeemingInv, TypeInv, LocalsInv
  <2> QED BY <2>2, <2>3, <2>4 DEF LedgerInv
<1>3. ASSUME NEW id \in SessionIds, LoginLocal(id) PROVE LedgerInv'
  <2>1. Local \notin LoginStates /\ minted + 1 \in Nat
    BY DEF TypeInv, TypeOK
  <2>2. PresentInv' /\ PendingInv' /\ OriginInv' /\ OneSessionPerLogin'
    BY <1>3, <2>1, ConstantsTyped, EstablishKeepsLedger DEF LoginLocal
  <2>3. RedeemingInv'
    BY <1>3, <2>1, PrunedEntries
       DEF LoginLocal, Establish, LedgerInv, RedeemingInv, TypeInv, TypeOK, LocalsInv
  <2> QED BY <2>2, <2>3 DEF LedgerInv
<1>4. ASSUME NEW r \in Requests, NEW kind \in Kinds, NEW id \in SessionIds,
             SessionLookup(r, kind, id)
      PROVE  LedgerInv'
  <2>1. /\ UNCHANGED <<pending, begun, origin>>
        /\ \A j \in SessionIds : sessions'[j] \in {sessions[j], ZeroSession}
    BY <1>4 DEF SessionLookup, TypeInv, TypeOK
  <2>2. \A q \in Requests : Redeeming(q)' => Redeeming(q) /\ loc'[q].login = loc[q].login
    BY <1>4 DEF SessionLookup, Admit, TypeInv, TypeOK
  <2> QED BY <2>1, <2>2, QuietStep
<1>5. ASSUME NEW r \in Requests, NEW s \in LoginStates, NEW browser \in LoginStates,
             NEW ok \in BOOLEAN, CallbackTake(r, s, browser, ok)
      PROVE  LedgerInv'
  <2>1. /\ UNCHANGED <<sessions, begun, origin>>
        /\ pending' = [pending EXCEPT ![s] = 0]
        /\ s \in begun
    BY <1>5 DEF CallbackTake
  <2>2. PresentInv'
    BY <2>1 DEF LedgerInv, PresentInv, Present, Issued
  <2>3. PendingInv' /\ OriginInv' /\ OneSessionPerLogin'
    BY <2>1 DEF LedgerInv, PendingInv, OriginInv, OneSessionPerLogin, TypeInv, TypeOK
  <2>4. RedeemingInv'
    <3>1. CASE UNCHANGED <<pc, loc>>
      BY <3>1, <2>1 DEF LedgerInv, RedeemingInv, TypeInv, TypeOK, LocalsInv
    <3>2. CASE ~UNCHANGED <<pc, loc>>
      <4>1. /\ pending[s] # 0
            /\ pc' = [pc EXCEPT ![r] = "exchanging"]
            /\ loc'[r].login = s
            /\ \A q \in Requests \ {r} : loc'[q] = loc[q]
        BY <1>5, <3>2 DEF CallbackTake, TypeInv, TypeOK, Locals
      <4>2. \A id \in SessionIds : origin[id] # s
        BY <4>1 DEF LedgerInv, OriginInv
      <4>3. \A q \in Requests : Redeeming(q) => loc[q].login # s
        BY <4>1 DEF LedgerInv, RedeemingInv
      <4> QED BY <4>1, <4>2, <4>3, <2>1
           DEF LedgerInv, RedeemingInv, TypeInv, TypeOK, LocalsInv
    <3> QED BY <3>1, <3>2
  <2> QED BY <2>2, <2>3, <2>4 DEF LedgerInv
<1>6. ASSUME NEW r \in Requests, NEW expiry \in Expiries, NEW lost \in BOOLEAN,
             RefreshGranted(r, expiry, lost)
      PROVE  LedgerInv'
  <2>1. \A q \in Requests : Redeeming(q)' => Redeeming(q) /\ loc'[q].login = loc[q].login
    BY <1>6 DEF RefreshGranted, TypeInv, TypeOK, Locals
  <2> QED BY <1>6, <2>1, QuietStep DEF RefreshGranted
<1>7. ASSUME NEW r \in Requests, RefreshFailed(r) PROVE LedgerInv'
  <2>1. \A q \in Requests : Redeeming(q)' => Redeeming(q) /\ loc'[q].login = loc[q].login
    BY <1>7 DEF RefreshFailed, TypeInv, TypeOK
  <2> QED BY <1>7, <2>1, QuietStep DEF RefreshFailed, provider
<1>8. ASSUME NEW r \in Requests, SessionRelock(r) PROVE LedgerInv'
  <2> DEFINE c == loc[r].cookie
  <2>1. c \in SessionIds /\ sessions[c] \in Session
    BY <1>8 DEF SessionRelock, TypeInv, TypeOK, LocalsInv, HoldsCookie
  <2>2. Refreshed(sessions[c], loc[r].bundle).deadline = sessions[c].deadline
    BY <2>1 DEF Refreshed, Session
  <2>3. \/ sessions' \in {sessions, [sessions EXCEPT ![c] = ZeroSession]}
        \/ /\ Present(c)
           /\ sessions' = [sessions EXCEPT ![c] = Refreshed(sessions[c], loc[r].bundle)]
    BY <1>8 DEF SessionRelock, Overtaken
  <2>4. \A j \in SessionIds :
          \/ sessions'[j] \in {sessions[j], ZeroSession}
          \/ Present(j) /\ sessions'[j].deadline = sessions[j].deadline
    BY <2>1, <2>2, <2>3 DEF TypeInv, TypeOK
  <2>5. \A q \in Requests : Redeeming(q)' => Redeeming(q) /\ loc'[q].login = loc[q].login
    BY <1>8 DEF SessionRelock, Finish, Admit, TypeInv, TypeOK
  <2> QED BY <1>8, <2>4, <2>5, QuietStep DEF SessionRelock
<1>9. ASSUME NEW r \in Requests, Serve(r) \/ Logout(r) \/ ExchangeFailed(r) \/ EstablishFailed(r)
      PROVE  LedgerInv'
  <2>1. \A q \in Requests : Redeeming(q)' => Redeeming(q) /\ loc'[q].login = loc[q].login
    BY <1>9 DEF Serve, Logout, ExchangeFailed, EstablishFailed, Finish, TypeInv, TypeOK
  <2>2. \A j \in SessionIds : sessions'[j] \in {sessions[j], ZeroSession}
    BY <1>9 DEF Serve, Logout, ExchangeFailed, EstablishFailed, TypeInv, TypeOK
  <2> QED BY <1>9, <2>1, <2>2, QuietStep
       DEF Serve, Logout, ExchangeFailed, EstablishFailed
<1>10. ASSUME NEW r \in Requests, NEW refreshable \in BOOLEAN, NEW expiry \in Expiries,
              ExchangeGranted(r, refreshable, expiry)
       PROVE  LedgerInv'
  <2>1. \A q \in Requests : Redeeming(q)' => Redeeming(q) /\ loc'[q].login = loc[q].login
    BY <1>10 DEF ExchangeGranted, TypeInv, TypeOK, Locals
  <2> QED BY <1>10, <2>1, QuietStep DEF ExchangeGranted
<1>11. ASSUME NEW r \in Requests, NEW id \in SessionIds, CallbackEstablish(r, id)
       PROVE  LedgerInv'
  <2> DEFINE s == loc[r].login
  <2>1. /\ s \in LoginStates /\ s \in begun /\ pending[s] = 0
        /\ \A j \in SessionIds : origin[j] # s
        /\ \A q \in Requests \ {r} : Redeeming(q) => loc[q].login # s
    BY <1>11 DEF CallbackEstablish, LedgerInv, RedeemingInv, TypeInv, LocalsInv
  <2>2. loc[r].bundle \in Bundle /\ loc[r].bundle.access \in Nat
    BY DEF TypeInv, TypeOK, Locals, Bundle
  <2>3. PresentInv' /\ PendingInv' /\ OriginInv' /\ OneSessionPerLogin'
    BY <1>11, <2>1, <2>2, EstablishKeepsLedger DEF CallbackEstablish
  <2>4. /\ \A q \in Requests : Redeeming(q)' => q # r /\ Redeeming(q) /\ loc'[q] = loc[q]
        /\ origin' = [origin EXCEPT ![id] = s]
        /\ \A t \in LoginStates : pending'[t] \in {pending[t], 0}
        /\ begun' = begun
    BY <1>11, PrunedEntries DEF CallbackEstablish, Establish, Finish, TypeInv, TypeOK
  <2>5. RedeemingInv'
    BY <2>1, <2>4 DEF LedgerInv, RedeemingInv, TypeInv, TypeOK, LocalsInv
  <2> QED BY <2>3, <2>5 DEF LedgerInv
<1>12. CASE UNCHANGED vars
  BY <1>12, QuietStep DEF vars
<1> QED
  BY <1>1, <1>2, <1>3, <1>4, <1>5, <1>6, <1>7, <1>8, <1>9, <1>10, <1>11, <1>12
     DEF Next, Arrive, Proceed, Refresh, Exchange

(* A login gives rise to at most one session, however many times its       *)
(* callback is delivered (server.go, callback and establishSession).       *)
THEOREM LoginRedeemedOnce == SafetySpec => []OneSessionPerLogin
<1>1. SafetySpec => [](TypeInv /\ LedgerInv)
  BY InitTyped, StepTyped, InitLedger, StepLedger, PTL DEF SafetySpec
<1>2. TypeInv /\ LedgerInv => OneSessionPerLogin
  BY DEF LedgerInv
<1> QED BY <1>1, <1>2, PTL

----------------------------------------------------------------------------
(* The refinement: how each kind of step looks in the ledger. *)

(* The values of the ledger have its types. *)
LEMMA LedgerValues ==
  /\ \A s \in LoginStates : LoginOf(s) \in {"new", "open", "spent", "redeemed"}
  /\ \A id \in SessionIds : StatusOf(id) \in {"unissued", "live", "ended"}
BY DEF LoginOf, StatusOf

(* A login whose entry may have been dropped, and nothing else. *)
LEMMA LoginEntry ==
  ASSUME LedgerInv, NEW s \in LoginStates,
         s \in begun' <=> s \in begun,
         pending'[s] \in {pending[s], 0},
         \A id \in SessionIds : origin'[id] = s <=> origin[id] = s
  PROVE  LoginOf(s)' = LoginOf(s) \/ (LoginOf(s) = "open" /\ LoginOf(s)' = "spent")
<1>1. CASE pending'[s] = pending[s]
  BY <1>1 DEF LoginOf
<1>2. CASE pending'[s] # pending[s]
  <2>1. s \in begun /\ pending[s] # 0 /\ pending'[s] = 0
    BY <1>2 DEF LedgerInv, PendingInv
  <2>2. \A id \in SessionIds : origin[id] # s
    BY <2>1 DEF LedgerInv, OriginInv
  <2> QED BY <2>1, <2>2 DEF LoginOf
<1> QED BY <1>1, <1>2

(* A session whose entry may have been dropped, and nothing else. *)
LEMMA SessionEntry ==
  ASSUME LedgerInv, NEW id \in SessionIds,
         origin'[id] = origin[id],
         Present(id)' => Present(id)
  PROVE  StatusOf(id)' = StatusOf(id) \/ (StatusOf(id) = "live" /\ StatusOf(id)' = "ended")
BY DEF StatusOf, Issued, LedgerInv, PresentInv

(* A step that only drops logins or sessions is one of the ledger. *)
LEMMA DroppingStep ==
  ASSUME LedgerInv, UNCHANGED <<begun, origin>>,
         \A s \in LoginStates : pending'[s] \in {pending[s], 0},
         \A id \in SessionIds : Present(id)' => Present(id)
  PROVE  Ledger!Housekeep
<1>1. \A s \in LoginStates :
        LoginOf(s)' = LoginOf(s) \/ (LoginOf(s) = "open" /\ LoginOf(s)' = "spent")
  BY LoginEntry
<1>2. \A id \in SessionIds :
        StatusOf(id)' = StatusOf(id) \/ (StatusOf(id) = "live" /\ StatusOf(id)' = "ended")
  BY SessionEntry
<1>3. Ledger!LoginStep
  <2>1. \A s \in LoginStates : LoginOf(s)' \in {"new", "open", "spent", "redeemed"}
    BY LedgerValues, <1>1
  <2> QED BY <2>1, <1>1 DEF Ledger!LoginStep, Ledger!DropsLogin
<1>4. Ledger!SessionStep
  <2>1. \A id \in SessionIds : StatusOf(id)' \in {"unissued", "live", "ended"}
    BY LedgerValues, <1>2
  <2> QED BY <2>1, <1>2 DEF Ledger!SessionStep, Ledger!DropsSession
<1> QED BY <1>3, <1>4 DEF Ledger!Housekeep

(* A step that adds a login is one of the ledger. *)
LEMMA OpeningStep ==
  ASSUME TypeInv, LedgerInv, NEW s \in LoginStates, LoginStart(s)
  PROVE  Ledger!Housekeep
<1>1. /\ \A id \in SessionIds : Present(id)' => Present(id)
      /\ \A t \in LoginStates \ {s} : pending'[t] \in {pending[t], 0}
      /\ s \notin begun /\ begun' = begun \cup {s}
      /\ origin' = origin
  BY PrunedEntries DEF LoginStart, PrunedLogins, Present
<1>2. pending'[s] # 0
  <2>1. pending'[s] = now + PendingTTL
    BY DEF LoginStart, PrunedLogins
  <2> QED BY <2>1 DEF TypeInv, TypeOK
<1>3. LoginOf(s) = "new" /\ LoginOf(s)' = "open"
  BY <1>1, <1>2 DEF LoginOf
<1>4. \A t \in LoginStates \ {s} :
        LoginOf(t)' = LoginOf(t) \/ (LoginOf(t) = "open" /\ LoginOf(t)' = "spent")
  BY <1>1, LoginEntry
<1>5. \A id \in SessionIds :
        StatusOf(id)' = StatusOf(id) \/ (StatusOf(id) = "live" /\ StatusOf(id)' = "ended")
  BY <1>1, SessionEntry
<1>6. Ledger!LoginStep
  <2>1. \A t \in LoginStates : LoginOf(t)' \in {"new", "open", "spent", "redeemed"}
    BY LedgerValues, <1>3, <1>4
  <2> QED BY <2>1, <1>3, <1>4 DEF Ledger!LoginStep, Ledger!OpensLogin, Ledger!DropsLogin
<1>7. Ledger!SessionStep
  <2>1. \A id \in SessionIds : StatusOf(id)' \in {"unissued", "live", "ended"}
    BY LedgerValues, <1>5
  <2> QED BY <2>1, <1>5 DEF Ledger!SessionStep, Ledger!DropsSession
<1> QED BY <1>6, <1>7 DEF Ledger!Housekeep

(* What establishSession looks like in the ledger. *)
LEMMA EstablishEntries ==
  ASSUME TypeInv, LedgerInv, NEW id \in SessionIds, NEW from \in LoginStates \cup {Local},
         NEW token \in Nat, NEW bundle \in Bundle,
         Establish(id, from, token, bundle), UNCHANGED begun
  PROVE  /\ StatusOf(id) = "unissued" /\ StatusOf(id)' = "live"
         /\ \A j \in SessionIds \ {id} :
              StatusOf(j)' = StatusOf(j) \/ (StatusOf(j) = "live" /\ StatusOf(j)' = "ended")
         /\ \A s \in LoginStates \ {from} :
              LoginOf(s)' = LoginOf(s) \/ (LoginOf(s) = "open" /\ LoginOf(s)' = "spent")
<1>1. /\ \A j \in SessionIds \ {id} : Present(j)' => Present(j)
      /\ sessions'[id].deadline = now + SessionTTL
      /\ origin' = [origin EXCEPT ![id] = from]
      /\ origin[id] = NotIssued
      /\ \A s \in LoginStates : pending'[s] \in {pending[s], 0}
  BY PrunedEntries DEF Establish, Pruned, Present, Issued
<1>2. Local # NotIssued /\ from # NotIssued
  BY DEF NotIssued, Local
<1>3. now + SessionTTL # 0
  BY DEF TypeInv, TypeOK
<1>4. Present(id)'
  BY <1>1, <1>3 DEF Present, ZeroSession
<1>5. StatusOf(id) = "unissued" /\ StatusOf(id)' = "live"
  BY <1>1, <1>2, <1>4 DEF StatusOf, Issued, TypeInv, TypeOK
<1>6. \A j \in SessionIds \ {id} :
        StatusOf(j)' = StatusOf(j) \/ (StatusOf(j) = "live" /\ StatusOf(j)' = "ended")
  BY <1>1, SessionEntry DEF TypeInv, TypeOK
<1>7. ASSUME NEW s \in LoginStates \ {from}
      PROVE  LoginOf(s)' = LoginOf(s) \/ (LoginOf(s) = "open" /\ LoginOf(s)' = "spent")
  <2>1. \A j \in SessionIds : origin'[j] = s <=> origin[j] = s
    BY <1>1 DEF TypeInv, TypeOK
  <2> QED BY <1>1, <2>1, LoginEntry
<1> QED BY <1>5, <1>6, <1>7

(* A login without provider is one step of the ledger. *)
LEMMA LocalStep ==
  ASSUME TypeInv, LedgerInv, NEW id \in SessionIds, LoginLocal(id)
  PROVE  Ledger!IssueLocal(id)
<1>1. /\ Establish(id, Local, minted + 1, ZeroBundle) /\ UNCHANGED begun
      /\ minted + 1 \in Nat /\ Local \notin LoginStates
  BY DEF LoginLocal, TypeInv, TypeOK
<1>2. /\ StatusOf(id) = "unissued" /\ StatusOf(id)' = "live"
      /\ \A j \in SessionIds \ {id} :
           StatusOf(j)' = StatusOf(j) \/ (StatusOf(j) = "live" /\ StatusOf(j)' = "ended")
      /\ \A s \in LoginStates :
           LoginOf(s)' = LoginOf(s) \/ (LoginOf(s) = "open" /\ LoginOf(s)' = "spent")
  BY <1>1, ConstantsTyped, EstablishEntries
<1>3. Ledger!LoginStep
  <2>1. \A s \in LoginStates : LoginOf(s)' \in {"new", "open", "spent", "redeemed"}
    BY LedgerValues, <1>2
  <2> QED BY <2>1, <1>2 DEF Ledger!LoginStep, Ledger!DropsLogin
<1>4. \A j \in SessionIds : StatusOf(j)' \in {"unissued", "live", "ended"}
  BY LedgerValues, <1>2
<1> QED BY <1>2, <1>3, <1>4 DEF Ledger!IssueLocal, Ledger!DropsSession

(* A step that redeems a login is one of the ledger. *)
LEMMA RedeemingStep ==
  ASSUME TypeInv, LedgerInv, NEW r \in Requests, NEW id \in SessionIds,
         CallbackEstablish(r, id)
  PROVE  Ledger!Redeem(loc[r].login, id)
<1>0. PICK from \in LoginStates : from = loc[r].login
  BY DEF CallbackEstablish, Redeeming, TypeInv, LocalsInv
<1>1. /\ from \in LoginStates /\ from \in begun /\ pending[from] = 0
      /\ \A j \in SessionIds : origin[j] # from
      /\ loc[r].bundle \in Bundle /\ loc[r].bundle.access \in Nat
  BY <1>0 DEF CallbackEstablish, LedgerInv, RedeemingInv, Redeeming, TypeInv, TypeOK, LocalsInv,
         Locals, Bundle
<1>2. /\ Establish(id, from, loc[r].bundle.access, loc[r].bundle)
      /\ UNCHANGED begun
  BY <1>0 DEF CallbackEstablish
<1>3. LoginOf(from) = "spent"
  BY <1>1 DEF LoginOf
<1>4. LoginOf(from)' = "redeemed"
  <2>1. pending'[from] = 0 /\ origin'[id] = from
    BY <1>1, <1>2, PrunedEntries DEF Establish, TypeInv, TypeOK
  <2> QED BY <1>1, <1>2, <2>1 DEF LoginOf
<1>5. /\ StatusOf(id) = "unissued" /\ StatusOf(id)' = "live"
      /\ \A j \in SessionIds \ {id} :
           StatusOf(j)' = StatusOf(j) \/ (StatusOf(j) = "live" /\ StatusOf(j)' = "ended")
      /\ \A s \in LoginStates \ {from} :
           LoginOf(s)' = LoginOf(s) \/ (LoginOf(s) = "open" /\ LoginOf(s)' = "spent")
  BY <1>1, <1>2, EstablishEntries
<1>6. \A s \in LoginStates : LoginOf(s)' \in {"new", "open", "spent", "redeemed"}
  BY LedgerValues, <1>4, <1>5
<1>7. \A j \in SessionIds : StatusOf(j)' \in {"unissued", "live", "ended"}
  BY LedgerValues, <1>5
<1> QED BY <1>0, <1>1, <1>3, <1>4, <1>5, <1>6, <1>7
     DEF Ledger!Redeem, Ledger!DropsLogin, Ledger!DropsSession

(* Every step of the console is one of the ledger, or a stutter. *)
LEMMA StepRefines ==
  TypeInv /\ LedgerInv /\ [Next]_vars => [Ledger!LedgerNext]_(Ledger!ledgerVars)
<1> SUFFICES ASSUME TypeInv, LedgerInv, [Next]_vars
             PROVE  [Ledger!LedgerNext]_(Ledger!ledgerVars)
  OBVIOUS
<1>1. CASE Tick
  BY <1>1, DroppingStep DEF Tick, Present, Ledger!LedgerNext
<1>2. ASSUME NEW s \in LoginStates, LoginStart(s) PROVE Ledger!LedgerNext
  BY <1>2, OpeningStep DEF Ledger!LedgerNext
<1>3. ASSUME NEW id \in SessionIds, LoginLocal(id) PROVE Ledger!LedgerNext
  BY <1>3, LocalStep DEF Ledger!LedgerNext
<1>4. ASSUME NEW r \in Requests, NEW kind \in Kinds, NEW id \in SessionIds,
             SessionLookup(r, kind, id)
      PROVE  Ledger!LedgerNext
  <2>1. \A j \in SessionIds : Present(j)' => Present(j)
    BY <1>4 DEF SessionLookup, Present, TypeInv, TypeOK
  <2> QED BY <1>4, <2>1, DroppingStep DEF SessionLookup, Ledger!LedgerNext
<1>5. ASSUME NEW r \in Requests, NEW s \in LoginStates, NEW browser \in LoginStates,
             NEW ok \in BOOLEAN, CallbackTake(r, s, browser, ok)
      PROVE  Ledger!LedgerNext
  BY <1>5, DroppingStep DEF CallbackTake, Present, TypeInv, TypeOK, Ledger!LedgerNext
<1>6. ASSUME NEW r \in Requests,
             \/ Refresh(r) \/ Exchange(r) \/ Serve(r) \/ EstablishFailed(r)
      PROVE  Ledger!LedgerNext
  <2>1. UNCHANGED <<sessions, pending, begun, origin>>
    BY <1>6 DEF Refresh, RefreshGranted, RefreshFailed, Exchange, ExchangeGranted,
                ExchangeFailed, Serve, EstablishFailed
  <2> QED BY <2>1, DroppingStep DEF Present, Ledger!LedgerNext
<1>7. ASSUME NEW r \in Requests, SessionRelock(r) PROVE Ledger!LedgerNext
  <2>1. \A j \in SessionIds : Present(j)' => Present(j)
    BY <1>7 DEF SessionRelock, Overtaken, Present, TypeInv, TypeOK
  <2> QED BY <1>7, <2>1, DroppingStep DEF SessionRelock, Ledger!LedgerNext
<1>8. ASSUME NEW r \in Requests, Logout(r) PROVE Ledger!LedgerNext
  <2>1. \A j \in SessionIds : Present(j)' => Present(j)
    BY <1>8 DEF Logout, Present, TypeInv, TypeOK
  <2> QED BY <1>8, <2>1, DroppingStep DEF Logout, Ledger!LedgerNext
<1>9. ASSUME NEW r \in Requests, NEW id \in SessionIds, CallbackEstablish(r, id)
      PROVE  Ledger!LedgerNext
  <2>1. loc[r].login \in LoginStates
    BY <1>9 DEF CallbackEstablish, Redeeming, TypeInv, LocalsInv
  <2> QED BY <1>9, <2>1, RedeemingStep DEF Ledger!LedgerNext
<1>10. CASE UNCHANGED vars
  BY <1>10 DEF vars, Ledger!ledgerVars, LoginOf, StatusOf, Issued, Present
<1> QED
  BY <1>1, <1>2, <1>3, <1>4, <1>5, <1>6, <1>7, <1>8, <1>9, <1>10 DEF Next, Arrive, Proceed

(* The console starts as the ledger does. *)
LEMMA InitRefines == Init => Ledger!LedgerInit
BY DEF Init, Ledger!LedgerInit, LoginOf, StatusOf, Issued

(* The console keeps the ledger's promises: sessions are issued once, each *)
(* from a login of its own, and neither a session that ended nor a login   *)
(* that was spent ever comes back (server.go, all handlers).               *)
THEOREM ConsoleImplementsLedger == SafetySpec => ImplementsLedger
BY InitTyped, StepTyped, InitLedger, StepLedger, InitRefines, StepRefines, PTL
   DEF SafetySpec, ImplementsLedger, Ledger!LedgerSpec

----------------------------------------------------------------------------
(* The deadline.  A request in the middle of a refresh remembers a session *)
(* that was alive when it looked, and its provider call is not overdue.    *)

InTime(r) ==
  /\ now <= loc[r].since + RequestLimit
  /\ loc[r].since <= loc[r].sess.deadline

SameDeadline(r) ==
  LET id == loc[r].cookie IN
  /\ Issued(id)
  /\ Present(id) => sessions[id].deadline = loc[r].sess.deadline

RefreshInv ==
  \A r \in Requests : pc[r] \in {"refreshing", "refreshed"} => InTime(r) /\ SameDeadline(r)

(* No request is in flight at first. *)
LEMMA InitRefresh == Init => RefreshInv
BY DEF Init, RefreshInv

(* A step that leaves a request's refresh alone, and the entry it is about *)
(* unless it drops it or keeps its deadline.                               *)
LEMMA RefreshUndisturbed ==
  ASSUME TypeInv, RefreshInv, UNCHANGED now,
         \A id \in SessionIds : Issued(id) => Issued(id)',
         \A id \in SessionIds :
           Issued(id) => \/ ~Present(id)'
                         \/ Present(id) /\ sessions'[id].deadline = sessions[id].deadline,
         NEW r \in Requests, pc[r] \in {"refreshing", "refreshed"},
         loc'[r].since = loc[r].since, loc'[r].sess = loc[r].sess, loc'[r].cookie = loc[r].cookie
  PROVE  (InTime(r) /\ SameDeadline(r))'
<1>1. loc[r].cookie \in SessionIds
  BY DEF TypeInv, LocalsInv, HoldsCookie
<1>2. InTime(r) /\ SameDeadline(r)
  BY DEF RefreshInv
<1>3. InTime(r)'
  BY <1>2 DEF InTime
<1>4. SameDeadline(r)'
  BY <1>1, <1>2 DEF SameDeadline, Issued
<1> QED BY <1>3, <1>4

(* The second critical section stores the answer: the entry is still the   *)
(* one that was looked up.                                                 *)
Stores(r) == pc[r] = "refreshed" /\ loc[r].bundle # ZeroBundle /\ ~Overtaken(loc[r])

(* A session that was issued stays issued, and a step leaves it alone, ends *)
(* it or renews it.                                                         *)
LEMMA EntryChanges ==
  ASSUME TypeInv, [Next]_vars, NEW id \in SessionIds, Issued(id)
  PROVE  /\ Issued(id)'
         /\ \/ sessions'[id] \in {sessions[id], ZeroSession}
            \/ \E r \in Requests :
                 /\ Stores(r) /\ loc[r].cookie = id
                 /\ sessions'[id] = Refreshed(sessions[id], loc[r].bundle)
<1> USE DEF Present, Issued
<1>1. CASE UNCHANGED <<origin, sessions>>
  BY <1>1
<1>2. ASSUME NEW s \in LoginStates, LoginStart(s)
      PROVE  origin' = origin /\ sessions'[id] \in {sessions[id], ZeroSession}
  BY <1>2, PrunedEntries DEF LoginStart
<1>3. ASSUME NEW j \in SessionIds, NEW from, NEW token, NEW bundle,
             Establish(j, from, token, bundle)
      PROVE  origin'[id] = origin[id] /\ sessions'[id] \in {sessions[id], ZeroSession}
  BY <1>3, PrunedEntries DEF Establish, TypeInv, TypeOK, Pruned
<1>4. ASSUME NEW r \in Requests, NEW kind \in Kinds, NEW j \in SessionIds,
             SessionLookup(r, kind, j)
      PROVE  origin' = origin /\ sessions'[id] \in {sessions[id], ZeroSession}
  BY <1>4 DEF SessionLookup, TypeInv, TypeOK
<1>5. ASSUME NEW r \in Requests, SessionRelock(r)
      PROVE  /\ origin' = origin
             /\ \/ sessions'[id] \in {sessions[id], ZeroSession}
                \/ /\ Stores(r) /\ loc[r].cookie = id
                   /\ sessions'[id] = Refreshed(sessions[id], loc[r].bundle)
  <2>1. \/ sessions' \in {sessions, [sessions EXCEPT ![loc[r].cookie] = ZeroSession]}
        \/ /\ Stores(r)
           /\ sessions' = [sessions EXCEPT ![loc[r].cookie] =
                             Refreshed(sessions[loc[r].cookie], loc[r].bundle)]
    BY <1>5 DEF SessionRelock, Stores
  <2> QED BY <1>5, <2>1 DEF SessionRelock, TypeInv, TypeOK
<1>6. ASSUME NEW r \in Requests, Logout(r)
      PROVE  origin' = origin /\ sessions'[id] \in {sessions[id], ZeroSession}
  BY <1>6 DEF Logout, TypeInv, TypeOK
<1>7. \/ UNCHANGED <<origin, sessions>>
      \/ \E s \in LoginStates : LoginStart(s)
      \/ \E j \in SessionIds : Establish(j, Local, minted + 1, ZeroBundle)
      \/ \E r \in Requests, j \in SessionIds :
           Establish(j, loc[r].login, loc[r].bundle.access, loc[r].bundle)
      \/ \E r \in Requests, kind \in Kinds, j \in SessionIds : SessionLookup(r, kind, j)
      \/ \E r \in Requests : SessionRelock(r)
      \/ \E r \in Requests : Logout(r)
  BY DEF Next, vars, Arrive, Proceed, Tick, LoginLocal, CallbackTake, CallbackEstablish,
         Refresh, RefreshGranted, RefreshFailed, Exchange, ExchangeGranted, ExchangeFailed,
         Serve, EstablishFailed
<1> QED BY <1>1, <1>2, <1>3, <1>4, <1>5, <1>6, <1>7

(* No step changes the deadline of a session, whatever else it does to it. *)
LEMMA DeadlinesFixed ==
  ASSUME TypeInv, LedgerInv, [Next]_vars, NEW id \in SessionIds, Issued(id)
  PROVE  /\ Issued(id)'
         /\ \/ ~Present(id)'
            \/ Present(id) /\ sessions'[id].deadline = sessions[id].deadline
<1>1. sessions[id] \in Session
  BY DEF TypeInv, TypeOK
<1>2. ASSUME NEW r \in Requests, Stores(r), loc[r].cookie = id
      PROVE  Present(id) /\ Refreshed(sessions[id], loc[r].bundle).deadline = sessions[id].deadline
  BY <1>1, <1>2 DEF Stores, Overtaken, Refreshed, Session
<1>3. \/ sessions'[id] = ZeroSession \/ sessions'[id] = sessions[id]
      \/ Present(id) /\ sessions'[id].deadline = sessions[id].deadline
  BY <1>2, EntryChanges
<1> QED BY <1>3, EntryChanges DEF Present

(* How a request comes to be refreshing: it was, or it just looked up a    *)
(* session that has not reached its deadline.                              *)
LEMMA RefreshBegins ==
  ASSUME TypeInv, [Next]_vars, NEW r \in Requests, pc'[r] \in {"refreshing", "refreshed"}
  PROVE  \/ /\ pc[r] \in {"refreshing", "refreshed"}
            /\ loc'[r].since = loc[r].since
            /\ loc'[r].sess = loc[r].sess
            /\ loc'[r].cookie = loc[r].cookie
         \/ /\ loc'[r].since = now
            /\ loc'[r].sess = sessions[loc'[r].cookie]
            /\ loc'[r].cookie \in SessionIds
            /\ Issued(loc'[r].cookie)
            /\ ~Expired(loc'[r].sess)
            /\ UNCHANGED <<now, sessions, origin>>
<1> USE DEF TypeInv, TypeOK
<1>1. CASE UNCHANGED <<pc, loc>>
  BY <1>1
<1>2. ASSUME NEW q \in Requests, NEW kind \in Kinds, NEW id \in SessionIds,
             SessionLookup(q, kind, id)
      PROVE  \/ UNCHANGED <<pc, loc>>
             \/ q # r /\ pc'[r] = pc[r] /\ loc'[r] = loc[r]
             \/ /\ q = r
                /\ loc'[r].since = now
                /\ loc'[r].sess = sessions[id]
                /\ loc'[r].cookie = id
                /\ Issued(id)
                /\ ~Expired(sessions[id])
                /\ UNCHANGED <<now, sessions, origin>>
  <2> DEFINE mine == [NoLocals EXCEPT !.kind = kind, !.cookie = id, !.sess = sessions[id]]
             fresh == [mine EXCEPT !.since = now]
  <2>1. fresh.since = now /\ fresh.sess = sessions[id] /\ fresh.cookie = id
    BY DEF NoLocals
  <2>2. \/ UNCHANGED <<pc, loc>>
        \/ Admit(q, mine)
        \/ /\ pc' = [pc EXCEPT ![q] = "refreshing"]
           /\ loc' = [loc EXCEPT ![q] = fresh]
           /\ Issued(id)
           /\ ~Expired(sessions[id])
           /\ UNCHANGED <<now, sessions, origin>>
    BY <1>2 DEF SessionLookup
  <2> HIDE DEF mine, fresh
  <2>3. CASE Admit(q, mine)
    BY <2>3 DEF Admit
  <2> QED BY <2>1, <2>2, <2>3
<1>3. ASSUME NEW q \in Requests, NEW s \in LoginStates, NEW browser \in LoginStates,
             NEW ok \in BOOLEAN, CallbackTake(q, s, browser, ok)
      PROVE  UNCHANGED <<pc, loc>> \/ (q # r /\ pc'[r] = pc[r] /\ loc'[r] = loc[r])
  BY <1>3 DEF CallbackTake
<1>4. ASSUME NEW q \in Requests, Refresh(q)
      PROVE  /\ pc[r] \in {"refreshing", "refreshed"}
             /\ loc'[r].since = loc[r].since
             /\ loc'[r].sess = loc[r].sess
             /\ loc'[r].cookie = loc[r].cookie
  BY <1>4 DEF Refresh, RefreshGranted, RefreshFailed, Locals
<1>5. ASSUME NEW q \in Requests,
             \/ SessionRelock(q) \/ Serve(q) \/ Logout(q) \/ Exchange(q) \/ EstablishFailed(q)
             \/ \E id \in SessionIds : CallbackEstablish(q, id)
      PROVE  q # r /\ pc'[r] = pc[r] /\ loc'[r] = loc[r]
  BY <1>5 DEF SessionRelock, Serve, Logout, Exchange, ExchangeGranted, ExchangeFailed,
              EstablishFailed, CallbackEstablish, Finish, Admit
<1>6. ASSUME Tick \/ (\E s \in LoginStates : LoginStart(s))
               \/ (\E id \in SessionIds : LoginLocal(id)) \/ UNCHANGED vars
      PROVE  UNCHANGED <<pc, loc>>
  BY <1>6 DEF Tick, LoginStart, LoginLocal, vars
<1> QED BY <1>1, <1>2, <1>3, <1>4, <1>5, <1>6 DEF Next, Arrive, Proceed

(* Every step keeps what a request in flight knows of its deadline. *)
LEMMA StepRefresh == TypeInv /\ LedgerInv /\ RefreshInv /\ [Next]_vars => RefreshInv'
<1> SUFFICES ASSUME TypeInv, LedgerInv, RefreshInv, [Next]_vars, NEW r \in Requests,
                    pc'[r] \in {"refreshing", "refreshed"}
             PROVE  (InTime(r) /\ SameDeadline(r))'
  BY DEF RefreshInv
<1>1. CASE Tick
  <2>1. InTime(r) /\ SameDeadline(r) /\ UNCHANGED <<sessions, origin, loc, pc>>
    BY <1>1 DEF Tick, RefreshInv
  <2>2. now < loc[r].since + RequestLimit /\ now' = now + 1
    BY <1>1, <2>1 DEF Tick, MayWait
  <2>3. now \in Nat /\ loc[r].since \in Nat
    BY DEF TypeInv, TypeOK, Locals
  <2> QED BY <2>1, <2>2, <2>3 DEF InTime, SameDeadline, Issued, Present
<1>2. CASE ~Tick
  <2>1. now' = now
    BY <1>2 DEF Next, vars, Arrive, Proceed, LoginStart, LoginLocal, SessionLookup, CallbackTake,
                Refresh, RefreshGranted, RefreshFailed, SessionRelock, Serve, Logout, Exchange,
                ExchangeGranted, ExchangeFailed, CallbackEstablish, EstablishFailed
  <2>2. CASE /\ pc[r] \in {"refreshing", "refreshed"}
             /\ loc'[r].since = loc[r].since
             /\ loc'[r].sess = loc[r].sess
             /\ loc'[r].cookie = loc[r].cookie
    BY <2>1, <2>2, DeadlinesFixed, RefreshUndisturbed
  <2>3. CASE /\ loc'[r].since = now
             /\ loc'[r].sess = sessions[loc'[r].cookie]
             /\ loc'[r].cookie \in SessionIds
             /\ Issued(loc'[r].cookie)
             /\ ~Expired(loc'[r].sess)
             /\ UNCHANGED <<now, sessions, origin>>
    <3>1. now \in Nat /\ loc'[r].sess \in Session
      BY <2>3 DEF TypeInv, TypeOK
    <3>2. now <= loc'[r].sess.deadline
      BY <2>3, <3>1 DEF Expired, Session
    <3> QED BY <2>3, <3>1, <3>2 DEF InTime, SameDeadline, Issued, Present
  <2> QED BY <2>2, <2>3, RefreshBegins
<1> QED BY <1>1, <1>2

(* How session() comes to admit a request: with the entry it finds at      *)
(* first, with the one another request has renewed, or with its own answer. *)
LEMMA HowAdmitted ==
  ASSUME TypeInv, [Next]_vars, NEW r \in Requests, pc[r] # "admitted", pc'[r] = "admitted"
  PROVE  \/ \E id \in SessionIds :
              /\ loc'[r].sess = sessions[id]
              /\ ~Expired(sessions[id]) /\ ~NeedsRefresh(sessions[id])
         \/ /\ pc[r] = "refreshed" /\ Present(loc[r].cookie)
            /\ Overtaken(loc[r]) /\ loc'[r].sess = sessions[loc[r].cookie]
         \/ /\ pc[r] = "refreshed" /\ Present(loc[r].cookie) /\ Stores(r)
            /\ loc'[r].sess = Refreshed(sessions[loc[r].cookie], loc[r].bundle)
<1> USE DEF TypeInv, TypeOK
<1>1. CASE \E kind \in Kinds, id \in SessionIds : SessionLookup(r, kind, id)
  <2>0. PICK kind \in Kinds, id \in SessionIds : SessionLookup(r, kind, id)
    BY <1>1
  <2> DEFINE mine == [NoLocals EXCEPT !.kind = kind, !.cookie = id, !.sess = sessions[id]]
  <2>1. mine.sess = sessions[id]
    BY DEF NoLocals
  <2>2. /\ ~Expired(sessions[id]) /\ ~NeedsRefresh(sessions[id])
        /\ loc' = [loc EXCEPT ![r] = mine]
    BY <2>0 DEF SessionLookup, Admit
  <2> HIDE DEF mine
  <2> QED BY <2>1, <2>2
<1>2. CASE SessionRelock(r)
  <2> DEFINE held(x) == [loc[r] EXCEPT !.sess = x, !.bundle = ZeroBundle]
             id == loc[r].cookie
  <2>1. \A x : held(x).sess = x
    BY DEF Locals
  <2>2. /\ pc[r] = "refreshed" /\ Present(id)
        /\ \/ Overtaken(loc[r]) /\ Admit(r, held(sessions[id]))
           \/ Stores(r) /\ Admit(r, held(Refreshed(sessions[id], loc[r].bundle)))
    BY <1>2 DEF SessionRelock, Stores, Overtaken, Finish
  <2> HIDE DEF held
  <2> QED BY <2>1, <2>2 DEF Admit
<1>3. \/ \E kind \in Kinds, id \in SessionIds : SessionLookup(r, kind, id)
      \/ SessionRelock(r)
  <2>1. ASSUME NEW q \in Requests, NEW kind \in Kinds, NEW id \in SessionIds,
               SessionLookup(q, kind, id), q # r
        PROVE  FALSE
    BY <2>1 DEF SessionLookup, Admit
  <2>2. ASSUME NEW q \in Requests, SessionRelock(q), q # r
        PROVE  FALSE
    BY <2>2 DEF SessionRelock, Admit, Finish
  <2>3. ASSUME NEW q \in Requests, NEW s \in LoginStates, NEW browser \in LoginStates,
               NEW ok \in BOOLEAN, CallbackTake(q, s, browser, ok)
        PROVE  FALSE
    BY <2>3 DEF CallbackTake
  <2>4. ASSUME NEW q \in Requests,
               \/ Refresh(q) \/ Serve(q) \/ Logout(q) \/ Exchange(q) \/ EstablishFailed(q)
               \/ \E id \in SessionIds : CallbackEstablish(q, id)
        PROVE  FALSE
    BY <2>4 DEF Refresh, RefreshGranted, RefreshFailed, Serve, Logout, Exchange,
                ExchangeGranted, ExchangeFailed, EstablishFailed, CallbackEstablish, Finish
  <2>5. ASSUME Tick \/ (\E s \in LoginStates : LoginStart(s))
                 \/ (\E id \in SessionIds : LoginLocal(id)) \/ UNCHANGED vars
        PROVE  FALSE
    BY <2>5 DEF Tick, LoginStart, LoginLocal, vars
  <2> QED BY <2>1, <2>2, <2>3, <2>4, <2>5 DEF Next, Arrive, Proceed
<1> QED BY <1>1, <1>2, <1>3

(* What is known of a request in flight bounds when it is admitted. *)
LEMMA AdmissionInTime ==
  ASSUME TypeInv, RefreshInv, [Next]_vars, NEW r \in Requests,
         pc[r] # "admitted", pc'[r] = "admitted"
  PROVE  now <= loc'[r].sess.deadline + RequestLimit
<1> USE DEF TypeInv, TypeOK
<1>1. ASSUME NEW id \in SessionIds, loc'[r].sess = sessions[id], ~Expired(sessions[id])
      PROVE  now <= loc'[r].sess.deadline + RequestLimit
  <2>1. sessions[id].deadline \in Nat
    BY DEF Session
  <2> QED BY <1>1, <2>1 DEF Expired
<1>2. ASSUME pc[r] = "refreshed", Present(loc[r].cookie),
             loc'[r].sess \in {sessions[loc[r].cookie],
                               Refreshed(sessions[loc[r].cookie], loc[r].bundle)}
      PROVE  now <= loc'[r].sess.deadline + RequestLimit
  <2> DEFINE id == loc[r].cookie
  <2>1. InTime(r) /\ SameDeadline(r) /\ id \in SessionIds
    BY <1>2 DEF RefreshInv, LocalsInv, HoldsCookie
  <2>2. /\ sessions[id] \in Session
        /\ loc[r] \in Locals /\ loc[r].since \in Nat /\ loc[r].sess.deadline \in Nat
    BY <2>1 DEF Locals, Session
  <2>3. Refreshed(sessions[id], loc[r].bundle).deadline = sessions[id].deadline
    BY <2>2 DEF Refreshed, Session
  <2>4. loc'[r].sess.deadline = loc[r].sess.deadline
    BY <1>2, <2>1, <2>3 DEF SameDeadline
  <2> QED BY <2>1, <2>2, <2>4 DEF InTime
<1> QED BY <1>1, <1>2, HowAdmitted

(* session() admits no request more than one provider call after the       *)
(* deadline of its session (server.go, session).                           *)
THEOREM AdmissionBounded == SafetySpec => AdmittedInTime
<1>1. SafetySpec => [](TypeInv /\ LedgerInv /\ RefreshInv)
  BY InitTyped, StepTyped, InitLedger, StepLedger, InitRefresh, StepRefresh, PTL
     DEF SafetySpec
<1>2. TypeInv /\ RefreshInv /\ [Next]_vars
        => [\A r \in Requests : pc[r] # "admitted" /\ pc'[r] = "admitted"
              => now <= loc'[r].sess.deadline + RequestLimit]_vars
  BY AdmissionInTime
<1> QED BY <1>1, <1>2, PTL DEF SafetySpec, AdmittedInTime

----------------------------------------------------------------------------
(* Tokens: where the refresh tokens are, and that concurrent refreshes lose *)
(* none and put no older access token in the place of a newer one.          *)

(* A session that can be renewed stays so: only the second critical section *)
(* of session() changes a refresh token without ending the session.         *)
LEMMA RefreshTokenKept ==
  ASSUME TypeInv, LedgerInv, [Next]_vars, NEW id \in SessionIds,
         Present(id)', sessions[id].refresh # 0
  PROVE  sessions'[id].refresh # 0
<1>1. Issued(id)
  BY DEF LedgerInv, PresentInv, Present, ZeroSession
<1>2. ASSUME NEW r \in Requests, sessions'[id] = Refreshed(sessions[id], loc[r].bundle)
      PROVE  sessions'[id].refresh # 0
  <2>1. sessions[id] \in Session
    BY DEF TypeInv, TypeOK
  <2>2. Refreshed(sessions[id], loc[r].bundle).refresh
          = IF loc[r].bundle.refresh # 0 THEN loc[r].bundle.refresh ELSE sessions[id].refresh
    BY <2>1 DEF Refreshed, Session
  <2> QED BY <1>2, <2>2
<1> QED BY <1>1, <1>2, EntryChanges DEF Present

(* A session that can be renewed stays so until it ends, whether or not the *)
(* provider repeats its refresh token (server.go, session).                 *)
THEOREM RenewableUntilItEnds == SafetySpec => RenewableForLife
<1>1. SafetySpec => [](TypeInv /\ LedgerInv)
  BY InitTyped, StepTyped, InitLedger, StepLedger, PTL DEF SafetySpec
<1>2. TypeInv /\ LedgerInv /\ [Next]_vars
        => [\A id \in SessionIds :
              Present(id)' /\ sessions[id].refresh # 0 => sessions'[id].refresh # 0]_vars
  BY RefreshTokenKept
<1> QED BY <1>1, <1>2, PTL DEF SafetySpec, RenewableForLife

----------------------------------------------------------------------------
(* Where the tokens are *)

(* Requests that refresh a session, and those that hold an answer of the    *)
(* provider not yet stored.                                                 *)
Refreshing(r) == pc[r] \in {"refreshing", "refreshed"}
Answered(r) == pc[r] \in {"refreshed", "exchanged"}

(* The refresh tokens of a session, of the session a request looked up, and *)
(* of the answer it holds.                                                  *)
Kept(id) == sessions[id].refresh
Sent(r) == loc[r].sess.refresh
Got(r) == loc[r].bundle.refresh

(* Every token was minted; who refreshes had a token to send. *)
MintedInv ==
  /\ \A id \in SessionIds : Kept(id) <= minted /\ sessions[id].token <= minted
  /\ \A r \in Requests :
       /\ Refreshing(r) => Sent(r) # 0 /\ Sent(r) <= minted /\ loc[r].sess.token <= minted
       /\ Answered(r) => Got(r) <= minted /\ loc[r].bundle.access <= minted
       /\ pc[r] = "refreshing" => loc[r].bundle = ZeroBundle

(* A refresh token has one place: one session, with the requests that       *)
(* refresh it, or one answer.                                               *)
ApartInv ==
  /\ \A i, j \in SessionIds : Kept(i) = Kept(j) /\ Kept(i) # 0 => i = j
  /\ \A r \in Requests, id \in SessionIds :
       Refreshing(r) /\ Sent(r) = Kept(id) => id = loc[r].cookie
  /\ \A q \in Requests : Answered(q) /\ Got(q) # 0 =>
       /\ \A id \in SessionIds : Got(q) # Kept(id)
       /\ \A r \in Requests : Refreshing(r) => Got(q) # Sent(r)
       /\ \A r \in Requests : Answered(r) /\ Got(q) = Got(r) => q = r

(* An answer that has not been stored is good: nobody else knows of it. *)
AnswerInv ==
  \A r \in Requests :
    /\ Answered(r) /\ Got(r) # 0 => Got(r) \in redeemable
    /\ pc[r] = "refreshed" /\ loc[r].bundle # ZeroBundle =>
         /\ rotation # "static" => Got(r) # 0
         /\ loc[r].bundle.expiry \in {0, now + AccessTTL}
         /\ loc[r].sess.token < loc[r].bundle.access

(* A session that is being refreshed is as it was looked up, or was renewed *)
(* since.                                                                   *)
AsSeen(r) == rotation # "static" => sessions[loc[r].cookie].token = loc[r].sess.token
RenewedSince(r) ==
  LET expires == sessions[loc[r].cookie].expires
  IN  expires = 0 \/ loc[r].since + AccessTTL <= expires
RenewedInv ==
  \A r \in Requests : Refreshing(r) =>
    /\ loc[r].since <= now
    /\ Present(loc[r].cookie) =>
         IF Kept(loc[r].cookie) = Sent(r) THEN AsSeen(r) ELSE RenewedSince(r)

(* A token the provider no longer accepts is being replaced: by a request   *)
(* that nobody has overtaken.                                               *)
Replacing(r, id) == pc[r] = "refreshed" /\ loc[r].cookie = id /\ Sent(r) = Kept(id)
RestInv ==
  \A id \in SessionIds :
    \/ Kept(id) = 0 \/ Kept(id) \in redeemable
    \/ rotation = "strict" /\ \E r \in Requests : Replacing(r, id)

TokenInv == MintedInv /\ ApartInv /\ AnswerInv /\ RenewedInv /\ RestInv

(* The types of what is compared. *)
LEMMA TokenTypes ==
  ASSUME TypeInv
  PROVE  /\ now \in Nat /\ minted \in Nat
         /\ \A id \in SessionIds :
              Kept(id) \in Nat /\ sessions[id].token \in Nat /\ sessions[id].expires \in Nat
         /\ \A r \in Requests :
              /\ Sent(r) \in Nat /\ Got(r) \in Nat /\ loc[r].since \in Nat
              /\ loc[r].sess.token \in Nat /\ loc[r].bundle.access \in Nat
              /\ loc[r].bundle.expiry \in Nat
              /\ Refreshing(r) => loc[r].cookie \in SessionIds
BY DEF TypeInv, TypeOK, LocalsInv, HoldsCookie, Locals, Session, Bundle, Kept, Sent, Got, Refreshing

(* There are no tokens at first. *)
LEMMA InitTokens == Init => TokenInv
<1> SUFFICES ASSUME Init PROVE TokenInv
  OBVIOUS
<1>1. /\ \A id \in SessionIds : sessions[id] = ZeroSession
      /\ \A r \in Requests : pc[r] = "idle"
      /\ minted = 0
  BY DEF Init
<1> QED BY <1>1
      DEF TokenInv, MintedInv, ApartInv, AnswerInv, RenewedInv, RestInv, Kept, Refreshing,
          Answered, ZeroSession

----------------------------------------------------------------------------
(* Steps that leave the tokens where they are *)

Steady == UNCHANGED <<now, rotation, redeemable>> /\ minted' \in Nat /\ minted <= minted'

(* The session is left alone, ends, or is a new one without refresh token. *)
EntryLeft(id) ==
  \/ sessions'[id] \in {sessions[id], ZeroSession}
  \/ ~Issued(id) /\ sessions'[id].refresh = 0 /\ sessions'[id].token <= minted'

(* The request rests, or has nothing to store any more. *)
RequestLeft(r) ==
  \/ pc'[r] = pc[r] /\ loc'[r] = loc[r]
  \/ /\ pc'[r] \notin {"refreshing", "refreshed", "exchanged"}
     /\ \/ pc[r] # "refreshed"
        \/ sessions'[loc[r].cookie] = ZeroSession
        \/ Sent(r) # Kept(loc[r].cookie)

(* A session that ends has no tokens. *)
LEMMA ZeroTokens == ZeroSession.refresh = 0 /\ ZeroSession.token = 0
BY DEF ZeroSession

(* Such a step keeps every part of the invariant.                          *)
LEMMA QuietTokens ==
  ASSUME TypeInv, TypeInv', RefreshInv, TokenInv, Steady,
         \A id \in SessionIds : EntryLeft(id), \A r \in Requests : RequestLeft(r)
  PROVE  TokenInv'
<1>1. /\ \A id \in SessionIds : Kept(id)' \in {Kept(id), 0}
      /\ \A id \in SessionIds : sessions'[id].token \in {sessions[id].token, 0}
                                \/ sessions'[id].token <= minted'
  BY ZeroTokens DEF EntryLeft, Kept
<1>2. \A r \in Requests : Refreshing(r)' \/ Answered(r)' => pc'[r] = pc[r] /\ loc'[r] = loc[r]
  BY DEF RequestLeft, Refreshing, Answered
<1>3. \A r \in Requests : pc'[r] = "refreshing" => pc[r] = "refreshing" /\ loc'[r] = loc[r]
  BY <1>2 DEF Refreshing
<1>4. minted \in Nat /\ minted' \in Nat /\ minted <= minted'
  BY TokenTypes DEF Steady
<1>5. MintedInv'
  <2>1. \A id \in SessionIds : Kept(id)' <= minted' /\ sessions'[id].token <= minted'
    BY <1>1, <1>4, TokenTypes DEF TokenInv, MintedInv
  <2>2. ASSUME NEW r \in Requests
        PROVE  /\ Refreshing(r)' => Sent(r)' # 0 /\ Sent(r)' <= minted' /\ loc'[r].sess.token <= minted'
               /\ Answered(r)' => Got(r)' <= minted' /\ loc'[r].bundle.access <= minted'
               /\ pc'[r] = "refreshing" => loc'[r].bundle = ZeroBundle
    BY <1>2, <1>3, <1>4, TokenTypes DEF TokenInv, MintedInv, Refreshing, Answered, Sent, Got
  <2> QED BY <2>1, <2>2 DEF MintedInv
<1>6. ApartInv'
  BY <1>1, <1>2 DEF TokenInv, MintedInv, ApartInv, Refreshing, Answered, Sent, Got
<1>7. AnswerInv'
  BY <1>2 DEF TokenInv, AnswerInv, Answered, Got, Steady
<1>8. RenewedInv'
  <2> SUFFICES ASSUME NEW r \in Requests, Refreshing(r)'
               PROVE  (/\ loc[r].since <= now
                       /\ Present(loc[r].cookie) =>
                            IF Kept(loc[r].cookie) = Sent(r) THEN AsSeen(r) ELSE RenewedSince(r))'
    BY DEF RenewedInv
  <2>1. Refreshing(r) /\ loc'[r] = loc[r] /\ UNCHANGED <<now, rotation>>
    BY <1>2 DEF Refreshing, Steady
  <2>2. loc[r].cookie \in SessionIds /\ Issued(loc[r].cookie)
    BY <2>1, TokenTypes DEF RefreshInv, SameDeadline, Refreshing
  <2>3. sessions'[loc[r].cookie] \in {sessions[loc[r].cookie], ZeroSession}
    BY <2>2 DEF EntryLeft
  <2> QED BY <2>1, <2>3 DEF TokenInv, RenewedInv, Present, Kept, Sent, AsSeen, RenewedSince
<1>9. RestInv'
  <2> SUFFICES ASSUME NEW id \in SessionIds, Kept(id)' # 0, Kept(id) \notin redeemable
               PROVE  rotation = "strict" /\ \E r \in Requests : Replacing(r, id)'
    BY <1>1 DEF RestInv, Steady
  <2>1. PICK r \in Requests : rotation = "strict" /\ Replacing(r, id)
    BY <1>1 DEF TokenInv, RestInv
  <2>2. pc'[r] = pc[r] /\ loc'[r] = loc[r]
    BY <2>1, ZeroTokens DEF RequestLeft, Replacing, Kept
  <2> QED BY <1>1, <2>1, <2>2 DEF Replacing, Sent
<1> QED BY <1>5, <1>6, <1>7, <1>8, <1>9 DEF TokenInv

----------------------------------------------------------------------------
(* Steps that move tokens *)

(* One request moves. *)
Moves(r) == \A q \in Requests \ {r} : pc'[q] = pc[q] /\ loc'[q] = loc[q]

(* A request looks up a session and begins to refresh it. *)
LEMMA BeginKeepsTokens ==
  ASSUME TypeInv, TypeInv', TokenInv, NEW r \in Requests, NEW id \in SessionIds, Moves(r),
         UNCHANGED <<now, sessions, provider>>,
         pc[r] = "idle", pc'[r] = "refreshing", sessions[id].refresh # 0,
         loc'[r].cookie = id, loc'[r].sess = sessions[id], loc'[r].since = now,
         loc'[r].bundle = ZeroBundle
  PROVE  TokenInv'
<1> USE DEF Moves, provider
<1>1. /\ Sent(r)' = Kept(id) /\ loc'[r].sess.token = sessions[id].token
      /\ Refreshing(r)' /\ ~Answered(r)' /\ ~Refreshing(r) /\ ~Answered(r)
      /\ \A q \in Requests \ {r} :
           /\ Refreshing(q)' <=> Refreshing(q)
           /\ Answered(q)' <=> Answered(q)
           /\ Sent(q)' = Sent(q) /\ Got(q)' = Got(q)
      /\ \A j \in SessionIds : Kept(j)' = Kept(j)
  BY DEF Sent, Kept, Refreshing, Answered, Got
<1>2. MintedInv'
  <2>1. \A j \in SessionIds : Kept(j)' <= minted' /\ sessions'[j].token <= minted'
    BY <1>1 DEF TokenInv, MintedInv
  <2>2. ASSUME NEW q \in Requests
        PROVE  /\ Refreshing(q)' => Sent(q)' # 0 /\ Sent(q)' <= minted' /\ loc'[q].sess.token <= minted'
               /\ Answered(q)' => Got(q)' <= minted' /\ loc'[q].bundle.access <= minted'
               /\ pc'[q] = "refreshing" => loc'[q].bundle = ZeroBundle
    <3>1. CASE q = r
      BY <1>1, <3>1 DEF TokenInv, MintedInv, Kept
    <3>2. CASE q # r
      BY <1>1, <3>2 DEF TokenInv, MintedInv
    <3> QED BY <3>1, <3>2
  <2> QED BY <2>1, <2>2 DEF MintedInv
<1>3. ApartInv'
  <2>1. \A i, j \in SessionIds : Kept(i)' = Kept(j)' /\ Kept(i)' # 0 => i = j
    BY <1>1 DEF TokenInv, ApartInv
  <2>2. ASSUME NEW q \in Requests, NEW j \in SessionIds, Refreshing(q)', Sent(q)' = Kept(j)'
        PROVE  j = loc'[q].cookie
    <3>1. CASE q = r
      BY <1>1, <2>2, <3>1 DEF TokenInv, ApartInv, Kept
    <3>2. CASE q # r
      BY <1>1, <2>2, <3>2 DEF TokenInv, ApartInv
    <3> QED BY <3>1, <3>2
  <2>3. ASSUME NEW q \in Requests, Answered(q)', Got(q)' # 0
        PROVE  /\ \A j \in SessionIds : Got(q)' # Kept(j)'
               /\ \A p \in Requests : Refreshing(p)' => Got(q)' # Sent(p)'
               /\ \A p \in Requests : Answered(p)' /\ Got(q)' = Got(p)' => q = p
    BY <1>1, <2>3 DEF TokenInv, ApartInv
  <2> QED BY <2>1, <2>2, <2>3 DEF ApartInv
<1>4. AnswerInv'
  BY <1>1 DEF TokenInv, AnswerInv, Answered
<1>5. RenewedInv'
  <2>1. ASSUME NEW q \in Requests \ {r}, Refreshing(q)'
        PROVE  (/\ loc[q].since <= now
                /\ Present(loc[q].cookie) =>
                     IF Kept(loc[q].cookie) = Sent(q) THEN AsSeen(q) ELSE RenewedSince(q))'
    <3>1. Refreshing(q) /\ loc'[q] = loc[q]
      BY <1>1, <2>1
    <3> QED BY <3>1 DEF TokenInv, RenewedInv, AsSeen, RenewedSince, Present, Kept, Sent
  <2>2. (/\ loc[r].since <= now
         /\ Kept(loc[r].cookie) = Sent(r) /\ AsSeen(r))'
    BY <1>1, TokenTypes DEF AsSeen
  <2> QED BY <2>1, <2>2 DEF RenewedInv
<1>6. RestInv'
  BY <1>1 DEF TokenInv, RestInv, Replacing
<1> QED BY <1>2, <1>3, <1>4, <1>5, <1>6 DEF TokenInv

(* A call to the provider returns: with a new token, with an answer that is *)
(* lost, or with an error.                                                  *)
LEMMA AnswerKeepsTokens ==
  ASSUME TypeInv, TypeInv', TokenInv, NEW r \in Requests, Moves(r),
         UNCHANGED <<now, sessions, rotation>>,
         \/ pc[r] = "refreshing" /\ pc'[r] = "refreshed"
         \/ pc[r] = "exchanging" /\ pc'[r] = "exchanged",
         loc'[r].cookie = loc[r].cookie, loc'[r].sess = loc[r].sess, loc'[r].since = loc[r].since,
         minted <= minted', loc'[r].bundle.access <= minted', Got(r)' \in {0, minted + 1},
         Got(r)' # 0 => minted' = minted + 1 /\ Got(r)' \in redeemable',
         pc[r] = "refreshing" /\ loc'[r].bundle # ZeroBundle =>
           /\ rotation # "static" => Got(r)' # 0
           /\ loc'[r].bundle.expiry \in {0, now + AccessTTL}
           /\ loc'[r].bundle.access = minted + 1,
         \A t \in redeemable :
           t \in redeemable' \/ (rotation = "strict" /\ pc[r] = "refreshing" /\ t = Sent(r))
  PROVE  TokenInv'
<1>0. minted \in Nat /\ minted' \in Nat /\ Got(r)' \in Nat
  BY TokenTypes, TypeInv' DEF TypeInv, TypeOK
<1>1. /\ Sent(r)' = Sent(r) /\ Answered(r)' /\ ~Answered(r) /\ (Refreshing(r)' <=> Refreshing(r))
      /\ \A q \in Requests \ {r} :
           /\ Refreshing(q)' <=> Refreshing(q)
           /\ Answered(q)' <=> Answered(q)
           /\ Sent(q)' = Sent(q) /\ Got(q)' = Got(q)
      /\ \A j \in SessionIds : Kept(j)' = Kept(j)
  BY DEF Moves, Sent, Kept, Refreshing, Answered, Got
<1>2. MintedInv'
  <2>1. \A j \in SessionIds : Kept(j)' <= minted' /\ sessions'[j].token <= minted'
    BY <1>0, <1>1, TokenTypes DEF TokenInv, MintedInv
  <2>2. ASSUME NEW q \in Requests
        PROVE  /\ Refreshing(q)' => Sent(q)' # 0 /\ Sent(q)' <= minted' /\ loc'[q].sess.token <= minted'
               /\ Answered(q)' => Got(q)' <= minted' /\ loc'[q].bundle.access <= minted'
               /\ pc'[q] = "refreshing" => loc'[q].bundle = ZeroBundle
    <3>1. CASE q = r
      BY <1>0, <1>1, <3>1, TokenTypes DEF TokenInv, MintedInv, Refreshing
    <3>2. CASE q # r
      BY <1>0, <1>1, <3>2, TokenTypes DEF TokenInv, MintedInv, Moves
    <3> QED BY <3>1, <3>2
  <2> QED BY <2>1, <2>2 DEF MintedInv
<1>3. Got(r)' # 0 =>
        /\ \A j \in SessionIds : Got(r)' # Kept(j)
        /\ \A q \in Requests : Refreshing(q) => Got(r)' # Sent(q)
        /\ \A q \in Requests : Answered(q) => Got(r)' # Got(q)
  BY <1>0, TokenTypes DEF TokenInv, MintedInv
<1>4. ApartInv'
  <2>1. \A i, j \in SessionIds : Kept(i)' = Kept(j)' /\ Kept(i)' # 0 => i = j
    BY <1>1 DEF TokenInv, ApartInv
  <2>2. \A q \in Requests, j \in SessionIds :
          Refreshing(q)' /\ Sent(q)' = Kept(j)' => j = loc'[q].cookie
    BY <1>1 DEF TokenInv, ApartInv, Moves
  <2>3. ASSUME NEW q \in Requests, Answered(q)', Got(q)' # 0
        PROVE  /\ \A j \in SessionIds : Got(q)' # Kept(j)'
               /\ \A p \in Requests : Refreshing(p)' => Got(q)' # Sent(p)'
               /\ \A p \in Requests : Answered(p)' /\ Got(q)' = Got(p)' => q = p
    <3>1. CASE q = r
      BY <1>1, <1>3, <2>3, <3>1
    <3>2. CASE q # r
      BY <1>1, <1>3, <2>3, <3>2 DEF TokenInv, ApartInv
    <3> QED BY <3>1, <3>2
  <2> QED BY <2>1, <2>2, <2>3 DEF ApartInv
<1>5. AnswerInv'
  <2> SUFFICES ASSUME NEW q \in Requests
               PROVE  (/\ Answered(q) /\ Got(q) # 0 => Got(q) \in redeemable
                       /\ pc[q] = "refreshed" /\ loc[q].bundle # ZeroBundle =>
                            /\ rotation # "static" => Got(q) # 0
                            /\ loc[q].bundle.expiry \in {0, now + AccessTTL}
                            /\ loc[q].sess.token < loc[q].bundle.access)'
    BY DEF AnswerInv
  <2>1. CASE q = r
    <3>1. pc[r] = "refreshing" => loc[r].sess.token < minted + 1
      BY <1>0, TokenTypes DEF TokenInv, MintedInv, Refreshing
    <3> QED BY <2>1, <3>1
  <2>2. CASE q # r
    <3>1. Answered(q) /\ Got(q) # 0 => Got(q) \in redeemable'
      BY <2>2 DEF TokenInv, AnswerInv, ApartInv, Refreshing
    <3> QED BY <2>2, <3>1, <1>1 DEF TokenInv, AnswerInv, Moves
  <2> QED BY <2>1, <2>2
<1>6. RenewedInv'
  <2> SUFFICES ASSUME NEW q \in Requests, Refreshing(q)'
               PROVE  (/\ loc[q].since <= now
                       /\ Present(loc[q].cookie) =>
                            IF Kept(loc[q].cookie) = Sent(q) THEN AsSeen(q) ELSE RenewedSince(q))'
    BY DEF RenewedInv
  <2>1. /\ Refreshing(q) /\ loc'[q].cookie = loc[q].cookie
        /\ loc'[q].sess = loc[q].sess /\ loc'[q].since = loc[q].since
    BY <1>1 DEF Moves
  <2> QED BY <2>1 DEF TokenInv, RenewedInv, AsSeen, RenewedSince, Present, Kept, Sent
<1>7. RestInv'
  <2> SUFFICES ASSUME NEW id \in SessionIds, Kept(id) # 0, Kept(id) \notin redeemable'
               PROVE  rotation = "strict" /\ \E q \in Requests : Replacing(q, id)'
    BY <1>1 DEF RestInv
  <2>1. CASE Kept(id) \in redeemable
    <3>1. rotation = "strict" /\ pc[r] = "refreshing" /\ Kept(id) = Sent(r)
      BY <2>1
    <3>2. loc[r].cookie = id
      BY <3>1 DEF TokenInv, ApartInv, Refreshing
    <3> QED BY <3>1, <3>2, <1>1 DEF Replacing
  <2>2. CASE Kept(id) \notin redeemable
    <3>1. PICK q \in Requests : rotation = "strict" /\ Replacing(q, id)
      BY <2>2 DEF TokenInv, RestInv
    <3>2. q # r
      BY <3>1 DEF Replacing
    <3> QED BY <3>1, <3>2, <1>1 DEF Replacing, Moves
  <2> QED BY <2>1, <2>2
<1> QED BY <1>2, <1>4, <1>5, <1>6, <1>7 DEF TokenInv

(* An answer is stored: in the session it renews, or in a new one. *)
LEMMA StoredKeepsTokens ==
  ASSUME TypeInv, TypeInv', RefreshInv, TokenInv, NEW r \in Requests, NEW id \in SessionIds,
         Moves(r), UNCHANGED <<now, provider>>,
         Answered(r), pc'[r] \notin {"refreshing", "refreshed", "exchanged"},
         \A j \in SessionIds \ {id} : sessions'[j] \in {sessions[j], ZeroSession},
         sessions'[id].token = loc[r].bundle.access,
         Kept(id)' = Got(r) \/ (Kept(id)' = Kept(id) /\ rotation = "static"),
         \/ pc[r] = "exchanged" /\ ~Issued(id)
         \/ loc[r].cookie = id /\ sessions'[id].expires \in {0, now + AccessTTL}
  PROVE  TokenInv'
<1>0. UNCHANGED <<now, minted, rotation, redeemable>>
  BY DEF provider
<1>1. /\ ~Refreshing(r)' /\ ~Answered(r)' /\ pc'[r] # "refreshing"
      /\ \A q \in Requests \ {r} :
           /\ Refreshing(q)' <=> Refreshing(q)
           /\ Answered(q)' <=> Answered(q)
           /\ Sent(q)' = Sent(q) /\ Got(q)' = Got(q)
      /\ \A j \in SessionIds \ {id} : Kept(j)' \in {Kept(j), 0}
  BY ZeroTokens DEF Moves, Sent, Kept, Refreshing, Answered, Got
<1>2. MintedInv'
  <2>1. \A j \in SessionIds : Kept(j)' <= minted' /\ sessions'[j].token <= minted'
    BY <1>0, <1>1, ZeroTokens, TokenTypes DEF TokenInv, MintedInv
  <2>2. ASSUME NEW q \in Requests
        PROVE  /\ Refreshing(q)' => Sent(q)' # 0 /\ Sent(q)' <= minted' /\ loc'[q].sess.token <= minted'
               /\ Answered(q)' => Got(q)' <= minted' /\ loc'[q].bundle.access <= minted'
               /\ pc'[q] = "refreshing" => loc'[q].bundle = ZeroBundle
    BY <1>0, <1>1 DEF TokenInv, MintedInv, Moves
  <2> QED BY <2>1, <2>2 DEF MintedInv
<1>3. ApartInv'
  <2>1. ASSUME NEW i \in SessionIds, NEW j \in SessionIds, Kept(i)' = Kept(j)', Kept(i)' # 0
        PROVE  i = j
    BY <1>1, <2>1 DEF TokenInv, ApartInv
  <2>2. ASSUME NEW q \in Requests, NEW j \in SessionIds, Refreshing(q)', Sent(q)' = Kept(j)'
        PROVE  j = loc'[q].cookie
    <3>1. q # r /\ Refreshing(q) /\ Sent(q)' = Sent(q) /\ Sent(q) # 0 /\ loc'[q] = loc[q]
      BY <1>1, <2>2 DEF TokenInv, MintedInv, Moves
    <3>2. Kept(j)' = Kept(j)
      BY <1>1, <2>2, <3>1 DEF TokenInv, ApartInv
    <3> QED BY <2>2, <3>1, <3>2 DEF TokenInv, ApartInv
  <2>3. ASSUME NEW q \in Requests, Answered(q)', Got(q)' # 0
        PROVE  /\ \A j \in SessionIds : Got(q)' # Kept(j)'
               /\ \A p \in Requests : Refreshing(p)' => Got(q)' # Sent(p)'
               /\ \A p \in Requests : Answered(p)' /\ Got(q)' = Got(p)' => q = p
    BY <1>1, <2>3 DEF TokenInv, ApartInv
  <2> QED BY <2>1, <2>2, <2>3 DEF ApartInv
<1>4. AnswerInv'
  BY <1>0, <1>1 DEF TokenInv, AnswerInv, Moves, Answered
<1>5. RenewedInv'
  <2> SUFFICES ASSUME NEW q \in Requests, Refreshing(q)'
               PROVE  (/\ loc[q].since <= now
                       /\ Present(loc[q].cookie) =>
                            IF Kept(loc[q].cookie) = Sent(q) THEN AsSeen(q) ELSE RenewedSince(q))'
    BY DEF RenewedInv
  <2>1. Refreshing(q) /\ q # r /\ loc'[q] = loc[q] /\ loc[q].since <= now
    BY <1>1 DEF TokenInv, RenewedInv, Moves
  <2>2. loc[q].cookie \in SessionIds /\ Issued(loc[q].cookie)
    BY <2>1, TokenTypes DEF RefreshInv, SameDeadline, Refreshing
  <2>3. CASE loc[q].cookie = id
    <3>1. RenewedSince(q)'
      <4>1. sessions'[id].expires = 0 \/ sessions'[id].expires = now + AccessTTL
        BY <2>2, <2>3
      <4>2. now \in Nat /\ loc[q].since \in Nat /\ loc'[q].cookie = id /\ loc'[q].since = loc[q].since
        BY <2>1, <2>3, TokenTypes
      <4> QED BY <4>1, <4>2, <2>1, TimesAssumption DEF RenewedSince
    <3>2. Kept(id)' = Sent(q)' => rotation = "static"
      BY <1>1, <2>1 DEF TokenInv, ApartInv, MintedInv
    <3> QED BY <1>0, <2>1, <2>3, <3>1, <3>2 DEF AsSeen
  <2>4. CASE loc[q].cookie # id
    <3>1. sessions'[loc[q].cookie] \in {sessions[loc[q].cookie], ZeroSession}
      BY <2>2, <2>4
    <3> QED BY <1>0, <2>1, <3>1 DEF TokenInv, RenewedInv, Present, Kept, Sent, AsSeen, RenewedSince
  <2> QED BY <2>3, <2>4
<1>6. RestInv'
  <2> SUFFICES ASSUME NEW j \in SessionIds, Kept(j)' # 0, Kept(j)' \notin redeemable
               PROVE  rotation = "strict" /\ \E q \in Requests : Replacing(q, j)'
    BY <1>0 DEF RestInv
  <2>1. Kept(j)' = Kept(j) /\ j # id
    <3>1. j # id
      <4> SUFFICES ASSUME j = id PROVE FALSE
        OBVIOUS
      <4>1. Got(r) # 0 => Got(r) \in redeemable
        BY DEF TokenInv, AnswerInv
      <4>2. Kept(id)' = Kept(id) /\ rotation = "static"
        BY <4>1
      <4> QED BY <4>2 DEF TokenInv, RestInv
    <3> QED BY <1>1, <3>1
  <2>2. PICK q \in Requests : rotation = "strict" /\ Replacing(q, j)
    BY <2>1 DEF TokenInv, RestInv
  <2>3. q # r
    BY <2>1, <2>2 DEF Replacing
  <2> QED BY <1>1, <2>1, <2>2, <2>3 DEF Replacing, Moves
<1> QED BY <1>2, <1>3, <1>4, <1>5, <1>6 DEF TokenInv

----------------------------------------------------------------------------
(* The steps of the console *)

(* Every step keeps the tokens where they should be. *)
LEMMA StepTokens ==
  ASSUME TypeInv, TypeInv', LedgerInv, RefreshInv, TokenInv, [Next]_vars
  PROVE  TokenInv'
<1> USE DEF TypeInv, TypeOK
<1>1. CASE UNCHANGED vars
  <2>1. Steady /\ UNCHANGED <<sessions, pc, loc>>
    BY <1>1 DEF vars, Steady
  <2> QED BY <2>1, QuietTokens DEF EntryLeft, RequestLeft
<1>2. CASE Tick
  <2>1. /\ \A r \in Requests : ~Answered(r)
        /\ now' = now + 1 /\ UNCHANGED <<sessions, pc, loc, rotation, minted, redeemable>>
    BY <1>2 DEF Tick, MayWait, Answered, provider
  <2>2. MintedInv' /\ ApartInv' /\ AnswerInv'
    BY <2>1 DEF TokenInv, MintedInv, ApartInv, AnswerInv, Refreshing, Answered, Kept, Sent, Got
  <2>3. RenewedInv'
    BY <2>1, TokenTypes DEF TokenInv, RenewedInv, Refreshing, AsSeen, RenewedSince, Present, Kept, Sent
  <2>4. RestInv'
    BY <2>1 DEF TokenInv, RestInv, Replacing, Kept, Sent
  <2> QED BY <2>2, <2>3, <2>4 DEF TokenInv
<1>3. ASSUME NEW s \in LoginStates, LoginStart(s) PROVE TokenInv'
  <2>1. /\ Steady /\ UNCHANGED <<pc, loc>>
        /\ \A id \in SessionIds : sessions'[id] \in {sessions[id], ZeroSession}
    BY <1>3, PrunedEntries DEF LoginStart, Steady, provider
  <2> QED BY <2>1, QuietTokens DEF EntryLeft, RequestLeft
<1>4. ASSUME NEW id \in SessionIds, LoginLocal(id) PROVE TokenInv'
  <2>1. /\ Steady /\ UNCHANGED <<pc, loc>> /\ minted' = minted + 1 /\ ~Issued(id)
        /\ \A j \in SessionIds \ {id} : sessions'[j] \in {sessions[j], ZeroSession}
        /\ sessions'[id].refresh = 0 /\ sessions'[id].token = minted + 1
    BY <1>4, PrunedEntries DEF LoginLocal, Establish, Pruned, Steady, ZeroBundle
  <2> QED BY <2>1, QuietTokens DEF EntryLeft, RequestLeft
<1>5. ASSUME NEW r \in Requests, NEW kind \in Kinds, NEW id \in SessionIds,
             SessionLookup(r, kind, id)
      PROVE  TokenInv'
  <2> DEFINE mine == [NoLocals EXCEPT !.kind = kind, !.cookie = id, !.sess = sessions[id]]
             fresh == [mine EXCEPT !.since = now]
  <2>1. /\ fresh.since = now /\ fresh.sess = sessions[id] /\ fresh.cookie = id
        /\ fresh.bundle = ZeroBundle
    BY DEF NoLocals
  <2>2. /\ pc[r] = "idle" /\ UNCHANGED <<now, provider>>
        /\ \/ UNCHANGED <<pc, loc>> /\ sessions' = [sessions EXCEPT ![id] = ZeroSession]
           \/ UNCHANGED sessions /\ Admit(r, mine)
           \/ /\ UNCHANGED sessions
              /\ pc' = [pc EXCEPT ![r] = "refreshing"] /\ loc' = [loc EXCEPT ![r] = fresh]
              /\ sessions[id].refresh # 0
    BY <1>5 DEF SessionLookup, NeedsRefresh
  <2> HIDE DEF mine, fresh
  <2>3. CASE UNCHANGED <<pc, loc>> /\ sessions' = [sessions EXCEPT ![id] = ZeroSession]
    BY <2>2, <2>3, QuietTokens DEF EntryLeft, RequestLeft, Steady, provider
  <2>4. CASE UNCHANGED sessions /\ Admit(r, mine)
    BY <2>2, <2>4, QuietTokens DEF Admit, EntryLeft, RequestLeft, Steady, provider
  <2>5. CASE /\ UNCHANGED sessions
             /\ pc' = [pc EXCEPT ![r] = "refreshing"] /\ loc' = [loc EXCEPT ![r] = fresh]
             /\ sessions[id].refresh # 0
    BY <2>1, <2>2, <2>5, BeginKeepsTokens DEF Moves
  <2> QED BY <2>2, <2>3, <2>4, <2>5
<1>6. ASSUME NEW r \in Requests, NEW s \in LoginStates, NEW browser \in LoginStates,
             NEW ok \in BOOLEAN, CallbackTake(r, s, browser, ok)
      PROVE  TokenInv'
  BY <1>6, QuietTokens DEF CallbackTake, EntryLeft, RequestLeft, Steady, provider
<1>7. ASSUME NEW r \in Requests,
             Serve(r) \/ Logout(r) \/ ExchangeFailed(r) \/ EstablishFailed(r)
      PROVE  TokenInv'
  <2>1. /\ Steady /\ Finish(r) /\ pc[r] \in {"admitted", "exchanging", "exchanged"}
        /\ \A id \in SessionIds : sessions'[id] \in {sessions[id], ZeroSession}
    BY <1>7 DEF Serve, Logout, ExchangeFailed, EstablishFailed, Steady, provider
  <2> QED BY <2>1, QuietTokens DEF Finish, EntryLeft, RequestLeft
<1>8. ASSUME NEW r \in Requests, NEW expiry \in Expiries, NEW lost \in BOOLEAN,
             RefreshGranted(r, expiry, lost)
      PROVE  TokenInv'
  <2> DEFINE rotated == IF rotation = "static" THEN 0 ELSE minted + 1
             b == IF lost THEN ZeroBundle
                  ELSE [access |-> minted + 1, refresh |-> rotated, expiry |-> expiry]
             l == [loc[r] EXCEPT !.bundle = b]
  <2>1. /\ pc[r] = "refreshing" /\ pc' = [pc EXCEPT ![r] = "refreshed"]
        /\ loc' = [loc EXCEPT ![r] = l]
        /\ minted' = minted + 1 /\ UNCHANGED <<now, sessions, rotation>>
        /\ redeemable' = CASE rotation = "strict" -> (redeemable \ {Sent(r)}) \cup {minted + 1}
                           [] rotation = "grace" -> redeemable \cup {minted + 1}
                           [] rotation = "static" -> redeemable
    BY <1>8 DEF RefreshGranted, Sent
  <2>2. rotation \in {"strict", "grace", "static"}
    BY SwitchesAssumption
  <2>3. /\ b.access \in {0, minted + 1} /\ b.refresh \in {0, rotated}
        /\ b # ZeroBundle => /\ b.refresh = rotated /\ b.expiry = expiry
                             /\ b.access = minted + 1
    BY DEF ZeroBundle
  <2>4. /\ l.cookie = loc[r].cookie /\ l.sess = loc[r].sess /\ l.since = loc[r].since
        /\ l.bundle = b
    BY DEF Locals
  <2> HIDE DEF b, l
  <2>5. /\ loc'[r].cookie = loc[r].cookie /\ loc'[r].sess = loc[r].sess
        /\ loc'[r].since = loc[r].since /\ loc'[r].bundle = b /\ Moves(r)
    BY <2>1, <2>4 DEF Moves
  <2>6. Got(r)' \in {0, minted + 1} /\ b.access <= minted'
    BY <2>1, <2>3, <2>5 DEF Got
  <2>7. Got(r)' # 0 => minted' = minted + 1 /\ Got(r)' \in redeemable'
    BY <2>1, <2>2, <2>3, <2>5 DEF Got
  <2>8. b # ZeroBundle => /\ rotation # "static" => Got(r)' # 0
                          /\ b.expiry \in {0, now + AccessTTL}
                          /\ b.access = minted + 1
    BY <2>3, <2>5 DEF Got, Expiries
  <2>9. \A t \in redeemable : t \in redeemable' \/ (rotation = "strict" /\ t = Sent(r))
    BY <2>1, <2>2
  <2>10. /\ pc[r] = "refreshing" /\ pc'[r] = "refreshed" /\ minted <= minted'
         /\ UNCHANGED <<now, sessions, rotation>>
    BY <2>1
  <2> QED BY <2>5, <2>6, <2>7, <2>8, <2>9, <2>10, AnswerKeepsTokens
<1>9. ASSUME NEW r \in Requests, RefreshFailed(r) PROVE TokenInv'
  <2>1. /\ pc[r] = "refreshing" /\ pc' = [pc EXCEPT ![r] = "refreshed"]
        /\ UNCHANGED <<now, sessions, loc, rotation, minted, redeemable>>
    BY <1>9 DEF RefreshFailed, provider
  <2>2. loc[r].bundle = ZeroBundle /\ Got(r)' = 0 /\ loc[r].bundle.access = 0
    BY <2>1 DEF TokenInv, MintedInv, Got, ZeroBundle
  <2> QED BY <2>1, <2>2, AnswerKeepsTokens DEF Moves
<1>10. ASSUME NEW r \in Requests, NEW refreshable \in BOOLEAN, NEW expiry \in Expiries,
              ExchangeGranted(r, refreshable, expiry)
       PROVE  TokenInv'
  <2> DEFINE b == [access |-> minted + 1, refresh |-> IF refreshable THEN minted + 1 ELSE 0,
                   expiry |-> expiry]
             l == [loc[r] EXCEPT !.bundle = b]
  <2>1. /\ pc[r] = "exchanging" /\ pc' = [pc EXCEPT ![r] = "exchanged"]
        /\ loc' = [loc EXCEPT ![r] = l]
        /\ minted' = minted + 1 /\ UNCHANGED <<now, sessions, rotation>>
        /\ redeemable' = IF refreshable THEN redeemable \cup {minted + 1} ELSE redeemable
    BY <1>10 DEF ExchangeGranted
  <2>2. b.access = minted + 1 /\ b.refresh = IF refreshable THEN minted + 1 ELSE 0
    OBVIOUS
  <2>3. /\ l.cookie = loc[r].cookie /\ l.sess = loc[r].sess /\ l.since = loc[r].since
        /\ l.bundle = b
    BY DEF Locals
  <2> HIDE DEF b, l
  <2>4. /\ loc'[r].cookie = loc[r].cookie /\ loc'[r].sess = loc[r].sess
        /\ loc'[r].since = loc[r].since /\ loc'[r].bundle = b /\ Moves(r)
    BY <2>1, <2>3 DEF Moves
  <2>5. Got(r)' = IF refreshable THEN minted + 1 ELSE 0
    BY <2>2, <2>4 DEF Got
  <2> QED BY <2>1, <2>2, <2>4, <2>5, AnswerKeepsTokens
<1>11. ASSUME NEW r \in Requests, SessionRelock(r) PROVE TokenInv'
  <2>0. PICK id \in SessionIds : id = loc[r].cookie
    BY <1>11 DEF SessionRelock, LocalsInv, HoldsCookie
  <2> DEFINE merged == Refreshed(sessions[id], loc[r].bundle)
             held(x) == [loc[r] EXCEPT !.sess = x, !.bundle = ZeroBundle]
  <2>1. pc[r] = "refreshed" /\ UNCHANGED <<now, provider>>
    BY <1>11 DEF SessionRelock
  <2>2. \/ sessions' = [sessions EXCEPT ![id] = ZeroSession] /\ Finish(r)
        \/ /\ UNCHANGED sessions /\ Overtaken(loc[r])
           /\ Finish(r) \/ Admit(r, held(sessions[id]))
        \/ Stores(r) /\ sessions' = [sessions EXCEPT ![id] = merged] /\ Admit(r, held(merged))
    BY <1>11, <2>0 DEF SessionRelock, Stores
  <2> HIDE DEF held
  <2>3. CASE sessions' = [sessions EXCEPT ![id] = ZeroSession] /\ Finish(r)
    BY <2>0, <2>1, <2>3, QuietTokens DEF Finish, EntryLeft, RequestLeft, Steady, provider
  <2>4. CASE /\ UNCHANGED sessions /\ Overtaken(loc[r])
             /\ Finish(r) \/ Admit(r, held(sessions[id]))
    <3>1. sessions[id] = ZeroSession \/ Kept(id) # Sent(r)
      BY <2>0, <2>4 DEF Overtaken, Present, Kept, Sent
    <3>2. Steady /\ \A j \in SessionIds : EntryLeft(j)
      BY <2>1, <2>4 DEF Steady, EntryLeft, provider
    <3>3. \A q \in Requests : RequestLeft(q)
      BY <2>0, <2>1, <2>4, <3>1 DEF RequestLeft, Finish, Admit
    <3> QED BY <3>2, <3>3, QuietTokens
  <2>5. CASE Stores(r) /\ sessions' = [sessions EXCEPT ![id] = merged] /\ Admit(r, held(merged))
    <3>1. /\ merged.token = loc[r].bundle.access /\ merged.expires = loc[r].bundle.expiry
          /\ merged.refresh = IF Got(r) # 0 THEN Got(r) ELSE Kept(id)
      BY <2>1 DEF Refreshed, Session, Got, Kept
    <3>2. /\ rotation # "static" => Got(r) # 0
          /\ loc[r].bundle.expiry \in {0, now + AccessTTL}
      BY <2>1, <2>5 DEF TokenInv, AnswerInv, Stores
    <3> HIDE DEF merged
    <3>3. /\ sessions'[id] = merged
          /\ \A j \in SessionIds \ {id} : sessions'[j] = sessions[j]
      BY <2>1, <2>5
    <3>4. Kept(id)' = Got(r) \/ (Kept(id)' = Kept(id) /\ rotation = "static")
      BY <3>1, <3>2, <3>3 DEF Kept
    <3>5. Answered(r) /\ Moves(r) /\ pc'[r] = "admitted"
      BY <2>1, <2>5 DEF Admit, Moves, Answered
    <3> QED BY <2>0, <2>1, <3>1, <3>2, <3>3, <3>4, <3>5, StoredKeepsTokens
  <2> QED BY <2>2, <2>3, <2>4, <2>5
<1>12. ASSUME NEW r \in Requests, NEW id \in SessionIds, CallbackEstablish(r, id) PROVE TokenInv'
  <2>1. /\ pc[r] = "exchanged" /\ Finish(r) /\ UNCHANGED <<now, provider>>
        /\ ~Issued(id) /\ sessions'[id].token = loc[r].bundle.access /\ Kept(id)' = Got(r)
        /\ \A j \in SessionIds \ {id} : sessions'[j] \in {sessions[j], ZeroSession}
    BY <1>12, PrunedEntries DEF CallbackEstablish, Establish, Pruned, Kept, Got
  <2>2. Answered(r) /\ Moves(r) /\ pc'[r] = "idle"
    BY <2>1 DEF Finish, Moves, Answered
  <2> QED BY <2>1, <2>2, StoredKeepsTokens
<1> QED BY <1>1, <1>2, <1>3, <1>4, <1>5, <1>6, <1>7, <1>8, <1>9, <1>10, <1>11, <1>12
     DEF Next, Arrive, Proceed, Refresh, Exchange

----------------------------------------------------------------------------
(* What follows *)

ConsoleInv == TypeInv /\ LedgerInv /\ RefreshInv /\ TokenInv

(* All of it holds in every state of the console. *)
LEMMA ConsoleAlways == SafetySpec => []ConsoleInv
<1>1. Init => ConsoleInv
  BY InitTyped, InitLedger, InitRefresh, InitTokens DEF ConsoleInv
<1>2. ConsoleInv /\ [Next]_vars => ConsoleInv'
  BY StepTyped, StepLedger, StepRefresh, StepTokens DEF ConsoleInv
<1> QED BY <1>1, <1>2, PTL DEF SafetySpec

(* A session that nobody refreshes holds a refresh token that its provider  *)
(* accepts, or none (server.go, session).                                   *)
THEOREM SessionsStayRefreshable == SafetySpec => []RefreshableAtRest
<1>1. ConsoleInv => RefreshableAtRest
  BY DEF ConsoleInv, TokenInv, RestInv, Replacing, RefreshableAtRest, Kept
<1> QED BY <1>1, ConsoleAlways, PTL

(* An answer is stored only where the token it answers still stands: the    *)
(* access token there is the one looked up, and older than the answer.      *)
LEMMA TokenAdvances ==
  ASSUME ConsoleInv, [Next]_vars, NEW id \in SessionIds, Present(id), Present(id)',
         rotation # "static"
  PROVE  sessions'[id].token >= sessions[id].token
<1> USE DEF ConsoleInv
<1>1. Issued(id) /\ sessions[id] \in Session
  BY DEF LedgerInv, PresentInv, TypeInv, TypeOK
<1>2. ASSUME NEW r \in Requests, Stores(r), loc[r].cookie = id,
             sessions'[id] = Refreshed(sessions[id], loc[r].bundle)
      PROVE  sessions'[id].token >= sessions[id].token
  <2>1. sessions'[id].token = loc[r].bundle.access
    BY <1>1, <1>2 DEF Refreshed, Session
  <2>2. loc[r].sess.token < loc[r].bundle.access
    BY <1>2 DEF TokenInv, AnswerInv, Stores
  <2>3. sessions[id].token = loc[r].sess.token
    BY <1>2 DEF TokenInv, RenewedInv, AsSeen, Refreshing, Stores, Overtaken, Kept, Sent
  <2> QED BY <2>1, <2>2, <2>3, TokenTypes
<1>3. CASE sessions'[id] = sessions[id]
  BY <1>3, TokenTypes
<1> QED BY <1>1, <1>2, <1>3, EntryChanges DEF Present

(* When the provider hands out new refresh tokens, no slow refresh puts an  *)
(* older access token in the place of a newer one (server.go, session).     *)
THEOREM NoRefreshGoesBack == SafetySpec => TokensMoveForward
<1>1. ConsoleInv /\ [Next]_vars
        => [\A id \in SessionIds :
              LET kept == Present(id) /\ Present(id)' /\ rotation # "static"
              IN kept => sessions'[id].token >= sessions[id].token]_vars
  BY TokenAdvances
<1> QED BY <1>1, ConsoleAlways, PTL DEF SafetySpec, TokensMoveForward

(* What a request is admitted with is not about to be refreshed, or was     *)
(* renewed while it waited, which is no longer than an access token lives.  *)
LEMMA AdmissionLive ==
  ASSUME RequestLimit <= AccessTTL, ConsoleInv, [Next]_vars, NEW r \in Requests,
         pc[r] # "admitted", pc'[r] = "admitted",
         loc'[r].sess.expires # 0, loc'[r].sess.refresh # 0
  PROVE  now <= loc'[r].sess.expires
<1> USE DEF ConsoleInv
<1>1. ASSUME NEW id \in SessionIds, loc'[r].sess = sessions[id], ~NeedsRefresh(sessions[id])
      PROVE  now <= loc'[r].sess.expires
  BY <1>1, TimesAssumption, TokenTypes DEF NeedsRefresh
<1>2. ASSUME pc[r] = "refreshed", Present(loc[r].cookie), Overtaken(loc[r]),
             loc'[r].sess = sessions[loc[r].cookie]
      PROVE  now <= loc'[r].sess.expires
  <2>1. RenewedSince(r) /\ loc[r].cookie \in SessionIds
    BY <1>2, TokenTypes DEF TokenInv, RenewedInv, Refreshing, Overtaken, Kept, Sent
  <2>2. now <= loc[r].since + RequestLimit
    BY <1>2 DEF RefreshInv, InTime
  <2> QED BY <1>2, <2>1, <2>2, TimesAssumption, TokenTypes DEF RenewedSince
<1>3. ASSUME pc[r] = "refreshed", Present(loc[r].cookie), Stores(r),
             loc'[r].sess = Refreshed(sessions[loc[r].cookie], loc[r].bundle)
      PROVE  now <= loc'[r].sess.expires
  <2>1. sessions[loc[r].cookie] \in Session
    BY <1>3, TokenTypes DEF Refreshing, TypeInv, TypeOK
  <2>2. loc'[r].sess.expires = loc[r].bundle.expiry
    BY <1>3, <2>1 DEF Refreshed, Session
  <2>3. loc[r].bundle.expiry \in {0, now + AccessTTL}
    BY <1>3 DEF TokenInv, AnswerInv, Stores
  <2> QED BY <2>2, <2>3, TimesAssumption, TokenTypes
<1> QED BY <1>1, <1>2, <1>3, HowAdmitted

(* session() admits no request with a renewable session whose access token  *)
(* has expired, if an access token lives as long as a provider call may     *)
(* take (server.go, session and requestLimit).                              *)
THEOREM AdmittedTokensLive == RequestLimit <= AccessTTL /\ SafetySpec => AdmittedWithLiveToken
<1>1. RequestLimit <= AccessTTL /\ ConsoleInv /\ [Next]_vars
        => [\A r \in Requests :
              LET held == loc'[r].sess
                  admits == pc[r] # "admitted" /\ pc'[r] = "admitted"
                  renewable == held.expires # 0 /\ held.refresh # 0
              IN admits /\ renewable => now <= held.expires]_vars
  BY AdmissionLive
<1>2. CASE RequestLimit <= AccessTTL
  BY <1>1, <1>2, ConsoleAlways, PTL DEF SafetySpec, AdmittedWithLiveToken
<1> QED BY <1>2
=============================================================================
