--------------------------- MODULE SessionLedger ---------------------------
(***************************************************************************)
(* What the browser console promises about logins and sessions, whatever   *)
(* requests, token refreshes and clean-ups are in flight:                  *)
(*  - a login that was started is redeemed by at most one callback, and    *)
(*    never again once it was spent, expired or swept away;                *)
(*  - a session identifier is issued once, and a session that ended (by    *)
(*    logout, deadline, failed refresh or sweep) never comes back.         *)
(* ConsoleSessions is shown to implement this specification.               *)
(***************************************************************************)

CONSTANTS
  SessionIds,   \* values of the session cookie
  LoginStates   \* values of the OIDC "state" parameter

VARIABLES
  login,   \* state of every login: "new", "open", "spent" or "redeemed"
  status   \* state of every session: "unissued", "live" or "ended"

ledgerVars == <<login, status>>

LedgerInit ==
  /\ login = [s \in LoginStates |-> "new"]
  /\ status = [id \in SessionIds |-> "unissued"]

(* Entries may be dropped along with any operation, in any number. *)
DropsLogin(s) == login[s] = "open" /\ login'[s] = "spent"
DropsSession(id) == status[id] = "live" /\ status'[id] = "ended"

OpensLogin(s) == login[s] = "new" /\ login'[s] = "open"

(* One step of the ledger, entry by entry. *)
LoginStep ==
  /\ login' \in [LoginStates -> {"new", "open", "spent", "redeemed"}]
  /\ \A s \in LoginStates :
       \/ login'[s] = login[s]
       \/ OpensLogin(s)
       \/ DropsLogin(s)

SessionStep ==
  /\ status' \in [SessionIds -> {"unissued", "live", "ended"}]
  /\ \A id \in SessionIds : status'[id] = status[id] \/ DropsSession(id)

(* Nothing is issued: logins start and entries disappear. *)
Housekeep == LoginStep /\ SessionStep

(* A spent login becomes one new session; other entries may be dropped. *)
Redeem(s, id) ==
  /\ login[s] = "spent"
  /\ status[id] = "unissued"
  /\ login' \in [LoginStates -> {"new", "open", "spent", "redeemed"}]
  /\ login'[s] = "redeemed"
  /\ \A t \in LoginStates \ {s} : login'[t] = login[t] \/ DropsLogin(t)
  /\ status' \in [SessionIds -> {"unissued", "live", "ended"}]
  /\ status'[id] = "live"
  /\ \A j \in SessionIds \ {id} : status'[j] = status[j] \/ DropsSession(j)

(* The gateway's loopback bootstrap issues a session without a login. *)
IssueLocal(id) ==
  /\ status[id] = "unissued"
  /\ status' \in [SessionIds -> {"unissued", "live", "ended"}]
  /\ status'[id] = "live"
  /\ \A j \in SessionIds \ {id} : status'[j] = status[j] \/ DropsSession(j)
  /\ LoginStep

LedgerNext ==
  \/ Housekeep
  \/ \E id \in SessionIds : IssueLocal(id)
  \/ \E s \in LoginStates, id \in SessionIds : Redeem(s, id)

LedgerSpec == LedgerInit /\ [][LedgerNext]_ledgerVars
=============================================================================
