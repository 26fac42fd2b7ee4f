---------------------------- MODULE ProxySecrets ----------------------------
(***************************************************************************)
(* The secrets a sandbox's proxy hands to outgoing requests                *)
(* (src/internal/service/app.go, Proxy and refreshProxySecrets).  The      *)
(* proxy process asks the gateway for the sandbox's secrets at start and   *)
(* then every 30 seconds; keys of its own environment are a fallback for   *)
(* keys the gateway does not manage.  The set of managed keys lives in the *)
(* process and is lost when the container restarts.                        *)
(*                                                                         *)
(* Of a secret's value only its origin matters: "env" is whatever the      *)
(* process environment holds, a member of Grants is a value the gateway    *)
(* granted, "" is a grant with an empty value.                             *)
(*                                                                         *)
(* A definition introduced by "Variant:" is a deliberately wrong version   *)
(* of the one after it, used by nothing.                                   *)
(***************************************************************************)
EXTENDS Naturals

CONSTANTS
  Keys,         \* names of secrets
  GithubToken,  \* GITHUB_TOKEN and
  GhToken,      \* GH_TOKEN, which mirror each other
  Grants,       \* values the gateway hands out
  MaxChanges,   \* bound on changes of the gateway's secrets
  MaxRestarts   \* bound on restarts of the proxy process

Absent == "absent"
Env == "env"
Empty == ""

ASSUME SecretsAssumption ==
  /\ GithubToken \in Keys /\ GhToken \in Keys /\ GithubToken # GhToken
  /\ Grants \cap {Absent, Env, Empty} = {}
  /\ MaxChanges \in Nat /\ MaxRestarts \in Nat

GatewayValues == Grants \cup {Absent, Empty}
Values == Grants \cup {Absent, Env, Empty}

VARIABLES
  environment,  \* the process environment, fixed when the container was made
  gateway,      \* external: the gateway's secrets for the sandbox
  managed,      \* a.gatewaySecretKeys[sandbox]
  store,        \* the proxy's secret store
  pc, answer,   \* the refresh in progress and the answer it holds
  granted,      \* history: keys some applied answer contained,
  valued,       \* history: and those it had a value for
  changes, restarts

vars == <<environment, gateway, managed, store, pc, answer, granted, valued, changes, restarts>>

NoSecrets == [k \in Keys |-> Absent]
Present(m) == {k \in Keys : m[k] # Absent}
HasValue(m, k) == m[k] \notin {Absent, Empty}

(* proxy.NewServer starts out with the secrets of the environment. *)
Init ==
  /\ environment \in [Keys -> {Absent, Env}]
  /\ gateway \in [Keys -> GatewayValues]
  /\ managed = {}
  /\ store = environment
  /\ pc = "idle"
  /\ answer = NoSecrets
  /\ granted = {} /\ valued = {}
  /\ changes = 0
  /\ restarts = 0

(* The operator grants, rotates or revokes a secret at the gateway. *)
GatewayChange(k, v) ==
  /\ changes < MaxChanges
  /\ gateway[k] # v
  /\ gateway' = [gateway EXCEPT ![k] = v]
  /\ changes' = changes + 1
  /\ UNCHANGED <<environment, managed, store, pc, answer, granted, valued, restarts>>

(* ResolveSecrets answers.  When it fails refreshProxySecrets returns at   *)
(* once and nothing changes, so a failure needs no action of its own.      *)
Resolve ==
  /\ pc = "idle"
  /\ pc' = "resolved"
  /\ answer' = gateway
  /\ UNCHANGED <<environment, gateway, managed, store, granted, valued, changes, restarts>>

\* Variant: an alias of a granted key is not managed.
ManagedWithoutAliases(m) == Present(m)

(* Keys an answer makes managed: its own, and the other GitHub token's     *)
(* name when it has a value for one of them.                               *)
ManagedBy(m) ==
  Present(m)
    \cup (IF HasValue(m, GithubToken) THEN {GhToken} ELSE {})
    \cup (IF HasValue(m, GhToken) THEN {GithubToken} ELSE {})

\* Variant: only the keys of the last answer are kept from the environment.
FallbackForgetful(environ, m, keys) ==
  [k \in Keys |-> IF m[k] # Absent THEN m[k] ELSE environ[k]]

\* Variant: a key that was granted once keeps the value it has.
FallbackSticky(environ, m, keys) ==
  [k \in Keys |-> IF m[k] # Absent THEN m[k]
                  ELSE IF k \in keys THEN store[k] ELSE environ[k]]

(* gatewayProxySecretSnapshot before the aliases are mirrored. *)
Fallback(environ, m, keys) ==
  [k \in Keys |-> IF m[k] # Absent THEN m[k]
                  ELSE IF k \in keys THEN Absent ELSE environ[k]]

Mirrored(s, from, to) ==
  IF HasValue(s, from) /\ s[to] = Absent THEN [s EXCEPT ![to] = s[from]] ELSE s

Snapshot(environ, m, keys) ==
  Mirrored(Mirrored(Fallback(environ, m, keys), GithubToken, GhToken), GhToken, GithubToken)

(* The rest of refreshProxySecrets.  The proxy refreshes from one goroutine*)
(* at a time, so nothing comes between building the store and setting it.  *)
Apply ==
  /\ pc = "resolved"
  /\ managed' = managed \cup ManagedBy(answer)
  /\ store' = Snapshot(environment, answer, managed')
  /\ granted' = granted \cup Present(answer)
  /\ valued' = valued \cup {k \in Keys : HasValue(answer, k)}
  /\ pc' = "idle"
  /\ answer' = NoSecrets
  /\ UNCHANGED <<environment, gateway, changes, restarts>>

(* The proxy process is restarted in the same container. *)
Restart ==
  /\ restarts < MaxRestarts
  /\ restarts' = restarts + 1
  /\ managed' = {}
  /\ store' = environment
  /\ pc' = "idle"
  /\ answer' = NoSecrets
  /\ UNCHANGED <<environment, gateway, granted, valued, changes>>

Next ==
  \/ \E k \in Keys, v \in GatewayValues : GatewayChange(k, v)
  \/ Resolve
  \/ Apply
  \/ Restart

(* The ticker keeps firing, and not every call to the gateway fails. *)
Fairness == WF_vars(Resolve) /\ WF_vars(Apply)

SafetySpec == Init /\ [][Next]_vars
Spec == SafetySpec /\ Fairness

----------------------------------------------------------------------------
(* Properties *)

(* Every variable has its type. *)
TypeOK ==
  /\ environment \in [Keys -> {Absent, Env}]
  /\ gateway \in [Keys -> GatewayValues]
  /\ managed \subseteq Keys
  /\ store \in [Keys -> Values]
  /\ pc \in {"idle", "resolved"}
  /\ answer \in [Keys -> GatewayValues]
  /\ granted \subseteq Keys /\ valued \subseteq Keys
  /\ changes \in Nat
  /\ restarts \in Nat

OtherName(k) == IF k = GithubToken THEN GhToken ELSE GithubToken

(* A key the gateway has granted never shows the environment's value       *)
(* again, whether it was revoked or rotated since (app.go, the comment at  *)
(* gatewaySecretKeys).  The code has one exception: a GitHub name whose    *)
(* every grant was empty shows the value that the environment has for the  *)
(* other name, as long as that one was never granted.                      *)
RevokedStaysRevoked ==
  \A k \in granted : store[k] = Env =>
    /\ k \in {GithubToken, GhToken} /\ k \notin valued
    /\ OtherName(k) \notin granted /\ environment[OtherName(k)] = Env

(* It holds as long as the proxy runs. *)
RevokedWhileRunning == restarts = 0 => RevokedStaysRevoked

(* The two GitHub names never hold a granted value and the environment's   *)
(* value at the same time.                                                 *)
TokensAgree ==
  /\ ~(store[GithubToken] \in Grants /\ store[GhToken] = Env)
  /\ ~(store[GhToken] \in Grants /\ store[GithubToken] = Env)

(* Once the gateway's secrets stop changing, the proxy ends up with all of *)
(* them and with no granted value but those, under their own name or under *)
(* the other GitHub name: a rotated or revoked value is not served forever.*)
CurrentGrants(k) ==
  {gateway[k]} \cup (IF k = GithubToken THEN {gateway[GhToken]} ELSE {})
               \cup (IF k = GhToken THEN {gateway[GithubToken]} ELSE {})
UpToDate(k) ==
  /\ gateway[k] # Absent => store[k] = gateway[k]
  /\ store[k] \in Grants => store[k] \in CurrentGrants(k)
Settles == <>[](\A k \in Keys : UpToDate(k))
=============================================================================
