------------------------- MODULE ProxySecretsProofs -------------------------
(***************************************************************************)
(* What holds of the proxy's secrets for every set of keys and grants.     *)
(* The argument: a snapshot is built from the answer, which wins, and from *)
(* the environment, which is cut down to the keys no answer ever named     *)
(* (SnapshotTyped, SnapshotHidesManaged, SnapshotAgrees).  Every key an    *)
(* answer named stays managed for the life of the process (Inv).           *)
(***************************************************************************)
EXTENDS ProxySecrets, TLAPS

(* The two names are distinct keys, and no grant is a marker. *)
LEMMA Markers ==
  /\ GithubToken \in Keys /\ GhToken \in Keys /\ GithubToken # GhToken
  /\ Absent \notin Grants /\ Env \notin Grants /\ Empty \notin Grants
  /\ Absent # Env /\ Absent # Empty /\ Env # Empty
  /\ Env \notin GatewayValues /\ GatewayValues \subseteq Values
  /\ Grants \subseteq Values /\ Absent \in Values /\ Env \in Values
  <1>1. Absent # Env /\ Absent # Empty /\ Env # Empty
    BY DEF Absent, Env, Empty
  <1> QED
    BY <1>1, SecretsAssumption DEF GatewayValues, Values

(* Mirroring maps a store of the right type to one. *)
LEMMA MirroredTyped ==
  ASSUME NEW s \in [Keys -> Values], NEW from \in Keys, NEW to \in Keys
  PROVE  Mirrored(s, from, to) \in [Keys -> Values]
  BY DEF Mirrored

(* What the store holds before mirroring. *)
LEMMA FallbackTyped ==
  ASSUME NEW e \in [Keys -> {Absent, Env}], NEW m \in [Keys -> GatewayValues], NEW keys
  PROVE  Fallback(e, m, keys) \in [Keys -> Values]
  BY Markers DEF Fallback

(* A snapshot is a store of secrets. *)
LEMMA SnapshotTyped ==
  ASSUME NEW e \in [Keys -> {Absent, Env}], NEW m \in [Keys -> GatewayValues], NEW keys
  PROVE  Snapshot(e, m, keys) \in [Keys -> Values]
  BY FallbackTyped, MirroredTyped, Markers DEF Snapshot

(* The other GitHub name shows through under k, which no environment has.  *)
ShowsOther(e, keys, k) ==
  k \in {GithubToken, GhToken} /\ OtherName(k) \notin keys /\ e[OtherName(k)] = Env

(* A managed key shows nothing of the environment, but for a GitHub name   *)
(* whose other name is not managed and mirrored.                           *)
LEMMA SnapshotHidesManaged ==
  ASSUME NEW e \in [Keys -> {Absent, Env}], NEW m \in [Keys -> GatewayValues],
         NEW keys, NEW k \in keys \cap Keys, Snapshot(e, m, keys)[k] = Env
  PROVE  ShowsOther(e, keys, k)
  <1> DEFINE F == Fallback(e, m, keys)
             G == Mirrored(F, GithubToken, GhToken)
             H == Mirrored(G, GhToken, GithubToken)
  <1>1. F \in [Keys -> Values] /\ \A n \in Keys : F[n] = Env => n \notin keys /\ e[n] = Env
    BY FallbackTyped, Markers DEF Fallback
  <1> HIDE DEF F
  <1>2. /\ G \in [Keys -> Values]
        /\ \A n \in Keys : n # GhToken => G[n] = F[n]
        /\ G[GhToken] = F[GhToken] \/ (G[GhToken] = F[GithubToken] /\ F[GithubToken] # Absent)
    BY <1>1, MirroredTyped, Markers DEF Mirrored, HasValue
  <1> HIDE DEF G
  <1>3. /\ \A n \in Keys : n # GithubToken => H[n] = G[n]
        /\ H[GithubToken] = G[GithubToken]
             \/ (H[GithubToken] = G[GhToken] /\ G[GithubToken] = Absent)
    BY <1>2, Markers DEF Mirrored
  <1>4. H[k] = Env
    BY DEF F, G, Snapshot
  <1> HIDE DEF H
  <1>5. CASE k = GithubToken
    BY <1>1, <1>2, <1>3, <1>4, <1>5, Markers DEF ShowsOther, OtherName
  <1>6. CASE k = GhToken
    BY <1>1, <1>2, <1>3, <1>4, <1>6, Markers DEF ShowsOther, OtherName
  <1>7. k \in {GithubToken, GhToken}
    BY <1>1, <1>2, <1>3, <1>4, Markers
  <1> QED
    BY <1>5, <1>6, <1>7

(* The GitHub names of a snapshot agree once every name with a value in    *)
(* the answer has its alias managed.                                       *)
LEMMA SnapshotAgrees ==
  ASSUME NEW e \in [Keys -> {Absent, Env}], NEW m \in [Keys -> GatewayValues], NEW keys,
         ManagedBy(m) \subseteq keys
  PROVE  LET s == Snapshot(e, m, keys)
         IN /\ ~(s[GithubToken] \in Grants /\ s[GhToken] = Env)
            /\ ~(s[GhToken] \in Grants /\ s[GithubToken] = Env)
  <1> DEFINE Agree(s) == /\ ~(s[GithubToken] \in Grants /\ s[GhToken] = Env)
                         /\ ~(s[GhToken] \in Grants /\ s[GithubToken] = Env)
             F == Fallback(e, m, keys)
             G == Mirrored(F, GithubToken, GhToken)
             H == Mirrored(G, GhToken, GithubToken)
  <1>1. F \in [Keys -> Values] /\ Agree(F)
    <2>1. ASSUME NEW k \in {GithubToken, GhToken}, F[k] \in Grants
          PROVE  HasValue(m, k)
      BY <2>1, Markers DEF Fallback, HasValue
    <2>2. ASSUME NEW k \in Keys, F[k] = Env
          PROVE  k \notin keys
      BY <2>2, Markers DEF Fallback
    <2> QED
      BY <2>1, <2>2, FallbackTyped, Markers DEF ManagedBy
  <1> HIDE DEF F
  <1>2. G \in [Keys -> Values] /\ Agree(G)
    <2>1. CASE F[GhToken] = Absent
      BY <2>1, <1>1, MirroredTyped, Markers DEF Mirrored
    <2>2. CASE F[GhToken] # Absent
      BY <2>2, <1>1, MirroredTyped, Markers DEF Mirrored
    <2> QED
      BY <2>1, <2>2
  <1> HIDE DEF G
  <1>3. Agree(H)
    <2>1. CASE G[GithubToken] = Absent
      BY <2>1, <1>2, Markers DEF Mirrored
    <2>2. CASE G[GithubToken] # Absent
      BY <2>2, <1>2, Markers DEF Mirrored
    <2> QED
      BY <2>1, <2>2
  <1>4. H = Snapshot(e, m, keys)
    BY DEF F, G, Snapshot
  <1> QED
    BY <1>3, <1>4

----------------------------------------------------------------------------
(* The proxy's secrets keep their types. *)
THEOREM SecretsTyped == SafetySpec => []TypeOK
  <1>1. Init => TypeOK
    <2> SUFFICES ASSUME Init PROVE TypeOK OBVIOUS
    <2>1. store \in [Keys -> Values] /\ answer \in [Keys -> GatewayValues]
      BY Markers DEF Init, NoSecrets, GatewayValues, Values
    <2> QED
      BY <2>1 DEF Init, TypeOK
  <1>2. TypeOK /\ [Next]_vars => TypeOK'
    <2> SUFFICES ASSUME TypeOK, [Next]_vars PROVE TypeOK' OBVIOUS
    <2>1. ASSUME NEW k \in Keys, NEW v \in GatewayValues, GatewayChange(k, v) PROVE TypeOK'
      BY <2>1 DEF GatewayChange, TypeOK
    <2>2. CASE Resolve
      BY <2>2 DEF Resolve, TypeOK
    <2>3. CASE Apply
      <3>1. managed' \subseteq Keys /\ granted' \subseteq Keys
        BY <2>3, Markers DEF Apply, ManagedBy, Present, TypeOK
      <3>2. store' \in [Keys -> Values]
        BY <2>3, SnapshotTyped DEF Apply, TypeOK
      <3>3. answer' \in [Keys -> GatewayValues]
        BY <2>3 DEF Apply, NoSecrets, GatewayValues
      <3> QED
        BY <2>3, <3>1, <3>2, <3>3 DEF Apply, TypeOK
    <2>4. CASE Restart
      <3>1. store' \in [Keys -> Values] /\ answer' \in [Keys -> GatewayValues]
        BY <2>4, Markers DEF Restart, TypeOK, NoSecrets, GatewayValues, Values
      <3> QED
        BY <2>4, <3>1 DEF Restart, TypeOK
    <2>5. CASE UNCHANGED vars
      BY <2>5 DEF vars, TypeOK
    <2> QED
      BY <2>1, <2>2, <2>3, <2>4, <2>5 DEF Next
  <1> QED
    BY <1>1, <1>2, PTL DEF SafetySpec

(* A granted value and the environment's value never stand under the two   *)
(* GitHub names, whatever the restarts and whatever the answers.           *)
THEOREM TokensNeverDisagree == SafetySpec => []TokensAgree
  <1>1. Init => TokensAgree
    BY Markers DEF Init, TokensAgree
  <1>2. TypeOK /\ TokensAgree /\ [Next]_vars => TokensAgree'
    <2> SUFFICES ASSUME TypeOK, TokensAgree, [Next]_vars PROVE TokensAgree' OBVIOUS
    <2>1. CASE Apply
      <3>1. ManagedBy(answer) \subseteq managed'
        BY <2>1 DEF Apply
      <3>2. environment \in [Keys -> {Absent, Env}] /\ answer \in [Keys -> GatewayValues]
        BY DEF TypeOK
      <3> QED
        BY <2>1, <3>1, <3>2, SnapshotAgrees DEF Apply, TokensAgree
    <2>2. CASE Restart
      BY <2>2, Markers DEF Restart, TokensAgree, TypeOK
    <2>3. CASE store' = store
      BY <2>3 DEF TokensAgree
    <2> QED
      BY <2>1, <2>2, <2>3 DEF Next, GatewayChange, Resolve, vars
  <1> QED
    BY <1>1, <1>2, SecretsTyped, PTL DEF SafetySpec

(* The inductive invariant behind RevokedWhileRunning: granted keys stay   *)
(* managed, and so does the other name of a GitHub name that was granted a *)
(* value; managed keys do not show the environment, but for the exception. *)
Inv ==
  /\ restarts = 0 =>
       granted \subseteq managed
       /\ \A k \in valued \cap {GithubToken, GhToken} : OtherName(k) \in managed
  /\ \A k \in managed : store[k] = Env => ShowsOther(environment, managed, k)

(* No key a running proxy was granted, with a value or without, shows the  *)
(* environment's value again before the proxy is restarted; the exception  *)
(* is a GitHub name with nothing but empty grants, whose other name is not *)
(* granted and in the environment.                                         *)
THEOREM RevocationLasts == SafetySpec => []RevokedWhileRunning
  <1>1. Init => Inv
    BY DEF Init, Inv
  <1>2. TypeOK /\ Inv /\ [Next]_vars => Inv'
    <2> SUFFICES ASSUME TypeOK, Inv, [Next]_vars PROVE Inv' OBVIOUS
    <2>1. CASE Apply
      <3>1. managed' \subseteq Keys /\ environment' = environment
        BY <2>1, Markers DEF Apply, ManagedBy, Present, TypeOK
      <3>2. ASSUME NEW k \in managed', store'[k] = Env
            PROVE  ShowsOther(environment, managed', k)
        BY <2>1, <3>1, <3>2, SnapshotHidesManaged DEF Apply, TypeOK
      <3>3. (\A k \in managed : store[k] = Env => ShowsOther(environment, managed, k))'
        BY <3>1, <3>2 DEF ShowsOther
      <3>4. ManagedBy(answer) \subseteq managed' /\ managed \subseteq managed'
        BY <2>1 DEF Apply
      <3>5. restarts' = 0 => granted' \subseteq managed'
        BY <2>1, <3>4 DEF Apply, Inv, ManagedBy
      <3>6. ASSUME restarts' = 0, NEW k \in valued' \cap {GithubToken, GhToken}
            PROVE  OtherName(k) \in managed'
        <4>1. CASE k \in valued
          BY <2>1, <3>4, <3>6, <4>1 DEF Apply, Inv
        <4>2. CASE HasValue(answer, k)
          <5>1. OtherName(k) \in ManagedBy(answer)
            BY <3>6, <4>2, Markers DEF ManagedBy, OtherName
          <5> QED
            BY <3>4, <5>1
        <4> QED
          BY <2>1, <3>6, <4>1, <4>2 DEF Apply
      <3> QED
        BY <3>3, <3>5, <3>6 DEF Inv
    <2>2. CASE Restart
      BY <2>2 DEF Restart, Inv, TypeOK
    <2>3. CASE UNCHANGED <<environment, store, managed, granted, valued, restarts>>
      BY <2>3 DEF Inv, ShowsOther
    <2> QED
      BY <2>1, <2>2, <2>3 DEF Next, GatewayChange, Resolve, vars
  <1>3. Inv => RevokedWhileRunning
    BY DEF Inv, ShowsOther, RevokedWhileRunning, RevokedStaysRevoked
  <1> QED
    BY <1>1, <1>2, <1>3, SecretsTyped, PTL DEF SafetySpec
=============================================================================
