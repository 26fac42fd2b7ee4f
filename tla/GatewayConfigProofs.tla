------------------------- MODULE GatewayConfigProofs -------------------------
(***************************************************************************)
(* What holds of the gateway file for any names, URLs and commands.  Every *)
(* content of the file is an edit of an earlier content, so what each edit *)
(* preserves is preserved by commands that overwrite one another too: the  *)
(* invariant speaks of the file and of every copy of it (Copies).          *)
(***************************************************************************)
EXTENDS GatewayConfig, TLAPS

Steps == {"idle", "load", "save", "login", "resolve", "browser", "ensure",
          "check", "spawn", "ok", "failed", "killed"}

(* The edit of a command names what it changes. *)
EditNames(e) == e.op \in {"add", "bundle"} => e.name \in Names /\ e.url \in Urls \cup {None}

Copies ==
  /\ CurrentIsListed(conf)
  /\ \A c \in Commands :
       /\ CurrentIsListed(seen[c])
       /\ EditNames(edit[c])
       /\ pc[c] = "save" => ~Refused(seen[c], edit[c])
Inv == TypeOK /\ Copies

(* A configuration has a selection and a table of entries. *)
LEMMA ConfigShape ==
  ASSUME NEW cfg \in Configs
  PROVE  /\ Listed(cfg) \subseteq Names
         /\ cfg.gateways \in [Listed(cfg) -> Entry]
         /\ cfg.current \in Names \cup {None}
         /\ cfg = [current |-> cfg.current, gateways |-> cfg.gateways]
  <1>1. PICK S \in SUBSET Names : cfg.gateways \in [S -> Entry]
    BY DEF Configs
  <1> QED
    BY <1>1 DEF Configs, Listed

(* A selection and a table of entries are a configuration. *)
LEMMA ConfigBuilt ==
  ASSUME NEW current \in Names \cup {None}, NEW S \in SUBSET Names, NEW g \in [S -> Entry]
  PROVE  [current |-> current, gateways |-> g] \in Configs
  BY DEF Configs

(* Looking up a gateway gives an entry, listed or not. *)
LEMMA LookupTyped ==
  ASSUME NEW cfg \in Configs, NEW name
  PROVE  Lookup(cfg, name) \in Entry
  <1>1. ZeroEntry \in Entry
    BY DEF ZeroEntry, Entry
  <1> QED
    BY <1>1, ConfigShape DEF Lookup

(* Storing an entry lists its name and keeps the selection. *)
LEMMA StoredTyped ==
  ASSUME NEW cfg \in Configs, NEW name \in Names, NEW entry \in Entry
  PROVE  /\ Stored(cfg, name, entry) \in Configs
         /\ Listed(Stored(cfg, name, entry)) = Listed(cfg) \cup {name}
         /\ Stored(cfg, name, entry).current = cfg.current
         /\ Stored(cfg, name, entry) =
              [current |-> cfg.current, gateways |-> Stored(cfg, name, entry).gateways]
  <1> DEFINE g == [n \in Listed(cfg) \cup {name} |-> IF n = name THEN entry ELSE cfg.gateways[n]]
  <1>1. Stored(cfg, name, entry) = [current |-> cfg.current, gateways |-> g]
    BY ConfigShape DEF Stored
  <1>2. g \in [Listed(cfg) \cup {name} -> Entry]
    BY ConfigShape
  <1>3. Listed(cfg) \cup {name} \in SUBSET Names
    BY ConfigShape
  <1> HIDE DEF g
  <1> QED
    BY <1>1, <1>2, <1>3, ConfigBuilt, ConfigShape DEF Listed

(* An edit that was not refused gives a file whose selection is listed. *)
LEMMA EditedListed ==
  ASSUME NEW cfg \in Configs, NEW e \in Edits, CurrentIsListed(cfg), EditNames(e), ~Refused(cfg, e)
  PROVE  Edited(cfg, e) \in Configs /\ CurrentIsListed(Edited(cfg, e))
  <1>1. CASE e.op = "add"
    <2> DEFINE prev == Lookup(cfg, e.name)
               entry == [url |-> e.url, token |-> Kept(prev, e.url),
                         oidc |-> e.oidc \/ (prev.url = e.url /\ prev.oidc)]
    <2>1. e.name \in Names /\ e.url \in Urls \cup {None} /\ e.oidc \in BOOLEAN
      BY <1>1 DEF EditNames, Edits
    <2>2. prev \in Entry
      BY LookupTyped
    <2>3. entry \in Entry
      BY <2>1, <2>2 DEF Entry, Kept
    <2>4. Edited(cfg, e) = [Stored(cfg, e.name, entry) EXCEPT !.current = e.name]
      BY <1>1 DEF Edited, Added
    <2> HIDE DEF entry
    <2> DEFINE st == Stored(cfg, e.name, entry)
    <2>5. /\ st \in Configs
          /\ Listed(st) = Listed(cfg) \cup {e.name}
          /\ st = [current |-> cfg.current, gateways |-> st.gateways]
      BY <2>1, <2>3, StoredTyped
    <2> HIDE DEF st
    <2>6. Edited(cfg, e) = [current |-> e.name, gateways |-> st.gateways]
      BY <2>4, <2>5 DEF st
    <2>7. st.gateways \in [Listed(st) -> Entry] /\ Listed(st) \in SUBSET Names
      BY <2>5, ConfigShape
    <2> QED
      BY <2>1, <2>5, <2>6, <2>7, ConfigBuilt DEF CurrentIsListed, Listed
  <1>2. CASE e.op = "select"
    <2>1. Edited(cfg, e) = [current |-> e.name, gateways |-> cfg.gateways]
      BY <1>2, ConfigShape DEF Edited
    <2>2. e.name \in Listed(cfg)
      BY <1>2 DEF Refused
    <2> QED
      BY <2>1, <2>2, ConfigShape, ConfigBuilt DEF CurrentIsListed, Listed
  <1>3. CASE e.op = "remove"
    <2> DEFINE g == [n \in Listed(cfg) \ {e.name} |-> cfg.gateways[n]]
               current == IF cfg.current = e.name THEN None ELSE cfg.current
    <2>1. Edited(cfg, e) = [current |-> current, gateways |-> g]
      BY <1>3 DEF Edited, Removed
    <2>2. g \in [Listed(cfg) \ {e.name} -> Entry] /\ Listed(cfg) \ {e.name} \in SUBSET Names
      BY ConfigShape
    <2>3. current \in Names \cup {None} /\ (current = None \/ current \in Listed(cfg) \ {e.name})
      BY ConfigShape DEF CurrentIsListed
    <2> HIDE DEF g, current
    <2> QED
      BY <2>1, <2>2, <2>3, ConfigBuilt DEF CurrentIsListed, Listed
  <1>4. ASSUME NEW name \in Names, NEW token \in Urls \cup {None},
               Edited(cfg, e) = WithToken(cfg, name, token)
        PROVE  Edited(cfg, e) \in Configs /\ CurrentIsListed(Edited(cfg, e))
    <2> DEFINE entry == [Lookup(cfg, name) EXCEPT !.token = token]
    <2>1. entry \in Entry
      BY LookupTyped DEF Entry
    <2>2. Edited(cfg, e) = Stored(cfg, name, entry)
      BY <1>4 DEF WithToken
    <2> HIDE DEF entry
    <2> QED
      BY <2>1, <2>2, StoredTyped DEF CurrentIsListed
  <1>5. CASE e.op \in {"token", "logout"}
    <2>1. cfg.current \in Names
      BY <1>5, ConfigShape DEF Refused
    <2>2. e.url \in Urls \cup {None}
      BY DEF Edits
    <2>3. \/ Edited(cfg, e) = WithToken(cfg, cfg.current, e.url)
          \/ Edited(cfg, e) = WithToken(cfg, cfg.current, None)
      BY <1>5 DEF Edited
    <2> QED
      BY <2>1, <2>2, <2>3, <1>4
  <1>6. CASE e.op = "bundle"
    <2>1. e.name \in Names /\ e.url \in Urls \cup {None}
      BY <1>6 DEF EditNames
    <2>2. Edited(cfg, e) = WithToken(cfg, e.name, e.url)
      BY <1>6 DEF Edited
    <2> QED
      BY <2>1, <2>2, <1>4
  <1> QED
    BY <1>1, <1>2, <1>3, <1>5, <1>6 DEF Edits

----------------------------------------------------------------------------
(* A step of one command moves no other. *)
LEMMA GotoMoves ==
  ASSUME NEW c \in Commands, NEW step \in Steps, Goto(c, step), pc \in [Commands -> Steps]
  PROVE  /\ pc' \in [Commands -> Steps]
         /\ pc'[c] = step
         /\ \A d \in Commands \ {c} : pc'[d] = pc[d]
  BY DEF Goto

(* A file that is absent is a configuration without a selection. *)
LEMMA EmptyTyped == Empty \in Configs /\ CurrentIsListed(Empty)
  <1>1. [n \in {} |-> ZeroEntry] \in [{} -> Entry] /\ {} \in SUBSET Names
    OBVIOUS
  <1> QED
    BY <1>1, ConfigBuilt DEF Empty, CurrentIsListed

(* Discarding a copy, or none, leaves copies of the same kind. *)
LEMMA Discarded ==
  ASSUME Inv, NEW c \in Commands, UNCHANGED seen \/ Discard(c)
  PROVE  /\ seen' \in [Commands -> Configs]
         /\ \A d \in Commands : CurrentIsListed(seen'[d])
         /\ \A d \in Commands \ {c} : seen'[d] = seen[d]
  BY EmptyTyped DEF Discard, Inv, TypeOK, Copies

(* A step of one command that neither edits the file nor loads it. *)
LEMMA QuietStep ==
  ASSUME Inv, NEW c \in Commands, NEW step \in Steps \ {"save"}, Goto(c, step),
         NEW e \in Edits, EditNames(e), edit' = [edit EXCEPT ![c] = e],
         up' \in SUBSET Urls, job' \in [Commands -> Job], UNCHANGED conf,
         moved' \in SUBSET (Urls \cup {None}), placed' \in Commands \cup {None},
         UNCHANGED seen \/ Discard(c)
  PROVE  Inv'
  <1>1. /\ pc' \in [Commands -> Steps]
        /\ pc'[c] = step
        /\ \A d \in Commands \ {c} : pc'[d] = pc[d]
    BY GotoMoves DEF Inv, TypeOK, Steps
  <1>2. /\ edit' \in [Commands -> Edits]
        /\ edit'[c] = e
        /\ \A d \in Commands \ {c} : edit'[d] = edit[d]
    BY DEF Inv, TypeOK
  <1>3. TypeOK'
    BY <1>1, <1>2, Discarded DEF Inv, TypeOK, Steps
  <1>4. Copies'
    BY <1>1, <1>2, Discarded DEF Inv, Copies
  <1> QED
    BY <1>3, <1>4 DEF Inv

(* The edits that commands set out to make have their type. *)
LEMMA EditsMade ==
  /\ SelectLocal \in Edits /\ EditNames(SelectLocal)
  /\ AddLocal \in Edits /\ EditNames(AddLocal)
  /\ NoEdit \in Edits /\ EditNames(NoEdit)
  BY ConfigAssumption DEF SelectLocal, AddLocal, NoEdit, Edits, EditNames

(* Where an edit that is done or refused leads. *)
LEMMA EditDoneTo ==
  ASSUME Inv, NEW c \in Commands, NEW outcome \in {"ok", "failed"}, EditDone(c, outcome)
  PROVE  \E step \in Steps \ {"save"}, e \in Edits :
           Goto(c, step) /\ EditNames(e) /\ edit' = [edit EXCEPT ![c] = e]
  <1>1. edit[c] \in Edits /\ EditNames(edit[c]) /\ edit = [edit EXCEPT ![c] = edit[c]]
    BY DEF Inv, TypeOK, Copies
  <1> QED
    BY <1>1, EditsMade DEF EditDone, Steps

(* Every step keeps the types and the selection listed, in the file and in  *)
(* copies.                                                                  *)
LEMMA ConfigStep == Inv /\ [Next]_vars => Inv'
  <1> SUFFICES ASSUME Inv, [Next]_vars PROVE Inv' OBVIOUS
  <1>0. \A c \in Commands : edit[c] \in Edits /\ EditNames(edit[c])
                             /\ edit = [edit EXCEPT ![c] = edit[c]]
    BY DEF Inv, TypeOK, Copies
  <1>1. ASSUME NEW c \in Commands, NEW j \in Jobs, Start(c, j) PROVE Inv'
    <2>1. j \in Job /\ j.edit \in Edits
      BY ConfigAssumption DEF Job
    <2>2. FirstStep(j) \in Steps \ {"save"}
      BY <2>1 DEF FirstStep, Job, Steps
    <2>3. job' \in [Commands -> Job]
      BY <1>1, <2>1 DEF Start, Inv, TypeOK
    <2>4. EditNames(j.edit)
      BY <2>1, ConfigAssumption DEF EditNames
    <2> QED
      BY <1>1, <2>1, <2>2, <2>3, <2>4, QuietStep DEF Start, Inv, TypeOK
  <1>2. ASSUME NEW c \in Commands, Load(c) PROVE Inv'
    <2>1. UNCHANGED <<conf, up, job, moved, placed>>
      BY <1>2 DEF Load
    <2>3. CASE Refused(conf, edit[c])
      <3>1. PICK step \in Steps \ {"save"}, e \in Edits :
              Goto(c, step) /\ EditNames(e) /\ edit' = [edit EXCEPT ![c] = e]
        BY <1>2, <2>3, EditDoneTo DEF Load
      <3>2. UNCHANGED seen
        BY <1>2, <2>3 DEF Load
      <3> QED
        BY <2>1, <3>1, <3>2, QuietStep DEF Inv, TypeOK
    <2>4. CASE ~Refused(conf, edit[c])
      <3>1. /\ Goto(c, "save") /\ UNCHANGED edit
            /\ seen' = [seen EXCEPT ![c] = conf]
        BY <1>2, <2>4 DEF Load
      <3>5. /\ seen' \in [Commands -> Configs]
            /\ \A d \in Commands : CurrentIsListed(seen'[d])
            /\ seen'[c] = conf
            /\ \A d \in Commands \ {c} : seen'[d] = seen[d]
        BY <3>1 DEF Inv, TypeOK, Copies
      <3>2. /\ pc' \in [Commands -> Steps]
            /\ pc'[c] = "save"
            /\ \A d \in Commands \ {c} : pc'[d] = pc[d]
        BY <3>1, GotoMoves DEF Inv, TypeOK, Steps
      <3>3. TypeOK'
        BY <2>1, <3>1, <3>2, <3>5 DEF Inv, TypeOK, Steps
      <3>4. Copies'
        BY <2>1, <2>4, <3>1, <3>2, <3>5 DEF Inv, Copies
      <3> QED
        BY <3>3, <3>4 DEF Inv
    <2> QED
      BY <2>3, <2>4
  <1>3. ASSUME NEW c \in Commands, Save(c) PROVE Inv'
    <2>1. /\ pc[c] = "save"
          /\ conf' = Edited(seen[c], edit[c])
          /\ Discard(c)
          /\ UNCHANGED <<up, job>>
      BY <1>3 DEF Save
    <2>8. /\ moved' \in SUBSET (Urls \cup {None})
          /\ placed' \in Commands \cup {None}
      BY <1>3 DEF Save, Stranded, Inv, TypeOK, Edits
    <2>2. PICK step \in Steps \ {"save"}, e \in Edits :
            Goto(c, step) /\ EditNames(e) /\ edit' = [edit EXCEPT ![c] = e]
      BY <1>3, EditDoneTo DEF Save
    <2>3. conf' \in Configs /\ CurrentIsListed(conf')
      BY <1>0, <2>1, EditedListed DEF Inv, TypeOK, Copies
    <2>4. /\ pc' \in [Commands -> Steps]
          /\ pc'[c] = step
          /\ \A d \in Commands \ {c} : pc'[d] = pc[d]
      BY <2>2, GotoMoves DEF Inv, TypeOK, Steps
    <2>5. /\ edit' \in [Commands -> Edits]
          /\ edit'[c] = e
          /\ \A d \in Commands \ {c} : edit'[d] = edit[d]
      BY <2>2 DEF Inv, TypeOK
    <2>6. TypeOK'
      BY <2>1, <2>3, <2>4, <2>5, <2>8, Discarded DEF Inv, TypeOK, Steps
    <2>7. Copies'
      BY <2>1, <2>2, <2>3, <2>4, <2>5, Discarded DEF Inv, Copies
    <2> QED
      BY <2>6, <2>7 DEF Inv
  <1>4. ASSUME NEW c \in Commands, SaveFails(c) PROVE Inv'
    <2>1. PICK step \in Steps \ {"save"}, e \in Edits :
            Goto(c, step) /\ EditNames(e) /\ edit' = [edit EXCEPT ![c] = e]
      BY <1>4, EditDoneTo DEF SaveFails
    <2> QED
      BY <1>4, <2>1, QuietStep DEF SaveFails, Inv, TypeOK
  <1>5. ASSUME NEW c \in Commands, LoginOidc(c) PROVE Inv'
    <2> DEFINE e == [NoEdit EXCEPT !.op = "bundle", !.name = conf.current,
                                   !.url = Lookup(conf, conf.current).url]
    <2>1. /\ conf.current # None
          /\ edit' = [edit EXCEPT ![c] = e]
          /\ Goto(c, "browser") /\ UNCHANGED <<conf, up, job, seen, moved, placed>>
      BY <1>5 DEF LoginOidc
    <2>2. conf.current \in Names /\ Lookup(conf, conf.current).url \in Urls \cup {None}
      BY <2>1, ConfigShape, LookupTyped DEF Inv, TypeOK, Entry
    <2>3. e \in Edits /\ EditNames(e)
      BY <2>2 DEF NoEdit, Edits, EditNames
    <2> HIDE DEF e
    <2> QED
      BY <2>1, <2>3, QuietStep DEF Inv, TypeOK, Steps
  <1>10. ASSUME NEW c \in Commands, LoginResolve(c) PROVE Inv'
    <2> DEFINE e == [NoEdit EXCEPT !.op = "token", !.url = Resolved(c)]
    <2>1. /\ edit' = [edit EXCEPT ![c] = e]
          /\ Goto(c, "browser") /\ UNCHANGED <<conf, up, job, seen, placed>>
      BY <1>10 DEF LoginResolve
    <2>2. Resolved(c) \in Urls \cup {None}
      BY LookupTyped DEF Resolved, Inv, TypeOK, Job, Entry
    <2>4. moved' \in SUBSET (Urls \cup {None})
      BY <1>10, <2>2 DEF LoginResolve, Inv, TypeOK
    <2>3. e \in Edits /\ EditNames(e)
      BY <2>2 DEF NoEdit, Edits, EditNames
    <2> HIDE DEF e
    <2> QED
      BY <2>1, <2>3, <2>4, QuietStep DEF Inv, TypeOK, Steps
  <1>6. ASSUME NEW c \in Commands,
               \/ LoginLocal(c) \/ NoGateway(c) \/ LoggedIn(c) \/ EnsureHealthy(c)
               \/ EnsureNotListening(c) \/ EnsureCheck(c) \/ Killed(c)
        PROVE Inv'
    <2>1. PICK step \in Steps \ {"save"} : Goto(c, step)
      BY <1>6 DEF LoginLocal, NoGateway, LoggedIn, EnsureHealthy, EnsureNotListening,
                  EnsureCheck, Killed, Steps
    <2>2. UNCHANGED <<conf, up, job, edit, moved, placed>> /\ (UNCHANGED seen \/ Discard(c))
      BY <1>6 DEF LoginLocal, NoGateway, LoggedIn, EnsureHealthy, EnsureNotListening,
                  EnsureCheck, Killed
    <2> QED
      BY <1>0, <2>1, <2>2, QuietStep DEF Inv, TypeOK
  <1>7. ASSUME NEW c \in Commands, EnsureExisting(c) PROVE Inv'
    BY <1>7, EditsMade, QuietStep DEF EnsureExisting, Inv, TypeOK, Steps
  <1>8. ASSUME NEW c \in Commands, Spawn(c) PROVE Inv'
    <2>1. up' \in SUBSET Urls /\ UNCHANGED <<conf, job, seen, moved, placed>>
      BY <1>8, ConfigAssumption DEF Spawn, Inv, TypeOK
    <2>2. CASE edit' = [edit EXCEPT ![c] = AddLocal] /\ Goto(c, "load")
      BY <2>1, <2>2, EditsMade, QuietStep DEF Inv, TypeOK, Steps
    <2>3. CASE UNCHANGED edit /\ Goto(c, "failed")
      BY <1>0, <2>1, <2>3, QuietStep DEF Inv, TypeOK, Steps
    <2> QED
      BY <1>8, <2>2, <2>3 DEF Spawn
  <1>9. CASE UNCHANGED vars
    BY <1>9 DEF vars, Inv, TypeOK, Copies
  <1> QED
    BY <1>1, <1>2, <1>3, <1>4, <1>5, <1>6, <1>7, <1>8, <1>9, <1>10 DEF Next, Step

(* The file that commands find has its type and a listed selection. *)
LEMMA ConfigStart == Init => Inv
  <1> SUFFICES ASSUME Init PROVE Inv OBVIOUS
  <1>2. [kind |-> "edit", edit |-> NoEdit, override |-> None] \in Job
    BY EditsMade DEF Job
  <1>3. TypeOK
    BY <1>2, EmptyTyped, EditsMade, ConfigAssumption DEF Init, TypeOK
  <1>4. Copies
    BY EmptyTyped, EditsMade DEF Init, Copies
  <1> QED
    BY <1>3, <1>4 DEF Inv

(* Every variable keeps its type; in particular no entry is ever stored    *)
(* under the name of no gateway.                                           *)
THEOREM ConfigTyped == SafetySpec => []TypeOK
  <1>1. Inv => TypeOK
    BY DEF Inv
  <1> QED
    BY <1>1, ConfigStart, ConfigStep, PTL DEF SafetySpec

(* The selected gateway is listed, however commands overwrite one another, *)
(* fail or are killed.                                                     *)
THEOREM CurrentStaysListed == SafetySpec => []CurrentListed
  <1>1. Inv => CurrentListed
    BY DEF Inv, Copies, CurrentListed
  <1> QED
    BY <1>1, ConfigStart, ConfigStep, PTL DEF SafetySpec

----------------------------------------------------------------------------
(* Where tokens stay *)

(* Every token of a file is at home, or was issued by one of M. *)
Homes(cfg, M) ==
  \A n \in Listed(cfg) : OwnToken(cfg.gateways[n]) \/ cfg.gateways[n].token \in M

(* The token of a login was issued by the gateway it will be stored with, or  *)
(* by one of M.                                                               *)
Fits(cfg, e, M) ==
  e.op \in {"token", "bundle"} => HolderUrl(cfg, e) = e.url \/ e.url \in M

Tokens ==
  /\ Homes(conf, moved)
  /\ \A c \in Commands : Homes(seen[c], moved)
  /\ \A c \in Commands : pc[c] \in {"browser", "load"} => Fits(conf, edit[c], moved)
  /\ \A c \in Commands : pc[c] = "save" => Fits(seen[c], edit[c], moved)

(* What is at home stays so when more logins lose their gateway. *)
LEMMA HomesGrow ==
  ASSUME NEW M, NEW N, M \subseteq N, NEW cfg, NEW e
  PROVE  /\ Homes(cfg, M) => Homes(cfg, N)
         /\ Fits(cfg, e, M) => Fits(cfg, e, N)
  BY DEF Homes, Fits

(* An edit whose token fits strays no token. *)
LEMMA EditedHomes ==
  ASSUME NEW cfg \in Configs, NEW e \in Edits, NEW M, Homes(cfg, M), Fits(cfg, e, M)
  PROVE  Homes(Edited(cfg, e), M)
  <1>1. ASSUME NEW name, NEW entry, OwnToken(entry) \/ entry.token \in M
        PROVE  Homes(Stored(cfg, name, entry), M)
    BY <1>1, ConfigShape DEF Stored, Homes, Listed
  <1>2. CASE e.op = "add"
    <2> DEFINE prev == Lookup(cfg, e.name)
               entry == [url |-> e.url, token |-> Kept(prev, e.url),
                         oidc |-> e.oidc \/ (prev.url = e.url /\ prev.oidc)]
               st == Stored(cfg, e.name, entry)
    <2>1. OwnToken(prev) \/ prev.token \in M
      BY DEF Homes, Lookup, OwnToken, ZeroEntry
    <2>2. OwnToken(entry) \/ entry.token \in M
      BY <2>1 DEF OwnToken, Kept
    <2>3. Edited(cfg, e) = [st EXCEPT !.current = e.name]
      BY <1>2 DEF Edited, Added
    <2>4. Homes(st, M)
      BY <1>1, <2>2
    <2>5. Edited(cfg, e).gateways = st.gateways
      BY <2>3, ConfigShape DEF Stored
    <2> HIDE DEF st
    <2> QED
      BY <2>4, <2>5 DEF Homes, Listed
  <1>3. CASE e.op = "select"
    BY <1>3, ConfigShape DEF Edited, Homes, Listed
  <1>4. CASE e.op = "remove"
    BY <1>4, ConfigShape DEF Edited, Removed, Homes, Listed
  <1>5. ASSUME NEW name, NEW token, token \in {None, Lookup(cfg, name).url} \/ token \in M
        PROVE  Homes(WithToken(cfg, name, token), M)
    <2> DEFINE entry == [Lookup(cfg, name) EXCEPT !.token = token]
    <2>1. Lookup(cfg, name) \in Entry
      BY LookupTyped
    <2>2. entry.token = token /\ entry.url = Lookup(cfg, name).url
      BY <2>1 DEF Entry
    <2>3. OwnToken(entry) \/ entry.token \in M
      BY <1>5, <2>2 DEF OwnToken
    <2> HIDE DEF entry
    <2>4. Homes(Stored(cfg, name, entry), M)
      BY <2>3, <1>1
    <2> QED
      BY <2>4 DEF WithToken, entry
  <1>6. CASE e.op = "token"
    BY <1>6, <1>5 DEF Edited, Fits, HolderUrl, Holder
  <1>7. CASE e.op = "bundle"
    BY <1>7, <1>5 DEF Edited, Fits, HolderUrl, Holder
  <1>8. CASE e.op = "logout"
    BY <1>8, <1>5 DEF Edited
  <1> QED
    BY <1>2, <1>3, <1>4, <1>6, <1>7, <1>8 DEF Edits

(* A step of one command that leaves the file and its copies alone. *)
LEMMA StillTokens ==
  ASSUME Inv, Tokens, NEW c \in Commands, NEW step \in Steps \ {"save"}, Goto(c, step),
         NEW e \in Edits, edit' = [edit EXCEPT ![c] = e],
         UNCHANGED conf, moved \subseteq moved', UNCHANGED seen \/ Discard(c),
         step \in {"browser", "load"} => Fits(conf, e, moved')
  PROVE  Tokens'
  <1>1. /\ pc'[c] = step
        /\ \A d \in Commands \ {c} : pc'[d] = pc[d]
    BY GotoMoves DEF Inv, TypeOK, Steps
  <1>2. edit'[c] = e /\ \A d \in Commands \ {c} : edit'[d] = edit[d]
    BY DEF Inv, TypeOK
  <1>3. \A d \in Commands : seen'[d] = seen[d] \/ seen'[d] = Empty
    BY DEF Discard, Inv, TypeOK
  <1>4. \A d \in Commands \ {c} : seen'[d] = seen[d]
    BY Discarded
  <1>5. \A N : Homes(Empty, N)
    BY DEF Homes, Empty, Listed
  <1>6. \A d \in Commands : Homes(seen'[d], moved')
    BY <1>3, <1>5, HomesGrow DEF Tokens
  <1>7. ASSUME NEW d \in Commands, pc'[d] \in {"browser", "load"}
        PROVE  Fits(conf, edit'[d], moved')
    BY <1>1, <1>2, <1>7, HomesGrow DEF Tokens
  <1>8. ASSUME NEW d \in Commands, pc'[d] = "save"
        PROVE  Fits(seen'[d], edit'[d], moved')
    BY <1>1, <1>2, <1>4, <1>8, HomesGrow DEF Tokens
  <1>9. Homes(conf', moved')
    BY HomesGrow DEF Tokens
  <1> QED
    BY <1>6, <1>7, <1>8, <1>9 DEF Tokens, Fits

(* What the edits of ensure are about. *)
LEMMA LocalEdits ==
  /\ AddLocal.op = "add" /\ SelectLocal.op = "select" /\ AddLocal # SelectLocal
  /\ \A cfg, M : Fits(cfg, AddLocal, M) /\ Fits(cfg, SelectLocal, M)
  <1>1. AddLocal.op = "add" /\ SelectLocal.op = "select"
    BY DEF AddLocal, SelectLocal, NoEdit
  <1> QED
    BY <1>1 DEF Fits

(* Where an edit that is done or refused leads, no login waits. *)
LEMMA EditDoneFits ==
  ASSUME Inv, NEW c \in Commands, NEW outcome \in {"ok", "failed"}, EditDone(c, outcome)
  PROVE  \E step \in Steps \ {"save"}, e \in Edits :
           /\ Goto(c, step) /\ edit' = [edit EXCEPT ![c] = e]
           /\ step \in {"browser", "load"} => e = SelectLocal
  <1>1. edit[c] \in Edits /\ edit = [edit EXCEPT ![c] = edit[c]]
    BY DEF Inv, TypeOK
  <1> QED
    BY <1>1, EditsMade DEF EditDone, Steps

(* Every step keeps tokens at home, in the file and in the copies, or notes   *)
(* the login that lost its gateway.                                           *)
LEMMA TokensStep == Inv /\ Tokens /\ [Next]_vars => Tokens'
  <1> SUFFICES ASSUME Inv, Tokens, [Next]_vars PROVE Tokens' OBVIOUS
  <1>0. \A c \in Commands : edit[c] \in Edits /\ edit = [edit EXCEPT ![c] = edit[c]]
    BY DEF Inv, TypeOK
  <1>1. ASSUME NEW c \in Commands, NEW j \in Jobs, Start(c, j) PROVE Tokens'
    <2>1. j \in Job /\ j.edit \in Edits /\ j.edit.op \in {"add", "select", "remove", "logout"}
      BY ConfigAssumption DEF Job
    <2>2. FirstStep(j) \in Steps \ {"save"} /\ Goto(c, FirstStep(j))
      BY <1>1, <2>1 DEF FirstStep, Job, Steps, Start
    <2>3. edit' = [edit EXCEPT ![c] = j.edit] /\ UNCHANGED <<conf, seen, moved>>
      BY <1>1 DEF Start
    <2>4. Fits(conf, j.edit, moved')
      BY <2>1 DEF Fits
    <2> QED
      BY <2>1, <2>2, <2>3, <2>4, StillTokens
  <1>2. ASSUME NEW c \in Commands, Load(c) PROVE Tokens'
    <2>1. pc[c] = "load" /\ UNCHANGED <<conf, moved>>
      BY <1>2 DEF Load
    <2>2. CASE Refused(conf, edit[c])
      <3>1. EditDone(c, "failed") /\ UNCHANGED seen
        BY <1>2, <2>2 DEF Load
      <3>2. PICK step \in Steps \ {"save"}, e \in Edits :
              /\ Goto(c, step) /\ edit' = [edit EXCEPT ![c] = e]
              /\ step \in {"browser", "load"} => e = SelectLocal
        BY <3>1, EditDoneFits
      <3>3. step \in {"browser", "load"} => Fits(conf, e, moved')
        BY <3>2, LocalEdits
      <3> QED
        BY <2>1, <3>1, <3>2, <3>3, StillTokens
    <2>3. CASE ~Refused(conf, edit[c])
      <3>1. Goto(c, "save") /\ UNCHANGED edit /\ seen' = [seen EXCEPT ![c] = conf]
        BY <1>2, <2>3 DEF Load
      <3>2. /\ pc'[c] = "save" /\ seen'[c] = conf
            /\ \A d \in Commands \ {c} : seen'[d] = seen[d] /\ pc'[d] = pc[d]
        BY <3>1, GotoMoves DEF Inv, TypeOK, Steps
      <3>3. Homes(conf', moved') /\ \A d \in Commands : Homes(seen'[d], moved')
        BY <2>1, <3>2 DEF Tokens
      <3>4. \A d \in Commands : pc'[d] \in {"browser", "load"} => Fits(conf', edit'[d], moved')
        BY <2>1, <3>1, <3>2 DEF Tokens
      <3>5. \A d \in Commands : pc'[d] = "save" => Fits(seen'[d], edit'[d], moved')
        BY <2>1, <3>1, <3>2 DEF Tokens
      <3> QED
        BY <3>3, <3>4, <3>5 DEF Tokens, Fits
    <2> QED
      BY <2>2, <2>3
  <1>3. ASSUME NEW c \in Commands, Save(c) PROVE Tokens'
    <2>1. /\ pc[c] = "save" /\ conf' = Edited(seen[c], edit[c])
          /\ moved' = moved \cup Stranded(conf')
          /\ EditDone(c, "ok") /\ Discard(c)
      BY <1>3 DEF Save
    <2>2. PICK step \in Steps \ {"save"}, e \in Edits :
            /\ Goto(c, step) /\ edit' = [edit EXCEPT ![c] = e]
            /\ step \in {"browser", "load"} => e = SelectLocal
      BY <2>1, EditDoneFits
    <2>3. /\ pc'[c] = step /\ edit'[c] = e
          /\ \A d \in Commands \ {c} : pc'[d] = pc[d] /\ edit'[d] = edit[d] /\ seen'[d] = seen[d]
      BY <2>1, <2>2, GotoMoves, Discarded DEF Inv, TypeOK, Steps
    <2>4. seen'[c] = Empty
      BY <2>1 DEF Discard, Inv, TypeOK
    <2>5. Homes(conf', moved')
      <3>1. Homes(conf', moved)
        BY <1>0, <2>1, EditedHomes DEF Tokens, Inv, TypeOK
      <3> QED
        BY <2>1, <3>1, HomesGrow
    <2>6. \A d \in Commands : Homes(seen'[d], moved')
      <3>1. Homes(Empty, moved')
        BY DEF Homes, Empty, Listed
      <3> QED
        BY <2>1, <2>3, <2>4, <3>1, HomesGrow DEF Tokens
    <2>7. ASSUME NEW d \in Commands, pc'[d] \in {"browser", "load"}
          PROVE  Fits(conf', edit'[d], moved')
      <3>1. CASE d = c
        BY <2>2, <2>3, <2>7, <3>1, LocalEdits
      <3>2. CASE d # c
        <4>1. HolderUrl(conf', edit[d]) # edit[d].url /\ LoggingIn(d) => edit[d].url \in moved'
          BY <2>1 DEF Stranded
        <4>2. edit[d].op \in {"token", "bundle"} => LoggingIn(d)
          BY <2>3, <2>7, <3>2 DEF LoggingIn
        <4> QED
          BY <2>3, <3>2, <4>1, <4>2 DEF Fits
      <3> QED
        BY <3>1, <3>2
    <2>8. ASSUME NEW d \in Commands, pc'[d] = "save"
          PROVE  Fits(seen'[d], edit'[d], moved')
      BY <2>1, <2>2, <2>3, <2>8, HomesGrow DEF Tokens
    <2> QED
      BY <2>5, <2>6, <2>7, <2>8 DEF Tokens, Fits
  <1>4. ASSUME NEW c \in Commands, SaveFails(c) PROVE Tokens'
    <2>1. EditDone(c, "failed") /\ Discard(c) /\ UNCHANGED <<conf, moved>>
      BY <1>4 DEF SaveFails
    <2>2. PICK step \in Steps \ {"save"}, e \in Edits :
            /\ Goto(c, step) /\ edit' = [edit EXCEPT ![c] = e]
            /\ step \in {"browser", "load"} => e = SelectLocal
      BY <2>1, EditDoneFits
    <2> QED
      BY <2>1, <2>2, LocalEdits, StillTokens
  <1>5. ASSUME NEW c \in Commands, LoginOidc(c) PROVE Tokens'
    <2> DEFINE e == [NoEdit EXCEPT !.op = "bundle", !.name = conf.current,
                                   !.url = Lookup(conf, conf.current).url]
    <2>1. /\ conf.current # None /\ edit' = [edit EXCEPT ![c] = e]
          /\ Goto(c, "browser") /\ UNCHANGED <<conf, seen, moved>>
      BY <1>5 DEF LoginOidc
    <2>2. conf.current \in Names /\ Lookup(conf, conf.current).url \in Urls \cup {None}
      BY <2>1, ConfigShape, LookupTyped DEF Inv, TypeOK, Entry
    <2>3. e \in Edits /\ Fits(conf, e, moved')
      BY <2>2 DEF NoEdit, Edits, Fits, HolderUrl, Holder
    <2> HIDE DEF e
    <2> QED
      BY <2>1, <2>3, StillTokens DEF Steps
  <1>6. ASSUME NEW c \in Commands, LoginResolve(c) PROVE Tokens'
    <2> DEFINE e == [NoEdit EXCEPT !.op = "token", !.url = Resolved(c)]
    <2>1. /\ edit' = [edit EXCEPT ![c] = e]
          /\ Goto(c, "browser") /\ UNCHANGED <<conf, seen>>
          /\ moved' = IF Resolved(c) = Lookup(conf, conf.current).url THEN moved
                      ELSE moved \cup {Resolved(c)}
      BY <1>6 DEF LoginResolve
    <2>2. Resolved(c) \in Urls \cup {None}
      BY LookupTyped DEF Resolved, Inv, TypeOK, Job, Entry
    <2>3. e \in Edits /\ Fits(conf, e, moved')
      BY <2>1, <2>2 DEF NoEdit, Edits, Fits, HolderUrl, Holder
    <2> HIDE DEF e
    <2> QED
      BY <2>1, <2>3, StillTokens DEF Steps
  <1>7. ASSUME NEW c \in Commands, LoggedIn(c) PROVE Tokens'
    <2>1. pc[c] = "browser" /\ UNCHANGED <<conf, edit, seen, moved>>
          /\ (Goto(c, "load") \/ Goto(c, "failed"))
      BY <1>7 DEF LoggedIn
    <2>2. Fits(conf, edit[c], moved')
      BY <2>1 DEF Tokens
    <2> QED
      BY <1>0, <2>1, <2>2, StillTokens DEF Steps
  <1>8. ASSUME NEW c \in Commands,
               \/ LoginLocal(c) \/ NoGateway(c) \/ EnsureHealthy(c) \/ EnsureNotListening(c)
               \/ EnsureCheck(c) \/ Killed(c)
        PROVE  Tokens'
    <2>1. PICK step \in Steps \ {"save", "browser", "load"} : Goto(c, step)
      BY <1>8 DEF LoginLocal, NoGateway, EnsureHealthy, EnsureNotListening, EnsureCheck, Killed,
                  Steps
    <2>2. UNCHANGED <<conf, edit, moved>> /\ (UNCHANGED seen \/ Discard(c))
      BY <1>8 DEF LoginLocal, NoGateway, EnsureHealthy, EnsureNotListening, EnsureCheck, Killed
    <2> QED
      BY <1>0, <2>1, <2>2, StillTokens
  <1>9. ASSUME NEW c \in Commands, EnsureExisting(c) \/ Spawn(c) PROVE Tokens'
    <2>1. /\ UNCHANGED <<conf, seen, moved>>
          /\ \/ edit' = [edit EXCEPT ![c] = AddLocal] /\ Goto(c, "load")
             \/ UNCHANGED edit /\ Goto(c, "failed")
      BY <1>9 DEF EnsureExisting, Spawn
    <2> QED
      BY <1>0, <2>1, EditsMade, LocalEdits, StillTokens DEF Steps
  <1>10. CASE UNCHANGED vars
    BY <1>10 DEF vars, Tokens, Fits
  <1> QED
    BY <1>1, <1>2, <1>3, <1>4, <1>5, <1>6, <1>7, <1>8, <1>9, <1>10 DEF Next, Step

(* At first every token is at home. *)
LEMMA TokensStart == Init => Tokens
  BY DEF Init, Tokens, Homes, Fits, NoEdit, Empty, Listed

(* Whatever commands overwrite one another, fail or are killed, a token rests *)
(* with another gateway than the one that issued it only when its login was   *)
(* given that one with -g, or lost its own to another command while the user  *)
(* logged in.                                                                 *)
THEOREM TokensStayAtHome == SafetySpec => []TokensAtHome
  <1>1. Tokens => TokensAtHome
    BY DEF Tokens, Homes, TokensAtHome
  <1> QED
    BY <1>1, ConfigStart, ConfigStep, TokensStart, TokensStep, PTL DEF SafetySpec

----------------------------------------------------------------------------
(* What ensure leaves selected *)

LocalChosen(cfg) ==
  cfg.current = Local /\ Local \in Listed(cfg) /\ cfg.gateways[Local].url = LocalUrl

(* Where a command is says what it was asked to do. *)
Purpose(c) ==
  /\ pc[c] \in {"login", "resolve", "browser"} => job[c].kind = "login"
  /\ pc[c] \in {"ensure", "check", "spawn"} => job[c].kind = "ensure"
  /\ job[c].kind = "ensure" /\ pc[c] \in {"load", "save"} => edit[c] \in {AddLocal, SelectLocal}

(* A command that placed the local gateway in the file finds it there, and in *)
(* the copy that it is about to select it in.                                 *)
Place(c) ==
  placed = c =>
    /\ LocalChosen(conf)
    /\ pc[c] # "idle"
    /\ ~Ended(c) => job[c].kind = "ensure"
    /\ pc[c] = "save" /\ edit[c] = SelectLocal => LocalChosen(seen[c])

Places == \A c \in Commands : Purpose(c) /\ Place(c)

(* Adding and selecting the local gateway choose it. *)
LEMMA EditedLocal ==
  ASSUME NEW cfg \in Configs
  PROVE  /\ LocalChosen(Edited(cfg, AddLocal))
         /\ LocalChosen(cfg) => LocalChosen(Edited(cfg, SelectLocal))
  <1>1. LocalChosen(Edited(cfg, AddLocal))
    <2> DEFINE prev == Lookup(cfg, Local)
               entry == [url |-> LocalUrl, token |-> Kept(prev, LocalUrl),
                         oidc |-> AddLocal.oidc \/ (prev.url = LocalUrl /\ prev.oidc)]
               st == Stored(cfg, Local, entry)
    <2>1. AddLocal.op = "add" /\ AddLocal.name = Local /\ AddLocal.url = LocalUrl
      BY DEF AddLocal, NoEdit
    <2>2. Edited(cfg, AddLocal) = [st EXCEPT !.current = Local]
      BY <2>1 DEF Edited, Added
    <2>3. Local \in DOMAIN st.gateways /\ st.gateways[Local] = entry
      BY ConfigShape DEF Stored, Listed
    <2>4. st = [current |-> st.current, gateways |-> st.gateways]
      BY ConfigShape DEF Stored
    <2> HIDE DEF st
    <2>5. Edited(cfg, AddLocal) = [current |-> Local, gateways |-> st.gateways]
      BY <2>2, <2>4
    <2> QED
      BY <2>3, <2>5 DEF LocalChosen, Listed
  <1>2. ASSUME LocalChosen(cfg) PROVE LocalChosen(Edited(cfg, SelectLocal))
    <2>1. SelectLocal.op = "select" /\ SelectLocal.name = Local
      BY DEF SelectLocal, NoEdit
    <2>2. Edited(cfg, SelectLocal) = [current |-> Local, gateways |-> cfg.gateways]
      BY <2>1, ConfigShape DEF Edited
    <2> QED
      BY <1>2, <2>2 DEF LocalChosen, Listed
  <1> QED
    BY <1>1, <1>2

(* A step of one command that leaves the file and its copies alone. *)
LEMMA StillPlaces ==
  ASSUME Inv, Places, NEW c \in Commands, NEW step \in Steps \ {"save", "idle"}, Goto(c, step),
         pc[c] # "idle" /\ ~Ended(c),
         NEW e \in Edits, edit' = [edit EXCEPT ![c] = e],
         UNCHANGED <<conf, job, placed>>, UNCHANGED seen \/ Discard(c),
         step \in {"login", "resolve", "browser"} => job[c].kind = "login",
         step \in {"ensure", "check", "spawn"} => job[c].kind = "ensure",
         job[c].kind = "ensure" /\ step = "load" => e \in {AddLocal, SelectLocal}
  PROVE  Places'
  <1>1. /\ pc'[c] = step
        /\ \A d \in Commands \ {c} : pc'[d] = pc[d]
    BY GotoMoves DEF Inv, TypeOK, Steps
  <1>2. edit'[c] = e /\ \A d \in Commands \ {c} : edit'[d] = edit[d]
    BY DEF Inv, TypeOK
  <1>3. \A d \in Commands \ {c} : seen'[d] = seen[d]
    BY Discarded
  <1>4. \A d \in Commands : Purpose(d)'
    BY <1>1, <1>2 DEF Places, Purpose
  <1>5. Place(c)'
    BY <1>1 DEF Places, Place, Ended
  <1>6. \A d \in Commands \ {c} : Place(d)'
    BY <1>1, <1>2, <1>3 DEF Places, Place, Ended
  <1> QED
    BY <1>4, <1>5, <1>6 DEF Places

(* Where an edit of ensure leads that is done or refused. *)
LEMMA EditDonePlaces ==
  ASSUME Inv, NEW c \in Commands, Purpose(c), pc[c] \in {"load", "save"},
         NEW outcome \in {"ok", "failed"}, EditDone(c, outcome)
  PROVE  \E step \in Steps \ {"save", "idle", "login", "resolve", "browser"}, e \in Edits :
           /\ Goto(c, step) /\ edit' = [edit EXCEPT ![c] = e]
           /\ step \in {"ensure", "check", "spawn"} => job[c].kind = "ensure"
           /\ step = "load" => e = SelectLocal
           /\ job[c].kind # "ensure" => step \in {"ok", "failed"}
  <1>1. edit[c] \in Edits /\ edit = [edit EXCEPT ![c] = edit[c]]
    BY DEF Inv, TypeOK
  <1> QED
    BY <1>1, EditsMade DEF EditDone, Steps

(* Every step keeps the local gateway selected that the last writer placed.   *)
LEMMA PlacesStep == Inv /\ Places /\ [Next]_vars => Places'
  <1> SUFFICES ASSUME Inv, Places, [Next]_vars PROVE Places' OBVIOUS
  <1>0. \A c \in Commands : edit[c] \in Edits /\ edit = [edit EXCEPT ![c] = edit[c]]
    BY DEF Inv, TypeOK
  <1>1. ASSUME NEW c \in Commands, NEW j \in Jobs, Start(c, j) PROVE Places'
    <2>1. j \in Job /\ placed # c
      BY <1>1, ConfigAssumption DEF Start, Places, Place
    <2>2. /\ pc'[c] = FirstStep(j) /\ edit'[c] = j.edit /\ job'[c] = j
          /\ \A d \in Commands \ {c} : pc'[d] = pc[d] /\ edit'[d] = edit[d] /\ job'[d] = job[d]
          /\ UNCHANGED <<conf, seen, placed>>
      BY <1>1 DEF Start, Goto, Inv, TypeOK
    <2>3. Purpose(c)'
      BY <2>1, <2>2 DEF Purpose, FirstStep, Job
    <2>4. \A d \in Commands \ {c} : Purpose(d)' /\ Place(d)'
      BY <2>2 DEF Places, Purpose, Place, Ended
    <2>5. Place(c)'
      BY <2>1, <2>2 DEF Place
    <2> QED
      BY <2>3, <2>4, <2>5 DEF Places
  <1>2. ASSUME NEW c \in Commands, Load(c) PROVE Places'
    <2>1. pc[c] = "load" /\ UNCHANGED <<conf, job, placed>> /\ pc[c] # "idle" /\ ~Ended(c)
      BY <1>2 DEF Load, Ended
    <2>2. CASE Refused(conf, edit[c])
      <3>1. EditDone(c, "failed") /\ UNCHANGED seen
        BY <1>2, <2>2 DEF Load
      <3>2. PICK step \in Steps \ {"save", "idle", "login", "resolve", "browser"}, e \in Edits :
              /\ Goto(c, step) /\ edit' = [edit EXCEPT ![c] = e]
              /\ step \in {"ensure", "check", "spawn"} => job[c].kind = "ensure"
              /\ step = "load" => e = SelectLocal
        BY <2>1, <3>1, EditDonePlaces DEF Places
      <3> QED
        BY <2>1, <3>1, <3>2, StillPlaces
    <2>3. CASE ~Refused(conf, edit[c])
      <3>1. Goto(c, "save") /\ UNCHANGED edit /\ seen' = [seen EXCEPT ![c] = conf]
        BY <1>2, <2>3 DEF Load
      <3>2. /\ pc'[c] = "save" /\ seen'[c] = conf
            /\ \A d \in Commands \ {c} : seen'[d] = seen[d] /\ pc'[d] = pc[d]
        BY <3>1, GotoMoves DEF Inv, TypeOK, Steps
      <3>3. Purpose(c)' /\ Place(c)'
        BY <2>1, <3>1, <3>2 DEF Places, Purpose, Place, Ended
      <3>4. \A d \in Commands \ {c} : Purpose(d)' /\ Place(d)'
        BY <2>1, <3>1, <3>2 DEF Places, Purpose, Place, Ended
      <3> QED
        BY <3>3, <3>4 DEF Places
    <2> QED
      BY <2>2, <2>3
  <1>3. ASSUME NEW c \in Commands, Save(c) PROVE Places'
    <2>1. /\ pc[c] = "save" /\ conf' = Edited(seen[c], edit[c])
          /\ placed' = IF edit[c] = AddLocal \/ placed = c THEN c ELSE None
          /\ EditDone(c, "ok") /\ Discard(c) /\ UNCHANGED job
          /\ Purpose(c) /\ Place(c) /\ seen[c] \in Configs
      BY <1>3 DEF Save, Places, Inv, TypeOK
    <2>2. PICK step \in Steps \ {"save", "idle", "login", "resolve", "browser"}, e \in Edits :
            /\ Goto(c, step) /\ edit' = [edit EXCEPT ![c] = e]
            /\ step \in {"ensure", "check", "spawn"} => job[c].kind = "ensure"
            /\ step = "load" => e = SelectLocal
            /\ job[c].kind # "ensure" => step \in {"ok", "failed"}
      BY <2>1, EditDonePlaces
    <2>3. /\ pc'[c] = step /\ edit'[c] = e
          /\ \A d \in Commands \ {c} : pc'[d] = pc[d] /\ edit'[d] = edit[d] /\ seen'[d] = seen[d]
      BY <2>1, <2>2, GotoMoves, Discarded DEF Inv, TypeOK, Steps
    <2>4. Purpose(c)'
      BY <2>1, <2>2, <2>3 DEF Purpose
    <2>5. \A d \in Commands \ {c} : Purpose(d)'
      BY <2>1, <2>3 DEF Places, Purpose
    <2>6. \A d \in Commands \ {c} : placed' # d
      BY <2>1, ConfigAssumption
    <2>7. ASSUME placed' = c PROVE LocalChosen(conf')
      <3>1. CASE edit[c] = AddLocal
        BY <2>1, <3>1, EditedLocal
      <3>2. CASE edit[c] # AddLocal
        <4>1. placed = c
          BY <2>1, <2>7, <3>2, ConfigAssumption
        <4>2. edit[c] = SelectLocal
          BY <2>1, <3>2, <4>1 DEF Place, Purpose, Ended
        <4>3. LocalChosen(seen[c])
          BY <2>1, <4>1, <4>2 DEF Place
        <4> QED
          BY <2>1, <4>2, <4>3, EditedLocal
      <3> QED
        BY <3>1, <3>2
    <2>8. Place(c)'
      <3>1. ~Ended(c)' => job'[c].kind = "ensure"
        BY <2>1, <2>2, <2>3 DEF Ended
      <3>2. pc'[c] # "save" /\ pc'[c] # "idle"
        BY <2>2, <2>3
      <3> QED
        BY <2>7, <3>1, <3>2 DEF Place, LocalChosen, Listed
    <2>9. \A d \in Commands \ {c} : Place(d)'
      BY <2>6 DEF Place
    <2> QED
      BY <2>4, <2>5, <2>8, <2>9 DEF Places
  <1>4. ASSUME NEW c \in Commands, SaveFails(c) PROVE Places'
    <2>1. /\ pc[c] = "save" /\ EditDone(c, "failed") /\ Discard(c)
          /\ UNCHANGED <<conf, job, placed>> /\ pc[c] # "idle" /\ ~Ended(c)
      BY <1>4 DEF SaveFails, Ended
    <2>2. PICK step \in Steps \ {"save", "idle", "login", "resolve", "browser"}, e \in Edits :
            /\ Goto(c, step) /\ edit' = [edit EXCEPT ![c] = e]
            /\ step \in {"ensure", "check", "spawn"} => job[c].kind = "ensure"
            /\ step = "load" => e = SelectLocal
      BY <2>1, EditDonePlaces DEF Places
    <2> QED
      BY <2>1, <2>2, StillPlaces
  <1>5. ASSUME NEW c \in Commands, LoginOidc(c) PROVE Places'
    <2> DEFINE e == [NoEdit EXCEPT !.op = "bundle", !.name = conf.current,
                                   !.url = Lookup(conf, conf.current).url]
    <2>1. /\ conf.current # None /\ edit' = [edit EXCEPT ![c] = e] /\ pc[c] = "login"
          /\ Goto(c, "browser") /\ UNCHANGED <<conf, job, seen, placed>>
      BY <1>5 DEF LoginOidc
    <2>2. conf.current \in Names /\ Lookup(conf, conf.current).url \in Urls \cup {None}
      BY <2>1, ConfigShape, LookupTyped DEF Inv, TypeOK, Entry
    <2>3. e \in Edits
      BY <2>2 DEF NoEdit, Edits
    <2>4. job[c].kind = "login"
      BY <2>1 DEF Places, Purpose
    <2> HIDE DEF e
    <2>5. "browser" \in Steps \ {"save", "idle"} /\ pc[c] # "idle" /\ ~Ended(c)
      BY <2>1 DEF Steps, Ended
    <2> QED
      BY <2>1, <2>3, <2>4, <2>5, StillPlaces
  <1>6. ASSUME NEW c \in Commands, LoginResolve(c) PROVE Places'
    <2> DEFINE e == [NoEdit EXCEPT !.op = "token", !.url = Resolved(c)]
    <2>1. /\ edit' = [edit EXCEPT ![c] = e] /\ pc[c] = "resolve"
          /\ Goto(c, "browser") /\ UNCHANGED <<conf, job, seen, placed>>
      BY <1>6 DEF LoginResolve
    <2>2. Resolved(c) \in Urls \cup {None}
      BY LookupTyped DEF Resolved, Inv, TypeOK, Job, Entry
    <2>3. e \in Edits
      BY <2>2 DEF NoEdit, Edits
    <2>4. job[c].kind = "login"
      BY <2>1 DEF Places, Purpose
    <2> HIDE DEF e
    <2>5. "browser" \in Steps \ {"save", "idle"} /\ pc[c] # "idle" /\ ~Ended(c)
      BY <2>1 DEF Steps, Ended
    <2> QED
      BY <2>1, <2>3, <2>4, <2>5, StillPlaces
  <1>7. ASSUME NEW c \in Commands, LoginLocal(c) \/ LoggedIn(c) \/ NoGateway(c) \/ Killed(c)
        PROVE  Places'
    <2>1. /\ pc[c] # "idle" /\ ~Ended(c) /\ UNCHANGED <<conf, job, edit, placed>>
          /\ UNCHANGED seen \/ Discard(c)
      BY <1>7 DEF LoginLocal, LoggedIn, NoGateway, Killed, Ended
    <2>2. CASE Goto(c, "load")
      <3>1. pc[c] = "browser"
        BY <1>7, <2>2, GotoMoves DEF LoginLocal, LoggedIn, NoGateway, Killed, Goto, Inv, TypeOK
      <3>2. job[c].kind = "login"
        BY <3>1 DEF Places, Purpose
      <3> QED
        BY <1>0, <2>1, <2>2, <3>2, StillPlaces DEF Steps
    <2>3. CASE Goto(c, "resolve")
      <3>1. pc[c] = "login"
        BY <1>7, <2>3, GotoMoves DEF LoginLocal, LoggedIn, NoGateway, Killed, Goto, Inv, TypeOK
      <3>2. job[c].kind = "login"
        BY <3>1 DEF Places, Purpose
      <3> QED
        BY <1>0, <2>1, <2>3, <3>2, StillPlaces DEF Steps
    <2>4. CASE Goto(c, "failed") \/ Goto(c, "killed")
      BY <1>0, <2>1, <2>4, StillPlaces DEF Steps
    <2> QED
      BY <1>7, <2>2, <2>3, <2>4 DEF LoginLocal, LoggedIn, NoGateway, Killed
  <1>8. ASSUME NEW c \in Commands,
               \/ EnsureHealthy(c) \/ EnsureExisting(c) \/ EnsureNotListening(c)
               \/ EnsureCheck(c) \/ Spawn(c)
        PROVE  Places'
    <2>1. /\ pc[c] \in {"ensure", "check", "spawn"} /\ UNCHANGED <<conf, job, seen, placed>>
          /\ \/ edit' = [edit EXCEPT ![c] = AddLocal] /\ Goto(c, "load")
             \/ UNCHANGED edit /\ \E step \in {"ok", "failed", "spawn"} : Goto(c, step)
      BY <1>8 DEF EnsureHealthy, EnsureExisting, EnsureNotListening, EnsureCheck, Spawn
    <2>2. job[c].kind = "ensure" /\ pc[c] # "idle" /\ ~Ended(c)
      BY <2>1 DEF Places, Purpose, Ended
    <2>3. CASE edit' = [edit EXCEPT ![c] = AddLocal] /\ Goto(c, "load")
      <3>1. "load" \in Steps \ {"save", "idle"} /\ AddLocal \in Edits
        BY EditsMade DEF Steps
      <3> QED
        BY <2>1, <2>2, <2>3, <3>1, StillPlaces
    <2>4. ASSUME NEW step \in {"ok", "failed", "spawn"}, Goto(c, step), UNCHANGED edit
          PROVE  Places'
      BY <1>0, <2>1, <2>2, <2>4, StillPlaces DEF Steps
    <2> QED
      BY <2>1, <2>3, <2>4
  <1>9. CASE UNCHANGED vars
    BY <1>9 DEF vars, Places, Purpose, Place, Ended
  <1> QED
    BY <1>1, <1>2, <1>3, <1>4, <1>5, <1>6, <1>7, <1>8, <1>9 DEF Next, Step

(* At first nothing is placed. *)
LEMMA PlacesStart == Init => Places
  BY ConfigAssumption DEF Init, Places, Purpose, Place

(* When ensure ends well the gateway that the next call uses answers: at once, *)
(* -g or not; and after its edits, whichever of them failed and whatever ran   *)
(* meanwhile, the selected one does if the local gateway was added and no      *)
(* other command has written the file since.                                   *)
THEOREM EnsureKeepsItsWord == SafetySpec => EnsuredReachable
  <1> DEFINE Ends(c) == job[c].kind = "ensure" /\ pc[c] # "ok" /\ pc'[c] = "ok"
             Reached(c) == IF pc[c] = "ensure" THEN Resolved(c)' \in up'
                           ELSE placed' = c => Lookup(conf, conf.current).url' \in up'
  <1>1. Init => Inv /\ Places
    BY ConfigStart, PlacesStart
  <1>2. Inv /\ Places /\ [Next]_vars => Inv' /\ Places'
    BY ConfigStep, PlacesStep
  <1>3. Inv /\ Places /\ [Next]_vars => [\A c \in Commands : Ends(c) => Reached(c)]_vars
    <2> SUFFICES ASSUME Inv, Places, Next, NEW c \in Commands, Ends(c)
                 PROVE  Reached(c)
      OBVIOUS
    <2>1. EnsureHealthy(c) \/ EnsureCheck(c)
      <3>1. PICK d \in Commands : (\E j \in Jobs : Start(d, j)) \/ Step(d) \/ Killed(d)
        BY DEF Next
      <3>2. \E step \in Steps : Goto(d, step)
        BY <3>1, ConfigAssumption, EditDoneTo
           DEF Start, FirstStep, Job, Step, Load, Save, SaveFails, LoginOidc, LoginLocal,
               LoginResolve, NoGateway, LoggedIn, EnsureHealthy, EnsureExisting,
               EnsureNotListening, EnsureCheck, Spawn, Killed, Steps
      <3>3. d = c /\ Goto(c, "ok")
        BY <3>2, GotoMoves DEF Inv, TypeOK, Steps, Goto
      <3>4. ~Killed(c) /\ ~Load(c) /\ ~Save(c) /\ ~SaveFails(c)
        BY <3>3 DEF Killed, Load, Save, SaveFails, EditDone, Goto, Inv, TypeOK
      <3>5. ASSUME NEW j \in Jobs, Start(c, j) PROVE FALSE
        <4>1. pc' = [pc EXCEPT ![c] = FirstStep(j)] /\ FirstStep(j) # "ok"
          BY <3>5, ConfigAssumption DEF Start, Goto, FirstStep, Job
        <4> QED
          BY <4>1 DEF Inv, TypeOK
      <3>6. ~LoginOidc(c) /\ ~LoginLocal(c) /\ ~LoginResolve(c) /\ ~NoGateway(c) /\ ~LoggedIn(c)
        BY <3>3 DEF LoginOidc, LoginLocal, LoginResolve, NoGateway, LoggedIn, Goto, Inv, TypeOK
      <3>7. ~EnsureExisting(c) /\ ~EnsureNotListening(c) /\ ~Spawn(c)
        BY <3>3 DEF EnsureExisting, EnsureNotListening, Spawn, Goto, Inv, TypeOK
      <3> QED
        BY <3>1, <3>3, <3>4, <3>5, <3>6, <3>7 DEF Step
    <2>2. CASE EnsureHealthy(c)
      BY <2>2 DEF EnsureHealthy, Healthy, Resolved
    <2>3. CASE EnsureCheck(c)
      <3>1. pc[c] = "check" /\ UNCHANGED <<conf, up, job, placed>>
        BY <2>3 DEF EnsureCheck
      <3>2. LocalUrl \in up
        BY <2>3 DEF EnsureCheck, Goto, Inv, TypeOK
      <3>3. placed = c => LocalChosen(conf)
        BY DEF Places, Place
      <3> QED
        BY <3>1, <3>2, <3>3 DEF LocalChosen, Lookup
    <2> QED
      BY <2>1, <2>2, <2>3
  <1> QED
    BY <1>1, <1>2, <1>3, PTL DEF SafetySpec, EnsuredReachable
=============================================================================
