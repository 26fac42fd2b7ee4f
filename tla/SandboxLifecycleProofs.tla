------------------------ MODULE SandboxLifecycleProofs ------------------------
(***************************************************************************)
(* Proofs about SandboxLifecycle: its types, and what holds in one shell,  *)
(* where commands follow one another: a supervised container always has a  *)
(* record at its gateway, whatever calls fail and wherever commands die;   *)
(* what is recorded as running runs; and what was removed is gone.  In any *)
(* number of shells a cleanup removes no container that it did not find    *)
(* stopped.                                                                *)
(***************************************************************************)
EXTENDS SandboxLifecycle, TLAPS

(* Commands follow one another. *)
OneShell == \A c, d \in Shells : c = d

----------------------------------------------------------------------------
(* Types *)

(* A call of the gateway leaves types alone. *)
LEMMA ReportTyped ==
  ASSUME TypeOK, NEW c \in Shells, NEW entry \in Records, NEW next, NEW otherwise,
         Report(c, entry, next, otherwise)
  PROVE  /\ record' \in [Names -> Records]
         /\ troubled' \subseteq Names
         /\ Goto(c, next) \/ Goto(c, otherwise)
  BY DEF TypeOK, Report, Trouble, Unanswered, Name, Job

(* A call of the driver leaves types alone. *)
LEMMA DriveTyped ==
  ASSUME TypeOK, NEW c \in Shells, NEW n \in Names, NEW value \in Boxes, NEW next, NEW otherwise,
         Drive(c, n, value, next, otherwise)
  PROVE  /\ box' \in [Names -> Boxes]
         /\ troubled' \subseteq Names
         /\ Goto(c, next) \/ Goto(c, otherwise)
  BY DEF TypeOK, Drive, Trouble, Unanswered, Name, Job

(* What the commands of a shell are asked to do. *)
LEMMA JobsGiven ==
  ASSUME NEW c \in Shells
  PROVE  Jobs[c] \subseteq Job /\ Jobs[c] # {}
<1>1. Jobs \in [Shells -> (SUBSET Job) \ {{}}]
  BY SandboxAssumption
<1>2. Jobs[c] \in (SUBSET Job) \ {{}}
  <2> HIDE DEF Job
  <2> QED BY <1>1
<1> QED BY <1>2

(* What runs again of what is listed are identifiers of containers. *)
LEMMA WakeTyped ==
  ASSUME TypeOK, Wake
  PROVE  woken' \subseteq Ids
<1>1. Listed \subseteq Ids
  BY DEF TypeOK, Listed
<1> QED BY <1>1 DEF TypeOK, Wake

Steps == {"idle", "ensure", "register", "token", "make", "announce", "furnish", "exec", "look",
          "recheck", "revive", "act", "touch", "remove", "forget", "list", "purge", "ok",
          "failed", "killed"}

(* A command moves to a place there is. *)
LEMMA GotoTyped ==
  ASSUME TypeOK, NEW c \in Shells, NEW step \in Steps, Goto(c, step)
  PROVE  pc' \in [Shells -> Steps]
  BY DEF TypeOK, Goto, Steps

(* What a call writes has the type of what it is written to. *)
LEMMA EntriesTyped ==
  ASSUME TypeOK, NEW c \in Shells
  PROVE  /\ NoBox \in Boxes /\ NoRecord \in Records
         /\ [status |-> "creating", id |-> 0] \in Records
         /\ \A n \in Names : [status |-> "running", id |-> box[n].id] \in Records
         /\ \A id \in held[c] : [status |-> Touched(c), id |-> id] \in Records
  BY SandboxAssumption DEF TypeOK, NoBox, NoRecord, Boxes, Records, Ids, Touched

(* A container that is switched on or off is a container. *)
LEMMA SwitchedTyped ==
  ASSUME NEW b \in Boxes, NEW running \in BOOLEAN
  PROVE  [b EXCEPT !.running = running] \in Boxes
  BY DEF Boxes

(* What a look-up or a listing holds are identifiers of containers. *)
LEMMA FoundTyped ==
  ASSUME TypeOK
  PROVE  /\ \A n \in Names : {box[n].id} \in SUBSET Ids
         /\ {box[n].id : n \in Disposable} \in SUBSET Ids
  BY DEF TypeOK, Boxes, Disposable

(* Every step keeps the types. *)
LEMMA TypeStep == TypeOK /\ [Next]_vars => TypeOK'
<1> SUFFICES ASSUME TypeOK, [Next]_vars PROVE TypeOK'
  OBVIOUS
<1>1. ASSUME NEW c \in Shells, NEW j \in Jobs[c], Start(c, j) PROVE TypeOK'
  <2>1. j \in Job
    BY JobsGiven
  <2>2. FirstStep(j) \in Steps
    BY <2>1 DEF FirstStep, Job, Kinds, Steps
  <2> QED BY <1>1, <2>1, <2>2, GotoTyped DEF Start, TypeOK, Steps, Ids
<1>2. ASSUME NEW c \in Shells, RegisterNowhere(c) PROVE TypeOK'
  BY <1>2 DEF RegisterNowhere, TypeOK, command, Goto, FailTo, Trouble, Name, Job, BeforeMake, Boxes, Ids, Disposable, RemoveFailed
<1>3. ASSUME NEW c \in Shells, IssueToken(c) PROVE TypeOK'
  BY <1>3 DEF IssueToken, TypeOK, command, Goto, FailTo, Trouble, Name, Job, BeforeMake, Boxes, Ids, Disposable, RemoveFailed
<1>4. ASSUME NEW c \in Shells, NameTaken(c) PROVE TypeOK'
  BY <1>4 DEF NameTaken, TypeOK, command, Goto, FailTo, Trouble, Name, Job, BeforeMake, Boxes, Ids, Disposable, RemoveFailed
<1>5. ASSUME NEW c \in Shells, Furnish(c) PROVE TypeOK'
  BY <1>5 DEF Furnish, TypeOK, command, Goto, FailTo, Trouble, Name, Job, BeforeMake, Boxes, Ids, Disposable, RemoveFailed
<1>6. ASSUME NEW c \in Shells, Exec(c) PROVE TypeOK'
  BY <1>6 DEF Exec, TypeOK, command, Goto, FailTo, Trouble, Name, Job, BeforeMake, Boxes, Ids, Disposable, RemoveFailed
<1>7. ASSUME NEW c \in Shells, RunLook(c) PROVE TypeOK'
  BY <1>7 DEF RunLook, TypeOK, command, Goto, FailTo, Trouble, Name, Job, BeforeMake, Boxes, Ids, Disposable, RemoveFailed
<1>8. ASSUME NEW c \in Shells, Recheck(c) PROVE TypeOK'
  <2>0. Name(c) \in Names
    BY DEF TypeOK, Name, Job
  <2>1. held' \in [Shells -> SUBSET Ids]
    BY <1>8, <2>0, FoundTyped DEF Recheck, TypeOK
  <2>2. pc' \in [Shells -> Steps] /\ troubled' \subseteq Names
    BY <1>8, GotoTyped DEF Recheck, TypeOK, Steps, FailTo, Trouble, Name, Job
  <2> QED BY <1>8, <2>1, <2>2 DEF Recheck, TypeOK, Steps
<1>9. ASSUME NEW c \in Shells, Look(c) PROVE TypeOK'
  <2>1. held' \in [Shells -> SUBSET Ids]
    BY <1>9, FoundTyped DEF Look, TypeOK, Name, Job
  <2>2. pc' \in [Shells -> Steps] /\ troubled' \subseteq Names
    BY <1>9, GotoTyped DEF Look, TypeOK, Steps, FailTo, Trouble, Name, Job
  <2> QED BY <1>9, <2>1, <2>2 DEF Look, TypeOK, Steps
<1>10. ASSUME NEW c \in Shells, RemoveAbsent(c) PROVE TypeOK'
  BY <1>10 DEF RemoveAbsent, TypeOK, command, Goto, FailTo, Trouble, Name, Job, BeforeMake, Boxes, Ids, Disposable, RemoveFailed
<1>11. ASSUME NEW c \in Shells, List(c) PROVE TypeOK'
  <2>1. held' \in [Shells -> SUBSET Ids]
    BY <1>11, FoundTyped DEF List, TypeOK, Name, Job
  <2>2. pc' \in [Shells -> Steps] /\ troubled' \subseteq Names
    BY <1>11, GotoTyped DEF List, TypeOK, Steps, FailTo, Trouble, Name, Job
  <2> QED BY <1>11, <2>1, <2>2 DEF List, TypeOK, Steps
<1>12. ASSUME NEW c \in Shells, Purged(c) PROVE TypeOK'
  BY <1>12 DEF Purged, TypeOK, command, Goto, FailTo, Trouble, Name, Job, BeforeMake, Boxes, Ids, Disposable, RemoveFailed
<1>13. ASSUME NEW c \in Shells, Interrupt(c) PROVE TypeOK'
  BY <1>13 DEF Interrupt, TypeOK, command, Goto, FailTo, Trouble, Name, Job, BeforeMake, Boxes, Ids, Disposable, RemoveFailed
<1>14. ASSUME NEW c \in Shells, Killed(c) PROVE TypeOK'
  BY <1>14 DEF Killed, TypeOK, command, Goto, FailTo, Trouble, Name, Job, BeforeMake, Boxes, Ids, Disposable, RemoveFailed
<1>15. ASSUME NEW c \in Shells, Ensure(c) PROVE TypeOK'
  BY <1>15 DEF Ensure, TypeOK, command, Goto, FailTo, Trouble, Name, Job, BeforeMake, Boxes, Ids, Disposable, RemoveFailed
<1>16. ASSUME NEW c \in Shells, Register(c) PROVE TypeOK'
  BY <1>16, ReportTyped, EntriesTyped, GotoTyped DEF Register, TypeOK, Steps, RegisterFailed
<1>17. ASSUME NEW c \in Shells, Announce(c) PROVE TypeOK'
  <2>1. CASE linked[c]
    BY <1>17, <2>1, ReportTyped, EntriesTyped, GotoTyped DEF Announce, TypeOK, Steps, command, Name, Job
  <2>2. CASE ~linked[c]
    BY <1>17, <2>2, GotoTyped DEF Announce, TypeOK, Steps, command
  <2> QED BY <2>1, <2>2
<1>18. ASSUME NEW c \in Shells, Touch(c) PROVE TypeOK'
  <2>1. CASE selected
    <3>1. PICK id \in held[c] : Report(c, [status |-> Touched(c), id |-> id], "ok", "ok")
      BY <1>18, <2>1 DEF Touch
    <3>2. [status |-> Touched(c), id |-> id] \in Records
      BY EntriesTyped
    <3> QED BY <1>18, <3>1, <3>2, ReportTyped, GotoTyped DEF Touch, TypeOK, Steps, command
  <2>2. CASE ~selected
    BY <1>18, <2>2, GotoTyped DEF Touch, TypeOK, Steps, command
  <2> QED BY <2>1, <2>2
<1>19. ASSUME NEW c \in Shells, Forget(c) PROVE TypeOK'
  <2>1. CASE selected
    BY <1>19, <2>1, ReportTyped, EntriesTyped, GotoTyped DEF Forget, Forgotten, TypeOK, Steps, command
  <2>2. CASE ~selected
    BY <1>19, <2>2, GotoTyped DEF Forget, TypeOK, Steps, command
  <2> QED BY <2>1, <2>2
<1>20. ASSUME NEW c \in Shells, Make(c) PROVE TypeOK'
  <2> DEFINE new == [id |-> made + 1, running |-> TRUE, supervised |-> job[c].proxy /\ linked[c]]
  <2>1. new \in Boxes /\ made' \in Ids /\ Name(c) \in Names
    BY <1>20, SandboxAssumption DEF Make, TypeOK, Boxes, Ids, Name, Job
  <2> HIDE DEF new
  <2>2. Drive(c, Name(c), new, IF job[c].kind = "create" THEN "announce" ELSE "exec", "failed")
    BY <1>20 DEF Make, new
  <2> QED BY <1>20, <2>1, <2>2, DriveTyped, GotoTyped DEF Make, TypeOK, Steps, command
<1>21. ASSUME NEW c \in Shells, Revive(c) PROVE TypeOK'
  <2>1. CASE box[Name(c)].id \in held[c]
    <3> DEFINE new == [box[Name(c)] EXCEPT !.running = TRUE]
    <3>1. Name(c) \in Names /\ box[Name(c)] \in Boxes /\ new \in Boxes
      <4>1. Name(c) \in Names /\ box[Name(c)] \in Boxes
        BY DEF TypeOK, Name, Job
      <4> QED BY <4>1, SwitchedTyped
    <3>2. Drive(c, Name(c), new, "exec", "exec")
      BY <1>21, <2>1 DEF Revive
    <3> HIDE DEF new
    <3>3. /\ box' \in [Names -> Boxes] /\ troubled' \subseteq Names
          /\ Goto(c, "exec")
      BY <3>1, <3>2, DriveTyped
    <3>4. pc' \in [Shells -> Steps]
      BY <3>3, GotoTyped DEF Steps
    <3> QED BY <1>21, <3>3, <3>4, WakeTyped DEF Revive, TypeOK, Steps, command
  <2>2. CASE box[Name(c)].id \notin held[c]
    BY <1>21, <2>2, GotoTyped, WakeTyped DEF Revive, TypeOK, Steps, command
  <2> QED BY <2>1, <2>2
<1>22. ASSUME NEW c \in Shells, Act(c) PROVE TypeOK'
  <2>1. CASE box[Name(c)].id \in held[c]
    <3> DEFINE new == [box[Name(c)] EXCEPT !.running = (job[c].kind = "start")]
    <3>1. Name(c) \in Names /\ box[Name(c)] \in Boxes /\ new \in Boxes
      <4>1. Name(c) \in Names /\ box[Name(c)] \in Boxes
        BY DEF TypeOK, Name, Job
      <4> QED BY <4>1, SwitchedTyped
    <3>2. Drive(c, Name(c), new, "touch", "failed")
      BY <1>22, <2>1 DEF Act
    <3> HIDE DEF new
    <3>3. /\ box' \in [Names -> Boxes] /\ troubled' \subseteq Names
          /\ Goto(c, "touch") \/ Goto(c, "failed")
      BY <3>1, <3>2, DriveTyped
    <3>4. pc' \in [Shells -> Steps]
      BY <3>3, GotoTyped DEF Steps
    <3> QED BY <1>22, <3>3, <3>4, WakeTyped DEF Act, TypeOK, Steps, command
  <2>2. CASE box[Name(c)].id \notin held[c]
    BY <1>22, <2>2, GotoTyped, WakeTyped DEF Act, TypeOK, Steps, command
  <2> QED BY <2>1, <2>2
<1>23. ASSUME NEW c \in Shells, Remove(c) PROVE TypeOK'
  BY <1>23, DriveTyped, EntriesTyped, GotoTyped DEF Remove, RemoveFailed, TypeOK, Steps, command, Name, Job
<1>24. ASSUME NEW c \in Shells, Purge(c) PROVE TypeOK'
  <2> PICK id \in held[c] :
         /\ held' = [held EXCEPT ![c] = @ \ {id}]
         /\ \/ \E n \in Names : box[n].id = id /\ Drive(c, n, NoBox, "purge", "failed")
            \/ /\ \A n \in Names : box[n].id # id
               /\ Goto(c, "purge") \/ Goto(c, "failed")
               /\ UNCHANGED <<box, troubled>>
    BY <1>24 DEF Purge
  <2>1. held' \in [Shells -> SUBSET Ids]
    BY DEF TypeOK
  <2>2. CASE \E n \in Names : box[n].id = id /\ Drive(c, n, NoBox, "purge", "failed")
    BY <1>24, <2>1, <2>2, DriveTyped, EntriesTyped, GotoTyped DEF Purge, TypeOK, Steps
  <2>3. CASE (Goto(c, "purge") \/ Goto(c, "failed")) /\ UNCHANGED <<box, troubled>>
    BY <1>24, <2>1, <2>3, GotoTyped DEF Purge, TypeOK, Steps
  <2> QED BY <2>2, <2>3
<1>25. ASSUME NEW n \in Names, BoxExits(n) PROVE TypeOK'
  BY <1>25 DEF BoxExits, TypeOK, Boxes, command
<1>26. CASE UNCHANGED vars
  BY <1>26 DEF vars, TypeOK
<1> QED
  BY <1>1, <1>2, <1>3, <1>4, <1>5, <1>6, <1>7, <1>8, <1>9, <1>10, <1>11, <1>12, <1>13, <1>14, <1>15, <1>16, <1>17, <1>18, <1>19, <1>20, <1>21, <1>22, <1>23, <1>24, <1>25, <1>26 DEF Next, Step

(* The types hold at first. *)
LEMMA TypeInit == Init => TypeOK
<1> SUFFICES ASSUME Init PROVE TypeOK
  OBVIOUS
<1>1. PICK old \in SUBSET Names, running \in BOOLEAN :
        /\ box = [n \in Names |-> IF n \in old
                                  THEN [id |-> 1, running |-> running, supervised |-> TRUE]
                                  ELSE NoBox]
        /\ record = [n \in Names |-> IF n \in old
                                     THEN [id |-> 1, status |-> IF running THEN "running" ELSE "exited"]
                                     ELSE NoRecord]
        /\ made = IF old = {} THEN 0 ELSE 1
  BY DEF Init
<1>2. box \in [Names -> Boxes] /\ record \in [Names -> Records] /\ made \in Ids
  BY <1>1, SandboxAssumption DEF Boxes, Records, Ids, NoBox, NoRecord
<1>3. \A c \in Shells : (CHOOSE j \in Jobs[c] : TRUE) \in Job
  <2> TAKE c \in Shells
  <2>1. PICK j : j \in Jobs[c]
    BY JobsGiven
  <2>2. (CHOOSE k \in Jobs[c] : TRUE) \in Jobs[c]
    BY <2>1
  <2> QED BY <2>2, JobsGiven
<1> QED BY <1>2, <1>3 DEF Init, TypeOK

(* Every variable keeps its type, for any shells, names, jobs and faults.  *)
THEOREM SandboxTyped == Spec => []TypeOK
<1> QED BY TypeInit, TypeStep, PTL DEF Spec

----------------------------------------------------------------------------
(* A supervised container has a record *)

(* What a command relies on between its calls: the record was written      *)
(* before it makes a supervised container, and it deletes the record only  *)
(* of a container that is gone.                                            *)
PendingOf(c) ==
  /\ pc[c] \in {"token", "make"} /\ job[c].proxy /\ linked[c] => record[Name(c)].status # "none"
  /\ pc[c] = "register" /\ job[c].kind = "run" => ~linked[c]
  /\ pc[c] = "look" => ~linked[c]
  /\ pc[c] = "ensure" => job[c].kind = "create"
  /\ pc[c] = "forget" => ~box[Name(c)].supervised
Inv == SupervisedRegistered /\ \A c \in Shells : PendingOf(c)

(* A record that is written registers. *)
LEMMA ReportKeeps ==
  ASSUME TypeOK, SupervisedRegistered, NEW c \in Shells, NEW entry \in Records, NEW next, NEW otherwise,
         Report(c, entry, next, otherwise), entry.status # "none", UNCHANGED box
  PROVE  SupervisedRegistered' /\ (Goto(c, next) \/ Goto(c, otherwise))
  BY DEF TypeOK, SupervisedRegistered, Report, Unanswered, Records, Name, Job

(* A container that is changed needs a record when it becomes or stays      *)
(* supervised.                                                              *)
LEMMA DriveKeeps ==
  ASSUME TypeOK, SupervisedRegistered, NEW c \in Shells, NEW n \in Names, NEW value \in Boxes,
         NEW next, NEW otherwise, Drive(c, n, value, next, otherwise),
         value.supervised => record[n].status # "none", UNCHANGED record
  PROVE  SupervisedRegistered' /\ (Goto(c, next) \/ Goto(c, otherwise))
  BY DEF TypeOK, SupervisedRegistered, Drive, Unanswered, Boxes

(* Steps at which a command relies on nothing. *)
LEMMA NothingPending ==
  ASSUME TypeOK, NEW c \in Shells, NEW step \in {"announce", "furnish", "exec", "touch", "purge", "ok", "failed"},
         Goto(c, step)
  PROVE  PendingOf(c)'
  BY DEF TypeOK, PendingOf, Goto

(* At first every container has a record. *)
LEMMA InvInit == Init => Inv
<1> SUFFICES ASSUME Init PROVE Inv
  OBVIOUS
<1>1. SupervisedRegistered
  BY DEF Init, SupervisedRegistered, NoBox
<1>2. \A c \in Shells : PendingOf(c)
  BY DEF Init, PendingOf
<1> QED BY <1>1, <1>2 DEF Inv

(* In one shell every step keeps supervised containers registered. *)
LEMMA InvStep == OneShell /\ TypeOK /\ Inv /\ [Next]_vars => Inv'
<1> SUFFICES ASSUME OneShell, TypeOK, Inv, [Next]_vars PROVE Inv'
  OBVIOUS
<1>0. ASSUME NEW c \in Shells, SupervisedRegistered', PendingOf(c)' PROVE Inv'
  BY <1>0 DEF OneShell, Inv
<1>1. ASSUME NEW c \in Shells, NEW j \in Jobs[c], Start(c, j) PROVE SupervisedRegistered' /\ PendingOf(c)'
  <2>1. j \in Job
    BY JobsGiven
  <2> QED BY <1>1, <2>1 DEF Start, FirstStep, Goto, Inv, SupervisedRegistered, PendingOf, TypeOK, Job, Kinds
<1>2. ASSUME NEW c \in Shells, Ensure(c) PROVE SupervisedRegistered' /\ PendingOf(c)'
  BY <1>2 DEF Ensure, Goto, FailTo, Inv, SupervisedRegistered, PendingOf, TypeOK, command, Name, BeforeMake, RemoveFailed
<1>3. ASSUME NEW c \in Shells, RegisterNowhere(c) PROVE SupervisedRegistered' /\ PendingOf(c)'
  BY <1>3 DEF RegisterNowhere, Goto, FailTo, Inv, SupervisedRegistered, PendingOf, TypeOK, command, Name, BeforeMake, RemoveFailed
<1>4. ASSUME NEW c \in Shells, IssueToken(c) PROVE SupervisedRegistered' /\ PendingOf(c)'
  BY <1>4 DEF IssueToken, Goto, FailTo, Inv, SupervisedRegistered, PendingOf, TypeOK, command, Name, BeforeMake, RemoveFailed
<1>5. ASSUME NEW c \in Shells, NameTaken(c) PROVE SupervisedRegistered' /\ PendingOf(c)'
  BY <1>5 DEF NameTaken, Goto, FailTo, Inv, SupervisedRegistered, PendingOf, TypeOK, command, Name, BeforeMake, RemoveFailed
<1>6. ASSUME NEW c \in Shells, Furnish(c) PROVE SupervisedRegistered' /\ PendingOf(c)'
  BY <1>6 DEF Furnish, Goto, FailTo, Inv, SupervisedRegistered, PendingOf, TypeOK, command, Name, BeforeMake, RemoveFailed
<1>7. ASSUME NEW c \in Shells, Exec(c) PROVE SupervisedRegistered' /\ PendingOf(c)'
  BY <1>7 DEF Exec, Goto, FailTo, Inv, SupervisedRegistered, PendingOf, TypeOK, command, Name, BeforeMake, RemoveFailed
<1>8. ASSUME NEW c \in Shells, RunLook(c) PROVE SupervisedRegistered' /\ PendingOf(c)'
  BY <1>8 DEF RunLook, Goto, FailTo, Inv, SupervisedRegistered, PendingOf, TypeOK, command, Name, BeforeMake, RemoveFailed
<1>9. ASSUME NEW c \in Shells, Recheck(c) PROVE SupervisedRegistered' /\ PendingOf(c)'
  BY <1>9 DEF Recheck, Goto, FailTo, Inv, SupervisedRegistered, PendingOf, TypeOK, command, Name, BeforeMake, RemoveFailed
<1>10. ASSUME NEW c \in Shells, Look(c) PROVE SupervisedRegistered' /\ PendingOf(c)'
  BY <1>10 DEF Look, Goto, FailTo, Inv, SupervisedRegistered, PendingOf, TypeOK, command, Name, BeforeMake, RemoveFailed
<1>11. ASSUME NEW c \in Shells, RemoveAbsent(c) PROVE SupervisedRegistered' /\ PendingOf(c)'
  BY <1>11 DEF RemoveAbsent, Goto, FailTo, Inv, SupervisedRegistered, PendingOf, TypeOK, command, Name, BeforeMake, RemoveFailed
<1>12. ASSUME NEW c \in Shells, List(c) PROVE SupervisedRegistered' /\ PendingOf(c)'
  BY <1>12 DEF List, Goto, FailTo, Inv, SupervisedRegistered, PendingOf, TypeOK, command, Name, BeforeMake, RemoveFailed
<1>13. ASSUME NEW c \in Shells, Purged(c) PROVE SupervisedRegistered' /\ PendingOf(c)'
  BY <1>13 DEF Purged, Goto, FailTo, Inv, SupervisedRegistered, PendingOf, TypeOK, command, Name, BeforeMake, RemoveFailed
<1>14. ASSUME NEW c \in Shells, Interrupt(c) PROVE SupervisedRegistered' /\ PendingOf(c)'
  BY <1>14 DEF Interrupt, Goto, FailTo, Inv, SupervisedRegistered, PendingOf, TypeOK, command, Name, BeforeMake, RemoveFailed
<1>15. ASSUME NEW c \in Shells, Killed(c) PROVE SupervisedRegistered' /\ PendingOf(c)'
  BY <1>15 DEF Killed, Goto, FailTo, Inv, SupervisedRegistered, PendingOf, TypeOK, command, Name, BeforeMake, RemoveFailed
<1>16. ASSUME NEW c \in Shells, Register(c) PROVE SupervisedRegistered' /\ PendingOf(c)'
  <2> DEFINE new == [status |-> "creating", id |-> 0]
  <2>1. new \in Records /\ new.status # "none" /\ Name(c) \in Names
    BY EntriesTyped DEF TypeOK, Name, Job
  <2> HIDE DEF new
  <2>2. Report(c, new, "token", "failed")
    BY <1>16 DEF Register, RegisterFailed, new
  <2>3. SupervisedRegistered'
    BY <1>16, <2>1, <2>2, ReportKeeps DEF Register, Inv
  <2>4. CASE record' = [record EXCEPT ![Name(c)] = new] /\ Goto(c, "token")
    <3>1. record'[Name(c)'].status # "none"
      BY <1>16, <2>1, <2>4 DEF Register, TypeOK, Name
    <3>2. pc'[c] = "token"
      BY <2>4 DEF Goto, TypeOK
    <3> QED BY <2>3, <3>1, <3>2 DEF PendingOf
  <2>5. CASE Goto(c, "failed")
    BY <2>3, <2>5, NothingPending
  <2> QED BY <2>2, <2>4, <2>5 DEF Report
<1>17. ASSUME NEW c \in Shells, Announce(c) PROVE SupervisedRegistered' /\ PendingOf(c)'
  <2>0. [status |-> "running", id |-> box[Name(c)].id] \in Records
    BY EntriesTyped DEF TypeOK, Name, Job
  <2>1. CASE linked[c]
    BY <1>17, <2>0, <2>1, ReportKeeps, NothingPending DEF Announce, Inv
  <2>2. CASE ~linked[c]
    BY <1>17, <2>2, NothingPending DEF Announce, Inv, SupervisedRegistered
  <2> QED BY <2>1, <2>2
<1>18. ASSUME NEW c \in Shells, Touch(c) PROVE SupervisedRegistered' /\ PendingOf(c)'
  <2>1. CASE selected
    <3>1. PICK id \in held[c] : Report(c, [status |-> Touched(c), id |-> id], "ok", "ok")
      BY <1>18, <2>1 DEF Touch
    <3>2. [status |-> Touched(c), id |-> id] \in Records
      BY EntriesTyped
    <3>3. Touched(c) # "none"
      BY DEF Touched
    <3> QED BY <1>18, <3>1, <3>2, <3>3, ReportKeeps, NothingPending DEF Touch, Inv
  <2>2. CASE ~selected
    BY <1>18, <2>2, NothingPending DEF Touch, Inv, SupervisedRegistered
  <2> QED BY <2>1, <2>2
<1>19. ASSUME NEW c \in Shells, Forget(c) PROVE SupervisedRegistered' /\ PendingOf(c)'
  BY <1>19 DEF Forget, Goto, Report, Drive, Unanswered, RegisterFailed, Touched, Forgotten, NoBox, NoRecord, RemoveFailed, Inv, SupervisedRegistered, PendingOf, TypeOK, command, Name, Job, Boxes, Records
<1>20. ASSUME NEW c \in Shells, Make(c) PROVE SupervisedRegistered' /\ PendingOf(c)'
  <2> DEFINE new == [id |-> made + 1, running |-> TRUE, supervised |-> job[c].proxy /\ linked[c]]
  <2>1. /\ new \in Boxes /\ Name(c) \in Names
        /\ new.supervised => record[Name(c)].status # "none"
    <3>1. made + 1 \in Ids /\ Name(c) \in Names /\ job[c].proxy \in BOOLEAN /\ linked[c] \in BOOLEAN
      BY <1>20, SandboxAssumption DEF Make, TypeOK, Ids, Name, Job
    <3>2. job[c].proxy /\ linked[c] => record[Name(c)].status # "none"
      BY <1>20 DEF Make, Inv, PendingOf
    <3> QED BY <3>1, <3>2 DEF Boxes
  <2> HIDE DEF new
  <2>2. Drive(c, Name(c), new, IF job[c].kind = "create" THEN "announce" ELSE "exec", "failed")
    BY <1>20 DEF Make, new
  <2>3. SupervisedRegistered'
    BY <1>20, <2>1, <2>2, DriveKeeps DEF Make, Inv
  <2>4. Goto(c, "announce") \/ Goto(c, "exec") \/ Goto(c, "failed")
    BY <2>2 DEF Drive
  <2> QED BY <2>3, <2>4, NothingPending
<1>21. ASSUME NEW c \in Shells, Revive(c) PROVE SupervisedRegistered' /\ PendingOf(c)'
  <2>1. CASE box[Name(c)].id \in held[c]
    <3> DEFINE new == [box[Name(c)] EXCEPT !.running = TRUE]
    <3>1. Name(c) \in Names /\ box[Name(c)] \in Boxes
      BY DEF TypeOK, Name, Job
    <3>2. new \in Boxes /\ (new.supervised => record[Name(c)].status # "none")
      <4>1. new \in Boxes
        BY <3>1, SwitchedTyped
      <4>2. new.supervised = box[Name(c)].supervised
        BY <3>1 DEF Boxes
      <4> QED BY <3>1, <4>1, <4>2 DEF Inv, SupervisedRegistered
    <3>3. Drive(c, Name(c), new, "exec", "exec")
      BY <1>21, <2>1 DEF Revive
    <3> HIDE DEF new
    <3>4. SupervisedRegistered' /\ (Goto(c, "exec"))
      BY <1>21, <3>1, <3>2, <3>3, DriveKeeps DEF Revive, Inv
    <3> QED BY <3>4, NothingPending
  <2>2. CASE box[Name(c)].id \notin held[c]
    BY <1>21, <2>2, NothingPending DEF Revive, Inv, SupervisedRegistered
  <2> QED BY <2>1, <2>2
<1>22. ASSUME NEW c \in Shells, Act(c) PROVE SupervisedRegistered' /\ PendingOf(c)'
  <2>1. CASE box[Name(c)].id \in held[c]
    <3> DEFINE new == [box[Name(c)] EXCEPT !.running = (job[c].kind = "start")]
    <3>1. Name(c) \in Names /\ box[Name(c)] \in Boxes
      BY DEF TypeOK, Name, Job
    <3>2. new \in Boxes /\ (new.supervised => record[Name(c)].status # "none")
      <4>1. new \in Boxes
        BY <3>1, SwitchedTyped
      <4>2. new.supervised = box[Name(c)].supervised
        BY <3>1 DEF Boxes
      <4> QED BY <3>1, <4>1, <4>2 DEF Inv, SupervisedRegistered
    <3>3. Drive(c, Name(c), new, "touch", "failed")
      BY <1>22, <2>1 DEF Act
    <3> HIDE DEF new
    <3>4. SupervisedRegistered' /\ (Goto(c, "touch") \/ Goto(c, "failed"))
      BY <1>22, <3>1, <3>2, <3>3, DriveKeeps DEF Act, Inv
    <3> QED BY <3>4, NothingPending
  <2>2. CASE box[Name(c)].id \notin held[c]
    BY <1>22, <2>2, NothingPending DEF Act, Inv, SupervisedRegistered
  <2> QED BY <2>1, <2>2
<1>23. ASSUME NEW c \in Shells, Remove(c) PROVE SupervisedRegistered' /\ PendingOf(c)'
  <2>1. NoBox \in Boxes /\ ~NoBox.supervised /\ Name(c) \in Names
    BY EntriesTyped DEF TypeOK, Name, Job, NoBox
  <2>2. SupervisedRegistered'
    BY <1>23, <2>1, DriveKeeps DEF Remove, Inv
  <2>3. CASE box' = [box EXCEPT ![Name(c)] = NoBox] /\ Goto(c, "forget")
    <3>1. ~box'[Name(c)'].supervised
      BY <1>23, <2>1, <2>3 DEF Remove, command, TypeOK, Name
    <3>2. pc'[c] = "forget"
      BY <2>3 DEF Goto, TypeOK
    <3> QED BY <2>2, <3>1, <3>2 DEF PendingOf
  <2>4. CASE Goto(c, "ok") \/ Goto(c, "failed")
    BY <2>2, <2>4, NothingPending
  <2> QED BY <1>23, <2>3, <2>4 DEF Remove, Drive, RemoveFailed
<1>24. ASSUME NEW c \in Shells, Purge(c) PROVE SupervisedRegistered' /\ PendingOf(c)'
  <2>1. NoBox \in Boxes /\ ~NoBox.supervised
    BY EntriesTyped DEF NoBox
  <2>2. PICK id \in held[c] :
         \/ \E n \in Names : box[n].id = id /\ Drive(c, n, NoBox, "purge", "failed")
         \/ (Goto(c, "purge") \/ Goto(c, "failed")) /\ UNCHANGED box
    BY <1>24 DEF Purge
  <2>3. SupervisedRegistered' /\ (Goto(c, "purge") \/ Goto(c, "failed"))
    <3>1. CASE \E n \in Names : box[n].id = id /\ Drive(c, n, NoBox, "purge", "failed")
      BY <1>24, <2>1, <3>1, DriveKeeps DEF Purge, Inv
    <3>2. CASE (Goto(c, "purge") \/ Goto(c, "failed")) /\ UNCHANGED box
      BY <1>24, <3>2 DEF Purge, Inv, SupervisedRegistered
    <3> QED BY <2>2, <3>1, <3>2
  <2> QED BY <2>3, NothingPending
<1>25. ASSUME NEW n \in Names, BoxExits(n) PROVE Inv'
  BY <1>25 DEF BoxExits, Inv, SupervisedRegistered, PendingOf, TypeOK, command, Name, Job, Boxes
<1>26. CASE UNCHANGED vars
  BY <1>26 DEF vars, Inv, SupervisedRegistered, PendingOf, Name
<1> QED
  BY <1>0, <1>1, <1>2, <1>3, <1>4, <1>5, <1>6, <1>7, <1>8, <1>9, <1>10, <1>11, <1>12, <1>13, <1>14, <1>15, <1>16, <1>17, <1>18, <1>19, <1>20, <1>21, <1>22, <1>23, <1>24, <1>25, <1>26 DEF Next, Step

(* In one shell, whichever calls fail, are carried out unanswered or are   *)
(* cut off, a supervised container is known to the gateway.                *)
THEOREM SupervisedStaysRegistered == OneShell /\ Spec => []SupervisedRegistered
<1> SUFFICES ASSUME OneShell PROVE Spec => []SupervisedRegistered
  OBVIOUS
<1>1. Init => TypeOK /\ Inv
  BY TypeInit, InvInit
<1>2. TypeOK /\ Inv /\ [Next]_vars => (TypeOK /\ Inv)'
  BY TypeStep, InvStep
<1>3. Inv => SupervisedRegistered
  BY DEF Inv
<1> QED BY <1>1, <1>2, <1>3, PTL DEF Spec
----------------------------------------------------------------------------
(* Commands one after the other: records, removals, and what is spared *)

(* No two containers have one identifier, and none has one still to come.  *)
Numbered ==
  /\ \A n \in Names : box[n].id <= made /\ (box[n].running => box[n].id # 0)
  /\ \A m, n \in Names : box[m].id = box[n].id /\ box[m].id # 0 => m = n

(* What a command holds. *)
Holds(c) ==
  /\ 0 \notin held[c]
  /\ linked[c] => selected
  /\ pc[c] = "register" /\ job[c].kind = "create" => selected
  /\ pc[c] = "announce" => job[c].kind = "create"
  /\ pc[c] \in {"recheck", "revive"} => job[c].kind = "run"
  /\ c \in disturbed => Name(c) \in troubled

(* What a command relies on: nothing but BoxExits happens between its calls. *)
Own(c) == box[Name(c)]
Finds(c) ==
  /\ pc[c] \in {"announce", "furnish", "exec", "remove"} /\ job[c].kind = "create" => Own(c).id # 0
  /\ pc[c] = "announce" /\ c \notin disturbed => Own(c).running
  /\ pc[c] \in {"act", "touch"} => held[c] = {Own(c).id}
  /\ pc[c] = "touch" /\ job[c].kind = "start" /\ c \notin disturbed => Own(c).running
  /\ pc[c] = "forget" => Own(c).id = 0
  /\ pc[c] = "purge" => \A n \in Names : box[n].id \in held[c] => ~box[n].running

(* The command that is about to report a sandbox. *)
Reporting(n) == \E c \in Shells : pc[c] \in {"touch", "forget"} /\ Name(c) = n

(* A sandbox recorded as running runs, or is about to be reported, or is in *)
(* trouble; without a gateway nothing is recorded.                         *)
Told(n) ==
  n \notin troubled /\ record[n].status = "running" =>
    (box[n].running /\ box[n].id = record[n].id) \/ Reporting(n)
Recorded ==
  /\ \A n \in Names : Told(n)
  /\ ~selected => \A n \in Names : record[n].status = "none"

Turn == Numbered /\ Recorded /\ \A c \in Shells : Holds(c) /\ Finds(c)

(* At first all is told. *)
LEMMA TurnInit == Init => Turn
<1> SUFFICES ASSUME Init PROVE Turn
  OBVIOUS
<1>1. PICK old \in SUBSET Names, running \in BOOLEAN :
        /\ box = [n \in Names |-> IF n \in old
                                  THEN [id |-> 1, running |-> running, supervised |-> TRUE]
                                  ELSE NoBox]
        /\ record = [n \in Names |-> IF n \in old
                                     THEN [id |-> 1, status |-> IF running THEN "running" ELSE "exited"]
                                     ELSE NoRecord]
        /\ \A m, n \in old : m = n
        /\ made = IF old = {} THEN 0 ELSE 1
        /\ selected \in IF old = {} THEN BOOLEAN ELSE {TRUE}
  BY DEF Init
<1>2. Numbered
  BY <1>1 DEF Numbered, NoBox
<1>3. Recorded
  BY <1>1 DEF Recorded, Told, NoBox, NoRecord
<1>4. \A c \in Shells : Holds(c) /\ Finds(c)
  <2>1. /\ pc = [c \in Shells |-> "idle"] /\ held = [c \in Shells |-> {}]
        /\ linked = [c \in Shells |-> FALSE] /\ disturbed = {}
    BY DEF Init
  <2>2. ASSUME NEW c \in Shells PROVE Holds(c) /\ Finds(c)
    <3>1. pc[c] = "idle" /\ held[c] = {} /\ ~linked[c] /\ c \notin disturbed
      BY <2>1
    <3> QED BY <3>1 DEF Holds, Finds
  <2> QED BY <2>2, Zenon
<1> QED BY <1>2, <1>3, <1>4 DEF Turn

(* A command that leaves containers and records alone leaves what is told  *)
(* about them alone; at the end of a report it takes the trouble with it.  *)
LEMMA QuietRecorded ==
  ASSUME OneShell, TypeOK, Recorded, NEW c \in Shells, UNCHANGED <<box, record>>,
         troubled \subseteq troubled', selected => selected',
         \/ pc[c] \notin {"touch", "forget"}
         \/ Name(c) \in troubled'
         \/ pc'[c] = pc[c] /\ job' = job
  PROVE  Recorded'
  BY DEF OneShell, Recorded, Told, Reporting, Name

(* A command goes on with its containers as it found them. *)
LEMMA QuietNumbered ==
  ASSUME Numbered, UNCHANGED <<box, made>>
  PROVE  Numbered'
  BY DEF Numbered

(* A call of the gateway about the sandbox of a command. *)
LEMMA ReportRecorded ==
  ASSUME OneShell, TypeOK, Recorded, NEW c \in Shells, NEW entry \in Records, NEW next, NEW otherwise,
         Report(c, entry, next, otherwise), UNCHANGED <<box, job>>, selected, selected',
         c \in disturbed => Name(c) \in troubled,
         LET b == box[Name(c)]
         IN  c \notin disturbed /\ entry.status = "running" => b.running /\ b.id = entry.id
  PROVE  Recorded'
<1>1. Name(c) \in Names
  BY DEF TypeOK, Name, Job
<1>2. ASSUME NEW n \in Names PROVE Told(n)'
  <2>1. CASE n # Name(c)
    BY <1>1, <2>1 DEF OneShell, TypeOK, Recorded, Told, Reporting, Report, Trouble, Unanswered, Name
  <2>2. CASE n = Name(c) /\ record' = [record EXCEPT ![Name(c)] = entry]
    BY <1>1, <2>2 DEF TypeOK, Told, Report, Trouble
  <2>3. CASE n = Name(c) /\ Trouble(c)
    BY <2>3 DEF Told, Trouble
  <2> QED BY <2>1, <2>2, <2>3 DEF Report
<1> QED BY <1>2 DEF Recorded

(* A call of the driver about one container that is, after it, told as     *)
(* before, or is about to be reported.                                     *)
LEMMA DriveRecorded ==
  ASSUME OneShell, TypeOK, Recorded, NEW c \in Shells, NEW n \in Names, NEW value \in Boxes,
         NEW next, NEW otherwise, Drive(c, n, value, next, otherwise),
         UNCHANGED <<record, job>>, selected = selected',
         pc[c] \notin {"touch", "forget"},
         n # Name(c) => ~box[n].running,
         LET b == box[n]
         IN  \/ next \in {"touch", "forget"} /\ n = Name(c)
             \/ ~b.running
             \/ b.running /\ value.running /\ value.id = b.id
  PROVE  Recorded'
<1>1. ASSUME NEW m \in Names PROVE Told(m)'
  <2>1. Told(m) /\ ~Reporting(m)
    BY DEF OneShell, Recorded, Reporting
  <2>2. CASE box' = box \/ m # n
    BY <2>1, <2>2 DEF TypeOK, Told, Drive, Trouble, Unanswered
  <2>3. CASE box' = [box EXCEPT ![n] = value] /\ m = n
    BY <2>1, <2>3 DEF TypeOK, Told, Drive, Trouble, Reporting, Goto, Name
  <2> QED BY <2>2, <2>3 DEF Drive, Unanswered
<1> QED BY <1>1 DEF Recorded

(* In one shell every step keeps what is told. *)
LEMMA TurnStep == OneShell /\ TypeOK /\ Turn /\ [Next]_vars => Turn'
<1> SUFFICES ASSUME OneShell, TypeOK, Turn, [Next]_vars PROVE Turn'
  OBVIOUS
<1> USE DEF Turn
<1>0. ASSUME NEW c \in Shells, Numbered', Recorded', Holds(c)', Finds(c)' PROVE Turn'
  BY <1>0 DEF OneShell
<1>1. ASSUME NEW c \in Shells, NEW j \in Jobs[c], Start(c, j) PROVE Turn'
  <2>1. Numbered'
    BY <1>1, QuietNumbered DEF Start
  <2>2. Recorded'
    BY <1>1, QuietRecorded DEF Start, Busy
  <2>3. Holds(c)' /\ Finds(c)'
    <3>1. FirstStep(j) \in {"ensure", "look", "remove", "list"} /\ (FirstStep(j) = "remove" => j.kind # "create")
      <4>1. j \in Job
        BY JobsGiven
      <4> QED BY <4>1 DEF FirstStep, Job, Kinds
    <3> QED BY <1>1, <3>1 DEF Start, Goto, TypeOK, Holds, Finds
  <2> QED BY <1>0, <2>1, <2>2, <2>3
<1>2. ASSUME NEW c \in Shells, Ensure(c) PROVE Turn'
  <2>1. Numbered'
    BY <1>2, QuietNumbered DEF Ensure
  <2>2. Recorded'
    BY <1>2, QuietRecorded DEF Ensure, TypeOK, FailTo, Trouble
  <2>3. Holds(c)' /\ Finds(c)'
    BY <1>2 DEF Ensure, FailTo, Trouble, Goto, TypeOK, Holds, Finds, BeforeMake, Name
  <2> QED BY <1>0, <2>1, <2>2, <2>3
<1>3. ASSUME NEW c \in Shells, RegisterNowhere(c) PROVE Turn'
  <2>1. Numbered'
    BY <1>3, QuietNumbered DEF RegisterNowhere
  <2>2. Recorded'
    BY <1>3, QuietRecorded DEF RegisterNowhere, TypeOK, FailTo, Trouble, command
  <2>3. Holds(c)' /\ Finds(c)'
    BY <1>3 DEF RegisterNowhere, FailTo, Trouble, Goto, command, TypeOK, Holds, Finds, Own, Name, BeforeMake, RemoveFailed, Exists, Busy
  <2> QED BY <1>0, <2>1, <2>2, <2>3
<1>4. ASSUME NEW c \in Shells, IssueToken(c) PROVE Turn'
  <2>1. Numbered'
    BY <1>4, QuietNumbered DEF IssueToken
  <2>2. Recorded'
    BY <1>4, QuietRecorded DEF IssueToken, TypeOK, FailTo, Trouble, command
  <2>3. Holds(c)' /\ Finds(c)'
    BY <1>4 DEF IssueToken, FailTo, Trouble, Goto, command, TypeOK, Holds, Finds, Own, Name, BeforeMake, RemoveFailed, Exists, Busy
  <2> QED BY <1>0, <2>1, <2>2, <2>3
<1>5. ASSUME NEW c \in Shells, NameTaken(c) PROVE Turn'
  <2>1. Numbered'
    BY <1>5, QuietNumbered DEF NameTaken
  <2>2. Recorded'
    BY <1>5, QuietRecorded DEF NameTaken, TypeOK, FailTo, Trouble, command
  <2>3. Holds(c)' /\ Finds(c)'
    BY <1>5 DEF NameTaken, FailTo, Trouble, Goto, command, TypeOK, Holds, Finds, Own, Name, BeforeMake, RemoveFailed, Exists, Busy
  <2> QED BY <1>0, <2>1, <2>2, <2>3
<1>6. ASSUME NEW c \in Shells, Furnish(c) PROVE Turn'
  <2>1. Numbered'
    BY <1>6, QuietNumbered DEF Furnish
  <2>2. Recorded'
    BY <1>6, QuietRecorded DEF Furnish, TypeOK, FailTo, Trouble, command
  <2>3. Holds(c)' /\ Finds(c)'
    BY <1>6 DEF Furnish, FailTo, Trouble, Goto, command, TypeOK, Holds, Finds, Own, Name, BeforeMake, RemoveFailed, Exists, Busy
  <2> QED BY <1>0, <2>1, <2>2, <2>3
<1>7. ASSUME NEW c \in Shells, Exec(c) PROVE Turn'
  <2>1. Numbered'
    BY <1>7, QuietNumbered DEF Exec
  <2>2. Recorded'
    BY <1>7, QuietRecorded DEF Exec, TypeOK, FailTo, Trouble, command
  <2>3. Holds(c)' /\ Finds(c)'
    BY <1>7 DEF Exec, FailTo, Trouble, Goto, command, TypeOK, Holds, Finds, Own, Name, BeforeMake, RemoveFailed, Exists, Busy
  <2> QED BY <1>0, <2>1, <2>2, <2>3
<1>8. ASSUME NEW c \in Shells, RunLook(c) PROVE Turn'
  <2>1. Numbered'
    BY <1>8, QuietNumbered DEF RunLook
  <2>2. Recorded'
    BY <1>8, QuietRecorded DEF RunLook, TypeOK, FailTo, Trouble, command
  <2>3. Holds(c)' /\ Finds(c)'
    BY <1>8 DEF RunLook, FailTo, Trouble, Goto, command, TypeOK, Holds, Finds, Own, Name, BeforeMake, RemoveFailed, Exists, Busy
  <2> QED BY <1>0, <2>1, <2>2, <2>3
<1>9. ASSUME NEW c \in Shells, Recheck(c) PROVE Turn'
  <2>1. Numbered'
    BY <1>9, QuietNumbered DEF Recheck
  <2>2. Recorded'
    BY <1>9, QuietRecorded DEF Recheck, TypeOK, FailTo, Trouble, command
  <2>3. Holds(c)' /\ Finds(c)'
    BY <1>9 DEF Recheck, FailTo, Trouble, Goto, command, TypeOK, Holds, Finds, Own, Name, BeforeMake, RemoveFailed, Exists, Busy
  <2> QED BY <1>0, <2>1, <2>2, <2>3
<1>10. ASSUME NEW c \in Shells, Look(c) PROVE Turn'
  <2>1. Numbered'
    BY <1>10, QuietNumbered DEF Look
  <2>2. Recorded'
    BY <1>10, QuietRecorded DEF Look, TypeOK, FailTo, Trouble, command
  <2>3. Holds(c)' /\ Finds(c)'
    BY <1>10 DEF Look, FailTo, Trouble, Goto, command, TypeOK, Holds, Finds, Own, Name, BeforeMake, RemoveFailed, Exists, Busy
  <2> QED BY <1>0, <2>1, <2>2, <2>3
<1>11. ASSUME NEW c \in Shells, RemoveAbsent(c) PROVE Turn'
  <2>1. Numbered'
    BY <1>11, QuietNumbered DEF RemoveAbsent
  <2>2. Recorded'
    BY <1>11, QuietRecorded DEF RemoveAbsent, TypeOK, FailTo, Trouble, command
  <2>3. Holds(c)' /\ Finds(c)'
    BY <1>11 DEF RemoveAbsent, FailTo, Trouble, Goto, command, TypeOK, Holds, Finds, Own, Name, BeforeMake, RemoveFailed, Exists, Busy
  <2> QED BY <1>0, <2>1, <2>2, <2>3
<1>12. ASSUME NEW c \in Shells, List(c) PROVE Turn'
  <2>1. Numbered'
    BY <1>12, QuietNumbered DEF List
  <2>2. Recorded'
    BY <1>12, QuietRecorded DEF List, TypeOK, FailTo, Trouble, command
  <2>3. Holds(c)' /\ Finds(c)'
    <3>1. CASE held' = [held EXCEPT ![c] = {box[n].id : n \in Disposable}] /\ Goto(c, "purge")
      <4>1. held'[c] = {box[n].id : n \in Disposable} /\ pc'[c] = "purge"
        BY <3>1 DEF TypeOK, Goto
      <4>2. \A m, n \in Names : n \in Disposable /\ box[m].id = box[n].id => m = n
        BY DEF Disposable, Exists, Numbered
      <4>3. \A n \in Names : box[n].id \in held'[c] => ~box[n].running
        BY <4>1, <4>2 DEF Disposable
      <4>4. 0 \notin held'[c]
        BY <4>1 DEF Disposable, Exists
      <4>5. UNCHANGED <<box, linked, selected, job, disturbed>> /\ troubled \subseteq troubled'
        BY <1>12, <3>1 DEF List, FailTo, Trouble
      <4> QED BY <4>1, <4>3, <4>4, <4>5 DEF Holds, Finds, Name
    <3>2. CASE held' = held /\ Goto(c, "failed")
      BY <1>12, <3>2 DEF List, FailTo, Trouble, Goto, TypeOK, Holds, Finds, Name
    <3> QED BY <1>12, <3>1, <3>2 DEF List, FailTo
  <2> QED BY <1>0, <2>1, <2>2, <2>3
<1>13. ASSUME NEW c \in Shells, Purged(c) PROVE Turn'
  <2>1. Numbered'
    BY <1>13, QuietNumbered DEF Purged
  <2>2. Recorded'
    BY <1>13, QuietRecorded DEF Purged, TypeOK, FailTo, Trouble, command
  <2>3. Holds(c)' /\ Finds(c)'
    BY <1>13 DEF Purged, FailTo, Trouble, Goto, command, TypeOK, Holds, Finds, Own, Name, BeforeMake, RemoveFailed, Exists, Busy
  <2> QED BY <1>0, <2>1, <2>2, <2>3
<1>14. ASSUME NEW c \in Shells, Interrupt(c) PROVE Turn'
  <2>1. Numbered'
    BY <1>14, QuietNumbered DEF Interrupt
  <2>2. Recorded'
    BY <1>14, QuietRecorded DEF Interrupt, TypeOK, FailTo, Trouble, command
  <2>3. Holds(c)' /\ Finds(c)'
    BY <1>14 DEF Interrupt, FailTo, Trouble, Goto, command, TypeOK, Holds, Finds, Own, Name, BeforeMake, RemoveFailed, Exists, Busy
  <2> QED BY <1>0, <2>1, <2>2, <2>3
<1>15. ASSUME NEW c \in Shells, Killed(c) PROVE Turn'
  <2>1. Numbered'
    BY <1>15, QuietNumbered DEF Killed
  <2>2. Recorded'
    BY <1>15, QuietRecorded DEF Killed, TypeOK, FailTo, Trouble, command
  <2>3. Holds(c)' /\ Finds(c)'
    BY <1>15 DEF Killed, FailTo, Trouble, Goto, command, TypeOK, Holds, Finds, Own, Name, BeforeMake, RemoveFailed, Exists, Busy
  <2> QED BY <1>0, <2>1, <2>2, <2>3
<1>16. ASSUME NEW c \in Shells, Register(c) PROVE Turn'
  <2> DEFINE new == [status |-> "creating", id |-> 0]
  <2>1. new \in Records /\ new.status # "running"
    BY EntriesTyped
  <2> HIDE DEF new
  <2>2. Report(c, new, "token", "failed") /\ selected /\ selected'
    BY <1>16 DEF Register, RegisterFailed, new, Holds
  <2>3. Numbered'
    BY <1>16, QuietNumbered DEF Register
  <2>4. Recorded'
    BY <1>16, <2>1, <2>2, ReportRecorded DEF Register, Holds
  <2>5. Holds(c)' /\ Finds(c)'
    BY <1>16, <2>2 DEF Register, Report, Trouble, Goto, TypeOK, Holds, Finds, Own, Name
  <2> QED BY <1>0, <2>3, <2>4, <2>5
<1>17. ASSUME NEW c \in Shells, Announce(c) PROVE Turn'
  <2>1. Numbered'
    BY <1>17, QuietNumbered DEF Announce
  <2>2. CASE linked[c]
    <3> DEFINE new == [status |-> "running", id |-> box[Name(c)].id]
    <3>1. new \in Records /\ new.id = box[Name(c)].id
      BY EntriesTyped DEF TypeOK, Name, Job
    <3> HIDE DEF new
    <3>2. Report(c, new, "furnish", "furnish") /\ selected /\ selected'
      BY <1>17, <2>2 DEF Announce, new, Holds
    <3>3. Recorded'
      BY <1>17, <3>1, <3>2, ReportRecorded DEF Announce, Holds, Finds, Own, command
    <3>4. Holds(c)' /\ Finds(c)'
      BY <1>17, <3>2 DEF Announce, Report, Trouble, Goto, TypeOK, Holds, Finds, Own, Name, command
    <3> QED BY <1>0, <2>1, <3>3, <3>4
  <2>3. CASE ~linked[c]
    <3>1. Recorded'
      BY <1>17, <2>3, QuietRecorded DEF Announce, command
    <3>2. Holds(c)' /\ Finds(c)'
      BY <1>17, <2>3 DEF Announce, Goto, TypeOK, Holds, Finds, Own, Name, command
    <3> QED BY <1>0, <2>1, <3>1, <3>2
  <2> QED BY <2>2, <2>3
<1>18. ASSUME NEW c \in Shells, Touch(c) PROVE Turn'
  <2>1. Numbered'
    BY <1>18, QuietNumbered DEF Touch
  <2>2. CASE selected
    <3> DEFINE new == [status |-> Touched(c), id |-> box[Name(c)].id]
    <3>1. /\ new \in Records /\ new.id = box[Name(c)].id
          /\ new.status = "running" => job[c].kind = "start"
      <4>1. Name(c) \in Names
        BY DEF TypeOK, Name, Job
      <4>2. held[c] = {box[Name(c)].id}
        BY <1>18 DEF Touch, Finds, Own
      <4> QED BY <4>1, <4>2, EntriesTyped DEF Touched
    <3>2. Report(c, new, "ok", "ok")
      <4>1. PICK id \in held[c] : Report(c, [status |-> Touched(c), id |-> id], "ok", "ok")
        BY <1>18, <2>2 DEF Touch
      <4>2. held[c] = {box[Name(c)].id}
        BY <1>18 DEF Touch, Finds, Own
      <4> QED BY <4>1, <4>2
    <3> HIDE DEF new
    <3>3. Recorded'
      BY <1>18, <2>2, <3>1, <3>2, ReportRecorded DEF Touch, Holds, Finds, Own, command
    <3>4. Holds(c)' /\ Finds(c)'
      BY <1>18, <3>2 DEF Touch, Report, Trouble, Goto, TypeOK, Holds, Finds, Own, Name, command
    <3> QED BY <1>0, <2>1, <3>3, <3>4
  <2>3. CASE ~selected
    <3>1. Recorded'
      BY <1>18, <2>3 DEF Touch, Recorded, Told
    <3>2. Holds(c)' /\ Finds(c)'
      BY <1>18, <2>3 DEF Touch, Goto, TypeOK, Holds, Finds, Own, Name, command
    <3> QED BY <1>0, <2>1, <3>1, <3>2
  <2> QED BY <2>2, <2>3
<1>19. ASSUME NEW c \in Shells, Forget(c) PROVE Turn'
  <2>1. Numbered'
    BY <1>19, QuietNumbered DEF Forget
  <2>2. CASE selected
    <3>1. NoRecord \in Records /\ NoRecord.status # "running"
      BY EntriesTyped DEF NoRecord
    <3>2. Report(c, NoRecord, "ok", "ok")
      BY <1>19, <2>2 DEF Forget, Forgotten
    <3>3. Recorded'
      BY <1>19, <2>2, <3>1, <3>2, ReportRecorded DEF Forget, Holds, command
    <3>4. Holds(c)' /\ Finds(c)'
      BY <1>19, <3>2 DEF Forget, Report, Trouble, Goto, TypeOK, Holds, Finds, Own, Name, command
    <3> QED BY <1>0, <2>1, <3>3, <3>4
  <2>3. CASE ~selected
    <3>1. Recorded'
      BY <1>19, <2>3 DEF Forget, Recorded, Told
    <3>2. Holds(c)' /\ Finds(c)'
      BY <1>19, <2>3 DEF Forget, Goto, TypeOK, Holds, Finds, Own, Name, command
    <3> QED BY <1>0, <2>1, <3>1, <3>2
  <2> QED BY <2>2, <2>3
<1>20. ASSUME NEW c \in Shells, Make(c) PROVE Turn'
  <2> DEFINE new == [id |-> made + 1, running |-> TRUE, supervised |-> job[c].proxy /\ linked[c]]
             next == IF job[c].kind = "create" THEN "announce" ELSE "exec"
  <2>1. Name(c) \in Names /\ made \in Nat
    BY DEF TypeOK, Ids, Name, Job
  <2>2. new \in Boxes /\ new.id = made + 1 /\ new.running
    BY <1>20, <2>1, SandboxAssumption DEF Make, TypeOK, Boxes, Ids, Job
  <2> HIDE DEF new
  <2>3. Drive(c, Name(c), new, next, "failed")
    BY <1>20 DEF Make, new
  <2>4. box[Name(c)].id = 0 /\ ~box[Name(c)].running
    BY <1>20, <2>1 DEF Make, Exists, Numbered
  <2>5. Numbered'
    BY <1>20, <2>1, <2>2, <2>3, <2>4 DEF Make, Drive, Unanswered, TypeOK, Boxes, Ids, Numbered
  <2>6. Recorded'
    <3>1. UNCHANGED <<record, job>> /\ selected' = selected /\ pc[c] \notin {"touch", "forget"}
      BY <1>20 DEF Make, command
    <3> HIDE DEF next
    <3> QED BY <2>1, <2>2, <2>3, <2>4, <3>1, DriveRecorded
  <2>7. Holds(c)' /\ Finds(c)'
    BY <1>20, <2>1, <2>2, <2>3 DEF Make, Drive, Trouble, Goto, command, TypeOK, Holds, Finds, Own, Name
  <2> QED BY <1>0, <2>5, <2>6, <2>7
<1>21. ASSUME NEW c \in Shells, Revive(c) PROVE Turn'
  <2>1. Name(c) \in Names /\ box[Name(c)] \in Boxes
    BY DEF TypeOK, Name, Job
  <2>2. CASE box[Name(c)].id \in held[c]
    <3> DEFINE new == [box[Name(c)] EXCEPT !.running = TRUE]
    <3>1. new \in Boxes /\ new.id = box[Name(c)].id /\ new.running = TRUE /\ new.id # 0
      BY <2>1, <2>2 DEF Boxes, Holds
    <3>2. Drive(c, Name(c), new, "exec", "exec")
      BY <1>21, <2>2 DEF Revive
    <3> HIDE DEF new
    <3>3. /\ \A m \in Names : box'[m].id = box[m].id
          /\ \A m \in Names : box'[m].running => box[m].running \/ box[m].id # 0
      BY <2>1, <3>1, <3>2 DEF Drive, Unanswered, TypeOK
    <3>4. Numbered'
      BY <1>21, <3>3 DEF Revive, Numbered
    <3>5. Recorded'
      BY <1>21, <2>1, <3>1, <3>2, DriveRecorded DEF Revive, command
    <3>6. Holds(c)' /\ Finds(c)'
      BY <1>21, <2>1, <3>1, <3>2 DEF Revive, Drive, Trouble, Goto, command, TypeOK, Holds, Finds, Own, Name
    <3> QED BY <1>0, <3>4, <3>5, <3>6
  <2>3. CASE box[Name(c)].id \notin held[c]
    <3>1. Numbered'
      BY <1>21, <2>3, QuietNumbered DEF Revive
    <3>2. Recorded'
      BY <1>21, <2>3, QuietRecorded DEF Revive, command
    <3>3. Holds(c)' /\ Finds(c)'
      BY <1>21, <2>3 DEF Revive, Goto, command, TypeOK, Holds, Finds, Name
    <3> QED BY <1>0, <3>1, <3>2, <3>3
  <2> QED BY <2>2, <2>3
<1>22. ASSUME NEW c \in Shells, Act(c) PROVE Turn'
  <2>1. Name(c) \in Names /\ box[Name(c)] \in Boxes
    BY DEF TypeOK, Name, Job
  <2>2. CASE box[Name(c)].id \in held[c]
    <3> DEFINE new == [box[Name(c)] EXCEPT !.running = (job[c].kind = "start")]
    <3>1. new \in Boxes /\ new.id = box[Name(c)].id /\ new.running = (job[c].kind = "start") /\ new.id # 0
      BY <2>1, <2>2 DEF Boxes, Holds
    <3>2. Drive(c, Name(c), new, "touch", "failed")
      BY <1>22, <2>2 DEF Act
    <3> HIDE DEF new
    <3>3. /\ \A m \in Names : box'[m].id = box[m].id
          /\ \A m \in Names : box'[m].running => box[m].running \/ box[m].id # 0
      BY <2>1, <3>1, <3>2 DEF Drive, Unanswered, TypeOK
    <3>4. Numbered'
      BY <1>22, <3>3 DEF Act, Numbered
    <3>5. Recorded'
      BY <1>22, <2>1, <3>1, <3>2, DriveRecorded DEF Act, command
    <3>6. Holds(c)' /\ Finds(c)'
      <4>1. /\ UNCHANGED <<job, held, linked, selected, disturbed>> /\ troubled \subseteq troubled'
            /\ held[c] = {box[Name(c)].id}
        BY <1>22, <3>2 DEF Act, Drive, Trouble, command, Finds, Own
      <4>2. CASE box' = [box EXCEPT ![Name(c)] = new] /\ pc'[c] = "touch"
        <5>1. box'[Name(c)] = new
          BY <2>1, <4>2 DEF TypeOK
        <5>2. job[c].kind = "start" => new.running
          BY <3>1
        <5> QED BY <3>1, <4>1, <4>2, <5>1, <5>2 DEF Holds, Finds, Own, Name
      <4>3. CASE pc'[c] = "failed"
        BY <4>1, <4>3 DEF Holds, Finds, Name
      <4> QED BY <3>2, <4>2, <4>3 DEF Drive, Goto, TypeOK
    <3> QED BY <1>0, <3>4, <3>5, <3>6
  <2>3. CASE box[Name(c)].id \notin held[c]
    <3>1. Numbered'
      BY <1>22, <2>3, QuietNumbered DEF Act
    <3>2. Recorded'
      BY <1>22, <2>3, QuietRecorded DEF Act, command
    <3>3. Holds(c)' /\ Finds(c)'
      BY <1>22, <2>3 DEF Act, Goto, command, TypeOK, Holds, Finds, Name
    <3> QED BY <1>0, <3>1, <3>2, <3>3
  <2> QED BY <2>2, <2>3
<1>23. ASSUME NEW c \in Shells, Remove(c) PROVE Turn'
  <2>1. Name(c) \in Names /\ NoBox \in Boxes /\ NoBox.id = 0 /\ ~NoBox.running
    BY EntriesTyped DEF TypeOK, Name, Job, NoBox
  <2>2. Drive(c, Name(c), NoBox, "forget", RemoveFailed(c))
    BY <1>23 DEF Remove
  <2>3. \A m \in Names : box'[m] = box[m] \/ (box'[m].id = 0 /\ ~box'[m].running)
    BY <2>1, <2>2 DEF Drive, Unanswered, TypeOK
  <2>4. Numbered'
    BY <1>23, <2>3 DEF Remove, Numbered, TypeOK, Ids
  <2>5. Recorded'
    BY <1>23, <2>1, <2>2, DriveRecorded DEF Remove, command
  <2>6. Holds(c)' /\ Finds(c)'
    BY <1>23, <2>1, <2>2 DEF Remove, RemoveFailed, Drive, Trouble, Goto, command, TypeOK, Holds, Finds, Own, Name
  <2> QED BY <1>0, <2>4, <2>5, <2>6
<1>24. ASSUME NEW c \in Shells, Purge(c) PROVE Turn'
  <2>1. NoBox \in Boxes /\ NoBox.id = 0 /\ ~NoBox.running
    BY EntriesTyped DEF NoBox
  <2>2. PICK id \in held[c] :
         /\ held' = [held EXCEPT ![c] = @ \ {id}]
         /\ \/ \E n \in Names : box[n].id = id /\ Drive(c, n, NoBox, "purge", "failed")
            \/ (Goto(c, "purge") \/ Goto(c, "failed")) /\ UNCHANGED <<box, troubled>>
    BY <1>24 DEF Purge
  <2>3. held'[c] \subseteq held[c] /\ (Goto(c, "purge") \/ Goto(c, "failed")) /\ troubled \subseteq troubled'
    BY <2>2 DEF TypeOK, Drive, Trouble
  <2>4. \A m \in Names : box'[m] = box[m] \/ (box'[m].id = 0 /\ ~box'[m].running)
    BY <2>1, <2>2 DEF Drive, Unanswered, TypeOK
  <2>5. Numbered'
    BY <1>24, <2>4 DEF Purge, Numbered, TypeOK, Ids
  <2>6. Recorded'
    <3>1. CASE \E n \in Names : box[n].id = id /\ Drive(c, n, NoBox, "purge", "failed")
      <4>1. PICK n \in Names : box[n].id = id /\ Drive(c, n, NoBox, "purge", "failed")
        BY <3>1
      <4>2. ~box[n].running
        BY <1>24, <4>1 DEF Purge, Finds
      <4> QED BY <1>24, <2>1, <4>1, <4>2, DriveRecorded DEF Purge
    <3>2. CASE UNCHANGED <<box, troubled>>
      BY <1>24, <3>2, QuietRecorded DEF Purge
    <3> QED BY <2>2, <3>1, <3>2
  <2>7. Holds(c)' /\ Finds(c)'
    <3>1. UNCHANGED <<linked, selected, job, disturbed>> /\ pc[c] = "purge" /\ pc'[c] \in {"purge", "failed"}
      BY <1>24, <2>3 DEF Purge, Goto, TypeOK
    <3>2. \A n \in Names : box'[n].id \in held'[c] => ~box'[n].running
      BY <2>3, <2>4, <3>1 DEF Holds, Finds
    <3> QED BY <2>3, <3>1, <3>2 DEF Holds, Finds, Name
  <2> QED BY <1>0, <2>5, <2>6, <2>7
<1>25. ASSUME NEW n \in Names, BoxExits(n) PROVE Turn'
  <2>1. \A m \in Names : /\ box'[m].id = box[m].id
                         /\ m # n => box'[m] = box[m]
                         /\ box'[m].running => box[m].running
    BY <1>25 DEF BoxExits, TypeOK, Boxes
  <2>2. Numbered'
    BY <1>25, <2>1 DEF BoxExits, Numbered
  <2>3. Recorded'
    BY <1>25, <2>1 DEF BoxExits, Recorded, Told, Reporting, command, Name
  <2>4. ASSUME NEW c \in Shells PROVE Holds(c)' /\ Finds(c)'
    <3>1. Name(c) \in Names
      BY DEF TypeOK, Name, Job
    <3> QED BY <1>25, <2>1, <3>1 DEF BoxExits, Holds, Finds, Own, Name, Busy, command
  <2> QED BY <2>2, <2>3, <2>4
<1>26. CASE UNCHANGED vars
  BY <1>26 DEF vars, Numbered, Recorded, Told, Reporting, Holds, Finds, Own, Name
<1> QED
  BY <1>1, <1>2, <1>3, <1>4, <1>5, <1>6, <1>7, <1>8, <1>9, <1>10, <1>11, <1>12, <1>13, <1>14, <1>15, <1>16, <1>17, <1>18, <1>19, <1>20, <1>21, <1>22, <1>23, <1>24, <1>25, <1>26 DEF Next, Step

(* In one shell what is true of commands one after the other stays so. *)
LEMMA TurnsAlways == OneShell /\ Spec => [](TypeOK /\ Turn)
<1> SUFFICES ASSUME OneShell PROVE Spec => [](TypeOK /\ Turn)
  OBVIOUS
<1>1. Init => TypeOK /\ Turn
  BY TypeInit, TurnInit
<1>2. TypeOK /\ Turn /\ [Next]_vars => (TypeOK /\ Turn)'
  BY TypeStep, TurnStep
<1> QED BY <1>1, <1>2, PTL DEF Spec

(* In one shell, between commands, what the gateway shows as running runs   *)
(* and is the container recorded, unless a call about it failed since.      *)
THEOREM RunningIsRunning == OneShell /\ Spec => []RunningRecordsTrue
<1> SUFFICES ASSUME OneShell PROVE Spec => []RunningRecordsTrue
  OBVIOUS
<1>1. Turn => RunningRecordsTrue
  BY DEF Turn, Recorded, Told, Reporting, RunningRecordsTrue, AtRest, Busy
<1> QED BY <1>1, TurnsAlways, PTL

(* A step of a command that removes, and ends well, leaves neither the      *)
(* container nor the record.                                                *)
LEMMA RemovedStep ==
  ASSUME OneShell, TypeOK, Turn, [Next]_vars, NEW c \in Shells,
         pc[c] \in {"remove", "forget"}, pc'[c] = "ok", Name(c) \notin troubled'
  PROVE  ~Exists(Name(c))' /\ (selected => record'[Name(c)] = NoRecord)
<1>1. Name(c) \in Names
  BY DEF TypeOK, Name, Job
<1>2. CASE Remove(c)
  BY <1>2 DEF Remove, Drive, Trouble, Goto, TypeOK
<1>3. CASE RemoveAbsent(c)
  BY <1>3 DEF RemoveAbsent, RemoveFailed, Goto, TypeOK, Turn, Finds, Own, Exists
<1>4. CASE Forget(c)
  <2>1. ~Exists(Name(c)) /\ UNCHANGED <<box, job>>
    BY <1>4 DEF Forget, Turn, Finds, Own, Exists, command
  <2>2. selected => record'[Name(c)] = NoRecord
    BY <1>1, <1>4 DEF Forget, Forgotten, Report, Trouble, TypeOK
  <2> QED BY <2>1, <2>2 DEF Exists, Name
<1>5. Remove(c) \/ RemoveAbsent(c) \/ Forget(c)
  <2>1. ASSUME NEW d \in Shells, (\E j \in Jobs[d] : Start(d, j)) \/ Step(d) \/ Interrupt(d) \/ Killed(d)
        PROVE  Remove(c) \/ RemoveAbsent(c) \/ Forget(c)
    <3>1. d = c
      BY DEF OneShell
    <3>2. ~(\E j \in Jobs[c] : Start(c, j)) /\ ~Interrupt(c) /\ ~Killed(c)
      BY DEF Start, Busy, Interrupt, Killed, command, Goto, TypeOK
    <3> QED BY <2>1, <3>1, <3>2 DEF Step, Ensure, Register, RegisterNowhere, IssueToken, Make, NameTaken, Announce, Furnish, Exec, RunLook, Recheck, Revive, Look, Act, Touch, List, Purge, Purged
  <2>2. ASSUME NEW n \in Names, BoxExits(n) PROVE FALSE
    BY <2>2 DEF BoxExits, command
  <2>3. ~(UNCHANGED vars)
    BY DEF vars
  <2> QED BY <2>1, <2>2, <2>3 DEF Next
<1> QED BY <1>2, <1>3, <1>4, <1>5

(* In one shell rm, and create --no-keep, leave neither the container nor   *)
(* the record when their calls succeed.                                     *)
THEOREM RemovedIsGone == OneShell /\ Spec => RemovedForGood
<1> SUFFICES ASSUME OneShell PROVE Spec => RemovedForGood
  OBVIOUS
<1>1. TypeOK /\ Turn /\ [Next]_vars =>
        [\A c \in Shells :
           pc[c] \in {"remove", "forget"} /\ pc'[c] = "ok" /\ Name(c) \notin troubled' =>
             ~Exists(Name(c))' /\ (selected => record'[Name(c)] = NoRecord)]_vars
  BY RemovedStep
<1> QED BY <1>1, TurnsAlways, PTL DEF RemovedForGood, Spec

----------------------------------------------------------------------------
(* Running containers are spared, in any number of shells *)

(* What is looked up or listed is a container that was made. *)
Heard == \A c \in Shells : \A id \in held[c] : id # 0 /\ id <= made

(* What is on the list of a cleanup was stopped when it was listed.        *)
Noticed ==
  \A c \in Shells, n \in Names :
    pc[c] = "purge" /\ box[n].id \in held[c] /\ box[n].running => box[n].id \in woken

Sparing == Numbered /\ Heard /\ Noticed

(* At first nothing is listed. *)
LEMMA SparingInit == Init => Sparing
<1> SUFFICES ASSUME Init PROVE Sparing
  OBVIOUS
<1>1. Numbered
  BY TurnInit DEF Turn
<1>2. Heard /\ Noticed
  BY DEF Init, Heard, Noticed
<1> QED BY <1>1, <1>2 DEF Sparing

(* A step that starts no container, lists none, and makes none. *)
LEMMA CalmSparing ==
  ASSUME TypeOK, Sparing, NEW c \in Shells, UNCHANGED <<made, woken>>,
         \A n \in Names : box'[n] = box[n] \/ (box'[n].id = 0 /\ ~box'[n].running),
         \A d \in Shells : d # c => held'[d] = held[d] /\ pc'[d] = pc[d],
         pc'[c] = "purge" => pc[c] = "purge",
         held'[c] \subseteq held[c]
  PROVE  Sparing'
<1>1. Numbered'
  BY DEF Sparing, Numbered, TypeOK, Ids
<1>2. Heard'
  BY DEF Sparing, Heard
<1>3. ASSUME NEW d \in Shells, NEW n \in Names,
             pc'[d] = "purge", box'[n].id \in held'[d], box'[n].running
      PROVE  box'[n].id \in woken'
  <2>1. pc[d] = "purge" /\ held'[d] \subseteq held[d] /\ box'[n] = box[n]
    BY <1>3
  <2> QED BY <1>3, <2>1 DEF Sparing, Noticed
<1>4. Noticed'
  BY <1>3 DEF Noticed
<1> QED BY <1>1, <1>2, <1>4 DEF Sparing

(* A command looks up a container there is. *)
LEMMA LookSparing ==
  ASSUME TypeOK, Sparing, NEW c \in Shells, UNCHANGED <<made, woken, box>>,
         Exists(Name(c)), held' = [held EXCEPT ![c] = {box[Name(c)].id}],
         NEW step \in {"act", "exec", "revive"}, Goto(c, step)
  PROVE  Sparing'
<1>0. Name(c) \in Names
  BY DEF TypeOK, Name, Job
<1>1. Numbered'
  BY DEF Sparing, Numbered
<1>2. \A d \in Shells : /\ d # c => held'[d] = held[d] /\ pc'[d] = pc[d]
                        /\ d = c => held'[d] = {box[Name(c)].id} /\ pc'[d] # "purge"
  BY DEF TypeOK, Goto
<1>3. Heard'
  BY <1>0, <1>2 DEF Sparing, Heard, Numbered, Exists
<1>4. Noticed'
  BY <1>2 DEF Sparing, Noticed
<1> QED BY <1>1, <1>3, <1>4 DEF Sparing

(* A container is switched on or off; a cleanup that has it on its list    *)
(* takes no notice.                                                        *)
LEMMA SwitchSparing ==
  ASSUME TypeOK, Sparing, NEW c \in Shells, UNCHANGED <<made, held>>, Wake,
         \A n \in Names : box'[n].id = box[n].id,
         \A n \in Names : box'[n].running => box[n].id # 0,
         \A d \in Shells : d # c => pc'[d] = pc[d],
         pc'[c] # "purge"
  PROVE  Sparing'
<1>1. Numbered'
  BY DEF Sparing, Numbered
<1>2. Heard'
  BY DEF Sparing, Heard
<1>3. ASSUME NEW d \in Shells, NEW n \in Names,
             pc'[d] = "purge", box'[n].id \in held'[d], box'[n].running
      PROVE  box'[n].id \in woken'
  <2>1. pc[d] = "purge" /\ box'[n].id \in held[d]
    BY <1>3
  <2>2. box'[n].id \in Listed
    BY <2>1 DEF Listed
  <2> QED BY <1>3, <2>2 DEF Wake
<1>4. Noticed'
  BY <1>3 DEF Noticed
<1> QED BY <1>1, <1>2, <1>4 DEF Sparing

(* Every step, of any command, keeps what is noticed. *)
LEMMA SparingStep == TypeOK /\ Sparing /\ [Next]_vars => Sparing'
<1> SUFFICES ASSUME TypeOK, Sparing, [Next]_vars PROVE Sparing'
  OBVIOUS
<1>1. ASSUME NEW c \in Shells, NEW j \in Jobs[c], Start(c, j) PROVE Sparing'
  <2>1. FirstStep(j) # "purge"
    <3>1. j \in Job
      BY JobsGiven
    <3> QED BY <3>1 DEF FirstStep, Job, Kinds
  <2> QED BY <1>1, <2>1, CalmSparing DEF Start, Goto, TypeOK
<1>2. ASSUME NEW c \in Shells,
             \/ Ensure(c) \/ Register(c) \/ RegisterNowhere(c) \/ IssueToken(c) \/ NameTaken(c)
             \/ Announce(c) \/ Furnish(c) \/ Exec(c) \/ RunLook(c) \/ Touch(c)
             \/ RemoveAbsent(c) \/ Forget(c) \/ Purged(c) \/ Interrupt(c) \/ Killed(c)
      PROVE  Sparing'
  <2>1. UNCHANGED <<made, woken, box, held>>
    BY <1>2 DEF Ensure, Register, RegisterNowhere, IssueToken, NameTaken, Announce, Furnish, Exec, RunLook, Touch, RemoveAbsent, Forget, Purged, Interrupt, Killed, command
  <2>2. /\ \A d \in Shells : d # c => pc'[d] = pc[d]
        /\ pc'[c] = "purge" => pc[c] = "purge"
    BY <1>2 DEF Ensure, Register, RegisterNowhere, IssueToken, NameTaken, Announce, Furnish, Exec, RunLook, Touch, RemoveAbsent, Forget, Purged, Interrupt, Killed, Goto, FailTo, Report, BeforeMake, RegisterFailed, RemoveFailed, TypeOK
  <2> QED BY <2>1, <2>2, CalmSparing
<1>3. ASSUME NEW c \in Shells, Recheck(c) PROVE Sparing'
  <2>1. CASE /\ Exists(Name(c)) /\ held' = [held EXCEPT ![c] = {box[Name(c)].id}]
             /\ Goto(c, IF box[Name(c)].running THEN "exec" ELSE "revive")
    BY <1>3, <2>1, LookSparing DEF Recheck
  <2>2. CASE UNCHANGED held /\ Goto(c, "exec")
    <3>1. /\ \A d \in Shells : d # c => pc'[d] = pc[d]
          /\ pc'[c] # "purge"
      BY <2>2 DEF Goto, TypeOK
    <3> QED BY <1>3, <2>2, <3>1, CalmSparing DEF Recheck
  <2> QED BY <1>3, <2>1, <2>2 DEF Recheck, FailTo
<1>4. ASSUME NEW c \in Shells, Look(c) PROVE Sparing'
  <2>1. CASE /\ Exists(Name(c)) /\ held' = [held EXCEPT ![c] = {box[Name(c)].id}]
             /\ Goto(c, "act")
    BY <1>4, <2>1, LookSparing DEF Look
  <2>2. CASE UNCHANGED held /\ Goto(c, "failed")
    <3>1. /\ \A d \in Shells : d # c => pc'[d] = pc[d]
          /\ pc'[c] # "purge"
      BY <2>2 DEF Goto, TypeOK
    <3> QED BY <1>4, <2>2, <3>1, CalmSparing DEF Look
  <2> QED BY <1>4, <2>1, <2>2 DEF Look, FailTo
<1>5. ASSUME NEW c \in Shells, Make(c) PROVE Sparing'
  <2> DEFINE new == [id |-> made + 1, running |-> TRUE, supervised |-> job[c].proxy /\ linked[c]]
             next == IF job[c].kind = "create" THEN "announce" ELSE "exec"
  <2>1. Name(c) \in Names /\ made \in Nat /\ made' = made + 1 /\ UNCHANGED <<held, woken>>
    BY <1>5 DEF Make, TypeOK, Ids, Name, Job, command
  <2>2. new.id = made + 1 /\ new.running
    OBVIOUS
  <2> HIDE DEF new
  <2>3. Drive(c, Name(c), new, next, "failed")
    BY <1>5 DEF Make, new
  <2>4. \A n \in Names : box'[n] = box[n] \/ (n = Name(c) /\ box'[n] = new)
    BY <2>1, <2>3 DEF Drive, Unanswered, TypeOK
  <2>5. /\ \A d \in Shells : d # c => pc'[d] = pc[d]
        /\ pc'[c] # "purge"
    BY <2>3 DEF Drive, Goto, TypeOK
  <2>6. \A n \in Names : box[n].id \in Nat /\ box[n].id <= made
    BY DEF Sparing, Numbered, TypeOK, Boxes, Ids
  <2>7. Numbered'
    BY <2>1, <2>2, <2>4, <2>6 DEF Sparing, Numbered
  <2>8. Heard'
    <3>1. \A d \in Shells : held[d] \subseteq Nat
      BY DEF TypeOK, Ids
    <3> QED BY <2>1, <3>1 DEF Sparing, Heard
  <2>9. ASSUME NEW d \in Shells, NEW n \in Names,
               pc'[d] = "purge", box'[n].id \in held'[d], box'[n].running
        PROVE  box'[n].id \in woken'
    <3>1. box'[n] # new
      BY <2>1, <2>2, <2>9 DEF Sparing, Heard
    <3>2. box'[n] = box[n] /\ pc[d] = "purge" /\ held'[d] = held[d]
      BY <2>1, <2>4, <2>5, <2>9, <3>1
    <3> QED BY <2>1, <2>9, <3>2 DEF Sparing, Noticed
  <2>10. Noticed'
    BY <2>9 DEF Noticed
  <2> QED BY <2>7, <2>8, <2>10 DEF Sparing
<1>6. ASSUME NEW c \in Shells, Revive(c) PROVE Sparing'
  <2>1. Name(c) \in Names /\ box[Name(c)] \in Boxes
    BY DEF TypeOK, Name, Job
  <2>2. /\ \A d \in Shells : d # c => pc'[d] = pc[d]
        /\ pc'[c] # "purge"
    BY <1>6 DEF Revive, Drive, Goto, TypeOK
  <2>3. /\ \A n \in Names : box'[n].id = box[n].id
        /\ \A n \in Names : box'[n].running => box[n].id # 0
    <3>1. CASE box[Name(c)].id \in held[c]
      <4> DEFINE new == [box[Name(c)] EXCEPT !.running = TRUE]
      <4>1. new.id = box[Name(c)].id /\ new.id # 0
        BY <2>1, <3>1 DEF Boxes, Sparing, Heard
      <4>2. Drive(c, Name(c), new, "exec", "exec")
        BY <1>6, <3>1 DEF Revive
      <4> HIDE DEF new
      <4> QED BY <2>1, <4>1, <4>2 DEF Drive, Unanswered, TypeOK, Sparing, Numbered
    <3>2. CASE box[Name(c)].id \notin held[c]
      BY <1>6, <3>2 DEF Revive, Sparing, Numbered
    <3> QED BY <3>1, <3>2
  <2> QED BY <1>6, <2>2, <2>3, SwitchSparing DEF Revive, command
<1>7. ASSUME NEW c \in Shells, Act(c) PROVE Sparing'
  <2>1. Name(c) \in Names /\ box[Name(c)] \in Boxes
    BY DEF TypeOK, Name, Job
  <2>2. /\ \A d \in Shells : d # c => pc'[d] = pc[d]
        /\ pc'[c] # "purge"
    BY <1>7 DEF Act, Drive, Goto, TypeOK
  <2>3. /\ \A n \in Names : box'[n].id = box[n].id
        /\ \A n \in Names : box'[n].running => box[n].id # 0
    <3>1. CASE box[Name(c)].id \in held[c]
      <4> DEFINE new == [box[Name(c)] EXCEPT !.running = (job[c].kind = "start")]
      <4>1. new.id = box[Name(c)].id /\ new.id # 0
        BY <2>1, <3>1 DEF Boxes, Sparing, Heard
      <4>2. Drive(c, Name(c), new, "touch", "failed")
        BY <1>7, <3>1 DEF Act
      <4> HIDE DEF new
      <4> QED BY <2>1, <4>1, <4>2 DEF Drive, Unanswered, TypeOK, Sparing, Numbered
    <3>2. CASE box[Name(c)].id \notin held[c]
      BY <1>7, <3>2 DEF Act, Sparing, Numbered
    <3> QED BY <3>1, <3>2
  <2> QED BY <1>7, <2>2, <2>3, SwitchSparing DEF Act, command
<1>8. ASSUME NEW c \in Shells, Remove(c) PROVE Sparing'
  <2>1. Name(c) \in Names /\ NoBox.id = 0 /\ ~NoBox.running
    BY DEF TypeOK, Name, Job, NoBox
  <2>2. Drive(c, Name(c), NoBox, "forget", RemoveFailed(c)) /\ UNCHANGED <<made, woken, held>>
    BY <1>8 DEF Remove, command
  <2>3. \A n \in Names : box'[n] = box[n] \/ (box'[n].id = 0 /\ ~box'[n].running)
    BY <2>1, <2>2 DEF Drive, Unanswered, TypeOK
  <2>4. /\ \A d \in Shells : d # c => pc'[d] = pc[d]
        /\ pc'[c] # "purge"
    BY <2>2 DEF Drive, RemoveFailed, Goto, TypeOK
  <2> QED BY <2>2, <2>3, <2>4, CalmSparing
<1>9. ASSUME NEW c \in Shells, List(c) PROVE Sparing'
  <2>1. CASE /\ held' = [held EXCEPT ![c] = {box[n].id : n \in Disposable}]
             /\ Goto(c, "purge") /\ woken' = woken \ held'[c]
    <3>1. /\ UNCHANGED <<box, made>>
          /\ held'[c] = {box[n].id : n \in Disposable}
          /\ \A d \in Shells : d # c => held'[d] = held[d] /\ pc'[d] = pc[d]
      BY <1>9, <2>1 DEF List, Goto, TypeOK
    <3>2. Numbered'
      BY <3>1 DEF Sparing, Numbered
    <3>3. Heard'
      BY <3>1 DEF Sparing, Heard, Numbered, Disposable, Exists
    <3>4. ASSUME NEW n \in Names, box[n].running PROVE box[n].id \notin held'[c]
      BY <3>1, <3>4 DEF Disposable, Exists, Sparing, Numbered
    <3>5. ASSUME NEW d \in Shells, NEW n \in Names,
                 pc'[d] = "purge", box'[n].id \in held'[d], box'[n].running
          PROVE  box'[n].id \in woken'
      <4>1. d # c /\ box[n].id \notin held'[c]
        BY <3>1, <3>4, <3>5
      <4> QED BY <2>1, <3>1, <3>5, <4>1 DEF Sparing, Noticed
    <3>6. Noticed'
      BY <3>5 DEF Noticed
    <3> QED BY <3>2, <3>3, <3>6 DEF Sparing
  <2>2. CASE UNCHANGED <<held, woken>> /\ Goto(c, "failed")
    <3>1. /\ \A d \in Shells : d # c => pc'[d] = pc[d]
          /\ pc'[c] # "purge"
      BY <2>2 DEF Goto, TypeOK
    <3> QED BY <1>9, <2>2, <3>1, CalmSparing DEF List
  <2> QED BY <1>9, <2>1, <2>2 DEF List, FailTo
<1>10. ASSUME NEW c \in Shells, Purge(c) PROVE Sparing'
  <2>1. NoBox.id = 0 /\ ~NoBox.running
    BY DEF NoBox
  <2>2. PICK id \in held[c] :
         /\ held' = [held EXCEPT ![c] = @ \ {id}]
         /\ \/ \E n \in Names : box[n].id = id /\ Drive(c, n, NoBox, "purge", "failed")
            \/ (Goto(c, "purge") \/ Goto(c, "failed")) /\ UNCHANGED <<box, troubled>>
    BY <1>10 DEF Purge
  <2>3. \A n \in Names : box'[n] = box[n] \/ (box'[n].id = 0 /\ ~box'[n].running)
    BY <2>1, <2>2 DEF Drive, Unanswered, TypeOK
  <2>4. \A d \in Shells : d # c => held'[d] = held[d] /\ pc'[d] = pc[d]
    BY <2>2 DEF Drive, Goto, TypeOK
  <2>5. UNCHANGED <<made, woken>> /\ pc[c] = "purge" /\ held'[c] \subseteq held[c]
    BY <1>10, <2>2 DEF Purge, TypeOK
  <2> QED BY <2>3, <2>4, <2>5, CalmSparing
<1>11. ASSUME NEW n \in Names, BoxExits(n) PROVE Sparing'
  <2>1. /\ \A m \in Names : box'[m].id = box[m].id /\ (box'[m].running => box[m].running)
        /\ UNCHANGED <<made, held, pc, woken>>
    BY <1>11 DEF BoxExits, TypeOK, Boxes, command
  <2> QED BY <2>1 DEF Sparing, Numbered, Heard, Noticed
<1>12. CASE UNCHANGED vars
  BY <1>12 DEF vars, Sparing, Numbered, Heard, Noticed
<1> QED BY <1>1, <1>2, <1>3, <1>4, <1>5, <1>6, <1>7, <1>8, <1>9, <1>10, <1>11, <1>12 DEF Next, Step

(* What is noticed is so in every reachable state. *)
LEMMA SparingAlways == Spec => [](TypeOK /\ Sparing)
<1>1. Init => TypeOK /\ Sparing
  BY TypeInit, SparingInit
<1>2. TypeOK /\ Sparing /\ [Next]_vars => (TypeOK /\ Sparing)'
  BY TypeStep, SparingStep
<1> QED BY <1>1, <1>2, PTL DEF Spec

(* A step that removes a running container removes it by name, or from the *)
(* list of a cleanup that it was not on when it last stopped running.      *)
LEMMA SparedStep ==
  ASSUME TypeOK, Sparing, [Next]_vars, NEW n \in Names, box[n].running, ~Exists(n)'
  PROVE  \E c \in Shells :
           \/ Name(c) = n /\ pc[c] = "remove"
           \/ pc[c] = "purge" /\ box[n].id \in held[c] \cap woken
<1>0. box[n].id # 0 /\ box'[n].id = 0
  BY DEF Sparing, Numbered, Exists
<1>1. ASSUME NEW c \in Shells, Make(c) PROVE FALSE
  <2>1. Name(c) \in Names /\ box[Name(c)].id = 0
    BY <1>1 DEF Make, Exists, TypeOK, Name, Job
  <2> QED BY <1>0, <1>1, <2>1 DEF Make, Drive, Unanswered, TypeOK
<1>2. ASSUME NEW c \in Shells, Revive(c) PROVE FALSE
  <2>1. Name(c) \in Names /\ box[Name(c)] \in Boxes
    BY DEF TypeOK, Name, Job
  <2>2. [box[Name(c)] EXCEPT !.running = TRUE].id = box[Name(c)].id
    BY <2>1 DEF Boxes
  <2> QED BY <1>0, <1>2, <2>1, <2>2 DEF Revive, Drive, Unanswered, TypeOK
<1>3. ASSUME NEW c \in Shells, Act(c) PROVE FALSE
  <2>1. Name(c) \in Names /\ box[Name(c)] \in Boxes
    BY DEF TypeOK, Name, Job
  <2>2. [box[Name(c)] EXCEPT !.running = (job[c].kind = "start")].id = box[Name(c)].id
    BY <2>1 DEF Boxes
  <2> QED BY <1>0, <1>3, <2>1, <2>2 DEF Act, Drive, Unanswered, TypeOK
<1>4. ASSUME NEW c \in Shells, Remove(c) PROVE Name(c) = n /\ pc[c] = "remove"
  BY <1>0, <1>4 DEF Remove, Drive, Unanswered, TypeOK
<1>5. ASSUME NEW c \in Shells, Purge(c)
      PROVE  pc[c] = "purge" /\ box[n].id \in held[c] \cap woken
  <2>1. PICK m \in Names : box[m].id \in held[c] /\ Drive(c, m, NoBox, "purge", "failed")
    BY <1>0, <1>5 DEF Purge
  <2>2. m = n
    BY <1>0, <2>1 DEF Drive, Unanswered, TypeOK
  <2>3. pc[c] = "purge" /\ box[n].id \in held[c]
    BY <1>5, <2>1, <2>2 DEF Purge
  <2> QED BY <2>3 DEF Sparing, Noticed
<1>6. ASSUME NEW m \in Names, BoxExits(m) PROVE FALSE
  BY <1>0, <1>6 DEF BoxExits, TypeOK, Boxes
<1>7. box' # box
  BY <1>0
<1> QED BY <1>1, <1>2, <1>3, <1>4, <1>5, <1>6, <1>7 DEF Next, vars, Step, Start, Interrupt, Killed, Ensure, Register, RegisterNowhere, IssueToken, NameTaken, Announce, Furnish, Exec, RunLook, Recheck, Look, Touch, RemoveAbsent, Forget, List, Purged

(* In any number of shells a running sandbox is removed by a removal asked *)
(* for by name, or by a cleanup that had listed it while it was stopped.   *)
THEOREM RunningIsSpared == Spec => RunningSpared
<1>1. TypeOK /\ Sparing /\ [Next]_vars =>
        [\A n \in Names :
           box[n].running /\ ~Exists(n)' =>
             \E c \in Shells :
               \/ Name(c) = n /\ pc[c] = "remove"
               \/ pc[c] = "purge" /\ box[n].id \in held[c] \cap woken]_vars
  BY SparedStep
<1> QED BY <1>1, SparingAlways, PTL DEF RunningSpared, Spec

=============================================================================
