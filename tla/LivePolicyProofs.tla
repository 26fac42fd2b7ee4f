-------------------------- MODULE LivePolicyProofs --------------------------
(***************************************************************************)
(* What holds of the policy file for any commands, jobs, rules and         *)
(* providers.  OrderedWritesAgree is not inductive: the proof follows the  *)
(* effective policy from the gateway's answer (Answered) into the command  *)
(* that got it (Carried) and from there into the file (Delivered).         *)
(***************************************************************************)
EXTENDS LivePolicy, TLAPS

(* The places of a command, none of which is an end. *)
LEMMA StepNames ==
  /\ Steps \cap Ends = {}
  /\ {"idle", "probe", "read", "put", "direct", "change", "fetch", "open", "write", "wait",
      "matched", "unmatched"} = Steps
  /\ {"ok", "local", "timeout", "warned", "failed", "crashed"} = Ends
  BY DEF Steps, Ends

(* What a write leaves is a file of the right type, with the policy in it  *)
(* or garbled.                                                             *)
LEMMA OverwrittenTyped ==
  ASSUME NEW f \in Files, NEW policy \in Policies
  PROVE  /\ Overwritten(f, policy) \in Files
         /\ Overwritten(f, policy).state # "garbled" => Overwritten(f, policy) = Whole(policy)
         /\ Overwritten(f, policy).state # "empty"
  <1>1. CASE f.state = "empty" \/ Cardinality(f.rules) <= Cardinality(policy)
    BY <1>1 DEF Overwritten, Whole, Files
  <1>2. CASE ~(f.state = "empty" \/ Cardinality(f.rules) <= Cardinality(policy))
    BY <1>2 DEF Overwritten, Files
  <1> QED
    BY <1>1, <1>2

(* Where a command starts and where it goes. *)
LEMMA Jumps ==
  /\ \A j : FirstStep(j) \in {"probe", "read", "change"}
  /\ \A c : Written(c) \in {"wait", "ok"}
  /\ \A c : FailedEnd(c) \in {"warned", "failed"}
  BY DEF FirstStep, Written, FailedEnd

(* Every step of a command moves that command only. *)
LEMMA GotoMoves ==
  ASSUME NEW c \in Commands, NEW step \in Steps \cup Ends, Goto(c, step),
         pc \in [Commands -> Steps \cup Ends]
  PROVE  /\ pc' \in [Commands -> Steps \cup Ends]
         /\ pc'[c] = step
         /\ \A d \in Commands \ {c} : pc'[d] = pc[d]
  BY DEF Goto

(* Typing, and what a command knows of its own job. *)
Started ==
  \A c \in Commands :
    /\ pc[c] # "idle" => job[c] \in Jobs
    /\ pc[c] = "change" => job[c].kind \in {"attach", "detach", "approve"}
    /\ pc[c] = "read" => job[c].kind = "update"
TypeInv == TypeOK /\ Started

(* A gateway change keeps the gateway's types. *)
LEMMA GatewayTyped ==
  ASSUME TypeInv, NEW c \in Commands, pc[c] = "change", GatewayChange(c)
  PROVE  base' \in SUBSET Rules /\ attached' \in SUBSET Providers /\ standing' \in SUBSET Commands
  <1>1. job[c] \in Jobs /\ job[c].kind \in {"attach", "detach", "approve"}
    BY StepNames DEF TypeInv, Started
  <1>2. job[c].kind = "approve" => job[c].rules \subseteq Rules
    BY <1>1, PolicyAssumption
  <1>3. job[c].kind \in {"attach", "detach"} => job[c].rules \subseteq Providers
    BY <1>1, PolicyAssumption
  <1> QED
    BY <1>1, <1>2, <1>3 DEF GatewayChange, TypeInv, TypeOK

(* A step that touches neither the gateway, the jobs nor the policies of a *)
(* command only has to keep the file typed.                                *)
LEMMA MovingTyped ==
  ASSUME TypeInv, NEW c \in Commands, NEW step \in Steps \cup Ends, Goto(c, step),
         pc[c] # "idle", step \notin {"change", "read"},
         base' \in SUBSET Rules, attached' \in SUBSET Providers, file' \in Files,
         given' \in [Commands -> Policies], content' \in [Commands -> Policies],
         newest' \in Commands \cup {NoCommand}, writer' \in Commands \cup {NoCommand},
         standing' \in SUBSET Commands, known' \in [Commands -> SUBSET Commands],
         UNCHANGED <<job, loaded, waited, unread, orderly>>
  PROVE  TypeInv'
  <1>1. /\ pc' \in [Commands -> Steps \cup Ends]
        /\ pc'[c] = step
        /\ \A d \in Commands \ {c} : pc'[d] = pc[d]
    BY GotoMoves DEF TypeInv, TypeOK
  <1>2. TypeOK'
    BY <1>1 DEF TypeInv, TypeOK
  <1>3. Started'
    BY <1>1 DEF TypeInv, Started
  <1> QED
    BY <1>2, <1>3 DEF TypeInv

(* Where a reading of the file, a look at the clock and a local approval   *)
(* lead.                                                                   *)
LEMMA QuietEnds ==
  ASSUME NEW c \in Commands, WaitRead(c) \/ WaitOver(c) \/ ApproveLocally(c)
  PROVE  \E step \in {"matched", "unmatched", "ok", "local", "timeout", "wait"} :
           /\ Goto(c, step)
           /\ pc[c] \in {"wait", "matched", "unmatched", "change"}
           /\ pc[c] = "change" => step = "local"
           /\ step = "ok" => Applied(c)
  BY DEF WaitRead, WaitOver, LookedAtClock, SleepCutShort, ApproveLocally

(* Every step keeps the types. *)
LEMMA TypeStep == TypeInv /\ [Next]_vars => TypeInv'
  <1> SUFFICES ASSUME TypeInv, [Next]_vars PROVE TypeInv' OBVIOUS
  <1> USE StepNames
  <1>1. ASSUME NEW c \in Commands, NEW j \in Jobs, Start(c, j) PROVE TypeInv'
    <2>1. j \in Job /\ j.rules \in Policies
      BY PolicyAssumption DEF Job, Policies
    <2>2. FirstStep(j) \in Steps \cup Ends
      BY Jumps
    <2>3. /\ pc' \in [Commands -> Steps \cup Ends]
          /\ pc'[c] = FirstStep(j)
          /\ \A d \in Commands \ {c} : pc'[d] = pc[d]
      BY <1>1, <2>2, GotoMoves DEF Start, TypeInv, TypeOK
    <2>4. TypeOK'
      BY <1>1, <2>1, <2>3 DEF Start, gatewayVars, timeVars, history, TypeInv, TypeOK
    <2>5. job'[c] = j /\ \A d \in Commands \ {c} : job'[d] = job[d]
      BY <1>1 DEF Start, TypeInv, TypeOK
    <2>6. /\ FirstStep(j) = "change" => j.kind \in {"attach", "detach", "approve"}
          /\ FirstStep(j) = "read" => j.kind = "update"
      BY <2>1 DEF FirstStep, Job, Kinds
    <2> QED
      BY <2>3, <2>4, <2>5, <2>6 DEF TypeInv, Started
  <1>2. ASSUME NEW c \in Commands, ReadBase(c) PROVE TypeInv'
    <2>1. job[c] \in Jobs /\ job[c].kind = "update"
      BY <1>2 DEF ReadBase, TypeInv, Started
    <2>2. Merged(base, job[c].rules) \in Policies
      BY <2>1, PolicyAssumption DEF Merged, Policies, TypeInv, TypeOK
    <2>3. given' \in [Commands -> Policies] /\ known' \in [Commands -> SUBSET Commands]
      BY <1>2, <2>2 DEF ReadBase, TypeInv, TypeOK
    <2> QED
      BY <1>2, <2>3, MovingTyped DEF ReadBase, gatewayVars, timeVars, history, TypeInv, TypeOK
  <1>3. ASSUME NEW c \in Commands, Probe(c) PROVE TypeInv'
    BY <1>3, MovingTyped DEF Probe, gatewayVars, timeVars, history, TypeInv, TypeOK
  <1>4. ASSUME NEW c \in Commands, Put(c) PROVE TypeInv'
    <2>1. base' \in SUBSET Rules /\ standing' \in SUBSET Commands /\ attached' = attached
      BY <1>4 DEF Put, GatewayPut, Stripped, TypeInv, TypeOK, Policies
    <2>2. content' \in [Commands -> Policies]
      BY <1>4, <2>1 DEF Put, TypeInv, TypeOK, Policies
    <2> QED
      BY <1>4, <2>1, <2>2, MovingTyped DEF Put, timeVars, TypeInv, TypeOK
  <1>5. ASSUME NEW c \in Commands, Direct(c) PROVE TypeInv'
    <2>1. content' \in [Commands -> Policies]
      BY <1>5 DEF Direct, TypeInv, TypeOK
    <2> QED
      BY <1>5, <2>1, MovingTyped DEF Direct, gatewayVars, timeVars, history, TypeInv, TypeOK
  <1>6. ASSUME NEW c \in Commands, Change(c) PROVE TypeInv'
    <2>1. base' \in SUBSET Rules /\ attached' \in SUBSET Providers
      BY <1>6, GatewayTyped DEF Change
    <2> QED
      BY <1>6, <2>1, GatewayTyped, MovingTyped DEF Change, timeVars, history, TypeInv, TypeOK
  <1>7. ASSUME NEW c \in Commands, Fetch(c) PROVE TypeInv'
    <2>1. content' \in [Commands -> Policies]
      BY <1>7 DEF Fetch, Fetched, Effective, TypeInv, TypeOK, Policies
    <2> QED
      BY <1>7, <2>1, MovingTyped DEF Fetch, gatewayVars, timeVars, TypeInv, TypeOK
  <1>8. ASSUME NEW c \in Commands, Open(c) PROVE TypeInv'
    <2>1. file' \in Files
      BY <1>8 DEF Open, Files, TypeInv, TypeOK
    <2> QED
      BY <1>8, <2>1, MovingTyped DEF Open, gatewayVars, timeVars, history, TypeInv, TypeOK
  <1>9. ASSUME NEW c \in Commands, Write(c) PROVE TypeInv'
    <2>1. file' \in Files
      BY <1>9, OverwrittenTyped DEF Write, TypeInv, TypeOK
    <2> QED
      BY <1>9, <2>1, Jumps, MovingTyped DEF Write, gatewayVars, timeVars, TypeInv, TypeOK
  <1>10. ASSUME NEW c \in Commands, WaitRead(c) \/ WaitOver(c) \/ ApproveLocally(c)
         PROVE  TypeInv'
    <2>1. PICK step \in {"matched", "unmatched", "ok", "local", "timeout", "wait"} :
            Goto(c, step) /\ pc[c] # "idle"
      BY <1>10, QuietEnds
    <2> QED
      BY <1>10, <2>1, MovingTyped DEF WaitRead, WaitOver, ApproveLocally, gatewayVars, timeVars,
         history, TypeInv, TypeOK
  <1>11. ASSUME NEW c \in Commands, Fail(c) PROVE TypeInv'
    BY <1>11, Jumps, MovingTyped DEF Fail, gatewayVars, timeVars, history, TypeInv, TypeOK
  <1>12. ASSUME NEW c \in Commands, PutUnanswered(c) PROVE TypeInv'
    <2>1. base' \in SUBSET Rules /\ standing' \in SUBSET Commands /\ attached' = attached
      BY <1>12 DEF PutUnanswered, GatewayPut, Stripped, TypeInv, TypeOK, Policies
    <2> QED
      BY <1>12, <2>1, MovingTyped DEF PutUnanswered, timeVars, history, TypeInv, TypeOK
  <1>13. ASSUME NEW c \in Commands, ChangeUnanswered(c) PROVE TypeInv'
    <2>1. base' \in SUBSET Rules /\ attached' \in SUBSET Providers
      BY <1>13, GatewayTyped DEF ChangeUnanswered
    <2> QED
      BY <1>13, <2>1, GatewayTyped, MovingTyped DEF ChangeUnanswered, timeVars, history, TypeInv, TypeOK
  <1>14. ASSUME NEW c \in Commands, Crash(c) PROVE TypeInv'
    BY <1>14, MovingTyped DEF Crash, gatewayVars, timeVars, history, TypeInv, TypeOK
  <1>15. CASE ProxyPoll
    <2>1. loaded' \in Policies /\ unread' \in 0 .. Reload
      BY <1>15, PolicyAssumption DEF ProxyPoll, TypeInv, TypeOK, Files
    <2> QED
      BY <1>15, <2>1 DEF ProxyPoll, gatewayVars, history, TypeInv, TypeOK, Started
  <1>16. CASE Tick
    <2>1. unread' \in 0 .. Reload /\ waited' \in [Commands -> 0 .. Deadline]
      BY <1>16, PolicyAssumption DEF Tick, TypeInv, TypeOK
    <2> QED
      BY <1>16, <2>1 DEF Tick, gatewayVars, history, TypeInv, TypeOK, Started
  <1>17. CASE UNCHANGED vars
    BY <1>17 DEF vars, TypeInv, TypeOK, Started
  <1> QED
    BY <1>1, <1>2, <1>3, <1>4, <1>5, <1>6, <1>7, <1>8, <1>9, <1>10, <1>11, <1>12, <1>13,
       <1>14, <1>15, <1>16, <1>17 DEF Next, Step

(* The types hold at first. *)
LEMMA TypeStart == Init => TypeInv
  <1> SUFFICES ASSUME Init PROVE TypeInv OBVIOUS
  <1>1. Effective \in Policies /\ {} \in Policies
    BY DEF Init, Effective, Policies
  <1>2. file \in Files
    BY <1>1 DEF Init, Whole, Files
  <1>3. [kind |-> "set", rules |-> {}, wait |-> FALSE] \in Job
    BY DEF Job, Kinds
  <1>4. TypeOK
    BY <1>1, <1>2, <1>3, StepNames, PolicyAssumption DEF Init, TypeOK
  <1> QED
    BY <1>4 DEF Init, TypeInv, Started

(* Every variable keeps its type. *)
THEOREM PolicyTyped == SafetySpec => []TypeOK
  <1>1. Init => TypeInv
    BY TypeStart
  <1>2. TypeInv => TypeOK
    BY DEF TypeInv
  <1> QED
    BY <1>1, <1>2, TypeStep, PTL DEF SafetySpec

----------------------------------------------------------------------------
(* No gateway change waits to be read, and nothing went wrong. *)
NothingUnread == \A c \in Commands : pc[c] \notin {"fetch", "warned", "failed", "crashed"}
(* No truncated file waits to be written, and nothing went wrong. *)
NothingTruncated == \A c \in Commands : pc[c] \notin {"write", "warned", "failed", "crashed"}

Untouched == newest = NoCommand /\ writer = NoCommand /\ NothingUnread => file.rules = Effective
Answered == newest # NoCommand /\ NothingUnread => content[newest] = Effective
Carried ==
  /\ newest # NoCommand => pc[newest] \in {"open", "write", "wait", "matched", "unmatched"} \cup Ends
  /\ writer # NoCommand => pc[writer] \in {"wait", "matched", "unmatched"} \cup Ends
Delivered == NothingTruncated =>
  /\ file.state # "empty"
  /\ writer # NoCommand /\ file.state = "whole" => file = Whole(content[writer])

OrderInv == Untouched /\ Answered /\ Carried /\ Delivered

(* A step of one command that changes neither the gateway, the file nor    *)
(* what commands hold keeps the order.                                     *)
LEMMA QuietStep ==
  ASSUME TypeInv, OrderInv, NEW c \in Commands, NEW step \in Steps \cup Ends, Goto(c, step),
         UNCHANGED <<base, attached, file, content, newest, writer>>,
         pc[c] \in {"fetch", "write"} => step \in {"warned", "failed", "crashed"},
         pc[c] = "open" => step \in Ends,
         pc[c] \in {"wait", "matched", "unmatched"} => step \in {"wait", "matched", "unmatched"} \cup Ends,
         pc[c] \notin Ends
  PROVE  OrderInv'
  <1>1. /\ pc'[c] = step
        /\ \A d \in Commands \ {c} : pc'[d] = pc[d]
    BY GotoMoves DEF TypeInv, TypeOK
  <1>2. NothingUnread' => NothingUnread
    BY <1>1, StepNames DEF NothingUnread
  <1>3. NothingTruncated' => NothingTruncated
    BY <1>1, StepNames DEF NothingTruncated
  <1>4. Carried'
    BY <1>1, StepNames DEF OrderInv, Carried, TypeInv, TypeOK
  <1> QED
    BY <1>2, <1>3, <1>4 DEF OrderInv, Untouched, Answered, Delivered, Effective

(* Every step keeps what commands carry in the order of the answers. *)
LEMMA OrderStep == TypeInv /\ OrderInv /\ [Next]_vars => OrderInv'
  <1> SUFFICES ASSUME TypeInv, OrderInv, [Next]_vars PROVE OrderInv' OBVIOUS
  <1> USE StepNames
  <1>1. ASSUME NEW c \in Commands, NEW j \in Jobs, Start(c, j) PROVE OrderInv'
    BY <1>1, Jumps, QuietStep DEF Start, gatewayVars, history
  <1>2. ASSUME NEW c \in Commands, ReadBase(c) \/ Probe(c) PROVE OrderInv'
    BY <1>2, QuietStep DEF ReadBase, Probe, gatewayVars, history
  <1>3. ASSUME NEW c \in Commands, WaitRead(c) \/ WaitOver(c) \/ ApproveLocally(c)
        PROVE  OrderInv'
    <2>1. PICK step \in {"matched", "unmatched", "ok", "local", "timeout", "wait"} :
            /\ Goto(c, step)
            /\ pc[c] \in {"wait", "matched", "unmatched", "change"}
            /\ pc[c] = "change" => step = "local"
      BY <1>3, QuietEnds
    <2>2. UNCHANGED <<base, attached, file, content, newest, writer>>
      BY <1>3 DEF WaitRead, WaitOver, ApproveLocally, gatewayVars, history
    <2> QED
      BY <2>1, <2>2, QuietStep
  <1>4. ASSUME NEW c \in Commands, Fail(c) \/ Crash(c) PROVE OrderInv'
    <2>1. PICK step \in {"warned", "failed", "crashed"} : Goto(c, step)
      BY <1>4, Jumps DEF Fail, Crash
    <2>2. pc[c] \notin Ends
      BY <1>4 DEF Fail, Crash
    <2> QED
      BY <1>4, <2>1, <2>2, QuietStep DEF Fail, Crash, gatewayVars, history
  <1>5. ASSUME NEW c \in Commands, Change(c) \/ PutUnanswered(c) \/ ChangeUnanswered(c)
        PROVE OrderInv'
    <2>1. PICK step \in {"fetch", "failed"} : Goto(c, step)
      BY <1>5 DEF Change, PutUnanswered, ChangeUnanswered
    <2>2. /\ pc[c] \in {"put", "change"}
          /\ UNCHANGED <<file, content, newest, writer>>
      BY <1>5 DEF Change, PutUnanswered, ChangeUnanswered, history
    <2>3. /\ pc'[c] = step
          /\ \A d \in Commands \ {c} : pc'[d] = pc[d]
      BY <2>1, GotoMoves DEF TypeInv, TypeOK
    <2>4. ~NothingUnread'
      BY <2>3 DEF NothingUnread
    <2>5. NothingTruncated' => NothingTruncated
      BY <2>2, <2>3 DEF NothingTruncated
    <2>6. Carried'
      BY <2>2, <2>3 DEF OrderInv, Carried, TypeInv, TypeOK
    <2> QED
      BY <2>2, <2>4, <2>5, <2>6 DEF OrderInv, Untouched, Answered, Delivered
  <1>6. ASSUME NEW c \in Commands, Put(c) \/ Fetch(c) PROVE OrderInv'
    <2>1. /\ pc[c] \in {"put", "fetch"}
          /\ newest' = c
          /\ Goto(c, "open")
          /\ UNCHANGED <<file, writer>>
          /\ content'[c] = Effective'
          /\ \A d \in Commands \ {c} : content'[d] = content[d]
      BY <1>6 DEF Put, GatewayPut, Fetch, Fetched, Effective, gatewayVars, TypeInv, TypeOK
    <2>2. /\ pc'[c] = "open"
          /\ \A d \in Commands \ {c} : pc'[d] = pc[d]
      BY <2>1, GotoMoves DEF TypeInv, TypeOK
    <2>3. writer # c
      BY <2>1, PolicyAssumption DEF OrderInv, Carried, TypeInv, TypeOK
    <2>4. c # NoCommand
      BY PolicyAssumption
    <2>5. Carried'
      BY <2>1, <2>2, <2>3 DEF OrderInv, Carried, TypeInv, TypeOK
    <2>6. Delivered'
      BY <2>1, <2>2, <2>3 DEF OrderInv, Delivered, NothingTruncated, TypeInv, TypeOK
    <2>7. Untouched' /\ Answered'
      BY <2>1, <2>4 DEF Untouched, Answered
    <2> QED
      BY <2>5, <2>6, <2>7 DEF OrderInv
  <1>7. ASSUME NEW c \in Commands, Direct(c) PROVE OrderInv'
    <2>1. /\ pc[c] = "direct"
          /\ Goto(c, "open")
          /\ UNCHANGED <<base, attached, file, newest, writer>>
          /\ \A d \in Commands \ {c} : content'[d] = content[d]
      BY <1>7 DEF Direct, gatewayVars, timeVars, history, TypeInv, TypeOK
    <2>2. /\ pc'[c] = "open"
          /\ \A d \in Commands \ {c} : pc'[d] = pc[d]
      BY <2>1, GotoMoves DEF TypeInv, TypeOK
    <2>3. writer # c /\ newest # c
      BY <2>1, PolicyAssumption DEF OrderInv, Carried, TypeInv, TypeOK
    <2>4. Carried'
      BY <2>1, <2>2, <2>3 DEF OrderInv, Carried, TypeInv, TypeOK
    <2>5. Delivered'
      BY <2>1, <2>2, <2>3 DEF OrderInv, Delivered, NothingTruncated, TypeInv, TypeOK
    <2>6. Untouched' /\ Answered'
      BY <2>1, <2>2, <2>3 DEF OrderInv, Untouched, Answered, NothingUnread, Effective,
         TypeInv, TypeOK
    <2> QED
      BY <2>4, <2>5, <2>6 DEF OrderInv
  <1>8. ASSUME NEW c \in Commands, Open(c) PROVE OrderInv'
    <2>1. /\ pc[c] = "open"
          /\ Goto(c, "write")
          /\ file'.rules = file.rules
          /\ UNCHANGED <<base, attached, content, newest, writer>>
      BY <1>8 DEF Open, gatewayVars, timeVars, history, TypeInv, TypeOK, Files
    <2>2. /\ pc'[c] = "write"
          /\ \A d \in Commands \ {c} : pc'[d] = pc[d]
      BY <2>1, GotoMoves DEF TypeInv, TypeOK
    <2>3. Carried'
      BY <2>1, <2>2 DEF OrderInv, Carried, TypeInv, TypeOK
    <2>4. Delivered'
      BY <2>2 DEF Delivered, NothingTruncated
    <2>5. Untouched' /\ Answered'
      BY <2>1, <2>2 DEF OrderInv, Untouched, Answered, NothingUnread, Effective
    <2> QED
      BY <2>3, <2>4, <2>5 DEF OrderInv
  <1>9. ASSUME NEW c \in Commands, Write(c) PROVE OrderInv'
    <2>1. /\ pc[c] = "write"
          /\ file' = Overwritten(file, content[c])
          /\ writer' = c
          /\ Goto(c, Written(c))
          /\ UNCHANGED <<base, attached, content, newest>>
      BY <1>9 DEF Write, gatewayVars
    <2>2. /\ pc'[c] \in {"wait", "ok"}
          /\ \A d \in Commands \ {c} : pc'[d] = pc[d]
      BY <2>1, Jumps, GotoMoves DEF TypeInv, TypeOK
    <2>3. Carried'
      BY <2>1, <2>2 DEF OrderInv, Carried, TypeInv, TypeOK
    <2>4. /\ file'.state # "garbled" => file' = Whole(content[c])
          /\ file'.state # "empty"
      BY <2>1, OverwrittenTyped DEF TypeInv, TypeOK
    <2>5. Delivered'
      BY <2>1, <2>4 DEF Delivered
    <2>6. c # NoCommand
      BY PolicyAssumption
    <2>7. Untouched' /\ Answered'
      BY <2>1, <2>2, <2>6 DEF OrderInv, Untouched, Answered, NothingUnread, Effective
    <2> QED
      BY <2>3, <2>5, <2>7 DEF OrderInv
  <1>10. CASE ProxyPoll \/ Tick \/ UNCHANGED vars
    BY <1>10 DEF ProxyPoll, Tick, vars, gatewayVars, timeVars, history, OrderInv, Untouched, Answered, Carried,
       Delivered, NothingUnread, NothingTruncated, Effective
  <1> QED
    BY <1>1, <1>2, <1>3, <1>4, <1>5, <1>6, <1>7, <1>8, <1>9, <1>10 DEF Next, Step

(* At first no command carries an answer. *)
LEMMA OrderStart == Init => OrderInv
  BY DEF Init, Whole, OrderInv, Untouched, Answered, Carried, Delivered

(* However commands interleave, fail or bypass the gateway: when all is    *)
(* well and the last writer is the last one the gateway answered, a whole  *)
(* file is the effective policy.                                           *)
THEOREM FileFollowsGateway == SafetySpec => []OrderedWritesAgree
  <1>1. TypeInv /\ OrderInv => OrderedWritesAgree
    <2> SUFFICES ASSUME TypeInv, OrderInv, AllWell, writer = newest, file.state # "garbled"
                 PROVE  file = Whole(Effective)
      BY DEF OrderedWritesAgree
    <2>1. NothingUnread /\ NothingTruncated
      BY DEF AllWell, NothingUnread, NothingTruncated
    <2>2. file.state = "whole"
      BY <2>1 DEF OrderInv, Delivered, TypeInv, TypeOK, Files
    <2>3. file = Whole(file.rules)
      BY <2>2 DEF Whole, TypeInv, TypeOK, Files
    <2>4. CASE newest = NoCommand
      BY <2>1, <2>3, <2>4 DEF OrderInv, Untouched
    <2>5. CASE newest # NoCommand
      BY <2>1, <2>2, <2>5 DEF OrderInv, Answered, Delivered
    <2> QED
      BY <2>4, <2>5
  <1> QED
    BY <1>1, TypeStart, TypeStep, OrderStart, OrderStep, PTL DEF SafetySpec

----------------------------------------------------------------------------
(* Commands that follow one another, as long as none of them fails: what   *)
(* one that failed left behind is its own affair, and it stays failed.     *)
Unharmed == \A c \in Commands : pc[c] \notin {"warned", "failed", "crashed"}

Busy(c) == pc[c] \notin {"idle", "ok", "local", "timeout"}
InSeries ==
  /\ \A c \in Commands : pc[c] \notin {"direct", "warned", "failed", "crashed"}
  /\ \A c, d \in Commands : Busy(c) /\ Busy(d) => c = d
  /\ \A c \in Commands : pc[c] \in {"open", "write"} => newest = c
  /\ newest # writer => newest # NoCommand /\ pc[newest] \in {"open", "write"}
  /\ file.state # "garbled"
  /\ \A c \in Commands : pc[c] = "write" => file.state = "empty"
SerialInv == orderly /\ Unharmed => InSeries

(* A step of the busy command that leaves the file and its writer alone.   *)
LEMMA SerialMove ==
  ASSUME TypeInv, InSeries, NEW c \in Commands, Busy(c), NEW step \in Steps \cup Ends,
         Goto(c, step), step \notin {"idle", "direct", "write", "warned", "failed", "crashed"},
         UNCHANGED <<file, writer>>,
         \/ step = "open" /\ newest' = c
         \/ step # "open" /\ newest' = newest /\ pc[c] \notin {"open", "write"}
  PROVE  InSeries'
  <1>1. /\ pc'[c] = step
        /\ \A d \in Commands \ {c} : pc'[d] = pc[d]
    BY GotoMoves DEF TypeInv, TypeOK
  <1>2. \A d \in Commands \ {c} : ~Busy(d)
    BY DEF InSeries
  <1>3. c # NoCommand
    BY PolicyAssumption
  <1> QED
    BY <1>1, <1>2, <1>3 DEF InSeries, Busy, TypeInv, TypeOK

(* A command that failed stays so, and the order of commands is fixed. *)
LEMMA HarmStays == TypeInv /\ [Next]_vars /\ orderly' /\ Unharmed' => orderly /\ Unharmed
  <1> SUFFICES ASSUME TypeInv, [Next]_vars, orderly', Unharmed' PROVE orderly /\ Unharmed OBVIOUS
  <1>1. CASE UNCHANGED <<pc, orderly>>
    BY <1>1 DEF Unharmed
  <1>2. ASSUME NEW c \in Commands, NEW step, Goto(c, step), UNCHANGED orderly,
               pc[c] \notin {"warned", "failed", "crashed"}
        PROVE orderly /\ Unharmed
    BY <1>2 DEF Unharmed, Goto, TypeInv, TypeOK
  <1>3. ASSUME NEW c \in Commands, NEW j \in Jobs, Start(c, j) PROVE orderly /\ Unharmed
    BY <1>3, <1>2 DEF Start
  <1>4. ASSUME NEW c \in Commands, Step(c) PROVE orderly /\ Unharmed
    BY <1>4, <1>2 DEF Step, ReadBase, Probe, Put, Direct, Change, ApproveLocally, Fetch, Open,
                      Write, WaitRead, WaitOver, LookedAtClock, SleepCutShort, Fail, PutUnanswered,
                      ChangeUnanswered
  <1>5. ASSUME NEW c \in Commands, Crash(c) PROVE orderly /\ Unharmed
    BY <1>5, <1>2 DEF Crash, Steps
  <1> QED
    BY <1>1, <1>3, <1>4, <1>5 DEF Next, ProxyPoll, Tick, vars

(* With one command at a time nothing is out of order. *)
LEMMA InSeriesStep ==
  ASSUME TypeInv, InSeries, orderly, Unharmed', [Next]_vars
  PROVE  InSeries'
  <1> USE StepNames
  <1>1. ASSUME NEW c \in Commands, NEW j \in Jobs, Start(c, j) PROVE InSeries'
    <2>1. \A d \in Commands : ~Busy(d)
      BY <1>1 DEF Start, InSeries, Ended, Ends, Busy
    <2>2. newest = writer
      BY <2>1 DEF InSeries, Busy, TypeInv, TypeOK
    <2>3. /\ pc'[c] \in {"probe", "read", "change"}
          /\ \A d \in Commands \ {c} : pc'[d] = pc[d]
      BY <1>1, Jumps, GotoMoves DEF Start, TypeInv, TypeOK
    <2>4. UNCHANGED <<file, newest, writer>>
      BY <1>1 DEF Start, history
    <2> QED
      BY <2>1, <2>2, <2>3, <2>4 DEF InSeries, Busy
  <1>2. ASSUME NEW c \in Commands, ReadBase(c) \/ Probe(c) PROVE InSeries'
    BY <1>2, SerialMove DEF ReadBase, Probe, Busy, gatewayVars, history
  <1>3. ASSUME NEW c \in Commands, Put(c) \/ Fetch(c) PROVE InSeries'
    BY <1>3, SerialMove DEF Put, Fetch, Busy
  <1>4. ASSUME NEW c \in Commands,
               Change(c) \/ WaitRead(c) \/ WaitOver(c) \/ ApproveLocally(c)
        PROVE InSeries'
    <2>1. PICK step \in {"fetch", "matched", "unmatched", "ok", "local", "timeout", "wait"} :
            Goto(c, step) /\ pc[c] \in {"wait", "matched", "unmatched", "change"}
      BY <1>4, QuietEnds DEF Change
    <2>2. UNCHANGED <<file, newest, writer>>
      BY <1>4 DEF Change, WaitRead, WaitOver, ApproveLocally, history
    <2> QED
      BY <2>1, <2>2, SerialMove DEF Busy
  <1>5. ASSUME NEW c \in Commands, Open(c) PROVE InSeries'
    <2>1. /\ pc[c] = "open"
          /\ Goto(c, "write")
          /\ file'.state = "empty"
          /\ UNCHANGED <<newest, writer>>
      BY <1>5 DEF Open, history, TypeInv, TypeOK, Files
    <2>2. /\ pc'[c] = "write"
          /\ \A d \in Commands \ {c} : pc'[d] = pc[d]
      BY <2>1, GotoMoves DEF TypeInv, TypeOK
    <2> QED
      BY <2>1, <2>2 DEF InSeries, Busy
  <1>6. ASSUME NEW c \in Commands, Write(c) PROVE InSeries'
    <2>1. /\ pc[c] = "write"
          /\ Goto(c, Written(c))
          /\ file' = Overwritten(file, content[c])
          /\ writer' = c /\ newest' = newest
      BY <1>6 DEF Write
    <2>2. /\ pc'[c] \in {"wait", "ok"}
          /\ \A d \in Commands \ {c} : pc'[d] = pc[d]
      BY <2>1, Jumps, GotoMoves DEF TypeInv, TypeOK
    <2>3. file'.state = "whole"
      BY <2>1 DEF InSeries, Overwritten, Whole
    <2> QED
      BY <2>1, <2>2, <2>3 DEF InSeries, Busy
  <1>7. ASSUME NEW c \in Commands,
               Direct(c) \/ Fail(c) \/ PutUnanswered(c) \/ ChangeUnanswered(c) \/ Crash(c)
        PROVE InSeries'
    <2>1. CASE Direct(c)
      BY <2>1 DEF Direct, InSeries
    <2>2. CASE Fail(c) \/ PutUnanswered(c) \/ ChangeUnanswered(c) \/ Crash(c)
      <3>1. PICK step \in {"warned", "failed", "crashed"} : Goto(c, step)
        BY <2>2 DEF Fail, FailedEnd, PutUnanswered, ChangeUnanswered, Crash
      <3> QED
        BY <3>1 DEF Goto, Unharmed, TypeInv, TypeOK
    <2> QED
      BY <1>7, <2>1, <2>2
  <1>8. CASE ProxyPoll \/ Tick \/ UNCHANGED vars
    BY <1>8 DEF ProxyPoll, Tick, vars, history, InSeries, Busy
  <1> QED
    BY <1>1, <1>2, <1>3, <1>4, <1>5, <1>6, <1>7, <1>8 DEF Next, Step

(* What is in series stays so until a command fails. *)
LEMMA SerialStep == TypeInv /\ SerialInv /\ [Next]_vars => SerialInv'
  BY HarmStays, InSeriesStep DEF SerialInv

(* Commands that follow one another, with a gateway that answers, leave    *)
(* the effective policy in the file.                                       *)
THEOREM SerialFileIsEffective == SafetySpec => []FileIsEffective
  <1>1. Init => SerialInv
    BY DEF Init, SerialInv, InSeries, Busy, Whole
  <1>2. TypeInv /\ SerialInv /\ OrderedWritesAgree => FileIsEffective
    BY DEF TypeInv, TypeOK, SerialInv, InSeries, Unharmed, OrderedWritesAgree, FileIsEffective,
           FileAlwaysEffective, AllWell
  <1> QED
    BY <1>1, SerialStep, <1>2, TypeStart, TypeStep, FileFollowsGateway, PTL DEF SafetySpec

----------------------------------------------------------------------------
(* Additions that stand: they are of commands that are past the gateway,   *)
(* in the base policy, and in what an update that has seen them will put.  *)
Past(c) == pc[c] \notin {"idle", "read", "probe", "put", "direct", "change"}
Increment(c) == job[c].kind \in {"update", "approve"}
Seen(d) == (standing \cap known[d]) \cup {d}
Stands == \A c \in standing : Past(c) /\ Increment(c) /\ job[c].rules \subseteq base
KnownPast == \A d \in Commands : \A c \in known[d] : Past(c)
Carries(d) ==
  job[d].kind = "update" /\ pc[d] \in {"probe", "put", "direct"}
    => \A c \in Seen(d) : job[c].rules \subseteq given[d]
Puts(d) == pc[d] \in {"probe", "put"} => job[d].kind \in {"set", "update"}
KeptInv == Stands /\ KnownPast /\ \A d \in Commands : Carries(d) /\ Puts(d)

(* A step that leaves the gateway and the orders of the commands alone.    *)
LEMMA KeptMove ==
  ASSUME TypeInv, KeptInv, NEW c \in Commands, NEW step \in (Steps \cup Ends) \ {"idle", "read", "change"},
         Goto(c, step), UNCHANGED <<base, standing, known, job, given>>,
         step = "put" => pc[c] = "probe",
         step = "direct" => pc[c] = "probe",
         step # "probe", pc[c] \notin {"idle", "read"}, Past(c) => step \notin {"put", "direct"}
  PROVE  KeptInv'
  <1>1. /\ pc'[c] = step
        /\ \A d \in Commands \ {c} : pc'[d] = pc[d]
    BY GotoMoves DEF TypeInv, TypeOK
  <1>2. \A d \in Commands : Past(d) => Past(d)'
    BY <1>1 DEF Past
  <1>3. Stands'
    BY <1>2 DEF Stands, KeptInv, Increment, TypeInv, TypeOK
  <1>4. KnownPast'
    BY <1>2 DEF KnownPast, KeptInv, TypeInv, TypeOK
  <1>5. \A d \in Commands : Carries(d)'
    BY <1>1 DEF KeptInv, Carries, Seen
  <1>6. \A d \in Commands : Puts(d)'
    BY <1>1 DEF KeptInv, Puts
  <1> QED
    BY <1>3, <1>4, <1>5, <1>6 DEF KeptInv

(* A change of the gateway's base policy that keeps what stands.           *)
LEMMA KeptChange ==
  ASSUME TypeInv, KeptInv, NEW c \in Commands, pc[c] \in {"put", "change"},
         NEW step \in {"fetch", "open", "failed"}, Goto(c, step), UNCHANGED <<job, given, known>>,
         standing' \subseteq standing \cup {c}, c \in standing' => Increment(c),
         \A d \in standing' : job[d].rules \subseteq base'
  PROVE  KeptInv'
  <1>1. /\ pc'[c] = step
        /\ \A d \in Commands \ {c} : pc'[d] = pc[d]
    BY StepNames, GotoMoves DEF TypeInv, TypeOK
  <1>2. Past(c)' /\ ~Past(c) /\ \A d \in Commands : Past(d) => Past(d)'
    BY <1>1 DEF Past
  <1>3. Stands'
    BY <1>2 DEF Stands, KeptInv, Increment, TypeInv, TypeOK
  <1>4. KnownPast'
    BY <1>2 DEF KnownPast, KeptInv, TypeInv, TypeOK
  <1>5. \A d \in Commands : c \notin known[d]
    BY <1>2 DEF KnownPast, KeptInv
  <1>6. ASSUME NEW d \in Commands, job[d].kind = "update", pc'[d] \in {"probe", "put", "direct"}
        PROVE  \A e \in Seen(d)' : job[e].rules \subseteq given[d]
    <2>1. d # c /\ pc[d] = pc'[d]
      BY <1>1, <1>6
    <2>2. Seen(d)' \subseteq Seen(d)
      BY <1>5 DEF Seen
    <2> QED
      BY <1>6, <2>1, <2>2 DEF KeptInv, Carries
  <1>7. \A d \in Commands : Puts(d)'
    BY <1>1 DEF KeptInv, Puts
  <1> QED
    BY <1>3, <1>4, <1>6, <1>7 DEF KeptInv, Carries

(* What a put leaves standing is in the base policy it stores.             *)
LEMMA PutKeeps ==
  ASSUME TypeInv, KeptInv, NEW c \in Commands, pc[c] = "put", GatewayPut(c)
  PROVE  /\ standing' \subseteq standing \cup {c}
         /\ c \in standing' => Increment(c)
         /\ \A d \in standing' : job[d].rules \subseteq base'
  <1>1. job[c].kind \in {"set", "update"}
    BY DEF KeptInv, Puts
  <1>2. CASE job[c].kind # "update"
    BY <1>2 DEF GatewayPut
  <1>3. CASE job[c].kind = "update"
    <2>1. standing' = Seen(c)
      BY <1>3 DEF GatewayPut, Seen
    <2>2. \A d \in Seen(c) : d \in Commands /\ Increment(d) /\ pc[d] # "idle"
      BY <1>3 DEF Seen, Stands, KeptInv, Increment, Past, TypeInv, TypeOK
    <2>3. \A d \in Seen(c) : job[d].rules \subseteq Rules
      BY <2>2, PolicyAssumption DEF Increment, TypeInv, Started
    <2>4. \A d \in Seen(c) : job[d].rules \subseteq given[c]
      BY <1>3 DEF KeptInv, Carries
    <2>5. base' = given[c] \ Providers
      BY DEF GatewayPut, Stripped
    <2>6. \A d \in Seen(c) : job[d].rules \subseteq base'
      BY <2>3, <2>4, <2>5, PolicyAssumption
    <2> QED
      BY <1>3, <2>1, <2>6 DEF Seen, Increment
  <1> QED
    BY <1>2, <1>3

(* A change leaves what stands in the base policy and adds an approval.    *)
LEMMA ChangeKeeps ==
  ASSUME TypeInv, KeptInv, NEW c \in Commands, pc[c] = "change", GatewayChange(c)
  PROVE  /\ standing' \subseteq standing \cup {c}
         /\ c \in standing' => Increment(c)
         /\ \A d \in standing' : job[d].rules \subseteq base'
  <1>1. c \notin standing
    BY DEF Stands, KeptInv, Past
  <1>2. CASE job[c].kind = "approve"
    BY <1>2 DEF GatewayChange, Increment, Stands, KeptInv
  <1>3. CASE job[c].kind # "approve"
    BY <1>1, <1>3 DEF GatewayChange, Stands, KeptInv
  <1> QED
    BY <1>2, <1>3

(* Every step keeps what stands. *)
LEMMA KeptStep == TypeInv /\ KeptInv /\ [Next]_vars => KeptInv'
  <1> SUFFICES ASSUME TypeInv, KeptInv, [Next]_vars PROVE KeptInv' OBVIOUS
  <1> USE StepNames
  <1>1. ASSUME NEW c \in Commands, NEW j \in Jobs, Start(c, j) PROVE KeptInv'
    <2>1. /\ pc[c] = "idle" /\ Goto(c, FirstStep(j))
          /\ UNCHANGED <<base, standing, known>>
          /\ job'[c] = j /\ given'[c] = j.rules
          /\ \A d \in Commands \ {c} : job'[d] = job[d] /\ given'[d] = given[d]
      BY <1>1 DEF Start, gatewayVars, TypeInv, TypeOK
    <2>2. FirstStep(j) \in {"probe", "read", "change"} /\ (FirstStep(j) = "probe" => j.kind = "set")
      <3>1. j.kind \in Kinds
        BY PolicyAssumption DEF Job
      <3> QED
        BY <3>1 DEF FirstStep, Kinds
    <2>3. /\ pc'[c] = FirstStep(j)
          /\ \A d \in Commands \ {c} : pc'[d] = pc[d]
      BY <2>1, <2>2, GotoMoves DEF TypeInv, TypeOK
    <2>4. ~Past(c) /\ \A d \in Commands : Past(d) => Past(d)'
      BY <2>1, <2>3 DEF Past
    <2>5. c \notin standing /\ \A d \in Commands : c \notin known[d]
      BY <2>4 DEF Stands, KnownPast, KeptInv
    <2>6. Stands'
      BY <2>1, <2>4, <2>5 DEF Stands, KeptInv, Increment, TypeInv, TypeOK
    <2>7. KnownPast'
      BY <2>1, <2>4 DEF KnownPast, KeptInv, TypeInv, TypeOK
    <2>8. ASSUME NEW d \in Commands, job'[d].kind = "update", pc'[d] \in {"probe", "put", "direct"},
                 NEW e \in Seen(d)'
          PROVE  job'[e].rules \subseteq given'[d]
      <3>1. d # c /\ pc'[d] = pc[d] /\ job'[d] = job[d] /\ given'[d] = given[d]
        BY <2>1, <2>2, <2>3, <2>8
      <3>2. e \in Seen(d) /\ e # c /\ e \in Commands
        BY <2>1, <2>5, <2>8, <3>1 DEF Seen, TypeInv, TypeOK
      <3>3. job[e].rules \subseteq given[d]
        BY <2>8, <3>1, <3>2 DEF KeptInv, Carries
      <3> QED
        BY <2>1, <3>1, <3>2, <3>3
    <2>9. \A d \in Commands : Puts(d)'
      BY <2>1, <2>2, <2>3 DEF KeptInv, Puts
    <2> QED
      BY <2>6, <2>7, <2>8, <2>9 DEF KeptInv, Carries
  <1>2. ASSUME NEW c \in Commands, ReadBase(c) PROVE KeptInv'
    <2>1. /\ pc[c] = "read" /\ Goto(c, "probe") /\ UNCHANGED <<base, standing, job>>
          /\ given'[c] = base \cup job[c].rules /\ known'[c] = standing
          /\ \A d \in Commands \ {c} : known'[d] = known[d] /\ given'[d] = given[d]
      BY <1>2 DEF ReadBase, Merged, gatewayVars, TypeInv, TypeOK
    <2>2. /\ pc'[c] = "probe" /\ job[c].kind = "update"
          /\ \A d \in Commands \ {c} : pc'[d] = pc[d]
      BY <2>1, GotoMoves DEF TypeInv, TypeOK, Started
    <2>3. \A d \in Commands : Past(d) => Past(d)'
      BY <2>1, <2>2 DEF Past
    <2>4. Stands'
      BY <2>1, <2>3 DEF Stands, KeptInv, Increment, TypeInv, TypeOK
    <2>5. KnownPast'
      BY <2>1, <2>3 DEF Stands, KnownPast, KeptInv, TypeInv, TypeOK
    <2>6. ASSUME NEW d \in Commands, job[d].kind = "update", pc'[d] \in {"probe", "put", "direct"},
                 NEW e \in Seen(d)'
          PROVE  job[e].rules \subseteq given'[d]
      <3>1. CASE d = c
        BY <2>1, <2>6, <3>1 DEF Seen, Stands, KeptInv
      <3>2. CASE d # c
        <4>1. e \in Seen(d) /\ pc[d] \in {"probe", "put", "direct"} /\ given'[d] = given[d]
          BY <2>1, <2>2, <2>6, <3>2 DEF Seen
        <4> QED
          BY <2>1, <2>6, <4>1 DEF KeptInv, Carries
      <3> QED
        BY <3>1, <3>2
    <2>7. \A d \in Commands : Puts(d)'
      BY <2>1, <2>2 DEF KeptInv, Puts
    <2>8. job' = job
      BY <2>1
    <2> QED
      BY <2>4, <2>5, <2>6, <2>7, <2>8 DEF KeptInv, Carries
  <1>3. ASSUME NEW c \in Commands, Probe(c) PROVE KeptInv'
    BY <1>3, KeptMove DEF Probe, gatewayVars, Past
  <1>4. ASSUME NEW c \in Commands, Put(c) \/ PutUnanswered(c) PROVE KeptInv'
    <2>1. PICK step \in {"open", "failed"} : Goto(c, step)
      BY <1>4 DEF Put, PutUnanswered
    <2>2. pc[c] = "put" /\ GatewayPut(c) /\ UNCHANGED <<job, given, known>>
      BY <1>4 DEF Put, PutUnanswered
    <2> QED
      BY <2>1, <2>2, PutKeeps, KeptChange
  <1>5. ASSUME NEW c \in Commands, Change(c) \/ ChangeUnanswered(c) PROVE KeptInv'
    <2>1. PICK step \in {"fetch", "failed"} : Goto(c, step)
      BY <1>5 DEF Change, ChangeUnanswered
    <2>2. pc[c] = "change" /\ GatewayChange(c) /\ UNCHANGED <<job, given, known>>
      BY <1>5 DEF Change, ChangeUnanswered
    <2> QED
      BY <2>1, <2>2, ChangeKeeps, KeptChange
  <1>6. ASSUME NEW c \in Commands,
               Direct(c) \/ Fetch(c) \/ Open(c) \/ Write(c) \/ WaitRead(c) \/ WaitOver(c)
                 \/ ApproveLocally(c)
        PROVE KeptInv'
    <2>1. PICK step \in {"open", "write", "wait", "matched", "unmatched"} \cup Ends : Goto(c, step)
      BY <1>6, Jumps, QuietEnds DEF Direct, Fetch, Open, Write
    <2>2. /\ UNCHANGED <<base, standing, known, job, given>>
          /\ pc[c] \notin {"idle", "read"}
      BY <1>6 DEF Direct, Fetch, Open, Write, WaitRead, WaitOver, LookedAtClock, SleepCutShort,
         ApproveLocally, gatewayVars
    <2> QED
      BY <2>1, <2>2, KeptMove
  <1>7. ASSUME NEW c \in Commands, Fail(c) \/ Crash(c) PROVE KeptInv'
    <2>1. PICK step \in {"warned", "failed", "crashed"} : Goto(c, step)
      BY <1>7, Jumps DEF Fail, Crash
    <2>2. UNCHANGED <<base, standing, known, job, given>>
      BY <1>7 DEF Fail, Crash, gatewayVars
    <2>3. /\ pc'[c] = step
          /\ \A d \in Commands \ {c} : pc'[d] = pc[d]
      BY <2>1, GotoMoves DEF TypeInv, TypeOK
    <2> QED
      BY <2>2, <2>3 DEF KeptInv, Stands, KnownPast, Carries, Puts, Past, Increment, Seen, TypeInv, TypeOK
  <1>8. CASE ProxyPoll \/ Tick \/ UNCHANGED vars
    BY <1>8 DEF ProxyPoll, Tick, vars, gatewayVars, KeptInv, Stands, KnownPast, Carries,
       Puts, Past, Increment, Seen
  <1> QED
    BY <1>1, <1>2, <1>3, <1>4, <1>5, <1>6, <1>7, <1>8 DEF Next, Step

(* What an update or an approval added at the gateway stays there, however *)
(* commands interleave, fail or miss an answer, until a policy set or an   *)
(* update that had not seen it replaces the base policy.                   *)
THEOREM IncrementsStay == SafetySpec => []IncrementsKept
  <1>1. Init => KeptInv
    BY DEF Init, KeptInv, Stands, KnownPast, Carries, Puts
  <1>2. KeptInv => IncrementsKept
    BY DEF Stands, KeptInv, IncrementsKept
  <1> QED
    BY <1>1, <1>2, TypeStart, TypeStep, KeptStep, PTL DEF SafetySpec

----------------------------------------------------------------------------
(* A command that waits on a file as it wrote it: as long as the proxy has *)
(* not read it since, both have counted the same ticks.                    *)
Observed(c) ==
  Waiting(c) /\ writer = c /\ file = Whole(content[c]) => loaded = content[c] \/ unread >= waited[c]
WaitInv ==
  \A c \in Commands : /\ Observed(c)
                     /\ (Waiting(c) \/ Ended(c) \/ waited[c] = 0)

(* A step of a command that leaves file, writer and clock alone.           *)
LEMMA ObservedMove ==
  ASSUME TypeInv, WaitInv, NEW c \in Commands, NEW step \in Steps \cup Ends, Goto(c, step),
         UNCHANGED <<file, loaded, writer, waited, unread>>,
         pc[c] \notin Ends,
         Waiting(c) => step \in {"wait", "matched", "unmatched"} \cup Ends,
         step \in {"wait", "matched", "unmatched"} => Waiting(c),
         \A d \in Commands : Waiting(d) => content'[d] = content[d]
  PROVE  WaitInv'
  <1>1. /\ pc'[c] = step
        /\ \A d \in Commands \ {c} : pc'[d] = pc[d]
    BY GotoMoves DEF TypeInv, TypeOK
  <1>2. \A d \in Commands : Waiting(d)' => Waiting(d)
    BY <1>1 DEF Waiting
  <1>3. ASSUME NEW d \in Commands PROVE Observed(d)'
    <2>1. Observed(d) /\ (Waiting(d) => content'[d] = content[d])
      BY DEF WaitInv
    <2> QED
      BY <1>2, <2>1 DEF Observed, Whole
  <1>4. \A d \in Commands \ {c} : (Waiting(d) \/ Ended(d) \/ waited[d] = 0)'
    BY <1>1 DEF WaitInv, Waiting, Ended
  <1>5. (Waiting(c) \/ Ended(c) \/ waited[c] = 0)'
    BY <1>1 DEF WaitInv, Waiting, Ended
  <1> QED
    BY <1>3, <1>4, <1>5 DEF WaitInv

(* Every step keeps the two counts in step. *)
LEMMA WaitStep == TypeInv /\ WaitInv /\ [Next]_vars => WaitInv'
  <1> SUFFICES ASSUME TypeInv, WaitInv, [Next]_vars PROVE WaitInv' OBVIOUS
  <1> USE StepNames
  <1>1. ASSUME NEW c \in Commands, NEW j \in Jobs, Start(c, j) PROVE WaitInv'
    BY <1>1, Jumps, ObservedMove DEF Start, Waiting, timeVars, history
  <1>2. ASSUME NEW c \in Commands, ReadBase(c) \/ Probe(c) PROVE WaitInv'
    BY <1>2, ObservedMove DEF ReadBase, Probe, Waiting, timeVars, history
  <1>3. ASSUME NEW c \in Commands, Put(c) \/ Direct(c) \/ Fetch(c) PROVE WaitInv'
    <2>1. /\ pc[c] \in {"put", "direct", "fetch"} /\ Goto(c, "open")
          /\ UNCHANGED <<file, loaded, writer, waited, unread>>
          /\ \A d \in Commands \ {c} : content'[d] = content[d]
      BY <1>3 DEF Put, Direct, Fetch, timeVars, history, TypeInv, TypeOK
    <2> QED
      BY <2>1, ObservedMove DEF Waiting
  <1>4. ASSUME NEW c \in Commands, Change(c) \/ PutUnanswered(c) \/ ChangeUnanswered(c)
        PROVE WaitInv'
    BY <1>4, ObservedMove DEF Change, PutUnanswered, ChangeUnanswered, Waiting, timeVars, history
  <1>5. ASSUME NEW c \in Commands, WaitRead(c) \/ WaitOver(c) \/ ApproveLocally(c)
        PROVE WaitInv'
    <2>1. PICK step \in {"matched", "unmatched", "ok", "local", "timeout", "wait"} :
            /\ Goto(c, step)
            /\ pc[c] \in {"wait", "matched", "unmatched", "change"}
            /\ pc[c] = "change" => step = "local"
      BY <1>5, QuietEnds
    <2>2. UNCHANGED <<file, loaded, content, writer, waited, unread>>
      BY <1>5 DEF WaitRead, WaitOver, ApproveLocally, timeVars, history
    <2> QED
      BY <2>1, <2>2, ObservedMove DEF Waiting
  <1>6. ASSUME NEW c \in Commands, Fail(c) \/ Crash(c) PROVE WaitInv'
    <2>1. PICK step \in {"warned", "failed", "crashed"} : Goto(c, step)
      BY <1>6, Jumps DEF Fail, Crash
    <2>2. UNCHANGED <<file, loaded, content, writer, waited, unread>> /\ pc[c] \notin Ends
      BY <1>6 DEF Fail, Crash, timeVars, history
    <2> QED
      BY <2>1, <2>2, ObservedMove
  <1>7. ASSUME NEW c \in Commands, Open(c) PROVE WaitInv'
    <2>1. /\ pc[c] = "open" /\ Goto(c, "write") /\ file'.state = "empty"
          /\ UNCHANGED waited
      BY <1>7 DEF Open, timeVars, TypeInv, TypeOK, Files
    <2>2. /\ pc'[c] = "write"
          /\ \A d \in Commands \ {c} : pc'[d] = pc[d]
      BY <2>1, GotoMoves DEF TypeInv, TypeOK
    <2>3. \A d \in Commands : Observed(d)'
      BY <2>1 DEF Observed, Whole
    <2>4. \A d \in Commands : (Waiting(d) \/ Ended(d) \/ waited[d] = 0)'
      BY <2>1, <2>2 DEF WaitInv, Waiting, Ended
    <2> QED
      BY <2>3, <2>4 DEF WaitInv
  <1>8. ASSUME NEW c \in Commands, Write(c) PROVE WaitInv'
    <2>1. /\ pc[c] = "write" /\ Goto(c, Written(c)) /\ writer' = c
          /\ UNCHANGED <<waited, unread>>
      BY <1>8 DEF Write, timeVars
    <2>2. /\ pc'[c] \in {"wait", "ok"}
          /\ \A d \in Commands \ {c} : pc'[d] = pc[d]
      BY <2>1, Jumps, GotoMoves DEF TypeInv, TypeOK
    <2>3. waited[c] = 0
      BY <2>1 DEF WaitInv, Waiting, Ended
    <2>4. unread' >= waited'[c]
      BY <2>1, <2>3 DEF TypeInv, TypeOK
    <2>5. \A d \in Commands : Observed(d)'
      BY <2>1, <2>4 DEF Observed
    <2>6. \A d \in Commands : (Waiting(d) \/ Ended(d) \/ waited[d] = 0)'
      BY <2>1, <2>2, <2>3 DEF WaitInv, Waiting, Ended
    <2> QED
      BY <2>5, <2>6 DEF WaitInv
  <1>9. CASE ProxyPoll
    <2>1. /\ UNCHANGED <<file, pc, content, waited, writer>>
          /\ loaded' = IF file.state = "whole" THEN file.rules ELSE loaded
      BY <1>9 DEF ProxyPoll, history
    <2>2. \A c \in Commands : Observed(c)'
      BY <2>1 DEF Observed, Whole
    <2> QED
      BY <2>1, <2>2 DEF WaitInv, Waiting, Ended
  <1>10. CASE Tick
    <2>1. /\ UNCHANGED <<file, loaded, pc, content, writer>>
          /\ unread' = unread + 1
          /\ \A c \in Commands :
               waited'[c] = IF Waiting(c) /\ waited[c] < Deadline THEN waited[c] + 1 ELSE waited[c]
      BY <1>10 DEF Tick, history, TypeInv, TypeOK
    <2>2. ASSUME NEW c \in Commands PROVE Observed(c)'
      <3>1. unread >= waited[c] => unread' >= waited'[c]
        <4>1. unread \in Nat /\ waited[c] \in Nat
          BY PolicyAssumption DEF TypeInv, TypeOK
        <4> QED
          BY <2>1, <4>1
      <3>2. Observed(c) /\ (Waiting(c)' => Waiting(c))
        BY <2>1 DEF WaitInv, Waiting
      <3> QED
        BY <2>1, <3>1, <3>2 DEF Observed, Whole
    <2>3. \A c \in Commands : (Waiting(c) \/ Ended(c) \/ waited[c] = 0)'
      BY <2>1 DEF WaitInv, Waiting, Ended
    <2> QED
      BY <2>2, <2>3 DEF WaitInv
  <1>11. CASE UNCHANGED vars
    BY <1>11 DEF vars, WaitInv, Observed, Waiting, Ended
  <1> QED
    BY <1>1, <1>2, <1>3, <1>4, <1>5, <1>6, <1>7, <1>8, <1>9, <1>10, <1>11 DEF Next, Step

(* A wait that succeeds on the file as it was written means that the proxy *)
(* enforces the policy, or has not polled for as long as the settling time *)
(* is, however other commands interleave, fail and truncate the file.      *)
THEOREM WaitIsForEnforcement == SafetySpec => WaitMeansEnforced
  <1>1. Init => WaitInv
    BY DEF Init, WaitInv, Observed, Waiting
  <1>2. TypeInv /\ WaitInv /\ [Next]_vars =>
          [\A c \in Commands :
             Waiting(c) /\ pc'[c] = "ok" /\ writer = c /\ file = Whole(content[c])
               => loaded = content[c] \/ unread >= Settle]_vars
    <2> SUFFICES ASSUME TypeInv, WaitInv, Next, NEW c \in Commands,
                        Waiting(c), pc'[c] = "ok", writer = c, file = Whole(content[c])
                 PROVE  loaded = content[c] \/ unread >= Settle
      OBVIOUS
    <2>1. PICK d \in Commands : (\E j \in Jobs : Start(d, j)) \/ Step(d) \/ Crash(d)
      BY DEF Next, ProxyPoll, Tick, Waiting
    <2>2. \E step : Goto(d, step)
      BY <2>1, QuietEnds DEF Start, Step, ReadBase, Probe, Put, Direct, Change, Fetch, Open, Write,
         Fail, PutUnanswered, ChangeUnanswered, Crash
    <2>3. d = c
      BY <2>2 DEF Goto, Waiting, TypeInv, TypeOK
    <2>4. WaitRead(c) \/ WaitOver(c) \/ Crash(c)
      BY <2>1, <2>3 DEF Start, Step, ReadBase, Probe, Put, Direct, Change, ApproveLocally, Fetch, Open,
         Write, Fail, PutUnanswered, ChangeUnanswered, Waiting
    <2>5. ~Crash(c) /\ ~WaitRead(c)
      BY DEF Crash, WaitRead, Goto, TypeInv, TypeOK
    <2>6. Applied(c)
      BY <2>4, <2>5 DEF WaitOver, LookedAtClock, SleepCutShort, Goto, TypeInv, TypeOK
    <2>7. waited[c] >= Settle
      BY <2>6 DEF Applied, Settled
    <2>8. loaded = content[c] \/ unread >= waited[c]
      BY DEF WaitInv, Observed
    <2>9. unread \in Nat /\ waited[c] \in Nat /\ Settle \in Nat
      BY PolicyAssumption DEF TypeInv, TypeOK
    <2> QED
      BY <2>7, <2>8, <2>9
  <1> QED
    BY <1>1, <1>2, TypeStart, TypeStep, WaitStep, PTL DEF SafetySpec, WaitMeansEnforced
=============================================================================
