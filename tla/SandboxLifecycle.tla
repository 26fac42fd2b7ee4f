--------------------------- MODULE SandboxLifecycle ---------------------------
(***************************************************************************)
(* The life of sandboxes: create, run, stop, start, rm and doctor cleanup  *)
(* (src/internal/service app.go, supervisor.go, p8.go).  A sandbox is a    *)
(* container of the driver and a record at the gateway under the same      *)
(* name.  Each command is a process that calls the one and then the other; *)
(* nothing holds two commands apart, and a signal cancels every later      *)
(* call.  The gateway is the selected one: -g is left to GatewayConfig.    *)
(*                                                                         *)
(* A definition introduced by "Variant:" is a deliberately wrong version   *)
(* of the one after it, used by nothing.                                   *)
(***************************************************************************)
EXTENDS Naturals

CONSTANTS
  Shells,     \* in each of them commands of the CLI follow one another
  Names,      \* names of sandboxes
  Jobs,       \* what the commands of each shell are asked to do
  Beside,     \* bound: the kinds of commands that run at one time, a set of sets
  Faults,     \* what goes wrong: see FaultKinds
  MaxId       \* bound: containers made

FaultKinds == {"gateway",    \* its call fails or its answer is lost
               "driver",     \* the same, and what the CLI does itself to a sandbox
               "killed",     \* the process dies
               "interrupt",  \* SIGINT or SIGTERM
               "exit"}       \* a container stops by itself

(* proxy: not --no-proxy.  main: a command to execute, not --detach. *)
Kinds == {"create", "run", "stop", "start", "rm", "cleanup"}
Job == [kind : Kinds, name : Names,
        proxy : BOOLEAN, main : BOOLEAN, keep : BOOLEAN]

ASSUME SandboxAssumption ==
  /\ Jobs \in [Shells -> (SUBSET Job) \ {{}}]
  /\ Faults \subseteq FaultKinds
  /\ Beside \subseteq SUBSET Kinds
  /\ MaxId \in Nat \ {0}

Ids == 0 .. MaxId
Boxes == [id : Ids, running : BOOLEAN, supervised : BOOLEAN]
Records == [status : {"none", "creating", "running", "exited"}, id : Ids]

VARIABLES
  box,       \* external: the container of a name
  record,    \* external: the record of a name at the gateway
  made,      \* external: containers made so far
  selected,  \* whether the configuration names a gateway
  job,       \* what a command was asked to do
  pc,        \* where it is
  held,      \* the containers it has looked up or listed
  linked,    \* whether it has a gateway to register at
  cancelled, \* the commands whose context a signal has cancelled
  troubled,  \* history: names of which a call failed, or whose container stopped by itself,
             \* and that no command has reported since
  disturbed, \* history: the commands during which that container stopped
  woken      \* history: the containers started again after a cleanup had listed them

command == <<job, held, linked>>
vars == <<box, record, made, selected, job, pc, held, linked, cancelled, troubled, disturbed, woken>>

NoBox == [id |-> 0, running |-> FALSE, supervised |-> FALSE]
NoRecord == [status |-> "none", id |-> 0]
Exists(n) == box[n].id # 0

(* Nothing yet, or a sandbox made, and perhaps stopped, by earlier commands. *)
Init ==
  /\ \E old \in SUBSET Names, running \in BOOLEAN :
       /\ box = [n \in Names |-> IF n \in old
                                 THEN [id |-> 1, running |-> running, supervised |-> TRUE]
                                 ELSE NoBox]
       /\ record = [n \in Names |-> IF n \in old
                                    THEN [id |-> 1, status |-> IF running THEN "running" ELSE "exited"]
                                    ELSE NoRecord]
       /\ \A m, n \in old : m = n
       /\ made = IF old = {} THEN 0 ELSE 1
       /\ selected \in IF old = {} THEN BOOLEAN ELSE {TRUE}
  /\ job = [c \in Shells |-> CHOOSE j \in Jobs[c] : TRUE]
  /\ pc = [c \in Shells |-> "idle"]
  /\ held = [c \in Shells |-> {}]
  /\ linked = [c \in Shells |-> FALSE]
  /\ cancelled = {}
  /\ troubled = {}
  /\ disturbed = {}
  /\ woken = {}

Goto(c, step) == pc' = [pc EXCEPT ![c] = step]
Busy(c) == pc[c] \notin {"idle", "ok", "failed", "killed"}
Name(c) == job[c].name

----------------------------------------------------------------------------
(* Calls.  A call that fails may have been carried out, unless the context *)
(* was cancelled before.                                                   *)

Works(c) == c \notin cancelled
Fails(c, kind) == kind \in Faults \/ c \in cancelled
Trouble(c) == troubled' = troubled \cup {Name(c)}
Unanswered(c, old, new) == IF c \in cancelled THEN {old} ELSE {old, new}

(* The record of the command's sandbox is written, or deleted, at the gateway. *)
Report(c, entry, next, otherwise) ==
  LET written == [record EXCEPT ![Name(c)] = entry]
  IN \/ /\ Works(c)
        /\ record' = written
        /\ troubled' = IF c \in disturbed THEN troubled ELSE troubled \ {Name(c)}
        /\ Goto(c, next)
     \/ /\ Fails(c, "gateway")
        /\ record' \in Unanswered(c, record, written)
        /\ Trouble(c)
        /\ Goto(c, otherwise)

(* The driver changes the container of a name. *)
Drive(c, n, value, next, otherwise) ==
  LET changed == [box EXCEPT ![n] = value]
  IN \/ /\ Works(c)
        /\ box' = changed
        /\ Goto(c, next)
        /\ UNCHANGED troubled
     \/ /\ Fails(c, "driver")
        /\ box' \in Unanswered(c, box, changed)
        /\ Goto(c, otherwise)
        /\ Trouble(c)

FailTo(c, kind, step) == Fails(c, kind) /\ Goto(c, step) /\ Trouble(c)

----------------------------------------------------------------------------
(* SandboxCreate, and Run, which creates what it does not find *)

FirstStep(j) ==
  CASE j.kind = "create" -> "ensure"
    [] j.kind \in {"run", "stop", "start"} -> "look"
    [] j.kind = "rm" -> "remove"
    [] j.kind = "cleanup" -> "list"

(* Any command may be given while others run; the bound leaves some out. *)
MayRunBeside(c, j) ==
  \A d \in Shells \ {c} : Busy(d) => \E kinds \in Beside : {job[d].kind, j.kind} \subseteq kinds

Start(c, j) ==
  /\ ~Busy(c) /\ MayRunBeside(c, j)
  /\ job' = [job EXCEPT ![c] = j]
  /\ held' = [held EXCEPT ![c] = {}]
  /\ linked' = [linked EXCEPT ![c] = FALSE]
  /\ cancelled' = cancelled \ {c}
  /\ disturbed' = disturbed \ {c}
  /\ Goto(c, FirstStep(j))
  /\ UNCHANGED <<box, record, made, selected, troubled, woken>>

BeforeMake(c) == IF job[c].proxy THEN "register" ELSE "make"

(* GatewayEnsure selects a gateway, or fails, which --no-proxy survives.   *)
Ensure(c) ==
  /\ pc[c] = "ensure"
  /\ \/ /\ Works(c)
        /\ selected' = TRUE
        /\ linked' = [linked EXCEPT ![c] = TRUE]
        /\ Goto(c, BeforeMake(c))
        /\ UNCHANGED troubled
     \/ /\ FailTo(c, "gateway", IF job[c].proxy THEN "failed" ELSE "make")
        /\ linked' = [linked EXCEPT ![c] = selected]
        /\ UNCHANGED selected
  /\ UNCHANGED <<box, record, made, job, held, cancelled, disturbed, woken>>

\* Variant: a failed registration is only a warning.
RegisterFailedWarns == "make"
(* attachSupervisor gives up when the gateway does not take the sandbox.   *)
RegisterFailed == "failed"

(* attachSupervisor registers the sandbox, whatever has its name, ...      *)
Register(c) ==
  /\ pc[c] = "register"
  /\ job[c].kind = "create" \/ selected
  /\ Report(c, [status |-> "creating", id |-> 0], "token", RegisterFailed)
  /\ linked' = [linked EXCEPT ![c] = TRUE]
  /\ UNCHANGED <<box, made, selected, job, held, cancelled, disturbed, woken>>
(* ... unless no gateway is selected, which run does not insist on, ...    *)
RegisterNowhere(c) ==
  /\ pc[c] = "register"
  /\ job[c].kind = "run" /\ ~selected
  /\ Goto(c, "make")
  /\ UNCHANGED <<box, record, made, selected, command, cancelled, troubled, disturbed, woken>>
(* ... and fetches a token for its supervisor.                             *)
IssueToken(c) ==
  /\ pc[c] = "token"
  /\ \/ Works(c) /\ Goto(c, "make") /\ UNCHANGED troubled
     \/ FailTo(c, "gateway", "failed")
  /\ UNCHANGED <<box, record, made, selected, command, cancelled, disturbed, woken>>

(* The driver refuses a name that is in use. *)
Make(c) ==
  /\ pc[c] = "make"
  /\ ~Exists(Name(c)) /\ made < MaxId
  /\ Drive(c, Name(c), [id |-> made + 1, running |-> TRUE,
                        supervised |-> job[c].proxy /\ linked[c]],
           IF job[c].kind = "create" THEN "announce" ELSE "exec", "failed")
  /\ made' = made + 1
  /\ UNCHANGED <<record, selected, command, cancelled, disturbed, woken>>
NameTaken(c) ==
  /\ pc[c] = "make"
  /\ Exists(Name(c))
  /\ Goto(c, "failed")
  /\ UNCHANGED <<box, record, made, selected, command, cancelled, troubled, disturbed, woken>>

(* The gateway is told that the sandbox runs; an error is ignored.  The    *)
(* container is the one just made, whatever became of it since.            *)
Announce(c) ==
  /\ pc[c] = "announce"
  /\ IF linked[c]
     THEN Report(c, [status |-> "running", id |-> box[Name(c)].id], "furnish", "furnish")
     ELSE Goto(c, "furnish") /\ UNCHANGED <<record, troubled>>
  /\ UNCHANGED <<box, made, selected, command, cancelled, disturbed, woken>>

(* Upload and installAgentConfig; when one fails the sandbox stays.        *)
Furnish(c) ==
  /\ pc[c] = "furnish"
  /\ \/ /\ Works(c)
        /\ Goto(c, IF job[c].main THEN "exec" ELSE "ok")
        /\ UNCHANGED troubled
     \/ FailTo(c, "driver", "failed")
  /\ UNCHANGED <<box, record, made, selected, command, cancelled, disturbed, woken>>

(* The main command ends, however; then --no-keep removes the sandbox.     *)
Exec(c) ==
  /\ pc[c] = "exec"
  /\ Goto(c, IF job[c].kind = "create" /\ ~job[c].keep THEN "remove" ELSE "ok")
  /\ UNCHANGED <<box, record, made, selected, command, cancelled, troubled, disturbed, woken>>

(* Run takes any error of the look-up for an absent sandbox, and none of a *)
(* second look-up for a reason not to go on.                               *)
RunLook(c) ==
  /\ pc[c] = "look" /\ job[c].kind = "run"
  /\ \/ Works(c) /\ Exists(Name(c)) /\ Goto(c, "recheck") /\ UNCHANGED troubled
     \/ ~Exists(Name(c)) /\ Goto(c, BeforeMake(c)) /\ UNCHANGED troubled
     \/ FailTo(c, "driver", BeforeMake(c))
  /\ UNCHANGED <<box, record, made, selected, command, cancelled, disturbed, woken>>
Recheck(c) ==
  /\ pc[c] = "recheck"
  /\ \/ /\ Works(c) /\ Exists(Name(c))
        /\ held' = [held EXCEPT ![c] = {box[Name(c)].id}]
        /\ Goto(c, IF box[Name(c)].running THEN "exec" ELSE "revive")
        /\ UNCHANGED troubled
     \/ ~Exists(Name(c)) /\ Goto(c, "exec") /\ UNCHANGED <<held, troubled>>
     \/ FailTo(c, "driver", "exec") /\ UNCHANGED held
  /\ UNCHANGED <<box, record, made, selected, job, linked, cancelled, disturbed, woken>>

(* What the cleanups have in their lists, and what of it runs again. *)
Listed == UNION {held[c] : c \in {d \in Shells : pc[d] = "purge"}}
Wake == woken' = woken \cup {id \in Listed : \E n \in Names : box'[n].id = id /\ box'[n].running}

(* A stopped sandbox is started again, which the gateway is not told. *)
Revive(c) ==
  /\ pc[c] = "revive"
  /\ IF box[Name(c)].id \in held[c]
     THEN Drive(c, Name(c), [box[Name(c)] EXCEPT !.running = TRUE], "exec", "exec")
     ELSE Goto(c, "exec") /\ UNCHANGED <<box, troubled>>
  /\ Wake
  /\ UNCHANGED <<record, made, selected, command, cancelled, disturbed>>

----------------------------------------------------------------------------
(* SandboxStop and SandboxStart *)

Look(c) ==
  /\ pc[c] = "look" /\ job[c].kind \in {"stop", "start"}
  /\ \/ /\ Works(c) /\ Exists(Name(c))
        /\ held' = [held EXCEPT ![c] = {box[Name(c)].id}]
        /\ Goto(c, "act")
        /\ UNCHANGED troubled
     \/ /\ ~Exists(Name(c))
        /\ Goto(c, "failed")
        /\ UNCHANGED <<held, troubled>>
     \/ /\ FailTo(c, "driver", "failed")
        /\ UNCHANGED held
  /\ UNCHANGED <<box, record, made, selected, job, linked, cancelled, disturbed, woken>>

(* Docker is given the container looked up, not the name. *)
Act(c) ==
  /\ pc[c] = "act"
  /\ IF box[Name(c)].id \in held[c]
     THEN Drive(c, Name(c), [box[Name(c)] EXCEPT !.running = (job[c].kind = "start")],
                "touch", "failed")
     ELSE Goto(c, "failed") /\ UNCHANGED <<box, troubled>>
  /\ Wake
  /\ UNCHANGED <<record, made, selected, command, cancelled, disturbed>>

\* Variant: what was looked up is reported, not what was done.
TouchedAs(c) == IF job[c].kind = "start" THEN "exited" ELSE "running"
(* The status that SandboxStop and SandboxStart report. *)
Touched(c) == IF job[c].kind = "start" THEN "running" ELSE "exited"

(* touchGateway: an error is ignored. *)
Touch(c) ==
  /\ pc[c] = "touch"
  /\ IF selected
     THEN \E id \in held[c] : Report(c, [status |-> Touched(c), id |-> id], "ok", "ok")
     ELSE Goto(c, "ok") /\ UNCHANGED <<record, troubled>>
  /\ UNCHANGED <<box, made, selected, command, cancelled, disturbed, woken>>

----------------------------------------------------------------------------
(* SandboxRemove, also at the end of create --no-keep, which ignores its   *)
(* error *)

RemoveFailed(c) == IF job[c].kind = "create" THEN "ok" ELSE "failed"
Remove(c) ==
  /\ pc[c] = "remove"
  /\ Drive(c, Name(c), NoBox, "forget", RemoveFailed(c))
  /\ UNCHANGED <<record, made, selected, command, cancelled, disturbed, woken>>
RemoveAbsent(c) ==
  /\ pc[c] = "remove" /\ ~Exists(Name(c))
  /\ Goto(c, RemoveFailed(c))
  /\ UNCHANGED <<box, record, made, selected, command, cancelled, troubled, disturbed, woken>>

\* Variant: the record of a removed sandbox says that it exited.
ForgottenExited(n) == [status |-> "exited", id |-> box[n].id]
(* DeleteSandbox. *)
Forgotten(n) == NoRecord

Forget(c) ==
  /\ pc[c] = "forget"
  /\ IF selected
     THEN Report(c, Forgotten(Name(c)), "ok", "ok")
     ELSE Goto(c, "ok") /\ UNCHANGED <<record, troubled>>
  /\ UNCHANGED <<box, made, selected, command, cancelled, disturbed, woken>>

----------------------------------------------------------------------------
(* CleanupDockerTestResources with --yes.  The anonymous volumes that it   *)
(* removes before are left out: sandboxes keep their data in named ones.   *)

\* Variant: containers are listed whatever their status.
DisposableAll == {n \in Names : Exists(n)}
(* docker ps with status=exited. *)
Disposable == {n \in Names : Exists(n) /\ ~box[n].running}

List(c) ==
  /\ pc[c] = "list"
  /\ \/ /\ Works(c)
        /\ held' = [held EXCEPT ![c] = {box[n].id : n \in Disposable}]
        /\ Goto(c, "purge")
        /\ woken' = woken \ held'[c]
        /\ UNCHANGED troubled
     \/ /\ FailTo(c, "driver", "failed")
        /\ UNCHANGED <<held, woken>>
  /\ UNCHANGED <<box, record, made, selected, job, linked, cancelled, disturbed>>

(* docker rm -f: whatever the container does by now.  The first error ends *)
(* the command; whether a container that is gone is one, is Docker's.      *)
Purge(c) ==
  /\ pc[c] = "purge"
  /\ \E id \in held[c] :
       /\ held' = [held EXCEPT ![c] = @ \ {id}]
       /\ \/ \E n \in Names : box[n].id = id /\ Drive(c, n, NoBox, "purge", "failed")
          \/ /\ \A n \in Names : box[n].id # id
             /\ Goto(c, "purge") \/ Goto(c, "failed")
             /\ UNCHANGED <<box, troubled>>
  /\ UNCHANGED <<record, made, selected, job, linked, cancelled, disturbed, woken>>
Purged(c) ==
  /\ pc[c] = "purge" /\ held[c] = {}
  /\ Goto(c, "ok")
  /\ UNCHANGED <<box, record, made, selected, command, cancelled, troubled, disturbed, woken>>

----------------------------------------------------------------------------
(* What goes on around a command *)

(* signal.NotifyContext in main. *)
Interrupt(c) ==
  /\ "interrupt" \in Faults
  /\ Busy(c) /\ c \notin cancelled
  /\ cancelled' = cancelled \cup {c}
  /\ UNCHANGED <<box, record, made, selected, command, pc, troubled, disturbed, woken>>

Killed(c) ==
  /\ "killed" \in Faults
  /\ Busy(c)
  /\ Goto(c, "killed")
  /\ Trouble(c)
  /\ UNCHANGED <<box, record, made, selected, command, cancelled, disturbed, woken>>

BoxExits(n) ==
  /\ "exit" \in Faults
  /\ box[n].running
  /\ box' = [box EXCEPT ![n].running = FALSE]
  /\ troubled' = troubled \cup {n}
  /\ disturbed' = disturbed \cup {c \in Shells : Name(c) = n /\ Busy(c)}
  /\ UNCHANGED <<record, made, selected, command, pc, cancelled, woken>>

Step(c) ==
  \/ Ensure(c) \/ Register(c) \/ RegisterNowhere(c) \/ IssueToken(c)
  \/ Make(c) \/ NameTaken(c) \/ Announce(c) \/ Furnish(c) \/ Exec(c)
  \/ RunLook(c) \/ Recheck(c) \/ Revive(c) \/ Look(c) \/ Act(c) \/ Touch(c)
  \/ Remove(c) \/ RemoveAbsent(c) \/ Forget(c)
  \/ List(c) \/ Purge(c) \/ Purged(c)

Next ==
  \/ \E c \in Shells : (\E j \in Jobs[c] : Start(c, j)) \/ Step(c) \/ Interrupt(c) \/ Killed(c)
  \/ \E n \in Names : BoxExits(n)

Spec == Init /\ [][Next]_vars

----------------------------------------------------------------------------
(* Properties *)

AtRest == \A c \in Shells : ~Busy(c)

(* Every variable has its type. *)
TypeOK ==
  /\ box \in [Names -> Boxes]
  /\ record \in [Names -> Records]
  /\ made \in Ids
  /\ selected \in BOOLEAN
  /\ job \in [Shells -> Job]
  /\ pc \in [Shells -> {"idle", "ensure", "register", "token", "make", "announce", "furnish",
                          "exec", "look", "recheck", "revive", "act", "touch", "remove", "forget", "list",
                          "purge", "ok", "failed", "killed"}]
  /\ held \in [Shells -> SUBSET Ids]
  /\ linked \in [Shells -> BOOLEAN]
  /\ cancelled \subseteq Shells
  /\ troubled \subseteq Names
  /\ disturbed \subseteq Shells
  /\ woken \subseteq Ids

(* "The sandbox is registered with the gateway before the sidecar starts"  *)
(* (attachSupervisor), and its record outlives it: whatever fails and      *)
(* wherever a command dies, a supervised container is known to the gateway *)
(* it was made for, so that connect, the console and policy find it.       *)
SupervisedRegistered ==
  \A n \in Names : box[n].supervised => record[n].status # "none"

(* Between commands, what the gateway shows as running runs, and is the    *)
(* container recorded, unless a call about it failed since it was last     *)
(* reported, or a cleanup had it in its list while it was started: the     *)
(* records kept by create, run, stop, start, rm and cleanup agree although *)
(* no command compares them.                                               *)
RunningRecordsTrue ==
  AtRest => \A n \in Names \ troubled :
              record[n].status = "running" /\ record[n].id \notin woken =>
                box[n].running /\ box[n].id = record[n].id

(* rm, and create --no-keep after its main command, leave neither the      *)
(* container nor the record, when their calls succeed.                     *)
RemovedForGood ==
  [][\A c \in Shells :
       pc[c] \in {"remove", "forget"} /\ pc'[c] = "ok" /\ Name(c) \notin troubled' =>
         ~Exists(Name(c))' /\ (selected => record'[Name(c)] = NoRecord)]_vars

(* "Running containers ... are outside this command's scope"               *)
(* (CleanupDockerTestResources): besides a removal asked for by name only  *)
(* a cleanup removes a running sandbox, and only one that was started after *)
(* that cleanup had found it stopped, however many commands run at a time.  *)
RunningSpared ==
  [][\A n \in Names :
       box[n].running /\ ~Exists(n)' =>
         \E c \in Shells :
           \/ Name(c) = n /\ pc[c] = "remove"
           \/ pc[c] = "purge" /\ box[n].id \in held[c] \cap woken]_vars

(* "Delete sandbox after main command exits" (SandboxCreateOpts.NoKeep):   *)
(* however the main command came to its end, once create is over the       *)
(* container is gone.                                                      *)
NoKeepDeletes ==
  [][\A c \in Shells :
       job[c].kind = "create" /\ pc[c] \in {"remove", "forget"} /\ pc'[c] = "ok" =>
         ~Exists(Name(c))']_vars
=============================================================================
