----------------------------- MODULE LivePolicy -----------------------------
(***************************************************************************)
(* One sandbox's network policy on its way from CLI commands over the      *)
(* gateway into the file the sandbox's proxy watches                       *)
(* (src/internal/service/app.go PolicySet, PolicyUpdate, writeFileInPlace; *)
(* provider.go ProviderAttach, ProviderDetach, applyEffectivePolicy;       *)
(* rules.go ruleDecide, refreshApprovedPolicy; policywait FileApplied).    *)
(* Every command is a process of its own; nothing locks the policy file.   *)
(* Time passes in ticks, and is counted where a wait depends on it.        *)
(*                                                                         *)
(* A policy is the set of its rules; a provider stands for the rules its   *)
(* profile composes.  The gateway keeps the base policy and the attached   *)
(* providers, and the proxy polls the file; both are outside               *)
(* this repository and modelled from the calls made to them.  A sandbox    *)
(* container is running under Docker throughout.                           *)
(*                                                                         *)
(* A definition introduced by "Variant:" is a deliberately wrong version   *)
(* of the one after it, used by nothing.                                   *)
(***************************************************************************)
EXTENDS Naturals, FiniteSets

CONSTANTS
  Commands,    \* invocations of the CLI
  Rules,       \* rules an operator writes or approves
  Providers,   \* providers that compose rules
  Jobs,        \* what the invocations are asked to do
  Faults,      \* whether calls fail and commands crash
  Outages,     \* whether the gateway's health check may fail
  Orders,      \* whether commands are orderly: TRUE, FALSE, or either
  Reload,      \* ticks from one poll of the file by the proxy to the next
  Settle,      \* ticks a wait lets pass before it may succeed
  Deadline,    \* ticks after which a wait gives up
  NoCommand

Kinds == {"set", "update", "attach", "detach", "approve"}
Job == [kind : Kinds, rules : SUBSET (Rules \cup Providers), wait : BOOLEAN]

ASSUME PolicyAssumption ==
  /\ NoCommand \notin Commands
  /\ Rules \cap Providers = {}
  /\ IsFiniteSet(Rules) /\ IsFiniteSet(Providers)
  /\ Jobs \subseteq Job
  /\ \A j \in Jobs : /\ j.kind \in {"update", "approve"} => j.rules \subseteq Rules
                     /\ j.kind \in {"attach", "detach"} => j.rules \subseteq Providers
  /\ {Faults, Outages} \cup Orders \subseteq BOOLEAN
  /\ {Reload, Settle, Deadline} \subseteq Nat

Policies == SUBSET (Rules \cup Providers)
Files == [state : {"whole", "empty", "garbled"}, rules : Policies]
Steps == {"idle", "probe", "read", "put", "direct", "change", "fetch",
          "open", "write", "wait", "matched", "unmatched"}
Ends == {"ok", "local", "timeout", "warned", "failed", "crashed"}

VARIABLES
  base,     \* external: the sandbox's base policy at the gateway
  attached, \* external: the providers attached at the gateway
  file,     \* the policy file bound into the sandbox
  loaded,   \* external: the policy the proxy enforces
  job,      \* what a command is doing
  pc,       \* where it is
  given,    \* the policy an operator's file or an update asks for
  content,  \* the policy it writes to the file
  waited,   \* ticks since it began to wait, up to the deadline
  unread,   \* external: ticks since the proxy polled the file
  orderly,  \* external: commands follow one another, and the gateway passes its
            \* health checks
  newest,   \* history: the last command the gateway gave the effective policy
  writer,   \* history: the last command that wrote the file
  standing, \* history: updates and approvals the gateway carried out, unless a set
            \* came after them, or an update that had read the base before them
  known     \* history: which of them stood when an update read the base

gatewayVars == <<base, attached, standing>>
timeVars == <<waited, unread>>
history == <<newest, writer>>
vars == <<base, attached, file, loaded, job, pc, given, content, waited, unread, orderly,
          newest, writer, standing, known>>

Effective == base \cup attached
Whole(policy) == [state |-> "whole", rules |-> policy]

(* The sandbox was created with the effective policy in its file. *)
Init ==
  /\ base \in SUBSET Rules
  /\ attached \in SUBSET Providers
  /\ file = Whole(Effective)
  /\ loaded = Effective
  /\ job = [c \in Commands |-> [kind |-> "set", rules |-> {}, wait |-> FALSE]]
  /\ pc = [c \in Commands |-> "idle"]
  /\ given = [c \in Commands |-> {}]
  /\ content = [c \in Commands |-> {}]
  /\ waited = [c \in Commands |-> 0]
  /\ unread \in 0 .. Reload
  /\ orderly \in Orders
  /\ newest = NoCommand
  /\ writer = NoCommand
  /\ standing = {}
  /\ known = [c \in Commands |-> {}]

Goto(c, step) == pc' = [pc EXCEPT ![c] = step]
Ended(c) == pc[c] \in Ends

(* A command starts: policy set probes the gateway, policy update reads    *)
(* the base policy, the others ask the gateway for the change.             *)
FirstStep(j) == CASE j.kind = "set" -> "probe"
                  [] j.kind = "update" -> "read"
                  [] OTHER -> "change"
Start(c, j) ==
  /\ pc[c] = "idle"
  /\ orderly => \A d \in Commands : pc[d] = "idle" \/ Ended(d)
  /\ job' = [job EXCEPT ![c] = j]
  /\ Goto(c, FirstStep(j))
  /\ given' = [given EXCEPT ![c] = j.rules]
  /\ UNCHANGED <<gatewayVars, file, loaded, content, timeVars, orderly, history, known>>

\* Variant: the update replaces the base policy.
MergedAlone(old, added) == added

(* policy.ApplyNetworkUpdate adds the endpoints to the base policy read.   *)
Merged(old, added) == old \cup added

(* PolicyUpdate reads the base policy, adds to it, and becomes a set.      *)
ReadBase(c) ==
  /\ pc[c] = "read"
  /\ given' = [given EXCEPT ![c] = Merged(base, job[c].rules)]
  /\ known' = [known EXCEPT ![c] = standing]
  /\ Goto(c, "probe")
  /\ UNCHANGED <<gatewayVars, file, loaded, job, content, timeVars, orderly, history>>

(* PolicySet's health check decides between the gateway and the file.      *)
Probe(c) ==
  /\ pc[c] = "probe"
  /\ \/ Goto(c, "put")
     \/ Outages /\ ~orderly /\ Goto(c, "direct")
  /\ UNCHANGED <<gatewayVars, file, loaded, job, given, content, timeVars, orderly, history, known>>

\* Variant: the policy is stored as it was sent.
StrippedNothing(policy) == policy

Stripped(policy) == policy \ Providers

(* PutSandboxPolicy strips provider-composed rules from the policy, stores *)
(* the rest as the base and answers with the effective policy.             *)
GatewayPut(c) ==
  /\ base' = Stripped(given[c])
  /\ standing' = IF job[c].kind = "update" THEN (standing \cap known[c]) \cup {c} ELSE {}
  /\ UNCHANGED attached
Put(c) ==
  /\ pc[c] = "put"
  /\ GatewayPut(c)
  /\ content' = [content EXCEPT ![c] = base' \cup attached]
  /\ newest' = c
  /\ Goto(c, "open")
  /\ UNCHANGED <<file, loaded, job, given, timeVars, orderly, writer, known>>

(* PolicySet without a gateway takes the operator's policy as it is. *)
Direct(c) ==
  /\ pc[c] = "direct"
  /\ content' = [content EXCEPT ![c] = given[c]]
  /\ Goto(c, "open")
  /\ UNCHANGED <<gatewayVars, file, loaded, job, given, timeVars, orderly, history, known>>

(* AttachProvider, DetachProvider and ApproveProposal at the gateway. *)
GatewayChange(c) ==
  LET j == job[c] IN
  /\ attached' = CASE j.kind = "attach" -> attached \cup j.rules
                   [] j.kind = "detach" -> attached \ j.rules
                   [] OTHER -> attached
  /\ base' = IF j.kind = "approve" THEN base \cup j.rules ELSE base
  /\ standing' = IF j.kind = "approve" THEN standing \cup {c} ELSE standing
Change(c) ==
  /\ pc[c] = "change"
  /\ GatewayChange(c)
  /\ Goto(c, "fetch")
  /\ UNCHANGED <<file, loaded, job, given, content, timeVars, orderly, history, known>>

(* ruleDecide asks every candidate sandbox for the proposal; without a      *)
(* gateway, or when none of them answers with it, the approval is a note   *)
(* in the local rules.json, and the command succeeds.                      *)
ApproveLocally(c) ==
  /\ pc[c] = "change" /\ job[c].kind = "approve"
  /\ Goto(c, "local")
  /\ UNCHANGED <<gatewayVars, file, loaded, job, given, content, timeVars, orderly, history, known>>

\* Variant: only the base policy is fetched.
FetchedBase == base

(* What EffectivePolicy and GetSandboxPolicy "full" answer. *)
Fetched == Effective

Fetch(c) ==
  /\ pc[c] = "fetch"
  /\ content' = [content EXCEPT ![c] = Fetched]
  /\ newest' = c
  /\ Goto(c, "open")
  /\ UNCHANGED <<gatewayVars, file, loaded, job, given, timeVars, orderly, writer, known>>

(* writeFileInPlace truncates the file ... *)
Open(c) ==
  /\ pc[c] = "open"
  /\ file' = [file EXCEPT !.state = "empty"]
  /\ Goto(c, "write")
  /\ UNCHANGED <<gatewayVars, loaded, job, given, content, timeVars, orderly, history, known>>

(* ... and writes from its start.  When another command has written since  *)
(* the truncation, what is longer than this policy stays behind it.        *)
Overwritten(f, policy) ==
  IF f.state = "empty" \/ Cardinality(f.rules) <= Cardinality(policy)
  THEN Whole(policy) ELSE [f EXCEPT !.state = "garbled"]
Written(c) == IF job[c].kind \in {"set", "update"} /\ job[c].wait THEN "wait" ELSE "ok"
Write(c) ==
  /\ pc[c] = "write"
  /\ file' = Overwritten(file, content[c])
  /\ writer' = c
  /\ Goto(c, Written(c))
  /\ UNCHANGED <<gatewayVars, loaded, job, given, content, timeVars, orderly, newest, known>>

(* policywait.FileApplied reads the file, looks at the clock, and sleeps   *)
(* until it reads again.                                                   *)
WaitRead(c) ==
  /\ pc[c] = "wait"
  /\ Goto(c, IF file = Whole(content[c]) THEN "matched" ELSE "unmatched")
  /\ UNCHANGED <<gatewayVars, file, loaded, job, given, content, timeVars, orderly, history, known>>

\* Variant: the file alone decides.
SettledAtOnce(c) == TRUE

Settled(c) == waited[c] >= Settle

(* It succeeds when the file had the policy and the settling time is over, *)
(* and gives up, with exit code 124, at its deadline, which may also cut   *)
(* its sleep short.                                                        *)
Applied(c) == pc[c] = "matched" /\ Settled(c)
LookedAtClock(c) ==
  /\ pc[c] \in {"matched", "unmatched"}
  /\ Goto(c, IF Applied(c) THEN "ok" ELSE IF waited[c] >= Deadline THEN "timeout" ELSE "wait")
SleepCutShort(c) == pc[c] = "wait" /\ waited[c] >= Deadline /\ Goto(c, "timeout")
WaitOver(c) ==
  /\ LookedAtClock(c) \/ SleepCutShort(c)
  /\ UNCHANGED <<gatewayVars, file, loaded, job, given, content, timeVars, orderly, history, known>>

(* A call fails before the file is opened, or the write itself does.       *)
(* ProviderAttach and ProviderDetach then only print a warning.            *)
FailedEnd(c) ==
  IF job[c].kind \in {"attach", "detach"} /\ pc[c] # "change" THEN "warned" ELSE "failed"
Fail(c) ==
  /\ Faults
  /\ pc[c] \in {"read", "put", "change", "fetch", "open", "write"}
  /\ Goto(c, FailedEnd(c))
  /\ UNCHANGED <<gatewayVars, file, loaded, job, given, content, timeVars, orderly, history, known>>

(* The gateway carries the call out and its answer is lost, or the policy  *)
(* it answers with is refused by the parser or the engine.                 *)
PutUnanswered(c) ==
  /\ Faults /\ pc[c] = "put"
  /\ GatewayPut(c)
  /\ Goto(c, "failed")
  /\ UNCHANGED <<file, loaded, job, given, content, timeVars, orderly, history, known>>
ChangeUnanswered(c) ==
  /\ Faults /\ pc[c] = "change"
  /\ GatewayChange(c)
  /\ Goto(c, "failed")
  /\ UNCHANGED <<file, loaded, job, given, content, timeVars, orderly, history, known>>

(* The process is killed. *)
Crash(c) ==
  /\ Faults
  /\ pc[c] \in Steps \ {"idle"}
  /\ Goto(c, "crashed")
  /\ UNCHANGED <<gatewayVars, file, loaded, job, given, content, timeVars, orderly, history, known>>

(* The proxy's watcher reads the file every Reload ticks or sooner and     *)
(* keeps what it has when the file is no policy.                           *)
ProxyPoll ==
  /\ loaded' = IF file.state = "whole" THEN file.rules ELSE loaded
  /\ unread' = 0
  /\ UNCHANGED <<gatewayVars, file, job, pc, given, content, waited, orderly, history, known>>

(* Time passes, for the watcher and for every command that waits. *)
Waiting(c) == pc[c] \in {"wait", "matched", "unmatched"}
Tick ==
  /\ unread < Reload
  /\ unread' = unread + 1
  /\ waited' = [c \in Commands |-> IF Waiting(c) /\ waited[c] < Deadline
                                   THEN waited[c] + 1 ELSE waited[c]]
  /\ UNCHANGED <<gatewayVars, file, loaded, job, pc, given, content, orderly, history, known>>

Step(c) ==
  \/ ReadBase(c) \/ Probe(c) \/ Put(c) \/ Direct(c) \/ Change(c) \/ ApproveLocally(c)
  \/ Fetch(c) \/ Open(c) \/ Write(c) \/ WaitRead(c) \/ WaitOver(c)
  \/ Fail(c) \/ PutUnanswered(c) \/ ChangeUnanswered(c)

Next ==
  \/ \E c \in Commands, j \in Jobs : Start(c, j)
  \/ \E c \in Commands : Step(c) \/ Crash(c)
  \/ ProxyPoll \/ Tick

(* A command keeps running (its calls have deadlines), the proxy keeps     *)
(* polling, and time goes on.                                              *)
Fairness == (\A c \in Commands : WF_vars(Step(c))) /\ WF_vars(ProxyPoll) /\ WF_vars(Tick)

SafetySpec == Init /\ [][Next]_vars
Spec == SafetySpec /\ Fairness

----------------------------------------------------------------------------
(* Properties *)

(* Every variable has its type. *)
TypeOK ==
  /\ base \in SUBSET Rules
  /\ attached \in SUBSET Providers
  /\ file \in Files
  /\ loaded \in Policies
  /\ job \in [Commands -> Job]
  /\ pc \in [Commands -> Steps \cup Ends]
  /\ given \in [Commands -> Policies]
  /\ content \in [Commands -> Policies]
  /\ waited \in [Commands -> 0 .. Deadline]
  /\ unread \in 0 .. Reload
  /\ orderly \in BOOLEAN
  /\ newest \in Commands \cup {NoCommand}
  /\ writer \in Commands \cup {NoCommand}
  /\ standing \in SUBSET Commands
  /\ known \in [Commands -> SUBSET Commands]

(* Nothing is under way and nothing went wrong. *)
AllWell == \A c \in Commands : pc[c] \in {"idle", "ok", "local", "timeout"}

(* When every command went well and the one that wrote the file last is    *)
(* the one the gateway answered last, the file has the effective policy,   *)
(* unless two writes fell into one another.                                *)
OrderedWritesAgree ==
  AllWell /\ writer = newest /\ file.state # "garbled" => file = Whole(Effective)

(* When every command went well the file has the effective policy: "pushes *)
(* composed effective policy so the proxy hot-reloads" (provider.go,       *)
(* ProviderAttach), "refreshes live policy" (ProviderDetach).              *)
FileAlwaysEffective == AllWell => file = Whole(Effective)

(* It does so when commands follow one another. *)
FileIsEffective == orderly => FileAlwaysEffective

(* What a policy update or a rule approve added at the gateway stays in    *)
(* the base policy, whatever other commands do meanwhile and whoever fails *)
(* or misses an answer, until a policy set comes, or an update which read  *)
(* the base policy before the addition and puts its own version back       *)
(* (app.go PolicyUpdate: "applies incremental network changes"; rules.go   *)
(* RuleApprove: "merges into sandbox base").                               *)
IncrementsKept == \A c \in standing : job[c].rules \subseteq base

(* When policy set --wait succeeds and nobody has touched the file since   *)
(* it was written, the proxy enforces the policy, unless it has not looked *)
(* at the file for the whole settling time (policywait.go, Settle:         *)
(* "minimum time to wait for proxy fsnotify reload").                      *)
WaitMeansEnforced ==
  [][\A c \in Commands :
       Waiting(c) /\ pc'[c] = "ok" /\ writer = c /\ file = Whole(content[c])
         => loaded = content[c] \/ unread >= Settle]_vars

(* Once all commands have ended well and in order, the proxy comes to      *)
(* enforce the effective policy.                                           *)
EnforcedInTheEnd ==
  (/\ \A c \in Commands : pc[c] \in {"ok", "local", "timeout"}
   /\ writer = newest /\ file.state # "garbled") ~> loaded = Effective
=============================================================================
