--------------------------- MODULE ForwardRegistry ---------------------------
(***************************************************************************)
(* Port forwards: cautem forward start and stop                            *)
(* (src/internal/service/forward_live.go; openSSHClient in ssh_connect.go).*)
(* A forward is a process that holds an SSH session of the gateway and a   *)
(* local port, and lists itself, with its process number, in a file that   *)
(* all forwards and commands share: each of them reads all of it, changes  *)
(* its copy and writes it all in place.  stop sends the signal to the      *)
(* number it finds there.                                                  *)
(*                                                                         *)
(* The system gives a number again to a process that starts after its      *)
(* bearer has ended.  The address a port is bound to is left out.          *)
(*                                                                         *)
(* A definition introduced by "Variant:" is a deliberately wrong version   *)
(* of the one after it, used by nothing.                                   *)
(***************************************************************************)
EXTENDS Naturals, FiniteSets

CONSTANTS
  Pids,    \* process numbers
  Ids,     \* identifiers of forwards, sandbox:port
  Ports,   \* local ports
  PortOf,  \* the port in an identifier
  Orders,  \* whether processes are orderly: TRUE, FALSE, or either
  Faults,  \* whether, when they are not, they are killed and fail to write
  Racing,  \* the numbers in use when they are not
  Nobody   \* no process, and no forward

ASSUME ForwardsAssumption ==
  /\ Nobody \notin Pids /\ Nobody \notin Ids
  /\ IsFiniteSet(Ids)
  /\ PortOf \in [Ids -> Ports]
  /\ Orders \subseteq BOOLEAN /\ Faults \in BOOLEAN
  /\ Racing \subseteq Pids

Entries == [Ids -> Pids \cup {Nobody}]
Files == [readable : BOOLEAN, entries : Entries]
Serving == {"enter", "entering", "serve"}
Leaving == {"leave", "leaving"}
Stopping == {"look", "signal", "strike", "striking"}
Steps == {"none", "connect", "dial", "handshake", "listen", "register", "deregister",
          "hangup"} \cup Serving \cup Leaving \cup Stopping

VARIABLES
  file,      \* forwards.json: whether it is a document, and what it says
  pc,        \* what a process is doing; "none" when there is no such process
  id,        \* the forward a process runs, or the one stop has found
  copy,      \* the entries it has read
  signalled, \* the processes that were sent SIGTERM
  owed,      \* the processes whose SSH session has not been revoked yet
  orderly,   \* external: nothing starts, ends or is stopped unless the others are
             \* at rest, and nothing is killed
  outlived   \* history: the entries, as pairs of a forward and a number, that their
             \* forward has left behind: see Outlives

vars == <<file, pc, id, copy, signalled, owed, orderly, outlived>>

NoEntries == [i \in Ids |-> Nobody]

Init ==
  /\ file = [readable |-> TRUE, entries |-> NoEntries]
  /\ pc = [p \in Pids |-> "none"]
  /\ id = [p \in Pids |-> Nobody]
  /\ copy = [p \in Pids |-> NoEntries]
  /\ signalled = {}
  /\ owed = {}
  /\ orderly \in Orders
  /\ outlived = {}

Goto(p, step) == pc' = [pc EXCEPT ![p] = step]
AtRest(p) == pc[p] = "none" \/ (pc[p] = "serve" /\ p \notin signalled)
Quiet == \A p \in Pids : AtRest(p)
MayBegin(p) == pc[p] = "none" /\ IF orderly THEN Quiet ELSE p \in Racing

(* A process is gone, and its number is free. *)
End(p) ==
  /\ Goto(p, "none")
  /\ id' = [id EXCEPT ![p] = Nobody]
  /\ copy' = [copy EXCEPT ![p] = NoEntries]
  /\ signalled' = signalled \ {p}

----------------------------------------------------------------------------
(* A forward *)

(* ForwardStart, as a process in the foreground or the background. *)
Start(p, i) ==
  /\ MayBegin(p)
  /\ id' = [id EXCEPT ![p] = i]
  /\ Goto(p, "connect")
  /\ UNCHANGED <<file, copy, signalled, owed, orderly, outlived>>

(* createSSHSessionWait: the gateway opens a session, or refuses, or its   *)
(* answer is lost, and with it a session nobody can revoke; a signal ends  *)
(* the attempt.                                                            *)
Connect(p) ==
  /\ pc[p] = "connect"
  /\ \/ /\ p \notin signalled
        /\ owed' = owed \cup {p}
        /\ Goto(p, "dial")
        /\ UNCHANGED <<id, copy, signalled>>
     \/ End(p) /\ UNCHANGED owed
  /\ UNCHANGED <<file, orderly, outlived>>

(* DialSSHRelay. *)
Dial(p) ==
  /\ pc[p] = "dial"
  /\ \/ p \notin signalled /\ Goto(p, "handshake")
     \/ Goto(p, "hangup")
  /\ UNCHANGED <<file, id, copy, signalled, owed, orderly, outlived>>

(* ssh.NewClientConn, which knows neither signals nor deadlines. *)
Handshake(p) ==
  /\ pc[p] = "handshake"
  /\ Goto(p, "listen") \/ Goto(p, "hangup")
  /\ UNCHANGED <<file, id, copy, signalled, owed, orderly, outlived>>

Listening(port) ==
  {p \in Pids : pc[p] \in {"register"} \cup Serving /\ PortOf[id[p]] = port}
\* Variant: the session is forgotten when the port is taken.
ListenFailedLeaves == "none"
(* The session is revoked when the port is taken. *)
ListenFailed == "hangup"
Listen(p) ==
  /\ pc[p] = "listen"
  /\ Goto(p, IF Listening(PortOf[id[p]]) = {} THEN "register" ELSE ListenFailed)
  /\ UNCHANGED <<file, id, copy, signalled, owed, orderly, outlived>>

(* readJSONMap. *)
Reads(p, next, otherwise) ==
  IF file.readable
  THEN copy' = [copy EXCEPT ![p] = file.entries] /\ Goto(p, next)
  ELSE Goto(p, otherwise) /\ UNCHANGED copy

(* os.WriteFile truncates the file ... *)
Truncates(p, next) ==
  /\ file' = [file EXCEPT !.readable = FALSE, !.entries = NoEntries]
  /\ Goto(p, next)
(* ... and writes from its start; what another process has written since   *)
(* and is longer stays behind it.                                          *)
Length(entries) == Cardinality({i \in Ids : entries[i] # Nobody})
Overwritten(f, entries) ==
  {[readable |-> whole, entries |-> entries] : whole \in
    {w \in BOOLEAN : /\ f.entries \in {NoEntries, entries} => w
                     /\ Length(f.entries) > Length(entries) => ~w}}

(* The process is the forward i and sees to its entry. *)
Registered(p, i) == id[p] = i /\ pc[p] \in {"enter", "entering"} \cup {"serve", "deregister"} \cup Leaving

(* History.  An entry outlives its forward when that is killed or cannot   *)
(* write, or when another process has read it and will signal its number,  *)
(* or write it back because it changes another entry.                      *)
Drops(q, i) == id[q] = i /\ pc[q] \in {"enter", "entering", "strike", "striking"} \cup Leaving
Kept(p) == \E q \in Pids \ {p} : copy[q][id[p]] = p /\ ~Drops(q, id[p])
Outlives(p) == outlived' = outlived \cup {<<id[p], p>>}
OutlivesIf(p, cond) == IF cond THEN Outlives(p) ELSE UNCHANGED outlived

(* An error of updateForward is ignored. *)
Register(p) ==
  /\ pc[p] = "register"
  /\ Reads(p, "enter", "serve")
  /\ UNCHANGED <<file, id, signalled, owed, orderly, outlived>>
Enter(p) ==
  /\ pc[p] = "enter"
  /\ Truncates(p, "entering")
  /\ UNCHANGED <<id, copy, signalled, owed, orderly, outlived>>
\* Variant: the entry does not carry the number of the forward itself.
EntryOfAnother(p) == [copy[p] EXCEPT ![id[p]] = CHOOSE q \in Pids : q # p]
EntryOf(p) == [copy[p] EXCEPT ![id[p]] = p]
Entering(p) ==
  /\ pc[p] = "entering"
  /\ file' \in Overwritten(file, EntryOf(p))
  /\ Goto(p, "serve")
  /\ copy' = [copy EXCEPT ![p] = NoEntries]
  /\ outlived' = outlived \ {<<id[p], p>>}
  /\ UNCHANGED <<id, signalled, owed, orderly>>

\* Variant: only the relay ends a forward.
MustCloseByRelay(p) == FALSE
(* A signal that came at any time since the start of the process. *)
MustClose(p) == p \in signalled

(* The accept loop ends when a signal or the end of the relay closes the   *)
(* listener; deferred calls remove the entry, then revoke the session.     *)
Close(p) ==
  /\ pc[p] = "serve" /\ MustClose(p)
  /\ Goto(p, "deregister")
  /\ UNCHANGED <<file, id, copy, signalled, owed, orderly, outlived>>
RelayCloses(p) ==
  /\ pc[p] = "serve"
  /\ orderly => Quiet
  /\ Goto(p, "deregister")
  /\ UNCHANGED <<file, id, copy, signalled, owed, orderly, outlived>>

Deregister(p) ==
  /\ pc[p] = "deregister"
  /\ Reads(p, "leave", "hangup")
  /\ OutlivesIf(p, ~file.readable /\ Kept(p))
  /\ UNCHANGED <<file, id, signalled, owed, orderly>>
Leave(p) ==
  /\ pc[p] = "leave"
  /\ Truncates(p, "leaving")
  /\ UNCHANGED <<id, copy, signalled, owed, orderly, outlived>>
\* Variant: the entry stays.
WithoutNothing(entries, i) == entries
(* delete(m, id), whoever the entry belongs to. *)
Without(entries, i) == [entries EXCEPT ![i] = Nobody]
Leaves(p) ==
  /\ pc[p] = "leaving"
  /\ file' \in Overwritten(file, Without(copy[p], id[p]))
  /\ Goto(p, "hangup")
  /\ copy' = [copy EXCEPT ![p] = NoEntries]
  /\ OutlivesIf(p, Kept(p))
  /\ UNCHANGED <<id, signalled, owed, orderly>>

(* RevokeSSHSession, whose errors are ignored. *)
Hangup(p) ==
  /\ pc[p] = "hangup"
  /\ owed' = owed \ {p}
  /\ End(p)
  /\ UNCHANGED <<file, orderly, outlived>>

----------------------------------------------------------------------------
(* ForwardStop *)

Stop(p) ==
  /\ MayBegin(p)
  /\ Goto(p, "look")
  /\ UNCHANGED <<file, id, copy, signalled, owed, orderly, outlived>>

(* The forward is named by its identifier, or by its port when that is not *)
(* one; it is not found, or the file is no document.                       *)
Look(p) ==
  /\ pc[p] = "look"
  /\ \/ /\ file.readable
        /\ \E i \in Ids : file.entries[i] # Nobody /\ id' = [id EXCEPT ![p] = i]
        /\ copy' = [copy EXCEPT ![p] = file.entries]
        /\ Goto(p, "signal")
        /\ UNCHANGED signalled
     \/ End(p)
  /\ UNCHANGED <<file, owed, orderly, outlived>>

(* SIGTERM to the number in the entry.  A forward takes note of it; stop   *)
(* itself pays no attention to it.                                         *)
Target(p) == copy[p][id[p]]
Signal(p) ==
  /\ pc[p] = "signal"
  /\ signalled' = signalled \cup
       {q \in Pids \ {p} : q = Target(p) /\ pc[q] # "none"}
  /\ Goto(p, "strike")
  /\ UNCHANGED <<file, id, copy, owed, orderly, outlived>>
Strike(p) ==
  /\ pc[p] = "strike"
  /\ Truncates(p, "striking")
  /\ UNCHANGED <<id, copy, signalled, owed, orderly, outlived>>
Striking(p) ==
  /\ pc[p] = "striking"
  /\ file' \in Overwritten(file, Without(copy[p], id[p]))
  /\ End(p)
  /\ UNCHANGED <<owed, orderly, outlived>>

----------------------------------------------------------------------------
(* What goes wrong *)

(* A process is killed; its session lasts until the gateway ends it, and   *)
(* nobody owes that.                                                       *)
Killed(p) ==
  /\ Faults /\ ~orderly
  /\ pc[p] # "none"
  /\ owed' = owed \ {p}
  /\ OutlivesIf(p, Registered(p, id[p]))
  /\ End(p)
  /\ UNCHANGED <<file, orderly>>

(* The file cannot be opened, or not be written once it is truncated. *)
WriteFails(p) ==
  /\ Faults /\ ~orderly
  /\ \/ /\ \/ pc[p] \in {"enter", "entering"} /\ Goto(p, "serve")
           \/ pc[p] \in Leaving /\ Goto(p, "hangup")
        /\ copy' = [copy EXCEPT ![p] = NoEntries]
        /\ OutlivesIf(p, pc[p] \in Leaving)
        /\ UNCHANGED <<id, signalled>>
     \/ pc[p] \in {"strike", "striking"} /\ End(p) /\ UNCHANGED outlived
  /\ UNCHANGED <<file, owed, orderly>>

Step(p) ==
  \/ Connect(p) \/ Dial(p) \/ Listen(p) \/ Register(p) \/ Enter(p) \/ Entering(p)
  \/ Close(p) \/ Deregister(p) \/ Leave(p) \/ Leaves(p) \/ Hangup(p)
  \/ Look(p) \/ Signal(p) \/ Strike(p) \/ Striking(p)
  \/ WriteFails(p)

Next ==
  \E p \in Pids : \/ \E i \in Ids : Start(p, i)
                  \/ Stop(p) \/ Step(p) \/ Handshake(p) \/ RelayCloses(p) \/ Killed(p)

(* Every call of a process but the handshake has a deadline; nothing need  *)
(* start or end.                                                           *)
Fairness == \A p \in Pids : WF_vars(Step(p))

SafetySpec == Init /\ [][Next]_vars
Spec == SafetySpec /\ Fairness

----------------------------------------------------------------------------
(* Properties *)

(* Every variable has its type. *)
TypeOK ==
  /\ file \in Files
  /\ pc \in [Pids -> Steps]
  /\ id \in [Pids -> Ids \cup {Nobody}]
  /\ copy \in [Pids -> Entries]
  /\ signalled \subseteq Pids
  /\ owed \subseteq Pids
  /\ orderly \in BOOLEAN
  /\ outlived \subseteq (Ids \cup {Nobody}) \X Pids

(* "ForwardList prints active forwards" (forward_live.go): every forward   *)
(* that serves and is not being stopped is listed under its number.        *)
ActiveListed == Quiet => \A p \in Pids : pc[p] = "serve" => file.entries[id[p]] = p

(* When processes are orderly it prints them and nothing else, although    *)
(* nobody compares the file with the processes.                            *)
RegistryTrue ==
  orderly /\ Quiet =>
    /\ file.readable
    /\ ActiveListed
    /\ \A i \in Ids : LET p == file.entries[i]
                      IN p # Nobody => pc[p] = "serve" /\ id[p] = i

(* stop signals the forward it names, whatever others do to the file       *)
(* meanwhile, not another process that has its number by now, unless that  *)
(* forward has left its entry behind: it was killed, it could not write,   *)
(* or it removed its entry after another process had read it, to stop it   *)
(* or to change another entry.  Orderly processes leave nothing behind.    *)
SignalsForward ==
  [][\A p \in Pids, q \in signalled' \ signalled :
       pc[p] = "signal" /\ pc'[p] = "strike" =>
         Registered(q, id[p]) \/ (~orderly /\ <<id[p], q>> \in outlived)]_vars

(* A process revokes the session it has opened on every path to its end,   *)
(* whatever fails on the way.                                              *)
SessionsRevoked == \A p \in owed : pc[p] # "none"

(* A forward that serves when stop signals it ends, whatever others do to  *)
(* the file, the port and the gateway meanwhile.                           *)
SignalledEnds ==
  \A p \in Pids : p \in signalled /\ pc[p] = "serve" ~> pc[p] = "none"
=============================================================================
