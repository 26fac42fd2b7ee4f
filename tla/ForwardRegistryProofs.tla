------------------------ MODULE ForwardRegistryProofs ------------------------
(***************************************************************************)
(* Proofs about ForwardRegistry: its types; that a process revokes the     *)
(* session it has opened on every path to its end; that the registry is    *)
(* true when processes are orderly; and whom stop signals, whether they    *)
(* are or not.                                                             *)
(***************************************************************************)
EXTENDS ForwardRegistry, TLAPS

----------------------------------------------------------------------------
(* Types *)

(* A process moves to a step there is. *)
LEMMA GotoTyped ==
  ASSUME TypeOK, NEW p \in Pids, NEW step \in Steps, Goto(p, step)
  PROVE  pc' \in [Pids -> Steps]
  BY DEF TypeOK, Goto

(* The end of a process leaves types alone. *)
LEMMA EndTyped ==
  ASSUME TypeOK, NEW p \in Pids, End(p)
  PROVE  /\ pc' \in [Pids -> Steps]
         /\ id' \in [Pids -> Ids \cup {Nobody}]
         /\ copy' \in [Pids -> Entries]
         /\ signalled' \subseteq Pids
<1>1. NoEntries \in Entries
  BY DEF NoEntries, Entries
<1>2. pc' \in [Pids -> Steps]
  BY GotoTyped DEF End, Steps
<1> QED BY <1>1, <1>2 DEF TypeOK, End

(* What is written to the file is of its type. *)
LEMMA FilesTyped ==
  ASSUME TypeOK
  PROVE  /\ NoEntries \in Entries
         /\ [file EXCEPT !.readable = FALSE, !.entries = NoEntries] \in Files
         /\ \A p \in Pids : EntryOf(p) \in Entries /\ Without(copy[p], id[p]) \in Entries
         /\ \A entries \in Entries : Overwritten(file, entries) \subseteq Files
<1>1. NoEntries \in Entries
  BY DEF NoEntries, Entries
<1>2. [file EXCEPT !.readable = FALSE, !.entries = NoEntries] \in Files
  BY <1>1 DEF TypeOK, Files
<1>3. ASSUME NEW p \in Pids PROVE EntryOf(p) \in Entries /\ Without(copy[p], id[p]) \in Entries
  BY DEF TypeOK, EntryOf, Without, Entries
<1>4. ASSUME NEW entries \in Entries PROVE Overwritten(file, entries) \subseteq Files
  <2>1. ASSUME NEW f \in Overwritten(file, entries) PROVE f \in Files
    BY <2>1 DEF Overwritten, Files
  <2> QED BY <2>1
<1> QED BY <1>1, <1>2, <1>3, <1>4

(* An entry that is left behind is of its type. *)
LEMMA OutlivesTyped ==
  ASSUME TypeOK, NEW p \in Pids, NEW cond, OutlivesIf(p, cond)
  PROVE  outlived' \subseteq (Ids \cup {Nobody}) \X Pids
<1>1. <<id[p], p>> \in (Ids \cup {Nobody}) \X Pids
  BY DEF TypeOK
<1> QED BY <1>1 DEF TypeOK, OutlivesIf, Outlives

(* Every step keeps the types. *)
LEMMA TypeStep == TypeOK /\ [Next]_vars => TypeOK'
<1> SUFFICES ASSUME TypeOK, [Next]_vars PROVE TypeOK'
  OBVIOUS
<1>1. ASSUME NEW p \in Pids, NEW i \in Ids, Start(p, i) PROVE TypeOK'
  BY <1>1, GotoTyped DEF Start, TypeOK, Steps
<1>2. ASSUME NEW p \in Pids, Stop(p) PROVE TypeOK'
  BY <1>2, GotoTyped DEF Stop, TypeOK, Steps, Stopping
<1>3. ASSUME NEW p \in Pids, Handshake(p) PROVE TypeOK'
  BY <1>3, GotoTyped DEF Handshake, TypeOK, Steps
<1>4. ASSUME NEW p \in Pids, RelayCloses(p) PROVE TypeOK'
  BY <1>4, GotoTyped DEF RelayCloses, TypeOK, Steps
<1>5. ASSUME NEW p \in Pids, Killed(p) PROVE TypeOK'
  BY <1>5, EndTyped, OutlivesTyped DEF Killed, TypeOK
<1>6. ASSUME NEW p \in Pids, Connect(p) PROVE TypeOK'
  BY <1>6, EndTyped, GotoTyped DEF Connect, TypeOK, Steps
<1>7. ASSUME NEW p \in Pids, Dial(p) PROVE TypeOK'
  BY <1>7, GotoTyped DEF Dial, TypeOK, Steps
<1>8. ASSUME NEW p \in Pids, Listen(p) PROVE TypeOK'
  BY <1>8, GotoTyped DEF Listen, ListenFailed, TypeOK, Steps
<1>9. ASSUME NEW p \in Pids, Register(p) \/ Deregister(p) PROVE TypeOK'
  <2>1. outlived' \subseteq (Ids \cup {Nobody}) \X Pids
    BY <1>9, OutlivesTyped DEF Register, Deregister, TypeOK
  <2> QED BY <1>9, <2>1, GotoTyped DEF Register, Deregister, Reads, TypeOK, Steps, Serving, Leaving, Files
<1>10. ASSUME NEW p \in Pids, Enter(p) \/ Leave(p) \/ Strike(p) PROVE TypeOK'
  BY <1>10, GotoTyped, FilesTyped DEF Enter, Leave, Strike, Truncates, TypeOK, Steps, Serving, Leaving, Stopping
<1>11. ASSUME NEW p \in Pids, Entering(p) PROVE TypeOK'
  BY <1>11, GotoTyped, FilesTyped DEF Entering, TypeOK, Steps, Serving
<1>12. ASSUME NEW p \in Pids, Leaves(p) PROVE TypeOK'
  <2>1. outlived' \subseteq (Ids \cup {Nobody}) \X Pids
    BY <1>12, OutlivesTyped DEF Leaves
  <2> QED BY <1>12, <2>1, GotoTyped, FilesTyped DEF Leaves, TypeOK, Steps
<1>13. ASSUME NEW p \in Pids, Striking(p) PROVE TypeOK'
  <2>1. file' \in Files
    BY <1>13, FilesTyped DEF Striking
  <2> QED BY <1>13, <2>1, EndTyped DEF Striking, TypeOK
<1>14. ASSUME NEW p \in Pids, Close(p) PROVE TypeOK'
  BY <1>14, GotoTyped DEF Close, TypeOK, Steps
<1>15. ASSUME NEW p \in Pids, Hangup(p) PROVE TypeOK'
  BY <1>15, EndTyped DEF Hangup, TypeOK
<1>16. ASSUME NEW p \in Pids, Look(p) PROVE TypeOK'
  BY <1>16, EndTyped, GotoTyped DEF Look, TypeOK, Steps, Stopping, Files
<1>17. ASSUME NEW p \in Pids, Signal(p) PROVE TypeOK'
  BY <1>17, GotoTyped DEF Signal, TypeOK, Steps, Stopping
<1>18. ASSUME NEW p \in Pids, WriteFails(p) PROVE TypeOK'
  <2>1. outlived' \subseteq (Ids \cup {Nobody}) \X Pids
    BY <1>18, OutlivesTyped DEF WriteFails, TypeOK
  <2> QED BY <1>18, <2>1, EndTyped, GotoTyped, FilesTyped DEF WriteFails, TypeOK, Steps, Serving
<1>19. CASE UNCHANGED vars
  BY <1>19 DEF vars, TypeOK
<1> QED BY <1>1, <1>2, <1>3, <1>4, <1>5, <1>6, <1>7, <1>8, <1>9, <1>10, <1>11, <1>12, <1>13,
           <1>14, <1>15, <1>16, <1>17, <1>18, <1>19 DEF Next, Step

(* The file, the processes and what they hold keep their types. *)
THEOREM ForwardsTyped == SafetySpec => []TypeOK
<1>1. Init => TypeOK
  BY ForwardsAssumption DEF Init, TypeOK, Files, Entries, NoEntries, Steps
<1> QED BY <1>1, TypeStep, PTL DEF SafetySpec

----------------------------------------------------------------------------
(* Sessions *)

(* A process that owes the end of a session is on its way to revoking it. *)
OnTheWay == \A p \in owed : pc[p] \notin {"none", "connect"} \cup Stopping
SessionsInv == TypeOK /\ OnTheWay

(* Every step keeps a process that owes on its way. *)
LEMMA OnTheWayStep == SessionsInv /\ [Next]_vars => OnTheWay'
<1> SUFFICES ASSUME TypeOK, OnTheWay, [Next]_vars PROVE OnTheWay'
  BY DEF SessionsInv
<1> USE DEF TypeOK, OnTheWay, Goto, Stopping
<1>1. ASSUME NEW p \in Pids, NEW i \in Ids, Start(p, i) PROVE OnTheWay'
  BY <1>1 DEF Start, MayBegin
<1>2. ASSUME NEW p \in Pids, Stop(p) PROVE OnTheWay'
  BY <1>2 DEF Stop, MayBegin
<1>3. ASSUME NEW p \in Pids, Handshake(p) \/ RelayCloses(p) \/ Close(p) PROVE OnTheWay'
  BY <1>3 DEF Handshake, RelayCloses, Close
<1>4. ASSUME NEW p \in Pids, Killed(p) \/ Hangup(p) PROVE OnTheWay'
  BY <1>4 DEF Killed, Hangup, End
<1>5. ASSUME NEW p \in Pids, Connect(p) PROVE OnTheWay'
  BY <1>5 DEF Connect, End
<1>6. ASSUME NEW p \in Pids, Dial(p) \/ Listen(p) PROVE OnTheWay'
  BY <1>6 DEF Dial, Listen, ListenFailed
<1>7. ASSUME NEW p \in Pids, Register(p) \/ Deregister(p) PROVE OnTheWay'
  BY <1>7 DEF Register, Deregister, Reads
<1>8. ASSUME NEW p \in Pids, Enter(p) \/ Leave(p) \/ Strike(p) PROVE OnTheWay'
  BY <1>8 DEF Enter, Leave, Strike, Truncates
<1>9. ASSUME NEW p \in Pids, Entering(p) \/ Leaves(p) PROVE OnTheWay'
  BY <1>9 DEF Entering, Leaves
<1>10. ASSUME NEW p \in Pids, Striking(p) PROVE OnTheWay'
  BY <1>10 DEF Striking, End
<1>11. ASSUME NEW p \in Pids, Look(p) PROVE OnTheWay'
  BY <1>11 DEF Look, End
<1>12. ASSUME NEW p \in Pids, Signal(p) PROVE OnTheWay'
  BY <1>12 DEF Signal
<1>13. ASSUME NEW p \in Pids, WriteFails(p) PROVE OnTheWay'
  BY <1>13 DEF WriteFails, End
<1>14. CASE UNCHANGED vars
  BY <1>14 DEF vars
<1> QED BY <1>1, <1>2, <1>3, <1>4, <1>5, <1>6, <1>7, <1>8, <1>9, <1>10, <1>11, <1>12, <1>13,
           <1>14 DEF Next, Step

(* A forward never ends by itself, on any path, without having revoked the *)
(* session it has opened.                                                  *)
THEOREM SessionsAreRevoked == SafetySpec => []SessionsRevoked
<1>1. Init => OnTheWay
  BY DEF Init, OnTheWay
<1>2. TypeOK /\ OnTheWay /\ [Next]_vars => OnTheWay'
  BY OnTheWayStep DEF SessionsInv
<1>3. OnTheWay => SessionsRevoked
  BY DEF OnTheWay, SessionsRevoked
<1> QED BY <1>1, <1>2, <1>3, ForwardsTyped, PTL DEF SafetySpec

----------------------------------------------------------------------------
(* The registry, when processes are orderly *)

Resting(p) == pc[p] = "serve" /\ p \notin signalled

Rest == {p \in Pids : Resting(p)}

(* The entries are the forwards at rest, and nothing else. *)
Match(entries, rest, ids) ==
  /\ \A i \in Ids : entries[i] # Nobody => entries[i] \in rest /\ ids[entries[i]] = i
  /\ \A p \in rest : entries[ids[p]] = p
Tells(entries) == Match(entries, Rest, id)

(* The steps a process takes alone; those in which it holds a port or an   *)
(* entry; those that follow a truncation.                                  *)
Alone == {"connect", "dial", "handshake", "listen", "register", "enter", "entering",
          "look", "signal"}
Holding == {"register", "enter", "entering", "serve", "deregister", "leave", "leaving"}
Writing == {"entering", "leaving", "striking"}

(* A process that is going to remove its entry, or that of a forward, and  *)
(* has not begun to write.                                                 *)
Removing(p) ==
  \/ pc[p] \in {"deregister", "leave", "strike"}
  \/ pc[p] = "serve" /\ p \in signalled
Removes(p) == Removing(p) \/ pc[p] \in {"leaving", "striking"}

Named == \A p \in Pids : pc[p] \in Steps \ {"none", "look", "hangup"} => id[p] \in Ids
OneStarts == \A p, q \in Pids : pc[p] \in Alone /\ q # p => AtRest(q)
SignalledServe ==
  \A p \in signalled : pc[p] \in {"serve", "deregister", "leave", "leaving", "hangup"}
OwnIds ==
  \A p, q \in Pids : pc[p] \in Holding /\ q # p /\ Resting(q) => id[q] # id[p]
SameRemoved == \A p, q \in Pids : Removes(p) /\ Removes(q) => id[p] = id[q]
CopiesTell ==
  \A p \in Pids :
    /\ pc[p] \in {"enter", "entering", "signal"} => Tells(copy[p])
    /\ pc[p] = "signal" => copy[p][id[p]] # Nobody
    /\ pc[p] \in {"leave", "leaving", "strike", "striking"} => Tells(Without(copy[p], id[p]))
WritersTell ==
  \A p \in Pids :
    pc[p] \in Writing =>
      \/ ~file.readable /\ file.entries = NoEntries
      \/ pc[p] # "entering" /\ Tells(file.entries)

(* The file tells; or it has one entry too many, which is being removed;   *)
(* or it is being written.                                                 *)
FileTells ==
  \/ file.readable /\ Tells(file.entries)
  \/ \E p \in Pids : file.readable /\ Removing(p) /\ Tells(Without(file.entries, id[p]))
  \/ \E p \in Pids : pc[p] \in Writing

InOrder ==
  /\ Named /\ OneStarts /\ SignalledServe /\ OwnIds /\ SameRemoved
  /\ CopiesTell /\ WritersTell /\ FileTells
OrderInv == orderly => InOrder

----------------------------------------------------------------------------
(* What entries that match say *)

(* There is one way to match. *)
LEMMA MatchUnique ==
  ASSUME NEW e \in Entries, NEW f \in Entries, NEW rest, NEW ids,
         Match(e, rest, ids), Match(f, rest, ids)
  PROVE  e = f
<1>1. ASSUME NEW i \in Ids PROVE e[i] = f[i]
  BY DEF Match
<1> QED BY <1>1 DEF Entries

(* What the processes that are not at rest are about does not matter. *)
LEMMA MatchSame ==
  ASSUME NEW e, NEW rest, NEW ids, NEW ids2, \A p \in rest : ids[p] = ids2[p]
  PROVE  Match(e, rest, ids) <=> Match(e, rest, ids2)
  BY DEF Match

(* A forward that nobody at rest is, is not there to be removed. *)
LEMMA MatchWithoutAbsent ==
  ASSUME NEW e \in Entries, NEW rest, NEW ids, NEW i \in Ids,
         Match(e, rest, ids), \A q \in rest : ids[q] # i
  PROVE  Without(e, i) = e
  BY DEF Match, Without, Entries

(* A forward that is not at rest any more, is removed. *)
LEMMA MatchWithout ==
  ASSUME NEW e \in Entries, NEW rest, NEW ids, NEW p \in rest, ids[p] \in Ids, p # Nobody,
         Match(e, rest, ids)
  PROVE  Match(Without(e, ids[p]), rest \ {p}, ids)
  BY DEF Match, Without, Entries

(* A forward that comes to rest, is entered. *)
LEMMA MatchWith ==
  ASSUME NEW e \in Entries, NEW rest, NEW ids, NEW p \in Pids, ids[p] \in Ids,
         Match(e, rest, ids), \A q \in rest : ids[q] # ids[p]
  PROVE  Match([e EXCEPT ![ids[p]] = p], rest \cup {p}, ids)
  BY DEF Match, Entries

----------------------------------------------------------------------------
(* Every step keeps the order *)

(* A step of p, which is not at rest before or after it. *)
Calmly(p) ==
  /\ \A q \in Pids \ {p} :
       pc'[q] = pc[q] /\ id'[q] = id[q] /\ copy'[q] = copy[q] /\ (q \in signalled' <=> q \in signalled)
  /\ ~Resting(p) /\ ~Resting(p)'

(* Such a step leaves what entries must say alone. *)
LEMMA CalmlySame ==
  ASSUME NEW p \in Pids, Calmly(p)
  PROVE  /\ Rest' = Rest
         /\ \A q \in Pids : Resting(q)' = Resting(q)
         /\ \A e : Match(e, Rest', id') <=> Match(e, Rest, id)
<1>1. \A q \in Pids : Resting(q)' = Resting(q)
  BY DEF Calmly, Resting
<1>2. Rest' = Rest
  BY <1>1 DEF Rest
<1>3. \A q \in Rest : id'[q] = id[q]
  BY DEF Rest, Calmly
<1> QED BY <1>1, <1>2, <1>3, MatchSame

(* A step that leaves the file alone, after which its process is at a step *)
(* it takes alone, or ends: a process starts or gets on.                   *)
LEMMA AloneKeepsOrder ==
  ASSUME TypeOK, TypeOK', InOrder, NEW p \in Pids, Calmly(p),
         \/ pc[p] = "none" /\ Quiet
         \/ pc[p] \in Alone \ {"entering"},
         pc'[p] \in Alone \cup {"none", "hangup"}, pc'[p] # "entering",
         pc'[p] \in Alone \ {"look"} => id'[p] \in Ids,
         pc'[p] \in {"register", "enter"} => \A q \in Pids \ {p} : Resting(q) => id[q] # id'[p],
         pc'[p] \in {"enter", "signal"} => Tells(copy'[p]),
         pc'[p] = "signal" => copy'[p][id'[p]] # Nobody,
         signalled' \subseteq signalled, UNCHANGED file
  PROVE  InOrder'
<1> USE DEF Calmly
<1>1. Named'
  BY DEF InOrder, Named, Alone, TypeOK
<1>2. \A q \in Pids \ {p} : AtRest(q) /\ AtRest(q)'
  BY DEF InOrder, OneStarts, Quiet, AtRest
<1>3. OneStarts'
  BY <1>2 DEF OneStarts, AtRest, Alone
<1>4. SignalledServe'
  BY DEF InOrder, SignalledServe, Alone, TypeOK
<1>5. OwnIds'
  BY CalmlySame, <1>2 DEF InOrder, OwnIds, Resting, Holding, Alone, AtRest
<1>6. \A q \in Pids : ~Removes(q)'
  BY <1>2 DEF Removes, Removing, AtRest, Alone
<1>7. SameRemoved'
  BY <1>6 DEF SameRemoved
<1>8. CopiesTell'
  BY CalmlySame, <1>2 DEF CopiesTell, Tells, AtRest, Alone
<1>9. ~\E q \in Pids : pc[q] \in Writing \/ Removing(q)
  BY <1>2 DEF Writing, Removing, AtRest, Alone
<1>10. WritersTell'
  BY <1>2, CalmlySame DEF InOrder, WritersTell, Writing, AtRest, Alone
<1>11. FileTells'
  <2>1. file.readable /\ Tells(file.entries)
    BY <1>9 DEF InOrder, FileTells
  <2> QED BY <2>1, CalmlySame DEF FileTells, Tells
<1> QED BY <1>1, <1>3, <1>4, <1>5, <1>7, <1>8, <1>10, <1>11 DEF InOrder

(* A forward, or stop, starts, gets on or gives up. *)
LEMMA StartsKeepOrder ==
  ASSUME TypeOK, TypeOK', orderly, InOrder, NEW p \in Pids,
         \/ \E i \in Ids : Start(p, i)
         \/ Stop(p) \/ Connect(p) \/ Dial(p) \/ Handshake(p) \/ Listen(p) \/ Register(p) \/ Look(p)
  PROVE  InOrder'
<1> USE DEF Goto, TypeOK
<1>1. p \notin signalled \/ pc[p] = "hangup"
  BY DEF InOrder, SignalledServe, Start, Stop, Connect, Dial, Handshake, Listen, Register, Look, MayBegin
<1>2. ASSUME NEW i \in Ids, Start(p, i) PROVE InOrder'
  BY <1>1, <1>2, AloneKeepsOrder DEF Start, MayBegin, Calmly, Resting, Alone
<1>3. CASE Stop(p)
  BY <1>1, <1>3, AloneKeepsOrder DEF Stop, MayBegin, Calmly, Resting, Alone
<1>4. CASE Connect(p)
  BY <1>1, <1>4, AloneKeepsOrder DEF Connect, End, Calmly, Resting, Alone, InOrder, Named, Steps
<1>5. CASE Dial(p)
  BY <1>1, <1>5, AloneKeepsOrder DEF Dial, Calmly, Resting, Alone, InOrder, Named, Steps
<1>6. CASE Handshake(p)
  BY <1>1, <1>6, AloneKeepsOrder DEF Handshake, Calmly, Resting, Alone, InOrder, Named, Steps
<1>7. CASE Listen(p)
  <2>1. id[p] \in Ids
    BY <1>7 DEF Listen, InOrder, Named, Steps
  <2>2. ASSUME Listening(PortOf[id[p]]) = {}, NEW q \in Pids, Resting(q) PROVE id[q] # id[p]
    BY <2>2 DEF Listening, Resting, Serving
  <2> QED BY <1>1, <1>7, <2>1, <2>2, AloneKeepsOrder DEF Listen, ListenFailed, Calmly, Resting, Alone
<1>8. ASSUME NEW q \in Pids, pc[p] \in Alone \ {"entering"}
      PROVE  file.readable /\ Tells(file.entries)
  <2>1. \A r \in Pids : pc[r] \notin Writing /\ ~Removing(r)
    BY <1>8 DEF InOrder, OneStarts, AtRest, Writing, Removing, Alone
  <2> QED BY <2>1 DEF InOrder, FileTells
<1>9. CASE Register(p)
  <2>1. id[p] \in Ids /\ \A q \in Pids \ {p} : Resting(q) => id[q] # id[p]
    BY <1>9 DEF Register, InOrder, Named, OwnIds, Holding, Steps
  <2>2. pc'[p] = "enter" /\ copy'[p] = file.entries /\ Tells(file.entries)
    BY <1>8, <1>9 DEF Register, Reads, Alone
  <2> QED BY <1>1, <1>9, <2>1, <2>2, AloneKeepsOrder DEF Register, Reads, Calmly, Resting, Alone
<1>10. CASE Look(p)
  <2>1. Tells(file.entries)
    BY <1>8, <1>10 DEF Look, Alone
  <2> QED BY <1>1, <1>10, <2>1, AloneKeepsOrder DEF Look, End, Calmly, Resting, Alone
<1> QED BY <1>2, <1>3, <1>4, <1>5, <1>6, <1>7, <1>9, <1>10

(* A forward begins to write its entry. *)
LEMMA EnterKeepsOrder ==
  ASSUME TypeOK, TypeOK', orderly, InOrder, NEW p \in Pids, Enter(p)
  PROVE  InOrder'
<1> USE DEF Goto, TypeOK, Enter, Truncates
<1>1. Calmly(p)
  BY DEF Calmly, Resting
<1>2. \A q \in Pids \ {p} : AtRest(q) /\ AtRest(q)'
  BY DEF InOrder, OneStarts, Alone, AtRest
<1>3. Named' /\ OneStarts' /\ SignalledServe'
  BY <1>2 DEF InOrder, Named, OneStarts, SignalledServe, AtRest, Alone, Steps, Serving
<1>4. OwnIds'
  BY <1>1, <1>2, CalmlySame DEF InOrder, OwnIds, Resting, Holding, AtRest
<1>5. SameRemoved'
  BY <1>2 DEF SameRemoved, Removes, Removing, AtRest
<1>6. CopiesTell'
  BY <1>1, <1>2, CalmlySame DEF InOrder, CopiesTell, Tells, AtRest
<1>7. WritersTell' /\ FileTells'
  <2>1. file'.entries = NoEntries
    BY DEF Files
  <2> QED BY <2>1 DEF WritersTell, FileTells, Writing
<1> QED BY <1>3, <1>4, <1>5, <1>6, <1>7 DEF InOrder

(* What a process writes after a truncation is the file. *)
LEMMA WritesWhole ==
  ASSUME TypeOK, WritersTell, NEW p \in Pids, pc[p] \in Writing,
         NEW e \in Entries, Tells(e) \/ pc[p] = "entering", NEW f \in Overwritten(file, e)
  PROVE  f = [readable |-> TRUE, entries |-> e]
<1>1. file.entries \in {NoEntries, e}
  BY MatchUnique DEF WritersTell, Tells, TypeOK, Files
<1> QED BY <1>1 DEF Overwritten

(* A forward writes its entry, and is at rest. *)
LEMMA EnteringKeepsOrder ==
  ASSUME TypeOK, TypeOK', orderly, InOrder, NEW p \in Pids, Entering(p)
  PROVE  InOrder'
<1> USE DEF Goto, TypeOK, Entering
<1>1. \A q \in Pids \ {p} : AtRest(q) /\ AtRest(q)'
  BY DEF InOrder, OneStarts, Alone, AtRest
<1>2. p \notin signalled /\ id[p] \in Ids /\ ~Resting(p)
  BY DEF InOrder, SignalledServe, Named, Steps, Serving, Resting
<1>3. \A q \in Pids \ {p} : Resting(q)' = Resting(q)
  BY DEF Resting
<1>4. Rest' = Rest \cup {p}
  BY <1>2, <1>3 DEF Rest, Resting
<1>5. \A q \in Rest : id[q] # id[p]
  BY <1>2 DEF InOrder, OwnIds, Holding, Rest
<1>6. Match(EntryOf(p), Rest', id')
  <2>1. Match(copy[p], Rest, id)
    BY DEF InOrder, CopiesTell, Tells
  <2> QED BY <1>2, <1>4, <1>5, <2>1, MatchWith DEF EntryOf
<1>7. file' = [readable |-> TRUE, entries |-> EntryOf(p)]
  BY FilesTyped, WritesWhole DEF InOrder, Writing
<1>8. Named' /\ OneStarts' /\ SignalledServe'
  BY <1>1, <1>2 DEF InOrder, Named, OneStarts, SignalledServe, AtRest, Alone, Steps, Serving
<1>9. OwnIds'
  BY <1>1, <1>2, <1>3 DEF InOrder, OwnIds, Resting, Holding, AtRest
<1>10. SameRemoved' /\ CopiesTell' /\ WritersTell'
  BY <1>1, <1>2 DEF SameRemoved, Removes, Removing, AtRest, CopiesTell, WritersTell, Writing
<1>11. FileTells'
  BY <1>6, <1>7 DEF FileTells, Tells
<1> QED BY <1>8, <1>9, <1>10, <1>11 DEF InOrder

(* The relay of a forward at rest closes. *)
LEMMA RelayClosesKeepsOrder ==
  ASSUME TypeOK, TypeOK', orderly, InOrder, NEW p \in Pids, RelayCloses(p)
  PROVE  InOrder'
<1> USE DEF Goto, TypeOK, RelayCloses
<1>1. \A q \in Pids : AtRest(q)
  BY DEF Quiet
<1>2. \A q \in Pids \ {p} : AtRest(q)' /\ Resting(q)' = Resting(q)
  BY <1>1 DEF AtRest, Resting
<1>3. id[p] \in Ids /\ Resting(p) /\ ~Resting(p)' /\ p \in Rest /\ Rest' = Rest \ {p}
  BY <1>1, <1>2 DEF InOrder, Named, Steps, Serving, Resting, AtRest, Rest
<1>4. file.readable /\ Match(file.entries, Rest, id)
  BY <1>1 DEF InOrder, FileTells, Removing, Writing, AtRest, Tells
<1>5. Match(Without(file.entries, id[p]), Rest', id)
  BY <1>3, <1>4, MatchWithout, ForwardsAssumption DEF Files
<1>6. Named' /\ OneStarts' /\ SignalledServe'
  BY <1>1, <1>2, <1>3 DEF InOrder, Named, OneStarts, SignalledServe, AtRest, Alone, Steps
<1>7. OwnIds'
  BY <1>1, <1>2, <1>3 DEF InOrder, OwnIds, Resting, Holding, AtRest
<1>8. SameRemoved' /\ CopiesTell' /\ WritersTell'
  BY <1>1, <1>2 DEF SameRemoved, Removes, Removing, AtRest, CopiesTell, WritersTell, Writing
<1>9. FileTells'
  BY <1>4, <1>5 DEF FileTells, Removing, Tells
<1> QED BY <1>6, <1>7, <1>8, <1>9 DEF InOrder

(* When stop is about to signal, it is about a forward at rest. *)
LEMMA TargetRests ==
  ASSUME TypeOK, InOrder, NEW p \in Pids, pc[p] = "signal"
  PROVE  /\ id[p] \in Ids
         /\ Target(p) \in Rest \ {p}
         /\ id[Target(p)] = id[p]
<1>1. id[p] \in Ids
  BY DEF InOrder, Named, Steps, Stopping
<1>2. Match(copy[p], Rest, id) /\ copy[p][id[p]] # Nobody
  BY DEF InOrder, CopiesTell, Tells
<1> QED BY <1>1, <1>2 DEF Match, Target, Rest, Resting

(* Stop signals a forward at rest. *)
LEMMA SignalKeepsOrder ==
  ASSUME TypeOK, TypeOK', orderly, InOrder, NEW p \in Pids, Signal(p)
  PROVE  InOrder'
<1> DEFINE t == Target(p)
<1> USE DEF Goto, TypeOK, Signal
<1>1. id[p] \in Ids /\ t \in Rest \ {p} /\ t \in Pids /\ id[t] = id[p] /\ pc[t] = "serve"
  BY TargetRests DEF Rest, Resting
<1>2. signalled' = signalled \cup {t}
  BY <1>1
<1> HIDE DEF t
<1>3. \A q \in Pids \ {p} : AtRest(q) /\ pc'[q] = pc[q]
  BY DEF InOrder, OneStarts, Alone
<1>4. \A q \in Pids \ {t} : Resting(q)' = Resting(q)
  BY <1>1, <1>2 DEF Resting
<1>5. Rest' = Rest \ {t}
  BY <1>1, <1>2, <1>4 DEF Rest, Resting
<1>6. \A q \in Pids \ {p, t} : AtRest(q)'
  BY <1>2, <1>3 DEF AtRest
<1>7. Match(Without(copy[p], id[p]), Rest', id)
  BY <1>1, <1>5, MatchWithout, ForwardsAssumption DEF InOrder, CopiesTell, Tells
<1>8. file.readable /\ Match(file.entries, Rest, id)
  BY <1>3 DEF InOrder, FileTells, Removing, Writing, AtRest, Tells
<1>9. Match(Without(file.entries, id[p]), Rest', id)
  BY <1>1, <1>5, <1>8, MatchWithout, ForwardsAssumption DEF Files
<1>10. Named' /\ OneStarts' /\ SignalledServe'
  BY <1>1, <1>2, <1>3, <1>6 DEF InOrder, Named, OneStarts, SignalledServe, AtRest, Alone, Steps, Stopping
<1>11. OwnIds'
  BY <1>1, <1>3, <1>4, <1>5 DEF InOrder, OwnIds, Rest, Resting, Holding
<1>12. SameRemoved'
  BY <1>1, <1>2, <1>3, <1>6 DEF SameRemoved, Removes, Removing, AtRest
<1>13. CopiesTell' /\ WritersTell'
  BY <1>1, <1>3, <1>7 DEF AtRest, CopiesTell, WritersTell, Writing, Tells
<1>14. FileTells'
  BY <1>8, <1>9 DEF FileTells, Removing, Tells
<1> QED BY <1>10, <1>11, <1>12, <1>13, <1>14 DEF InOrder

(* A forward that is not at rest gets on with its end, or stop with its    *)
(* removal, without touching the file.                                     *)
LEMMA EndsKeepOrder ==
  ASSUME TypeOK, TypeOK', orderly, InOrder, NEW p \in Pids,
         Close(p) \/ Deregister(p) \/ Hangup(p)
  PROVE  InOrder'
<1> USE DEF Goto, TypeOK
<1>1. Calmly(p)
  BY DEF Calmly, Close, Deregister, Hangup, End, Reads, MustClose, Resting
<1>2. \A q \in Pids : pc[q] \notin Alone
  <2>1. ~AtRest(p)
    BY DEF AtRest, Close, MustClose, Deregister, Hangup
  <2> QED BY <2>1 DEF InOrder, OneStarts, AtRest, Alone, Close, Deregister, Hangup
<1>3. pc'[p] \in {"deregister", "leave", "hangup", "none"} /\ file' = file /\ signalled' \subseteq signalled
  BY DEF Close, Deregister, Hangup, End, Reads
<1>3a. pc'[p] = "none" => p \notin signalled'
  BY DEF Close, Deregister, Hangup, End, Reads
<1>3b. pc[p] \notin Writing /\ (file.readable /\ Removing(p) => Removing(p)' /\ id'[p] = id[p])
  BY DEF Close, Deregister, Hangup, Reads, Removing, Writing
<1>4. pc'[p] \in {"deregister", "leave"} => Removing(p) /\ id'[p] = id[p] /\ pc[p] \in {"serve", "deregister"}
  BY DEF Close, Deregister, Hangup, End, Reads, MustClose, Removing
<1>5. Named' /\ OneStarts'
  BY <1>1, <1>2, <1>3, <1>4 DEF Calmly, InOrder, Named, OneStarts, Alone, Steps
<1>6. SignalledServe'
  BY <1>1, <1>3, <1>3a DEF Calmly, InOrder, SignalledServe
<1>7. OwnIds'
  BY <1>1, <1>3, <1>4, CalmlySame DEF Calmly, InOrder, OwnIds, Holding
<1>8. SameRemoved'
  BY <1>1, <1>3, <1>4 DEF Calmly, InOrder, SameRemoved, Removes, Removing
<1>9. ASSUME pc'[p] = "leave"
      PROVE  copy'[p] = file.entries /\ Match(Without(file.entries, id[p]), Rest, id)
  <2>1. pc[p] = "deregister" /\ file.readable /\ copy'[p] = file.entries
    BY <1>9 DEF Close, Deregister, Hangup, End, Reads
  <2>2. id[p] \in Ids /\ file.entries \in Entries
    BY <2>1 DEF InOrder, Named, Steps, Files
  <2>3. CASE Tells(file.entries)
    <3>1. \A q \in Rest : id[q] # id[p]
      BY <2>1 DEF InOrder, OwnIds, Holding, Rest, Resting
    <3> QED BY <2>1, <2>2, <2>3, <3>1, MatchWithoutAbsent DEF Tells
  <2>4. CASE \E q \in Pids : Removing(q) /\ Tells(Without(file.entries, id[q]))
    BY <2>1, <2>4 DEF InOrder, SameRemoved, Removes, Removing, Tells
  <2>5. CASE \E q \in Pids : pc[q] \in Writing
    BY <2>1, <2>3, <2>5 DEF InOrder, WritersTell
  <2> QED BY <2>1, <2>3, <2>4, <2>5 DEF InOrder, FileTells
<1>10. CopiesTell'
  <2>1. ASSUME NEW q \in Pids \ {p}
        PROVE  /\ pc'[q] \in {"enter", "entering", "signal"} => Match(copy'[q], Rest', id')
               /\ pc'[q] = "signal" => copy'[q][id'[q]] # Nobody
               /\ pc'[q] \in {"leave", "leaving", "strike", "striking"}
                    => Match(Without(copy'[q], id'[q]), Rest', id')
    BY <1>1, CalmlySame DEF Calmly, InOrder, CopiesTell, Tells
  <2>2. pc'[p] = "leave" => Match(Without(copy'[p], id'[p]), Rest', id')
    BY <1>1, <1>4, <1>9, CalmlySame
  <2> QED BY <1>3, <2>1, <2>2 DEF CopiesTell, Tells
<1>11. WritersTell'
  BY <1>1, <1>3, CalmlySame DEF Calmly, InOrder, WritersTell, Writing, Tells
<1>12. FileTells'
  <2>1. \A q \in Pids \ {p} : Removing(q)' = Removing(q) /\ pc'[q] = pc[q] /\ id'[q] = id[q]
    BY <1>1 DEF Calmly, Removing
  <2>2. CASE file.readable /\ Tells(file.entries)
    BY <1>1, <1>3, <2>2, CalmlySame DEF FileTells, Tells
  <2>3. ASSUME NEW q \in Pids, file.readable, Removing(q), Tells(Without(file.entries, id[q]))
        PROVE  FileTells'
    <3>1. Removing(q)' /\ id'[q] = id[q] /\ Match(Without(file.entries, id[q]), Rest', id')
      BY <1>1, <1>3b, <2>1, <2>3, CalmlySame DEF Tells
    <3> QED BY <1>3, <2>3, <3>1 DEF FileTells, Tells
  <2>4. ASSUME NEW q \in Pids, pc[q] \in Writing PROVE FileTells'
    BY <1>3b, <2>1, <2>4 DEF FileTells, Writing
  <2> QED BY <2>2, <2>3, <2>4 DEF InOrder, FileTells
<1> QED BY <1>5, <1>6, <1>7, <1>8, <1>10, <1>11, <1>12 DEF InOrder

(* An entry is about to be removed. *)
LEMMA TruncatesKeepsOrder ==
  ASSUME TypeOK, TypeOK', orderly, InOrder, NEW p \in Pids, Leave(p) \/ Strike(p)
  PROVE  InOrder'
<1> USE DEF Goto, TypeOK
<1>1. Calmly(p) /\ signalled' = signalled /\ copy' = copy /\ id' = id
  BY DEF Calmly, Leave, Strike, Truncates, Resting
<1>2. \/ pc[p] = "leave" /\ pc'[p] = "leaving"
      \/ pc[p] = "strike" /\ pc'[p] = "striking"
  BY DEF Leave, Strike, Truncates
<1>3. \A q \in Pids : pc[q] \notin Alone
  BY <1>2 DEF InOrder, OneStarts, AtRest, Alone
<1>4. ~file'.readable /\ file'.entries = NoEntries
  BY DEF Leave, Strike, Truncates, Files
<1>5. Named' /\ OneStarts' /\ SignalledServe'
  BY <1>1, <1>2, <1>3 DEF Calmly, InOrder, Named, OneStarts, SignalledServe, Alone, Steps, Leaving, Stopping
<1>6. OwnIds'
  BY <1>1, <1>2, CalmlySame DEF Calmly, InOrder, OwnIds, Holding
<1>7. SameRemoved'
  BY <1>1, <1>2 DEF Calmly, InOrder, SameRemoved, Removes, Removing
<1>8. CopiesTell'
  BY <1>1, <1>2, CalmlySame DEF Calmly, InOrder, CopiesTell, Tells
<1>9. WritersTell' /\ FileTells'
  BY <1>2, <1>4 DEF WritersTell, FileTells, Writing
<1> QED BY <1>5, <1>6, <1>7, <1>8, <1>9 DEF InOrder

(* An entry is removed. *)
LEMMA WritesKeepOrder ==
  ASSUME TypeOK, TypeOK', orderly, InOrder, NEW p \in Pids, Leaves(p) \/ Striking(p)
  PROVE  InOrder'
<1> USE DEF Goto, TypeOK
<1>1. Calmly(p) /\ signalled' \subseteq signalled
  BY DEF Calmly, Leaves, Striking, End, Resting
<1>2. /\ pc[p] \in {"leaving", "striking"} /\ pc'[p] \in {"hangup", "none"}
      /\ pc'[p] = "none" => p \notin signalled'
  BY DEF Leaves, Striking, End
<1>3. \A q \in Pids : pc[q] \notin Alone
  BY <1>2 DEF InOrder, OneStarts, AtRest, Alone
<1> DEFINE e == Without(copy[p], id[p])
<1>4. e \in Entries /\ Tells(e)
  BY <1>2, FilesTyped DEF InOrder, CopiesTell
<1>5. file' \in Overwritten(file, e)
  BY DEF Leaves, Striking
<1> HIDE DEF e
<1>6. file' = [readable |-> TRUE, entries |-> e]
  BY <1>2, <1>4, <1>5, WritesWhole DEF InOrder, Writing
<1>7. Match(file'.entries, Rest', id') /\ file'.readable
  BY <1>1, <1>4, <1>6, CalmlySame DEF Tells
<1>8. Named' /\ OneStarts' /\ SignalledServe'
  BY <1>1, <1>2, <1>3 DEF Calmly, InOrder, Named, OneStarts, SignalledServe, Alone
<1>9. OwnIds'
  BY <1>1, <1>2, CalmlySame DEF Calmly, InOrder, OwnIds, Holding
<1>10. SameRemoved'
  BY <1>1, <1>2 DEF Calmly, InOrder, SameRemoved, Removes, Removing
<1>11. CopiesTell'
  BY <1>1, <1>2, CalmlySame DEF Calmly, InOrder, CopiesTell, Tells
<1>12. WritersTell' /\ FileTells'
  BY <1>1, <1>2, <1>3, <1>7 DEF Calmly, WritersTell, FileTells, Tells, Alone
<1> QED BY <1>8, <1>9, <1>10, <1>11, <1>12 DEF InOrder

(* Every step keeps processes that are orderly in order. *)
LEMMA OrderStep == TypeOK /\ TypeOK' /\ OrderInv /\ [Next]_vars => OrderInv'
<1> SUFFICES ASSUME TypeOK, TypeOK', OrderInv, [Next]_vars, orderly' PROVE InOrder'
  BY DEF OrderInv
<1>1. CASE UNCHANGED vars
  BY <1>1 DEF OrderInv, vars, InOrder, Named, OneStarts, SignalledServe, OwnIds, SameRemoved, CopiesTell,
       WritersTell, FileTells, Removes, Removing, AtRest, Tells, Rest, Resting
<1>2. ASSUME NEW p \in Pids, NEW i \in Ids, Start(p, i) PROVE InOrder'
  BY <1>2, StartsKeepOrder DEF OrderInv, Start
<1>3. ASSUME NEW p \in Pids, Stop(p) \/ Handshake(p) \/ RelayCloses(p) PROVE InOrder'
  BY <1>3, StartsKeepOrder, RelayClosesKeepsOrder DEF OrderInv, Stop, Handshake, RelayCloses
<1>4. ASSUME NEW p \in Pids, Killed(p) \/ WriteFails(p) PROVE InOrder'
  BY <1>4 DEF Killed, WriteFails
<1>5. ASSUME NEW p \in Pids, Connect(p) \/ Dial(p) \/ Listen(p) \/ Register(p) \/ Look(p) PROVE InOrder'
  BY <1>5, StartsKeepOrder DEF OrderInv, Connect, Dial, Listen, Register, Look
<1>6. ASSUME NEW p \in Pids, Enter(p) \/ Entering(p) \/ Signal(p) PROVE InOrder'
  BY <1>6, EnterKeepsOrder, EnteringKeepsOrder, SignalKeepsOrder DEF OrderInv, Enter, Entering, Signal
<1>7. ASSUME NEW p \in Pids, Close(p) \/ Deregister(p) \/ Hangup(p) PROVE InOrder'
  BY <1>7, EndsKeepOrder DEF OrderInv, Close, Deregister, Hangup
<1>8. ASSUME NEW p \in Pids, Leave(p) \/ Strike(p) \/ Leaves(p) \/ Striking(p) PROVE InOrder'
  BY <1>8, TruncatesKeepsOrder, WritesKeepOrder DEF OrderInv, Leave, Strike, Leaves, Striking
<1> QED BY <1>1, <1>2, <1>3, <1>4, <1>5, <1>6, <1>7, <1>8 DEF Next, Step

(* Order is there from the start and for ever. *)
LEMMA AlwaysInOrder == SafetySpec => [](TypeOK /\ OrderInv)
<1>1. Init => OrderInv
  BY DEF Init, OrderInv, InOrder, Named, OneStarts, SignalledServe, OwnIds, SameRemoved, CopiesTell,
       WritersTell, FileTells, Removes, Removing, AtRest, Tells, Rest, Resting, Match, NoEntries,
       Alone, Holding, Writing
<1> QED BY <1>1, OrderStep, ForwardsTyped, PTL DEF SafetySpec

(* When processes are orderly and at rest, the registry lists the forwards *)
(* that serve and nothing else.                                            *)
THEOREM RegistryStaysTrue == SafetySpec => []RegistryTrue
<1>1. TypeOK /\ OrderInv => RegistryTrue
  <2> SUFFICES ASSUME TypeOK, InOrder, Quiet
               PROVE  /\ file.readable /\ ActiveListed
                      /\ \A i \in Ids : file.entries[i] # Nobody =>
                           pc[file.entries[i]] = "serve" /\ id[file.entries[i]] = i
    BY DEF OrderInv, RegistryTrue
  <2>1. file.readable /\ Match(file.entries, Rest, id)
    BY DEF InOrder, FileTells, Quiet, AtRest, Removing, Writing, Tells
  <2> QED BY <2>1 DEF Match, Rest, Resting, ActiveListed, Quiet, AtRest
<1> QED BY <1>1, AlwaysInOrder, PTL

----------------------------------------------------------------------------
(* Whom stop signals, whatever processes do *)

(* An entry that can be read is that of its forward, or was left behind.   *)
EntriesAccounted ==
  file.readable =>
    \A i \in Ids, p \in Pids :
      file.entries[i] = p => Registered(p, i) \/ <<i, p>> \in outlived

(* So is one in a copy, unless its holder is about to drop it. *)
CopiesAccounted ==
  \A q, p \in Pids, i \in Ids :
    copy[q][i] = p => Registered(p, i) \/ <<i, p>> \in outlived \/ Drops(q, i)

(* A process that is past its start, or has found a forward, has one.      *)
HasForward ==
  \A p \in Pids : pc[p] \in Steps \ {"none", "look", "hangup"} => id[p] \in Ids

(* What a process has read it keeps until it has written.                  *)
Copying == {"enter", "entering", "signal", "strike", "striking"} \cup Leaving
HasCopy == \A p \in Pids : pc[p] \notin Copying => copy[p] = NoEntries

Accounted == EntriesAccounted /\ CopiesAccounted /\ HasForward /\ HasCopy

(* A step that leaves the file alone, and after which copies hold what     *)
(* they held before, what the file holds, or nothing.                      *)
LEMMA ReadsAccounted ==
  ASSUME TypeOK, TypeOK', Accounted, UNCHANGED file, NEW p \in Pids,
         \A q \in Pids \ {p} : pc'[q] = pc[q] /\ id'[q] = id[q] /\ copy'[q] = copy[q],
         \/ /\ copy'[p] = copy[p]
            /\ \A i \in Ids : /\ Drops(p, i) => Drops(p, i)'
                              /\ Registered(p, i) = Registered(p, i)'
         \/ copy'[p] = file.entries /\ file.readable
         \/ copy'[p] = NoEntries,
         \A i \in Ids : Registered(p, i) /\ ~Registered(p, i)' =>
           \/ <<i, p>> \in outlived'
           \/ ~file.readable /\ \A q \in Pids \ {p} : copy[q][i] = p => Drops(q, i),
         outlived \subseteq outlived',
         pc'[p] \in Steps \ {"none", "look", "hangup"} => id'[p] \in Ids,
         pc'[p] \notin Copying => copy'[p] = NoEntries
  PROVE  Accounted'
<1>0. \A q \in Pids \ {p}, i \in Ids : /\ Registered(q, i) = Registered(q, i)'
                                       /\ Drops(q, i) = Drops(q, i)'
  BY DEF Registered, Drops
<1>1. ASSUME NEW i \in Ids, NEW r \in Pids, file.readable, file.entries[i] = r
      PROVE  Registered(r, i)' \/ <<i, r>> \in outlived'
  BY <1>0, <1>1 DEF Accounted, EntriesAccounted
<1>2. EntriesAccounted'
  BY <1>1 DEF EntriesAccounted
<1>3. ASSUME NEW q \in Pids, NEW r \in Pids, NEW i \in Ids, copy'[q][i] = r
      PROVE  Registered(r, i)' \/ <<i, r>> \in outlived' \/ Drops(q, i)'
  <2>1. CASE q # p /\ r # p
    BY <1>0, <1>3, <2>1 DEF Accounted, CopiesAccounted
  <2>2. CASE q # p /\ r = p
    <3>1. copy[q][i] = p
      BY <1>3, <2>2
    <3> QED BY <1>0, <2>2, <3>1 DEF Accounted, CopiesAccounted
  <2>3. CASE /\ q = p /\ copy'[p] = copy[p]
             /\ Drops(p, i) => Drops(p, i)'
             /\ Registered(p, i) = Registered(p, i)'
    <3>1. copy[p][i] = r
      BY <1>3, <2>3
    <3>2. Registered(r, i) \/ <<i, r>> \in outlived \/ Drops(p, i)
      BY <3>1 DEF Accounted, CopiesAccounted
    <3>3. Registered(r, i) => Registered(r, i)'
      BY <1>0, <2>3
    <3> QED BY <2>3, <3>2, <3>3
  <2>5. CASE q = p /\ copy'[p] = file.entries /\ file.readable
    BY <1>1, <1>3, <2>5
  <2>6. CASE q = p /\ copy'[p] = NoEntries
    BY <1>3, <2>6, ForwardsAssumption DEF NoEntries
  <2> QED BY <2>1, <2>2, <2>3, <2>5, <2>6
<1>4. CopiesAccounted'
  BY <1>3 DEF CopiesAccounted
<1>5. HasForward'
  BY DEF Accounted, HasForward, TypeOK
<1>6. HasCopy'
  BY DEF Accounted, HasCopy
<1> QED BY <1>2, <1>4, <1>5, <1>6 DEF Accounted

(* A process has written entries that are accounted for, and holds no copy *)
(* any more.                                                               *)
LEMMA WritesAccounted ==
  ASSUME TypeOK, TypeOK', Accounted, NEW p \in Pids, NEW e, file' \in Overwritten(file, e),
         \A q \in Pids \ {p} : pc'[q] = pc[q] /\ id'[q] = id[q] /\ copy'[q] = copy[q],
         copy'[p] = NoEntries,
         \A i \in Ids, r \in Pids : e[i] = r => Registered(r, i)' \/ <<i, r>> \in outlived',
         \A i \in Ids : Registered(p, i) /\ ~Registered(p, i)' =>
           \/ <<i, p>> \in outlived'
           \/ \A q \in Pids \ {p} : copy[q][i] = p => Drops(q, i),
         \A i \in Ids, r \in Pids : <<i, r>> \in outlived => <<i, r>> \in outlived' \/ Registered(r, i)',
         pc'[p] \in Steps \ {"none", "look", "hangup"} => id'[p] \in Ids
  PROVE  Accounted'
<1>0. \A q \in Pids \ {p}, i \in Ids : /\ Registered(q, i) = Registered(q, i)'
                                       /\ Drops(q, i) = Drops(q, i)'
  BY DEF Registered, Drops
<1>1. file'.entries = e
  BY DEF Overwritten
<1>2. EntriesAccounted'
  BY <1>1 DEF EntriesAccounted
<1>3. ASSUME NEW q \in Pids, NEW r \in Pids, NEW i \in Ids, copy'[q][i] = r
      PROVE  Registered(r, i)' \/ <<i, r>> \in outlived' \/ Drops(q, i)'
  <2>1. q # p /\ copy[q][i] = r
    BY <1>3, ForwardsAssumption DEF NoEntries
  <2>2. Registered(r, i) \/ <<i, r>> \in outlived \/ Drops(q, i)
    BY <2>1 DEF Accounted, CopiesAccounted
  <2>3. Drops(q, i) => Drops(q, i)'
    BY <1>0, <2>1
  <2>4. CASE Registered(r, i) /\ r # p
    BY <1>0, <2>4
  <2>5. CASE Registered(r, i) /\ r = p
    BY <2>1, <2>3, <2>5
  <2> QED BY <2>2, <2>3, <2>4, <2>5
<1>4. CopiesAccounted'
  BY <1>3 DEF CopiesAccounted
<1>5. HasForward'
  BY DEF Accounted, HasForward, TypeOK
<1>6. HasCopy'
  BY DEF Accounted, HasCopy
<1> QED BY <1>2, <1>4, <1>5, <1>6 DEF Accounted

(* A process has truncated the file. *)
LEMMA TruncatesAccounted ==
  ASSUME TypeOK, TypeOK', Accounted, NEW p \in Pids, Enter(p) \/ Leave(p) \/ Strike(p)
  PROVE  Accounted'
<1>1. /\ UNCHANGED <<id, copy, outlived>>
      /\ \A q \in Pids \ {p} : pc'[q] = pc[q]
      /\ \/ pc[p] = "enter" /\ pc'[p] = "entering"
         \/ pc[p] = "leave" /\ pc'[p] = "leaving"
         \/ pc[p] = "strike" /\ pc'[p] = "striking"
  BY DEF Enter, Leave, Strike, Truncates, Goto, TypeOK
<1>2. ~file'.readable
  BY DEF Enter, Leave, Strike, Truncates, TypeOK, Files
<1>3. \A q \in Pids, i \in Ids : /\ Registered(q, i) = Registered(q, i)'
                                 /\ Drops(q, i) = Drops(q, i)'
  BY <1>1 DEF Registered, Drops, Leaving
<1>4. CopiesAccounted'
  <2> SUFFICES ASSUME NEW q \in Pids, NEW r \in Pids, NEW i \in Ids, copy'[q][i] = r
               PROVE  Registered(r, i)' \/ <<i, r>> \in outlived' \/ Drops(q, i)'
    BY DEF CopiesAccounted
  <2>1. Registered(r, i) \/ <<i, r>> \in outlived \/ Drops(q, i)
    BY <1>1 DEF Accounted, CopiesAccounted
  <2> QED BY <1>1, <1>3, <2>1
<1>5. HasForward'
  BY <1>1 DEF Accounted, HasForward, Steps, Serving, Leaving, Stopping
<1>6. HasCopy'
  BY <1>1 DEF Accounted, HasCopy, Copying, Leaving
<1> QED BY <1>2, <1>4, <1>5, <1>6 DEF Accounted, EntriesAccounted

(* A process has ended that was not the forward of an entry, or left it. *)
LEMMA EndAccounted ==
  ASSUME TypeOK, TypeOK', Accounted, NEW p \in Pids, End(p), UNCHANGED file,
         outlived \subseteq outlived',
         \A i \in Ids : Registered(p, i) => <<i, p>> \in outlived'
  PROVE  Accounted'
<1>1. /\ \A q \in Pids \ {p} : pc'[q] = pc[q] /\ id'[q] = id[q] /\ copy'[q] = copy[q]
      /\ copy'[p] = NoEntries /\ pc'[p] = "none"
  BY DEF End, Goto, TypeOK
<1> QED BY <1>1, ReadsAccounted

(* Every step accounts for entries. *)
LEMMA AccountedStep == TypeOK /\ TypeOK' /\ Accounted /\ [Next]_vars => Accounted'
<1> SUFFICES ASSUME TypeOK, TypeOK', Accounted, [Next]_vars PROVE Accounted'
  OBVIOUS
<1>1. CASE UNCHANGED vars
  BY <1>1 DEF vars, Accounted, EntriesAccounted, CopiesAccounted, HasForward, HasCopy, Registered, Drops
<1>2. ASSUME NEW p \in Pids,
             \/ \E i \in Ids : Start(p, i)
             \/ Stop(p) \/ Dial(p) \/ Handshake(p) \/ Listen(p)
             \/ Connect(p) /\ pc'[p] = "dial"
             \/ Close(p) \/ RelayCloses(p)
      PROVE  Accounted'
  <2>1. /\ \A q \in Pids \ {p} : pc'[q] = pc[q] /\ id'[q] = id[q] /\ copy'[q] = copy[q]
        /\ copy'[p] = copy[p] /\ UNCHANGED <<file, outlived>>
    BY <1>2 DEF Start, Stop, Connect, Dial, Handshake, Listen, Close, RelayCloses, End, Goto, TypeOK
  <2>2. /\ pc[p] \in {"none", "connect", "dial", "handshake", "listen", "serve"}
        /\ pc'[p] \in {"connect", "look", "dial", "handshake", "hangup", "listen", "register", "deregister"}
        /\ pc[p] = "serve" <=> pc'[p] = "deregister"
    BY <1>2 DEF Start, MayBegin, Stop, Connect, Dial, Handshake, Listen, ListenFailed, Close, RelayCloses, Goto, TypeOK
  <2>3. pc'[p] \in Steps \ {"none", "look", "hangup"} => id'[p] \in Ids
    <3>1. CASE \E i \in Ids : Start(p, i)
      BY <3>1 DEF Start, TypeOK
    <3>2. CASE Stop(p)
      BY <3>2 DEF Stop, Goto, TypeOK
    <3>3. CASE ~(\E i \in Ids : Start(p, i)) /\ ~Stop(p)
      <4>1. id'[p] = id[p] /\ pc[p] \in {"connect", "dial", "handshake", "listen", "serve"}
        BY <1>2, <3>3, <2>2 DEF Connect, Dial, Handshake, Listen, Close, RelayCloses, End, Goto, TypeOK
      <4> QED BY <4>1 DEF Accounted, HasForward, Steps, Serving
    <3> QED BY <3>1, <3>2, <3>3
  <2>4. copy[p] = NoEntries
    BY <2>2 DEF Accounted, HasCopy, Copying, Leaving
  <2>5. pc[p] = "serve" => id'[p] = id[p]
    BY <1>2 DEF Start, MayBegin, Stop, Connect, Dial, Handshake, Listen, Close, RelayCloses
  <2>6. \A i \in Ids : Registered(p, i) => Registered(p, i)'
    BY <2>2, <2>5 DEF Registered, Leaving
  <2> QED BY <2>1, <2>3, <2>4, <2>6, ReadsAccounted
<1>3. ASSUME NEW p \in Pids, Connect(p), pc'[p] # "dial" PROVE Accounted'
  <2>1. End(p) /\ UNCHANGED <<file, outlived>> /\ pc[p] = "connect"
    BY <1>3 DEF Connect, Goto, TypeOK
  <2> QED BY <2>1, EndAccounted DEF Registered, Leaving
<1>4. ASSUME NEW p \in Pids, Register(p) PROVE Accounted'
  <2>1. /\ \A q \in Pids \ {p} : pc'[q] = pc[q] /\ id'[q] = id[q] /\ copy'[q] = copy[q]
        /\ pc[p] = "register" /\ UNCHANGED <<file, outlived, id>>
    BY <1>4 DEF Register, Reads, Goto, TypeOK
  <2>2. \/ copy'[p] = file.entries /\ file.readable /\ pc'[p] = "enter"
        \/ copy'[p] = copy[p] /\ pc'[p] = "serve"
    BY <1>4 DEF Register, Reads, Goto, TypeOK
  <2>3. copy[p] = NoEntries /\ id[p] \in Ids
    BY <2>1 DEF Accounted, HasCopy, HasForward, Copying, Leaving, Steps
  <2>4. \A i \in Ids : ~Registered(p, i)
    BY <2>1 DEF Registered, Leaving
  <2>5. pc'[p] \notin Copying => copy'[p] = NoEntries
    BY <2>2, <2>3 DEF Copying
  <2> QED BY <2>1, <2>2, <2>3, <2>4, <2>5, ReadsAccounted
<1>5. ASSUME NEW p \in Pids, Deregister(p) PROVE Accounted'
  <2>1. /\ \A q \in Pids \ {p} : pc'[q] = pc[q] /\ id'[q] = id[q] /\ copy'[q] = copy[q]
        /\ pc[p] = "deregister" /\ UNCHANGED <<file, id>>
        /\ OutlivesIf(p, ~file.readable /\ Kept(p))
    BY <1>5 DEF Deregister, Reads, Goto, TypeOK
  <2>2. \/ copy'[p] = file.entries /\ file.readable /\ pc'[p] = "leave"
        \/ copy'[p] = copy[p] /\ pc'[p] = "hangup" /\ ~file.readable
    BY <1>5 DEF Deregister, Reads, Goto, TypeOK
  <2>3. copy[p] = NoEntries /\ id[p] \in Ids
    BY <2>1 DEF Accounted, HasCopy, HasForward, Copying, Leaving, Steps
  <2>4. outlived \subseteq outlived'
    BY <2>1 DEF OutlivesIf, Outlives
  <2>5. ASSUME NEW i \in Ids, Registered(p, i), ~Registered(p, i)'
        PROVE  \/ <<i, p>> \in outlived'
               \/ ~file.readable /\ \A q \in Pids \ {p} : copy[q][i] = p => Drops(q, i)
    <3>1. i = id[p] /\ ~file.readable
      BY <2>1, <2>2, <2>5 DEF Registered, Leaving
    <3>2. CASE Kept(p)
      BY <2>1, <3>1, <3>2 DEF OutlivesIf, Outlives
    <3>3. CASE ~Kept(p)
      BY <3>1, <3>3 DEF Kept
    <3> QED BY <3>2, <3>3
  <2>6. pc'[p] \notin Copying => copy'[p] = NoEntries
    BY <2>2, <2>3 DEF Copying, Leaving
  <2> QED BY <2>1, <2>2, <2>3, <2>4, <2>5, <2>6, ReadsAccounted
<1>6. ASSUME NEW p \in Pids, Hangup(p) PROVE Accounted'
  <2>1. End(p) /\ UNCHANGED <<file, outlived>> /\ pc[p] = "hangup"
    BY <1>6 DEF Hangup
  <2> QED BY <2>1, EndAccounted DEF Registered, Leaving
<1>7. ASSUME NEW p \in Pids, Look(p) PROVE Accounted'
  <2>1. pc[p] = "look" /\ UNCHANGED <<file, outlived>>
    BY <1>7 DEF Look
  <2>2. \A i \in Ids : ~Registered(p, i)
    BY <2>1 DEF Registered, Leaving
  <2>3. CASE End(p)
    BY <2>1, <2>2, <2>3, EndAccounted
  <2>4. CASE /\ file.readable
             /\ \E i \in Ids : file.entries[i] # Nobody /\ id' = [id EXCEPT ![p] = i]
             /\ copy' = [copy EXCEPT ![p] = file.entries]
             /\ Goto(p, "signal")
    <3>1. /\ \A q \in Pids \ {p} : pc'[q] = pc[q] /\ id'[q] = id[q] /\ copy'[q] = copy[q]
          /\ copy'[p] = file.entries /\ file.readable /\ pc'[p] = "signal" /\ id'[p] \in Ids
      BY <2>4 DEF Goto, TypeOK
    <3>2. pc'[p] \in Copying
      BY <3>1 DEF Copying
    <3> QED BY <2>1, <2>2, <3>1, <3>2, ReadsAccounted
  <2> QED BY <1>7, <2>3, <2>4 DEF Look
<1>8. ASSUME NEW p \in Pids, Signal(p) PROVE Accounted'
  <2>1. /\ pc[p] = "signal" /\ pc'[p] = "strike" /\ UNCHANGED <<file, id, copy, outlived>>
        /\ \A q \in Pids \ {p} : pc'[q] = pc[q]
    BY <1>8 DEF Signal, Goto, TypeOK
  <2>2. \A i \in Ids : /\ Drops(p, i) => Drops(p, i)'
                       /\ Registered(p, i) = Registered(p, i)'
    BY <2>1 DEF Drops, Registered, Leaving
  <2>3. id[p] \in Ids /\ pc'[p] \in Copying
    BY <2>1 DEF Accounted, HasForward, Steps, Stopping, Copying
  <2> QED BY <2>1, <2>2, <2>3, ReadsAccounted
<1>9. ASSUME NEW p \in Pids, Enter(p) \/ Leave(p) \/ Strike(p) PROVE Accounted'
  BY <1>9, TruncatesAccounted
<1>10. ASSUME NEW p \in Pids, Entering(p) PROVE Accounted'
  <2>1. /\ \A q \in Pids \ {p} : pc'[q] = pc[q] /\ id'[q] = id[q] /\ copy'[q] = copy[q]
        /\ copy'[p] = NoEntries /\ pc[p] = "entering" /\ pc'[p] = "serve" /\ id'[p] = id[p]
        /\ outlived' = outlived \ {<<id[p], p>>} /\ file' \in Overwritten(file, EntryOf(p))
    BY <1>10 DEF Entering, Goto, TypeOK
  <2>2. id[p] \in Ids
    BY <2>1 DEF Accounted, HasForward, Steps, Serving
  <2>3. \A i \in Ids : (i = id[p] => Registered(p, i)') /\ (Registered(p, i) => Registered(p, i)')
    BY <2>1 DEF Registered
  <2>4. \A i \in Ids, r \in Pids : <<i, r>> \in outlived => <<i, r>> \in outlived' \/ Registered(r, i)'
    BY <2>1, <2>3
  <2>5. ASSUME NEW i \in Ids, NEW r \in Pids, EntryOf(p)[i] = r
        PROVE  Registered(r, i)' \/ <<i, r>> \in outlived'
    <3>1. CASE i = id[p]
      <4>1. copy[p] \in [Ids -> Pids \cup {Nobody}]
        BY DEF TypeOK, Entries
      <4>2. EntryOf(p)[id[p]] = p
        BY <2>2, <4>1 DEF EntryOf
      <4>3. r = p
        BY <2>5, <3>1, <4>2
      <4> QED BY <2>3, <3>1, <4>3
    <3>2. CASE i # id[p]
      <4>1. copy[p][i] = r /\ ~Drops(p, i)
        BY <2>2, <2>5, <3>2 DEF EntryOf, TypeOK, Entries, Drops
      <4>2. Registered(r, i) \/ <<i, r>> \in outlived
        BY <4>1 DEF Accounted, CopiesAccounted
      <4>3. Registered(r, i) => Registered(r, i)'
        BY <2>1, <2>3 DEF Registered
      <4> QED BY <2>4, <4>2, <4>3
    <3> QED BY <3>1, <3>2
  <2> QED BY <2>1, <2>2, <2>3, <2>4, <2>5, WritesAccounted
<1>11. ASSUME NEW p \in Pids, Leaves(p) PROVE Accounted'
  <2>1. /\ \A q \in Pids \ {p} : pc'[q] = pc[q] /\ id'[q] = id[q] /\ copy'[q] = copy[q]
        /\ copy'[p] = NoEntries /\ pc[p] = "leaving" /\ pc'[p] = "hangup" /\ id'[p] = id[p]
        /\ OutlivesIf(p, Kept(p)) /\ file' \in Overwritten(file, Without(copy[p], id[p]))
    BY <1>11 DEF Leaves, Goto, TypeOK
  <2>2. id[p] \in Ids
    BY <2>1 DEF Accounted, HasForward, Steps, Leaving
  <2>3. outlived \subseteq outlived'
    BY <2>1 DEF OutlivesIf, Outlives
  <2>4. ASSUME NEW i \in Ids, Registered(p, i)
        PROVE  \/ <<i, p>> \in outlived'
               \/ \A q \in Pids \ {p} : copy[q][i] = p => Drops(q, i)
    <3>1. i = id[p]
      BY <2>4 DEF Registered
    <3> QED BY <2>1, <3>1 DEF OutlivesIf, Outlives, Kept
  <2>5. ASSUME NEW i \in Ids, NEW r \in Pids, Without(copy[p], id[p])[i] = r
        PROVE  Registered(r, i)' \/ <<i, r>> \in outlived'
    <3>1. i # id[p] /\ copy[p][i] = r /\ ~Drops(p, i)
      BY <2>2, <2>5, ForwardsAssumption DEF Without, TypeOK, Entries, Drops
    <3>2. Registered(r, i) \/ <<i, r>> \in outlived
      BY <3>1 DEF Accounted, CopiesAccounted
    <3>3. Registered(r, i) => Registered(r, i)'
      BY <2>1, <3>1 DEF Registered
    <3> QED BY <2>3, <3>2, <3>3
  <2> QED BY <2>1, <2>3, <2>4, <2>5, WritesAccounted
<1>12. ASSUME NEW p \in Pids, Striking(p) PROVE Accounted'
  <2>1. /\ \A q \in Pids \ {p} : pc'[q] = pc[q] /\ id'[q] = id[q] /\ copy'[q] = copy[q]
        /\ copy'[p] = NoEntries /\ pc[p] = "striking" /\ pc'[p] = "none" /\ outlived' = outlived
        /\ file' \in Overwritten(file, Without(copy[p], id[p]))
    BY <1>12 DEF Striking, End, Goto, TypeOK
  <2>2. id[p] \in Ids
    BY <2>1 DEF Accounted, HasForward, Steps, Stopping
  <2>3. \A i \in Ids : ~Registered(p, i)
    BY <2>1 DEF Registered, Leaving
  <2>4. ASSUME NEW i \in Ids, NEW r \in Pids, Without(copy[p], id[p])[i] = r
        PROVE  Registered(r, i)' \/ <<i, r>> \in outlived'
    <3>1. i # id[p] /\ copy[p][i] = r /\ ~Drops(p, i)
      BY <2>2, <2>4, ForwardsAssumption DEF Without, TypeOK, Entries, Drops
    <3>2. Registered(r, i) \/ <<i, r>> \in outlived
      BY <3>1 DEF Accounted, CopiesAccounted
    <3>3. Registered(r, i) => Registered(r, i)'
      BY <2>1, <2>3 DEF Registered
    <3> QED BY <2>1, <3>2, <3>3
  <2> QED BY <2>1, <2>3, <2>4, WritesAccounted
<1>13. ASSUME NEW p \in Pids, Killed(p) PROVE Accounted'
  <2>1. End(p) /\ UNCHANGED file /\ OutlivesIf(p, Registered(p, id[p]))
    BY <1>13 DEF Killed
  <2>2. outlived \subseteq outlived'
    BY <2>1 DEF OutlivesIf, Outlives
  <2>3. ASSUME NEW i \in Ids, Registered(p, i) PROVE <<i, p>> \in outlived'
    <3>1. i = id[p]
      BY <2>3 DEF Registered
    <3> QED BY <2>1, <2>3, <3>1 DEF OutlivesIf, Outlives
  <2> QED BY <2>1, <2>2, <2>3, EndAccounted
<1>14. ASSUME NEW p \in Pids, WriteFails(p) PROVE Accounted'
  <2>1. CASE pc[p] \in {"strike", "striking"} /\ End(p) /\ UNCHANGED outlived
    BY <1>14, <2>1, EndAccounted DEF WriteFails, Registered, Leaving
  <2>2. CASE /\ \/ pc[p] \in {"enter", "entering"} /\ Goto(p, "serve")
                \/ pc[p] \in Leaving /\ Goto(p, "hangup")
             /\ copy' = [copy EXCEPT ![p] = NoEntries]
             /\ OutlivesIf(p, pc[p] \in Leaving)
             /\ UNCHANGED <<id, signalled>>
    <3>1. /\ \A q \in Pids \ {p} : pc'[q] = pc[q] /\ id'[q] = id[q] /\ copy'[q] = copy[q]
          /\ copy'[p] = NoEntries /\ id'[p] = id[p] /\ UNCHANGED file
      BY <1>14, <2>2 DEF WriteFails, Goto, TypeOK
    <3>2. \/ pc[p] \in {"enter", "entering"} /\ pc'[p] = "serve"
          \/ pc[p] \in Leaving /\ pc'[p] = "hangup"
      BY <2>2 DEF Goto, TypeOK
    <3>3. id[p] \in Ids
      BY <3>2 DEF Accounted, HasForward, Steps, Serving, Leaving
    <3>4. outlived \subseteq outlived'
      BY <2>2 DEF OutlivesIf, Outlives
    <3>5. ASSUME NEW i \in Ids, Registered(p, i), ~Registered(p, i)' PROVE <<i, p>> \in outlived'
      <4>1. i = id[p] /\ pc[p] \in Leaving
        BY <3>1, <3>2, <3>5 DEF Registered
      <4> QED BY <2>2, <4>1 DEF OutlivesIf, Outlives
    <3> QED BY <3>1, <3>3, <3>4, <3>5, ReadsAccounted
  <2> QED BY <1>14, <2>1, <2>2 DEF WriteFails
<1> QED BY <1>1, <1>2, <1>3, <1>4, <1>5, <1>6, <1>7, <1>8, <1>9, <1>10, <1>11, <1>12, <1>13, <1>14 DEF Next, Step

(* At first there are no entries. *)
LEMMA AlwaysAccounted == SafetySpec => []Accounted
<1>1. Init => Accounted
  BY ForwardsAssumption DEF Init, Accounted, EntriesAccounted, CopiesAccounted, HasForward, HasCopy, NoEntries
<1> QED BY <1>1, AccountedStep, ForwardsTyped, PTL DEF SafetySpec

(* Stop signals the forward it is about, or a process that was given the   *)
(* number of one that left its entry behind; processes that are orderly    *)
(* leave none, although numbers are used again.                            *)
THEOREM StopSignalsForward == SafetySpec => SignalsForward
<1> DEFINE Aimed == \A p \in Pids, q \in signalled' \ signalled :
                      pc[p] = "signal" /\ pc'[p] = "strike" =>
                        Registered(q, id[p]) \/ (~orderly /\ <<id[p], q>> \in outlived)
<1>1. TypeOK /\ OrderInv /\ Accounted /\ [Next]_vars => [Aimed]_vars
  <2> SUFFICES ASSUME TypeOK, OrderInv, Accounted, Next, NEW p \in Pids,
                      NEW q \in signalled' \ signalled, pc[p] = "signal", pc'[p] = "strike"
               PROVE  Registered(q, id[p]) \/ (~orderly /\ <<id[p], q>> \in outlived)
    OBVIOUS
  <2>1. PICK r \in Pids : Signal(r)
    BY DEF Next, Step, Start, Stop, Handshake, RelayCloses, Killed, Connect, Dial, Listen, Register, Enter,
         Entering, Close, Deregister, Leave, Leaves, Hangup, Look, Strike, Striking, WriteFails, End
  <2>2. r = p
    BY <2>1 DEF Signal, Goto, TypeOK
  <2>3. q = Target(p) /\ q \in Pids
    BY <2>1, <2>2 DEF Signal
  <2>4. CASE orderly
    <3>1. InOrder
      BY <2>4 DEF OrderInv
    <3> QED BY <2>3, <3>1, TargetRests DEF Rest, Resting, Registered
  <2>5. CASE ~orderly
    <3>1. id[p] \in Ids
      BY DEF Accounted, HasForward, Steps, Stopping
    <3>2. copy[p][id[p]] = q /\ ~Drops(p, id[p])
      BY <2>3 DEF Target, Drops, Leaving
    <3> QED BY <2>3, <2>5, <3>1, <3>2 DEF Accounted, CopiesAccounted
  <2> QED BY <2>4, <2>5
<1> QED BY <1>1, AlwaysInOrder, AlwaysAccounted, PTL DEF SafetySpec, SignalsForward
=============================================================================
