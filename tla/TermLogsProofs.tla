---------------------------- MODULE TermLogsProofs ----------------------------
(***************************************************************************)
(* Proofs about TermLogs, for any number of streams, lines and keys, and   *)
(* channels of any capacity: its types, that no stream is left behind,     *)
(* that the loop goes on listening to the stream on the screen, and that   *)
(* the lines it shows come in order.                                       *)
(***************************************************************************)
EXTENDS TermLogs, TLAPS

----------------------------------------------------------------------------
(* Types *)

(* What a message is made of. *)
LEMMA MessageTyped ==
  /\ \A s \in Streams, kind \in {"err", "done", "closed"} : Ending(s, kind) \in Ends
  /\ \A s \in Streams, n \in 1 .. MaxLines : Line(s, n) \in Lines
  /\ \A m \in Messages : m.from \in Streams
  /\ \A m \in Lines : m.kind = "line"
  BY DEF Ending, Ends, Line, Lines, Messages

(* A channel gives and takes messages. *)
LEMMA ChannelTyped ==
  ASSUME NEW q \in Seq(Messages)
  PROVE  /\ \A m \in Messages : Append(q, m) \in Seq(Messages)
         /\ q # <<>> => Head(q) \in Messages /\ Tail(q) \in Seq(Messages)
  OBVIOUS

(* The panel holds no more lines than it may. *)
LEMMA ShownTyped ==
  ASSUME NEW lines \in Seq(Lines), Len(lines) <= MaxShown, NEW m \in Lines
  PROVE  Shown(lines, m) \in Seq(Lines) /\ Len(Shown(lines, m)) <= MaxShown
<1> DEFINE all == Append(lines, m)
<1>1. all \in Seq(Lines) /\ Len(all) \in Nat /\ MaxShown \in Nat \ {0}
  BY TermAssumption
<1>2. CASE Len(all) > MaxShown
  <2>1. Len(all) - MaxShown + 1 \in 1 .. Len(all)
    BY <1>1, <1>2
  <2>2. SubSeq(all, Len(all) - MaxShown + 1, Len(all)) \in Seq(Lines)
    BY <1>1, <2>1
  <2>3. Len(SubSeq(all, Len(all) - MaxShown + 1, Len(all))) = MaxShown
    BY <1>1, <2>1
  <2> QED BY <1>1, <1>2, <2>2, <2>3 DEF Shown
<1>3. CASE ~(Len(all) > MaxShown)
  BY <1>1, <1>3 DEF Shown
<1> QED BY <1>2, <1>3

Panels ==
  {p \in [name : StreamNames \cup {NoName}, lines : Seq(Lines), note : {"none", "error", "ended"}] :
     Len(p.lines) <= MaxShown}

(* A panel without lines. *)
LEMMA EmptyTyped ==
  ASSUME NEW n \in StreamNames \cup {NoName}
  PROVE  [name |-> n, lines |-> <<>>, note |-> "none"] \in Panels
<1> DEFINE p == [name |-> n, lines |-> <<>>, note |-> "none"]
<1>1. /\ p \in [name : StreamNames \cup {NoName}, lines : Seq(Lines), note : {"none", "error", "ended"}]
      /\ Len(p.lines) <= MaxShown
  BY TermAssumption
<1>2. \A q \in [name : StreamNames \cup {NoName}, lines : Seq(Lines),
                note : {"none", "error", "ended"}] : Len(q.lines) <= MaxShown => q \in Panels
  BY DEF Panels
<1> QED BY <1>1, <1>2

(* Opening a stream keeps the types. *)
LEMMA OpenTyped ==
  ASSUME TypeOK, NEW n \in StreamNames, NEW whose \in SUBSET Names, Open(n, whose) PROVE TypeOK'
<1>1. [name |-> n, lines |-> <<>>, note |-> "none"] \in Panels
  BY EmptyTyped
<1>2. panel' \in Panels
  BY <1>1 DEF Open, Empty
<1>3. PICK s \in Streams :
       /\ name' = [name EXCEPT ![s] = n] /\ current' = s
       /\ source' = [source EXCEPT ![s] = "run"] /\ copier' = [copier EXCEPT ![s] = "scan"]
       /\ waiters' = [waiters EXCEPT ![s] = 1] /\ followed' = [followed EXCEPT ![s] = whose]
  BY DEF Open
<1>4. Stopped \subseteq Streams
  BY DEF TypeOK, Stopped
<1>5. /\ view' = "logs" /\ cancelled' = Stopped /\ crossed' = FALSE
      /\ UNCHANGED <<items, cursor, count, channel, inbox, crashed, heard>>
  BY DEF Open
<1>6. waiters' \in [Streams -> Nat]
  BY <1>3 DEF TypeOK
<1> QED BY <1>2, <1>3, <1>4, <1>5, <1>6 DEF TypeOK, Panels

(* So does leaving one. *)
LEMMA LeaveTyped ==
  ASSUME TypeOK, NEW v \in {"list", "quit"}, Leave(v) PROVE TypeOK'
<1>1. panel' \in Panels
  BY EmptyTyped DEF Leave, Empty
<1>2. Stopped \subseteq Streams
  BY DEF TypeOK, Stopped
<1> QED BY <1>1, <1>2 DEF Leave, TypeOK, Panels

(* The cursor is on a name. *)
LEMMA ItemTyped ==
  ASSUME TypeOK, OnItem
  PROVE  items[cursor + 1] \in StreamNames /\ {items[cursor + 1]} \in SUBSET Names
  BY DEF TypeOK, OnItem, StreamNames

(* The keys and the list keep the types. *)
LEMMA KeysTyped == ASSUME TypeOK, Keys \/ Refresh PROVE TypeOK'
<1>1. CASE KeyLogs
  BY <1>1, ItemTyped, OpenTyped DEF KeyLogs
<1>2. CASE KeyFleet
  BY <1>2, OpenTyped DEF KeyFleet, StreamNames
<1>3. CASE KeyRestart
  BY <1>3, OpenTyped DEF KeyRestart, TypeOK
<1>4. CASE KeyBack \/ KeyQuit \/ KeyAct
  BY <1>4, LeaveTyped DEF KeyBack, KeyQuit, KeyAct
<1>5. CASE KeyUp \/ KeyDown
  <2>1. cursor - 1 \in Int /\ cursor + 1 \in Int
    BY DEF TypeOK
  <2>2. ASSUME NEW c \in Int, Move(c) PROVE TypeOK'
    BY <2>2 DEF Move, TypeOK, goroutines
  <2> QED BY <1>5, <2>1, <2>2 DEF KeyUp, KeyDown
<1>6. CASE IndexPanic
  BY <1>6 DEF IndexPanic, TypeOK, loop, goroutines
<1>7. CASE Refresh
  <2>1. items' \in Seq(Names) /\ cursor' \in Int
    <3>1. ASSUME NEW list \in Lists PROVE Clamped(list) \in Int
      <4>1. Len(list) \in Nat
        BY TermAssumption
      <4> QED BY <4>1 DEF TypeOK, Clamped
    <3>2. CASE items' = <<>> /\ cursor' = cursor
      BY <3>2 DEF TypeOK
    <3>3. ASSUME NEW list \in Lists, items' = list, cursor' = Clamped(list)
          PROVE  items' \in Seq(Names) /\ cursor' \in Int
      BY <3>1, <3>3, TermAssumption
    <3> QED BY <1>7, <3>2, <3>3 DEF Refresh
  <2> QED BY <1>7, <2>1 DEF Refresh, TypeOK, goroutines
<1> QED BY <1>1, <1>2, <1>3, <1>4, <1>5, <1>6, <1>7 DEF Keys

(* The loop's next waiter. *)
LEMMA RearmedTyped == ASSUME TypeOK PROVE Rearmed \in [Streams -> Nat]
  BY DEF TypeOK, Rearmed

(* The messages keep the types. *)
LEMMA MessagesTyped ==
  ASSUME TypeOK, Handle \/ \E s \in Streams : Receive(s) PROVE TypeOK'
<1>1. ASSUME NEW m \in Messages, HandleLine(m) PROVE TypeOK'
  <2>1. inbox' \in [Messages -> Nat]
    BY <1>1 DEF HandleLine, Take, TypeOK
  <2>2. panel' \in Panels
    <3> DEFINE shown == Shown(panel.lines, m)
    <3>1. panel \in [name : StreamNames \cup {NoName}, lines : Seq(Lines),
                     note : {"none", "error", "ended"}] /\ Len(panel.lines) <= MaxShown
      BY DEF TypeOK
    <3>2. shown \in Seq(Lines) /\ Len(shown) <= MaxShown
      BY <1>1, <3>1, ShownTyped DEF HandleLine
    <3>3. panel' = [panel EXCEPT !.lines = shown] \/ panel' = panel
      BY <1>1 DEF HandleLine
    <3> HIDE DEF shown
    <3> QED BY <3>1, <3>2, <3>3 DEF Panels
  <2>3. waiters' \in [Streams -> Nat] /\ crossed' \in BOOLEAN
    BY <1>1, RearmedTyped DEF HandleLine, TypeOK
  <2> QED BY <1>1, <2>1, <2>2, <2>3 DEF HandleLine, Take, TypeOK, Panels, goroutines
<1>2. ASSUME NEW m \in Messages, HandleEnd(m) PROVE TypeOK'
  <2>1. inbox' \in [Messages -> Nat] /\ heard' \subseteq Streams
    BY <1>2, MessageTyped DEF HandleEnd, Take, TypeOK
  <2>2. panel' \in Panels
    BY <1>2 DEF HandleEnd, TypeOK, Note, Panels
  <2> QED BY <1>2, <2>1, <2>2 DEF HandleEnd, Take, TypeOK, Panels, goroutines
<1>3. ASSUME NEW s \in Streams, Receive(s) PROVE TypeOK'
  <2>1. waiters' \in [Streams -> Nat]
    BY <1>3 DEF Receive, TypeOK
  <2>2. channel[s] \in Seq(Messages)
    BY DEF TypeOK
  <2>3. inbox' \in [Messages -> Nat] /\ channel' \in [Streams -> Seq(Messages)]
    <3>1. CASE channel[s] # <<>> /\ inbox' = [inbox EXCEPT ![Head(channel[s])] = @ + 1]
               /\ channel' = [channel EXCEPT ![s] = Tail(@)]
      <4>1. Head(channel[s]) \in Messages /\ Tail(channel[s]) \in Seq(Messages)
        BY <2>2, <3>1, ChannelTyped
      <4> QED BY <3>1, <4>1 DEF TypeOK
    <3>2. CASE inbox' = [inbox EXCEPT ![Ending(s, "closed")] = @ + 1] /\ channel' = channel
      <4>1. Ending(s, "closed") \in Messages
        BY MessageTyped DEF Messages
      <4> QED BY <3>2, <4>1 DEF TypeOK
    <3> QED BY <1>3, <3>1, <3>2 DEF Receive
  <2> QED BY <1>3, <2>1, <2>3 DEF Receive, TypeOK, loop
<1> QED BY <1>1, <1>2, <1>3 DEF Handle

(* The source of a stream keeps the types. *)
LEMMA SourceTyped == ASSUME TypeOK, NEW s \in Streams, Source(s) PROVE TypeOK'
<1>1. CASE SourceWrites(s)
  BY <1>1 DEF SourceWrites, SourceGoes, TypeOK, loop
<1>2. CASE SourceReturns(s)
  BY <1>2 DEF SourceReturns, SourceGoes, TypeOK, loop
<1>3. CASE SourceReports(s)
  <2>1. channel' \in [Streams -> Seq(Messages)] /\ crashed' \in BOOLEAN
    <3>1. source[s] \in {"done", "err"} => Ending(s, source[s]) \in Messages
      BY MessageTyped DEF Messages
    <3>2. source[s] \in {"done", "err"} => Append(channel[s], Ending(s, source[s])) \in Seq(Messages)
      BY <3>1, ChannelTyped DEF TypeOK
    <3>3. CASE /\ source[s] \in {"done", "err"} /\ crashed' = crashed
               /\ channel' = [channel EXCEPT ![s] = Append(@, Ending(s, source[s]))]
      BY <3>2, <3>3 DEF TypeOK
    <3>4. CASE channel' = channel /\ crashed' \in {crashed, TRUE}
      BY <3>4 DEF TypeOK
    <3> QED BY <1>3, <3>3, <3>4 DEF SourceReports
  <2> QED BY <1>3, <2>1 DEF SourceReports, SourceGoes, TypeOK, loop
<1> QED BY <1>1, <1>2, <1>3 DEF Source

(* What a copier has scanned it has read; a stream that was not opened runs *)
(* no copier, is not cancelled and not on the screen.                      *)
Scanned ==
  \A s \in Streams :
    /\ count[s].scanned <= count[s].read
    /\ copier[s] \in {"off", "scan"} => count[s].scanned = count[s].read
    /\ copier[s] = "send" => count[s].scanned >= 1
    /\ name[s] = NoName => copier[s] = "off" /\ s \notin cancelled /\ s # current

(* The copier of a stream keeps the types. *)
LEMMA CopierTyped ==
  ASSUME TypeOK, Scanned, NEW s \in Streams, Copier(s) PROVE TypeOK' /\ Scanned'
<1>1. count[s] \in Counts /\ channel[s] \in Seq(Messages) /\ LinesOf[s] \in 0 .. MaxLines
  BY TermAssumption DEF TypeOK
<1>2. CASE CopierReads(s)
  <2>1. PICK k \in count[s].read + 1 .. LinesOf[s] :
          count' = [count EXCEPT ![s] = [read |-> k, scanned |-> count[s].scanned + 1]]
    BY <1>2 DEF CopierReads
  <2>2. k \in 0 .. MaxLines /\ count[s].scanned + 1 \in 0 .. MaxLines /\ count[s].scanned + 1 <= k
    BY <1>1, TermAssumption DEF Scanned, Counts
  <2>3. count' \in [Streams -> Counts]
    BY <2>1, <2>2 DEF TypeOK, Counts
  <2>4. TypeOK'
    BY <1>2, <2>3 DEF CopierReads, CopierGoes, TypeOK, loop
  <2>5. Scanned'
    BY <1>1, <1>2, <2>1, <2>2 DEF CopierReads, CopierGoes, Scanned, TypeOK, Counts, loop
  <2> QED BY <2>4, <2>5
<1>3. CASE CopierSends(s)
  <2> DEFINE more == count[s].scanned < count[s].read
  <2>1. count[s].scanned \in 1 .. MaxLines
    BY <1>1, <1>3, TermAssumption DEF CopierSends, CopierGoes, Scanned, Counts
  <2>2. Append(channel[s], Line(s, count[s].scanned)) \in Seq(Messages)
    <3>1. Line(s, count[s].scanned) \in Messages
      BY <2>1, MessageTyped DEF Messages
    <3> QED BY <1>1, <3>1, ChannelTyped
  <2>3. channel' \in [Streams -> Seq(Messages)]
    BY <1>3, <2>2 DEF CopierSends, TypeOK
  <2>4. CASE more
    <3>1. count' = [count EXCEPT ![s] = [count[s] EXCEPT !.scanned = count[s].scanned + 1]]
      BY <1>3, <2>4 DEF CopierSends
    <3>2. count[s].scanned + 1 \in 0 .. MaxLines /\ count[s].scanned + 1 <= count[s].read
      BY <1>1, <2>4, TermAssumption DEF Counts
    <3>3. [count[s] EXCEPT !.scanned = count[s].scanned + 1] \in Counts
      BY <1>1, <3>2 DEF Counts
    <3>4. count' \in [Streams -> Counts]
      BY <3>1, <3>3 DEF TypeOK
    <3>5. copier' = [copier EXCEPT ![s] = "send"]
      BY <1>3, <2>4 DEF CopierSends, CopierGoes
    <3>6. TypeOK'
      BY <1>3, <2>3, <3>4, <3>5 DEF CopierSends, CopierGoes, TypeOK, loop
    <3>7. Scanned'
      BY <1>1, <1>3, <2>1, <3>1, <3>2, <3>5 DEF CopierSends, CopierGoes, Scanned, TypeOK, Counts, loop
    <3> QED BY <3>6, <3>7
  <2>5. CASE ~more
    <3>1. copier' = [copier EXCEPT ![s] = "scan"] /\ count' = count
      BY <1>3, <2>5 DEF CopierSends, CopierGoes
    <3>2. count[s].scanned = count[s].read
      BY <1>1, <2>5 DEF Scanned, Counts
    <3>3. TypeOK'
      BY <1>3, <2>3, <3>1 DEF CopierSends, CopierGoes, TypeOK, loop
    <3>4. Scanned'
      BY <1>3, <3>1, <3>2 DEF CopierSends, CopierGoes, Scanned, TypeOK, loop
    <3> QED BY <3>3, <3>4
  <2> QED BY <2>4, <2>5
<1>4. CASE CopierGivesUp(s)
  BY <1>4 DEF CopierGivesUp, CopierGoes, TypeOK, Scanned, loop
<1>5. CASE CopierShuts(s)
  BY <1>5 DEF CopierShuts, CopierGoes, TypeOK, Scanned, loop
<1>6. CASE CopierEnds(s)
  <2>1. Append(channel[s], Ending(s, "done")) \in Seq(Messages)
    <3>1. Ending(s, "done") \in Messages
      BY MessageTyped DEF Messages
    <3> QED BY <1>1, <3>1, ChannelTyped
  <2>2. channel' \in [Streams -> Seq(Messages)]
    BY <1>6, <2>1 DEF CopierEnds, TypeOK
  <2>3. TypeOK'
    BY <1>6, <2>2 DEF CopierEnds, CopierGoes, TypeOK, loop
  <2>4. Scanned'
    BY <1>6 DEF CopierEnds, CopierGoes, TypeOK, Scanned, loop
  <2> QED BY <2>3, <2>4
<1> QED BY <1>2, <1>3, <1>4, <1>5, <1>6 DEF Copier

(* Opening a stream does not disturb that, *)
LEMMA OpenScanned ==
  ASSUME TypeOK, Scanned, NEW n \in StreamNames, NEW whose \in SUBSET Names, Open(n, whose) PROVE Scanned'
<1>1. PICK s \in Streams :
       /\ name[s] = NoName /\ name' = [name EXCEPT ![s] = n] /\ current' = s
       /\ copier' = [copier EXCEPT ![s] = "scan"] /\ cancelled' = Stopped /\ count' = count
  BY DEF Open
<1>2. n # NoName
  BY TermAssumption
<1>3. \A t \in Streams : name'[t] = NoName =>
        name[t] = NoName /\ copier'[t] = copier[t] /\ t # s
  BY <1>1, <1>2 DEF TypeOK
<1>4. \A t \in Streams : name'[t] = NoName => t \notin cancelled' /\ t # current'
  BY <1>1, <1>3 DEF Scanned, Stopped
<1>5. \A t \in Streams : copier'[t] # copier[t] => t = s /\ copier'[t] = "scan"
  BY <1>1 DEF TypeOK
<1>6. copier[s] = "off"
  BY <1>1 DEF Scanned
<1> QED BY <1>1, <1>3, <1>4, <1>5, <1>6 DEF Scanned

(* nor does any other key, ... *)
LEMMA KeysScanned == ASSUME TypeOK, Scanned, Keys \/ Refresh PROVE Scanned'
<1>1. CASE KeyLogs
  BY <1>1, ItemTyped, OpenScanned DEF KeyLogs
<1>2. CASE KeyFleet
  BY <1>2, OpenScanned DEF KeyFleet, StreamNames
<1>3. CASE KeyRestart
  BY <1>3, OpenScanned DEF KeyRestart, TypeOK
<1>4. ASSUME NEW v, Leave(v) PROVE Scanned'
  <2>1. \A s \in Streams : s # None
    BY DEF Streams, None
  <2> QED BY <1>4, <2>1 DEF Leave, Scanned, Stopped
<1>5. ASSUME NEW c, Move(c) PROVE Scanned'
  BY <1>5 DEF Move, goroutines, Scanned
<1>6. CASE IndexPanic
  BY <1>6 DEF IndexPanic, loop, goroutines, Scanned
<1>7. CASE Refresh
  BY <1>7 DEF Refresh, goroutines, Scanned
<1> QED
  BY <1>1, <1>2, <1>3, <1>4, <1>5, <1>6, <1>7
     DEF Keys, KeyBack, KeyQuit, KeyAct, KeyUp, KeyDown

(* ... nor a message, nor the source. *)
LEMMA OthersScanned ==
  ASSUME TypeOK, Scanned, Handle \/ \E s \in Streams : Receive(s) \/ Source(s) PROVE Scanned'
<1>1. ASSUME NEW m \in Messages, HandleLine(m) \/ HandleEnd(m) PROVE Scanned'
  BY <1>1 DEF HandleLine, HandleEnd, Take, goroutines, Scanned
<1>2. ASSUME NEW s \in Streams, Receive(s) PROVE Scanned'
  BY <1>2 DEF Receive, loop, Scanned
<1>3. ASSUME NEW s \in Streams, Source(s) PROVE Scanned'
  BY <1>3 DEF Source, SourceWrites, SourceReturns, SourceReports, SourceGoes, loop, Scanned
<1> QED BY <1>1, <1>2, <1>3 DEF Handle

(* Every step keeps the types. *)
LEMMA TypeStep == TypeOK /\ Scanned /\ [Next]_vars => (TypeOK /\ Scanned)'
<1> SUFFICES ASSUME TypeOK, Scanned, [Next]_vars PROVE TypeOK' /\ Scanned'
  OBVIOUS
<1>1. CASE Keys \/ Refresh
  BY <1>1, KeysTyped, KeysScanned
<1>2. CASE Handle
  BY <1>2, MessagesTyped, OthersScanned
<1>3. ASSUME NEW s \in Streams, Source(s) \/ Copier(s) \/ Receive(s) PROVE TypeOK' /\ Scanned'
  BY <1>3, SourceTyped, CopierTyped, MessagesTyped, OthersScanned
<1>4. CASE UNCHANGED vars
  BY <1>4 DEF vars, loop, goroutines, TypeOK, Scanned
<1> QED BY <1>1, <1>2, <1>3, <1>4 DEF Next

(* The dashboard starts with its types and nothing scanned. *)
LEMMA TypeInit == Init => TypeOK /\ Scanned
<1> SUFFICES ASSUME Init PROVE TypeOK /\ Scanned
  OBVIOUS
<1>1. panel \in Panels
  BY EmptyTyped DEF Init, Empty
<1>2. <<>> \in Seq(Names) /\ <<>> \in Seq(Messages)
  OBVIOUS
<1>3. [s \in Streams |-> [read |-> 0, scanned |-> 0]] \in [Streams -> Counts]
  BY TermAssumption DEF Counts
<1>4. current = None /\ \A s \in Streams : s # None
  BY DEF Init, Streams, None
<1>5. TypeOK
  <2>1. /\ items \in Seq(Names)
        /\ channel \in [Streams -> Seq(Messages)]
        /\ count \in [Streams -> Counts]
    BY <1>2, <1>3 DEF Init
  <2>2. /\ panel \in [name : StreamNames \cup {NoName}, lines : Seq(Lines),
                      note : {"none", "error", "ended"}]
        /\ Len(panel.lines) <= MaxShown
    BY <1>1 DEF Panels
  <2>3. /\ view \in {"list", "logs", "quit"} /\ cursor \in Int /\ current \in Streams \cup {None}
        /\ name \in [Streams -> StreamNames \cup {NoName}] /\ followed \in [Streams -> SUBSET Names]
        /\ cancelled \subseteq Streams /\ heard \subseteq Streams
        /\ source \in [Streams -> {"off", "run", "writing", "done", "err", "gone"}]
        /\ copier \in [Streams -> {"off", "scan", "send", "shut", "done"}]
    BY DEF Init
  <2>4. waiters \in [Streams -> Nat] /\ inbox \in [Messages -> Nat]
    BY DEF Init
  <2>5. crashed \in BOOLEAN /\ crossed \in BOOLEAN
    BY DEF Init
  <2> QED BY <2>1, <2>2, <2>3, <2>4, <2>5 DEF TypeOK
<1>6. Scanned
  BY <1>4 DEF Init, Scanned
<1> QED BY <1>5, <1>6

(* The dashboard's variables have their types, for any number of streams.  *)
THEOREM TermTyped == SafetySpec => []TypeOK
  BY TypeInit, TypeStep, PTL DEF SafetySpec

----------------------------------------------------------------------------
(* One stream is followed *)

(* The streams are as they were, and so is what the loop knows of them. *)
LEMMA FollowedSame ==
  ASSUME OneStreamFollowed, UNCHANGED <<view, current, name, cancelled>>, panel'.name = panel.name
  PROVE  OneStreamFollowed'
  BY DEF OneStreamFollowed

(* A key that opens a stream cancels the one that was followed. *)
LEMMA OpenFollowed ==
  ASSUME TypeOK, Scanned, OneStreamFollowed, NEW n \in StreamNames, NEW whose \in SUBSET Names, Open(n, whose)
  PROVE  OneStreamFollowed'
<1>1. PICK s \in Streams :
       /\ name[s] = NoName /\ name' = [name EXCEPT ![s] = n] /\ current' = s /\ view' = "logs"
       /\ cancelled' = Stopped /\ panel' = [Empty EXCEPT !.name = n]
  BY DEF Open
<1>2. s # None /\ s \notin cancelled /\ s # current
  BY <1>1 DEF Scanned, Streams, None
<1>3. \A t \in Streams : t # s => name'[t] = name[t]
  BY <1>1 DEF TypeOK
<1>4. name'[s] = n /\ panel'.name = n
  BY <1>1 DEF TypeOK, Empty
<1>5. ASSUME NEW t \in Streams, name'[t] # NoName, t # current' PROVE t \in cancelled'
  <2>1. t # s /\ name[t] # NoName
    BY <1>1, <1>3, <1>5
  <2>2. CASE t = current
    BY <1>1, <2>2 DEF Stopped, Streams, None
  <2>3. CASE t # current
    BY <1>1, <2>1, <2>3 DEF OneStreamFollowed, Stopped
  <2> QED BY <2>2, <2>3
<1>6. current' # None /\ current' \notin cancelled' /\ name'[current'] = panel'.name
  BY <1>1, <1>2, <1>4 DEF Stopped
<1> QED BY <1>1, <1>5, <1>6 DEF OneStreamFollowed

(* A key that leaves it cancels it. *)
LEMMA LeaveFollowed ==
  ASSUME TypeOK, OneStreamFollowed, NEW v \in {"list", "quit"}, Leave(v)
  PROVE  OneStreamFollowed'
<1>1. \A s \in Streams : s # None
  BY DEF Streams, None
<1> QED BY <1>1 DEF Leave, OneStreamFollowed, Stopped

(* No step leaves a stream behind. *)
LEMMA FollowedStep ==
  TypeOK /\ Scanned /\ OneStreamFollowed /\ [Next]_vars => OneStreamFollowed'
<1> SUFFICES ASSUME TypeOK, Scanned, OneStreamFollowed, [Next]_vars PROVE OneStreamFollowed'
  OBVIOUS
<1>1. CASE Keys \/ Refresh
  <2>1. CASE KeyLogs
    BY <2>1, ItemTyped, OpenFollowed DEF KeyLogs
  <2>2. CASE KeyFleet
    BY <2>2, OpenFollowed DEF KeyFleet, StreamNames
  <2>3. CASE KeyRestart
    BY <2>3, OpenFollowed DEF KeyRestart, TypeOK
  <2>4. CASE KeyBack \/ KeyQuit \/ KeyAct
    BY <2>4, LeaveFollowed DEF KeyBack, KeyQuit, KeyAct
  <2>5. CASE KeyUp \/ KeyDown \/ IndexPanic \/ Refresh
    BY <2>5, FollowedSame DEF KeyUp, KeyDown, Move, IndexPanic, Refresh, loop, goroutines
  <2> QED BY <1>1, <2>1, <2>2, <2>3, <2>4, <2>5 DEF Keys
<1>2. ASSUME NEW m \in Messages, HandleLine(m) \/ HandleEnd(m) PROVE OneStreamFollowed'
  <2>1. panel'.name = panel.name
    BY <1>2 DEF HandleLine, HandleEnd, TypeOK
  <2> QED BY <1>2, <2>1, FollowedSame DEF HandleLine, HandleEnd, Take, goroutines
<1>3. ASSUME NEW s \in Streams, Source(s) \/ Copier(s) \/ Receive(s) PROVE OneStreamFollowed'
  BY <1>3, FollowedSame
     DEF Source, SourceWrites, SourceReturns, SourceReports, SourceGoes, Copier, CopierReads,
         CopierSends, CopierGivesUp, CopierShuts, CopierEnds, CopierGoes, Receive, loop
<1>4. CASE UNCHANGED vars
  BY <1>4, FollowedSame DEF vars, loop, goroutines
<1> QED BY <1>1, <1>2, <1>3, <1>4 DEF Next, Handle

(* No key leaves a stream behind that is not cancelled. *)
THEOREM NoStreamLeftBehind == SafetySpec => []OneStreamFollowed
<1>1. Init => OneStreamFollowed
  BY TypeInit DEF Init, OneStreamFollowed, Empty, None
<1> QED BY <1>1, TypeInit, TypeStep, FollowedStep, PTL DEF SafetySpec

----------------------------------------------------------------------------
(* The loop listens to it *)

(* What is in a channel is of its stream. *)
OwnMessages == \A s \in Streams : \A i \in 1 .. Len(channel[s]) : channel[s][i].from = s

(* It stays so when the stream's own messages are sent and others received. *)
LEMMA OwnSent ==
  ASSUME TypeOK, OwnMessages, NEW s \in Streams, NEW m \in Messages, m.from = s,
         channel' = [channel EXCEPT ![s] = Append(channel[s], m)]
  PROVE  OwnMessages'
<1>1. channel[s] \in Seq(Messages)
  BY DEF TypeOK
<1>2. \A i \in 1 .. Len(Append(channel[s], m)) : Append(channel[s], m)[i].from = s
  BY <1>1 DEF OwnMessages
<1>3. \A t \in Streams : channel'[t] = IF t = s THEN Append(channel[s], m) ELSE channel[t]
  BY DEF TypeOK
<1> QED BY <1>2, <1>3 DEF OwnMessages

(* What a waiter takes off the channel of a stream is of that stream. *)
LEMMA OwnReceived ==
  ASSUME TypeOK, OwnMessages, NEW s \in Streams, channel[s] # <<>>,
         channel' = [channel EXCEPT ![s] = Tail(channel[s])]
  PROVE  OwnMessages'
<1>1. channel[s] \in Seq(Messages)
  BY DEF TypeOK
<1>2. \A i \in 1 .. Len(Tail(channel[s])) : Tail(channel[s])[i].from = s
  BY <1>1 DEF OwnMessages
<1>3. \A t \in Streams : channel'[t] = IF t = s THEN Tail(channel[s]) ELSE channel[t]
  BY DEF TypeOK
<1> QED BY <1>2, <1>3 DEF OwnMessages

(* Every message stays with the stream it is of. *)
LEMMA OwnStep == TypeOK /\ Scanned /\ OwnMessages /\ [Next]_vars => OwnMessages'
<1> SUFFICES ASSUME TypeOK, Scanned, OwnMessages, [Next]_vars PROVE OwnMessages'
  OBVIOUS
<1>1. CASE UNCHANGED channel
  BY <1>1 DEF OwnMessages
<1>2. ASSUME NEW s \in Streams, Receive(s) PROVE OwnMessages'
  BY <1>1, <1>2, OwnReceived DEF Receive
<1>3. ASSUME NEW s \in Streams, SourceReports(s) PROVE OwnMessages'
  <2>1. source[s] \in {"done", "err"} => /\ Ending(s, source[s]) \in Messages
                                         /\ Ending(s, source[s]).from = s
    BY MessageTyped DEF Messages, Ending
  <2> QED BY <1>1, <1>3, <2>1, OwnSent DEF SourceReports
<1>4. ASSUME NEW s \in Streams, CopierSends(s) PROVE OwnMessages'
  <2>1. count[s].scanned \in 1 .. MaxLines
    BY <1>4, TermAssumption DEF CopierSends, CopierGoes, Scanned, Counts, TypeOK
  <2>2. /\ Line(s, count[s].scanned) \in Messages
        /\ Line(s, count[s].scanned).from = s
    BY <2>1, MessageTyped DEF Messages, Line
  <2> QED BY <1>4, <2>2, OwnSent DEF CopierSends
<1>5. ASSUME NEW s \in Streams, CopierEnds(s) PROVE OwnMessages'
  <2>1. Ending(s, "done") \in Messages /\ Ending(s, "done").from = s
    BY MessageTyped DEF Messages, Ending
  <2> QED BY <1>1, <1>5, <2>1, OwnSent DEF CopierEnds
<1>6. \/ UNCHANGED channel
      \/ \E s \in Streams :
           Receive(s) \/ SourceReports(s) \/ CopierSends(s) \/ CopierEnds(s)
  <2>1. CASE Keys \/ Refresh
    BY <2>1 DEF Keys, KeyLogs, KeyFleet, KeyRestart, Open, KeyBack, KeyQuit, KeyAct, Leave,
                KeyUp, KeyDown, Move, IndexPanic, Refresh, goroutines
  <2>2. CASE Handle
    BY <2>2 DEF Handle, HandleLine, HandleEnd, Take, goroutines
  <2>3. ASSUME NEW s \in Streams,
               SourceWrites(s) \/ SourceReturns(s) \/ CopierReads(s) \/ CopierGivesUp(s) \/ CopierShuts(s)
        PROVE  UNCHANGED channel
    BY <2>3 DEF SourceWrites, SourceReturns, CopierReads, CopierGivesUp, CopierShuts
  <2>4. CASE UNCHANGED vars
    BY <2>4 DEF vars, goroutines
  <2> QED BY <2>1, <2>2, <2>3, <2>4 DEF Next, Source, Copier
<1> QED BY <1>1, <1>2, <1>3, <1>4, <1>5, <1>6

(* Somebody has the next message of the stream on the screen, or will.     *)
Listening ==
  \/ waiters[current] > 0
  \/ \E m \in Messages : m.from = current /\ inbox[m] > 0

(* No step breaks the chain of waiters of the current stream. *)
LEMMA ListensStep ==
  TypeOK /\ OneStreamFollowed /\ OwnMessages /\ ListensToCurrent /\ [Next]_vars
    => ListensToCurrent'
<1> SUFFICES ASSUME TypeOK, OneStreamFollowed, OwnMessages, ListensToCurrent, [Next]_vars,
                    current' # None, current' \notin heard'
             PROVE  Listening'
  BY DEF ListensToCurrent, Listening
<1>1. ASSUME NEW n, NEW whose, Open(n, whose) PROVE Listening'
  BY <1>1 DEF Open, Listening, TypeOK
<1>2. ASSUME UNCHANGED <<current, waiters, inbox, heard>> PROVE Listening'
  BY <1>2 DEF Listening, ListensToCurrent
<1>3. ASSUME NEW v, Leave(v) PROVE FALSE
  BY <1>3 DEF Leave
<1>4. ASSUME NEW m \in Messages, HandleLine(m) PROVE Listening'
  <2>1. UNCHANGED <<current, heard>> /\ Listening
    BY <1>4 DEF HandleLine, Take, ListensToCurrent, Listening
  <2>2. CASE Accepted(m)
    <3>1. waiters' = [waiters EXCEPT ![current] = waiters[current] + 1]
      BY <1>4, <2>1, <2>2 DEF HandleLine, Rearmed
    <3>2. current \in Streams /\ waiters[current] \in Nat
      BY <2>1 DEF TypeOK
    <3> QED BY <2>1, <3>1, <3>2 DEF Listening, TypeOK
  <2>3. CASE ~Accepted(m)
    <3>1. m.from # current
      BY <1>4, <2>1, <2>3, MessageTyped DEF Accepted, NameOf, HandleLine, OneStreamFollowed
    <3>2. waiters' = waiters /\ inbox' = [inbox EXCEPT ![m] = @ - 1]
      BY <1>4, <2>3 DEF HandleLine, Take
    <3> QED BY <2>1, <3>1, <3>2 DEF Listening, TypeOK
  <2> QED BY <2>2, <2>3
<1>5. ASSUME NEW m \in Messages, HandleEnd(m) PROVE Listening'
  <2>1. /\ UNCHANGED <<current, waiters>> /\ heard' = heard \cup {m.from}
        /\ inbox' = [inbox EXCEPT ![m] = @ - 1]
    BY <1>5 DEF HandleEnd, Take
  <2>2. m.from # current /\ Listening
    BY <2>1 DEF ListensToCurrent, Listening
  <2> QED BY <2>1, <2>2 DEF Listening, TypeOK
<1>6. ASSUME NEW s \in Streams, Receive(s) PROVE Listening'
  <2>1. UNCHANGED <<current, heard>> /\ Listening
    BY <1>6 DEF Receive, loop, ListensToCurrent, Listening
  <2>2. PICK m \in Messages : m.from = s /\ inbox' = [inbox EXCEPT ![m] = @ + 1]
    <3>1. CASE channel[s] # <<>> /\ inbox' = [inbox EXCEPT ![Head(channel[s])] = @ + 1]
      <4>1. channel[s] \in Seq(Messages)
        BY DEF TypeOK
      <4>2. Head(channel[s]) \in Messages /\ Head(channel[s]).from = s
        BY <3>1, <4>1 DEF OwnMessages
      <4> QED BY <3>1, <4>2
    <3>2. CASE inbox' = [inbox EXCEPT ![Ending(s, "closed")] = @ + 1]
      <4>1. Ending(s, "closed") \in Messages /\ Ending(s, "closed").from = s
        BY MessageTyped DEF Messages, Ending
      <4> QED BY <3>2, <4>1
    <3> QED BY <1>6, <3>1, <3>2 DEF Receive
  <2>3. CASE s = current
    BY <2>1, <2>2, <2>3 DEF Listening, TypeOK
  <2>4. CASE s # current
    <3>1. waiters'[current] = waiters[current]
      BY <1>6, <2>1, <2>4 DEF Receive, TypeOK
    <3> QED BY <2>1, <2>2, <2>4, <3>1 DEF Listening, TypeOK
  <2> QED BY <2>3, <2>4
<1>7. ASSUME NEW s \in Streams, Source(s) \/ Copier(s) PROVE Listening'
  BY <1>2, <1>7
     DEF Source, SourceWrites, SourceReturns, SourceReports, SourceGoes, Copier, CopierReads,
         CopierSends, CopierGivesUp, CopierShuts, CopierEnds, CopierGoes, loop
<1>8. CASE Refresh \/ IndexPanic \/ (\E c : Move(c)) \/ UNCHANGED vars
  BY <1>2, <1>8 DEF Refresh, IndexPanic, Move, vars, loop
<1> QED
  BY <1>1, <1>3, <1>4, <1>5, <1>6, <1>7, <1>8
     DEF Next, Keys, KeyLogs, KeyFleet, KeyRestart, KeyBack, KeyQuit, KeyAct, KeyUp, KeyDown, Handle

(* While the stream on the screen has not reported its end, the loop is    *)
(* listening to it.                                                        *)
THEOREM CurrentIsListenedTo == SafetySpec => []ListensToCurrent
<1> DEFINE All == TypeOK /\ Scanned /\ OneStreamFollowed /\ OwnMessages /\ ListensToCurrent
<1>1. Init => All
  <2> SUFFICES ASSUME Init PROVE OneStreamFollowed /\ OwnMessages /\ ListensToCurrent
    BY TypeInit
  <2>1. OneStreamFollowed
    BY DEF Init, OneStreamFollowed, Empty, None
  <2>2. OwnMessages
    BY DEF Init, OwnMessages
  <2> QED BY <2>1, <2>2 DEF Init, ListensToCurrent
<1>2. All /\ [Next]_vars => All'
  BY TypeStep, FollowedStep, OwnStep, ListensStep
<1>3. All => ListensToCurrent
  OBVIOUS
<1> HIDE DEF All
<1> QED BY <1>1, <1>2, <1>3, PTL DEF SafetySpec

----------------------------------------------------------------------------
(* Lines in order *)

(* A stream that was not opened has nothing anywhere. *)
Fresh ==
  \A s \in Streams : name[s] = NoName =>
    /\ source[s] = "off" /\ count[s].scanned = 0 /\ channel[s] = <<>> /\ waiters[s] = 0
    /\ \A m \in Messages : m.from = s => inbox[m] = 0

(* There is one waiter on a stream or one message of it on its way. *)
Sole(s) ==
  /\ waiters[s] <= 1
  /\ \A m \in Messages : m.from = s /\ inbox[m] > 0 =>
       /\ inbox[m] = 1 /\ waiters[s] = 0
       /\ \A o \in Messages : o.from = s /\ inbox[o] > 0 => o = m

(* A waiter, or a line that will be followed by one. *)
Going(s) == waiters[s] > 0 \/ \E m \in Lines : m.from = s /\ inbox[m] > 0

(* What the copier has sent, and the beginning of a channel that is lines. *)
SentTo(s) == IF copier[s] = "send" THEN count[s].scanned - 1 ELSE count[s].scanned
LinesUpTo(q, i) == \A j \in 1 .. i : q[j].kind = "line"

(* The lines at the beginning of a channel follow number b; there have been *)
(* n if all that is in it is lines.                                         *)
Follow(q, b, n) ==
  /\ \A i \in 1 .. Len(q) : LinesUpTo(q, i) => q[i].n = b + i
  /\ LinesUpTo(q, Len(q)) => n = b + Len(q)

(* Line b was the last to leave the channel: it is on its way, or shown.    *)
Left(s, b) ==
  /\ Follow(channel[s], b, SentTo(s))
  /\ \A m \in Lines : m.from = s /\ inbox[m] > 0 => m.n = b
  /\ panel.lines # <<>> =>
       panel.lines[Len(panel.lines)].n = IF waiters[s] > 0 THEN b ELSE b - 1

(* The lines shown are of one stream and follow one another. *)
Consecutive(s, lines) ==
  \A i \in 1 .. Len(lines) :
    lines[i].from = s /\ (i > 1 => lines[i].n = lines[i - 1].n + 1)

Order(s) ==
  /\ Sole(s)
  /\ Going(s) => \E b \in Nat : Left(s, b)
  /\ Consecutive(s, panel.lines)

Orderly == ~crossed => \A s \in Streams : s = current => Order(s)

(* A line that follows the last one is shown after it. *)
LEMMA ShownConsecutive ==
  ASSUME NEW s \in Streams, NEW lines \in Seq(Lines), NEW m \in Lines, Consecutive(s, lines),
         m.from = s, lines # <<>> => m.n = lines[Len(lines)].n + 1
  PROVE  /\ Consecutive(s, Shown(lines, m))
         /\ Shown(lines, m) # <<>> /\ Shown(lines, m)[Len(Shown(lines, m))] = m
<1> DEFINE all == Append(lines, m)
<1>1. all \in Seq(Lines) /\ Len(all) = Len(lines) + 1 /\ MaxShown \in Nat \ {0}
  BY TermAssumption
<1>2. Consecutive(s, all) /\ all[Len(all)] = m
  BY DEF Consecutive
<1>3. CASE Len(all) > MaxShown
  <2> DEFINE k == Len(all) - MaxShown
             rest == SubSeq(all, k + 1, Len(all))
  <2>1. k \in Nat /\ k + 1 \in 1 .. Len(all)
    BY <1>1, <1>3
  <2>2. Len(rest) = MaxShown /\ \A i \in 1 .. MaxShown : rest[i] = all[k + i]
    BY <1>1, <2>1
  <2>3. Shown(lines, m) = rest
    BY <1>3 DEF Shown
  <2> HIDE DEF all, rest
  <2>4. Consecutive(s, rest)
    <3> SUFFICES ASSUME NEW i \in 1 .. Len(rest)
                 PROVE  rest[i].from = s /\ (i > 1 => rest[i].n = rest[i - 1].n + 1)
      BY DEF Consecutive
    <3>1. k + i \in 1 .. Len(all) /\ rest[i] = all[k + i]
      BY <1>1, <2>1, <2>2
    <3>2. ASSUME i > 1 PROVE rest[i - 1] = all[(k + i) - 1] /\ k + i > 1
      <4>1. i - 1 \in 1 .. MaxShown /\ k + (i - 1) = (k + i) - 1
        BY <1>1, <2>1, <2>2, <3>2
      <4>2. rest[i - 1] = all[k + (i - 1)]
        BY <2>2, <4>1
      <4> HIDE DEF k
      <4> QED BY <2>1, <3>2, <4>1, <4>2
    <3> HIDE DEF k
    <3>3. /\ all[k + i].from = s
          /\ k + i > 1 => all[k + i].n = all[(k + i) - 1].n + 1
      BY <1>2, <3>1 DEF Consecutive
    <3> QED BY <3>1, <3>2, <3>3
  <2>5. rest[Len(rest)] = all[Len(all)] /\ Len(rest) # 0
    BY <1>1, <2>1, <2>2
  <2>6. rest # <<>>
    BY <2>5
  <2> QED BY <1>2, <2>3, <2>4, <2>5, <2>6
<1>4. CASE ~(Len(all) > MaxShown)
  BY <1>1, <1>2, <1>4 DEF Shown
<1> QED BY <1>3, <1>4

(* A line that is sent is the next, *)
LEMMA LineFollows ==
  ASSUME NEW q \in Seq(Messages), NEW b \in Nat, NEW n \in Nat, Follow(q, b, n),
         NEW m \in Messages, m.n = n + 1
  PROVE  Follow(Append(q, m), b, n + 1)
<1> DEFINE r == Append(q, m)
<1>1. /\ Len(r) = Len(q) + 1 /\ r[Len(r)] = m /\ Len(q) \in Nat
      /\ \A i \in 1 .. Len(q) : r[i] = q[i]
  OBVIOUS
<1> HIDE DEF r
<1>2. \A i \in 1 .. Len(q) : LinesUpTo(r, i) => LinesUpTo(q, i)
  BY <1>1 DEF LinesUpTo
<1>3. LinesUpTo(r, Len(r)) => LinesUpTo(q, Len(q))
  BY <1>1 DEF LinesUpTo
<1>4. LinesUpTo(r, Len(r)) => m.n = b + Len(r) /\ n + 1 = b + Len(r)
  BY <1>1, <1>3 DEF Follow
<1>5. \A i \in 1 .. Len(r) : i \in 1 .. Len(q) \/ i = Len(r)
  BY <1>1
<1> QED BY <1>1, <1>2, <1>4, <1>5 DEF Follow, r

(* an end ends the lines, *)
LEMMA EndFollows ==
  ASSUME NEW q \in Seq(Messages), NEW b \in Nat, NEW n, Follow(q, b, n),
         NEW m \in Messages, m.kind # "line", NEW k
  PROVE  Follow(Append(q, m), b, k)
<1> DEFINE r == Append(q, m)
<1>1. /\ Len(r) = Len(q) + 1 /\ r[Len(r)] = m /\ Len(q) \in Nat
      /\ \A i \in 1 .. Len(q) : r[i] = q[i]
  OBVIOUS
<1> HIDE DEF r
<1>2. \A i \in 1 .. Len(q) : LinesUpTo(r, i) => LinesUpTo(q, i)
  BY <1>1 DEF LinesUpTo
<1>3. ~LinesUpTo(r, Len(r))
  BY <1>1 DEF LinesUpTo
<1>4. \A i \in 1 .. Len(r) : i \in 1 .. Len(q) \/ i = Len(r)
  BY <1>1
<1> QED BY <1>1, <1>2, <1>3, <1>4 DEF Follow, r

(* and a line that is received is the one after the last. *)
LEMMA HeadFollows ==
  ASSUME NEW q \in Seq(Messages), q # <<>>, Head(q).kind = "line", NEW b \in Nat,
         NEW n \in Nat, Follow(q, b, n)
  PROVE  Head(q).n = b + 1 /\ Follow(Tail(q), b + 1, n)
<1> DEFINE r == Tail(q)
<1>1. /\ Len(q) = Len(r) + 1 /\ Head(q) = q[1] /\ Len(r) \in Nat
      /\ \A i \in 1 .. Len(r) : r[i] = q[i + 1]
  OBVIOUS
<1> HIDE DEF r
<1>2. ASSUME NEW i \in 0 .. Len(r), LinesUpTo(r, i) PROVE LinesUpTo(q, i + 1)
  <2>1. ASSUME NEW j \in 1 .. i + 1 PROVE q[j].kind = "line"
    <3>1. CASE j = 1
      BY <1>1, <3>1
    <3>2. CASE j # 1
      <4>1. j - 1 \in 1 .. i /\ j - 1 \in 1 .. Len(r)
        BY <3>2
      <4>2. r[j - 1] = q[j]
        BY <1>1, <4>1
      <4> QED BY <1>2, <4>1, <4>2 DEF LinesUpTo
    <3> QED BY <3>1, <3>2
  <2> QED BY <2>1 DEF LinesUpTo
<1>3. LinesUpTo(q, 1)
  BY <1>1 DEF LinesUpTo
<1>4. Head(q).n = b + 1
  BY <1>1, <1>3 DEF Follow
<1>5. ASSUME NEW i \in 1 .. Len(r), LinesUpTo(r, i) PROVE r[i].n = b + 1 + i
  <2>1. LinesUpTo(q, i + 1) /\ i + 1 \in 1 .. Len(q)
    BY <1>1, <1>2, <1>5
  <2>2. q[i + 1].n = b + (i + 1)
    BY <2>1 DEF Follow
  <2>3. b + (i + 1) = b + 1 + i
    OBVIOUS
  <2> QED BY <1>1, <2>2, <2>3
<1>6. LinesUpTo(r, Len(r)) => n = b + 1 + Len(r)
  BY <1>1, <1>2 DEF Follow
<1> QED BY <1>4, <1>5, <1>6 DEF Follow, r

(* What no step has touched is as it was. *)
Untouched(s) ==
  /\ source'[s] = source[s] /\ count'[s] = count[s] /\ copier'[s] = copier[s]
  /\ channel'[s] = channel[s] /\ waiters'[s] = waiters[s]
  /\ \A m \in Messages : m.from = s => inbox'[m] = inbox[m]

(* A step is about one stream: the others are not touched. *)
LEMMA OthersUntouched ==
  ASSUME TypeOK, OwnMessages, NEW t \in Streams, Source(t) \/ Copier(t) \/ Receive(t),
         NEW s \in Streams, s # t
  PROVE  Untouched(s)
<1>1. CASE Source(t)
  BY <1>1 DEF Source, SourceWrites, SourceReturns, SourceReports, SourceGoes, Untouched, TypeOK
<1>2. CASE Copier(t)
  BY <1>2 DEF Copier, CopierReads, CopierSends, CopierGivesUp, CopierShuts, CopierEnds, CopierGoes, Untouched,
              TypeOK
<1>3. CASE Receive(t)
  <2>1. PICK m \in Messages : m.from = t /\ inbox' = [inbox EXCEPT ![m] = @ + 1]
    <3>1. CASE channel[t] # <<>> /\ inbox' = [inbox EXCEPT ![Head(channel[t])] = @ + 1]
      <4>1. channel[t] \in Seq(Messages)
        BY DEF TypeOK
      <4>2. Head(channel[t]) \in Messages /\ Head(channel[t]).from = t
        BY <3>1, <4>1 DEF OwnMessages
      <4> QED BY <3>1, <4>2
    <3>2. CASE inbox' = [inbox EXCEPT ![Ending(t, "closed")] = @ + 1]
      <4>1. Ending(t, "closed") \in Messages /\ Ending(t, "closed").from = t
        BY MessageTyped DEF Messages, Ending
      <4> QED BY <3>2, <4>1
    <3> QED BY <1>3, <3>1, <3>2 DEF Receive
  <2>2. \A o \in Messages : o.from = s => inbox'[o] = inbox[o]
    BY <2>1 DEF TypeOK
  <2> QED BY <1>3, <2>2 DEF Receive, Untouched, TypeOK
<1> QED BY <1>1, <1>2, <1>3

(* A key leaves the streams alone but for the one it opens. *)
LEMMA OpenUntouched ==
  ASSUME TypeOK, NEW n, NEW whose, Open(n, whose)
  PROVE  \E t \in Streams :
           /\ name[t] = NoName /\ name' = [name EXCEPT ![t] = n] /\ current' = t
           /\ waiters'[t] = 1 /\ copier'[t] = "scan" /\ panel'.lines = <<>> /\ ~crossed'
           /\ UNCHANGED <<count, channel, inbox>>
           /\ \A s \in Streams : s # t => Untouched(s)
<1>1. PICK t \in Streams :
       /\ name[t] = NoName /\ name' = [name EXCEPT ![t] = n] /\ current' = t
       /\ source' = [source EXCEPT ![t] = "run"] /\ copier' = [copier EXCEPT ![t] = "scan"]
       /\ waiters' = [waiters EXCEPT ![t] = 1]
  BY DEF Open
<1>2. panel'.lines = <<>> /\ ~crossed' /\ UNCHANGED <<count, channel, inbox>>
  BY DEF Open, Empty
<1> QED BY <1>1, <1>2 DEF Untouched, TypeOK

(* What is new has nothing anywhere. *)
LEMMA FreshStep ==
  TypeOK /\ Scanned /\ OwnMessages /\ Fresh /\ [Next]_vars => Fresh'
<1> SUFFICES ASSUME TypeOK, Scanned, OwnMessages, Fresh, [Next]_vars,
                    NEW s \in Streams, name'[s] = NoName
             PROVE  (/\ source[s] = "off" /\ count[s].scanned = 0 /\ channel[s] = <<>>
                     /\ waiters[s] = 0
                     /\ \A m \in Messages : m.from = s => inbox[m] = 0)'
  BY DEF Fresh
<1> DEFINE Done == /\ source'[s] = "off" /\ count'[s].scanned = 0 /\ channel'[s] = <<>>
                   /\ waiters'[s] = 0
                   /\ \A m \in Messages : m.from = s => inbox'[m] = 0
<1>1. ASSUME name[s] = NoName, Untouched(s) PROVE Done
  BY <1>1 DEF Fresh, Untouched
<1>2. ASSUME NEW n \in StreamNames, NEW whose \in SUBSET Names, Open(n, whose) PROVE Done
  <2>1. PICK t \in Streams :
          /\ name[t] = NoName /\ name' = [name EXCEPT ![t] = n]
          /\ \A o \in Streams : o # t => Untouched(o)
    BY <1>2, OpenUntouched
  <2>2. s # t /\ name[s] = NoName
    BY <2>1, TermAssumption DEF TypeOK
  <2> QED BY <1>1, <2>1, <2>2
<1>3. ASSUME UNCHANGED <<goroutines, waiters, inbox>> PROVE Done
  BY <1>1, <1>3 DEF goroutines, Untouched
<1>4. ASSUME NEW v, Leave(v) PROVE Done
  BY <1>1, <1>4 DEF Leave, Untouched
<1>5. ASSUME NEW m \in Messages, HandleLine(m) \/ HandleEnd(m) PROVE Done
  <2>1. name[s] = NoName /\ s # current /\ inbox[m] > 0 /\ UNCHANGED <<current, goroutines>>
        /\ inbox' = [inbox EXCEPT ![m] = @ - 1]
    BY <1>5 DEF HandleLine, HandleEnd, Take, goroutines, Scanned
  <2>2. m.from # s
    BY <2>1 DEF Fresh
  <2>3. waiters'[s] = waiters[s]
    BY <1>5, <2>1 DEF HandleLine, HandleEnd, Rearmed, TypeOK
  <2>4. \A o \in Messages : o.from = s => inbox'[o] = inbox[o]
    BY <2>1, <2>2 DEF TypeOK
  <2> QED BY <1>1, <2>1, <2>3, <2>4 DEF goroutines, Untouched
<1>6. ASSUME NEW t \in Streams, Source(t) \/ Copier(t) \/ Receive(t) PROVE Done
  <2>1. name[s] = NoName
    BY <1>6 DEF Source, SourceWrites, SourceReturns, SourceReports, SourceGoes, Copier, CopierReads,
                CopierSends, CopierGivesUp, CopierShuts, CopierEnds, CopierGoes, Receive
  <2>2. source[s] = "off" /\ copier[s] = "off" /\ waiters[s] = 0
    BY <2>1 DEF Fresh, Scanned
  <2>3. s # t
    BY <1>6, <2>2
       DEF Source, SourceWrites, SourceReturns, SourceReports, SourceGoes, Copier, CopierReads,
           CopierSends, CopierGivesUp, CopierShuts, CopierEnds, CopierGoes, Receive
  <2> QED BY <1>1, <1>6, <2>1, <2>3, OthersUntouched
<1> HIDE DEF Done
<1>7. ASSUME Keys \/ Refresh PROVE Done
  <2>1. CASE KeyLogs
    BY <1>2, <2>1, ItemTyped DEF KeyLogs
  <2>2. CASE KeyFleet
    BY <1>2, <2>2 DEF KeyFleet, StreamNames
  <2>3. CASE KeyRestart
    BY <1>2, <2>3 DEF KeyRestart, TypeOK
  <2>4. CASE KeyBack \/ KeyQuit \/ KeyAct
    BY <1>4, <2>4 DEF KeyBack, KeyQuit, KeyAct
  <2>5. CASE KeyUp \/ KeyDown \/ IndexPanic \/ Refresh
    BY <1>3, <2>5 DEF KeyUp, KeyDown, Move, IndexPanic, Refresh
  <2> QED BY <1>7, <2>1, <2>2, <2>3, <2>4, <2>5 DEF Keys
<1>8. ASSUME UNCHANGED vars PROVE Done
  BY <1>3, <1>8 DEF vars
<1>9. Done
  BY <1>5, <1>6, <1>7, <1>8 DEF Next, Handle
<1> QED BY <1>9 DEF Done

(* What the loop has of a stream is as it was, and what is in its channel   *)
(* still follows.                                                           *)
LEMMA OrderKept ==
  ASSUME NEW s \in Streams, Order(s), panel'.lines = panel.lines, waiters'[s] = waiters[s],
         \A m \in Messages : m.from = s => inbox'[m] = inbox[m],
         \A b \in Nat : Follow(channel[s], b, SentTo(s)) => Follow(channel'[s], b, SentTo(s)')
  PROVE  Order(s)'
<1>1. Sole(s)' /\ Consecutive(s, panel.lines)'
  BY DEF Order, Sole, Consecutive
<1>2. \A m \in Lines : m \in Messages
  BY DEF Messages
<1>3. Going(s)' => \E b \in Nat : Left(s, b)'
  <2> SUFFICES ASSUME Going(s)' PROVE \E b \in Nat : Left(s, b)'
    OBVIOUS
  <2>1. PICK b \in Nat : Left(s, b)
    BY <1>2 DEF Order, Going
  <2>2. Follow(channel'[s], b, SentTo(s)')
    BY <2>1 DEF Left
  <2>3. Left(s, b)'
    BY <1>2, <2>1, <2>2 DEF Left
  <2> QED BY <2>3
<1> QED BY <1>1, <1>3 DEF Order

(* In particular when nothing was touched. *)
LEMMA OrderSame ==
  ASSUME NEW s \in Streams, Order(s), panel'.lines = panel.lines, Untouched(s)
  PROVE  Order(s)'
<1>1. SentTo(s)' = SentTo(s)
  BY DEF SentTo, Untouched
<1> QED BY <1>1, OrderKept DEF Untouched

(* The loop handles a message. *)
LEMMA HandleOrder ==
  ASSUME TypeOK, OneStreamFollowed, NEW m \in Messages, HandleLine(m) \/ HandleEnd(m),
         NEW s \in Streams, s = current, Order(s), ~crossed'
  PROVE  Order(s)'
<1>1. /\ inbox[m] > 0 /\ inbox' = [inbox EXCEPT ![m] = @ - 1]
      /\ UNCHANGED <<source, count, copier, channel>>
  BY DEF HandleLine, HandleEnd, Take, goroutines
<1>2. ASSUME m.from # s PROVE Order(s)'
  <2>1. waiters'[s] = waiters[s] /\ panel'.lines = panel.lines
    BY <1>2 DEF HandleLine, HandleEnd, TypeOK
  <2>2. \A o \in Messages : o.from = s => inbox'[o] = inbox[o]
    BY <1>1, <1>2 DEF TypeOK
  <2> QED BY <1>1, <2>1, <2>2, OrderSame DEF Untouched
<1>3. ASSUME m.from = s, HandleEnd(m) PROVE Order(s)'
  <2>1. waiters' = waiters /\ panel'.lines = panel.lines /\ m \notin Lines
    BY <1>3 DEF HandleEnd, TypeOK, Ends, Lines
  <2>2. waiters[s] = 0 /\ \A o \in Messages : o.from = s => inbox'[o] = 0
    BY <1>1, <1>3 DEF Order, Sole, TypeOK
  <2>3. ~Going(s)' /\ Sole(s)'
    BY <2>1, <2>2 DEF Going, Sole, Messages
  <2>4. Consecutive(s, panel.lines)'
    BY <2>1 DEF Order, Consecutive
  <2> QED BY <2>3, <2>4 DEF Order
<1>4. ASSUME m.from = s, HandleLine(m) PROVE Order(s)'
  <2>1. m \in Lines /\ Accepted(m)
    BY <1>4, MessageTyped DEF HandleLine, Accepted, NameOf, OneStreamFollowed, Streams, None
  <2>2. /\ panel' = [panel EXCEPT !.lines = Shown(panel.lines, m)]
        /\ waiters' = Rearmed
    BY <1>4, <2>1 DEF HandleLine
  <2>3. panel'.lines = Shown(panel.lines, m)
    BY <2>2 DEF TypeOK
  <2>4. waiters[s] = 0 /\ \A o \in Messages : o.from = s => inbox'[o] = 0
    BY <1>1, <1>4 DEF Order, Sole, TypeOK
  <2>5. waiters'[s] = 1
    BY <2>2, <2>4 DEF Rearmed, TypeOK, Streams, None
  <2>6. PICK b \in Nat : Left(s, b)
    BY <1>1, <1>4, <2>1 DEF Order, Going
  <2>7. m.n = b /\ (panel.lines # <<>> => panel.lines[Len(panel.lines)].n = b - 1)
    BY <1>1, <1>4, <2>1, <2>4, <2>6 DEF Left
  <2>8. panel.lines \in Seq(Lines) /\ (panel.lines # <<>> => m.n = panel.lines[Len(panel.lines)].n + 1)
    <3>1. panel.lines \in Seq(Lines)
      BY DEF TypeOK
    <3>2. panel.lines # <<>> => m.n = panel.lines[Len(panel.lines)].n + 1
      BY <2>7
    <3> QED BY <3>1, <3>2
  <2>9. /\ Consecutive(s, panel'.lines)
        /\ panel'.lines # <<>> /\ panel'.lines[Len(panel'.lines)] = m
    BY <1>4, <2>1, <2>3, <2>8, ShownConsecutive DEF Order
  <2>10. Left(s, b)'
    <3>1. Follow(channel[s], b, SentTo(s))'
      BY <1>1, <2>6 DEF Left, SentTo, Follow, LinesUpTo
    <3>2. \A o \in Lines : ~(o.from = s /\ inbox'[o] > 0)
      BY <2>4 DEF Messages
    <3> QED BY <2>5, <2>7, <2>9, <3>1, <3>2 DEF Left
  <2>11. Sole(s)'
    BY <2>4, <2>5 DEF Sole
  <2> QED BY <2>9, <2>10, <2>11 DEF Order
<1> QED BY <1>2, <1>3, <1>4

(* A waiter takes a message off the channel. *)
LEMMA ReceiveOrder ==
  ASSUME TypeOK, Scanned, OwnMessages, NEW s \in Streams, Receive(s), Order(s)
  PROVE  Order(s)'
<1>1. waiters[s] = 1 /\ waiters'[s] = 0 /\ panel' = panel /\ UNCHANGED <<count, copier>>
  BY DEF Receive, loop, Order, Sole, TypeOK
<1>2. \A o \in Messages : o.from = s => inbox[o] = 0
  BY <1>1 DEF Order, Sole, TypeOK
<1>3. ASSUME NEW m \in Messages, m.from = s, inbox' = [inbox EXCEPT ![m] = @ + 1]
      PROVE  Sole(s)' /\ \A o \in Messages : o.from = s /\ inbox'[o] > 0 => o = m
  BY <1>1, <1>2, <1>3 DEF Sole, TypeOK
<1>4. Consecutive(s, panel.lines)'
  BY <1>1 DEF Order, Consecutive
<1>5. ASSUME NEW m \in Messages, m.from = s, m \notin Lines, inbox' = [inbox EXCEPT ![m] = @ + 1]
      PROVE  Order(s)'
  <2>1. \A o \in Messages : o.from = s /\ inbox'[o] > 0 => o = m
    BY <1>3, <1>5
  <2>2. ~Going(s)'
    BY <1>1, <1>5, <2>1 DEF Going, Messages
  <2> QED BY <1>3, <1>4, <1>5, <2>2 DEF Order
<1>6. CASE channel[s] = <<>>
  <2>1. /\ inbox' = [inbox EXCEPT ![Ending(s, "closed")] = @ + 1]
    BY <1>6 DEF Receive
  <2>2. /\ Ending(s, "closed") \in Messages /\ Ending(s, "closed").from = s
        /\ Ending(s, "closed") \notin Lines
    BY MessageTyped DEF Messages, Ending, Lines
  <2> QED BY <1>5, <2>1, <2>2
<1>7. CASE channel[s] # <<>>
  <2> DEFINE m == Head(channel[s])
  <2>1. /\ inbox' = [inbox EXCEPT ![m] = @ + 1]
        /\ channel' = [channel EXCEPT ![s] = Tail(@)]
    BY <1>7 DEF Receive
  <2>2. channel[s] \in Seq(Messages) /\ channel'[s] = Tail(channel[s])
    BY <2>1 DEF TypeOK
  <2>3. m \in Messages /\ m.from = s
    BY <1>7, <2>2 DEF OwnMessages
  <2>4. CASE m \in Lines
    <3>1. PICK b \in Nat : Left(s, b)
      BY <1>1 DEF Order, Going
    <3>2. SentTo(s) \in Nat /\ SentTo(s)' = SentTo(s)
      BY <1>1 DEF SentTo, Scanned, TypeOK, Counts
    <3>3. m.n = b + 1 /\ Follow(channel'[s], b + 1, SentTo(s))
      BY <1>7, <2>2, <2>4, <3>1, <3>2, HeadFollows, MessageTyped DEF Left
    <3>4. \A o \in Lines : o.from = s /\ inbox'[o] > 0 => o.n = b + 1
      <4> HIDE DEF m
      <4> QED BY <1>3, <2>1, <2>3, <3>3 DEF Messages
    <3>5. panel.lines # <<>> => panel.lines[Len(panel.lines)].n = b + 1 - 1
      BY <1>1, <3>1 DEF Left
    <3>6. Left(s, b + 1)'
      BY <1>1, <3>2, <3>3, <3>4, <3>5 DEF Left
    <3>7. Sole(s)'
      <4> HIDE DEF m
      <4> QED BY <1>3, <2>1, <2>3
    <3>8. b + 1 \in Nat
      OBVIOUS
    <3> QED BY <1>4, <3>6, <3>7, <3>8 DEF Order
  <2>5. CASE m \notin Lines
    <3> HIDE DEF m
    <3> QED BY <1>5, <2>1, <2>3, <2>5
  <2> QED BY <2>4, <2>5
<1> QED BY <1>6, <1>7

(* The goroutines of the stream itself. *)
LEMMA GoroutinesOrder ==
  ASSUME TypeOK, Scanned, NEW s \in Streams, s \notin cancelled, Source(s) \/ Copier(s), Order(s)
  PROVE  Order(s)'
<1>1. /\ UNCHANGED <<panel, waiters, inbox>>
  BY DEF Source, SourceWrites, SourceReturns, SourceReports, SourceGoes, Copier, CopierReads,
         CopierSends, CopierGivesUp, CopierShuts, CopierEnds, CopierGoes, loop
<1>2. channel[s] \in Seq(Messages) /\ SentTo(s) \in Nat
  BY DEF SentTo, Scanned, TypeOK, Counts
<1>3. ASSUME channel'[s] = channel[s], SentTo(s)' = SentTo(s) PROVE Order(s)'
  BY <1>1, <1>3, OrderKept
<1>4. ASSUME NEW m \in Messages, m \notin Lines, channel'[s] = Append(channel[s], m) PROVE Order(s)'
  <2>1. m.kind # "line"
    BY <1>4 DEF Messages, Ends
  <2>2. \A b \in Nat : Follow(channel[s], b, SentTo(s)) => Follow(channel'[s], b, SentTo(s)')
    BY <1>2, <1>4, <2>1, EndFollows
  <2> QED BY <1>1, <2>2, OrderKept
<1>5. CASE SourceWrites(s) \/ SourceReturns(s)
  BY <1>3, <1>5 DEF SourceWrites, SourceReturns, SourceGoes, SentTo
<1>6. CASE SourceReports(s)
  <2>1. source[s] \in {"done", "err"} /\ UNCHANGED <<count, copier>>
    BY <1>6 DEF SourceReports, SourceGoes
  <2>2. Ending(s, source[s]) \in Messages /\ Ending(s, source[s]) \notin Lines
    BY <2>1, MessageTyped DEF Messages, Ending, Lines
  <2>3. channel' = channel \/ channel'[s] = Append(channel[s], Ending(s, source[s]))
    BY <1>6 DEF SourceReports, TypeOK
  <2> QED BY <1>3, <1>4, <2>1, <2>2, <2>3 DEF SentTo
<1>7. CASE CopierReads(s)
  <2>1. /\ copier[s] = "scan" /\ copier'[s] = "send" /\ channel' = channel
        /\ count'[s].scanned = count[s].scanned + 1
    BY <1>7 DEF CopierReads, CopierGoes, TypeOK
  <2>2. SentTo(s)' = SentTo(s)
    BY <1>2, <2>1 DEF SentTo
  <2> QED BY <1>3, <2>1, <2>2
<1>8. CASE CopierSends(s)
  <2> DEFINE m == Line(s, count[s].scanned)
  <2>1. /\ copier[s] = "send" /\ channel'[s] = Append(channel[s], m)
        /\ \/ copier'[s] = "send" /\ count'[s].scanned = count[s].scanned + 1
           \/ copier'[s] = "scan" /\ count'[s].scanned = count[s].scanned
    BY <1>8 DEF CopierSends, CopierGoes, TypeOK, Counts
  <2>2. count[s].scanned \in 1 .. MaxLines
    BY <2>1, TermAssumption DEF Scanned, Counts, TypeOK
  <2>3. SentTo(s) = count[s].scanned - 1 /\ SentTo(s)' = count[s].scanned
    BY <2>1, <2>2 DEF SentTo
  <2>4. m \in Messages /\ m.n = SentTo(s) + 1 /\ SentTo(s)' = SentTo(s) + 1
    BY <2>2, <2>3, MessageTyped DEF Messages, Line
  <2> HIDE DEF m
  <2>5. \A b \in Nat : Follow(channel[s], b, SentTo(s)) => Follow(channel'[s], b, SentTo(s)')
    BY <1>2, <2>1, <2>4, LineFollows
  <2> QED BY <1>1, <2>5, OrderKept
<1>9. CASE CopierGivesUp(s)
  BY <1>9 DEF CopierGivesUp, Notices
<1>10. CASE CopierShuts(s)
  <2>1. copier[s] = "scan" /\ copier'[s] = "shut" /\ UNCHANGED <<count, channel>>
    BY <1>10 DEF CopierShuts, CopierGoes, TypeOK
  <2>2. SentTo(s)' = SentTo(s)
    BY <2>1 DEF SentTo
  <2> QED BY <1>3, <2>1, <2>2
<1>11. CASE CopierEnds(s)
  <2>1. /\ copier[s] \in {"scan", "shut"} /\ copier'[s] = "done" /\ count' = count
        /\ channel' = channel \/ channel'[s] = Append(channel[s], Ending(s, "done"))
    BY <1>11 DEF CopierEnds, CopierGoes, TypeOK
  <2>2. Ending(s, "done") \in Messages /\ Ending(s, "done") \notin Lines
    BY MessageTyped DEF Messages, Ending, Lines
  <2>3. SentTo(s)' = SentTo(s)
    BY <2>1 DEF SentTo
  <2> QED BY <1>3, <1>4, <2>1, <2>2, <2>3
<1> QED BY <1>5, <1>6, <1>7, <1>8, <1>9, <1>10, <1>11 DEF Source, Copier

(* A stream that was just opened is in order. *)
LEMMA OpenOrder ==
  ASSUME TypeOK, Scanned, Fresh, NEW n, NEW whose, Open(n, whose), NEW s \in Streams, s = current'
  PROVE  Order(s)'
<1>1. /\ name[s] = NoName /\ waiters'[s] = 1 /\ copier'[s] = "scan" /\ panel'.lines = <<>>
      /\ UNCHANGED <<count, channel, inbox>>
  BY OpenUntouched
<1>2. /\ count[s].scanned = 0 /\ channel[s] = <<>>
      /\ \A m \in Messages : m.from = s => inbox[m] = 0
  BY <1>1 DEF Fresh
<1>3. Sole(s)'
  BY <1>1, <1>2 DEF Sole
<1>4. Consecutive(s, panel.lines)'
  BY <1>1 DEF Consecutive
<1>5. Follow(<<>>, 0, 0)
  BY DEF Follow
<1>6. SentTo(s)' = 0
  BY <1>1, <1>2 DEF SentTo
<1>7. Left(s, 0)'
  BY <1>1, <1>2, <1>5, <1>6 DEF Left, Messages
<1> QED BY <1>3, <1>4, <1>7 DEF Order

(* Every step keeps the lines of the stream on the screen in order. *)
LEMMA OrderStep ==
  TypeOK /\ Scanned /\ OneStreamFollowed /\ OwnMessages /\ Fresh /\ Orderly /\ [Next]_vars
    => Orderly'
<1> SUFFICES ASSUME TypeOK, Scanned, OneStreamFollowed, OwnMessages, Fresh, Orderly, [Next]_vars,
                    ~crossed', NEW s \in Streams, s = current'
             PROVE  Order(s)'
  BY DEF Orderly
<1>1. ASSUME NEW n, NEW whose, Open(n, whose) PROVE Order(s)'
  BY <1>1, OpenOrder
<1>2. ASSUME NEW v, Leave(v) PROVE FALSE
  BY <1>2 DEF Leave, Streams, None
<1>3. ASSUME UNCHANGED <<panel, current, crossed, goroutines, waiters, inbox>> PROVE Order(s)'
  BY <1>3, OrderSame DEF Orderly, goroutines, Untouched
<1>4. ASSUME NEW m \in Messages, HandleLine(m) \/ HandleEnd(m) PROVE Order(s)'
  <2>1. current' = current
    BY <1>4 DEF HandleLine, HandleEnd, Take
  <2>2. ~crossed
    BY <1>4, Zenon DEF HandleLine, HandleEnd
  <2> QED BY <1>4, <2>1, <2>2, HandleOrder DEF Orderly
<1>5. ASSUME NEW t \in Streams, Source(t) \/ Copier(t) \/ Receive(t) PROVE Order(s)'
  <2>1. UNCHANGED <<panel, current, crossed>>
    BY <1>5
       DEF Source, SourceWrites, SourceReturns, SourceReports, SourceGoes, Copier, CopierReads,
           CopierSends, CopierGivesUp, CopierShuts, CopierEnds, CopierGoes, Receive, loop
  <2>2. Order(s) /\ s \notin cancelled
    BY <2>1 DEF Orderly, OneStreamFollowed, Streams, None
  <2>3. CASE t # s
    BY <1>5, <2>1, <2>2, <2>3, OthersUntouched, OrderSame
  <2>4. CASE t = s
    BY <1>5, <2>2, <2>4, ReceiveOrder, GoroutinesOrder
  <2> QED BY <2>3, <2>4
<1>6. CASE Keys \/ Refresh
  <2>1. CASE KeyLogs \/ KeyFleet \/ KeyRestart
    BY <1>1, <2>1 DEF KeyLogs, KeyFleet, KeyRestart
  <2>2. CASE KeyBack \/ KeyQuit \/ KeyAct
    BY <1>2, <2>2 DEF KeyBack, KeyQuit, KeyAct
  <2>3. CASE KeyUp \/ KeyDown \/ IndexPanic \/ Refresh
    BY <1>3, <2>3 DEF KeyUp, KeyDown, Move, IndexPanic, Refresh, loop
  <2> QED BY <1>6, <2>1, <2>2, <2>3 DEF Keys
<1>7. CASE UNCHANGED vars
  BY <1>3, <1>7 DEF vars, loop
<1> QED BY <1>4, <1>5, <1>6, <1>7 DEF Next, Handle

----------------------------------------------------------------------------
(* No line twice *)

(* The lines in a channel come later and later, and all of them were sent. *)
Rising(s) ==
  /\ \A i, j \in 1 .. Len(channel[s]) :
       i < j /\ channel[s][i].kind = "line" /\ channel[s][j].kind = "line"
         => channel[s][i].n < channel[s][j].n
  /\ \A i \in 1 .. Len(channel[s]) : channel[s][i].kind = "line" => channel[s][i].n <= SentTo(s)

(* A line that has left its channel: those still in it come later. *)
Past(l) ==
  /\ l.n <= SentTo(l.from)
  /\ \A i \in 1 .. Len(channel[l.from]) :
       channel[l.from][i].kind = "line" => l.n < channel[l.from][i].n

Distinct(lines) == \A i, j \in 1 .. Len(lines) : lines[i] = lines[j] => i = j

(* A line is in one place: a channel, on its way, or on the panel. *)
OnItsWay == \A l \in Lines : inbox[l] <= 1 /\ (inbox[l] > 0 => Past(l))
OnPanel ==
  \A i \in 1 .. Len(panel.lines) :
    inbox[panel.lines[i]] = 0 /\ Past(panel.lines[i]) /\ name[panel.lines[i].from] = panel.name
Once == (\A s \in Streams : Rising(s)) /\ OnItsWay /\ OnPanel /\ Distinct(panel.lines)

(* What is shown was shown before or is the new line, and stays distinct. *)
LEMMA ShownOnce ==
  ASSUME NEW lines \in Seq(Lines), NEW m \in Lines
  PROVE  /\ \A i \in 1 .. Len(Shown(lines, m)) :
              Shown(lines, m)[i] = m \/ \E k \in 1 .. Len(lines) : Shown(lines, m)[i] = lines[k]
         /\ Distinct(lines) /\ (\A k \in 1 .. Len(lines) : lines[k] # m)
              => Distinct(Shown(lines, m))
<1> DEFINE all == Append(lines, m)
<1>1. /\ all \in Seq(Lines) /\ Len(all) = Len(lines) + 1 /\ Len(lines) \in Nat
      /\ all[Len(all)] = m /\ \A k \in 1 .. Len(lines) : all[k] = lines[k]
      /\ MaxShown \in Nat \ {0}
  BY TermAssumption
<1> HIDE DEF all
<1>2. \A i \in 1 .. Len(all) : i \in 1 .. Len(lines) \/ i = Len(all)
  BY <1>1
<1>3. Distinct(lines) /\ (\A k \in 1 .. Len(lines) : lines[k] # m) => Distinct(all)
  BY <1>1, <1>2 DEF Distinct
<1>4. CASE Len(all) > MaxShown
  <2> DEFINE k == Len(all) - MaxShown
             rest == SubSeq(all, k + 1, Len(all))
  <2>1. k \in Nat /\ k + 1 \in 1 .. Len(all)
    BY <1>1, <1>4
  <2>2. Len(rest) = MaxShown /\ \A i \in 1 .. MaxShown : rest[i] = all[k + i]
    BY <1>1, <2>1
  <2>3. Shown(lines, m) = rest
    BY <1>4 DEF Shown, all
  <2> HIDE DEF rest
  <2>4. \A i \in 1 .. Len(rest) : k + i \in 1 .. Len(all) /\ rest[i] = all[k + i]
    BY <1>1, <2>1, <2>2
  <2> HIDE DEF k
  <2>5. Distinct(all) => Distinct(rest)
    <3> SUFFICES ASSUME Distinct(all), NEW i \in 1 .. Len(rest), NEW j \in 1 .. Len(rest),
                        rest[i] = rest[j]
                 PROVE  i = j
      BY DEF Distinct
    <3>1. k + i = k + j
      BY <2>4 DEF Distinct
    <3> QED BY <2>1, <2>2, <3>1, <1>1
  <2> QED BY <1>1, <1>2, <1>3, <2>3, <2>4, <2>5
<1>5. CASE ~(Len(all) > MaxShown)
  <2>1. Shown(lines, m) = all
    BY <1>5 DEF Shown, all
  <2> QED BY <1>1, <1>2, <1>3, <2>1
<1> QED BY <1>4, <1>5

(* What a channel takes is sent after all it holds. *)
Sends(s) ==
  /\ SentTo(s)' \in Nat /\ SentTo(s) <= SentTo(s)'
  /\ \/ channel'[s] = channel[s]
     \/ \E m \in Messages : /\ channel'[s] = Append(channel[s], m)
                            /\ m.kind = "line" => m.n = SentTo(s) + 1 /\ m.n = SentTo(s)'

(* How many were sent is a number. *)
LEMMA SentTyped == ASSUME TypeOK, Scanned, NEW s \in Streams PROVE SentTo(s) \in Nat
  BY DEF TypeOK, Scanned, SentTo, Counts

(* The goroutines of a stream send like that. *)
LEMMA GoroutinesSend ==
  ASSUME TypeOK, Scanned, TypeOK', Scanned', OwnMessages,
         NEW t \in Streams, Source(t) \/ Copier(t), NEW s \in Streams
  PROVE  Sends(s)
<1>1. SentTo(s) \in Nat /\ SentTo(s)' \in Nat
  <2>1. SentTo(s) \in Nat
    BY SentTyped
  <2>2. /\ count'[s].scanned \in Nat
        /\ copier'[s] = "send" => count'[s].scanned >= 1
    BY DEF TypeOK, Scanned, Counts
  <2>3. SentTo(s)' \in Nat
    BY <2>2 DEF SentTo
  <2> QED BY <2>1, <2>3
<1>2. CASE s # t
  <2>1. Untouched(s)
    BY <1>2, OthersUntouched
  <2>2. channel'[s] = channel[s] /\ SentTo(s)' = SentTo(s)
    BY <2>1 DEF Untouched, SentTo
  <2> QED BY <1>1, <2>2 DEF Sends
<1>3. ASSUME channel'[s] = channel[s], SentTo(s)' >= SentTo(s) PROVE Sends(s)
  BY <1>1, <1>3 DEF Sends
<1>4. ASSUME NEW m \in Messages, m.kind # "line", channel'[s] = Append(channel[s], m),
             SentTo(s)' = SentTo(s)
      PROVE  Sends(s)
  BY <1>1, <1>4 DEF Sends
<1>5. ASSUME SourceWrites(s) \/ SourceReturns(s) PROVE Sends(s)
  BY <1>1, <1>3, <1>5 DEF SourceWrites, SourceReturns, SourceGoes, SentTo
<1>6. ASSUME SourceReports(s) PROVE Sends(s)
  <2>1. source[s] \in {"done", "err"} /\ UNCHANGED <<count, copier>>
    BY <1>6 DEF SourceReports, SourceGoes
  <2>2. Ending(s, source[s]) \in Messages /\ Ending(s, source[s]).kind # "line"
    BY <2>1, MessageTyped DEF Messages, Ending
  <2>3. channel' = channel \/ channel'[s] = Append(channel[s], Ending(s, source[s]))
    BY <1>6 DEF SourceReports, TypeOK
  <2>4. SentTo(s)' = SentTo(s)
    BY <2>1 DEF SentTo
  <2> QED BY <1>1, <1>3, <1>4, <2>2, <2>3, <2>4
<1>7. ASSUME CopierReads(s) PROVE Sends(s)
  <2>1. /\ copier[s] = "scan" /\ copier'[s] = "send" /\ channel' = channel
        /\ count'[s].scanned = count[s].scanned + 1 /\ count[s].scanned \in Nat
    BY <1>7 DEF CopierReads, CopierGoes, TypeOK, Counts
  <2>2. SentTo(s)' = SentTo(s)
    BY <2>1 DEF SentTo
  <2> QED BY <1>1, <1>3, <2>1, <2>2
<1>8. ASSUME CopierSends(s) PROVE Sends(s)
  <2> DEFINE m == Line(s, count[s].scanned)
  <2>1. /\ copier[s] = "send" /\ channel'[s] = Append(channel[s], m)
        /\ \/ copier'[s] = "send" /\ count'[s].scanned = count[s].scanned + 1
           \/ copier'[s] = "scan" /\ count'[s].scanned = count[s].scanned
    BY <1>8 DEF CopierSends, CopierGoes, TypeOK, Counts
  <2>2. count[s].scanned \in 1 .. MaxLines
    BY <2>1, TermAssumption DEF Scanned, Counts, TypeOK
  <2>3. SentTo(s) = count[s].scanned - 1 /\ SentTo(s)' = count[s].scanned
    BY <2>1, <2>2 DEF SentTo
  <2>4. m \in Messages /\ m.n = SentTo(s) + 1 /\ m.n = SentTo(s)'
    BY <2>2, <2>3, MessageTyped DEF Messages, Line
  <2> HIDE DEF m
  <2> QED BY <1>1, <2>1, <2>4 DEF Sends
<1>9. ASSUME CopierGivesUp(s) \/ CopierShuts(s) PROVE Sends(s)
  <2>1. channel' = channel /\ count' = count /\ copier'[s] # "send"
    BY <1>9 DEF CopierGivesUp, CopierShuts, CopierGoes, TypeOK
  <2>2. count[s].scanned \in Nat
    BY DEF TypeOK, Counts
  <2>3. SentTo(s)' >= SentTo(s)
    BY <2>1, <2>2 DEF SentTo
  <2> QED BY <1>3, <2>1, <2>3
<1>10. ASSUME CopierEnds(s) PROVE Sends(s)
  <2>1. /\ copier[s] \in {"scan", "shut"} /\ copier'[s] = "done" /\ count' = count
        /\ channel' = channel \/ channel'[s] = Append(channel[s], Ending(s, "done"))
    BY <1>10 DEF CopierEnds, CopierGoes, TypeOK
  <2>2. Ending(s, "done") \in Messages /\ Ending(s, "done").kind # "line"
    BY MessageTyped DEF Messages, Ending
  <2>3. SentTo(s)' = SentTo(s)
    BY <2>1 DEF SentTo
  <2> QED BY <1>1, <1>3, <1>4, <2>1, <2>2, <2>3
<1> QED
  BY <1>2, <1>5, <1>6, <1>7, <1>8, <1>9, <1>10 DEF Source, Copier

(* What was sent before stays before what is sent. *)
LEMMA SendsRise ==
  ASSUME TypeOK, Scanned, NEW s \in Streams, Sends(s), Rising(s)
  PROVE  Rising(s)' /\ \A l \in Lines : l.from = s /\ Past(l) => Past(l)'
<1>1. channel[s] \in Seq(Messages) /\ SentTo(s) \in Nat /\ SentTo(s)' \in Nat
      /\ SentTo(s) <= SentTo(s)' /\ Len(channel[s]) \in Nat
  BY SentTyped DEF TypeOK, Sends
<1>2. /\ \A i \in 1 .. Len(channel[s]) : channel[s][i].kind = "line" => channel[s][i].n \in Nat
      /\ \A l \in Lines : l.n \in Nat
  <2>1. \A m \in Messages : m.n \in Nat
    BY TermAssumption DEF Messages, Lines, Ends
  <2>2. \A i \in 1 .. Len(channel[s]) : channel[s][i] \in Messages
    BY <1>1
  <2> QED BY <2>1, <2>2 DEF Messages
<1>3. CASE channel'[s] = channel[s]
  BY <1>1, <1>2, <1>3 DEF Rising, Past
<1>4. ASSUME NEW m \in Messages, channel'[s] = Append(channel[s], m),
             m.kind = "line" => m.n = SentTo(s) + 1 /\ m.n = SentTo(s)'
      PROVE  Rising(s)' /\ \A l \in Lines : l.from = s /\ Past(l) => Past(l)'
  <2>1. /\ Len(channel'[s]) = Len(channel[s]) + 1 /\ channel'[s][Len(channel'[s])] = m
        /\ \A i \in 1 .. Len(channel[s]) : channel'[s][i] = channel[s][i]
        /\ \A i \in 1 .. Len(channel'[s]) : i \in 1 .. Len(channel[s]) \/ i = Len(channel'[s])
    BY <1>1, <1>4
  <2>2. \A i \in 1 .. Len(channel[s]) :
          channel[s][i].kind = "line" /\ m.kind = "line" => channel[s][i].n < m.n
    BY <1>1, <1>2, <1>4 DEF Rising
  <2>3. Rising(s)'
    <3>1. ASSUME NEW i \in 1 .. Len(channel'[s]), NEW j \in 1 .. Len(channel'[s]), i < j,
                 channel'[s][i].kind = "line", channel'[s][j].kind = "line"
          PROVE  channel'[s][i].n < channel'[s][j].n
      <4>1. i \in 1 .. Len(channel[s])
        BY <1>1, <2>1, <3>1
      <4>2. CASE j \in 1 .. Len(channel[s])
        BY <2>1, <3>1, <4>1, <4>2 DEF Rising
      <4>3. CASE j = Len(channel'[s])
        BY <2>1, <2>2, <3>1, <4>1, <4>3
      <4> QED BY <2>1, <4>2, <4>3
    <3>2. ASSUME NEW i \in 1 .. Len(channel'[s]), channel'[s][i].kind = "line"
          PROVE  channel'[s][i].n <= SentTo(s)'
      <4>1. CASE i \in 1 .. Len(channel[s])
        <5>1. channel[s][i].kind = "line" /\ channel'[s][i] = channel[s][i]
          BY <2>1, <3>2, <4>1
        <5>2. channel[s][i].n <= SentTo(s) /\ channel[s][i].n \in Nat
          BY <1>2, <4>1, <5>1 DEF Rising
        <5> QED BY <1>1, <5>1, <5>2
      <4>2. CASE i = Len(channel'[s])
        BY <1>1, <1>4, <2>1, <3>2, <4>2
      <4> QED BY <2>1, <4>1, <4>2
    <3> QED BY <3>1, <3>2 DEF Rising
  <2>4. ASSUME NEW l \in Lines, l.from = s, Past(l) PROVE Past(l)'
    <3>1. l.n \in Nat /\ l.n <= SentTo(s)
      BY <1>2, <2>4 DEF Past
    <3>2. ASSUME NEW i \in 1 .. Len(channel'[s]), channel'[s][i].kind = "line"
          PROVE  l.n < channel'[s][i].n
      <4>1. CASE i \in 1 .. Len(channel[s])
        BY <2>1, <2>4, <3>2, <4>1 DEF Past
      <4>2. CASE i = Len(channel'[s])
        BY <1>1, <1>4, <2>1, <3>1, <3>2, <4>2
      <4> QED BY <2>1, <4>1, <4>2
    <3>3. l.n <= SentTo(s)'
      BY <1>1, <3>1
    <3> QED BY <2>4, <3>2, <3>3 DEF Past, SentTo
  <2> QED BY <2>3, <2>4
<1> QED BY <1>3, <1>4 DEF Sends

(* What the panel shows next, said of each of its lines. *)
ShowsNext ==
  \A i \in 1 .. Len(panel'.lines) :
    \E l \in Lines : /\ panel'.lines[i] = l /\ inbox'[l] = 0 /\ Past(l)'
                     /\ name'[l.from] = panel'.name

(* That is how the panel is then. *)
LEMMA OnPanelNext == ASSUME ShowsNext PROVE OnPanel'
  BY DEF ShowsNext, OnPanel, Past, SentTo

(* A step that only sends keeps every line in one place. *)
LEMMA SendsOnce ==
  ASSUME TypeOK, Scanned, Once, \A s \in Streams : Sends(s), inbox' = inbox,
         \/ panel' = panel /\ name' = name
         \/ panel'.lines = <<>>
  PROVE  Once'
<1>1. /\ \A s \in Streams : Rising(s)'
      /\ \A l \in Lines : l.from \in Streams /\ (Past(l) => Past(l)')
  BY SendsRise, MessageTyped DEF Once, Messages
<1>2. OnItsWay'
  BY <1>1 DEF Once, OnItsWay
<1>3. OnPanel' /\ Distinct(panel.lines)'
  <2>1. CASE panel' = panel /\ name' = name
    <3>1. \A i \in 1 .. Len(panel.lines) : panel.lines[i] \in Lines
      BY DEF TypeOK
    <3>2. ShowsNext
      BY <1>1, <2>1, <3>1 DEF Once, OnPanel, ShowsNext
    <3>3. Distinct(panel.lines)'
      BY <2>1 DEF Once, Distinct
    <3> QED BY <3>2, <3>3, OnPanelNext
  <2>2. CASE panel'.lines = <<>>
    BY <2>2 DEF OnPanel, Distinct
  <2> QED BY <2>1, <2>2
<1> QED BY <1>1, <1>2, <1>3 DEF Once

(* Nothing is sent. *)
LEMMA NothingSent ==
  ASSUME TypeOK, Scanned, channel' = channel, count' = count, NEW s \in Streams,
         copier'[s] = copier[s] \/ (copier[s] # "send" /\ copier'[s] # "send")
  PROVE  Sends(s)
<1>1. SentTo(s)' = SentTo(s)
  BY DEF SentTo
<1>2. SentTo(s) \in Nat
  BY SentTyped
<1> QED BY <1>1, <1>2 DEF Sends

(* The loop takes a line: it was on its way once, and is so no more. *)
LEMMA HandleOnce ==
  ASSUME TypeOK, Scanned, Fresh, Once, NEW m \in Messages, HandleLine(m) \/ HandleEnd(m)
  PROVE  Once'
<1>1. /\ inbox[m] > 0 /\ inbox' = [inbox EXCEPT ![m] = @ - 1]
      /\ UNCHANGED <<name, source, count, copier, channel>>
  BY DEF HandleLine, HandleEnd, Take, goroutines
<1>2. /\ \A s \in Streams : Rising(s)'
      /\ \A l \in Lines : Past(l) => Past(l)'
  BY <1>1 DEF Once, Rising, Past, SentTo
<1>3. \A o \in Messages : inbox'[o] = IF o = m THEN inbox[m] - 1 ELSE inbox[o]
  BY <1>1 DEF TypeOK
<1>4. OnItsWay'
  <2> SUFFICES ASSUME NEW l \in Lines PROVE inbox'[l] <= 1 /\ (inbox'[l] > 0 => Past(l)')
    BY DEF OnItsWay
  <2>1. l \in Messages /\ inbox[l] \in Nat
    BY DEF Messages, TypeOK
  <2> QED BY <1>2, <1>3, <2>1 DEF Once, OnItsWay
<1>5. panel.lines \in Seq(Lines)
  BY DEF TypeOK
<1>6. ASSUME NEW k \in 1 .. Len(panel.lines)
      PROVE  \E l \in Lines : /\ panel.lines[k] = l /\ l # m /\ inbox'[l] = 0 /\ Past(l)'
                              /\ name'[l.from] = panel.name
  <2>1. PICK l \in Lines : panel.lines[k] = l
    BY <1>5
  <2>2. l \in Messages /\ inbox[l] = 0 /\ Past(l) /\ name[l.from] = panel.name
    BY <2>1 DEF Messages, Once, OnPanel
  <2>3. l # m
    BY <1>1, <2>2
  <2> QED BY <1>1, <1>2, <1>3, <2>1, <2>2, <2>3
<1>7. ASSUME panel'.lines = panel.lines, panel'.name = panel.name PROVE Once'
  <2>1. ShowsNext
    BY <1>6, <1>7 DEF ShowsNext
  <2>2. Distinct(panel.lines)'
    BY <1>7 DEF Once, Distinct
  <2> QED BY <1>2, <1>4, <2>1, <2>2, OnPanelNext DEF Once
<1>8. ASSUME HandleLine(m), Accepted(m) PROVE Once'
  <2>1. m \in Lines /\ panel' = [panel EXCEPT !.lines = Shown(panel.lines, m)]
    BY <1>8 DEF HandleLine
  <2> DEFINE shown == Shown(panel.lines, m)
  <2>2. panel'.lines = shown /\ panel'.name = panel.name
    BY <2>1 DEF TypeOK
  <2>3. /\ \A i \in 1 .. Len(shown) :
             shown[i] = m \/ \E k \in 1 .. Len(panel.lines) : shown[i] = panel.lines[k]
        /\ Distinct(panel.lines) /\ (\A k \in 1 .. Len(panel.lines) : panel.lines[k] # m)
             => Distinct(shown)
    BY <1>5, <2>1, ShownOnce
  <2> HIDE DEF shown
  <2>4. Distinct(shown)
    BY <1>6, <2>3 DEF Once
  <2>5. inbox'[m] = 0 /\ Past(m)' /\ name'[m.from] = panel.name
    <3>1. inbox[m] = 1 /\ Past(m)
      BY <1>1, <2>1 DEF Once, OnItsWay, TypeOK
    <3>2. name[m.from] # NoName
      BY <1>1, MessageTyped DEF Fresh
    <3>3. name[m.from] = panel.name
      BY <1>8, <2>1, <3>2, MessageTyped DEF Accepted, NameOf
    <3> QED BY <1>1, <1>2, <1>3, <2>1, <3>1, <3>3
  <2>6. ShowsNext
    BY <1>6, <2>1, <2>2, <2>3, <2>5 DEF ShowsNext
  <2>7. Distinct(panel.lines)'
    BY <2>2, <2>4 DEF Distinct
  <2> QED BY <1>2, <1>4, <2>6, <2>7, OnPanelNext DEF Once
<1>9. (panel'.lines = panel.lines /\ panel'.name = panel.name) \/ (HandleLine(m) /\ Accepted(m))
  BY DEF HandleLine, HandleEnd, TypeOK
<1> QED BY <1>7, <1>8, <1>9

(* A waiter takes a line off the channel: it is the first of all in it. *)
LEMMA ReceiveOnce ==
  ASSUME TypeOK, Scanned, OwnMessages, Once, NEW s \in Streams, Receive(s)
  PROVE  Once'
<1>1. UNCHANGED <<panel, name, count, copier>>
  BY DEF Receive, loop
<1>2. \A l \in Lines : l \in Messages /\ l.from \in Streams /\ inbox[l] \in Nat
  BY MessageTyped DEF Messages, TypeOK
<1>3. \A i \in 1 .. Len(panel.lines) :
        /\ panel.lines[i] \in Lines /\ inbox[panel.lines[i]] = 0
        /\ name[panel.lines[i].from] = panel.name
  BY DEF TypeOK, Once, OnPanel
<1>4. Distinct(panel.lines)'
  BY <1>1 DEF Once, Distinct
<1>5. CASE channel' = channel
  <2>1. inbox' = [inbox EXCEPT ![Ending(s, "closed")] = @ + 1]
    BY <1>5 DEF Receive, TypeOK
  <2>2. Ending(s, "closed") \notin Lines
    BY DEF Ending, Lines
  <2>3. \A l \in Lines : inbox'[l] = inbox[l] /\ (Past(l) => Past(l)')
    BY <1>1, <1>2, <1>5, <2>1, <2>2 DEF TypeOK, Past, SentTo
  <2>4. ShowsNext
    BY <1>1, <1>3, <2>3 DEF Once, OnPanel, ShowsNext
  <2>5. OnItsWay' /\ \A t \in Streams : Rising(t)'
    BY <1>1, <1>5, <2>3 DEF Once, OnItsWay, Rising, SentTo
  <2> QED BY <1>4, <2>4, <2>5, OnPanelNext DEF Once
<1>6. CASE channel[s] # <<>>
  <2> DEFINE h == Head(channel[s])
             r == Tail(channel[s])
  <2>1. channel[s] \in Seq(Messages)
    BY DEF TypeOK
  <2>2. /\ Len(channel[s]) = Len(r) + 1 /\ h = channel[s][1] /\ Len(r) \in Nat
        /\ \A i \in 1 .. Len(r) : r[i] = channel[s][i + 1]
        /\ h \in Messages
    BY <1>6, <2>1
  <2>3. h.from = s
    BY <2>2 DEF OwnMessages
  <2>4. \A i \in 1 .. Len(r) : i + 1 \in 1 .. Len(channel[s]) /\ r[i] = channel[s][i + 1]
    BY <2>2
  <2>5. CASE inbox' = [inbox EXCEPT ![h] = @ + 1] /\ channel' = [channel EXCEPT ![s] = r]
    <3> HIDE DEF h, r
    <3>1. channel'[s] = r /\ \A t \in Streams : t # s => channel'[t] = channel[t]
      BY <2>5 DEF TypeOK
    <3>2. \A t \in Streams : SentTo(t)' = SentTo(t)
      BY <1>1 DEF SentTo
    <3>3. ASSUME NEW t \in Streams PROVE Rising(t)'
      <4>1. CASE t # s
        BY <3>1, <3>2, <4>1 DEF Once, Rising
      <4>2. CASE t = s
        <5>1. Rising(s)
          BY DEF Once
        <5>2. \A i, j \in 1 .. Len(r) :
                i < j /\ r[i].kind = "line" /\ r[j].kind = "line" => r[i].n < r[j].n
          <6> SUFFICES ASSUME NEW i \in 1 .. Len(r), NEW j \in 1 .. Len(r), i < j,
                              r[i].kind = "line", r[j].kind = "line"
                       PROVE  r[i].n < r[j].n
            OBVIOUS
          <6>1. i + 1 < j + 1
            BY <2>2
          <6> QED BY <2>4, <5>1, <6>1 DEF Rising
        <5>3. \A i \in 1 .. Len(r) : r[i].kind = "line" => r[i].n <= SentTo(s)
          BY <2>4, <5>1 DEF Rising
        <5> QED BY <3>1, <3>2, <4>2, <5>2, <5>3 DEF Rising
      <4> QED BY <4>1, <4>2
    <3>4. ASSUME NEW l \in Lines, Past(l) PROVE Past(l)' /\ l # h
      <4>1. l.from \in Streams
        BY <1>2
      <4>2. l # h
        <5> SUFFICES ASSUME l = h PROVE FALSE
          OBVIOUS
        <5>1. l.from = s /\ channel[s][1] = l /\ l.kind = "line" /\ 1 \in 1 .. Len(channel[s])
          BY <2>2, <2>3, MessageTyped
        <5>2. l.n < l.n
          BY <3>4, <5>1 DEF Past
        <5>3. l.n \in Nat
          BY TermAssumption DEF Lines
        <5> QED BY <5>2, <5>3
      <4>3. CASE l.from # s
        <5>1. channel'[l.from] = channel[l.from]
          BY <3>1, <4>1, <4>3
        <5> QED BY <1>1, <3>4, <4>2, <5>1 DEF Past, SentTo
      <4>4. CASE l.from = s
        <5>1. \A i \in 1 .. Len(r) : r[i].kind = "line" => l.n < r[i].n
          BY <2>3, <3>4, <4>4, <2>4 DEF Past
        <5> QED BY <1>1, <3>1, <3>4, <4>2, <4>4, <5>1 DEF Past, SentTo
      <4> QED BY <4>2, <4>3, <4>4
    <3>5. \A o \in Messages : inbox'[o] = IF o = h THEN inbox[h] + 1 ELSE inbox[o]
      BY <2>2, <2>5 DEF TypeOK
    <3>6. ASSUME NEW l \in Lines, l = h PROVE Past(l)'
      <4>1. l.kind = "line" /\ channel[s][1] = l /\ 1 \in 1 .. Len(channel[s])
        BY <2>2, <3>6, MessageTyped
      <4>2. Rising(s)
        BY DEF Once
      <4>3. l.n <= SentTo(s)
        BY <4>1, <4>2 DEF Rising
      <4>4. \A i \in 1 .. Len(r) : r[i].kind = "line" => l.n < r[i].n
        <5> SUFFICES ASSUME NEW i \in 1 .. Len(r), r[i].kind = "line" PROVE l.n < r[i].n
          OBVIOUS
        <5>1. 1 < i + 1
          BY <2>2
        <5> QED BY <2>4, <4>1, <4>2, <5>1 DEF Rising
      <4> QED BY <1>1, <2>3, <3>1, <3>6, <4>3, <4>4 DEF Past, SentTo
    <3>7. OnItsWay'
      <4> SUFFICES ASSUME NEW l \in Lines PROVE inbox'[l] <= 1 /\ (inbox'[l] > 0 => Past(l)')
        BY DEF OnItsWay
      <4>1. CASE l = h
        <5>1. inbox[l] = 0
          BY <1>2, <3>4, <4>1 DEF Once, OnItsWay
        <5>2. Past(l)'
          BY <3>6, <4>1
        <5> QED BY <1>2, <3>5, <4>1, <5>1, <5>2
      <4>2. CASE l # h
        BY <1>2, <3>4, <3>5, <4>2 DEF Once, OnItsWay
      <4> QED BY <4>1, <4>2
    <3>8. ShowsNext
      <4> SUFFICES ASSUME NEW i \in 1 .. Len(panel.lines)
                   PROVE  \E l \in Lines : /\ panel.lines[i] = l /\ inbox'[l] = 0 /\ Past(l)'
                                           /\ name'[l.from] = panel.name
        BY <1>1 DEF ShowsNext
      <4>1. PICK l \in Lines : panel.lines[i] = l
        BY <1>3
      <4>2. inbox[l] = 0 /\ Past(l) /\ name[l.from] = panel.name
        BY <4>1 DEF Once, OnPanel
      <4> QED BY <1>1, <1>2, <3>4, <3>5, <4>1, <4>2
    <3> QED BY <1>4, <3>3, <3>7, <3>8, OnPanelNext DEF Once
  <2> QED BY <1>5, <1>6, <2>5 DEF Receive
<1> QED BY <1>5, <1>6 DEF Receive

(* Every step keeps every line in one place. *)
LEMMA OnceStep ==
  ASSUME TypeOK, Scanned, TypeOK', Scanned', OwnMessages, Fresh, Once, [Next]_vars
  PROVE  Once'
<1>1. ASSUME UNCHANGED <<panel, name, inbox, channel, count, copier>> PROVE Once'
  BY <1>1, NothingSent, SendsOnce
<1>2. ASSUME NEW n, NEW whose, Open(n, whose) PROVE Once'
  <2>1. PICK t \in Streams : /\ name[t] = NoName /\ copier' = [copier EXCEPT ![t] = "scan"]
                             /\ UNCHANGED <<count, channel, inbox>> /\ panel'.lines = <<>>
    BY <1>2 DEF Open, Empty
  <2>2. copier[t] = "off"
    BY <2>1 DEF Scanned
  <2>3. \A s \in Streams : copier'[s] = copier[s] \/ (copier[s] # "send" /\ copier'[s] # "send")
    BY <2>1, <2>2 DEF TypeOK
  <2> QED BY <2>1, <2>3, NothingSent, SendsOnce
<1>3. ASSUME NEW v, Leave(v) PROVE Once'
  <2>1. panel'.lines = <<>> /\ UNCHANGED <<inbox, channel, count, copier>>
    BY <1>3 DEF Leave, Empty
  <2> QED BY <2>1, NothingSent, SendsOnce
<1>4. ASSUME NEW t \in Streams, Source(t) \/ Copier(t) PROVE Once'
  <2>1. UNCHANGED <<panel, name, inbox>>
    BY <1>4
       DEF Source, SourceWrites, SourceReturns, SourceReports, SourceGoes, Copier, CopierReads,
           CopierSends, CopierGivesUp, CopierShuts, CopierEnds, CopierGoes, loop
  <2> QED BY <1>4, <2>1, GoroutinesSend, SendsOnce
<1>5. CASE Keys \/ Refresh
  <2>1. CASE KeyLogs \/ KeyFleet \/ KeyRestart
    BY <1>2, <2>1 DEF KeyLogs, KeyFleet, KeyRestart
  <2>2. CASE KeyBack \/ KeyQuit \/ KeyAct
    BY <1>3, <2>2 DEF KeyBack, KeyQuit, KeyAct
  <2>3. CASE KeyUp \/ KeyDown \/ IndexPanic \/ Refresh
    BY <1>1, <2>3 DEF KeyUp, KeyDown, Move, IndexPanic, Refresh, loop, goroutines
  <2> QED BY <1>5, <2>1, <2>2, <2>3 DEF Keys
<1>6. CASE UNCHANGED vars
  BY <1>1, <1>6 DEF vars, loop, goroutines
<1> QED BY <1>4, <1>5, <1>6, HandleOnce, ReceiveOnce DEF Next, Handle

----------------------------------------------------------------------------
(* No line is shown twice, and none of a stream by another name; and until *)
(* a line of an earlier stream by the same name is taken for one of this,  *)
(* the panel shows consecutive lines of its stream in the order they were  *)
(* written.                                                                *)
THEOREM LinesComeInOrder == SafetySpec => []LinesInOrder
<1> DEFINE All == TypeOK /\ Scanned /\ OneStreamFollowed /\ OwnMessages /\ Fresh /\ Orderly /\ Once
<1>1. Init => All
  <2> SUFFICES ASSUME Init PROVE OneStreamFollowed /\ OwnMessages /\ Fresh /\ Orderly /\ Once
    BY TypeInit
  <2>1. OneStreamFollowed
    BY DEF Init, OneStreamFollowed, Empty, None
  <2>2. OwnMessages /\ Fresh
    BY DEF Init, OwnMessages, Fresh
  <2>3. Orderly
    BY DEF Init, Orderly, Streams, None
  <2>4. /\ \A s \in Streams : channel[s] = <<>>
        /\ \A l \in Lines : inbox[l] = 0
        /\ panel.lines = <<>>
    BY DEF Init, Messages, Empty
  <2>5. Once
    <3>1. \A s \in Streams : Rising(s)
      BY <2>4 DEF Rising
    <3>2. OnItsWay
      BY <2>4 DEF OnItsWay
    <3>3. OnPanel /\ Distinct(panel.lines)
      BY <2>4 DEF OnPanel, Distinct
    <3> QED BY <3>1, <3>2, <3>3 DEF Once
  <2> QED BY <2>1, <2>2, <2>3, <2>5
<1>2. All /\ [Next]_vars => All'
  <2> SUFFICES ASSUME All, [Next]_vars PROVE All'
    OBVIOUS
  <2>1. TypeOK' /\ Scanned'
    BY TypeStep
  <2> QED BY <2>1, FollowedStep, OwnStep, FreshStep, OrderStep, OnceStep
<1>3. All => LinesInOrder
  <2> SUFFICES ASSUME TypeOK, OneStreamFollowed, Orderly, Once PROVE LinesInOrder
    OBVIOUS
  <2>1. view = "logs" => current \in Streams
    BY DEF OneStreamFollowed, TypeOK
  <2>2. DOMAIN panel.lines = 1 .. Len(panel.lines)
    BY DEF TypeOK
  <2>3. \A i, j \in DOMAIN panel.lines : panel.lines[i] = panel.lines[j] => i = j
    BY <2>2 DEF Once, Distinct
  <2>4. \A i \in DOMAIN panel.lines : name[panel.lines[i].from] = panel.name
    BY <2>2 DEF Once, OnPanel
  <2>5. view = "logs" /\ ~crossed => Consecutive(current, panel.lines)
    BY <2>1 DEF Orderly, Order
  <2> QED BY <2>2, <2>3, <2>4, <2>5 DEF LinesInOrder, Consecutive
<1> HIDE DEF All
<1> QED BY <1>1, <1>2, <1>3, PTL DEF SafetySpec
=============================================================================
