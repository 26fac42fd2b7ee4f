------------------------------ MODULE TermLogs ------------------------------
(***************************************************************************)
(* The terminal dashboard, cautem term (src/internal/tui/term.go), and the *)
(* log streams it follows (LogsToOpts in src/internal/service/app.go).     *)
(*                                                                         *)
(* One loop owns the screen and handles one message at a time.  A stream   *)
(* is two goroutines: the source calls LogsToOpts and writes to a pipe,    *)
(* the copier scans the pipe and sends its lines on a buffered channel;    *)
(* both report the end on it, and the copier closes it.  A third kind of   *)
(* goroutine, the waiter, takes one message off the channel and hands it   *)
(* to the loop; the loop starts the next one when it has shown a line.     *)
(*                                                                         *)
(* The list of sandboxes is read again all the time, so it may change at   *)
(* any step.  Colours, sizes and the status line are left out.             *)
(*                                                                         *)
(* A definition introduced by "Variant:" is a deliberately wrong version   *)
(* of the one after it, used by nothing.                                   *)
(***************************************************************************)
EXTENDS Integers, Sequences, FiniteSets

CONSTANTS
  Names,      \* names of sandboxes
  Fleet,      \* the name of the stream that follows all of them, "*"
  NoName,     \* the empty name
  Lists,      \* the lists of sandboxes the program may read, as sequences
  Late,       \* whether the list and the cursor change once a stream has been opened
  MaxStreams, \* how many streams are opened
  MaxLines,   \* how many lines a stream has at most
  LinesOf,    \* how many lines each stream has at most
  Capacity,   \* messages a channel holds: 64
  MaxShown    \* lines the panel holds: maxLogLines, 400

Streams == 1 .. MaxStreams
None == 0
StreamNames == Names \cup {Fleet}

ASSUME TermAssumption ==
  /\ Fleet \notin Names /\ NoName \notin StreamNames
  /\ Lists \subseteq Seq(Names) /\ Late \in BOOLEAN
  /\ MaxStreams \in Nat /\ MaxLines \in Nat /\ LinesOf \in [Streams -> 0 .. MaxLines]
  /\ Capacity \in Nat \ {0} /\ MaxShown \in Nat \ {0}

Lines == [kind : {"line"}, from : Streams, n : 1 .. MaxLines]
Ends == [kind : {"err", "done", "closed"}, from : Streams, n : {0}]
Messages == Lines \cup Ends

Line(s, n) == [kind |-> "line", from |-> s, n |-> n]
Ending(s, kind) == [kind |-> kind, from |-> s, n |-> 0]

VARIABLES
  view,      \* "list", "logs", or "quit" when the loop has ended
  items,     \* the sandboxes listed
  cursor,    \* the position of the cursor, from 0
  panel,     \* logName, logLines and logErr
  current,   \* the stream whose channel and cancel function the loop has
  name,      \* the name of a stream; NoName when it has not been opened
  followed,  \* the sandboxes whose logs a stream really asks for
  cancelled, \* the streams whose context is cancelled
  source,    \* what LogsToOpts of a stream is doing
  copier,    \* what the scanner of a stream is doing
  count,     \* how many lines of a stream were read from its pipe, and scanned
  channel,   \* the messages in a stream's channel
  waiters,   \* how many waiters there are on a stream's channel
  inbox,     \* how many times a message is on its way to the loop
  crashed,   \* a goroutine has panicked
  heard,     \* auxiliary: the streams whose end the loop has been told of
  crossed    \* auxiliary: since the current stream was opened, the panel has
             \* taken a line of an earlier one

loop == <<view, items, cursor, panel, current>>
goroutines == <<name, followed, cancelled, source, copier, count, channel>>
vars == <<loop, goroutines, waiters, inbox, crashed, heard, crossed>>

Empty == [name |-> NoName, lines |-> <<>>, note |-> "none"]

Init ==
  /\ view = "list" /\ items = <<>> /\ cursor = 0
  /\ panel = Empty /\ current = None
  /\ name = [s \in Streams |-> NoName] /\ followed = [s \in Streams |-> {}]
  /\ cancelled = {}
  /\ source = [s \in Streams |-> "off"] /\ copier = [s \in Streams |-> "off"]
  /\ count = [s \in Streams |-> [read |-> 0, scanned |-> 0]]
  /\ channel = [s \in Streams |-> <<>>]
  /\ waiters = [s \in Streams |-> 0]
  /\ inbox = [m \in Messages |-> 0]
  /\ crashed = FALSE
  /\ heard = {} /\ crossed = FALSE

Alive == ~crashed
Running == Alive /\ view # "quit"
Closed(s) == copier[s] = "done"
Room(s) == Len(channel[s]) < Capacity

----------------------------------------------------------------------------
(* The keys *)

OnItem == cursor + 1 \in DOMAIN items

(* m.items[m.cursor] with no such item. *)
IndexPanic ==
  /\ Running /\ items # <<>> /\ ~OnItem
  /\ crashed' = TRUE
  /\ UNCHANGED <<loop, goroutines, waiters, inbox, heard, crossed>>

(* Variant: the context of the stream that is left is not cancelled. *)
StoppedForgotten == cancelled

(* stopLogs: the streams cancelled when the loop lets go of its own. *)
Stopped == cancelled \cup ({current} \ {None})

(* Opens the stream with the next number for the logs of some sandboxes;   *)
(* its first waiter starts with it.                                        *)
Open(n, whose) ==
  \E s \in Streams :
    /\ name[s] = NoName /\ \A t \in Streams : t < s => name[t] # NoName
    /\ view' = "logs"
    /\ panel' = [Empty EXCEPT !.name = n]
    /\ current' = s
    /\ name' = [name EXCEPT ![s] = n] /\ followed' = [followed EXCEPT ![s] = whose]
    /\ cancelled' = Stopped
    /\ source' = [source EXCEPT ![s] = "run"]
    /\ copier' = [copier EXCEPT ![s] = "scan"]
    /\ waiters' = [waiters EXCEPT ![s] = 1]
    /\ crossed' = FALSE
    /\ UNCHANGED <<items, cursor, count, channel, inbox, crashed, heard>>

KeyLogs == Running /\ OnItem /\ Open(items[cursor + 1], {items[cursor + 1]})
KeyFleet == Running /\ items # <<>> /\ Open(Fleet, Names)

(* The key r asks for a sandbox by the name on the panel, also after the    *)
(* fleet view, whose name is no sandbox's.                                  *)
KeyRestart ==
  Running /\ view = "logs" /\ panel.name # NoName /\ Open(panel.name, {panel.name} \cap Names)

Leave(v) ==
  /\ view' = v
  /\ panel' = Empty
  /\ current' = None
  /\ cancelled' = Stopped
  /\ UNCHANGED <<items, cursor, name, followed, source, copier, count, channel,
                 waiters, inbox, crashed, heard, crossed>>

KeyBack == Running /\ view = "logs" /\ Leave("list")
KeyQuit == Running /\ Leave("quit")

(* connect, exec or logs, for the sandbox at the cursor. *)
KeyAct == Running /\ view = "list" /\ OnItem /\ Leave("quit")

MayMove == Late \/ \A s \in Streams : name[s] = NoName

Move(c) ==
  /\ Running /\ view = "list" /\ MayMove
  /\ cursor' = c
  /\ UNCHANGED <<view, items, panel, current, goroutines, waiters, inbox, crashed,
                 heard, crossed>>

KeyUp == cursor > 0 /\ Move(cursor - 1)
KeyDown == cursor < Len(items) - 1 /\ Move(cursor + 1)

(* refreshMsg: the list was read, or was not. *)
Clamped(list) ==
  IF cursor >= Len(list) /\ cursor > 0 THEN Len(list) - 1 ELSE cursor

Refresh ==
  /\ Running /\ MayMove
  /\ \/ items' = <<>> /\ cursor' = cursor
     \/ \E list \in Lists : items' = list /\ cursor' = Clamped(list)
  /\ UNCHANGED <<view, panel, current, goroutines, waiters, inbox, crashed, heard, crossed>>

----------------------------------------------------------------------------
(* The messages of the streams *)

NameOf(m) == IF m.kind = "closed" THEN NoName ELSE name[m.from]
Accepted(m) == NameOf(m) \in {NoName, panel.name}

(* Variant: the loop also waits again at once, before it shows the line. *)
RearmedTwice == IF current = None THEN waiters ELSE [waiters EXCEPT ![current] = @ + 2]

(* Variant: the loop waits for the next line only while the panel is not full. *)
RearmedWhileRoom ==
  IF current = None \/ Len(panel.lines) = MaxShown THEN waiters
  ELSE [waiters EXCEPT ![current] = @ + 1]

(* waitLog: one more waiter on the channel the loop has now. *)
Rearmed == IF current = None THEN waiters ELSE [waiters EXCEPT ![current] = @ + 1]

Shown(lines, m) ==
  LET all == Append(lines, m)
  IN  IF Len(all) > MaxShown THEN SubSeq(all, Len(all) - MaxShown + 1, Len(all)) ELSE all

Take(m) ==
  /\ Running /\ inbox[m] > 0
  /\ inbox' = [inbox EXCEPT ![m] = @ - 1]
  /\ UNCHANGED <<view, items, cursor, current, goroutines, crashed>>

HandleLine(m) ==
  /\ m \in Lines /\ Take(m)
  /\ IF Accepted(m)
     THEN /\ panel' = [panel EXCEPT !.lines = Shown(@, m)]
          /\ waiters' = Rearmed
          /\ crossed' = (crossed \/ m.from # current)
     ELSE UNCHANGED <<panel, waiters, crossed>>
  /\ UNCHANGED heard

(* The note is an error, or that the stream has ended. *)
Note(m) ==
  IF m.kind = "err" THEN "error" ELSE IF panel.note = "none" THEN "ended" ELSE panel.note

HandleEnd(m) ==
  /\ m \in Ends /\ Take(m)
  /\ panel' = IF Accepted(m) THEN [panel EXCEPT !.note = Note(m)] ELSE panel
  /\ heard' = heard \cup {m.from}
  /\ UNCHANGED <<waiters, crossed>>

(* A waiter has a message, or finds the channel closed and empty. *)
Receive(s) ==
  /\ Alive /\ waiters[s] > 0
  /\ waiters' = [waiters EXCEPT ![s] = @ - 1]
  /\ \/ /\ channel[s] # <<>>
        /\ inbox' = [inbox EXCEPT ![Head(channel[s])] = @ + 1]
        /\ channel' = [channel EXCEPT ![s] = Tail(@)]
     \/ /\ channel[s] = <<>> /\ Closed(s)
        /\ inbox' = [inbox EXCEPT ![Ending(s, "closed")] = @ + 1]
        /\ UNCHANGED channel
  /\ UNCHANGED <<loop, name, followed, cancelled, source, copier, count, crashed, heard, crossed>>

----------------------------------------------------------------------------
(* The source *)

SourceGoes(s, from, to) ==
  /\ Alive /\ source[s] = from
  /\ source' = [source EXCEPT ![s] = to]
  /\ UNCHANGED <<loop, name, followed, cancelled, copier, count, waiters, inbox, heard, crossed>>

(* A write of one or more lines, which blocks until the copier reads it. *)
SourceWrites(s) ==
  /\ followed[s] # {} /\ count[s].read < LinesOf[s]
  /\ SourceGoes(s, "run", "writing")
  /\ UNCHANGED <<channel, crashed>>

(* LogsToOpts returns because the logs have ended, cannot be had, or the   *)
(* context is cancelled, or because the copier has closed its end of the   *)
(* pipe; the other end is closed.  If the context is cancelled nothing is  *)
(* reported.                                                               *)
SourceReturns(s) ==
  /\ source[s] = "run" \/ (source[s] = "writing" /\ copier[s] \in {"shut", "done"})
  /\ \E how \in IF s \in cancelled THEN {"gone"} ELSE {"done", "err"} :
       SourceGoes(s, source[s], how)
  /\ UNCHANGED <<channel, crashed>>

(* The end is sent when there is room; a context cancelled meanwhile is     *)
(* noticed; a channel that is closed by then makes the program panic.       *)
SourceReports(s) ==
  /\ source[s] \in {"done", "err"}
  /\ SourceGoes(s, source[s], "gone")
  /\ \/ /\ ~Closed(s) /\ Room(s)
        /\ channel' = [channel EXCEPT ![s] = Append(@, Ending(s, source[s]))]
        /\ UNCHANGED crashed
     \/ s \in cancelled /\ UNCHANGED <<channel, crashed>>
     \/ Closed(s) /\ crashed' = TRUE /\ UNCHANGED channel

----------------------------------------------------------------------------
(* The copier *)

CopierGoes(s, from, to) ==
  /\ Alive /\ copier[s] = from
  /\ copier' = [copier EXCEPT ![s] = to]
  /\ UNCHANGED <<loop, name, followed, cancelled, waiters, inbox, crashed, heard, crossed>>

(* The copier reads the lines the source is writing and scans the first. *)
CopierReads(s) ==
  /\ source[s] = "writing"
  /\ CopierGoes(s, "scan", "send")
  /\ \E k \in count[s].read + 1 .. LinesOf[s] :
       count' = [count EXCEPT ![s] = [read |-> k, scanned |-> @.scanned + 1]]
  /\ source' = [source EXCEPT ![s] = "run"]
  /\ UNCHANGED channel

(* It sends a line when there is room, and scans the next it has read. *)
CopierSends(s) ==
  LET more == count[s].scanned < count[s].read
  IN  /\ Room(s)
      /\ CopierGoes(s, "send", IF more THEN "send" ELSE "scan")
      /\ channel' = [channel EXCEPT ![s] = Append(@, Line(s, count[s].scanned))]
      /\ count' = IF more THEN [count EXCEPT ![s].scanned = @ + 1] ELSE count
      /\ UNCHANGED source

(* Variant: the copier does not notice that it is cancelled while it sends. *)
NoticesNever(s) == FALSE

Notices(s) == s \in cancelled

(* It leaves, and both the pipe and the channel are closed. *)
CopierGivesUp(s) ==
  /\ Notices(s)
  /\ CopierGoes(s, "send", "done")
  /\ UNCHANGED <<source, count, channel>>

(* A line longer than its buffer: it closes the pipe under the source. *)
CopierShuts(s) ==
  /\ source[s] = "writing"
  /\ CopierGoes(s, "scan", "shut")
  /\ UNCHANGED <<source, count, channel>>

(* The pipe is closed: the end is sent when there is room and the context  *)
(* is not cancelled, and the channel is closed.                            *)
CopierEnds(s) ==
  /\ \/ CopierGoes(s, "scan", "done") /\ source[s] \in {"done", "err", "gone"}
     \/ CopierGoes(s, "shut", "done")
  /\ channel' = IF s \notin cancelled /\ Room(s)
                THEN [channel EXCEPT ![s] = Append(@, Ending(s, "done"))] ELSE channel
  /\ UNCHANGED <<source, count>>

----------------------------------------------------------------------------
Keys ==
  \/ KeyLogs \/ KeyFleet \/ KeyRestart \/ KeyBack \/ KeyQuit \/ KeyAct \/ KeyUp \/ KeyDown
  \/ IndexPanic

Handle == \E m \in Messages : HandleLine(m) \/ HandleEnd(m)

Source(s) == SourceWrites(s) \/ SourceReturns(s) \/ SourceReports(s)
Copier(s) == CopierReads(s) \/ CopierSends(s) \/ CopierGivesUp(s) \/ CopierShuts(s) \/ CopierEnds(s)

Next == Keys \/ Refresh \/ Handle \/ \E s \in Streams : Source(s) \/ Copier(s) \/ Receive(s)

(* Goroutines are scheduled, and the loop handles every message it is      *)
(* given.  Logs need not end, but a source that is cancelled returns.      *)
Progress ==
  \/ Handle
  \/ \E s \in Streams :
       Copier(s) \/ Receive(s) \/ SourceReports(s) \/ (s \in cancelled /\ SourceReturns(s))

SafetySpec == Init /\ [][Next]_vars
Spec == SafetySpec /\ WF_vars(Progress)

----------------------------------------------------------------------------
(* Properties *)

Counts == [read : 0 .. MaxLines, scanned : 0 .. MaxLines]

(* The type of the variables. *)
TypeOK ==
  /\ view \in {"list", "logs", "quit"}
  /\ items \in Seq(Names)
  /\ cursor \in Int
  /\ panel \in [name : StreamNames \cup {NoName}, lines : Seq(Lines),
                note : {"none", "error", "ended"}]
  /\ Len(panel.lines) <= MaxShown
  /\ current \in Streams \cup {None}
  /\ name \in [Streams -> StreamNames \cup {NoName}] /\ followed \in [Streams -> SUBSET Names]
  /\ cancelled \subseteq Streams /\ heard \subseteq Streams
  /\ source \in [Streams -> {"off", "run", "writing", "done", "err", "gone"}]
  /\ copier \in [Streams -> {"off", "scan", "send", "shut", "done"}]
  /\ count \in [Streams -> Counts]
  /\ channel \in [Streams -> Seq(Messages)]
  /\ waiters \in [Streams -> Nat]
  /\ inbox \in [Messages -> Nat]
  /\ crashed \in BOOLEAN /\ crossed \in BOOLEAN

(* The only stream that is not cancelled is the one on the screen: no key,  *)
(* in whatever view and however often, leaves one behind.  (stopLogs is     *)
(* called by every case that opens a stream, goes back or quits.)           *)
OneStreamFollowed ==
  /\ \A s \in Streams : name[s] # NoName /\ s # current => s \in cancelled
  /\ view = "logs" <=> current # None
  /\ current # None => current \notin cancelled /\ name[current] = panel.name

(* While the stream on the screen has not reported its end, the loop has a  *)
(* waiter on its channel or a message of it on the way: the chain of waitLog *)
(* commands does not break, whatever lines of other streams come between.   *)
ListensToCurrent ==
  current # None /\ current \notin heard =>
    \/ waiters[current] > 0
    \/ \E m \in Messages : m.from = current /\ inbox[m] > 0

(* No line is shown twice and none of a stream by another name, whatever is *)
(* still on its way from the streams opened before and however often.  The  *)
(* lines are consecutive lines of the stream on the screen, in the order    *)
(* they were written, until a line of an earlier stream by the same name is *)
(* taken for one of this (which starts a second waiter: order ends there).  *)
LinesInOrder ==
  view = "logs" =>
    /\ \A i, j \in DOMAIN panel.lines : panel.lines[i] = panel.lines[j] => i = j
    /\ \A i \in DOMAIN panel.lines : name[panel.lines[i].from] = panel.name
    /\ ~crossed =>
         \A i \in DOMAIN panel.lines :
           /\ panel.lines[i].from = current
           /\ i > 1 => panel.lines[i].n = panel.lines[i - 1].n + 1

(* The goroutines of a stream the user has left end, even when its channel  *)
(* is full and nobody reads it any more.  (A stream stays cancelled, and    *)
(* what has ended stays so: that they have all ended infinitely often says  *)
(* that each of them does.)                                                 *)
CancelledEnds ==
  []<>(crashed \/ \A s \in cancelled : source[s] = "gone" /\ Closed(s) /\ waiters[s] = 0)

(* When a stream ends, the user who keeps looking at it is told. *)
EndReported ==
  []<>(crashed \/ current = None \/ (Closed(current) => current \in heard))

(* A sandbox that is listed can be chosen: the cursor is on one. *)
CursorOnItem == items # <<>> => OnItem
=============================================================================
