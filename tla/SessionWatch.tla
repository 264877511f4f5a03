---------------------------- MODULE SessionWatch ----------------------------
(***************************************************************************)
(* The watcher of Claude Code sessions (terraphim_sessions,                *)
(* connector/native.rs watch_at): a thread that follows the files of a     *)
(* directory and sends a session to its subscriber whenever the file has   *)
(* rested for the debounce window and holds more messages than were sent.  *)
(*                                                                         *)
(* A file is its number of messages and whether a line after them is half  *)
(* written.  The watcher's own queue gets an event with every write, and   *)
(* nothing bounds how late it is read.  Time is kept as the age of the     *)
(* newest event of each path, in polls.                                    *)
(***************************************************************************)
EXTENDS Naturals, Sequences

CONSTANTS
  Paths,       \* .jsonl files below the watched directory
  Debounce,    \* DEBOUNCE_MS, in polls
  Capacity,    \* sessions the subscriber's channel holds (32)
  MaxMessages, \* bound: messages of a file
  MaxWrites    \* bound: writes to the files

ASSUME WatchAssumption ==
  /\ Debounce \in Nat /\ Capacity \in Nat \ {0}
  /\ MaxMessages \in Nat /\ MaxWrites \in Nat

VARIABLES
  messages,    \* messages[p]: complete lines of the file
  half,        \* half[p]: the last line is half written
  queue,       \* watcher_rx: the paths of the events, oldest first
  clock,     \* clock[p]: age of the newest event handled, Debounce + 1 for none
  emitted,     \* last_emitted[p]
  watcher,     \* where the thread is: "poll", "flush", "send" or "ended"
  ready,       \* the paths of this flush
  outgoing,    \* the session it is sending, as <<path, messages>>
  channel,     \* sessions the subscriber has not received
  subscribed,  \* the receiver lives
  delivered,   \* history: delivered[p], the most messages sent of p
  writesMade

watchVars == <<messages, half, queue, clock, emitted, watcher, ready, outgoing,
               channel, subscribed, delivered, writesMade>>
fileVars == <<messages, half, writesMade>>

NotPending == Debounce + 1
Session == Paths \X (1..MaxMessages)

WatchTypeOK ==
  /\ messages \in [Paths -> 0..MaxMessages] /\ half \in [Paths -> BOOLEAN]
  /\ queue \in Seq(Paths)
  /\ clock \in [Paths -> 0..NotPending]
  /\ emitted \in [Paths -> 0..MaxMessages] /\ delivered \in [Paths -> 0..MaxMessages]
  /\ watcher \in {"poll", "flush", "send", "ended"}
  /\ ready \subseteq Paths
  /\ outgoing = <<>> \/ outgoing \in Session
  /\ channel \in Seq(Session) /\ Len(channel) <= Capacity
  /\ subscribed \in BOOLEAN /\ writesMade \in 0..MaxWrites
  /\ watcher = "send" <=> outgoing # <<>>

----------------------------------------------------------------------------
(* The assistant that writes the files.                                    *)

Write(p, n, torn) ==
  /\ writesMade < MaxWrites
  /\ writesMade' = writesMade + 1
  /\ messages' = [messages EXCEPT ![p] = n]
  /\ half' = [half EXCEPT ![p] = torn]
  /\ queue' = IF watcher = "ended" THEN queue ELSE Append(queue, p)
  /\ UNCHANGED <<clock, emitted, watcher, ready, outgoing, channel, subscribed, delivered>>

\* a line is appended, at once or in two writes, or the file is written anew
AppendLine(p) == ~half[p] /\ messages[p] < MaxMessages /\ Write(p, messages[p] + 1, FALSE)
AppendHalf(p) == ~half[p] /\ messages[p] < MaxMessages /\ Write(p, messages[p], TRUE)
AppendRest(p) == half[p] /\ Write(p, messages[p] + 1, FALSE)
Rewrite(p)    == \E n \in 0..messages[p] : Write(p, n, FALSE)

----------------------------------------------------------------------------
(* The thread.                                                             *)

\* Mutant of Noted: an event within the window of an earlier one is not counted.
NotedOnce(p) == [clock EXCEPT ![p] = IF emitted[p] = 0 THEN 0 ELSE @]

\* the debounce clock of p starts anew
Noted(p) == [clock EXCEPT ![p] = 0]

Due(age) == {p \in Paths : age[p] = Debounce}

\* The top of the loop: an event, or none within the poll interval; then the paths that
\* have rested long enough are collected.
Poll ==
  /\ watcher = "poll" /\ subscribed
  /\ \/ queue # <<>> /\ clock' = Noted(Head(queue)) /\ queue' = Tail(queue)
     \/ queue = <<>> /\ Due(clock) # {} /\ UNCHANGED <<clock, queue>>
  /\ ready' = Due(clock')
  /\ watcher' = IF ready' = {} THEN "poll" ELSE "flush"
  /\ UNCHANGED <<fileVars, emitted, outgoing, channel, subscribed, delivered>>

\* tx.is_closed(): the thread ends and the operating system's watch with it
End ==
  /\ watcher = "poll" /\ ~subscribed
  /\ watcher' = "ended" /\ queue' = <<>>
  /\ UNCHANGED <<fileVars, clock, emitted, ready, outgoing, channel, subscribed, delivered>>

\* What parse_session_file_sync makes of the file: its complete lines; or an error, if what
\* is there of the last line is not UTF-8.  Zero stands for Ok(None) and for the error.
Parsed(p) == {messages[p]} \cup (IF half[p] THEN {0} ELSE {})

\* One path of the flush: it is no longer pending, and it is sent if it has grown.
Flush(p) ==
  /\ watcher = "flush" /\ p \in ready
  /\ ready' = ready \ {p}
  /\ clock' = [clock EXCEPT ![p] = NotPending]
  /\ \E n \in Parsed(p) :
       IF n > emitted[p]
         THEN /\ emitted' = [emitted EXCEPT ![p] = n]
              /\ outgoing' = <<p, n>>
              /\ watcher' = "send"
         ELSE /\ watcher' = IF ready' = {} THEN "poll" ELSE "flush"
              /\ UNCHANGED <<emitted, outgoing>>
  /\ UNCHANGED <<fileVars, queue, channel, subscribed, delivered>>

\* Mutant of Send: the channel has no bound.
SendUnbounded ==
  /\ watcher = "send"
  /\ \/ /\ subscribed
        /\ channel' = Append(channel, outgoing)
        /\ delivered' = [delivered EXCEPT ![outgoing[1]] = outgoing[2]]
     \/ ~subscribed /\ UNCHANGED <<channel, delivered>>
  /\ outgoing' = <<>>
  /\ watcher' = IF ready = {} THEN "poll" ELSE "flush"
  /\ UNCHANGED <<fileVars, queue, clock, emitted, ready, subscribed>>

\* blocking_send: waits while the channel is full, and fails once the receiver is gone
Send ==
  /\ watcher = "send"
  /\ \/ /\ subscribed /\ Len(channel) < Capacity
        /\ channel' = Append(channel, outgoing)
        /\ delivered' = [delivered EXCEPT ![outgoing[1]] = outgoing[2]]
     \/ ~subscribed /\ UNCHANGED <<channel, delivered>>
  /\ outgoing' = <<>>
  /\ watcher' = IF ready = {} THEN "poll" ELSE "flush"
  /\ UNCHANGED <<fileVars, queue, clock, emitted, ready, subscribed>>

----------------------------------------------------------------------------
(* The subscriber and time.                                                *)

Receive ==
  /\ subscribed /\ channel # <<>>
  /\ channel' = Tail(channel)
  /\ UNCHANGED <<fileVars, queue, clock, emitted, watcher, ready, outgoing, subscribed, delivered>>

Unsubscribe ==
  /\ subscribed
  /\ subscribed' = FALSE /\ channel' = <<>>
  /\ UNCHANGED <<fileVars, queue, clock, emitted, watcher, ready, outgoing, delivered>>

\* time goes by, wherever the thread is
Age ==
  /\ \E p \in Paths : clock[p] < Debounce
  /\ clock' = [p \in Paths |-> IF clock[p] < Debounce THEN clock[p] + 1 ELSE clock[p]]
  /\ UNCHANGED <<fileVars, queue, emitted, watcher, ready, outgoing, channel, subscribed, delivered>>

----------------------------------------------------------------------------

WatchInit ==
  /\ messages = [p \in Paths |-> 0] /\ half = [p \in Paths |-> FALSE]
  /\ queue = <<>> /\ channel = <<>> /\ outgoing = <<>> /\ ready = {}
  /\ clock = [p \in Paths |-> NotPending]
  /\ emitted = [p \in Paths |-> 0] /\ delivered = [p \in Paths |-> 0]
  /\ watcher = "poll" /\ subscribed = TRUE /\ writesMade = 0

Watcher   == Poll \/ End \/ Send \/ \E p \in Paths : Flush(p)
Assistant == \E p \in Paths : AppendLine(p) \/ AppendHalf(p) \/ AppendRest(p) \/ Rewrite(p)

WatchNext == Watcher \/ Assistant \/ Receive \/ Unsubscribe \/ Age

\* the thread runs, time goes by, and a subscriber that stays reads what it is sent
WatchSpec ==
  /\ WatchInit /\ [][WatchNext]_watchVars
  /\ WF_watchVars(Watcher) /\ WF_watchVars(Age) /\ WF_watchVars(Receive)

----------------------------------------------------------------------------
(* Properties.                                                             *)

\* However the writes fall between events, windows and a send that has to wait, the messages
\* of a file that is left alone reach the subscriber, unless it is gone or the file was cut or
\* ends in half a line (watch_at drops a path from its pending map before it reads the file, which may
\* not parse just then, and counts on the event of the next write).
WatchCatchesUp ==
  \A p \in Paths :
    (~half[p] /\ messages[p] > delivered[p])
      ~> (half[p] \/ messages[p] <= delivered[p] \/ ~subscribed)
=============================================================================
