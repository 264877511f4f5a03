--------------------------- MODULE UpdateScheduler ---------------------------
(***************************************************************************)
(* The periodic update check of terraphim_update (scheduler.rs) and the    *)
(* way lib.rs starts it for a binary.                                      *)
(*                                                                         *)
(* start() spawns a tokio task, a run.  A run creates its interval when it *)
(* is first polled, checks at once, and then alternates interval.tick()    *)
(* with a check.  A check is a closure on the blocking pool: aborting the  *)
(* run drops the wait for it, not the closure.  stop() aborts the run and  *)
(* waits for its end for at most StopTimeout.  The owner's calls exclude   *)
(* one another (&mut self); the run, the closures and the receiver of the  *)
(* notifications run beside them.                                          *)
(*                                                                         *)
(* Bounds: MaxRuns successful calls of start, MaxChannels channels, and    *)
(* MaxTime ticks of the clock.                                             *)
(***************************************************************************)
EXTENDS Naturals, Sequences

CONSTANTS MaxRuns, MaxChannels, MaxTime,
          Interval,     \* auto_update_check_interval
          StopTimeout,  \* the 5 seconds of stop()
          AutoUpdate    \* auto_update_enabled

ASSUME BoundsAssumption ==
    /\ MaxRuns \in Nat \ {0} /\ MaxChannels \in Nat \ {0} /\ MaxTime \in Nat
    /\ Interval \in Nat \ {0} /\ StopTimeout \in Nat \ {0}
    /\ AutoUpdate \in BOOLEAN

VARIABLES
    running,    \* is_running
    handle,     \* the run whose JoinHandle the scheduler (or stop) holds, 0: none
    sender,     \* the channel of notification_sender, 0: none
    call,       \* "idle", or "stopping" while stop() awaits the handle
    stopAt,     \* when stop() gives up
    now,
    spawned,    \* runs spawned so far
    channels,   \* channels created so far
    stage,      \* stage[r]: where run r is
    aborted,    \* aborted[r]: its handle was aborted
    deadline,   \* deadline[r]: the next tick of its interval
    closure,    \* closure[r]: the check of r on the blocking pool
    gaveUp,     \* gaveUp[r]: stop() stopped waiting for r
    sent,       \* sent[c]: every notification put in channel c
    cloned,     \* cloned[r]: the channel whose sender r holds a clone of
    receiver    \* receiver[c]: "none", "recv" or "closed"

schedulerVars == <<running, handle, sender, call, stopAt, now, spawned, channels, stage, aborted,
                   deadline, closure, gaveUp, sent, cloned, receiver>>
owner == <<running, handle, sender, call, stopAt, spawned, channels, gaveUp, cloned>>

Runs == 1 .. MaxRuns
Channels == 1 .. MaxChannels
\* What a closure returns: UpdateAvailable or Failed, of which the receiver is
\* told; UpToDate, of which it is not; Err, or a panic.
Results == {"news", "none", "Err"}
Kinds == {"news", "Stopped"}
Notifications == [kind : Kinds, run : Runs]

Alive(r) == stage[r] \notin {"none", "dropped"}

\* send(): an unbounded channel takes the message unless its receiver is gone.
Put(c, kind, r) ==
    sent' = IF receiver[c] = "recv"
              THEN [sent EXCEPT ![c] = Append(@, [kind |-> kind, run |-> r])]
              ELSE sent

----------------------------------------------------------------------------
(* The owner of the scheduler. *)

CreateChannel ==
    /\ call = "idle" /\ ~running /\ channels < MaxChannels
    /\ channels' = channels + 1
    /\ sender' = channels'
    \* The old sender is dropped: its receiver ends once no run holds a clone.
    /\ receiver' = [receiver EXCEPT ![channels'] = "recv"]
    /\ UNCHANGED <<running, handle, call, stopAt, now, spawned, stage, aborted, deadline,
                   closure, gaveUp, sent, cloned>>

\* Mutant of Start: is_running is not looked at.
StartAgain ==
    /\ call = "idle" /\ AutoUpdate /\ sender # 0 /\ spawned < MaxRuns
    /\ spawned' = spawned + 1
    /\ stage' = [stage EXCEPT ![spawned'] = "first"]
    /\ cloned' = [cloned EXCEPT ![spawned'] = sender]
    /\ handle' = spawned' /\ running' = TRUE
    /\ UNCHANGED <<sender, call, stopAt, now, channels, aborted, deadline, closure,
                   gaveUp, sent, receiver>>

Start ==
    /\ call = "idle" /\ ~running /\ AutoUpdate /\ sender # 0 /\ spawned < MaxRuns
    /\ spawned' = spawned + 1
    /\ stage' = [stage EXCEPT ![spawned'] = "first"]
    /\ cloned' = [cloned EXCEPT ![spawned'] = sender]
    /\ handle' = spawned' /\ running' = TRUE
    /\ UNCHANGED <<sender, call, stopAt, now, channels, aborted, deadline, closure,
                   gaveUp, sent, receiver>>

StopCall ==
    /\ call = "idle" /\ running
    /\ call' = "stopping" /\ stopAt' = now + StopTimeout
    /\ aborted' = [aborted EXCEPT ![handle] = TRUE]
    /\ UNCHANGED <<running, handle, sender, now, spawned, channels, stage, deadline,
                   closure, gaveUp, sent, cloned, receiver>>

\* Mutant of StopReturn: the handle is aborted and not awaited.
StopAtOnce ==
    /\ call = "stopping"
    /\ UNCHANGED gaveUp
    /\ Put(sender, "Stopped", handle)
    /\ call' = "idle" /\ running' = FALSE /\ handle' = 0 /\ stopAt' = 0
    /\ UNCHANGED <<sender, now, spawned, channels, stage, aborted, deadline,
                   closure, cloned, receiver>>

\* The handle resolves, or the timeout does: the outcome is ignored either way.
StopReturn ==
    /\ call = "stopping"
    /\ stage[handle] = "dropped" \/ now >= stopAt
    /\ gaveUp' = [gaveUp EXCEPT ![handle] = stage[handle] # "dropped"]
    /\ Put(sender, "Stopped", handle)
    /\ call' = "idle" /\ running' = FALSE /\ handle' = 0 /\ stopAt' = 0
    /\ UNCHANGED <<sender, now, spawned, channels, stage, aborted, deadline,
                   closure, cloned, receiver>>

----------------------------------------------------------------------------
(* A run.  A poll goes on to its next await whether or not the run was      *)
(* aborted meanwhile; an aborted run that waits is dropped.                 *)

HandToPool(r) ==
    /\ stage' = [stage EXCEPT ![r] = "check"]
    /\ closure' = [closure EXCEPT ![r] = "run"]

\* The first poll: tokio::time::interval(..), then the immediate check.
FirstPoll(r) ==
    /\ stage[r] = "first" /\ ~aborted[r]
    /\ deadline' = [deadline EXCEPT ![r] = now]
    /\ HandToPool(r)
    /\ UNCHANGED <<owner, now, aborted, sent, receiver>>

\* interval.tick(): the first tick completes immediately, and a missed one is
\* made up for at once (MissedTickBehavior::Burst, the default).
TickAndCheck(r) ==
    /\ stage[r] = "loop" \/ (stage[r] = "tick" /\ ~aborted[r])
    /\ now >= deadline[r]
    /\ deadline' = [deadline EXCEPT ![r] = @ + Interval]
    /\ HandToPool(r)
    /\ UNCHANGED <<owner, now, aborted, sent, receiver>>

AwaitTick(r) ==
    /\ stage[r] = "loop" /\ now < deadline[r]
    /\ stage' = [stage EXCEPT ![r] = "tick"]
    /\ UNCHANGED <<owner, now, aborted, deadline, closure, sent, receiver>>

\* The run is polled after its closure ended.
Collect(r) ==
    /\ stage[r] = "check" /\ ~aborted[r] /\ closure[r] \in Results
    /\ stage' = [stage EXCEPT ![r] = "report"]
    /\ UNCHANGED <<owner, now, aborted, deadline, closure, sent, receiver>>

\* Mutant of Report: an error of the check ends the loop.
ReportOrEnd(r) ==
    /\ stage[r] = "report"
    /\ IF closure[r] = "news" THEN Put(cloned[r], "news", r) ELSE UNCHANGED sent
    /\ closure' = [closure EXCEPT ![r] = "idle"]
    /\ stage' = [stage EXCEPT ![r] =
                IF closure[r] = "Err" THEN "dropped" ELSE "loop"]
    /\ UNCHANGED <<owner, now, aborted, deadline, receiver>>

\* The end of perform_check; an error of it, a failed send included, is logged
\* (or ignored, after the first check) and the loop goes on.
Report(r) ==
    /\ stage[r] = "report"
    /\ IF closure[r] = "news" THEN Put(cloned[r], "news", r) ELSE UNCHANGED sent
    /\ closure' = [closure EXCEPT ![r] = "idle"]
    /\ stage' = [stage EXCEPT ![r] = "loop"]
    /\ UNCHANGED <<owner, now, aborted, deadline, receiver>>

\* Mutant of Dropped: a run that awaits its closure is not dropped.
DroppedIdle(r) ==
    /\ aborted[r] /\ stage[r] \in {"first", "tick"}
    /\ stage' = [stage EXCEPT ![r] = "dropped"]
    /\ closure' = [closure EXCEPT ![r] = IF @ = "run" THEN "run" ELSE "idle"]
    /\ UNCHANGED <<owner, now, aborted, deadline, sent, receiver>>

\* tokio drops an aborted task that waits; the closure stays on the pool and
\* its result is lost.
Dropped(r) ==
    /\ aborted[r] /\ stage[r] \in {"first", "check", "tick"}
    /\ stage' = [stage EXCEPT ![r] = "dropped"]
    /\ closure' = [closure EXCEPT ![r] = IF @ = "run" THEN "run" ELSE "idle"]
    /\ UNCHANGED <<owner, now, aborted, deadline, sent, receiver>>

\* The closure: check_for_updates_auto on a runtime of its own.
CheckEnds(r) ==
    /\ closure[r] = "run"
    /\ \E res \in Results :
          closure' = [closure EXCEPT ![r] = IF stage[r] = "dropped" THEN "idle" ELSE res]
    /\ UNCHANGED <<owner, now, stage, aborted, deadline, sent, receiver>>

----------------------------------------------------------------------------
(* The receiver: the task of start_update_scheduler reads until Stopped, a   *)
(* hangup, or the abort of the handle its caller was given; from then on the *)
(* channel is closed.                                                        *)

CloseReceiver(c) ==
    /\ receiver[c] = "recv"
    /\ receiver' = [receiver EXCEPT ![c] = "closed"]
    /\ UNCHANGED <<owner, now, stage, aborted, deadline, closure, sent>>

Tick ==
    /\ now < MaxTime
    /\ now' = now + 1
    /\ UNCHANGED <<owner, stage, aborted, deadline, closure, sent, receiver>>

----------------------------------------------------------------------------
SchedulerInit ==
    /\ running = FALSE /\ handle = 0 /\ sender = 0 /\ call = "idle" /\ stopAt = 0
    /\ now = 0 /\ spawned = 0 /\ channels = 0
    /\ stage = [r \in Runs |-> "none"]
    /\ aborted = [r \in Runs |-> FALSE]
    /\ deadline = [r \in Runs |-> 0]
    /\ closure = [r \in Runs |-> "idle"]
    /\ gaveUp = [r \in Runs |-> FALSE]
    /\ cloned = [r \in Runs |-> 0]
    /\ sent = [c \in Channels |-> <<>>]
    /\ receiver = [c \in Channels |-> "none"]

RunStep(r) ==
    FirstPoll(r) \/ TickAndCheck(r) \/ AwaitTick(r) \/ Collect(r) \/ Report(r) \/ Dropped(r)

SchedulerNext ==
    \/ CreateChannel \/ Start \/ StopCall \/ StopReturn \/ Tick
    \/ \E r \in Runs : RunStep(r) \/ CheckEnds(r)
    \/ \E c \in Channels : CloseReceiver(c)

SchedulerSpec == SchedulerInit /\ [][SchedulerNext]_schedulerVars

\* tokio polls what can make progress, the closure returns (its requests have
\* timeouts), and time goes on.  Nobody need call the scheduler.
SchedulerFairSpec ==
    /\ SchedulerSpec /\ WF_schedulerVars(Tick)
    /\ \A r \in Runs : WF_schedulerVars(RunStep(r)) /\ WF_schedulerVars(CheckEnds(r))
    /\ WF_schedulerVars(StopReturn)

----------------------------------------------------------------------------
(* Properties. *)

\* The type invariant: stop() awaits the run the scheduler started last, and
\* a run is polled only between its spawn and its drop.
SchedulerTypeOK ==
    /\ running \in BOOLEAN /\ call \in {"idle", "stopping"}
    /\ handle \in 0 .. spawned /\ spawned \in 0 .. MaxRuns
    /\ sender \in 0 .. channels /\ channels \in 0 .. MaxChannels
    /\ now \in 0 .. MaxTime /\ stopAt \in 0 .. MaxTime + StopTimeout
    /\ stage \in [Runs -> {"none", "first", "check", "report", "loop", "tick", "dropped"}]
    /\ closure \in [Runs -> Results \union {"idle", "run"}]
    /\ aborted \in [Runs -> BOOLEAN] /\ gaveUp \in [Runs -> BOOLEAN]
    /\ deadline \in [Runs -> Nat] /\ cloned \in [Runs -> 0 .. MaxChannels]
    /\ sent \in [Channels -> Seq(Notifications)]
    /\ receiver \in [Channels -> {"none", "recv", "closed"}]
    /\ \A r \in Runs : stage[r] = "none" <=> r > spawned

\* Calls of start and stop, in any order and however they overlap a check,
\* leave at most one run that is not on its way out: a run that is alive is the
\* one the scheduler would stop, unless stop() ran out of time waiting for it.
OneRun ==
    \A r \in Runs : Alive(r) /\ ~gaveUp[r] => running /\ handle = r

\* A receiver that saw Stopped hears no more from the runs stopped before:
\* what follows on the channel is of a later run.
SilentAfterStopped ==
    \A c \in Channels : \A i, j \in 1 .. Len(sent[c]) :
        /\ i < j /\ sent[c][i].kind = "Stopped"
        /\ ~gaveUp[sent[c][i].run]
        => \/ sent[c][j].run > sent[c][i].run
           \/ gaveUp[sent[c][j].run]

\* The loop outlives every failure: while the run is not stopped no tick is
\* skipped, whether checks fail, panic, or the receiver is gone.
EveryTickChecked ==
    \A r \in Runs :
        (stage[r] = "first" \/ (Alive(r) /\ deadline[r] <= MaxTime))
            ~> (aborted[r] \/ deadline[r] > MaxTime)

\* stop() returns, and its run ends even if stop() did not wait for it.
StopEnds ==
    /\ (call = "stopping") ~> (call = "idle")
    /\ \A r \in Runs : aborted[r] ~> (stage[r] = "dropped")

=============================================================================
