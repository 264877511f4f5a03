-------------------------- MODULE BackgroundProofs --------------------------
(***************************************************************************)
(* Theorems about the tasks that run beside their owner, for every number  *)
(* of runs, channels, documents and files: the update scheduler has at     *)
(* most one run it could not stop, and a receiver that saw Stopped hears   *)
(* no more from what was stopped; the language server forgets no document  *)
(* and the session watcher no file; and what the components have alone     *)
(* they have together.                                                     *)
(***************************************************************************)
EXTENDS MCBackground, McpServiceProofs, FiniteSetTheorems, SequenceTheorems, TLAPS

-----------------------------------------------------------------------------
(* The update scheduler.  Its inductive invariant relates the three ways in *)
(* which it knows its run - is_running, the handle and the count of runs -  *)
(* and what the channels hold to the runs that are over.                    *)

Stages == {"none", "first", "check", "report", "loop", "tick", "dropped"}

\* While the scheduler is running its handle is that of the newest run, for
\* which there is a channel and on which stop() did not give up.
HandleInv ==
    /\ running <=> handle # 0
    /\ running => handle = spawned /\ sender # 0
    /\ call = "stopping" => running
    /\ \A r \in Runs : gaveUp[r] => r <= spawned /\ (running => r < handle)
    /\ \A r \in Runs : stage[r] # "none" => cloned[r] \in Channels

\* Every Stopped is of a run that was started before the current one.
StoppedInv ==
    \A c \in Channels : \A i \in 1 .. Len(sent[c]) :
        sent[c][i].kind = "Stopped" =>
            sent[c][i].run <= spawned /\ (running => sent[c][i].run < handle)

SchedInv == SchedulerTypeOK /\ HandleInv /\ OneRun /\ StoppedInv /\ SilentAfterStopped

LEMMA InitSchedInv == SchedulerInit => SchedInv
<1> SUFFICES ASSUME SchedulerInit PROVE SchedInv
  OBVIOUS
<1> USE BoundsAssumption DEF SchedulerInit, Runs, Channels
<1>1. SchedulerTypeOK
  <2>1. sent \in [Channels -> Seq(Notifications)]
    OBVIOUS
  <2>2. aborted \in [Runs -> BOOLEAN] /\ gaveUp \in [Runs -> BOOLEAN] /\ running \in BOOLEAN
    BY Zenon
  <2> QED BY <2>1, <2>2 DEF SchedulerTypeOK, Results
<1>2. HandleInv /\ OneRun
  BY DEF HandleInv, OneRun, Alive
<1>3. StoppedInv /\ SilentAfterStopped
  BY DEF StoppedInv, SilentAfterStopped
<1> QED BY <1>1, <1>2, <1>3 DEF SchedInv

-----------------------------------------------------------------------------
(* Types.                                                                   *)

\* What a send does to the channels.
LEMMA PutIs ==
    ASSUME SchedulerTypeOK, NEW c \in Channels, NEW kind \in Kinds, NEW r \in Runs,
           Put(c, kind, r)
    PROVE  /\ sent' \in [Channels -> Seq(Notifications)]
           /\ \A d \in Channels :
                 \/ sent'[d] = sent[d]
                 \/ d = c /\ sent'[d] = Append(sent[d], [kind |-> kind, run |-> r])
<1>1. [kind |-> kind, run |-> r] \in Notifications
  BY DEF Notifications
<1>2. sent \in [Channels -> Seq(Notifications)]
  BY DEF SchedulerTypeOK
<1>3. CASE receiver[c] = "recv"
  <2>1. sent' = [sent EXCEPT ![c] = Append(@, [kind |-> kind, run |-> r])]
    BY <1>3 DEF Put
  <2>2. Append(sent[c], [kind |-> kind, run |-> r]) \in Seq(Notifications)
    BY <1>1, <1>2
  <2> QED BY <1>2, <2>1, <2>2
<1>4. CASE receiver[c] # "recv"
  BY <1>2, <1>4 DEF Put
<1> QED BY <1>3, <1>4

\* What stop() notes of the run it awaited.
LEMMA GaveUpIs ==
    ASSUME SchedulerTypeOK, HandleInv, StopReturn
    PROVE  /\ handle \in Runs /\ sender \in Channels
           /\ gaveUp' \in [Runs -> BOOLEAN]
           /\ \A r \in Runs \ {handle} : gaveUp'[r] = gaveUp[r]
           /\ stage[handle] # "dropped" => gaveUp'[handle]
           /\ ~gaveUp[handle]
<1>1. handle \in Runs /\ sender \in Channels
  BY BoundsAssumption DEF StopReturn, HandleInv, SchedulerTypeOK, Runs, Channels
<1>2. ~gaveUp[handle]
  BY <1>1 DEF StopReturn, HandleInv, SchedulerTypeOK, Runs
<1> DEFINE late == stage[handle] # "dropped"
<1>3. late \in BOOLEAN /\ gaveUp' = [gaveUp EXCEPT ![handle] = late]
  BY DEF StopReturn
<1>4. gaveUp \in [Runs -> BOOLEAN]
  BY DEF SchedulerTypeOK
<1>5. late => gaveUp'[handle]
  <2> HIDE DEF late
  <2> QED BY <1>1, <1>3, <1>4, Zenon
<1>6. gaveUp' \in [Runs -> BOOLEAN] /\ \A r \in Runs \ {handle} : gaveUp'[r] = gaveUp[r]
  <2> HIDE DEF late
  <2> QED BY <1>1, <1>3, <1>4, Zenon
<1> QED BY <1>1, <1>2, <1>5, <1>6

LEMMA SchedTypeStep ==
    ASSUME SchedulerTypeOK, HandleInv, [SchedulerNext]_schedulerVars
    PROVE  SchedulerTypeOK'
<1> USE BoundsAssumption
<1>1. CASE CreateChannel
  BY <1>1 DEF SchedulerTypeOK, CreateChannel, Channels
<1>2. CASE Start
  BY <1>2, SMTT(30) DEF SchedulerTypeOK, Start, Runs, Channels
<1>3. CASE StopCall
  BY <1>3 DEF SchedulerTypeOK, StopCall, HandleInv, Runs
<1>4. CASE StopReturn
  <2>1. handle \in Runs /\ sender \in Channels /\ gaveUp' \in [Runs -> BOOLEAN]
    BY <1>4, GaveUpIs
  <2>2. sent' \in [Channels -> Seq(Notifications)]
    BY <1>4, <2>1, PutIs DEF StopReturn, Kinds
  <2>3. /\ call' = "idle" /\ running' = FALSE /\ handle' = 0 /\ stopAt' = 0
        /\ UNCHANGED <<sender, now, spawned, channels, stage, aborted, deadline, closure,
                       cloned, receiver>>
    BY <1>4 DEF StopReturn
  <2>4. running' \in BOOLEAN
    BY <2>3
  <2>5. stopAt' \in 0 .. MaxTime + StopTimeout /\ handle' \in 0 .. spawned'
    BY <2>3 DEF SchedulerTypeOK
  <2> HIDE BoundsAssumption
  <2> QED BY <2>1, <2>2, <2>3, <2>4, <2>5 DEF SchedulerTypeOK
<1>5. CASE Tick
  BY <1>5 DEF SchedulerTypeOK, Tick, owner
<1>6. ASSUME NEW r \in Runs, FirstPoll(r) PROVE SchedulerTypeOK'
  BY <1>6 DEF SchedulerTypeOK, FirstPoll, HandToPool, owner
<1>7. ASSUME NEW r \in Runs, TickAndCheck(r) PROVE SchedulerTypeOK'
  BY <1>7 DEF SchedulerTypeOK, TickAndCheck, HandToPool, owner
<1>8. ASSUME NEW r \in Runs, AwaitTick(r) PROVE SchedulerTypeOK'
  BY <1>8 DEF SchedulerTypeOK, AwaitTick, owner
<1>9. ASSUME NEW r \in Runs, Collect(r) PROVE SchedulerTypeOK'
  BY <1>9 DEF SchedulerTypeOK, Collect, owner
<1>10. ASSUME NEW r \in Runs, Report(r) PROVE SchedulerTypeOK'
  <2>1. cloned[r] \in Channels
    BY <1>10 DEF Report, HandleInv
  <2>2. sent' \in [Channels -> Seq(Notifications)]
    <3>1. CASE closure[r] = "news"
      BY <1>10, <2>1, <3>1, PutIs DEF Report, Kinds
    <3>2. CASE closure[r] # "news"
      BY <1>10, <3>2 DEF Report, SchedulerTypeOK
    <3> QED BY <3>1, <3>2
  <2> QED BY <1>10, <2>2 DEF SchedulerTypeOK, Report, owner
<1>11. ASSUME NEW r \in Runs, Dropped(r) PROVE SchedulerTypeOK'
  BY <1>11 DEF SchedulerTypeOK, Dropped, owner
<1>12. ASSUME NEW r \in Runs, CheckEnds(r) PROVE SchedulerTypeOK'
  BY <1>12 DEF SchedulerTypeOK, CheckEnds, owner
<1>13. ASSUME NEW c \in Channels, CloseReceiver(c) PROVE SchedulerTypeOK'
  BY <1>13 DEF SchedulerTypeOK, CloseReceiver, owner
<1>14. CASE UNCHANGED schedulerVars
  BY <1>14 DEF SchedulerTypeOK, schedulerVars
<1> QED BY <1>1, <1>2, <1>3, <1>4, <1>5, <1>6, <1>7, <1>8, <1>9, <1>10, <1>11, <1>12,
           <1>13, <1>14 DEF SchedulerNext, RunStep

-----------------------------------------------------------------------------
(* One run.                                                                 *)

\* The steps of a run, of its closure and of the receiver leave alone what the
\* owner keeps, and wake no run that is over.
LEMMA Beside ==
    ASSUME SchedulerTypeOK, [SchedulerNext]_schedulerVars,
           ~(CreateChannel \/ Start \/ StopCall \/ StopReturn)
    PROVE  /\ UNCHANGED owner
           /\ \A r \in Runs : /\ stage'[r] = "none" <=> stage[r] = "none"
                              /\ stage[r] = "dropped" => stage'[r] = "dropped"
<1>1. CASE Tick
  BY <1>1 DEF Tick
<1>2. ASSUME NEW s \in Runs, FirstPoll(s) \/ TickAndCheck(s) \/ AwaitTick(s) \/ Collect(s)
                                \/ Report(s) \/ Dropped(s)
      PROVE  /\ UNCHANGED owner
             /\ stage[s] \notin {"none", "dropped"}
             /\ \E q \in Stages \ {"none"} : stage' = [stage EXCEPT ![s] = q]
  <2>1. UNCHANGED owner /\ stage[s] \notin {"none", "dropped"}
    BY <1>2 DEF FirstPoll, TickAndCheck, AwaitTick, Collect, Report, Dropped, owner
  <2>2. \E q \in Stages \ {"none"} : stage' = [stage EXCEPT ![s] = q]
    BY <1>2 DEF FirstPoll, TickAndCheck, AwaitTick, Collect, Report, Dropped, HandToPool,
                Stages
  <2> QED BY <2>1, <2>2
<1>3. ASSUME NEW s \in Runs, CheckEnds(s) PROVE UNCHANGED <<owner, stage>>
  BY <1>3 DEF CheckEnds
<1>4. ASSUME NEW c \in Channels, CloseReceiver(c) PROVE UNCHANGED <<owner, stage>>
  BY <1>4 DEF CloseReceiver
<1>5. CASE UNCHANGED schedulerVars
  BY <1>5 DEF schedulerVars, owner
<1>6. CASE \E s \in Runs : RunStep(s)
  <2>1. PICK s \in Runs : RunStep(s)
    BY <1>6
  <2>2. UNCHANGED owner /\ stage[s] \notin {"none", "dropped"}
    BY <1>2, <2>1 DEF RunStep
  <2>3. PICK q \in Stages \ {"none"} : stage' = [stage EXCEPT ![s] = q]
    BY <1>2, <2>1 DEF RunStep
  <2>4. DOMAIN stage = Runs
    BY DEF SchedulerTypeOK
  <2> QED BY <2>2, <2>3, <2>4
<1> QED BY <1>1, <1>3, <1>4, <1>5, <1>6 DEF SchedulerNext

LEMMA HandleStep ==
    ASSUME SchedulerTypeOK, HandleInv, OneRun, [SchedulerNext]_schedulerVars
    PROVE  HandleInv' /\ OneRun'
<1> USE BoundsAssumption
<1>1. CASE CreateChannel
  BY <1>1 DEF SchedulerTypeOK, HandleInv, OneRun, Alive, CreateChannel, Channels
<1>2. CASE Start
  BY <1>2 DEF SchedulerTypeOK, HandleInv, OneRun, Alive, Start, Runs, Channels
<1>3. CASE StopCall
  BY <1>3 DEF SchedulerTypeOK, HandleInv, OneRun, Alive, StopCall
<1>4. CASE StopReturn
  <2>1. /\ handle \in Runs /\ \A r \in Runs \ {handle} : gaveUp'[r] = gaveUp[r]
        /\ stage[handle] # "dropped" => gaveUp'[handle]
    BY <1>4, GaveUpIs
  <2>2. /\ call' = "idle" /\ running' = FALSE /\ handle' = 0
        /\ UNCHANGED <<sender, spawned, channels, stage, cloned>>
    BY <1>4 DEF StopReturn
  <2>3. running /\ handle = spawned /\ spawned \in Nat
    BY <1>4 DEF StopReturn, HandleInv, SchedulerTypeOK
  <2>4. HandleInv'
    <3>1. ASSUME NEW r \in Runs, gaveUp'[r] PROVE r <= spawned'
      BY <2>1, <2>2, <2>3, <3>1 DEF HandleInv, Runs
    <3> QED BY <2>2, <3>1 DEF HandleInv
  <2>5. OneRun'
    BY <2>1, <2>2 DEF OneRun, Alive
  <2> QED BY <2>4, <2>5
<1>5. CASE ~(CreateChannel \/ Start \/ StopCall \/ StopReturn)
  BY <1>5, Beside DEF HandleInv, OneRun, Alive, owner
<1> QED BY <1>1, <1>2, <1>3, <1>4, <1>5

-----------------------------------------------------------------------------
(* Nothing follows Stopped.                                                 *)

\* A step puts at most one notification into a channel: the Stopped of the run
\* stop() has finished with, or news of a run that is alive.
LEMMA Sends ==
    ASSUME SchedulerTypeOK, HandleInv, [SchedulerNext]_schedulerVars, NEW c \in Channels
    PROVE  \/ sent'[c] = sent[c]
           \/ StopReturn /\ sent'[c] = Append(sent[c], [kind |-> "Stopped", run |-> handle])
           \/ \E r \in Runs : /\ Alive(r) /\ UNCHANGED owner
                              /\ sent'[c] = Append(sent[c], [kind |-> "news", run |-> r])
<1>1. CASE StopReturn
  <2>1. handle \in Runs /\ sender \in Channels
    BY <1>1, BoundsAssumption DEF StopReturn, HandleInv, SchedulerTypeOK, Runs, Channels
  <2> QED BY <1>1, <2>1, PutIs DEF StopReturn, Kinds
<1>2. ASSUME NEW r \in Runs, Report(r)
      PROVE  sent'[c] = sent[c]
             \/ (/\ Alive(r) /\ UNCHANGED owner
                 /\ sent'[c] = Append(sent[c], [kind |-> "news", run |-> r]))
  <2>1. cloned[r] \in Channels /\ Alive(r)
    BY <1>2 DEF Report, HandleInv, Alive
  <2>2. UNCHANGED owner
    BY <1>2, <2>1 DEF Report, Put, owner
  <2>3. CASE closure[r] = "news"
    BY <1>2, <2>1, <2>2, <2>3, PutIs DEF Report, Kinds
  <2>4. CASE closure[r] # "news"
    BY <1>2, <2>4 DEF Report
  <2> QED BY <2>3, <2>4
<1>3. CASE UNCHANGED sent
  BY <1>3
<1>4. StopReturn \/ (\E r \in Runs : Report(r)) \/ UNCHANGED sent
  BY DEF SchedulerNext, RunStep, CreateChannel, Start, StopCall, Tick, FirstPoll,
         TickAndCheck, AwaitTick, Collect, Dropped, CheckEnds, CloseReceiver, schedulerVars
<1> QED BY <1>1, <1>2, <1>3, <1>4

\* The same of one notification after the step.
LEMMA Received ==
    ASSUME SchedulerTypeOK, HandleInv, [SchedulerNext]_schedulerVars, NEW c \in Channels,
           NEW i \in 1 .. Len(sent'[c])
    PROVE  /\ sent'[c][i].kind \in Kinds /\ sent'[c][i].run \in Runs
           /\ \/ i \in 1 .. Len(sent[c]) /\ sent'[c][i] = sent[c][i]
              \/ /\ i = Len(sent[c]) + 1
                 /\ \/ StopReturn /\ sent'[c][i] = [kind |-> "Stopped", run |-> handle]
                    \/ \E r \in Runs : /\ Alive(r) /\ UNCHANGED owner
                                       /\ sent'[c][i] = [kind |-> "news", run |-> r]
<1>1. sent[c] \in Seq(Notifications) /\ sent'[c] \in Seq(Notifications)
  BY SchedTypeStep DEF SchedulerTypeOK
<1>2. sent'[c][i] \in Notifications
  BY <1>1
<1>3. sent'[c][i].kind \in Kinds /\ sent'[c][i].run \in Runs
  BY <1>2 DEF Notifications
<1>4. ASSUME NEW e, sent'[c] = Append(sent[c], e)
      PROVE  \/ i \in 1 .. Len(sent[c]) /\ sent'[c][i] = sent[c][i]
             \/ i = Len(sent[c]) + 1 /\ sent'[c][i] = e
  <2>1. Len(sent[c]) \in Nat /\ Len(sent'[c]) = Len(sent[c]) + 1
    BY <1>1, <1>4
  <2>2. CASE i \in 1 .. Len(sent[c])
    BY <1>1, <1>4, <2>2
  <2>3. CASE i = Len(sent[c]) + 1
    BY <1>1, <1>4, <2>3
  <2> QED BY <2>1, <2>2, <2>3
<1>5. CASE sent'[c] = sent[c]
  BY <1>3, <1>5
<1>6. CASE StopReturn /\ sent'[c] = Append(sent[c], [kind |-> "Stopped", run |-> handle])
  BY <1>3, <1>4, <1>6
<1>7. ASSUME NEW r \in Runs, Alive(r), UNCHANGED owner,
             sent'[c] = Append(sent[c], [kind |-> "news", run |-> r])
      PROVE  \/ i \in 1 .. Len(sent[c]) /\ sent'[c][i] = sent[c][i]
             \/ i = Len(sent[c]) + 1 /\ sent'[c][i] = [kind |-> "news", run |-> r]
  BY <1>4, <1>7
<1> QED BY <1>3, <1>5, <1>6, <1>7, Sends

LEMMA StoppedStep ==
    ASSUME SchedulerTypeOK, HandleInv, OneRun, StoppedInv, [SchedulerNext]_schedulerVars
    PROVE  StoppedInv'
<1> SUFFICES ASSUME NEW c \in Channels, NEW i \in 1 .. Len(sent'[c]),
                    sent'[c][i].kind = "Stopped"
             PROVE  /\ sent'[c][i].run <= spawned'
                    /\ running' => sent'[c][i].run < handle'
  BY DEF StoppedInv
<1>2. sent'[c][i].run \in Nat
  BY Received DEF Runs
<1>3. CASE i \in 1 .. Len(sent[c]) /\ sent'[c][i] = sent[c][i]
  <2>1. sent[c][i].run <= spawned /\ (running => sent[c][i].run < handle)
    BY <1>3 DEF StoppedInv
  <2>2. CASE Start
    BY <1>2, <1>3, <2>1, <2>2 DEF Start, SchedulerTypeOK
  <2>3. CASE StopReturn
    BY <1>2, <1>3, <2>1, <2>3 DEF StopReturn
  <2>4. CASE CreateChannel \/ StopCall
    BY <1>2, <1>3, <2>1, <2>4 DEF CreateChannel, StopCall
  <2>5. CASE ~(CreateChannel \/ Start \/ StopCall \/ StopReturn)
    BY <1>2, <1>3, <2>1, <2>5, Beside DEF owner
  <2> QED BY <2>2, <2>3, <2>4, <2>5
<1>4. CASE StopReturn /\ sent'[c][i] = [kind |-> "Stopped", run |-> handle]
  BY <1>4 DEF StopReturn, SchedulerTypeOK
<1>5. \/ i \in 1 .. Len(sent[c]) /\ sent'[c][i] = sent[c][i]
      \/ StopReturn /\ sent'[c][i] = [kind |-> "Stopped", run |-> handle]
  <2>1. ASSUME NEW r \in Runs PROVE sent'[c][i] # [kind |-> "news", run |-> r]
    OBVIOUS
  <2> QED BY <2>1, Received
<1> QED BY <1>3, <1>4, <1>5

LEMMA SilentStep ==
    ASSUME SchedInv, [SchedulerNext]_schedulerVars
    PROVE  SilentAfterStopped'
<1> USE DEF SchedInv
<1> SUFFICES ASSUME NEW c \in Channels, NEW i \in 1 .. Len(sent'[c]),
                    NEW j \in 1 .. Len(sent'[c]), i < j, sent'[c][i].kind = "Stopped",
                    ~gaveUp'[sent'[c][i].run]
             PROVE  sent'[c][j].run > sent'[c][i].run \/ gaveUp'[sent'[c][j].run]
  BY DEF SilentAfterStopped
<1>1. Len(sent[c]) \in Nat
  BY DEF SchedulerTypeOK
<1>2. /\ i \in 1 .. Len(sent[c]) /\ sent'[c][i] = sent[c][i]
      /\ sent'[c][i].run \in Runs /\ sent'[c][j].run \in Runs
  <2>1. i # Len(sent[c]) + 1
    <3>1. j <= Len(sent[c]) + 1
      BY <1>1, Received
    <3> QED BY <1>1, <3>1
  <2> QED BY <2>1, Received
<1>3. \A r \in Runs : gaveUp[r] => gaveUp'[r]
  <2>1. CASE StopReturn
    BY <2>1, GaveUpIs
  <2>2. CASE CreateChannel \/ Start \/ StopCall
    BY <2>2 DEF CreateChannel, Start, StopCall
  <2>3. CASE ~(CreateChannel \/ Start \/ StopCall \/ StopReturn)
    BY <2>3, Beside DEF owner
  <2> QED BY <2>1, <2>2, <2>3
<1>4. CASE j \in 1 .. Len(sent[c]) /\ sent'[c][j] = sent[c][j]
  BY <1>2, <1>3, <1>4 DEF SilentAfterStopped
<1>5. CASE StopReturn /\ sent'[c][j] = [kind |-> "Stopped", run |-> handle]
  <2>1. running
    BY <1>5 DEF StopReturn, HandleInv
  <2>2. sent[c][i].run < handle
    BY <1>2, <2>1 DEF StoppedInv
  <2> QED BY <1>2, <1>5, <2>2 DEF SchedulerTypeOK
<1>6. ASSUME NEW r \in Runs, Alive(r), UNCHANGED owner,
             sent'[c][j] = [kind |-> "news", run |-> r]
      PROVE  sent'[c][j].run > sent'[c][i].run \/ gaveUp'[sent'[c][j].run]
  <2>1. CASE gaveUp[r]
    BY <1>3, <1>6, <2>1
  <2>2. CASE ~gaveUp[r]
    <3>1. running /\ handle = r
      BY <1>6, <2>2 DEF OneRun
    <3>2. sent[c][i].run < handle
      BY <1>2, <3>1 DEF StoppedInv
    <3> QED BY <1>2, <1>6, <3>1, <3>2 DEF SchedulerTypeOK
  <2> QED BY <2>1, <2>2
<1>7. \/ j \in 1 .. Len(sent[c]) /\ sent'[c][j] = sent[c][j]
      \/ StopReturn /\ sent'[c][j] = [kind |-> "Stopped", run |-> handle]
      \/ \E r \in Runs : /\ Alive(r) /\ UNCHANGED owner
                         /\ sent'[c][j] = [kind |-> "news", run |-> r]
  BY Received
<1> QED BY <1>4, <1>5, <1>6, <1>7

-----------------------------------------------------------------------------

LEMMA SchedInvariance == SchedulerSpec => []SchedInv
<1>1. SchedInv /\ [SchedulerNext]_schedulerVars => SchedInv'
  BY SchedTypeStep, HandleStep, StoppedStep, SilentStep DEF SchedInv
<1> QED BY InitSchedInv, <1>1, PTL DEF SchedulerSpec

\* stop() awaits the run that start() spawned last, a run is polled only between
\* its spawn and its drop, and every notification is of a run that was started.
THEOREM SchedulerTypeCorrect == SchedulerSpec => []SchedulerTypeOK
<1>1. SchedInv => SchedulerTypeOK
  BY DEF SchedInv
<1> QED BY SchedInvariance, <1>1, PTL

\* However often start() and stop() are called and however they overlap a check,
\* no run is left that the scheduler could not stop, but for one that stop() ran
\* out of time for.
THEOREM NeverTwoRuns == SchedulerSpec => []OneRun
<1>1. SchedInv => OneRun
  BY DEF SchedInv
<1> QED BY SchedInvariance, <1>1, PTL

\* After Stopped a channel carries nothing more of the run that was stopped, nor
\* of one before it, unless stop() gave up on that run.
THEOREM StoppedIsLast == SchedulerSpec => []SilentAfterStopped
<1>1. SchedInv => SilentAfterStopped
  BY DEF SchedInv
<1> QED BY SchedInvariance, <1>1, PTL

-----------------------------------------------------------------------------
(* The language server.                                                     *)

\* The handlers that have not touched the document yet.
Unread == {h \in handlers : h.pc = "documents"}

\* Each notification is handled once, writes its document once at most and starts one task at
\* most.
CountInv ==
    /\ IsFiniteSet(handlers)
    /\ scheduled + Cardinality(handlers) <= notified
    /\ \A u \in Uris : writes[u] + Cardinality(Unread) <= notified

\* Nobody has read, nor shows, a write that was not made; the newest task of a document is of
\* that document.
ReadInv ==
    /\ \A u \in Uris : shown[u] <= writes[u] /\ pending[u] <= scheduled
    /\ \A h \in handlers : h.read <= writes[h.uri]
    /\ \A t \in tasks : t.read <= writes[t.uri] /\ t.n <= scheduled
    /\ \A t \in tasks, u \in Uris : t.n = pending[u] => t.uri = u

\* A publication to come that is going to be of the newest write of u: of a handler that will
\* start a task or takes the diagnostics of a closed document down, or of a task that nobody
\* aborted.
Owed(u) ==
    \/ \E h \in handlers : /\ h.uri = u /\ h.pc = "publish"
                           /\ h.kind # "close" \/ h.read = writes[u]
    \/ \E t \in tasks : /\ t.uri = u /\ ~ t.aborted
                        /\ t.pc = "sleep" \/ t.read = writes[u]

AnswerOwed == \A u \in Uris : shown[u] = writes[u] \/ overtaken[u] \/ Owed(u)

LspInv == LspTypeOK /\ CountInv /\ ReadInv /\ AnswerOwed

LEMMA LspInitInv == LspInit => LspInv
<1> SUFFICES ASSUME LspInit PROVE LspInv
  OBVIOUS
<1> USE LspAssumption DEF LspInit
<1>1. IsFiniteSet(handlers) /\ Cardinality(handlers) = 0 /\ Unread = {}
  BY FS_EmptySet DEF Unread
<1>2. documents \in [Uris -> BOOLEAN] /\ overtaken \in [Uris -> BOOLEAN]
  BY Zenon
<1>3. LspTypeOK
  BY <1>1, <1>2 DEF LspTypeOK
<1>4. CountInv
  BY <1>1, FS_EmptySet DEF CountInv
<1> QED BY <1>3, <1>4 DEF LspInv, ReadInv, AnswerOwed

\* What removing a member, putting another in its place and adding one do to a cardinality.
LEMMA Without ==
    ASSUME NEW S, IsFiniteSet(S), NEW x \in S
    PROVE  /\ IsFiniteSet(S \ {x}) /\ Cardinality(S \ {x}) = Cardinality(S) - 1
           /\ Cardinality(S) \in Nat /\ Cardinality(S \ {x}) \in Nat
BY FS_RemoveElement, FS_CardinalityType

LEMMA With ==
    ASSUME NEW S, IsFiniteSet(S), NEW y
    PROVE  /\ IsFiniteSet(S \cup {y}) /\ Cardinality(S \cup {y}) <= Cardinality(S) + 1
           /\ Cardinality(S) \in Nat /\ Cardinality(S \cup {y}) \in Nat
BY FS_AddElement, FS_CardinalityType

LEMMA Instead ==
    ASSUME NEW S, IsFiniteSet(S), NEW x \in S, NEW y
    PROVE  LET T == (S \ {x}) \cup {y} IN
           IsFiniteSet(T) /\ Cardinality(T) <= Cardinality(S)
           /\ Cardinality(S) \in Nat /\ Cardinality(T) \in Nat
<1> DEFINE R == S \ {x}
<1>1. IsFiniteSet(R) /\ Cardinality(R) = Cardinality(S) - 1 /\ Cardinality(S) \in Nat
  BY Without
<1> HIDE DEF R
<1>2. /\ IsFiniteSet(R \cup {y}) /\ Cardinality(R \cup {y}) <= Cardinality(R) + 1
      /\ Cardinality(R \cup {y}) \in Nat
  BY <1>1, With
<1>3. Cardinality(R \cup {y}) <= Cardinality(S)
  BY <1>1, <1>2
<1> QED BY <1>1, <1>2, <1>3 DEF R

\* A notification arrives.
LEMMA NotifyStep ==
    ASSUME LspInv, NEW u \in Uris, NEW kind \in {"open", "change", "empty", "close"}, Notify(u, kind)
    PROVE  LspInv'
<1> DEFINE h == [n |-> notified + 1, uri |-> u, kind |-> kind, pc |-> "documents", read |-> 0]
<1>1. /\ handlers' = handlers \cup {h} /\ notified < MaxSent /\ notified' = notified + 1
      /\ Cardinality(handlers) < Concurrent
      /\ UNCHANGED <<documents, writes, pending, tasks, shown, overtaken, scheduled>>
  BY DEF Notify
<1>2. opened' \subseteq Uris
  BY DEF Notify, LspInv, LspTypeOK
<1>3. h \in Handlers /\ h.pc = "documents" /\ h.read = 0 /\ h.uri = u
  BY <1>1, LspAssumption DEF Handlers, LspInv, LspTypeOK
<1>4. Unread' = Unread \cup {h}
  BY <1>1, <1>3 DEF Unread
<1> HIDE DEF h
<1>5. /\ IsFiniteSet(handlers') /\ Cardinality(handlers') <= Cardinality(handlers) + 1
      /\ Cardinality(handlers) \in Nat /\ Cardinality(handlers') \in Nat
  BY <1>1, With DEF LspInv, CountInv
<1>6. /\ Cardinality(Unread') <= Cardinality(Unread) + 1
      /\ Cardinality(Unread) \in Nat /\ Cardinality(Unread') \in Nat
  <2>1. IsFiniteSet(Unread)
    BY FS_Subset DEF LspInv, CountInv, Unread
  <2> HIDE DEF Unread
  <2> QED BY <2>1, <1>4, With
<1>7. LspTypeOK'
  BY <1>1, <1>2, <1>3, <1>5, LspAssumption DEF LspInv, LspTypeOK
<1>8. CountInv'
  <2> HIDE DEF Unread
  <2> QED BY <1>1, <1>5, <1>6 DEF LspInv, LspTypeOK, CountInv
<1>9. ReadInv'
  BY <1>1, <1>3 DEF LspInv, LspTypeOK, ReadInv
<1>10. AnswerOwed'
  BY <1>1 DEF LspInv, AnswerOwed, Owed
<1> QED BY <1>7, <1>8, <1>9, <1>10 DEF LspInv

\* A handler changes the document, or leaves it and goes on to the diagnostics.
LEMMA DocumentsStep ==
    ASSUME LspInv, NEW h \in handlers, Documents(h) PROVE LspInv'
<1> DEFINE u == h.uri
           w == IF h.kind = "empty" THEN writes[u] ELSE writes[u] + 1
           g == [h EXCEPT !.pc = "publish", !.read = w]
<1>0. h \in Handlers /\ h.pc = "documents" /\ u \in Uris /\ notified \in 0..MaxSent /\ writes[u] \in Nat
      /\ writes \in [Uris -> 0..MaxSent]
  BY LspAssumption DEF Documents, LspInv, LspTypeOK, Handlers
<1>1. /\ UNCHANGED <<opened, pending, tasks, shown, overtaken, notified, scheduled>>
      /\ writes' = [writes EXCEPT ![u] = w]
      /\ documents' \in [Uris -> BOOLEAN]
      /\ handlers' = (handlers \ {h}) \cup {[h EXCEPT !.pc = "publish", !.read = writes'[u]]}
  BY DEF Documents, LspInv, LspTypeOK
<1>2. handlers' = (handlers \ {h}) \cup {g} /\ writes'[u] = w
      /\ \A v \in Uris \ {u} : writes'[v] = writes[v]
  BY <1>0, <1>1
<1>3. IsFiniteSet(Unread) /\ h \in Unread
  BY <1>0, FS_Subset DEF LspInv, CountInv, Unread
<1>4. g.pc = "publish" /\ g.uri = u /\ g.kind = h.kind /\ g.read = w /\ g.n = h.n
  BY <1>0 DEF Handlers
<1>5. Unread' = Unread \ {h}
  BY <1>2, <1>4 DEF Unread
<1>6. /\ Cardinality(Unread') = Cardinality(Unread) - 1
      /\ Cardinality(Unread) \in Nat /\ Cardinality(Unread') \in Nat
  <2> HIDE DEF Unread
  <2> QED BY <1>3, <1>5, Without
<1>7. w \in 0..MaxSent /\ w \in {writes[u], writes[u] + 1} /\ w + Cardinality(Unread') <= notified
  <2>1. writes[u] + Cardinality(Unread) <= notified
    BY <1>0 DEF LspInv, CountInv
  <2> HIDE DEF Unread
  <2> QED BY <1>0, <1>6, <2>1, LspAssumption
<1>8. g \in Handlers
  <2> HIDE DEF w
  <2> QED BY <1>0, <1>7 DEF Handlers
<1> HIDE DEF g, w
<1>9. /\ IsFiniteSet(handlers') /\ Cardinality(handlers') <= Cardinality(handlers)
      /\ Cardinality(handlers) \in Nat /\ Cardinality(handlers') \in Nat
  BY <1>2, Instead DEF LspInv, CountInv
<1>10. LspTypeOK'
  <2>1. writes' \in [Uris -> 0..MaxSent]
    BY <1>0, <1>1, <1>7
  <2>2. handlers' \subseteq Handlers /\ Cardinality(handlers') <= Concurrent
    BY <1>2, <1>8, <1>9, LspAssumption DEF LspInv, LspTypeOK
  <2> QED BY <1>1, <2>1, <2>2 DEF LspInv, LspTypeOK
<1>11. CountInv'
  <2>1. scheduled' + Cardinality(handlers') <= notified'
    BY <1>1, <1>9 DEF LspInv, LspTypeOK, CountInv
  <2>2. ASSUME NEW v \in Uris PROVE writes'[v] + Cardinality(Unread') <= notified'
    <3>1. writes[v] + Cardinality(Unread) <= notified /\ writes[v] \in Nat
      BY <1>0 DEF LspInv, CountInv
    <3> HIDE DEF Unread
    <3> QED BY <1>0, <1>1, <1>2, <1>6, <1>7, <3>1
  <2> QED BY <1>9, <2>1, <2>2 DEF CountInv
<1>12. ReadInv'
  <2>1. \A v \in Uris : writes[v] <= writes'[v] /\ writes[v] \in Nat /\ writes'[v] \in Nat
    BY <1>0, <1>1, <1>2, <1>7
  <2>2. \A f \in handlers' : f.read <= writes'[f.uri]
    <3>1. ASSUME NEW f \in handlers PROVE f.read <= writes'[f.uri]
      BY <2>1 DEF LspInv, LspTypeOK, ReadInv, Handlers
    <3> QED BY <1>2, <1>4, <1>7, <1>0, <3>1
  <2>3. \A t \in tasks' : t.read <= writes'[t.uri]
    BY <1>1, <2>1 DEF LspInv, LspTypeOK, ReadInv, Tasks
  <2>4. \A v \in Uris : shown'[v] <= writes'[v]
    BY <1>1, <2>1 DEF LspInv, LspTypeOK, ReadInv
  <2> QED BY <1>1, <2>2, <2>3, <2>4 DEF LspInv, ReadInv
<1>13. AnswerOwed'
  <2>1. Owed(u)'
    BY <1>2, <1>4 DEF Owed
  <2>2. ASSUME NEW v \in Uris, v # u PROVE shown'[v] = writes'[v] \/ overtaken'[v] \/ Owed(v)'
    <3>1. \A f \in handlers : f.uri = v => f \in handlers'
      BY <1>2, <2>2
    <3> QED BY <1>1, <1>2, <2>2, <3>1 DEF LspInv, AnswerOwed, Owed
  <2> QED BY <2>1, <2>2 DEF AnswerOwed
<1> QED BY <1>10, <1>11, <1>12, <1>13 DEF LspInv

\* A handler is done, and its document as it was.
LEMMA HandlerDone ==
    ASSUME LspInv, NEW h \in handlers, h.pc = "publish", handlers' = handlers \ {h},
           UNCHANGED <<opened, documents, writes, notified>>, scheduled' \in {scheduled, scheduled + 1}
    PROVE  /\ CountInv' /\ handlers' \subseteq Handlers /\ Cardinality(handlers') <= Concurrent
           /\ scheduled' \in 0..MaxSent
<1>1. IsFiniteSet(handlers) /\ scheduled \in Nat /\ notified \in 0..MaxSent
      /\ scheduled + Cardinality(handlers) <= notified /\ Cardinality(handlers) <= Concurrent
  BY LspAssumption DEF LspInv, LspTypeOK, CountInv
<1>2. /\ IsFiniteSet(handlers') /\ Cardinality(handlers') = Cardinality(handlers) - 1
      /\ Cardinality(handlers) \in Nat /\ Cardinality(handlers') \in Nat
  BY <1>1, Without
<1>3. Unread' = Unread
  BY DEF Unread
<1>4. scheduled' + Cardinality(handlers') <= notified
  BY <1>1, <1>2
<1>5. scheduled' \in 0..MaxSent /\ Cardinality(handlers') <= Concurrent
  BY <1>1, <1>2, <1>4, LspAssumption
<1>6. handlers' \subseteq Handlers
  BY DEF LspInv, LspTypeOK
<1> HIDE DEF Unread
<1> QED BY <1>2, <1>3, <1>4, <1>5, <1>6 DEF LspInv, CountInv

LEMMA ScheduleStep ==
    ASSUME LspInv, NEW h \in handlers, Schedule(h) PROVE LspInv'
<1> DEFINE u == h.uri
           n == scheduled + 1
           t == [n |-> n, uri |-> u, pc |-> "sleep", read |-> 0, aborted |-> FALSE]
<1>1. /\ h.pc = "publish" /\ h.kind # "close" /\ scheduled' = n
      /\ handlers' = handlers \ {h} /\ tasks' = Aborted(u) \cup {t}
      /\ pending' = [pending EXCEPT ![u] = n]
      /\ UNCHANGED <<opened, documents, writes, shown, overtaken, notified>>
  BY DEF Schedule
<1>2. /\ CountInv' /\ handlers' \subseteq Handlers /\ Cardinality(handlers') <= Concurrent
      /\ n \in 1..MaxSent
  <2>1. scheduled \in Nat
    BY DEF LspInv, LspTypeOK
  <2>2. scheduled' \in {scheduled, scheduled + 1}
    BY <1>1
  <2>3. UNCHANGED <<opened, documents, writes, notified>> /\ handlers' = handlers \ {h}
    BY <1>1
  <2>4. /\ CountInv' /\ handlers' \subseteq Handlers /\ Cardinality(handlers') <= Concurrent
        /\ scheduled' \in 0..MaxSent
    BY <1>1, <2>2, <2>3, HandlerDone
  <2> QED BY <1>1, <2>1, <2>4
<1>3. u \in Uris /\ pending \in [Uris -> 0..MaxSent] /\ writes \in [Uris -> 0..MaxSent]
  BY DEF LspInv, LspTypeOK, Handlers
<1>4. t \in Tasks /\ t.n = n /\ t.uri = u /\ t.pc = "sleep" /\ t.read = 0 /\ ~ t.aborted
  BY <1>2, <1>3, LspAssumption DEF Tasks
<1> HIDE DEF t
\* Each task that is left is one of before, but for the flag.
<1>5. \A s \in Aborted(u) : /\ s \in Tasks
                            /\ \E r \in tasks : s.n = r.n /\ s.uri = r.uri /\ s.read = r.read
  <2>1. \A r \in tasks : r \in Tasks
    BY DEF LspInv, LspTypeOK
  <2> QED BY <2>1 DEF Aborted, Tasks
<1>6. LspTypeOK'
  <2>1. tasks' \subseteq Tasks
    BY <1>1, <1>4, <1>5
  <2>2. pending' \in [Uris -> 0..MaxSent] /\ scheduled' \in 0..MaxSent
    BY <1>1, <1>2, <1>3
  <2> QED BY <1>1, <1>2, <2>1, <2>2 DEF LspInv, LspTypeOK
<1>7. ReadInv'
  <2>1. scheduled \in Nat /\ \A v \in Uris : pending'[v] \in Nat /\ pending'[v] <= n
    BY <1>1, <1>2, <1>3 DEF LspInv, LspTypeOK, ReadInv
  <2>2. ASSUME NEW s \in tasks'
        PROVE  /\ s.read <= writes[s.uri] /\ s.n <= n
               /\ \A v \in Uris : s.n = pending'[v] => s.uri = v
    <3>1. CASE s = t
      <4>1. ASSUME NEW v \in Uris, v # u PROVE pending'[v] # n
        BY <1>1, <1>3, <2>1, <4>1 DEF LspInv, ReadInv
      <4> QED BY <1>3, <1>4, <2>1, <3>1, <4>1, LspAssumption
    <3>2. CASE s \in Aborted(u)
      <4>1. PICK r \in tasks : s.n = r.n /\ s.uri = r.uri /\ s.read = r.read
        BY <1>5, <3>2
      <4>2. r.n \in Nat /\ r.read <= writes[r.uri] /\ r.n <= scheduled
            /\ \A v \in Uris : r.n = pending[v] => r.uri = v
        BY DEF LspInv, LspTypeOK, ReadInv, Tasks
      <4> QED BY <1>1, <1>3, <2>1, <4>1, <4>2
    <3> QED BY <1>1, <3>1, <3>2
  <2> QED BY <1>1, <2>1, <2>2 DEF LspInv, ReadInv
<1>8. AnswerOwed'
  <2>1. Owed(u)'
    BY <1>1, <1>4 DEF Owed
  <2>2. ASSUME NEW v \in Uris, v # u PROVE shown'[v] = writes'[v] \/ overtaken'[v] \/ Owed(v)'
    <3>1. \A f \in handlers : f.uri = v => f \in handlers'
      BY <1>1, <2>2
    <3>2. ASSUME NEW s \in tasks, s.uri = v PROVE s \in tasks'
      <4>1. s.n # pending[u]
        BY <1>3, <2>2, <3>2 DEF LspInv, ReadInv
      <4> QED BY <1>1, <4>1 DEF Aborted
    <3> QED BY <1>1, <2>2, <3>1, <3>2 DEF LspInv, AnswerOwed, Owed
  <2> QED BY <2>1, <2>2 DEF AnswerOwed
<1> QED BY <1>2, <1>6, <1>7, <1>8 DEF LspInv

\* A publication replaces what is shown; if that was newer, it is lost for good.
LEMMA ShowsIs ==
    ASSUME LspInv, NEW u \in Uris, NEW w \in 0..MaxSent, w <= writes[u], Shows(u, w)
    PROVE  /\ shown' \in [Uris -> 0..MaxSent] /\ overtaken' \in [Uris -> BOOLEAN]
           /\ \A v \in Uris : shown'[v] <= writes[v]
           /\ \A v \in Uris : overtaken[v] => overtaken'[v]
           /\ \A v \in Uris \ {u} : shown'[v] = shown[v]
           /\ w = writes[u] => shown'[u] = writes[u]
           /\ w < writes[u] /\ shown[u] = writes[u] => overtaken'[u]
<1>1. shown \in [Uris -> 0..MaxSent] /\ overtaken \in [Uris -> BOOLEAN]
      /\ \A v \in Uris : shown[v] <= writes[v]
  BY DEF LspInv, LspTypeOK, ReadInv
<1>2. shown' = [shown EXCEPT ![u] = w] /\ shown' \in [Uris -> 0..MaxSent]
  BY <1>1 DEF Shows
<1>3. overtaken' = [overtaken EXCEPT ![u] = overtaken[u] \/ w < shown[u]]
  BY DEF Shows
<1>4. overtaken' \in [Uris -> BOOLEAN] /\ (overtaken[u] \/ w < shown[u] => overtaken'[u])
      /\ \A v \in Uris \ {u} : overtaken'[v] = overtaken[v]
  <2> DEFINE b == overtaken[u] \/ w < shown[u]
  <2>1. b \in BOOLEAN
    OBVIOUS
  <2> HIDE DEF b
  <2>2. overtaken' = [overtaken EXCEPT ![u] = b]
    BY <1>3 DEF b
  <2>3. overtaken' \in [Uris -> BOOLEAN] /\ overtaken'[u] = b
        /\ \A v \in Uris \ {u} : overtaken'[v] = overtaken[v]
    BY <1>1, <2>1, <2>2
  <2> QED BY <2>3 DEF b
<1> QED BY <1>1, <1>2, <1>4

LEMMA ClearStep ==
    ASSUME LspInv, NEW h \in handlers, Clear(h) PROVE LspInv'
<1> DEFINE u == h.uri
<1>1. /\ h.pc = "publish" /\ h.kind = "close" /\ Shows(u, h.read) /\ handlers' = handlers \ {h}
      /\ UNCHANGED <<opened, documents, writes, pending, tasks, notified, scheduled>>
  BY DEF Clear
<1>2. /\ CountInv' /\ handlers' \subseteq Handlers /\ Cardinality(handlers') <= Concurrent
      /\ scheduled' \in 0..MaxSent
  BY <1>1, HandlerDone
<1>3. u \in Uris /\ h.read \in 0..MaxSent /\ h.read <= writes[u]
  BY DEF LspInv, LspTypeOK, ReadInv, Handlers
<1>4. /\ shown' \in [Uris -> 0..MaxSent] /\ overtaken' \in [Uris -> BOOLEAN]
      /\ \A v \in Uris : shown'[v] <= writes[v]
      /\ \A v \in Uris : overtaken[v] => overtaken'[v]
      /\ \A v \in Uris \ {u} : shown'[v] = shown[v]
      /\ h.read = writes[u] => shown'[u] = writes[u]
      /\ h.read < writes[u] /\ shown[u] = writes[u] => overtaken'[u]
  <2> HIDE DEF u
  <2> QED BY <1>1, <1>3, ShowsIs
<1>5. LspTypeOK'
  BY <1>1, <1>2, <1>4 DEF LspInv, LspTypeOK
<1>6. ReadInv'
  BY <1>1, <1>4 DEF LspInv, ReadInv
<1>7. AnswerOwed'
  <2> SUFFICES ASSUME NEW v \in Uris PROVE shown'[v] = writes[v] \/ overtaken'[v] \/ Owed(v)'
    BY <1>1 DEF AnswerOwed
  <2>1. CASE v = u /\ h.read = writes[u]
    BY <1>4, <2>1
  <2>2. CASE v # u \/ h.read # writes[u]
    <3>1. Owed(v) => Owed(v)'
      BY <1>1, <2>2 DEF Owed
    <3>2. h.read \in Nat /\ writes[u] \in Nat
      BY <1>3, LspAssumption DEF LspInv, LspTypeOK
    <3> QED BY <1>3, <1>4, <2>2, <3>1, <3>2 DEF LspInv, AnswerOwed
  <2> QED BY <2>1, <2>2
<1> QED BY <1>2, <1>5, <1>6, <1>7 DEF LspInv

LEMMA ReadDocumentStep ==
    ASSUME LspInv, NEW t \in tasks, ReadDocument(t) PROVE LspInv'
<1> DEFINE s == [t EXCEPT !.pc = "scan", !.read = writes[t.uri]]
<1>1. /\ tasks' = (tasks \ {t}) \cup {s}
      /\ UNCHANGED <<opened, handlers, documents, writes, pending, shown, overtaken, notified, scheduled>>
  BY DEF ReadDocument
<1>2. t \in Tasks /\ writes[t.uri] \in 0..MaxSent
  BY DEF LspInv, LspTypeOK, Tasks
<1>3. /\ s \in Tasks /\ s.uri = t.uri /\ s.n = t.n /\ s.pc = "scan" /\ s.aborted = t.aborted
      /\ s.read = writes[t.uri]
  BY <1>2 DEF Tasks
<1> HIDE DEF s
<1>4. LspTypeOK' /\ CountInv'
  BY <1>1, <1>3 DEF LspInv, LspTypeOK, CountInv, Unread
<1>5. ReadInv'
  BY <1>1, <1>2, <1>3, LspAssumption DEF LspInv, ReadInv
<1>6. AnswerOwed'
  <2>1. \A u \in Uris : Owed(u) => Owed(u)'
    BY <1>1, <1>3 DEF Owed
  <2> QED BY <1>1, <2>1 DEF LspInv, AnswerOwed
<1> QED BY <1>4, <1>5, <1>6 DEF LspInv

LEMMA PublishStep ==
    ASSUME LspInv, NEW t \in tasks, Publish(t) PROVE LspInv'
<1> DEFINE u == t.uri
<1>1. /\ t.pc = "scan" /\ Shows(u, t.read) /\ tasks' = tasks \ {t}
      /\ UNCHANGED <<opened, handlers, documents, writes, pending, notified, scheduled>>
  BY DEF Publish
<1>2. u \in Uris /\ t.read \in 0..MaxSent /\ t.read <= writes[u] /\ writes[u] \in 0..MaxSent
  BY DEF LspInv, LspTypeOK, ReadInv, Tasks
<1>3. /\ shown' \in [Uris -> 0..MaxSent] /\ overtaken' \in [Uris -> BOOLEAN]
      /\ \A v \in Uris : shown'[v] <= writes[v]
      /\ \A v \in Uris : overtaken[v] => overtaken'[v]
      /\ \A v \in Uris \ {u} : shown'[v] = shown[v]
      /\ t.read = writes[u] => shown'[u] = writes[u]
      /\ t.read < writes[u] /\ shown[u] = writes[u] => overtaken'[u]
  <2> HIDE DEF u
  <2> QED BY <1>1, <1>2, ShowsIs
<1>4. LspTypeOK' /\ CountInv'
  BY <1>1, <1>3 DEF LspInv, LspTypeOK, CountInv, Unread
<1>5. ReadInv'
  BY <1>1, <1>3 DEF LspInv, ReadInv
<1>6. AnswerOwed'
  <2> SUFFICES ASSUME NEW v \in Uris PROVE shown'[v] = writes[v] \/ overtaken'[v] \/ Owed(v)'
    BY <1>1 DEF AnswerOwed
  <2>1. CASE v = u /\ t.read = writes[u]
    BY <1>3, <2>1
  <2>2. CASE v # u \/ t.read # writes[u]
    <3>1. Owed(v) => Owed(v)'
      BY <1>1, <2>2 DEF Owed
    <3> QED BY <1>2, <1>3, <2>2, <3>1, LspAssumption DEF LspInv, AnswerOwed
  <2> QED BY <2>1, <2>2
<1> QED BY <1>4, <1>5, <1>6 DEF LspInv

LEMMA DropStep ==
    ASSUME LspInv, NEW t \in tasks, Drop(t) PROVE LspInv'
<1>1. /\ t.aborted /\ tasks' = tasks \ {t}
      /\ UNCHANGED <<opened, handlers, documents, writes, pending, shown, overtaken, notified, scheduled>>
  BY DEF Drop
<1>2. LspTypeOK' /\ CountInv' /\ ReadInv'
  BY <1>1 DEF LspInv, LspTypeOK, CountInv, ReadInv, Unread
<1>3. AnswerOwed'
  <2>1. \A u \in Uris : Owed(u) => Owed(u)'
    BY <1>1 DEF Owed
  <2> QED BY <1>1, <2>1 DEF LspInv, AnswerOwed
<1> QED BY <1>2, <1>3 DEF LspInv

LEMMA LspInvariance == LspInit /\ [][LspNext]_lspVars => []LspInv
<1>1. LspInv /\ [LspNext]_lspVars => LspInv'
  <2> SUFFICES ASSUME LspInv, [LspNext]_lspVars PROVE LspInv'
    OBVIOUS
  <2>1. CASE UNCHANGED lspVars
    BY <2>1 DEF lspVars, LspInv, LspTypeOK, CountInv, ReadInv, AnswerOwed, Owed, Unread
  <2>2. CASE Edit
    BY <2>2, NotifyStep DEF Edit
  <2>3. CASE Handle
    BY <2>3, DocumentsStep, ScheduleStep, ClearStep DEF Handle
  <2>4. CASE Work
    BY <2>4, ReadDocumentStep, PublishStep, DropStep DEF Work
  <2> QED BY <2>1, <2>2, <2>3, <2>4 DEF LspNext
<1> QED BY <1>1, LspInitInv, PTL

\* The types of the language server: no more notifications are handled at once than tower-lsp
\* allows, and each started at most one task.
THEOREM LspTypeCorrect == LspSpec => []LspTypeOK
<1>1. LspInv => LspTypeOK
  BY DEF LspInv
<1> QED BY <1>1, LspInvariance, PTL DEF LspSpec

\* However notifications and tasks overlap and abort each other, no document is forgotten: the
\* editor shows the diagnostics of the newest write, or was shown older ones after newer ones,
\* or somebody is going to publish those of the newest write.  In particular, when no handler
\* and no task is left, what is shown is of the newest write unless it was overtaken.
THEOREM NoDocumentForgotten ==
    LspSpec => [](\A u \in Uris : /\ shown[u] = writes[u] \/ overtaken[u] \/ Owed(u)
                                  /\ handlers = {} /\ tasks = {} => shown[u] = writes[u] \/ overtaken[u])
<1> DEFINE Answered == \A u \in Uris :
             /\ shown[u] = writes[u] \/ overtaken[u] \/ Owed(u)
             /\ handlers = {} /\ tasks = {} => shown[u] = writes[u] \/ overtaken[u]
<1>1. LspInv => Answered
  BY DEF LspInv, AnswerOwed, Owed
<1> QED BY <1>1, LspInvariance, PTL DEF LspSpec

-----------------------------------------------------------------------------
(* The watcher of session files.                                            *)

Queued(p) == \E i \in 1..Len(queue) : queue[i] = p

\* A half line is not the last that fits into the bound; a thread that ended has no subscriber.
HalfInv ==
    /\ \A p \in Paths : half[p] => messages[p] < MaxMessages
    /\ subscribed => watcher # "ended"

\* What was counted as sent of a file was sent or is being sent.
EmittedInv ==
    /\ outgoing # <<>> => outgoing[2] = emitted[outgoing[1]]
    /\ subscribed => \A p \in Paths : emitted[p] = delivered[p] \/ outgoing = <<p, emitted[p]>>

\* A file with more messages than were sent has an event in the queue or is waiting to rest.
PendingInv ==
    subscribed => \A p \in Paths :
        ~ half[p] /\ messages[p] > emitted[p] => Queued(p) \/ clock[p] <= Debounce

WatchInv == WatchTypeOK /\ HalfInv /\ EmittedInv /\ PendingInv

LEMMA WatchInitInv == WatchInit => WatchInv
<1> SUFFICES ASSUME WatchInit PROVE WatchInv
  OBVIOUS
<1> USE WatchAssumption DEF WatchInit
<1>1. WatchTypeOK
  <2>1. half \in [Paths -> BOOLEAN] /\ subscribed \in BOOLEAN
    BY Zenon
  <2>2. clock \in [Paths -> 0..NotPending]
    BY DEF NotPending
  <2> QED BY <2>1, <2>2 DEF WatchTypeOK
<1>2. HalfInv /\ EmittedInv /\ PendingInv
  BY DEF HalfInv, EmittedInv, PendingInv
<1> QED BY <1>1, <1>2 DEF WatchInv

\* A write is one event more, and every event of before is still there.
LEMMA WriteStep ==
    ASSUME WatchInv, NEW p \in Paths, NEW n \in 0..MaxMessages, NEW torn \in BOOLEAN,
           torn => n < MaxMessages, Write(p, n, torn)
    PROVE  WatchInv'
<1>1. /\ writesMade < MaxWrites /\ writesMade' = writesMade + 1
      /\ messages' = [messages EXCEPT ![p] = n] /\ half' = [half EXCEPT ![p] = torn]
      /\ queue' = IF watcher = "ended" THEN queue ELSE Append(queue, p)
      /\ UNCHANGED <<clock, emitted, watcher, ready, outgoing, channel, subscribed, delivered>>
  BY DEF Write
<1>2. queue \in Seq(Paths) /\ messages \in [Paths -> 0..MaxMessages] /\ half \in [Paths -> BOOLEAN]
      /\ writesMade \in 0..MaxWrites
  BY DEF WatchInv, WatchTypeOK
<1>3. queue' \in Seq(Paths)
  BY <1>1, <1>2
<1>4. WatchTypeOK'
  <2>1. messages' \in [Paths -> 0..MaxMessages] /\ half' \in [Paths -> BOOLEAN]
    BY <1>1, <1>2
  <2>2. writesMade' \in 0..MaxWrites
    BY <1>1, <1>2, WatchAssumption
  <2> QED BY <1>1, <1>3, <2>1, <2>2 DEF WatchInv, WatchTypeOK
<1>5. HalfInv'
  BY <1>1, <1>2 DEF WatchInv, HalfInv
<1>6. EmittedInv'
  BY <1>1 DEF WatchInv, EmittedInv
<1>7. PendingInv'
  <2> SUFFICES ASSUME subscribed, NEW q \in Paths, ~ half'[q], messages'[q] > emitted[q]
               PROVE  Queued(q)' \/ clock[q] <= Debounce
    BY <1>1 DEF PendingInv
  <2>1. queue' = Append(queue, p)
    BY <1>1 DEF WatchInv, HalfInv
  <2>2. Len(queue) \in Nat /\ Len(queue') = Len(queue) + 1 /\ queue'[Len(queue) + 1] = p
        /\ \A i \in 1..Len(queue) : queue'[i] = queue[i]
    BY <1>2, <2>1
  <2>3. CASE q = p
    BY <2>2, <2>3 DEF Queued
  <2>4. CASE q # p
    <3>1. Queued(q) \/ clock[q] <= Debounce
      BY <1>1, <1>2, <2>4 DEF WatchInv, PendingInv
    <3>2. Queued(q) => Queued(q)'
      BY <2>2 DEF Queued
    <3> QED BY <3>1, <3>2
  <2> QED BY <2>3, <2>4
<1> QED BY <1>4, <1>5, <1>6, <1>7 DEF WatchInv

LEMMA PollStep ==
    ASSUME WatchInv, Poll PROVE WatchInv'
<1>1. /\ watcher = "poll" /\ subscribed /\ ready' = Due(clock')
      /\ watcher' = IF ready' = {} THEN "poll" ELSE "flush"
      /\ UNCHANGED <<fileVars, emitted, outgoing, channel, subscribed, delivered>>
  BY DEF Poll
<1>2. /\ queue \in Seq(Paths) /\ clock \in [Paths -> 0..NotPending] /\ outgoing = <<>>
  BY <1>1 DEF WatchInv, WatchTypeOK
<1>3. CASE queue # <<>> /\ clock' = Noted(Head(queue)) /\ queue' = Tail(queue)
  <2> DEFINE p == Head(queue)
  <2>1. p \in Paths /\ p = queue[1] /\ queue' \in Seq(Paths) /\ Len(queue) \in Nat
        /\ Len(queue') = Len(queue) - 1 /\ \A i \in 1..Len(queue') : queue'[i] = queue[i + 1]
    BY <1>2, <1>3
  <2>2. clock' = [clock EXCEPT ![p] = 0] /\ clock' \in [Paths -> 0..NotPending]
    BY <1>2, <1>3, <2>1, WatchAssumption DEF Noted, NotPending
  <2> HIDE DEF p
  <2>3. WatchTypeOK'
    BY <1>1, <1>2, <2>1, <2>2 DEF WatchInv, WatchTypeOK, fileVars, Due
  <2>4. PendingInv'
    <3> SUFFICES ASSUME NEW q \in Paths, ~ half[q], messages[q] > emitted[q]
                 PROVE  Queued(q)' \/ clock'[q] <= Debounce
      BY <1>1 DEF PendingInv, fileVars
    <3>1. CASE q = p
      BY <1>2, <2>2, <3>1, WatchAssumption
    <3>2. CASE q # p
      <4>1. Queued(q) \/ clock[q] <= Debounce
        BY <1>1 DEF WatchInv, PendingInv
      <4>2. CASE Queued(q)
        <5>1. PICK i \in 1..Len(queue) : queue[i] = q
          BY <4>2 DEF Queued
        <5>2. i # 1
          BY <2>1, <3>2, <5>1
        <5>3. i - 1 \in 1..Len(queue') /\ (i - 1) + 1 = i
          BY <2>1, <5>2
        <5>4. queue'[i - 1] = q
          BY <2>1, <5>1, <5>3
        <5> QED BY <5>3, <5>4 DEF Queued
      <4> QED BY <1>2, <2>2, <3>2, <4>1, <4>2
    <3> QED BY <3>1, <3>2
  <2> QED BY <1>1, <2>3, <2>4 DEF WatchInv, HalfInv, EmittedInv, fileVars
<1>4. CASE UNCHANGED <<clock, queue>>
  <2>1. WatchTypeOK'
    BY <1>1, <1>2, <1>4 DEF WatchInv, WatchTypeOK, fileVars, Due
  <2>2. PendingInv'
    BY <1>1, <1>4 DEF WatchInv, PendingInv, fileVars, Queued
  <2> QED BY <1>1, <2>1, <2>2 DEF WatchInv, HalfInv, EmittedInv, fileVars
<1> QED BY <1>3, <1>4 DEF Poll

LEMMA FlushStep ==
    ASSUME WatchInv, NEW p \in Paths, Flush(p) PROVE WatchInv'
<1>1. /\ watcher = "flush" /\ p \in ready /\ ready' = ready \ {p}
      /\ clock' = [clock EXCEPT ![p] = NotPending]
      /\ UNCHANGED <<fileVars, queue, channel, subscribed, delivered>>
  BY DEF Flush
<1>2. PICK n \in Parsed(p) :
        IF n > emitted[p]
          THEN /\ emitted' = [emitted EXCEPT ![p] = n]
               /\ outgoing' = <<p, n>>
               /\ watcher' = "send"
          ELSE /\ watcher' = IF ready' = {} THEN "poll" ELSE "flush"
               /\ UNCHANGED <<emitted, outgoing>>
  BY DEF Flush
<1>3. /\ messages[p] \in 0..MaxMessages /\ emitted \in [Paths -> 0..MaxMessages]
      /\ clock \in [Paths -> 0..NotPending] /\ NotPending \in Nat /\ outgoing = <<>>
      /\ delivered \in [Paths -> 0..MaxMessages]
  BY <1>1, WatchAssumption DEF WatchInv, WatchTypeOK, NotPending
<1>4. n \in 0..MaxMessages /\ (~ half[p] => n = messages[p])
  BY <1>3, WatchAssumption DEF Parsed
<1>5. clock' \in [Paths -> 0..NotPending] /\ \A q \in Paths \ {p} : clock'[q] = clock[q]
  BY <1>1, <1>3
<1>6. CASE n > emitted[p]
  <2>1. emitted' \in [Paths -> 0..MaxMessages] /\ emitted'[p] = n
        /\ \A q \in Paths \ {p} : emitted'[q] = emitted[q]
    BY <1>2, <1>3, <1>4, <1>6
  <2>2. n \in 1..MaxMessages
    BY <1>3, <1>4, <1>6, WatchAssumption
  <2>3. outgoing' \in Session /\ outgoing' # <<>> /\ watcher' = "send"
    BY <1>2, <1>6, <2>2 DEF Session
  <2>4. WatchTypeOK'
    BY <1>1, <1>5, <2>1, <2>3 DEF WatchInv, WatchTypeOK, fileVars
  <2>5. EmittedInv'
    BY <1>1, <1>2, <1>3, <1>6, <2>1 DEF WatchInv, EmittedInv
  <2>6. PendingInv'
    BY <1>1, <1>3, <1>4, <1>5, <2>1 DEF WatchInv, PendingInv, fileVars, Queued
  <2> QED BY <1>1, <2>3, <2>4, <2>5, <2>6 DEF WatchInv, HalfInv, fileVars
<1>7. CASE ~ (n > emitted[p])
  <2>1. WatchTypeOK'
    BY <1>1, <1>2, <1>3, <1>5, <1>7 DEF WatchInv, WatchTypeOK, fileVars
  <2>2. EmittedInv'
    BY <1>1, <1>2, <1>7 DEF WatchInv, EmittedInv
  <2>3. PendingInv'
    BY <1>1, <1>2, <1>3, <1>4, <1>5, <1>7 DEF WatchInv, PendingInv, fileVars, Queued
  <2>4. HalfInv'
    BY <1>1, <1>2, <1>7 DEF WatchInv, HalfInv, fileVars
  <2> QED BY <2>1, <2>2, <2>3, <2>4 DEF WatchInv
<1> QED BY <1>6, <1>7

LEMMA SendStep ==
    ASSUME WatchInv, Send PROVE WatchInv'
<1>1. /\ watcher = "send" /\ outgoing' = <<>>
      /\ watcher' = IF ready = {} THEN "poll" ELSE "flush"
      /\ UNCHANGED <<fileVars, queue, clock, emitted, ready, subscribed>>
  BY DEF Send
<1>2. /\ outgoing \in Session /\ outgoing[1] \in Paths /\ outgoing[2] \in 0..MaxMessages
      /\ outgoing = <<outgoing[1], outgoing[2]>>
  <2>1. outgoing \in Session
    BY <1>1 DEF WatchInv, WatchTypeOK
  <2> QED BY <2>1, WatchAssumption DEF Session
<1>3. /\ channel \in Seq(Session) /\ Len(channel) <= Capacity /\ Len(channel) \in Nat
      /\ delivered \in [Paths -> 0..MaxMessages]
  BY DEF WatchInv, WatchTypeOK
<1>4. HalfInv' /\ PendingInv'
  BY <1>1 DEF WatchInv, HalfInv, PendingInv, fileVars, Queued
<1>5. CASE subscribed /\ Len(channel) < Capacity /\ channel' = Append(channel, outgoing)
           /\ delivered' = [delivered EXCEPT ![outgoing[1]] = outgoing[2]]
  <2>1. channel' \in Seq(Session) /\ Len(channel') <= Capacity
    BY <1>2, <1>3, <1>5, WatchAssumption
  <2>2. delivered' \in [Paths -> 0..MaxMessages]
    BY <1>2, <1>3, <1>5
  <2>3. WatchTypeOK'
    BY <1>1, <2>1, <2>2 DEF WatchInv, WatchTypeOK, fileVars
  <2>4. EmittedInv'
    <3> SUFFICES ASSUME NEW q \in Paths PROVE emitted'[q] = delivered'[q]
      BY <1>1 DEF EmittedInv
    <3>1. emitted[q] = delivered[q] \/ outgoing = <<q, emitted[q]>>
      BY <1>5 DEF WatchInv, EmittedInv
    <3>2. CASE q = outgoing[1]
      <4>1. delivered'[q] = outgoing[2]
        BY <1>3, <1>5, <3>2
      <4>2. outgoing[2] = emitted[q]
        BY <1>2, <3>2 DEF WatchInv, EmittedInv
      <4> QED BY <1>1, <4>1, <4>2
    <3>3. CASE q # outgoing[1]
      BY <1>1, <1>2, <1>3, <1>5, <3>1, <3>3
    <3> QED BY <3>2, <3>3
  <2> QED BY <1>4, <2>3, <2>4 DEF WatchInv
<1>6. CASE ~ subscribed /\ UNCHANGED <<channel, delivered>>
  <2>1. WatchTypeOK'
    BY <1>1, <1>6 DEF WatchInv, WatchTypeOK, fileVars
  <2> QED BY <1>1, <1>4, <1>6, <2>1 DEF WatchInv, EmittedInv
<1> QED BY <1>5, <1>6 DEF Send

\* Of the others none but time touches what a file waits for.
LEMMA RestStep ==
    ASSUME WatchInv, End \/ Receive \/ Unsubscribe \/ Age PROVE WatchInv'
<1>1. CASE End
  BY <1>1 DEF End, WatchInv, WatchTypeOK, HalfInv, EmittedInv, PendingInv, fileVars
<1>2. CASE Receive
  <2>1. channel \in Seq(Session) /\ channel # <<>> /\ Len(channel) <= Capacity
        /\ channel' = Tail(channel)
        /\ UNCHANGED <<fileVars, queue, clock, emitted, watcher, ready, outgoing, subscribed, delivered>>
    BY <1>2 DEF Receive, WatchInv, WatchTypeOK
  <2>2. channel' \in Seq(Session) /\ Len(channel') <= Capacity
    BY <2>1, WatchAssumption
  <2> QED BY <2>1, <2>2 DEF WatchInv, WatchTypeOK, HalfInv, EmittedInv, PendingInv, fileVars, Queued
<1>3. CASE Unsubscribe
  <2>1. channel' \in Seq(Session) /\ Len(channel') <= Capacity /\ ~ subscribed'
    BY <1>3, WatchAssumption DEF Unsubscribe
  <2> QED BY <1>3, <2>1 DEF Unsubscribe, WatchInv, WatchTypeOK, HalfInv, EmittedInv, PendingInv, fileVars
<1>4. CASE Age
  <2>1. clock' = [p \in Paths |-> IF clock[p] < Debounce THEN clock[p] + 1 ELSE clock[p]]
        /\ UNCHANGED <<fileVars, queue, emitted, watcher, ready, outgoing, channel, subscribed, delivered>>
    BY <1>4 DEF Age
  <2>2. ASSUME NEW p \in Paths
        PROVE  clock'[p] \in 0..NotPending /\ (clock[p] <= Debounce => clock'[p] <= Debounce)
    BY <2>1, WatchAssumption DEF WatchInv, WatchTypeOK, NotPending
  <2>3. clock' \in [Paths -> 0..NotPending]
    BY <2>1, <2>2
  <2> QED BY <2>1, <2>2, <2>3 DEF WatchInv, WatchTypeOK, HalfInv, EmittedInv, PendingInv, fileVars, Queued
<1> QED BY <1>1, <1>2, <1>3, <1>4

LEMMA WatchInvariance == WatchInit /\ [][WatchNext]_watchVars => []WatchInv
<1>1. WatchInv /\ [WatchNext]_watchVars => WatchInv'
  <2> SUFFICES ASSUME WatchInv, [WatchNext]_watchVars PROVE WatchInv'
    OBVIOUS
  <2>1. CASE UNCHANGED watchVars
    BY <2>1 DEF watchVars, WatchInv, WatchTypeOK, HalfInv, EmittedInv, PendingInv, Queued
  <2>2. CASE Watcher
    BY <2>2, PollStep, SendStep, FlushStep, RestStep DEF Watcher
  <2>3. ASSUME NEW p \in Paths, AppendLine(p) \/ AppendHalf(p) \/ AppendRest(p) \/ Rewrite(p)
        PROVE  WatchInv'
    <3>1. messages[p] \in 0..MaxMessages /\ (half[p] => messages[p] < MaxMessages)
      BY DEF WatchInv, WatchTypeOK, HalfInv
    <3>2. \A n \in 0..messages[p] : n \in 0..MaxMessages
      BY <3>1, WatchAssumption
    <3>3. messages[p] < MaxMessages => messages[p] + 1 \in 0..MaxMessages
      BY <3>1, WatchAssumption
    <3> QED BY <2>3, <3>1, <3>2, <3>3, WriteStep DEF AppendLine, AppendHalf, AppendRest, Rewrite
  <2> QED BY <2>1, <2>2, <2>3, RestStep DEF WatchNext, Assistant
<1> QED BY <1>1, WatchInitInv, PTL

\* The types of the watcher: it is sending exactly when it has a session to send, and the
\* subscriber's channel never holds more than its capacity.
THEOREM WatchTypeCorrect == WatchSpec => []WatchTypeOK
<1>1. WatchInv => WatchTypeOK
  BY DEF WatchInv
<1> QED BY <1>1, WatchInvariance, PTL DEF WatchSpec

\* However writes, events, flushes and a full channel interleave, no session file is forgotten
\* while its subscriber lives: messages that were not delivered are being sent, or the file has an
\* event in the queue or is waiting to rest - unless it ends in half a line.  In particular a
\* watcher with nothing to do has delivered every whole file.
THEOREM NoFileForgotten ==
    WatchSpec => [](\A p \in Paths :
        subscribed /\ ~ half[p] /\ messages[p] > delivered[p] =>
            \/ Queued(p) \/ clock[p] <= Debounce
            \/ watcher = "send" /\ outgoing[1] = p /\ outgoing[2] >= messages[p])
<1> DEFINE Remembered == \A p \in Paths :
             subscribed /\ ~ half[p] /\ messages[p] > delivered[p] =>
                 \/ Queued(p) \/ clock[p] <= Debounce
                 \/ watcher = "send" /\ outgoing[1] = p /\ outgoing[2] >= messages[p]
<1>1. WatchInv => Remembered
  <2> SUFFICES ASSUME WatchInv, NEW p \in Paths, subscribed, ~ half[p], messages[p] > delivered[p],
                      messages[p] <= emitted[p]
               PROVE  watcher = "send" /\ outgoing[1] = p /\ outgoing[2] >= messages[p]
    BY DEF WatchInv, WatchTypeOK, PendingInv
  <2>1. outgoing = <<p, emitted[p]>>
    BY DEF WatchInv, WatchTypeOK, EmittedInv
  <2>2. outgoing # <<>> /\ outgoing[1] = p /\ outgoing[2] = emitted[p]
    BY <2>1
  <2>3. watcher = "send"
    BY <2>2 DEF WatchInv, WatchTypeOK
  <2> QED BY <2>2, <2>3 DEF WatchInv, WatchTypeOK
<1> QED BY <1>1, WatchInvariance, PTL DEF WatchSpec

-----------------------------------------------------------------------------
(* The four of them in one instance.                                        *)

backgroundVars == <<which, schedulerVars, lspVars, watchVars, vars>>

\* A step of one of them leaves the others as they are.
LEMMA BackgroundCompose ==
    BackgroundSpec => /\ SchedulerSpec /\ Spec
                      /\ LspInit /\ [][LspNext]_lspVars /\ WatchInit /\ [][WatchNext]_watchVars
<1>1. BackgroundInit => SchedulerInit /\ LspInit /\ WatchInit /\ Init
  BY DEF BackgroundInit
<1>2. [BackgroundNext]_backgroundVars =>
        [SchedulerNext]_schedulerVars /\ [LspNext]_lspVars /\ [WatchNext]_watchVars /\ [Next]_vars
  BY DEF BackgroundNext, backgroundVars
<1>3. BackgroundSpec => BackgroundInit /\ [][BackgroundNext]_backgroundVars
  BY PTL DEF BackgroundSpec, backgroundVars
<1> QED BY <1>1, <1>2, <1>3, PTL DEF SchedulerSpec, Spec

\* Each component keeps its types in the composition as it does alone.
THEOREM BackgroundTypesCorrect == BackgroundSpec => []TypesOK
<1>4. BackgroundSpec => []SchedInv
  BY BackgroundCompose, SchedInvariance, PTL
<1>5. BackgroundSpec => []LspInv
  BY BackgroundCompose, LspInvariance, PTL
<1>6. BackgroundSpec => []WatchInv
  BY BackgroundCompose, WatchInvariance, PTL
<1>7. BackgroundSpec => []TypeOK
  BY BackgroundCompose, TypeCorrect, PTL
<1>8. SchedInv /\ LspInv /\ WatchInv /\ TypeOK => TypesOK
  BY DEF SchedInv, LspInv, WatchInv, TypesOK
<1> QED BY <1>4, <1>5, <1>6, <1>7, <1>8, PTL

\* The safety properties that the scheduler and the MCP server have alone they keep beside the
\* others, as they are checked.
THEOREM BackgroundSafe ==
    ASSUME ~Reuse
    PROVE  BackgroundSpec => [](OneRun /\ SilentAfterStopped /\ CoherentAnswer /\ ActiveIsCurrent)
<1>1. BackgroundSpec => []SchedInv
  BY BackgroundCompose, SchedInvariance, PTL
<1>2. BackgroundSpec => []CoherentAnswer /\ []ActiveIsCurrent
  BY BackgroundCompose, Coherent, Current, PTL
<1>3. SchedInv => OneRun /\ SilentAfterStopped
  BY DEF SchedInv
<1> QED BY <1>1, <1>2, <1>3, PTL
=============================================================================
