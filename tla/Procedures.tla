---------------------------- MODULE Procedures ----------------------------
(***************************************************************************)
(* Captured procedures (`learn procedure ...`, learnings/procedure.rs,     *)
(* replay.rs and the command's arms in learn_command.rs).                  *)
(*                                                                         *)
(* Procedures live in one JSON-lines file.  Each run of the command line   *)
(* reads the whole file, changes its copy, truncates the file and writes   *)
(* the copy back line by line.  Nothing locks the file: several runs (the  *)
(* user's, an agent's, a hook's) may overlap, and a run may be killed in   *)
(* the middle of the rewrite.  A line that does not parse is skipped when  *)
(* the file is read and is gone after the next rewrite.                    *)
(*                                                                         *)
(* A line is a procedure or TornLine, a line that does not parse.  A step is   *)
(* the member of Commands it runs.  A procedure's score is kept as its two *)
(* counts, so thresholds are compared by cross-multiplication.             *)
(***************************************************************************)
EXTENDS Naturals, Sequences, FiniteSets

CONSTANTS
  Clis,        \* runs of the command line
  ProcIds,     \* procedure ids, the new ones included
  NewIds,      \* NewIds[n]: the id the n-th run gives the procedure it creates
  Titles,      \* titles, compared in lower case
  Within,      \* Within[t]: the titles that occur in title t
  Commands,    \* what a step may run
  Blocked,     \* the commands the guard patterns block
  Privileged,  \* the commands of steps marked privileged in the file
  Stored,      \* the files there may be when the runs begin
  MaxSteps,    \* bound: steps in a procedure
  MaxRuns,     \* bound: commands started
  MaxKills,    \* bound: runs killed
  TornLine, NoItem

Steps == Commands \cup Blocked \cup Privileged
Procedure ==
  [id : ProcIds, title : Titles, steps : Seq(Steps), ok : Nat, bad : Nat, disabled : BOOLEAN]

ASSUME ProcAssumption ==
  /\ NewIds \in [1..MaxRuns -> ProcIds] /\ MaxRuns \in Nat /\ MaxSteps \in Nat /\ MaxKills \in Nat
  /\ Within \in [Titles -> SUBSET Titles]
  /\ TornLine \notin Procedure /\ NoItem \notin Procedure
  /\ \A f \in Stored : f \in Seq(Procedure \cup {TornLine})

VARIABLES
  procFile,   \* the lines of procedures.jsonl
  executing,  \* executing[c]: the command c is executing
  procRuns, procKills

procVars == <<procFile, executing, procRuns, procKills>>

Range1(s) == {s[i] : i \in DOMAIN s}

\* the elements of s at the places of the set I, in order
Picked(s, I) ==
  [n \in 1..Cardinality(I) |-> s[CHOOSE i \in I : Cardinality({j \in I : j < i}) = n - 1]]

\* learn procedure record|add-step|success|failure|enable|disable|health|replay|from-session
\* new: the id of the procedure the request creates
Requests(new) ==
       [op : {"record"}, id : {new}, title : Titles]
  \cup [op : {"from-session"}, id : {new}, title : Titles, cmds : {<<c>> : c \in Commands}]
  \cup [op : {"add-step"}, id : ProcIds, cmd : Commands]
  \cup [op : {"outcome"}, id : ProcIds, success : BOOLEAN]
  \cup [op : {"able"}, id : ProcIds, disabled : BOOLEAN]
  \cup [op : {"replay"}, id : ProcIds, dryRun : BOOLEAN]
  \cup [op : {"health"}]

Idle == [pc |-> "idle", req |-> NoItem, item |-> NoItem, out |-> <<>>, at |-> 1,
         alone |-> TRUE, start |-> <<>>, ran |-> <<>>]
Busy == {c \in Clis : executing[c].pc # "idle"}

----------------------------------------------------------------------------
(* The types of terraphim_types, as procedure.rs and its tests use them.   *)

NewProcedure(id, title, cmds) ==
  [id |-> id, title |-> title, steps |-> cmds, ok |-> 0, bad |-> 0, disabled |-> FALSE]

Total(p) == p.ok + p.bad
HighConfidence(p) == 5 * p.ok > 4 * Total(p)
Recorded(p, success) == IF success THEN [p EXCEPT !.ok = @ + 1] ELSE [p EXCEPT !.bad = @ + 1]

\* the steps of q that p does not have yet follow those of p
MergeSteps(p, q) ==
  [p EXCEPT !.steps = @ \o Picked(q.steps, {i \in DOMAIN q.steps : q.steps[i] \notin Range1(p.steps)})]

----------------------------------------------------------------------------
(* Reading.                                                                *)

\* Mutant of LoadAll: reading stops at the first line that does not parse.
LoadUntilTorn(f) ==
  SubSeq(f, 1, CHOOSE n \in 0..Len(f) :
    /\ \A i \in 1..n : f[i] # TornLine
    /\ n = Len(f) \/ f[n + 1] = TornLine)

\* load_all skips the lines that do not parse
Parsed(f) == {i \in DOMAIN f : f[i] # TornLine}
LoadAll(f) == Picked(f, Parsed(f))

Found(ps, id) == {i \in DOMAIN ps : ps[i].id = id /\ \A j \in 1..(i - 1) : ps[j].id # id}
Find(ps, id) == ps[CHOOSE i \in Found(ps, id) : TRUE]

\* save: the procedure replaces the one of its id, or is added at the end
Upsert(ps, p) ==
  IF Found(ps, p.id) = {} THEN Append(ps, p)
  ELSE [ps EXCEPT ![CHOOSE i \in Found(ps, p.id) : TRUE] = p]

\* a matching title counts only if the first procedure that bears it is trusted
MergeTargets(ps, title) ==
  {i \in DOMAIN ps : /\ ps[i].title \in Within[title]
                     /\ \A j \in 1..(i - 1) : ps[j].title # ps[i].title
                     /\ HighConfidence(ps[i])}

Critical(p) == Total(p) >= 3 /\ 10 * p.ok < 3 * Total(p)
Healed(p) == IF Critical(p) /\ Total(p) >= 5 THEN [p EXCEPT !.disabled = TRUE] ELSE p
HealthCheck(ps) == [i \in DOMAIN ps |-> Healed(ps[i])]

Replayable(p) == ~p.disabled /\ (Total(p) > 0 => 2 * p.ok >= Total(p))
Skips(cmd) == cmd \in Privileged \cup Blocked

----------------------------------------------------------------------------
(* The commands.                                                           *)

Become(c, r) == executing' = [executing EXCEPT ![c] = r]
GotoStep(c, pc) == Become(c, [executing[c] EXCEPT !.pc = pc])
Quiet == UNCHANGED <<procRuns, procKills>>

\* a run that starts beside others is not alone, and neither are they any more
Start(c) ==
  /\ executing[c].pc = "idle" /\ procRuns < MaxRuns
  /\ \E req \in Requests(NewIds[procRuns + 1]) :
       executing' = [d \in Clis |->
         IF d = c
         THEN [Idle EXCEPT !.pc = "read", !.req = req, !.alone = Busy = {},
                           !.start = procFile]
         ELSE [executing[d] EXCEPT !.alone = @ /\ d \notin Busy]]
  /\ procRuns' = procRuns + 1
  /\ UNCHANGED <<procFile, procKills>>

\* the run returns, with or without an error
Stop(c) == Become(c, Idle) /\ UNCHANGED procFile /\ Quiet

\* the run goes on with save(p)
SaveNext(c, p) ==
  Become(c, [executing[c] EXCEPT !.pc = "save", !.item = p]) /\ UNCHANGED procFile /\ Quiet

\* the run goes on with write_all(ps)
WriteNext(c, ps) ==
  Become(c, [executing[c] EXCEPT !.pc = "open", !.out = ps]) /\ UNCHANGED procFile /\ Quiet

Reads(c, op) == executing[c].pc = "read" /\ executing[c].req.op = op

Record(c) ==
  /\ Reads(c, "record")
  /\ SaveNext(c, NewProcedure(executing[c].req.id, executing[c].req.title, <<>>))

\* add-step changes the copy that find_by_id returned; save reads the file again
AddStep(c) ==
  LET req == executing[c].req
      ps  == LoadAll(procFile) IN
  /\ Reads(c, "add-step")
  /\ IF Found(ps, req.id) = {} THEN Stop(c)
     ELSE /\ Len(Find(ps, req.id).steps) < MaxSteps
          /\ SaveNext(c, [Find(ps, req.id) EXCEPT !.steps = Append(@, req.cmd)])

\* save_with_dedup decides on its own reading of the file; save reads it again
FromSession(c) ==
  LET req == executing[c].req
      ps  == LoadAll(procFile)
      new == NewProcedure(req.id, req.title, req.cmds) IN
  /\ Reads(c, "from-session")
  /\ \/ MergeTargets(ps, req.title) = {} /\ SaveNext(c, new)
     \/ \E i \in MergeTargets(ps, req.title) :
          SaveNext(c, [MergeSteps(new, ps[i]) EXCEPT !.id = ps[i].id])

SaveAll(c) ==
  /\ executing[c].pc = "save"
  /\ WriteNext(c, Upsert(LoadAll(procFile), executing[c].item))

\* update_confidence and set_disabled change the procedure in what they read
Outcome(c) ==
  LET req == executing[c].req
      ps  == LoadAll(procFile) IN
  /\ Reads(c, "outcome")
  /\ IF Found(ps, req.id) = {} THEN Stop(c)
     ELSE WriteNext(c, Upsert(ps, Recorded(Find(ps, req.id), req.success)))

SetDisabled(c) ==
  LET req == executing[c].req
      ps  == LoadAll(procFile) IN
  /\ Reads(c, "able")
  /\ IF Found(ps, req.id) = {} THEN Stop(c)
     ELSE WriteNext(c, Upsert(ps, [Find(ps, req.id) EXCEPT !.disabled = req.disabled]))

\* health disables what fails too often, and writes only if that changed something
Health(c) ==
  LET ps == LoadAll(procFile) IN
  /\ Reads(c, "health")
  /\ IF HealthCheck(ps) = ps THEN Stop(c) ELSE WriteNext(c, HealthCheck(ps))

\* replay refuses a procedure that is disabled or has failed too often
Replay(c) ==
  LET req == executing[c].req
      ps  == LoadAll(procFile) IN
  /\ Reads(c, "replay")
  /\ IF Found(ps, req.id) = {} \/ ~Replayable(Find(ps, req.id)) THEN Stop(c)
     ELSE /\ Become(c, [executing[c] EXCEPT !.pc = "steps", !.item = Find(ps, req.id)])
          /\ UNCHANGED procFile /\ Quiet

\* the last step that ran failed
Failed(r) == r.ran # <<>> /\ ~r.ran[Len(r.ran)].success

\* one step of a replay: skipped, printed, or run; an error of sh ends the run
ReplayStep(c) ==
  LET r == executing[c] IN
  /\ r.pc = "steps" /\ r.at <= Len(r.item.steps) /\ ~Failed(r)
  /\ \/ /\ Skips(r.item.steps[r.at]) \/ r.req.dryRun
        /\ Become(c, [r EXCEPT !.at = @ + 1])
        /\ UNCHANGED procFile /\ Quiet
     \/ /\ ~Skips(r.item.steps[r.at]) /\ ~r.req.dryRun
        /\ \E success \in BOOLEAN :
             Become(c, [r EXCEPT !.at = @ + 1,
                                 !.ran = Append(@, [cmd |-> r.item.steps[r.at], success |-> success])])
        /\ UNCHANGED procFile /\ Quiet
     \/ ~Skips(r.item.steps[r.at]) /\ ~r.req.dryRun /\ Stop(c)

\* at the end the outcome is recorded, in a new reading of the file; skips are not failures
ReplayEnd(c) ==
  LET r  == executing[c]
      ps == LoadAll(procFile) IN
  /\ r.pc = "steps" /\ (r.at > Len(r.item.steps) \/ Failed(r))
  /\ IF r.req.dryRun \/ Found(ps, r.req.id) = {} THEN Stop(c)
     ELSE Become(c, [r EXCEPT !.pc = "open", !.at = 1,
                              !.out = Upsert(ps, Recorded(Find(ps, r.req.id), ~Failed(r)))])
          /\ UNCHANGED procFile /\ Quiet

\* write_all opens the file with truncate ...
TruncateLines(c) ==
  /\ executing[c].pc = "open"
  /\ GotoStep(c, "write")
  /\ procFile' = <<>> /\ Quiet

\* ... and writes at its own position: beside another writer a line may fall on, or tear,
\* a line of the other
WriteLine(c) ==
  LET r == executing[c] IN
  /\ r.pc = "write" /\ r.at <= Len(r.out)
  /\ Become(c, [r EXCEPT !.at = @ + 1])
  /\ \/ procFile' = Append(procFile, r.out[r.at])
     \/ /\ ~r.alone
        /\ \E line \in {r.out[r.at], TornLine} :
             procFile' \in {Append(procFile, line)} \cup {[procFile EXCEPT ![i] = line] : i \in DOMAIN procFile}
  /\ Quiet

EndRun(c) ==
  LET r == executing[c] IN
  /\ r.pc = "write" /\ r.at > Len(r.out)
  /\ Stop(c)

\* the process is killed; a line it was writing may be cut short
Kill(c) ==
  /\ c \in Busy /\ procKills < MaxKills
  /\ procKills' = procKills + 1
  /\ Become(c, Idle)
  /\ \/ UNCHANGED procFile
     \/ executing[c].pc = "write" /\ executing[c].at <= Len(executing[c].out) /\ procFile' = Append(procFile, TornLine)
  /\ UNCHANGED procRuns

ProcInit ==
  /\ procFile \in Stored
  /\ executing = [c \in Clis |-> Idle]
  /\ procRuns = 0 /\ procKills = 0

ProcNext ==
  \E c \in Clis :
    \/ Start(c) \/ Record(c) \/ AddStep(c) \/ FromSession(c) \/ SaveAll(c)
    \/ Outcome(c) \/ SetDisabled(c) \/ Health(c)
    \/ Replay(c) \/ ReplayStep(c) \/ ReplayEnd(c)
    \/ TruncateLines(c) \/ WriteLine(c) \/ EndRun(c) \/ Kill(c)

ProcSpec == ProcInit /\ [][ProcNext]_procVars

----------------------------------------------------------------------------
(* Properties.                                                             *)

\* The type invariant: the file has lines, every run has what its step needs, and is at a
\* place of what it replays or writes, or just behind it.
ProcTypeOK ==
  /\ procFile \in Seq(Procedure \cup {TornLine})
  /\ \A c \in Clis :
       /\ executing[c].pc \in {"idle", "read", "save", "steps", "open", "write"}
       /\ executing[c].at \in 1..(Len(IF executing[c].pc = "steps" THEN executing[c].item.steps
                                     ELSE executing[c].out) + 1)
       /\ executing[c].pc \in {"save", "steps"} => executing[c].item # NoItem
  /\ procRuns \in 0..MaxRuns /\ procKills \in 0..MaxKills

\* what the lines of f that parse say, by id: the first of them that bears it
ById(f) ==
  [id \in {f[i].id : i \in Parsed(f)} |->
     f[CHOOSE i \in Parsed(f) : f[i].id = id /\ \A j \in Parsed(f) : f[j].id = id => i <= j]]

\* the map old with the procedure p in it
Put(old, p) == [id \in DOMAIN old \cup {p.id} |-> IF id = p.id THEN p ELSE old[id]]

\* what an undisturbed run that is asked req makes of the file it found, as maps from ids
\* to procedures; failed: its replay failed
Effect(req, start, failed) ==
  LET old     == ById(start)
      edit(e) == IF req.id \in DOMAIN old THEN Put(old, e) ELSE old
      new     == NewProcedure(req.id, req.title, req.cmds) IN
  CASE req.op = "record"   -> {Put(old, NewProcedure(req.id, req.title, <<>>))}
    [] req.op = "add-step" -> {edit([old[req.id] EXCEPT !.steps = Append(@, req.cmd)])}
    [] req.op = "outcome"  -> {edit([old[req.id] EXCEPT !.ok  = @ + (IF req.success THEN 1 ELSE 0),
                                                        !.bad = @ + (IF req.success THEN 0 ELSE 1)])}
    [] req.op = "able"     -> {edit([old[req.id] EXCEPT !.disabled = req.disabled])}
    [] req.op = "replay"   -> {edit([old[req.id] EXCEPT !.ok  = @ + (IF failed THEN 0 ELSE 1),
                                                        !.bad = @ + (IF failed THEN 1 ELSE 0)])}
    [] req.op = "health"   ->
         {[id \in DOMAIN old |-> [old[id] EXCEPT !.disabled =
             @ \/ (old[id].ok + old[id].bad >= 5 /\ 10 * old[id].ok < 3 * (old[id].ok + old[id].bad))]]}
    [] req.op = "from-session" ->
         {Put(old, new)}
         \cup {Put(old, [MergeSteps(new, start[i]) EXCEPT !.id = start[i].id]) :
                 i \in {k \in Parsed(start) :
                          /\ start[k].title \in Within[req.title]
                          /\ 5 * start[k].ok > 4 * (start[k].ok + start[k].bad)}}

\* A run that no other run overlapped and that wrote the file has the effect its command
\* asks for and no other: every procedure that could be read before is still there, changed
\* only if the command changes it, whatever lines of the file could not be read
\* (write_all rewrites the whole file from what load_all kept of it).
AloneTakesEffect ==
  \A c \in Clis :
    LET r == executing[c] IN
    r.pc = "write" /\ r.at > Len(r.out) /\ r.alone
      => ById(procFile) \in Effect(r.req, r.start, Failed(r))
=============================================================================
