----------------------------- MODULE AgentStore -----------------------------
(***************************************************************************)
(* The local store that the command line and the MCP server share          *)
(* (agent_store.rs, agent_store/learnings.rs), and the older learning      *)
(* commands that write the same directory (learnings/capture.rs).          *)
(*                                                                         *)
(* Every transaction takes an advisory file lock without waiting, reads    *)
(* what it needs, writes, and lets go of the lock; it may fail at any step *)
(* and its process may die at any step, which frees the lock.  The store   *)
(* writes a file by renaming a complete one over it and reads it back; the *)
(* older commands truncate the file and then fill it.                      *)
(*                                                                         *)
(* A learning record is "plain" until a correction is written into it;     *)
(* "torn" is a truncated file, which does not decode.                      *)
(***************************************************************************)
EXTENDS Naturals, Sequences, FiniteSets

CONSTANTS
    StoreProcs,    \* processes that use AgentStore
    LegacyProcs,   \* processes that use the older learning commands
    MaxIds,        \* bound on the identifiers drawn
    Corrections,   \* texts of corrections
    Cap,           \* short-term memories kept (100)
    MaxRecords,    \* learning records the store reads (1,000)
    None

ASSUME StoreAssumption ==
    /\ StoreProcs \cap LegacyProcs = {}
    /\ MaxIds \in Nat /\ Cap \in Nat \ {0} /\ MaxRecords \in Nat
    /\ Corrections \cap {"absent", "torn", "plain"} = {}
    /\ None \notin StoreProcs \cup LegacyProcs \cup Corrections

VARIABLES
    memory,     \* cli-agent.json: ids of the memories, oldest first
    records,    \* the learning directory: content by id
    memLock,    \* holder of cli-agent.lock
    recLock,    \* holder of .write.lock
    pc, op,     \* the step and the transaction of each process
    seen,       \* what each process read: memories, or the directory
    drawn,      \* identifiers drawn so far
    \* history
    acked,      \* captures and records reported as saved
    corrected,  \* by id: the correction reported last, if nothing followed it
    clobbered   \* records an older command truncated

store == <<memory, records>>
locks == <<memLock, recLock>>
history == <<acked, corrected, clobbered>>
vars == <<store, locks, pc, op, seen, drawn, history>>

Procs == StoreProcs \cup LegacyProcs
Ids == 1 .. MaxIds
Texts == {"plain"} \cup Corrections
Contents == {"absent", "torn"} \cup Texts
Op == [kind : {"memory", "learning", "correct", "export"}, id : Ids, text : Texts]
NoOp == [kind |-> "none", id |-> 0, text |-> None]

KeepLatest(s) == SubSeq(s, IF Len(s) > Cap THEN Len(s) - Cap + 1 ELSE 1, Len(s))

Present == {i \in Ids : records[i] # "absent"}
\* learning_records(): every record decodes, and there are not too many.
Readable(dir) ==
    /\ \A i \in Ids : dir[i] # "torn"
    /\ Cardinality({i \in Ids : dir[i] # "absent"}) <= MaxRecords

Init ==
    /\ memory = <<>>
    /\ records = [i \in Ids |-> "absent"]
    /\ memLock = None /\ recLock = None
    /\ pc = [p \in Procs |-> "idle"]
    /\ op = [p \in Procs |-> NoOp]
    /\ seen = [p \in Procs |-> <<>>]
    /\ drawn = 0
    /\ acked = {} /\ clobbered = {}
    /\ corrected = [i \in Ids |-> None]

Goto(p, l) == pc' = [pc EXCEPT ![p] = l]

\* The end of a transaction, whatever its outcome: its lock is dropped.
Finish(p) ==
    /\ Goto(p, "idle")
    /\ op' = [op EXCEPT ![p] = NoOp]
    /\ seen' = [seen EXCEPT ![p] = <<>>]
    /\ memLock' = IF memLock = p THEN None ELSE memLock
    /\ recLock' = IF recLock = p THEN None ELSE recLock

-----------------------------------------------------------------------------
(* The transactions. *)

\* Mutant of BeginMemory: the lock is not taken.
BeginUnlocked(p) ==
    /\ p \in StoreProcs /\ pc[p] = "idle" /\ drawn < MaxIds
    /\ drawn' = drawn + 1
    /\ op' = [op EXCEPT ![p] = [kind |-> "memory", id |-> drawn', text |-> "plain"]]
    /\ Goto(p, "read")
    /\ UNCHANGED <<store, locks, seen, history>>

\* try_lock: a busy store is an error and nothing happens.
BeginMemory(p) ==
    /\ p \in StoreProcs /\ pc[p] = "idle" /\ memLock = None /\ drawn < MaxIds
    /\ memLock' = p
    /\ drawn' = drawn + 1
    /\ op' = [op EXCEPT ![p] = [kind |-> "memory", id |-> drawn', text |-> "plain"]]
    /\ Goto(p, "read")
    /\ UNCHANGED <<store, recLock, seen, history>>

BeginLearning(p, kind, i, text) ==
    /\ pc[p] = "idle" /\ recLock = None
    /\ recLock' = p
    /\ op' = [op EXCEPT ![p] = [kind |-> kind, id |-> i, text |-> text]]
    /\ Goto(p, IF p \in StoreProcs THEN "read" ELSE "find")
    /\ UNCHANGED <<store, memLock, seen, history>>

\* learning_capture, correction_add; capture_failed_command, capture_correction
BeginCapture(p) ==
    /\ drawn < MaxIds
    /\ drawn' = drawn + 1
    /\ BeginLearning(p, "learning", drawn', "plain")

\* learning_correct; correct_learning
BeginCorrect(p) ==
    /\ \E i \in 1 .. drawn, c \in Corrections : BeginLearning(p, "correct", i, c)
    /\ UNCHANGED drawn

\* correction_compile, correction_export_kg
BeginExport(p) ==
    /\ p \in StoreProcs /\ drawn > 0
    /\ BeginLearning(p, "export", drawn, "plain")
    /\ UNCHANGED drawn

ReadMemory(p) ==
    /\ pc[p] = "read" /\ op[p].kind = "memory"
    /\ seen' = [seen EXCEPT ![p] = memory]
    /\ Goto(p, "rename")
    /\ UNCHANGED <<store, locks, op, drawn, history>>

\* stage_learnings, or the record to correct, which must exist.
ReadRecords(p) ==
    /\ pc[p] = "read" /\ op[p].kind # "memory"
    /\ Readable(records)
    /\ op[p].kind = "correct" => records[op[p].id] # "absent"
    /\ seen' = [seen EXCEPT ![p] = records]
    /\ Goto(p, IF op[p].kind = "export" THEN "check" ELSE "admit")
    /\ UNCHANGED <<store, locks, op, drawn, history>>

\* Mutant of Admit: the limit is off by one.
AdmitOneMore(p) ==
    /\ pc[p] = "admit" /\ Readable(records)
    /\ \/ op[p].kind = "correct"
       \/ records[op[p].id] = "absent" /\ Cardinality(Present) <= MaxRecords
    /\ Goto(p, "rename")
    /\ UNCHANGED <<store, locks, op, seen, drawn, history>>

\* commit_staged_learning up to the write: only an annotation replaces a
\* record, and only a new record counts against the limit.
Admit(p) ==
    /\ pc[p] = "admit" /\ Readable(records)
    /\ \/ op[p].kind = "correct"
       \/ records[op[p].id] = "absent" /\ Cardinality(Present) < MaxRecords
    /\ Goto(p, "rename")
    /\ UNCHANGED <<store, locks, op, seen, drawn, history>>

\* Mutant of RenameMemory: old memories are not dropped.
RenameAll(p) ==
    /\ pc[p] = "rename" /\ op[p].kind = "memory"
    /\ memory' = Append(seen[p], op[p].id)
    /\ Goto(p, "check")
    /\ UNCHANGED <<records, locks, op, seen, drawn, history>>

\* write_atomic: the complete temporary file is renamed over the old one.
RenameMemory(p) ==
    /\ pc[p] = "rename" /\ op[p].kind = "memory"
    /\ memory' = KeepLatest(Append(seen[p], op[p].id))
    /\ Goto(p, "check")
    /\ UNCHANGED <<records, locks, op, seen, drawn, history>>

RenameRecord(p) ==
    /\ pc[p] = "rename" /\ op[p].kind # "memory"
    /\ records' = [records EXCEPT ![op[p].id] = op[p].text]
    /\ corrected' = [corrected EXCEPT ![op[p].id] = None]
    /\ Goto(p, "check")
    /\ UNCHANGED <<memory, locks, op, seen, drawn, acked, clobbered>>

\* The read-back, memory_show and learning_records, then Ok.
ReturnMemory(p) ==
    /\ pc[p] = "check" /\ op[p].kind = "memory"
    /\ \E k \in DOMAIN memory : memory[k] = op[p].id
    /\ acked' = acked \cup {op[p]}
    /\ Finish(p)
    /\ UNCHANGED <<store, drawn, corrected, clobbered>>

ReturnRecord(p) ==
    /\ pc[p] = "check" /\ op[p].kind \in {"learning", "correct"}
    /\ Readable(records) /\ records[op[p].id] # "absent"
    /\ acked' = acked \cup {[op[p] EXCEPT !.text = "plain"]}
    /\ corrected' = [corrected EXCEPT ![op[p].id] =
                       IF op[p].kind = "correct" THEN op[p].text ELSE None]
    /\ Finish(p)
    /\ UNCHANGED <<store, drawn, clobbered>>

\* The artefact was written to a directory of its own from what was staged.
ReturnExport(p) ==
    /\ pc[p] = "check" /\ op[p].kind = "export"
    /\ Finish(p)
    /\ UNCHANGED <<store, drawn, history>>

\* The older commands: capture writes a new file without looking at the
\* others, correct_learning rewrites the record it finds, skipping the torn ones.
Truncate(p) ==
    /\ pc[p] = "find"
    /\ op[p].kind = "correct" => records[op[p].id] \in Texts
    /\ records' = [records EXCEPT ![op[p].id] = "torn"]
    /\ corrected' = [corrected EXCEPT ![op[p].id] = None]
    /\ clobbered' = clobbered \cup {op[p].id}
    /\ Goto(p, "fill")
    /\ UNCHANGED <<memory, locks, op, seen, drawn, acked>>

Fill(p) ==
    /\ pc[p] = "fill"
    /\ records' = [records EXCEPT ![op[p].id] = op[p].text]
    /\ clobbered' = clobbered \ {op[p].id}
    /\ acked' = acked \cup {[op[p] EXCEPT !.text = "plain"]}
    /\ corrected' = [corrected EXCEPT ![op[p].id] =
                       IF op[p].kind = "correct" THEN op[p].text ELSE None]
    /\ Finish(p)
    /\ UNCHANGED <<memory, drawn>>

\* Mutant of Abandon: the error path cleans up the file it was to write.
AbandonRemoves(p) ==
    /\ pc[p] # "idle"
    /\ records' = IF op[p].kind = "correct"
                    THEN [records EXCEPT ![op[p].id] = "absent"] ELSE records
    /\ Finish(p)
    /\ UNCHANGED <<memory, drawn, history>>

\* A check or a call of the file system fails, or the process dies.
Abandon(p) ==
    /\ pc[p] # "idle"
    /\ Finish(p)
    /\ UNCHANGED <<store, drawn, history>>

Next ==
    \E p \in Procs :
        \/ BeginMemory(p) \/ BeginCapture(p) \/ BeginCorrect(p) \/ BeginExport(p)
        \/ ReadMemory(p) \/ ReadRecords(p) \/ Admit(p)
        \/ RenameMemory(p) \/ RenameRecord(p)
        \/ ReturnMemory(p) \/ ReturnRecord(p) \/ ReturnExport(p)
        \/ Truncate(p) \/ Fill(p) \/ Abandon(p)

Spec == Init /\ [][Next]_vars

-----------------------------------------------------------------------------
(* Properties. *)

\* The type invariant: a transaction under way has drawn its id and holds the
\* lock of the file it writes.
TypeOK ==
    /\ memory \in Seq(Ids) /\ Len(memory) <= Cap
    /\ records \in [Ids -> Contents]
    /\ memLock \in StoreProcs \cup {None} /\ recLock \in Procs \cup {None}
    /\ pc \in [Procs -> {"idle", "read", "admit", "rename", "check", "find", "fill"}]
    /\ op \in [Procs -> Op \cup {NoOp}]
    /\ drawn \in 0 .. MaxIds
    /\ acked \subseteq Op /\ clobbered \subseteq Ids
    /\ corrected \in [Ids -> Corrections \cup {None}]
    /\ \A p \in Procs : pc[p] # "idle" =>
        /\ op[p].id \in 1 .. drawn
        /\ IF op[p].kind = "memory" THEN memLock = p ELSE recLock = p

\* Every memory reported as captured is in the file until Cap later ones have pushed it out.
CapturesKept ==
    \A a \in acked : a.kind = "memory" =>
        \/ \E k \in DOMAIN memory : memory[k] = a.id
        \/ Len(memory) = Cap /\ \A k \in DOMAIN memory : memory[k] > a.id

\* Every learning reported as saved keeps decoding, with the correction reported last, unless an
\* older command is rewriting the record or died doing so.
RecordsKept ==
    \A a \in acked : a.kind # "memory" =>
        \/ a.id \in clobbered
        \/ records[a.id] \in Texts
           /\ corrected[a.id] \in {None, records[a.id]}

\* "prevents cooperating CLI/MCP writers losing acknowledged records" (agent_store.rs:259): what
\* the store has reported survives whoever else captures, corrects, fails or dies.
AcknowledgedKept == CapturesKept /\ RecordsKept

\* The store never commits a record that makes its own directory unreadable:
\* its limits at the write agree with its limits at the read.
StaysReadable ==
    [][Readable(records) /\ ~Readable(records')
        => \E p \in LegacyProcs : pc[p] = "find"]_vars

\* Each transaction takes effect at one instant and as a whole.
Durable == INSTANCE DurableStore WITH memory <- memory, records <- records,
                                      Ids <- Ids, Corrections <- Corrections, Cap <- Cap
Linearizable == Durable!Spec
=============================================================================
