---------------------------- MODULE DurableStore ----------------------------
(***************************************************************************)
(* What the agent store promises to the command line and the MCP server    *)
(* that share it: each capture, record and correction takes effect at one  *)
(* instant and as a whole, and nothing else changes the store.  A writer   *)
(* of the older interface may tear the record it writes.                   *)
(***************************************************************************)
EXTENDS Naturals, Sequences

CONSTANTS Ids,          \* the identifiers drawn
          Corrections,
          Cap           \* short-term memories kept

VARIABLES memory,       \* the ids of the short-term memories, oldest first
          records       \* the learning record of each id

dvars == <<memory, records>>

Contents == {"absent", "torn", "plain"} \cup Corrections

\* MemoryState::add_memory: the latest Cap items.
KeepLatest(s) == SubSeq(s, IF Len(s) > Cap THEN Len(s) - Cap + 1 ELSE 1, Len(s))

Init == memory = <<>> /\ records = [i \in Ids |-> "absent"]

Capture ==
    /\ \E i \in Ids : memory' = KeepLatest(Append(memory, i))
    /\ UNCHANGED records

Record(i) ==
    /\ records[i] \in {"absent", "torn"}
    /\ records' = [records EXCEPT ![i] = "plain"]
    /\ UNCHANGED memory

Correct(i) ==
    /\ records[i] # "absent"
    /\ \E c \in Corrections : records' = [records EXCEPT ![i] = c]
    /\ UNCHANGED memory

Tear(i) ==
    /\ records' = [records EXCEPT ![i] = "torn"]
    /\ UNCHANGED memory

Next == Capture \/ \E i \in Ids : Record(i) \/ Correct(i) \/ Tear(i)

Spec == Init /\ [][Next]_dvars
=============================================================================
