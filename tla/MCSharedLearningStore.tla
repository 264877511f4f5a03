----------------------- MODULE MCSharedLearningStore -----------------------
(* The suggest commands alone: a process serves one of them and ends.      *)
EXTENDS SharedLearningStore

CONSTANTS cli, l1

\* One process, that of a command, and one call at a time.
CliOnly == [c \in {l1} |-> cli]
=============================================================================
