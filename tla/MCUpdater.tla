------------------------------ MODULE MCUpdater ------------------------------
(* Instances of Updater: the call sites of the repository.                  *)
EXTENDS Updater

Cmd(op, backend) == [op |-> op, own |-> TRUE, exact |-> TRUE, backend |-> backend]

\* terraphim-agent check-update, terraphim-agent update and terraphim-grep
\* update, the two public operations, and check_for_updates_auto; and /update
\* install of the REPL: update_binary("terraphim_agent")
AllCommands == {Cmd("check", "r2"), Cmd("check_and_update", "r2"),
                Cmd("update", "r2"), Cmd("verified", "r2"),
                Cmd("check_and_update", "github"), Cmd("check_auto", "github"),
                [op |-> "check_and_update", own |-> FALSE, exact |-> FALSE,
                 backend |-> "r2"]}

=============================================================================
