----------------------------- MODULE MCListener -----------------------------
(* Small instances of the listener for TLC. *)
EXTENDS Listener

CONSTANT i1

OneIssue == {i1}

\* For the cursor: commands that only claim, and comments on no issue.
ClaimPosts ==
    {[issue |-> i1, cmds |-> <<"claim_only", "claim_only">>], [issue |-> NoIssue, cmds |-> <<>>]}

\* For the dispatch: two commands of which the first is handed off, and commands of which
\* one is another agent's, one is run or one refused.
DispatchPosts ==
    {[issue |-> i1, cmds |-> <<"route", "run">>],
     [issue |-> i1, cmds |-> <<"foreign", "route_denied">>],
     [issue |-> i1, cmds |-> <<"invalid">>]}
=============================================================================
