------------------------------ MODULE Listener ------------------------------
(***************************************************************************)
(* The @adf listener daemon of terraphim_agent: one identity polls the     *)
(* comments of a Gitea repository, claims the issues on which it is        *)
(* mentioned, and runs, refuses or hands off the command of each mention.  *)
(*                                                                         *)
(* One action is one await of ListenerRuntime: between two awaits the      *)
(* users, the other agents and the clock move.  The tracker is external:   *)
(* the model gives it the contract the code relies on (comments listed in  *)
(* the order of their ids, filtered by updated_at >= since, cut in pages;  *)
(* an atomic claim).                                                       *)
(***************************************************************************)
EXTENDS Naturals, FiniteSets, Sequences

CONSTANTS
    Issues,       \* issues of the repository
    NoIssue,      \* a comment whose issue number could not be derived (0)
    UserPosts,    \* what users may write: set of [issue, cmds]
    PageSize,     \* comments per page (50 in the code)
    MaxTime,      \* bound on the clock
    MaxUserPosts, \* bound on the comments users write
    MaxEdits,     \* bound on the edits of comments
    MaxDeletes,   \* bound on the deletions of comments
    MaxFaults,    \* bound on the failing calls to the tracker
    MaxRestarts   \* bound on the restarts of the daemon

\* What the text after a mention leads to.  "foreign": the mention names an
\* agent outside accepted_target_names.
Kinds == {"foreign", "claim_only", "invalid", "route_denied", "route", "run"}

ASSUME ListenerAssumption ==
    /\ NoIssue \notin Issues
    /\ UserPosts \subseteq [issue : Issues \cup {NoIssue}, cmds : Seq(Kinds)]
    /\ PageSize \in Nat \ {0}
    /\ {MaxTime, MaxUserPosts, MaxEdits, MaxDeletes, MaxFaults, MaxRestarts}
         \subseteq Nat

VARIABLES
    \* the tracker
    comments,   \* every comment ever posted, by id
    assignee,   \* who each issue is assigned to
    now,        \* the clock both sides read
    \* ListenerRuntime and the locals of poll_once and process_comment
    pc,         \* the await the daemon is at
    cursor,     \* last_seen_at
    seen,       \* seen_events
    page,       \* page of the current poll
    batch,      \* fetched comments not yet processed
    more,       \* the page was full: there may be another
    newest,     \* newest_seen_at, 0 for None
    cmd,        \* index of the command in hand of the comment in hand
    children,   \* commands whose process is running
    \* history
    started,    \* the time this incarnation started at
    abandoned,  \* comments given up on after a permanent error
    spawned,    \* commands this incarnation started a process for
    earlier,    \* commands earlier incarnations started a process for
    userPosts, edits, deletes, faults, restarts   \* used-up budgets

trackerVars == <<comments, assignee, now>>
pollVars == <<page, batch, more, newest, cmd>>
budgets == <<userPosts, edits, deletes, faults, restarts>>
vars == <<trackerVars, pc, cursor, seen, pollVars, children,
          started, abandoned, spawned, earlier, budgets>>

-----------------------------------------------------------------------------
(* Types                                                                   *)

Comment == [issue : Issues \cup {NoIssue}, own : BOOLEAN, upd : Nat,
            edited : BOOLEAN, gone : BOOLEAN, cmds : Seq(Kinds)]

\* A comment as a page returned it: the daemon works on this copy.
Fetched == [id : Nat, issue : Issues \cup {NoIssue}, own : BOOLEAN,
            upd : Nat, cmds : Seq(Kinds)]

\* normalize_polled_command gives every command of a comment an id of its own.
Events == Nat \X Nat

PCs == {"down", "sleep", "fetch", "comment", "command", "ack", "dispatch",
        "wait", "reply"}

TypeOK ==
    /\ comments \in Seq(Comment)
    /\ assignee \in [Issues -> {"none", "self", "other"}]
    /\ now \in Nat
    /\ pc \in PCs
    /\ cursor \in Nat
    /\ seen \subseteq Events
    /\ page \in Nat
    /\ batch \subseteq Fetched
    /\ more \in BOOLEAN
    /\ newest \in Nat
    /\ cmd \in Nat \ {0}
    /\ children \subseteq Events
    /\ started \in Nat
    /\ abandoned \subseteq Nat
    /\ spawned \subseteq Events
    /\ earlier \subseteq Events
    /\ {userPosts, edits, deletes, faults, restarts} \subseteq Nat

-----------------------------------------------------------------------------
(* Helpers                                                                 *)

\* Ids the tracker lists for since = t.
Listed(t) == {i \in DOMAIN comments : ~comments[i].gone /\ comments[i].upd >= t}

\* Position of comment i in that list.
Rank(i, t) == Cardinality({j \in Listed(t) : j <= i})

OnPage(i, t, p) == (p - 1) * PageSize < Rank(i, t) /\ Rank(i, t) <= p * PageSize

PageOf(t, p) ==
    {[id |-> i, issue |-> comments[i].issue, own |-> comments[i].own,
      upd |-> comments[i].upd, cmds |-> comments[i].cmds] :
        i \in {j \in Listed(t) : OnPage(j, t, p)}}

\* The comment in hand: the first of the batch.
InHand == CHOOSE c \in batch : \A d \in batch : c.id <= d.id

Event == <<InHand.id, cmd>>
Kind == InHand.cmds[cmd]

Later(a, b) == IF a >= b THEN a ELSE b

\* The daemon posts a comment; a failed post is ignored by every caller.
OwnPost(i) ==
    \/ /\ comments' = Append(comments, [issue |-> i, own |-> TRUE, upd |-> now,
                              edited |-> FALSE, gone |-> FALSE, cmds |-> <<>>])
       /\ UNCHANGED faults
    \/ /\ faults < MaxFaults
       /\ faults' = faults + 1
       /\ UNCHANGED comments

Fault ==
    /\ faults < MaxFaults
    /\ faults' = faults + 1

-----------------------------------------------------------------------------
Init ==
    /\ comments = <<>>
    /\ assignee = [i \in Issues |-> "none"]
    /\ now = 1
    /\ pc = "sleep"
    /\ cursor = 1 /\ started = 1
    /\ seen = {} /\ spawned = {} /\ earlier = {} /\ children = {} /\ abandoned = {}
    /\ page = 1 /\ batch = {} /\ more = FALSE /\ newest = 0 /\ cmd = 1
    /\ userPosts = 0 /\ edits = 0 /\ deletes = 0 /\ faults = 0 /\ restarts = 0

-----------------------------------------------------------------------------
(* The users, the other agents and the clock                               *)

daemonVars == <<pc, cursor, seen, pollVars, children, started, abandoned, spawned,
                earlier>>

Tick ==
    /\ now < MaxTime
    /\ now' = now + 1
    /\ UNCHANGED <<comments, assignee, daemonVars, budgets>>

UserComments ==
    /\ userPosts < MaxUserPosts
    /\ userPosts' = userPosts + 1
    /\ \E p \in UserPosts :
         comments' = Append(comments, [issue |-> p.issue, own |-> FALSE,
                       upd |-> now, edited |-> FALSE, gone |-> FALSE,
                       cmds |-> p.cmds])
    /\ UNCHANGED <<assignee, now, daemonVars, edits, deletes, faults, restarts>>

UserEdits ==
    /\ edits < MaxEdits
    /\ edits' = edits + 1
    /\ \E i \in DOMAIN comments, p \in UserPosts :
         /\ ~comments[i].own /\ ~comments[i].gone
         /\ p.issue = comments[i].issue
         /\ comments' = [comments EXCEPT ![i].upd = now, ![i].edited = TRUE,
                                         ![i].cmds = p.cmds]
    /\ UNCHANGED <<assignee, now, daemonVars, userPosts, deletes, faults, restarts>>

UserDeletes ==
    /\ deletes < MaxDeletes
    /\ deletes' = deletes + 1
    /\ \E i \in DOMAIN comments :
         /\ ~comments[i].gone
         /\ comments' = [comments EXCEPT ![i].gone = TRUE]
    /\ UNCHANGED <<assignee, now, daemonVars, userPosts, edits, faults, restarts>>

\* Another agent claims a free issue, or an owner gives its issue up.
OthersAssign ==
    /\ \E i \in Issues :
         \/ assignee[i] = "none" /\ assignee' = [assignee EXCEPT ![i] = "other"]
         \/ assignee[i] = "other" /\ assignee' = [assignee EXCEPT ![i] = "none"]
    /\ UNCHANGED <<comments, now, daemonVars, budgets>>

-----------------------------------------------------------------------------
(* poll_once                                                               *)

Wake ==
    /\ pc = "sleep"
    /\ pc' = "fetch"
    /\ page' = 1 /\ newest' = 0
    /\ UNCHANGED <<trackerVars, cursor, seen, batch, more, cmd, children,
                   started, abandoned, spawned, earlier, budgets>>

FetchPage ==
    /\ pc = "fetch"
    /\ pc' = "comment"
    /\ batch' = PageOf(cursor, page)
    /\ more' = (Cardinality(batch') = PageSize)
    /\ UNCHANGED <<trackerVars, cursor, seen, page, newest, cmd, children,
                   started, abandoned, spawned, earlier, budgets>>

\* A failed listing leaves poll_once and run_forever: the daemon ends.
FetchPageFails ==
    /\ pc = "fetch"
    /\ Fault
    /\ pc' = "down"
    /\ UNCHANGED <<trackerVars, cursor, seen, pollVars, children, started,
                   abandoned, spawned, earlier, userPosts, edits, deletes, restarts>>

NextPage ==
    /\ pc = "comment" /\ batch = {} /\ more
    /\ pc' = "fetch"
    /\ page' = page + 1
    /\ UNCHANGED <<trackerVars, cursor, seen, batch, more, newest, cmd,
                   children, started, abandoned, spawned, earlier, budgets>>

\* Mutant of EndPoll: the cursor moves to the end of the poll.
EndPollNow ==
    /\ pc = "comment" /\ batch = {} /\ ~more
    /\ pc' = "sleep"
    /\ cursor' = now
    /\ UNCHANGED <<trackerVars, seen, pollVars, children, started, abandoned,
                   spawned, earlier, budgets>>

EndPoll ==
    /\ pc = "comment" /\ batch = {} /\ ~more
    /\ pc' = "sleep"
    /\ cursor' = IF newest # 0 THEN newest ELSE cursor
    /\ UNCHANGED <<trackerVars, seen, pollVars, children, started, abandoned,
                   spawned, earlier, budgets>>

\* PollDecision::AdvanceCursor for the comment in hand.
Advance ==
    /\ pc' = "comment"
    /\ newest' = Later(newest, InHand.upd)
    /\ batch' = batch \ {InHand}

\* Mutant of RetryLater: the poll goes on and the cursor passes the comment.
RetryNever == Advance

\* PollDecision::RetryLater: the poll ends and the cursor stays.
RetryLater ==
    /\ pc' = "sleep"
    /\ batch' = {}
    /\ UNCHANGED newest

-----------------------------------------------------------------------------
(* process_comment                                                         *)

Ignored(c) == c.issue = NoIssue \/ c.own

IgnoreComment ==
    /\ pc = "comment" /\ batch # {}
    /\ Ignored(InHand)
    /\ Advance
    /\ UNCHANGED <<trackerVars, cursor, seen, page, more, cmd, children,
                   started, abandoned, spawned, earlier, budgets>>

FetchIssue ==
    /\ pc = "comment" /\ batch # {}
    /\ ~Ignored(InHand)
    /\ pc' = "command"
    /\ cmd' = 1
    /\ UNCHANGED <<trackerVars, cursor, seen, page, batch, more, newest,
                   children, started, abandoned, spawned, earlier, budgets>>

FetchIssueFails ==
    /\ pc = "comment" /\ batch # {}
    /\ ~Ignored(InHand)
    /\ Fault
    /\ \/ RetryLater /\ UNCHANGED abandoned           \* should_retry_issue_fetch
       \/ Advance /\ abandoned' = abandoned \cup {InHand.id}
    /\ UNCHANGED <<trackerVars, cursor, seen, page, more, cmd, children,
                   started, spawned, earlier, userPosts, edits, deletes, restarts>>

FinishComment ==
    /\ pc = "command" /\ cmd > Len(InHand.cmds)
    /\ Advance
    /\ UNCHANGED <<trackerVars, cursor, seen, page, more, cmd, children,
                   started, abandoned, spawned, earlier, budgets>>

AtCommand == pc = "command" /\ cmd <= Len(InHand.cmds)
ToClaim == AtCommand /\ Kind # "foreign" /\ Event \notin seen

SkipCommand ==
    /\ AtCommand /\ ~ToClaim
    /\ cmd' = cmd + 1
    /\ UNCHANGED <<trackerVars, pc, cursor, seen, page, batch, more, newest,
                   children, started, abandoned, spawned, earlier, budgets>>

\* Mutant of Claim: the event is not remembered.
ClaimForgets ==
    /\ ToClaim
    /\ assignee[InHand.issue] \in {"none", "self"}
    /\ assignee' = [assignee EXCEPT ![InHand.issue] = "self"]
    /\ pc' = "ack"
    /\ UNCHANGED <<comments, now, cursor, seen, pollVars, children, started,
                   abandoned, spawned, earlier, budgets>>

\* Mutant of Claim: AssignedToOther is taken for a success.
ClaimAnyway ==
    /\ ToClaim
    /\ assignee' = [assignee EXCEPT ![InHand.issue] = IF @ = "none" THEN "self" ELSE @]
    /\ seen' = seen \cup {Event}
    /\ pc' = "ack"
    /\ UNCHANGED <<comments, now, cursor, pollVars, children, started,
                   abandoned, spawned, earlier, budgets>>

\* ClaimResult::Success and ::AlreadyAssigned
Claim ==
    /\ ToClaim
    /\ assignee[InHand.issue] \in {"none", "self"}
    /\ assignee' = [assignee EXCEPT ![InHand.issue] = "self"]
    /\ seen' = seen \cup {Event}
    /\ pc' = "ack"
    /\ UNCHANGED <<comments, now, cursor, pollVars, children, started,
                   abandoned, spawned, earlier, budgets>>

\* ClaimResult::AssignedToOther, and with a fault ::NotFound, ::PermissionDenied
ClaimRefused ==
    /\ ToClaim
    /\ \/ assignee[InHand.issue] = "other" /\ UNCHANGED faults
       \/ Fault
    /\ seen' = seen \cup {Event}
    /\ cmd' = cmd + 1
    /\ UNCHANGED <<trackerVars, pc, cursor, page, batch, more, newest, children,
                   started, abandoned, spawned, earlier, userPosts, edits, deletes, restarts>>

\* ClaimResult::TransientFailure or a retryable error.  The tracker may have
\* assigned the issue before the answer was lost.
ClaimRetry ==
    /\ ToClaim
    /\ Fault
    /\ \/ UNCHANGED assignee
       \/ /\ assignee[InHand.issue] = "none"
          /\ assignee' = [assignee EXCEPT ![InHand.issue] = "self"]
    /\ RetryLater
    /\ UNCHANGED <<comments, now, cursor, seen, page, more, cmd, children,
                   started, abandoned, spawned, earlier, userPosts, edits, deletes, restarts>>

\* A claim error that is not retryable gives up the rest of the comment.
ClaimFails ==
    /\ ToClaim
    /\ Fault
    /\ Advance
    /\ abandoned' = abandoned \cup {InHand.id}
    /\ UNCHANGED <<trackerVars, cursor, seen, page, more, cmd, children,
                   started, spawned, earlier, userPosts, edits, deletes, restarts>>

-----------------------------------------------------------------------------
(* Acknowledgement and dispatch of the claimed command                     *)

NextCommand ==
    /\ pc' = "command"
    /\ cmd' = cmd + 1

PostAck ==
    /\ pc = "ack"
    /\ OwnPost(InHand.issue)
    /\ IF Kind = "claim_only" THEN NextCommand ELSE pc' = "dispatch" /\ UNCHANGED cmd
    /\ UNCHANGED <<assignee, now, cursor, seen, page, batch, more, newest, children,
                   started, abandoned, spawned, earlier, userPosts, edits, deletes, restarts>>

\* The text does not parse to an allowed command, or its route is not allowed.
Refuse ==
    /\ pc = "dispatch" /\ Kind \in {"invalid", "route_denied"}
    /\ pc' = "reply"
    /\ UNCHANGED <<trackerVars, cursor, seen, pollVars, children, started,
                   abandoned, spawned, earlier, budgets>>

\* handoff_issue_with_context: assign to the specialist, then post the note;
\* a failed assignment posts nothing and is ignored.
HandOff ==
    /\ pc = "dispatch" /\ Kind = "route"
    /\ \/ /\ assignee' = [assignee EXCEPT ![InHand.issue] = "other"]
          /\ pc' = "reply"
          /\ UNCHANGED <<cmd, faults>>
       \/ Fault /\ NextCommand /\ UNCHANGED assignee
    /\ UNCHANGED <<comments, now, cursor, seen, page, batch, more, newest, children,
                   started, abandoned, spawned, earlier, userPosts, edits, deletes, restarts>>

\* execute_dispatch or execute_agent_dispatch: the guard blocks the command or
\* the spawn fails, and the reply says so; or the child runs.
Spawn ==
    /\ pc = "dispatch" /\ Kind = "run"
    /\ \/ pc' = "reply" /\ UNCHANGED <<children, spawned>>
       \/ /\ pc' = "wait"
          /\ children' = children \cup {Event}
          /\ spawned' = spawned \cup {Event}
    /\ UNCHANGED <<trackerVars, cursor, seen, pollVars, started, abandoned, earlier,
                   budgets>>

ChildExits ==
    /\ \E e \in children :
         /\ children' = children \ {e}
         /\ pc' = IF pc = "wait" /\ e = Event THEN "reply" ELSE pc
    /\ UNCHANGED <<trackerVars, cursor, seen, pollVars, started, abandoned,
                   spawned, earlier, budgets>>

\* tokio::time::timeout drops the wait; nothing kills the child, whose Command
\* was not given kill_on_drop.
WaitTimesOut ==
    /\ pc = "wait"
    /\ pc' = "reply"
    /\ UNCHANGED <<trackerVars, cursor, seen, pollVars, children, started,
                   abandoned, spawned, earlier, budgets>>

PostReply ==
    /\ pc = "reply"
    /\ OwnPost(InHand.issue)
    /\ NextCommand
    /\ UNCHANGED <<assignee, now, cursor, seen, page, batch, more, newest, children,
                   started, abandoned, spawned, earlier, userPosts, edits, deletes, restarts>>

-----------------------------------------------------------------------------
(* The process                                                             *)

Crash ==
    /\ pc # "down" /\ restarts < MaxRestarts
    /\ pc' = "down"
    /\ UNCHANGED <<trackerVars, cursor, seen, pollVars, children, started,
                   abandoned, spawned, earlier, budgets>>

\* Mutant of Restart: the cursor survives, the seen events do not.
RestartKeepsCursor ==
    /\ pc = "down" /\ restarts < MaxRestarts
    /\ restarts' = restarts + 1
    /\ pc' = "sleep"
    /\ started' = now
    /\ seen' = {} /\ spawned' = {} /\ abandoned' = {}
    /\ earlier' = earlier \cup spawned
    /\ batch' = {} /\ page' = 1 /\ more' = FALSE /\ newest' = 0 /\ cmd' = 1
    /\ UNCHANGED <<trackerVars, cursor, children, userPosts, edits, deletes, faults>>

\* ListenerRuntime::new: the cursor and the seen events were only in memory.
Restart ==
    /\ pc = "down" /\ restarts < MaxRestarts
    /\ restarts' = restarts + 1
    /\ pc' = "sleep"
    /\ cursor' = now /\ started' = now
    /\ seen' = {} /\ spawned' = {} /\ abandoned' = {}
    /\ earlier' = earlier \cup spawned
    /\ batch' = {} /\ page' = 1 /\ more' = FALSE /\ newest' = 0 /\ cmd' = 1
    /\ UNCHANGED <<trackerVars, children, userPosts, edits, deletes, faults>>

PollOnce == Wake \/ FetchPage \/ FetchPageFails \/ NextPage \/ EndPoll

ProcessComment ==
    \/ IgnoreComment \/ FetchIssue \/ FetchIssueFails \/ FinishComment
    \/ SkipCommand \/ Claim \/ ClaimRefused \/ ClaimRetry \/ ClaimFails

Dispatch ==
    \/ PostAck \/ Refuse \/ HandOff \/ Spawn \/ WaitTimesOut \/ PostReply

Daemon == PollOnce \/ ProcessComment \/ Dispatch

Environment ==
    \/ Tick \/ UserComments \/ UserEdits \/ UserDeletes \/ OthersAssign

Next == Daemon \/ ChildExits \/ Crash \/ Restart \/ Environment

Spec == Init /\ [][Next]_vars

\* The runtime keeps polling the future of run_forever, every call to the
\* tracker has an answer or an error, and the timeout bounds the wait.
FairSpec == Spec /\ WF_vars(Daemon)

-----------------------------------------------------------------------------
(* Properties                                                              *)

Commands(c) == {k \in DOMAIN c.cmds : c.cmds[k] # "foreign"}

\* The step starts a process.
Starts == pc = "dispatch" /\ pc' = "wait"

\* Bounds of the ids and command indices a behaviour can reach: every user
\* comment draws at most four posts of the daemon.
Ids == 1..(5 * MaxUserPosts)
CommandIndices == UNION {DOMAIN p.cmds : p \in UserPosts}

\* A comment this incarnation has to serve, as its author left it.
Due(i) ==
    /\ i \in DOMAIN comments
    /\ ~comments[i].own /\ ~comments[i].gone /\ ~comments[i].edited
    /\ comments[i].issue # NoIssue
    /\ comments[i].upd >= started
    /\ i \notin abandoned

\* poll_once moves last_seen_at past a comment only when every command in it
\* addressed to this agent is decided: neither a retry in the middle of a page,
\* nor comments and edits that arrive between two page fetches, let the cursor
\* run over one.
NoSkippedCommand ==
    \A i \in DOMAIN comments :
        Due(i) /\ comments[i].upd < cursor =>
            \A k \in Commands(comments[i]) : <<i, k>> \in seen

\* However often a comment is fetched again after a retry, an edit or an equal
\* timestamp, an incarnation starts at most one process for a command.
AtMostOncePerRun == [][Starts => Event \notin spawned]_vars

\* The seen events and the cursor live in memory only; even so a restarted
\* daemon repeats a command of an earlier run only when its comment was posted
\* or edited in the tick of the restart or later.
NoReplayAfterRestart ==
    [][Starts /\ Event \in earlier => comments[InHand.id].upd >= started]_vars

\* After the issue is handed to a specialist or claimed by another agent the
\* daemon starts no process for it, whatever commands it still has in hand.
NoRunOnForeignIssue == [][Starts => assignee[InHand.issue] = "self"]_vars

\* last_seen_at never moves back while the daemon runs.
CursorMonotone == [][restarts' = restarts => cursor' >= cursor]_vars

\* Every command addressed to this agent is eventually decided, unless the
\* comment is edited or abandoned or the daemon ends: a retry is never the last
\* word on it.
EveryCommandDecided ==
    \A i \in Ids, k \in CommandIndices :
        (Due(i) /\ k \in Commands(comments[i]))
            ~> \/ <<i, k>> \in seen
               \/ ~Due(i)
               \/ pc = "down"

=============================================================================
