--------------------------- MODULE ListenerProofs ---------------------------
(***************************************************************************)
(* Theorems about module Listener, for every repository, page size and     *)
(* bound: the types, that an incarnation of the daemon never starts a      *)
(* second process for a command, that it starts none on an issue of        *)
(* another agent, that its cursor never moves back, that where nothing is  *)
(* deleted it passes no command undecided, and that a restart repeats      *)
(* nothing posted before it.                                               *)
(***************************************************************************)
EXTENDS Listener, FiniteSetTheorems, FunctionTheorems, WellFoundedInduction, TLAPS

\* Every nonempty set of numbers has a least element.
LEMMA LeastNumber ==
    ASSUME NEW T, T \subseteq Nat, T # {}
    PROVE  \E x \in T : \A y \in T : x <= y
<1> DEFINE R == {s \in Nat \X Nat : s[1] < s[2]}
<1>1. IsWellFoundedOn(R, Nat)
  BY NatLessThanWellFounded DEF OpToRel
<1>2. PICK x \in T : \A y \in T : ~(<<y, x>> \in R)
  <2> HIDE DEF R
  <2> QED BY <1>1, WFMin
<1>3. ASSUME NEW y \in T PROVE x <= y
  <2>1. x \in Nat /\ y \in Nat
    OBVIOUS
  <2>2. <<y, x>> \in Nat \X Nat
    BY <2>1
  <2>3. ~(y < x)
    BY <1>2, <2>2
  <2> QED BY <2>1, <2>3
<1> QED BY <1>3

\* The comment in hand is a comment of the batch.
LEMMA InHandInBatch ==
    ASSUME batch \subseteq Fetched, batch # {}
    PROVE  InHand \in batch
<1> DEFINE T == {c.id : c \in batch}
<1>1. T \subseteq Nat /\ T # {}
  BY DEF Fetched
<1>2. PICK x \in T : \A y \in T : x <= y
  <2> HIDE DEF T
  <2> QED BY <1>1, LeastNumber
<1>3. PICK c \in batch : c.id = x
  BY <1>2
<1>4. \A d \in batch : c.id <= d.id
  BY <1>2, <1>3
<1> QED BY <1>3, <1>4 DEF InHand

-----------------------------------------------------------------------------
(* The inductive invariant: what the daemon knows about the command it is   *)
(* about to run, and that everything in hand is at or after the cursor.     *)

Busy == pc \in {"command", "ack", "dispatch", "wait", "reply"}

HandInv == Busy => batch # {} /\ InHand.issue \in Issues

ClaimInv ==
    pc \in {"ack", "dispatch"} =>
        /\ assignee[InHand.issue] = "self"
        /\ Event \in seen
        /\ Event \notin spawned

CursorInv ==
    /\ \A c \in batch : c.upd >= cursor
    /\ newest # 0 => newest >= cursor

LInv == TypeOK /\ HandInv /\ ClaimInv /\ CursorInv /\ spawned \subseteq seen

LEMMA InitLInv == Init => LInv
<1> SUFFICES ASSUME Init PROVE LInv
  OBVIOUS
<1> USE DEF Init
<1>1. comments \in Seq(Comment)
  OBVIOUS
<1>2. TypeOK
  <2>1. assignee \in [Issues -> {"none", "self", "other"}] /\ pc \in PCs
    BY DEF PCs
  <2>2. /\ seen \subseteq Events /\ batch \subseteq Fetched /\ children \subseteq Events
        /\ abandoned \subseteq Nat /\ spawned \subseteq Events /\ earlier \subseteq Events
    OBVIOUS
  <2>3. /\ now \in Nat /\ cursor \in Nat /\ page \in Nat /\ newest \in Nat
        /\ cmd \in Nat \ {0} /\ started \in Nat
        /\ {userPosts, edits, deletes, faults, restarts} \subseteq Nat
    OBVIOUS
  <2>4. more \in BOOLEAN
    OBVIOUS
  <2> QED BY ONLY <1>1, <2>1, <2>2, <2>3, <2>4 DEF TypeOK
<1>3. HandInv /\ ClaimInv /\ CursorInv
  BY DEF HandInv, ClaimInv, CursorInv, Busy
<1> QED BY <1>2, <1>3 DEF LInv

-----------------------------------------------------------------------------
(* Types                                                                   *)

LEMMA PageOfType ==
    ASSUME TypeOK, NEW t \in Nat, NEW p \in Nat
    PROVE  /\ PageOf(t, p) \subseteq Fetched
           /\ \A c \in PageOf(t, p) : c.upd >= t
<1> SUFFICES ASSUME NEW c \in PageOf(t, p)
             PROVE  c \in Fetched /\ c.upd >= t
  OBVIOUS
<1>1. PICK i \in Listed(t) :
          c = [id |-> i, issue |-> comments[i].issue, own |-> comments[i].own,
               upd |-> comments[i].upd, cmds |-> comments[i].cmds]
  BY DEF PageOf
<1>2. i \in Nat /\ comments[i] \in Comment /\ comments[i].upd >= t
  BY <1>1 DEF Listed, TypeOK
<1> QED BY <1>1, <1>2 DEF Fetched, Comment

\* A post of the daemon is a comment like any other.
LEMMA OwnPostType ==
    ASSUME TypeOK, NEW i \in Issues, OwnPost(i)
    PROVE  comments' \in Seq(Comment) /\ faults' \in Nat
<1>1. faults \in Nat /\ now \in Nat
  BY DEF TypeOK
<1>2. CASE UNCHANGED faults /\ comments' = Append(comments, [issue |-> i, own |-> TRUE,
              upd |-> now, edited |-> FALSE, gone |-> FALSE, cmds |-> <<>>])
  <2>1. [issue |-> i, own |-> TRUE, upd |-> now, edited |-> FALSE, gone |-> FALSE,
         cmds |-> <<>>] \in Comment
    BY <1>1 DEF Comment
  <2> HIDE DEF Comment
  <2> QED BY <1>1, <1>2, <2>1 DEF TypeOK
<1>3. CASE UNCHANGED comments /\ faults' = faults + 1
  BY <1>1, <1>3 DEF TypeOK
<1> QED BY <1>2, <1>3 DEF OwnPost

LEMMA HandType ==
    ASSUME TypeOK, batch # {}
    PROVE  InHand \in batch /\ InHand \in Fetched /\ Event \in Events
<1>1. InHand \in batch
  BY InHandInBatch DEF TypeOK
<1>2. InHand \in Fetched
  BY <1>1 DEF TypeOK
<1>3. InHand.id \in Nat /\ cmd \in Nat
  BY <1>2 DEF TypeOK, Fetched
<1> QED BY <1>1, <1>2, <1>3 DEF Event, Events

LEMMA AdvanceType ==
    ASSUME TypeOK, batch # {}, Advance
    PROVE  /\ pc' = "comment"
           /\ newest' \in Nat
           /\ batch' \subseteq batch
           /\ newest' = InHand.upd \/ newest' = newest
<1>1. InHand.upd \in Nat /\ newest \in Nat
  BY HandType DEF TypeOK, Fetched
<1> QED BY <1>1 DEF Advance, Later

LEMMA TypeStep == TypeOK /\ HandInv /\ [Next]_vars => TypeOK'
<1> SUFFICES ASSUME TypeOK, HandInv, [Next]_vars PROVE TypeOK'
  OBVIOUS
<1> USE DEF TypeOK, PCs
<1>1. CASE Tick
  BY <1>1 DEF Tick, budgets, daemonVars, pollVars
<1>2. CASE UserComments
  <2>1. PICK p \in UserPosts :
            comments' = Append(comments, [issue |-> p.issue, own |-> FALSE, upd |-> now,
                                 edited |-> FALSE, gone |-> FALSE, cmds |-> p.cmds])
    BY <1>2 DEF UserComments
  <2>2. [issue |-> p.issue, own |-> FALSE, upd |-> now, edited |-> FALSE,
         gone |-> FALSE, cmds |-> p.cmds] \in Comment
    BY ListenerAssumption DEF Comment
  <2>3. comments' \in Seq(Comment)
    BY <2>1, <2>2
  <2> QED BY <1>2, <2>3 DEF UserComments, daemonVars, pollVars
<1>3. CASE UserEdits
  <2>1. PICK i \in DOMAIN comments, p \in UserPosts :
            comments' = [comments EXCEPT ![i].upd = now, ![i].edited = TRUE,
                                         ![i].cmds = p.cmds]
    BY <1>3 DEF UserEdits
  <2>2. [comments[i] EXCEPT !.upd = now, !.edited = TRUE, !.cmds = p.cmds] \in Comment
    <3>1. comments[i] \in Comment /\ p.cmds \in Seq(Kinds) /\ now \in Nat
      BY ListenerAssumption
    <3> QED BY <3>1 DEF Comment
  <2>3. comments' = [comments EXCEPT ![i] = [comments[i] EXCEPT !.upd = now,
                                                !.edited = TRUE, !.cmds = p.cmds]]
    BY <2>1
  <2>4. comments' \in Seq(Comment)
    BY <2>2, <2>3
  <2> QED BY <1>3, <2>4, SMTT(30) DEF UserEdits, daemonVars, pollVars
<1>4. CASE UserDeletes
  <2>1. PICK i \in DOMAIN comments : comments' = [comments EXCEPT ![i].gone = TRUE]
    BY <1>4 DEF UserDeletes
  <2>2. [comments[i] EXCEPT !.gone = TRUE] \in Comment
    <3>1. comments[i] \in Comment
      OBVIOUS
    <3> QED BY <3>1 DEF Comment
  <2>3. comments' = [comments EXCEPT ![i] = [comments[i] EXCEPT !.gone = TRUE]]
    BY <2>1
  <2>4. comments' \in Seq(Comment)
    BY <2>2, <2>3
  <2> QED BY <1>4, <2>4, SMTT(30) DEF UserDeletes, daemonVars, pollVars
<1>5. CASE OthersAssign
  BY <1>5 DEF OthersAssign, budgets, daemonVars, pollVars
<1>6. CASE Wake
  BY <1>6 DEF Wake, trackerVars, budgets
<1>7. CASE FetchPage
  <2>1. batch' \subseteq Fetched
    BY <1>7, PageOfType DEF FetchPage
  <2>2. more' \in BOOLEAN
    BY <1>7 DEF FetchPage
  <2> QED BY <1>7, <2>1, <2>2 DEF FetchPage, trackerVars, budgets
<1>8. CASE FetchPageFails
  BY <1>8 DEF FetchPageFails, trackerVars, pollVars, Fault
<1>9. CASE NextPage
  BY <1>9 DEF NextPage, trackerVars, budgets
<1>10. CASE EndPoll
  BY <1>10 DEF EndPoll, trackerVars, pollVars, budgets
<1>11. CASE IgnoreComment
  <2>1. batch # {} /\ Advance
    BY <1>11 DEF IgnoreComment
  <2> QED BY <1>11, <2>1, AdvanceType DEF IgnoreComment, trackerVars, budgets
<1>12. CASE FetchIssue
  BY <1>12 DEF FetchIssue, trackerVars, budgets
<1>13. CASE FetchIssueFails
  <2>1. batch # {}
    BY <1>13 DEF FetchIssueFails
  <2>2. CASE RetryLater /\ UNCHANGED abandoned
    BY <1>13, <2>2 DEF FetchIssueFails, Fault, RetryLater, trackerVars
  <2>3. CASE Advance /\ abandoned' = abandoned \cup {InHand.id}
    <3>1. InHand.id \in Nat
      BY <2>1, HandType DEF Fetched
    <3>2. abandoned' \subseteq Nat
      BY <2>3, <3>1
    <3>3. pc' = "comment" /\ newest' \in Nat /\ batch' \subseteq Fetched
      BY <2>1, <2>3, AdvanceType
    <3>4. faults' \in Nat
      BY <1>13 DEF FetchIssueFails, Fault
    <3> QED BY <1>13, <3>2, <3>3, <3>4 DEF FetchIssueFails, trackerVars
  <2> QED BY <1>13, <2>2, <2>3 DEF FetchIssueFails
<1>14. CASE FinishComment
  <2>1. batch # {} /\ Advance
    BY <1>14 DEF FinishComment, HandInv, Busy
  <2> QED BY <1>14, <2>1, AdvanceType DEF FinishComment, trackerVars, budgets
<1>15. CASE SkipCommand
  BY <1>15 DEF SkipCommand, trackerVars, budgets
<1>16. CASE Claim
  <2>1. batch # {} /\ InHand.issue \in Issues
    BY <1>16 DEF Claim, ToClaim, AtCommand, HandInv, Busy
  <2>2. Event \in Events
    BY <2>1, HandType
  <2>3. assignee' \in [Issues -> {"none", "self", "other"}]
    BY <1>16, <2>1 DEF Claim
  <2> QED BY <1>16, <2>2, <2>3 DEF Claim, pollVars, budgets
<1>17. CASE ClaimRefused
  <2>1. Event \in Events
    BY <1>17, HandType DEF ClaimRefused, ToClaim, AtCommand, HandInv, Busy
  <2>2. faults' \in Nat
    BY <1>17 DEF ClaimRefused, Fault
  <2> QED BY <1>17, <2>1, <2>2 DEF ClaimRefused, trackerVars
<1>18. CASE ClaimRetry
  BY <1>18 DEF ClaimRetry, Fault, RetryLater
<1>19. CASE ClaimFails
  <2>1. batch # {} /\ Advance
    BY <1>19 DEF ClaimFails, ToClaim, AtCommand, HandInv, Busy
  <2>2. InHand.id \in Nat
    BY <2>1, HandType DEF Fetched
  <2>3. abandoned' \subseteq Nat
    BY <1>19, <2>2 DEF ClaimFails
  <2>4. pc' = "comment" /\ newest' \in Nat /\ batch' \subseteq Fetched
    BY <2>1, AdvanceType
  <2>5. faults' \in Nat
    BY <1>19 DEF ClaimFails, Fault
  <2> QED BY <1>19, <2>3, <2>4, <2>5 DEF ClaimFails, trackerVars
<1>20. CASE PostAck
  <2>1. comments' \in Seq(Comment) /\ faults' \in Nat
    BY <1>20, OwnPostType DEF PostAck, HandInv, Busy
  <2> QED BY <1>20, <2>1 DEF PostAck, NextCommand
<1>21. CASE Refuse
  BY <1>21 DEF Refuse, trackerVars, pollVars, budgets
<1>22. CASE HandOff
  BY <1>22 DEF HandOff, Fault, NextCommand
<1>23. CASE Spawn
  <2>1. Event \in Events
    BY <1>23, HandType DEF Spawn, HandInv, Busy
  <2>2. children' \subseteq Events /\ spawned' \subseteq Events
    BY <1>23, <2>1 DEF Spawn
  <2> QED BY <1>23, <2>2 DEF Spawn, trackerVars, pollVars, budgets
<1>24. CASE ChildExits
  BY <1>24 DEF ChildExits, trackerVars, pollVars, budgets
<1>25. CASE WaitTimesOut
  BY <1>25 DEF WaitTimesOut, trackerVars, pollVars, budgets
<1>26. CASE PostReply
  <2>1. comments' \in Seq(Comment) /\ faults' \in Nat
    BY <1>26, OwnPostType DEF PostReply, HandInv, Busy
  <2> QED BY <1>26, <2>1 DEF PostReply, NextCommand
<1>27. CASE Crash
  BY <1>27 DEF Crash, trackerVars, pollVars, budgets
<1>28. CASE Restart
  <2>1. earlier' \subseteq Events
    BY <1>28 DEF Restart
  <2>2. more' \in BOOLEAN
    BY <1>28 DEF Restart
  <2> QED BY <1>28, <2>1, <2>2 DEF Restart, trackerVars
<1>29. CASE UNCHANGED vars
  BY <1>29 DEF vars, trackerVars, pollVars, budgets
<1> QED
  BY <1>1, <1>2, <1>3, <1>4, <1>5, <1>6, <1>7, <1>8, <1>9, <1>10, <1>11, <1>12, <1>13, <1>14, <1>15, <1>16, <1>17, <1>18, <1>19, <1>20, <1>21, <1>22, <1>23, <1>24, <1>25, <1>26, <1>27, <1>28, <1>29
     DEF Next, Daemon, PollOnce, ProcessComment, Dispatch, Environment

-----------------------------------------------------------------------------
(* The comment in hand                                                     *)

LEMMA HandUnchanged ==
    /\ UNCHANGED batch => InHand' = InHand
    /\ UNCHANGED <<batch, cmd>> => Event' = Event
BY DEF InHand, Event

LEMMA HandStep == TypeOK /\ HandInv /\ [Next]_vars => HandInv'
<1> SUFFICES ASSUME TypeOK, HandInv, [Next]_vars PROVE HandInv'
  OBVIOUS
<1> USE HandUnchanged DEF HandInv, Busy
<1>1. CASE Tick
  BY <1>1 DEF Tick, budgets, daemonVars, pollVars
<1>2. CASE UserComments
  BY <1>2 DEF UserComments, daemonVars, pollVars
<1>3. CASE UserEdits
  BY <1>3 DEF UserEdits, daemonVars, pollVars
<1>4. CASE UserDeletes
  BY <1>4 DEF UserDeletes, daemonVars, pollVars
<1>5. CASE OthersAssign
  BY <1>5 DEF OthersAssign, budgets, daemonVars, pollVars
<1>6. CASE Wake
  BY <1>6 DEF Wake, trackerVars, budgets
<1>7. CASE FetchPage
  BY <1>7 DEF FetchPage, trackerVars, budgets
<1>8. CASE FetchPageFails
  BY <1>8 DEF FetchPageFails, trackerVars, pollVars
<1>9. CASE NextPage
  BY <1>9 DEF NextPage, trackerVars, budgets
<1>10. CASE EndPoll
  BY <1>10 DEF EndPoll, trackerVars, pollVars, budgets
<1>11. CASE IgnoreComment
  BY <1>11 DEF IgnoreComment, trackerVars, budgets, Advance
<1>12. CASE FetchIssue
  <2>1. batch # {} /\ InHand.issue # NoIssue
    BY <1>12 DEF FetchIssue, Ignored
  <2>2. InHand.issue \in Issues
    BY <2>1, HandType DEF Fetched
  <2> QED BY <1>12, <2>1, <2>2 DEF FetchIssue
<1>13. CASE FetchIssueFails
  BY <1>13 DEF FetchIssueFails, trackerVars, Advance, RetryLater
<1>14. CASE FinishComment
  BY <1>14 DEF FinishComment, trackerVars, budgets, Advance
<1>15. CASE SkipCommand
  BY <1>15 DEF SkipCommand, trackerVars, budgets, ToClaim, AtCommand
<1>16. CASE Claim
  BY <1>16 DEF Claim, pollVars, budgets, ToClaim, AtCommand
<1>17. CASE ClaimRefused
  BY <1>17 DEF ClaimRefused, trackerVars, ToClaim, AtCommand
<1>18. CASE ClaimRetry
  BY <1>18 DEF ClaimRetry, RetryLater, ToClaim, AtCommand
<1>19. CASE ClaimFails
  BY <1>19 DEF ClaimFails, trackerVars, Advance, ToClaim, AtCommand
<1>20. CASE PostAck
  BY <1>20 DEF PostAck, NextCommand
<1>21. CASE Refuse
  BY <1>21 DEF Refuse, trackerVars, pollVars, budgets
<1>22. CASE HandOff
  BY <1>22 DEF HandOff, NextCommand
<1>23. CASE Spawn
  BY <1>23 DEF Spawn, trackerVars, pollVars, budgets
<1>24. CASE ChildExits
  BY <1>24 DEF ChildExits, trackerVars, pollVars, budgets
<1>25. CASE WaitTimesOut
  BY <1>25 DEF WaitTimesOut, trackerVars, pollVars, budgets
<1>26. CASE PostReply
  BY <1>26 DEF PostReply, NextCommand
<1>27. CASE Crash
  BY <1>27 DEF Crash, trackerVars, pollVars, budgets
<1>28. CASE Restart
  BY <1>28 DEF Restart, trackerVars
<1>29. CASE UNCHANGED vars
  BY <1>29 DEF vars, pollVars
<1> QED
  BY <1>1, <1>2, <1>3, <1>4, <1>5, <1>6, <1>7, <1>8, <1>9, <1>10, <1>11, <1>12, <1>13, <1>14, <1>15, <1>16, <1>17, <1>18, <1>19, <1>20, <1>21, <1>22, <1>23, <1>24, <1>25, <1>26, <1>27, <1>28, <1>29
     DEF Next, Daemon, PollOnce, ProcessComment, Dispatch, Environment

-----------------------------------------------------------------------------
(* The claim behind the command that is about to run                       *)

LEMMA ClaimStep ==
    TypeOK /\ HandInv /\ ClaimInv /\ spawned \subseteq seen /\ [Next]_vars
        => ClaimInv' /\ (spawned \subseteq seen)'
<1> SUFFICES ASSUME TypeOK, HandInv, ClaimInv, spawned \subseteq seen, [Next]_vars
             PROVE  ClaimInv' /\ (spawned \subseteq seen)'
  OBVIOUS
<1> USE HandUnchanged DEF ClaimInv
<1>1. CASE Tick
  BY <1>1 DEF Tick, budgets, daemonVars, pollVars
<1>2. CASE UserComments
  BY <1>2 DEF UserComments, daemonVars, pollVars
<1>3. CASE UserEdits
  BY <1>3 DEF UserEdits, daemonVars, pollVars
<1>4. CASE UserDeletes
  BY <1>4 DEF UserDeletes, daemonVars, pollVars
<1>5. CASE OthersAssign
  <2>1. \A i \in Issues : assignee[i] = "self" => assignee'[i] = "self"
    BY <1>5 DEF OthersAssign, TypeOK
  <2>2. pc \in {"ack", "dispatch"} => InHand.issue \in Issues
    BY DEF HandInv, Busy
  <2> QED BY <1>5, <2>1, <2>2 DEF OthersAssign, daemonVars, pollVars
<1>6. CASE Wake
  BY <1>6 DEF Wake, trackerVars, budgets
<1>7. CASE FetchPage
  BY <1>7 DEF FetchPage, trackerVars, budgets
<1>8. CASE FetchPageFails
  BY <1>8 DEF FetchPageFails, trackerVars, pollVars
<1>9. CASE NextPage
  BY <1>9 DEF NextPage, trackerVars, budgets
<1>10. CASE EndPoll
  BY <1>10 DEF EndPoll, trackerVars, pollVars, budgets
<1>11. CASE IgnoreComment
  BY <1>11 DEF IgnoreComment, trackerVars, budgets, Advance
<1>12. CASE FetchIssue
  BY <1>12 DEF FetchIssue, trackerVars, budgets
<1>13. CASE FetchIssueFails
  BY <1>13 DEF FetchIssueFails, trackerVars, Advance, RetryLater
<1>14. CASE FinishComment
  BY <1>14 DEF FinishComment, trackerVars, budgets, Advance
<1>15. CASE SkipCommand
  BY <1>15 DEF SkipCommand, trackerVars, budgets, ToClaim, AtCommand
<1>16. CASE Claim
  <2>1. InHand.issue \in Issues
    BY <1>16 DEF Claim, ToClaim, AtCommand, HandInv, Busy
  <2>2. assignee'[InHand.issue] = "self"
    BY <1>16, <2>1 DEF Claim, TypeOK
  <2>3. Event \notin spawned
    BY <1>16 DEF Claim, ToClaim
  <2> QED BY <1>16, <2>2, <2>3 DEF Claim, pollVars
<1>17. CASE ClaimRefused
  BY <1>17 DEF ClaimRefused, trackerVars, ToClaim, AtCommand
<1>18. CASE ClaimRetry
  BY <1>18 DEF ClaimRetry, RetryLater, ToClaim, AtCommand
<1>19. CASE ClaimFails
  BY <1>19 DEF ClaimFails, trackerVars, Advance, ToClaim, AtCommand
<1>20. CASE PostAck
  BY <1>20 DEF PostAck, NextCommand
<1>21. CASE Refuse
  BY <1>21 DEF Refuse, trackerVars, pollVars, budgets
<1>22. CASE HandOff
  BY <1>22 DEF HandOff, NextCommand
<1>23. CASE Spawn
  BY <1>23 DEF Spawn, trackerVars, pollVars, budgets
<1>24. CASE ChildExits
  BY <1>24 DEF ChildExits, trackerVars, pollVars, budgets
<1>25. CASE WaitTimesOut
  BY <1>25 DEF WaitTimesOut, trackerVars, pollVars, budgets
<1>26. CASE PostReply
  BY <1>26 DEF PostReply, NextCommand
<1>27. CASE Crash
  BY <1>27 DEF Crash, trackerVars, pollVars, budgets
<1>28. CASE Restart
  BY <1>28 DEF Restart, trackerVars
<1>29. CASE UNCHANGED vars
  BY <1>29 DEF vars, trackerVars, pollVars
<1> QED
  BY <1>1, <1>2, <1>3, <1>4, <1>5, <1>6, <1>7, <1>8, <1>9, <1>10, <1>11, <1>12, <1>13, <1>14, <1>15, <1>16, <1>17, <1>18, <1>19, <1>20, <1>21, <1>22, <1>23, <1>24, <1>25, <1>26, <1>27, <1>28, <1>29
     DEF Next, Daemon, PollOnce, ProcessComment, Dispatch, Environment

-----------------------------------------------------------------------------
(* Everything in hand is at or after the cursor                            *)

LEMMA CursorStep ==
    TypeOK /\ HandInv /\ CursorInv /\ [Next]_vars
        => CursorInv' /\ (restarts' = restarts => cursor' >= cursor)
<1> SUFFICES ASSUME TypeOK, HandInv, CursorInv, [Next]_vars
             PROVE  CursorInv' /\ (restarts' = restarts => cursor' >= cursor)
  OBVIOUS
<1> USE DEF CursorInv
<1>0. cursor \in Nat /\ newest \in Nat /\ now \in Nat
  BY DEF TypeOK
<1>1. CASE Tick
  BY <1>0, <1>1 DEF Tick, budgets, daemonVars, pollVars
<1>2. CASE UserComments
  BY <1>0, <1>2 DEF UserComments, daemonVars, pollVars
<1>3. CASE UserEdits
  BY <1>0, <1>3 DEF UserEdits, daemonVars, pollVars
<1>4. CASE UserDeletes
  BY <1>0, <1>4 DEF UserDeletes, daemonVars, pollVars
<1>5. CASE OthersAssign
  BY <1>0, <1>5 DEF OthersAssign, budgets, daemonVars, pollVars
<1>6. CASE Wake
  BY <1>0, <1>6 DEF Wake, trackerVars, budgets
<1>7. CASE FetchPage
  <2>1. \A c \in batch' : c.upd >= cursor
    BY <1>7, PageOfType DEF FetchPage, TypeOK
  <2> QED BY <1>0, <1>7, <2>1 DEF FetchPage
<1>8. CASE FetchPageFails
  BY <1>0, <1>8 DEF FetchPageFails, trackerVars, pollVars
<1>9. CASE NextPage
  BY <1>0, <1>9 DEF NextPage, trackerVars, budgets
<1>10. CASE EndPoll
  BY <1>0, <1>10 DEF EndPoll, trackerVars, pollVars, budgets
<1>11. CASE IgnoreComment
  <2>1. batch # {} /\ Advance
    BY <1>11 DEF IgnoreComment
  <2> QED BY <1>0, <1>11, <2>1, AdvanceType, HandType DEF IgnoreComment
<1>12. CASE FetchIssue
  BY <1>0, <1>12 DEF FetchIssue, trackerVars, budgets
<1>13. CASE FetchIssueFails
  <2>1. batch # {} /\ (RetryLater \/ Advance) /\ UNCHANGED <<cursor, started>>
    BY <1>13 DEF FetchIssueFails
  <2>2. CASE RetryLater
    BY <1>0, <2>1, <2>2 DEF RetryLater
  <2>3. CASE Advance
    BY <1>0, <2>1, <2>3, AdvanceType, HandType
  <2> QED BY <2>1, <2>2, <2>3
<1>14. CASE FinishComment
  <2>1. batch # {} /\ Advance
    BY <1>14 DEF FinishComment, HandInv, Busy
  <2> QED BY <1>0, <1>14, <2>1, AdvanceType, HandType DEF FinishComment
<1>15. CASE SkipCommand
  BY <1>0, <1>15 DEF SkipCommand, trackerVars, budgets
<1>16. CASE Claim
  BY <1>0, <1>16 DEF Claim, pollVars, budgets
<1>17. CASE ClaimRefused
  BY <1>0, <1>17 DEF ClaimRefused, trackerVars
<1>18. CASE ClaimRetry
  BY <1>0, <1>18 DEF ClaimRetry, RetryLater
<1>19. CASE ClaimFails
  <2>1. batch # {} /\ Advance
    BY <1>19 DEF ClaimFails, HandInv, Busy, ToClaim, AtCommand
  <2> QED BY <1>0, <1>19, <2>1, AdvanceType, HandType DEF ClaimFails
<1>20. CASE PostAck
  BY <1>0, <1>20 DEF PostAck, NextCommand
<1>21. CASE Refuse
  BY <1>0, <1>21 DEF Refuse, trackerVars, pollVars, budgets
<1>22. CASE HandOff
  BY <1>0, <1>22 DEF HandOff, NextCommand
<1>23. CASE Spawn
  BY <1>0, <1>23 DEF Spawn, trackerVars, pollVars, budgets
<1>24. CASE ChildExits
  BY <1>0, <1>24 DEF ChildExits, trackerVars, pollVars, budgets
<1>25. CASE WaitTimesOut
  BY <1>0, <1>25 DEF WaitTimesOut, trackerVars, pollVars, budgets
<1>26. CASE PostReply
  BY <1>0, <1>26 DEF PostReply, NextCommand
<1>27. CASE Crash
  BY <1>0, <1>27 DEF Crash, trackerVars, pollVars, budgets
<1>28. CASE Restart
  BY <1>0, <1>28 DEF Restart, TypeOK
<1>29. CASE UNCHANGED vars
  BY <1>0, <1>29 DEF vars, pollVars
<1> QED
  BY <1>1, <1>2, <1>3, <1>4, <1>5, <1>6, <1>7, <1>8, <1>9, <1>10, <1>11, <1>12, <1>13, <1>14, <1>15, <1>16, <1>17, <1>18, <1>19, <1>20, <1>21, <1>22, <1>23, <1>24, <1>25, <1>26, <1>27, <1>28, <1>29
     DEF Next, Daemon, PollOnce, ProcessComment, Dispatch, Environment

-----------------------------------------------------------------------------
LEMMA Invariance == Spec => []LInv
<1>1. LInv /\ [Next]_vars => LInv'
  BY TypeStep, HandStep, ClaimStep, CursorStep DEF LInv
<1> QED BY InitLInv, <1>1, PTL DEF Spec

\* The variables keep their types.
THEOREM TypeCorrect == Spec => []TypeOK
<1>1. LInv => TypeOK
  BY DEF LInv
<1> QED BY Invariance, <1>1, PTL

\* An incarnation of the daemon starts at most one process for a command: the
\* event is remembered before the dispatch, and the claim checks it.
THEOREM AtMostOnce == Spec => AtMostOncePerRun
<1>1. LInv /\ [Next]_vars => [Starts => Event \notin spawned]_vars
  BY DEF LInv, ClaimInv, Starts
<1> QED BY Invariance, <1>1, PTL DEF Spec, AtMostOncePerRun

\* No process is started for an issue that is not assigned to this agent.
THEOREM OwnIssuesOnly == Spec => NoRunOnForeignIssue
<1>1. LInv /\ [Next]_vars => [Starts => assignee[InHand.issue] = "self"]_vars
  BY DEF LInv, ClaimInv, Starts
<1> QED BY Invariance, <1>1, PTL DEF Spec, NoRunOnForeignIssue

\* The cursor of a running daemon never moves back.
THEOREM CursorNeverBack == Spec => CursorMonotone
<1>1. LInv /\ [Next]_vars => [restarts' = restarts => cursor' >= cursor]_vars
  BY CursorStep DEF LInv
<1> QED BY Invariance, <1>1, PTL DEF Spec, CursorMonotone

-----------------------------------------------------------------------------
(* Nothing is skipped.  What is undecided is at or after the cursor; while   *)
(* pages are read it is in the batch, on a page still to come, or younger    *)
(* than everything that was read.                                            *)

\* Times never lie ahead of the clock, and a comment is never older than the
\* copy of it that was read.
TimeInv ==
    /\ started <= cursor /\ cursor <= now /\ newest <= now
    /\ \A i \in DOMAIN comments : comments[i].upd <= now
    /\ \A c \in batch : c.id \in DOMAIN comments /\ c.upd <= comments[c.id].upd

\* The commands before the one in hand are decided.
ServedInv ==
    /\ Busy => \A k \in DOMAIN InHand.cmds :
                  k < cmd /\ InHand.cmds[k] # "foreign" => <<InHand.id, k>> \in seen
    /\ pc \in {"wait", "reply"} => Event \in seen

Undecided(i) == Due(i) /\ \E k \in Commands(comments[i]) : <<i, k>> \notin seen

\* Comment i as a page returns it now.
Copy(i) == [id |-> i, issue |-> comments[i].issue, own |-> comments[i].own,
            upd |-> comments[i].upd, cmds |-> comments[i].cmds]

Younger(i) == comments[i].upd >= newest /\ \A c \in batch : comments[i].upd >= c.upd

Reading == pc = "comment" \/ Busy

Place(i) ==
    /\ comments[i].upd >= cursor
    /\ pc = "fetch" => Rank(i, cursor) > (page - 1) * PageSize
    /\ Reading => \/ Copy(i) \in batch
                  \/ more /\ Rank(i, cursor) > page * PageSize
                  \/ ~more /\ Younger(i)

\* The pages before the one that is fetched next are full.
FullInv ==
    /\ page >= 1
    /\ pc = "fetch" => Cardinality(Listed(cursor)) >= (page - 1) * PageSize
    /\ Reading /\ more => Cardinality(Listed(cursor)) >= page * PageSize

PollInv == FullInv /\ \A i \in DOMAIN comments : Undecided(i) => Place(i)

-----------------------------------------------------------------------------
(* Ranks and pages.                                                          *)

CountTo(S, i) == Cardinality({j \in S : j <= i})

LEMMA CountToIs ==
    ASSUME NEW S \in SUBSET Nat, IsFiniteSet(S)
    PROVE  /\ Cardinality(S) \in Nat
           /\ \A i \in Nat : CountTo(S, i) \in Nat /\ CountTo(S, i) <= Cardinality(S)
           /\ \A i \in S : CountTo(S, i) >= 1
           /\ \A i, j \in S : i < j => CountTo(S, i) < CountTo(S, j)
<1>1. Cardinality(S) \in Nat
  BY FS_CardinalityType
<1>2. ASSUME NEW i \in Nat
      PROVE  /\ IsFiniteSet({j \in S : j <= i})
             /\ CountTo(S, i) \in Nat /\ CountTo(S, i) <= Cardinality(S)
  <2>1. {j \in S : j <= i} \in SUBSET S
    OBVIOUS
  <2> QED BY <2>1, FS_Subset, FS_CardinalityType DEF CountTo
<1>3. ASSUME NEW i \in S PROVE CountTo(S, i) >= 1
  <2>1. i \in {j \in S : j <= i} /\ i \in Nat
    OBVIOUS
  <2>2. CountTo(S, i) # 0
    BY <1>2, <2>1, FS_EmptySet DEF CountTo
  <2>3. CountTo(S, i) \in Nat
    BY <1>2, <2>1
  <2> QED BY <2>2, <2>3
<1>4. ASSUME NEW i \in S, NEW j \in S, i < j PROVE CountTo(S, i) < CountTo(S, j)
  <2> DEFINE A == {k \in S : k <= i}
             B == {k \in S : k <= j}
  <2>1. IsFiniteSet(B) /\ Cardinality(A) \in Nat /\ Cardinality(B) \in Nat
    BY <1>2 DEF CountTo
  <2>2. A \in SUBSET B /\ j \in B /\ j \notin A
    <3>1. S \subseteq Nat
      OBVIOUS
    <3>2. \A k \in S : k <= i => k <= j
      BY <1>4, <3>1
    <3>3. j <= j /\ ~(j <= i)
      BY <1>4, <3>1
    <3> QED BY <3>2, <3>3
  <2>3. Cardinality(A) <= Cardinality(B) /\ Cardinality(A) # Cardinality(B)
    <3> HIDE DEF A, B
    <3> QED BY <2>1, <2>2, FS_Subset
  <2> QED BY <2>1, <2>3 DEF CountTo
<1> QED BY <1>1, <1>2, <1>3, <1>4

LEMMA CountGrows ==
    ASSUME NEW T \in SUBSET Nat, IsFiniteSet(T), NEW S \in SUBSET T, NEW i \in Nat
    PROVE  CountTo(S, i) <= CountTo(T, i) /\ Cardinality(S) <= Cardinality(T)
<1> DEFINE A == {k \in S : k <= i}
           B == {k \in T : k <= i}
<1>1. B \in SUBSET T /\ A \in SUBSET B
  OBVIOUS
<1>2. IsFiniteSet(B)
  BY <1>1, FS_Subset
<1>3. Cardinality(A) <= Cardinality(B)
  <2> HIDE DEF A, B
  <2> QED BY <1>1, <1>2, FS_Subset
<1> QED BY <1>3, FS_Subset DEF CountTo

\* Every position is some element's.
LEMMA CountOnto ==
    ASSUME NEW S \in SUBSET Nat, IsFiniteSet(S), NEW m \in 1 .. Cardinality(S)
    PROVE  \E i \in S : CountTo(S, i) = m
<1> DEFINE N == Cardinality(S)
           f == [i \in S |-> CountTo(S, i)]
<1>1. N \in Nat
  BY CountToIs
<1>2. f \in [S -> 1 .. N]
  BY <1>1, CountToIs
<1>3. \A i, j \in S : f[i] = f[j] => i = j
  <2> SUFFICES ASSUME NEW i \in S, NEW j \in S, CountTo(S, i) = CountTo(S, j), i # j
               PROVE  FALSE
    OBVIOUS
  <2>1. i \in Nat /\ j \in Nat
    OBVIOUS
  <2>2. i < j \/ j < i
    BY <2>1
  <2>3. CountTo(S, i) \in Nat /\ CountTo(S, j) \in Nat
    BY <2>1, CountToIs
  <2> QED BY <2>2, <2>3, CountToIs
<1>4. f \in Injection(S, 1 .. N)
  <2> HIDE DEF f
  <2> QED BY <1>2, <1>3, Fun_IsInj
<1>5. IsFiniteSet(1 .. N) /\ Cardinality(1 .. N) = N
  BY <1>1, FS_Interval
<1>6. f \in Surjection(S, 1 .. N)
  <2> HIDE DEF f
  <2> QED BY <1>4, <1>5, FS_Injection
<1>7. \A n \in 1 .. N : \E i \in S : f[i] = n
  <2> HIDE DEF f, N
  <2> QED BY <1>6, Fun_SurjectionProperties
<1>8. PICK i \in S : f[i] = m
  BY <1>7
<1> QED BY <1>8

LEMMA ListedIs ==
    TypeOK => \A t \in Nat : /\ Listed(t) \subseteq 1 .. Len(comments)
                            /\ Listed(t) \in SUBSET Nat
                            /\ IsFiniteSet(Listed(t))
<1> SUFFICES ASSUME TypeOK, NEW t \in Nat
             PROVE  /\ Listed(t) \subseteq 1 .. Len(comments)
                    /\ Listed(t) \in SUBSET Nat
                    /\ IsFiniteSet(Listed(t))
  OBVIOUS
<1>1. Len(comments) \in Nat /\ DOMAIN comments = 1 .. Len(comments)
  BY DEF TypeOK
<1>2. Listed(t) \in SUBSET (1 .. Len(comments))
  BY <1>1 DEF Listed
<1>3. IsFiniteSet(1 .. Len(comments))
  BY <1>1, FS_Interval
<1> QED BY <1>1, <1>2, <1>3, FS_Subset

LEMMA RankIs == \A i, t : Rank(i, t) = CountTo(Listed(t), i)
BY DEF Rank, CountTo

LEMMA PageBounds ==
    ASSUME NEW p \in Nat, p >= 1
    PROVE  /\ (p - 1) * PageSize \in Nat /\ p * PageSize \in Nat
           /\ p * PageSize = (p - 1) * PageSize + PageSize
BY ListenerAssumption

\* A page is full exactly if the list goes on to its end.
LEMMA FullPage ==
    ASSUME TypeOK, NEW t \in Nat, NEW p \in Nat, p >= 1
    PROVE  Cardinality(PageOf(t, p)) = PageSize
               <=> Cardinality(Listed(t)) >= p * PageSize
<1> DEFINE L == Listed(t)
           lo == (p - 1) * PageSize
           hi == p * PageSize
           P == PageOf(t, p)
           h == [c \in P |-> CountTo(L, c.id)]
<1>1. lo \in Nat /\ hi \in Nat /\ hi = lo + PageSize /\ PageSize \in Nat /\ PageSize >= 1
  BY PageBounds, ListenerAssumption
<1>2. L \in SUBSET Nat /\ IsFiniteSet(L)
  BY ListedIs
<1>3. \A c : c \in P <=> \E i \in L : /\ c = Copy(i)
                                     /\ lo < CountTo(L, i) /\ CountTo(L, i) <= hi
  BY RankIs DEF PageOf, OnPage, Copy
<1>4. \A i : Copy(i).id = i
  BY DEF Copy
<1> HIDE DEF P, L, lo, hi
<1>5. ASSUME NEW c \in P
      PROVE  c.id \in L /\ c = Copy(c.id) /\ CountTo(L, c.id) \in (lo + 1) .. hi
  <2>1. PICK i \in L : c = Copy(i) /\ lo < CountTo(L, i) /\ CountTo(L, i) <= hi
    BY <1>3
  <2>2. CountTo(L, i) \in Nat
    BY <1>2, CountToIs
  <2> QED BY <1>1, <1>4, <2>1, <2>2
<1>6. h \in [P -> (lo + 1) .. hi]
  BY <1>5
<1>7. \A c, d \in P : h[c] = h[d] => c = d
  <2> SUFFICES ASSUME NEW c \in P, NEW d \in P, CountTo(L, c.id) = CountTo(L, d.id)
               PROVE  c = d
    OBVIOUS
  <2>1. c.id \in L /\ d.id \in L /\ c.id \in Nat /\ d.id \in Nat
    BY <1>2, <1>5
  <2>2. CountTo(L, c.id) \in Nat
    BY <1>2, <2>1, CountToIs
  <2>3. ~(c.id < d.id) /\ ~(d.id < c.id)
    BY <1>2, <2>1, <2>2, CountToIs
  <2>4. c.id = d.id
    BY <2>1, <2>3
  <2> QED BY <1>5, <2>4
<1>8. h \in Injection(P, (lo + 1) .. hi)
  <2> HIDE DEF h
  <2> QED BY <1>6, <1>7, Fun_IsInj
<1>9. IsFiniteSet((lo + 1) .. hi) /\ Cardinality((lo + 1) .. hi) = PageSize
  <2>1. IsFiniteSet((lo + 1) .. hi)
        /\ Cardinality((lo + 1) .. hi) = IF lo + 1 > hi THEN 0 ELSE hi - (lo + 1) + 1
    BY <1>1, FS_Interval
  <2> QED BY <1>1, <2>1
<1>10. Cardinality(P) = PageSize <=> h \in Surjection(P, (lo + 1) .. hi)
  <2> HIDE DEF h
  <2> QED BY <1>8, <1>9, FS_Injection
<1>11. ASSUME h \in Surjection(P, (lo + 1) .. hi) PROVE Cardinality(L) >= hi
  <2>1. hi \in (lo + 1) .. hi
    BY <1>1
  <2>2. \A m \in (lo + 1) .. hi : \E c \in P : h[c] = m
    <3> HIDE DEF h
    <3> QED BY <1>11, Fun_SurjectionProperties
  <2>5. PICK c \in P : h[c] = hi
    BY <2>1, <2>2
  <2>3. CountTo(L, c.id) = hi /\ c.id \in Nat
    BY <1>2, <1>5, <2>5
  <2>4. CountTo(L, c.id) <= Cardinality(L)
    BY <1>2, <2>3, CountToIs
  <2> QED BY <2>3, <2>4
<1>12. ASSUME Cardinality(L) >= hi PROVE h \in Surjection(P, (lo + 1) .. hi)
  <2>1. ASSUME NEW m \in (lo + 1) .. hi PROVE \E c \in P : h[c] = m
    <3>1. m \in 1 .. Cardinality(L)
      BY <1>1, <1>2, <1>12, CountToIs
    <3>2. PICK i \in L : CountTo(L, i) = m
      BY <1>2, <3>1, CountOnto
    <3>3. Copy(i) \in P
      BY <1>1, <1>3, <3>2
    <3> QED BY <1>4, <3>2, <3>3
  <2> HIDE DEF h
  <2> QED BY <1>6, <2>1, Fun_IsSurj
<1> QED BY <1>10, <1>11, <1>12 DEF P, L, hi

-----------------------------------------------------------------------------
(* What a step does to the comments and to the position of the daemon.       *)

LEMMA QuietStep ==
    ASSUME [Next]_vars, ~(UserComments \/ UserEdits \/ UserDeletes \/ PostAck \/ PostReply)
    PROVE  UNCHANGED comments
BY DEF Next, Daemon, PollOnce, ProcessComment, Dispatch, Environment, Tick, OthersAssign, Wake,
       FetchPage, FetchPageFails, NextPage, EndPoll, IgnoreComment, FetchIssue,
       FetchIssueFails, FinishComment, SkipCommand, Claim, ClaimRefused, ClaimRetry,
       ClaimFails, Refuse, HandOff, Spawn, ChildExits, WaitTimesOut, Crash, Restart,
       trackerVars, vars

\* Comments are posted and edited now, and only a user who deletes takes one away.
LEMMA CommentsStep ==
    ASSUME TypeOK, [Next]_vars
    PROVE  /\ Len(comments) \in Nat /\ DOMAIN comments = 1 .. Len(comments)
           /\ \/ DOMAIN comments' = DOMAIN comments
              \/ DOMAIN comments' = 1 .. Len(comments) + 1
           /\ \A i \in DOMAIN comments :
                 \/ comments'[i] = comments[i]
                 \/ /\ comments'[i].edited /\ comments'[i].upd = now
                    /\ comments'[i].gone = comments[i].gone
                 \/ /\ MaxDeletes # 0
                    /\ comments'[i].gone /\ comments'[i].upd = comments[i].upd
           /\ \A i \in DOMAIN comments' \ DOMAIN comments :
                 comments'[i].upd = now /\ ~comments'[i].gone
<1>1. Len(comments) \in Nat /\ DOMAIN comments = 1 .. Len(comments)
  BY DEF TypeOK
<1>2. ASSUME NEW c, comments' = Append(comments, c), c.upd = now, ~c.gone
      PROVE  /\ DOMAIN comments' = 1 .. Len(comments) + 1
             /\ \A i \in DOMAIN comments : comments'[i] = comments[i]
             /\ \A i \in DOMAIN comments' \ DOMAIN comments :
                   comments'[i].upd = now /\ ~comments'[i].gone
  BY <1>1, <1>2 DEF TypeOK
<1>3. CASE UNCHANGED comments
  BY <1>1, <1>3
<1>4. CASE UserComments
  BY <1>1, <1>2, <1>4 DEF UserComments
<1>5. CASE PostAck \/ PostReply
  <2>1. OwnPost(InHand.issue)
    BY <1>5 DEF PostAck, PostReply
  <2> QED BY <1>1, <1>2, <1>3, <2>1 DEF OwnPost
<1>6. CASE UserEdits
  <2>1. PICK i \in DOMAIN comments, p \in UserPosts :
            comments' = [comments EXCEPT ![i].upd = now, ![i].edited = TRUE,
                                         ![i].cmds = p.cmds]
    BY <1>6 DEF UserEdits
  <2>2. DOMAIN comments' = DOMAIN comments
        /\ \A j \in DOMAIN comments : j # i => comments'[j] = comments[j]
    BY <2>1
  <2>3. comments[i] \in Comment
    BY DEF TypeOK
  <2>4. comments'[i] = [comments[i] EXCEPT !.upd = now, !.edited = TRUE, !.cmds = p.cmds]
    BY <2>1
  <2>5. comments'[i].edited /\ comments'[i].upd = now /\ comments'[i].gone = comments[i].gone
    BY <2>3, <2>4 DEF Comment
  <2> QED BY <1>1, <2>2, <2>5
<1>7. CASE UserDeletes
  <2>1. PICK i \in DOMAIN comments : comments' = [comments EXCEPT ![i].gone = TRUE]
    BY <1>7 DEF UserDeletes
  <2>2. DOMAIN comments' = DOMAIN comments
        /\ \A j \in DOMAIN comments : j # i => comments'[j] = comments[j]
    BY <2>1
  <2>3. comments[i] \in Comment
    BY DEF TypeOK
  <2>4. comments'[i] = [comments[i] EXCEPT !.gone = TRUE]
    BY <2>1
  <2>5. comments'[i].gone /\ comments'[i].upd = comments[i].upd
    BY <2>3, <2>4 DEF Comment
  <2>6. MaxDeletes # 0
    BY <1>7 DEF UserDeletes, TypeOK
  <2> QED BY <1>1, <2>2, <2>5, <2>6
<1> QED BY <1>3, <1>4, <1>5, <1>6, <1>7, QuietStep

\* The steps that move the daemon to another comment or out of the poll.
Moves ==
    \/ Wake \/ FetchPage \/ FetchPageFails \/ NextPage \/ EndPoll \/ IgnoreComment
    \/ FetchIssueFails \/ FinishComment \/ ClaimRetry \/ ClaimFails \/ Crash \/ Restart

LEMMA StayStep ==
    ASSUME [Next]_vars, ~Moves
    PROVE  /\ UNCHANGED <<cursor, page, batch, more, newest, started, abandoned>>
           /\ seen \subseteq seen'
           /\ Reading' = Reading
           /\ (pc = "fetch")' = (pc = "fetch")
<1> USE DEF Moves, Next, Daemon, PollOnce, ProcessComment, Dispatch, Environment, Tick,
       UserComments, UserEdits, UserDeletes, OthersAssign, FetchIssue, SkipCommand, Claim,
       ClaimRefused, PostAck, Refuse, HandOff, Spawn, ChildExits, WaitTimesOut, PostReply,
       NextCommand, trackerVars, pollVars, budgets, daemonVars, vars
<1>1. UNCHANGED <<cursor, page, batch, more, newest, started, abandoned>>
  OBVIOUS
<1>2. seen \subseteq seen'
  OBVIOUS
<1>3. Reading' = Reading /\ (pc = "fetch")' = (pc = "fetch")
  BY DEF Reading, Busy, ToClaim, AtCommand
<1> QED BY <1>1, <1>2, <1>3

\* The steps that move on to the next comment.
Passes == IgnoreComment \/ FinishComment \/ ClaimFails \/ (FetchIssueFails /\ Advance)

LEMMA MoveStep ==
    ASSUME HandInv, Moves
    PROVE  /\ UNCHANGED <<comments, now>>
           /\ \/ Wake \/ FetchPage \/ NextPage \/ EndPoll \/ Restart
              \/ /\ pc' \in {"sleep", "down"} /\ batch' \subseteq batch
                 /\ UNCHANGED <<cursor, page, newest, started, seen, abandoned>>
              \/ /\ Passes /\ batch # {} /\ Advance /\ Reading
                 /\ UNCHANGED <<cursor, page, more, started, seen>>
                 /\ abandoned \subseteq abandoned'
<1> USE DEF Moves, trackerVars, pollVars
<1>1. CASE Wake \/ FetchPage \/ NextPage \/ EndPoll \/ Restart
  BY <1>1 DEF Wake, FetchPage, NextPage, EndPoll, Restart
<1>2. CASE FetchPageFails \/ ClaimRetry \/ Crash \/ (FetchIssueFails /\ RetryLater)
  BY <1>2 DEF FetchPageFails, ClaimRetry, Crash, FetchIssueFails, RetryLater, Advance
<1>3. CASE IgnoreComment \/ FinishComment \/ ClaimFails \/ (FetchIssueFails /\ Advance)
  BY <1>3 DEF IgnoreComment, FinishComment, ClaimFails, FetchIssueFails, Passes, Reading,
              Busy, HandInv, ToClaim, AtCommand, RetryLater, Advance
<1> QED BY <1>1, <1>2, <1>3 DEF FetchIssueFails

LEMMA NowStep == ASSUME TypeOK, [Next]_vars PROVE now' \in {now, now + 1}
BY DEF TypeOK, Next, Daemon, PollOnce, ProcessComment, Dispatch, Environment, Tick,
       UserComments, UserEdits, UserDeletes, OthersAssign, Wake, FetchPage, FetchPageFails,
       NextPage, EndPoll, IgnoreComment, FetchIssue, FetchIssueFails, FinishComment,
       SkipCommand, Claim, ClaimRefused, ClaimRetry, ClaimFails, PostAck, Refuse, HandOff,
       Spawn, ChildExits, WaitTimesOut, PostReply, Crash, Restart, trackerVars, vars

-----------------------------------------------------------------------------
(* The times, and the commands before the one in hand.                       *)

LEMMA TimeStep ==
    ASSUME TypeOK, HandInv, CursorInv, TimeInv, [Next]_vars
    PROVE  TimeInv'
<1>0. /\ cursor \in Nat /\ newest \in Nat /\ now \in Nat /\ started \in Nat
      /\ now' \in {now, now + 1} /\ now' \in Nat
  BY NowStep DEF TypeOK
<1>1. \A i \in DOMAIN comments : /\ i \in DOMAIN comments' /\ comments[i].upd \in Nat
                                 /\ comments'[i].upd >= comments[i].upd
  <2> SUFFICES ASSUME NEW i \in DOMAIN comments
               PROVE  /\ i \in DOMAIN comments' /\ comments[i].upd \in Nat
                      /\ comments'[i].upd >= comments[i].upd
    OBVIOUS
  <2>1. comments[i].upd \in Nat
    <3>1. comments[i] \in Comment
      BY DEF TypeOK
    <3> QED BY <3>1 DEF Comment
  <2>2. comments[i].upd <= now
    BY DEF TimeInv
  <2>3. i \in DOMAIN comments'
    BY CommentsStep
  <2>4. comments'[i].upd \in {comments[i].upd, now}
    BY CommentsStep
  <2> QED BY <1>0, <2>1, <2>2, <2>3, <2>4
<1>2. \A i \in DOMAIN comments' : comments'[i].upd <= now'
  <2> SUFFICES ASSUME NEW i \in DOMAIN comments' PROVE comments'[i].upd <= now'
    OBVIOUS
  <2>1. CASE i \in DOMAIN comments
    <3>1. comments[i].upd \in Nat /\ comments[i].upd <= now
      BY <1>1, <2>1 DEF TimeInv
    <3>2. comments'[i].upd \in {comments[i].upd, now}
      BY <2>1, CommentsStep
    <3> QED BY <1>0, <3>1, <3>2
  <2>2. CASE i \notin DOMAIN comments
    <3>1. comments'[i].upd = now
      BY <2>2, CommentsStep
    <3> QED BY <1>0, <3>1
  <2> QED BY <2>1, <2>2
<1>3. ASSUME batch' \subseteq batch
      PROVE  \A c \in batch' : c.id \in DOMAIN comments' /\ c.upd <= comments'[c.id].upd
  <2> SUFFICES ASSUME NEW c \in batch
               PROVE  c.id \in DOMAIN comments' /\ c.upd <= comments'[c.id].upd
    BY <1>3
  <2>1. c.id \in DOMAIN comments /\ c.upd <= comments[c.id].upd /\ c.upd \in Nat
    BY DEF TimeInv, TypeOK, Fetched
  <2>2. comments'[c.id].upd >= comments[c.id].upd /\ comments[c.id].upd \in Nat
        /\ c.id \in DOMAIN comments'
    BY <1>1, <2>1
  <2>3. comments'[c.id].upd \in Nat
    <3>1. comments' \in Seq(Comment)
      BY TypeStep DEF TypeOK
    <3>2. comments'[c.id] \in Comment
      BY <2>2, <3>1
    <3> QED BY <3>2 DEF Comment
  <2> QED BY <2>1, <2>2, <2>3
<1>4. CASE ~Moves
  <2>1. UNCHANGED <<cursor, batch, newest, started>>
    BY <1>4, StayStep
  <2> QED BY <1>0, <1>2, <1>3, <2>1 DEF TimeInv
<1>5. CASE Wake
  <2>1. newest' = 0 /\ UNCHANGED <<cursor, batch, started, now>>
    BY <1>5 DEF Wake, trackerVars
  <2> QED BY <1>0, <1>2, <1>3, <2>1 DEF TimeInv
<1>6. CASE FetchPage
  <2>1. UNCHANGED <<cursor, newest, started, now, comments>>
        /\ batch' = PageOf(cursor, page)
    BY <1>6 DEF FetchPage, trackerVars
  <2>2. ASSUME NEW c \in batch'
        PROVE  c.id \in DOMAIN comments /\ c.upd <= comments[c.id].upd
    <3>1. PICK i \in Listed(cursor) :
              c = [id |-> i, issue |-> comments[i].issue, own |-> comments[i].own,
                   upd |-> comments[i].upd, cmds |-> comments[i].cmds]
      BY <2>1 DEF PageOf
    <3>2. i \in DOMAIN comments /\ comments[i].upd \in Nat
      BY <1>1 DEF Listed
    <3> QED BY <3>1, <3>2
  <2> QED BY <1>2, <2>1, <2>2 DEF TimeInv
<1>7. CASE NextPage
  <2>1. UNCHANGED <<cursor, batch, newest, started, now>>
    BY <1>7 DEF NextPage, trackerVars
  <2> QED BY <1>0, <1>2, <1>3, <2>1 DEF TimeInv
<1>8. CASE EndPoll
  <2>1. /\ UNCHANGED <<batch, newest, started, now>>
        /\ cursor' = IF newest # 0 THEN newest ELSE cursor
    BY <1>8 DEF EndPoll, trackerVars, pollVars
  <2>2. started <= cursor' /\ cursor' <= now'
    BY <1>0, <2>1 DEF TimeInv, CursorInv
  <2> QED BY <1>0, <1>2, <1>3, <2>1, <2>2 DEF TimeInv
<1>9. CASE Restart
  <2>1. cursor' = now /\ started' = now /\ newest' = 0 /\ batch' = {} /\ now' = now
    BY <1>9 DEF Restart, trackerVars
  <2> QED BY <1>0, <1>2, <2>1 DEF TimeInv
<1>10. CASE /\ pc' \in {"sleep", "down"} /\ batch' \subseteq batch
            /\ UNCHANGED <<cursor, newest, started, now>>
  BY <1>0, <1>2, <1>3, <1>10 DEF TimeInv
<1>11. CASE Passes /\ batch # {} /\ Advance /\ UNCHANGED <<cursor, started, now>>
  <2>1. batch' \subseteq batch /\ newest' \in {InHand.upd, newest} /\ InHand \in batch
    BY <1>11, AdvanceType, HandType
  <2>2. InHand.upd <= now
    <3>1. /\ InHand.upd <= comments[InHand.id].upd /\ comments[InHand.id].upd <= now
          /\ InHand.id \in DOMAIN comments
      BY <2>1 DEF TimeInv
    <3>2. InHand.upd \in Nat /\ comments[InHand.id].upd \in Nat
      BY <1>1, <2>1, <3>1 DEF TypeOK, Fetched
    <3> QED BY <1>0, <3>1, <3>2
  <2> QED BY <1>0, <1>2, <1>3, <1>11, <2>1, <2>2 DEF TimeInv
<1> QED BY <1>4, <1>5, <1>6, <1>7, <1>8, <1>9, <1>10, <1>11, MoveStep

LEMMA ServedStep ==
    ASSUME TypeOK, HandInv, ClaimInv, ServedInv, [Next]_vars
    PROVE  ServedInv'
<1> USE HandUnchanged
<1>0. cmd \in Nat
  BY DEF TypeOK
<1>1. CASE FetchIssue
  <2>1. pc' = "command" /\ cmd' = 1 /\ UNCHANGED <<batch, seen>>
    BY <1>1 DEF FetchIssue
  <2>2. batch # {} /\ InHand.cmds \in Seq(Kinds)
    BY <1>1, HandType DEF FetchIssue, Fetched
  <2>3. \A k \in DOMAIN InHand.cmds : ~(k < 1)
    BY <2>2
  <2> QED BY <2>1, <2>3 DEF ServedInv
<1>2. ASSUME pc = "command", cmd' = cmd + 1, pc' = pc, UNCHANGED batch, seen \subseteq seen',
             cmd \in DOMAIN InHand.cmds => Kind = "foreign" \/ Event \in seen'
      PROVE  ServedInv'
  <2>1. ASSUME NEW k \in DOMAIN InHand.cmds, k < cmd + 1, InHand.cmds[k] # "foreign"
        PROVE  <<InHand.id, k>> \in seen'
    <3>1. batch # {}
      BY <1>2 DEF HandInv, Busy
    <3>2. k \in Nat
      BY <3>1, HandType DEF Fetched
    <3>3. CASE k < cmd
      BY <1>2, <2>1, <3>3 DEF ServedInv, Busy
    <3>4. CASE k = cmd
      BY <1>2, <2>1, <3>4 DEF Kind, Event
    <3> QED BY <1>0, <2>1, <3>2, <3>3, <3>4
  <2> QED BY <1>2, <2>1 DEF ServedInv, Busy
<1>3. CASE SkipCommand
  <2>1. pc = "command" /\ cmd' = cmd + 1 /\ pc' = pc /\ UNCHANGED <<batch, seen>>
    BY <1>3 DEF SkipCommand, AtCommand
  <2>2. Kind = "foreign" \/ Event \in seen
    BY <1>3 DEF SkipCommand, AtCommand, ToClaim
  <2> QED BY <1>2, <2>1, <2>2
<1>4. CASE ClaimRefused
  BY <1>2, <1>4 DEF ClaimRefused, ToClaim, AtCommand, trackerVars
<1>5. CASE Claim
  <2>1. pc = "command" /\ pc' = "ack" /\ UNCHANGED <<batch, cmd>> /\ seen \subseteq seen'
    BY <1>5 DEF Claim, ToClaim, AtCommand, pollVars
  <2> QED BY <2>1 DEF ServedInv, Busy
\* The steps after the claim.
<1>6. ASSUME pc \in {"ack", "dispatch", "wait", "reply"}, UNCHANGED <<batch, seen>>,
             \/ UNCHANGED cmd /\ pc' \in {"ack", "dispatch", "wait", "reply"}
             \/ NextCommand
      PROVE  ServedInv'
  <2>1. Event \in seen
    BY <1>6 DEF ServedInv, ClaimInv
  <2>2. CASE UNCHANGED cmd /\ pc' \in {"ack", "dispatch", "wait", "reply"}
    BY <1>6, <2>1, <2>2 DEF ServedInv, Busy
  <2>3. CASE NextCommand
    <3>1. ASSUME NEW k \in DOMAIN InHand.cmds, k < cmd + 1, InHand.cmds[k] # "foreign"
          PROVE  <<InHand.id, k>> \in seen
      <4>1. batch # {}
        BY <1>6 DEF HandInv, Busy
      <4>2. k \in Nat
        BY <4>1, HandType DEF Fetched
      <4>3. CASE k < cmd
        BY <1>6, <3>1, <4>3 DEF ServedInv, Busy
      <4>4. CASE k = cmd
        BY <2>1, <4>4 DEF Event
      <4> QED BY <1>0, <3>1, <4>2, <4>3, <4>4
    <3> QED BY <1>6, <2>3, <3>1 DEF NextCommand, ServedInv, Busy
  <2> QED BY <1>6, <2>2, <2>3
<1>7. CASE PostAck \/ Refuse \/ HandOff \/ Spawn \/ WaitTimesOut \/ PostReply
  BY <1>6, <1>7 DEF PostAck, Refuse, HandOff, Spawn, WaitTimesOut, PostReply, trackerVars,
                    pollVars
<1>8. CASE ChildExits
  <2>1. UNCHANGED <<batch, seen, cmd>> /\ (pc' = pc \/ (pc = "wait" /\ pc' = "reply"))
    <3>1. PICK e \in children : pc' = IF pc = "wait" /\ e = Event THEN "reply" ELSE pc
      BY <1>8 DEF ChildExits
    <3>2. UNCHANGED <<batch, seen, cmd>>
      BY <1>8 DEF ChildExits, pollVars
    <3>3. CASE pc = "wait" /\ e = Event
      BY <3>1, <3>2, <3>3
    <3>4. CASE ~(pc = "wait" /\ e = Event)
      BY <3>1, <3>2, <3>4
    <3> QED BY <3>3, <3>4
  <2>2. CASE pc' = pc
    BY <2>1, <2>2 DEF ServedInv, Busy
  <2>3. CASE pc = "wait" /\ pc' = "reply"
    BY <2>1, <2>3 DEF ServedInv, Busy
  <2> QED BY <2>1, <2>2, <2>3
<1>9. CASE pc' \in {"down", "sleep", "fetch", "comment"}
  BY <1>9 DEF ServedInv, Busy
<1>10. CASE Tick \/ Environment \/ UNCHANGED vars
  <2>1. UNCHANGED <<pc, batch, cmd, seen>>
    BY <1>10 DEF Environment, Tick, UserComments, UserEdits, UserDeletes, OthersAssign,
                 daemonVars, pollVars, vars
  <2> QED BY <2>1 DEF ServedInv, Busy
<1>11. CASE PollOnce \/ IgnoreComment \/ FetchIssueFails \/ FinishComment \/ ClaimRetry
            \/ ClaimFails \/ Crash \/ Restart
  BY <1>9, <1>11 DEF PollOnce, Wake, FetchPage, FetchPageFails, NextPage, EndPoll,
        IgnoreComment, FetchIssueFails, FinishComment, ClaimRetry, ClaimFails, Crash,
        Restart, Advance, RetryLater
<1> QED BY <1>1, <1>3, <1>4, <1>5, <1>7, <1>8, <1>10, <1>11
        DEF Next, Daemon, ProcessComment, Dispatch

-----------------------------------------------------------------------------
(* Where an undecided comment is.                                            *)

SkipInv == LInv /\ TimeInv /\ ServedInv /\ PollInv

\* As long as nothing is deleted the list only grows, and a comment that is
\* posted comes after all of it.
LEMMA ListedGrows ==
    ASSUME TypeOK, TimeInv, MaxDeletes = 0, [Next]_vars, UNCHANGED cursor
    PROVE  /\ Cardinality(Listed(cursor)) \in Nat /\ Cardinality(Listed(cursor)') \in Nat
           /\ Cardinality(Listed(cursor)) <= Cardinality(Listed(cursor)')
           /\ \A i \in Nat : /\ Rank(i, cursor) \in Nat /\ Rank(i, cursor)' \in Nat
                            /\ Rank(i, cursor) <= Rank(i, cursor)'
           /\ \A i \in DOMAIN comments' \ DOMAIN comments :
                 Rank(i, cursor)' > Cardinality(Listed(cursor))
<1> DEFINE S == Listed(cursor)
           T == Listed(cursor)'
<1>1. cursor \in Nat /\ now \in Nat /\ cursor <= now
  BY DEF TypeOK, TimeInv
<1>2. S \in SUBSET Nat /\ IsFiniteSet(S) /\ S \subseteq 1 .. Len(comments)
  BY <1>1, ListedIs
<1>3. PICK n \in Nat : DOMAIN comments' = 1 .. n
  BY CommentsStep
<1>4. T = {i \in DOMAIN comments' : ~comments'[i].gone /\ comments'[i].upd >= cursor}
  BY DEF Listed
<1>5. T \in SUBSET Nat /\ IsFiniteSet(T)
  <2>1. T \in SUBSET (1 .. n) /\ IsFiniteSet(1 .. n)
    BY <1>3, <1>4, FS_Interval
  <2>2. (1 .. n) \subseteq Nat
    OBVIOUS
  <2> HIDE DEF T
  <2>3. IsFiniteSet(T)
    BY <2>1, FS_Subset
  <2> QED BY <2>1, <2>2, <2>3
<1>6. S \in SUBSET T
  <2> SUFFICES ASSUME NEW i \in S PROVE i \in T
    OBVIOUS
  <2>1. i \in DOMAIN comments /\ ~comments[i].gone /\ comments[i].upd >= cursor
    BY DEF Listed
  <2>2. i \in DOMAIN comments'
    BY <2>1, CommentsStep
  <2>3. ~comments'[i].gone /\ comments'[i].upd >= cursor
    BY <1>1, <2>1, CommentsStep
  <2> QED BY <1>4, <2>2, <2>3
<1>7. \A i : Rank(i, cursor) = CountTo(S, i) /\ Rank(i, cursor)' = CountTo(T, i)
  BY DEF Rank, CountTo
<1>8. ASSUME NEW i \in DOMAIN comments' \ DOMAIN comments
      PROVE  Cardinality(S) < CountTo(T, i)
  <2>1. i \in Nat /\ \A j \in S : j < i
    BY <1>2, <1>3, CommentsStep
  <2>2. i \in T
    <3>1. comments'[i].upd = now /\ ~comments'[i].gone
      BY CommentsStep
    <3> QED BY <1>1, <1>4, <3>1
  <2> HIDE DEF S, T
  <2> DEFINE B == {j \in T : j <= i}
  <2>3. B \in SUBSET T /\ S \cup {i} \in SUBSET B /\ i \notin S
    BY <1>2, <1>6, <2>1, <2>2
  <2>4. IsFiniteSet(B) /\ Cardinality(B) \in Nat
    <3> HIDE DEF B
    <3> QED BY <1>5, <2>3, FS_Subset, FS_CardinalityType
  <2>5. Cardinality(S \cup {i}) = Cardinality(S) + 1 /\ Cardinality(S) \in Nat
    BY <1>2, <2>3, FS_AddElement, FS_CardinalityType
  <2>6. Cardinality(S \cup {i}) <= Cardinality(B)
    <3> HIDE DEF B
    <3> QED BY <2>3, <2>4, FS_Subset
  <2> QED BY <2>4, <2>5, <2>6 DEF CountTo
<1>9. Cardinality(S) \in Nat /\ Cardinality(T) \in Nat /\ Cardinality(S) <= Cardinality(T)
  <2> HIDE DEF S, T
  <2> QED BY <1>2, <1>5, <1>6, CountToIs, FS_Subset
<1>10. ASSUME NEW i \in Nat
       PROVE  CountTo(S, i) \in Nat /\ CountTo(T, i) \in Nat /\ CountTo(S, i) <= CountTo(T, i)
  <2> HIDE DEF S, T
  <2> QED BY <1>2, <1>5, <1>6, CountToIs, CountGrows
<1>11. \A i \in DOMAIN comments' : CountTo(T, i) \in Nat
  BY <1>3, <1>10
<1> QED BY <1>7, <1>8, <1>9, <1>10, <1>11

LEMMA StillUndecided ==
    ASSUME TypeOK, MaxDeletes = 0, [Next]_vars, UNCHANGED started,
           abandoned \subseteq abandoned', seen \subseteq seen',
           NEW i \in DOMAIN comments, Undecided(i)'
    PROVE  comments'[i] = comments[i] /\ Undecided(i)
<1>1. ~comments'[i].edited /\ ~comments'[i].gone
  BY DEF Undecided, Due
<1>2. comments'[i] = comments[i]
  BY <1>1, CommentsStep
<1> QED BY <1>2 DEF Undecided, Due, Commands

\* A comment that was undecided before the step and is where it was, and one
\* that is posted.
LEMMA StayPlace ==
    ASSUME SkipInv, MaxDeletes = 0, [Next]_vars, ~Moves
    PROVE  PollInv'
<1> USE DEF SkipInv, LInv
<1>1. /\ UNCHANGED <<cursor, page, batch, more, newest, started, abandoned>>
      /\ seen \subseteq seen' /\ Reading' = Reading
      /\ (pc = "fetch")' = (pc = "fetch")
  BY StayStep
<1>2. /\ page \in Nat /\ page >= 1 /\ cursor \in Nat /\ newest \in Nat /\ now \in Nat
      /\ cursor <= now /\ newest <= now
      /\ (page - 1) * PageSize \in Nat /\ page * PageSize \in Nat
  BY PageBounds DEF TypeOK, PollInv, FullInv, TimeInv
<1>3. FullInv'
  <2>1. Cardinality(Listed(cursor)) <= Cardinality(Listed(cursor)')
        /\ Cardinality(Listed(cursor)) \in Nat /\ Cardinality(Listed(cursor)') \in Nat
    BY <1>1, ListedGrows
  <2>2. Cardinality(Listed(cursor)') = Cardinality(Listed(cursor))'
    OBVIOUS
  <2> QED BY <1>1, <1>2, <2>1, <2>2 DEF PollInv, FullInv
<1>4. ASSUME NEW i \in DOMAIN comments, Undecided(i)' PROVE Place(i)'
  <2>1. comments'[i] = comments[i] /\ Undecided(i)
    BY <1>1, <1>4, StillUndecided
  <2>2. Place(i)
    BY <2>1 DEF PollInv
  <2>3. /\ Rank(i, cursor) \in Nat /\ Rank(i, cursor)' \in Nat
        /\ Rank(i, cursor) <= Rank(i, cursor)'
    BY <1>1, CommentsStep, ListedGrows
  <2>4. Copy(i)' = Copy(i) /\ (Younger(i) => Younger(i)')
    BY <1>1, <2>1 DEF Copy, Younger
  <2> QED BY <1>1, <1>2, <2>1, <2>2, <2>3, <2>4 DEF Place
<1>5. ASSUME NEW i \in DOMAIN comments', i \notin DOMAIN comments PROVE Place(i)'
  <2>1. comments'[i].upd = now
    BY <1>5, CommentsStep
  <2>2. /\ Rank(i, cursor)' > Cardinality(Listed(cursor)) /\ Rank(i, cursor)' \in Nat
        /\ Cardinality(Listed(cursor)) \in Nat
    <3>1. i \in Nat
      BY CommentsStep
    <3> QED BY <1>1, <1>5, <3>1, ListedGrows
  <2>3. Younger(i)'
    <3>1. ASSUME NEW c \in batch PROVE c.upd <= now
      <4>1. /\ c.upd <= comments[c.id].upd /\ c.id \in DOMAIN comments
            /\ comments[c.id].upd <= now /\ c.upd \in Nat
        BY DEF TimeInv, TypeOK, Fetched
      <4>2. comments[c.id] \in Comment
        BY <4>1 DEF TypeOK
      <4> QED BY <1>2, <4>1, <4>2 DEF Comment
    <3> QED BY <1>1, <1>2, <2>1, <3>1 DEF Younger
  <2>4. pc = "fetch" => Rank(i, cursor)' > (page - 1) * PageSize
    BY <1>2, <2>2 DEF PollInv, FullInv
  <2>5. Reading /\ more => Rank(i, cursor)' > page * PageSize
    BY <1>2, <2>2 DEF PollInv, FullInv
  <2>6. more \in BOOLEAN
    BY DEF TypeOK
  <2> QED BY <1>1, <1>2, <2>1, <2>3, <2>4, <2>5, <2>6 DEF Place
<1> QED BY <1>3, <1>4, <1>5 DEF PollInv

\* Before the next page is fetched a comment has a rank in the list.
LEMMA RankedFrom ==
    ASSUME TypeOK, NEW i \in DOMAIN comments, ~comments[i].gone, comments[i].upd >= cursor
    PROVE  /\ i \in Listed(cursor) /\ Rank(i, cursor) \in Nat /\ Rank(i, cursor) >= 1
           /\ Cardinality(Listed(cursor)) \in Nat
           /\ Rank(i, cursor) <= Cardinality(Listed(cursor))
<1> DEFINE L == Listed(cursor)
<1>1. L \in SUBSET Nat /\ IsFiniteSet(L)
  BY ListedIs DEF TypeOK
<1>2. i \in L /\ i \in Nat
  BY <1>1 DEF Listed
<1>3. CountTo(L, i) \in Nat /\ CountTo(L, i) >= 1 /\ Cardinality(L) \in Nat
      /\ CountTo(L, i) <= Cardinality(L)
  <2> HIDE DEF L
  <2> QED BY <1>1, <1>2, CountToIs
<1> QED BY <1>2, <1>3, RankIs

\* When the daemon passes a comment it is decided, ignored or given up.
LEMMA PassedIsDecided ==
    ASSUME LInv, ServedInv, Passes, Advance, UNCHANGED <<comments, started, seen>>,
           NEW i \in DOMAIN comments, Undecided(i)'
    PROVE  Copy(i) # InHand
<1> USE DEF LInv
<1> SUFFICES ASSUME Copy(i) = InHand PROVE FALSE
  OBVIOUS
<1>1. /\ InHand.id = i /\ InHand.issue = comments[i].issue /\ InHand.own = comments[i].own
      /\ InHand.cmds = comments[i].cmds
  BY DEF Copy
<1>2. /\ comments[i].issue # NoIssue /\ ~comments[i].own /\ i \notin abandoned'
  BY DEF Undecided, Due
<1>3. PICK k \in DOMAIN comments[i].cmds : comments[i].cmds[k] # "foreign" /\ <<i, k>> \notin seen
  BY DEF Undecided, Commands
<1>4. CASE IgnoreComment
  BY <1>1, <1>2, <1>4 DEF IgnoreComment, Ignored
<1>5. CASE FinishComment
  <2>1. pc = "command" /\ cmd > Len(InHand.cmds)
    BY <1>5 DEF FinishComment
  <2>2. batch # {}
    BY <2>1 DEF HandInv, Busy
  <2>3. InHand.cmds \in Seq(Kinds) /\ cmd \in Nat
    BY <2>2, HandType DEF Fetched, TypeOK
  <2>4. k < cmd /\ k \in DOMAIN InHand.cmds
    BY <1>1, <1>3, <2>1, <2>3
  <2> QED BY <1>1, <1>3, <2>1, <2>4 DEF ServedInv, Busy
<1>6. CASE ClaimFails \/ (FetchIssueFails /\ i \in abandoned')
  BY <1>1, <1>2, <1>6 DEF ClaimFails
<1>7. CASE FetchIssueFails /\ i \notin abandoned'
  <2>1. RetryLater
    BY <1>1, <1>7 DEF FetchIssueFails
  <2> QED BY <2>1 DEF Advance, RetryLater
<1> QED BY <1>4, <1>5, <1>6, <1>7 DEF Passes

LEMMA MovePlace ==
    ASSUME SkipInv, [Next]_vars, Moves
    PROVE  PollInv'
<1> USE DEF SkipInv, LInv
<1>1. UNCHANGED <<comments, now>>
  BY MoveStep
<1>2. /\ page \in Nat /\ page >= 1 /\ cursor \in Nat /\ newest \in Nat /\ now \in Nat
      /\ more \in BOOLEAN /\ PageSize \in Nat
      /\ (page - 1) * PageSize \in Nat /\ page * PageSize \in Nat
  BY PageBounds, ListenerAssumption DEF TypeOK, PollInv, FullInv
<1>3. ASSUME UNCHANGED cursor
      PROVE  /\ Cardinality(Listed(cursor))' = Cardinality(Listed(cursor))
             /\ \A i : Rank(i, cursor)' = Rank(i, cursor)
  BY <1>1, <1>3 DEF Rank, Listed
<1>4. ASSUME UNCHANGED <<started, seen>>, abandoned \subseteq abandoned',
             NEW i \in DOMAIN comments, Undecided(i)'
      PROVE  /\ Undecided(i) /\ Place(i) /\ ~comments[i].gone
             /\ comments[i].upd >= cursor /\ comments[i].upd \in Nat
  <2>1. Undecided(i) /\ ~comments[i].gone
    BY <1>1, <1>4 DEF Undecided, Due, Commands
  <2>2. comments[i] \in Comment
    BY DEF TypeOK
  <2> QED BY <2>1, <2>2 DEF PollInv, Place, Comment
<1>5. CASE Wake
  <2>1. pc' = "fetch" /\ page' = 1 /\ UNCHANGED <<cursor, started, seen, abandoned>>
    BY <1>5 DEF Wake
  <2>2. (page' - 1) * PageSize = 0
    BY <1>2, <2>1
  <2>3. FullInv'
    <3>1. Cardinality(Listed(cursor)) \in Nat
      BY <1>2, ListedIs, FS_CardinalityType
    <3> QED BY <1>3, <2>1, <2>2, <3>1 DEF FullInv, Reading, Busy
  <2>4. ASSUME NEW i \in DOMAIN comments, Undecided(i)' PROVE Place(i)'
    <3>1. comments[i].upd >= cursor /\ ~comments[i].gone
      BY <1>4, <2>1, <2>4
    <3>2. Rank(i, cursor) \in Nat /\ Rank(i, cursor) > 0
      BY <3>1, RankedFrom
    <3> QED BY <1>1, <1>3, <2>1, <2>2, <3>1, <3>2 DEF Place, Reading, Busy
  <2> QED BY <1>1, <2>3, <2>4 DEF PollInv
<1>6. CASE FetchPage
  <2>1. /\ pc = "fetch" /\ pc' = "comment" /\ UNCHANGED <<cursor, page, started, seen, abandoned>>
        /\ batch' = PageOf(cursor, page) /\ more' = (Cardinality(batch') = PageSize)
    BY <1>6 DEF FetchPage
  <2>2. more' <=> Cardinality(Listed(cursor)) >= page * PageSize
    BY <1>2, <2>1, FullPage
  <2>3. FullInv'
    BY <1>2, <1>3, <2>1, <2>2 DEF FullInv
  <2>4. ASSUME NEW i \in DOMAIN comments, Undecided(i)' PROVE Place(i)'
    <3>1. /\ Place(i) /\ comments[i].upd >= cursor /\ ~comments[i].gone
      BY <1>4, <2>1, <2>4
    <3>2. /\ i \in Listed(cursor) /\ Rank(i, cursor) \in Nat
          /\ Cardinality(Listed(cursor)) \in Nat
          /\ Rank(i, cursor) <= Cardinality(Listed(cursor))
      BY <3>1, RankedFrom
    <3>3. Rank(i, cursor) > (page - 1) * PageSize
      BY <2>1, <3>1 DEF Place
    <3>4. CASE Rank(i, cursor) <= page * PageSize
      <4>1. Copy(i) \in batch'
        BY <2>1, <3>2, <3>3, <3>4 DEF PageOf, OnPage, Copy
      <4>2. Copy(i)' = Copy(i)
        BY <1>1 DEF Copy
      <4> QED BY <1>1, <2>1, <3>1, <4>1, <4>2 DEF Place
    <3>5. CASE Rank(i, cursor) > page * PageSize
      <4>1. more'
        BY <1>2, <2>2, <3>2, <3>5
      <4> QED BY <1>1, <1>3, <2>1, <3>1, <3>5, <4>1 DEF Place
    <3> QED BY <1>2, <3>2, <3>4, <3>5
  <2> QED BY <1>1, <2>3, <2>4 DEF PollInv
<1>7. CASE NextPage
  <2>1. /\ pc = "comment" /\ batch = {} /\ more /\ pc' = "fetch" /\ page' = page + 1
        /\ UNCHANGED <<cursor, started, seen, abandoned>>
    BY <1>7 DEF NextPage
  <2>2. (page' - 1) * PageSize = page * PageSize /\ page' >= 1
    <3>1. page' - 1 = page /\ page' >= 1
      BY <1>2, <2>1
    <3> QED BY <3>1
  <2>3. FullInv'
    BY <1>3, <2>1, <2>2 DEF PollInv, FullInv, Reading, Busy
  <2>4. ASSUME NEW i \in DOMAIN comments, Undecided(i)' PROVE Place(i)'
    <3>1. Place(i) /\ comments[i].upd >= cursor
      BY <1>4, <2>1, <2>4
    <3>2. Rank(i, cursor) > page * PageSize
      BY <2>1, <3>1 DEF Place, Reading
    <3> QED BY <1>1, <1>3, <2>1, <2>2, <3>1, <3>2 DEF Place, Reading, Busy
  <2> QED BY <1>1, <2>3, <2>4 DEF PollInv
<1>8. CASE EndPoll
  <2>1. /\ pc = "comment" /\ batch = {} /\ ~more /\ pc' = "sleep"
        /\ UNCHANGED <<page, started, seen, abandoned>>
        /\ cursor' = IF newest # 0 THEN newest ELSE cursor
    BY <1>8 DEF EndPoll, pollVars
  <2>2. FullInv'
    BY <1>2, <2>1 DEF FullInv, Reading, Busy
  <2>3. ASSUME NEW i \in DOMAIN comments, Undecided(i)' PROVE Place(i)'
    <3>1. Place(i) /\ comments[i].upd >= cursor
      BY <1>4, <2>1, <2>3
    <3>2. comments[i].upd >= newest
      BY <2>1, <3>1 DEF Place, Reading, Younger
    <3> QED BY <1>1, <2>1, <3>1, <3>2 DEF Place, Reading, Busy
  <2> QED BY <1>1, <2>2, <2>3 DEF PollInv
<1>9. CASE Restart
  <2>1. pc' = "sleep" /\ cursor' = now /\ started' = now /\ page' = 1
    BY <1>9 DEF Restart
  <2>2. FullInv'
    BY <2>1 DEF FullInv, Reading, Busy
  <2>3. ASSUME NEW i \in DOMAIN comments, Undecided(i)' PROVE Place(i)'
    BY <1>1, <2>1, <2>3 DEF Undecided, Due, Place, Reading, Busy
  <2> QED BY <1>1, <2>2, <2>3 DEF PollInv
<1>10. CASE /\ pc' \in {"sleep", "down"}
            /\ UNCHANGED <<cursor, page, started, seen>> /\ abandoned \subseteq abandoned'
  <2>1. FullInv'
    BY <1>2, <1>10 DEF FullInv, Reading, Busy
  <2>2. ASSUME NEW i \in DOMAIN comments, Undecided(i)' PROVE Place(i)'
    <3>1. comments[i].upd >= cursor
      BY <1>4, <1>10, <2>2
    <3> QED BY <1>1, <1>10, <3>1 DEF Place, Reading, Busy
  <2> QED BY <1>1, <2>1, <2>2 DEF PollInv
<1>11. CASE /\ Passes /\ batch # {} /\ Advance /\ Reading
            /\ UNCHANGED <<cursor, page, more, started, seen>>
            /\ abandoned \subseteq abandoned'
  <2>1. pc' = "comment" /\ newest' = Later(newest, InHand.upd) /\ batch' = batch \ {InHand}
    BY <1>11 DEF Advance
  <2>2. FullInv'
    BY <1>3, <1>11, <2>1 DEF PollInv, FullInv, Reading, Busy
  <2>3. ASSUME NEW i \in DOMAIN comments, Undecided(i)' PROVE Place(i)'
    <3>1. Undecided(i) /\ Place(i) /\ comments[i].upd >= cursor /\ comments[i].upd \in Nat
      BY <1>4, <1>11, <2>3
    <3>2. Copy(i) # InHand /\ Copy(i)' = Copy(i)
      BY <1>1, <1>11, <2>3, PassedIsDecided DEF Copy
    <3>3. InHand \in batch
      BY <1>11, HandType
    <3>4. Younger(i) => Younger(i)'
      BY <1>1, <2>1, <3>3 DEF Younger, Later
    <3> QED BY <1>1, <1>3, <1>11, <2>1, <3>1, <3>2, <3>4 DEF Place
  <2> QED BY <1>1, <2>2, <2>3 DEF PollInv
<1> QED BY <1>5, <1>6, <1>7, <1>8, <1>9, <1>10, <1>11, MoveStep

LEMMA InitSkipInv == Init => SkipInv
<1> SUFFICES ASSUME Init PROVE TimeInv /\ ServedInv /\ PollInv
  BY InitLInv DEF SkipInv
<1>1. DOMAIN comments = {}
  BY DEF Init
<1>2. TimeInv /\ ServedInv
  BY <1>1 DEF Init, TimeInv, ServedInv, Busy
<1>3. PollInv
  BY <1>1 DEF Init, PollInv, FullInv, Reading, Busy
<1> QED BY <1>2, <1>3

\* Without the places of the comments, and so with deletions, ...
LEMMA TimesInvariance == Spec => [](LInv /\ TimeInv /\ ServedInv)
<1>1. Init => LInv /\ TimeInv /\ ServedInv
  BY InitSkipInv DEF SkipInv
<1>2. LInv /\ TimeInv /\ ServedInv /\ [Next]_vars => (LInv /\ TimeInv /\ ServedInv)'
  BY TypeStep, HandStep, ClaimStep, CursorStep, TimeStep, ServedStep DEF LInv
<1> QED BY <1>1, <1>2, PTL DEF Spec

\* ... and with them, without deletions.
LEMMA SkipInvariance == ASSUME MaxDeletes = 0 PROVE Spec => []SkipInv
<1>1. SkipInv /\ [Next]_vars => SkipInv'
  BY TypeStep, HandStep, ClaimStep, CursorStep, TimeStep, ServedStep, StayPlace, MovePlace
     DEF SkipInv, LInv
<1> QED BY InitSkipInv, <1>1, PTL DEF Spec

\* While nobody deletes a comment, poll_once never moves last_seen_at past one
\* with an undecided command.  A deletion between two page fetches moves what
\* follows to earlier positions, and the next page starts after one of them.
THEOREM NothingSkipped == ASSUME MaxDeletes = 0 PROVE Spec => []NoSkippedCommand
<1>1. SkipInv => NoSkippedCommand
  <2> SUFFICES ASSUME SkipInv, NEW i \in DOMAIN comments, Due(i), comments[i].upd < cursor,
                      NEW k \in Commands(comments[i]), <<i, k>> \notin seen
               PROVE  FALSE
    BY DEF NoSkippedCommand
  <2>1. comments[i].upd >= cursor
    BY DEF SkipInv, PollInv, Place, Undecided
  <2>2. comments[i] \in Comment /\ cursor \in Nat
    BY DEF SkipInv, LInv, TypeOK
  <2> QED BY <2>1, <2>2 DEF Comment
<1> QED BY SkipInvariance, <1>1, PTL

\* A restarted daemon, which has forgotten the seen events, starts a process
\* again only for a comment of the tick of its restart or later.
THEOREM NoReplay == Spec => NoReplayAfterRestart
<1>1. LInv /\ TimeInv /\ ServedInv /\ [Next]_vars
        => [Starts /\ Event \in earlier => comments[InHand.id].upd >= started]_vars
  <2> SUFFICES ASSUME LInv, TimeInv, Starts PROVE comments[InHand.id].upd >= started
    OBVIOUS
  <2> USE DEF LInv
  <2>1. batch # {} /\ InHand \in batch
    BY InHandInBatch DEF Starts, HandInv, Busy, TypeOK
  <2>2. InHand.id \in DOMAIN comments /\ InHand.upd <= comments[InHand.id].upd
        /\ InHand.upd >= cursor /\ started <= cursor
    BY <2>1 DEF CursorInv, TimeInv
  <2>3. InHand.upd \in Nat /\ comments[InHand.id] \in Comment /\ cursor \in Nat /\ started \in Nat
    BY <2>1, <2>2 DEF TypeOK, Fetched
  <2> QED BY <2>2, <2>3 DEF Comment
<1> QED BY TimesInvariance, <1>1, PTL DEF Spec, NoReplayAfterRestart

=============================================================================
