------------------------- MODULE SharedLearningStore -------------------------
(***************************************************************************)
(* The shared learnings of terraphim_agent (shared_learning/store.rs and   *)
(* markdown_store.rs): one markdown file per learning, and in each process *)
(* that opened the store an index of all of them behind a tokio RwLock.    *)
(*                                                                         *)
(* A call changes the index under the lock, clones what it changed, lets   *)
(* go of the lock and then writes the clone to its file in two steps:      *)
(* tokio::fs::write truncates the file, then fills it.  The calls of one   *)
(* process and of several overlap, and nothing locks the files.            *)
(*                                                                         *)
(* A learning is its trust level, how often it was applied, the status of  *)
(* the suggestion, and whether its texts hold a "---", which ends the      *)
(* frontmatter for who reads the file.  Torn is a truncated file.          *)
(* The copies in the shared directory, which nothing in the program writes,*)
(* are left out: the file of the agent takes precedence over them.         *)
(***************************************************************************)
EXTENDS Naturals, FiniteSets

CONSTANTS
    Stores,        \* processes that open the store
    Calls,         \* calls that can be under way together
    Of,            \* the process of each call
    MaxLearnings,  \* bound on the learnings created
    L2Count,       \* applications after which a learning meets the L2 criteria
    AutoPromote,   \* auto_promote_l2
    Edits,         \* the calls that change a learning: set of EditKinds
    Brought,       \* how often a new learning was applied elsewhere
    Marks,         \* what the texts callers bring hold: set of MarkKinds
    Nothing,       \* no file, not in the index, no decision
    Torn,
    MaxCalls,      \* bound on the calls begun
    MaxExits       \* bound on the processes that end

EditKinds == {"touch", "apply", "l1", "l2", "l3", "approve", "reject"}

\* Where the first "---" of the frontmatter is: nowhere; behind the counts, or
\* behind the trust level only, with a text in front of it that parses; or where
\* what is in front of it does not parse, or lacks a field.
MarkKinds == {"whole", "late", "early", "broken"}

VARIABLES
    file,        \* the learning written to {agent}/{id}.md
    open,        \* processes that have the store open
    index,       \* the index of each process
    step, hand,  \* the await of each call, and what it has in hand
    doomed,      \* learnings whose file a call is still to delete
    learnt,      \* ids drawn so far
    \* history
    given,       \* by id: how often it was applied, as reported by callers
    granted,     \* by id: the highest trust a caller asked for
    decided,     \* by id: the decision of a user that was reported as made
    confirmed,   \* learnings reported as created
    archived,    \* learnings archived
    damaged,     \* files whose last writer failed or died half-way
    contested,   \* learnings used by calls that overlap, or changed by one
                 \* process while another one has them, or whose save failed
    marked,      \* learnings a caller gave a text with "---"
    begun, exits

callVars == <<step, hand, doomed>>
sharedHistory == <<given, granted, decided, confirmed, archived, damaged, contested, marked>>
sharedVars == <<file, open, index, callVars, learnt, sharedHistory, begun, exits>>

LearningIds == 1 .. MaxLearnings
Learning == [trust : 0..3, applied : Nat, mark : MarkKinds,
             status : {"pending", "approved", "rejected"}]
Kinds == {"create", "merge", "archive"} \cup EditKinds
\* live: the file the call has open still is the one of that name.
Hand == [kind : Kinds, id : LearningIds, rec : Learning, live : BOOLEAN]

ASSUME SharedAssumption ==
    /\ MaxLearnings \in Nat /\ L2Count \in Nat \ {0} /\ AutoPromote \in BOOLEAN
    /\ Of \in [Calls -> Stores] /\ Edits \subseteq EditKinds
    /\ Brought \subseteq Nat /\ "whole" \in Marks /\ Marks \subseteq MarkKinds
    /\ MaxCalls \in Nat /\ MaxExits \in Nat
    /\ Nothing \notin Learning /\ Torn \notin Learning /\ Nothing \notin Hand

\* The frontmatter has no status: a learning that is read is a pending suggestion.
ToMarkdown(r) == [r EXCEPT !.status = "pending"]

\* from_markdown splits at the first "---" behind the opening one.
Loads(f) == f \notin {Nothing, Torn} /\ f.mark # "broken"
FromMarkdown(f) ==
    [f EXCEPT !.mark = "whole", !.applied = IF f.mark = "early" THEN 0 ELSE @]

\* An agent name is written behind the counts: it may be the first "---" there.
WithAgent(r, mark) ==
    IF r.mark \in {"whole", "late"} /\ mark \in {"late", "broken"}
      THEN [r EXCEPT !.mark = mark] ELSE r

Max2(a, b) == IF a >= b THEN a ELSE b
InHand(i) == {c \in Calls : step[c] \in {"save", "fill", "insert"} /\ hand[c].id = i}
Shared(s, i) == \E t \in Stores \ {s} : index[t][i] # Nothing

-----------------------------------------------------------------------------
SharedInit ==
    /\ file = [i \in LearningIds |-> Nothing]
    /\ open = {}
    /\ index = [s \in Stores |-> [i \in LearningIds |-> Nothing]]
    /\ step = [c \in Calls |-> "idle"]
    /\ hand = [c \in Calls |-> Nothing]
    /\ doomed = [c \in Calls |-> {}]
    /\ learnt = 0
    /\ given = [i \in LearningIds |-> 0] /\ granted = [i \in LearningIds |-> 0]
    /\ decided = [i \in LearningIds |-> Nothing]
    /\ confirmed = {} /\ archived = {} /\ damaged = {} /\ contested = {} /\ marked = {}
    /\ begun = 0 /\ exits = 0

\* SharedLearningStore::open: load_all skips the files that do not decode.
Open(s) ==
    /\ s \notin open
    /\ open' = open \cup {s}
    /\ index' = [index EXCEPT ![s] = [i \in LearningIds |->
                   IF Loads(file[i]) THEN FromMarkdown(file[i]) ELSE Nothing]]
    /\ contested' = contested \cup {i \in LearningIds : InHand(i) # {}}
    /\ UNCHANGED <<file, callVars, learnt, given, granted, decided, confirmed, archived,
                   damaged, marked, begun, exits>>

\* The process ends: a call may be anywhere.
Exit(s) ==
    /\ s \in open /\ exits < MaxExits
    /\ exits' = exits + 1
    /\ open' = open \ {s}
    /\ index' = [index EXCEPT ![s] = [i \in LearningIds |-> Nothing]]
    /\ LET dead == {c \in Calls : Of[c] = s} IN
       /\ step' = [c \in Calls |-> IF c \in dead THEN "idle" ELSE step[c]]
       /\ hand' = [c \in Calls |-> IF c \in dead THEN Nothing ELSE hand[c]]
       /\ doomed' = [c \in Calls |-> IF c \in dead THEN {} ELSE doomed[c]]
       /\ damaged' = damaged \cup {hand[c].id : c \in {d \in dead : step[d] = "fill"}}
    /\ UNCHANGED <<file, learnt, given, granted, decided, confirmed, archived, contested,
                   marked, begun>>

-----------------------------------------------------------------------------
(* Calls.  A critical section of the lock is one step.                     *)

Begin(c) ==
    /\ step[c] = "idle" /\ Of[c] \in open /\ begun < MaxCalls
    /\ begun' = begun + 1

GotoAwait(c, l) == step' = [step EXCEPT ![c] = l]

Return(c) ==
    /\ GotoAwait(c, "idle")
    /\ hand' = [hand EXCEPT ![c] = Nothing]

\* The call has learning i, as it is now in r, to write.
Save(c, kind, i, r) ==
    /\ GotoAwait(c, "save")
    /\ hand' = [hand EXCEPT ![c] = [kind |-> kind, id |-> i, rec |-> r, live |-> FALSE]]
    /\ contested' = IF InHand(i) # {} \/ Shared(Of[c], i)
                      THEN contested \cup {i} ELSE contested
    /\ marked' = IF r.mark = "whole" THEN marked ELSE marked \cup {i}

NewLearning(t, n, m) == [trust |-> t, applied |-> n, mark |-> m, status |-> "pending"]

\* insert, and store_with_dedup that found nothing similar.  A learning may
\* bring applications from elsewhere, and any text.
Create(c) ==
    /\ Begin(c) /\ learnt < MaxLearnings
    /\ learnt' = learnt + 1
    /\ \E t \in {0, 1}, n \in Brought, m \in Marks :
         /\ Save(c, "create", learnt', NewLearning(t, n, m))
         /\ granted' = [granted EXCEPT ![learnt'] = t]
         /\ given' = [given EXCEPT ![learnt'] = n]
    /\ UNCHANGED <<file, open, index, doomed, decided, confirmed, archived, damaged, exits>>

\* store_with_dedup takes the lock to look for a similar learning, finds i ...
\* (what the new learning brings matters at the merge, which chooses it).
FindSimilar(c) ==
    /\ Begin(c)
    /\ \E i \in LearningIds :
         /\ index[Of[c]][i] # Nothing
         /\ hand' = [hand EXCEPT ![c] = [kind |-> "merge", id |-> i, live |-> FALSE,
                                         rec |-> NewLearning(1, 0, "whole")]]
    /\ GotoAwait(c, "merge")
    /\ UNCHANGED <<file, open, index, doomed, learnt, sharedHistory, exits>>

\* What a new learning of n applications and some agent names makes of r.
MergedWith(r, n, mark) == [WithAgent(r, mark) EXCEPT !.applied = @ + n]

\* ... and takes it again to merge into i, as it is by then, which may be gone.
Merge(c) ==
    /\ step[c] = "merge"
    /\ LET i == hand[c].id
           old == index[Of[c]][i] IN
       \/ old = Nothing /\ Return(c) /\ UNCHANGED <<index, given, contested, marked>>
       \/ /\ old # Nothing
          /\ \E n \in Brought, m \in Marks :
               /\ index' = [index EXCEPT ![Of[c]][i] = MergedWith(old, n, m)]
               /\ Save(c, "merge", i, MergedWith(old, n, m))
               /\ given' = [given EXCEPT ![i] = @ + n]
    /\ UNCHANGED <<file, open, doomed, learnt, granted, decided, confirmed, archived,
                   damaged, begun, exits>>

\* Mutant of Applied: the criteria are met one application early.
AppliedEarly(r) ==
    LET used == {[WithAgent(r, m) EXCEPT !.applied = @ + 1] : m \in Marks} IN
    used \cup {[q EXCEPT !.trust = 2] :
                 q \in {u \in used : AutoPromote /\ r.trust = 1 /\ u.applied + 1 >= L2Count}}

\* record_application: a learning at L1 is promoted when it meets the criteria,
\* which take L2Count applications and that enough of them were effective.
Applied(r) ==
    LET used == {[WithAgent(r, m) EXCEPT !.applied = @ + 1] : m \in Marks} IN
    used \cup {[q EXCEPT !.trust = 2] :
                 q \in {u \in used : AutoPromote /\ r.trust = 1 /\ u.applied >= L2Count}}

\* What record_graph_touch, record_application, promote_to_l1 to _l3, approve
\* and reject make of a learning.
Edited(kind, r) ==
    CASE kind = "touch"   -> {[r EXCEPT !.applied = @ + 1]}
      [] kind = "apply"   -> Applied(r)
      [] kind = "l1"      -> {[r EXCEPT !.trust = Max2(@, 1)]}
      [] kind = "l2"      -> {[r EXCEPT !.trust = Max2(@, 2)]}
      [] kind = "l3"      -> {[r EXCEPT !.trust = 3]}
      [] kind = "approve" -> {[r EXCEPT !.status = "approved", !.trust = 3]}
      [] kind = "reject"  -> {[r EXCEPT !.status = "rejected"]}

Asked(kind) ==
    CASE kind = "l1" -> 1 [] kind = "l2" -> 2 [] kind \in {"l3", "approve"} -> 3
      [] OTHER -> 0

\* Mutant of Edit: the clone is taken before the change.
EditCloneFirst(c) ==
    /\ Begin(c)
    /\ \E i \in LearningIds, kind \in Edits :
         /\ index[Of[c]][i] # Nothing
         /\ \E r \in Edited(kind, index[Of[c]][i]) :
            /\ index' = [index EXCEPT ![Of[c]][i] = r]
            /\ Save(c, kind, i, index[Of[c]][i])
         /\ given' = [given EXCEPT ![i] = IF kind \in {"touch", "apply"} THEN @ + 1 ELSE @]
         /\ granted' = [granted EXCEPT ![i] = Max2(@, Asked(kind))]
         /\ decided' = [decided EXCEPT ![i] = IF kind \in {"approve", "reject"}
                                                THEN Nothing ELSE @]
    /\ UNCHANGED <<file, open, doomed, learnt, confirmed, archived, damaged, exits>>

Edit(c) ==
    /\ Begin(c)
    /\ \E i \in LearningIds, kind \in Edits :
         /\ index[Of[c]][i] # Nothing
         /\ \E r \in Edited(kind, index[Of[c]][i]) :
            /\ index' = [index EXCEPT ![Of[c]][i] = r]
            /\ Save(c, kind, i, r)
         /\ given' = [given EXCEPT ![i] = IF kind \in {"touch", "apply"} THEN @ + 1 ELSE @]
         /\ granted' = [granted EXCEPT ![i] = Max2(@, Asked(kind))]
         /\ decided' = [decided EXCEPT ![i] = IF kind \in {"approve", "reject"}
                                                THEN Nothing ELSE @]
    /\ UNCHANGED <<file, open, doomed, learnt, confirmed, archived, damaged, exits>>

-----------------------------------------------------------------------------
(* persist                                                                 *)

TruncateFile(c) ==
    /\ step[c] = "save"
    /\ file' = [file EXCEPT ![hand[c].id] = Torn]
    /\ hand' = [hand EXCEPT ![c].live = TRUE]
    /\ GotoAwait(c, "fill")
    /\ UNCHANGED <<open, index, doomed, learnt, sharedHistory, begun, exits>>

\* Of two writers that fill the same file the later one wins: both write from
\* the start, and what a longer text leaves behind it is in the body.
FillFile(c) ==
    /\ step[c] = "fill"
    /\ LET i == hand[c].id IN
       /\ file' = IF hand[c].live THEN [file EXCEPT ![i] = ToMarkdown(hand[c].rec)] ELSE file
       /\ damaged' = IF hand[c].live THEN damaged \ {i} ELSE damaged
       /\ decided' = CASE hand[c].kind = "approve" -> [decided EXCEPT ![i] = "approved"]
                       [] hand[c].kind = "reject" -> [decided EXCEPT ![i] = "rejected"]
                       [] OTHER -> decided
    /\ IF hand[c].kind = "create" THEN GotoAwait(c, "insert") /\ UNCHANGED hand ELSE Return(c)
    /\ UNCHANGED <<open, index, doomed, learnt, given, granted, confirmed, archived,
                   contested, marked, begun, exits>>

\* insert indexes what it saved.
Insert(c) ==
    /\ step[c] = "insert"
    /\ index' = [index EXCEPT ![Of[c]][hand[c].id] = hand[c].rec]
    /\ confirmed' = confirmed \cup {hand[c].id}
    /\ Return(c)
    /\ UNCHANGED <<file, open, doomed, learnt, given, granted, decided, archived,
                   damaged, contested, marked, begun, exits>>

\* Mutant of SaveFails: the error is logged.
SaveFailsSilently(c) ==
    /\ step[c] \in {"save", "fill"}
    /\ damaged' = IF step[c] = "fill" /\ hand[c].live THEN damaged \cup {hand[c].id}
                                                    ELSE damaged
    /\ contested' = contested \cup {hand[c].id}
    /\ IF hand[c].kind = "create" THEN GotoAwait(c, "insert") /\ UNCHANGED hand ELSE Return(c)
    /\ UNCHANGED <<file, open, index, doomed, learnt, given, granted, decided, confirmed,
                   archived, marked, begun, exits>>

\* The file cannot be opened, or not be written to the end; the call is an error
\* and the index keeps the change.
SaveFails(c) ==
    /\ step[c] \in {"save", "fill"}
    /\ damaged' = IF step[c] = "fill" /\ hand[c].live THEN damaged \cup {hand[c].id}
                                                    ELSE damaged
    /\ contested' = contested \cup {hand[c].id}
    /\ Return(c)
    /\ UNCHANGED <<file, open, index, doomed, learnt, given, granted, decided, confirmed,
                   archived, marked, begun, exits>>

-----------------------------------------------------------------------------
(* archive_stale                                                           *)

\* The stale learnings at L0 leave the index ...
Archive(c) ==
    /\ Begin(c)
    /\ \E stale \in SUBSET LearningIds :
         /\ stale # {}
         /\ \A i \in stale : index[Of[c]][i] # Nothing /\ index[Of[c]][i].trust = 0
         /\ index' = [index EXCEPT ![Of[c]] =
                       [i \in LearningIds |-> IF i \in stale THEN Nothing ELSE @[i]]]
         /\ doomed' = [doomed EXCEPT ![c] = stale]
         /\ archived' = archived \cup stale
    /\ GotoAwait(c, "delete")
    /\ contested' = contested \cup doomed'[c]
    /\ UNCHANGED <<file, open, hand, learnt, given, granted, decided, confirmed, damaged,
                   marked, exits>>

\* ... and then their files go, one by one; a failure is logged.  Who has such
\* a file open goes on writing to what no longer has a name.
DeleteFile(c) ==
    /\ step[c] = "delete"
    /\ \E i \in doomed[c] :
         /\ doomed' = [doomed EXCEPT ![c] = @ \ {i}]
         /\ \/ /\ file' = [file EXCEPT ![i] = Nothing]
               /\ hand' = [d \in Calls |-> IF d \in InHand(i)
                                             THEN [hand[d] EXCEPT !.live = FALSE]
                                             ELSE hand[d]]
            \/ UNCHANGED <<file, hand>>
    /\ step' = IF doomed'[c] = {} THEN [step EXCEPT ![c] = "idle"] ELSE step
    /\ UNCHANGED <<open, index, learnt, sharedHistory, begun, exits>>

-----------------------------------------------------------------------------
Call(c) ==
    \/ Create(c) \/ FindSimilar(c) \/ Merge(c) \/ Edit(c)
    \/ TruncateFile(c) \/ FillFile(c) \/ Insert(c) \/ SaveFails(c)
    \/ Archive(c) \/ DeleteFile(c)

SharedNext ==
    \/ \E s \in Stores : Open(s) \/ Exit(s)
    \/ \E c \in Calls : Call(c)

SharedSpec == SharedInit /\ [][SharedNext]_sharedVars

-----------------------------------------------------------------------------
(* Properties                                                              *)

\* The type invariant: what a process indexes is a learning, whatever the files
\* hold, and only calls of open processes are under way.
SharedTypeOK ==
    /\ file \in [LearningIds -> Learning \cup {Nothing, Torn}]
    /\ open \subseteq Stores
    /\ index \in [Stores -> [LearningIds -> Learning \cup {Nothing}]]
    /\ step \in [Calls -> {"idle", "merge", "save", "fill", "insert", "delete"}]
    /\ hand \in [Calls -> Hand \cup {Nothing}]
    /\ doomed \in [Calls -> SUBSET LearningIds]
    /\ learnt \in 0 .. MaxLearnings
    /\ given \in [LearningIds -> Nat] /\ granted \in [LearningIds -> 0..3]
    /\ decided \in [LearningIds -> {Nothing, "approved", "rejected"}]
    /\ confirmed \cup archived \cup damaged \cup contested \cup marked \subseteq 1 .. learnt
    /\ begun \in 0 .. MaxCalls /\ exits \in 0 .. MaxExits
    /\ \A c \in Calls : step[c] # "idle" => Of[c] \in open

\* A learning reported as created has its file, and one that loads unless a
\* caller gave the learning a text with "---"; but for one that was archived, that
\* a writer has open, or that one failed or died with: whatever processes and
\* calls overlap, no other learning takes it away.
CreatedKept ==
    \A i \in confirmed \ (archived \cup damaged) :
        \/ file[i] \notin {Nothing, Torn} /\ (Loads(file[i]) \/ i \in marked)
        \/ \E c \in InHand(i) : step[c] = "fill" /\ hand[c].live

\* The copies of a learning in files and in indexes, all of which may differ.
Copies(i) ==
    {index[s][i] : s \in Stores} \cup {file[i]} \cup
    {hand[c].rec : c \in InHand(i)}

\* No lost update, merge or stale index makes a learning look better than it
\* is: none has more applications than were reported, none is trusted beyond
\* what a caller asked for but by the applications L2 takes.
TrustEarned ==
    \A i \in LearningIds : \A r \in Copies(i) \ {Nothing, Torn} :
        /\ r.applied <= given[i]
        /\ r.trust > granted[i] => r.trust = 2 /\ given[i] >= L2Count

\* What one process at a time does to a learning, one call at a time, is what a
\* process that opens the store after the call has returned reads, as long as no
\* caller gives the learning a text with "---".
AloneIsDurable ==
    \A s \in open, i \in LearningIds \ (contested \cup marked) :
        index[s][i] # Nothing /\ InHand(i) = {} =>
            Loads(file[i]) /\ FromMarkdown(file[i]) = ToMarkdown(index[s][i])

\* markdown_store.rs: "Provides durable storage for shared learnings as markdown
\* files with YAML frontmatter"; a test of store.rs: "Now open the store - it
\* should load existing learnings".  A learning that was reported as created, and
\* that nobody archived, writes or failed to write, is loaded from its file.
CreatedLoads ==
    \A i \in confirmed \ (archived \cup damaged) :
        InHand(i) = {} => Loads(file[i])

\* cli_schema.rs: "Approve a suggestion (promotes to L3 and marks as approved)",
\* "Filter by status: pending, approved, rejected": a suggestion that was
\* approved or rejected is listed as such by every later command.
DecisionKept ==
    \A s \in open, i \in LearningIds :
        index[s][i] # Nothing /\ decided[i] # Nothing => index[s][i].status = decided[i]

=============================================================================
