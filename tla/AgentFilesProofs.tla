-------------------------- MODULE AgentFilesProofs --------------------------
(***************************************************************************)
(* Theorems about the files of the agent that several programs share, for  *)
(* every set of processes, every number of calls and every content: the    *)
(* shared learnings (SharedLearningStore), the backups (BackupManager),    *)
(* the configuration (AgentConfig) and the captured procedures             *)
(* (Procedures), and the files together, with the agent store.             *)
(***************************************************************************)
EXTENDS MCAgentFiles, AgentStoreProofs, WellFoundedInduction

-----------------------------------------------------------------------------
(* The shared learnings.                                                    *)

Learned(x) == x \notin {Nothing, Torn}

\* A call that is under way has something in hand, and nobody knows a learning
\* that was not created yet.
KnownInv ==
    /\ \A c \in Calls : step[c] \in {"merge", "save", "fill", "insert"} => hand[c] # Nothing
    /\ \A i \in LearningIds : i > learnt =>
          file[i] = Nothing /\ \A s \in Stores : index[s][i] = Nothing
    /\ \A c \in Calls : hand[c] # Nothing => hand[c].id <= learnt

\* Files are deleted of archived learnings only, and whoever fills a file that
\* lost its name fills one of those.
DoomedInv ==
    /\ \A c \in Calls : doomed[c] \subseteq archived \cap contested
    /\ \A c \in Calls : step[c] = "fill" /\ ~hand[c].live =>
          hand[c].id \in archived \cap contested

\* The file of learning i is there, or is being written, or whatever happened
\* to it is on record.
Kept(i) ==
    \/ i \in archived \cup damaged
    \/ Learned(file[i])
    \/ \E c \in InHand(i) : step[c] = "fill" /\ hand[c].live

\* A learning is saved before it is inserted in the index.
SavedInv ==
    /\ \A i \in confirmed : Kept(i)
    /\ \A c \in Calls : step[c] = "insert" => Kept(hand[c].id)

\* A file has no status, and so is what it decodes to.
FileInv == \A i \in LearningIds : Learned(file[i]) => file[i].status = "pending"

\* Of a learning nobody contests, one call at most is under way, its process
\* alone has it, as the call is about to save it; without such a call every
\* process has it as it is in its file.
Alone(i) ==
    /\ \A c, d \in InHand(i) : c = d
    /\ \A c \in InHand(i) :
         /\ \A s \in Stores : index[s][i] # Nothing =>
               s = Of[c] /\ ToMarkdown(index[s][i]) = ToMarkdown(hand[c].rec)
         /\ step[c] = "insert" => file[i] = ToMarkdown(hand[c].rec)
    /\ InHand(i) = {} => \A s \in Stores : index[s][i] # Nothing =>
          file[i] = ToMarkdown(index[s][i])

AloneInv == \A i \in LearningIds \ (contested \cup marked) : Alone(i)

\* A copy of learning i that looks no better than the learning is, and has a
\* text with "---" only if a caller gave it one.
Honest(i, r) ==
    /\ r.applied <= given[i]
    /\ r.trust > granted[i] => r.trust = 2 /\ given[i] >= L2Count
    /\ i \notin marked => r.mark = "whole"

CopiesInv == \A i \in LearningIds : \A r \in Copies(i) \ {Nothing, Torn} : Honest(i, r)

SharedInv ==
    /\ SharedTypeOK /\ KnownInv /\ DoomedInv /\ SavedInv /\ FileInv /\ AloneInv /\ CopiesInv

-----------------------------------------------------------------------------
(* The operators of the shared learnings.                                   *)

LEMMA MarkdownIs ==
    ASSUME NEW r \in Learning
    PROVE  /\ ToMarkdown(r) \in Learning /\ ToMarkdown(r).status = "pending"
           /\ ToMarkdown(r).applied = r.applied /\ ToMarkdown(r).trust = r.trust
           /\ ToMarkdown(r).mark = r.mark
           /\ r.status = "pending" => ToMarkdown(r) = r
           /\ Learned(r) /\ Learned(ToMarkdown(r))
<1>1. ToMarkdown(r) \in Learning /\ ToMarkdown(r).status = "pending"
      /\ ToMarkdown(r).applied = r.applied /\ ToMarkdown(r).trust = r.trust
      /\ ToMarkdown(r).mark = r.mark
  BY DEF ToMarkdown, Learning
<1>2. r.status = "pending" => ToMarkdown(r) = r
  BY DEF ToMarkdown, Learning
<1> QED BY <1>1, <1>2, SharedAssumption DEF Learned

\* What is read of a file: never more than what was written, and just that when
\* no text of it has a "---".
LEMMA ReadingIs ==
    ASSUME NEW f \in Learning
    PROVE  /\ FromMarkdown(f) \in Learning
           /\ FromMarkdown(f).trust = f.trust /\ FromMarkdown(f).status = f.status
           /\ FromMarkdown(f).mark = "whole"
           /\ FromMarkdown(f).applied \in {0, f.applied}
           /\ f.mark = "whole" => FromMarkdown(f) = f
           /\ Loads(f) <=> f.mark # "broken"
<1>1. PICK n \in {0, f.applied} :
         /\ FromMarkdown(f) = [f EXCEPT !.mark = "whole", !.applied = n]
         /\ f.mark = "whole" => n = f.applied
  BY DEF FromMarkdown
<1>2. /\ f.trust \in 0..3 /\ f.applied \in Nat /\ f.mark \in MarkKinds
      /\ f.status \in {"pending", "approved", "rejected"}
      /\ f = [trust |-> f.trust, applied |-> f.applied, mark |-> f.mark, status |-> f.status]
  BY DEF Learning
<1>3. FromMarkdown(f) = [trust |-> f.trust, applied |-> n, mark |-> "whole",
                         status |-> f.status]
  BY <1>1, <1>2
<1>4. n \in Nat /\ "whole" \in MarkKinds
  BY <1>1, <1>2 DEF MarkKinds
<1>5. f.mark = "whole" => FromMarkdown(f) = f
  BY <1>1, <1>2, <1>3
<1>6. Loads(f) <=> f.mark # "broken"
  BY SharedAssumption DEF Loads
<1> QED BY <1>1, <1>2, <1>3, <1>4, <1>5, <1>6 DEF Learning

\* An agent name changes the texts only.
LEMMA WithAgentIs ==
    ASSUME NEW r \in Learning, NEW m \in MarkKinds
    PROVE  /\ WithAgent(r, m) \in Learning
           /\ WithAgent(r, m).trust = r.trust /\ WithAgent(r, m).applied = r.applied
<1>1. WithAgent(r, m) \in {r, [r EXCEPT !.mark = m]}
  BY DEF WithAgent
<1> QED BY <1>1 DEF Learning

LEMMA AskedIs == \A kind \in EditKinds : Asked(kind) \in 0..3
BY DEF Asked, EditKinds

LEMMA Max2Is ==
    \A a, b \in Nat : Max2(a, b) \in {a, b} /\ Max2(a, b) >= a /\ Max2(a, b) >= b
BY DEF Max2

\* What a call makes of a learning: an application at most, and no trust but
\* what was asked for or what the L2 criteria give.
LEMMA EditedIs ==
    ASSUME NEW kind \in EditKinds, NEW r \in Learning, NEW q \in Edited(kind, r)
    PROVE  /\ q \in Learning
           /\ q.applied = r.applied + (IF kind \in {"touch", "apply"} THEN 1 ELSE 0)
           /\ \/ q.trust = r.trust
              \/ q.trust <= Asked(kind)
              \/ kind = "apply" /\ q.trust = 2 /\ q.applied >= L2Count
<1>1. /\ r.trust \in 0..3 /\ r.applied \in Nat
      /\ r.status \in {"pending", "approved", "rejected"}
      /\ r.mark \in MarkKinds
      /\ r = [trust |-> r.trust, applied |-> r.applied, mark |-> r.mark, status |-> r.status]
  BY DEF Learning
<1> DEFINE Goal == /\ q \in Learning
                   /\ q.applied = r.applied + (IF kind \in {"touch", "apply"} THEN 1 ELSE 0)
                   /\ \/ q.trust = r.trust
                      \/ q.trust <= Asked(kind)
                      \/ kind = "apply" /\ q.trust = 2 /\ q.applied >= L2Count
<1>2. ASSUME kind = "apply" PROVE Goal
  <2> DEFINE used == {[WithAgent(r, m) EXCEPT !.applied = @ + 1] : m \in Marks}
  <2>1. ASSUME NEW u \in used
        PROVE  u \in Learning /\ u.applied = r.applied + 1 /\ u.trust = r.trust
    <3>1. PICK m \in Marks : u = [WithAgent(r, m) EXCEPT !.applied = @ + 1]
      OBVIOUS
    <3> DEFINE named == WithAgent(r, m)
    <3>2. /\ named \in Learning /\ named.applied = r.applied /\ named.trust = r.trust
          /\ u = [named EXCEPT !.applied = @ + 1]
      BY <3>1, WithAgentIs, SharedAssumption
    <3> HIDE DEF named, used
    <3> QED BY <1>1, <3>2 DEF Learning
  <2>2. q \in Applied(r)
    BY <1>2 DEF Edited
  <2>3. Applied(r) = used \cup {[u EXCEPT !.trust = 2] :
                        u \in {v \in used : AutoPromote /\ r.trust = 1 /\ v.applied >= L2Count}}
    BY DEF Applied
  <2> HIDE DEF used
  <2>4. PICK u \in used : q = u \/ (q = [u EXCEPT !.trust = 2] /\ u.applied >= L2Count)
    BY <2>2, <2>3
  <2> DEFINE raised == [u EXCEPT !.trust = 2]
  <2>5. u \in Learning /\ u.applied = r.applied + 1 /\ u.trust = r.trust
    BY <2>1
  <2>6. raised \in Learning /\ raised.applied = u.applied /\ raised.trust = 2
    BY <2>5 DEF Learning
  <2>7. q = u \/ (q = raised /\ u.applied >= L2Count)
    BY <2>4
  <2> HIDE DEF raised
  <2> QED BY <1>2, <2>5, <2>6, <2>7
<1>3. ASSUME kind = "touch" PROVE Goal
  BY <1>1, <1>3 DEF Edited, Learning
<1>4. ASSUME kind \in {"l1", "l2", "l3"} PROVE Goal
  <2>1. PICK t \in 0..3 : q = [r EXCEPT !.trust = t] /\ (t = r.trust \/ t <= Asked(kind))
    BY <1>1, <1>4 DEF Edited, Asked, Max2
  <2> QED BY <1>1, <1>4, <2>1 DEF Learning
<1>5. ASSUME kind \in {"approve", "reject"} PROVE Goal
  <2>1. CASE kind = "approve"
    <3>1. q = [trust |-> 3, applied |-> r.applied, mark |-> r.mark, status |-> "approved"]
      BY <1>1, <2>1 DEF Edited
    <3> QED BY <1>1, <2>1, <3>1 DEF Asked, Learning
  <2>2. CASE kind = "reject"
    BY <1>1, <2>2 DEF Edited, Learning
  <2> QED BY <1>5, <2>1, <2>2
<1>6. kind \in {"touch", "apply", "l1", "l2", "l3", "approve", "reject"}
  BY DEF EditKinds
<1>7. Goal
  <2> HIDE DEF Goal
  <2> QED BY <1>2, <1>3, <1>4, <1>5, <1>6
<1> QED BY <1>7

\* What is in the hand of a call that saves.
LEMMA SaveIs ==
    ASSUME SharedTypeOK, NEW c \in Calls, NEW kind \in Kinds, NEW i \in LearningIds,
           NEW r \in Learning, Save(c, kind, i, r)
    PROVE  /\ step' = [step EXCEPT ![c] = "save"]
           /\ hand'[c].id = i /\ hand'[c].rec = r /\ hand'[c].kind = kind
           /\ hand'[c] \in Hand /\ hand'[c] # Nothing
           /\ \A d \in Calls \ {c} : hand'[d] = hand[d]
           /\ hand' \in [Calls -> Hand \cup {Nothing}]
           /\ contested \subseteq contested' /\ contested' \subseteq contested \cup {i}
           /\ InHand(i) # {} \/ Shared(Of[c], i) => i \in contested'
           /\ marked \subseteq marked' /\ marked' \subseteq marked \cup {i}
           /\ i \notin marked' => r.mark = "whole"
<1>1. [kind |-> kind, id |-> i, rec |-> r, live |-> FALSE] \in Hand
  BY DEF Hand
<1>2. step' = [step EXCEPT ![c] = "save"]
  BY DEF Save, GotoAwait
<1>3. hand' = [hand EXCEPT ![c] = [kind |-> kind, id |-> i, rec |-> r, live |-> FALSE]]
  BY DEF Save
<1>4. hand \in [Calls -> Hand \cup {Nothing}]
  BY DEF SharedTypeOK
<1>5. /\ contested \subseteq contested' /\ contested' \subseteq contested \cup {i}
      /\ InHand(i) # {} \/ Shared(Of[c], i) => i \in contested'
      /\ marked \subseteq marked' /\ marked' \subseteq marked \cup {i}
      /\ i \notin marked' => r.mark = "whole"
  BY DEF Save
<1> QED BY <1>1, <1>2, <1>3, <1>4, <1>5, SharedAssumption

LEMMA HandIs ==
    ASSUME SharedTypeOK, KnownInv, NEW c \in Calls,
           step[c] \in {"merge", "save", "fill", "insert"}
    PROVE  /\ hand[c] \in Hand /\ hand[c].id \in LearningIds /\ hand[c].id \in 1 .. learnt
           /\ hand[c].rec \in Learning /\ hand[c].kind \in Kinds /\ hand[c].live \in BOOLEAN
           /\ learnt \in Nat /\ learnt <= MaxLearnings
<1>1. hand[c] # Nothing /\ hand[c] \in Hand \cup {Nothing} /\ hand[c].id <= learnt
      /\ learnt \in 0 .. MaxLearnings /\ MaxLearnings \in Nat
  BY SharedAssumption DEF SharedTypeOK, KnownInv
<1> QED BY <1>1 DEF Hand, LearningIds

LEMMA IndexIs ==
    ASSUME SharedTypeOK, KnownInv, NEW s \in Stores, NEW i \in LearningIds,
           index[s][i] # Nothing
    PROVE  index[s][i] \in Learning /\ i \in 1 .. learnt
<1>1. index[s][i] \in Learning \cup {Nothing} /\ learnt \in 0 .. MaxLearnings
  BY DEF SharedTypeOK
<1>2. MaxLearnings \in Nat /\ i \in Nat /\ i >= 1
  BY SharedAssumption DEF LearningIds
<1>3. ~(i > learnt)
  BY DEF KnownInv
<1> QED BY <1>1, <1>2, <1>3

-----------------------------------------------------------------------------
(* The types, and what is not known yet.                                    *)

LEMMA SharedInitInv == SharedInit => SharedInv
<1> SUFFICES ASSUME SharedInit PROVE SharedInv
  OBVIOUS
<1> USE DEF SharedInit
<1>1. SharedTypeOK
  BY SharedAssumption DEF SharedTypeOK
<1>2. KnownInv /\ DoomedInv /\ SavedInv
  BY DEF KnownInv, DoomedInv, SavedInv
<1>3. FileInv
  BY DEF FileInv, Learned
<1>4. \A i \in LearningIds : InHand(i) = {} /\ \A s \in Stores : index[s][i] = Nothing
  BY DEF InHand
<1>5. AloneInv
  BY <1>4 DEF AloneInv, Alone
<1>6. CopiesInv
  BY <1>4 DEF CopiesInv, Copies
<1> QED BY <1>1, <1>2, <1>3, <1>5, <1>6 DEF SharedInv

\* What the types and KnownInv say of one call and one learning.
LEMMA TypesIs ==
    ASSUME SharedTypeOK, KnownInv
    PROVE  /\ learnt \in Nat /\ learnt <= MaxLearnings /\ 1 .. learnt \subseteq LearningIds
           /\ \A i \in LearningIds : i \in Nat /\ i >= 1
           /\ \A c \in Calls : step[c] \in {"save", "fill", "insert"} <=> c \in InHand(hand[c].id)
           /\ \A c \in Calls, i \in LearningIds : c \in InHand(i) => i \in 1 .. learnt
           /\ \A s \in Stores, i \in LearningIds :
                 index[s][i] # Nothing => index[s][i] \in Learning /\ i \in 1 .. learnt
           /\ \A i \in LearningIds : Learned(file[i]) => file[i] \in Learning
<1>1. learnt \in 0 .. MaxLearnings /\ MaxLearnings \in Nat
  BY SharedAssumption DEF SharedTypeOK
<1>2. \A c \in Calls, i \in LearningIds : c \in InHand(i) => i \in 1 .. learnt
  BY HandIs DEF InHand
<1>3. \A c \in Calls : step[c] \in {"save", "fill", "insert"} <=> c \in InHand(hand[c].id)
  BY DEF InHand
<1>4. \A i \in LearningIds : Learned(file[i]) => file[i] \in Learning
  BY DEF SharedTypeOK, Learned
<1> QED BY <1>1, <1>2, <1>3, <1>4, IndexIs DEF LearningIds

\* What keeps KnownInv when no learning is created.
LEMMA KnownFrame ==
    ASSUME KnownInv, UNCHANGED learnt,
           \A c \in Calls : step'[c] \in {"merge", "save", "fill", "insert"} => hand'[c] # Nothing,
           \A i \in LearningIds : i > learnt =>
               file'[i] = Nothing /\ \A s \in Stores : index'[s][i] = Nothing,
           \A c \in Calls : hand'[c] # Nothing => hand'[c].id <= learnt
    PROVE  KnownInv'
BY DEF KnownInv

LEMMA OpenStep ==
    ASSUME SharedTypeOK, KnownInv, NEW s \in Stores, Open(s)
    PROVE  SharedTypeOK' /\ KnownInv'
<1>1. UNCHANGED <<file, step, hand, doomed, learnt, given, granted, decided, confirmed, archived,
                  damaged, marked, begun, exits>>
  BY DEF Open, callVars
<1>2. /\ index' = [index EXCEPT ![s] = [i \in LearningIds |->
                     IF Loads(file[i]) THEN FromMarkdown(file[i]) ELSE Nothing]]
      /\ index' \in [Stores -> [LearningIds -> Learning \cup {Nothing}]]
  <2>1. \A i \in LearningIds : Loads(file[i]) => FromMarkdown(file[i]) \in Learning
    BY TypesIs, ReadingIs DEF Learned, Loads
  <2> QED BY <2>1 DEF Open, SharedTypeOK
<1>3. contested' \subseteq 1 .. learnt
  <2>1. \A i \in LearningIds : InHand(i) # {} => i \in 1 .. learnt
    BY TypesIs DEF InHand
  <2>2. contested' = contested \cup {i \in LearningIds : InHand(i) # {}}
    BY DEF Open
  <2> QED BY <2>1, <2>2 DEF SharedTypeOK
<1>4. open' = open \cup {s}
  BY DEF Open
<1>5. SharedTypeOK'
  BY <1>1, <1>2, <1>3, <1>4 DEF SharedTypeOK
<1>6. KnownInv'
  <2>1. ASSUME NEW i \in LearningIds, i > learnt, NEW t \in Stores PROVE index'[t][i] = Nothing
    BY <1>2, <2>1 DEF KnownInv, SharedTypeOK, Loads
  <2> QED BY <1>1, <2>1 DEF KnownInv
<1> QED BY <1>5, <1>6

LEMMA ExitStep ==
    ASSUME SharedTypeOK, KnownInv, NEW s \in Stores, Exit(s)
    PROVE  SharedTypeOK' /\ KnownInv'
<1>1. UNCHANGED <<file, learnt, given, granted, decided, confirmed, archived, contested, marked,
                  begun>>
  BY DEF Exit
<1>2. \A c \in Calls : /\ step'[c] = IF Of[c] = s THEN "idle" ELSE step[c]
                       /\ hand'[c] = IF Of[c] = s THEN Nothing ELSE hand[c]
                       /\ doomed'[c] = IF Of[c] = s THEN {} ELSE doomed[c]
  BY DEF Exit
<1>3. /\ step' \in [Calls -> {"idle", "merge", "save", "fill", "insert", "delete"}]
      /\ hand' \in [Calls -> Hand \cup {Nothing}]
      /\ doomed' \in [Calls -> SUBSET LearningIds]
  <2>1. step' = [c \in Calls |-> step'[c]] /\ hand' = [c \in Calls |-> hand'[c]]
        /\ doomed' = [c \in Calls |-> doomed'[c]]
    BY DEF Exit
  <2> QED BY <1>2, <2>1 DEF SharedTypeOK
<1>4. /\ index' = [index EXCEPT ![s] = [i \in LearningIds |-> Nothing]]
      /\ index' \in [Stores -> [LearningIds -> Learning \cup {Nothing}]]
  BY DEF Exit, SharedTypeOK
<1>5. damaged' \subseteq 1 .. learnt
  <2>1. \A c \in Calls : step[c] = "fill" => hand[c].id \in 1 .. learnt
    BY HandIs
  <2> QED BY <2>1 DEF Exit, SharedTypeOK
<1>6. open' = open \ {s} /\ exits' \in 0 .. MaxExits
  BY SharedAssumption DEF Exit, SharedTypeOK
<1>7. \A c \in Calls : step'[c] # "idle" => Of[c] \in open'
  BY <1>2, <1>6 DEF SharedTypeOK
<1>8. SharedTypeOK'
  BY <1>1, <1>3, <1>4, <1>5, <1>6, <1>7 DEF SharedTypeOK
<1>9. KnownInv'
  <2>1. ASSUME NEW i \in LearningIds, i > learnt, NEW t \in Stores PROVE index'[t][i] = Nothing
    BY <1>4, <2>1 DEF KnownInv, SharedTypeOK
  <2> QED BY <1>1, <1>2, <2>1 DEF KnownInv
<1> QED BY <1>8, <1>9

\* A call that ends, and one that takes nothing in hand.
LEMMA ReturnIs ==
    ASSUME SharedTypeOK, NEW c \in Calls, Return(c)
    PROVE  /\ step' = [step EXCEPT ![c] = "idle"] /\ hand' = [hand EXCEPT ![c] = Nothing]
           /\ step'[c] = "idle" /\ hand'[c] = Nothing
           /\ \A d \in Calls \ {c} : step'[d] = step[d] /\ hand'[d] = hand[d]
           /\ step' \in [Calls -> {"idle", "merge", "save", "fill", "insert", "delete"}]
           /\ hand' \in [Calls -> Hand \cup {Nothing}]
BY DEF Return, GotoAwait, SharedTypeOK

LEMMA GotoIs ==
    ASSUME SharedTypeOK, NEW c \in Calls,
           NEW l \in {"idle", "merge", "save", "fill", "insert", "delete"},
           step' = [step EXCEPT ![c] = l]
    PROVE  /\ step'[c] = l /\ \A d \in Calls \ {c} : step'[d] = step[d]
           /\ step' \in [Calls -> {"idle", "merge", "save", "fill", "insert", "delete"}]
BY DEF SharedTypeOK

LEMMA CallsOpen ==
    ASSUME SharedTypeOK, NEW c \in Calls, UNCHANGED open, Of[c] \in open,
           \A d \in Calls \ {c} : step'[d] = step[d]
    PROVE  \A d \in Calls : step'[d] # "idle" => Of[d] \in open'
BY DEF SharedTypeOK

LEMMA CreateStep ==
    ASSUME SharedTypeOK, KnownInv, NEW c \in Calls, Create(c)
    PROVE  SharedTypeOK' /\ KnownInv'
<1>1. /\ UNCHANGED <<file, open, index, doomed, decided, confirmed, archived, damaged, exits>>
      /\ learnt' = learnt + 1 /\ learnt < MaxLearnings /\ Of[c] \in open
      /\ begun' \in 0 .. MaxCalls
  BY SharedAssumption DEF Create, Begin, SharedTypeOK
<1>2. learnt' \in LearningIds /\ learnt' \in 0 .. MaxLearnings /\ learnt \in Nat
  BY <1>1, TypesIs, SharedAssumption DEF LearningIds
<1>3. PICK t \in {0, 1}, n \in Brought, m \in Marks :
         /\ Save(c, "create", learnt', NewLearning(t, n, m))
         /\ granted' = [granted EXCEPT ![learnt'] = t]
         /\ given' = [given EXCEPT ![learnt'] = n]
  BY DEF Create
<1>4. NewLearning(t, n, m) \in Learning /\ "create" \in Kinds
  BY SharedAssumption DEF NewLearning, Learning, Kinds
<1>5. /\ step' = [step EXCEPT ![c] = "save"]
      /\ hand'[c].id = learnt'
      /\ \A d \in Calls \ {c} : hand'[d] = hand[d]
      /\ hand' \in [Calls -> Hand \cup {Nothing}]
      /\ contested' \subseteq contested \cup {learnt'} /\ marked' \subseteq marked \cup {learnt'}
      /\ hand'[c] \in Hand
  BY <1>2, <1>3, <1>4, SaveIs
<1>6. /\ step' \in [Calls -> {"idle", "merge", "save", "fill", "insert", "delete"}]
      /\ \A d \in Calls \ {c} : step'[d] = step[d]
  BY <1>5, GotoIs
<1>7. \A d \in Calls : step'[d] # "idle" => Of[d] \in open'
  BY <1>1, <1>6, CallsOpen
<1>8. confirmed' \cup archived' \cup damaged' \cup contested' \cup marked' \subseteq 1 .. learnt'
  <2>1. 1 .. learnt \subseteq 1 .. learnt' /\ learnt' \in 1 .. learnt'
    BY <1>1, <1>2
  <2> QED BY <1>1, <1>5, <2>1 DEF SharedTypeOK
<1>9. given' \in [LearningIds -> Nat] /\ granted' \in [LearningIds -> 0..3]
  BY <1>2, <1>3, SharedAssumption DEF SharedTypeOK
<1>10. SharedTypeOK'
  BY <1>1, <1>2, <1>5, <1>6, <1>7, <1>8, <1>9 DEF SharedTypeOK
<1>11. KnownInv'
  <2>1. \A i \in LearningIds : i > learnt' => i > learnt
    BY <1>1, <1>2 DEF LearningIds
  <2>2. \A d \in Calls : hand'[d] # Nothing => hand'[d].id <= learnt'
    <3> SUFFICES ASSUME NEW d \in Calls, d # c, hand[d] # Nothing PROVE hand[d].id <= learnt'
      BY <1>2, <1>5
    <3>1. hand[d] \in Hand /\ hand[d].id <= learnt
      BY DEF SharedTypeOK, KnownInv
    <3>2. hand[d].id \in Nat
      BY <3>1 DEF Hand, LearningIds
    <3> QED BY <1>1, <1>2, <3>1, <3>2
  <2>3. hand'[c] # Nothing
    BY <1>2, <1>3, <1>4, SaveIs
  <2> QED BY <1>1, <1>5, <1>6, <2>1, <2>2, <2>3 DEF KnownInv
<1> QED BY <1>10, <1>11

LEMMA FindStep ==
    ASSUME SharedTypeOK, KnownInv, NEW c \in Calls, FindSimilar(c)
    PROVE  SharedTypeOK' /\ KnownInv'
<1>1. /\ UNCHANGED <<file, open, index, doomed, learnt, given, granted, decided, confirmed,
                     archived, damaged, contested, marked, exits>>
      /\ Of[c] \in open /\ begun' \in 0 .. MaxCalls /\ Of[c] \in Stores
  BY SharedAssumption DEF FindSimilar, Begin, SharedTypeOK, sharedHistory
<1>2. PICK i \in LearningIds :
         /\ index[Of[c]][i] # Nothing
         /\ hand' = [hand EXCEPT ![c] = [kind |-> "merge", id |-> i, live |-> FALSE,
                                         rec |-> NewLearning(1, 0, "whole")]]
  BY DEF FindSimilar
<1>3. /\ [kind |-> "merge", id |-> i, live |-> FALSE, rec |-> NewLearning(1, 0, "whole")] \in Hand
      /\ i <= learnt
  <2>1. NewLearning(1, 0, "whole") \in Learning /\ "merge" \in Kinds
    BY DEF NewLearning, MarkKinds, Learning, Kinds
  <2>2. i \in 1 .. learnt
    BY <1>1, <1>2, TypesIs
  <2>3. learnt \in Nat
    BY TypesIs
  <2> QED BY <2>1, <2>2, <2>3 DEF Hand
<1>4. /\ hand' \in [Calls -> Hand \cup {Nothing}] /\ hand'[c] # Nothing /\ hand'[c].id <= learnt
      /\ \A d \in Calls \ {c} : hand'[d] = hand[d]
  BY <1>2, <1>3, SharedAssumption DEF SharedTypeOK
<1>5. /\ step' \in [Calls -> {"idle", "merge", "save", "fill", "insert", "delete"}]
      /\ \A d \in Calls \ {c} : step'[d] = step[d]
  BY GotoIs DEF FindSimilar, GotoAwait
<1>6. \A d \in Calls : step'[d] # "idle" => Of[d] \in open'
  BY <1>1, <1>5, CallsOpen
<1>7. SharedTypeOK'
  BY <1>1, <1>4, <1>5, <1>6 DEF SharedTypeOK
<1>8. KnownInv'
  BY <1>1, <1>4, <1>5 DEF KnownInv
<1> QED BY <1>7, <1>8

\* What Merge and Edit have in common: a learning of the index changes and is
\* about to be saved.
LEMMA ChangeStep ==
    ASSUME SharedTypeOK, KnownInv, NEW c \in Calls, NEW kind \in Kinds, NEW i \in LearningIds,
           NEW r \in Learning, Save(c, kind, i, r),
           Of[c] \in open, index[Of[c]][i] # Nothing,
           index' = [index EXCEPT ![Of[c]][i] = r],
           UNCHANGED <<file, open, doomed, learnt, confirmed, archived, damaged, exits>>,
           given' \in [LearningIds -> Nat], granted' \in [LearningIds -> 0..3],
           decided' \in [LearningIds -> {Nothing, "approved", "rejected"}],
           begun' \in 0 .. MaxCalls
    PROVE  SharedTypeOK' /\ KnownInv'
<1>1. Of[c] \in Stores /\ i \in 1 .. learnt /\ learnt \in Nat
  <2>1. Of[c] \in Stores
    BY SharedAssumption
  <2> QED BY <2>1, TypesIs
<1>2. /\ step' = [step EXCEPT ![c] = "save"]
      /\ hand'[c].id = i /\ hand'[c] # Nothing
      /\ \A d \in Calls \ {c} : hand'[d] = hand[d]
      /\ hand' \in [Calls -> Hand \cup {Nothing}]
      /\ contested' \subseteq contested \cup {i} /\ marked' \subseteq marked \cup {i}
  BY SaveIs
<1>3. /\ step' \in [Calls -> {"idle", "merge", "save", "fill", "insert", "delete"}]
      /\ \A d \in Calls \ {c} : step'[d] = step[d]
  BY <1>2, GotoIs
<1>4. \A d \in Calls : step'[d] # "idle" => Of[d] \in open'
  BY <1>3, CallsOpen
<1>5. index' \in [Stores -> [LearningIds -> Learning \cup {Nothing}]]
  BY <1>1 DEF SharedTypeOK
<1>6. SharedTypeOK'
  BY <1>1, <1>2, <1>3, <1>4, <1>5 DEF SharedTypeOK
<1>7. KnownInv'
  <2>1. ASSUME NEW j \in LearningIds, j > learnt, NEW t \in Stores PROVE index'[t][j] = Nothing
    <3>1. j # i
      BY <1>1, <2>1
    <3>2. index'[t][j] = index[t][j]
      BY <3>1 DEF SharedTypeOK
    <3> QED BY <2>1, <3>2 DEF KnownInv
  <2>2. hand'[c].id <= learnt
    BY <1>1, <1>2
  <2> QED BY <1>2, <1>3, <2>1, <2>2 DEF KnownInv
<1> QED BY <1>6, <1>7

\* What a merge makes of what it finds: more applications, and no more trust.
Merged(c, i, old) ==
    \E n \in Nat, q \in Learning :
        /\ q.trust = old.trust
        /\ q.applied = old.applied + n
        /\ index' = [index EXCEPT ![Of[c]][i] = q]
        /\ Save(c, "merge", i, q)
        /\ given' = [given EXCEPT ![i] = @ + n]

LEMMA MergeIs ==
    ASSUME SharedTypeOK, KnownInv, NEW c \in Calls, Merge(c)
    PROVE  /\ hand[c].id \in 1 .. learnt /\ hand[c].id \in LearningIds
           /\ Of[c] \in open /\ Of[c] \in Stores
           /\ UNCHANGED <<file, open, doomed, learnt, granted, decided, confirmed, archived,
                          damaged, begun, exits>>
           /\ \/ Return(c) /\ UNCHANGED <<index, given, contested, marked>>
              \/ /\ index[Of[c]][hand[c].id] \in Learning /\ index[Of[c]][hand[c].id] # Nothing
                 /\ Merged(c, hand[c].id, index[Of[c]][hand[c].id])
<1> DEFINE i == hand[c].id
           old == index[Of[c]][i]
           Changed == Merged(c, i, old)
<1>1. step[c] = "merge" /\ Of[c] \in Stores
  BY SharedAssumption DEF Merge
<1>2. i \in 1 .. learnt /\ i \in LearningIds
  BY <1>1, HandIs
<1>3. Of[c] \in open
  BY <1>1 DEF SharedTypeOK
<1>4. UNCHANGED <<file, open, doomed, learnt, granted, decided, confirmed, archived,
                  damaged, begun, exits>>
  BY DEF Merge
<1>6. ASSUME old # Nothing, NEW n \in Brought, NEW m \in Marks,
             index' = [index EXCEPT ![Of[c]][i] = MergedWith(old, n, m)],
             Save(c, "merge", i, MergedWith(old, n, m)),
             given' = [given EXCEPT ![i] = @ + n]
      PROVE  old \in Learning /\ Changed
  <2>1. old \in Learning
    BY <1>1, <1>2, <1>6, TypesIs
  <2>2. n \in Nat /\ m \in MarkKinds
    BY SharedAssumption
  <2> DEFINE q == MergedWith(old, n, m)
             named == WithAgent(old, m)
  <2>3. named \in Learning /\ named.trust = old.trust /\ named.applied = old.applied
    BY <2>1, <2>2, WithAgentIs
  <2>4. q \in Learning /\ q.trust = old.trust /\ q.applied = old.applied + n
    <3>1. q = [named EXCEPT !.applied = @ + n]
      BY DEF MergedWith
    <3> HIDE DEF q, named, old
    <3> QED BY <2>2, <2>3, <3>1 DEF Learning
  <2>5. /\ index' = [index EXCEPT ![Of[c]][i] = q] /\ Save(c, "merge", i, q)
        /\ given' = [given EXCEPT ![i] = @ + n]
    BY <1>6
  <2> HIDE DEF q, named, old
  <2> QED BY <2>1, <2>2, <2>4, <2>5 DEF Merged
<1>7. ASSUME old # Nothing PROVE old \in Learning /\ Changed
  <2>1. PICK n \in Brought, m \in Marks :
           /\ index' = [index EXCEPT ![Of[c]][i] = MergedWith(old, n, m)]
           /\ Save(c, "merge", i, MergedWith(old, n, m))
           /\ given' = [given EXCEPT ![i] = @ + n]
    BY <1>7 DEF Merge
  <2> HIDE DEF Changed
  <2>2. old \in Learning /\ Changed
    BY <1>6, <1>7, <2>1
  <2> QED BY <1>1, <1>7, <2>2
<1>9. old # Nothing => old \in Learning /\ Changed
  <2> HIDE DEF Changed
  <2> QED BY <1>7
<1>8. old = Nothing => Return(c) /\ UNCHANGED <<index, given, contested, marked>>
  BY DEF Merge
<1>10. \/ Return(c) /\ UNCHANGED <<index, given, contested, marked>>
       \/ old \in Learning /\ old # Nothing /\ Changed
  <2> HIDE DEF Changed, old
  <2> QED BY <1>8, <1>9
<1> QED BY <1>1, <1>2, <1>3, <1>4, <1>10

\* What a merge leaves as it is.
LEMMA MergeFrame ==
    ASSUME SharedTypeOK, NEW c \in Calls, Merge(c)
    PROVE  /\ UNCHANGED <<file, open, doomed, learnt, granted, decided, confirmed, archived,
                          damaged, begun, exits>>
           /\ step[c] = "merge" /\ step'[c] \in {"idle", "save"}
           /\ \A d \in Calls \ {c} : step'[d] = step[d] /\ hand'[d] = hand[d]
           /\ contested \subseteq contested' /\ marked \subseteq marked'
<1>1. /\ UNCHANGED <<file, open, doomed, learnt, granted, decided, confirmed, archived,
                     damaged, begun, exits>>
      /\ step[c] = "merge"
  BY DEF Merge
<1>2. \/ Return(c) /\ UNCHANGED <<contested, marked>>
      \/ \E i, r : Save(c, "merge", i, r)
  BY DEF Merge
<1> QED BY <1>1, <1>2 DEF Return, Save, GotoAwait, SharedTypeOK

LEMMA MergeStep ==
    ASSUME SharedTypeOK, KnownInv, NEW c \in Calls, Merge(c)
    PROVE  SharedTypeOK' /\ KnownInv'
<1> DEFINE i == hand[c].id
<1>1. /\ i \in LearningIds /\ Of[c] \in open
      /\ UNCHANGED <<file, open, doomed, learnt, granted, decided, confirmed, archived,
                     damaged, begun, exits>>
  BY MergeIs
<1>2. CASE Return(c) /\ UNCHANGED <<index, given, contested, marked>>
  <2>1. /\ step' \in [Calls -> {"idle", "merge", "save", "fill", "insert", "delete"}]
        /\ hand' \in [Calls -> Hand \cup {Nothing}]
        /\ \A d \in Calls \ {c} : step'[d] = step[d] /\ hand'[d] = hand[d]
        /\ step'[c] = "idle" /\ hand'[c] = Nothing
    BY <1>2, ReturnIs
  <2>2. \A d \in Calls : step'[d] # "idle" => Of[d] \in open'
    BY <1>1, <2>1, CallsOpen
  <2>3. SharedTypeOK'
    BY <1>1, <1>2, <2>1, <2>2 DEF SharedTypeOK
  <2>4. KnownInv'
    BY <1>1, <1>2, <2>1 DEF KnownInv
  <2> QED BY <2>3, <2>4
<1>3. ASSUME NEW n \in Nat, NEW q \in Learning, index[Of[c]][i] # Nothing,
             index' = [index EXCEPT ![Of[c]][i] = q], Save(c, "merge", i, q),
             given' = [given EXCEPT ![i] = @ + n]
      PROVE  SharedTypeOK' /\ KnownInv'
  <2>1. "merge" \in Kinds
    BY DEF Kinds
  <2>2. given' \in [LearningIds -> Nat] /\ granted' \in [LearningIds -> 0..3]
        /\ decided' \in [LearningIds -> {Nothing, "approved", "rejected"}]
        /\ begun' \in 0 .. MaxCalls
    BY <1>1, <1>3 DEF SharedTypeOK
  <2> QED BY <1>1, <1>3, <2>1, <2>2, ChangeStep
<1> QED BY <1>2, <1>3, MergeIs DEF Merged

LEMMA EditStep ==
    ASSUME SharedTypeOK, KnownInv, NEW c \in Calls, Edit(c)
    PROVE  SharedTypeOK' /\ KnownInv'
<1>1. /\ UNCHANGED <<file, open, doomed, learnt, confirmed, archived, damaged, exits>>
      /\ Of[c] \in open /\ Of[c] \in Stores /\ begun' \in 0 .. MaxCalls
  BY SharedAssumption DEF Edit, Begin, SharedTypeOK
<1>2. PICK i \in LearningIds, kind \in Edits :
         /\ index[Of[c]][i] # Nothing
         /\ \E r \in Edited(kind, index[Of[c]][i]) :
            /\ index' = [index EXCEPT ![Of[c]][i] = r]
            /\ Save(c, kind, i, r)
         /\ given' = [given EXCEPT ![i] = IF kind \in {"touch", "apply"} THEN @ + 1 ELSE @]
         /\ granted' = [granted EXCEPT ![i] = Max2(@, Asked(kind))]
         /\ decided' = [decided EXCEPT ![i] = IF kind \in {"approve", "reject"}
                                                THEN Nothing ELSE @]
  BY DEF Edit
<1>3. PICK r \in Edited(kind, index[Of[c]][i]) :
            /\ index' = [index EXCEPT ![Of[c]][i] = r]
            /\ Save(c, kind, i, r)
  BY <1>2
<1>4. kind \in EditKinds /\ kind \in Kinds
  BY SharedAssumption DEF Kinds
<1>5. r \in Learning
  <2>1. index[Of[c]][i] \in Learning
    BY <1>1, <1>2, TypesIs
  <2> QED BY <1>3, <1>4, <2>1, EditedIs
<1>6. Max2(granted[i], Asked(kind)) \in 0..3
  BY <1>4, AskedIs DEF SharedTypeOK, Max2
<1>7. /\ given' \in [LearningIds -> Nat] /\ granted' \in [LearningIds -> 0..3]
      /\ decided' \in [LearningIds -> {Nothing, "approved", "rejected"}]
  BY <1>2, <1>6 DEF SharedTypeOK
<1> QED BY <1>1, <1>2, <1>3, <1>4, <1>5, <1>7, ChangeStep

LEMMA TruncateStep ==
    ASSUME SharedTypeOK, KnownInv, NEW c \in Calls, TruncateFile(c)
    PROVE  /\ SharedTypeOK' /\ KnownInv'
           /\ hand'[c].id = hand[c].id /\ hand'[c].rec = hand[c].rec /\ hand'[c].live
           /\ \A d \in Calls \ {c} : hand'[d] = hand[d] /\ step'[d] = step[d]
           /\ step'[c] = "fill"
<1>1. /\ UNCHANGED <<open, index, doomed, learnt, given, granted, decided, confirmed, archived,
                     damaged, contested, marked, begun, exits>>
      /\ step[c] = "save" /\ step' = [step EXCEPT ![c] = "fill"]
      /\ hand' = [hand EXCEPT ![c].live = TRUE]
      /\ file' = [file EXCEPT ![hand[c].id] = Torn]
  BY DEF TruncateFile, sharedHistory, GotoAwait
<1>2. /\ hand[c] \in Hand /\ hand[c].id \in LearningIds /\ hand[c].id \in 1 .. learnt
      /\ Of[c] \in open /\ learnt \in Nat
  BY <1>1, HandIs DEF SharedTypeOK
<1>3. LET h == [hand[c] EXCEPT !.live = TRUE] IN
      h \in Hand /\ h.id = hand[c].id /\ h.rec = hand[c].rec /\ h.live
  BY <1>2 DEF Hand
<1>4. /\ hand'[c] \in Hand /\ hand'[c].id = hand[c].id /\ hand'[c].rec = hand[c].rec
      /\ hand'[c].live
      /\ \A d \in Calls \ {c} : hand'[d] = hand[d]
      /\ hand' \in [Calls -> Hand \cup {Nothing}]
  BY <1>1, <1>3 DEF SharedTypeOK
<1>5. /\ step' \in [Calls -> {"idle", "merge", "save", "fill", "insert", "delete"}]
      /\ \A d \in Calls \ {c} : step'[d] = step[d]
      /\ step'[c] = "fill"
  BY <1>1, GotoIs
<1>6. \A d \in Calls : step'[d] # "idle" => Of[d] \in open'
  BY <1>1, <1>2, <1>5, CallsOpen
<1>7. file' \in [LearningIds -> Learning \cup {Nothing, Torn}]
  BY <1>1, <1>2 DEF SharedTypeOK
<1>8. SharedTypeOK'
  BY <1>1, <1>4, <1>5, <1>6, <1>7 DEF SharedTypeOK
<1>9. KnownInv'
  <2>1. ASSUME NEW j \in LearningIds, j > learnt PROVE file'[j] = Nothing
    <3>1. j # hand[c].id
      BY <1>2, <2>1
    <3> QED BY <1>1, <2>1, <3>1 DEF KnownInv, SharedTypeOK
  <2>2. hand'[c] # Nothing /\ hand'[c].id <= learnt
    BY <1>2, <1>4, SharedAssumption
  <2> QED BY <1>1, <1>4, <1>5, <2>1, <2>2 DEF KnownInv
<1> QED BY <1>4, <1>5, <1>8, <1>9

LEMMA FillIs ==
    ASSUME SharedTypeOK, KnownInv, NEW c \in Calls, FillFile(c)
    PROVE  LET i == hand[c].id IN
           /\ i \in LearningIds /\ i \in 1 .. learnt /\ Of[c] \in open /\ learnt \in Nat
           /\ hand[c].rec \in Learning
           /\ UNCHANGED <<open, index, doomed, learnt, given, granted, confirmed, archived,
                          contested, marked, begun, exits>>
           /\ file' = IF hand[c].live THEN [file EXCEPT ![i] = ToMarkdown(hand[c].rec)] ELSE file
           /\ damaged' = IF hand[c].live THEN damaged \ {i} ELSE damaged
           /\ \/ /\ step' = [step EXCEPT ![c] = "insert"] /\ step'[c] = "insert"
                 /\ UNCHANGED hand /\ hand[c] # Nothing
              \/ Return(c)
           /\ step[c] = "fill"
<1>1. step[c] = "fill"
  BY DEF FillFile
<1>2. /\ hand[c] \in Hand /\ hand[c].id \in LearningIds /\ hand[c].id \in 1 .. learnt
      /\ hand[c].rec \in Learning /\ learnt \in Nat
  BY <1>1, HandIs
<1>3. Of[c] \in open /\ hand[c] # Nothing
  BY <1>1 DEF SharedTypeOK, KnownInv
<1> QED BY <1>1, <1>2, <1>3, GotoIs DEF FillFile, GotoAwait

LEMMA FillStep ==
    ASSUME SharedTypeOK, KnownInv, NEW c \in Calls, FillFile(c)
    PROVE  SharedTypeOK' /\ KnownInv'
<1> DEFINE i == hand[c].id
<1>1. /\ i \in LearningIds /\ i \in 1 .. learnt /\ Of[c] \in open /\ learnt \in Nat
      /\ UNCHANGED <<open, index, doomed, learnt, given, granted, confirmed, archived,
                     contested, marked, begun, exits>>
  BY FillIs
<1>2. file' \in [LearningIds -> Learning \cup {Nothing, Torn}]
      /\ \A j \in LearningIds \ {i} : file'[j] = file[j]
  <2>1. ToMarkdown(hand[c].rec) \in Learning
    BY FillIs, MarkdownIs
  <2> QED BY <1>1, <2>1, FillIs DEF SharedTypeOK
<1>3. damaged' \subseteq damaged
  BY FillIs
<1>4. /\ step' \in [Calls -> {"idle", "merge", "save", "fill", "insert", "delete"}]
      /\ hand' \in [Calls -> Hand \cup {Nothing}]
      /\ \A d \in Calls \ {c} : step'[d] = step[d] /\ hand'[d] = hand[d]
      /\ \/ step'[c] = "idle" /\ hand'[c] = Nothing
         \/ step'[c] = "insert" /\ hand'[c] = hand[c] /\ hand[c] # Nothing
  <2>1. CASE Return(c)
    BY <2>1, ReturnIs
  <2>2. CASE /\ step' = [step EXCEPT ![c] = "insert"] /\ step'[c] = "insert"
             /\ UNCHANGED hand /\ hand[c] # Nothing
    BY <2>2, GotoIs DEF SharedTypeOK
  <2> QED BY <2>1, <2>2, FillIs
<1>5. \A d \in Calls : step'[d] # "idle" => Of[d] \in open'
  BY <1>1, <1>4, CallsOpen
<1>6. decided' \in [LearningIds -> {Nothing, "approved", "rejected"}]
  BY DEF FillFile, SharedTypeOK
<1>7. SharedTypeOK'
  BY <1>1, <1>2, <1>3, <1>4, <1>5, <1>6 DEF SharedTypeOK
<1>8. KnownInv'
  <2>1. ASSUME NEW j \in LearningIds, j > learnt PROVE file'[j] = Nothing
    <3>1. j # i
      BY <1>1, <2>1
    <3> QED BY <1>2, <2>1, <3>1 DEF KnownInv
  <2> QED BY <1>1, <1>4, <2>1 DEF KnownInv
<1> QED BY <1>7, <1>8

LEMMA InsertStep ==
    ASSUME SharedTypeOK, KnownInv, NEW c \in Calls, Insert(c)
    PROVE  SharedTypeOK' /\ KnownInv'
<1> DEFINE i == hand[c].id
<1>1. /\ UNCHANGED <<file, open, doomed, learnt, given, granted, decided, archived,
                     damaged, contested, marked, begun, exits>>
      /\ step[c] = "insert" /\ confirmed' = confirmed \cup {i} /\ Return(c)
      /\ index' = [index EXCEPT ![Of[c]][i] = hand[c].rec]
  BY DEF Insert
<1>2. /\ i \in LearningIds /\ i \in 1 .. learnt /\ hand[c].rec \in Learning /\ learnt \in Nat
      /\ Of[c] \in open
  BY <1>1, HandIs DEF SharedTypeOK
<1>3. /\ step' \in [Calls -> {"idle", "merge", "save", "fill", "insert", "delete"}]
      /\ hand' \in [Calls -> Hand \cup {Nothing}]
      /\ \A d \in Calls \ {c} : step'[d] = step[d] /\ hand'[d] = hand[d]
      /\ step'[c] = "idle" /\ hand'[c] = Nothing
  BY <1>1, ReturnIs
<1>4. \A d \in Calls : step'[d] # "idle" => Of[d] \in open'
  BY <1>1, <1>2, <1>3, CallsOpen
<1>5. index' \in [Stores -> [LearningIds -> Learning \cup {Nothing}]]
      /\ \A t \in Stores, j \in LearningIds \ {i} : index'[t][j] = index[t][j]
  BY <1>1, <1>2 DEF SharedTypeOK
<1>6. SharedTypeOK'
  BY <1>1, <1>2, <1>3, <1>4, <1>5 DEF SharedTypeOK
<1>7. KnownInv'
  <2>1. ASSUME NEW j \in LearningIds, j > learnt, NEW t \in Stores PROVE index'[t][j] = Nothing
    <3>1. j # i
      BY <1>2, <2>1
    <3> QED BY <1>5, <2>1, <3>1 DEF KnownInv
  <2> QED BY <1>1, <1>3, <2>1 DEF KnownInv
<1> QED BY <1>6, <1>7

LEMMA SaveFailsStep ==
    ASSUME SharedTypeOK, KnownInv, NEW c \in Calls, SaveFails(c)
    PROVE  SharedTypeOK' /\ KnownInv'
<1> DEFINE i == hand[c].id
<1>1. /\ UNCHANGED <<file, open, index, doomed, learnt, given, granted, decided, confirmed,
                     archived, marked, begun, exits>>
      /\ step[c] \in {"save", "fill"} /\ Return(c)
      /\ damaged' \subseteq damaged \cup {i} /\ contested' = contested \cup {i}
  BY DEF SaveFails
<1>2. i \in 1 .. learnt /\ Of[c] \in open
  BY <1>1, HandIs DEF SharedTypeOK
<1>3. /\ step' \in [Calls -> {"idle", "merge", "save", "fill", "insert", "delete"}]
      /\ hand' \in [Calls -> Hand \cup {Nothing}]
      /\ \A d \in Calls \ {c} : step'[d] = step[d] /\ hand'[d] = hand[d]
      /\ step'[c] = "idle" /\ hand'[c] = Nothing
  BY <1>1, ReturnIs
<1>4. \A d \in Calls : step'[d] # "idle" => Of[d] \in open'
  BY <1>1, <1>2, <1>3, CallsOpen
<1>5. SharedTypeOK'
  BY <1>1, <1>2, <1>3, <1>4 DEF SharedTypeOK
<1>6. KnownInv'
  BY <1>1, <1>3 DEF KnownInv
<1> QED BY <1>5, <1>6

LEMMA ArchiveStep ==
    ASSUME SharedTypeOK, KnownInv, NEW c \in Calls, Archive(c)
    PROVE  SharedTypeOK' /\ KnownInv'
<1>1. /\ UNCHANGED <<file, open, hand, learnt, given, granted, decided, confirmed, damaged,
                     marked, exits>>
      /\ Of[c] \in open /\ Of[c] \in Stores /\ begun' \in 0 .. MaxCalls
      /\ step' = [step EXCEPT ![c] = "delete"] /\ contested' = contested \cup doomed'[c]
  BY SharedAssumption DEF Archive, Begin, SharedTypeOK, GotoAwait
<1>2. PICK stale \in SUBSET LearningIds :
         /\ \A i \in stale : index[Of[c]][i] # Nothing
         /\ index' = [index EXCEPT ![Of[c]] =
                       [i \in LearningIds |-> IF i \in stale THEN Nothing ELSE @[i]]]
         /\ doomed' = [doomed EXCEPT ![c] = stale]
         /\ archived' = archived \cup stale
  BY DEF Archive
<1>3. stale \subseteq 1 .. learnt
  BY <1>1, <1>2, TypesIs
<1>4. doomed'[c] = stale /\ doomed' \in [Calls -> SUBSET LearningIds]
  BY <1>2 DEF SharedTypeOK
<1>5. /\ step' \in [Calls -> {"idle", "merge", "save", "fill", "insert", "delete"}]
      /\ \A d \in Calls \ {c} : step'[d] = step[d]
      /\ step'[c] = "delete"
  BY <1>1, GotoIs
<1>6. \A d \in Calls : step'[d] # "idle" => Of[d] \in open'
  BY <1>1, <1>5, CallsOpen
<1>7. /\ index' \in [Stores -> [LearningIds -> Learning \cup {Nothing}]]
      /\ \A t \in Stores, j \in LearningIds : index'[t][j] \in {index[t][j], Nothing}
  BY <1>1, <1>2 DEF SharedTypeOK
<1>8. SharedTypeOK'
  BY <1>1, <1>2, <1>3, <1>4, <1>5, <1>6, <1>7 DEF SharedTypeOK
<1>9. KnownInv'
  BY <1>1, <1>5, <1>7 DEF KnownInv
<1> QED BY <1>8, <1>9

LEMMA DeleteIs ==
    ASSUME SharedTypeOK, KnownInv, NEW c \in Calls, DeleteFile(c)
    PROVE  /\ UNCHANGED <<open, index, learnt, given, granted, decided, confirmed, archived,
                          damaged, contested, marked, begun, exits>>
           /\ step[c] = "delete" /\ step'[c] \in {"idle", "delete"}
           /\ step' \in [Calls -> {"idle", "merge", "save", "fill", "insert", "delete"}]
           /\ \A d \in Calls \ {c} : step'[d] = step[d]
           /\ doomed' \in [Calls -> SUBSET LearningIds]
           /\ \A d \in Calls : doomed'[d] \subseteq doomed[d]
           /\ \E i \in doomed[c] :
                 \/ /\ file' = [file EXCEPT ![i] = Nothing]
                    /\ \A d \in Calls : hand'[d] = IF d \in InHand(i)
                                                     THEN [hand[d] EXCEPT !.live = FALSE]
                                                     ELSE hand[d]
                    /\ hand' = [d \in Calls |-> hand'[d]]
                 \/ UNCHANGED <<file, hand>>
<1>1. PICK i \in doomed[c] :
         /\ doomed' = [doomed EXCEPT ![c] = @ \ {i}]
         /\ \/ /\ file' = [file EXCEPT ![i] = Nothing]
               /\ hand' = [d \in Calls |-> IF d \in InHand(i)
                                             THEN [hand[d] EXCEPT !.live = FALSE]
                                             ELSE hand[d]]
            \/ UNCHANGED <<file, hand>>
  BY DEF DeleteFile
<1>2. step[c] = "delete" /\ (step' = step \/ step' = [step EXCEPT ![c] = "idle"])
  BY DEF DeleteFile
<1>3. UNCHANGED <<open, index, learnt, given, granted, decided, confirmed, archived,
                  damaged, contested, marked, begun, exits>>
  BY DEF DeleteFile, sharedHistory
<1>4. /\ step'[c] \in {"idle", "delete"} /\ \A d \in Calls \ {c} : step'[d] = step[d]
      /\ step' \in [Calls -> {"idle", "merge", "save", "fill", "insert", "delete"}]
  BY <1>2, GotoIs DEF SharedTypeOK
<1>5. /\ doomed' \in [Calls -> SUBSET LearningIds]
      /\ \A d \in Calls : doomed'[d] \subseteq doomed[d]
  BY <1>1 DEF SharedTypeOK
<1> QED BY <1>1, <1>2, <1>3, <1>4, <1>5

\* A deletion leaves what a call is about to write.
LEMMA DeleteKeepsHands ==
    ASSUME SharedTypeOK, KnownInv, NEW c \in Calls, DeleteFile(c)
    PROVE  /\ hand' \in [Calls -> Hand \cup {Nothing}]
           /\ \A d \in Calls : /\ hand'[d] = Nothing <=> hand[d] = Nothing
                               /\ hand[d] # Nothing =>
                                     /\ hand'[d].id = hand[d].id /\ hand'[d].rec = hand[d].rec
                                     /\ hand'[d].kind = hand[d].kind
<1>1. CASE UNCHANGED hand
  BY <1>1 DEF SharedTypeOK
<1>2. ASSUME NEW i \in doomed[c],
             \A d \in Calls : hand'[d] = IF d \in InHand(i) THEN [hand[d] EXCEPT !.live = FALSE]
                                                            ELSE hand[d],
             hand' = [d \in Calls |-> hand'[d]]
      PROVE  /\ hand' \in [Calls -> Hand \cup {Nothing}]
             /\ \A d \in Calls : /\ hand'[d] = Nothing <=> hand[d] = Nothing
                                 /\ hand[d] # Nothing =>
                                     /\ hand'[d].id = hand[d].id /\ hand'[d].rec = hand[d].rec
                                     /\ hand'[d].kind = hand[d].kind
  <2>1. ASSUME NEW d \in InHand(i)
        PROVE  LET h == [hand[d] EXCEPT !.live = FALSE] IN
               /\ h \in Hand /\ h # Nothing /\ hand[d] # Nothing
               /\ h.id = hand[d].id /\ h.rec = hand[d].rec /\ h.kind = hand[d].kind
    <3>1. d \in Calls /\ hand[d] \in Hand /\ hand[d] # Nothing
      BY HandIs, SharedAssumption DEF InHand
    <3>2. LET h == [hand[d] EXCEPT !.live = FALSE] IN
          h \in Hand /\ h.id = hand[d].id /\ h.rec = hand[d].rec /\ h.kind = hand[d].kind
      BY <3>1 DEF Hand
    <3> QED BY <3>1, <3>2, SharedAssumption
  <2>2. \A d \in Calls : hand'[d] \in Hand \cup {Nothing}
    BY <1>2, <2>1 DEF SharedTypeOK
  <2> QED BY <1>2, <2>1, <2>2
<1> QED BY <1>1, <1>2, DeleteIs

LEMMA DeleteStep ==
    ASSUME SharedTypeOK, KnownInv, NEW c \in Calls, DeleteFile(c)
    PROVE  SharedTypeOK' /\ KnownInv'
<1>1. /\ UNCHANGED <<open, index, learnt, given, granted, decided, confirmed, archived,
                     damaged, contested, marked, begun, exits>>
      /\ step[c] = "delete" /\ step'[c] \in {"idle", "delete"}
      /\ step' \in [Calls -> {"idle", "merge", "save", "fill", "insert", "delete"}]
      /\ \A d \in Calls \ {c} : step'[d] = step[d]
      /\ doomed' \in [Calls -> SUBSET LearningIds] /\ Of[c] \in open
  BY DeleteIs DEF SharedTypeOK
<1>2. \A d \in Calls : step'[d] # "idle" => Of[d] \in open'
  BY <1>1, CallsOpen
<1>3. /\ file' \in [LearningIds -> Learning \cup {Nothing, Torn}]
      /\ \A j \in LearningIds : file[j] = Nothing => file'[j] = Nothing
  BY DeleteIs DEF SharedTypeOK
<1>4. SharedTypeOK'
  BY <1>1, <1>2, <1>3, DeleteKeepsHands DEF SharedTypeOK
<1>5. KnownInv'
  BY <1>1, <1>3, DeleteKeepsHands DEF KnownInv
<1> QED BY <1>4, <1>5

LEMMA SharedTypeStep ==
    ASSUME SharedTypeOK, KnownInv, [SharedNext]_sharedVars
    PROVE  SharedTypeOK' /\ KnownInv'
<1>1. CASE UNCHANGED sharedVars
  BY <1>1 DEF sharedVars, callVars, sharedHistory, SharedTypeOK, KnownInv
<1> QED
  BY <1>1, OpenStep, ExitStep, CreateStep, FindStep, MergeStep, EditStep, TruncateStep, FillStep,
     InsertStep, SaveFailsStep, ArchiveStep, DeleteStep DEF SharedNext, Call

-----------------------------------------------------------------------------
(* A learning that was created is kept.                                     *)

\* What is on record stays there.
LEMMA RecordsGrow ==
    ASSUME SharedTypeOK, [SharedNext]_sharedVars
    PROVE  /\ archived \subseteq archived' /\ contested \subseteq contested'
           /\ marked \subseteq marked'
<1>1. ASSUME NEW c \in Calls, NEW kind, NEW i, NEW r, Save(c, kind, i, r)
      PROVE  contested \subseteq contested' /\ marked \subseteq marked'
  BY <1>1 DEF Save
<1>2. ASSUME NEW c \in Calls, Merge(c) PROVE contested \subseteq contested' /\ marked \subseteq marked'
  BY <1>2, MergeFrame
<1>3. ASSUME NEW c \in Calls, Create(c) \/ Edit(c) PROVE contested \subseteq contested' /\ marked \subseteq marked'
  BY <1>1, <1>3 DEF Create, Edit
<1>4. \/ contested \subseteq contested' /\ marked \subseteq marked'
      \/ \E c \in Calls : Merge(c) \/ Create(c) \/ Edit(c)
  BY DEF SharedNext, Call, Open, Exit, FindSimilar, TruncateFile, FillFile, Insert,
         SaveFails, Archive, DeleteFile, sharedVars, sharedHistory
<1>5. archived \subseteq archived'
  BY MergeFrame
     DEF SharedNext, Call, Open, Exit, Create, FindSimilar, Edit, TruncateFile, FillFile, Insert,
         SaveFails, Archive, DeleteFile, sharedVars, sharedHistory
<1> QED BY <1>2, <1>3, <1>4, <1>5

\* The calls that a step of call c leaves as they are.
LEMMA OthersStay ==
    ASSUME SharedTypeOK, KnownInv, NEW c \in Calls, Call(c), ~DeleteFile(c)
    PROVE  /\ \A d \in Calls \ {c} : step'[d] = step[d] /\ hand'[d] = hand[d]
           /\ \A d \in Calls \ {c} : doomed'[d] = doomed[d]
           /\ UNCHANGED open
<1>1. \A d \in Calls \ {c} : step'[d] = step[d] /\ hand'[d] = hand[d]
  <2>1. CASE Merge(c)
    BY <2>1, MergeFrame
  <2>2. CASE ~Merge(c)
    BY <2>2 DEF Call, Create, FindSimilar, Edit, TruncateFile, FillFile, Insert,
                SaveFails, Archive, Save, Return, GotoAwait, SharedTypeOK
  <2> QED BY <2>1, <2>2
<1>2. \A d \in Calls \ {c} : doomed'[d] = doomed[d]
  BY MergeFrame DEF Call, Create, FindSimilar, Edit, TruncateFile, FillFile, Insert,
         SaveFails, Archive, SharedTypeOK
<1>3. UNCHANGED open
  BY MergeFrame DEF Call, Create, FindSimilar, Edit, TruncateFile, FillFile, Insert,
         SaveFails, Archive
<1> QED BY <1>1, <1>2, <1>3

LEMMA DoomedStep ==
    ASSUME SharedTypeOK, KnownInv, DoomedInv, [SharedNext]_sharedVars
    PROVE  DoomedInv'
<1>1. archived \subseteq archived' /\ contested \subseteq contested'
  BY RecordsGrow
<1>2. ASSUME NEW c \in Calls, doomed'[c] \subseteq doomed[c]
      PROVE  doomed'[c] \subseteq archived' \cap contested'
  BY <1>1, <1>2 DEF DoomedInv
<1>3. ASSUME NEW c \in Calls, step'[c] = "fill", ~hand'[c].live, step[c] = "fill",
             hand'[c] = hand[c]
      PROVE  hand'[c].id \in archived' \cap contested'
  BY <1>1, <1>3 DEF DoomedInv
<1>4. CASE UNCHANGED sharedVars
  BY <1>2, <1>3, <1>4 DEF sharedVars, callVars, DoomedInv
<1>5. ASSUME NEW s \in Stores, Open(s) PROVE DoomedInv'
  BY <1>2, <1>3, <1>5 DEF Open, callVars, DoomedInv
<1>6. ASSUME NEW s \in Stores, Exit(s) PROVE DoomedInv'
  <2>1. \A c \in Calls : \/ doomed'[c] = {} /\ step'[c] = "idle"
                         \/ doomed'[c] = doomed[c] /\ step'[c] = step[c] /\ hand'[c] = hand[c]
    BY <1>6 DEF Exit
  <2> QED BY <1>2, <1>3, <2>1 DEF DoomedInv
<1>7. ASSUME NEW c \in Calls, DeleteFile(c) PROVE DoomedInv'
  <2>1. \A d \in Calls : doomed'[d] \subseteq archived' \cap contested'
    BY <1>2, <1>7, DeleteIs
  <2>2. ASSUME NEW d \in Calls, step'[d] = "fill", ~hand'[d].live
        PROVE  hand'[d].id \in archived' \cap contested'
    <3>1. step[d] = "fill" /\ d # c
      BY <1>7, <2>2, DeleteIs
    <3>2. CASE hand'[d] = hand[d]
      BY <1>3, <2>2, <3>1, <3>2
    <3>3. CASE hand'[d] # hand[d]
      <4>1. PICK i \in doomed[c] : d \in InHand(i)
        BY <1>7, <3>3, DeleteIs
      <4>2. hand[d].id = i /\ hand[d] # Nothing
        BY <3>1, <4>1 DEF InHand, KnownInv
      <4>3. hand'[d].id = i
        BY <1>7, <4>2, DeleteKeepsHands
      <4> QED BY <1>1, <4>1, <4>3 DEF DoomedInv
    <3> QED BY <3>2, <3>3
  <2> QED BY <2>1, <2>2 DEF DoomedInv
<1>8. ASSUME NEW c \in Calls, Call(c), ~DeleteFile(c) PROVE DoomedInv'
  <2>1. doomed'[c] \subseteq archived' \cap contested'
    <3>1. CASE Archive(c)
      <4>1. /\ contested' = contested \cup doomed'[c] /\ doomed \in [Calls -> SUBSET LearningIds]
        BY <3>1 DEF Archive, SharedTypeOK
      <4>2. PICK stale \in SUBSET LearningIds : doomed' = [doomed EXCEPT ![c] = stale]
                                                /\ archived' = archived \cup stale
        BY <3>1 DEF Archive
      <4> QED BY <4>1, <4>2
    <3>2. CASE ~Archive(c)
      <4>1. UNCHANGED doomed
        BY <1>8, <3>2 DEF Call, Create, FindSimilar, Merge, Edit, TruncateFile, FillFile,
                          Insert, SaveFails
      <4> QED BY <1>2, <4>1
    <3> QED BY <3>1, <3>2
  <2>2. step'[c] = "fill" => hand'[c].live
    <3>1. CASE TruncateFile(c)
      BY <3>1, TruncateStep
    <3>2. CASE ~TruncateFile(c)
      BY <1>8, <3>2, MergeFrame DEF Call, Create, FindSimilar, Edit, FillFile,
                        Insert, SaveFails, Archive, Save, Return, GotoAwait, SharedTypeOK
    <3> QED BY <3>1, <3>2
  <2>3. \A d \in Calls \ {c} : step'[d] = step[d] /\ hand'[d] = hand[d] /\ doomed'[d] = doomed[d]
    BY <1>8, OthersStay
  <2> QED BY <1>2, <1>3, <2>1, <2>2, <2>3 DEF DoomedInv
<1> QED BY <1>4, <1>5, <1>6, <1>7, <1>8 DEF SharedNext

LEMMA FileStep ==
    ASSUME SharedTypeOK, KnownInv, FileInv, [SharedNext]_sharedVars
    PROVE  FileInv'
<1>1. CASE UNCHANGED file
  BY <1>1 DEF FileInv, Learned
<1>2. ASSUME NEW c \in Calls, TruncateFile(c) PROVE FileInv'
  <2>1. file' = [file EXCEPT ![hand[c].id] = Torn]
    BY <1>2 DEF TruncateFile
  <2>2. \A j \in LearningIds : file'[j] = file[j] \/ file'[j] = Torn
    BY <2>1 DEF SharedTypeOK
  <2> QED BY <2>2 DEF FileInv, Learned
<1>3. ASSUME NEW c \in Calls, FillFile(c) PROVE FileInv'
  <2>1. ToMarkdown(hand[c].rec).status = "pending"
    BY <1>3, FillIs, MarkdownIs
  <2>2. \A j \in LearningIds : file'[j] = file[j] \/ file'[j] = ToMarkdown(hand[c].rec)
    BY <1>3, FillIs DEF SharedTypeOK
  <2> QED BY <2>1, <2>2 DEF FileInv, Learned
<1>4. ASSUME NEW c \in Calls, DeleteFile(c) PROVE FileInv'
  <2>1. \A j \in LearningIds : file'[j] = file[j] \/ file'[j] = Nothing
    BY <1>4, DeleteIs DEF SharedTypeOK
  <2> QED BY <2>1 DEF FileInv, Learned
<1>5. UNCHANGED file \/ \E c \in Calls : TruncateFile(c) \/ FillFile(c) \/ DeleteFile(c)
  BY DEF SharedNext, Call, Open, Exit, Create, FindSimilar, Merge, Edit, Insert, SaveFails, Archive,
         sharedVars
<1> QED BY <1>1, <1>2, <1>3, <1>4, <1>5

\* The file of a learning through a step that is not an exit and not a failure.
LEMMA KeptThrough ==
    ASSUME NEW i \in LearningIds, Kept(i), archived \subseteq archived',
           i \in damaged => i \in damaged',
           Learned(file[i]) => Learned(file'[i]),
           \A c \in Calls : c \in InHand(i) /\ step[c] = "fill" /\ hand[c].live =>
               step'[c] = "fill" /\ hand'[c].id = i /\ hand'[c].live
    PROVE  Kept(i)'
BY DEF Kept, InHand

LEMMA KeptStep ==
    ASSUME SharedTypeOK, KnownInv, DoomedInv, [SharedNext]_sharedVars,
           NEW i \in LearningIds, Kept(i)
    PROVE  Kept(i)'
<1>1. archived \subseteq archived'
  BY RecordsGrow
<1>2. ASSUME UNCHANGED <<file, step, hand, damaged>> PROVE Kept(i)'
  BY <1>1, <1>2, KeptThrough DEF InHand
<1>3. CASE UNCHANGED sharedVars \/ \E s \in Stores : Open(s)
  BY <1>2, <1>3 DEF Open, sharedVars, callVars, sharedHistory
<1>4. ASSUME NEW s \in Stores, Exit(s) PROVE Kept(i)'
  <2>1. UNCHANGED file /\ damaged \subseteq damaged'
    BY <1>4 DEF Exit
  <2>2. \A c \in Calls : \/ step'[c] = step[c] /\ hand'[c] = hand[c]
                         \/ step[c] = "fill" => hand[c].id \in damaged'
    BY <1>4 DEF Exit
  <2>3. CASE i \in damaged'
    BY <2>3 DEF Kept
  <2>4. CASE i \notin damaged'
    BY <1>1, <2>1, <2>2, <2>4, KeptThrough DEF InHand
  <2> QED BY <2>3, <2>4
<1>5. ASSUME NEW c \in Calls, TruncateFile(c) PROVE Kept(i)'
  <2>1. /\ hand'[c].id = hand[c].id /\ hand'[c].live /\ step'[c] = "fill" /\ step[c] = "save"
        /\ \A d \in Calls \ {c} : hand'[d] = hand[d] /\ step'[d] = step[d]
        /\ UNCHANGED damaged /\ file' = [file EXCEPT ![hand[c].id] = Torn]
    BY <1>5, TruncateStep DEF TruncateFile, sharedHistory
  <2>2. CASE hand[c].id = i
    BY <2>1, <2>2 DEF Kept, InHand
  <2>3. CASE hand[c].id # i
    <3>1. file'[i] = file[i]
      BY <2>1, <2>3 DEF SharedTypeOK
    <3> QED BY <1>1, <2>1, <3>1, KeptThrough DEF InHand
  <2> QED BY <2>2, <2>3
<1>6. ASSUME NEW c \in Calls, FillFile(c) PROVE Kept(i)'
  <2>1. \A d \in Calls \ {c} : hand'[d] = hand[d] /\ step'[d] = step[d]
    BY <1>6, OthersStay DEF Call, FillFile, DeleteFile
  <2>2. CASE hand[c].id = i /\ hand[c].live
    <3>1. Learned(file'[i])
      BY <1>6, <2>2, FillIs, MarkdownIs DEF SharedTypeOK
    <3> QED BY <3>1 DEF Kept
  <2>3. CASE hand[c].id # i
    <3>1. file'[i] = file[i] /\ (i \in damaged => i \in damaged')
      BY <1>6, <2>3, FillIs DEF SharedTypeOK
    <3> QED BY <1>1, <2>1, <2>3, <3>1, KeptThrough DEF InHand
  <2>4. CASE hand[c].id = i /\ ~hand[c].live
    <3>1. i \in archived
      BY <1>6, <2>4, FillIs DEF DoomedInv
    <3> QED BY <1>1, <3>1 DEF Kept
  <2> QED BY <2>2, <2>3, <2>4
<1>7. ASSUME NEW c \in Calls, SaveFails(c) PROVE Kept(i)'
  <2>1. /\ \A d \in Calls \ {c} : hand'[d] = hand[d] /\ step'[d] = step[d]
        /\ UNCHANGED file /\ damaged \subseteq damaged'
        /\ step[c] = "fill" /\ hand[c].live => hand[c].id \in damaged'
    BY <1>7, OthersStay DEF Call, SaveFails, DeleteFile
  <2>2. CASE i \in damaged'
    BY <2>2 DEF Kept
  <2>3. CASE i \notin damaged'
    BY <1>1, <2>1, <2>3, KeptThrough DEF InHand
  <2> QED BY <2>2, <2>3
<1>8. ASSUME NEW c \in Calls, DeleteFile(c) PROVE Kept(i)'
  <2>1. \A d \in Calls : step[d] = "fill" => step'[d] = step[d] /\ hand'[d].id = hand[d].id
    BY <1>8, DeleteIs, DeleteKeepsHands DEF KnownInv
  <2>2. PICK j \in doomed[c] :
            \/ /\ file' = [file EXCEPT ![j] = Nothing]
               /\ \A d \in Calls : d \notin InHand(j) => hand'[d] = hand[d]
            \/ UNCHANGED <<file, hand>>
    BY <1>8, DeleteIs
  <2>3. UNCHANGED damaged
    BY <1>8, DeleteIs
  <2>4. CASE i = j
    BY <1>1, <2>4 DEF DoomedInv, Kept
  <2>5. CASE i # j
    <3>1. file'[i] = file[i] /\ \A d \in InHand(i) : hand'[d] = hand[d]
      BY <2>2, <2>5 DEF SharedTypeOK, InHand
    <3> QED BY <1>1, <2>1, <2>3, <3>1, KeptThrough DEF InHand
  <2> QED BY <2>4, <2>5
<1>9. ASSUME NEW c \in Calls,
             Create(c) \/ FindSimilar(c) \/ Merge(c) \/ Edit(c) \/ Insert(c) \/ Archive(c)
      PROVE  Kept(i)'
  <2>1. UNCHANGED <<file, damaged>> /\ step[c] # "fill"
    BY <1>9 DEF Create, FindSimilar, Merge, Edit, Insert, Archive, Begin, sharedHistory
  <2>2. \A d \in Calls \ {c} : hand'[d] = hand[d] /\ step'[d] = step[d]
    <3>1. ~DeleteFile(c)
      BY <1>9 DEF Create, FindSimilar, Merge, Edit, Insert, Archive, Begin, DeleteFile
    <3> QED BY <1>9, <3>1, OthersStay DEF Call
  <2> QED BY <1>1, <2>1, <2>2, KeptThrough DEF InHand
<1> QED BY <1>3, <1>4, <1>5, <1>6, <1>7, <1>8, <1>9 DEF SharedNext, Call

LEMMA SavedStep ==
    ASSUME SharedTypeOK, KnownInv, DoomedInv, SavedInv, [SharedNext]_sharedVars
    PROVE  SavedInv'
<1>1. \A i \in LearningIds : Kept(i) => Kept(i)'
  BY KeptStep
<1>2. 1 .. learnt \subseteq LearningIds /\ confirmed \subseteq 1 .. learnt
  BY TypesIs DEF SharedTypeOK
<1>3. ASSUME NEW i \in confirmed' PROVE Kept(i)'
  <2>1. i \in confirmed \/ \E c \in Calls : Insert(c) /\ i = hand[c].id
    BY MergeFrame
       DEF SharedNext, Call, Open, Exit, Create, FindSimilar, Edit, TruncateFile, FillFile,
           Insert, SaveFails, Archive, DeleteFile, sharedVars, sharedHistory
  <2>2. CASE i \in confirmed
    BY <1>1, <1>2, <2>2 DEF SavedInv
  <2>3. ASSUME NEW c \in Calls, Insert(c), i = hand[c].id PROVE Kept(i)'
    <3>1. step[c] = "insert"
      BY <2>3 DEF Insert
    <3>2. Kept(i) /\ i \in LearningIds
      BY <2>3, <3>1, HandIs DEF SavedInv
    <3> QED BY <1>1, <3>2
  <2> QED BY <2>1, <2>2, <2>3
<1>4. ASSUME NEW c \in Calls, step'[c] = "insert" PROVE Kept(hand[c].id)' /\ hand'[c].id = hand[c].id
  <2>1. CASE step[c] = "insert" /\ hand'[c].id = hand[c].id
    <3>1. Kept(hand[c].id) /\ hand[c].id \in LearningIds
      BY <2>1, HandIs DEF SavedInv
    <3> QED BY <1>1, <2>1, <3>1
  <2>2. CASE FillFile(c)
    <3> DEFINE i == hand[c].id
    <3>1. hand'[c] = hand[c] /\ i \in LearningIds
      BY <1>4, <2>2, FillIs, ReturnIs
    <3>2. CASE hand[c].live
      <4>1. Learned(file'[i])
        BY <2>2, <3>2, FillIs, MarkdownIs DEF SharedTypeOK
      <4> QED BY <3>1, <4>1 DEF Kept
    <3>3. CASE ~hand[c].live
      <4>1. i \in archived /\ archived \subseteq archived'
        BY <2>2, <3>3, FillIs, RecordsGrow DEF DoomedInv
      <4> QED BY <3>1, <4>1 DEF Kept
    <3> QED BY <3>2, <3>3
  <2>3. ASSUME ~FillFile(c) PROVE step[c] = "insert" /\ hand'[c].id = hand[c].id
    <3>1. CASE UNCHANGED sharedVars \/ \E s \in Stores : Open(s)
      BY <1>4, <3>1 DEF Open, sharedVars, callVars
    <3>2. ASSUME NEW s \in Stores, Exit(s) PROVE step'[c] = step[c] /\ hand'[c] = hand[c]
      BY <1>4, <3>2 DEF Exit
    <3>3. ASSUME NEW d \in Calls, DeleteFile(d) PROVE step[c] = "insert" /\ hand'[c].id = hand[c].id
      BY <1>4, <3>3, DeleteIs, DeleteKeepsHands DEF KnownInv
    <3>4. ASSUME NEW d \in Calls, d # c, Call(d), ~DeleteFile(d)
          PROVE  step'[c] = step[c] /\ hand'[c] = hand[c]
      BY <3>4, OthersStay
    <3>5. ASSUME Call(c), ~DeleteFile(c) PROVE FALSE
      BY <1>4, <2>3, <3>5, MergeFrame DEF Call, Create, FindSimilar, Edit, TruncateFile,
           Insert, SaveFails, Archive, Save, Return, GotoAwait, SharedTypeOK
    <3> QED BY <1>4, <3>1, <3>2, <3>3, <3>4, <3>5 DEF SharedNext
  <2> QED BY <2>1, <2>2, <2>3
<1> QED BY <1>3, <1>4 DEF SavedInv

-----------------------------------------------------------------------------
(* No copy looks better than the learning is.                               *)

\* The copies of learning i, what is written of them and what is read.
Old(i) ==
    Copies(i) \cup {ToMarkdown(r) : r \in {q \in Copies(i) : Learned(q)}}
      \cup {FromMarkdown(r) : r \in {q \in Copies(i) : Learned(q)}} \cup {Nothing, Torn}

LEMMA OldIsHonest ==
    ASSUME SharedTypeOK, KnownInv, CopiesInv, NEW i \in LearningIds,
           NEW r \in Old(i), Learned(r)
    PROVE  r \in Learning /\ Honest(i, r)
<1>1. ASSUME NEW q \in Copies(i), Learned(q) PROVE q \in Learning /\ Honest(i, q)
  <2>1. ASSUME q = file[i] PROVE q \in Learning
    BY <1>1, <2>1, TypesIs
  <2>2. ASSUME NEW s \in Stores, q = index[s][i] PROVE q \in Learning
    BY <1>1, <2>2 DEF SharedTypeOK, Learned
  <2>3. ASSUME NEW c \in InHand(i), q = hand[c].rec PROVE q \in Learning
    BY <2>3, HandIs DEF InHand
  <2>4. q \in Learning
    BY <2>1, <2>2, <2>3 DEF Copies
  <2>5. Honest(i, q)
    BY <1>1 DEF CopiesInv, Learned
  <2> QED BY <2>4, <2>5
<1>2. CASE r \in Copies(i)
  BY <1>1, <1>2
<1>3. ASSUME NEW q \in Copies(i), Learned(q), r = ToMarkdown(q)
      PROVE  r \in Learning /\ Honest(i, r)
  <2>1. q \in Learning /\ Honest(i, q)
    BY <1>1, <1>3
  <2> QED BY <1>3, <2>1, MarkdownIs DEF Honest
<1>4. ASSUME NEW q \in Copies(i), Learned(q), r = FromMarkdown(q)
      PROVE  r \in Learning /\ Honest(i, r)
  <2>1. q \in Learning /\ Honest(i, q) /\ given[i] \in Nat
    BY <1>1, <1>4 DEF SharedTypeOK
  <2>2. r \in Learning /\ r.applied \in {0, q.applied} /\ r.trust = q.trust /\ r.mark = "whole"
    BY <1>4, <2>1, ReadingIs
  <2> QED BY <2>1, <2>2 DEF Honest
<1> QED BY <1>2, <1>3, <1>4 DEF Old, Learned

\* Copies that come from others, and new ones (N) that are honest.
LEMMA TrustFrame ==
    ASSUME SharedTypeOK, KnownInv, CopiesInv, NEW i \in LearningIds, NEW N,
           given'[i] \in Nat, granted'[i] \in Nat,
           given[i] <= given'[i], granted[i] <= granted'[i], marked \subseteq marked',
           \A r \in N : Honest(i, r)',
           file'[i] \in Old(i),
           \A s \in Stores : index'[s][i] \in Old(i) \cup N,
           \A c \in Calls : step'[c] \in {"save", "fill", "insert"} /\ hand'[c].id = i =>
               hand'[c].rec \in Old(i) \cup N
    PROVE  \A r \in Copies(i)' \ {Nothing, Torn} : Honest(i, r)'
<1> SUFFICES ASSUME NEW r \in Copies(i)', Learned(r) PROVE Honest(i, r)'
  BY DEF Learned
<1>1. r \in Old(i) \cup N
  BY DEF Copies, InHand
<1>2. CASE r \in N
  BY <1>2
<1>3. CASE r \in Old(i)
  <2>1. r \in Learning /\ Honest(i, r)
    BY <1>3, OldIsHonest
  <2>2. r.applied \in Nat /\ r.trust \in 0..3 /\ given[i] \in Nat /\ granted[i] \in 0..3
        /\ L2Count \in Nat
    BY <2>1, SharedAssumption DEF Learning, SharedTypeOK
  <2>3. r.applied <= given'[i]
    BY <2>1, <2>2 DEF Honest
  <2>4. r.trust > granted'[i] => r.trust = 2 /\ given'[i] >= L2Count
    BY <2>1, <2>2 DEF Honest
  <2>5. i \notin marked' => r.mark = "whole"
    BY <2>1 DEF Honest
  <2> QED BY <2>3, <2>4, <2>5 DEF Honest
<1> QED BY <1>1, <1>2, <1>3

LEMMA TrustKept ==
    ASSUME SharedTypeOK, KnownInv, CopiesInv, NEW i \in LearningIds,
           given'[i] \in Nat, granted'[i] \in Nat,
           given[i] <= given'[i], granted[i] <= granted'[i], marked \subseteq marked',
           file'[i] \in Old(i),
           \A s \in Stores : index'[s][i] \in Old(i),
           \A c \in Calls : step'[c] \in {"save", "fill", "insert"} /\ hand'[c].id = i =>
               hand'[c].rec \in Old(i)
    PROVE  \A r \in Copies(i)' \ {Nothing, Torn} : Honest(i, r)'
<1> DEFINE N == {}
<1>1. \A s \in Stores : index'[s][i] \in Old(i) \cup N
  OBVIOUS
<1>2. \A c \in Calls : step'[c] \in {"save", "fill", "insert"} /\ hand'[c].id = i =>
          hand'[c].rec \in Old(i) \cup N
  OBVIOUS
<1>3. \A r \in N : Honest(i, r)'
  OBVIOUS
<1> HIDE DEF N
<1> QED BY <1>1, <1>2, <1>3, TrustFrame

\* A step that reports nothing, and writes only copies of copies.
LEMMA NothingNew ==
    ASSUME SharedTypeOK, KnownInv, CopiesInv, UNCHANGED <<given, granted>>,
           marked \subseteq marked',
           \A i \in LearningIds : file'[i] \in Old(i),
           \A i \in LearningIds, s \in Stores : index'[s][i] \in Old(i),
           \A c \in Calls : step'[c] \in {"save", "fill", "insert"} =>
               /\ step[c] \in {"save", "fill", "insert"}
               /\ hand'[c].id = hand[c].id /\ hand'[c].rec = hand[c].rec
    PROVE  CopiesInv'
<1> SUFFICES ASSUME NEW i \in LearningIds
             PROVE  \A r \in Copies(i)' \ {Nothing, Torn} : Honest(i, r)'
  BY DEF CopiesInv
<1>1. given'[i] \in Nat /\ granted'[i] \in Nat /\ given[i] <= given'[i] /\ granted[i] <= granted'[i]
  BY DEF SharedTypeOK
<1>2. \A c \in Calls : step'[c] \in {"save", "fill", "insert"} /\ hand'[c].id = i =>
          hand'[c].rec \in Old(i)
  BY DEF Old, Copies, InHand
<1> QED BY <1>1, <1>2, TrustKept

\* A call that changes learning i and is about to save it.
LEMMA NewIsHonest ==
    ASSUME SharedTypeOK, KnownInv, CopiesInv, NEW c \in Calls, NEW kind \in Kinds,
           NEW i \in LearningIds, NEW r \in Learning, Save(c, kind, i, r),
           \A j \in LearningIds : /\ given'[j] \in Nat /\ granted'[j] \in Nat
                                 /\ given[j] <= given'[j] /\ granted[j] <= granted'[j],
           UNCHANGED file, Honest(i, r)', marked \subseteq marked',
           \A s \in Stores, j \in LearningIds :
               index'[s][j] = index[s][j] \/ (j = i /\ index'[s][j] = r)
    PROVE  CopiesInv'
<1> SUFFICES ASSUME NEW j \in LearningIds
             PROVE  \A q \in Copies(j)' \ {Nothing, Torn} : Honest(j, q)'
  BY DEF CopiesInv
<1>1. /\ step' = [step EXCEPT ![c] = "save"]
      /\ hand'[c].id = i /\ hand'[c].rec = r
      /\ \A d \in Calls \ {c} : hand'[d] = hand[d]
  BY SaveIs
<1>2. \A d \in Calls \ {c} : step'[d] = step[d]
  BY <1>1, GotoIs
<1> DEFINE N == IF j = i THEN {r} ELSE {}
<1>3. \A q \in N : Honest(j, q)'
  BY DEF Honest
<1>4. \A d \in Calls : step'[d] \in {"save", "fill", "insert"} /\ hand'[d].id = j =>
          hand'[d].rec \in Old(j) \cup N
  BY <1>1, <1>2 DEF Old, Copies, InHand
<1>5. file'[j] \in Old(j) /\ \A s \in Stores : index'[s][j] \in Old(j) \cup N
  BY DEF Old, Copies
<1> HIDE DEF N
<1> QED BY <1>3, <1>4, <1>5, TrustFrame

LEMMA TrustStep ==
    ASSUME SharedTypeOK, KnownInv, CopiesInv, [SharedNext]_sharedVars
    PROVE  CopiesInv'
<1>1. \A i \in LearningIds : file[i] \in Old(i) /\ Nothing \in Old(i) /\ Torn \in Old(i)
                            /\ \A s \in Stores : index[s][i] \in Old(i)
  BY DEF Old, Copies
<1>2. SharedTypeOK' /\ KnownInv' /\ marked \subseteq marked'
  BY SharedTypeStep, RecordsGrow
<1>3. CASE UNCHANGED sharedVars
  BY <1>1, <1>2, <1>3, NothingNew DEF sharedVars, callVars, sharedHistory
<1>4. ASSUME NEW s \in Stores, Open(s) PROVE CopiesInv'
  <2>1. UNCHANGED <<file, given, granted, step, hand>>
    BY <1>4 DEF Open, callVars
  <2>2. ASSUME NEW i \in LearningIds, NEW t \in Stores PROVE index'[t][i] \in Old(i)
    <3>1. index' = [index EXCEPT ![s] = [j \in LearningIds |->
                     IF Loads(file[j]) THEN FromMarkdown(file[j]) ELSE Nothing]]
      BY <1>4 DEF Open
    <3>2. Loads(file[i]) => FromMarkdown(file[i]) \in Old(i)
      BY DEF Old, Copies, Learned, Loads
    <3> QED BY <1>1, <3>1, <3>2 DEF SharedTypeOK
  <2> QED BY <1>1, <1>2, <2>1, <2>2, NothingNew
<1>5. ASSUME NEW s \in Stores, Exit(s) PROVE CopiesInv'
  <2>1. UNCHANGED <<file, given, granted>>
    BY <1>5 DEF Exit
  <2>2. \A c \in Calls : step'[c] = "idle" \/ (step'[c] = step[c] /\ hand'[c] = hand[c])
    BY <1>5 DEF Exit
  <2>3. \A i \in LearningIds, t \in Stores : index'[t][i] \in {Nothing, index[t][i]}
    BY <1>5 DEF Exit, SharedTypeOK
  <2> QED BY <1>1, <1>2, <2>1, <2>2, <2>3, NothingNew
<1>6. ASSUME NEW c \in Calls, Create(c) PROVE CopiesInv'
  <2>1. /\ UNCHANGED <<file, index>> /\ learnt' = learnt + 1 /\ learnt < MaxLearnings
    BY <1>6 DEF Create
  <2>2. learnt' \in LearningIds /\ learnt' > learnt /\ learnt \in Nat
    BY <2>1, TypesIs, SharedAssumption DEF LearningIds
  <2>3. PICK t \in {0, 1}, n \in Brought, m \in Marks :
           /\ Save(c, "create", learnt', NewLearning(t, n, m))
           /\ granted' = [granted EXCEPT ![learnt'] = t]
           /\ given' = [given EXCEPT ![learnt'] = n]
    BY <1>6 DEF Create
  <2> DEFINE r == NewLearning(t, n, m)
  <2>4. r \in Learning /\ r.trust = t /\ r.applied = n /\ "create" \in Kinds /\ n \in Nat
    BY SharedAssumption DEF NewLearning, Learning, Kinds
  <2> HIDE DEF r
  <2>5. /\ hand'[c].id = learnt' /\ hand'[c].rec = r
        /\ \A d \in Calls \ {c} : hand'[d] = hand[d]
        /\ step' = [step EXCEPT ![c] = "save"]
        /\ learnt' \notin marked' => r.mark = "whole"
    BY <2>2, <2>3, <2>4, SaveIs DEF r
  <2>6. \A d \in Calls \ {c} : step'[d] = step[d]
    BY <2>5, GotoIs
  <2> SUFFICES ASSUME NEW i \in LearningIds
               PROVE  \A q \in Copies(i)' \ {Nothing, Torn} : Honest(i, q)'
    BY DEF CopiesInv
  <2>7. CASE i = learnt'
    <3>1. file'[i] = Nothing /\ \A s \in Stores : index'[s][i] = Nothing
      BY <2>1, <2>2, <2>7 DEF KnownInv
    <3>2. \A d \in InHand(i)' : d = c
      <4> SUFFICES ASSUME NEW d \in Calls, d # c, d \in InHand(i) PROVE FALSE
        BY <2>5, <2>6 DEF InHand
      <4>1. i \in 1 .. learnt
        BY TypesIs
      <4> QED BY <2>2, <2>7, <4>1
    <3>3. \A q \in Copies(i)' : q \in {Nothing, r}
      BY <2>5, <3>1, <3>2 DEF Copies
    <3>4. Honest(i, r)'
      <4>1. given'[i] = n /\ granted'[i] = t
        BY <2>2, <2>3, <2>7 DEF SharedTypeOK
      <4> QED BY <2>4, <2>5, <2>7, <4>1 DEF Honest
    <3> QED BY <3>3, <3>4
  <2>8. CASE i # learnt'
    <3>1. given'[i] = given[i] /\ granted'[i] = granted[i] /\ given[i] \in Nat /\ granted[i] \in 0..3
      BY <2>2, <2>3, <2>8 DEF SharedTypeOK
    <3>2. \A d \in Calls : step'[d] \in {"save", "fill", "insert"} /\ hand'[d].id = i =>
              hand'[d].rec \in Old(i)
      BY <2>5, <2>6, <2>8 DEF Old, Copies, InHand
    <3>3. given[i] <= given'[i] /\ granted[i] <= granted'[i] /\ given'[i] \in Nat /\ granted'[i] \in Nat
      BY <3>1
    <3>4. file'[i] \in Old(i) /\ \A s \in Stores : index'[s][i] \in Old(i)
      BY <1>1, <1>2, <2>1
    <3> QED BY <1>2, <3>2, <3>3, <3>4, TrustKept
  <2> QED BY <2>7, <2>8
<1>7. ASSUME NEW c \in Calls, FindSimilar(c) PROVE CopiesInv'
  <2>1. UNCHANGED <<file, index, given, granted>> /\ step' = [step EXCEPT ![c] = "merge"]
    BY <1>7 DEF FindSimilar, sharedHistory, GotoAwait
  <2>2. /\ step'[c] = "merge"
        /\ \A d \in Calls \ {c} : hand'[d] = hand[d] /\ step'[d] = step[d]
    <3>1. ~DeleteFile(c)
      BY <1>7 DEF FindSimilar, Begin, DeleteFile
    <3> QED BY <1>7, <2>1, <3>1, OthersStay DEF Call, SharedTypeOK
  <2> QED BY <1>1, <1>2, <2>1, <2>2, NothingNew
<1>8. ASSUME NEW c \in Calls, Merge(c) PROVE CopiesInv'
  <2> DEFINE i == hand[c].id
  <2>1. /\ UNCHANGED <<file, granted>> /\ i \in LearningIds /\ Of[c] \in Stores
    BY <1>8, MergeIs
  <2>2. CASE Return(c) /\ UNCHANGED <<index, given>>
    BY <1>1, <1>2, <2>1, <2>2, ReturnIs, NothingNew
  <2>3. ASSUME index[Of[c]][i] \in Learning, NEW n \in Nat, NEW m \in Learning,
               m.trust = index[Of[c]][i].trust, m.applied = index[Of[c]][i].applied + n,
               index' = [index EXCEPT ![Of[c]][i] = m], Save(c, "merge", i, m),
               given' = [given EXCEPT ![i] = @ + n]
        PROVE  CopiesInv'
    <3> DEFINE q == index[Of[c]][i]
    <3>1. Honest(i, q)
      <4>1. q \in Old(i) /\ Learned(q)
        BY <1>1, <2>1, <2>3, SharedAssumption DEF Learned
      <4> QED BY <2>1, <4>1, OldIsHonest
    <3>2. q.applied \in Nat /\ q.trust \in 0..3
      BY <2>3 DEF Learning
    <3>3. \A j \in LearningIds : /\ given'[j] \in Nat /\ granted'[j] \in Nat
                                 /\ given[j] <= given'[j] /\ granted[j] <= granted'[j]
      BY <2>1, <2>3 DEF SharedTypeOK
    <3>4. m.trust = q.trust /\ m.applied = q.applied + n
      BY <2>3
    <3>5. PICK j \in LearningIds : j = i
      BY <2>1
    <3>6. "merge" \in Kinds /\ Save(c, "merge", j, m)
      BY <2>3, <3>5 DEF Kinds
    <3>7. Honest(j, m)'
      <4>1. given'[j] = given[j] + n /\ granted'[j] = granted[j] /\ given[j] \in Nat
            /\ granted[j] \in 0..3 /\ L2Count \in Nat
        BY <2>1, <2>3, <3>5, SharedAssumption DEF SharedTypeOK
      <4>2. m.applied <= given[j] + n
        BY <2>3, <3>1, <3>2, <3>4, <3>5, <4>1 DEF Honest
      <4>3. m.trust > granted[j] => m.trust = 2 /\ given[j] + n >= L2Count
        BY <2>3, <3>1, <3>2, <3>4, <3>5, <4>1 DEF Honest
      <4>4. j \notin marked' => m.mark = "whole"
        BY <3>6, SaveIs
      <4> QED BY <4>1, <4>2, <4>3, <4>4 DEF Honest
    <3>8. \A s \in Stores, k \in LearningIds :
               index'[s][k] = index[s][k] \/ (k = j /\ index'[s][k] = m)
      BY <2>1, <2>3, <3>5 DEF SharedTypeOK
    <3>9. UNCHANGED file
      BY <2>1
    <3> HIDE DEF i, q
    <3> QED BY <1>2, <3>3, <3>6, <3>7, <3>8, <3>9, NewIsHonest
  <2> QED BY <1>8, <2>2, <2>3, MergeIs DEF Merged
<1>9. ASSUME NEW c \in Calls, Edit(c) PROVE CopiesInv'
  <2>1. UNCHANGED file /\ Of[c] \in Stores
    BY <1>9, SharedAssumption DEF Edit
  <2>2. PICK i \in LearningIds, kind \in Edits :
           /\ index[Of[c]][i] # Nothing
           /\ \E r \in Edited(kind, index[Of[c]][i]) :
              /\ index' = [index EXCEPT ![Of[c]][i] = r]
              /\ Save(c, kind, i, r)
           /\ given' = [given EXCEPT ![i] = IF kind \in {"touch", "apply"} THEN @ + 1 ELSE @]
           /\ granted' = [granted EXCEPT ![i] = Max2(@, Asked(kind))]
    BY <1>9 DEF Edit
  <2>3. PICK q : q = index[Of[c]][i]
    OBVIOUS
  <2>4. PICK r \in Edited(kind, q) : /\ index' = [index EXCEPT ![Of[c]][i] = r]
                                     /\ Save(c, kind, i, r)
    BY <2>2, <2>3
  <2>5. kind \in EditKinds /\ kind \in Kinds
    BY SharedAssumption DEF Kinds
  <2>6. q \in Learning /\ Honest(i, q) /\ q.applied \in Nat /\ q.trust \in 0..3
    <3>1. q \in Learning
      BY <2>1, <2>2, <2>3, TypesIs
    <3>2. q \in Old(i) /\ Learned(q)
      BY <1>1, <1>2, <2>1, <2>3, <3>1, MarkdownIs
    <3> QED BY <3>1, <3>2, OldIsHonest DEF Learning
  <2> DEFINE n == IF kind \in {"touch", "apply"} THEN 1 ELSE 0
  <2>7. n \in {0, 1} /\ (kind = "apply" => n = 1)
    OBVIOUS
  <2>8. /\ r \in Learning /\ r.applied = q.applied + n
        /\ r.trust = q.trust \/ r.trust <= Asked(kind)
           \/ (kind = "apply" /\ r.trust = 2 /\ r.applied >= L2Count)
    BY <2>4, <2>5, <2>6, EditedIs
  <2>9. given' = [given EXCEPT ![i] = given[i] + n]
    <3>1. given[i] \in Nat
      BY DEF SharedTypeOK
    <3>2. given[i] + n = IF kind \in {"touch", "apply"} THEN given[i] + 1 ELSE given[i]
      BY <3>1
    <3> QED BY <2>2, <3>2
  <2> HIDE DEF n
  <2>10. Asked(kind) \in 0..3 /\ r.trust \in 0..3 /\ L2Count \in Nat
    BY <2>5, <2>8, AskedIs, SharedAssumption DEF Learning
  <2>11. /\ given[i] \in Nat /\ given'[i] = given[i] + n
         /\ granted[i] \in 0..3 /\ granted'[i] \in 0..3
         /\ granted'[i] >= granted[i] /\ granted'[i] >= Asked(kind)
         /\ \A j \in LearningIds \ {i} : given'[j] = given[j] /\ granted'[j] = granted[j]
    <3>1. /\ given[i] \in Nat /\ given'[i] = given[i] + n
          /\ \A j \in LearningIds \ {i} : given'[j] = given[j]
      BY <2>9 DEF SharedTypeOK
    <3>2. granted[i] \in 0..3 /\ granted'[i] = Max2(granted[i], Asked(kind))
          /\ \A j \in LearningIds \ {i} : granted'[j] = granted[j]
      BY <2>2 DEF SharedTypeOK
    <3>3. granted'[i] \in 0..3 /\ granted'[i] >= granted[i] /\ granted'[i] >= Asked(kind)
      BY <2>10, <3>2, Max2Is
    <3> QED BY <3>1, <3>2, <3>3
  <2>12. \A j \in LearningIds : /\ given'[j] \in Nat /\ granted'[j] \in Nat
                                 /\ given[j] <= given'[j] /\ granted[j] <= granted'[j]
    BY <2>7, <2>11 DEF SharedTypeOK
  <2>13. Honest(i, r)'
    <3>1. r.applied <= given'[i]
      BY <2>6, <2>7, <2>8, <2>11 DEF Honest
    <3>2. r.trust > granted'[i] => r.trust = 2 /\ given'[i] >= L2Count
      <4>1. CASE r.trust = q.trust
        BY <2>6, <2>7, <2>10, <2>11, <4>1 DEF Honest
      <4>2. CASE r.trust <= Asked(kind)
        BY <2>10, <2>11, <4>2
      <4>3. CASE kind = "apply" /\ r.trust = 2 /\ r.applied >= L2Count
        BY <2>6, <2>7, <2>8, <2>10, <2>11, <3>1, <4>3
      <4> QED BY <2>8, <4>1, <4>2, <4>3
    <3>3. i \notin marked' => r.mark = "whole"
      BY <2>4, <2>5, <2>8, SaveIs
    <3> QED BY <3>1, <3>2, <3>3 DEF Honest
  <2>14. \A s \in Stores, j \in LearningIds :
             index'[s][j] = index[s][j] \/ (j = i /\ index'[s][j] = r)
    BY <2>1, <2>4 DEF SharedTypeOK
  <2> QED BY <1>2, <2>1, <2>4, <2>5, <2>8, <2>12, <2>13, <2>14, NewIsHonest
<1>10. ASSUME NEW c \in Calls, TruncateFile(c) PROVE CopiesInv'
  <2>1. UNCHANGED <<index, given, granted>> /\ file' = [file EXCEPT ![hand[c].id] = Torn]
        /\ step[c] = "save"
    BY <1>10 DEF TruncateFile, sharedHistory
  <2>2. \A i \in LearningIds : file'[i] \in {Torn, file[i]}
    BY <2>1 DEF SharedTypeOK
  <2> QED BY <1>1, <1>2, <1>10, <2>1, <2>2, TruncateStep, NothingNew
<1>11. ASSUME NEW c \in Calls, FillFile(c) PROVE CopiesInv'
  <2> DEFINE i == hand[c].id
  <2>1. UNCHANGED <<index, given, granted>> /\ step[c] = "fill" /\ i \in LearningIds
        /\ hand[c].rec \in Learning
    BY <1>11, FillIs
  <2>2. ToMarkdown(hand[c].rec) \in Old(i)
    <3>1. hand[c].rec \in Copies(i) /\ Learned(hand[c].rec)
      BY <2>1, MarkdownIs DEF Copies, InHand
    <3> QED BY <3>1 DEF Old
  <2>3. \A j \in LearningIds : file'[j] = file[j] \/ (j = i /\ file'[j] = ToMarkdown(hand[c].rec))
    BY <1>11, <2>1, FillIs DEF SharedTypeOK
  <2>4. \A d \in Calls : step'[d] \in {"save", "fill", "insert"} =>
            step[d] \in {"save", "fill", "insert"} /\ hand'[d] = hand[d]
    BY <1>11, FillIs, ReturnIs DEF SharedTypeOK
  <2> QED BY <1>1, <1>2, <2>1, <2>2, <2>3, <2>4, NothingNew
<1>12. ASSUME NEW c \in Calls, Insert(c) PROVE CopiesInv'
  <2> DEFINE i == hand[c].id
  <2>1. /\ UNCHANGED <<file, given, granted>> /\ step[c] = "insert" /\ Return(c)
        /\ index' = [index EXCEPT ![Of[c]][i] = hand[c].rec]
    BY <1>12 DEF Insert
  <2>2. hand[c].rec \in Old(i)
    BY <2>1 DEF Old, Copies, InHand
  <2>3. \A t \in Stores, j \in LearningIds :
            index'[t][j] = index[t][j] \/ (j = i /\ index'[t][j] = hand[c].rec)
    BY <2>1 DEF SharedTypeOK
  <2> QED BY <1>1, <1>2, <2>1, <2>2, <2>3, ReturnIs, NothingNew
<1>13. ASSUME NEW c \in Calls, SaveFails(c) PROVE CopiesInv'
  <2>1. UNCHANGED <<file, index, given, granted>> /\ Return(c)
    BY <1>13 DEF SaveFails
  <2> QED BY <1>1, <1>2, <2>1, ReturnIs, NothingNew
<1>14. ASSUME NEW c \in Calls, Archive(c) PROVE CopiesInv'
  <2>1. UNCHANGED <<file, hand, given, granted>> /\ step' = [step EXCEPT ![c] = "delete"]
    BY <1>14 DEF Archive, GotoAwait
  <2>2. \A t \in Stores, j \in LearningIds : index'[t][j] \in {index[t][j], Nothing}
    BY <1>14 DEF Archive, SharedTypeOK
  <2>3. step'[c] = "delete" /\ \A d \in Calls \ {c} : step'[d] = step[d]
    BY <2>1, GotoIs
  <2> QED BY <1>1, <1>2, <2>1, <2>2, <2>3, NothingNew
<1>15. ASSUME NEW c \in Calls, DeleteFile(c) PROVE CopiesInv'
  <2>1. /\ UNCHANGED <<index, given, granted>>
        /\ \A d \in Calls \ {c} : step'[d] = step[d]
        /\ step'[c] \in {"idle", "delete"}
    BY <1>15, DeleteIs
  <2>2. \A j \in LearningIds : file'[j] \in {file[j], Nothing}
    BY <1>15, DeleteIs DEF SharedTypeOK
  <2>3. \A d \in Calls : step'[d] \in {"save", "fill", "insert"} =>
            /\ step[d] \in {"save", "fill", "insert"}
            /\ hand'[d].id = hand[d].id /\ hand'[d].rec = hand[d].rec
    <3> SUFFICES ASSUME NEW d \in Calls, step'[d] \in {"save", "fill", "insert"}
                 PROVE  /\ step[d] \in {"save", "fill", "insert"}
                        /\ hand'[d].id = hand[d].id /\ hand'[d].rec = hand[d].rec
      OBVIOUS
    <3>1. d # c
      BY <2>1
    <3>2. step[d] = step'[d]
      BY <2>1, <3>1
    <3>3. hand[d] # Nothing
      BY <3>2 DEF KnownInv
    <3> QED BY <1>15, <3>2, <3>3, DeleteKeepsHands
  <2>4. \A j \in LearningIds : file'[j] \in Old(j) /\ \A s \in Stores : index'[s][j] \in Old(j)
    BY <1>1, <1>2, <2>1, <2>2
  <2> QED BY <1>2, <2>1, <2>3, <2>4, NothingNew
<1> QED BY <1>3, <1>4, <1>5, <1>6, <1>7, <1>8, <1>9, <1>10, <1>11, <1>12, <1>13, <1>14, <1>15
        DEF SharedNext, Call


-----------------------------------------------------------------------------
(* What is nobody else's is in its file.                                    *)

\* The calls that save learning i are the same ones, and the rest of what
\* concerns it stays, but that a process may forget it.
LEMMA AloneThrough ==
    ASSUME NEW i \in LearningIds, Alone(i), file'[i] = file[i],
           \A s \in Stores : index'[s][i] \in {index[s][i], Nothing},
           \A c \in Calls : c \in InHand(i)' <=> c \in InHand(i),
           \A c \in InHand(i) : /\ hand'[c].rec = hand[c].rec
                                /\ step'[c] = "insert" => step[c] = "insert"
    PROVE  Alone(i)'
<1>1. InHand(i)' = InHand(i)
  BY DEF InHand
<1> DEFINE H == InHand(i)
<1>2. /\ \A c, d \in H : c = d
      /\ \A c \in H :
           /\ \A s \in Stores : index[s][i] # Nothing =>
                 s = Of[c] /\ ToMarkdown(index[s][i]) = ToMarkdown(hand[c].rec)
           /\ step[c] = "insert" => file[i] = ToMarkdown(hand[c].rec)
      /\ H = {} => \A s \in Stores : index[s][i] # Nothing => file[i] = ToMarkdown(index[s][i])
  BY DEF Alone
<1>3. /\ \A c, d \in InHand(i)' : c = d
      /\ \A c \in InHand(i)' :
           /\ \A s \in Stores : index'[s][i] # Nothing =>
                 s = Of[c] /\ ToMarkdown(index'[s][i]) = ToMarkdown(hand'[c].rec)
           /\ step'[c] = "insert" => file'[i] = ToMarkdown(hand'[c].rec)
      /\ InHand(i)' = {} => \A s \in Stores : index'[s][i] # Nothing =>
            file'[i] = ToMarkdown(index'[s][i])
  <2> HIDE DEF H
  <2> QED BY <1>1, <1>2 DEF H
<1> QED BY <1>3 DEF Alone, ToMarkdown

\* A call that begins to save learning i, and says that others have it.
LEMMA SaveAlone ==
    ASSUME SharedTypeOK, KnownInv, AloneInv, NEW c \in Calls, NEW kind \in Kinds,
           NEW i \in LearningIds, NEW r \in Learning, Save(c, kind, i, r),
           step[c] \notin {"save", "fill", "insert"}, UNCHANGED file,
           contested \subseteq contested', marked \subseteq marked',
           \A s \in Stores, j \in LearningIds :
               \/ index'[s][j] = index[s][j] /\ ~(s = Of[c] /\ j = i /\ index[s][j] # Nothing)
               \/ s = Of[c] /\ j = i /\ index'[s][j] = r
    PROVE  AloneInv'
<1>1. /\ step' = [step EXCEPT ![c] = "save"]
      /\ hand'[c].id = i /\ hand'[c].rec = r
      /\ \A d \in Calls \ {c} : hand'[d] = hand[d]
      /\ InHand(i) # {} \/ Shared(Of[c], i) => i \in contested'
  BY SaveIs
<1>2. step'[c] = "save" /\ \A d \in Calls \ {c} : step'[d] = step[d]
  BY <1>1, GotoIs
<1> SUFFICES ASSUME NEW j \in LearningIds, j \notin contested' \cup marked' PROVE Alone(j)'
  BY DEF AloneInv
<1>3. Alone(j)
  BY DEF AloneInv
<1>4. CASE j # i
  <2>1. \A d \in Calls : d \in InHand(j)' <=> d \in InHand(j)
    BY <1>1, <1>2, <1>4 DEF InHand
  <2>2. \A d \in InHand(j) : hand'[d].rec = hand[d].rec /\ step'[d] = step[d]
    BY <1>1, <1>2 DEF InHand
  <2>3. \A s \in Stores : index'[s][j] \in {index[s][j], Nothing}
    BY <1>4
  <2> QED BY <1>3, <2>1, <2>2, <2>3, AloneThrough
<1>5. CASE j = i
  <2>1. InHand(i) = {} /\ \A s \in Stores \ {Of[c]} : index[s][i] = Nothing
    BY <1>1, <1>5 DEF Shared
  <2>2. \A d \in InHand(j)' : d = c
    BY <1>1, <1>2, <1>5, <2>1 DEF InHand
  <2>3. c \in InHand(j)' /\ hand'[c].rec = r /\ step'[c] # "insert"
    BY <1>1, <1>2, <1>5 DEF InHand
  <2>4. \A s \in Stores : index'[s][j] # Nothing => s = Of[c] /\ index'[s][j] = r
    BY <1>5, <2>1
  <2> QED BY <2>2, <2>3, <2>4 DEF Alone
<1> QED BY <1>4, <1>5

LEMMA OpenAlone ==
    ASSUME SharedTypeOK, KnownInv, FileInv, CopiesInv, AloneInv, NEW s \in Stores, Open(s)
    PROVE  AloneInv'
<1>1. UNCHANGED <<file, step, hand, marked>> /\ contested' = contested \cup {i \in LearningIds : InHand(i) # {}}
  BY DEF Open, callVars
<1>2. index' = [index EXCEPT ![s] = [i \in LearningIds |->
                     IF Loads(file[i]) THEN FromMarkdown(file[i]) ELSE Nothing]]
  BY DEF Open
<1> SUFFICES ASSUME NEW i \in LearningIds, i \notin contested' \cup marked' PROVE Alone(i)'
  BY DEF AloneInv
<1>3. InHand(i) = {} /\ Alone(i)
  BY <1>1 DEF AloneInv
<1>4. InHand(i)' = {}
  BY <1>1, <1>3 DEF InHand
<1>5. ASSUME NEW t \in Stores, index'[t][i] # Nothing PROVE file'[i] = ToMarkdown(index'[t][i])
  <2>1. CASE t # s
    <3>1. index'[t][i] = index[t][i]
      BY <1>2, <2>1 DEF SharedTypeOK
    <3>2. file[i] = ToMarkdown(index[t][i])
      BY <1>3, <1>5, <3>1 DEF Alone
    <3> QED BY <1>1, <3>1, <3>2
  <2>2. CASE t = s
    <3>1. Learned(file[i]) /\ index'[t][i] = FromMarkdown(file[i])
      BY <1>2, <1>5, <2>2 DEF SharedTypeOK, Learned, Loads
    <3>2. file[i] \in Learning /\ file[i].status = "pending"
      BY <3>1, TypesIs DEF FileInv
    <3>3. file[i].mark = "whole"
      BY <1>1, <3>1 DEF CopiesInv, Copies, Honest, Learned
    <3>4. FromMarkdown(file[i]) = file[i] /\ ToMarkdown(file[i]) = file[i]
      BY <3>2, <3>3, MarkdownIs, ReadingIs
    <3> QED BY <1>1, <3>1, <3>4
  <2> QED BY <2>1, <2>2
<1> QED BY <1>4, <1>5 DEF Alone

LEMMA ExitAlone ==
    ASSUME SharedTypeOK, KnownInv, AloneInv, NEW s \in Stores, Exit(s)
    PROVE  AloneInv'
<1>1. UNCHANGED <<file, contested, marked>>
      /\ index' = [index EXCEPT ![s] = [i \in LearningIds |-> Nothing]]
  BY DEF Exit
<1>2. \A c \in Calls : /\ step'[c] = IF Of[c] = s THEN "idle" ELSE step[c]
                       /\ hand'[c] = IF Of[c] = s THEN Nothing ELSE hand[c]
  BY DEF Exit
<1> SUFFICES ASSUME NEW i \in LearningIds, i \notin contested' \cup marked' PROVE Alone(i)'
  BY DEF AloneInv
<1>3. Alone(i)
  BY <1>1 DEF AloneInv
<1>4. \A t \in Stores : /\ index'[t][i] \in {index[t][i], Nothing}
                        /\ t = s => index'[t][i] = Nothing
  BY <1>1 DEF SharedTypeOK
<1>5. CASE \A c \in InHand(i) : Of[c] # s
  <2>1. \A c \in Calls : c \in InHand(i)' <=> c \in InHand(i)
    BY <1>2, <1>5 DEF InHand
  <2>2. \A c \in InHand(i) : hand'[c].rec = hand[c].rec /\ step'[c] = step[c]
    BY <1>2, <1>5 DEF InHand
  <2> QED BY <1>1, <1>3, <1>4, <2>1, <2>2, AloneThrough
<1>6. ASSUME NEW c \in InHand(i), Of[c] = s PROVE Alone(i)'
  <2>1. \A d \in InHand(i) : d = c
    BY <1>3, <1>6 DEF Alone
  <2>2. InHand(i)' = {}
    BY <1>2, <1>6, <2>1 DEF InHand
  <2>3. \A t \in Stores : index[t][i] # Nothing => t = s
    BY <1>3, <1>6 DEF Alone
  <2>4. \A t \in Stores : index'[t][i] = Nothing
    BY <1>4, <2>3
  <2> QED BY <2>2, <2>4 DEF Alone
<1> QED BY <1>5, <1>6

LEMMA CreateAlone ==
    ASSUME SharedTypeOK, KnownInv, AloneInv, NEW c \in Calls, Create(c),
           contested \subseteq contested', marked \subseteq marked'
    PROVE  AloneInv'
<1>1. UNCHANGED <<file, index>> /\ learnt' = learnt + 1 /\ learnt < MaxLearnings
      /\ step[c] = "idle"
  BY DEF Create, Begin
<1>2. learnt' \in LearningIds /\ learnt' > learnt
  BY <1>1, TypesIs, SharedAssumption DEF LearningIds
<1>3. PICK i \in LearningIds : i = learnt'
  BY <1>2
<1>4. PICK t \in {0, 1}, n \in Brought, m \in Marks :
         Save(c, "create", i, NewLearning(t, n, m))
  BY <1>3 DEF Create
<1>5. NewLearning(t, n, m) \in Learning /\ "create" \in Kinds
  BY SharedAssumption DEF NewLearning, Learning, Kinds
<1>6. \A s \in Stores : index[s][i] = Nothing
  BY <1>2, <1>3 DEF KnownInv
<1> QED BY <1>1, <1>4, <1>5, <1>6, SaveAlone

LEMMA EditAlone ==
    ASSUME SharedTypeOK, KnownInv, AloneInv, NEW c \in Calls, Edit(c),
           contested \subseteq contested', marked \subseteq marked'
    PROVE  AloneInv'
<1>1. UNCHANGED file /\ step[c] = "idle" /\ Of[c] \in Stores
  BY SharedAssumption DEF Edit, Begin
<1>2. PICK i \in LearningIds, kind \in Edits :
         /\ index[Of[c]][i] # Nothing
         /\ \E r \in Edited(kind, index[Of[c]][i]) :
            /\ index' = [index EXCEPT ![Of[c]][i] = r]
            /\ Save(c, kind, i, r)
  BY DEF Edit
<1>3. PICK r \in Edited(kind, index[Of[c]][i]) :
            /\ index' = [index EXCEPT ![Of[c]][i] = r]
            /\ Save(c, kind, i, r)
  BY <1>2
<1>4. kind \in EditKinds /\ kind \in Kinds
  BY SharedAssumption DEF Kinds
<1>5. r \in Learning
  <2>1. index[Of[c]][i] \in Learning
    BY <1>1, <1>2, TypesIs
  <2> QED BY <1>3, <1>4, <2>1, EditedIs
<1>6. \A s \in Stores, j \in LearningIds :
         index'[s][j] = IF s = Of[c] /\ j = i THEN r ELSE index[s][j]
  BY <1>1, <1>3 DEF SharedTypeOK
<1> QED BY <1>1, <1>3, <1>4, <1>5, <1>6, SaveAlone

LEMMA MergeAlone ==
    ASSUME SharedTypeOK, KnownInv, AloneInv, NEW c \in Calls, Merge(c),
           contested \subseteq contested', marked \subseteq marked'
    PROVE  AloneInv'
<1>1. UNCHANGED file /\ step[c] = "merge" /\ Of[c] \in Stores /\ hand[c].id \in LearningIds
  BY MergeIs, MergeFrame
<1>2. CASE Return(c) /\ UNCHANGED <<index, contested, marked>>
  <2> SUFFICES ASSUME NEW i \in LearningIds, i \notin contested' \cup marked' PROVE Alone(i)'
    BY DEF AloneInv
  <2>1. Alone(i)
    BY <1>2 DEF AloneInv
  <2>2. /\ step'[c] = "idle"
        /\ \A d \in Calls \ {c} : step'[d] = step[d] /\ hand'[d] = hand[d]
    BY <1>2, ReturnIs
  <2>3. \A d \in Calls : d \in InHand(i)' <=> d \in InHand(i)
    BY <1>1, <2>2 DEF InHand
  <2>4. \A d \in InHand(i) : hand'[d].rec = hand[d].rec /\ step'[d] = step[d]
    BY <1>1, <2>2 DEF InHand
  <2> QED BY <1>1, <1>2, <2>1, <2>3, <2>4, AloneThrough
<1>3. ASSUME NEW m \in Learning, index' = [index EXCEPT ![Of[c]][hand[c].id] = m],
             Save(c, "merge", hand[c].id, m)
      PROVE  AloneInv'
  <2>1. PICK i \in LearningIds : i = hand[c].id
    BY <1>1
  <2>2. "merge" \in Kinds /\ Save(c, "merge", i, m)
    BY <1>3, <2>1 DEF Kinds
  <2>3. \A s \in Stores, j \in LearningIds :
           index'[s][j] = IF s = Of[c] /\ j = i THEN m ELSE index[s][j]
    BY <1>1, <1>3, <2>1 DEF SharedTypeOK
  <2> QED BY <1>1, <2>2, <2>3, SaveAlone
<1> QED BY <1>2, <1>3, MergeIs DEF Merged

\* A call that stays, or is none that saves, and a learning that stays as it is.
LEMMA AloneFrame ==
    ASSUME AloneInv, NEW i \in LearningIds, i \notin contested' \cup marked',
           contested \subseteq contested', marked \subseteq marked',
           file'[i] = file[i], \A s \in Stores : index'[s][i] \in {index[s][i], Nothing},
           NEW c \in Calls, c \notin InHand(i), c \notin InHand(i)',
           \A d \in Calls \ {c} : step'[d] = step[d] /\ hand'[d] = hand[d]
    PROVE  Alone(i)'
<1>1. Alone(i)
  BY DEF AloneInv
<1>2. \A d \in Calls : d \in InHand(i)' <=> d \in InHand(i)
  BY DEF InHand
<1>3. \A d \in InHand(i) : hand'[d].rec = hand[d].rec /\ step'[d] = step[d]
  BY DEF InHand
<1> QED BY <1>1, <1>2, <1>3, AloneThrough

LEMMA FindAlone ==
    ASSUME SharedTypeOK, KnownInv, AloneInv, NEW c \in Calls, FindSimilar(c)
    PROVE  AloneInv'
<1>1. UNCHANGED <<file, index, contested, marked>> /\ step[c] = "idle"
      /\ step' = [step EXCEPT ![c] = "merge"]
  BY DEF FindSimilar, Begin, GotoAwait, sharedHistory
<1>2. step'[c] = "merge" /\ \A d \in Calls \ {c} : step'[d] = step[d]
  BY <1>1, GotoIs
<1>3. \A d \in Calls \ {c} : hand'[d] = hand[d]
  BY DEF FindSimilar, SharedTypeOK
<1>4. \A i \in LearningIds : c \notin InHand(i) /\ c \notin InHand(i)'
  BY <1>1, <1>2 DEF InHand
<1>5. ASSUME NEW i \in LearningIds, i \notin contested' \cup marked' PROVE Alone(i)'
  BY <1>1, <1>2, <1>3, <1>4, <1>5, AloneFrame
<1> QED BY <1>5 DEF AloneInv

LEMMA TruncateAlone ==
    ASSUME SharedTypeOK, KnownInv, AloneInv, NEW c \in Calls, TruncateFile(c)
    PROVE  AloneInv'
<1>1. /\ UNCHANGED <<index, contested, marked>> /\ step[c] = "save"
      /\ file' = [file EXCEPT ![hand[c].id] = Torn]
  BY DEF TruncateFile, sharedHistory
<1>2. /\ hand'[c].id = hand[c].id /\ hand'[c].rec = hand[c].rec /\ step'[c] = "fill"
      /\ \A d \in Calls \ {c} : hand'[d] = hand[d] /\ step'[d] = step[d]
  BY TruncateStep
<1> SUFFICES ASSUME NEW i \in LearningIds, i \notin contested' \cup marked' PROVE Alone(i)'
  BY DEF AloneInv
<1>3. CASE i # hand[c].id
  <2>1. file'[i] = file[i] /\ c \notin InHand(i) /\ c \notin InHand(i)'
    BY <1>1, <1>2, <1>3 DEF InHand, SharedTypeOK
  <2> QED BY <1>1, <1>2, <2>1, AloneFrame
<1>4. CASE i = hand[c].id
  <2>1. Alone(i) /\ c \in InHand(i)
    BY <1>1, <1>4 DEF AloneInv, InHand
  <2>2. \A d \in InHand(i) : d = c
    BY <2>1 DEF Alone
  <2>3. /\ \A d \in InHand(i)' : d = c
    BY <1>2, <2>2 DEF InHand
  <2>4. c \in InHand(i)'
    BY <1>2, <1>4 DEF InHand
  <2>5. \A s \in Stores : index'[s][i] # Nothing =>
            s = Of[c] /\ ToMarkdown(index'[s][i]) = ToMarkdown(hand'[c].rec)
    BY <1>1, <1>2, <2>1 DEF Alone
  <2> QED BY <1>2, <2>3, <2>4, <2>5 DEF Alone
<1> QED BY <1>3, <1>4

LEMMA FillAlone ==
    ASSUME SharedTypeOK, KnownInv, DoomedInv, AloneInv, NEW c \in Calls, FillFile(c)
    PROVE  AloneInv'
<1>1. UNCHANGED <<index, contested, marked>> /\ step[c] = "fill" /\ hand[c].id \in LearningIds
      /\ hand[c].rec \in Learning
  BY FillIs
<1>2. /\ \A d \in Calls \ {c} : hand'[d] = hand[d] /\ step'[d] = step[d]
      /\ step'[c] = "idle" \/ (step'[c] = "insert" /\ hand'[c] = hand[c])
  <2>1. CASE Return(c)
    BY <2>1, ReturnIs
  <2>2. CASE step' = [step EXCEPT ![c] = "insert"] /\ UNCHANGED hand
    BY <2>2, GotoIs
  <2> QED BY <2>1, <2>2, FillIs
<1> SUFFICES ASSUME NEW i \in LearningIds, i \notin contested' \cup marked' PROVE Alone(i)'
  BY DEF AloneInv
<1>3. CASE i # hand[c].id
  <2>1. file'[i] = file[i]
    BY <1>3, FillIs DEF SharedTypeOK
  <2>2. c \notin InHand(i) /\ c \notin InHand(i)'
    BY <1>2, <1>3 DEF InHand
  <2> QED BY <1>1, <1>2, <2>1, <2>2, AloneFrame
<1>4. CASE i = hand[c].id
  <2>1. Alone(i) /\ c \in InHand(i)
    BY <1>1, <1>4 DEF AloneInv, InHand
  <2>2. \A d \in InHand(i) : d = c
    BY <2>1 DEF Alone
  <2>3. hand[c].live
    BY <1>1, <1>4 DEF DoomedInv
  <2>4. file'[i] = ToMarkdown(hand[c].rec)
    BY <1>1, <1>4, <2>3, FillIs DEF SharedTypeOK
  <2>5. \A s \in Stores : index'[s][i] # Nothing =>
            s = Of[c] /\ ToMarkdown(index'[s][i]) = ToMarkdown(hand[c].rec)
    BY <1>1, <2>1 DEF Alone
  <2>6. \A d \in InHand(i)' : d = c /\ hand'[c] = hand[c]
    BY <1>2, <2>2 DEF InHand
  <2>7. \A d \in InHand(i)' : file'[i] = ToMarkdown(hand'[d].rec)
    BY <2>4, <2>6
  <2>8. \A d \in InHand(i)', s \in Stores : index'[s][i] # Nothing =>
            s = Of[d] /\ ToMarkdown(index'[s][i]) = ToMarkdown(hand'[d].rec)
    BY <2>5, <2>6
  <2>9. \A s \in Stores : index'[s][i] # Nothing => file'[i] = ToMarkdown(index'[s][i])
    BY <2>4, <2>5
  <2> QED BY <2>6, <2>7, <2>8, <2>9 DEF Alone
<1> QED BY <1>3, <1>4

LEMMA InsertAlone ==
    ASSUME SharedTypeOK, KnownInv, AloneInv, NEW c \in Calls, Insert(c)
    PROVE  AloneInv'
<1>1. /\ UNCHANGED <<file, contested, marked>> /\ step[c] = "insert" /\ Return(c)
      /\ index' = [index EXCEPT ![Of[c]][hand[c].id] = hand[c].rec]
  BY DEF Insert
<1>2. /\ step'[c] = "idle"
      /\ \A d \in Calls \ {c} : hand'[d] = hand[d] /\ step'[d] = step[d]
  BY <1>1, ReturnIs
<1> SUFFICES ASSUME NEW i \in LearningIds, i \notin contested' \cup marked' PROVE Alone(i)'
  BY DEF AloneInv
<1>3. CASE i # hand[c].id
  <2>1. \A s \in Stores : index'[s][i] = index[s][i]
    BY <1>1, <1>3 DEF SharedTypeOK
  <2>2. c \notin InHand(i) /\ c \notin InHand(i)'
    BY <1>2, <1>3 DEF InHand
  <2> QED BY <1>1, <1>2, <2>1, <2>2, AloneFrame
<1>4. CASE i = hand[c].id
  <2>1. Alone(i) /\ c \in InHand(i)
    BY <1>1, <1>4 DEF AloneInv, InHand
  <2>2. \A d \in InHand(i) : d = c
    BY <2>1 DEF Alone
  <2>3. file[i] = ToMarkdown(hand[c].rec)
    BY <1>1, <2>1 DEF Alone
  <2>4. InHand(i)' = {}
    BY <1>2, <2>2 DEF InHand
  <2>5. \A s \in Stores : index[s][i] # Nothing => s = Of[c]
    BY <2>1 DEF Alone
  <2>6. \A s \in Stores : index'[s][i] # Nothing => index'[s][i] = hand[c].rec
    BY <1>1, <1>4, <2>5 DEF SharedTypeOK
  <2>7. \A s \in Stores : index'[s][i] # Nothing => file'[i] = ToMarkdown(index'[s][i])
    BY <1>1, <2>3, <2>6
  <2> QED BY <2>4, <2>7 DEF Alone
<1> QED BY <1>3, <1>4

LEMMA SaveFailsAlone ==
    ASSUME SharedTypeOK, KnownInv, AloneInv, NEW c \in Calls, SaveFails(c)
    PROVE  AloneInv'
<1>1. /\ UNCHANGED <<file, index, marked>> /\ Return(c) /\ step[c] \in {"save", "fill"}
      /\ contested' = contested \cup {hand[c].id}
  BY DEF SaveFails
<1>2. /\ step'[c] = "idle"
      /\ \A d \in Calls \ {c} : hand'[d] = hand[d] /\ step'[d] = step[d]
  BY <1>1, ReturnIs
<1>3. ASSUME NEW i \in LearningIds, i \notin contested' \cup marked' PROVE Alone(i)'
  <2>1. c \notin InHand(i) /\ c \notin InHand(i)'
    BY <1>1, <1>2, <1>3 DEF InHand
  <2> QED BY <1>1, <1>2, <1>3, <2>1, AloneFrame
<1> QED BY <1>3 DEF AloneInv

LEMMA ArchiveAlone ==
    ASSUME SharedTypeOK, KnownInv, AloneInv, NEW c \in Calls, Archive(c),
           contested \subseteq contested', marked \subseteq marked'
    PROVE  AloneInv'
<1>1. UNCHANGED <<file, hand>> /\ step[c] = "idle" /\ step' = [step EXCEPT ![c] = "delete"]
  BY DEF Archive, Begin, GotoAwait
<1>2. step'[c] = "delete" /\ \A d \in Calls \ {c} : step'[d] = step[d]
  BY <1>1, GotoIs
<1>3. \A t \in Stores, j \in LearningIds : index'[t][j] \in {index[t][j], Nothing}
  BY DEF Archive, SharedTypeOK
<1>4. ASSUME NEW i \in LearningIds, i \notin contested' \cup marked' PROVE Alone(i)'
  <2>1. c \notin InHand(i) /\ c \notin InHand(i)'
    BY <1>1, <1>2 DEF InHand
  <2> QED BY <1>1, <1>2, <1>3, <1>4, <2>1, AloneFrame
<1> QED BY <1>4 DEF AloneInv

LEMMA DeleteAlone ==
    ASSUME SharedTypeOK, KnownInv, DoomedInv, AloneInv, NEW c \in Calls, DeleteFile(c)
    PROVE  AloneInv'
<1>1. /\ UNCHANGED <<index, contested, marked>>
      /\ step[c] = "delete" /\ step'[c] \in {"idle", "delete"}
      /\ \A d \in Calls \ {c} : step'[d] = step[d]
  BY DeleteIs
<1> SUFFICES ASSUME NEW i \in LearningIds, i \notin contested' \cup marked' PROVE Alone(i)'
  BY DEF AloneInv
<1>2. Alone(i) /\ i \notin doomed[c]
  BY <1>1 DEF AloneInv, DoomedInv
<1>3. file'[i] = file[i]
  BY <1>2, DeleteIs DEF SharedTypeOK
<1>4. \A d \in Calls : step'[d] \in {"save", "fill", "insert"} \/ step[d] \in {"save", "fill", "insert"} =>
          step'[d] = step[d] /\ hand'[d].id = hand[d].id /\ hand'[d].rec = hand[d].rec
  <2> SUFFICES ASSUME NEW d \in Calls,
                      step'[d] \in {"save", "fill", "insert"} \/ step[d] \in {"save", "fill", "insert"}
               PROVE  step'[d] = step[d] /\ hand'[d].id = hand[d].id /\ hand'[d].rec = hand[d].rec
    OBVIOUS
  <2>1. d # c
    BY <1>1
  <2>2. step'[d] = step[d]
    BY <1>1, <2>1
  <2>3. hand[d] # Nothing
    BY <2>2 DEF KnownInv
  <2> QED BY <2>2, <2>3, DeleteKeepsHands
<1>5. \A d \in Calls : d \in InHand(i)' <=> d \in InHand(i)
  BY <1>4 DEF InHand
<1>6. \A d \in InHand(i) : hand'[d].rec = hand[d].rec /\ step'[d] = step[d]
  BY <1>4 DEF InHand
<1> QED BY <1>1, <1>2, <1>3, <1>5, <1>6, AloneThrough

LEMMA AloneStep ==
    ASSUME SharedTypeOK, KnownInv, DoomedInv, FileInv, CopiesInv, AloneInv,
           [SharedNext]_sharedVars
    PROVE  AloneInv'
<1>1. contested \subseteq contested' /\ marked \subseteq marked'
  BY RecordsGrow
<1>2. CASE UNCHANGED sharedVars
  BY <1>2 DEF sharedVars, callVars, sharedHistory, AloneInv, Alone, InHand, ToMarkdown
<1> QED
  BY <1>1, <1>2, OpenAlone, ExitAlone, CreateAlone, FindAlone, MergeAlone, EditAlone,
     TruncateAlone, FillAlone, InsertAlone, SaveFailsAlone, ArchiveAlone, DeleteAlone
     DEF SharedNext, Call

-----------------------------------------------------------------------------
(* The theorems about the shared learnings.                                 *)

LEMMA SharedStep == SharedInv /\ [SharedNext]_sharedVars => SharedInv'
BY SharedTypeStep, DoomedStep, SavedStep, FileStep, AloneStep, TrustStep DEF SharedInv

THEOREM SharedInvariance == SharedSpec => []SharedInv
<1>1. SharedInit => SharedInv
  BY SharedInitInv
<1>2. SharedInv /\ [SharedNext]_sharedVars => SharedInv'
  BY SharedStep
<1> QED BY <1>1, <1>2, PTL DEF SharedSpec

\* What a process indexes is a learning, whatever the files hold when it reads
\* them, and only calls of open processes are under way.
THEOREM SharedTypeCorrect == SharedSpec => []SharedTypeOK
<1>1. SharedInv => SharedTypeOK
  BY DEF SharedInv
<1> QED BY <1>1, SharedInvariance, PTL

\* insert saves before it indexes: a learning reported as created has its file,
\* and one that from_markdown takes unless a caller gave the learning a text with
\* "---"; but for one that was archived, is being written, or whose writer failed
\* or died, however many processes and calls there are.
THEOREM CreatedIsKept == SharedSpec => []CreatedKept
<1>1. SharedInv => CreatedKept
  <2> SUFFICES ASSUME SharedInv, NEW i \in confirmed \ (archived \cup damaged), Learned(file[i]),
                      i \notin marked
               PROVE  Loads(file[i])
    BY DEF SharedInv, SavedInv, Kept, Learned, CreatedKept
  <2>1. i \in LearningIds
    BY TypesIs DEF SharedInv, SharedTypeOK
  <2>2. file[i].mark = "whole"
    BY <2>1 DEF SharedInv, CopiesInv, Copies, Honest, Learned
  <2> QED BY <2>2 DEF Loads, Learned
<1> QED BY <1>1, SharedInvariance, PTL

\* record_application, the promotions and the merges of store_with_dedup: no
\* lost update and no stale index makes a copy of a learning better than what
\* callers reported of it.
THEOREM TrustIsEarned == SharedSpec => []TrustEarned
<1>1. SharedInv => TrustEarned
  BY DEF SharedInv, CopiesInv, Honest, TrustEarned
<1> QED BY <1>1, SharedInvariance, PTL

\* What one process at a time does to a learning, one call at a time, is what a
\* process that opens the store after the call has returned reads, as long as no
\* caller gives the learning a text with "---": to_markdown and from_markdown
\* keep what is said of it, and nothing else writes its file.
THEOREM AloneDurable == SharedSpec => []AloneIsDurable
<1>1. SharedInv => AloneIsDurable
  <2> SUFFICES ASSUME SharedInv, NEW s \in Stores, NEW i \in LearningIds,
                      i \notin contested \cup marked, index[s][i] # Nothing, InHand(i) = {}
               PROVE  Loads(file[i]) /\ FromMarkdown(file[i]) = ToMarkdown(index[s][i])
    BY DEF SharedInv, SharedTypeOK, AloneIsDurable
  <2>1. file[i] = ToMarkdown(index[s][i])
    BY DEF SharedInv, AloneInv, Alone
  <2>2. file[i] \in Learning /\ Learned(file[i])
    <3>1. index[s][i] \in Learning
      BY TypesIs DEF SharedInv
    <3> QED BY <2>1, <3>1, MarkdownIs
  <2>3. file[i].mark = "whole"
    BY <2>2 DEF SharedInv, CopiesInv, Copies, Honest, Learned
  <2> QED BY <2>1, <2>2, <2>3, ReadingIs
<1> QED BY <1>1, SharedInvariance, PTL

-----------------------------------------------------------------------------
(* The backups of the binary.                                               *)

Verified(m) == phase[m] = "verified" /\ ~retouched[m]

\* What has been verified is the file that was registered until somebody writes
\* the file or this manager registers another.
VerifiedInv ==
    \A m \in Managers : Verified(m) => copies[version[m]] = backups[m][version[m]].sum

BackupInv == BackupTypeOK /\ VerifiedInv

LEMMA BackupInitInv == BackupInit => BackupInv
BY BackupAssumption DEF BackupInit, BackupInv, BackupTypeOK, VerifiedInv, Verified, CopyContents

LEMMA CountIs ==
    ASSUME NEW found \in SUBSET Versions
    PROVE  Cardinality(found) \in Nat
BY BackupAssumption, FS_Subset, FS_CardinalityType

\* A registered backup is a registry entry, a file that is there a content.
LEMMA EntryIs ==
    ASSUME BackupTypeOK
    PROVE  /\ \A m \in Managers, v \in Versions : v \in Registered(m) => backups[m][v] \in BackupEntry
           /\ \A v \in Versions : copies[v] # NoBackup => copies[v] \in CopyContents
BY DEF BackupTypeOK, Registered

\* The files the other managers have verified, under a step that writes the
\* files of the set written.
LEMMA OthersVerified ==
    ASSUME BackupInv, NEW m \in Managers, NEW written \in SUBSET Versions,
           \A v \in Versions \ written : copies'[v] = copies[v],
           \A n \in Managers \ {m} : /\ phase'[n] = phase[n] /\ version'[n] = version[n]
                                     /\ backups'[n] = backups[n],
           \A n \in Managers : ~retouched'[n] =>
              ~retouched[n] /\ version[n] \notin written,
           phase'[m] # "verified"
    PROVE  VerifiedInv'
<1> SUFFICES ASSUME NEW n \in Managers, Verified(n)'
             PROVE  copies'[version'[n]] = backups'[n][version'[n]].sum
  BY DEF VerifiedInv
<1>1. n # m
  BY DEF Verified
<1>2. Verified(n) /\ version[n] \in Versions \ written
  BY <1>1 DEF Verified, BackupInv, BackupTypeOK
<1> QED BY <1>1, <1>2 DEF BackupInv, VerifiedInv

LEMMA UpdateBinaryStep == BackupInv /\ UpdateBinary => BackupInv'
BY DEF BackupInv, BackupTypeOK, VerifiedInv, Verified, UpdateBinary, managerVars

LEMMA DamageStep == BackupInv /\ DamageCopy => BackupInv'
<1> SUFFICES ASSUME BackupInv, DamageCopy PROVE BackupInv'
  OBVIOUS
<1>1. PICK v \in Versions, c \in CopyContents \cup {NoBackup} :
        /\ copies' = [copies EXCEPT ![v] = c]
        /\ retouched' = [m \in Managers |-> retouched[m] \/ version[m] = v]
  BY DEF DamageCopy
<1>2. BackupTypeOK'
  BY <1>1 DEF BackupInv, BackupTypeOK, DamageCopy
<1>3. VerifiedInv'
  BY <1>1 DEF BackupInv, BackupTypeOK, VerifiedInv, Verified, DamageCopy
<1> QED BY <1>2, <1>3 DEF BackupInv

LEMMA CopyStep ==
    ASSUME BackupInv, NEW m \in Managers, NEW v \in Versions, CopyBackup(m, v)
    PROVE  BackupInv'
<1>1. BackupTypeOK'
  BY DEF BackupInv, BackupTypeOK, CopyBackup, CopyWritten, CopyContents
<1>2. VerifiedInv'
  <2>1. \A n \in Managers : ~retouched'[n] => ~retouched[n] /\ version[n] \notin {v}
    BY DEF CopyBackup, CopyWritten
  <2>2. \A w \in Versions \ {v} : copies'[w] = copies[w]
    BY DEF BackupInv, BackupTypeOK, CopyBackup, CopyWritten
  <2>3. phase'[m] # "verified"
    BY DEF BackupInv, BackupTypeOK, CopyBackup
  <2>4. \A n \in Managers \ {m} : /\ phase'[n] = phase[n] /\ version'[n] = version[n]
                                  /\ backups'[n] = backups[n]
    BY DEF BackupInv, BackupTypeOK, CopyBackup
  <2> QED BY <2>1, <2>2, <2>3, <2>4, OthersVerified
<1> QED BY <1>1, <1>2 DEF BackupInv

LEMMA RegisterStep ==
    ASSUME BackupInv, NEW m \in Managers, RegisterCopy(m)
    PROVE  BackupInv'
<1>1. version[m] \in Versions
  BY DEF BackupInv, BackupTypeOK
<1>2. BackupTypeOK'
  <2>1. CASE copies[version[m]] = NoBackup
    BY <2>1 DEF BackupInv, BackupTypeOK, RegisterCopy
  <2>2. CASE copies[version[m]] # NoBackup
    <3>1. [stamp |-> stamps, sum |-> copies[version[m]]] \in BackupEntry
      BY <1>1, <2>2 DEF BackupInv, BackupTypeOK, BackupEntry, CopySums
    <3> QED BY <1>1, <2>2, <3>1 DEF BackupInv, BackupTypeOK, RegisterCopy
  <2> QED BY <2>1, <2>2
<1>3. VerifiedInv'
  <2>1. /\ phase'[m] # "verified" /\ UNCHANGED <<copies, retouched>>
        /\ \A n \in Managers \ {m} : /\ phase'[n] = phase[n] /\ version'[n] = version[n]
                                     /\ backups'[n] = backups[n]
    BY DEF BackupInv, BackupTypeOK, RegisterCopy
  <2> QED BY <2>1 DEF BackupInv, VerifiedInv, Verified
<1> QED BY <1>2, <1>3 DEF BackupInv

LEMMA RotateStep ==
    ASSUME BackupInv, NEW m \in Managers, RotateBackups(m)
    PROVE  BackupInv'
<1> DEFINE gone == {v \in Excess(m) : copies[v] # NoBackup}
<1>1. gone \in SUBSET Versions
  BY DEF Excess, Registered
<1>2. /\ copies' = [v \in Versions |-> IF v \in gone THEN NoBackup ELSE copies[v]]
      /\ backups' = [backups EXCEPT ![m] =
                  [v \in Versions |-> IF v \in gone THEN NoBackup ELSE @[v]]]
      /\ retouched' = [n \in Managers |-> retouched[n] \/ version[n] \in gone]
      /\ phase[m] = "idle"
      /\ UNCHANGED <<binary, restored, phase, version, stamps, reloads, damage>>
  BY DEF RotateBackups
<1> HIDE DEF gone
<1>3. BackupTypeOK'
  BY <1>2 DEF BackupInv, BackupTypeOK
<1>4. VerifiedInv'
  <2>1. \A v \in Versions \ gone : copies'[v] = copies[v]
    BY <1>2
  <2>2. \A n \in Managers : ~retouched'[n] => ~retouched[n] /\ version[n] \notin gone
    BY <1>2
  <2>3. \A n \in Managers \ {m} : /\ phase'[n] = phase[n] /\ version'[n] = version[n]
                                  /\ backups'[n] = backups[n]
    BY <1>2 DEF BackupInv, BackupTypeOK
  <2>4. phase'[m] # "verified"
    BY <1>2
  <2> QED BY <1>1, <2>1, <2>2, <2>3, <2>4, OthersVerified
<1> QED BY <1>3, <1>4 DEF BackupInv

LEMMA VerifyStep ==
    ASSUME BackupInv, NEW m \in Managers, NEW v \in Versions, VerifyCopy(m, v)
    PROVE  BackupInv'
<1>1. BackupTypeOK'
  BY DEF BackupInv, BackupTypeOK, VerifyCopy
<1>2. VerifiedInv'
  <2>1. /\ version'[m] = v /\ copies[v] = backups[m][v].sum
        /\ UNCHANGED <<copies, backups>>
        /\ \A n \in Managers \ {m} : /\ phase'[n] = phase[n] /\ version'[n] = version[n]
                                     /\ retouched'[n] = retouched[n]
    BY DEF BackupInv, BackupTypeOK, VerifyCopy, Intact
  <2> QED BY <2>1 DEF BackupInv, VerifiedInv, Verified
<1> QED BY <1>1, <1>2 DEF BackupInv

LEMMA RefuseStep ==
    ASSUME BackupInv, NEW m \in Managers, NEW v \in Versions, RefuseCopy(m, v)
    PROVE  BackupInv'
<1>1. BackupTypeOK'
  BY DEF BackupInv, BackupTypeOK, RefuseCopy
<1>2. VerifiedInv'
  BY DEF BackupInv, BackupTypeOK, RefuseCopy, VerifiedInv, Verified
<1> QED BY <1>1, <1>2 DEF BackupInv

LEMMA RestoreStep ==
    ASSUME BackupInv, NEW m \in Managers, RestoreCopy(m)
    PROVE  BackupInv'
<1>1. BackupTypeOK'
  BY DEF BackupInv, BackupTypeOK, RestoreCopy
<1>2. VerifiedInv'
  BY DEF BackupInv, BackupTypeOK, RestoreCopy, VerifiedInv, Verified
<1> QED BY <1>1, <1>2 DEF BackupInv

LEMMA DeleteBackupStep ==
    ASSUME BackupInv, NEW m \in Managers, NEW v \in Versions, DeleteBackup(m, v)
    PROVE  BackupInv'
<1>1. BackupTypeOK'
  BY DEF BackupInv, BackupTypeOK, DeleteBackup
<1>2. VerifiedInv'
  <2>1. \A n \in Managers : ~retouched'[n] => ~retouched[n] /\ version[n] \notin {v}
    BY DEF DeleteBackup
  <2>2. \A w \in Versions \ {v} : copies'[w] = copies[w]
    BY DEF BackupInv, BackupTypeOK, DeleteBackup
  <2>3. phase'[m] # "verified"
    BY DEF DeleteBackup
  <2>4. \A n \in Managers \ {m} : /\ phase'[n] = phase[n] /\ version'[n] = version[n]
                                  /\ backups'[n] = backups[n]
    BY DEF BackupInv, BackupTypeOK, DeleteBackup
  <2> QED BY <2>1, <2>2, <2>3, <2>4, OthersVerified
<1> QED BY <1>1, <1>2 DEF BackupInv

LEMMA CleanupStep ==
    ASSUME BackupInv, NEW m \in Managers, CleanupBackups(m)
    PROVE  BackupInv'
<1>1. BackupTypeOK'
  BY DEF BackupInv, BackupTypeOK, CleanupBackups
<1>2. VerifiedInv'
  <2>1. \A n \in Managers : ~retouched'[n] => ~retouched[n] /\ version[n] \notin Registered(m)
    BY DEF CleanupBackups
  <2>2. \A w \in Versions \ Registered(m) : copies'[w] = copies[w]
    BY DEF CleanupBackups
  <2>3. phase'[m] # "verified" /\ Registered(m) \in SUBSET Versions
    BY DEF CleanupBackups, Registered
  <2>4. \A n \in Managers \ {m} : /\ phase'[n] = phase[n] /\ version'[n] = version[n]
                                  /\ backups'[n] = backups[n]
    BY DEF BackupInv, BackupTypeOK, CleanupBackups
  <2> QED BY <2>1, <2>2, <2>3, <2>4, OthersVerified
<1> QED BY <1>1, <1>2 DEF BackupInv

LEMMA ReloadStep ==
    ASSUME BackupInv, NEW m \in Managers, ReloadManager(m)
    PROVE  BackupInv'
<1> DEFINE found == {v \in Versions : copies'[v] # NoBackup}
           loaded(at) == [v \in Versions |->
                            IF v \in found THEN [stamp |-> at[v], sum |-> "empty"] ELSE NoBackup]
<1>1. /\ reloads' = reloads + 1 /\ phase' = [phase EXCEPT ![m] = "idle"]
      /\ stamps' = stamps + Cardinality(found)
      /\ UNCHANGED <<binary, version, damage>>
      /\ retouched' = [n \in Managers |-> retouched[n] \/ (copies' # copies /\ version[n] = version[m])]
  BY DEF ReloadManager
<1>2. \/ UNCHANGED copies
      \/ copies' = [copies EXCEPT ![version[m]] = TornCopy]
  BY DEF ReloadManager
<1>3. restored' = restored \/ restored' = TornCopy
  BY DEF ReloadManager
<1>4. PICK at \in [found -> stamps..(stamps + Cardinality(found) - 1)] :
        backups' = [backups EXCEPT ![m] = loaded(at)]
  BY DEF ReloadManager
<1>5. found \in SUBSET Versions
  OBVIOUS
<1> HIDE DEF found
<1>6. Cardinality(found) \in Nat
  BY <1>5, CountIs
<1>7. loaded(at) \in [Versions -> BackupEntry \cup {NoBackup}]
  <2>1. stamps \in Nat
    BY DEF BackupInv, BackupTypeOK
  <2>2. \A v \in found : at[v] \in Nat
    BY <2>1, <1>6
  <2>3. \A v \in found : [stamp |-> at[v], sum |-> "empty"] \in BackupEntry
    BY <2>2 DEF BackupEntry, CopySums
  <2> QED BY <2>3
<1> HIDE DEF loaded
<1>8. copies' \in [Versions -> CopyContents \cup {NoBackup}] /\ version[m] \in Versions
  BY <1>2 DEF BackupInv, BackupTypeOK, CopyContents
<1>9. BackupTypeOK'
  <2>1. backups' \in [Managers -> [Versions -> BackupEntry \cup {NoBackup}]]
    BY <1>4, <1>7 DEF BackupInv, BackupTypeOK
  <2>2. stamps' \in Nat /\ reloads' \in Nat
    BY <1>1, <1>6 DEF BackupInv, BackupTypeOK
  <2>3. restored' \in CopyContents \cup {NoBackup}
    BY <1>3 DEF BackupInv, BackupTypeOK, CopyContents
  <2> QED BY <1>1, <1>8, <2>1, <2>2, <2>3 DEF BackupInv, BackupTypeOK
<1>10. VerifiedInv'
  <2> DEFINE written == IF copies' = copies THEN {} ELSE {version[m]}
  <2>1. \A v \in Versions \ written : copies'[v] = copies[v]
    BY <1>2, <1>8 DEF BackupInv, BackupTypeOK
  <2>2. \A n \in Managers : ~retouched'[n] => ~retouched[n] /\ version[n] \notin written
    BY <1>1
  <2>3. \A n \in Managers \ {m} : /\ phase'[n] = phase[n] /\ version'[n] = version[n]
                                  /\ backups'[n] = backups[n]
    BY <1>1, <1>4 DEF BackupInv, BackupTypeOK
  <2>4. phase'[m] # "verified" /\ written \in SUBSET Versions
    BY <1>1, <1>8 DEF BackupInv, BackupTypeOK
  <2> HIDE DEF written
  <2> QED BY <2>1, <2>2, <2>3, <2>4, OthersVerified
<1> QED BY <1>9, <1>10 DEF BackupInv

LEMMA BackupStep == BackupInv /\ [BackupNext]_backupVars => BackupInv'
<1> SUFFICES ASSUME BackupInv, [BackupNext]_backupVars PROVE BackupInv'
  OBVIOUS
<1>1. CASE UNCHANGED backupVars
  BY <1>1 DEF BackupInv, BackupTypeOK, VerifiedInv, Verified, backupVars, managerVars
<1>2. CASE UpdateBinary \/ DamageCopy
  BY <1>2, UpdateBinaryStep, DamageStep
<1>3. ASSUME NEW m \in Managers, ManagerStep(m) PROVE BackupInv'
  BY <1>3, RegisterStep, RotateStep, RestoreStep, CleanupStep, ReloadStep, CopyStep, VerifyStep,
     RefuseStep, DeleteBackupStep DEF ManagerStep
<1> QED BY <1>1, <1>2, <1>3 DEF BackupNext

\* A registry holds entries, a file of the directory a whole or a torn copy.
THEOREM BackupsTypeCorrect == BackupSpec => []BackupTypeOK
<1>1. BackupInv => BackupTypeOK
  BY DEF BackupInv
<1> QED BY <1>1, BackupInitInv, BackupStep, PTL DEF BackupSpec

\* rollback_to_version: what a rollback that ends leaves in the place of the
\* binary is what its manager registered under the version, unless the file was
\* written between the verification and the copy, for every number of managers
\* of one directory, whatever they rotate, delete, load and damage.
THEOREM RestoresTheBackup == BackupSpec => RestoresWhatWasBackedUp
<1> DEFINE Restoring == \A m \in Managers :
        phase[m] = "verified" /\ phase'[m] = "idle" /\ restored' # restored /\ ~retouched[m]
        /\ reloads' = reloads
            => restored' = backups[m][version[m]].sum
<1>1. BackupInv /\ [BackupNext]_backupVars => [Restoring]_backupVars
  <2> SUFFICES ASSUME BackupInv, BackupNext, NEW m \in Managers,
                      phase[m] = "verified", phase'[m] = "idle", restored' # restored,
                      ~retouched[m], reloads' = reloads
               PROVE  restored' = backups[m][version[m]].sum
    OBVIOUS
  <2>1. PICK n \in Managers : RestoreCopy(n)
    <3>1. \A n \in Managers : ~ReloadManager(n)
      BY DEF ReloadManager, BackupInv, BackupTypeOK
    <3> QED BY <3>1 DEF BackupNext, ManagerStep, UpdateBinary, DamageCopy, RegisterCopy, RotateBackups,
             CleanupBackups, CopyBackup, VerifyCopy, RefuseCopy, DeleteBackup
  <2>2. n = m
    BY <2>1 DEF RestoreCopy, BackupInv, BackupTypeOK
  <2>3. restored' = copies[version[m]]
    BY <2>1, <2>2 DEF RestoreCopy
  <2> QED BY <2>3 DEF BackupInv, VerifiedInv, Verified
<1> QED BY <1>1, BackupInitInv, BackupStep, PTL DEF BackupSpec, RestoresWhatWasBackedUp

-----------------------------------------------------------------------------
(* The persisted configuration.                                             *)

Going(r) == runner[r].pc # "idle"

RunnerStates ==
    [pc : {"idle", "load", "bootstrap", "change", "save"}, cmd : Requested \cup {NoCommand},
     config : Configs \cup {NoConfig}, lone : BOOLEAN]

ConfigTypes ==
    /\ roleFile \in RoleFiles /\ persisted \in Configs \cup {NoConfig}
    /\ runner \in [Runners -> RunnerStates]
    /\ \A r \in Runners : Going(r) => runner[r].cmd \in Requested
    /\ \A r \in Runners : runner[r].pc \in {"bootstrap", "change", "save"} => runner[r].config \in Configs

\* Beside a run that is alone nothing runs.
LoneInv == \A r, q \in Runners : Going(r) /\ runner[r].lone /\ Going(q) => q = r

\* What is to be kept: a run by itself, outside a project and without --config,
\* and a persisted configuration with a role.
Keeping(r) ==
    /\ Going(r) /\ runner[r].lone /\ ~runner[r].cmd.flag /\ ~runner[r].cmd.project
    /\ persisted # NoConfig /\ persisted.roles # {}

\* The copy of such a run is the persisted configuration until the command
\* changes it, and then it differs in what the command is about.
CopyInv ==
    \A r \in Runners : Keeping(r) =>
        /\ runner[r].pc # "bootstrap"
        /\ runner[r].pc = "change" => runner[r].config = persisted
        /\ runner[r].pc = "save" /\ runner[r].cmd.op \in {"select", "add"} =>
              persisted.roles \subseteq runner[r].config.roles
        /\ runner[r].pc = "save" /\ runner[r].cmd.op = "add" =>
              runner[r].config.selected = persisted.selected

ConfigInv == ConfigTypes /\ LoneInv /\ CopyInv

LEMMA ConfigInitInv == ConfigInit => ConfigInv
<1> SUFFICES ASSUME ConfigInit PROVE ConfigInv
  OBVIOUS
<1>1. Resting \in RunnerStates
  BY DEF Resting, RunnerStates
<1>2. ConfigTypes
  BY <1>1 DEF ConfigInit, ConfigTypes, Resting, Going
<1> QED BY <1>2 DEF ConfigInit, ConfigInv, LoneInv, CopyInv, Keeping, Going, Resting

LEMMA MergeIsConfig ==
    ASSUME NEW config \in Configs, NEW cmd \in Requested
    PROVE  /\ MergeProject(config, cmd) \in Configs
           /\ ~cmd.project => MergeProject(config, cmd) = config
BY ConfigAssumption DEF MergeProject, Configs

LEMMA BootstrappedIsConfig ==
    ASSUME ConfigTypes, roleFile \notin {NoFile, BadFile}
    PROVE  roleFile \in Configs /\ Bootstrapped \in Configs
BY ConfigAssumption DEF ConfigTypes, Bootstrapped, Configs

\* The record of one run is replaced.
LEMMA SetTypes ==
    ASSUME ConfigTypes, NEW r \in Runners, NEW rec \in RunnerStates, Set(r, rec),
           rec.pc \in {"bootstrap", "change", "save"} => rec.config \in Configs,
           rec.pc # "idle" => rec.cmd \in Requested,
           roleFile' = roleFile, persisted' \in Configs \cup {NoConfig}
    PROVE  ConfigTypes' /\ runner'[r] = rec /\ \A q \in Runners \ {r} : runner'[q] = runner[q]
BY DEF ConfigTypes, Set, Going

\* A busy run goes on: it stays alone, and the others have nothing to keep.
LEMMA SetGoesOn ==
    ASSUME ConfigInv, NEW r \in Runners, Going(r),
           \A q \in Runners \ {r} : runner'[q] = runner[q],
           runner'[r].lone = runner[r].lone \/ runner'[r].pc = "idle",
           persisted' = persisted \/ \A q \in Runners \ {r} : ~(Going(q) /\ runner[q].lone),
           \/ ~Keeping(r)'
           \/ /\ runner'[r].pc # "bootstrap"
              /\ runner'[r].pc = "change" => runner'[r].config = persisted'
              /\ runner'[r].pc = "save" /\ runner'[r].cmd.op \in {"select", "add"} =>
                    persisted'.roles \subseteq runner'[r].config.roles
              /\ runner'[r].pc = "save" /\ runner'[r].cmd.op = "add" =>
                    runner'[r].config.selected = persisted'.selected
    PROVE  LoneInv' /\ CopyInv'
<1>1. LoneInv'
  BY DEF ConfigInv, LoneInv, Going
<1>2. ASSUME NEW q \in Runners \ {r} PROVE ~Keeping(q)'
  <2>1. ~(Going(q) /\ runner[q].lone)
    BY DEF ConfigInv, LoneInv
  <2> QED BY <2>1 DEF Keeping, Going
<1>3. CopyInv'
  BY <1>2 DEF CopyInv
<1> QED BY <1>1, <1>3

LEMMA BeginStep ==
    ASSUME ConfigInv, NEW r \in Runners, BeginCommand(r)
    PROVE  ConfigInv'
<1>1. PICK cmd \in Requested :
        runner' = [q \in Runners |->
          IF q = r THEN [pc |-> "load", cmd |-> cmd, config |-> NoConfig, lone |-> Active = {}]
          ELSE [runner[q] EXCEPT !.lone = @ /\ q \notin Active]]
  BY DEF BeginCommand
<1>2. UNCHANGED <<roleFile, persisted>> /\ ~Going(r)
  BY DEF BeginCommand, Going
<1>3. \A q \in Runners : q \in Active <=> Going(q)
  BY DEF Active, Going
<1>4. [pc |-> "load", cmd |-> cmd, config |-> NoConfig, lone |-> Active = {}] \in RunnerStates
  BY DEF RunnerStates
<1>5. ASSUME NEW q \in Runners \ {r}
      PROVE  /\ runner'[q] \in RunnerStates
             /\ runner'[q].pc = runner[q].pc /\ runner'[q].config = runner[q].config
             /\ runner'[q].cmd = runner[q].cmd
             /\ Going(q) => ~runner'[q].lone
  BY <1>1, <1>3 DEF ConfigInv, ConfigTypes, RunnerStates
<1>6. runner'[r].pc = "load" /\ runner'[r] \in RunnerStates
      /\ runner'[r].cmd \in Requested
      /\ (runner'[r].lone => \A q \in Runners : ~Going(q))
  BY <1>1, <1>3, <1>4
<1>7. ConfigTypes'
  BY <1>1, <1>2, <1>5, <1>6 DEF ConfigInv, ConfigTypes, Going
<1>8. LoneInv'
  BY <1>5, <1>6 DEF LoneInv, Going
<1>9. CopyInv'
  BY <1>5, <1>6 DEF CopyInv, Keeping, Going
<1> QED BY <1>7, <1>8, <1>9 DEF ConfigInv

\* A command under way is one of those requested.
LEMMA RunIs ==
    ASSUME ConfigInv, NEW r \in Runners
    PROVE  /\ runner[r] \in RunnerStates
           /\ runner[r].pc # "idle" => runner[r].cmd \in Requested
           /\ runner[r].pc \in {"bootstrap", "change", "save"} => runner[r].config \in Configs
           /\ DOMAIN runner = Runners
           /\ persisted # NoConfig => persisted \in Configs
BY DEF ConfigInv, ConfigTypes, Going

\* A run ends without saving.
LEMMA EndsUnsaved ==
    ASSUME ConfigInv, NEW r \in Runners, Going(r), End(r)
    PROVE  ConfigInv'
<1>1. Resting \in RunnerStates /\ Resting.pc = "idle"
  BY DEF Resting, RunnerStates
<1>2. Set(r, Resting) /\ UNCHANGED <<roleFile, persisted>>
  BY DEF End
<1>3. persisted' \in Configs \cup {NoConfig}
  BY <1>2 DEF ConfigInv, ConfigTypes
<1>4. ConfigTypes' /\ runner'[r] = Resting /\ \A q \in Runners \ {r} : runner'[q] = runner[q]
  BY <1>1, <1>2, <1>3, SetTypes DEF ConfigInv
<1>5. ~Keeping(r)'
  BY <1>1, <1>4 DEF Keeping, Going
<1>6. LoneInv' /\ CopyInv'
  BY <1>1, <1>2, <1>4, <1>5, SetGoesOn
<1> QED BY <1>4, <1>6 DEF ConfigInv

\* A run has its copy: what it loaded, with the roles of the project.
LEMMA WithIs ==
    ASSUME ConfigInv, NEW r \in Runners, Going(r), NEW config \in Configs, With(r, config),
           roleFile' = roleFile, persisted' \in Configs \cup {NoConfig}
    PROVE  /\ ConfigTypes' /\ \A q \in Runners \ {r} : runner'[q] = runner[q]
           /\ runner'[r].pc = "change" /\ runner'[r].lone = runner[r].lone
           /\ runner'[r].cmd = runner[r].cmd
           /\ ~runner[r].cmd.project => runner'[r].config = config
<1> DEFINE merged == MergeProject(config, runner[r].cmd)
           rec == [runner[r] EXCEPT !.pc = "change", !.config = merged]
<1>1. runner[r] \in RunnerStates /\ runner[r].cmd \in Requested
  BY RunIs DEF Going
<1>2. merged \in Configs /\ (~runner[r].cmd.project => merged = config)
  BY <1>1, MergeIsConfig
<1>3. Set(r, rec)
  BY DEF With
<1> HIDE DEF merged
<1>4. /\ rec \in RunnerStates /\ rec.pc = "change" /\ rec.config = merged
      /\ rec.lone = runner[r].lone /\ rec.cmd = runner[r].cmd
  BY <1>1, <1>2 DEF RunnerStates
<1> HIDE DEF rec
<1>5. ConfigTypes' /\ runner'[r] = rec /\ \A q \in Runners \ {r} : runner'[q] = runner[q]
  BY <1>1, <1>2, <1>3, <1>4, SetTypes DEF ConfigInv
<1> QED BY <1>2, <1>4, <1>5

LEMMA LoadStep ==
    ASSUME ConfigInv, NEW r \in Runners, LoadConfig(r)
    PROVE  ConfigInv'
<1>1. Going(r) /\ runner[r].pc = "load" /\ UNCHANGED <<roleFile, persisted>>
  BY DEF LoadConfig, Going
<1>2. persisted' \in Configs \cup {NoConfig} /\ roleFile \in RoleFiles
  BY <1>1 DEF ConfigInv, ConfigTypes
<1>3. ASSUME NEW config \in Configs, With(r, config),
             runner[r].cmd.flag \/ config = persisted \/ persisted = NoConfig \/ persisted.roles = {}
      PROVE  ConfigInv'
  <2>1. /\ ConfigTypes' /\ \A q \in Runners \ {r} : runner'[q] = runner[q]
        /\ runner'[r].pc = "change" /\ runner'[r].lone = runner[r].lone
        /\ runner'[r].cmd = runner[r].cmd
        /\ ~runner[r].cmd.project => runner'[r].config = config
    BY <1>1, <1>2, <1>3, WithIs
  <2>2. Keeping(r)' => runner'[r].config = persisted'
    BY <2>1, <1>1, <1>3 DEF Keeping
  <2>3. LoneInv' /\ CopyInv'
    BY <1>1, <2>1, <2>2, SetGoesOn
  <2> QED BY <2>1, <2>3 DEF ConfigInv
<1>4. CASE runner[r].cmd.flag /\ With(r, FlagFile)
  BY <1>3, <1>4, ConfigAssumption
<1>5. CASE ~runner[r].cmd.flag /\ roleFile = NoFile
            /\ With(r, IF persisted = NoConfig THEN Embedded ELSE persisted)
  <2>1. CASE persisted = NoConfig
    BY <1>3, <1>5, <2>1, ConfigAssumption
  <2>2. CASE persisted # NoConfig
    BY <1>3, <1>5, <2>2, <1>1, <1>2
  <2> QED BY <2>1, <2>2
<1>6. CASE /\ ~runner[r].cmd.flag /\ roleFile # NoFile
           /\ IF Usable(persisted) THEN With(r, persisted)
              ELSE IF roleFile = BadFile THEN With(r, Embedded)
              ELSE Set(r, [runner[r] EXCEPT !.pc = "bootstrap", !.config = Bootstrapped])
  <2>1. CASE Usable(persisted)
    <3>1. persisted \in Configs /\ With(r, persisted)
      BY <1>1, <1>2, <1>6, <2>1 DEF Usable
    <3> QED BY <3>1, <1>3
  <2>2. CASE ~Usable(persisted) /\ roleFile = BadFile
    <3>1. Embedded \in Configs /\ With(r, Embedded) /\ (persisted = NoConfig \/ persisted.roles = {})
      BY <1>6, <2>2, ConfigAssumption DEF Usable
    <3> QED BY <3>1, <1>3
  <2>3. CASE ~Usable(persisted) /\ roleFile # BadFile
    <3> DEFINE rec == [runner[r] EXCEPT !.pc = "bootstrap", !.config = Bootstrapped]
    <3>1. Bootstrapped \in Configs
      BY <1>6, <2>3, BootstrappedIsConfig DEF ConfigInv
    <3>2. Set(r, rec)
      BY <1>6, <2>3
    <3>3. runner[r] \in RunnerStates /\ runner[r].cmd \in Requested
      BY <1>1, RunIs
    <3>4. /\ rec \in RunnerStates /\ rec.pc = "bootstrap" /\ rec.config = Bootstrapped
          /\ rec.lone = runner[r].lone /\ rec.cmd = runner[r].cmd
      BY <3>1, <3>3 DEF RunnerStates
    <3> HIDE DEF rec
    <3>5. ConfigTypes' /\ runner'[r] = rec /\ \A q \in Runners \ {r} : runner'[q] = runner[q]
      BY <1>1, <1>2, <3>1, <3>2, <3>3, <3>4, SetTypes DEF ConfigInv
    <3>6. ~Keeping(r)'
      BY <2>3, <1>1 DEF Keeping, Usable
    <3>7. LoneInv' /\ CopyInv'
      BY <1>1, <3>4, <3>5, <3>6, SetGoesOn
    <3> QED BY <3>5, <3>7 DEF ConfigInv
  <2> QED BY <2>1, <2>2, <2>3
<1> QED BY <1>4, <1>5, <1>6 DEF LoadConfig

\* A bootstrap is saved where nothing with a role was.
LEMMA BootstrapStep ==
    ASSUME ConfigInv, NEW r \in Runners, SaveBootstrap(r)
    PROVE  ConfigInv'
<1>1. /\ Going(r) /\ runner[r].pc = "bootstrap" /\ roleFile' = roleFile
      /\ persisted' = persisted \/ persisted' = runner[r].config
      /\ With(r, runner[r].config)
  BY DEF SaveBootstrap, Going
<1>2. runner[r].config \in Configs
  BY <1>1, RunIs
<1>3. persisted' \in Configs \cup {NoConfig}
  BY <1>1, <1>2 DEF ConfigInv, ConfigTypes
<1>4. /\ ConfigTypes' /\ \A q \in Runners \ {r} : runner'[q] = runner[q]
      /\ runner'[r].pc = "change" /\ runner'[r].lone = runner[r].lone
      /\ runner'[r].cmd = runner[r].cmd
      /\ ~runner[r].cmd.project => runner'[r].config = runner[r].config
  BY <1>1, <1>2, <1>3, WithIs
<1>5. Keeping(r)' => runner'[r].config = persisted'
  <2>1. ~Keeping(r)
    BY <1>1 DEF ConfigInv, CopyInv
  <2>2. Keeping(r)' => persisted' # persisted
    BY <2>1, <1>1, <1>4 DEF Keeping
  <2> QED BY <2>2, <1>1, <1>4 DEF Keeping
<1>6. LoneInv' /\ CopyInv'
  <2>1. CASE persisted' = persisted
    BY <1>1, <1>4, <1>5, <2>1, SetGoesOn
  <2>2. CASE \A q \in Runners \ {r} : ~(Going(q) /\ runner[q].lone)
    BY <1>1, <1>4, <1>5, <2>2, SetGoesOn
  <2>3. \A q \in Runners \ {r} : ~(Going(q) /\ runner[q].lone)
    BY <1>1 DEF ConfigInv, LoneInv
  <2> QED BY <2>2, <2>3
<1> QED BY <1>4, <1>6 DEF ConfigInv

\* The command has changed the copy and saves it next.
LEMMA ToSaveIs ==
    ASSUME ConfigInv, NEW r \in Runners, runner[r].pc = "change", NEW config \in Configs,
           ToSave(r, config),
           Keeping(r) =>
              /\ runner[r].cmd.op \in {"select", "add"} => persisted.roles \subseteq config.roles
              /\ runner[r].cmd.op = "add" => config.selected = persisted.selected
    PROVE  ConfigInv'
<1> DEFINE rec == [runner[r] EXCEPT !.pc = "save", !.config = config]
<1>1. Going(r) /\ Set(r, rec) /\ UNCHANGED <<roleFile, persisted>>
  BY DEF ToSave, Going
<1>2. runner[r] \in RunnerStates /\ runner[r].cmd \in Requested
  BY RunIs
<1>3. /\ rec \in RunnerStates /\ rec.pc = "save" /\ rec.config = config
      /\ rec.lone = runner[r].lone /\ rec.cmd = runner[r].cmd
  BY <1>2 DEF RunnerStates
<1> HIDE DEF rec
<1>4. persisted' \in Configs \cup {NoConfig}
  BY <1>1 DEF ConfigInv, ConfigTypes
<1>5. ConfigTypes' /\ runner'[r] = rec /\ \A q \in Runners \ {r} : runner'[q] = runner[q]
  BY <1>1, <1>2, <1>3, <1>4, SetTypes DEF ConfigInv
<1>6. Keeping(r)' <=> Keeping(r)
  BY <1>1, <1>3, <1>5 DEF Keeping, Going
<1>7. LoneInv' /\ CopyInv'
  BY <1>1, <1>3, <1>5, <1>6, SetGoesOn
<1> QED BY <1>5, <1>7 DEF ConfigInv

\* The copy of a run that is to keep the persisted configuration is that.
LEMMA ChangeStarts ==
    ASSUME ConfigInv, NEW r \in Runners, runner[r].pc = "change"
    PROVE  /\ Going(r) /\ runner[r].config \in Configs /\ runner[r].cmd \in Requested
           /\ Keeping(r) => runner[r].config = persisted
BY RunIs DEF ConfigInv, CopyInv, Going

LEMMA SelectStep ==
    ASSUME ConfigInv, NEW r \in Runners, SelectRole(r)
    PROVE  ConfigInv'
<1> DEFINE config == runner[r].config
           role == runner[r].cmd.role
<1>1. /\ runner[r].pc = "change" /\ runner[r].cmd.op = "select"
      /\ IF role \in config.roles THEN ToSave(r, [config EXCEPT !.selected = role]) ELSE End(r)
  BY DEF SelectRole
<1>2. Going(r) /\ config \in Configs /\ (Keeping(r) => config = persisted)
  BY <1>1, ChangeStarts
<1>3. CASE role \in config.roles
  <2>1. /\ [config EXCEPT !.selected = role] \in Configs
        /\ [config EXCEPT !.selected = role].roles = config.roles
    BY <1>2, <1>3 DEF Configs
  <2> QED BY <1>1, <1>2, <1>3, <2>1, ToSaveIs
<1>4. CASE role \notin config.roles
  BY <1>1, <1>2, <1>4, EndsUnsaved
<1> QED BY <1>3, <1>4

LEMMA AddRoleStep ==
    ASSUME ConfigInv, NEW r \in Runners, AddRole(r)
    PROVE  ConfigInv'
<1> DEFINE config == runner[r].config
           role == runner[r].cmd.role
           changed == [config EXCEPT !.roles = @ \cup {role}]
<1>1. /\ runner[r].pc = "change" /\ runner[r].cmd.op = "add" /\ ToSave(r, changed)
  BY DEF AddRole
<1>2. /\ config \in Configs /\ (Keeping(r) => config = persisted)
      /\ runner[r].cmd \in Requested
  BY <1>1, ChangeStarts
<1>3. role \in STRING
  BY <1>1, <1>2, ConfigAssumption DEF Requested
<1>4. changed \in Configs /\ changed.roles = config.roles \cup {role}
      /\ changed.selected = config.selected
  BY <1>2, <1>3 DEF Configs
<1> HIDE DEF changed
<1> QED BY <1>1, <1>2, <1>4, ToSaveIs

LEMMA SetRoleStep ==
    ASSUME ConfigInv, NEW r \in Runners, SetRole(r)
    PROVE  ConfigInv'
<1> DEFINE role == runner[r].cmd.role
<1>1. /\ runner[r].pc = "change" /\ runner[r].cmd.op = "set"
      /\ ToSave(r, [roles |-> {role}, selected |-> role])
  BY DEF SetRole
<1>2. role \in STRING
  BY <1>1, ChangeStarts, ConfigAssumption DEF Requested
<1>3. [roles |-> {role}, selected |-> role] \in Configs
  BY <1>2 DEF Configs
<1> QED BY <1>1, <1>3, ToSaveIs

LEMMA ReloadConfigStep ==
    ASSUME ConfigInv, NEW r \in Runners, Reload(r)
    PROVE  ConfigInv'
<1>1. /\ runner[r].pc = "change" /\ runner[r].cmd.op = "reload"
      /\ IF roleFile \in {NoFile, BadFile} THEN End(r) ELSE ToSave(r, roleFile)
  BY DEF Reload
<1>2. CASE roleFile \in {NoFile, BadFile}
  BY <1>1, <1>2, ChangeStarts, EndsUnsaved
<1>3. CASE roleFile \notin {NoFile, BadFile}
  <2>1. roleFile \in Configs
    BY <1>3, BootstrappedIsConfig DEF ConfigInv
  <2> QED BY <1>1, <1>3, <2>1, ToSaveIs
<1> QED BY <1>2, <1>3

LEMMA SaveConfigStep ==
    ASSUME ConfigInv, NEW r \in Runners, SaveConfig(r)
    PROVE  ConfigInv'
<1>1. /\ Going(r) /\ runner[r].pc = "save" /\ roleFile' = roleFile /\ Set(r, Resting)
      /\ persisted' = persisted \/ persisted' = runner[r].config
  BY DEF SaveConfig, Going
<1>2. Resting \in RunnerStates /\ Resting.pc = "idle"
  BY DEF Resting, RunnerStates
<1>3. persisted' \in Configs \cup {NoConfig}
  BY <1>1, RunIs DEF ConfigInv, ConfigTypes
<1>4. ConfigTypes' /\ runner'[r] = Resting /\ \A q \in Runners \ {r} : runner'[q] = runner[q]
  BY <1>1, <1>2, <1>3, SetTypes DEF ConfigInv
<1>5. ~Keeping(r)'
  BY <1>2, <1>4 DEF Keeping, Going
<1>6. \A q \in Runners \ {r} : ~(Going(q) /\ runner[q].lone)
  BY <1>1 DEF ConfigInv, LoneInv
<1>7. LoneInv' /\ CopyInv'
  BY <1>1, <1>2, <1>4, <1>5, <1>6, SetGoesOn
<1> QED BY <1>4, <1>7 DEF ConfigInv

LEMMA ConfigStep == ConfigInv /\ [ConfigNext]_configVars => ConfigInv'
<1> SUFFICES ASSUME ConfigInv, [ConfigNext]_configVars PROVE ConfigInv'
  OBVIOUS
<1>1. CASE UNCHANGED configVars
  BY <1>1 DEF ConfigInv, ConfigTypes, LoneInv, CopyInv, Keeping, Going, configVars
<1>2. ASSUME NEW r \in Runners, Show(r) PROVE ConfigInv'
  BY <1>2, ChangeStarts, EndsUnsaved DEF Show
<1>3. CASE ConfigNext
  BY <1>2, <1>3, BeginStep, LoadStep, BootstrapStep, SelectStep, AddRoleStep, SetRoleStep,
     ReloadConfigStep, SaveConfigStep DEF ConfigNext
<1> QED BY <1>1, <1>3

\* service.rs: what earlier runs saved survives a run that is by itself, outside
\* a project and without --config, but for what its command replaces, whatever
\* the files hold and however many runs overlapped before.
THEOREM ChangesAreKept == ConfigSpec => RuntimeChangesKept
<1> DEFINE KeptBy(r) ==
             /\ Writes(r) /\ runner[r].lone /\ ~runner[r].cmd.flag /\ ~runner[r].cmd.project
             /\ persisted # NoConfig /\ persisted.roles # {}
             => /\ runner[r].pc = "save"
                /\ runner[r].cmd.op \in {"select", "add"} => persisted.roles \subseteq persisted'.roles
                /\ runner[r].cmd.op = "add" => persisted'.selected = persisted.selected
<1>1. ConfigInv /\ [ConfigNext]_configVars => [\A r \in Runners : KeptBy(r)]_configVars
  <2> SUFFICES ASSUME ConfigInv, ConfigNext, NEW r \in Runners, Writes(r), runner[r].lone,
                      ~runner[r].cmd.flag, ~runner[r].cmd.project,
                      persisted # NoConfig, persisted.roles # {}
               PROVE  /\ runner[r].pc = "save"
                      /\ runner[r].cmd.op \in {"select", "add"} =>
                            persisted.roles \subseteq persisted'.roles
                      /\ runner[r].cmd.op = "add" => persisted'.selected = persisted.selected
    OBVIOUS
  <2>1. Keeping(r) /\ runner[r].pc = "save"
    BY DEF Keeping, Going, Writes, ConfigInv, CopyInv
  <2>2. \A q \in Runners : Going(q) => q = r
    BY <2>1 DEF Keeping, ConfigInv, LoneInv
  <2>3. persisted' = runner[r].config
    BY <2>1, <2>2 DEF ConfigNext, BeginCommand, LoadConfig, SaveBootstrap, SelectRole, AddRole, SetRole,
       Reload, Show, SaveConfig, End, ToSave, Writes, Going
  <2> QED BY <2>1, <2>3 DEF ConfigInv, CopyInv
<1> QED BY <1>1, ConfigInitInv, ConfigStep, PTL DEF ConfigSpec, RuntimeChangesKept

\* A configuration selects a role it has.
SelectsOwn(config) == config.selected \in config.roles

\* What the files say, and the embedded defaults: each selects a role of its own.  The
\* project's file may select none.
FilesSelectOwn ==
    /\ SelectsOwn(Embedded) /\ SelectsOwn(FlagFile)
    /\ \A f \in RoleFiles \ {NoFile, BadFile} : SelectsOwn(f)
    /\ Project.selected \in Project.roles \cup {NoRole}

\* Every copy that may be saved selects a role it has, and a run at rest has no command.
OwnInv ==
    /\ persisted # NoConfig => SelectsOwn(persisted)
    /\ \A r \in Runners :
         /\ runner[r].pc \in {"bootstrap", "change", "save"} => SelectsOwn(runner[r].config)
         /\ runner[r].pc = "idle" => runner[r].cmd = NoCommand
    /\ issued \in 0..MaxCommands

LEMMA MergeSelectsOwn ==
    ASSUME FilesSelectOwn, NEW config \in Configs, SelectsOwn(config), NEW cmd \in Requested
    PROVE  SelectsOwn(MergeProject(config, cmd))
BY DEF FilesSelectOwn, SelectsOwn, MergeProject

LEMMA RoleFileSelectsOwn ==
    ASSUME FilesSelectOwn, ConfigInv, roleFile \notin {NoFile, BadFile}
    PROVE  roleFile \in Configs /\ SelectsOwn(roleFile) /\ SelectsOwn(Bootstrapped)
<1>1. roleFile \in RoleFiles /\ roleFile \in Configs
  BY BootstrappedIsConfig DEF ConfigInv, ConfigTypes
<1>2. SelectsOwn(roleFile)
  BY <1>1 DEF FilesSelectOwn
<1> QED BY <1>1, <1>2 DEF SelectsOwn, Bootstrapped, Configs

\* One run's record is replaced by one that selects its own; the saved copy does too.
LEMMA SetKeepsOwn ==
    ASSUME ConfigInv, OwnInv, NEW r \in Runners, NEW rec, Set(r, rec),
           rec.pc \in {"bootstrap", "change", "save"} => SelectsOwn(rec.config),
           rec.pc = "idle" => rec.cmd = NoCommand,
           persisted' = persisted \/ SelectsOwn(persisted'), issued' = issued
    PROVE  OwnInv'
<1>1. runner'[r] = rec /\ \A q \in Runners \ {r} : runner'[q] = runner[q]
  BY DEF Set, ConfigInv, ConfigTypes
<1>2. persisted' # NoConfig => SelectsOwn(persisted')
  BY DEF OwnInv
<1>3. \A q \in Runners :
        /\ runner'[q].pc \in {"bootstrap", "change", "save"} => SelectsOwn(runner'[q].config)
        /\ runner'[q].pc = "idle" => runner'[q].cmd = NoCommand
  BY <1>1 DEF OwnInv
<1>4. issued' \in 0..MaxCommands
  BY DEF OwnInv
<1> QED BY <1>2, <1>3, <1>4 DEF OwnInv

LEMMA RestKeepsOwn ==
    ASSUME ConfigInv, OwnInv, NEW r \in Runners, Set(r, Resting),
           persisted' = persisted \/ SelectsOwn(persisted'), issued' = issued
    PROVE  OwnInv'
BY SetKeepsOwn DEF Resting

LEMMA WithKeepsOwn ==
    ASSUME FilesSelectOwn, ConfigInv, OwnInv, NEW r \in Runners, runner[r].pc # "idle",
           NEW config \in Configs, SelectsOwn(config), With(r, config),
           persisted' = persisted \/ SelectsOwn(persisted'), issued' = issued
    PROVE  OwnInv'
<1> DEFINE merged == MergeProject(config, runner[r].cmd)
           rec == [runner[r] EXCEPT !.pc = "change", !.config = merged]
<1>1. runner[r] \in RunnerStates /\ SelectsOwn(merged)
  BY RunIs, MergeSelectsOwn
<1>2. Set(r, rec)
  BY DEF With
<1> HIDE DEF merged
<1>3. rec.pc = "change" /\ rec.config = merged
  BY <1>1 DEF RunnerStates
<1> HIDE DEF rec
<1> QED BY <1>1, <1>2, <1>3, SetKeepsOwn

LEMMA ToSaveKeepsOwn ==
    ASSUME ConfigInv, OwnInv, NEW r \in Runners, NEW config, SelectsOwn(config), ToSave(r, config)
    PROVE  OwnInv'
<1> DEFINE rec == [runner[r] EXCEPT !.pc = "save", !.config = config]
<1>1. runner[r] \in RunnerStates /\ Set(r, rec) /\ UNCHANGED <<persisted, issued>>
  BY RunIs DEF ToSave
<1>2. rec.pc = "save" /\ rec.config = config
  BY <1>1 DEF RunnerStates
<1> HIDE DEF rec
<1> QED BY <1>1, <1>2, SetKeepsOwn

LEMMA BeginOwn ==
    ASSUME ConfigInv, OwnInv, NEW r \in Runners, BeginCommand(r)
    PROVE  OwnInv'
<1>1. PICK cmd \in Requested :
        runner' = [q \in Runners |->
          IF q = r THEN [pc |-> "load", cmd |-> cmd, config |-> NoConfig, lone |-> Active = {}]
          ELSE [runner[q] EXCEPT !.lone = @ /\ q \notin Active]]
  BY DEF BeginCommand
<1>2. issued < MaxCommands /\ issued' = issued + 1 /\ persisted' = persisted
  BY DEF BeginCommand
<1>3. ASSUME NEW q \in Runners
      PROVE  /\ runner'[q].pc \in {"bootstrap", "change", "save"} => SelectsOwn(runner'[q].config)
             /\ runner'[q].pc = "idle" => runner'[q].cmd = NoCommand
  <2>1. CASE q = r
    BY <1>1, <2>1
  <2>2. CASE q # r
    <3>1. runner[q] \in RunnerStates /\ runner'[q] = [runner[q] EXCEPT !.lone = @ /\ q \notin Active]
      BY <1>1, <2>2, RunIs
    <3>2. runner'[q].pc = runner[q].pc /\ runner'[q].cmd = runner[q].cmd
          /\ runner'[q].config = runner[q].config
      BY <3>1 DEF RunnerStates
    <3> QED BY <3>2 DEF OwnInv
  <2> QED BY <2>1, <2>2
<1>4. issued' \in 0..MaxCommands
  BY <1>2, ConfigAssumption DEF OwnInv
<1> QED BY <1>2, <1>3, <1>4 DEF OwnInv

LEMMA LoadOwn ==
    ASSUME FilesSelectOwn, ConfigInv, OwnInv, NEW r \in Runners, LoadConfig(r)
    PROVE  OwnInv'
<1>1. runner[r].pc = "load" /\ UNCHANGED <<roleFile, persisted, issued>>
  BY DEF LoadConfig
<1>2. /\ FlagFile \in Configs /\ SelectsOwn(FlagFile) /\ Embedded \in Configs /\ SelectsOwn(Embedded)
      /\ persisted # NoConfig => persisted \in Configs /\ SelectsOwn(persisted)
  BY RunIs, ConfigAssumption DEF FilesSelectOwn, OwnInv
<1>3. ASSUME NEW config \in Configs, SelectsOwn(config), With(r, config) PROVE OwnInv'
  BY <1>1, <1>3, WithKeepsOwn
<1>4. CASE With(r, FlagFile) \/ With(r, Embedded) \/ (persisted # NoConfig /\ With(r, persisted))
  BY <1>2, <1>3, <1>4
<1>5. CASE /\ roleFile \notin {NoFile, BadFile}
           /\ Set(r, [runner[r] EXCEPT !.pc = "bootstrap", !.config = Bootstrapped])
  <2> DEFINE rec == [runner[r] EXCEPT !.pc = "bootstrap", !.config = Bootstrapped]
  <2>1. SelectsOwn(Bootstrapped) /\ runner[r] \in RunnerStates /\ Set(r, rec)
    BY <1>5, RoleFileSelectsOwn, RunIs
  <2>2. rec.pc = "bootstrap" /\ rec.config = Bootstrapped
    BY <2>1 DEF RunnerStates
  <2> HIDE DEF rec
  <2> QED BY <1>1, <2>1, <2>2, SetKeepsOwn
<1> QED BY <1>4, <1>5 DEF LoadConfig, Usable

LEMMA SaveOwn ==
    ASSUME FilesSelectOwn, ConfigInv, OwnInv, NEW r \in Runners, SaveBootstrap(r) \/ SaveConfig(r)
    PROVE  OwnInv'
<1>1. /\ runner[r].config \in Configs /\ SelectsOwn(runner[r].config) /\ runner[r].pc # "idle"
      /\ persisted' = persisted \/ persisted' = runner[r].config
      /\ issued' = issued
  BY RunIs DEF SaveBootstrap, SaveConfig, OwnInv
<1>2. CASE SaveBootstrap(r)
  BY <1>1, <1>2, WithKeepsOwn DEF SaveBootstrap
<1>3. CASE SaveConfig(r)
  BY <1>1, <1>3, RestKeepsOwn DEF SaveConfig
<1> QED BY <1>2, <1>3

LEMMA ChangeOwn ==
    ASSUME FilesSelectOwn, ConfigInv, OwnInv, NEW r \in Runners,
           SelectRole(r) \/ AddRole(r) \/ SetRole(r) \/ Reload(r) \/ Show(r)
    PROVE  OwnInv'
<1> DEFINE config == runner[r].config
           role == runner[r].cmd.role
<1>1. runner[r].pc = "change" /\ config \in Configs /\ SelectsOwn(config)
  BY RunIs DEF SelectRole, AddRole, SetRole, Reload, Show, OwnInv
<1>2. ASSUME End(r) PROVE OwnInv'
  BY <1>2, RestKeepsOwn DEF End
<1>3. CASE SelectRole(r)
  <2>1. ASSUME role \in config.roles PROVE SelectsOwn([config EXCEPT !.selected = role])
    BY <1>1, <2>1 DEF Configs, SelectsOwn
  <2> QED BY <1>2, <1>3, <2>1, ToSaveKeepsOwn DEF SelectRole
<1>4. CASE AddRole(r)
  <2>1. SelectsOwn([config EXCEPT !.roles = @ \cup {role}])
    BY <1>1 DEF Configs, SelectsOwn
  <2> QED BY <1>4, <2>1, ToSaveKeepsOwn DEF AddRole
<1>5. CASE SetRole(r)
  <2>1. SelectsOwn([roles |-> {role}, selected |-> role])
    BY DEF SelectsOwn
  <2> QED BY <1>5, <2>1, ToSaveKeepsOwn DEF SetRole
<1>6. CASE Reload(r)
  BY <1>2, <1>6, RoleFileSelectsOwn, ToSaveKeepsOwn DEF Reload
<1>7. CASE Show(r)
  BY <1>2, <1>7 DEF Show
<1> QED BY <1>3, <1>4, <1>5, <1>6, <1>7

LEMMA OwnStep ==
    ASSUME FilesSelectOwn
    PROVE  ConfigInv /\ OwnInv /\ [ConfigNext]_configVars => OwnInv'
<1> SUFFICES ASSUME ConfigInv, OwnInv, [ConfigNext]_configVars PROVE OwnInv'
  OBVIOUS
<1>1. CASE UNCHANGED configVars
  BY <1>1 DEF OwnInv, configVars
<1>2. CASE ConfigNext
  BY <1>2, BeginOwn, LoadOwn, SaveOwn, ChangeOwn DEF ConfigNext
<1> QED BY <1>1, <1>2

\* service.rs: as long as no file selects a role it does not have, the persisted configuration
\* selects one it has: whatever project a run is in, whichever runs overlap and whose save
\* comes last.
THEOREM ConfigTypeCorrect ==
    ASSUME FilesSelectOwn
    PROVE  ConfigSpec => []ConfigTypeOK
<1>1. ConfigInit => OwnInv
  BY ConfigAssumption DEF ConfigInit, OwnInv, Resting
<1>2. ConfigInv /\ OwnInv => ConfigTypeOK
  <2> SUFFICES ASSUME ConfigInv, OwnInv PROVE ConfigTypeOK
    OBVIOUS
  <2>1. ASSUME NEW r \in Runners
        PROVE  /\ runner[r].pc \in {"idle", "load", "bootstrap", "change", "save"}
               /\ runner[r].pc = "idle" <=> runner[r].cmd = NoCommand
               /\ runner[r].pc \in {"bootstrap", "change", "save"} => runner[r].config # NoConfig
    BY RunIs, ConfigAssumption DEF RunnerStates, OwnInv
  <2> QED BY <2>1 DEF ConfigTypeOK, OwnInv, SelectsOwn
<1> QED BY <1>1, <1>2, ConfigInitInv, ConfigStep, OwnStep, PTL DEF ConfigSpec

-----------------------------------------------------------------------------
(* The procedures: reading and changing the lines of a file.                *)

Lines == Procedure \cup {TornLine}

\* How many of the places in I come before place i, and i itself.
Rank(I, i) == Cardinality({j \in I : j < i}) + 1

LEMMA RankIs ==
    ASSUME NEW n \in Nat, NEW I \in SUBSET (1..n)
    PROVE  /\ Cardinality(I) \in Nat
           /\ \A i \in I : Rank(I, i) \in 1..Cardinality(I)
           /\ \A i, k \in I : i < k => Rank(I, i) < Rank(I, k)
           /\ \A m \in 1..Cardinality(I) : \E i \in I : Rank(I, i) = m
<1>1. IsFiniteSet(I) /\ Cardinality(I) \in Nat
  <2>1. IsFiniteSet(1..n)
    BY FS_Interval
  <2>2. IsFiniteSet(I)
    BY <2>1, FS_Subset
  <2> QED BY <2>2, FS_CardinalityType
<1>2. ASSUME NEW i \in I PROVE Rank(I, i) \in 1..Cardinality(I)
  <2> DEFINE B == {j \in I : j < i}
  <2>1. B \in SUBSET I /\ B # I
    <3>1. ~ (i < i)
      OBVIOUS
    <3> QED BY <3>1
  <2> HIDE DEF B
  <2>2. IsFiniteSet(B) /\ Cardinality(B) <= Cardinality(I) /\ Cardinality(B) # Cardinality(I)
    BY <1>1, <2>1, FS_Subset
  <2>3. Cardinality(B) \in Nat
    BY <2>2, FS_CardinalityType
  <2>4. Cardinality(B) + 1 \in 1..Cardinality(I)
    BY <1>1, <2>2, <2>3
  <2> QED BY <2>4 DEF B, Rank
<1>3. ASSUME NEW i \in I, NEW k \in I, i < k PROVE Rank(I, i) < Rank(I, k)
  <2> DEFINE A == {j \in I : j < i}
             B == {j \in I : j < k}
  <2>1. A \in SUBSET B /\ B \in SUBSET I /\ i \in B /\ i \notin A
    <3>1. \A j \in I : j \in Int
      OBVIOUS
    <3>2. i \in Int /\ k \in Int /\ ~ (i < i)
      BY <3>1
    <3>3. \A j \in I : j < i => j < k
      BY <1>3, <3>1, <3>2
    <3> QED BY <1>3, <3>2, <3>3
  <2> HIDE DEF A, B
  <2>2. IsFiniteSet(B) /\ IsFiniteSet(A)
    BY <1>1, <2>1, FS_Subset
  <2>3. Cardinality(A) <= Cardinality(B) /\ Cardinality(A) # Cardinality(B)
    BY <2>1, <2>2, FS_Subset
  <2>4. Cardinality(A) \in Nat /\ Cardinality(B) \in Nat
    BY <2>2, FS_CardinalityType
  <2>5. Cardinality(A) + 1 < Cardinality(B) + 1
    BY <2>3, <2>4
  <2> QED BY <2>5 DEF A, B, Rank
<1>4. \A m \in 1..Cardinality(I) : \E i \in I : Rank(I, i) = m
  <2> DEFINE T == 1..Cardinality(I)
             f == [i \in I |-> Rank(I, i)]
  <2>1. f \in [I -> T]
    BY <1>2
  <2>2. \A i, k \in I : f[i] = f[k] => i = k
    <3> SUFFICES ASSUME NEW i \in I, NEW k \in I, i # k PROVE f[i] # f[k]
      OBVIOUS
    <3>1. f[i] < f[k] \/ f[k] < f[i]
      BY <1>3
    <3>2. f[i] \in Int /\ f[k] \in Int
      BY <2>1
    <3> QED BY <3>1, <3>2
  <2>3. IsFiniteSet(T) /\ Cardinality(T) = Cardinality(I)
    BY <1>1, FS_Interval
  <2>4. \A m \in T : \E i \in I : f[i] = m
    <3> HIDE DEF f, T
    <3>1. f \in Injection(I, T)
      BY <2>1, <2>2 DEF Injection, IsInjective
    <3>2. f \in Surjection(I, T)
      BY <2>3, <3>1, FS_Injection
    <3> QED BY <3>2 DEF Surjection
  <2> QED BY <2>4
<1> QED BY <1>1, <1>2, <1>3, <1>4

\* The elements picked of a sequence are those of the places picked, in their order.
LEMMA PickedIs ==
    ASSUME NEW S, NEW s \in Seq(S), NEW I \in SUBSET (1..Len(s))
    PROVE  /\ Picked(s, I) \in Seq(S) /\ Len(Picked(s, I)) = Cardinality(I)
           /\ Cardinality(I) \in Nat
           /\ \A i \in I : Picked(s, I)[Rank(I, i)] = s[i]
<1> DEFINE C == Cardinality(I)
<1>1. Len(s) \in Nat /\ I \in SUBSET (1..Len(s))
  OBVIOUS
<1>2. /\ C \in Nat
      /\ \A i \in I : Rank(I, i) \in 1..C
      /\ \A i, k \in I : i < k => Rank(I, i) < Rank(I, k)
      /\ \A m \in 1..C : \E i \in I : Rank(I, i) = m
  BY <1>1, RankIs
<1>3. \A i \in I : i \in Int /\ s[i] \in S
  OBVIOUS
<1>4. \A i, k \in I : Rank(I, i) = Rank(I, k) => i = k
  <2> SUFFICES ASSUME NEW i \in I, NEW k \in I, i # k PROVE Rank(I, i) # Rank(I, k)
    OBVIOUS
  <2>1. Rank(I, i) < Rank(I, k) \/ Rank(I, k) < Rank(I, i)
    BY <1>2, <1>3
  <2>2. Rank(I, i) \in Int /\ Rank(I, k) \in Int
    BY <1>2
  <2> QED BY <2>1, <2>2
<1>5. \A i \in I : Cardinality({j \in I : j < i}) \in Nat
  <2> TAKE i \in I
  <2>1. IsFiniteSet(I)
    <3>1. IsFiniteSet(1..Len(s))
      BY <1>1, FS_Interval
    <3> QED BY <3>1, FS_Subset
  <2>2. {j \in I : j < i} \in SUBSET I
    OBVIOUS
  <2> QED BY <2>1, <2>2, FS_Subset, FS_CardinalityType
<1>6. \A m \in 1..C, i \in I : Cardinality({j \in I : j < i}) = m - 1 <=> Rank(I, i) = m
  <2> TAKE m \in 1..C, i \in I
  <2> DEFINE card == Cardinality({j \in I : j < i})
  <2>1. card \in Nat /\ Rank(I, i) = card + 1 /\ m \in Nat
    BY <1>2, <1>5 DEF Rank
  <2> HIDE DEF card
  <2>2. card = m - 1 <=> Rank(I, i) = m
    BY <2>1
  <2> QED BY <2>2 DEF card
<1>7. ASSUME NEW i \in I PROVE Picked(s, I)[Rank(I, i)] = s[i]
  <2> DEFINE m == Rank(I, i)
             chosen == CHOOSE k \in I : Cardinality({j \in I : j < k}) = m - 1
  <2>1. m \in 1..C
    BY <1>2
  <2>2. chosen \in I /\ Cardinality({j \in I : j < chosen}) = m - 1
    <3>1. Cardinality({j \in I : j < i}) = m - 1
      BY <1>6, <2>1
    <3> QED BY <3>1
  <2>3. Picked(s, I)[m] = s[chosen]
    BY <2>1 DEF Picked
  <2> HIDE DEF chosen
  <2>4. Rank(I, chosen) = m
    BY <1>6, <2>1, <2>2
  <2>5. chosen = i
    BY <1>4, <2>2, <2>4
  <2> QED BY <2>3, <2>5
<1>8. Picked(s, I) \in [1..C -> S]
  <2>1. \A m \in 1..C : Picked(s, I)[m] \in S
    BY <1>2, <1>3, <1>7
  <2>2. Picked(s, I) = [m \in 1..C |-> Picked(s, I)[m]]
    BY DEF Picked
  <2> QED BY <2>1, <2>2
<1>9. Picked(s, I) \in Seq(S) /\ Len(Picked(s, I)) = C
  <2> DEFINE p == Picked(s, I)
  <2> HIDE DEF p, C
  <2>1. p \in [1..C -> S] /\ C \in Nat
    BY <1>2, <1>8 DEF p
  <2>2. p \in Seq(S) /\ Len(p) = C
    BY <2>1
  <2> QED BY <2>2 DEF p
<1> QED BY <1>2, <1>7, <1>9

\* The first line of f that bears the id.
FirstAt(f, id, i) ==
    i \in Parsed(f) /\ f[i].id = id /\ \A j \in Parsed(f) : f[j].id = id => i <= j

LEMMA ParsedIs ==
    ASSUME NEW f \in Seq(Lines)
    PROVE  /\ Parsed(f) \in SUBSET (1..Len(f)) /\ Len(f) \in Nat
           /\ \A i \in Parsed(f) : f[i] \in Procedure /\ f[i] # TornLine /\ i \in Nat
           /\ \A i \in 1..Len(f) : f[i] \in Procedure => i \in Parsed(f)
<1>1. \A i \in 1..Len(f) : f[i] \in Procedure \cup {TornLine}
  BY DEF Lines
<1>2. DOMAIN f = 1..Len(f) /\ Len(f) \in Nat
  OBVIOUS
<1> QED BY <1>1, <1>2, ProcAssumption DEF Parsed

LEMMA FirstExists ==
    ASSUME NEW f \in Seq(Lines), NEW k \in Parsed(f)
    PROVE  \E i : FirstAt(f, f[k].id, i)
<1> DEFINE I == {i \in Parsed(f) : f[i].id = f[k].id}
<1>1. I \subseteq Nat /\ k \in I
  BY ParsedIs
<1>2. PICK i \in I : \A j \in I : ~ (<<j, i>> \in OpToRel(<, Nat))
  BY <1>1, NatLessThanWellFounded, WFMin
<1>3. \A j \in I : ~ (j < i)
  BY <1>1, <1>2 DEF OpToRel
<1>4. \A j \in I : i <= j
  BY <1>1, <1>3
<1> QED BY <1>4 DEF FirstAt

LEMMA FirstIsOne ==
    ASSUME NEW f \in Seq(Lines), NEW id, NEW i, NEW k, FirstAt(f, id, i), FirstAt(f, id, k)
    PROVE  i = k
<1>1. i \in Nat /\ k \in Nat /\ i <= k /\ k <= i
  BY ParsedIs DEF FirstAt
<1> QED BY <1>1

LEMMA ByIdIs ==
    ASSUME NEW f \in Seq(Lines)
    PROVE  /\ DOMAIN ById(f) = {f[i].id : i \in Parsed(f)}
           /\ ById(f) = [id \in DOMAIN ById(f) |-> ById(f)[id]]
           /\ \A id, i : FirstAt(f, id, i) => id \in DOMAIN ById(f) /\ ById(f)[id] = f[i]
           /\ \A id \in DOMAIN ById(f) : \E i : FirstAt(f, id, i)
<1>1. DOMAIN ById(f) = {f[i].id : i \in Parsed(f)}
  BY DEF ById
<1>2. ById(f) = [id \in DOMAIN ById(f) |-> ById(f)[id]]
  BY DEF ById
<1>3. ASSUME NEW id, NEW i, FirstAt(f, id, i) PROVE id \in DOMAIN ById(f) /\ ById(f)[id] = f[i]
  <2> DEFINE k == CHOOSE n \in Parsed(f) : f[n].id = id /\ \A j \in Parsed(f) : f[j].id = id => n <= j
  <2>1. FirstAt(f, id, k)
    BY <1>3 DEF FirstAt
  <2>2. id \in {f[n].id : n \in Parsed(f)}
    BY <1>3 DEF FirstAt
  <2>3. ById(f)[id] = f[k]
    BY <2>2 DEF ById
  <2> HIDE DEF k
  <2>4. k = i
    BY <1>3, <2>1, FirstIsOne
  <2> QED BY <1>1, <2>2, <2>3, <2>4
<1>4. \A id \in DOMAIN ById(f) : \E i : FirstAt(f, id, i)
  BY <1>1, FirstExists
<1> QED BY <1>1, <1>2, <1>3, <1>4

\* What is said by id is that of the first line with the id.
LEMMA FirstIsSaid ==
    ASSUME NEW f \in Seq(Lines), NEW id, NEW i, FirstAt(f, id, i)
    PROVE  id \in DOMAIN ById(f) /\ ById(f)[id] = f[i]
BY ByIdIs

\* A map that says of each id what its first line does, and knows every id, is ById.
LEMMA SaidIs ==
    ASSUME NEW f \in Seq(Lines), NEW said, NEW ids, said = [id \in ids |-> said[id]],
           \A id \in ids : \E i : FirstAt(f, id, i) /\ said[id] = f[i],
           \A i \in Parsed(f) : f[i].id \in ids
    PROVE  ById(f) = said
<1>1. DOMAIN ById(f) = ids
  <2>1. \A id \in DOMAIN ById(f) : id \in ids
    <3> TAKE id \in DOMAIN ById(f)
    <3>1. PICK i : FirstAt(f, id, i)
      BY ByIdIs
    <3> QED BY <3>1 DEF FirstAt
  <2>2. \A id \in ids : id \in DOMAIN ById(f)
    BY ByIdIs
  <2> QED BY <2>1, <2>2
<1>2. \A id \in ids : ById(f)[id] = said[id]
  <2> TAKE id \in ids
  <2>1. PICK i : FirstAt(f, id, i) /\ said[id] = f[i]
    OBVIOUS
  <2>2. ById(f)[id] = f[i]
    BY <2>1, FirstIsSaid
  <2> QED BY <2>1, <2>2
<1>3. ById(f) = [id \in ids |-> ById(f)[id]]
  BY <1>1, ByIdIs
<1>4. [id \in ids |-> ById(f)[id]] = [id \in ids |-> said[id]]
  BY <1>2
<1> QED BY <1>3, <1>4

\* load_all skips lines and keeps what the file says.
LEMMA LoadKeeps ==
    ASSUME NEW f \in Seq(Lines)
    PROVE  /\ LoadAll(f) \in Seq(Procedure) /\ ById(LoadAll(f)) = ById(f)
           /\ \A n \in 1..Len(LoadAll(f)) : \E i \in Parsed(f) : LoadAll(f)[n] = f[i]
<1> DEFINE I == Parsed(f)
           ps == LoadAll(f)
           C == Cardinality(I)
<1>1. /\ I \in SUBSET (1..Len(f)) /\ Len(f) \in Nat
      /\ \A i \in I : f[i] \in Procedure /\ i \in Nat
  BY ParsedIs
<1>2. /\ C \in Nat
      /\ \A i \in I : Rank(I, i) \in 1..C
      /\ \A i, k \in I : i < k => Rank(I, i) < Rank(I, k)
      /\ \A m \in 1..C : \E i \in I : Rank(I, i) = m
  BY <1>1, RankIs
<1>3. ps \in Seq(Lines) /\ Len(ps) = C /\ \A i \in I : ps[Rank(I, i)] = f[i]
  BY <1>1, PickedIs DEF LoadAll
<1> HIDE DEF ps, I, C
<1>4. \A n \in 1..C : \E i \in I : Rank(I, i) = n /\ ps[n] = f[i]
  BY <1>2, <1>3
<1>5. \A n \in 1..C : ps[n] \in Procedure
  BY <1>1, <1>4
<1>6. ps \in Seq(Procedure)
  <2>1. ps \in [1..C -> Procedure]
    <3>1. ps \in [1..C -> Lines]
      BY <1>3
    <3> QED BY <1>5, <3>1
  <2> QED BY <1>2, <2>1
<1>7. Parsed(ps) = 1..C
  <2>1. Parsed(ps) \subseteq 1..C
    BY <1>3, ParsedIs
  <2>2. \A n \in 1..C : n \in Parsed(ps)
    BY <1>3, <1>5, ParsedIs
  <2> QED BY <2>1, <2>2
<1>8. ASSUME NEW id, NEW i, FirstAt(f, id, i)
      PROVE  FirstAt(ps, id, Rank(I, i)) /\ ps[Rank(I, i)] = f[i]
  <2>1. i \in I /\ f[i].id = id /\ \A j \in I : f[j].id = id => i <= j
    BY <1>8 DEF FirstAt, I
  <2>2. Rank(I, i) \in 1..C /\ ps[Rank(I, i)] = f[i]
    BY <1>2, <1>3, <2>1
  <2>3. ASSUME NEW n \in 1..C, ps[n].id = id PROVE Rank(I, i) <= n
    <3>1. PICK j \in I : Rank(I, j) = n /\ ps[n] = f[j]
      BY <1>4
    <3>2. i <= j /\ i \in Nat /\ j \in Nat
      BY <1>1, <2>1, <2>3, <3>1
    <3>3. i = j \/ i < j
      BY <3>2
    <3>4. Rank(I, i) \in Nat /\ Rank(I, j) \in Nat
      BY <1>2, <2>1
    <3> QED BY <1>2, <2>1, <3>1, <3>3, <3>4
  <2> QED BY <1>7, <2>1, <2>2, <2>3 DEF FirstAt
<1>9. ById(ps) = ById(f)
  <2>1. \A id \in DOMAIN ById(f) : \E n : FirstAt(ps, id, n) /\ ById(f)[id] = ps[n]
    <3> TAKE id \in DOMAIN ById(f)
    <3>1. PICK i : FirstAt(f, id, i)
      BY ByIdIs
    <3>2. ById(f)[id] = f[i]
      BY <3>1, ByIdIs
    <3> QED BY <1>8, <3>1, <3>2
  <2>2. \A n \in Parsed(ps) : ps[n].id \in DOMAIN ById(f)
    <3> TAKE n \in Parsed(ps)
    <3>1. PICK i \in I : ps[n] = f[i]
      BY <1>4, <1>7
    <3>2. i \in Parsed(f)
      BY <3>1 DEF I
    <3>3. f[i].id \in {f[k].id : k \in Parsed(f)}
      BY <3>2
    <3>4. f[i].id \in DOMAIN ById(f)
      BY <3>3, ByIdIs
    <3> QED BY <3>1, <3>4
  <2>3. ById(f) = [id \in DOMAIN ById(f) |-> ById(f)[id]]
    BY ByIdIs
  <2> QED BY <1>3, <2>1, <2>2, <2>3, SaidIs
<1>10. \A n \in 1..Len(ps) : \E i \in Parsed(f) : ps[n] = f[i]
  BY <1>3, <1>4 DEF I
<1> QED BY <1>6, <1>9, <1>10 DEF ps

\* In a list of procedures every place counts.
LEMMA WholeIs ==
    ASSUME NEW ps \in Seq(Procedure)
    PROVE  /\ ps \in Seq(Lines) /\ Len(ps) \in Nat
           /\ Parsed(ps) = 1..Len(ps) /\ DOMAIN ps = 1..Len(ps)
           /\ \A i \in 1..Len(ps) : ps[i] \in Procedure
<1>1. ps \in Seq(Lines) /\ Len(ps) \in Nat /\ DOMAIN ps = 1..Len(ps)
  BY DEF Lines
<1>2. \A i \in 1..Len(ps) : ps[i] \in Procedure
  OBVIOUS
<1>3. Parsed(ps) = 1..Len(ps)
  BY <1>1, <1>2, ParsedIs
<1> QED BY <1>1, <1>2, <1>3

\* What the store finds by its search is what the file says.
LEMMA FoundIs ==
    ASSUME NEW ps \in Seq(Procedure), NEW id
    PROVE  /\ \A i : i \in Found(ps, id) <=> FirstAt(ps, id, i)
           /\ Found(ps, id) = {} <=> id \notin DOMAIN ById(ps)
           /\ id \in DOMAIN ById(ps) =>
                /\ Find(ps, id) = ById(ps)[id]
                /\ Find(ps, id) \in Procedure /\ Find(ps, id).id = id
<1> USE WholeIs
<1>1. ASSUME NEW i \in Found(ps, id) PROVE FirstAt(ps, id, i)
  <2>1. i \in 1..Len(ps) /\ ps[i].id = id /\ \A j \in 1..(i - 1) : ps[j].id # id
    BY DEF Found
  <2>2. \A j \in 1..Len(ps) : ps[j].id = id => i <= j
    BY <2>1
  <2> QED BY <2>1, <2>2 DEF FirstAt
<1>2. ASSUME NEW i, FirstAt(ps, id, i) PROVE i \in Found(ps, id)
  <2>1. i \in 1..Len(ps) /\ ps[i].id = id /\ \A j \in 1..Len(ps) : ps[j].id = id => i <= j
    BY <1>2 DEF FirstAt
  <2>2. \A j \in 1..(i - 1) : ps[j].id # id
    BY <2>1
  <2> QED BY <2>1, <2>2 DEF Found
<1>3. Found(ps, id) = {} <=> id \notin DOMAIN ById(ps)
  <2>1. ASSUME NEW i \in Found(ps, id) PROVE id \in DOMAIN ById(ps)
    BY <1>1, FirstIsSaid
  <2>2. ASSUME id \in DOMAIN ById(ps) PROVE \E i : i \in Found(ps, id)
    <3>1. PICK i : FirstAt(ps, id, i)
      BY <2>2, ByIdIs
    <3> QED BY <1>2, <3>1
  <2> QED BY <2>1, <2>2
<1>4. ASSUME id \in DOMAIN ById(ps)
      PROVE  /\ Find(ps, id) = ById(ps)[id]
             /\ Find(ps, id) \in Procedure /\ Find(ps, id).id = id
  <2> DEFINE k == CHOOSE i \in Found(ps, id) : TRUE
  <2>1. k \in Found(ps, id) /\ Find(ps, id) = ps[k]
    BY <1>3, <1>4 DEF Find
  <2> HIDE DEF k
  <2>2. FirstAt(ps, id, k)
    BY <1>1, <2>1
  <2>3. ById(ps)[id] = ps[k]
    BY <2>2, FirstIsSaid
  <2>4. k \in 1..Len(ps) /\ ps[k].id = id
    BY <2>2 DEF FirstAt
  <2> QED BY <2>1, <2>3, <2>4
<1> QED BY <1>1, <1>2, <1>3, <1>4

\* save puts the procedure in the file, and changes nothing else it says.
LEMMA UpsertIs ==
    ASSUME NEW ps \in Seq(Procedure), NEW p \in Procedure
    PROVE  Upsert(ps, p) \in Seq(Procedure) /\ ById(Upsert(ps, p)) = Put(ById(ps), p)
<1> DEFINE q == Upsert(ps, p)
           ids == DOMAIN ById(ps) \cup {p.id}
           said == Put(ById(ps), p)
<1>1. said = [id \in ids |-> said[id]]
  BY DEF Put
<1>2. said[p.id] = p /\ \A id \in ids : id # p.id => id \in DOMAIN ById(ps) /\ said[id] = ById(ps)[id]
  BY DEF Put
<1>3. \A i \in 1..Len(ps) : ps[i].id \in DOMAIN ById(ps)
  <2> TAKE i \in 1..Len(ps)
  <2>1. ps[i].id \in {ps[k].id : k \in Parsed(ps)}
    BY WholeIs
  <2> QED BY <2>1, WholeIs, ByIdIs
<1>4. CASE Found(ps, p.id) = {}
  <2>1. q = Append(ps, p) /\ q \in Seq(Procedure) /\ Len(q) = Len(ps) + 1
    BY <1>4 DEF Upsert
  <2>2. q[Len(ps) + 1] = p /\ \A i \in 1..Len(ps) : q[i] = ps[i] /\ q[i].id # p.id
    BY <1>3, <1>4, <2>1, FoundIs
  <2> HIDE DEF q, said
  <2>3. Parsed(q) = 1..(Len(ps) + 1) /\ Len(ps) \in Nat /\ q \in Seq(Lines)
    BY <2>1, WholeIs
  <2>4. FirstAt(q, p.id, Len(ps) + 1)
    BY <2>2, <2>3 DEF FirstAt
  <2>5. ASSUME NEW id \in ids, id # p.id
        PROVE  \E i : FirstAt(q, id, i) /\ said[id] = q[i]
    <3>1. PICK i : FirstAt(ps, id, i)
      BY <2>5, WholeIs, ByIdIs
    <3>2. i \in 1..Len(ps) /\ ps[i].id = id /\ \A j \in 1..Len(ps) : ps[j].id = id => i <= j
      BY <3>1, WholeIs DEF FirstAt
    <3>3. FirstAt(q, id, i)
      BY <2>2, <2>3, <2>5, <3>2 DEF FirstAt
    <3>4. said[id] = ps[i]
      BY <1>2, <2>5, <3>1, WholeIs, FirstIsSaid
    <3> QED BY <2>2, <3>2, <3>3, <3>4
  <2>6. \A i \in Parsed(q) : q[i].id \in ids
    BY <1>3, <2>2, <2>3
  <2>7. \A id \in ids : \E i : FirstAt(q, id, i) /\ said[id] = q[i]
    BY <1>2, <2>2, <2>4, <2>5
  <2> HIDE DEF ids
  <2>8. ById(q) = said
    <3>1. q \in Seq(Lines)
      BY <2>3
    <3> QED BY <1>1, <2>6, <2>7, <3>1, SaidIs
  <2> QED BY <2>1, <2>8 DEF q, said
<1>5. CASE Found(ps, p.id) # {}
  <2> DEFINE k == CHOOSE i \in Found(ps, p.id) : TRUE
  <2>1. k \in Found(ps, p.id) /\ q = [ps EXCEPT ![k] = p]
    BY <1>5 DEF Upsert
  <2> HIDE DEF k
  <2>2. FirstAt(ps, p.id, k)
    BY <2>1, FoundIs
  <2>3. k \in 1..Len(ps) /\ ps[k].id = p.id
    BY <2>2, WholeIs DEF FirstAt
  <2>4. q \in Seq(Procedure) /\ Len(q) = Len(ps)
    BY <2>1, <2>3
  <2>5. q[k] = p /\ \A i \in 1..Len(ps) : q[i].id = ps[i].id /\ (i # k => q[i] = ps[i])
    BY <2>1, <2>3, WholeIs
  <2> HIDE DEF q, said
  <2>6. Parsed(q) = 1..Len(ps) /\ Parsed(ps) = 1..Len(ps) /\ q \in Seq(Lines)
    BY <2>4, WholeIs
  <2>7. \A id, i : FirstAt(ps, id, i) => FirstAt(q, id, i)
    BY <2>5, <2>6 DEF FirstAt
  <2>8. ASSUME NEW id \in ids, id # p.id
        PROVE  \E i : FirstAt(q, id, i) /\ said[id] = q[i]
    <3>1. PICK i : FirstAt(ps, id, i)
      BY <2>8, WholeIs, ByIdIs
    <3>2. i \in 1..Len(ps) /\ i # k
      BY <2>3, <2>6, <2>8, <3>1 DEF FirstAt
    <3>3. said[id] = ps[i]
      BY <1>2, <2>8, <3>1, WholeIs, FirstIsSaid
    <3> QED BY <2>5, <2>7, <3>1, <3>2, <3>3
  <2>9. \A i \in Parsed(q) : q[i].id \in ids
    BY <1>3, <2>5, <2>6
  <2>10. \A id \in ids : \E i : FirstAt(q, id, i) /\ said[id] = q[i]
    BY <1>2, <2>2, <2>5, <2>7, <2>8
  <2> HIDE DEF ids
  <2>11. ById(q) = said
    BY <1>1, <2>6, <2>9, <2>10, SaidIs
  <2> QED BY <2>4, <2>11 DEF q, said
<1> QED BY <1>4, <1>5

\* The health check disables what fails too often, and changes nothing else.
LEMMA HealedIs ==
    ASSUME NEW p \in Procedure
    PROVE  /\ Healed(p) \in Procedure /\ Healed(p).id = p.id
           /\ Healed(p) = [p EXCEPT !.disabled =
                @ \/ (p.ok + p.bad >= 5 /\ 10 * p.ok < 3 * (p.ok + p.bad))]
<1>1. p.ok \in Nat /\ p.bad \in Nat /\ p.disabled \in BOOLEAN
  BY DEF Procedure
<1>2. Critical(p) /\ Total(p) >= 5 <=> p.ok + p.bad >= 5 /\ 10 * p.ok < 3 * (p.ok + p.bad)
  BY <1>1 DEF Critical, Total
<1>3. CASE Critical(p) /\ Total(p) >= 5
  <2>1. Healed(p) = [p EXCEPT !.disabled = TRUE]
    BY <1>3 DEF Healed
  <2>2. p.disabled \/ (p.ok + p.bad >= 5 /\ 10 * p.ok < 3 * (p.ok + p.bad)) <=> TRUE
    BY <1>2, <1>3
  <2> QED BY <2>1, <2>2 DEF Procedure
<1>4. CASE ~ (Critical(p) /\ Total(p) >= 5)
  <2>1. Healed(p) = p
    BY <1>4 DEF Healed
  <2>2. p.disabled \/ (p.ok + p.bad >= 5 /\ 10 * p.ok < 3 * (p.ok + p.bad)) <=> p.disabled
    BY <1>2, <1>4
  <2> QED BY <1>1, <2>1, <2>2 DEF Procedure
<1> QED BY <1>3, <1>4

Judged(old) ==
    [id \in DOMAIN old |-> [old[id] EXCEPT !.disabled =
       @ \/ (old[id].ok + old[id].bad >= 5 /\ 10 * old[id].ok < 3 * (old[id].ok + old[id].bad))]]

LEMMA HealthIs ==
    ASSUME NEW ps \in Seq(Procedure)
    PROVE  HealthCheck(ps) \in Seq(Procedure) /\ ById(HealthCheck(ps)) = Judged(ById(ps))
<1> DEFINE q == HealthCheck(ps)
           ids == DOMAIN ById(ps)
           said == Judged(ById(ps))
<1>1. /\ Len(ps) \in Nat /\ DOMAIN ps = 1..Len(ps) /\ ps \in Seq(Lines)
      /\ Parsed(ps) = 1..Len(ps) /\ \A i \in 1..Len(ps) : ps[i] \in Procedure
  BY WholeIs
<1>2. q = [i \in 1..Len(ps) |-> Healed(ps[i])]
  BY <1>1 DEF HealthCheck
<1>3. q \in Seq(Procedure) /\ Len(q) = Len(ps)
  BY <1>1, <1>2, HealedIs
<1>4. \A i \in 1..Len(ps) : q[i] = Healed(ps[i]) /\ q[i].id = ps[i].id
  BY <1>1, <1>2, HealedIs
<1>5. said = [id \in ids |-> said[id]]
  BY DEF Judged
<1>6. \A id \in ids : said[id] = [ById(ps)[id] EXCEPT !.disabled =
        @ \/ (ById(ps)[id].ok + ById(ps)[id].bad >= 5
              /\ 10 * ById(ps)[id].ok < 3 * (ById(ps)[id].ok + ById(ps)[id].bad))]
  BY DEF Judged
<1> HIDE DEF q, said
<1>7. q \in Seq(Lines) /\ Parsed(q) = 1..Len(ps)
  BY <1>3, WholeIs
<1>8. \A id \in ids : \E i : FirstAt(q, id, i) /\ said[id] = q[i]
  <2> TAKE id \in ids
  <2>1. PICK i : FirstAt(ps, id, i)
    BY <1>1, ByIdIs
  <2>2. i \in 1..Len(ps) /\ FirstAt(q, id, i)
    BY <1>1, <1>4, <1>7, <2>1 DEF FirstAt
  <2>3. ById(ps)[id] = ps[i]
    BY <1>1, <2>1, FirstIsSaid
  <2>4. said[id] = Healed(ps[i])
    BY <1>1, <1>6, <2>2, <2>3, HealedIs
  <2> QED BY <1>4, <2>2, <2>4
<1>9. \A i \in Parsed(q) : q[i].id \in ids
  <2> TAKE i \in Parsed(q)
  <2>1. ps[i].id \in {ps[k].id : k \in Parsed(ps)}
    BY <1>1, <1>7
  <2> QED BY <1>1, <1>4, <1>7, <2>1, ByIdIs
<1> HIDE DEF ids
<1>10. ById(q) = said
  BY <1>5, <1>7, <1>8, <1>9, SaidIs
<1> QED BY <1>3, <1>10 DEF q, said

\* What a replay or a report adds to a procedure's counts.
LEMMA RecordedIs ==
    ASSUME NEW p \in Procedure, NEW success \in BOOLEAN
    PROVE  /\ Recorded(p, success) \in Procedure /\ Recorded(p, success).id = p.id
           /\ Recorded(p, success) = [p EXCEPT !.ok  = @ + (IF success THEN 1 ELSE 0),
                                               !.bad = @ + (IF success THEN 0 ELSE 1)]
<1>1. p.ok \in Nat /\ p.bad \in Nat
  BY DEF Procedure
<1>2. CASE success
  <2>1. Recorded(p, success) = [p EXCEPT !.ok = p.ok + 1]
    BY <1>2 DEF Recorded
  <2>2. (IF success THEN 1 ELSE 0) = 1 /\ (IF success THEN 0 ELSE 1) = 0 /\ p.bad + 0 = p.bad
    BY <1>1, <1>2
  <2>3. [p EXCEPT !.ok = p.ok + 1] \in Procedure /\ [p EXCEPT !.ok = p.ok + 1].id = p.id
    BY <1>1 DEF Procedure
  <2>4. [p EXCEPT !.ok = p.ok + 1] = [p EXCEPT !.ok = p.ok + 1, !.bad = p.bad]
    BY DEF Procedure
  <2> QED BY <2>1, <2>2, <2>3, <2>4
<1>3. CASE ~success
  <2>1. Recorded(p, success) = [p EXCEPT !.bad = p.bad + 1]
    BY <1>3 DEF Recorded
  <2>2. (IF success THEN 1 ELSE 0) = 0 /\ (IF success THEN 0 ELSE 1) = 1 /\ p.ok + 0 = p.ok
    BY <1>1, <1>3
  <2>3. [p EXCEPT !.bad = p.bad + 1] \in Procedure /\ [p EXCEPT !.bad = p.bad + 1].id = p.id
    BY <1>1 DEF Procedure
  <2>4. [p EXCEPT !.bad = p.bad + 1] = [p EXCEPT !.ok = p.ok, !.bad = p.bad + 1]
    BY DEF Procedure
  <2> QED BY <2>1, <2>2, <2>3, <2>4
<1> QED BY <1>2, <1>3

LEMMA NewIs ==
    ASSUME NEW id \in ProcIds, NEW title \in Titles, NEW cmds \in Seq(Steps)
    PROVE  /\ NewProcedure(id, title, cmds) \in Procedure
           /\ NewProcedure(id, title, cmds).id = id
BY DEF NewProcedure, Procedure

\* What is merged of two procedures is the first with the other's new steps.
LEMMA MergedIs ==
    ASSUME NEW p \in Procedure, NEW q \in Procedure
    PROVE  [MergeSteps(p, q) EXCEPT !.id = q.id] \in Procedure
<1> DEFINE I == {i \in DOMAIN q.steps : q.steps[i] \notin Range1(p.steps)}
           more == Picked(q.steps, I)
<1>1. p.steps \in Seq(Steps) /\ q.steps \in Seq(Steps) /\ q.id \in ProcIds
  BY DEF Procedure
<1>2. I \in SUBSET (1..Len(q.steps))
  BY <1>1
<1>3. more \in Seq(Steps)
  BY <1>1, <1>2, PickedIs
<1>4. MergeSteps(p, q) = [p EXCEPT !.steps = @ \o more]
  BY DEF MergeSteps
<1> HIDE DEF more
<1>5. p.steps \o more \in Seq(Steps)
  BY <1>1, <1>3
<1> QED BY <1>1, <1>4, <1>5 DEF Procedure

-----------------------------------------------------------------------------
(* A run of `learn procedure` that is by itself: what it found, what it is   *)
(* about to write and what it has written.                                  *)

Asks == UNION {Requests(id) : id \in ProcIds}
RunStates ==
    [pc : {"idle", "read", "save", "steps", "open", "write"}, req : Asks \cup {NoItem},
     item : Procedure \cup {NoItem}, out : Seq(Procedure), at : Nat \ {0}, alone : BOOLEAN,
     start : Seq(Lines), ran : Seq([cmd : Steps, success : BOOLEAN])]

Wanted(r) == Effect(r.req, r.start, Failed(r))

\* What every run has, whatever runs beside it.
Sane(r) ==
    /\ r \in RunStates
    /\ r.pc # "idle" => r.req \in Asks
    /\ r.pc = "save" => r.item \in Procedure
    /\ r.pc = "steps" => r.item \in Procedure /\ r.req.op = "replay"
    /\ r.pc \in {"read", "save", "open"} => r.at = 1

\* What holds of a run by itself: until it truncates the file the file is as it found
\* it, what it is to write has the effect wanted, and the file is what it has written.
Exact(r, f) ==
    /\ r.pc \in {"read", "save", "steps", "open"} => f = r.start
    /\ r.pc = "save" => Put(ById(r.start), r.item) \in Wanted(r)
    /\ r.pc \in {"open", "write"} => ById(r.out) \in Wanted(r)
    /\ r.pc = "write" => /\ r.at - 1 <= Len(r.out) /\ Len(f) = r.at - 1
                         /\ \A i \in 1..(r.at - 1) : f[i] = r.out[i]

RunInv(r, f) == Sane(r) /\ (r.pc # "idle" /\ r.alone => Exact(r, f))

ProcInv ==
    /\ procFile \in Seq(Lines) /\ procRuns \in Nat
    /\ executing \in [Clis -> RunStates]
    /\ \A c \in Clis : RunInv(executing[c], procFile)
    /\ \A c, d \in Clis : executing[c].pc # "idle" /\ executing[c].alone /\ executing[d].pc # "idle"
                            => d = c

LEMMA AsksIs ==
    ASSUME NEW q \in Asks
    PROVE  /\ q.op \in {"record", "from-session", "add-step", "outcome", "able", "replay", "health"}
           /\ q.op = "record" => q.id \in ProcIds /\ q.title \in Titles
           /\ q.op = "from-session" => /\ q.id \in ProcIds /\ q.title \in Titles
                                       /\ q.cmds \in Seq(Steps)
           /\ q.op = "add-step" => q.cmd \in Steps
           /\ q.op = "outcome" => q.success \in BOOLEAN
           /\ q.op = "able" => q.disabled \in BOOLEAN
<1>1. PICK id \in ProcIds : q \in Requests(id)
  BY DEF Asks
<1> DEFINE Recording == [op : {"record"}, id : {id}, title : Titles]
           Distilling == [op : {"from-session"}, id : {id}, title : Titles, cmds : {<<c>> : c \in Commands}]
           Adding == [op : {"add-step"}, id : ProcIds, cmd : Commands]
           Reporting == [op : {"outcome"}, id : ProcIds, success : BOOLEAN]
           Switching == [op : {"able"}, id : ProcIds, disabled : BOOLEAN]
           Others == [op : {"replay"}, id : ProcIds, dryRun : BOOLEAN] \cup [op : {"health"}]
<1>2. CASE q \in Recording
  BY <1>2
<1>3. CASE q \in Distilling
  <2>1. PICK c \in Commands : q.cmds = <<c>>
    BY <1>3
  <2>2. q.cmds \in Seq(Steps)
    BY <2>1 DEF Steps
  <2> QED BY <1>3, <2>2
<1>4. CASE q \in Adding
  BY <1>4 DEF Steps
<1>5. CASE q \in Reporting
  BY <1>5
<1>6. CASE q \in Switching
  BY <1>6
<1>7. CASE q \in Others
  BY <1>7
<1>8. \/ q \in Recording \/ q \in Distilling \/ q \in Adding
      \/ q \in Reporting \/ q \in Switching \/ q \in Others
  BY <1>1, Zenon DEF Requests
<1> HIDE DEF Recording, Distilling, Adding, Reporting, Switching, Others
<1> QED BY <1>2, <1>3, <1>4, <1>5, <1>6, <1>7, <1>8

LEMMA IdleIs == Idle \in RunStates /\ Idle.pc = "idle" /\ \A f : RunInv(Idle, f)
<1>1. Idle \in RunStates /\ Idle.pc = "idle"
  BY DEF Idle, RunStates
<1> QED BY <1>1 DEF RunInv, Sane

\* A step of a busy run need only be right for that run.
LEMMA Acts ==
    ASSUME ProcInv, NEW c \in Clis, executing[c].pc # "idle", NEW r, Become(c, r),
           r.pc = "idle" \/ r.alone = executing[c].alone,
           procFile' \in Seq(Lines), procRuns' \in Nat, RunInv(r, procFile')
    PROVE  ProcInv'
<1>1. r \in RunStates
  BY DEF RunInv, Sane
<1>2. executing' \in [Clis -> RunStates] /\ executing'[c] = r
      /\ \A d \in Clis \ {c} : executing'[d] = executing[d]
  BY <1>1 DEF ProcInv, Become
<1>3. \A d \in Clis \ {c} : executing[d].pc # "idle" => ~executing[d].alone
  BY DEF ProcInv
<1>4. \A d \in Clis : RunInv(executing'[d], procFile')
  BY <1>2, <1>3 DEF ProcInv, RunInv
<1>5. \A d, e \in Clis : executing'[d].pc # "idle" /\ executing'[d].alone /\ executing'[e].pc # "idle"
                            => e = d
  BY <1>2, <1>3 DEF ProcInv
<1> QED BY <1>2, <1>4, <1>5 DEF ProcInv

LEMMA Stops == ASSUME ProcInv, NEW c \in Clis, executing[c].pc # "idle", Stop(c) PROVE ProcInv'
BY IdleIs, Acts DEF Stop, Quiet, ProcInv

LEMMA RunnerIs ==
    ASSUME ProcInv, NEW c \in Clis, executing[c].pc # "idle"
    PROVE  /\ executing[c] \in RunStates /\ Sane(executing[c]) /\ executing[c].req \in Asks
           /\ executing[c].alone => Exact(executing[c], procFile)
           /\ procFile \in Seq(Lines) /\ LoadAll(procFile) \in Seq(Procedure)
           /\ ById(LoadAll(procFile)) = ById(procFile)
BY LoadKeeps DEF ProcInv, RunInv, Sane

LEMMA SaveNextIs ==
    ASSUME ProcInv, NEW c \in Clis, executing[c].pc = "read", NEW p \in Procedure,
           SaveNext(c, p),
           executing[c].alone => Put(ById(executing[c].start), p) \in Wanted(executing[c])
    PROVE  ProcInv'
<1> DEFINE r == [executing[c] EXCEPT !.pc = "save", !.item = p]
<1>1. Become(c, r) /\ procFile' = procFile /\ procRuns' = procRuns
  BY DEF SaveNext, Quiet
<1>2. executing[c] \in RunStates /\ Sane(executing[c])
      /\ (executing[c].alone => Exact(executing[c], procFile))
  BY RunnerIs
<1>3. /\ r \in RunStates /\ r.pc = "save" /\ r.item = p /\ r.alone = executing[c].alone
      /\ r.req = executing[c].req /\ r.start = executing[c].start /\ r.ran = executing[c].ran
      /\ r.at = executing[c].at
  BY <1>2 DEF RunStates
<1> HIDE DEF r
<1>4. Wanted(r) = Wanted(executing[c])
  BY <1>3 DEF Wanted, Failed
<1>5. RunInv(r, procFile)
  BY <1>2, <1>3, <1>4 DEF RunInv, Sane, Exact
<1> QED BY <1>1, <1>3, <1>5, Acts DEF ProcInv

LEMMA WriteNextIs ==
    ASSUME ProcInv, NEW c \in Clis, executing[c].pc \in {"read", "save"},
           NEW ps \in Seq(Procedure), WriteNext(c, ps),
           executing[c].alone => ById(ps) \in Wanted(executing[c])
    PROVE  ProcInv'
<1> DEFINE r == [executing[c] EXCEPT !.pc = "open", !.out = ps]
<1>1. Become(c, r) /\ procFile' = procFile /\ procRuns' = procRuns
  BY DEF WriteNext, Quiet
<1>2. executing[c] \in RunStates /\ Sane(executing[c])
      /\ (executing[c].alone => Exact(executing[c], procFile))
  BY RunnerIs
<1>3. /\ r \in RunStates /\ r.pc = "open" /\ r.out = ps /\ r.alone = executing[c].alone
      /\ r.req = executing[c].req /\ r.start = executing[c].start /\ r.ran = executing[c].ran
      /\ r.at = executing[c].at
  BY <1>2 DEF RunStates
<1> HIDE DEF r
<1>4. Wanted(r) = Wanted(executing[c])
  BY <1>3 DEF Wanted, Failed
<1>5. RunInv(r, procFile)
  BY <1>2, <1>3, <1>4 DEF RunInv, Sane, Exact
<1> QED BY <1>1, <1>3, <1>5, Acts DEF ProcInv

\* What a run by itself reads is what it found.
LEMMA ReaderIs ==
    ASSUME ProcInv, NEW c \in Clis, NEW asked, Reads(c, asked)
    PROVE  /\ executing[c].pc = "read" /\ executing[c].req.op = asked
           /\ executing[c].alone => procFile = executing[c].start
           /\ Wanted(executing[c]) = Effect(executing[c].req, executing[c].start, Failed(executing[c]))
BY RunnerIs DEF Reads, Exact, Wanted

LEMMA RecordRunStep ==
    ASSUME ProcInv, NEW c \in Clis, Record(c) PROVE ProcInv'
<1> DEFINE q == executing[c].req
           p == NewProcedure(q.id, q.title, <<>>)
<1>1. Reads(c, "record") /\ SaveNext(c, p)
  BY DEF Record
<1>2. executing[c].pc = "read" /\ q.op = "record" /\ q \in Asks
  BY <1>1, ReaderIs, RunnerIs
<1>3. p \in Procedure
  <2>1. q.id \in ProcIds /\ q.title \in Titles /\ <<>> \in Seq(Steps)
    BY <1>2, AsksIs
  <2> QED BY <2>1, NewIs
<1>4. Put(ById(executing[c].start), p) \in Wanted(executing[c])
  BY <1>2 DEF Effect, Wanted
<1> HIDE DEF q, p
<1> QED BY <1>1, <1>2, <1>3, <1>4, SaveNextIs

LEMMA AddStepStep ==
    ASSUME ProcInv, NEW c \in Clis, AddStep(c) PROVE ProcInv'
<1> DEFINE q == executing[c].req
           ps == LoadAll(procFile)
           p == [Find(ps, q.id) EXCEPT !.steps = Append(@, q.cmd)]
<1>1. /\ Reads(c, "add-step")
      /\ Found(ps, q.id) = {} => Stop(c)
      /\ Found(ps, q.id) # {} => SaveNext(c, p)
  BY DEF AddStep
<1>2. executing[c].pc = "read" /\ q.op = "add-step" /\ q \in Asks
      /\ ps \in Seq(Procedure) /\ ById(ps) = ById(procFile)
  BY <1>1, ReaderIs, RunnerIs
<1> HIDE DEF ps
<1>3. CASE Found(ps, q.id) = {}
  BY <1>1, <1>2, <1>3, Stops
<1>4. CASE Found(ps, q.id) # {}
  <2>1. Find(ps, q.id) = ById(procFile)[q.id] /\ Find(ps, q.id) \in Procedure
        /\ q.id \in DOMAIN ById(procFile)
    BY <1>2, <1>4, FoundIs
  <2>2. q.cmd \in Steps
    BY <1>2, AsksIs
  <2>3. p \in Procedure
    <3> DEFINE found == Find(ps, q.id)
    <3>1. found \in Procedure /\ found.steps \in Seq(Steps)
      BY <2>1 DEF Procedure
    <3> HIDE DEF found
    <3>2. Append(found.steps, q.cmd) \in Seq(Steps)
      BY <2>2, <3>1
    <3>3. [found EXCEPT !.steps = Append(found.steps, q.cmd)] \in Procedure
      BY <3>1, <3>2 DEF Procedure
    <3> QED BY <3>3 DEF found
  <2>4. ASSUME executing[c].alone
        PROVE  Put(ById(executing[c].start), p) \in Wanted(executing[c])
    <3>1. procFile = executing[c].start
      BY <1>1, <2>4, ReaderIs
    <3>2. p = [ById(procFile)[q.id] EXCEPT !.steps = Append(@, q.cmd)]
      BY <2>1
    <3>3. Put(ById(procFile), [ById(procFile)[q.id] EXCEPT !.steps = Append(@, q.cmd)])
             \in Effect(q, procFile, Failed(executing[c]))
      BY <1>2, <2>1 DEF Effect
    <3> HIDE DEF p
    <3> QED BY <3>1, <3>2, <3>3 DEF Wanted
  <2> HIDE DEF p, q
  <2> QED BY <1>1, <1>2, <1>4, <2>3, <2>4, SaveNextIs
<1> QED BY <1>3, <1>4

LEMMA FromSessionStep ==
    ASSUME ProcInv, NEW c \in Clis, FromSession(c) PROVE ProcInv'
<1> DEFINE q == executing[c].req
           ps == LoadAll(procFile)
           new == NewProcedure(q.id, q.title, q.cmds)
           merged(i) == [MergeSteps(new, ps[i]) EXCEPT !.id = ps[i].id]
<1>1. /\ Reads(c, "from-session")
      /\ SaveNext(c, new) \/ \E i \in MergeTargets(ps, q.title) : SaveNext(c, merged(i))
  BY DEF FromSession
<1>2. executing[c].pc = "read" /\ q.op = "from-session" /\ q \in Asks
      /\ ps \in Seq(Procedure) /\ procFile \in Seq(Lines)
  BY <1>1, ReaderIs, RunnerIs
<1>3. new \in Procedure
  BY <1>2, AsksIs, NewIs
<1>4. CASE SaveNext(c, new)
  <2>1. Put(ById(executing[c].start), new) \in Wanted(executing[c])
    BY <1>2 DEF Effect, Wanted
  <2> HIDE DEF new, q
  <2> QED BY <1>2, <1>3, <1>4, <2>1, SaveNextIs
<1>5. ASSUME NEW i \in MergeTargets(ps, q.title), SaveNext(c, merged(i)) PROVE ProcInv'
  <2>1. i \in 1..Len(ps) /\ ps[i].title \in Within[q.title] /\ HighConfidence(ps[i])
        /\ ps[i] \in Procedure
    BY <1>2, <1>5 DEF MergeTargets
  <2>2. PICK k \in Parsed(procFile) : ps[i] = procFile[k]
    BY <1>2, <2>1, LoadKeeps
  <2>3. 5 * ps[i].ok > 4 * (ps[i].ok + ps[i].bad)
    BY <2>1 DEF HighConfidence, Total
  <2> HIDE DEF ps
  <2>4. merged(i) \in Procedure
    BY <1>3, <2>1, MergedIs
  <2>5. ASSUME executing[c].alone
        PROVE  Put(ById(executing[c].start), merged(i)) \in Wanted(executing[c])
    <3>1. procFile = executing[c].start
          /\ Wanted(executing[c]) = Effect(q, procFile, Failed(executing[c]))
      BY <1>1, <2>5, ReaderIs
    <3>2. Put(ById(procFile), [MergeSteps(new, procFile[k]) EXCEPT !.id = procFile[k].id])
             \in Effect(q, procFile, Failed(executing[c]))
      BY <1>2, <2>1, <2>2, <2>3 DEF Effect
    <3> QED BY <2>2, <3>1, <3>2
  <2> HIDE DEF merged
  <2> QED BY <1>2, <1>5, <2>4, <2>5, SaveNextIs
<1> QED BY <1>1, <1>4, <1>5

LEMMA SaveAllStep ==
    ASSUME ProcInv, NEW c \in Clis, SaveAll(c) PROVE ProcInv'
<1> DEFINE r == executing[c]
           ps == LoadAll(procFile)
           out == Upsert(ps, r.item)
<1>1. r.pc = "save" /\ WriteNext(c, out)
  BY DEF SaveAll
<1>2. Sane(r) /\ r.item \in Procedure /\ ps \in Seq(Procedure) /\ ById(ps) = ById(procFile)
      /\ (r.alone => Exact(r, procFile))
  BY <1>1, RunnerIs DEF Sane
<1> HIDE DEF r, ps
<1>3. out \in Seq(Procedure) /\ ById(out) = Put(ById(procFile), r.item)
  BY <1>2, UpsertIs
<1>4. r.alone => ById(out) \in Wanted(r)
  BY <1>1, <1>2, <1>3 DEF Exact
<1> HIDE DEF out
<1> QED BY <1>1, <1>3, <1>4, WriteNextIs DEF r

LEMMA OutcomeStep ==
    ASSUME ProcInv, NEW c \in Clis, Outcome(c) PROVE ProcInv'
<1> DEFINE q == executing[c].req
           ps == LoadAll(procFile)
           found == Find(ps, q.id)
           p == Recorded(found, q.success)
<1>1. /\ Reads(c, "outcome")
      /\ Found(ps, q.id) = {} => Stop(c)
      /\ Found(ps, q.id) # {} => WriteNext(c, Upsert(ps, p))
  BY DEF Outcome
<1>2. executing[c].pc = "read" /\ q.op = "outcome" /\ q \in Asks
      /\ ps \in Seq(Procedure) /\ ById(ps) = ById(procFile)
  BY <1>1, ReaderIs, RunnerIs
<1> HIDE DEF ps
<1>3. CASE Found(ps, q.id) = {}
  BY <1>1, <1>2, <1>3, Stops
<1>4. CASE Found(ps, q.id) # {}
  <2>1. found = ById(procFile)[q.id] /\ found \in Procedure /\ q.id \in DOMAIN ById(procFile)
    BY <1>2, <1>4, FoundIs
  <2>2. q.success \in BOOLEAN
    BY <1>2, AsksIs
  <2> HIDE DEF found
  <2>3. p \in Procedure /\ p = [found EXCEPT !.ok  = @ + (IF q.success THEN 1 ELSE 0),
                                              !.bad = @ + (IF q.success THEN 0 ELSE 1)]
    BY <2>1, <2>2, RecordedIs
  <2> HIDE DEF p
  <2>4. Upsert(ps, p) \in Seq(Procedure) /\ ById(Upsert(ps, p)) = Put(ById(procFile), p)
    BY <1>2, <2>3, UpsertIs
  <2>5. ASSUME executing[c].alone PROVE ById(Upsert(ps, p)) \in Wanted(executing[c])
    <3>1. procFile = executing[c].start
      BY <1>1, <2>5, ReaderIs
    <3>2. Put(ById(procFile), p) \in Effect(q, procFile, Failed(executing[c]))
      BY <1>2, <2>1, <2>3 DEF Effect
    <3> QED BY <2>4, <3>1, <3>2 DEF Wanted
  <2> HIDE DEF q
  <2> QED BY <1>1, <1>2, <1>4, <2>4, <2>5, WriteNextIs
<1> QED BY <1>3, <1>4

LEMMA SetDisabledStep ==
    ASSUME ProcInv, NEW c \in Clis, SetDisabled(c) PROVE ProcInv'
<1> DEFINE q == executing[c].req
           ps == LoadAll(procFile)
           found == Find(ps, q.id)
           p == [found EXCEPT !.disabled = q.disabled]
<1>1. /\ Reads(c, "able")
      /\ Found(ps, q.id) = {} => Stop(c)
      /\ Found(ps, q.id) # {} => WriteNext(c, Upsert(ps, p))
  BY DEF SetDisabled
<1>2. executing[c].pc = "read" /\ q.op = "able" /\ q \in Asks
      /\ ps \in Seq(Procedure) /\ ById(ps) = ById(procFile)
  BY <1>1, ReaderIs, RunnerIs
<1> HIDE DEF ps
<1>3. CASE Found(ps, q.id) = {}
  BY <1>1, <1>2, <1>3, Stops
<1>4. CASE Found(ps, q.id) # {}
  <2>1. found = ById(procFile)[q.id] /\ found \in Procedure /\ q.id \in DOMAIN ById(procFile)
    BY <1>2, <1>4, FoundIs
  <2>2. q.disabled \in BOOLEAN
    BY <1>2, AsksIs
  <2> HIDE DEF found
  <2>3. p \in Procedure
    BY <2>1, <2>2 DEF Procedure
  <2>4. Put(ById(procFile), p) \in Effect(q, procFile, Failed(executing[c]))
    BY <1>2, <2>1 DEF Effect
  <2> HIDE DEF p
  <2>5. Upsert(ps, p) \in Seq(Procedure) /\ ById(Upsert(ps, p)) = Put(ById(procFile), p)
    BY <1>2, <2>3, UpsertIs
  <2>6. ASSUME executing[c].alone PROVE ById(Upsert(ps, p)) \in Wanted(executing[c])
    <3>1. procFile = executing[c].start
      BY <1>1, <2>6, ReaderIs
    <3> QED BY <2>4, <2>5, <3>1 DEF Wanted
  <2> HIDE DEF q
  <2> QED BY <1>1, <1>2, <1>4, <2>5, <2>6, WriteNextIs
<1> QED BY <1>3, <1>4

LEMMA HealthStep ==
    ASSUME ProcInv, NEW c \in Clis, Health(c) PROVE ProcInv'
<1> DEFINE q == executing[c].req
           ps == LoadAll(procFile)
           out == HealthCheck(ps)
<1>1. Reads(c, "health") /\ (Stop(c) \/ WriteNext(c, out))
  BY DEF Health
<1>2. executing[c].pc = "read" /\ q.op = "health" /\ q \in Asks
      /\ ps \in Seq(Procedure) /\ ById(ps) = ById(procFile)
  BY <1>1, ReaderIs, RunnerIs
<1> HIDE DEF ps
<1>3. out \in Seq(Procedure) /\ ById(out) = Judged(ById(procFile))
  BY <1>2, HealthIs
<1>4. Judged(ById(procFile)) \in Effect(q, procFile, Failed(executing[c]))
  BY <1>2 DEF Effect, Judged
<1>5. ASSUME executing[c].alone PROVE ById(out) \in Wanted(executing[c])
  <2>1. procFile = executing[c].start
    BY <1>1, <1>5, ReaderIs
  <2> QED BY <1>3, <1>4, <2>1 DEF Wanted
<1> HIDE DEF out, q
<1> QED BY <1>1, <1>2, <1>3, <1>5, Stops, WriteNextIs

LEMMA ReplayBegins ==
    ASSUME ProcInv, NEW c \in Clis, Replay(c) PROVE ProcInv'
<1> DEFINE q == executing[c].req
           ps == LoadAll(procFile)
           found == Find(ps, q.id)
           r == [executing[c] EXCEPT !.pc = "steps", !.item = found]
<1>1. /\ Reads(c, "replay")
      /\ \/ Stop(c)
         \/ Found(ps, q.id) # {} /\ Become(c, r) /\ procFile' = procFile /\ procRuns' = procRuns
  BY DEF Replay, Quiet
<1>2. /\ executing[c].pc = "read" /\ q.op = "replay" /\ ps \in Seq(Procedure)
      /\ executing[c] \in RunStates /\ Sane(executing[c])
      /\ executing[c].alone => Exact(executing[c], procFile)
  BY <1>1, ReaderIs, RunnerIs
<1> HIDE DEF ps
<1>3. CASE Stop(c)
  BY <1>2, <1>3, Stops
<1>4. CASE ~Stop(c)
  <2>1. found \in Procedure
    BY <1>1, <1>2, <1>4, FoundIs
  <2> HIDE DEF found
  <2>2. /\ r \in RunStates /\ r.pc = "steps" /\ r.item = found /\ r.alone = executing[c].alone
        /\ r.req = q /\ r.start = executing[c].start
    BY <1>2, <2>1 DEF RunStates
  <2> HIDE DEF r
  <2>3. RunInv(r, procFile)
    BY <1>2, <2>1, <2>2 DEF RunInv, Sane, Exact
  <2> QED BY <1>1, <1>2, <1>4, <2>2, <2>3, Acts DEF ProcInv
<1> QED BY <1>3, <1>4

LEMMA ReplayGoesOn ==
    ASSUME ProcInv, NEW c \in Clis, ReplayStep(c) PROVE ProcInv'
<1> DEFINE old == executing[c]
           steps == old.item.steps
<1>1. /\ old.pc = "steps" /\ old.at <= Len(steps)
      /\ old \in RunStates /\ Sane(old) /\ (old.alone => Exact(old, procFile))
  BY RunnerIs DEF ReplayStep
<1>2. CASE Stop(c)
  BY <1>1, <1>2, Stops
<1>3. CASE ~Stop(c)
  <2>1. procFile' = procFile /\ procRuns' = procRuns
    BY <1>3 DEF ReplayStep, Quiet
  <2>2. \/ Become(c, [old EXCEPT !.at = @ + 1])
        \/ \E success \in BOOLEAN :
             Become(c, [old EXCEPT !.at = @ + 1,
                                   !.ran = Append(@, [cmd |-> steps[old.at], success |-> success])])
    BY <1>3 DEF ReplayStep
  <2>3. steps[old.at] \in Steps /\ old.at + 1 \in Nat \ {0}
    <3>1. steps \in Seq(Steps)
      BY <1>1 DEF Sane, Procedure
    <3>2. old.at \in Nat \ {0}
      BY <1>1 DEF RunStates
    <3> QED BY <1>1, <3>1, <3>2
  <2> HIDE DEF steps
  <2>4. ASSUME NEW r, Become(c, r), r \in RunStates, r.pc = "steps", r.item = old.item,
               r.req = old.req, r.start = old.start, r.alone = old.alone
        PROVE  ProcInv'
    <3>1. RunInv(r, procFile)
      BY <1>1, <2>4 DEF RunInv, Sane, Exact
    <3> QED BY <1>1, <2>1, <2>4, <3>1, Acts DEF ProcInv
  <2>5. CASE Become(c, [old EXCEPT !.at = @ + 1])
    <3> DEFINE r == [old EXCEPT !.at = @ + 1]
    <3>1. r \in RunStates /\ r.pc = "steps" /\ r.item = old.item
          /\ r.req = old.req /\ r.start = old.start /\ r.alone = old.alone
      BY <1>1, <2>3 DEF RunStates
    <3> HIDE DEF r, old
    <3> QED BY <2>4, <2>5, <3>1 DEF r
  <2>6. ASSUME NEW success \in BOOLEAN,
               Become(c, [old EXCEPT !.at = @ + 1,
                                     !.ran = Append(@, [cmd |-> steps[old.at], success |-> success])])
        PROVE  ProcInv'
    <3> DEFINE more == Append(old.ran, [cmd |-> steps[old.at], success |-> success])
               r == [old EXCEPT !.at = @ + 1, !.ran = more]
    <3>1. more \in Seq([cmd : Steps, success : BOOLEAN])
      BY <1>1, <2>3 DEF RunStates
    <3>2. Become(c, r)
      BY <2>6
    <3> HIDE DEF more
    <3>3. r \in RunStates /\ r.pc = "steps" /\ r.item = old.item
          /\ r.req = old.req /\ r.start = old.start /\ r.alone = old.alone
      BY <1>1, <2>3, <3>1 DEF RunStates
    <3> HIDE DEF r, old
    <3> QED BY <2>4, <3>2, <3>3
  <2> QED BY <2>2, <2>5, <2>6
<1> QED BY <1>2, <1>3

LEMMA ReplayEnds ==
    ASSUME ProcInv, NEW c \in Clis, ReplayEnd(c) PROVE ProcInv'
<1> DEFINE old == executing[c]
           q == old.req
           ps == LoadAll(procFile)
           found == Find(ps, q.id)
           p == Recorded(found, ~Failed(old))
           out == Upsert(ps, p)
           r == [old EXCEPT !.pc = "open", !.at = 1, !.out = out]
<1>1. /\ old.pc = "steps"
      /\ \/ Stop(c)
         \/ Found(ps, q.id) # {} /\ Become(c, r) /\ procFile' = procFile /\ procRuns' = procRuns
  BY DEF ReplayEnd, Quiet
<1>2. /\ old \in RunStates /\ Sane(old) /\ (old.alone => Exact(old, procFile))
      /\ ps \in Seq(Procedure) /\ ById(ps) = ById(procFile) /\ q.op = "replay" /\ q \in Asks
  BY <1>1, RunnerIs DEF Sane
<1> HIDE DEF ps
<1>3. CASE Stop(c)
  BY <1>1, <1>3, Stops
<1>4. CASE ~Stop(c)
  <2>1. found = ById(procFile)[q.id] /\ found \in Procedure /\ q.id \in DOMAIN ById(procFile)
    BY <1>1, <1>2, <1>4, FoundIs
  <2> DEFINE failed == Failed(old)
  <2>2. failed \in BOOLEAN
    BY <1>2 DEF Failed, RunStates
  <2> HIDE DEF found, failed
  <2>3. Recorded(found, ~failed) \in Procedure
        /\ Recorded(found, ~failed) = [found EXCEPT !.ok  = @ + (IF ~failed THEN 1 ELSE 0),
                                                    !.bad = @ + (IF ~failed THEN 0 ELSE 1)]
    BY <2>1, <2>2, RecordedIs
  <2>4. (IF ~failed THEN 1 ELSE 0) = (IF failed THEN 0 ELSE 1)
        /\ (IF ~failed THEN 0 ELSE 1) = (IF failed THEN 1 ELSE 0)
    BY <2>2
  <2>5. p \in Procedure /\ p = [found EXCEPT !.ok  = @ + (IF failed THEN 0 ELSE 1),
                                              !.bad = @ + (IF failed THEN 1 ELSE 0)]
    BY <2>3, <2>4 DEF failed
  <2> HIDE DEF p
  <2>6. out \in Seq(Procedure) /\ ById(out) = Put(ById(procFile), p)
    BY <1>2, <2>5, UpsertIs
  <2>7. Put(ById(procFile), p) \in Effect(q, procFile, failed)
    BY <1>2, <2>1, <2>5 DEF Effect
  <2> HIDE DEF out
  <2>8. /\ r \in RunStates /\ r.pc = "open" /\ r.at = 1 /\ r.out = out /\ r.alone = old.alone
        /\ r.req = q /\ r.start = old.start /\ r.ran = old.ran
    <3> HIDE DEF old
    <3>1. old \in RunStates
      BY <1>2
    <3>2. r \in RunStates
      <4> DEFINE a == [old EXCEPT !.pc = "open"]
                 b == [a EXCEPT !.at = 1]
      <4>1. a \in RunStates
        BY <3>1 DEF RunStates
      <4>2. b \in RunStates
        <5> HIDE DEF a
        <5> QED BY <4>1, SMTT(30) DEF RunStates
      <4>3. r = [b EXCEPT !.out = out]
        OBVIOUS
      <4> HIDE DEF b
      <4> QED BY <2>6, <4>2, <4>3 DEF RunStates
    <3> QED BY <3>1, <3>2 DEF RunStates
  <2> HIDE DEF r
  <2>9. Wanted(r) = Effect(q, r.start, failed)
    BY <2>8 DEF Wanted, Failed, failed
  <2>10. RunInv(r, procFile)
    BY <1>1, <1>2, <2>6, <2>7, <2>8, <2>9 DEF RunInv, Sane, Exact
  <2> QED BY <1>1, <1>4, <2>8, <2>10, Acts DEF ProcInv
<1> QED BY <1>3, <1>4

LEMMA TruncateLinesStep ==
    ASSUME ProcInv, NEW c \in Clis, TruncateLines(c) PROVE ProcInv'
<1> DEFINE old == executing[c]
           r == [old EXCEPT !.pc = "write"]
<1>1. old.pc = "open" /\ Become(c, r) /\ procFile' = <<>> /\ procRuns' = procRuns
  BY DEF TruncateLines, GotoStep, Quiet
<1>2. old \in RunStates /\ Sane(old) /\ (old.alone => Exact(old, procFile))
  BY <1>1, RunnerIs
<1>3. /\ r \in RunStates /\ r.pc = "write" /\ r.at = old.at /\ r.out = old.out
      /\ r.alone = old.alone /\ r.req = old.req /\ r.start = old.start /\ r.ran = old.ran
  BY <1>2 DEF RunStates
<1> HIDE DEF r
<1>4. Wanted(r) = Wanted(old)
  BY <1>3 DEF Wanted, Failed
<1>5. r.at = 1 /\ r.out \in Seq(Procedure) /\ Len(r.out) \in Nat
  BY <1>1, <1>2, <1>3 DEF Sane, RunStates
<1>6. RunInv(r, <<>>)
  <2>1. Sane(r)
    BY <1>1, <1>2, <1>3 DEF Sane
  <2>2. r.alone => Exact(r, <<>>)
    BY <1>1, <1>2, <1>3, <1>4, <1>5 DEF Exact
  <2> QED BY <2>1, <2>2 DEF RunInv
<1>7. procFile' \in Seq(Lines) /\ procRuns' \in Nat /\ RunInv(r, procFile')
  BY <1>1, <1>6 DEF ProcInv
<1>8. executing[c].pc # "idle" /\ r.alone = executing[c].alone /\ Become(c, r)
  BY <1>1, <1>3
<1> QED BY <1>7, <1>8, Acts

LEMMA WriteStep ==
    ASSUME ProcInv, NEW c \in Clis, WriteLine(c) PROVE ProcInv'
<1> DEFINE old == executing[c]
           r == [old EXCEPT !.at = @ + 1]
           line == old.out[old.at]
<1>1. /\ old.pc = "write" /\ old.at <= Len(old.out) /\ Become(c, r) /\ procRuns' = procRuns
      /\ \/ procFile' = Append(procFile, line)
         \/ /\ ~old.alone
            /\ \E l \in {line, TornLine} :
                 \/ procFile' = Append(procFile, l)
                 \/ \E i \in DOMAIN procFile : procFile' = [procFile EXCEPT ![i] = l]
  BY DEF WriteLine, Quiet
<1>2. old \in RunStates /\ Sane(old) /\ (old.alone => Exact(old, procFile)) /\ procFile \in Seq(Lines)
  BY <1>1, RunnerIs
<1>3. old.at \in Nat \ {0} /\ old.out \in Seq(Procedure) /\ line \in Lines /\ Len(old.out) \in Nat
  <2>1. old.at \in Nat \ {0} /\ old.out \in Seq(Procedure)
    BY <1>2 DEF RunStates
  <2> QED BY <1>1, <2>1 DEF Lines
<1>4. /\ r \in RunStates /\ r.pc = "write" /\ r.at = old.at + 1 /\ r.out = old.out
      /\ r.alone = old.alone /\ r.req = old.req /\ r.start = old.start /\ r.ran = old.ran
  <2>1. old.at + 1 \in Nat \ {0} /\ old.pc = "write" /\ old \in RunStates
    BY <1>1, <1>2, <1>3
  <2> HIDE DEF old
  <2> QED BY <2>1 DEF RunStates
<1> HIDE DEF r
<1>5. Wanted(r) = Wanted(old)
  BY <1>4 DEF Wanted, Failed
<1>6. procFile' \in Seq(Lines)
  <2>1. TornLine \in Lines
    BY DEF Lines
  <2> HIDE DEF line, old
  <2>2. \A l \in {line, TornLine} : l \in Lines
    BY <1>3, <2>1
  <2>3. \A l \in Lines : Append(procFile, l) \in Seq(Lines)
    BY <1>2
  <2>4. \A l \in Lines, i \in DOMAIN procFile : [procFile EXCEPT ![i] = l] \in Seq(Lines)
    BY <1>2
  <2> QED BY <1>1, <1>3, <2>2, <2>3, <2>4
<1>7. ASSUME old.alone PROVE Exact(r, procFile')
  <2>1. procFile' = Append(procFile, line)
    BY <1>1, <1>7
  <2>2. /\ Len(procFile) = old.at - 1 /\ \A i \in 1..(old.at - 1) : procFile[i] = old.out[i]
        /\ ById(old.out) \in Wanted(old)
    BY <1>1, <1>2, <1>7 DEF Exact
  <2>3. Len(procFile') = old.at /\ \A i \in 1..old.at : procFile'[i] = old.out[i]
    <3> HIDE DEF old
    <3>1. Len(procFile') = old.at
      BY <1>2, <1>3, <2>1, <2>2
    <3>2. procFile'[old.at] = old.out[old.at]
      BY <1>2, <1>3, <2>1, <2>2
    <3>3. \A i \in 1..(old.at - 1) : procFile'[i] = old.out[i]
      BY <1>2, <1>3, <2>1, <2>2
    <3>4. \A i \in 1..old.at : i = old.at \/ i \in 1..(old.at - 1)
      BY <1>3
    <3> QED BY <3>1, <3>2, <3>3, <3>4
  <2>4. r.at - 1 = old.at
    BY <1>3, <1>4
  <2> HIDE DEF old
  <2> QED BY <1>1, <1>4, <1>5, <2>2, <2>3, <2>4 DEF Exact
<1>8. RunInv(r, procFile')
  BY <1>1, <1>2, <1>4, <1>7 DEF RunInv, Sane
<1> QED BY <1>1, <1>4, <1>6, <1>8, Acts DEF ProcInv

LEMMA KillStep ==
    ASSUME ProcInv, NEW c \in Clis, Kill(c) PROVE ProcInv'
<1>1. executing[c].pc # "idle" /\ Become(c, Idle) /\ procRuns' = procRuns
      /\ (procFile' = procFile \/ procFile' = Append(procFile, TornLine))
  BY DEF Kill, Busy
<1>2. procFile' \in Seq(Lines)
  BY <1>1 DEF ProcInv, Lines
<1> QED BY <1>1, <1>2, IdleIs, Acts DEF ProcInv

LEMMA StartStep ==
    ASSUME ProcInv, NEW c \in Clis, Start(c) PROVE ProcInv'
<1>1. /\ executing[c].pc = "idle" /\ procRuns \in Nat /\ procRuns < MaxRuns
      /\ procRuns' = procRuns + 1 /\ procFile' = procFile /\ procFile \in Seq(Lines)
  BY DEF Start, ProcInv
<1>2. PICK q \in Requests(NewIds[procRuns + 1]) :
        executing' = [d \in Clis |->
          IF d = c
          THEN [Idle EXCEPT !.pc = "read", !.req = q, !.alone = Busy = {}, !.start = procFile]
          ELSE [executing[d] EXCEPT !.alone = @ /\ d \notin Busy]]
  BY DEF Start
<1>3. q \in Asks
  <2>1. procRuns + 1 \in 1..MaxRuns
    BY <1>1, ProcAssumption
  <2>2. NewIds[procRuns + 1] \in ProcIds
    BY <2>1, ProcAssumption
  <2> QED BY <2>2 DEF Asks
<1> DEFINE by == (Busy = {})
           r == [Idle EXCEPT !.pc = "read", !.req = q, !.alone = by, !.start = procFile]
<1>4. executing'[c] = r /\ \A d \in Clis \ {c} :
         executing'[d] = [executing[d] EXCEPT !.alone = @ /\ d \notin Busy]
  BY <1>2
<1>5. by \in BOOLEAN
  OBVIOUS
<1>6. by => \A d \in Clis : executing[d].pc = "idle"
  BY DEF Busy
<1> HIDE DEF by
<1>7. /\ r \in RunStates /\ r.pc = "read" /\ r.req = q /\ r.alone = by /\ r.start = procFile
      /\ r.at = 1
  <2> DEFINE a == [Idle EXCEPT !.pc = "read"]
             b == [a EXCEPT !.req = q]
             d == [b EXCEPT !.alone = by]
  <2>1. a \in RunStates /\ a.pc = "read" /\ a.at = 1
    BY IdleIs DEF Idle, RunStates
  <2> HIDE DEF a
  <2>2. b \in RunStates /\ b.pc = "read" /\ b.at = 1 /\ b.req = q
    BY <1>3, <2>1 DEF RunStates
  <2> HIDE DEF b
  <2>3. d \in RunStates /\ d.pc = "read" /\ d.at = 1 /\ d.req = q /\ d.alone = by
    BY <1>5, <2>2 DEF RunStates
  <2>4. r = [d EXCEPT !.start = procFile]
    BY DEF a, b
  <2> HIDE DEF d, r
  <2> QED BY <1>1, <2>3, <2>4 DEF RunStates
<1> HIDE DEF r
<1>8. RunInv(r, procFile)
  BY <1>3, <1>7 DEF RunInv, Sane, Exact
<1>9. ASSUME NEW d \in Clis \ {c}
      PROVE  /\ executing'[d] \in RunStates /\ executing'[d].pc = executing[d].pc
             /\ executing[d].pc # "idle" => ~executing'[d].alone
             /\ RunInv(executing'[d], procFile)
  <2> DEFINE old == executing[d]
             now == [old EXCEPT !.alone = @ /\ d \notin Busy]
  <2>1. old \in RunStates /\ RunInv(old, procFile) /\ executing'[d] = now
    BY <1>4 DEF ProcInv
  <2>2. (old.alone /\ d \notin Busy) \in BOOLEAN
    OBVIOUS
  <2>3. old.pc # "idle" => d \in Busy
    BY DEF Busy
  <2> HIDE DEF old
  <2>4. /\ now \in RunStates /\ now.pc = old.pc /\ now.at = old.at /\ now.req = old.req
        /\ now.item = old.item
    BY <2>1, <2>2 DEF RunStates
  <2>5. now.alone <=> (old.alone /\ d \notin Busy)
    BY <2>1 DEF RunStates
  <2> HIDE DEF now
  <2>6. RunInv(now, procFile)
    BY <2>1, <2>3, <2>4, <2>5 DEF RunInv, Sane
  <2> QED BY <2>1, <2>3, <2>4, <2>5, <2>6 DEF old
<1>10. executing' \in [Clis -> RunStates]
  <2>1. \A d \in Clis : executing'[d] \in RunStates
    BY <1>4, <1>7, <1>9
  <2>2. executing' = [d \in Clis |-> executing'[d]]
    BY <1>2
  <2> QED BY <2>1, <2>2
<1>11. \A d \in Clis : RunInv(executing'[d], procFile')
  BY <1>1, <1>4, <1>8, <1>9
<1>12. \A d, e \in Clis : executing'[d].pc # "idle" /\ executing'[d].alone /\ executing'[e].pc # "idle"
                            => e = d
  BY <1>4, <1>6, <1>7, <1>9
<1>13. procRuns' \in Nat /\ procFile' \in Seq(Lines)
  BY <1>1
<1> QED BY <1>10, <1>11, <1>12, <1>13 DEF ProcInv

LEMMA ProcInitInv == ProcInit => ProcInv
<1> SUFFICES ASSUME ProcInit PROVE ProcInv
  OBVIOUS
<1>1. procFile \in Seq(Lines) /\ procRuns = 0 /\ executing = [c \in Clis |-> Idle]
  BY ProcAssumption DEF ProcInit, Lines
<1> QED BY <1>1, IdleIs DEF ProcInv

LEMMA ProcStep == ProcInv /\ [ProcNext]_procVars => ProcInv'
<1> SUFFICES ASSUME ProcInv, [ProcNext]_procVars PROVE ProcInv'
  OBVIOUS
<1>1. CASE UNCHANGED procVars
  BY <1>1 DEF ProcInv, RunInv, Sane, Exact, Wanted, procVars
<1>2. ASSUME NEW c \in Clis, EndRun(c) PROVE ProcInv'
  BY <1>2, Stops DEF EndRun
<1>3. CASE ProcNext
  <2> PICK c \in Clis :
        \/ Start(c) \/ Record(c) \/ AddStep(c) \/ FromSession(c) \/ SaveAll(c)
        \/ Outcome(c) \/ SetDisabled(c) \/ Health(c)
        \/ Replay(c) \/ ReplayStep(c) \/ ReplayEnd(c)
        \/ TruncateLines(c) \/ WriteLine(c) \/ EndRun(c) \/ Kill(c)
    BY <1>3 DEF ProcNext
  <2>1. CASE Start(c) \/ Record(c) \/ AddStep(c) \/ FromSession(c) \/ SaveAll(c)
    BY <2>1, StartStep, RecordRunStep, AddStepStep, FromSessionStep, SaveAllStep
  <2>2. CASE Outcome(c) \/ SetDisabled(c) \/ Health(c)
    BY <2>2, OutcomeStep, SetDisabledStep, HealthStep
  <2>3. CASE Replay(c) \/ ReplayStep(c) \/ ReplayEnd(c)
    BY <2>3, ReplayBegins, ReplayGoesOn, ReplayEnds
  <2>4. CASE TruncateLines(c) \/ WriteLine(c) \/ EndRun(c) \/ Kill(c)
    BY <1>2, <2>4, TruncateLinesStep, WriteStep, KillStep
  <2> QED BY <2>1, <2>2, <2>3, <2>4
<1> QED BY <1>1, <1>3

\* procedure.rs: a run that no other run overlapped and that wrote the file leaves in it
\* what its command asks for of what it found there, and nothing else: by the first
\* line that bears an id, whatever lines cannot be read or repeat an id.
THEOREM AloneIsExact == ProcSpec => []AloneTakesEffect
<1>1. ProcInv => AloneTakesEffect
  <2> SUFFICES ASSUME ProcInv, NEW c \in Clis, executing[c].pc = "write",
                      executing[c].at > Len(executing[c].out), executing[c].alone
               PROVE  ById(procFile) \in Wanted(executing[c])
    BY DEF AloneTakesEffect, Wanted
  <2> DEFINE r == executing[c]
  <2>1. /\ r \in RunStates /\ Exact(r, procFile) /\ procFile \in Seq(Lines)
    BY RunnerIs
  <2>2. r.at \in Nat /\ r.out \in Seq(Procedure)
    BY <2>1 DEF RunStates
  <2>3. /\ r.at - 1 <= Len(r.out) /\ Len(procFile) = r.at - 1
        /\ \A i \in 1..(r.at - 1) : procFile[i] = r.out[i]
        /\ ById(r.out) \in Wanted(r)
    BY <2>1 DEF Exact
  <2>4. Len(r.out) = r.at - 1
    BY <2>2, <2>3
  <2> HIDE DEF r
  <2>5. procFile = r.out
    BY <2>1, <2>2, <2>3, <2>4
  <2> QED BY <2>3, <2>5 DEF r
<1> QED BY <1>1, ProcInitInv, ProcStep, PTL DEF ProcSpec

\* A run is at a place of what it replays or writes, or just behind it.
AtPlace(r) == r.at \in 1..(Len(IF r.pc = "steps" THEN r.item.steps ELSE r.out) + 1)

ProcBounds ==
    /\ \A c \in Clis : AtPlace(executing[c])
    /\ procRuns \in 0..MaxRuns /\ procKills \in 0..MaxKills

LEMMA StartsAtFirst ==
    ASSUME NEW r \in RunStates, r.at = 1, r.pc = "steps" => r.item \in Procedure
    PROVE  AtPlace(r)
<1>1. Len(IF r.pc = "steps" THEN r.item.steps ELSE r.out) \in Nat
  <2>1. CASE r.pc = "steps"
    <3>1. r.item.steps \in Seq(Steps)
      BY <2>1 DEF Procedure
    <3> QED BY <2>1, <3>1
  <2>2. CASE r.pc # "steps"
    <3>1. r.out \in Seq(Procedure)
      BY DEF RunStates
    <3> QED BY <2>2, <3>1
  <2> QED BY <2>1, <2>2
<1> QED BY <1>1 DEF AtPlace

LEMMA IdleAtPlace == AtPlace(Idle) /\ Idle.at = 1
<1>1. Idle.at = 1
  BY DEF Idle
<1> QED BY <1>1, IdleIs, StartsAtFirst

\* Where each action leaves the run that takes it.
LEMMA PlaceKept ==
    ASSUME ProcInv, ProcBounds, NEW c \in Clis, ProcInv', NEW r, Become(c, r), AtPlace(r),
           procRuns' \in 0..MaxRuns, procKills' \in 0..MaxKills
    PROVE  ProcBounds'
BY DEF ProcInv, ProcBounds, Become

LEMMA StopKeepsPlaces ==
    ASSUME ProcInv, ProcBounds, NEW c \in Clis, ProcInv', Stop(c)
    PROVE  ProcBounds'
BY IdleAtPlace, PlaceKept DEF Stop, Quiet, ProcBounds

\* A run that goes on to read, save or open the file is at the first place.
LEMMA FreshPlace ==
    ASSUME ProcInv, ProcBounds, NEW c \in Clis, ProcInv', NEW r, Become(c, r),
           r.pc \in {"read", "save", "open"}, Quiet
    PROVE  ProcBounds'
<1>1. executing'[c] = r
  BY DEF ProcInv, Become
<1>2. r \in RunStates /\ r.at = 1
  BY <1>1 DEF ProcInv, RunInv, Sane
<1>3. AtPlace(r)
  BY <1>2, StartsAtFirst
<1> QED BY <1>3, PlaceKept DEF Quiet, ProcBounds

LEMMA SaveNextPlace ==
    ASSUME ProcInv, ProcBounds, NEW c \in Clis, ProcInv', NEW p, SaveNext(c, p)
    PROVE  ProcBounds'
<1> DEFINE r == [executing[c] EXCEPT !.pc = "save", !.item = p]
<1>1. Become(c, r) /\ Quiet
  BY DEF SaveNext
<1>2. r.pc = "save"
  BY DEF ProcInv, RunStates
<1> HIDE DEF r
<1> QED BY <1>1, <1>2, FreshPlace

LEMMA WriteNextPlace ==
    ASSUME ProcInv, ProcBounds, NEW c \in Clis, ProcInv', NEW ps, WriteNext(c, ps)
    PROVE  ProcBounds'
<1> DEFINE r == [executing[c] EXCEPT !.pc = "open", !.out = ps]
<1>1. Become(c, r) /\ Quiet
  BY DEF WriteNext
<1>2. r.pc = "open"
  BY DEF ProcInv, RunStates
<1> HIDE DEF r
<1> QED BY <1>1, <1>2, FreshPlace

LEMMA StartPlace ==
    ASSUME ProcInv, ProcBounds, NEW c \in Clis, ProcInv', Start(c)
    PROVE  ProcBounds'
<1>1. PICK q \in Requests(NewIds[procRuns + 1]) :
        executing' = [d \in Clis |->
          IF d = c
          THEN [Idle EXCEPT !.pc = "read", !.req = q, !.alone = Busy = {}, !.start = procFile]
          ELSE [executing[d] EXCEPT !.alone = @ /\ d \notin Busy]]
  BY DEF Start
<1>2. AtPlace(executing'[c])
  <2>1. executing'[c].pc = "read"
    BY <1>1 DEF Idle
  <2>2. executing'[c] \in RunStates /\ executing'[c].at = 1
    BY <2>1 DEF ProcInv, RunInv, Sane
  <2> QED BY <2>1, <2>2, StartsAtFirst
<1>3. ASSUME NEW d \in Clis \ {c} PROVE AtPlace(executing'[d])
  <2> DEFINE old == executing[d]
  <2>1. executing'[d] = [old EXCEPT !.alone = @ /\ d \notin Busy] /\ old \in RunStates /\ AtPlace(old)
    BY <1>1 DEF ProcInv, ProcBounds
  <2> HIDE DEF old
  <2>2. /\ executing'[d].at = old.at /\ executing'[d].pc = old.pc
        /\ executing'[d].item = old.item /\ executing'[d].out = old.out
    BY <2>1 DEF RunStates
  <2> QED BY <2>1, <2>2 DEF AtPlace
<1>4. procRuns' \in 0..MaxRuns /\ procKills' \in 0..MaxKills
  <2>1. procRuns < MaxRuns /\ procRuns' = procRuns + 1 /\ procKills' = procKills
    BY DEF Start
  <2> QED BY <2>1, ProcAssumption DEF ProcBounds
<1>5. \A d \in Clis : AtPlace(executing'[d])
  BY <1>2, <1>3
<1> QED BY <1>4, <1>5 DEF ProcBounds

LEMMA ReplayStarts ==
    ASSUME ProcInv, ProcBounds, NEW c \in Clis, ProcInv', Replay(c)
    PROVE  ProcBounds'
<1> DEFINE r == [executing[c] EXCEPT !.pc = "steps", !.item = Find(LoadAll(procFile), executing[c].req.id)]
<1>1. Stop(c) \/ (Become(c, r) /\ Quiet)
  BY DEF Replay
<1>2. executing[c] \in RunStates /\ executing[c].at = 1
  BY DEF Replay, Reads, ProcInv, RunInv, Sane
<1>3. r.at = 1 /\ r.pc = "steps"
  BY <1>2 DEF RunStates
<1> HIDE DEF r
<1>4. CASE Stop(c)
  BY <1>4, StopKeepsPlaces
<1>5. CASE Become(c, r) /\ Quiet
  <2>1. executing'[c] = r
    BY <1>5 DEF ProcInv, Become
  <2>2. r \in RunStates /\ r.item \in Procedure
    BY <1>3, <2>1 DEF ProcInv, RunInv, Sane
  <2>3. AtPlace(r)
    BY <1>3, <2>2, StartsAtFirst
  <2> QED BY <1>5, <2>3, PlaceKept DEF Quiet, ProcBounds
<1> QED BY <1>1, <1>4, <1>5

LEMMA ReplayStepPlace ==
    ASSUME ProcInv, ProcBounds, NEW c \in Clis, ProcInv', ReplayStep(c)
    PROVE  ProcBounds'
<1> DEFINE old == executing[c]
<1>1. /\ old.pc = "steps" /\ old.at <= Len(old.item.steps) /\ old \in RunStates /\ AtPlace(old)
      /\ old.item.steps \in Seq(Steps)
  BY DEF ReplayStep, ProcInv, ProcBounds, RunInv, Sane, Procedure
<1>2. old.at + 1 \in 1..(Len(old.item.steps) + 1)
  BY <1>1 DEF RunStates
<1>3. ASSUME NEW r, Become(c, r), Quiet, r.pc = old.pc, r.item = old.item, r.at = old.at + 1
      PROVE  ProcBounds'
  <2>1. AtPlace(r)
    BY <1>1, <1>2, <1>3 DEF AtPlace
  <2> QED BY <1>3, <2>1, PlaceKept DEF Quiet, ProcBounds
<1>4. CASE Stop(c)
  BY <1>4, StopKeepsPlaces
<1>5. CASE Become(c, [old EXCEPT !.at = @ + 1]) /\ Quiet
  <2> DEFINE r == [old EXCEPT !.at = @ + 1]
  <2>1. r.pc = old.pc /\ r.item = old.item /\ r.at = old.at + 1
    BY <1>1 DEF RunStates
  <2> HIDE DEF r, old
  <2> QED BY <1>3, <1>5, <2>1 DEF r
<1>6. ASSUME NEW success \in BOOLEAN, Quiet,
             Become(c, [old EXCEPT !.at = @ + 1,
                                   !.ran = Append(@, [cmd |-> old.item.steps[old.at], success |-> success])])
      PROVE  ProcBounds'
  <2> DEFINE more == Append(old.ran, [cmd |-> old.item.steps[old.at], success |-> success])
             r == [old EXCEPT !.at = @ + 1, !.ran = more]
  <2>1. Become(c, r)
    BY <1>6
  <2> HIDE DEF more
  <2>2. r.pc = old.pc /\ r.item = old.item /\ r.at = old.at + 1
    BY <1>1 DEF RunStates
  <2> HIDE DEF r, old
  <2> QED BY <1>3, <1>6, <2>1, <2>2
<1> QED BY <1>4, <1>5, <1>6 DEF ReplayStep

LEMMA ReplayEndPlace ==
    ASSUME ProcInv, ProcBounds, NEW c \in Clis, ProcInv', ReplayEnd(c)
    PROVE  ProcBounds'
<1> DEFINE old == executing[c]
           out == Upsert(LoadAll(procFile), Recorded(Find(LoadAll(procFile), old.req.id), ~Failed(old)))
           r == [old EXCEPT !.pc = "open", !.at = 1, !.out = out]
<1>1. Stop(c) \/ (Become(c, r) /\ Quiet)
  BY DEF ReplayEnd
<1> HIDE DEF out
<1>2. r.pc = "open"
  BY DEF ProcInv, RunStates
<1> HIDE DEF r
<1> QED BY <1>1, <1>2, FreshPlace, StopKeepsPlaces

LEMMA TruncatePlace ==
    ASSUME ProcInv, ProcBounds, NEW c \in Clis, ProcInv', TruncateLines(c)
    PROVE  ProcBounds'
<1> DEFINE r == [executing[c] EXCEPT !.pc = "write"]
<1>1. Become(c, r) /\ Quiet
  BY DEF TruncateLines, GotoStep
<1>2. executing[c] \in RunStates /\ executing[c].at = 1
  BY DEF TruncateLines, ProcInv, RunInv, Sane
<1>3. r \in RunStates /\ r.at = 1 /\ r.pc = "write"
  BY <1>2 DEF RunStates
<1> HIDE DEF r
<1>4. AtPlace(r)
  BY <1>3, StartsAtFirst
<1> QED BY <1>1, <1>4, PlaceKept DEF Quiet, ProcBounds

LEMMA WriteLinePlace ==
    ASSUME ProcInv, ProcBounds, NEW c \in Clis, ProcInv', WriteLine(c)
    PROVE  ProcBounds'
<1> DEFINE old == executing[c]
           r == [old EXCEPT !.at = @ + 1]
<1>1. Become(c, r) /\ Quiet /\ old.pc = "write" /\ old.at <= Len(old.out)
  BY DEF WriteLine
<1>2. old \in RunStates
  BY DEF ProcInv
<1> HIDE DEF old
<1>3. r.pc = "write" /\ r.out = old.out /\ r.at = old.at + 1
      /\ old.at \in Nat \ {0} /\ old.out \in Seq(Procedure)
  BY <1>1, <1>2 DEF RunStates
<1> HIDE DEF r
<1>4. AtPlace(r)
  BY <1>1, <1>3 DEF AtPlace
<1> QED BY <1>1, <1>4, PlaceKept DEF Quiet, ProcBounds

LEMMA KillPlace ==
    ASSUME ProcInv, ProcBounds, NEW c \in Clis, ProcInv', Kill(c)
    PROVE  ProcBounds'
<1>1. /\ Become(c, Idle) /\ procRuns' = procRuns
      /\ procKills < MaxKills /\ procKills' = procKills + 1
  BY DEF Kill
<1>2. procRuns' \in 0..MaxRuns /\ procKills' \in 0..MaxKills
  BY <1>1, ProcAssumption DEF ProcBounds
<1> QED BY <1>1, <1>2, IdleAtPlace, PlaceKept

LEMMA PlacesStep == ProcInv /\ ProcBounds /\ [ProcNext]_procVars => ProcBounds'
<1> SUFFICES ASSUME ProcInv, ProcBounds, [ProcNext]_procVars PROVE ProcBounds'
  OBVIOUS
<1>1. ProcInv'
  BY ProcStep
<1>2. CASE UNCHANGED procVars
  BY <1>2 DEF ProcBounds, procVars
<1>3. CASE ProcNext
  <2> PICK c \in Clis :
        \/ Start(c) \/ Record(c) \/ AddStep(c) \/ FromSession(c) \/ SaveAll(c)
        \/ Outcome(c) \/ SetDisabled(c) \/ Health(c)
        \/ Replay(c) \/ ReplayStep(c) \/ ReplayEnd(c)
        \/ TruncateLines(c) \/ WriteLine(c) \/ EndRun(c) \/ Kill(c)
    BY <1>3 DEF ProcNext
  <2>1. CASE Record(c) \/ AddStep(c) \/ FromSession(c)
    BY <1>1, <2>1, StopKeepsPlaces, SaveNextPlace DEF Record, AddStep, FromSession
  <2>2. CASE SaveAll(c) \/ Outcome(c) \/ SetDisabled(c) \/ Health(c)
    BY <1>1, <2>2, StopKeepsPlaces, WriteNextPlace DEF SaveAll, Outcome, SetDisabled, Health
  <2>3. CASE Replay(c) \/ ReplayStep(c) \/ ReplayEnd(c)
    BY <1>1, <2>3, ReplayStarts, ReplayStepPlace, ReplayEndPlace
  <2>4. CASE Start(c) \/ TruncateLines(c) \/ WriteLine(c) \/ EndRun(c) \/ Kill(c)
    BY <1>1, <2>4, StartPlace, TruncatePlace, WriteLinePlace, StopKeepsPlaces, KillPlace DEF EndRun
  <2> QED BY <2>1, <2>2, <2>3, <2>4
<1> QED BY <1>2, <1>3

\* procedure.rs: the file has lines, however the runs that rewrite it overlap and are killed,
\* and no run reads past the steps it replays or the lines it writes.
THEOREM ProcTypeCorrect == ProcSpec => []ProcTypeOK
<1>1. ProcInit => ProcBounds
  BY IdleAtPlace, ProcAssumption DEF ProcInit, ProcBounds
<1>2. ProcInv /\ ProcBounds => ProcTypeOK
  <2> SUFFICES ASSUME ProcInv, ProcBounds PROVE ProcTypeOK
    OBVIOUS
  <2>1. ASSUME NEW c \in Clis
        PROVE  /\ executing[c].pc \in {"idle", "read", "save", "steps", "open", "write"}
               /\ executing[c].pc \in {"save", "steps"} => executing[c].item # NoItem
    BY ProcAssumption DEF ProcInv, RunStates, RunInv, Sane
  <2> QED BY <2>1 DEF ProcTypeOK, ProcInv, ProcBounds, AtPlace, Lines
<1> QED BY <1>1, <1>2, ProcInitInv, ProcStep, PlacesStep, PTL DEF ProcSpec

-----------------------------------------------------------------------------
(* The files together: a behaviour is of the one named by "which".          *)

filesVars == <<which, vars, sharedVars, procVars, configVars, backupVars>>

\* Whichever component moves, each behaves as it does by itself.
LEMMA FilesCompose ==
    FilesSpec => Spec /\ SharedSpec /\ ProcSpec /\ ConfigSpec /\ BackupSpec
<1>1. FilesInit => Init /\ SharedInit /\ ProcInit /\ ConfigInit /\ BackupInit
  BY DEF FilesInit
<1>2. [FilesNext]_filesVars =>
        /\ [Next]_vars /\ [SharedNext]_sharedVars /\ [ProcNext]_procVars
        /\ [ConfigNext]_configVars /\ [BackupNext]_backupVars
  BY DEF FilesNext, filesVars
<1> QED BY <1>1, <1>2, PTL DEF FilesSpec, Spec, SharedSpec, ProcSpec, ConfigSpec, BackupSpec, filesVars

\* What the stores, the procedures, the persisted configuration and the backups hold is of
\* their types, as long as no file selects a role it does not have.
THEOREM FilesTypesCorrect ==
    ASSUME FilesSelectOwn
    PROVE  FilesSpec => []TypesOK
<1>1. TypeOK /\ SharedTypeOK /\ ProcTypeOK /\ ConfigTypeOK /\ BackupTypeOK => TypesOK
  BY DEF TypesOK
<1> QED BY <1>1, FilesCompose, TypeCorrect, SharedTypeCorrect, ProcTypeCorrect, ConfigTypeCorrect,
           BackupsTypeCorrect, PTL

\* The safety properties that the files have alone they keep together, as they are checked.
THEOREM FilesSafe ==
    FilesSpec => /\ [](/\ AcknowledgedKept /\ CreatedKept /\ TrustEarned /\ AloneIsDurable
                       /\ AloneTakesEffect)
                 /\ Linearizable /\ StaysReadable
                 /\ RestoresWhatWasBackedUp /\ RuntimeChangesKept
BY FilesCompose, NothingAcknowledgedIsLost, CreatedIsKept, TrustIsEarned, AloneDurable,
   AloneIsExact, TakesEffectAtOnce, NeverUnreadableByItself, RestoresTheBackup, ChangesAreKept, PTL

=============================================================================
