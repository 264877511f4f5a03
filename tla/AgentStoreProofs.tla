--------------------------- MODULE AgentStoreProofs ---------------------------
(***************************************************************************)
(* Theorems about module AgentStore, for every set of processes, of ids    *)
(* and of corrections, and for every limit: what the store acknowledged it *)
(* keeps, it never makes its own directory unreadable, and it implements   *)
(* DurableStore.                                                           *)
(***************************************************************************)
EXTENDS AgentStore, FiniteSetTheorems, SequenceTheorems, TLAPS

\* What the operation of a process is, by the step it is at.
KindInv ==
    \A p \in Procs : pc[p] # "idle" =>
        /\ op[p].kind = "memory" => p \in StoreProcs /\ pc[p] \in {"read", "rename", "check"}
        /\ pc[p] \in {"find", "fill"} => p \in LegacyProcs
        /\ pc[p] \in {"admit", "find", "fill"} => op[p].kind \in {"learning", "correct"}
        /\ pc[p] = "rename" => op[p].kind # "export"
        /\ op[p].text \in IF op[p].kind = "correct" THEN Corrections ELSE {"plain"}

\* The memories are in the order their ids were drawn, and the one a process
\* is about to add comes after them all: nobody else wrote since it read.
MemoryInv ==
    /\ \A j, k \in DOMAIN memory : j < k => memory[j] < memory[k]
    /\ \A p \in Procs : pc[p] \in {"read", "rename"} /\ op[p].kind = "memory" =>
        /\ \A k \in DOMAIN memory : memory[k] < op[p].id
        /\ pc[p] = "rename" => seen[p] = memory
    /\ \A k \in DOMAIN memory : memory[k] <= drawn

\* What the process that holds the lock of the records knows of its record:
\* that it is there, that there is room for it, what it wrote, or that it tore it.
Knows(p) ==
    /\ pc[p] \in {"admit", "rename"} /\ op[p].kind = "correct" => records[op[p].id] # "absent"
    /\ pc[p] = "rename" /\ op[p].kind = "learning" =>
          records[op[p].id] = "absent" /\ Cardinality(Present) < MaxRecords
    /\ pc[p] = "check" /\ op[p].kind \in {"learning", "correct"} =>
          records[op[p].id] = op[p].text
    /\ pc[p] = "fill" => records[op[p].id] = "torn"

OnRecords(p) == pc[p] # "idle" /\ op[p].kind # "memory"
RecordInv == \A p \in Procs : OnRecords(p) => Knows(p)

TypeInv == TypeOK /\ seen \in [Procs -> [Ids -> Contents] \cup Seq(Ids)] /\ KindInv

SInv ==
    /\ TypeInv /\ MemoryInv /\ RecordInv /\ AcknowledgedKept

-----------------------------------------------------------------------------
(* The operators                                                           *)

\* The latest Cap items of the memories and a new one, place by place.
LEMMA KeepLatestIs ==
    ASSUME NEW s \in Seq(Ids), Len(s) <= Cap, NEW x \in Ids
    PROVE  LET t == KeepLatest(Append(s, x)) IN
           /\ t \in Seq(Ids)
           /\ Len(t) = IF Len(s) < Cap THEN Len(s) + 1 ELSE Cap
           /\ \A k \in 1 .. Len(t) :
                 t[k] = IF k = Len(t) THEN x ELSE s[k + (Len(s) + 1 - Len(t))]
<1> DEFINE a == Append(s, x)
           m == IF Len(a) > Cap THEN Len(a) - Cap + 1 ELSE 1
<1>1. /\ a \in Seq(Ids) /\ Len(a) = Len(s) + 1
      /\ \A k \in 1 .. Len(s) : a[k] = s[k]
      /\ a[Len(s) + 1] = x
  BY AppendProperties
<1>2. KeepLatest(Append(s, x)) = SubSeq(a, m, Len(a))
  BY DEF KeepLatest
<1>3. Len(s) \in Nat /\ Cap \in Nat \ {0}
  BY StoreAssumption, LenProperties
<1> HIDE DEF a
<1>4. /\ m \in 1 .. Len(a) /\ m \in Int /\ Len(a) \in Int
      /\ Len(a) - m + 1 = IF Len(s) < Cap THEN Len(s) + 1 ELSE Cap
  <2>1. Len(a) = Len(s) + 1 /\ Len(s) <= Cap
    BY <1>1
  <2>2. CASE Len(a) > Cap
    <3>1. m = Len(a) - Cap + 1
      BY <2>2
    <3> HIDE DEF m
    <3> QED BY <2>1, <2>2, <1>3, <3>1
  <2>3. CASE ~(Len(a) > Cap)
    <3>1. m = 1
      BY <2>3
    <3> HIDE DEF m
    <3> QED BY <2>1, <2>3, <1>3, <3>1
  <2> QED BY <2>2, <2>3
<1> HIDE DEF m
<1>5. \A k \in m .. Len(a) : a[k] \in Ids
  BY <1>1, <1>4, ElementOfSeq
<1>6. /\ SubSeq(a, m, Len(a)) \in Seq(Ids)
      /\ Len(SubSeq(a, m, Len(a))) = Len(a) - m + 1
      /\ \A k \in 1 .. Len(a) - m + 1 : SubSeq(a, m, Len(a))[k] = a[m + k - 1]
  BY <1>4, <1>5, SubSeqProperties
<1>7. \A k \in 1 .. Len(a) - m + 1 :
         a[m + k - 1] = IF k = Len(a) - m + 1 THEN x ELSE s[k + (Len(s) + 1 - (Len(a) - m + 1))]
  BY <1>1, <1>3, <1>4
<1> QED BY <1>2, <1>4, <1>6, <1>7

\* The end of a transaction leaves the type and the other transactions alone.
LEMMA FinishType ==
    ASSUME TypeInv, NEW p \in Procs, Finish(p)
    PROVE  /\ pc' \in [Procs -> {"idle", "read", "admit", "rename", "check", "find", "fill"}]
           /\ pc' = [pc EXCEPT ![p] = "idle"]
           /\ op' = [op EXCEPT ![p] = NoOp] /\ op' \in [Procs -> Op \cup {NoOp}]
           /\ seen' \in [Procs -> [Ids -> Contents] \cup Seq(Ids)]
           /\ memLock' \in StoreProcs \cup {None} /\ recLock' \in Procs \cup {None}
           /\ \A q \in Procs \ {p} : /\ memLock = q => memLock' = q
                                     /\ recLock = q => recLock' = q
<1>1. <<>> \in Seq(Ids)
  BY EmptySeq
<1> QED BY <1>1 DEF Finish, Goto, TypeInv, TypeOK

LEMMA InitSInv == Init => SInv
<1> SUFFICES ASSUME Init PROVE SInv
  OBVIOUS
<1> USE DEF Init
<1>1. <<>> \in Seq(Ids) /\ Len(<<>>) = 0
  BY EmptySeq
<1>2. TypeOK /\ seen \in [Procs -> [Ids -> Contents] \cup Seq(Ids)]
  BY <1>1, StoreAssumption DEF TypeOK, Contents
<1>3. KindInv /\ MemoryInv /\ RecordInv
  BY <1>1 DEF KindInv, MemoryInv, RecordInv, OnRecords
<1>4. AcknowledgedKept
  BY DEF AcknowledgedKept, CapturesKept, RecordsKept
<1> QED BY <1>2, <1>3, <1>4 DEF SInv, TypeInv

-----------------------------------------------------------------------------
(* Types, locks and kinds                                                  *)

LEMMA TypeStep == SInv /\ [Next]_vars => TypeInv'
<1> SUFFICES ASSUME SInv, [Next]_vars PROVE TypeInv'
  OBVIOUS
<1>0. TypeOK /\ KindInv /\ seen \in [Procs -> [Ids -> Contents] \cup Seq(Ids)]
  BY DEF SInv, TypeInv
<1>a. StoreProcs \subseteq Procs /\ LegacyProcs \subseteq Procs /\ None \notin Procs
  BY StoreAssumption DEF Procs
<1>b. drawn \in Nat /\ MaxIds \in Nat /\ drawn <= MaxIds
  BY <1>0, StoreAssumption DEF TypeOK
<1> USE DEF TypeInv, TypeOK, KindInv
<1>1. ASSUME NEW p \in Procs, BeginMemory(p)
      PROVE  TypeInv'
  <2>1. drawn' \in Ids /\ drawn' \in 0 .. MaxIds
    BY <1>1, <1>b DEF BeginMemory, Ids
  <2>2. [kind |-> "memory", id |-> drawn', text |-> "plain"] \in Op
    BY <2>1 DEF Op, Texts
  <2> QED BY <1>0, <1>a, <1>b, <1>1, <2>1, <2>2 DEF BeginMemory, store, history, Goto
<1>2. ASSUME NEW p \in Procs, NEW k \in {"learning", "correct", "export"}, NEW i \in Ids,
             NEW t \in IF k = "correct" THEN Corrections ELSE {"plain"},
             BeginLearning(p, k, i, t), drawn' \in drawn .. MaxIds, i <= drawn',
             k = "export" => p \in StoreProcs
      PROVE  TypeInv'
  <2>2. [kind |-> k, id |-> i, text |-> t] \in Op
    BY <1>2 DEF Op, Texts
  <2> QED BY <1>0, <1>a, <1>b, <1>2, <2>2 DEF BeginLearning, store, history, Goto, Ids, Procs
<1>3. ASSUME NEW p \in Procs, BeginCapture(p) \/ BeginCorrect(p) \/ BeginExport(p)
      PROVE  TypeInv'
  <2>1. CASE BeginCapture(p)
    <3>1. drawn' \in Ids /\ drawn' \in drawn .. MaxIds
      BY <2>1, <1>b DEF BeginCapture, Ids
    <3>2. BeginLearning(p, "learning", drawn', "plain")
      BY <2>1 DEF BeginCapture
    <3> QED BY <1>b, <1>2, <3>1, <3>2
  <2>2. CASE BeginCorrect(p)
    <3>1. PICK i \in 1 .. drawn, c \in Corrections : BeginLearning(p, "correct", i, c)
      BY <2>2 DEF BeginCorrect
    <3>2. i \in Ids /\ drawn' \in drawn .. MaxIds /\ i <= drawn'
      BY <2>2, <1>b DEF BeginCorrect, Ids
    <3>3. c \in IF "correct" = "correct" THEN Corrections ELSE {"plain"}
      OBVIOUS
    <3> QED BY <1>2, <3>1, <3>2, <3>3
  <2>3. CASE BeginExport(p)
    <3>1. BeginLearning(p, "export", drawn, "plain") /\ p \in StoreProcs
      BY <2>3 DEF BeginExport
    <3>2. drawn' = drawn /\ drawn \in Ids
      BY <2>3, <1>b DEF BeginExport, Ids
    <3> QED BY <1>b, <1>2, <3>1, <3>2
  <2> QED BY <1>3, <2>1, <2>2, <2>3
<1>6. ASSUME NEW p \in Procs, pc[p] # "idle"
      PROVE  op[p] \in Op /\ op[p].text \in Texts /\ op[p].id \in Ids
  <2>1. op[p].id \in 1 .. drawn
    BY <1>0, <1>6
  <2>2. op[p] # NoOp
    BY <2>1, <1>b DEF NoOp
  <2> QED BY <1>0, <2>2 DEF Op
<1>4. ASSUME NEW p \in Procs, ReadMemory(p) \/ ReadRecords(p) \/ Admit(p)
      PROVE  TypeInv'
  <2>1. CASE ReadMemory(p)
    BY <1>0, <1>a, <2>1 DEF ReadMemory, Goto, store, locks, history
  <2>2. CASE ReadRecords(p)
    <3>1. op[p].kind \in {"learning", "correct", "export"}
      BY <1>0, <1>6, <2>2 DEF ReadRecords, Op
    <3> QED BY <1>0, <1>a, <2>2, <3>1 DEF ReadRecords, Goto, store, locks, history
  <2>3. CASE Admit(p)
    BY <1>0, <1>a, <2>3 DEF Admit, Goto, store, locks, history
  <2> QED BY <1>4, <2>1, <2>2, <2>3
<1>5. ASSUME NEW p \in Procs, RenameMemory(p)
      PROVE  TypeInv'
  <2>1. seen[p] = memory /\ op[p].id \in Ids
    BY <1>5, <1>b DEF SInv, MemoryInv, RenameMemory, Ids
  <2>2. memory' \in Seq(Ids) /\ Len(memory') <= Cap
    BY <1>0, <1>5, <2>1, KeepLatestIs, StoreAssumption DEF RenameMemory
  <2> QED BY <1>0, <1>a, <1>5, <2>2 DEF RenameMemory, Goto, locks, history
<1>7. ASSUME NEW p \in Procs, RenameRecord(p)
      PROVE  TypeInv'
  BY <1>0, <1>a, <1>6, <1>7 DEF RenameRecord, Goto, locks, Contents
<1>8. ASSUME NEW p \in Procs, Truncate(p)
      PROVE  TypeInv'
  BY <1>0, <1>a, <1>6, <1>8 DEF Truncate, Goto, locks, Contents
<1>9. ASSUME NEW p \in Procs, ReturnMemory(p)
      PROVE  TypeInv'
  BY <1>0, <1>a, <1>6, <1>9, FinishType DEF ReturnMemory, store
<1>10. ASSUME NEW p \in Procs, pc[p] # "idle"
       PROVE  /\ [op[p] EXCEPT !.text = "plain"] \in Op
              /\ op[p].kind = "correct" => op[p].text \in Corrections
  BY <1>0, <1>6, <1>10 DEF Op, Texts
<1>11. ASSUME NEW p \in Procs, ReturnRecord(p)
       PROVE  TypeInv'
  <2>1. pc[p] # "idle" /\ Finish(p)
    BY <1>11 DEF ReturnRecord
  <2>2. acked' \subseteq Op /\ corrected' \in [Ids -> Corrections \cup {None}]
    BY <1>0, <1>6, <1>10, <1>11, <2>1 DEF ReturnRecord
  <2>3. UNCHANGED <<store, drawn, clobbered>>
    BY <1>11 DEF ReturnRecord
  <2>4. /\ pc' = [pc EXCEPT ![p] = "idle"] /\ op' = [op EXCEPT ![p] = NoOp]
        /\ pc' \in [Procs -> {"idle", "read", "admit", "rename", "check", "find", "fill"}]
        /\ op' \in [Procs -> Op \cup {NoOp}]
        /\ seen' \in [Procs -> [Ids -> Contents] \cup Seq(Ids)]
        /\ memLock' \in StoreProcs \cup {None} /\ recLock' \in Procs \cup {None}
        /\ \A q \in Procs \ {p} : /\ memLock = q => memLock' = q
                                  /\ recLock = q => recLock' = q
    BY <1>0, <2>1, FinishType
  <2> QED BY <1>0, <1>a, <2>2, <2>3, <2>4 DEF store
<1>12. ASSUME NEW p \in Procs, ReturnExport(p) \/ Abandon(p)
       PROVE  TypeInv'
  BY <1>0, <1>a, <1>12, FinishType DEF ReturnExport, Abandon, store, history
<1>13. ASSUME NEW p \in Procs, Fill(p)
       PROVE  TypeInv'
  <2>1. pc[p] # "idle" /\ Finish(p)
    BY <1>13 DEF Fill
  <2>2. /\ acked' \subseteq Op /\ corrected' \in [Ids -> Corrections \cup {None}]
        /\ records' \in [Ids -> Contents] /\ clobbered' \subseteq Ids
    BY <1>0, <1>6, <1>10, <1>13, <2>1 DEF Fill, Contents
  <2> QED BY <1>0, <1>a, <1>13, <2>1, <2>2, FinishType, SMTT(30) DEF Fill
<1>14. CASE UNCHANGED vars
  BY <1>0, <1>14 DEF vars, store, locks, history
<1> QED
  BY <1>1, <1>3, <1>4, <1>5, <1>7, <1>8, <1>9, <1>11, <1>12, <1>13, <1>14 DEF Next

-----------------------------------------------------------------------------
(* Memories                                                                *)

LEMMA MemoryStep == SInv /\ [Next]_vars => MemoryInv' /\ CapturesKept'
<1> SUFFICES ASSUME SInv, [Next]_vars PROVE MemoryInv' /\ CapturesKept'
  OBVIOUS
<1>0. TypeInv /\ TypeOK /\ KindInv /\ MemoryInv /\ CapturesKept
  BY DEF SInv, TypeInv, AcknowledgedKept
<1>1. drawn \in Nat /\ Cap \in Nat \ {0} /\ None \notin Procs /\ StoreProcs \subseteq Procs
  BY <1>0, StoreAssumption DEF TypeOK, Procs
<1>2. DOMAIN memory = 1 .. Len(memory) /\ Len(memory) \in Nat
      /\ \A k \in DOMAIN memory : memory[k] \in Ids /\ memory[k] \in Nat
  <2>1. memory \in Seq(Ids)
    BY <1>0 DEF TypeOK
  <2>2. DOMAIN memory = 1 .. Len(memory) /\ Len(memory) \in Nat
    BY <2>1, LenProperties
  <2>3. \A k \in 1 .. Len(memory) : memory[k] \in Ids
    BY <2>1, ElementOfSeq
  <2> QED BY <2>2, <2>3 DEF Ids
<1>3. \A p \in Procs : pc[p] # "idle" => op[p].id \in 1 .. drawn
  BY <1>0 DEF TypeOK
\* A step that leaves the memories, and what was acknowledged of them, alone.
<1>4. ASSUME UNCHANGED memory, drawn' \in Nat, drawn' >= drawn,
             \A a \in acked' : a.kind = "memory" => a \in acked,
             \A q \in Procs : pc'[q] \in {"read", "rename"} /\ op'[q].kind = "memory" =>
                /\ \A k \in DOMAIN memory : memory[k] < op'[q].id
                /\ pc'[q] = "rename" => seen'[q] = memory
      PROVE  MemoryInv' /\ CapturesKept'
  <2>1. MemoryInv'
    BY <1>0, <1>1, <1>2, <1>4 DEF MemoryInv
  <2>2. CapturesKept'
    BY <1>0, <1>4 DEF CapturesKept
  <2> QED BY <2>1, <2>2
<1>5. ASSUME NEW p \in Procs, BeginMemory(p)
      PROVE  MemoryInv' /\ CapturesKept'
  <2>1. \A k \in DOMAIN memory : memory[k] < drawn + 1
    BY <1>0, <1>1, <1>2 DEF MemoryInv
  <2>2. \A q \in Procs \ {p} : pc[q] # "idle" => op[q].kind # "memory"
    BY <1>0, <1>1, <1>5 DEF BeginMemory, TypeOK
  <2>3. \A q \in Procs \ {p} : pc'[q] = pc[q] /\ op'[q] = op[q]
    BY <1>0, <1>5 DEF BeginMemory, Goto, TypeOK
  <2>4. /\ op'[p].id = drawn + 1 /\ pc'[p] = "read"
        /\ UNCHANGED <<memory, acked>> /\ drawn' = drawn + 1
    BY <1>0, <1>5 DEF BeginMemory, Goto, TypeOK, store, history
  <2> QED BY <1>1, <1>4, <2>1, <2>2, <2>3, <2>4
\* A step of a process whose operation is on the records.
<1>6. ASSUME NEW p \in Procs, UNCHANGED memory, drawn' \in Nat, drawn' >= drawn,
             \A q \in Procs \ {p} : pc'[q] = pc[q] /\ op'[q] = op[q] /\ seen'[q] = seen[q],
             pc'[p] = "idle" \/ op'[p].kind # "memory",
             \A a \in acked' : a.kind = "memory" => a \in acked
      PROVE  MemoryInv' /\ CapturesKept'
  <2>1. ASSUME NEW q \in Procs, pc'[q] \in {"read", "rename"}, op'[q].kind = "memory"
        PROVE  /\ \A k \in DOMAIN memory : memory[k] < op'[q].id
               /\ pc'[q] = "rename" => seen'[q] = memory
    BY <1>0, <1>6, <2>1 DEF MemoryInv
  <2> QED BY <1>4, <1>6, <2>1
<1>7. ASSUME NEW p \in Procs, BeginCapture(p) \/ BeginCorrect(p) \/ BeginExport(p)
      PROVE  MemoryInv' /\ CapturesKept'
  <2>1. /\ UNCHANGED <<memory, acked, seen>> /\ op'[p].kind # "memory"
        /\ \A q \in Procs \ {p} : pc'[q] = pc[q] /\ op'[q] = op[q]
    BY <1>0, <1>7 DEF BeginCapture, BeginCorrect, BeginExport, BeginLearning, Goto,
                      store, history, TypeInv, TypeOK
  <2>2. drawn' \in Nat /\ drawn' >= drawn
    BY <1>1, <1>7 DEF BeginCapture, BeginCorrect, BeginExport
  <2> QED BY <1>6, <2>1, <2>2
<1>8. ASSUME NEW p \in Procs, ReadRecords(p) \/ Admit(p)
      PROVE  MemoryInv' /\ CapturesKept'
  <2>1. op[p].kind # "memory"
    BY <1>0, <1>8 DEF ReadRecords, Admit, KindInv
  <2> QED BY <1>0, <1>1, <1>6, <1>8, <2>1
          DEF ReadRecords, Admit, Goto, store, history, TypeInv, TypeOK
<1>9. ASSUME NEW p \in Procs, RenameRecord(p) \/ Truncate(p)
      PROVE  MemoryInv' /\ CapturesKept'
  <2>1. op[p].kind # "memory"
    BY <1>0, <1>9 DEF RenameRecord, Truncate, KindInv
  <2> QED BY <1>0, <1>1, <1>6, <1>9, <2>1
          DEF RenameRecord, Truncate, Goto, TypeInv, TypeOK
<1>10. ASSUME NEW p \in Procs, Finish(p)
       PROVE  /\ pc'[p] = "idle"
              /\ \A q \in Procs \ {p} : pc'[q] = pc[q] /\ op'[q] = op[q] /\ seen'[q] = seen[q]
  BY <1>0, <1>10 DEF Finish, Goto, TypeInv, TypeOK
<1>11. ASSUME NEW p \in Procs, ReturnRecord(p) \/ Fill(p)
       PROVE  MemoryInv' /\ CapturesKept'
  <2>1. op[p].kind # "memory" /\ op[p] \in Op
    BY <1>0, <1>1, <1>11 DEF ReturnRecord, Fill, KindInv, TypeOK, NoOp
  <2>2. acked' = acked \cup {[op[p] EXCEPT !.text = "plain"]}
    BY <1>11 DEF ReturnRecord, Fill
  <2>3. \A a \in acked' : a.kind = "memory" => a \in acked
    BY <2>1, <2>2 DEF Op
  <2>4. Finish(p) /\ UNCHANGED <<memory, drawn>>
    BY <1>11 DEF ReturnRecord, Fill, store
  <2> QED BY <1>1, <1>6, <1>10, <2>3, <2>4
<1>12. ASSUME NEW p \in Procs, ReturnExport(p) \/ Abandon(p)
       PROVE  MemoryInv' /\ CapturesKept'
  <2>1. Finish(p) /\ UNCHANGED <<memory, drawn, acked>>
    BY <1>12 DEF ReturnExport, Abandon, store, history
  <2> QED BY <1>1, <1>6, <1>10, <2>1
<1>13. ASSUME NEW p \in Procs, ReadMemory(p)
       PROVE  MemoryInv' /\ CapturesKept'
  <2>1. /\ UNCHANGED <<memory, drawn, acked, op>> /\ seen'[p] = memory /\ pc[p] = "read"
        /\ \A q \in Procs \ {p} : pc'[q] = pc[q] /\ seen'[q] = seen[q]
    BY <1>0, <1>13 DEF ReadMemory, Goto, store, history, TypeInv, TypeOK
  <2>2. ASSUME NEW q \in Procs, pc'[q] \in {"read", "rename"}, op'[q].kind = "memory"
        PROVE  /\ \A k \in DOMAIN memory : memory[k] < op'[q].id
               /\ pc'[q] = "rename" => seen'[q] = memory
    BY <1>0, <2>1, <2>2 DEF MemoryInv
  <2> QED BY <1>1, <1>4, <2>1, <2>2
<1>14. ASSUME NEW p \in Procs, RenameMemory(p)
       PROVE  MemoryInv' /\ CapturesKept'
  <2> DEFINE x == op[p].id
             d == Len(memory) + 1 - Len(memory')
  <2>1. seen[p] = memory /\ x \in 1 .. drawn /\ x \in Ids /\ x \in Nat
        /\ \A k \in DOMAIN memory : memory[k] < x
    <3>1. pc[p] = "rename" /\ op[p].kind = "memory"
      BY <1>14 DEF RenameMemory
    <3>2. x \in 1 .. drawn /\ drawn <= MaxIds /\ MaxIds \in Nat
      BY <1>0, <1>3, <3>1, StoreAssumption DEF TypeOK
    <3> HIDE DEF x
    <3>3. x \in Ids /\ x \in Nat
      BY <1>1, <3>2 DEF Ids
    <3> USE DEF x
    <3> QED BY <1>0, <3>1, <3>2, <3>3 DEF MemoryInv
  <2>2. /\ UNCHANGED <<drawn, acked, op, seen>>
        /\ memory' = KeepLatest(Append(memory, x))
        /\ \A q \in Procs : pc'[q] = IF q = p THEN "check" ELSE pc[q]
    BY <1>0, <1>14, <2>1 DEF RenameMemory, Goto, TypeOK, history
  <2>3. Len(memory) <= Cap /\ memory \in Seq(Ids)
    BY <1>0 DEF TypeOK
  <2>4. /\ memory' \in Seq(Ids)
        /\ Len(memory') = IF Len(memory) < Cap THEN Len(memory) + 1 ELSE Cap
        /\ \A k \in 1 .. Len(memory') :
              memory'[k] = IF k = Len(memory') THEN x ELSE memory[k + d]
    BY <2>1, <2>2, <2>3, KeepLatestIs, ZenonT(40)
  <2>5. DOMAIN memory' = 1 .. Len(memory') /\ Len(memory') \in Nat
    BY <2>4, LenProperties
  <2>6. d \in {0, 1} /\ Len(memory') > 0
    BY <1>1, <1>2, <2>3, <2>4
  <2> HIDE DEF x, d
  <2>7. \A k \in DOMAIN memory' : k # Len(memory') => k + d \in DOMAIN memory
    <3>1. Len(memory') + d = Len(memory) + 1
      <4> USE DEF d
      <4> QED BY <1>2, <2>5
    <3> QED BY <1>2, <2>5, <2>6, <3>1
  <2>8. \A q \in Procs : pc'[q] \in {"read", "rename"} => op'[q].kind # "memory"
    BY <1>0, <1>1, <1>14, <2>2 DEF TypeOK, RenameMemory
  <2>9. \A j, k \in DOMAIN memory' : j < k => memory'[j] < memory'[k]
    <3> SUFFICES ASSUME NEW j \in DOMAIN memory', NEW k \in DOMAIN memory', j < k
                 PROVE  memory'[j] < memory'[k]
      OBVIOUS
    <3>1. j # Len(memory') /\ j + d \in DOMAIN memory /\ memory'[j] = memory[j + d]
      BY <2>4, <2>5, <2>7
    <3>2. CASE k = Len(memory')
      BY <2>1, <2>4, <2>5, <3>1, <3>2
    <3>3. CASE k # Len(memory')
      BY <1>0, <2>4, <2>5, <2>6, <2>7, <3>1, <3>3 DEF MemoryInv
    <3> QED BY <3>2, <3>3
  <2>10. \A k \in DOMAIN memory' : memory'[k] <= drawn'
    BY <1>0, <1>1, <1>2, <2>1, <2>2, <2>4, <2>5, <2>7 DEF MemoryInv
  <2>11. MemoryInv'
    BY <2>8, <2>9, <2>10 DEF MemoryInv
  <2>12. ASSUME NEW a \in acked', a.kind = "memory"
         PROVE  \/ \E k \in DOMAIN memory' : memory'[k] = a.id
                \/ Len(memory') = Cap /\ \A k \in DOMAIN memory' : memory'[k] > a.id
    <3>0. a \in acked /\ a.id \in Nat
      BY <1>0, <2>2, <2>12 DEF TypeOK, Op, Ids
    <3>1. CASE \E k \in DOMAIN memory : memory[k] = a.id
      <4>1. PICK k \in DOMAIN memory : memory[k] = a.id
        BY <3>1
      <4>2. CASE k > d
        <5>1. k - d \in DOMAIN memory' /\ k - d # Len(memory') /\ (k - d) + d = k
          <6> USE DEF d
          <6> QED BY <1>2, <2>4, <2>5, <2>6, <4>1, <4>2
        <5>2. memory'[k - d] = a.id
          BY <2>4, <2>5, <4>1, <5>1
        <5> QED BY <5>1, <5>2
      <4>3. CASE ~(k > d)
        <5>1. k = 1 /\ d = 1 /\ Len(memory') = Cap
          <6>1. k = 1 /\ d = 1
            BY <1>2, <2>6, <4>1, <4>3
          <6>2. Len(memory') + d = Len(memory) + 1
            <7> USE DEF d
            <7> QED BY <1>2, <2>5
          <6> QED BY <1>1, <1>2, <2>3, <2>4, <2>5, <6>1, <6>2
        <5>2. \A i \in DOMAIN memory' : memory'[i] > a.id
          BY <1>0, <1>2, <2>1, <2>4, <2>5, <2>7, <4>1, <5>1 DEF MemoryInv
        <5> QED BY <5>1, <5>2
      <4> QED BY <4>2, <4>3
    <3>2. CASE Len(memory) = Cap /\ \A k \in DOMAIN memory : memory[k] > a.id
      <4>1. x > a.id
        <5>1. 1 \in DOMAIN memory
          BY <1>1, <1>2, <3>2
        <5>2. memory[1] > a.id /\ memory[1] < x /\ memory[1] \in Nat
          BY <1>2, <2>1, <3>2, <5>1
        <5> QED BY <2>1, <3>0, <5>2
      <4>2. Len(memory') = Cap
        BY <2>4, <3>2
      <4>3. \A k \in DOMAIN memory' : memory'[k] > a.id
        BY <2>4, <2>5, <2>7, <3>2, <4>1
      <4> QED BY <4>2, <4>3
    <3> QED BY <1>0, <2>12, <3>0, <3>1, <3>2 DEF CapturesKept
  <2> QED BY <2>11, <2>12 DEF CapturesKept
<1>15. ASSUME NEW p \in Procs, ReturnMemory(p)
       PROVE  MemoryInv' /\ CapturesKept'
  <2>1. /\ UNCHANGED <<memory, drawn>> /\ Finish(p) /\ acked' = acked \cup {op[p]}
        /\ \E k \in DOMAIN memory : memory[k] = op[p].id
    BY <1>15 DEF ReturnMemory, store
  <2>2. CapturesKept'
    BY <1>0, <2>1 DEF CapturesKept
  <2>3. MemoryInv'
    BY <1>0, <1>10, <2>1 DEF MemoryInv
  <2> QED BY <2>2, <2>3
<1>16. CASE UNCHANGED vars
  BY <1>0, <1>16 DEF vars, store, history, MemoryInv, CapturesKept
<1> QED
  BY <1>5, <1>7, <1>8, <1>9, <1>11, <1>12, <1>13, <1>14, <1>15, <1>16 DEF Next

-----------------------------------------------------------------------------
(* Learning records                                                        *)

LEMMA RecordStep == SInv /\ [Next]_vars => RecordInv' /\ RecordsKept'
<1> SUFFICES ASSUME SInv, [Next]_vars PROVE RecordInv' /\ RecordsKept'
  OBVIOUS
<1>0. TypeInv /\ TypeOK /\ KindInv /\ RecordInv /\ RecordsKept
  BY DEF SInv, TypeInv, AcknowledgedKept
<1>1. /\ pc \in [Procs -> {"idle", "read", "admit", "rename", "check", "find", "fill"}]
      /\ op \in [Procs -> Op \cup {NoOp}] /\ records \in [Ids -> Contents]
      /\ corrected \in [Ids -> Corrections \cup {None}] /\ None \notin Procs
      /\ StoreProcs \subseteq Procs
  BY <1>0, StoreAssumption DEF TypeOK, Procs
<1>2. ASSUME NEW p \in Procs, pc[p] # "idle"
      PROVE  /\ op[p] \in Op /\ op[p].id \in Ids
             /\ op[p].kind = "correct" => op[p].text \in Corrections
             /\ op[p].kind # "correct" => op[p].text = "plain"
  <2>1. op[p].id \in 1 .. drawn
    BY <1>0, <1>2 DEF TypeOK
  <2>2. op[p] # NoOp
    BY <2>1 DEF NoOp
  <2> QED BY <1>0, <1>1, <1>2, <2>2 DEF Op, KindInv
\* One operation at a time is on the records.
<1>3. ASSUME NEW p \in Procs, OnRecords(p), NEW q \in Procs \ {p}
      PROVE  ~OnRecords(q)
  BY <1>0, <1>3 DEF TypeOK, OnRecords
\* A step of a process whose operation is not on the records.
<1>4. ASSUME NEW p \in Procs, UNCHANGED <<records, clobbered, corrected>>,
             \A a \in acked' : a.kind # "memory" => a \in acked,
             \A q \in Procs \ {p} : pc'[q] = pc[q] /\ op'[q] = op[q],
             ~OnRecords(p)' \/ pc'[p] \in {"read", "find"}
      PROVE  RecordInv' /\ RecordsKept'
  <2>1. RecordsKept'
    BY <1>0, <1>4 DEF RecordsKept
  <2>2. ASSUME NEW q \in Procs, OnRecords(q)'
        PROVE  Knows(q)'
    <3>1. CASE q = p
      BY <1>4, <2>2, <3>1 DEF Knows
    <3>2. CASE q # p
      <4>1. Knows(q)
        BY <1>0, <1>4, <2>2, <3>2 DEF RecordInv, OnRecords
      <4> QED BY <1>4, <3>2, <4>1 DEF Knows, Present
    <3> QED BY <3>1, <3>2
  <2> QED BY <2>1, <2>2 DEF RecordInv
\* A step of the process whose operation is on the records.
<1>5. ASSUME NEW p \in Procs, OnRecords(p),
             \A q \in Procs \ {p} : pc'[q] = pc[q] /\ op'[q] = op[q],
             pc'[p] = "idle" \/ Knows(p)'
      PROVE  RecordInv'
  BY <1>3, <1>5 DEF RecordInv, OnRecords
<1>6. ASSUME NEW p \in Procs, BeginMemory(p)
      PROVE  RecordInv' /\ RecordsKept'
  <2>1. /\ UNCHANGED <<records, clobbered, corrected, acked>>
        /\ pc'[p] = "read" /\ \A q \in Procs \ {p} : pc'[q] = pc[q] /\ op'[q] = op[q]
    BY <1>1, <1>6 DEF BeginMemory, Goto, store, history
  <2> QED BY <1>4, <2>1
<1>7. ASSUME NEW p \in Procs, BeginCapture(p) \/ BeginCorrect(p) \/ BeginExport(p)
      PROVE  RecordInv' /\ RecordsKept'
  <2>1. /\ UNCHANGED <<records, clobbered, corrected, acked>>
        /\ pc'[p] \in {"read", "find"}
        /\ \A q \in Procs \ {p} : pc'[q] = pc[q] /\ op'[q] = op[q]
    BY <1>1, <1>7 DEF BeginCapture, BeginCorrect, BeginExport, BeginLearning, Goto, store, history
  <2> QED BY <1>4, <2>1
<1>8. ASSUME NEW p \in Procs, ReadMemory(p) \/ RenameMemory(p)
      PROVE  RecordInv' /\ RecordsKept'
  <2>1. /\ UNCHANGED <<records, clobbered, corrected, acked, op>> /\ op[p].kind = "memory"
        /\ \A q \in Procs \ {p} : pc'[q] = pc[q]
    BY <1>1, <1>8 DEF ReadMemory, RenameMemory, Goto, store, history
  <2> QED BY <1>4, <2>1 DEF OnRecords
<1>9. ASSUME NEW p \in Procs, Finish(p)
      PROVE  /\ pc'[p] = "idle"
             /\ \A q \in Procs \ {p} : pc'[q] = pc[q] /\ op'[q] = op[q]
  BY <1>1, <1>9 DEF Finish, Goto
<1>10. ASSUME NEW p \in Procs, ReturnMemory(p)
       PROVE  RecordInv' /\ RecordsKept'
  <2>1. /\ UNCHANGED <<records, clobbered, corrected>> /\ Finish(p)
        /\ acked' = acked \cup {op[p]} /\ op[p].kind = "memory"
    BY <1>10 DEF ReturnMemory, store
  <2> QED BY <1>4, <1>9, <2>1 DEF OnRecords
<1>11. ASSUME NEW p \in Procs, ReturnExport(p) \/ Abandon(p)
       PROVE  RecordInv' /\ RecordsKept'
  <2>1. UNCHANGED <<records, clobbered, corrected, acked>> /\ Finish(p)
    BY <1>11 DEF ReturnExport, Abandon, store, history
  <2> QED BY <1>4, <1>9, <2>1 DEF OnRecords
<1>12. ASSUME NEW p \in Procs, ReadRecords(p) \/ Admit(p)
       PROVE  RecordInv' /\ RecordsKept'
  <2>1. /\ UNCHANGED <<records, clobbered, corrected, acked, op>>
        /\ OnRecords(p) /\ \A q \in Procs \ {p} : pc'[q] = pc[q]
    BY <1>0, <1>1, <1>12 DEF ReadRecords, Admit, Goto, OnRecords, KindInv, store, history
  <2>2. Knows(p)'
    <3>1. CASE ReadRecords(p)
      BY <1>1, <2>1, <3>1 DEF ReadRecords, Goto, Knows
    <3>2. CASE Admit(p)
      BY <1>0, <1>1, <2>1, <3>2 DEF Admit, Goto, Knows, Present, RecordInv
    <3> QED BY <1>12, <3>1, <3>2
  <2>3. RecordsKept'
    BY <1>0, <2>1 DEF RecordsKept
  <2> QED BY <1>5, <2>1, <2>2, <2>3
<1>13. ASSUME NEW p \in Procs, RenameRecord(p)
       PROVE  RecordInv' /\ RecordsKept'
  <2>1. /\ UNCHANGED <<clobbered, acked, op>> /\ OnRecords(p) /\ pc'[p] = "check"
        /\ \A q \in Procs \ {p} : pc'[q] = pc[q]
        /\ records' = [records EXCEPT ![op[p].id] = op[p].text]
        /\ corrected' = [corrected EXCEPT ![op[p].id] = None]
    BY <1>1, <1>13 DEF RenameRecord, Goto, OnRecords
  <2>2. op[p].id \in Ids /\ op[p].text \in Texts
    BY <1>2, <2>1 DEF OnRecords, Op
  <2>3. Knows(p)'
    BY <1>1, <2>1, <2>2 DEF Knows
  <2>4. RecordsKept'
    BY <1>0, <1>1, <2>1, <2>2 DEF RecordsKept, Op, TypeOK
  <2> QED BY <1>5, <2>1, <2>3, <2>4
<1>14. ASSUME NEW p \in Procs, ReturnRecord(p)
       PROVE  RecordInv' /\ RecordsKept'
  <2>1. /\ UNCHANGED <<records, clobbered>> /\ OnRecords(p) /\ Finish(p)
        /\ op[p].kind \in {"learning", "correct"}
        /\ acked' = acked \cup {[op[p] EXCEPT !.text = "plain"]}
        /\ corrected' = [corrected EXCEPT ![op[p].id] =
                           IF op[p].kind = "correct" THEN op[p].text ELSE None]
    BY <1>14 DEF ReturnRecord, OnRecords, store
  <2>2. op[p].id \in Ids /\ op[p] \in Op
    BY <1>2, <2>1 DEF OnRecords
  <2>3. records[op[p].id] = op[p].text
    BY <1>0, <1>14, <2>1 DEF RecordInv, Knows, ReturnRecord
  <2>4. op[p].text \in Texts
    BY <1>2, <2>1 DEF OnRecords, Texts
  <2>5. ASSUME NEW a \in acked', a.kind # "memory"
        PROVE  \/ a.id \in clobbered'
               \/ records'[a.id] \in Texts /\ corrected'[a.id] \in {None, records'[a.id]}
    <3>1. CASE a \in acked
      <4>1. a.id \in Ids
        BY <1>0, <3>1 DEF TypeOK, Op
      <4> QED BY <1>0, <1>1, <2>1, <2>2, <2>3, <2>5, <3>1, <4>1 DEF RecordsKept
    <3>2. CASE a = [op[p] EXCEPT !.text = "plain"]
      <4>1. a.id = op[p].id
        BY <2>2, <3>2 DEF Op
      <4> QED BY <1>1, <2>1, <2>2, <2>3, <2>4, <4>1
    <3> QED BY <2>1, <2>5, <3>1, <3>2
  <2>6. RecordsKept'
    BY <2>5 DEF RecordsKept
  <2> QED BY <1>5, <1>9, <2>1, <2>6
<1>15. ASSUME NEW p \in Procs, Truncate(p)
       PROVE  RecordInv' /\ RecordsKept'
  <2>1. /\ UNCHANGED <<acked, op>> /\ OnRecords(p) /\ pc'[p] = "fill"
        /\ \A q \in Procs \ {p} : pc'[q] = pc[q]
        /\ records' = [records EXCEPT ![op[p].id] = "torn"]
        /\ corrected' = [corrected EXCEPT ![op[p].id] = None]
        /\ clobbered' = clobbered \cup {op[p].id}
    BY <1>0, <1>1, <1>15 DEF Truncate, Goto, OnRecords, KindInv
  <2>2. op[p].id \in Ids
    BY <1>2, <2>1 DEF OnRecords
  <2>3. Knows(p)'
    BY <1>1, <2>1, <2>2 DEF Knows
  <2>4. RecordsKept'
    BY <1>0, <1>1, <2>1, <2>2 DEF RecordsKept, Op, TypeOK
  <2> QED BY <1>5, <2>1, <2>3, <2>4
<1>16. ASSUME NEW p \in Procs, Fill(p)
       PROVE  RecordInv' /\ RecordsKept'
  <2>1. /\ OnRecords(p) /\ Finish(p)
        /\ records' = [records EXCEPT ![op[p].id] = op[p].text]
        /\ clobbered' = clobbered \ {op[p].id}
        /\ acked' = acked \cup {[op[p] EXCEPT !.text = "plain"]}
        /\ corrected' = [corrected EXCEPT ![op[p].id] =
                           IF op[p].kind = "correct" THEN op[p].text ELSE None]
    BY <1>0, <1>16 DEF Fill, OnRecords, KindInv
  <2>2. op[p].id \in Ids /\ op[p] \in Op
    BY <1>2, <2>1 DEF OnRecords
  <2>3. op[p].text \in Texts
    BY <1>2, <2>1 DEF OnRecords, Texts
  <2>4. ASSUME NEW a \in acked', a.kind # "memory"
        PROVE  \/ a.id \in clobbered'
               \/ records'[a.id] \in Texts /\ corrected'[a.id] \in {None, records'[a.id]}
    <3>1. CASE a.id = op[p].id
      BY <1>1, <2>1, <2>2, <2>3, <3>1
    <3>2. CASE a.id # op[p].id
      <4>1. a \in acked
        BY <2>1, <2>2, <3>2 DEF Op
      <4>2. a.id \in Ids
        BY <1>0, <4>1 DEF TypeOK, Op
      <4> QED BY <1>0, <1>1, <2>1, <2>2, <2>4, <3>2, <4>1, <4>2 DEF RecordsKept
    <3> QED BY <3>1, <3>2
  <2>5. RecordsKept'
    BY <2>4 DEF RecordsKept
  <2> QED BY <1>5, <1>9, <2>1, <2>5
<1>17. CASE UNCHANGED vars
  BY <1>0, <1>17 DEF vars, store, history, RecordInv, RecordsKept, OnRecords, Knows, Present
<1> QED
  BY <1>6, <1>7, <1>8, <1>10, <1>11, <1>12, <1>13, <1>14, <1>15, <1>16, <1>17 DEF Next

-----------------------------------------------------------------------------
(* Theorems                                                                *)

LEMMA Invariance == Spec => []SInv
<1>1. SInv /\ [Next]_vars => SInv'
  BY TypeStep, MemoryStep, RecordStep DEF SInv, AcknowledgedKept
<1> QED BY InitSInv, <1>1, PTL DEF Spec

\* Every variable keeps its type, and a transaction that is under way holds the
\* lock of the file it writes.
THEOREM TypeCorrect == Spec => []TypeOK
<1>1. SInv => TypeOK
  BY DEF SInv, TypeInv
<1> QED BY Invariance, <1>1, PTL

\* What the store reported as saved survives whoever else captures, corrects,
\* fails or dies, in any order (write_atomic under the lock of agent_store.rs).
THEOREM NothingAcknowledgedIsLost == Spec => []AcknowledgedKept
<1>1. SInv => AcknowledgedKept
  BY DEF SInv
<1> QED BY Invariance, <1>1, PTL

LEMMA ReadableStep ==
    ASSUME SInv, Next, Readable(records), ~Readable(records')
    PROVE  \E p \in LegacyProcs : pc[p] = "find"
<1>0. TypeOK /\ KindInv /\ RecordInv /\ records \in [Ids -> Contents] /\ MaxIds \in Nat
  BY StoreAssumption DEF SInv, TypeInv, TypeOK
<1>1. PICK p \in Procs : RenameRecord(p) \/ Truncate(p) \/ Fill(p)
  BY DEF Next, BeginMemory, BeginCapture, BeginCorrect, BeginExport, BeginLearning,
         ReadMemory, ReadRecords, Admit, RenameMemory, ReturnMemory, ReturnRecord,
         ReturnExport, Abandon, store
<1>2. op[p].id \in Ids /\ pc[p] # "idle" /\ op[p].kind # "memory"
  <2>1. pc[p] # "idle" /\ op[p].kind # "memory"
    BY <1>0, <1>1 DEF RenameRecord, Truncate, Fill, KindInv
  <2>2. op[p].id \in 1 .. drawn /\ drawn <= MaxIds /\ drawn \in Nat
    BY <1>0, <2>1 DEF TypeOK
  <2> QED BY <1>0, <2>1, <2>2 DEF Ids
<1>3. CASE Truncate(p)
  BY <1>0, <1>2, <1>3 DEF Truncate, KindInv
<1>4. CASE Fill(p)
  <2>1. records[op[p].id] = "torn"
    BY <1>0, <1>2, <1>4 DEF Fill, RecordInv, OnRecords, Knows
  <2> QED BY <1>2, <2>1 DEF Readable
<1>5. CASE RenameRecord(p)
  <2> DEFINE i == op[p].id
             After == {j \in Ids : records'[j] # "absent"}
  <2>1. /\ records' = [records EXCEPT ![i] = op[p].text]
        /\ op[p].text \in {"plain"} \cup Corrections /\ op[p].kind \in {"learning", "correct"}
        /\ Knows(p) /\ pc[p] = "rename"
    <3>1. op[p] \in Op
      BY <1>0, <1>2 DEF TypeOK, NoOp, Ids
    <3> QED BY <1>0, <1>2, <1>5, <3>1 DEF RenameRecord, KindInv, RecordInv, OnRecords, Op
  <2>2. op[p].text \notin {"torn", "absent"}
    BY <2>1, StoreAssumption
  <2>3. \A j \in Ids : records'[j] # "torn"
    BY <1>0, <1>2, <2>1, <2>2 DEF Readable
  <2>4. IsFiniteSet(Present)
    <3>1. IsFiniteSet(Ids)
      BY <1>0, FS_Interval DEF Ids
    <3>2. Present \in SUBSET Ids
      BY DEF Present
    <3> QED BY <3>1, <3>2, FS_Subset
  <2>5. After = Present \cup {i}
    BY <1>0, <1>2, <2>1, <2>2 DEF Present
  <2>6. Cardinality(After) <= MaxRecords
    <3>1. CASE op[p].kind = "correct"
      <4>1. i \in Present
        BY <1>2, <2>1, <3>1 DEF Knows, Present
      <4>2. After = Present
        BY <2>5, <4>1
      <4> QED BY <4>2 DEF Readable, Present
    <3>2. CASE op[p].kind = "learning"
      <4>1. i \notin Present /\ Cardinality(Present) < MaxRecords
        BY <2>1, <3>2 DEF Knows, Present
      <4>2. Cardinality(After) = Cardinality(Present) + 1 /\ Cardinality(Present) \in Nat
        BY <2>4, <2>5, <4>1, FS_AddElement, FS_CardinalityType
      <4> QED BY <4>1, <4>2, StoreAssumption
    <3> QED BY <2>1, <3>1, <3>2
  <2> QED BY <2>3, <2>6 DEF Readable
<1> QED BY <1>1, <1>3, <1>4, <1>5

\* The limits the store checks before it writes are those it checks when it
\* reads: only an older command makes the directory unreadable, by tearing a
\* record (learning_records and commit_staged_learning of learnings.rs).
THEOREM NeverUnreadableByItself == Spec => StaysReadable
<1>1. SInv /\ [Next]_vars
        => [Readable(records) /\ ~Readable(records')
              => \E p \in LegacyProcs : pc[p] = "find"]_vars
  BY ReadableStep
<1> QED BY Invariance, <1>1, PTL DEF Spec, StaysReadable

\* Every step of a transaction is a step of DurableStore, or leaves the files alone.
LEMMA DurableStep == SInv /\ [Next]_vars => [Durable!Next]_<<memory, records>>
<1> SUFFICES ASSUME SInv, [Next]_vars PROVE [Durable!Next]_<<memory, records>>
  OBVIOUS
<1>0. TypeOK /\ KindInv /\ MemoryInv /\ RecordInv
  BY DEF SInv, TypeInv
<1>1. ASSUME NEW p \in Procs, pc[p] # "idle"
      PROVE  /\ op[p].id \in Ids
             /\ op[p].kind = "correct" => op[p].text \in Corrections
             /\ op[p].kind # "correct" => op[p].text = "plain"
  <2>1. op[p].id \in 1 .. drawn /\ drawn \in Nat /\ drawn <= MaxIds /\ MaxIds \in Nat
    BY <1>0, <1>1, StoreAssumption DEF TypeOK
  <2>2. op[p].id \in Ids
    BY <2>1 DEF Ids
  <2> QED BY <1>0, <1>1, <2>2 DEF KindInv
<1>2. ASSUME NEW p \in Procs, RenameMemory(p)
      PROVE  Durable!Next
  <2>1. seen[p] = memory /\ op[p].id \in Ids
    BY <1>0, <1>1, <1>2 DEF RenameMemory, MemoryInv
  <2>2. memory' = Durable!KeepLatest(Append(memory, op[p].id)) /\ UNCHANGED records
    BY <1>2, <2>1 DEF RenameMemory, KeepLatest, Durable!KeepLatest
  <2> QED BY <2>1, <2>2 DEF Durable!Next, Durable!Capture
<1>3. ASSUME NEW p \in Procs, RenameRecord(p)
      PROVE  Durable!Next
  <2>1. /\ op[p].id \in Ids /\ UNCHANGED memory
        /\ records' = [records EXCEPT ![op[p].id] = op[p].text]
    BY <1>1, <1>3 DEF RenameRecord
  <2>2. CASE op[p].kind = "correct"
    <3>1. records[op[p].id] # "absent" /\ op[p].text \in Corrections
      BY <1>0, <1>1, <1>3, <2>2 DEF RenameRecord, RecordInv, OnRecords, Knows
    <3> QED BY <2>1, <3>1 DEF Durable!Next, Durable!Correct
  <2>3. CASE op[p].kind # "correct"
    <3>1. op[p].kind = "learning"
      <4>1. op[p] \in Op
        BY <1>0, <1>1, <1>3 DEF TypeOK, NoOp, Ids, RenameRecord
      <4> QED BY <1>0, <1>3, <2>3, <4>1 DEF KindInv, Op, RenameRecord
    <3>2. records[op[p].id] = "absent" /\ op[p].text = "plain"
      BY <1>0, <1>1, <1>3, <3>1 DEF RenameRecord, RecordInv, OnRecords, Knows
    <3> QED BY <2>1, <3>2 DEF Durable!Next, Durable!Record
  <2> QED BY <2>2, <2>3
<1>4. ASSUME NEW p \in Procs, Truncate(p)
      PROVE  Durable!Next
  BY <1>1, <1>4 DEF Truncate, Durable!Next, Durable!Tear
<1>5. ASSUME NEW p \in Procs, Fill(p)
      PROVE  Durable!Next
  <2>1. /\ op[p].id \in Ids /\ UNCHANGED memory
        /\ records' = [records EXCEPT ![op[p].id] = op[p].text]
    BY <1>1, <1>5 DEF Fill
  <2>2. records[op[p].id] = "torn" /\ op[p].kind \in {"learning", "correct"}
    BY <1>0, <1>5 DEF Fill, RecordInv, OnRecords, Knows, KindInv
  <2>3. CASE op[p].kind = "correct"
    BY <1>1, <1>5, <2>1, <2>2, <2>3 DEF Fill, Durable!Next, Durable!Correct
  <2>4. CASE op[p].kind = "learning"
    BY <1>1, <1>5, <2>1, <2>2, <2>4 DEF Fill, Durable!Next, Durable!Record
  <2> QED BY <2>2, <2>3, <2>4
<1>6. ASSUME NEW p \in Procs,
             \/ BeginMemory(p) \/ BeginCapture(p) \/ BeginCorrect(p) \/ BeginExport(p)
             \/ ReadMemory(p) \/ ReadRecords(p) \/ Admit(p)
             \/ ReturnMemory(p) \/ ReturnRecord(p) \/ ReturnExport(p) \/ Abandon(p)
      PROVE  UNCHANGED <<memory, records>>
  BY <1>6 DEF BeginMemory, BeginCapture, BeginCorrect, BeginExport, BeginLearning,
              ReadMemory, ReadRecords, Admit, ReturnMemory, ReturnRecord, ReturnExport,
              Abandon, store
<1>7. CASE UNCHANGED vars
  BY <1>7 DEF vars, store
<1> QED
  BY <1>2, <1>3, <1>4, <1>5, <1>6, <1>7 DEF Next

\* The store implements DurableStore: each capture, record and correction takes
\* effect at one instant and as a whole, whatever fails and whoever dies in between.
THEOREM TakesEffectAtOnce == Spec => Linearizable
<1>1. Init => Durable!Init
  BY DEF Init, Durable!Init
<1>2. SInv /\ [Next]_vars => [Durable!Next]_Durable!dvars
  BY DurableStep DEF Durable!dvars
<1> QED BY Invariance, <1>1, <1>2, PTL DEF Spec, Linearizable, Durable!Spec
===============================================================================
