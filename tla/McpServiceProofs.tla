-------------------------- MODULE McpServiceProofs --------------------------
(***************************************************************************)
(* Theorems about module McpService, for any number of calls, roles, role  *)
(* configurations and updates: what a lookup answers is of one             *)
(* configuration, and the two locks are never waited for in a circle.      *)
(***************************************************************************)
EXTENDS McpService, TLAPS

Building == {"load", "store", "install"}

\* What a call has in hand at each point.
CallOK(c) ==
    /\ pc[c] \in Building \cup {"lookup"} => name[c] \in Roles
    /\ pc[c] \in Building => read[c] \in Configs /\ read[c] \in used[name[c]]
    /\ pc[c] \in {"store", "install"} => loaded[c] \in Configs

\* A build whose role is as it read it has loaded that very configuration, and
\* one that passed the comparison keeps it until the index is stored.
Snapshot(c) ==
    /\ pc[c] = "store" /\ read[c] = roles[name[c]] => loaded[c] = read[c]
    /\ pc[c] = "install" => loaded[c] = read[c] /\ read[c] = roles[name[c]]

CacheCoherent ==
    \A r \in Roles : cache[r] # None =>
        cache[r].index = [role |-> r, cfg |-> cache[r].cfg]

CurrentUsed == \A r \in Roles : roles[r] \in used[r]
TypeInv == TypeOK /\ CurrentUsed /\ \A c \in Calls : CallOK(c)
SnapshotInv ==
    /\ \A c \in Calls : Snapshot(c)
    /\ CacheCoherent
    /\ CoherentAnswer
    /\ ActiveIsCurrent

LEMMA InitTypeInv == Init => TypeInv
BY McpAssumption DEF Init, TypeInv, TypeOK, CurrentUsed, CallOK, Building, Configs, Index,
                     Entry, Answer, Holding

\* The Mutex is taken when it is free, and given back by the call that holds it.
LEMMA Taking ==
    ASSUME TypeOK, NEW c \in Calls, confLock = None, confLock' = c,
           NEW l \in Holding, pc' = [pc EXCEPT ![c] = l]
    PROVE  \A d \in Calls : pc'[d] \in Holding <=> confLock' = d
BY McpAssumption DEF TypeOK, Holding

LEMMA Giving ==
    ASSUME TypeOK, NEW c \in Calls, pc[c] \in Holding, confLock' = None,
           pc' = [pc EXCEPT ![c] = "idle"]
    PROVE  \A d \in Calls : pc'[d] \in Holding <=> confLock' = d
BY McpAssumption DEF TypeOK, Holding, Configs

LEMMA Keeping ==
    ASSUME TypeOK, NEW c \in Calls, pc[c] \notin Holding, confLock' = confLock,
           NEW l \in {"idle", "load", "store", "search"},
           pc' = [pc EXCEPT ![c] = l]
    PROVE  \A d \in Calls : pc'[d] \in Holding <=> confLock' = d
BY DEF TypeOK, Holding

LEMMA TypeStep == TypeInv /\ [Next]_vars => TypeInv'
<1> SUFFICES ASSUME TypeInv, [Next]_vars PROVE TypeInv'
  OBVIOUS
<1> USE DEF TypeInv
<1>1. ASSUME NEW c \in Calls, UpdateLock(c) PROVE TypeInv'
  <2>1. PICK cfg \in [Roles -> Configs \cup {None}] :
            /\ roles' = cfg
            /\ used' = [r \in Roles |-> used[r] \cup {cfg[r]}]
    BY <1>1 DEF UpdateLock
  <2>2. \A d \in Calls : pc'[d] \in Holding <=> confLock' = d
    BY <1>1, Taking DEF UpdateLock, Goto, Holding
  <2>3. TypeOK'
    BY <1>1, <2>1, <2>2 DEF UpdateLock, Goto, TypeOK, Holding
  <2>4. \A d \in Calls : CallOK(d)'
    BY <1>1, <2>1 DEF UpdateLock, Goto, CallOK, Building, TypeOK
  <2>5. CurrentUsed'
    BY <2>1 DEF CurrentUsed, TypeOK
  <2> QED BY <2>3, <2>4, <2>5
<1>2. ASSUME NEW c \in Calls, UpdateReset(c) PROVE TypeInv'
  <2>1. \A d \in Calls : pc'[d] \in Holding <=> confLock' = d
    BY <1>2, Giving DEF UpdateReset, Return, Goto, Holding
  <2>2. TypeOK'
    BY <1>2, <2>1 DEF UpdateReset, Return, Goto, TypeOK, Holding
  <2>3. \A d \in Calls : CallOK(d)'
    BY <1>2 DEF UpdateReset, Return, Goto, CallOK, Building, TypeOK
  <2> QED BY <1>2, <2>2, <2>3 DEF UpdateReset, CurrentUsed
<1>3. ASSUME NEW c \in Calls, BuildReadsRole(c) PROVE TypeInv'
  <2>1. \A d \in Calls : pc'[d] \in Holding <=> confLock' = d
    BY <1>3, Keeping DEF BuildReadsRole, Return, Goto, Holding
  <2>2. TypeOK'
    BY <1>3, <2>1 DEF BuildReadsRole, Return, Goto, TypeOK, CallOK, Building, Configs
  <2>3. \A d \in Calls : CallOK(d)'
    BY <1>3 DEF BuildReadsRole, Return, Goto, CallOK, Building, TypeOK, CurrentUsed, Configs
  <2> QED BY <1>3, <2>2, <2>3 DEF BuildReadsRole, CurrentUsed
<1>4. ASSUME NEW c \in Calls, BuildLoads(c) PROVE TypeInv'
  <2>1. \A d \in Calls : pc'[d] \in Holding <=> confLock' = d
    BY <1>4, Keeping DEF BuildLoads, Return, Goto, Holding
  <2>2. TypeOK'
    BY <1>4, <2>1 DEF BuildLoads, Return, Goto, TypeOK, CallOK, Building, Configs
  <2>3. \A d \in Calls : CallOK(d)'
    BY <1>4 DEF BuildLoads, Return, Goto, CallOK, Building, TypeOK, CurrentUsed, Configs
  <2> QED BY <1>4, <2>2, <2>3 DEF BuildLoads, CurrentUsed
<1>5. ASSUME NEW c \in Calls, BuildChecks(c) PROVE TypeInv'
  <2>1. \A d \in Calls : pc'[d] \in Holding <=> confLock' = d
    BY <1>5, Taking, Keeping DEF BuildChecks, Return, Goto, Holding
  <2>2. TypeOK'
    BY <1>5, <2>1 DEF BuildChecks, Return, Goto, TypeOK, CallOK, Building
  <2>3. \A d \in Calls : CallOK(d)'
    BY <1>5 DEF BuildChecks, Return, Goto, CallOK, Building, TypeOK, CurrentUsed
  <2> QED BY <1>5, <2>2, <2>3 DEF BuildChecks, CurrentUsed
<1>6. ASSUME NEW c \in Calls, BuildInstall(c) PROVE TypeInv'
  <2>1. \A d \in Calls : pc'[d] \in Holding <=> confLock' = d
    BY <1>6, Giving DEF BuildInstall, Return, Goto, Holding
  <2>2. TypeOK'
    BY <1>6, <2>1 DEF BuildInstall, Return, Goto, TypeOK, CallOK, Building, Index, Entry, Built
  <2>3. \A d \in Calls : CallOK(d)'
    BY <1>6 DEF BuildInstall, Return, Goto, CallOK, Building, TypeOK, CurrentUsed
  <2> QED BY <1>6, <2>2, <2>3 DEF BuildInstall, CurrentUsed
<1>7. ASSUME NEW c \in Calls, LookupLock(c) PROVE TypeInv'
  <2>1. \A d \in Calls : pc'[d] \in Holding <=> confLock' = d
    BY <1>7, Taking DEF LookupLock, Return, Goto, Holding
  <2>2. TypeOK'
    BY <1>7, <2>1 DEF LookupLock, Return, Goto, TypeOK, CallOK, Building
  <2>3. \A d \in Calls : CallOK(d)'
    BY <1>7 DEF LookupLock, Return, Goto, CallOK, Building, TypeOK, CurrentUsed
  <2> QED BY <1>7, <2>2, <2>3 DEF LookupLock, CurrentUsed
<1>8. ASSUME NEW c \in Calls, LookupRead(c) PROVE TypeInv'
  <2>1. \A d \in Calls : pc'[d] \in Holding <=> confLock' = d
    BY <1>8, Giving DEF LookupRead, Return, Goto, Holding
  <2>2. TypeOK'
    BY <1>8, <2>1 DEF LookupRead, Return, Goto, TypeOK, CallOK, Building, Entry, Answer
  <2>3. \A d \in Calls : CallOK(d)'
    BY <1>8 DEF LookupRead, Return, Goto, CallOK, Building, TypeOK, CurrentUsed
  <2> QED BY <1>8, <2>2, <2>3 DEF LookupRead, CurrentUsed
<1>9. ASSUME NEW c \in Calls, SearchBegin(c) PROVE TypeInv'
  <2>1. \A d \in Calls : pc'[d] \in Holding <=> confLock' = d
    BY <1>9, Keeping DEF SearchBegin, Return, Goto, Holding
  <2>2. TypeOK'
    BY <1>9, <2>1 DEF SearchBegin, Return, Goto, TypeOK, CallOK, Building
  <2>3. \A d \in Calls : CallOK(d)'
    BY <1>9 DEF SearchBegin, Return, Goto, CallOK, Building, TypeOK, CurrentUsed
  <2> QED BY <1>9, <2>2, <2>3 DEF SearchBegin, CurrentUsed
<1>10. ASSUME NEW c \in Calls, SearchEnd(c) PROVE TypeInv'
  <2>1. \A d \in Calls : pc'[d] \in Holding <=> confLock' = d
    BY <1>10, Keeping DEF SearchEnd, Return, Goto, Holding
  <2>2. TypeOK'
    BY <1>10, <2>1 DEF SearchEnd, Return, Goto, TypeOK, CallOK, Building
  <2>3. \A d \in Calls : CallOK(d)'
    BY <1>10 DEF SearchEnd, Return, Goto, CallOK, Building, TypeOK, CurrentUsed
  <2> QED BY <1>10, <2>2, <2>3 DEF SearchEnd, CurrentUsed
<1>11. ASSUME NEW c \in Calls, Deserialize(c) PROVE TypeInv'
  BY <1>11 DEF Deserialize, callVars, TypeOK, CurrentUsed, CallOK
<1>12. CASE UNCHANGED vars
  BY <1>12 DEF vars, callVars, TypeOK, CurrentUsed, CallOK
<1> QED
  BY <1>1, <1>2, <1>3, <1>4, <1>5, <1>6, <1>7, <1>8, <1>9, <1>10, <1>11, <1>12
  DEF Next, Begin, Continue

\* The type invariant of the service: the Mutex of the configuration is held by
\* exactly the call that waits for the indexes.
THEOREM TypeCorrect == Spec => []TypeOK
<1>1. TypeInv => TypeOK
  BY DEF TypeInv
<1> QED BY <1>1, InitTypeInv, TypeStep, PTL DEF Spec

-----------------------------------------------------------------------------
(* What a lookup and a search answer from, when no configuration returns.  *)

LEMMA InitSnapshotInv == Init => SnapshotInv
BY DEF Init, SnapshotInv, Snapshot, CacheCoherent, CoherentAnswer, ActiveIsCurrent

\* An update leaves a role alone or gives it a configuration no build has read.
LEMMA UpdateKeepsSnapshot ==
    ASSUME ~Reuse, TypeInv, SnapshotInv, NEW c \in Calls, UpdateLock(c)
    PROVE  SnapshotInv'
<1> USE DEF TypeInv, SnapshotInv
<1>1. PICK cfg \in [Roles -> Configs \cup {None}] :
          /\ Offered(cfg)
          /\ roles' = cfg
  BY DEF UpdateLock
<1>2. ASSUME NEW d \in Calls PROVE Snapshot(d)'
  <2>1. CASE d = c
    BY <2>1 DEF UpdateLock, Goto, Snapshot, TypeOK
  <2>2. CASE d # c
    <3>1. pc'[d] = pc[d] /\ pc[d] # "install"
      BY <2>2, McpAssumption DEF UpdateLock, Goto, TypeOK, Holding
    <3>2. name' = name /\ read' = read /\ loaded' = loaded
      BY DEF UpdateLock
    <3>3. ASSUME pc[d] = "store", read[d] = cfg[name[d]]
          PROVE  loaded[d] = read[d]
      <4>1. name[d] \in Roles /\ read[d] \in used[name[d]]
        BY <3>3 DEF CallOK, Building
      <4>2. cfg[name[d]] = roles[name[d]]
        BY <1>1, <3>3, <4>1 DEF Offered
      <4> QED BY <3>3, <4>2 DEF Snapshot
    <3> QED BY <1>1, <3>1, <3>2, <3>3 DEF Snapshot
  <2> QED BY <2>1, <2>2
<1>3. CacheCoherent' /\ CoherentAnswer'
  BY DEF UpdateLock, CacheCoherent, CoherentAnswer, TypeOK
<1>4. ActiveIsCurrent'
  BY DEF UpdateLock, Goto, ActiveIsCurrent, TypeOK
<1> QED BY <1>2, <1>3, <1>4

LEMMA SnapshotStep ==
    ASSUME ~Reuse
    PROVE  TypeInv /\ SnapshotInv /\ [Next]_vars => SnapshotInv'
<1> SUFFICES ASSUME TypeInv, SnapshotInv, [Next]_vars PROVE SnapshotInv'
  OBVIOUS
<1> USE DEF TypeInv, SnapshotInv
<1>1. ASSUME NEW c \in Calls, UpdateLock(c) PROVE SnapshotInv'
  BY <1>1, UpdateKeepsSnapshot
<1>2. ASSUME NEW c \in Calls, UpdateReset(c) PROVE SnapshotInv'
  <2>1. \A d \in Calls : Snapshot(d)'
    BY <1>2 DEF UpdateReset, Return, Goto, Snapshot, TypeOK
  <2> QED
    BY <1>2, <2>1 DEF UpdateReset, CacheCoherent, CoherentAnswer, ActiveIsCurrent
<1>3. ASSUME NEW c \in Calls, BuildReadsRole(c) PROVE SnapshotInv'
  <2>1. \A d \in Calls : Snapshot(d)'
    BY <1>3 DEF BuildReadsRole, Goto, Snapshot, TypeOK
  <2> QED
    BY <1>3, <2>1 DEF BuildReadsRole, Goto, CacheCoherent, CoherentAnswer,
                      ActiveIsCurrent, TypeOK
<1>4. ASSUME NEW c \in Calls, BuildLoads(c) PROVE SnapshotInv'
  <2>1. \A d \in Calls : Snapshot(d)'
    BY <1>4 DEF BuildLoads, Return, Goto, Snapshot, TypeOK
  <2> QED
    BY <1>4, <2>1 DEF BuildLoads, Return, Goto, CacheCoherent, CoherentAnswer,
                      ActiveIsCurrent, TypeOK
<1>5. ASSUME NEW c \in Calls, BuildChecks(c) PROVE SnapshotInv'
  <2>1. \A d \in Calls : Snapshot(d)'
    BY <1>5 DEF BuildChecks, Return, Goto, Snapshot, TypeOK
  <2> QED
    BY <1>5, <2>1 DEF BuildChecks, Return, Goto, CacheCoherent, CoherentAnswer,
                      ActiveIsCurrent, TypeOK
<1>6. ASSUME NEW c \in Calls, BuildInstall(c) PROVE SnapshotInv'
  <2>1. name[c] \in Roles /\ loaded[c] = read[c] /\ read[c] = roles[name[c]]
    BY <1>6 DEF BuildInstall, CallOK, Building, Snapshot
  <2>2. \A d \in Calls : Snapshot(d)'
    BY <1>6 DEF BuildInstall, Return, Goto, Snapshot, TypeOK
  <2>3. CacheCoherent'
    BY <1>6, <2>1 DEF BuildInstall, Built, CacheCoherent, TypeOK
  <2>4. ActiveIsCurrent'
    BY <1>6, <2>1 DEF BuildInstall, Built, ActiveIsCurrent
  <2> QED
    BY <1>6, <2>2, <2>3, <2>4 DEF BuildInstall, CoherentAnswer
<1>7. ASSUME NEW c \in Calls, LookupLock(c) PROVE SnapshotInv'
  <2>1. \A d \in Calls : Snapshot(d)'
    BY <1>7 DEF LookupLock, Goto, Snapshot, TypeOK
  <2> QED
    BY <1>7, <2>1 DEF LookupLock, Goto, CacheCoherent, CoherentAnswer,
                      ActiveIsCurrent, TypeOK
<1>8. ASSUME NEW c \in Calls, LookupRead(c) PROVE SnapshotInv'
  <2>1. \A d \in Calls : Snapshot(d)'
    BY <1>8 DEF LookupRead, Return, Goto, Snapshot, TypeOK
  <2>2. name[c] \in Roles
    BY <1>8 DEF LookupRead, CallOK, Building
  <2>3. CoherentAnswer'
    BY <1>8, <2>2 DEF LookupRead, CoherentAnswer, CacheCoherent, TypeOK
  <2> QED
    BY <1>8, <2>1, <2>3 DEF LookupRead, Return, Goto, CacheCoherent,
                            ActiveIsCurrent, TypeOK
<1>9. ASSUME NEW c \in Calls, SearchBegin(c) \/ SearchEnd(c) PROVE SnapshotInv'
  <2>1. \A d \in Calls : Snapshot(d)'
    BY <1>9 DEF SearchBegin, SearchEnd, Return, Goto, Snapshot, TypeOK
  <2> QED
    BY <1>9, <2>1 DEF SearchBegin, SearchEnd, Return, Goto, CacheCoherent,
                      CoherentAnswer, ActiveIsCurrent, TypeOK
<1>10. ASSUME NEW c \in Calls, Deserialize(c) PROVE SnapshotInv'
  BY <1>10 DEF Deserialize, callVars, Snapshot, CacheCoherent, CoherentAnswer,
               ActiveIsCurrent
<1>11. CASE UNCHANGED vars
  BY <1>11 DEF vars, callVars, Snapshot, CacheCoherent, CoherentAnswer,
               ActiveIsCurrent
<1> QED
  BY <1>1, <1>2, <1>3, <1>4, <1>5, <1>6, <1>7, <1>8, <1>9, <1>10, <1>11
  DEF Next, Begin, Continue

\* As long as no earlier configuration of a role comes back, the index a lookup
\* returns was built from the configuration its role has at that moment.
THEOREM Coherent == ASSUME ~Reuse PROVE Spec => []CoherentAnswer
<1>1. SnapshotInv => CoherentAnswer
  BY DEF SnapshotInv
<1>2. TypeInv /\ SnapshotInv /\ [Next]_vars => (TypeInv /\ SnapshotInv)'
  BY TypeStep, SnapshotStep
<1> QED BY <1>1, <1>2, InitTypeInv, InitSnapshotInv, PTL DEF Spec

\* Under the same assumption, no search answers from a replaced configuration.
THEOREM Current == ASSUME ~Reuse PROVE Spec => []ActiveIsCurrent
<1>1. SnapshotInv => ActiveIsCurrent
  BY DEF SnapshotInv
<1>2. TypeInv /\ SnapshotInv /\ [Next]_vars => (TypeInv /\ SnapshotInv)'
  BY TypeStep, SnapshotStep
<1> QED BY <1>1, <1>2, InitTypeInv, InitSnapshotInv, PTL DEF Spec

-----------------------------------------------------------------------------
(* The locks.                                                               *)

\* Call c waits for d: for the Mutex of the configuration, which d holds, or for
\* the indexes, which d reads.
WaitsFor(c, d) ==
    \/ pc[c] \in {"load", "store"} /\ confLock = d
    \/ pc[c] \in {"reset", "install"} /\ d \in readers

\* A call that keeps the indexes reads them to the end.
ReadersSearch == \A c \in readers : pc[c] = "search"

LEMMA ReadersStep ==
    ASSUME TypeInv, ReadersSearch, [Next]_vars
    PROVE  ReadersSearch'
<1>1. CASE UNCHANGED vars
  BY <1>1 DEF vars, callVars, ReadersSearch
<1>2. ASSUME NEW c \in Calls, SearchBegin(c) PROVE ReadersSearch'
  BY <1>2 DEF SearchBegin, Goto, ReadersSearch, TypeInv, TypeOK
<1>3. ASSUME NEW c \in Calls, SearchEnd(c) PROVE ReadersSearch'
  BY <1>3 DEF SearchEnd, Return, Goto, ReadersSearch, TypeInv, TypeOK
<1>4. ASSUME NEW c \in Calls, Deserialize(c) PROVE ReadersSearch'
  BY <1>4 DEF Deserialize, callVars, ReadersSearch
<1>5. ASSUME NEW c \in Calls, UNCHANGED readers, pc[c] # "search",
             NEW l, pc' = [pc EXCEPT ![c] = l]
      PROVE  ReadersSearch'
  BY <1>5 DEF ReadersSearch, TypeInv, TypeOK
<1>6. ASSUME NEW c \in Calls, UpdateLock(c) \/ BuildReadsRole(c) \/ LookupLock(c)
      PROVE  ReadersSearch'
  BY <1>5, <1>6 DEF UpdateLock, BuildReadsRole, LookupLock, Goto
<1>7. ASSUME NEW c \in Calls,
             UpdateReset(c) \/ BuildLoads(c) \/ BuildChecks(c) \/ BuildInstall(c) \/ LookupRead(c)
      PROVE  ReadersSearch'
  <2>1. UNCHANGED readers /\ pc[c] # "search"
    BY <1>7 DEF UpdateReset, BuildLoads, BuildChecks, BuildInstall, LookupRead
  <2>2. \E l : pc' = [pc EXCEPT ![c] = l]
    BY <1>7 DEF UpdateReset, BuildLoads, BuildChecks, BuildInstall, LookupRead, Return, Goto
  <2> QED BY <1>5, <2>1, <2>2
<1> QED BY <1>1, <1>2, <1>3, <1>4, <1>6, <1>7 DEF Next, Begin, Continue

\* "Lock order is config then index", and nothing is waited for while the
\* indexes are read: no calls wait for each other in a circle, and a call under
\* way that waits for nobody is one that may go on.
THEOREM NoCallsWaitForEachOther ==
    Spec => [](/\ \A D \in SUBSET Calls :
                    (\A c \in D : \E d \in D : WaitsFor(c, d)) => D = {}
               /\ \A c \in Calls :
                    pc[c] # "idle" /\ ~(\E d \in Calls : WaitsFor(c, d)) =>
                        \/ pc[c] \in {"load", "store"} /\ confLock = None
                        \/ pc[c] \in {"reset", "install"} /\ readers = {}
                        \/ pc[c] \in {"lookup", "search"})
<1> DEFINE NoCircle ==
             \A D \in SUBSET Calls : (\A c \in D : \E d \in D : WaitsFor(c, d)) => D = {}
           GoesOn ==
             \A c \in Calls :
               pc[c] # "idle" /\ ~(\E d \in Calls : WaitsFor(c, d)) =>
                 \/ pc[c] \in {"load", "store"} /\ confLock = None
                 \/ pc[c] \in {"reset", "install"} /\ readers = {}
                 \/ pc[c] \in {"lookup", "search"}
<1>1. Init => ReadersSearch
  BY DEF Init, ReadersSearch
<1>2. TypeInv /\ ReadersSearch /\ [Next]_vars => (TypeInv /\ ReadersSearch)'
  BY TypeStep, ReadersStep
<1>3. TypeInv /\ ReadersSearch => NoCircle
  <2> SUFFICES ASSUME TypeInv, ReadersSearch, NEW D \in SUBSET Calls, NEW c \in D,
                      \A x \in D : \E d \in D : WaitsFor(x, d)
               PROVE  FALSE
    OBVIOUS
  <2>1. ASSUME NEW x \in D, pc[x] = "search" PROVE FALSE
    BY <2>1 DEF WaitsFor
  <2>2. ASSUME NEW x \in D, pc[x] \in Holding PROVE FALSE
    <3>1. PICK d \in D : WaitsFor(x, d)
      OBVIOUS
    <3>2. d \in readers
      BY <2>2, <3>1 DEF WaitsFor, Holding
    <3> QED BY <2>1, <3>2 DEF ReadersSearch
  <2>3. PICK d \in D : WaitsFor(c, d)
    OBVIOUS
  <2>4. CASE pc[c] \in {"load", "store"}
    <3>1. confLock = d
      BY <2>3, <2>4 DEF WaitsFor
    <3>2. pc[d] \in Holding
      BY <3>1 DEF TypeInv, TypeOK
    <3> QED BY <2>2, <3>2
  <2>5. CASE pc[c] \in {"reset", "install"}
    BY <2>2, <2>5 DEF Holding
  <2> QED BY <2>3, <2>4, <2>5 DEF WaitsFor
<1>4. TypeInv => GoesOn
  <2> SUFFICES ASSUME TypeInv, NEW c \in Calls, pc[c] # "idle",
                      ~(\E d \in Calls : WaitsFor(c, d))
               PROVE  \/ pc[c] \in {"load", "store"} /\ confLock = None
                      \/ pc[c] \in {"reset", "install"} /\ readers = {}
                      \/ pc[c] \in {"lookup", "search"}
    OBVIOUS
  <2>1. confLock \in Calls \cup {None} /\ readers \subseteq Calls
        /\ pc[c] \in {"idle", "load", "store", "search", "reset", "install", "lookup"}
    BY DEF TypeInv, TypeOK, Holding
  <2> QED BY <2>1 DEF WaitsFor
<1> QED BY <1>1, <1>2, <1>3, <1>4, InitTypeInv, PTL DEF Spec
=============================================================================
