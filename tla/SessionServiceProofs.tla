------------------------ MODULE SessionServiceProofs ------------------------
(***************************************************************************)
(* Proofs about the session service, for any number of callers, sources    *)
(* and sessions: a query answers with nothing only after an import found   *)
(* nothing or the cache was cleared, and what the calls hold is of its     *)
(* type, with no more sessions than the limit of an import.                *)
(***************************************************************************)
EXTENDS SessionService, FiniteSetTheorems, SequenceTheorems, TLAPS

Fields == {"op", "pc", "arg", "left", "found", "answer"}

\* the calls are records
Shape == DOMAIN asking = Callers /\ \A c \in Callers : DOMAIN asking[c] = Fields

\* the question of the import is settled: something is cached, or an import came back without
\* any session, or the cache was cleared
Settled == cached # {} \/ foundNothing \/ cleared

\* the calls that have found it settled, before their last look at the cache
PastImport(c) == asking[c].pc = "mark" \/ (asking[c].op = "query" /\ asking[c].pc = "answer")

\* the service has set its flag only once settled, and so is every query past the import
SInv ==
  /\ Shape
  /\ attempted => Settled
  /\ \A c \in Callers : PastImport(c) => Settled
  /\ EmptyIsImported

LEMMA InitSettled == SessionInit => SInv
  BY DEF SessionInit, SInv, Shape, Fields, PastImport, EmptyIsImported, Answered, At, Resting

\* A call begins: of a command with a service of its own, or in the service that lives.
LEMMA BeginKeeps ==
  ASSUME SInv, NEW c \in Callers, NEW op \in Ops, NEW arg, NEW left, BeginCall(c, op, arg, left)
  PROVE  SInv'
<1>1. /\ DOMAIN asking' = Callers
      /\ \A d \in Callers : d # c => asking'[d] = IF perCommand THEN Resting ELSE asking[d]
      /\ DOMAIN asking'[c] = Fields
      /\ asking'[c].op = op /\ asking'[c].pc \in {"flag", "collect", "answer"}
      /\ op = "query" => asking'[c].pc = "flag"
  BY DEF BeginCall, Resting, Fields, Ops
<1>2. CASE perCommand
  <2>1. attempted' = FALSE
    BY <1>2 DEF BeginCall
  <2> QED
    BY <1>1, <1>2, <2>1 DEF SInv, Shape, Fields, PastImport, EmptyIsImported, Answered, At, Resting
<1>3. CASE ~perCommand
  <2>1. UNCHANGED serviceVars
    BY <1>3 DEF BeginCall
  <2> QED
    BY <1>1, <1>3, <2>1 DEF SInv, Shape, PastImport, EmptyIsImported, Answered, At, Settled,
                             serviceVars
<1> QED
  BY <1>2, <1>3

\* One step of a call moves that call alone and keeps its fields.
LEMMA OneCallMoves ==
  ASSUME Shape, NEW c \in Callers,
         ReadFlag(c) \/ ReadCache(c) \/ Collect(c) \/ Install(c) \/ Mark(c)
           \/ AnswerQuery(c) \/ AnswerGet(c) \/ ClearCache(c)
  PROVE  /\ Shape'
         /\ \A d \in Callers : d # c => asking'[d] = asking[d]
         /\ asking'[c].op = asking[c].op
<1>1. CASE ReadFlag(c) \/ Mark(c) \/ ClearCache(c)
  BY <1>1 DEF ReadFlag, Mark, ClearCache, Go, Shape, Fields
<1>2. CASE ReadCache(c) \/ Install(c)
  BY <1>2 DEF ReadCache, Install, Shape, Fields
<1>3. CASE Collect(c)
  BY <1>3, ZenonT(40) DEF Collect, Shape, Fields
<1>4. CASE AnswerQuery(c) \/ AnswerGet(c)
  BY <1>4 DEF AnswerQuery, AnswerGet, Shape, Fields
<1> QED
  BY <1>1, <1>2, <1>3, <1>4

\* The steps of the import.
LEMMA ImportKeeps ==
  ASSUME SInv, NEW c \in Callers,
         ReadFlag(c) \/ ReadCache(c) \/ Collect(c) \/ Install(c) \/ Mark(c)
  PROVE  SInv'
<1>1. /\ Shape'
      /\ \A d \in Callers : d # c => asking'[d] = asking[d]
      /\ asking'[c].op = asking[c].op
  BY OneCallMoves DEF SInv
<1>2. Settled => Settled'
  BY DEF ReadFlag, ReadCache, Collect, Install, Mark, serviceVars, Settled
<1>3. cleared' = cleared /\ (foundNothing => foundNothing')
  <2>1. CASE Install(c)
    BY <2>1, Zenon DEF Install
  <2>2. CASE Mark(c)
    BY <2>2, Zenon DEF Mark
  <2>3. CASE ReadFlag(c) \/ ReadCache(c) \/ Collect(c)
    <3>1. UNCHANGED serviceVars
      BY <2>3, Zenon DEF ReadFlag, ReadCache, Collect
    <3> QED
      BY <3>1, Zenon DEF serviceVars
  <2> QED
    BY <2>1, <2>2, <2>3
<1>4. /\ attempted' => Settled'
      /\ PastImport(c)' => Settled'
      /\ ~ Answered(c, "query")'
  <2>1. CASE ReadFlag(c)
    BY <2>1, <1>1, <1>2 DEF ReadFlag, Go, At, Answered, PastImport, serviceVars, SInv, Shape, Fields
  <2>2. CASE ReadCache(c)
    BY <2>2, <1>1, <1>2 DEF ReadCache, At, Answered, PastImport, serviceVars, SInv, Shape, Fields,
                             Settled
  <2>3. CASE Collect(c)
    <3>1. asking'[c].pc = "collect"
      BY <2>3, ZenonT(40) DEF Collect, At, SInv, Shape, Fields
    <3> QED
      BY <2>3, <3>1, <1>1, <1>2 DEF Collect, Answered, At, PastImport, serviceVars, SInv
  <2>4. CASE Install(c)
    <3>1. Settled'
      BY <2>4 DEF Install, Settled
    <3>2. asking'[c].pc # "answer" /\ (asking[c].op = "query" => asking'[c].pc = "mark")
      BY <2>4 DEF Install, SInv, Shape, Fields
    <3> QED
      BY <3>1, <3>2, <1>1 DEF Answered, At
  <2>5. CASE Mark(c)
    <3>1. asking'[c].pc = "answer" /\ asking[c].pc = "mark"
      BY <2>5 DEF Mark, Go, At, SInv, Shape, Fields
    <3> QED
      BY <2>5, <3>1, <1>1, <1>2 DEF Answered, At, PastImport, SInv
  <2> QED
    BY <2>1, <2>2, <2>3, <2>4, <2>5
<1>5. \A d \in Callers : PastImport(d)' => Settled'
  BY <1>1, <1>2, <1>4 DEF PastImport, SInv
<1>6. EmptyIsImported'
  BY <1>1, <1>3, <1>4 DEF EmptyIsImported, Answered, At, SInv
<1> QED
  BY <1>1, <1>4, <1>5, <1>6 DEF SInv

\* The operation under the lock of the cache.
LEMMA AnswerKeeps ==
  ASSUME SInv, NEW c \in Callers, AnswerQuery(c) \/ AnswerGet(c) \/ ClearCache(c)
  PROVE  SInv'
<1>1. /\ Shape'
      /\ \A d \in Callers : d # c => asking'[d] = asking[d]
      /\ asking'[c].op = asking[c].op
  BY OneCallMoves DEF SInv
<1>2. /\ Settled => Settled'
      /\ attempted' = attempted
      /\ cleared => cleared'
      /\ foundNothing' = foundNothing
  BY DEF AnswerQuery, AnswerGet, ClearCache, serviceVars, Settled
<1>3. asking'[c].pc = "done"
  BY DEF AnswerQuery, AnswerGet, ClearCache, Go, SInv, Shape, Fields
<1>4. asking[c].op = "query" => AnswerQuery(c)
  BY DEF AnswerGet, ClearCache
<1>5. AnswerQuery(c) => /\ asking'[c].answer = cached
                        /\ PastImport(c)
  BY DEF AnswerQuery, At, PastImport, SInv, Shape, Fields
<1>6. \A d \in Callers : PastImport(d)' => Settled'
  BY <1>1, <1>2, <1>3 DEF PastImport, SInv
<1>7. EmptyIsImported'
  BY <1>1, <1>2, <1>4, <1>5 DEF EmptyIsImported, Answered, At, SInv, Settled
<1> QED
  BY <1>1, <1>2, <1>6, <1>7 DEF SInv

LEMMA NextKeeps ==
  ASSUME SInv, [SessionNext]_sessionVars
  PROVE  SInv'
<1>1. ASSUME NEW c \in Callers, NEW op \in Ops, NEW arg, NEW left, BeginCall(c, op, arg, left)
      PROVE  SInv'
  BY <1>1, BeginKeeps
<1>2. ASSUME NEW c \in Callers,
             ReadFlag(c) \/ ReadCache(c) \/ Collect(c) \/ Install(c) \/ Mark(c)
      PROVE  SInv'
  BY <1>2, ImportKeeps
<1>3. ASSUME NEW c \in Callers, AnswerQuery(c) \/ AnswerGet(c) \/ ClearCache(c)
      PROVE  SInv'
  BY <1>3, AnswerKeeps
<1>4. ASSUME NEW s \in Sessions, Record(s)
      PROVE  SInv'
  BY <1>4 DEF Record, serviceVars, SInv, Shape, PastImport, Settled, EmptyIsImported, Answered, At
<1>5. CASE UNCHANGED sessionVars
  BY <1>5 DEF sessionVars, SInv, Shape, PastImport, Settled, EmptyIsImported, Answered, At
<1> QED
  BY <1>1, <1>2, <1>3, <1>4, <1>5 DEF SessionNext, Ops

\* A query shows no sessions only after an import of its service came back without any, or
\* after the cache was cleared (service.rs maybe_auto_import): no interleaving of any number of
\* callers lets one pass by on the flag while another's import is under way.
THEOREM NeverEmptyUnasked == SessionSpec => []EmptyIsImported
<1>1. SInv => EmptyIsImported
  BY DEF SInv
<1> QED
  BY <1>1, InitSettled, NextKeeps, PTL DEF SessionSpec

-----------------------------------------------------------------------------
(* The types.                                                               *)

\* what is asked next, of all connectors or of those at the places I
Asked(I, n) == Sources[CHOOSE i \in I : Cardinality({j \in I : j < i}) = n - 1]
Connectors == {Sources[i] : i \in DOMAIN Sources}
              \cup {Asked(I, n) : I \in SUBSET DOMAIN Sources, n \in Nat}

Stages == {"idle", "flag", "empty", "collect", "mark", "answer", "done"}
CallStates ==
  [op : Ops \cup {"none"}, pc : Stages, arg : SUBSET Sessions, left : Seq(Connectors),
   found : SUBSET Sessions, answer : SUBSET Sessions]

\* connectors are left only while they are asked, and an import has its limit at most
WithinLimits(r) ==
  /\ Len(r.left) <= Len(Sources)
  /\ r.left # <<>> => r.pc = "collect"
  /\ r.op = "import" => Cardinality(r.found) <= Limit

ServiceTypes ==
  /\ perCommand \in BOOLEAN
  /\ onDisk \subseteq Sessions /\ cacheFile \subseteq Sessions /\ cached \subseteq Sessions
  /\ attempted \in BOOLEAN /\ cleared \in BOOLEAN /\ foundNothing \in BOOLEAN
  /\ listed \subseteq Sessions /\ begun \in 0..MaxQueries
CallTypes == asking \in [Callers -> CallStates] /\ \A c \in Callers : WithinLimits(asking[c])

LEMMA SourcesAre ==
  /\ Sources \in Seq(Connectors) /\ Len(Sources) \in Nat /\ DOMAIN Sources = 1..Len(Sources)
<1>1. Sources \in Seq({Sources[i] : i \in DOMAIN Sources})
  BY SessionAssumption
<1>2. Len(Sources) \in Nat /\ DOMAIN Sources = 1..Len(Sources)
      /\ \A i \in 1..Len(Sources) : Sources[i] \in Connectors
  BY <1>1 DEF Connectors
<1>3. Sources \in [1..Len(Sources) -> Connectors]
  BY <1>1, <1>2
<1> QED BY <1>2, <1>3

\* There are no more connectors available than there are.
LEMMA AvailableIs == Available \in Seq(Connectors) /\ Len(Available) <= Len(Sources)
<1> DEFINE there == {i \in DOMAIN Sources : \E s \in onDisk : SourceOf[s] = Sources[i]}
           k == Cardinality(there)
<1>1. Available = [n \in 1..k |-> Asked(there, n)]
  BY DEF Available, Asked
<1>2. IsFiniteSet(1..Len(Sources)) /\ Cardinality(1..Len(Sources)) = Len(Sources)
  BY SourcesAre, FS_Interval
<1>3. there \in SUBSET (1..Len(Sources)) /\ there \in SUBSET DOMAIN Sources
  BY SourcesAre
<1> HIDE DEF there
<1>4. k \in Nat /\ k <= Len(Sources)
  BY <1>2, <1>3, FS_Subset, FS_CardinalityType
<1> HIDE DEF k
<1>5. \A n \in 1..k : Asked(there, n) \in Connectors
  <2>1. \A n \in 1..k : n \in Nat
    BY <1>4
  <2> QED BY <1>3, <2>1 DEF Connectors
<1>6. Available \in [1..k -> Connectors]
  BY <1>1, <1>5
<1> QED BY <1>4, <1>6

\* One call moves on.
LEMMA CallMoves ==
  ASSUME CallTypes, NEW c \in Callers, NEW r \in CallStates, WithinLimits(r),
         asking' = [asking EXCEPT ![c] = r]
  PROVE  CallTypes'
BY DEF CallTypes

LEMMA CallIs ==
  ASSUME CallTypes, NEW c \in Callers
  PROVE  /\ asking[c] \in CallStates /\ WithinLimits(asking[c])
         /\ asking[c].left \in Seq(Connectors) /\ asking[c].found \in SUBSET Sessions
         /\ asking[c].op \in Ops \cup {"none"}
BY DEF CallTypes, CallStates

\* A call that is not asking goes on to its next stage.
LEMMA GoTypes ==
  ASSUME CallTypes, NEW c \in Callers, NEW p \in Stages, asking[c].pc # "collect", Go(c, p)
  PROVE  CallTypes'
<1> DEFINE r == [asking[c] EXCEPT !.pc = p]
<1>1. asking[c] \in CallStates /\ WithinLimits(asking[c])
  BY CallIs
<1>2. r \in CallStates /\ r.left = asking[c].left /\ r.op = asking[c].op /\ r.found = asking[c].found
  BY <1>1 DEF CallStates
<1>3. asking' = [asking EXCEPT ![c] = r]
  BY DEF Go
<1> HIDE DEF r
<1>4. WithinLimits(r)
  BY <1>1, <1>2 DEF WithinLimits
<1> QED BY <1>2, <1>3, <1>4, CallMoves

LEMMA RestingIs == Resting \in CallStates /\ WithinLimits(Resting)
<1>1. <<>> \in Seq(Connectors) /\ Len(<<>>) = 0
  OBVIOUS
<1>2. Resting \in CallStates
  BY <1>1 DEF Resting, CallStates, Stages, Ops
<1>3. WithinLimits(Resting)
  BY <1>1, SourcesAre DEF Resting, WithinLimits
<1> QED BY <1>2, <1>3

LEMMA BeginTypes ==
  ASSUME ServiceTypes, CallTypes, NEW c \in Callers, NEW op \in Ops, NEW arg \in SUBSET Sessions,
         NEW left \in Seq(Connectors), Len(left) <= Len(Sources), op # "import" => left = <<>>,
         BeginCall(c, op, arg, left)
  PROVE  ServiceTypes' /\ CallTypes'
<1> DEFINE p == CASE op = "query" -> "flag" [] op = "import" -> "collect" [] OTHER -> "answer"
           r == [Resting EXCEPT !.op = op, !.arg = arg, !.left = left, !.pc = p]
<1>1. asking' = [d \in Callers |-> IF d = c THEN r ELSE IF perCommand THEN Resting ELSE asking[d]]
  BY DEF BeginCall
<1>2. p \in Stages /\ (op = "import" => p = "collect")
  BY DEF Ops, Stages
<1> HIDE DEF p
<1>3. /\ r \in CallStates /\ r.op = op /\ r.pc = p /\ r.left = left /\ r.found = {}
  <2> DEFINE named == [Resting EXCEPT !.op = op]
             asked == [named EXCEPT !.arg = arg]
             given == [asked EXCEPT !.left = left]
  <2>1. named \in CallStates /\ named.op = op /\ named.found = {}
    BY RestingIs DEF CallStates, Resting
  <2> HIDE DEF named
  <2>2. asked \in CallStates /\ asked.op = op /\ asked.found = {}
    BY <2>1 DEF CallStates
  <2> HIDE DEF asked
  <2>3. given \in CallStates /\ given.op = op /\ given.found = {} /\ given.left = left
    BY <2>2 DEF CallStates
  <2>4. r = [given EXCEPT !.pc = p]
    BY DEF given, asked, named
  <2> HIDE DEF given, r
  <2> QED BY <1>2, <2>3, <2>4 DEF CallStates
<1> HIDE DEF r
<1>4. Cardinality({}) = 0
  BY FS_EmptySet
<1>5. WithinLimits(r)
  BY <1>2, <1>3, <1>4, SessionAssumption DEF WithinLimits
<1>6. CallTypes'
  BY <1>1, <1>3, <1>5, RestingIs DEF CallTypes
<1>7. begun < MaxQueries /\ begun' = begun + 1 /\ UNCHANGED <<worldVars, listed>>
      /\ \/ UNCHANGED serviceVars
         \/ cached' = cacheFile /\ attempted' = FALSE /\ cleared' = FALSE /\ foundNothing' = FALSE
  BY Zenon DEF BeginCall
<1>8. begun' \in 0..MaxQueries
  BY <1>7, SessionAssumption DEF ServiceTypes
<1>9. ServiceTypes'
  BY <1>7, <1>8 DEF ServiceTypes, serviceVars, worldVars
<1> QED BY <1>6, <1>9

\* What a connector found is added, up to the limit.
LEMMA CollectTypes ==
  ASSUME ServiceTypes, CallTypes, NEW c \in Callers, Collect(c)
  PROVE  ServiceTypes' /\ CallTypes'
<1> DEFINE old == asking[c]
<1>1. /\ At(c, "collect") /\ old.left # <<>>
      /\ UNCHANGED <<worldVars, serviceVars, begun, listed>>
  BY DEF Collect
<1>2. PICK got \in {{}, {s \in onDisk : SourceOf[s] = Head(old.left)}} :
        LET all  == old.found \cup got
            full == old.op = "import" /\ Cardinality(all) >= Limit
        IN \E kept \in IF full THEN {k \in SUBSET all : old.found \subseteq k
                                                         /\ Cardinality(k) = Limit}
                               ELSE {all} :
             asking' = [asking EXCEPT ![c].found = kept,
                                      ![c].left = IF full THEN <<>> ELSE Tail(@)]
  BY DEF Collect
<1> DEFINE all == old.found \cup got
           full == old.op = "import" /\ Cardinality(all) >= Limit
<1>3. PICK kept \in IF full THEN {k \in SUBSET all : old.found \subseteq k /\ Cardinality(k) = Limit}
                    ELSE {all} :
        asking' = [asking EXCEPT ![c].found = kept, ![c].left = IF full THEN <<>> ELSE Tail(@)]
  BY <1>2
<1> DEFINE left == IF full THEN <<>> ELSE Tail(old.left)
           r == [old EXCEPT !.found = kept, !.left = left]
<1>4. old \in CallStates /\ WithinLimits(old) /\ old.left \in Seq(Connectors) /\ old.found \in SUBSET Sessions
  BY CallIs
<1>5. all \in SUBSET Sessions
  BY <1>4 DEF ServiceTypes
<1>6. kept \in SUBSET Sessions /\ (full => Cardinality(kept) = Limit) /\ (~full => kept = all)
  BY <1>3, <1>5
<1>7. left \in Seq(Connectors) /\ Len(left) <= Len(Sources)
  <2>1. CASE full
    <3>1. left = <<>>
      BY <2>1
    <3> HIDE DEF left
    <3> QED BY <3>1, SourcesAre
  <2>2. CASE ~full
    <3>1. Tail(old.left) \in Seq(Connectors) /\ Len(Tail(old.left)) = Len(old.left) - 1
          /\ Len(old.left) \in Nat
      BY <1>1, <1>4, HeadTailProperties, LenProperties
    <3>2. left = Tail(old.left)
      BY <2>2
    <3> HIDE DEF left, old
    <3> QED BY <3>1, <3>2, <1>4, SourcesAre DEF WithinLimits
  <2> QED BY <2>1, <2>2
<1>8. asking' = [asking EXCEPT ![c] = r]
  <2> HIDE DEF full
  <2> QED BY <1>3 DEF CallTypes
<1>9. old.op = "import" => Cardinality(kept) <= Limit
  <2>1. IsFiniteSet(all) /\ Cardinality(all) \in Nat
    BY <1>5, SessionAssumption, FS_Subset, FS_CardinalityType
  <2> HIDE DEF all
  <2> QED BY <1>6, <2>1, SessionAssumption
<1> HIDE DEF full, all, left
<1>10. r \in CallStates /\ r.pc = "collect" /\ r.op = old.op /\ r.found = kept /\ r.left = left
  BY <1>1, <1>4, <1>6, <1>7 DEF CallStates, At
<1> HIDE DEF r
<1>11. WithinLimits(r)
  BY <1>7, <1>9, <1>10 DEF WithinLimits
<1>12. CallTypes'
  BY <1>8, <1>10, <1>11, CallMoves
<1>13. ServiceTypes'
  BY <1>1 DEF ServiceTypes, worldVars, serviceVars
<1> QED BY <1>12, <1>13

LEMMA CacheTypes ==
  ASSUME ServiceTypes, CallTypes, NEW c \in Callers, ReadCache(c)
  PROVE  ServiceTypes' /\ CallTypes'
<1> DEFINE old == asking[c]
           p == IF cached = {} THEN "collect" ELSE "mark"
           left == IF cached = {} THEN Available ELSE <<>>
           r == [old EXCEPT !.pc = p, !.left = left]
<1>1. asking' = [asking EXCEPT ![c] = r] /\ UNCHANGED <<worldVars, serviceVars, begun, listed>>
  BY DEF ReadCache, CallTypes
<1>2. p \in Stages /\ left \in Seq(Connectors) /\ Len(left) <= Len(Sources)
      /\ (left # <<>> => p = "collect")
  <2>1. CASE cached = {}
    <3>1. left = Available /\ p = "collect"
      BY <2>1
    <3> QED BY <3>1, AvailableIs DEF Stages
  <2>2. CASE cached # {}
    <3>1. left = <<>> /\ p = "mark"
      BY <2>2
    <3>2. Len(<<>>) = 0 /\ <<>> \in Seq(Connectors)
      OBVIOUS
    <3> QED BY <3>1, <3>2, SourcesAre DEF Stages
  <2> QED BY <2>1, <2>2
<1>3. old \in CallStates /\ WithinLimits(old)
  BY CallIs
<1> HIDE DEF p, left
<1>4. r \in CallStates /\ r.pc = p /\ r.op = old.op /\ r.found = old.found /\ r.left = left
  BY <1>2, <1>3 DEF CallStates
<1> HIDE DEF r
<1>5. WithinLimits(r)
  BY <1>2, <1>3, <1>4 DEF WithinLimits
<1>6. CallTypes'
  BY <1>1, <1>4, <1>5, CallMoves
<1>7. ServiceTypes'
  BY <1>1 DEF ServiceTypes, worldVars, serviceVars
<1> QED BY <1>6, <1>7

\* A call that asks no connector ends a stage with an answer.
LEMMA AnswerTypes ==
  ASSUME CallTypes, NEW c \in Callers, asking[c].left = <<>>, NEW p \in Stages,
         NEW answer \in SUBSET Sessions,
         asking' = [asking EXCEPT ![c].pc = p, ![c].answer = answer]
  PROVE  CallTypes'
<1> DEFINE r == [asking[c] EXCEPT !.pc = p, !.answer = answer]
<1>1. asking[c] \in CallStates /\ WithinLimits(asking[c])
  BY CallIs
<1>2. r \in CallStates /\ r.left = <<>> /\ r.op = asking[c].op /\ r.found = asking[c].found
  BY <1>1 DEF CallStates
<1>3. asking' = [asking EXCEPT ![c] = r]
  BY DEF CallTypes
<1> HIDE DEF r
<1>4. WithinLimits(r)
  BY <1>1, <1>2 DEF WithinLimits
<1> QED BY <1>2, <1>3, <1>4, CallMoves

LEMMA InstallTypes ==
  ASSUME ServiceTypes, CallTypes, NEW c \in Callers, Install(c)
  PROVE  ServiceTypes' /\ CallTypes'
<1> DEFINE p == IF asking[c].op = "query" THEN "mark" ELSE "done"
           answer == IF asking[c].op = "query" THEN {} ELSE asking[c].found
<1>1. /\ asking[c].left = <<>> /\ UNCHANGED <<worldVars, attempted, begun, cleared, listed>>
      /\ cached' = cached \cup asking[c].found
      /\ foundNothing' = (foundNothing \/ asking[c].found = {})
      /\ asking' = [asking EXCEPT ![c].pc = p, ![c].answer = answer]
  BY DEF Install
<1>2. p \in Stages /\ answer \in SUBSET Sessions /\ asking[c].found \in SUBSET Sessions
  BY CallIs DEF Stages
<1> HIDE DEF p, answer
<1>3. CallTypes'
  BY <1>1, <1>2, AnswerTypes
<1>4. ServiceTypes'
  BY <1>1, <1>2 DEF ServiceTypes, worldVars
<1> QED BY <1>3, <1>4

LEMMA TypesKept ==
  ASSUME ServiceTypes, CallTypes, [SessionNext]_sessionVars
  PROVE  ServiceTypes' /\ CallTypes'
<1>e. <<>> \in Seq(Connectors) /\ Len(<<>>) <= Len(Sources)
  BY SourcesAre
<1>1. ASSUME NEW c \in Callers, NEW op \in {"query", "clear"}, BeginCall(c, op, {}, <<>>)
      PROVE  ServiceTypes' /\ CallTypes'
  <2>1. op \in Ops /\ op # "import" /\ {} \in SUBSET Sessions
    BY DEF Ops
  <2> QED BY <1>e, <1>1, <2>1, BeginTypes
<1>2. ASSUME NEW c \in Callers, NEW s \in Sessions, BeginCall(c, "get", {s}, <<>>)
      PROVE  ServiceTypes' /\ CallTypes'
  <2>1. "get" \in Ops /\ {s} \in SUBSET Sessions
    BY DEF Ops
  <2> QED BY <1>e, <1>2, <2>1, BeginTypes
<1>3. ASSUME NEW c \in Callers, NEW k \in {Available} \cup {<<Sources[i]>> : i \in DOMAIN Sources},
             BeginCall(c, "import", {}, k)
      PROVE  ServiceTypes' /\ CallTypes'
  <2>1. k \in Seq(Connectors) /\ Len(k) <= Len(Sources)
    <3>1. CASE k = Available
      BY <3>1, AvailableIs
    <3>2. ASSUME NEW i \in DOMAIN Sources, k = <<Sources[i]>>
          PROVE  k \in Seq(Connectors) /\ Len(k) <= Len(Sources)
      <4>1. Sources[i] \in Connectors /\ Len(Sources) >= 1
        BY SourcesAre DEF Connectors
      <4>2. <<Sources[i]>> \in Seq(Connectors) /\ Len(<<Sources[i]>>) = 1
        BY <4>1
      <4> QED BY <3>2, <4>1, <4>2, SourcesAre
    <3> QED BY <1>3, <3>1, <3>2
  <2>2. "import" \in Ops /\ {} \in SUBSET Sessions
    BY DEF Ops
  <2> QED BY <1>3, <2>1, <2>2, BeginTypes
<1>4. ASSUME NEW c \in Callers, ReadFlag(c) \/ Mark(c) \/ ClearCache(c)
      PROVE  ServiceTypes' /\ CallTypes'
  <2>1. asking[c].pc # "collect" /\ \E p \in Stages : Go(c, p)
    BY <1>4 DEF ReadFlag, Mark, ClearCache, At, Stages
  <2>2. CallTypes'
    BY <2>1, GoTypes
  <2>3. ServiceTypes'
    BY <1>4 DEF ReadFlag, Mark, ClearCache, ServiceTypes, worldVars, serviceVars
  <2> QED BY <2>2, <2>3
<1>5. ASSUME NEW c \in Callers, AnswerQuery(c) \/ AnswerGet(c)
      PROVE  ServiceTypes' /\ CallTypes'
  <2>1. asking[c].left = <<>> /\ asking[c].arg \cap cached \in SUBSET Sessions
        /\ cached \in SUBSET Sessions /\ "done" \in Stages
    BY <1>5, CallIs DEF AnswerQuery, AnswerGet, At, WithinLimits, ServiceTypes, Stages
  <2>2. CallTypes'
    BY <1>5, <2>1, AnswerTypes DEF AnswerQuery, AnswerGet
  <2>3. ServiceTypes'
    BY <1>5 DEF AnswerQuery, AnswerGet, ServiceTypes, worldVars, serviceVars
  <2> QED BY <2>2, <2>3
<1>6. ASSUME NEW s \in Sessions, Record(s) PROVE ServiceTypes' /\ CallTypes'
  BY <1>6 DEF Record, ServiceTypes, CallTypes, serviceVars
<1>7. CASE UNCHANGED sessionVars
  BY <1>7 DEF sessionVars, ServiceTypes, CallTypes
<1> QED
  BY <1>1, <1>2, <1>3, <1>4, <1>5, <1>6, <1>7, CacheTypes, CollectTypes, InstallTypes DEF SessionNext

\* What the calls and the service hold are sessions, connectors are left only to a call that is
\* asking them, and no import that was asked for brings more sessions than its limit
\* (connector/mod.rs import_all), however the callers interleave.
THEOREM SessionTypeCorrect == SessionSpec => []SessionTypeOK
<1>1. SessionInit => ServiceTypes /\ CallTypes
  <2>1. SessionInit => ServiceTypes
    <3> SUFFICES ASSUME SessionInit PROVE ServiceTypes
      OBVIOUS
    <3>1. begun \in 0..MaxQueries
      BY SessionAssumption DEF SessionInit
    <3> QED BY <3>1, Zenon DEF SessionInit, ServiceTypes
  <2>2. SessionInit => CallTypes
    BY RestingIs DEF SessionInit, CallTypes
  <2> QED BY <2>1, <2>2
<1>2. ServiceTypes /\ CallTypes => SessionTypeOK
  <2> SUFFICES ASSUME ServiceTypes, CallTypes PROVE SessionTypeOK
    OBVIOUS
  <2>1. ASSUME NEW c \in Callers
        PROVE  /\ asking[c].op \in Ops \cup {"none"} /\ asking[c].arg \subseteq Sessions
               /\ asking[c].pc \in {"idle", "flag", "empty", "collect", "mark", "answer", "done"}
               /\ asking[c].found \subseteq Sessions /\ asking[c].answer \subseteq Sessions
               /\ WithinLimits(asking[c])
    BY DEF CallTypes, CallStates, Stages
  <2> QED BY <2>1 DEF SessionTypeOK, ServiceTypes, WithinLimits
<1> QED BY <1>1, <1>2, TypesKept, PTL DEF SessionSpec
=============================================================================
