--------------------------- MODULE SessionService ---------------------------
(***************************************************************************)
(* The sessions of the assistants as a program sees them                   *)
(* (terraphim_sessions, service.rs and connector/mod.rs): a cache in       *)
(* memory, filled by the first query from every available source.  The     *)
(* locks of the cache and of the flag are held for one step each, so the   *)
(* queries of several tasks interleave between them.                       *)
(*                                                                         *)
(* A program keeps one service (the REPL) or makes a new one for each      *)
(* command (main.rs handle_sessions_command, learn_command.rs              *)
(* FromSession), which begins with what sessions.json holds.               *)
(***************************************************************************)
EXTENDS Naturals, Sequences, FiniteSets

CONSTANTS
  Callers,      \* tasks that share a service
  Sessions,
  Sources,      \* the registry's connectors, in its order
  SourceOf,     \* [Sessions -> the connector that finds it]
  Limit,        \* the limit of an explicit import
  MaxQueries    \* bound: operations begun

ASSUME SessionAssumption ==
  /\ IsFiniteSet(Sessions) /\ Sources \in Seq({Sources[i] : i \in DOMAIN Sources})
  /\ Limit \in Nat /\ MaxQueries \in Nat

VARIABLES
  perCommand,   \* a new service is made for each command
  onDisk,       \* the sessions the sources hold
  cacheFile,    \* the sessions sessions.json holds
  cached,       \* cache
  attempted,    \* auto_import_attempted
  asking,       \* asking[c]: the operation of c and where it is
  begun,
  cleared,      \* history: clear_cache was called on this service
  foundNothing, \* history: an import of this service ended without a session
  listed        \* history: sessions that some query has shown

sessionVars == <<perCommand, onDisk, cacheFile, cached, attempted, asking, begun,
                 cleared, foundNothing, listed>>
serviceVars == <<cached, attempted, cleared, foundNothing>>
worldVars   == <<perCommand, onDisk, cacheFile>>

Ops == {"query", "get", "import", "clear"}
\* left: the connectors still to ask;  found: sessions so far;  answer: what was returned
Resting == [op |-> "none", pc |-> "idle", arg |-> {}, left |-> <<>>, found |-> {}, answer |-> {}]

SessionTypeOK ==
  /\ perCommand \in BOOLEAN
  /\ onDisk \subseteq Sessions /\ cacheFile \subseteq Sessions /\ cached \subseteq Sessions
  /\ attempted \in BOOLEAN /\ cleared \in BOOLEAN /\ foundNothing \in BOOLEAN
  /\ listed \subseteq Sessions /\ begun \in 0..MaxQueries
  /\ \A c \in Callers :
       /\ asking[c].op \in Ops \cup {"none"} /\ asking[c].arg \subseteq Sessions
       /\ asking[c].pc \in {"idle", "flag", "empty", "collect", "mark", "answer", "done"}
       /\ Len(asking[c].left) <= Len(Sources)
       /\ asking[c].found \subseteq Sessions /\ asking[c].answer \subseteq Sessions
       /\ asking[c].left # <<>> => asking[c].pc = "collect"
       /\ asking[c].op = "import" => Cardinality(asking[c].found) <= Limit

----------------------------------------------------------------------------
At(c, pc) == asking[c].pc = pc
Go(c, pc) == asking' = [asking EXCEPT ![c].pc = pc]

\* available(): the connectors whose sources are there when the import begins, in their order
Available ==
  LET there == {i \in DOMAIN Sources : \E s \in onDisk : SourceOf[s] = Sources[i]}
  IN  [n \in 1..Cardinality(there) |->
         Sources[CHOOSE i \in there : Cardinality({j \in there : j < i}) = n - 1]]

\* An operation begins, in a service that already lives or, in a program that runs one
\* command at a time, in one made for it.
BeginCall(c, op, arg, sources) ==
  /\ begun < MaxQueries /\ begun' = begun + 1
  /\ At(c, "idle") \/ At(c, "done")
  /\ perCommand => /\ op \in {"query", "get"}
                   /\ \A d \in Callers : At(d, "idle") \/ At(d, "done")
  /\ asking' = [d \in Callers |->
       IF d = c THEN [Resting EXCEPT !.op = op, !.arg = arg, !.left = sources,
                        !.pc = CASE op = "query" -> "flag" [] op = "import" -> "collect"
                                 [] OTHER -> "answer"]
       ELSE IF perCommand THEN Resting ELSE asking[d]]
  /\ IF perCommand
       THEN cached' = cacheFile /\ attempted' = FALSE /\ cleared' = FALSE /\ foundNothing' = FALSE
       ELSE UNCHANGED serviceVars
  /\ UNCHANGED <<worldVars, listed>>

----------------------------------------------------------------------------
(* maybe_auto_import and import_all, step by step.                         *)

\* Mutant of ReadFlag: the first query claims the import before it has run it.
ReadFlagClaims(c) ==
  /\ At(c, "flag") /\ Go(c, IF attempted THEN "answer" ELSE "empty")
  /\ attempted' = TRUE
  /\ UNCHANGED <<worldVars, cached, begun, cleared, foundNothing, listed>>

ReadFlag(c) ==
  /\ At(c, "flag") /\ Go(c, IF attempted THEN "answer" ELSE "empty")
  /\ UNCHANGED <<worldVars, serviceVars, begun, listed>>

ReadCache(c) ==
  /\ At(c, "empty")
  /\ asking' = [asking EXCEPT ![c].pc = IF cached = {} THEN "collect" ELSE "mark",
                          ![c].left = IF cached = {} THEN Available ELSE <<>>]
  /\ UNCHANGED <<worldVars, serviceVars, begun, listed>>

\* The next connector: what it finds, or an error, which is only logged.  Once an explicit
\* import has its limit of sessions, the rest is dropped and no other connector is asked.
Collect(c) ==
  /\ At(c, "collect") /\ asking[c].left # <<>>
  /\ \E got \in {{}, {s \in onDisk : SourceOf[s] = Head(asking[c].left)}} :
       LET all  == asking[c].found \cup got
           full == asking[c].op = "import" /\ Cardinality(all) >= Limit
       IN \E kept \in IF full THEN {k \in SUBSET all : asking[c].found \subseteq k
                                                        /\ Cardinality(k) = Limit}
                              ELSE {all} :
            asking' = [asking EXCEPT ![c].found = kept, ![c].left = IF full THEN <<>> ELSE Tail(@)]
  /\ UNCHANGED <<worldVars, serviceVars, begun, listed>>

Install(c) ==
  /\ At(c, "collect") /\ asking[c].left = <<>>
  /\ cached' = cached \cup asking[c].found
  /\ foundNothing' = (foundNothing \/ asking[c].found = {})
  /\ asking' = [asking EXCEPT ![c].pc = IF asking[c].op = "query" THEN "mark" ELSE "done",
                          ![c].answer = IF asking[c].op = "query" THEN {} ELSE asking[c].found]
  /\ UNCHANGED <<worldVars, attempted, begun, cleared, listed>>

\* attempted, whether it found something, failed or was not needed
Mark(c) ==
  /\ At(c, "mark") /\ Go(c, "answer")
  /\ attempted' = TRUE
  /\ UNCHANGED <<worldVars, cached, begun, cleared, foundNothing, listed>>

----------------------------------------------------------------------------
(* The operation itself, under the lock of the cache.                      *)

\* list_sessions, search, search_with_thesaurus, sessions_by_source, statistics and
\* cluster_by_concepts: what they look at
AnswerQuery(c) ==
  /\ At(c, "answer") /\ asking[c].op = "query"
  /\ asking' = [asking EXCEPT ![c].pc = "done", ![c].answer = cached]
  /\ listed' = listed \cup cached
  /\ UNCHANGED <<worldVars, serviceVars, begun>>

\* get_session, extract_files: no import
AnswerGet(c) ==
  /\ At(c, "answer") /\ asking[c].op = "get"
  /\ asking' = [asking EXCEPT ![c].pc = "done", ![c].answer = asking[c].arg \cap cached]
  /\ UNCHANGED <<worldVars, serviceVars, begun, listed>>

ClearCache(c) ==
  /\ At(c, "answer") /\ asking[c].op = "clear" /\ Go(c, "done")
  /\ cached' = {} /\ cleared' = TRUE
  /\ UNCHANGED <<worldVars, attempted, foundNothing, begun, listed>>

\* an assistant records a session
Record(s) ==
  /\ s \notin onDisk /\ onDisk' = onDisk \cup {s}
  /\ UNCHANGED <<perCommand, cacheFile, serviceVars, asking, begun, listed>>

----------------------------------------------------------------------------

\* nothing in the code writes sessions.json
SessionInit ==
  /\ perCommand \in BOOLEAN /\ onDisk \in SUBSET Sessions /\ cacheFile = {}
  /\ cached = {} /\ attempted = FALSE /\ cleared = FALSE /\ foundNothing = FALSE
  /\ asking = [c \in Callers |-> Resting] /\ begun = 0 /\ listed = {}

SessionNext ==
  \/ \E c \in Callers :
       \/ \E op \in {"query", "clear"} : BeginCall(c, op, {}, <<>>)
       \/ \E s \in Sessions : BeginCall(c, "get", {s}, <<>>)
       \/ \E k \in {Available} \cup {<<Sources[i]>> : i \in DOMAIN Sources} :
            BeginCall(c, "import", {}, k)      \* import_all or import_from
       \/ ReadFlag(c) \/ ReadCache(c) \/ Collect(c) \/ Install(c) \/ Mark(c)
       \/ AnswerQuery(c) \/ AnswerGet(c) \/ ClearCache(c)
  \/ \E s \in Sessions : Record(s)

SessionSpec == SessionInit /\ [][SessionNext]_sessionVars

----------------------------------------------------------------------------
(* Properties.                                                             *)

Answered(c, op) == asking[c].op = op /\ At(c, "done")

\* A query that shows no sessions does so after an import of its service came back without
\* any, or after the cache was cleared: never because another caller's import is still
\* under way (the flag is read, the cache is read, and the flag is set three awaits later).
EmptyIsImported ==
  \A c \in Callers : Answered(c, "query") /\ asking[c].answer = {} => foundNothing \/ cleared

\* A session that a list has shown is found when it is asked for: "Session '{}' not found.
\* Try running 'sessions list' first to import sessions." (learn_command.rs, FromSession).
ListedCanBeTaken ==
  [][\A c \in Callers :
       AnswerGet(c) /\ asking[c].arg \subseteq listed
         => cleared \/ asking[c].arg \subseteq cached]_sessionVars
=============================================================================
