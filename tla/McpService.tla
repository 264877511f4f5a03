------------------------------ MODULE McpService ------------------------------
(***************************************************************************)
(* The configuration and the autocomplete indexes of terraphim_mcp_server. *)
(* Tool calls run concurrently on one McpService.  The configuration is    *)
(* behind a tokio Mutex and the indexes behind a tokio RwLock; a build     *)
(* releases the configuration while it loads a thesaurus, and a call that  *)
(* needs both locks takes the configuration first.                         *)
(*                                                                         *)
(* A call names its role or takes the selected one: either way any role.   *)
(* An index is the role and the role configuration its thesaurus was       *)
(* loaded from; Foreign is one that was deserialised.                      *)
(***************************************************************************)
EXTENDS Naturals, FiniteSets

CONSTANTS
    Calls,      \* tool calls that can be in flight together
    Roles,
    Graphs,     \* role configurations with a knowledge graph
    Plains,     \* role configurations without one
    None,       \* no role, no such role, no index, no answer, a free lock
    Foreign,
    Reuse,      \* update_config_tool may bring an earlier configuration back
    MaxUpdates  \* bound on the updates of the configuration

Configs == Graphs \cup Plains

ASSUME McpAssumption ==
    /\ None \notin Configs \cup Calls /\ Foreign # None
    /\ Graphs \cap Plains = {}
    /\ Reuse \in BOOLEAN /\ MaxUpdates \in Nat

VARIABLES
    roles,     \* config.roles
    active,    \* AutocompleteState::active
    cache,     \* AutocompleteState::roles: a configuration and an index each
    confLock,  \* the call that holds the Mutex of the configuration
    readers,   \* the calls that hold the RwLock of the indexes to read
    pc,
    name,      \* the role of each call
    read,      \* role_config of a build
    loaded,    \* the role configuration a build loaded the thesaurus from
    answer,    \* what the last lookup of each call returned
    \* history
    used,      \* every configuration a role has had
    updates

callVars == <<pc, name, read, loaded, answer>>
vars == <<roles, active, cache, confLock, readers, callVars, used, updates>>

Index == [role : Roles, cfg : Configs]
Entry == [cfg : Configs, index : Index]
Answer == [role : Roles, cfg : Configs, index : Index]

Holding == {"reset", "install", "lookup"}

\* The type invariant; the Mutex is held exactly across the three waits for the
\* indexes.
TypeOK ==
    /\ roles \in [Roles -> Configs \cup {None}]
    /\ active \in Index \cup {None, Foreign}
    /\ cache \in [Roles -> Entry \cup {None}]
    /\ confLock \in Calls \cup {None}
    /\ readers \subseteq Calls
    /\ pc \in [Calls -> {"idle", "load", "store", "search"} \cup Holding]
    /\ name \in [Calls -> Roles \cup {None}]
    /\ read \in [Calls -> Configs \cup {None}]
    /\ loaded \in [Calls -> Configs \cup {None}]
    /\ answer \in [Calls -> Answer \cup {None}]
    /\ used \in [Roles -> SUBSET (Configs \cup {None})]
    /\ updates \in Nat
    /\ \A c \in Calls : pc[c] \in Holding <=> confLock = c

Init ==
    /\ roles \in [Roles -> Graphs]
    /\ active = None
    /\ cache = [r \in Roles |-> None]
    /\ confLock = None /\ readers = {}
    /\ pc = [c \in Calls |-> "idle"]
    /\ name = [c \in Calls |-> None]
    /\ read = [c \in Calls |-> None]
    /\ loaded = [c \in Calls |-> None]
    /\ answer = [c \in Calls |-> None]
    /\ used = [r \in Roles |-> {roles[r]}]
    /\ updates = 0

Goto(c, l) == pc' = [pc EXCEPT ![c] = l]
\* The call returns; what it read is gone.
Return(c) ==
    /\ Goto(c, "idle")
    /\ name' = [name EXCEPT ![c] = None]
    /\ read' = [read EXCEPT ![c] = None]
    /\ loaded' = [loaded EXCEPT ![c] = None]

-----------------------------------------------------------------------------
(* update_config_tool                                                      *)

\* A configuration the tool may be given: every role keeps its own, or gets
\* another one, or is removed.
Offered(cfg) ==
    \A r \in Roles : Reuse \/ cfg[r] = roles[r] \/ cfg[r] \notin used[r]

\* update_config: lock, replace, and keep the lock until the indexes are gone.
UpdateLock(c) ==
    /\ pc[c] = "idle" /\ confLock = None /\ updates < MaxUpdates
    /\ updates' = updates + 1
    /\ \E cfg \in [Roles -> Configs \cup {None}] :
         /\ Offered(cfg)
         /\ roles' = cfg
         /\ used' = [r \in Roles |-> used[r] \cup {cfg[r]}]
    /\ Goto(c, "reset") /\ confLock' = c
    /\ answer' = [answer EXCEPT ![c] = None]
    /\ UNCHANGED <<active, cache, readers, name, read, loaded>>

\* Mutant of UpdateReset: the role indexes go, the active one stays.
UpdateResetRoles(c) ==
    /\ pc[c] = "reset" /\ readers = {}
    /\ cache' = [r \in Roles |-> None]
    /\ Return(c) /\ confLock' = None
    /\ UNCHANGED <<roles, active, readers, answer, used, updates>>

UpdateReset(c) ==
    /\ pc[c] = "reset" /\ readers = {}
    /\ active' = None
    /\ cache' = [r \in Roles |-> None]
    /\ Return(c) /\ confLock' = None
    /\ UNCHANGED <<roles, readers, answer, used, updates>>

-----------------------------------------------------------------------------
(* build_autocomplete_index                                                *)

\* get_role, and the two checks of its knowledge graph; else it is an error
\* and nothing has changed.
BuildReadsRole(c) ==
    /\ pc[c] = "idle" /\ confLock = None
    /\ \E r \in Roles :
         /\ roles[r] \in Graphs
         /\ name' = [name EXCEPT ![c] = r]
         /\ read' = [read EXCEPT ![c] = roles[r]]
    /\ Goto(c, "load")
    /\ answer' = [answer EXCEPT ![c] = None]
    /\ UNCHANGED <<roles, active, cache, confLock, readers, loaded, used, updates>>

\* terraphim_service: a clone of the configuration as it is now, in which
\* ensure_thesaurus_loaded finds the thesaurus of the role, or fails.
BuildLoads(c) ==
    /\ pc[c] = "load" /\ confLock = None
    /\ \/ /\ roles[name[c]] \in Graphs
          /\ loaded' = [loaded EXCEPT ![c] = roles[name[c]]]
          /\ Goto(c, "store") /\ UNCHANGED <<name, read>>
       \/ Return(c)
    /\ UNCHANGED <<roles, active, cache, confLock, readers, answer, used, updates>>

\* Mutant of BuildChecks: the role is looked up again to label the index.
BuildRelabels(c) ==
    /\ pc[c] = "store" /\ confLock = None
    /\ roles[name[c]] # None
    /\ read' = [read EXCEPT ![c] = roles[name[c]]]
    /\ Goto(c, "install") /\ confLock' = c
    /\ UNCHANGED <<roles, active, cache, readers, name, loaded, answer, used, updates>>

\* The configuration of the role is locked and must be what it was.
BuildChecks(c) ==
    /\ pc[c] = "store" /\ confLock = None
    /\ IF roles[name[c]] = read[c]
         THEN Goto(c, "install") /\ confLock' = c /\ UNCHANGED <<name, read, loaded>>
         ELSE Return(c) /\ UNCHANGED confLock
    /\ UNCHANGED <<roles, active, cache, readers, answer, used, updates>>

Built(c) == [role |-> name[c], cfg |-> loaded[c]]

\* Mutant of BuildInstall: the configuration is locked a second time.
BuildInstallRelocks(c) ==
    /\ pc[c] = "install" /\ readers = {} /\ confLock = None
    /\ cache' = [cache EXCEPT ![name[c]] = [cfg |-> read[c], index |-> Built(c)]]
    /\ active' = Built(c)
    /\ Return(c)
    /\ UNCHANGED <<roles, confLock, readers, answer, used, updates>>

BuildInstall(c) ==
    /\ pc[c] = "install" /\ readers = {}
    /\ cache' = [cache EXCEPT ![name[c]] = [cfg |-> read[c], index |-> Built(c)]]
    /\ active' = Built(c)
    /\ Return(c) /\ confLock' = None
    /\ UNCHANGED <<roles, readers, answer, used, updates>>

-----------------------------------------------------------------------------
(* role_autocomplete_index, for autocomplete_terms and its sibling         *)

LookupLock(c) ==
    /\ pc[c] = "idle" /\ confLock = None
    /\ \E r \in Roles :
         /\ roles[r] # None
         /\ name' = [name EXCEPT ![c] = r]
    /\ Goto(c, "lookup") /\ confLock' = c
    /\ answer' = [answer EXCEPT ![c] = None]
    /\ UNCHANGED <<roles, active, cache, readers, read, loaded, used, updates>>

\* An index whose configuration is not the one of the role counts as none.
LookupRead(c) ==
    /\ pc[c] = "lookup"
    /\ LET e == cache[name[c]] IN
         answer' = [answer EXCEPT ![c] =
            IF e # None /\ e.cfg = roles[name[c]]
              THEN [role |-> name[c], cfg |-> roles[name[c]], index |-> e.index]
              ELSE None]
    /\ Return(c) /\ confLock' = None
    /\ UNCHANGED <<roles, active, cache, readers, used, updates>>

-----------------------------------------------------------------------------
(* The operations on the active index                                      *)

\* The three fuzzy searches and serialize_autocomplete_index read it under the
\* RwLock, to the end.
SearchBegin(c) ==
    /\ pc[c] = "idle"
    /\ Goto(c, "search")
    /\ readers' = readers \cup {c}
    /\ answer' = [answer EXCEPT ![c] = None]
    /\ UNCHANGED <<roles, active, cache, confLock, name, read, loaded, used, updates>>

SearchEnd(c) ==
    /\ pc[c] = "search"
    /\ Return(c)
    /\ readers' = readers \ {c}
    /\ UNCHANGED <<roles, active, cache, confLock, answer, used, updates>>

\* deserialize_autocomplete_index, whose bytes decode
Deserialize(c) ==
    /\ pc[c] = "idle" /\ readers = {}
    /\ active' = Foreign
    /\ UNCHANGED <<roles, cache, confLock, readers, callVars, used, updates>>

-----------------------------------------------------------------------------
Begin(c) ==
    \/ UpdateLock(c) \/ BuildReadsRole(c) \/ LookupLock(c) \/ SearchBegin(c)
    \/ Deserialize(c)

Continue(c) ==
    \/ UpdateReset(c) \/ BuildLoads(c) \/ BuildChecks(c) \/ BuildInstall(c)
    \/ LookupRead(c) \/ SearchEnd(c)

Next == \E c \in Calls : Begin(c) \/ Continue(c)

Spec == Init /\ [][Next]_vars

\* Both tokio locks are granted in the order they were asked for, so a call
\* that waits while others come and go gets its turn; loading a thesaurus ends.
FairSpec == Spec /\ \A c \in Calls : SF_vars(Continue(c))

-----------------------------------------------------------------------------
(* Properties                                                              *)

\* "A request receives one coherent role snapshot rather than another role's
\* cache": the index a lookup returns was built from the configuration its role
\* has at that moment, whatever updates and builds overlap.
CoherentAnswer ==
    \A c \in Calls : answer[c] # None =>
        answer[c].index = [role |-> answer[c].role, cfg |-> answer[c].cfg]

\* No search answers from a configuration that was replaced: once an update has
\* returned, the active index is of a role as configured, or deserialised.
ActiveIsCurrent ==
    (\A c \in Calls : pc[c] # "reset") =>
        \/ active \in {None, Foreign}
        \/ active.cfg = roles[active.role]

\* "Lock order is config then index": calls never wait for each other in a
\* circle, and each returns.
CallsReturn == \A c \in Calls : pc[c] # "idle" ~> pc[c] = "idle"

=============================================================================
