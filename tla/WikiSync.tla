------------------------------ MODULE WikiSync ------------------------------
(***************************************************************************)
(* The synchronisation of shared learnings to the wiki (terraphim_agent,   *)
(* shared_learning/wiki_sync.rs, run by "learn shared sync"): for each     *)
(* learning of a snapshot, wiki-get tells whether its page exists and      *)
(* wiki-update or wiki-create writes it.  Each is a child process that may *)
(* fail, and that is killed at a timeout, before or after the server did   *)
(* what it was asked.  People and other runs change the wiki meanwhile.    *)
(***************************************************************************)
EXTENDS Naturals

CONSTANTS
  Syncers,      \* runs that may be under way together
  Learnings,
  PageOf,       \* the page name of each learning, its own or the generated one
  Valid,        \* the names that validate_wiki_page_name accepts
  NoPage,       \* what an absent page holds
  Notes,        \* what people write into a page
  MaxSyncs,     \* bound: runs started
  MaxFaults,    \* bound: calls that fail or time out, and runs that die
  MaxChanges    \* bound: changes by people

ASSUME WikiAssumption == MaxSyncs \in Nat /\ MaxFaults \in Nat /\ MaxChanges \in Nat

Pages == {PageOf[l] : l \in Learnings}

VARIABLES
  trusted,      \* the learnings at L2 or L3
  revision,     \* revision[l]: the text of the learning
  wiki,         \* what each page holds: a learning's text, a note, or NoPage
  sync,         \* sync[s]: the run of s
  syncs, faults, changes,
  touched       \* history: touched[s], the pages that a fault of s or somebody else met

wikiVars  == <<trusted, revision, wiki, sync, syncs, faults, changes, touched>>
storeVars == <<trusted, revision>>

\* batch: the snapshot;  left: learnings to come;  on: the learning at hand
Text(l, n) == [learning |-> l, revision |-> n]
NoSync == [pc |-> "idle", on |-> NoPage, batch |-> {}, left |-> {}, wrote |-> {}, failed |-> {}]

WikiTypeOK ==
  /\ trusted \subseteq Learnings /\ revision \in [Learnings -> 0..MaxChanges]
  /\ \A p \in Pages : \/ wiki[p] \in Notes \cup {NoPage}
                      \/ \E l \in Learnings, n \in 0..MaxChanges :
                           p = PageOf[l] /\ p \in Valid /\ wiki[p] = Text(l, n)
  /\ \A s \in Syncers :
       /\ sync[s].pc \in {"idle", "next", "get", "create", "update", "done"}
       /\ sync[s].pc \in {"get", "create", "update"} => sync[s].on \in {t.learning : t \in sync[s].batch}
       /\ sync[s].left \subseteq Learnings /\ sync[s].wrote \cap sync[s].failed = {}
       /\ touched[s] \subseteq Pages
  /\ syncs \in 0..MaxSyncs /\ faults \in 0..MaxFaults /\ changes \in 0..MaxChanges

----------------------------------------------------------------------------
(* A run.                                                                  *)

\* list_all, before the first call: what is synchronised is what the learnings were then
Start(s) ==
  /\ sync[s].pc \in {"idle", "done"} /\ syncs < MaxSyncs /\ syncs' = syncs + 1
  /\ sync' = [sync EXCEPT ![s] = [NoSync EXCEPT !.pc = "next", !.left = Learnings,
                !.batch = {Text(l, revision[l]) : l \in trusted}]]
  /\ touched' = [touched EXCEPT ![s] = {}]
  /\ UNCHANGED <<storeVars, wiki, faults, changes>>

\* The head of sync_learning: a learning below L2 is skipped, one with a name that is not
\* valid fails; neither calls gitea-robot.
Take(s) ==
  /\ sync[s].pc = "next" /\ sync[s].left # {}
  /\ \E l \in sync[s].left :
       LET eligible == l \in {t.learning : t \in sync[s].batch}
           rest == [sync[s] EXCEPT !.left = @ \ {l}]
       IN sync' = [sync EXCEPT ![s] =
            IF ~eligible THEN rest
            ELSE IF PageOf[l] \notin Valid THEN [rest EXCEPT !.failed = @ \cup {l}]
            ELSE [rest EXCEPT !.pc = "get", !.on = l]]
  /\ UNCHANGED <<storeVars, wiki, syncs, faults, changes, touched>>

EndSync(s) ==
  /\ sync[s].pc = "next" /\ sync[s].left = {}
  /\ sync' = [sync EXCEPT ![s].pc = "done"]
  /\ UNCHANGED <<storeVars, wiki, syncs, faults, changes, touched>>

\* Mutant of WriteAs: the page is created whether it exists or not.
WriteAsNew(p) == "create"

\* page_exists: how the learning is going to be written
WriteAs(p) == IF wiki[p] = NoPage THEN "create" ELSE "update"

Get(s) ==
  /\ sync[s].pc = "get"
  /\ sync' = [sync EXCEPT ![s].pc = WriteAs(PageOf[sync[s].on])]
  /\ UNCHANGED <<storeVars, wiki, syncs, faults, changes, touched>>

\* the result of the learning at hand is reported, and the batch goes on
Reported(s, ok) ==
  [sync EXCEPT ![s].pc = "next", ![s].on = NoPage,
               ![s].wrote = IF ok THEN @ \cup {sync[s].on} ELSE @,
               ![s].failed = IF ok THEN @ ELSE @ \cup {sync[s].on}]

\* the server does what wiki-create or wiki-update asks, or refuses: a page to create exists
\* already, a page to update is gone
Refused(s) == (sync[s].pc = "create") # (wiki[PageOf[sync[s].on]] = NoPage)
Stored(s)  == {[wiki EXCEPT ![PageOf[t.learning]] = t] :
                 t \in {t \in sync[s].batch : t.learning = sync[s].on}}

\* somebody else's runs see that the page has changed
Touches(s, p) == [r \in Syncers |-> IF r = s THEN touched[r] ELSE touched[r] \cup {p}]

Write(s) ==
  /\ sync[s].pc \in {"create", "update"}
  /\ IF Refused(s)
       THEN sync' = Reported(s, FALSE) /\ UNCHANGED <<wiki, touched>>
       ELSE /\ wiki' \in Stored(s) /\ sync' = Reported(s, TRUE)
            /\ touched' = Touches(s, PageOf[sync[s].on])
  /\ UNCHANGED <<storeVars, syncs, faults, changes>>

\* A call that fails, or is killed at its timeout: the server may have done it all the same.
Fault(s) ==
  /\ sync[s].pc \in {"get", "create", "update"} /\ faults < MaxFaults /\ faults' = faults + 1
  /\ sync' = Reported(s, FALSE)
  /\ \/ UNCHANGED wiki
     \/ sync[s].pc # "get" /\ ~Refused(s) /\ wiki' \in Stored(s)
  /\ touched' = [r \in Syncers |-> touched[r] \cup {PageOf[sync[s].on]}]
  /\ UNCHANGED <<storeVars, syncs, changes>>

\* the run is killed, with a call under way or between two
Die(s) ==
  /\ sync[s].pc \notin {"idle", "done"} /\ faults < MaxFaults /\ faults' = faults + 1
  /\ sync' = [sync EXCEPT ![s] = NoSync]
  /\ IF sync[s].pc \in {"create", "update"} /\ ~Refused(s)
       THEN /\ wiki' \in {wiki} \cup Stored(s)
            /\ touched' = Touches(s, PageOf[sync[s].on])
       ELSE UNCHANGED <<wiki, touched>>
  /\ UNCHANGED <<storeVars, syncs, changes>>

----------------------------------------------------------------------------
(* People: they promote and revise learnings, and edit and delete pages.   *)

Promote(l) ==
  /\ l \notin trusted /\ changes < MaxChanges /\ changes' = changes + 1
  /\ trusted' = trusted \cup {l}
  /\ UNCHANGED <<revision, wiki, sync, syncs, faults, touched>>

Revise(l) ==
  /\ changes < MaxChanges /\ changes' = changes + 1
  /\ revision' = [revision EXCEPT ![l] = @ + 1]
  /\ UNCHANGED <<trusted, wiki, sync, syncs, faults, touched>>

ChangePage(p) ==
  /\ p \in Valid /\ changes < MaxChanges /\ changes' = changes + 1
  /\ \E text \in Notes \cup {NoPage} : wiki[p] # text /\ wiki' = [wiki EXCEPT ![p] = text]
  /\ touched' = [r \in Syncers |-> touched[r] \cup {p}]
  /\ UNCHANGED <<storeVars, sync, syncs, faults>>

----------------------------------------------------------------------------

WikiInit ==
  /\ trusted \in SUBSET Learnings /\ revision = [l \in Learnings |-> 0]
  /\ wiki = [p \in Pages |-> NoPage]
  /\ sync = [s \in Syncers |-> NoSync] /\ touched = [s \in Syncers |-> {}]
  /\ syncs = 0 /\ faults = 0 /\ changes = 0

WikiNext ==
  \/ \E s \in Syncers :
       Start(s) \/ Take(s) \/ EndSync(s) \/ Get(s) \/ Write(s) \/ Fault(s) \/ Die(s)
  \/ \E l \in Learnings : Promote(l) \/ Revise(l)
  \/ \E p \in Pages : ChangePage(p)

WikiSpec == WikiInit /\ [][WikiNext]_wikiVars

----------------------------------------------------------------------------
(* Properties.                                                             *)

\* the learnings of the batch that no other one of it shares the page with
Alone(s, t) == \A u \in sync[s].batch : PageOf[u.learning] = PageOf[t.learning] => u = t

\* When a run has ended, every learning of its batch whose page it alone has written, whose
\* own calls met no fault and whose name is valid is on its page as it was when the run
\* began, and is reported so: whatever an earlier run that died left in the wiki, and
\* whatever failed for the others (sync_all_learnings goes on after a failure, and
\* sync_learning chooses between create and update by what is there).
SyncRepairs ==
  \A s \in Syncers : sync[s].pc = "done" =>
    \A t \in sync[s].batch :
      PageOf[t.learning] \in Valid \ touched[s] /\ Alone(s, t)
        => wiki[PageOf[t.learning]] = t /\ t.learning \in sync[s].wrote
=============================================================================
