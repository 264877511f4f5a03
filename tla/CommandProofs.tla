---------------------------- MODULE CommandProofs ----------------------------
(***************************************************************************)
(* Theorems about what the commands of the programs do, for every value of *)
(* the constants: the synchronisation of learnings to the wiki (WikiSync), *)
(* the searches of terraphim-grep (GrepSearch), the command registry and   *)
(* its locks (CommandRegistry), the checks before a command is started     *)
(* and their audit log (CommandExecution), what failed commands and users  *)
(* teach the agent (LearningCapture), and all of them together with the    *)
(* session service.                                                        *)
(***************************************************************************)
EXTENDS MCCommands, SessionServiceProofs, FiniteSetTheorems, SequenceTheorems,
        WellFoundedInduction

-----------------------------------------------------------------------------
(* The synchronisation to the wiki.                                         *)

Texts == [learning : Learnings, revision : Nat]
WikiRun == [pc : {"idle", "next", "get", "create", "update", "done"},
            on : Learnings \cup {NoPage}, batch : SUBSET Texts, left : SUBSET Learnings,
            wrote : SUBSET Learnings, failed : SUBSET Learnings]

WikiTypes ==
    /\ trusted \subseteq Learnings /\ revision \in [Learnings -> Nat]
    /\ wiki \in [Pages -> Texts \cup Notes \cup {NoPage}]
    /\ sync \in [Syncers -> WikiRun] /\ touched \in [Syncers -> SUBSET Pages]

Calling(s) == sync[s].pc \in {"get", "create", "update"}

\* A call is about a learning of the batch.
OnBatch ==
    \A s \in Syncers : Calling(s) => \E t \in sync[s].batch : t.learning = sync[s].on

\* How far a run is with learning t: to come, at hand and written as its page
\* asks, or written.
ToCome(s, t) == t.learning \in sync[s].left /\ sync[s].pc # "done"
AtHand(s, t) ==
    /\ Calling(s) /\ sync[s].on = t.learning
    /\ sync[s].pc = "create" => wiki[PageOf[t.learning]] = NoPage
    /\ sync[s].pc = "update" => wiki[PageOf[t.learning]] # NoPage
Written(s, t) == wiki[PageOf[t.learning]] = t /\ t.learning \in sync[s].wrote

\* Nobody else, and no fault, meets the page of learning t.
Undisturbed(s, t) == PageOf[t.learning] \in Valid \ touched[s] /\ Alone(s, t)

ProgressInv ==
    \A s \in Syncers : \A t \in sync[s].batch :
        Undisturbed(s, t) => ToCome(s, t) \/ AtHand(s, t) \/ Written(s, t)

WikiInv == WikiTypes /\ OnBatch /\ ProgressInv

LEMMA WikiInitInv == WikiInit => WikiInv
<1> SUFFICES ASSUME WikiInit PROVE WikiInv
  OBVIOUS
<1>1. NoSync \in WikiRun /\ NoSync.batch = {} /\ NoSync.pc = "idle"
  BY DEF NoSync, WikiRun
<1>2. WikiTypes
  BY <1>1 DEF WikiInit, WikiTypes
<1> QED BY <1>1, <1>2 DEF WikiInit, WikiInv, OnBatch, ProgressInv, Calling

\* The run of s after a call, and what the others see of it.
LEMMA ReportedIs ==
    ASSUME WikiTypes, NEW s \in Syncers, Calling(s), sync[s].on \in Learnings, NEW ok \in BOOLEAN,
           sync' = Reported(s, ok)
    PROVE  /\ sync' \in [Syncers -> WikiRun]
           /\ \A r \in Syncers \ {s} : sync'[r] = sync[r]
           /\ sync'[s].pc = "next" /\ sync'[s].batch = sync[s].batch
           /\ sync'[s].left = sync[s].left
           /\ sync'[s].wrote = IF ok THEN sync[s].wrote \cup {sync[s].on} ELSE sync[s].wrote
           /\ sync'[s].failed = IF ok THEN sync[s].failed ELSE sync[s].failed \cup {sync[s].on}
<1>1. sync[s] \in WikiRun
  BY DEF WikiTypes
<1> DEFINE o == sync[s].on
           w == IF ok THEN sync[s].wrote \cup {o} ELSE sync[s].wrote
           f == IF ok THEN sync[s].failed ELSE sync[s].failed \cup {o}
           n == [pc |-> "next", on |-> NoPage, batch |-> sync[s].batch, left |-> sync[s].left,
                 wrote |-> w, failed |-> f]
<1>2. w \in SUBSET Learnings /\ f \in SUBSET Learnings
  BY <1>1 DEF WikiRun
<1>3. sync' = [sync EXCEPT ![s] = n]
  <2>1. sync[s] = [pc |-> sync[s].pc, on |-> o, batch |-> sync[s].batch, left |-> sync[s].left,
                   wrote |-> sync[s].wrote, failed |-> sync[s].failed]
    BY <1>1 DEF WikiRun
  <2>2. sync' = [sync EXCEPT ![s] = [[[[sync[s] EXCEPT !.pc = "next"] EXCEPT !.on = NoPage]
                                     EXCEPT !.wrote = w] EXCEPT !.failed = f]]
    BY <1>1 DEF Reported, WikiRun, WikiTypes
  <2> QED BY <2>1, <2>2
<1>4. n \in WikiRun
  <2> HIDE DEF w, f
  <2> QED BY <1>1, <1>2 DEF WikiRun
<1> HIDE DEF n
<1>5. sync' \in [Syncers -> WikiRun] /\ sync'[s] = n /\ \A r \in Syncers \ {s} : sync'[r] = sync[r]
  BY <1>3, <1>4 DEF WikiTypes
<1> QED BY <1>5 DEF n

\* What is written of the learning at hand.
LEMMA StoredIs ==
    ASSUME WikiTypes, OnBatch, NEW s \in Syncers, Calling(s)
    PROVE  /\ sync[s].on \in Learnings /\ PageOf[sync[s].on] \in Pages
           /\ \A w \in Stored(s) :
                /\ w \in [Pages -> Texts \cup Notes \cup {NoPage}]
                /\ \A p \in Pages : p # PageOf[sync[s].on] => w[p] = wiki[p]
                /\ \E u \in sync[s].batch : u.learning = sync[s].on /\ w[PageOf[sync[s].on]] = u
<1>1. sync[s].batch \subseteq Texts
  BY DEF WikiTypes, WikiRun
<1>2. PICK t \in sync[s].batch : t.learning = sync[s].on
  BY DEF OnBatch
<1>3. sync[s].on \in Learnings /\ PageOf[sync[s].on] \in Pages
  BY <1>1, <1>2 DEF Texts, Pages
<1>4. ASSUME NEW u \in sync[s].batch, u.learning = sync[s].on,
             NEW w, w = [wiki EXCEPT ![PageOf[u.learning]] = u]
      PROVE  /\ w \in [Pages -> Texts \cup Notes \cup {NoPage}]
             /\ \A p \in Pages : p # PageOf[sync[s].on] => w[p] = wiki[p]
             /\ w[PageOf[sync[s].on]] = u
  BY <1>1, <1>3, <1>4 DEF WikiTypes
<1> QED BY <1>3, <1>4 DEF Stored

\* A run that stays as it is sees no change on a page that nobody touched.
LEMMA ProgressFrame ==
    ASSUME WikiTypes, ProgressInv, NEW s \in Syncers, sync'[s] = sync[s],
           touched[s] \subseteq touched'[s],
           \A p \in Pages \ touched'[s] : wiki'[p] = wiki[p]
    PROVE  \A t \in sync'[s].batch :
               Undisturbed(s, t)' => ToCome(s, t)' \/ AtHand(s, t)' \/ Written(s, t)'
<1> SUFFICES ASSUME NEW t \in sync[s].batch, Undisturbed(s, t)'
             PROVE  ToCome(s, t)' \/ AtHand(s, t)' \/ Written(s, t)'
  OBVIOUS
<1>1. Undisturbed(s, t)
  BY DEF Undisturbed, Alone
<1>2. PageOf[t.learning] \in Pages
  BY DEF WikiTypes, WikiRun, Texts, Pages
<1>3. wiki'[PageOf[t.learning]] = wiki[PageOf[t.learning]]
  BY <1>2 DEF Undisturbed
<1>4. ToCome(s, t) \/ AtHand(s, t) \/ Written(s, t)
  BY <1>1 DEF ProgressInv
<1> QED BY <1>3, <1>4 DEF ToCome, AtHand, Written, Calling

\* A learning that is passed over, one that fails, and one that is at hand.
LEMMA TakeIs ==
    ASSUME WikiTypes, NEW s \in Syncers, Take(s)
    PROVE  \E n \in WikiRun, l \in sync[s].left :
             /\ sync' = [sync EXCEPT ![s] = n]
             /\ n.left = sync[s].left \ {l} /\ n.batch = sync[s].batch /\ n.wrote = sync[s].wrote
             /\ \/ /\ n.pc = "next" /\ ~(\E t \in sync[s].batch : t.learning = l)
                   /\ n.failed = sync[s].failed
                \/ /\ n.pc = "next" /\ PageOf[l] \notin Valid
                   /\ n.failed = sync[s].failed \cup {l}
                \/ /\ n.pc = "get" /\ n.on = l /\ \E t \in sync[s].batch : t.learning = l
                   /\ n.failed = sync[s].failed /\ PageOf[l] \in Valid
<1>1. sync[s] \in WikiRun /\ sync[s].pc = "next" /\ sync \in [Syncers -> WikiRun]
  BY DEF WikiTypes, Take
<1>2. PICK l \in sync[s].left :
        sync' = [sync EXCEPT ![s] =
            IF ~(l \in {t.learning : t \in sync[s].batch}) THEN [sync[s] EXCEPT !.left = @ \ {l}]
            ELSE IF PageOf[l] \notin Valid
                 THEN [[sync[s] EXCEPT !.left = @ \ {l}] EXCEPT !.failed = @ \cup {l}]
            ELSE [[sync[s] EXCEPT !.left = @ \ {l}] EXCEPT !.pc = "get", !.on = l]]
  BY DEF Take
<1> DEFINE rest == [sync[s] EXCEPT !.left = @ \ {l}]
           fail == [rest EXCEPT !.failed = @ \cup {l}]
           gets == [rest EXCEPT !.pc = "get", !.on = l]
<1>3. l \in Learnings
  BY <1>1 DEF WikiRun
<1>4. /\ rest \in WikiRun /\ rest.pc = "next" /\ rest.left = sync[s].left \ {l}
      /\ rest.batch = sync[s].batch /\ rest.wrote = sync[s].wrote
      /\ rest.failed = sync[s].failed
  BY <1>1 DEF WikiRun
<1> HIDE DEF rest
<1>5. /\ fail \in WikiRun /\ fail.pc = "next" /\ fail.left = sync[s].left \ {l}
      /\ fail.batch = sync[s].batch /\ fail.wrote = sync[s].wrote
      /\ fail.failed = sync[s].failed \cup {l}
  BY <1>3, <1>4 DEF WikiRun
<1>6. /\ gets \in WikiRun /\ gets.pc = "get" /\ gets.on = l /\ gets.left = sync[s].left \ {l}
      /\ gets.batch = sync[s].batch /\ gets.wrote = sync[s].wrote
      /\ gets.failed = sync[s].failed
  BY <1>3, <1>4 DEF WikiRun
<1>7. CASE ~(\E t \in sync[s].batch : t.learning = l)
  <2>1. sync' = [sync EXCEPT ![s] = rest]
    BY <1>2, <1>7 DEF rest
  <2> QED BY <1>4, <1>7, <2>1
<1>8. CASE (\E t \in sync[s].batch : t.learning = l) /\ PageOf[l] \notin Valid
  <2>1. sync' = [sync EXCEPT ![s] = fail]
    BY <1>2, <1>8 DEF rest
  <2> HIDE DEF fail
  <2> QED BY <1>5, <1>8, <2>1
<1>9. CASE (\E t \in sync[s].batch : t.learning = l) /\ PageOf[l] \in Valid
  <2>1. sync' = [sync EXCEPT ![s] = gets]
    BY <1>2, <1>9 DEF rest
  <2> HIDE DEF gets
  <2> QED BY <1>6, <1>9, <2>1
<1> QED BY <1>7, <1>8, <1>9

\* The types of the synchronisation.
LEMMA WikiTypeStep ==
    ASSUME WikiTypes, OnBatch, [WikiNext]_wikiVars
    PROVE  WikiTypes'
<1>1. CASE UNCHANGED wikiVars
  BY <1>1 DEF wikiVars, storeVars, WikiTypes
<1>2. ASSUME NEW s \in Syncers, Start(s) PROVE WikiTypes'
  <2> DEFINE n == [NoSync EXCEPT !.pc = "next", !.left = Learnings,
                     !.batch = {Text(l, revision[l]) : l \in trusted}]
  <2>1. {Text(l, revision[l]) : l \in trusted} \in SUBSET Texts
    BY DEF Text, Texts, WikiTypes
  <2>2. n \in WikiRun
    BY <2>1 DEF NoSync, WikiRun
  <2>3. sync' = [sync EXCEPT ![s] = n] /\ touched' = [touched EXCEPT ![s] = {}]
        /\ UNCHANGED <<trusted, revision, wiki>>
    BY <1>2 DEF Start, storeVars
  <2> HIDE DEF n
  <2> QED BY <2>2, <2>3 DEF WikiTypes
<1>3. ASSUME NEW s \in Syncers, Take(s) PROVE WikiTypes'
  <2>1. UNCHANGED <<trusted, revision, wiki, touched>>
    BY <1>3 DEF Take, storeVars
  <2>2. \E n \in WikiRun : sync' = [sync EXCEPT ![s] = n]
    BY <1>3, TakeIs
  <2> QED BY <2>1, <2>2 DEF WikiTypes
<1>4. ASSUME NEW s \in Syncers, EndSync(s) PROVE WikiTypes'
  BY <1>4, SMTT(30) DEF EndSync, storeVars, WikiTypes, WikiRun
<1>5. ASSUME NEW s \in Syncers, Get(s) PROVE WikiTypes'
  <2>1. UNCHANGED <<trusted, revision, wiki, touched>>
    BY <1>5 DEF Get, storeVars
  <2>2. WriteAs(PageOf[sync[s].on]) \in {"create", "update"}
    BY DEF WriteAs
  <2>3. sync' \in [Syncers -> WikiRun]
    BY <1>5, <2>2 DEF Get, WikiTypes, WikiRun
  <2> QED BY <2>1, <2>3 DEF WikiTypes
<1>6. ASSUME NEW s \in Syncers, Write(s) PROVE WikiTypes'
  <2>1. Calling(s) /\ UNCHANGED <<trusted, revision>>
    BY <1>6 DEF Write, Calling, storeVars
  <2>2. sync[s].on \in Learnings /\ PageOf[sync[s].on] \in Pages
        /\ \A w \in Stored(s) : w \in [Pages -> Texts \cup Notes \cup {NoPage}]
    BY <2>1, StoredIs
  <2>3. sync' = Reported(s, FALSE) \/ sync' = Reported(s, TRUE)
    BY <1>6 DEF Write
  <2>4. sync' \in [Syncers -> WikiRun]
    BY <2>1, <2>2, <2>3, ReportedIs
  <2>5. wiki' = wiki \/ wiki' \in Stored(s)
    BY <1>6 DEF Write
  <2>6. touched' \in [Syncers -> SUBSET Pages]
    <3>1. touched' = touched \/ touched' = Touches(s, PageOf[sync[s].on])
      BY <1>6 DEF Write
    <3> QED BY <2>2, <3>1 DEF Touches, WikiTypes
  <2> QED BY <2>1, <2>2, <2>4, <2>5, <2>6 DEF WikiTypes
<1>7. ASSUME NEW s \in Syncers, Fault(s) PROVE WikiTypes'
  <2>1. Calling(s) /\ UNCHANGED <<trusted, revision>>
    BY <1>7 DEF Fault, Calling, storeVars
  <2>2. sync[s].on \in Learnings /\ PageOf[sync[s].on] \in Pages
        /\ \A w \in Stored(s) : w \in [Pages -> Texts \cup Notes \cup {NoPage}]
    BY <2>1, StoredIs
  <2>3. sync' \in [Syncers -> WikiRun]
    BY <1>7, <2>1, <2>2, ReportedIs DEF Fault
  <2>4. wiki' = wiki \/ wiki' \in Stored(s)
    BY <1>7 DEF Fault
  <2>5. touched' \in [Syncers -> SUBSET Pages]
    BY <1>7, <2>2 DEF Fault, WikiTypes
  <2> QED BY <2>1, <2>2, <2>3, <2>4, <2>5 DEF WikiTypes
<1>8. ASSUME NEW s \in Syncers, Die(s) PROVE WikiTypes'
  <2>1. UNCHANGED <<trusted, revision>> /\ sync' = [sync EXCEPT ![s] = NoSync]
    BY <1>8 DEF Die, storeVars
  <2>2. sync' \in [Syncers -> WikiRun]
    BY <2>1 DEF NoSync, WikiRun, WikiTypes
  <2>3. CASE sync[s].pc \in {"create", "update"} /\ ~Refused(s)
    <3>1. Calling(s) /\ wiki' \in {wiki} \cup Stored(s) /\ touched' = Touches(s, PageOf[sync[s].on])
      BY <1>8, <2>3 DEF Die, Calling
    <3> QED BY <2>1, <2>2, <3>1, StoredIs DEF Touches, WikiTypes
  <2>4. CASE ~(sync[s].pc \in {"create", "update"} /\ ~Refused(s))
    <3>1. UNCHANGED <<wiki, touched>>
      BY <1>8, <2>4 DEF Die
    <3> QED BY <2>1, <2>2, <3>1 DEF WikiTypes
  <2> QED BY <2>3, <2>4
<1>9. ASSUME NEW l \in Learnings, Promote(l) \/ Revise(l) PROVE WikiTypes'
  BY <1>9 DEF Promote, Revise, WikiTypes
<1>10. ASSUME NEW p \in Pages, ChangePage(p) PROVE WikiTypes'
  BY <1>10 DEF ChangePage, storeVars, WikiTypes
<1> QED BY <1>1, <1>2, <1>3, <1>4, <1>5, <1>6, <1>7, <1>8, <1>9, <1>10 DEF WikiNext

\* A learning of the batch stays the only one of its page.
LEMMA UndisturbedIs ==
    ASSUME NEW s \in Syncers, NEW t, sync'[s].batch = sync[s].batch,
           touched[s] \subseteq touched'[s], Undisturbed(s, t)'
    PROVE  Undisturbed(s, t)
BY DEF Undisturbed, Alone

LEMMA WikiStep ==
    ASSUME WikiInv, [WikiNext]_wikiVars
    PROVE  WikiInv'
<1> USE DEF WikiInv
<1>1. WikiTypes'
  BY WikiTypeStep
<1> DEFINE Fine(s) == (Calling(s) => \E t \in sync[s].batch : t.learning = sync[s].on)
                      /\ \A t \in sync[s].batch : Undisturbed(s, t) =>
                            ToCome(s, t) \/ AtHand(s, t) \/ Written(s, t)
<1>2. SUFFICES ASSUME NEW r \in Syncers PROVE Fine(r)'
  BY <1>1 DEF OnBatch, ProgressInv
<1>3. ASSUME sync'[r] = sync[r], touched[r] \subseteq touched'[r],
             \A p \in Pages \ touched'[r] : wiki'[p] = wiki[p]
      PROVE  Fine(r)'
  <2>1. \A t \in sync'[r].batch :
            Undisturbed(r, t)' => ToCome(r, t)' \/ AtHand(r, t)' \/ Written(r, t)'
    BY <1>3, ProgressFrame
  <2>2. Calling(r)' => \E t \in sync'[r].batch : t.learning = sync'[r].on
    BY <1>3 DEF OnBatch, Calling
  <2> QED BY <2>1, <2>2
<1>4. CASE UNCHANGED wikiVars
  BY <1>3, <1>4 DEF wikiVars
<1>5. ASSUME NEW s \in Syncers, Start(s) PROVE Fine(r)'
  <2> DEFINE n == [NoSync EXCEPT !.pc = "next", !.left = Learnings,
                     !.batch = {Text(l, revision[l]) : l \in trusted}]
  <2>1. sync' = [sync EXCEPT ![s] = n] /\ touched' = [touched EXCEPT ![s] = {}] /\ UNCHANGED wiki
    BY <1>5 DEF Start
  <2>2. n.pc = "next" /\ n.left = Learnings /\ \A t \in n.batch : t.learning \in Learnings
    BY DEF NoSync, Text, WikiTypes
  <2> HIDE DEF n
  <2>3. CASE r # s
    BY <1>3, <2>1, <2>3 DEF WikiTypes
  <2>4. CASE r = s
    <3>1. sync'[r] = n
      BY <2>1, <2>4 DEF WikiTypes
    <3> QED BY <2>2, <3>1 DEF ToCome, Calling
  <2> QED BY <2>3, <2>4
<1>6. ASSUME NEW s \in Syncers, Take(s) PROVE Fine(r)'
  <2>1. UNCHANGED <<wiki, touched>> /\ sync[s].pc = "next"
    BY <1>6 DEF Take
  <2>2. PICK n \in WikiRun, l \in sync[s].left :
             /\ sync' = [sync EXCEPT ![s] = n]
             /\ n.left = sync[s].left \ {l} /\ n.batch = sync[s].batch /\ n.wrote = sync[s].wrote
             /\ \/ n.pc = "next" /\ ~(\E t \in sync[s].batch : t.learning = l)
                \/ n.pc = "next" /\ PageOf[l] \notin Valid
                \/ n.pc = "get" /\ n.on = l /\ \E t \in sync[s].batch : t.learning = l
    BY <1>6, TakeIs
  <2>3. CASE r # s
    BY <1>3, <2>1, <2>2, <2>3 DEF WikiTypes
  <2>4. CASE r = s
    <3>1. sync'[r] = n
      BY <2>2, <2>4 DEF WikiTypes
    <3>2. Calling(r)' => \E t \in sync'[r].batch : t.learning = sync'[r].on
      BY <2>2, <2>4, <3>1 DEF Calling
    <3>3. ASSUME NEW t \in sync'[r].batch, Undisturbed(r, t)'
          PROVE  ToCome(r, t)' \/ AtHand(r, t)' \/ Written(r, t)'
      <4>1. Undisturbed(r, t) /\ t \in sync[r].batch
        BY <2>1, <2>2, <2>4, <3>1, <3>3, UndisturbedIs
      <4>2. ToCome(r, t) \/ Written(r, t)
        BY <2>1, <2>4, <4>1 DEF ProgressInv, AtHand, Calling
      <4>3. CASE Written(r, t)
        BY <2>1, <2>2, <2>4, <3>1, <4>3 DEF Written
      <4>4. CASE ToCome(r, t) /\ t.learning # l
        BY <2>2, <2>4, <3>1, <4>4 DEF ToCome
      <4>5. CASE t.learning = l
        <5>1. n.pc = "get" /\ n.on = l
          BY <2>2, <2>4, <4>1, <4>5 DEF Undisturbed
        <5> QED BY <3>1, <4>5, <5>1 DEF AtHand, Calling
      <4> QED BY <4>2, <4>3, <4>4, <4>5
    <3> QED BY <3>2, <3>3
  <2> QED BY <2>3, <2>4
<1>7. ASSUME NEW s \in Syncers, EndSync(s) PROVE Fine(r)'
  <2>1. /\ UNCHANGED <<wiki, touched>> /\ sync[s].pc = "next" /\ sync[s].left = {}
        /\ sync' = [sync EXCEPT ![s].pc = "done"]
    BY <1>7 DEF EndSync
  <2>2. CASE r # s
    BY <1>3, <2>1, <2>2 DEF WikiTypes
  <2>3. CASE r = s
    <3>1. sync'[r].pc = "done" /\ sync'[r].batch = sync[r].batch /\ sync'[r].wrote = sync[r].wrote
      BY <2>1, <2>3 DEF WikiTypes, WikiRun
    <3>2. ASSUME NEW t \in sync'[r].batch, Undisturbed(r, t)' PROVE Written(r, t)'
      <4>1. Undisturbed(r, t) /\ t \in sync[r].batch
        BY <2>1, <3>1, <3>2, UndisturbedIs
      <4>2. Written(r, t)
        BY <2>1, <2>3, <4>1 DEF ProgressInv, ToCome, AtHand, Calling
      <4> QED BY <2>1, <3>1, <4>2 DEF Written
    <3> QED BY <3>1, <3>2 DEF Calling
  <2> QED BY <2>2, <2>3
<1>8. ASSUME NEW s \in Syncers, Get(s) PROVE Fine(r)'
  <2> DEFINE l == WriteAs(PageOf[sync[s].on])
  <2>1. /\ UNCHANGED <<wiki, touched>> /\ sync[s].pc = "get"
        /\ sync' = [sync EXCEPT ![s].pc = l]
    BY <1>8 DEF Get
  <2>2. /\ l \in {"create", "update"}
        /\ l = "create" => wiki[PageOf[sync[s].on]] = NoPage
        /\ l = "update" => wiki[PageOf[sync[s].on]] # NoPage
    BY DEF WriteAs
  <2> HIDE DEF l
  <2>3. CASE r # s
    BY <1>3, <2>1, <2>3 DEF WikiTypes
  <2>4. CASE r = s
    <3>1. /\ sync'[r].pc = l /\ sync'[r].batch = sync[r].batch /\ sync'[r].wrote = sync[r].wrote
          /\ sync'[r].left = sync[r].left /\ sync'[r].on = sync[r].on
      BY <2>1, <2>4 DEF WikiTypes, WikiRun
    <3>2. ASSUME NEW t \in sync'[r].batch, Undisturbed(r, t)'
          PROVE  ToCome(r, t)' \/ AtHand(r, t)' \/ Written(r, t)'
      <4>1. Undisturbed(r, t) /\ t \in sync[r].batch
        BY <2>1, <3>1, <3>2, UndisturbedIs
      <4>2. ToCome(r, t) \/ AtHand(r, t) \/ Written(r, t)
        BY <4>1 DEF ProgressInv
      <4>3. AtHand(r, t) => AtHand(r, t)'
        BY <2>1, <2>2, <2>4, <3>1 DEF AtHand, Calling
      <4> QED BY <2>1, <2>2, <3>1, <4>2, <4>3 DEF ToCome, Written
    <3>3. Calling(r) => Calling(r)'
      BY <2>2, <3>1 DEF Calling
    <3> QED BY <2>1, <2>4, <3>1, <3>2 DEF OnBatch, Calling
  <2> QED BY <2>3, <2>4
<1>9. ASSUME NEW s \in Syncers, Write(s) PROVE Fine(r)'
  <2> DEFINE p == PageOf[sync[s].on]
  <2>1. Calling(s) /\ sync[s].on \in Learnings /\ p \in Pages /\ sync[s].pc \in {"create", "update"}
    BY <1>9, StoredIs DEF Write, Calling
  <2>2. CASE r # s
    <3>1. sync'[r] = sync[r]
      BY <1>9, <2>1, <2>2, ReportedIs DEF Write
    <3>2. \/ UNCHANGED <<wiki, touched>>
          \/ wiki' \in Stored(s) /\ touched' = Touches(s, p)
      BY <1>9 DEF Write
    <3>3. touched[r] \subseteq touched'[r] /\ \A q \in Pages \ touched'[r] : wiki'[q] = wiki[q]
      BY <2>1, <2>2, <3>2, StoredIs DEF Touches
    <3> QED BY <1>3, <3>1, <3>3
  <2>3. CASE r = s /\ Refused(s)
    <3>1. UNCHANGED <<wiki, touched>> /\ sync' = Reported(s, FALSE)
      BY <1>9, <2>3 DEF Write
    <3>2. /\ sync'[s].pc = "next" /\ sync'[s].batch = sync[s].batch
          /\ sync'[s].left = sync[s].left /\ sync'[s].wrote = sync[s].wrote
      BY <2>1, <3>1, ReportedIs
    <3>3. ASSUME NEW t \in sync'[r].batch, Undisturbed(r, t)'
          PROVE  ToCome(r, t)' \/ Written(r, t)'
      <4>1. Undisturbed(r, t) /\ t \in sync[r].batch
        BY <2>3, <3>1, <3>2, <3>3, UndisturbedIs
      <4>2. ~AtHand(r, t)
        BY <2>1, <2>3 DEF AtHand, Refused
      <4> QED BY <2>3, <3>1, <3>2, <4>1, <4>2 DEF ProgressInv, ToCome, Written
    <3> QED BY <2>3, <3>2, <3>3 DEF Calling
  <2>4. CASE r = s /\ ~Refused(s)
    <3>1. wiki' \in Stored(s) /\ touched' = Touches(s, p) /\ sync' = Reported(s, TRUE)
      BY <1>9, <2>4 DEF Write
    <3>2. /\ sync'[s].pc = "next" /\ sync'[s].batch = sync[s].batch
          /\ sync'[s].left = sync[s].left /\ sync'[s].wrote = sync[s].wrote \cup {sync[s].on}
      BY <2>1, <3>1, ReportedIs
    <3>3. touched'[s] = touched[s]
      BY <3>1 DEF Touches
    <3>4. PICK u \in sync[s].batch : u.learning = sync[s].on /\ wiki'[p] = u
      BY <2>1, <3>1, StoredIs
    <3>5. \A q \in Pages : q # p => wiki'[q] = wiki[q]
      BY <2>1, <3>1, StoredIs
    <3>6. ASSUME NEW t \in sync'[r].batch, Undisturbed(r, t)'
          PROVE  ToCome(r, t)' \/ Written(r, t)'
      <4>1. Undisturbed(r, t) /\ t \in sync[r].batch
        BY <2>4, <3>2, <3>3, <3>6, UndisturbedIs
      <4>2. CASE PageOf[t.learning] = p
        <5>1. u = t
          BY <2>4, <3>4, <4>1, <4>2 DEF Undisturbed, Alone
        <5> QED BY <2>4, <3>2, <3>4, <5>1 DEF Written
      <4>3. CASE PageOf[t.learning] # p
        <5>1. PageOf[t.learning] \in Pages
          BY <4>1 DEF WikiTypes, WikiRun, Texts, Pages
        <5>2. wiki'[PageOf[t.learning]] = wiki[PageOf[t.learning]]
          BY <3>5, <4>3, <5>1
        <5>3. ToCome(r, t) \/ Written(r, t)
          BY <2>4, <4>1, <4>3 DEF ProgressInv, AtHand
        <5> QED BY <2>4, <3>2, <5>2, <5>3 DEF ToCome, Written
      <4> QED BY <4>2, <4>3
    <3> QED BY <2>4, <3>2, <3>6 DEF Calling
  <2> QED BY <2>2, <2>3, <2>4
<1>10. ASSUME NEW s \in Syncers, Fault(s) PROVE Fine(r)'
  <2> DEFINE p == PageOf[sync[s].on]
  <2>1. Calling(s) /\ sync[s].on \in Learnings /\ p \in Pages /\ sync' = Reported(s, FALSE)
        /\ touched' = [q \in Syncers |-> touched[q] \cup {p}]
        /\ (wiki' = wiki \/ wiki' \in Stored(s))
    BY <1>10, StoredIs DEF Fault, Calling
  <2>2. \A q \in Pages \ touched'[r] : wiki'[q] = wiki[q]
    BY <2>1, StoredIs
  <2>3. CASE r # s
    <3>1. sync'[r] = sync[r]
      BY <2>1, <2>3, ReportedIs
    <3> QED BY <1>3, <2>1, <2>2, <3>1
  <2>4. CASE r = s
    <3>2. /\ sync'[s].pc = "next" /\ sync'[s].batch = sync[s].batch
          /\ sync'[s].left = sync[s].left /\ sync'[s].wrote = sync[s].wrote
      BY <2>1, ReportedIs
    <3>3. ASSUME NEW t \in sync'[r].batch, Undisturbed(r, t)'
          PROVE  ToCome(r, t)' \/ Written(r, t)'
      <4>1. Undisturbed(r, t) /\ t \in sync[r].batch
        BY <2>1, <2>4, <3>2, <3>3, UndisturbedIs
      <4>2. PageOf[t.learning] # p /\ PageOf[t.learning] \notin touched'[r]
        BY <2>1, <3>3 DEF Undisturbed
      <4>3. PageOf[t.learning] \in Pages
        BY <4>1 DEF WikiTypes, WikiRun, Texts, Pages
      <4>4. wiki'[PageOf[t.learning]] = wiki[PageOf[t.learning]]
        BY <2>2, <4>2, <4>3
      <4>5. ToCome(r, t) \/ Written(r, t)
        BY <2>4, <4>1, <4>2 DEF ProgressInv, AtHand
      <4> QED BY <2>4, <3>2, <4>4, <4>5 DEF ToCome, Written
    <3> QED BY <2>4, <3>2, <3>3 DEF Calling
  <2> QED BY <2>3, <2>4
<1>11. ASSUME NEW s \in Syncers, Die(s) PROVE Fine(r)'
  <2>1. sync' = [sync EXCEPT ![s] = NoSync]
    BY <1>11 DEF Die
  <2>2. CASE r = s
    <3>1. sync'[r] = NoSync
      BY <2>1, <2>2 DEF WikiTypes
    <3> QED BY <3>1 DEF NoSync, Calling
  <2>3. CASE r # s
    <3>1. sync'[r] = sync[r]
      BY <2>1, <2>3 DEF WikiTypes
    <3>2. touched[r] \subseteq touched'[r] /\ \A q \in Pages \ touched'[r] : wiki'[q] = wiki[q]
      <4>1. CASE sync[s].pc \in {"create", "update"} /\ ~Refused(s)
        <5>1. Calling(s) /\ wiki' \in {wiki} \cup Stored(s) /\ touched' = Touches(s, PageOf[sync[s].on])
          BY <1>11, <4>1 DEF Die, Calling
        <5> QED BY <2>3, <5>1, StoredIs DEF Touches
      <4>2. CASE ~(sync[s].pc \in {"create", "update"} /\ ~Refused(s))
        BY <1>11, <4>2 DEF Die
      <4> QED BY <4>1, <4>2
    <3> QED BY <1>3, <3>1, <3>2
  <2> QED BY <2>2, <2>3
<1>12. ASSUME NEW l \in Learnings, Promote(l) \/ Revise(l) PROVE Fine(r)'
  BY <1>3, <1>12 DEF Promote, Revise
<1>13. ASSUME NEW q \in Pages, ChangePage(q) PROVE Fine(r)'
  <2>1. UNCHANGED sync /\ touched' = [s \in Syncers |-> touched[s] \cup {q}]
        /\ \E text : wiki' = [wiki EXCEPT ![q] = text]
    BY <1>13 DEF ChangePage
  <2>2. \A o \in Pages \ touched'[r] : wiki'[o] = wiki[o]
    BY <2>1 DEF WikiTypes
  <2> QED BY <1>3, <2>1, <2>2
<1> HIDE DEF Fine
<1> QED BY <1>4, <1>5, <1>6, <1>7, <1>8, <1>9, <1>10, <1>11, <1>12, <1>13 DEF WikiNext

\* "learn shared sync": when a run has ended, every learning of its batch whose
\* page nobody else wrote and no fault met is on its page as it was when the run
\* began, and reported so, whatever earlier runs left and whatever failed for
\* the others.
THEOREM RunsRepair == WikiSpec => []SyncRepairs
<1>1. WikiInit => WikiInv
  BY WikiInitInv
<1>2. WikiInv /\ [WikiNext]_wikiVars => WikiInv'
  BY WikiStep
<1>3. WikiInv => SyncRepairs
  BY DEF WikiInv, ProgressInv, SyncRepairs, Undisturbed, ToCome, AtHand, Written, Calling
<1> QED BY <1>1, <1>2, <1>3, PTL DEF WikiSpec

\* No text is newer than the changes that people made, what a page holds of a
\* learning is on that learning's page, and a run counts a learning once.
WikiCounts ==
    /\ syncs \in 0..MaxSyncs /\ faults \in 0..MaxFaults /\ changes \in 0..MaxChanges
    /\ \A l \in Learnings : revision[l] <= changes

OwnText(p) == \/ wiki[p] \in Notes \cup {NoPage}
              \/ \E l \in Learnings, n \in 0..changes :
                   p = PageOf[l] /\ p \in Valid /\ wiki[p] = Text(l, n)

CountsOnce(s) ==
    /\ \A t \in sync[s].batch : t.revision <= changes
    /\ sync[s].wrote \cap sync[s].failed = {}
    /\ sync[s].left \cap (sync[s].wrote \cup sync[s].failed) = {}
    /\ Calling(s) => /\ PageOf[sync[s].on] \in Valid
                     /\ sync[s].on \notin sync[s].left \cup sync[s].wrote \cup sync[s].failed

WikiOwnInv == WikiCounts /\ (\A p \in Pages : OwnText(p)) /\ (\A s \in Syncers : CountsOnce(s))

LEMMA WikiCountsStep ==
    ASSUME WikiTypes, WikiCounts, [WikiNext]_wikiVars
    PROVE  WikiCounts' /\ changes <= changes'
<1> USE WikiAssumption
<1>1. CASE UNCHANGED wikiVars
  BY <1>1 DEF wikiVars, WikiCounts
<1>2. ASSUME NEW s \in Syncers,
             Start(s) \/ Take(s) \/ EndSync(s) \/ Get(s) \/ Write(s) \/ Fault(s) \/ Die(s)
      PROVE  WikiCounts' /\ changes <= changes'
  <2>1. UNCHANGED <<revision, changes>>
    BY <1>2 DEF Start, Take, EndSync, Get, Write, Fault, Die, storeVars
  <2>2. (syncs' = syncs \/ (syncs < MaxSyncs /\ syncs' = syncs + 1))
        /\ (faults' = faults \/ (faults < MaxFaults /\ faults' = faults + 1))
    BY <1>2 DEF Start, Take, EndSync, Get, Write, Fault, Die
  <2> QED BY <2>1, <2>2 DEF WikiCounts
<1>3. ASSUME NEW l \in Learnings, Promote(l) PROVE WikiCounts' /\ changes <= changes'
  BY <1>3 DEF Promote, WikiCounts, WikiTypes
<1>4. ASSUME NEW l \in Learnings, Revise(l) PROVE WikiCounts' /\ changes <= changes'
  <2>1. \A k \in Learnings : revision'[k] <= revision[k] + 1 /\ revision[k] \in Nat
    BY <1>4 DEF Revise, WikiTypes
  <2>2. UNCHANGED <<syncs, faults>> /\ changes < MaxChanges /\ changes' = changes + 1
    BY <1>4 DEF Revise
  <2>3. \A k \in Learnings : revision'[k] \in Nat
    BY <1>4 DEF Revise, WikiTypes
  <2> QED BY <2>1, <2>2, <2>3 DEF WikiCounts
<1>5. ASSUME NEW p \in Pages, ChangePage(p) PROVE WikiCounts' /\ changes <= changes'
  BY <1>5 DEF ChangePage, storeVars, WikiCounts, WikiTypes
<1> QED BY <1>1, <1>2, <1>3, <1>4, <1>5 DEF WikiNext

\* What a call of s leaves on the pages.
LEMMA OwnTextStep ==
    ASSUME WikiInv, WikiOwnInv, WikiCounts', changes <= changes', [WikiNext]_wikiVars
    PROVE  \A p \in Pages : OwnText(p)'
<1> USE DEF WikiInv, WikiOwnInv
<1> SUFFICES ASSUME NEW p \in Pages PROVE OwnText(p)'
  OBVIOUS
<1>1. ASSUME wiki'[p] = wiki[p] PROVE OwnText(p)'
  <2>1. OwnText(p) /\ 0..changes \subseteq 0..changes'
    BY WikiAssumption DEF WikiCounts
  <2> QED BY <1>1, <2>1 DEF OwnText
<1>2. ASSUME NEW s \in Syncers, Calling(s), wiki' \in Stored(s) PROVE OwnText(p)'
  <2>1. PICK u \in sync[s].batch : u.learning = sync[s].on /\ wiki'[PageOf[sync[s].on]] = u
    BY <1>2, StoredIs
  <2>2. p # PageOf[sync[s].on] => wiki'[p] = wiki[p]
    BY <1>2, StoredIs
  <2>3. CASE p = PageOf[sync[s].on]
    <3>1. u \in Texts /\ u.revision <= changes /\ p \in Valid
      BY <1>2, <2>1, <2>3 DEF WikiTypes, WikiRun, CountsOnce
    <3>2. u.learning \in Learnings /\ u.revision \in 0..changes' /\ u = Text(u.learning, u.revision)
      BY <3>1, WikiAssumption DEF Texts, Text, WikiCounts
    <3> QED BY <2>1, <2>3, <3>1, <3>2 DEF OwnText
  <2> QED BY <1>1, <2>2, <2>3
<1>3. CASE UNCHANGED wikiVars
  BY <1>1, <1>3 DEF wikiVars
<1>4. ASSUME NEW s \in Syncers, Start(s) \/ Take(s) \/ EndSync(s) \/ Get(s) PROVE OwnText(p)'
  BY <1>1, <1>4 DEF Start, Take, EndSync, Get
<1>5. ASSUME NEW s \in Syncers, Write(s) PROVE OwnText(p)'
  BY <1>1, <1>2, <1>5 DEF Write, Calling
<1>6. ASSUME NEW s \in Syncers, Fault(s) PROVE OwnText(p)'
  BY <1>1, <1>2, <1>6 DEF Fault, Calling
<1>7. ASSUME NEW s \in Syncers, Die(s) PROVE OwnText(p)'
  <2>1. CASE sync[s].pc \in {"create", "update"} /\ ~Refused(s)
    <3>1. Calling(s) /\ (wiki' = wiki \/ wiki' \in Stored(s))
      BY <1>7, <2>1 DEF Die, Calling
    <3> QED BY <1>1, <1>2, <3>1
  <2>2. CASE ~(sync[s].pc \in {"create", "update"} /\ ~Refused(s))
    BY <1>1, <1>7, <2>2 DEF Die
  <2> QED BY <2>1, <2>2
<1>8. ASSUME NEW l \in Learnings, Promote(l) \/ Revise(l) PROVE OwnText(p)'
  BY <1>1, <1>8 DEF Promote, Revise
<1>9. ASSUME NEW q \in Pages, ChangePage(q) PROVE OwnText(p)'
  <2>1. PICK text \in Notes \cup {NoPage} : wiki' = [wiki EXCEPT ![q] = text]
    BY <1>9 DEF ChangePage
  <2>2. wiki'[p] = wiki[p] \/ wiki'[p] \in Notes \cup {NoPage}
    BY <2>1 DEF WikiTypes
  <2> QED BY <1>1, <2>2 DEF OwnText
<1> QED BY <1>3, <1>4, <1>5, <1>6, <1>7, <1>8, <1>9 DEF WikiNext

LEMMA CountsOnceStep ==
    ASSUME WikiInv, WikiOwnInv, WikiCounts', changes <= changes', [WikiNext]_wikiVars
    PROVE  \A s \in Syncers : CountsOnce(s)'
<1> USE DEF WikiInv, WikiOwnInv
<1> SUFFICES ASSUME NEW r \in Syncers PROVE CountsOnce(r)'
  OBVIOUS
<1>0. /\ sync \in [Syncers -> WikiRun] /\ CountsOnce(r) /\ changes \in Nat /\ changes' \in Nat
      /\ \A b \in SUBSET Texts : (\A t \in b : t.revision <= changes)
                                   => \A t \in b : t.revision <= changes'
  BY WikiAssumption DEF WikiTypes, WikiCounts, Texts
<1>1. ASSUME sync'[r] = sync[r] PROVE CountsOnce(r)'
  <2>1. \A t \in sync'[r].batch : t.revision <= changes'
    BY <1>0, <1>1 DEF CountsOnce, WikiRun
  <2> QED BY <1>0, <1>1, <2>1 DEF CountsOnce, Calling
<1>2. CASE UNCHANGED wikiVars
  BY <1>1, <1>2 DEF wikiVars
<1>3. ASSUME NEW s \in Syncers, Start(s) PROVE CountsOnce(r)'
  <2> DEFINE n == [NoSync EXCEPT !.pc = "next", !.left = Learnings,
                     !.batch = {Text(l, revision[l]) : l \in trusted}]
  <2>1. sync' = [sync EXCEPT ![s] = n] /\ UNCHANGED changes
    BY <1>3 DEF Start
  <2>2. n.pc = "next" /\ n.wrote = {} /\ n.failed = {}
    BY DEF NoSync
  <2>3. \A t \in n.batch : t.revision <= changes
    BY DEF NoSync, Text, WikiTypes, WikiCounts
  <2> HIDE DEF n
  <2>4. sync'[r] = IF r = s THEN n ELSE sync[r]
    BY <1>0, <2>1
  <2>5. CASE r = s
    BY <2>1, <2>2, <2>3, <2>4, <2>5 DEF CountsOnce, Calling
  <2> QED BY <1>1, <2>4, <2>5
<1>4. ASSUME NEW s \in Syncers, Take(s) PROVE CountsOnce(r)'
  <2>1. UNCHANGED changes /\ sync[s].pc = "next"
    BY <1>4 DEF Take
  <2>2. PICK n \in WikiRun, l \in sync[s].left :
             /\ sync' = [sync EXCEPT ![s] = n]
             /\ n.left = sync[s].left \ {l} /\ n.batch = sync[s].batch /\ n.wrote = sync[s].wrote
             /\ \/ n.pc = "next" /\ n.failed = sync[s].failed
                \/ n.pc = "next" /\ n.failed = sync[s].failed \cup {l}
                \/ n.pc = "get" /\ n.on = l /\ n.failed = sync[s].failed /\ PageOf[l] \in Valid
    BY <1>4, TakeIs
  <2>3. sync'[r] = IF r = s THEN n ELSE sync[r]
    BY <1>0, <2>2
  <2>4. CASE r = s
    <3>1. /\ \A t \in n.batch : t.revision <= changes
          /\ n.wrote \cap n.failed = {} /\ n.left \cap (n.wrote \cup n.failed) = {}
      BY <1>0, <2>2, <2>4 DEF CountsOnce
    <3>2. n.pc \in {"get", "create", "update"} =>
            PageOf[n.on] \in Valid /\ n.on \notin n.left \cup n.wrote \cup n.failed
      BY <1>0, <2>2, <2>4 DEF CountsOnce
    <3> QED BY <2>1, <2>3, <2>4, <3>1, <3>2 DEF CountsOnce, Calling
  <2> QED BY <1>1, <2>3, <2>4
<1>5. ASSUME NEW s \in Syncers, EndSync(s) PROVE CountsOnce(r)'
  <2>1. UNCHANGED changes /\ sync' = [sync EXCEPT ![s] = [sync[s] EXCEPT !.pc = "done"]]
    BY <1>5 DEF EndSync
  <2> DEFINE n == [sync[s] EXCEPT !.pc = "done"]
  <2>2. n.pc = "done" /\ n.batch = sync[s].batch /\ n.left = sync[s].left
        /\ n.wrote = sync[s].wrote /\ n.failed = sync[s].failed
    BY <1>0 DEF WikiRun
  <2>3. sync'[r] = IF r = s THEN n ELSE sync[r]
    BY <1>0, <2>1
  <2> HIDE DEF n
  <2>4. CASE r = s
    BY <1>0, <2>1, <2>2, <2>3, <2>4 DEF CountsOnce, Calling
  <2> QED BY <1>1, <2>3, <2>4
<1>6. ASSUME NEW s \in Syncers, Get(s) PROVE CountsOnce(r)'
  <2> DEFINE n == [sync[s] EXCEPT !.pc = WriteAs(PageOf[sync[s].on])]
  <2>1. UNCHANGED changes /\ sync' = [sync EXCEPT ![s] = n] /\ sync[s].pc = "get"
    BY <1>6 DEF Get
  <2>2. n.on = sync[s].on /\ n.batch = sync[s].batch /\ n.left = sync[s].left
        /\ n.wrote = sync[s].wrote /\ n.failed = sync[s].failed
    BY <1>0 DEF WikiRun
  <2>3. sync'[r] = IF r = s THEN n ELSE sync[r]
    BY <1>0, <2>1
  <2> HIDE DEF n
  <2>4. CASE r = s
    BY <1>0, <2>1, <2>2, <2>3, <2>4 DEF CountsOnce, Calling
  <2> QED BY <1>1, <2>3, <2>4
<1>7. ASSUME NEW s \in Syncers, Calling(s), NEW ok \in BOOLEAN, sync' = Reported(s, ok),
             UNCHANGED changes
      PROVE  CountsOnce(r)'
  <2>1. /\ \A q \in Syncers \ {s} : sync'[q] = sync[q]
        /\ sync'[s].pc = "next" /\ sync'[s].batch = sync[s].batch
        /\ sync'[s].left = sync[s].left
        /\ sync'[s].wrote = IF ok THEN sync[s].wrote \cup {sync[s].on} ELSE sync[s].wrote
        /\ sync'[s].failed = IF ok THEN sync[s].failed ELSE sync[s].failed \cup {sync[s].on}
    BY <1>7, StoredIs, ReportedIs
  <2>2. CASE r = s
    <3>1. /\ sync[s].wrote \cap sync[s].failed = {}
          /\ sync[s].left \cap (sync[s].wrote \cup sync[s].failed) = {}
          /\ sync[s].on \notin sync[s].left \cup sync[s].wrote \cup sync[s].failed
      BY <1>0, <1>7, <2>2 DEF CountsOnce
    <3>2. /\ sync'[s].wrote \cap sync'[s].failed = {}
          /\ sync'[s].left \cap (sync'[s].wrote \cup sync'[s].failed) = {}
      BY <2>1, <3>1
    <3> QED BY <1>0, <1>7, <2>1, <2>2, <3>2 DEF CountsOnce, Calling
  <2> QED BY <1>1, <2>1, <2>2
<1>8. ASSUME NEW s \in Syncers, Write(s) \/ Fault(s) PROVE CountsOnce(r)'
  <2>1. Calling(s) /\ UNCHANGED changes
    BY <1>8 DEF Write, Fault, Calling
  <2>2. sync' = Reported(s, TRUE) \/ sync' = Reported(s, FALSE)
    BY <1>8 DEF Write, Fault
  <2> QED BY <1>7, <2>1, <2>2
<1>9. ASSUME NEW s \in Syncers, Die(s) PROVE CountsOnce(r)'
  <2>1. sync'[r] = IF r = s THEN NoSync ELSE sync[r]
    BY <1>0, <1>9 DEF Die
  <2>2. CASE r = s
    BY <2>1, <2>2 DEF CountsOnce, Calling, NoSync
  <2> QED BY <1>1, <2>1, <2>2
<1>10. ASSUME NEW l \in Learnings, Promote(l) \/ Revise(l) PROVE CountsOnce(r)'
  BY <1>1, <1>10 DEF Promote, Revise
<1>11. ASSUME NEW p \in Pages, ChangePage(p) PROVE CountsOnce(r)'
  BY <1>1, <1>11 DEF ChangePage
<1> QED BY <1>2, <1>3, <1>4, <1>5, <1>6, <1>8, <1>9, <1>10, <1>11 DEF WikiNext

LEMMA WikiOwnInit == WikiInit => WikiOwnInv
<1> SUFFICES ASSUME WikiInit PROVE WikiOwnInv
  OBVIOUS
<1>1. WikiCounts
  BY WikiAssumption DEF WikiInit, WikiCounts
<1>2. \A p \in Pages : OwnText(p)
  BY DEF WikiInit, OwnText
<1>3. \A s \in Syncers : CountsOnce(s)
  BY DEF WikiInit, CountsOnce, NoSync, Calling
<1> QED BY <1>1, <1>2, <1>3 DEF WikiOwnInv

\* What a page holds of a learning stands on that learning's page, which has a
\* valid name, and is no newer than the learning; no run reports a learning as
\* written and as failed, and a call under way is about a learning of the
\* snapshot.
THEOREM WikiTypeCorrect == WikiSpec => []WikiTypeOK
<1>1. WikiInit => WikiInv /\ WikiOwnInv
  BY WikiInitInv, WikiOwnInit
<1>2. WikiInv /\ WikiOwnInv /\ [WikiNext]_wikiVars => (WikiInv /\ WikiOwnInv)'
  <2> SUFFICES ASSUME WikiInv, WikiOwnInv, [WikiNext]_wikiVars PROVE WikiInv' /\ WikiOwnInv'
    OBVIOUS
  <2>1. WikiInv'
    BY WikiStep
  <2>2. WikiCounts' /\ changes <= changes'
    BY WikiCountsStep DEF WikiInv, WikiOwnInv
  <2>3. \A p \in Pages : OwnText(p)'
    BY <2>2, OwnTextStep
  <2>4. \A s \in Syncers : CountsOnce(s)'
    BY <2>2, CountsOnceStep
  <2>5. Pages' = Pages
    BY DEF Pages
  <2> QED BY <2>1, <2>2, <2>3, <2>4, <2>5 DEF WikiOwnInv
<1>3. WikiInv /\ WikiOwnInv => WikiTypeOK
  <2> SUFFICES ASSUME WikiInv, WikiOwnInv PROVE WikiTypeOK
    OBVIOUS
  <2> USE DEF WikiInv, WikiOwnInv
  <2>1. revision \in [Learnings -> 0..MaxChanges] /\ 0..changes \subseteq 0..MaxChanges
    BY WikiAssumption DEF WikiTypes, WikiCounts
  <2>2. \A p \in Pages : \/ wiki[p] \in Notes \cup {NoPage}
                         \/ \E l \in Learnings, n \in 0..MaxChanges :
                              p = PageOf[l] /\ p \in Valid /\ wiki[p] = Text(l, n)
    BY <2>1 DEF OwnText
  <2>3. ASSUME NEW s \in Syncers
        PROVE  /\ sync[s].pc \in {"idle", "next", "get", "create", "update", "done"}
               /\ sync[s].pc \in {"get", "create", "update"}
                    => sync[s].on \in {t.learning : t \in sync[s].batch}
               /\ sync[s].left \subseteq Learnings /\ sync[s].wrote \cap sync[s].failed = {}
               /\ touched[s] \subseteq Pages
    <3>1. sync[s] \in WikiRun /\ touched[s] \in SUBSET Pages /\ CountsOnce(s)
      BY DEF WikiTypes
    <3> QED BY <3>1 DEF WikiRun, CountsOnce, OnBatch, Calling
  <2> QED BY <2>1, <2>2, <2>3 DEF WikiTypeOK, WikiTypes, WikiCounts
<1> QED BY <1>1, <1>2, <1>3, PTL DEF WikiSpec


-----------------------------------------------------------------------------
(* The searches of terraphim-grep.                                          *)

AllChunks == [line : Lines, root : Nat \ {0}, copy : 1..2]
SearchRecord ==
    [pc : {"graph", "code", "judge", "synthesis", "extract", "check", "write", "done", "killed"},
     opts : Options, concepts : Concepts, chunks : SUBSET AllChunks, exact : BOOLEAN,
     calls : 0..2, answered : BOOLEAN, cited : SUBSET Lines, learnt : Seq(Slugs),
     status : {"none", "failed", "SearchOnly", "RlmSynthesis", "RlmInsufficient"}]

GrepTypes ==
    /\ search \in [Searches -> SearchRecord]
    /\ notes \in [Slugs -> Searches \cup {NoNote, Torn}]

\* What a run was asked, and found before it asks the model.
Earned(r) ==
    \/ r.opts.force
    \/ Cardinality(Found(r.chunks)) >= Thresholds.results /\ CoversSome(r)

\* Every chunk is of a path that was searched.
InPaths(r) == \A c \in r.chunks : c.root \in DOMAIN r.opts.paths

\* What a search has done when it is at its place.
Staged(r) ==
    /\ r.pc \in {"graph", "code", "judge", "synthesis"} =>
          r.calls = 0 /\ ~ r.answered /\ r.status = "none"
    /\ r.pc \in {"graph", "code"} => r.chunks = {}
    /\ InPaths(r)
    /\ r.pc = "judge" => \A c \in r.chunks : c.copy = 1
    /\ r.pc = "synthesis" => Requested(r) /\ Earned(r)
    /\ r.pc = "extract" => r.calls = 1
    /\ r.pc \in {"check", "write", "killed"} => r.calls = 2
    /\ r.pc \in {"check", "write"} => r.learnt # <<>>
    /\ r.pc # "done" => r.status = "none"
    /\ r.calls > 0 => r.opts.client /\ Requested(r) /\ Earned(r)
    /\ r.status = "RlmSynthesis" => r.calls > 0
    /\ r.answered => r.opts.answer /\ r.cited = Shown(r.chunks)

\* A note is of a search that asked the model to extract it.
NotesInv == \A f \in Slugs : notes[f] \in Searches => search[notes[f]].calls = 2

GrepInv == GrepTypes /\ (\A s \in Searches : Staged(search[s])) /\ NotesInv

\* What no expansion copied is as it was found ...
LEMMA FoundOnce ==
    ASSUME NEW chunks \in SUBSET AllChunks, \A c \in chunks : c.copy = 1
    PROVE  Found(chunks) = chunks
<1>1. \A c \in chunks : [c EXCEPT !.copy = 1] = c
  BY DEF AllChunks
<1> QED BY <1>1 DEF Found, Copied

\* ... and the copies of an expansion are no finds.
LEMMA CopiesAre ==
    ASSUME NEW chunks \in SUBSET AllChunks
    PROVE  /\ Copied(chunks, 2) \in SUBSET AllChunks
           /\ \A c \in Copied(chunks, 2) : \E d \in chunks : /\ c.line = d.line /\ c.root = d.root
                                                            /\ [c EXCEPT !.copy = 1] = [d EXCEPT !.copy = 1]
<1>1. ASSUME NEW d \in chunks, NEW c, c = [d EXCEPT !.copy = 2]
      PROVE  /\ c \in AllChunks /\ c.line = d.line /\ c.root = d.root
             /\ [c EXCEPT !.copy = 1] = [d EXCEPT !.copy = 1]
  <2>1. d \in AllChunks
    OBVIOUS
  <2>2. c \in AllChunks /\ c.line = d.line /\ c.root = d.root
    BY <1>1, <2>1 DEF AllChunks
  <2>3. [c EXCEPT !.copy = 1] = [d EXCEPT !.copy = 1]
    BY <1>1, <2>1 DEF AllChunks
  <2> QED BY <2>2, <2>3
<1>2. \A c \in Copied(chunks, 2) : \E d \in chunks : c = [d EXCEPT !.copy = 2]
  BY Zenon DEF Copied
<1>3. ASSUME NEW c \in Copied(chunks, 2)
      PROVE  /\ c \in AllChunks
             /\ \E d \in chunks : /\ c.line = d.line /\ c.root = d.root
                                 /\ [c EXCEPT !.copy = 1] = [d EXCEPT !.copy = 1]
  <2>1. PICK d \in chunks : c = [d EXCEPT !.copy = 2]
    BY <1>2
  <2> QED BY <1>1, <2>1
<1> QED BY <1>3

LEMMA FoundTwice ==
    ASSUME NEW chunks \in SUBSET AllChunks
    PROVE  Found(chunks \cup Copied(chunks, 2)) = Found(chunks)
<1> DEFINE again == Copied(chunks, 2)
<1>1. ASSUME NEW c \in again
      PROVE  \E d \in chunks : [c EXCEPT !.copy = 1] = [d EXCEPT !.copy = 1]
  BY CopiesAre, Zenon
<1> HIDE DEF again
<1>2. Found(chunks \cup again) = Found(chunks)
  <2>1. \A x : x \in Found(chunks \cup again) <=>
               \E c \in chunks \cup again : x = [c EXCEPT !.copy = 1]
    BY Zenon DEF Found, Copied
  <2>2. \A x : x \in Found(chunks) <=> \E c \in chunks : x = [c EXCEPT !.copy = 1]
    BY Zenon DEF Found, Copied
  <2>3. ASSUME NEW x \in Found(chunks \cup again) PROVE x \in Found(chunks)
    <3>1. PICK c \in chunks \cup again : x = [c EXCEPT !.copy = 1]
      BY <2>1
    <3>2. \E d \in chunks : x = [d EXCEPT !.copy = 1]
      BY <1>1, <3>1, Zenon
    <3> QED BY <2>2, <3>2, Zenon
  <2>4. Found(chunks) \subseteq Found(chunks \cup again)
    BY Zenon DEF Found, Copied
  <2> QED BY <2>3, <2>4
<1> QED BY <1>2 DEF again

\* Any coverage above nothing covers a part of the query.
LEMMA CoversIsSome ==
    ASSUME NEW r \in SearchRecord, NEW tenths \in Nat \ {0}, Covers(r, tenths)
    PROVE  CoversSome(r)
<1> SUFFICES ASSUME ~ StandsFor(r), QueryWords # {}, Covered(r) = {} PROVE FALSE
  BY DEF Covers, CoversSome
<1>1. Cardinality(QueryWords) \in Nat \ {0}
  BY GrepAssumption, FS_CardinalityType, FS_EmptySet
<1>2. 10 * Cardinality(Covered(r)) = 0
  BY FS_EmptySet
<1>3. 0 >= tenths * Cardinality(QueryWords)
  BY <1>2 DEF Covers
<1> DEFINE n == Cardinality(QueryWords)
<1>4. tenths * n \in Nat \ {0}
  <2> HIDE DEF n
  <2>1. n \in Nat \ {0}
    BY <1>1 DEF n
  <2> QED BY <2>1
<1> QED BY <1>3, <1>4

\* What the judge lets through it found enough and about the query.
LEMMA JudgedIsEarned ==
    ASSUME NEW r \in SearchRecord, Judged(r) # "Insufficient",
           \A c \in r.chunks : c.copy = 1
    PROVE  Cardinality(Found(r.chunks)) >= Thresholds.results /\ CoversSome(r)
<1>1. Cardinality(r.chunks) >= Thresholds.results
  BY DEF Judged
<1>2. Found(r.chunks) = r.chunks
  BY FoundOnce DEF SearchRecord
<1>3. Covers(r, Thresholds.coverage) \/ Covers(r, 3) \/ CoversSome(r)
  BY <1>1 DEF Judged
<1>4. Thresholds.coverage \in Nat \ {0} /\ 3 \in Nat \ {0}
  BY GrepAssumption
<1> QED BY <1>1, <1>2, <1>3, <1>4, CoversIsSome

\* To show every chunk twice changes nothing of that.
LEMMA TwiceIsEarned ==
    ASSUME NEW r \in SearchRecord, CoversSome(r), Cardinality(Found(r.chunks)) >= Thresholds.results,
           NEW q \in SearchRecord, q.chunks = r.chunks \cup Copied(r.chunks, 2),
           q.exact = r.exact, q.opts = r.opts
    PROVE  Cardinality(Found(q.chunks)) >= Thresholds.results /\ CoversSome(q)
<1> DEFINE again == Copied(r.chunks, 2)
<1>0. r.chunks \in SUBSET AllChunks
  BY DEF SearchRecord
<1>1. Found(q.chunks) = Found(r.chunks)
  BY <1>0, FoundTwice
<1>2. \A c \in q.chunks : \E d \in r.chunks : c.line = d.line /\ c.root = d.root
  <2>1. \A c \in again : \E d \in r.chunks : c.line = d.line /\ c.root = d.root
    BY <1>0, CopiesAre
  <2>2. q.chunks = r.chunks \cup again
    OBVIOUS
  <2> HIDE DEF again
  <2> QED BY <2>1, <2>2
<1>3. r.chunks \subseteq q.chunks
  OBVIOUS
<1>4. Covered(q) = Covered(r)
  <2> DEFINE words(c) == WordsOf[r.opts.paths[c.root]][c.line]
  <2>1. Covered(q) = UNION {words(c) : c \in q.chunks}
    BY DEF Covered
  <2>2. Covered(r) = UNION {words(c) : c \in r.chunks}
    BY DEF Covered
  <2>3. \A c \in q.chunks : \E d \in r.chunks : words(c) = words(d)
    BY <1>2
  <2> HIDE DEF words
  <2> QED BY <1>3, <2>1, <2>2, <2>3
<1>5. Shown(q.chunks) = Shown(r.chunks)
  BY <1>2, <1>3 DEF Shown
<1> QED BY <1>1, <1>3, <1>4, <1>5 DEF CoversSome, StandsFor

\* What was earned stays so while the options and the chunks do.
LEMMA SameIsEarned ==
    ASSUME NEW r, NEW q, q.opts = r.opts, q.chunks = r.chunks, q.exact = r.exact
    PROVE  Earned(q) = Earned(r) /\ Requested(q) = Requested(r)
BY DEF Earned, Requested, CoversSome, StandsFor, Covered

LEMMA SameInPaths ==
    ASSUME NEW r, NEW q, q.opts = r.opts, q.chunks = r.chunks
    PROVE  InPaths(q) = InPaths(r)
BY DEF InPaths

\* What a search finds: lines of the paths it was given, each once in each path.
LEMMA FoundIs ==
    ASSUME NEW r \in SearchRecord, NEW hits \in Hits(r), NEW kept \in BestOf(r, ToChunks(hits)),
           NEW c \in kept
    PROVE  c \in AllChunks /\ c.root \in DOMAIN r.opts.paths /\ c.copy = 1
<1> DEFINE paths == r.opts.paths
<1>1. paths \in Seq(Roots)
  BY GrepAssumption DEF SearchRecord
<1>2. hits \in [DOMAIN paths -> SUBSET Lines]
  BY DEF Hits
<1> HIDE DEF paths
<1>3. DOMAIN paths \subseteq Nat \ {0}
  BY <1>1
<1>4. c \in ToChunks(hits)
  BY DEF BestOf
<1>5. PICK k \in DOMAIN hits : c \in [line : hits[k], root : {k}, copy : {1}]
  BY <1>4 DEF ToChunks
<1>6. k \in DOMAIN paths /\ hits[k] \subseteq Lines
  BY <1>2, <1>5
<1>7. c \in AllChunks /\ c.root = k /\ c.copy = 1
  BY <1>3, <1>5, <1>6 DEF AllChunks
<1> QED BY <1>6, <1>7 DEF paths

\* A step makes one search a staged one, and writes no note but its own.
LEMMA SearchMoves ==
    ASSUME GrepInv, NEW s \in Searches, NEW q \in SearchRecord, Staged(q),
           search[s].calls = 2 => q.calls = 2, search' = [search EXCEPT ![s] = q],
           notes' \in [Slugs -> Searches \cup {NoNote, Torn}],
           \A f \in Slugs : \/ notes'[f] = notes[f] \/ notes'[f] \in {NoNote, Torn}
                            \/ notes'[f] = s /\ q.calls = 2
    PROVE  GrepInv'
<1>1. GrepTypes'
  BY DEF GrepInv, GrepTypes
<1>2. \A u \in Searches : search'[u] = IF u = s THEN q ELSE search[u]
  BY DEF GrepInv, GrepTypes
<1>3. \A u \in Searches : Staged(search'[u])
  BY <1>2 DEF GrepInv
<1>4. NotesInv'
  <2> SUFFICES ASSUME NEW f \in Slugs, notes'[f] \in Searches PROVE search'[notes'[f]].calls = 2
    BY DEF NotesInv
  <2>1. notes'[f] \notin {NoNote, Torn}
    BY GrepAssumption
  <2>2. CASE notes'[f] = s /\ q.calls = 2
    BY <2>2, <1>2
  <2>3. CASE notes'[f] = notes[f]
    BY <2>3, <1>2 DEF GrepInv, NotesInv
  <2> QED BY <2>1, <2>2, <2>3
<1> QED BY <1>1, <1>3, <1>4 DEF GrepInv

LEMMA GrepInitInv == GrepInit => GrepInv
<1> SUFFICES ASSUME GrepInit PROVE GrepInv
  OBVIOUS
<1>1. PICK opts \in [Searches -> Options] : search = [s \in Searches |-> Fresh(opts[s])]
  BY DEF GrepInit
<1>2. \A o \in Options : Fresh(o) \in SearchRecord /\ Staged(Fresh(o))
  <2> TAKE o \in Options
  <2>1. <<>> \in Seq(Slugs)
    OBVIOUS
  <2>2. InPaths(Fresh(o))
    BY DEF Fresh, InPaths
  <2>3. Fresh(o) \in SearchRecord
    BY <2>1 DEF Fresh, SearchRecord, Concepts
  <2>4. Staged(Fresh(o))
    BY <2>2 DEF Fresh, Staged
  <2> QED BY <2>3, <2>4
<1>3. NotesInv
  BY GrepAssumption DEF NotesInv, GrepInit
<1> QED BY <1>1, <1>2, <1>3 DEF GrepInv, GrepTypes, GrepInit

\* The steps that leave the notes alone.
LEMMA SearchStep ==
    ASSUME GrepInv, NEW s \in Searches,
           SearchKg(s) \/ SearchCode(s) \/ Judge(s) \/ Degrade(s) \/ Synthesize(s) \/ Extract(s)
    PROVE  GrepInv'
<1> DEFINE r == search[s]
<1>r. r \in SearchRecord /\ Staged(r)
  BY DEF GrepInv, GrepTypes
<1>n. /\ notes' = notes
      /\ notes' \in [Slugs -> Searches \cup {NoNote, Torn}]
  BY DEF GrepInv, GrepTypes, SearchKg, SearchCode, Judge, Degrade, Synthesize, Extract
<1> HIDE DEF r
<1>m. ASSUME NEW q \in SearchRecord, Staged(q), r.calls # 2, Becomes(s, q)
      PROVE  GrepInv'
  BY <1>m, <1>n, SearchMoves DEF Becomes, r
<1>e. ASSUME NEW q \in SearchRecord, r.calls # 2, q.opts = r.opts, q.chunks = r.chunks,
             q.exact = r.exact, NEW status \in {"failed", "SearchOnly", "RlmSynthesis", "RlmInsufficient"},
             q.calls > 0 => q.opts.client /\ Requested(q) /\ Earned(q),
             status = "RlmSynthesis" => q.calls > 0,
             q.answered => q.opts.answer /\ q.cited = Shown(q.chunks),
             Ends(s, q, status)
      PROVE  GrepInv'
  <2> DEFINE p == [q EXCEPT !.pc = "done", !.status = status]
  <2>1. p \in SearchRecord
    BY <1>e DEF SearchRecord
  <2>2. /\ p.pc = "done" /\ p.status = status /\ p.opts = q.opts /\ p.chunks = q.chunks
        /\ p.exact = q.exact /\ p.calls = q.calls /\ p.answered = q.answered /\ p.cited = q.cited
    BY <1>e DEF SearchRecord
  <2>3. Becomes(s, p)
    BY <1>e DEF Ends
  <2> HIDE DEF p
  <2>4. Earned(p) = Earned(q) /\ Requested(p) = Requested(q)
    BY <2>2, SameIsEarned
  <2>i. InPaths(p)
    <3>1. InPaths(r) /\ p.opts = r.opts /\ p.chunks = r.chunks
      BY <1>e, <1>r, <2>2 DEF Staged
    <3> QED BY <3>1, SameInPaths
  <2>5. Staged(p)
    BY <1>e, <2>2, <2>4, <2>i DEF Staged
  <2> QED BY <1>e, <1>m, <2>1, <2>3, <2>5
<1>1. ASSUME SearchKg(s) PROVE GrepInv'
  <2>0. r.pc = "graph" /\ r.calls = 0 /\ ~ r.answered /\ r.chunks = {} /\ r.status = "none"
    BY <1>1, <1>r DEF SearchKg, Staged, r
  <2>1. CASE Ends(s, r, "failed")
    BY <2>0, <2>1, <1>e, <1>r
  <2>2. CASE \E concepts \in Concepts, exact \in BOOLEAN :
                Becomes(s, [r EXCEPT !.pc = IF r.opts.docs THEN "judge" ELSE "code",
                                     !.concepts = concepts, !.exact = exact])
    <3>1. PICK concepts \in Concepts, exact \in BOOLEAN :
                Becomes(s, [r EXCEPT !.pc = IF r.opts.docs THEN "judge" ELSE "code",
                                     !.concepts = concepts, !.exact = exact])
      BY <2>2
    <3> DEFINE q == [r EXCEPT !.pc = IF r.opts.docs THEN "judge" ELSE "code",
                              !.concepts = concepts, !.exact = exact]
    <3>2. q \in SearchRecord
      BY <1>r DEF SearchRecord
    <3>3. q.pc \in {"judge", "code"} /\ q.chunks = {} /\ q.calls = 0 /\ ~ q.answered /\ q.status = "none"
      BY <1>r, <2>0 DEF SearchRecord
    <3>4. Becomes(s, q)
      BY <3>1
    <3> HIDE DEF q
    <3>5. InPaths(q)
      BY <3>3 DEF InPaths
    <3>6. Staged(q)
      BY <3>3, <3>5 DEF Staged
    <3> QED BY <1>m, <2>0, <3>2, <3>4, <3>6
  <2> QED BY <1>1, <2>1, <2>2 DEF SearchKg, r
<1>2. ASSUME SearchCode(s) PROVE GrepInv'
  <2>0. r.pc = "code" /\ r.calls = 0 /\ ~ r.answered /\ r.chunks = {} /\ r.status = "none"
    BY <1>2, <1>r DEF SearchCode, Staged, r
  <2>1. CASE Ends(s, r, "failed")
    BY <2>0, <2>1, <1>e, <1>r
  <2>2. ASSUME NEW hits \in Hits(r), NEW kept \in BestOf(r, ToChunks(hits)),
               Becomes(s, [r EXCEPT !.pc = "judge", !.chunks = kept])
        PROVE  GrepInv'
    <3> DEFINE q == [r EXCEPT !.pc = "judge", !.chunks = kept]
    <3>1. \A c \in kept : c \in AllChunks /\ c.root \in DOMAIN r.opts.paths /\ c.copy = 1
      BY <1>r, FoundIs
    <3>2. q \in SearchRecord
      BY <1>r, <3>1 DEF SearchRecord
    <3>3. /\ q.pc = "judge" /\ q.chunks = kept /\ q.calls = 0 /\ ~ q.answered /\ q.status = "none"
          /\ q.opts = r.opts
      BY <1>r, <2>0 DEF SearchRecord
    <3>4. Becomes(s, q)
      BY <2>2
    <3> HIDE DEF q
    <3>5. InPaths(q)
      BY <3>1, <3>3 DEF InPaths
    <3>6. Staged(q)
      BY <3>1, <3>3, <3>5 DEF Staged
    <3> QED BY <1>m, <2>0, <3>2, <3>4, <3>6
  <2> QED BY <1>2, <2>1, <2>2 DEF SearchCode, r
<1>3. ASSUME Judge(s) PROVE GrepInv'
  <2>0. r.pc = "judge" /\ r.calls = 0 /\ ~ r.answered /\ r.status = "none"
    BY <1>3, <1>r DEF Judge, Staged, r
  <2>k. /\ r.chunks \in SUBSET AllChunks
        /\ \A c \in r.chunks : c.copy = 1
        /\ InPaths(r)
    BY <2>0, <1>r DEF Staged, SearchRecord
  <2>1. CASE r.opts.force
    <3> DEFINE q == [r EXCEPT !.pc = "synthesis"]
    <3>1. q \in SearchRecord
      BY <1>r DEF SearchRecord
    <3>2. /\ q.pc = "synthesis" /\ q.opts = r.opts /\ q.calls = 0 /\ ~ q.answered
          /\ q.status = "none" /\ q.chunks = r.chunks
      BY <1>r, <2>0 DEF SearchRecord
    <3>3. Becomes(s, q)
      BY <1>3, <2>1 DEF Judge, r
    <3> HIDE DEF q
    <3>4. InPaths(q)
      BY <2>k, <3>2, SameInPaths
    <3>5. Staged(q)
      BY <2>1, <3>2, <3>4 DEF Staged, Requested, Earned
    <3> QED BY <1>m, <2>0, <3>1, <3>3, <3>5
  <2>2. CASE ~ r.opts.force /\ Judged(r) = "Insufficient"
    <3>1. Ends(s, r, "RlmInsufficient")
      BY <1>3, <2>2 DEF Judge, r
    <3> QED BY <2>0, <3>1, <1>e, <1>r
  <2>3. CASE ~ r.opts.force /\ Judged(r) # "Insufficient" /\ ~ Requested(r)
    <3>1. Ends(s, r, "SearchOnly")
      BY <1>3, <2>3 DEF Judge, r
    <3> QED BY <2>0, <3>1, <1>e, <1>r
  <2>4. CASE ~ r.opts.force /\ Judged(r) # "Insufficient" /\ Requested(r)
    <3> DEFINE more == IF Judged(r) = "NeedsExpansion"
                         THEN r.chunks \cup Copied(r.chunks, 2) ELSE r.chunks
               q == [r EXCEPT !.pc = "synthesis", !.chunks = more]
    <3>1. Becomes(s, q)
      BY <1>3, <2>4 DEF Judge, r
    <3>2. ASSUME NEW c \in Copied(r.chunks, 2)
          PROVE  c \in AllChunks /\ c.root \in DOMAIN r.opts.paths
      <4>1. c \in AllChunks /\ \E d \in r.chunks : c.root = d.root
        BY <2>k, CopiesAre, Zenon
      <4>2. \A d \in r.chunks : d.root \in DOMAIN r.opts.paths
        BY <2>k DEF InPaths
      <4> QED BY <4>1, <4>2, Zenon
    <3>3. more \in SUBSET AllChunks /\ \A c \in more : c.root \in DOMAIN r.opts.paths
      <4>1. \A d \in r.chunks : d.root \in DOMAIN r.opts.paths
        BY <2>k DEF InPaths
      <4> DEFINE at == DOMAIN r.opts.paths
                 again == Copied(r.chunks, 2)
      <4>2. \A c \in again : c \in AllChunks /\ c.root \in at
        BY <3>2
      <4> HIDE DEF at, again
      <4> QED BY <2>k, <4>1, <4>2 DEF at, again
    <3> HIDE DEF more
    <3>4. q \in SearchRecord
      BY <1>r, <3>3 DEF SearchRecord
    <3>5. /\ q.pc = "synthesis" /\ q.opts = r.opts /\ q.calls = 0 /\ ~ q.answered
          /\ q.status = "none" /\ q.exact = r.exact /\ q.chunks = more
      BY <1>r, <2>0 DEF SearchRecord
    <3> HIDE DEF q
    <3>6. Cardinality(Found(r.chunks)) >= Thresholds.results /\ CoversSome(r)
      BY <1>r, <2>4, <2>k, JudgedIsEarned
    <3>7. Cardinality(Found(q.chunks)) >= Thresholds.results /\ CoversSome(q)
      <4>1. CASE Judged(r) = "NeedsExpansion"
        <5>1. q.chunks = r.chunks \cup Copied(r.chunks, 2)
          BY <3>5, <4>1 DEF more
        <5> QED BY <5>1, <1>r, <3>4, <3>5, <3>6, TwiceIsEarned
      <4>2. CASE Judged(r) # "NeedsExpansion"
        <5>1. q.chunks = r.chunks
          BY <3>5, <4>2 DEF more
        <5> QED BY <5>1, <3>5, <3>6 DEF CoversSome, StandsFor, Covered
      <4> QED BY <4>1, <4>2
    <3>8. InPaths(q)
      BY <3>3, <3>5 DEF InPaths
    <3>9. Staged(q)
      BY <2>4, <3>5, <3>7, <3>8 DEF Staged, Requested, Earned
    <3> QED BY <1>m, <2>0, <3>1, <3>4, <3>9
  <2> QED BY <2>1, <2>2, <2>3, <2>4
<1>4. ASSUME Degrade(s) PROVE GrepInv'
  <2>0. r.pc = "synthesis" /\ r.calls = 0 /\ ~ r.answered
    BY <1>4, <1>r DEF Degrade, Staged, r
  <2> QED BY <2>0, <1>4, <1>e, <1>r DEF Degrade, r
<1>5. ASSUME Synthesize(s) PROVE GrepInv'
  <2>0. r.pc = "synthesis" /\ r.calls = 0 /\ ~ r.answered /\ r.status = "none" /\ r.opts.client
    BY <1>5, <1>r DEF Synthesize, Staged, r
  <2>e. Requested(r) /\ Earned(r)
    BY <2>0, <1>r DEF Staged
  <2> DEFINE q == [r EXCEPT !.calls = @ + 1]
             told(parses) == IF q.opts.answer /\ parses
                             THEN [q EXCEPT !.answered = TRUE, !.cited = Shown(q.chunks)]
                             ELSE q
  <2>q. q \in SearchRecord
    BY <1>r, <2>0 DEF SearchRecord
  <2>p. /\ q.opts = r.opts /\ q.chunks = r.chunks /\ q.exact = r.exact /\ q.calls = 1
        /\ ~ q.answered /\ q.status = "none" /\ q.pc = "synthesis"
    BY <1>r, <2>0 DEF SearchRecord
  <2>s. Shown(q.chunks) \in SUBSET Lines
    <3>1. q.chunks \subseteq AllChunks
      BY <2>q DEF SearchRecord
    <3>2. \A c \in AllChunks : c.line \in Lines
      BY DEF AllChunks
    <3> QED BY <3>1, <3>2 DEF Shown
  <2>a. \/ Ends(s, q, "failed")
        \/ \E parses \in BOOLEAN :
              IF q.opts.curate THEN Becomes(s, [told(parses) EXCEPT !.pc = "extract"])
              ELSE Ends(s, told(parses), "RlmSynthesis")
    BY <1>5, <2>p DEF Synthesize, r
  <2> HIDE DEF q
  <2>b. Requested(q) /\ Earned(q)
    BY <2>e, <2>p, SameIsEarned
  <2>1. CASE Ends(s, q, "failed")
    BY <2>0, <2>1, <2>p, <2>q, <2>b, <1>e
  <2>2. ASSUME NEW parses \in BOOLEAN,
               IF q.opts.curate THEN Becomes(s, [told(parses) EXCEPT !.pc = "extract"])
               ELSE Ends(s, told(parses), "RlmSynthesis")
        PROVE  GrepInv'
    <3> DEFINE k == told(parses)
    <3>1. k \in SearchRecord
      BY <2>q, <2>s DEF SearchRecord
    <3>2. /\ k.opts = r.opts /\ k.chunks = r.chunks /\ k.exact = r.exact /\ k.calls = 1
          /\ k.status = "none"
          /\ k.answered => k.opts.answer /\ k.cited = Shown(k.chunks)
      BY <2>q, <2>p DEF SearchRecord
    <3>3. IF q.opts.curate THEN Becomes(s, [k EXCEPT !.pc = "extract"])
          ELSE Ends(s, k, "RlmSynthesis")
      BY <2>2
    <3> HIDE DEF k
    <3>4. Requested(k) /\ Earned(k)
      BY <2>e, <3>2, SameIsEarned
    <3>5. CASE ~ q.opts.curate
      BY <3>1, <3>2, <3>3, <3>4, <3>5, <2>0, <1>e
    <3>6. CASE q.opts.curate
      <4> DEFINE g == [k EXCEPT !.pc = "extract"]
      <4>1. g \in SearchRecord
        BY <3>1 DEF SearchRecord
      <4>2. /\ g.pc = "extract" /\ g.opts = k.opts /\ g.chunks = k.chunks /\ g.exact = k.exact
            /\ g.calls = 1 /\ g.status = "none" /\ g.answered = k.answered /\ g.cited = k.cited
        BY <3>1, <3>2 DEF SearchRecord
      <4>3. Becomes(s, g)
        BY <3>3, <3>6
      <4> HIDE DEF g
      <4>4. Requested(g) /\ Earned(g)
        BY <4>2, <3>4, SameIsEarned
      <4>i. InPaths(g)
        <5>1. InPaths(r) /\ g.opts = r.opts /\ g.chunks = r.chunks
          BY <1>r, <3>2, <4>2 DEF Staged
        <5> QED BY <5>1, SameInPaths
      <4>5. Staged(g)
        BY <4>2, <4>4, <4>i, <3>2, <2>0 DEF Staged
      <4> QED BY <4>1, <4>3, <4>5, <2>0, <1>m
    <3> QED BY <3>5, <3>6
  <2> QED BY <2>a, <2>1, <2>2
<1>6. ASSUME Extract(s) PROVE GrepInv'
  <2>i. r.pc = "extract"
    BY <1>6, <1>r DEF Extract, SearchRecord, r
  <2>0. r.pc = "extract" /\ r.calls = 1 /\ r.status = "none"
    BY <2>i, <1>r DEF Staged
  <2>e. /\ r.opts.client /\ Requested(r) /\ Earned(r)
        /\ r.answered => r.opts.answer /\ r.cited = Shown(r.chunks)
    BY <2>0, <1>r DEF Staged
  <2> DEFINE q == [r EXCEPT !.calls = @ + 1]
  <2>q. q \in SearchRecord
    BY <1>r, <2>0 DEF SearchRecord
  <2>p. /\ q.opts = r.opts /\ q.chunks = r.chunks /\ q.exact = r.exact /\ q.calls = 2
        /\ q.answered = r.answered /\ q.cited = r.cited /\ q.status = "none"
    BY <1>r, <2>0 DEF SearchRecord
  <2>a. \/ Ends(s, q, "RlmSynthesis")
        \/ \E n \in 1..MaxConcepts : \E learnt \in [1..n -> Slugs] :
              Becomes(s, [q EXCEPT !.pc = "check", !.learnt = learnt])
    BY <1>6 DEF Extract, r
  <2> HIDE DEF q
  <2>b. Requested(q) /\ Earned(q)
    BY <2>e, <2>p, SameIsEarned
  <2>1. CASE Ends(s, q, "RlmSynthesis")
    BY <2>0, <2>1, <2>e, <2>p, <2>q, <2>b, <1>e
  <2>2. ASSUME NEW n \in 1..MaxConcepts, NEW learnt \in [1..n -> Slugs],
               Becomes(s, [q EXCEPT !.pc = "check", !.learnt = learnt])
        PROVE  GrepInv'
    <3> DEFINE k == [q EXCEPT !.pc = "check", !.learnt = learnt]
    <3>0. learnt \in Seq(Slugs) /\ learnt # <<>>
      OBVIOUS
    <3>1. k \in SearchRecord
      BY <2>q, <3>0 DEF SearchRecord
    <3>2. /\ k.opts = q.opts /\ k.chunks = q.chunks /\ k.exact = q.exact /\ k.calls = 2
          /\ k.status = "none" /\ k.pc = "check" /\ k.learnt = learnt
          /\ k.answered = q.answered /\ k.cited = q.cited
      BY <2>q, <2>p DEF SearchRecord
    <3>3. Becomes(s, k)
      BY <2>2
    <3> HIDE DEF k
    <3>4. Requested(k) /\ Earned(k)
      BY <2>b, <3>2, SameIsEarned
    <3>i. InPaths(k)
      <4>1. InPaths(r) /\ k.opts = r.opts /\ k.chunks = r.chunks
        BY <1>r, <2>p, <3>2 DEF Staged
      <4> QED BY <4>1, SameInPaths
    <3>5. Staged(k)
      BY <3>0, <3>2, <3>4, <3>i, <2>e, <2>p DEF Staged
    <3> QED BY <3>1, <3>3, <3>5, <2>0, <1>m
  <2> QED BY <2>a, <2>1, <2>2
<1> QED BY <1>1, <1>2, <1>3, <1>4, <1>5, <1>6


\* The steps that look at a note and write one.
LEMMA NoteStep ==
    ASSUME GrepInv, NEW s \in Searches, CheckNote(s) \/ WriteNote(s) \/ KillWriting(s)
    PROVE  GrepInv'
<1> DEFINE r == search[s]
<1>r. r \in SearchRecord /\ Staged(r)
  BY DEF GrepInv, GrepTypes
<1>p. r.pc \in {"check", "write"}
  BY DEF CheckNote, WriteNote, KillWriting, r
<1>n. /\ notes' \in [Slugs -> Searches \cup {NoNote, Torn}]
      /\ \A f \in Slugs : notes'[f] = notes[f] \/ notes'[f] \in {NoNote, Torn} \/ notes'[f] = s
  BY DEF GrepInv, GrepTypes, CheckNote, WriteNote, KillWriting
<1> HIDE DEF r
<1>0. /\ r.calls = 2 /\ r.status = "none" /\ r.learnt # <<>> /\ r.opts.client
      /\ Requested(r) /\ Earned(r)
      /\ r.answered => r.opts.answer /\ r.cited = Shown(r.chunks)
  BY <1>r, <1>p DEF Staged
<1>m. ASSUME NEW q \in SearchRecord, q.opts = r.opts, q.chunks = r.chunks, q.exact = r.exact,
             q.calls = 2, q.answered = r.answered, q.cited = r.cited,
             \/ q.pc \in {"check", "write"} /\ q.learnt # <<>> /\ q.status = "none"
             \/ q.pc = "killed" /\ q.status = "none"
             \/ q.pc = "done",
             Becomes(s, q)
      PROVE  GrepInv'
  <2>1. Requested(q) /\ Earned(q)
    BY <1>0, <1>m, SameIsEarned
  <2>i. InPaths(q)
    <3>1. InPaths(r) /\ q.opts = r.opts /\ q.chunks = r.chunks
      BY <1>r, <1>m DEF Staged
    <3> QED BY <3>1, SameInPaths
  <2>2. Staged(q)
    BY <1>0, <1>m, <2>1, <2>i DEF Staged
  <2>3. search' = [search EXCEPT ![s] = q]
    BY <1>m DEF Becomes
  <2>4. \A f \in Slugs : \/ notes'[f] = notes[f] \/ notes'[f] \in {NoNote, Torn}
                         \/ notes'[f] = s /\ q.calls = 2
    BY <1>n, <1>m
  <2> QED BY <1>n, <1>m, <2>2, <2>3, <2>4, SearchMoves
<1>l. r.learnt \in Seq(Slugs)
  BY <1>r DEF SearchRecord
<1>1. ASSUME NextNote(s, r) PROVE GrepInv'
  <2>1. CASE Len(r.learnt) = 1
    <3> DEFINE q == [[r EXCEPT !.learnt = <<>>] EXCEPT !.pc = "done", !.status = "RlmSynthesis"]
    <3>1. Becomes(s, q)
      BY <1>1, <2>1 DEF NextNote, Ends
    <3>e. <<>> \in Seq(Slugs)
      OBVIOUS
    <3>2. /\ q \in SearchRecord /\ q.opts = r.opts /\ q.chunks = r.chunks /\ q.exact = r.exact
          /\ q.calls = 2 /\ q.answered = r.answered /\ q.cited = r.cited /\ q.pc = "done"
      BY <1>r, <1>0, <3>e DEF SearchRecord
    <3> HIDE DEF q
    <3> QED BY <1>m, <3>1, <3>2
  <2>2. CASE Len(r.learnt) # 1
    <3> DEFINE q == [r EXCEPT !.pc = "check", !.learnt = Tail(@)]
    <3>1. Becomes(s, q)
      BY <1>1, <2>2 DEF NextNote
    <3>t. Tail(r.learnt) \in Seq(Slugs) /\ Tail(r.learnt) # <<>>
      <4> DEFINE learnt == r.learnt
                 rest == Tail(learnt)
      <4>1. learnt \in Seq(Slugs) /\ learnt # <<>> /\ Len(learnt) # 1
        BY <1>l, <1>0, <2>2
      <4> HIDE DEF learnt
      <4>2. rest \in Seq(Slugs) /\ Len(rest) = Len(learnt) - 1 /\ Len(learnt) \in Nat \ {0, 1}
        BY <4>1, HeadTailProperties, EmptySeq
      <4> HIDE DEF rest
      <4>3. rest # <<>>
        BY <4>2, EmptySeq
      <4> QED BY <4>2, <4>3 DEF rest, learnt
    <3>2. /\ q \in SearchRecord /\ q.opts = r.opts /\ q.chunks = r.chunks /\ q.exact = r.exact
          /\ q.calls = 2 /\ q.answered = r.answered /\ q.cited = r.cited /\ q.pc = "check"
          /\ q.learnt # <<>> /\ q.status = "none"
      BY <1>r, <1>0, <3>t DEF SearchRecord
    <3> HIDE DEF q
    <3> QED BY <1>m, <3>1, <3>2
  <2> QED BY <2>1, <2>2
<1>2. ASSUME NEW p \in {"write", "killed"}, Becomes(s, [r EXCEPT !.pc = p]) PROVE GrepInv'
  <2> DEFINE q == [r EXCEPT !.pc = p]
  <2>1. /\ q \in SearchRecord /\ q.opts = r.opts /\ q.chunks = r.chunks /\ q.exact = r.exact
        /\ q.calls = 2 /\ q.answered = r.answered /\ q.cited = r.cited /\ q.pc = p
        /\ q.learnt = r.learnt /\ q.status = "none"
    BY <1>r, <1>0 DEF SearchRecord
  <2>2. Becomes(s, q)
    BY <1>2
  <2> HIDE DEF q
  <2> QED BY <1>0, <1>2, <1>m, <2>1, <2>2
<1>3. NextNote(s, r) \/ \E p \in {"write", "killed"} : Becomes(s, [r EXCEPT !.pc = p])
  BY DEF CheckNote, WriteNote, KillWriting, r
<1> QED BY <1>1, <1>2, <1>3

LEMMA GrepInvariance == GrepSpec => []GrepInv
<1>1. ASSUME GrepInv, [GrepNext]_grepVars PROVE GrepInv'
  <2>1. CASE UNCHANGED grepVars
    BY <1>1, <2>1 DEF GrepInv, GrepTypes, NotesInv, grepVars
  <2>2. ASSUME NEW s \in Searches,
               \/ SearchKg(s) \/ SearchCode(s) \/ Judge(s) \/ Degrade(s) \/ Synthesize(s)
               \/ Extract(s) \/ CheckNote(s) \/ WriteNote(s) \/ KillWriting(s)
        PROVE  GrepInv'
    BY <1>1, <2>2, SearchStep, NoteStep
  <2> QED BY <1>1, <2>1, <2>2 DEF GrepNext
<1> QED BY <1>1, GrepInitInv, PTL DEF GrepSpec

\* However the runs of terraphim-grep overlap, share the notes and are killed in the middle of
\* one: the model is called only by a run that asked for it and, unless forced, only on enough
\* chunks, copies not counted, that cover a part of the query, and every note is of a run that
\* was to learn it.
THEOREM ModelIsEarned == GrepSpec => []SynthesisIsEarned
<1>1. GrepInv => SynthesisIsEarned
  <2> SUFFICES ASSUME GrepInv PROVE SynthesisIsEarned
    OBVIOUS
  <2>1. ASSUME NEW s \in Searches
        PROVE  LET r == search[s] IN
               /\ r.calls > 0 => /\ r.opts.client /\ (r.opts.force \/ r.opts.answer)
                                 /\ r.opts.force \/ /\ Cardinality(Found(r.chunks)) >= Thresholds.results
                                                    /\ CoversSome(r)
               /\ r.status = "RlmSynthesis" => r.calls > 0
               /\ r.answered => r.opts.answer /\ r.cited = Shown(r.chunks)
    <3>1. Staged(search[s])
      BY DEF GrepInv
    <3> QED BY <3>1 DEF Staged, Requested, Earned
  <2> QED BY <2>1 DEF GrepInv, NotesInv, SynthesisIsEarned
<1> QED BY <1>1, GrepInvariance, PTL

\* The types of the searches and the notes, and no more runs killed than the bound.
THEOREM GrepTypeCorrect == GrepSpec => []GrepTypeOK
<1> DEFINE Bounded == crashes \in 0..MaxCrashes
<1>1. GrepInit => Bounded
  BY GrepAssumption DEF GrepInit
<1>2. Bounded /\ [GrepNext]_grepVars => Bounded'
  <2> SUFFICES ASSUME Bounded, GrepNext PROVE Bounded'
    BY DEF grepVars
  <2>1. PICK s \in Searches :
          \/ SearchKg(s) \/ SearchCode(s) \/ Judge(s) \/ Degrade(s) \/ Synthesize(s)
          \/ Extract(s) \/ CheckNote(s) \/ WriteNote(s) \/ KillWriting(s)
    BY DEF GrepNext
  <2>2. CASE KillWriting(s)
    BY <2>2, GrepAssumption DEF KillWriting
  <2>3. CASE ~ KillWriting(s)
    <3>1. crashes' = crashes
      BY <2>1, <2>3 DEF SearchKg, SearchCode, Judge, Degrade, Synthesize, Extract, CheckNote, WriteNote
    <3> QED BY <3>1
  <2> QED BY <2>2, <2>3
<1>3. GrepInv /\ Bounded => GrepTypeOK
  <2> SUFFICES ASSUME GrepInv, Bounded PROVE GrepTypeOK
    OBVIOUS
  <2>1. ASSUME NEW s \in Searches
        PROVE  search[s].chunks \subseteq
                 [line : Lines, root : DOMAIN search[s].opts.paths, copy : 1..2]
    <3>1. /\ search[s].chunks \in SUBSET AllChunks
          /\ \A c \in search[s].chunks : c.root \in DOMAIN search[s].opts.paths
      BY DEF GrepInv, GrepTypes, SearchRecord, Staged, InPaths
    <3> DEFINE chunks == search[s].chunks
               at == DOMAIN search[s].opts.paths
    <3> HIDE DEF chunks, at
    <3>2. \A c \in AllChunks : c.root \in at => c \in [line : Lines, root : at, copy : 1..2]
      BY DEF AllChunks
    <3> QED BY <3>1, <3>2 DEF chunks, at
  <2> QED BY <2>1 DEF GrepInv, GrepTypes, SearchRecord, GrepTypeOK
<1> QED BY <1>1, <1>2, <1>3, GrepInvariance, PTL DEF GrepSpec

-----------------------------------------------------------------------------
(* The registry of markdown commands.                                       *)

RegPlaces == {"reg_check", "reg_insert", "reg_alias", "reg_category"}
ChangePlaces == RegPlaces \cup {"parse", "clear_commands", "clear_aliases", "clear_categories"}
BuildPlaces == {"build_thesaurus", "build_index"}
LookPlaces == {"by_name", "by_alias", "target", "stats_commands", "stats_aliases",
               "stats_categories", "build_read", "probe_index", "search", "related",
               "probe_thesaurus", "match"}
CallRecord ==
    [kind : {"none", "register", "load", "reload", "resolve", "stats", "build", "discover", "analyze"},
     word : Words \cup {""}, def : Definitions \cup {NoDef}]

RegistryTypes ==
    /\ commands \in [Words -> Definitions \cup {NoDef}]
    /\ aliases \in [Words -> Words \cup {""}]
    /\ categories \in Seq(Words)
    /\ held \in [Locks -> SUBSET Users]
    /\ place \in [Users -> ChangePlaces \cup BuildPlaces \cup LookPlaces \cup {"idle"}]
    /\ call \in [Users -> CallRecord]
    /\ DOMAIN left = Users /\ DOMAIN snap = Users

\* A task is at a step that changes the maps while its call does, and has a definition at hand
\* while it registers one.
PlaceInv ==
    \A t \in Users : /\ place[t] \in ChangePlaces <=> Changing(t)
                     /\ call[t].kind = "register" => call[t].def \in Definitions
                     /\ place[t] \in RegPlaces =>
                           /\ left[t] \in Seq(Definitions)
                           /\ call[t].kind # "register" => left[t] # <<>>

\* What no step of task t changes of another task u.
OthersStay(t) ==
    \A u \in Users \ {t} : /\ place'[u] = place[u] /\ call'[u] = call[u]
                           /\ left'[u] = left[u] /\ snap'[u] = snap[u]
                           /\ \A l \in Locks : u \in held'[l] <=> u \in held[l]

\* The steps of task t that change no map.
LookStep(t) ==
    \/ ByName(t) \/ ByAlias(t) \/ Target(t)
    \/ StatsCommands(t) \/ StatsAliases(t) \/ StatsCategories(t)
    \/ BuildRead(t) \/ BuildThesaurus(t) \/ BuildIndex(t)
    \/ ProbeIndex(t) \/ ProbeThesaurus(t) \/ Search(t) \/ Related(t) \/ Match(t)

ChangeStep(t) ==
    \/ RegCheck(t) \/ RegInsert(t) \/ RegAlias(t) \/ RegCategory(t) \/ Parse(t)
    \/ ClearCommands(t) \/ ClearAliases(t) \/ ClearCategories(t)

LEMMA NoCallIs == NoCall \in CallRecord /\ NoCall.kind = "none"
BY DEF NoCall, CallRecord

\* What a step that looks up does to its own task.
LEMMA LookFrame ==
    ASSUME RegistryTypes, NEW t \in Users, LookStep(t)
    PROVE  /\ place[t] \notin ChangePlaces
           /\ UNCHANGED <<maps, raced>>
           /\ \E p \in BuildPlaces \cup LookPlaces \cup {"idle"} : place' = [place EXCEPT ![t] = p]
           /\ call' = call \/ call' = [call EXCEPT ![t] = NoCall]
<1>1. place[t] \notin ChangePlaces
  BY DEF LookStep, ByName, ByAlias, Target, StatsCommands, StatsAliases, StatsCategories, BuildRead,
         BuildThesaurus, BuildIndex, ProbeIndex, ProbeThesaurus, Probe, Search, Related, Match,
         Enter, ChangePlaces, RegPlaces
<1>2. UNCHANGED <<maps, raced>>
  BY DEF LookStep, ByName, ByAlias, Target, StatsCommands, StatsAliases, StatsCategories, BuildRead,
         BuildThesaurus, BuildIndex, ProbeIndex, ProbeThesaurus, Probe, Search, Related, Match,
         Resolved, NextMatch, maps, locals
<1>3. \E p \in BuildPlaces \cup LookPlaces \cup {"idle"} : place' = [place EXCEPT ![t] = p]
  BY DEF LookStep, ByName, ByAlias, Target, StatsCommands, StatsAliases, StatsCategories, BuildRead,
         BuildThesaurus, BuildIndex, ProbeIndex, ProbeThesaurus, Probe, Search, Related, Match,
         Resolved, NextMatch, Return, GotoLock, BuildPlaces, LookPlaces
<1>4. call' = call \/ call' = [call EXCEPT ![t] = NoCall]
  BY DEF LookStep, ByName, ByAlias, Target, StatsCommands, StatsAliases, StatsCategories, BuildRead,
         BuildThesaurus, BuildIndex, ProbeIndex, ProbeThesaurus, Probe, Search, Related, Match,
         Resolved, NextMatch, Return, locals
<1> QED BY <1>1, <1>2, <1>3, <1>4

\* The data of a task are its own.
LEMMA OwnFrame ==
    ASSUME RegistryTypes, NEW t \in Users, Begin(t) \/ Step(t)
    PROVE  /\ left' = left \/ \E x : left' = [left EXCEPT ![t] = x]
           /\ snap' = snap \/ \E x : snap' = [snap EXCEPT ![t] = x]
           /\ held' \in [Locks -> SUBSET Users]
           /\ \A l \in Locks : \A u \in Users \ {t} : u \in held'[l] <=> u \in held[l]
<1>1. left' = left \/ \E x : left' = [left EXCEPT ![t] = x]
  BY DEF Begin, Step, Wait, RegCheck, RegInsert, RegAlias, RegCategory, Parse, ClearCommands,
         ClearAliases, ClearCategories, Registers,
         ByName, ByAlias, Target, StatsCommands, StatsAliases, StatsCategories, BuildRead,
         BuildThesaurus, BuildIndex, ProbeIndex, ProbeThesaurus, Probe, Search, Related, Match,
         Resolved, NextMatch, Return, locals
<1>2. snap' = snap \/ \E x : snap' = [snap EXCEPT ![t] = x]
  BY DEF Begin, Step, Wait, RegCheck, RegInsert, RegAlias, RegCategory, Parse, ClearCommands,
         ClearAliases, ClearCategories, Registers,
         ByName, ByAlias, Target, StatsCommands, StatsAliases, StatsCategories, BuildRead,
         BuildThesaurus, BuildIndex, ProbeIndex, ProbeThesaurus, Probe, Search, Related, Match,
         Resolved, NextMatch, Return, locals
<1>3. \/ held' = held
      \/ \E l \in Locks : held' = [held EXCEPT ![l] = @ \cup {t}]
      \/ \E ls \in SUBSET Locks : held' = [l \in Locks |-> IF l \in ls THEN held[l] \ {t} ELSE held[l]]
  BY DEF Begin, Step, Wait, RegCheck, RegInsert, RegAlias, RegCategory, Parse, ClearCommands,
         ClearAliases, ClearCategories, Registers, Keep, LetGo, Locks,
         ByName, ByAlias, Target, StatsCommands, StatsAliases, StatsCategories, BuildRead,
         BuildThesaurus, BuildIndex, ProbeIndex, ProbeThesaurus, Probe, Search, Related, Match,
         Resolved, NextMatch, Return, locals
<1>4. /\ held' \in [Locks -> SUBSET Users]
      /\ \A l \in Locks : \A u \in Users \ {t} : u \in held'[l] <=> u \in held[l]
  BY <1>3, ZenonT(40) DEF RegistryTypes
<1> QED BY <1>1, <1>2, <1>4


\* The places and the calls stay what they are, and other tasks where they are.
LEMMA StepFrame ==
    ASSUME RegistryTypes, NEW t \in Users, Begin(t) \/ Step(t)
    PROVE  /\ \E p \in ChangePlaces \cup BuildPlaces \cup LookPlaces \cup {"idle"} :
                place' = [place EXCEPT ![t] = p]
           /\ call' = call \/ \E c \in CallRecord : call' = [call EXCEPT ![t] = c]
<1>1. CASE Begin(t)
  <2>1. PICK k \in Kinds[t], w \in Words, d \in Definitions :
             /\ call' = [call EXCEPT ![t] = [kind |-> k, word |-> w, def |-> d]]
             /\ place' = [place EXCEPT ![t] = FirstStep[k]]
    BY <1>1 DEF Begin, GotoLock
  <2>2. k \in {"register", "load", "reload", "resolve", "stats", "build", "discover", "analyze"}
    BY RegistryAssumption
  <2>3. [kind |-> k, word |-> w, def |-> d] \in CallRecord
    BY <2>2 DEF CallRecord
  <2>4. FirstStep[k] \in ChangePlaces \cup LookPlaces
    BY <2>2 DEF FirstStep, ChangePlaces, RegPlaces, LookPlaces
  <2> QED BY <2>1, <2>3, <2>4
<1>2. CASE Wait(t)
  <2>1. place' = place /\ call' = call
    BY <1>2 DEF Wait, locals
  <2>2. place = [place EXCEPT ![t] = place[t]]
    BY DEF RegistryTypes
  <2> QED BY <2>1, <2>2 DEF RegistryTypes
<1>3. CASE ChangeStep(t)
  <2>1. \E p \in ChangePlaces \cup {"idle"} : place' = [place EXCEPT ![t] = p]
    BY <1>3 DEF ChangeStep, RegCheck, RegInsert, RegAlias, RegCategory, Parse, ClearCommands,
                ClearAliases, ClearCategories, Registers, Return, GotoLock, ChangePlaces, RegPlaces
  <2>2. call' = call \/ call' = [call EXCEPT ![t] = NoCall]
    BY <1>3 DEF ChangeStep, RegCheck, RegInsert, RegAlias, RegCategory, Parse, ClearCommands,
                ClearAliases, ClearCategories, Registers, Return, locals
  <2> QED BY <2>1, <2>2, NoCallIs
<1>4. CASE LookStep(t)
  BY <1>4, LookFrame, NoCallIs
<1> QED BY <1>1, <1>2, <1>3, <1>4 DEF Step, ChangeStep, LookStep

LEMMA OthersDoStay ==
    ASSUME RegistryTypes, NEW t \in Users, Begin(t) \/ Step(t)
    PROVE  OthersStay(t)
<1>p. PICK p : place' = [place EXCEPT ![t] = p]
  BY StepFrame
<1>c. PICK c : call' = call \/ call' = [call EXCEPT ![t] = c]
  BY StepFrame
<1>l. PICK x : left' = left \/ left' = [left EXCEPT ![t] = x]
  BY OwnFrame
<1>s. PICK y : snap' = snap \/ snap' = [snap EXCEPT ![t] = y]
  BY OwnFrame
<1>1. \A u \in Users \ {t} : place'[u] = place[u] /\ call'[u] = call[u]
  BY <1>p, <1>c DEF RegistryTypes
<1>2. \A u \in Users \ {t} : left'[u] = left[u] /\ snap'[u] = snap[u]
  BY <1>l, <1>s DEF RegistryTypes
<1> QED BY <1>1, <1>2, OwnFrame DEF OthersStay

LEMMA CurrentIs ==
    ASSUME PlaceInv, NEW t \in Users, place[t] \in RegPlaces
    PROVE  Current(t) \in Definitions /\ Current(t).name \in Words
<1>1. Current(t) \in Definitions
  BY HeadTailProperties DEF PlaceInv, Current
<1> QED BY <1>1 DEF Words

LEMMA RegistryTypeStep ==
    ASSUME RegistryTypes, PlaceInv, NEW t \in Users, Begin(t) \/ Step(t)
    PROVE  RegistryTypes'
<1>1. place' \in [Users -> ChangePlaces \cup BuildPlaces \cup LookPlaces \cup {"idle"}]
  BY StepFrame DEF RegistryTypes
<1>2. call' \in [Users -> CallRecord]
  BY StepFrame DEF RegistryTypes
<1>3. held' \in [Locks -> SUBSET Users] /\ DOMAIN left' = Users /\ DOMAIN snap' = Users
  BY OwnFrame DEF RegistryTypes
<1>4. /\ commands' \in [Words -> Definitions \cup {NoDef}]
      /\ aliases' \in [Words -> Words \cup {""}]
      /\ categories' \in Seq(Words)
  <2>1. CASE UNCHANGED maps
    BY <2>1 DEF maps, RegistryTypes
  <2>2. CASE RegInsert(t)
    <3>1. Current(t) \in Definitions /\ Current(t).name \in Words
      BY <2>2, CurrentIs DEF RegInsert, Enter, RegPlaces
    <3> QED BY <2>2, <3>1 DEF RegInsert, RegistryTypes
  <2>3. CASE RegAlias(t)
    <3>1. Current(t) \in Definitions /\ Current(t).name \in Words
      BY <2>3, CurrentIs DEF RegAlias, Enter, RegPlaces
    <3> QED BY <2>3, <3>1 DEF RegAlias, RegistryTypes
  <2>4. CASE RegCategory(t)
    <3>1. Current(t) \in Definitions /\ Current(t).name \in Words
      BY <2>4, CurrentIs DEF RegCategory, Enter, RegPlaces
    <3>2. Append(categories, Current(t).name) \in Seq(Words)
      BY <3>1, AppendProperties DEF RegistryTypes
    <3> QED BY <2>4, <3>1, <3>2 DEF RegCategory, RegistryTypes
  <2>5. CASE ClearCommands(t) \/ ClearAliases(t) \/ ClearCategories(t)
    <3>1. CASE ClearCommands(t)
      BY <3>1 DEF ClearCommands, RegistryTypes
    <3>2. CASE ClearAliases(t)
      BY <3>2 DEF ClearAliases, RegistryTypes
    <3>3. CASE ClearCategories(t)
      BY <3>3, EmptySeq DEF ClearCategories, RegistryTypes
    <3> QED BY <2>5, <3>1, <3>2, <3>3
  <2>6. CASE Begin(t) \/ Wait(t) \/ RegCheck(t) \/ Parse(t)
    BY <2>1, <2>6 DEF Begin, Wait, RegCheck, Parse
  <2>7. CASE LookStep(t)
    BY <2>1, <2>7, LookFrame
  <2> QED BY <2>2, <2>3, <2>4, <2>5, <2>6, <2>7 DEF Step, LookStep
<1> QED BY <1>1, <1>2, <1>3, <1>4 DEF RegistryTypes

\* The next definition of a load, when there is one.
LEMMA NextDefinition ==
    ASSUME NEW rest \in Seq(Definitions), rest # <<>>, Len(rest) # 1
    PROVE  Tail(rest) \in Seq(Definitions) /\ Tail(rest) # <<>>
<1> DEFINE tail == Tail(rest)
<1>1. tail \in Seq(Definitions) /\ Len(tail) = Len(rest) - 1 /\ Len(rest) \in Nat \ {0, 1}
  BY HeadTailProperties, EmptySeq
<1> HIDE DEF tail
<1>2. tail # <<>>
  BY <1>1, EmptySeq
<1> QED BY <1>1, <1>2 DEF tail

LEMMA PlaceStep ==
    ASSUME RegistryTypes, PlaceInv, NEW t \in Users, Begin(t) \/ Step(t)
    PROVE  PlaceInv'
<1> DEFINE Fine(u) == /\ place[u] \in ChangePlaces <=> Changing(u)
                      /\ call[u].kind = "register" => call[u].def \in Definitions
                      /\ place[u] \in RegPlaces =>
                            /\ left[u] \in Seq(Definitions)
                            /\ call[u].kind # "register" => left[u] # <<>>
<1>1. \A u \in Users \ {t} : Fine(u)'
  BY OthersDoStay DEF PlaceInv, OthersStay, Changing
<1>d. place'[t] = "idle" /\ call'[t] = NoCall => Fine(t)'
  BY NoCallIs DEF Changing, ChangePlaces, RegPlaces
<1>r. ASSUME Return(t) PROVE Fine(t)'
  BY <1>r, <1>d DEF Return, GotoLock, RegistryTypes
<1>s. ASSUME place'[t] = place[t], UNCHANGED <<call, left>> PROVE Fine(t)'
  BY <1>s DEF PlaceInv, Changing
<1>k. ASSUME place[t] \in RegPlaces, place'[t] \in RegPlaces, UNCHANGED <<call, left>> PROVE Fine(t)'
  BY <1>k DEF PlaceInv, Changing, ChangePlaces
<1>2. ASSUME Begin(t) PROVE Fine(t)'
  <2>1. PICK k \in Kinds[t], w \in Words, d \in Definitions :
             /\ call' = [call EXCEPT ![t] = [kind |-> k, word |-> w, def |-> d]]
             /\ place' = [place EXCEPT ![t] = FirstStep[k]]
             /\ left' = [left EXCEPT ![t] = <<>>]
    BY <1>2 DEF Begin, GotoLock
  <2>2. k \in {"register", "load", "reload", "resolve", "stats", "build", "discover", "analyze"}
    BY RegistryAssumption
  <2>3. call'[t].kind = k /\ call'[t].def = d /\ place'[t] = FirstStep[k] /\ left'[t] = <<>>
    BY <2>1 DEF RegistryTypes
  <2>4. <<>> \in Seq(Definitions)
    BY EmptySeq
  <2>5. /\ FirstStep[k] \in ChangePlaces <=> k \in {"register", "load", "reload"}
        /\ FirstStep[k] \in RegPlaces => k = "register"
    BY <2>2 DEF FirstStep, ChangePlaces, RegPlaces
  <2> QED BY <2>3, <2>4, <2>5 DEF Changing
<1>3. ASSUME Wait(t) PROVE Fine(t)'
  BY <1>3, <1>s DEF Wait, locals
<1>4. ASSUME RegCheck(t) PROVE Fine(t)'
  <2>1. CASE Return(t)
    BY <2>1, <1>r
  <2>2. CASE GotoLock(t, "reg_insert") /\ UNCHANGED <<call, left, snap>>
    BY <1>4, <2>2, <1>k DEF RegCheck, Enter, GotoLock, RegPlaces, RegistryTypes
  <2> QED BY <1>4, <2>1, <2>2 DEF RegCheck
<1>5. ASSUME RegInsert(t) \/ RegAlias(t) PROVE Fine(t)'
  BY <1>5, <1>k DEF RegInsert, RegAlias, Enter, GotoLock, RegPlaces, RegistryTypes, locals
<1>6. ASSUME RegCategory(t) PROVE Fine(t)'
  <2>0. place[t] \in RegPlaces
    BY <1>6 DEF RegCategory, Enter, RegPlaces
  <2>1. CASE Return(t)
    BY <2>1, <1>r
  <2>2. CASE /\ ~ (call[t].kind = "register" \/ Len(left[t]) = 1)
             /\ GotoLock(t, "reg_check") /\ left' = [left EXCEPT ![t] = Tail(@)]
             /\ UNCHANGED <<call, snap>>
    <3>1. Tail(left[t]) \in Seq(Definitions) /\ Tail(left[t]) # <<>>
      BY <2>0, <2>2, NextDefinition DEF PlaceInv
    <3>2. place'[t] = "reg_check" /\ left'[t] = Tail(left[t]) /\ call'[t] = call[t]
      BY <2>2 DEF GotoLock, RegistryTypes
    <3> QED BY <2>0, <2>2, <3>1, <3>2 DEF PlaceInv, Changing, ChangePlaces, RegPlaces
  <2> QED BY <1>6, <2>1, <2>2 DEF RegCategory, Registers
<1>7. ASSUME Parse(t) PROVE Fine(t)'
  <2>0. place[t] \in ChangePlaces \ RegPlaces
    BY <1>7 DEF Parse, ChangePlaces, RegPlaces
  <2>1. CASE Return(t)
    BY <2>1, <1>r
  <2>2. ASSUME NEW l \in Listings, l # <<>>, left' = [left EXCEPT ![t] = l], GotoLock(t, "reg_check"),
               UNCHANGED <<call, snap>>
        PROVE  Fine(t)'
    <3>1. place'[t] = "reg_check" /\ left'[t] = l /\ call'[t] = call[t] /\ l \in Seq(Definitions)
      BY <2>2, RegistryAssumption DEF GotoLock, RegistryTypes
    <3> QED BY <2>0, <2>2, <3>1 DEF PlaceInv, Changing, ChangePlaces, RegPlaces
  <2> QED BY <1>7, <2>1, <2>2 DEF Parse
<1>8. ASSUME ClearCommands(t) \/ ClearAliases(t) \/ ClearCategories(t) PROVE Fine(t)'
  <2>1. place[t] \in ChangePlaces /\ place'[t] \in ChangePlaces \ RegPlaces /\ UNCHANGED <<call, left>>
    BY <1>8 DEF ClearCommands, ClearAliases, ClearCategories, Enter, GotoLock, ChangePlaces, RegPlaces,
                RegistryTypes, locals
  <2> QED BY <2>1 DEF PlaceInv, Changing
<1>9. ASSUME LookStep(t) PROVE Fine(t)'
  <2>1. place[t] \notin ChangePlaces /\ ~ Changing(t)
    BY <1>9, LookFrame DEF PlaceInv
  <2>2. place'[t] \notin ChangePlaces /\ (call'[t] = call[t] \/ call'[t] = NoCall)
    BY <1>9, LookFrame DEF RegistryTypes, ChangePlaces, RegPlaces, BuildPlaces, LookPlaces
  <2> QED BY <2>1, <2>2, NoCallIs DEF Changing, ChangePlaces
<1>10. Fine(t)'
  BY <1>2, <1>3, <1>4, <1>5, <1>6, <1>7, <1>8, <1>9 DEF Step, LookStep
<1> HIDE DEF Fine
<1>11. \A u \in Users : Fine(u)'
  BY <1>1, <1>10
<1> USE DEF Fine
<1> QED BY <1>11 DEF PlaceInv


\* A task that builds keeps the commands locked, so that what it read of them is what they are;
\* whoever is between the two stores has stored this in the first.
BuildInv ==
    /\ \A t \in Users : place[t] \in BuildPlaces =>
           /\ t \in held["commands"] /\ snap[t] = Registered
           /\ place[t] = "build_index" => thesaurus = snap[t]
    /\ IndexMatchesThesaurus

LEMMA WritersAreAlone ==
    ASSUME NEW t \in Users, RegInsert(t) \/ ClearCommands(t)
    PROVE  held["commands"] = {}
BY DEF RegInsert, ClearCommands, Enter, Free, Wants, Lock

LEMMA CommandsFrame ==
    ASSUME RegistryTypes, NEW t \in Users, Begin(t) \/ Step(t), ~ RegInsert(t), ~ ClearCommands(t)
    PROVE  UNCHANGED commands
<1>1. CASE LookStep(t)
  BY <1>1, LookFrame DEF maps
<1> QED BY <1>1 DEF Begin, Step, LookStep, Wait, RegCheck, RegAlias, RegCategory, Parse,
                    ClearAliases, ClearCategories, maps

LEMMA BuiltFrame ==
    ASSUME NEW t \in Users, Begin(t) \/ Step(t), ~ BuildThesaurus(t), ~ BuildIndex(t)
    PROVE  UNCHANGED <<thesaurus, index>>
BY DEF Begin, Step, Wait, RegCheck, RegInsert, RegAlias, RegCategory, Parse, ClearCommands,
       ClearAliases, ClearCategories, ByName, ByAlias, Target, StatsCommands, StatsAliases,
       StatsCategories, BuildRead, ProbeIndex, ProbeThesaurus, Probe, Search, Related, Match, built

\* Where a task is that has not just read the commands or stored the thesaurus.
LEMMA LeavesBuild ==
    ASSUME RegistryTypes, NEW t \in Users, Begin(t) \/ Step(t), ~ Wait(t), ~ BuildRead(t), ~ BuildThesaurus(t)
    PROVE  place'[t] \notin BuildPlaces
<1>1. CASE Begin(t)
  <2>1. PICK k \in Kinds[t] : place' = [place EXCEPT ![t] = FirstStep[k]]
    BY <1>1 DEF Begin, GotoLock
  <2>2. k \in {"register", "load", "reload", "resolve", "stats", "build", "discover", "analyze"}
    BY RegistryAssumption
  <2>3. FirstStep[k] \notin BuildPlaces
    BY <2>2 DEF FirstStep, BuildPlaces
  <2> QED BY <2>1, <2>3 DEF RegistryTypes
<1>2. CASE ChangeStep(t)
  <2>1. \E p \in ChangePlaces \cup {"idle"} : place' = [place EXCEPT ![t] = p]
    BY <1>2 DEF ChangeStep, RegCheck, RegInsert, RegAlias, RegCategory, Parse, ClearCommands,
                ClearAliases, ClearCategories, Registers, Return, GotoLock, ChangePlaces, RegPlaces
  <2> QED BY <2>1 DEF RegistryTypes, ChangePlaces, RegPlaces, BuildPlaces
<1>3. CASE LookStep(t)
  <2>1. \E p \in LookPlaces \cup {"idle"} : place' = [place EXCEPT ![t] = p]
    BY <1>3 DEF LookStep, ByName, ByAlias, Target, StatsCommands, StatsAliases, StatsCategories,
                BuildIndex, ProbeIndex, ProbeThesaurus, Probe, Search, Related, Match,
                Resolved, NextMatch, Return, GotoLock, LookPlaces
  <2> QED BY <2>1 DEF RegistryTypes, LookPlaces, BuildPlaces
<1> QED BY <1>1, <1>2, <1>3 DEF Step, LookStep, ChangeStep

LEMMA BuildStep ==
    ASSUME RegistryTypes, BuildInv, NEW t \in Users, Begin(t) \/ Step(t)
    PROVE  BuildInv'
<1> DEFINE Fine(u) == place[u] \in BuildPlaces =>
                         /\ u \in held["commands"] /\ snap[u] = Registered
                         /\ place[u] = "build_index" => thesaurus = snap[u]
<1>h. \A u \in Users : Fine(u)
  BY DEF BuildInv
<1>l. "commands" \in Locks
  BY DEF Locks
<1>o. OthersStay(t)
  BY OthersDoStay
<1>1. ASSUME NEW u \in Users \ {t}, place'[u] \in BuildPlaces
      PROVE  /\ u \in held'["commands"] /\ snap'[u] = snap[u] /\ snap[u] = Registered /\ Registered' = Registered
             /\ place[u] \in BuildPlaces
             /\ place'[u] = "build_index" => thesaurus = snap[u]
  <2>1. place[u] \in BuildPlaces /\ snap'[u] = snap[u] /\ u \in held["commands"] /\ u \in held'["commands"]
        /\ snap[u] = Registered
    BY <1>1, <1>h, <1>o, <1>l DEF OthersStay
  <2>2. UNCHANGED commands
    BY <2>1, WritersAreAlone, CommandsFrame
  <2>3. place'[u] = "build_index" => thesaurus = snap[u]
    BY <1>1, <1>h, <1>o DEF OthersStay
  <2> QED BY <2>1, <2>2, <2>3 DEF Registered
<1>2. CASE ~ BuildThesaurus(t) /\ ~ BuildIndex(t)
  <2>0. UNCHANGED <<thesaurus, index>>
    BY <1>2, BuiltFrame
  <2>1. \A u \in Users \ {t} : Fine(u)'
    BY <1>1, <2>0
  <2>2. CASE Wait(t)
    <3>1. UNCHANGED <<place, held, snap, commands>>
      BY <2>2 DEF Wait, locals, maps
    <3> QED BY <3>1, <2>0 DEF BuildInv, IndexMatchesThesaurus, Registered
  <2>3. CASE BuildRead(t)
    <3>1. place[t] = "build_read" /\ UNCHANGED commands
      BY <2>3 DEF BuildRead, Enter, maps
    <3>2. \/ /\ place'[t] = "build_thesaurus" /\ t \in held'["commands"] /\ snap'[t] = Registered
          \/ place'[t] = "idle"
      <4>1. CASE Return(t)
        BY <4>1 DEF Return, GotoLock, RegistryTypes
      <4>2. CASE Keep(t, "commands") /\ snap' = [snap EXCEPT ![t] = Registered] /\ GotoLock(t, "build_thesaurus")
        BY <4>2, <1>l DEF Keep, GotoLock, RegistryTypes
      <4> QED BY <2>3, <4>1, <4>2 DEF BuildRead
    <3>3. Fine(t)'
      BY <3>1, <3>2 DEF BuildPlaces, Registered
    <3>4. IndexMatchesThesaurus'
      BY <3>1, <2>0, <1>o DEF BuildInv, IndexMatchesThesaurus, OthersStay
    <3> HIDE DEF Fine
    <3>5. \A u \in Users : Fine(u)'
      BY <2>1, <3>3
    <3> USE DEF Fine
    <3> QED BY <3>4, <3>5 DEF BuildInv
  <2>4. CASE ~ Wait(t) /\ ~ BuildRead(t)
    <3>1. place'[t] \notin BuildPlaces
      BY <1>2, <2>4, LeavesBuild
    <3>2. Fine(t)'
      BY <3>1
    <3>3. place[t] # "build_index"
      BY <1>2, <2>4 DEF Begin, Step, RegCheck, RegInsert, RegAlias, RegCategory, Parse, ClearCommands,
       ClearAliases, ClearCategories, ByName, ByAlias, Target, StatsCommands, StatsAliases,
       StatsCategories, ProbeIndex, ProbeThesaurus, Probe, Search, Related, Match, Enter
    <3>4. IndexMatchesThesaurus'
      BY <3>3, <2>0, <1>o DEF BuildInv, IndexMatchesThesaurus, OthersStay
    <3> HIDE DEF Fine
    <3>5. \A u \in Users : Fine(u)'
      BY <2>1, <3>2
    <3> USE DEF Fine
    <3> QED BY <3>4, <3>5 DEF BuildInv
  <2> QED BY <2>2, <2>3, <2>4
<1>3. CASE BuildThesaurus(t)
  <2>0. /\ place[t] = "build_thesaurus" /\ thesaurus' = snap[t] /\ UNCHANGED <<commands, held, snap>>
        /\ place'[t] = "build_index"
    BY <1>3 DEF BuildThesaurus, Enter, GotoLock, maps, locals, RegistryTypes
  <2>1. t \in held["commands"] /\ snap[t] = Registered
    BY <2>0, <1>h DEF BuildPlaces
  <2>2. Fine(t)'
    BY <2>0, <2>1 DEF Registered
  <2>3. \A u \in Users \ {t} : Fine(u)'
    BY <1>1, <2>0, <2>1
  <2>4. IndexMatchesThesaurus'
    BY <2>0 DEF IndexMatchesThesaurus
  <2> HIDE DEF Fine
  <2>5. \A u \in Users : Fine(u)'
    BY <2>2, <2>3
  <2> USE DEF Fine
  <2> QED BY <2>4, <2>5 DEF BuildInv
<1>4. CASE BuildIndex(t)
  <2>0. place[t] = "build_index" /\ index' = snap[t] /\ UNCHANGED thesaurus
    BY <1>4 DEF BuildIndex, Enter
  <2>1. thesaurus = snap[t]
    BY <2>0, <1>h DEF BuildPlaces
  <2>2. place'[t] \notin BuildPlaces
    BY <1>4, <2>0, LeavesBuild DEF Wait, BuildRead, BuildThesaurus, BuildIndex, Enter, GotoLock
  <2>3. \A u \in Users \ {t} : Fine(u)'
    BY <1>1, <2>0
  <2>4. Fine(t)'
    BY <2>2
  <2>5. IndexMatchesThesaurus'
    BY <2>0, <2>1 DEF IndexMatchesThesaurus
  <2> HIDE DEF Fine
  <2>6. \A u \in Users : Fine(u)'
    BY <2>3, <2>4
  <2> USE DEF Fine
  <2> QED BY <2>5, <2>6 DEF BuildInv
<1> QED BY <1>2, <1>3, <1>4


\* The three maps: an alias leads to a command that declares it, the commands but those of D
\* answer to their aliases, and the names of the commands but those of N are listed once.
Leads(cm, al) ==
    \A w \in Words : al[w] # "" => cm[al[w]] # NoDef /\ w \in cm[al[w]].aliases
Answers(cm, al, D) ==
    \A d \in Definitions \ D : cm[d.name] = d => \A a \in d.aliases : al[a] # ""
Names(cm) == {w \in Words : cm[w] # NoDef}
Lists(cats, N) == ToSet(cats) = N /\ Len(cats) = Cardinality(N)

AllAgree ==
    /\ Leads(commands, aliases)
    /\ Answers(commands, aliases, {})
    /\ Lists(categories, Names(commands))

\* What holds of the maps while task t, and no other, changes them.
StageOf(t) ==
    /\ place[t] \in {"parse", "reg_check", "reg_insert"} => AllAgree
    /\ place[t] = "reg_insert" => commands[Current(t).name] = NoDef
    /\ place[t] \in {"reg_alias", "reg_category"} =>
          /\ commands[Current(t).name] = Current(t) /\ Leads(commands, aliases)
          /\ Lists(categories, Names(commands) \ {Current(t).name})
    /\ place[t] = "reg_alias" => Answers(commands, aliases, {Current(t)})
    /\ place[t] = "reg_category" => Answers(commands, aliases, {})
    /\ place[t] \in {"clear_aliases", "clear_categories"} => \A w \in Words : commands[w] = NoDef
    /\ place[t] = "clear_categories" => \A w \in Words : aliases[w] = ""

StageInv ==
    ~ raced => /\ \A t, u \in Users : Changing(t) /\ Changing(u) => t = u
               /\ (\A t \in Users : ~ Changing(t)) => AllAgree
               /\ \A t \in Users : StageOf(t)

CommandMaps == [Words -> Definitions \cup {NoDef}]
AliasMaps == [Words -> Words \cup {""}]

LEMMA NameIsWord == \A d \in Definitions : d.name \in Words /\ d.aliases \subseteq Words /\ d # NoDef
<1>1. \A d \in Definitions : d # NoDef
  BY RegistryAssumption
<1>2. \A d \in Definitions : d.name \in Words /\ d.aliases \subseteq Words
  BY DEF Words
<1> QED BY <1>1, <1>2

LEMMA Inserted ==
    ASSUME NEW cm \in CommandMaps, NEW al \in AliasMaps, NEW cats, NEW c \in Definitions,
           cm[c.name] = NoDef, Leads(cm, al), Answers(cm, al, {}), Lists(cats, Names(cm)),
           NEW more, more = [cm EXCEPT ![c.name] = c]
    PROVE  /\ more[c.name] = c /\ Leads(more, al) /\ Answers(more, al, {c})
           /\ Lists(cats, Names(more) \ {c.name})
<1>1. c.name \in Words /\ c # NoDef
  BY NameIsWord
<1>2. \A w \in Words : more[w] = IF w = c.name THEN c ELSE cm[w]
  BY <1>1 DEF CommandMaps
<1>3. Leads(more, al)
  <2> SUFFICES ASSUME NEW w \in Words, al[w] # ""
               PROVE  more[al[w]] # NoDef /\ w \in more[al[w]].aliases
    BY DEF Leads
  <2>1. al[w] \in Words /\ cm[al[w]] # NoDef /\ w \in cm[al[w]].aliases
    BY DEF Leads, AliasMaps
  <2> QED BY <2>1, <1>2
<1>4. Answers(more, al, {c})
  <2> SUFFICES ASSUME NEW d \in Definitions, d # c, more[d.name] = d, NEW a \in d.aliases PROVE al[a] # ""
    BY DEF Answers
  <2>1. cm[d.name] = d
    BY <1>2, NameIsWord
  <2> QED BY <2>1 DEF Answers
<1>5. Names(more) \ {c.name} = Names(cm)
  BY <1>1, <1>2 DEF Names
<1> QED BY <1>1, <1>2, <1>3, <1>4, <1>5

LEMMA AliasesAdded ==
    ASSUME NEW cm \in CommandMaps, NEW al \in AliasMaps, NEW c \in Definitions,
           cm[c.name] = c, Leads(cm, al), Answers(cm, al, {c}),
           NEW more, more = [w \in Words |-> IF w \in c.aliases THEN c.name ELSE al[w]]
    PROVE  Leads(cm, more) /\ Answers(cm, more, {})
<1>1. c.name \in Words /\ c # NoDef /\ c.name # ""
  BY NameIsWord, RegistryAssumption
<1>2. \A w \in Words : more[w] = IF w \in c.aliases THEN c.name ELSE al[w]
  OBVIOUS
<1>3. Leads(cm, more)
  <2> SUFFICES ASSUME NEW w \in Words, more[w] # ""
               PROVE  cm[more[w]] # NoDef /\ w \in cm[more[w]].aliases
    BY DEF Leads
  <2>1. CASE w \in c.aliases
    BY <2>1, <1>1, <1>2
  <2>2. CASE w \notin c.aliases
    BY <2>2, <1>2 DEF Leads
  <2> QED BY <2>1, <2>2
<1>4. Answers(cm, more, {})
  <2> SUFFICES ASSUME NEW d \in Definitions, cm[d.name] = d, NEW a \in d.aliases PROVE more[a] # ""
    BY DEF Answers
  <2>1. a \in Words
    BY NameIsWord
  <2>2. CASE a \in c.aliases
    BY <2>1, <2>2, <1>1, <1>2
  <2>3. CASE a \notin c.aliases
    <3>1. d # c /\ more[a] = al[a]
      BY <2>1, <2>3, <1>2
    <3> QED BY <3>1 DEF Answers
  <2> QED BY <2>2, <2>3
<1> QED BY <1>3, <1>4

LEMMA NameListed ==
    ASSUME NEW N \in SUBSET Words, NEW n \in N, NEW cats \in Seq(Words), Lists(cats, N \ {n})
    PROVE  Lists(Append(cats, n), N)
<1>1. IsFiniteSet(N)
  BY RegistryAssumption, FS_Subset
<1>2. Cardinality(N) \in Nat /\ Cardinality(N \ {n}) = Cardinality(N) - 1
  BY <1>1, FS_CardinalityType, FS_RemoveElement
<1> DEFINE more == Append(cats, n)
<1>3. /\ Len(more) = Len(cats) + 1 /\ DOMAIN more = 1..Len(more) /\ DOMAIN cats = 1..Len(cats)
      /\ \A i \in 1..Len(cats) : more[i] = cats[i]
      /\ more[Len(cats) + 1] = n /\ Len(cats) \in Nat
  <2>1. n \in Words
    OBVIOUS
  <2> QED BY <2>1
<1> HIDE DEF more
<1>4. ToSet(more) = ToSet(cats) \cup {n}
  <2>1. \A i \in 1..Len(more) : i \in 1..Len(cats) \/ i = Len(cats) + 1
    BY <1>3
  <2>2. \A x \in ToSet(more) : x \in ToSet(cats) \cup {n}
    BY <2>1, <1>3 DEF ToSet
  <2>3. \A i \in 1..Len(cats) : i \in 1..Len(more)
    BY <1>3
  <2>4. \A x \in ToSet(cats) : x \in ToSet(more)
    BY <2>3, <1>3 DEF ToSet
  <2>5. n \in ToSet(more)
    BY <1>3 DEF ToSet
  <2> QED BY <2>2, <2>4, <2>5
<1>5. ToSet(cats) = N \ {n} /\ Len(cats) = Cardinality(N) - 1
  BY <1>2 DEF Lists
<1>6. ToSet(more) = N /\ Len(more) = Cardinality(N)
  BY <1>2, <1>3, <1>4, <1>5
<1> QED BY <1>6 DEF Lists, more


\* A set as a sequence lists it.
LEMMA SetIsListed ==
    ASSUME NEW S, IsFiniteSet(S)
    PROVE  SetToSeq(S) \in Seq(S) /\ Lists(SetToSeq(S), S)
<1> DEFINE n == Cardinality(S)
           f == SetToSeq(S)
<1>1. n \in Nat /\ ExistsBijection(1..n, S)
  BY FS_CardinalityType
<1>2. PICK g \in [1..n -> S] : IsInjective(g)
  BY <1>1 DEF ExistsBijection, Bijection, Injection
<1>3. f \in [1..n -> S] /\ IsInjective(f)
  BY <1>2 DEF SetToSeq
<1> HIDE DEF n, f
<1>4. f \in Injection(1..n, S)
  BY <1>3 DEF Injection
<1>5. Cardinality(1..n) = n
  BY <1>1, FS_Interval
<1>6. f \in Surjection(1..n, S)
  BY <1>4, <1>5, FS_Injection DEF n
<1>7. f \in Seq(S) /\ Len(f) = n /\ DOMAIN f = 1..n
  BY <1>1, <1>3
<1>8. ToSet(f) = S
  BY <1>3, <1>6, <1>7 DEF ToSet, Surjection
<1> QED BY <1>7, <1>8 DEF Lists, n, f

LEMMA LoadedAgree ==
    ASSUME RegistryInit
    PROVE  AllAgree /\ RegistryTypes
<1>1. PICK ds \in {{}, Loaded} :
         /\ commands = [w \in Words |-> IF \E d \in ds : d.name = w
                                        THEN CHOOSE d \in ds : d.name = w ELSE NoDef]
         /\ aliases = [w \in Words |-> IF \E d \in ds : w \in d.aliases
                                       THEN (CHOOSE d \in ds : w \in d.aliases).name ELSE ""]
         /\ categories = SetToSeq({d.name : d \in ds})
  BY DEF RegistryInit
<1>2. ds \subseteq Definitions
  BY RegistryAssumption
<1>3. \A d, e \in ds : d.name = e.name \/ d.aliases \cap e.aliases # {} => d = e
  BY RegistryAssumption
<1>4. \A d \in ds : d \in Definitions /\ commands[d.name] = d
  <2> TAKE d \in ds
  <2>1. d \in Definitions /\ d.name \in Words
    BY <1>2, NameIsWord
  <2>2. commands[d.name] = CHOOSE e \in ds : e.name = d.name
    BY <1>1, <2>1
  <2>3. \A e \in ds : e.name = d.name => e = d
    BY <1>3
  <2>4. (CHOOSE e \in ds : e.name = d.name) = d
    BY <2>3
  <2> QED BY <2>1, <2>2, <2>4
<1>5. \A w \in Words : commands[w] = NoDef \/ (commands[w] \in ds /\ commands[w].name = w)
  BY <1>1
<1>6. \A w \in Words : aliases[w] = "" \/ \E d \in ds : w \in d.aliases /\ aliases[w] = d.name
  <2> TAKE w \in Words
  <2>1. CASE \E d \in ds : w \in d.aliases
    <3> DEFINE c == CHOOSE d \in ds : w \in d.aliases
    <3>1. c \in ds /\ w \in c.aliases
      BY <2>1
    <3>2. aliases[w] = c.name
      BY <1>1, <2>1
    <3> QED BY <3>1, <3>2
  <2>2. CASE ~ \E d \in ds : w \in d.aliases
    BY <2>2, <1>1
  <2> QED BY <2>1, <2>2
<1>7. \A d \in ds : \A w \in d.aliases : aliases[w] # ""
  <2> SUFFICES ASSUME NEW d \in ds, NEW w \in d.aliases PROVE aliases[w] # ""
    OBVIOUS
  <2>1. w \in Words
    BY <1>2, NameIsWord
  <2> DEFINE c == CHOOSE e \in ds : w \in e.aliases
  <2>2. c \in ds
    OBVIOUS
  <2>3. aliases[w] = c.name
    BY <1>1, <2>1
  <2> HIDE DEF c
  <2> QED BY <2>2, <2>3, <1>2, RegistryAssumption
<1>8. Leads(commands, aliases)
  <2> SUFFICES ASSUME NEW w \in Words, aliases[w] # ""
               PROVE  commands[aliases[w]] # NoDef /\ w \in commands[aliases[w]].aliases
    BY DEF Leads
  <2>1. PICK d \in ds : w \in d.aliases /\ aliases[w] = d.name
    BY <1>6
  <2> QED BY <2>1, <1>4, NameIsWord
<1>9. Answers(commands, aliases, {})
  <2> SUFFICES ASSUME NEW d \in Definitions, commands[d.name] = d, NEW a \in d.aliases PROVE aliases[a] # ""
    BY DEF Answers
  <2>1. d \in ds
    BY <1>5, NameIsWord
  <2> QED BY <2>1, <1>7
<1>10. Names(commands) = {d.name : d \in ds}
  <2>1. \A w \in Names(commands) : \E d \in ds : d.name = w
    BY <1>5 DEF Names
  <2>2. \A d \in ds : d.name \in Names(commands)
    BY <1>4, NameIsWord DEF Names
  <2> QED BY <2>1, <2>2
<1>11. IsFiniteSet(Names(commands)) /\ Names(commands) \in SUBSET Words
  BY RegistryAssumption, FS_Subset DEF Names
<1>12. categories \in Seq(Names(commands)) /\ Lists(categories, Names(commands))
  BY <1>1, <1>10, <1>11, SetIsListed
<1>13. categories \in Seq(Words)
  BY <1>11, <1>12
<1>14. commands \in CommandMaps /\ aliases \in AliasMaps
  <2>1. \A w \in Words : commands[w] \in Definitions \cup {NoDef}
    BY <1>2, <1>5
  <2>2. \A w \in Words : aliases[w] \in Words \cup {""}
    BY <1>2, <1>6, NameIsWord
  <2> QED BY <2>1, <2>2, <1>1 DEF CommandMaps, AliasMaps
<1>15. RegistryTypes
  BY <1>13, <1>14, NoCallIs DEF RegistryInit, RegistryTypes, CommandMaps, AliasMaps
<1> QED BY <1>8, <1>9, <1>12, <1>15 DEF AllAgree

RegistryInv == RegistryTypes /\ PlaceInv /\ BuildInv /\ StageInv

LEMMA RegistryInitInv == RegistryInit => RegistryInv
<1> SUFFICES ASSUME RegistryInit PROVE RegistryInv
  OBVIOUS
<1>1. AllAgree /\ RegistryTypes
  BY LoadedAgree
<1>2. \A t \in Users : place[t] = "idle" /\ call[t] = NoCall /\ ~ Changing(t)
  BY NoCallIs DEF RegistryInit, Changing
<1>3. PlaceInv
  BY <1>2, NoCallIs DEF PlaceInv, ChangePlaces, RegPlaces
<1>4. BuildInv
  BY <1>2 DEF BuildInv, IndexMatchesThesaurus, RegistryInit, BuildPlaces
<1>5. StageInv
  BY <1>1, <1>2 DEF StageInv, StageOf
<1> QED BY <1>1, <1>3, <1>4, <1>5 DEF RegistryInv

\* Nobody else changes the maps: what remains is what the one task that does has reached.
LEMMA ChangeStages ==
    ASSUME RegistryTypes, PlaceInv, PlaceInv', StageInv, NEW t \in Users, ChangeStep(t), ~ raced'
    PROVE  StageOf(t)' /\ (place'[t] = "idle" => AllAgree')
<1>0. ~ raced
  BY DEF ChangeStep, RegCheck, RegInsert, RegAlias, RegCategory, Parse, ClearCommands,
         ClearAliases, ClearCategories, locals
<1>s. StageOf(t)
  BY <1>0 DEF StageInv
<1>t. commands \in CommandMaps /\ aliases \in AliasMaps /\ categories \in Seq(Words)
  BY DEF RegistryTypes, CommandMaps, AliasMaps
<1>r. ASSUME Return(t), AllAgree' PROVE StageOf(t)' /\ (place'[t] = "idle" => AllAgree')
  BY <1>r DEF Return, GotoLock, StageOf, RegistryTypes
<1>1. CASE RegCheck(t)
  <2>1. AllAgree /\ UNCHANGED <<commands, aliases, categories>>
    BY <1>1, <1>s DEF RegCheck, Enter, StageOf, maps
  <2>2. AllAgree'
    BY <2>1 DEF AllAgree, Leads, Answers, Lists, Names
  <2>3. CASE Return(t)
    BY <2>2, <2>3, <1>r
  <2>4. CASE /\ commands[Current(t).name] = NoDef
             /\ GotoLock(t, "reg_insert") /\ UNCHANGED <<call, left, snap>>
    <3>1. place'[t] = "reg_insert" /\ Current(t)' = Current(t)
      BY <2>4 DEF GotoLock, Current, RegistryTypes
    <3> QED BY <2>1, <2>2, <2>4, <3>1 DEF StageOf
  <2> QED BY <1>1, <2>3, <2>4 DEF RegCheck
<1>2. CASE RegInsert(t)
  <2>0. place[t] = "reg_insert"
    BY <1>2 DEF RegInsert, Enter
  <2>1. Current(t) \in Definitions
    BY <2>0, CurrentIs DEF RegPlaces
  <2>2. AllAgree /\ commands[Current(t).name] = NoDef
    BY <2>0, <1>s DEF StageOf
  <2>3. /\ commands' = [commands EXCEPT ![Current(t).name] = Current(t)]
        /\ UNCHANGED <<aliases, categories>> /\ place'[t] = "reg_alias" /\ Current(t)' = Current(t)
    BY <1>2 DEF RegInsert, GotoLock, Current, RegistryTypes, locals
  <2> DEFINE c == Current(t)
  <2>d. c \in Definitions /\ commands[c.name] = NoDef /\ commands' = [commands EXCEPT ![c.name] = c]
    BY <2>1, <2>2, <2>3
  <2> HIDE DEF c
  <2>4. /\ commands'[c.name] = c /\ Leads(commands', aliases) /\ Answers(commands', aliases, {c})
        /\ Lists(categories, Names(commands') \ {c.name})
    <3>1. Leads(commands, aliases) /\ Answers(commands, aliases, {}) /\ Lists(categories, Names(commands))
      BY <2>2 DEF AllAgree
    <3> QED BY <2>d, <3>1, <1>t, Inserted, ZenonT(40)
  <2>5. /\ commands'[c.name] = c /\ Leads(commands', aliases') /\ Answers(commands', aliases', {c})
        /\ Lists(categories', Names(commands') \ {c.name})
    BY <2>3, <2>4
  <2>6. Current(t)' = c
    BY <2>3 DEF c
  <2> QED BY <2>3, <2>5, <2>6 DEF StageOf
<1>3. CASE RegAlias(t)
  <2>0. place[t] = "reg_alias"
    BY <1>3 DEF RegAlias, Enter
  <2>1. Current(t) \in Definitions
    BY <2>0, CurrentIs DEF RegPlaces
  <2> DEFINE c == Current(t)
  <2>2. /\ commands[c.name] = c /\ Leads(commands, aliases)
        /\ Lists(categories, Names(commands) \ {c.name}) /\ Answers(commands, aliases, {c})
    BY <2>0, <1>s DEF StageOf
  <2>3. /\ aliases' = [w \in Words |-> IF w \in c.aliases THEN c.name ELSE aliases[w]]
        /\ UNCHANGED <<commands, categories>> /\ place'[t] = "reg_category" /\ Current(t)' = c
    BY <1>3 DEF RegAlias, GotoLock, Current, RegistryTypes, locals
  <2>d. c \in Definitions
    BY <2>1
  <2> HIDE DEF c
  <2>4. Leads(commands, aliases') /\ Answers(commands, aliases', {})
    BY <2>d, <2>2, <2>3, <1>t, AliasesAdded
  <2>5. /\ commands'[c.name] = c /\ Leads(commands', aliases') /\ Answers(commands', aliases', {})
        /\ Lists(categories', Names(commands') \ {c.name})
    BY <2>2, <2>3, <2>4
  <2> QED BY <2>3, <2>5 DEF StageOf
<1>4. CASE RegCategory(t)
  <2>0. place[t] = "reg_category"
    BY <1>4 DEF RegCategory, Enter
  <2> DEFINE c == Current(t)
  <2>1. c \in Definitions /\ c.name \in Words /\ c # NoDef
    BY <2>0, CurrentIs, NameIsWord DEF RegPlaces
  <2>2. /\ commands[c.name] = c /\ Leads(commands, aliases) /\ Answers(commands, aliases, {})
        /\ Lists(categories, Names(commands) \ {c.name})
    BY <2>0, <1>s DEF StageOf
  <2>3. categories' = Append(categories, c.name) /\ UNCHANGED <<commands, aliases>>
    BY <1>4 DEF RegCategory
  <2>4. place'[t] \in {"idle", "reg_check"}
    BY <1>4 DEF RegCategory, Registers, Return, GotoLock, RegistryTypes
  <2> HIDE DEF c
  <2>5. Names(commands) \in SUBSET Words /\ c.name \in Names(commands)
    BY <2>1, <2>2 DEF Names
  <2>6. Lists(categories', Names(commands))
    BY <2>2, <2>3, <2>5, <1>t, NameListed
  <2>7. AllAgree'
    BY <2>2, <2>3, <2>6 DEF AllAgree
  <2> QED BY <2>4, <2>7 DEF StageOf
<1>5. CASE Parse(t)
  <2>1. AllAgree /\ UNCHANGED <<commands, aliases, categories>>
    BY <1>5, <1>s DEF Parse, StageOf, maps
  <2>2. AllAgree'
    BY <2>1 DEF AllAgree, Leads, Answers, Lists, Names
  <2>3. place'[t] \in {"idle", "reg_check"}
    BY <1>5 DEF Parse, Return, GotoLock, RegistryTypes
  <2> QED BY <2>2, <2>3 DEF StageOf
<1>6. CASE ClearCommands(t)
  <2>1. commands' = [w \in Words |-> NoDef] /\ place'[t] = "clear_aliases"
    BY <1>6 DEF ClearCommands, GotoLock, RegistryTypes
  <2> QED BY <2>1 DEF StageOf
<1>7. CASE ClearAliases(t)
  <2>1. /\ aliases' = [w \in Words |-> ""] /\ place'[t] = "clear_categories" /\ UNCHANGED commands
        /\ place[t] = "clear_aliases"
    BY <1>7 DEF ClearAliases, Enter, GotoLock, RegistryTypes
  <2> QED BY <2>1, <1>s DEF StageOf
<1>8. CASE ClearCategories(t)
  <2>1. categories' = <<>> /\ place'[t] = "parse" /\ UNCHANGED <<commands, aliases>> /\ place[t] = "clear_categories"
    BY <1>8 DEF ClearCategories, Enter, GotoLock, RegistryTypes
  <2>2. \A w \in Words : commands'[w] = NoDef /\ aliases'[w] = ""
    BY <2>1, <1>s DEF StageOf
  <2>3. Names(commands') = {} /\ Leads(commands', aliases')
    BY <2>2 DEF Names, Leads
  <2>4. Answers(commands', aliases', {})
    BY <2>2, NameIsWord DEF Answers
  <2>5. Lists(<<>>, {})
    BY FS_EmptySet, EmptySeq DEF Lists, ToSet
  <2>6. AllAgree'
    BY <2>1, <2>3, <2>4, <2>5 DEF AllAgree
  <2> QED BY <2>1, <2>6 DEF StageOf
<1> QED BY <1>1, <1>2, <1>3, <1>4, <1>5, <1>6, <1>7, <1>8 DEF ChangeStep


LEMMA StageStep ==
    ASSUME RegistryTypes, PlaceInv, PlaceInv', StageInv, NEW t \in Users, Begin(t) \/ Step(t)
    PROVE  StageInv'
<1>o. OthersStay(t)
  BY OthersDoStay
<1>c. \A u \in Users \ {t} : Changing(u)' <=> Changing(u)
  BY <1>o DEF OthersStay, Changing
<1>n. \A u \in Users : (~ Changing(u))' => StageOf(u)'
  <2> SUFFICES ASSUME NEW u \in Users, (~ Changing(u))' PROVE StageOf(u)'
    OBVIOUS
  <2>1. place'[u] \notin ChangePlaces
    BY DEF PlaceInv
  <2> QED BY <2>1 DEF StageOf, ChangePlaces, RegPlaces
<1>1. ASSUME UNCHANGED maps, ~ raced, \A u \in Users : Changing(u)' <=> Changing(u),
             \A u \in Users : Changing(u) => /\ place'[u] = place[u] /\ call'[u] = call[u]
                                             /\ left'[u] = left[u]
      PROVE  StageInv'
  <2>1. ~ raced
    BY <1>1
  <2>2. AllAgree' = AllAgree
    BY <1>1 DEF maps, AllAgree
  <2>3. \A u \in Users : Changing(u) => StageOf(u)'
    <3> SUFFICES ASSUME NEW u \in Users, Changing(u) PROVE StageOf(u)'
      OBVIOUS
    <3>1. Current(u)' = Current(u)
      BY <1>1 DEF Current
    <3>2. StageOf(u)
      BY <2>1 DEF StageInv
    <3>3. UNCHANGED <<commands, aliases, categories>> /\ place'[u] = place[u]
      BY <1>1 DEF maps
    <3> QED BY <2>2, <3>1, <3>2, <3>3 DEF StageOf
  <2>4. \A u \in Users : StageOf(u)'
    BY <1>1, <1>n, <2>3
  <2>5. (\A u \in Users : (~ Changing(u))') => AllAgree'
    BY <1>1, <2>1, <2>2 DEF StageInv
  <2>6. \A u, v \in Users : Changing(u)' /\ Changing(v)' => u = v
    BY <1>1, <2>1 DEF StageInv
  <2> QED BY <2>4, <2>5, <2>6 DEF StageInv
<1>2. CASE Wait(t)
  <2>1. UNCHANGED <<maps, raced, place, call, left>>
    BY <1>2 DEF Wait, locals
  <2>2. \A u \in Users : Changing(u)' <=> Changing(u)
    BY <2>1 DEF Changing
  <2>3. CASE raced'
    BY <2>3 DEF StageInv
  <2>4. CASE ~ raced'
    BY <1>1, <2>1, <2>2, <2>4
  <2> QED BY <2>3, <2>4
<1>3. CASE LookStep(t)
  <2>1. ~ Changing(t) /\ UNCHANGED <<maps, raced>>
    BY <1>3, LookFrame DEF PlaceInv
  <2>2. (~ Changing(t))'
    <3>1. PICK p \in BuildPlaces \cup LookPlaces \cup {"idle"} : place' = [place EXCEPT ![t] = p]
      BY <1>3, LookFrame
    <3>2. place'[t] \notin ChangePlaces
      BY <3>1 DEF RegistryTypes, ChangePlaces, RegPlaces, BuildPlaces, LookPlaces
    <3> QED BY <3>2 DEF PlaceInv
  <2>3. \A u \in Users : Changing(u)' <=> Changing(u)
    BY <1>c, <2>1, <2>2
  <2>4. \A u \in Users : Changing(u) => place'[u] = place[u] /\ call'[u] = call[u] /\ left'[u] = left[u]
    BY <1>o, <2>1 DEF OthersStay
  <2>5. CASE raced'
    BY <2>5 DEF StageInv
  <2> QED BY <1>1, <2>1, <2>3, <2>4, <2>5
<1>4. CASE Begin(t)
  <2>1. PICK k \in Kinds[t] :
             /\ place' = [place EXCEPT ![t] = FirstStep[k]]
             /\ raced' = (raced \/ /\ k \in {"register", "load", "reload"}
                                   /\ \E u \in Users : Changing(u))
             /\ \E w \in Words, d \in Definitions :
                   call' = [call EXCEPT ![t] = [kind |-> k, word |-> w, def |-> d]]
    BY <1>4 DEF Begin, GotoLock
  <2>w. PICK w \in Words, d \in Definitions :
             call' = [call EXCEPT ![t] = [kind |-> k, word |-> w, def |-> d]]
    BY <2>1
  <2>k. k \in {"register", "load", "reload", "resolve", "stats", "build", "discover", "analyze"}
    BY RegistryAssumption
  <2>i. place[t] = "idle" /\ ~ Changing(t) /\ UNCHANGED maps
    BY <1>4 DEF Begin, PlaceInv, ChangePlaces, RegPlaces
  <2>2. call'[t].kind = k
    BY <2>w DEF RegistryTypes
  <2>3. CASE raced'
    BY <2>3 DEF StageInv
  <2>4. CASE ~ raced' /\ k \notin {"register", "load", "reload"}
    <3>1. (~ Changing(t))'
      BY <2>2, <2>4 DEF Changing
    <3>2. \A u \in Users : Changing(u)' <=> Changing(u)
      BY <1>c, <2>i, <3>1
    <3>3. \A u \in Users : Changing(u) => place'[u] = place[u] /\ call'[u] = call[u] /\ left'[u] = left[u]
      BY <1>o, <2>i DEF OthersStay
    <3>4. ~ raced
      BY <2>1, <2>4
    <3> QED BY <1>1, <2>i, <3>2, <3>3, <3>4
  <2>5. CASE ~ raced' /\ k \in {"register", "load", "reload"}
    <3>1. ~ raced /\ \A u \in Users : ~ Changing(u)
      BY <2>1, <2>5
    <3>2. AllAgree
      BY <3>1 DEF StageInv
    <3>3. AllAgree'
      BY <3>2, <2>i DEF AllAgree, maps
    <3>4. place'[t] \in {"reg_check", "parse", "clear_commands"}
      <4>1. FirstStep[k] \in {"reg_check", "parse", "clear_commands"}
        BY <2>5 DEF FirstStep
      <4> QED BY <2>1, <4>1 DEF RegistryTypes
    <3>5. StageOf(t)'
      BY <3>3, <3>4 DEF StageOf
    <3>6. \A u \in Users \ {t} : (~ Changing(u))'
      BY <1>c, <3>1
    <3>7. \A u \in Users : StageOf(u)'
      BY <1>n, <3>5, <3>6
    <3>8. \A u, v \in Users : Changing(u)' /\ Changing(v)' => u = v
      BY <3>6
    <3> QED BY <3>3, <3>7, <3>8 DEF StageInv
  <2> QED BY <2>3, <2>4, <2>5
<1>5. CASE ChangeStep(t)
  <2>1. raced' = raced
    BY <1>5 DEF ChangeStep, RegCheck, RegInsert, RegAlias, RegCategory, Parse, ClearCommands,
         ClearAliases, ClearCategories, locals
  <2>2. CASE raced'
    BY <2>2 DEF StageInv
  <2>3. CASE ~ raced'
    <3>0. Changing(t)
      <4>1. place[t] \in ChangePlaces
        BY <1>5 DEF ChangeStep, RegCheck, RegInsert, RegAlias, RegCategory, Parse, ClearCommands,
         ClearAliases, ClearCategories, Enter, ChangePlaces, RegPlaces
      <4> QED BY <4>1 DEF PlaceInv
    <3>1. \A u \in Users \ {t} : ~ Changing(u)
      BY <2>1, <2>3, <3>0 DEF StageInv
    <3>2. \A u \in Users \ {t} : (~ Changing(u))'
      BY <1>c, <3>1
    <3>3. StageOf(t)' /\ (place'[t] = "idle" => AllAgree')
      BY <1>5, <2>3, ChangeStages
    <3>4. \A u \in Users : StageOf(u)'
      BY <1>n, <3>2, <3>3
    <3>5. (~ Changing(t))' => place'[t] = "idle"
      <4>1. \E p \in ChangePlaces \cup {"idle"} : place' = [place EXCEPT ![t] = p]
        BY <1>5 DEF ChangeStep, RegCheck, RegInsert, RegAlias, RegCategory, Parse, ClearCommands,
                ClearAliases, ClearCategories, Registers, Return, GotoLock, ChangePlaces, RegPlaces
      <4>2. place'[t] \in ChangePlaces \cup {"idle"}
        BY <4>1 DEF RegistryTypes
      <4> QED BY <4>2 DEF PlaceInv
    <3>6. (\A u \in Users : (~ Changing(u))') => AllAgree'
      BY <3>3, <3>5
    <3>7. \A u, v \in Users : Changing(u)' /\ Changing(v)' => u = v
      BY <3>2
    <3> QED BY <3>4, <3>6, <3>7 DEF StageInv
  <2> QED BY <2>2, <2>3
<1> QED BY <1>2, <1>3, <1>4, <1>5 DEF Step, LookStep, ChangeStep

LEMMA RegistryInvariance == RegistrySpec => []RegistryInv
<1>1. ASSUME RegistryInv, [RegistryNext]_registryVars PROVE RegistryInv'
  <2>1. CASE UNCHANGED registryVars
    BY <1>1, <2>1 DEF RegistryInv, RegistryTypes, PlaceInv, BuildInv, StageInv, registryVars,
                      IndexMatchesThesaurus, Registered, Changing, StageOf, AllAgree, Current
  <2>2. ASSUME NEW t \in Users, Begin(t) \/ Step(t) PROVE RegistryInv'
    BY <1>1, <2>2, RegistryTypeStep, PlaceStep, BuildStep, StageStep DEF RegistryInv
  <2> QED BY <1>1, <2>1, <2>2 DEF RegistryNext
<1> QED BY <1>1, RegistryInitInv, PTL DEF RegistrySpec

\* However many tasks build an index while others change the registry: the index and the
\* thesaurus are of the same commands whenever nobody is between storing the one and the other.
THEOREM BuiltOfTheSame == RegistrySpec => []IndexMatchesThesaurus
<1>1. RegistryInv => IndexMatchesThesaurus
  BY DEF RegistryInv, BuildInv
<1> QED BY <1>1, RegistryInvariance, PTL

\* As long as no two calls that change the registry overlap, and whatever looks up and builds
\* meanwhile: between those calls an alias leads to a registered command that declares it, every
\* command answers to its aliases, and each is listed once.
THEOREM RegistryAgrees == RegistrySpec => []MapsAgree
<1>1. RegistryInv => MapsAgree
  <2> SUFFICES ASSUME RegistryInv, ~ raced, \A t \in Users : ~ Changing(t) PROVE MapsAgree
    BY DEF MapsAgree
  <2>1. AllAgree
    BY DEF RegistryInv, StageInv
  <2> QED BY <2>1 DEF AllAgree, Leads, Answers, Lists, Names, MapsAgree, Registered
<1> QED BY <1>1, RegistryInvariance, PTL

\* The queue of a lock: the tasks that wait for it, each once.
QueueInv ==
    \A l \in Locks :
        /\ queue[l] \in Seq(Users)
        /\ \A i \in 1..Len(queue[l]) : /\ place[queue[l][i]] \in DOMAIN Wants
                                       /\ Wants[place[queue[l][i]]].lock = l
        /\ \A i, j \in 1..Len(queue[l]) : queue[l][i] = queue[l][j] => i = j

\* Where a task is that keeps a lock.
Keeps(t) ==
    /\ t \in held["commands"] => place[t] \in {"stats_aliases", "stats_categories"} \cup BuildPlaces
    /\ t \in held["aliases"] => place[t] \in {"target", "stats_categories"}
    /\ t \in held["index"] => /\ place[t] \in {"by_name", "by_alias", "target", "related"}
                              /\ call[t].kind = "discover"
    /\ t \notin held["categories"] /\ t \notin held["thesaurus"]

LEMMA WantsIs ==
    ASSUME NEW p \in DOMAIN Wants
    PROVE  Wants[p].lock \in Locks /\ p \notin {"idle", "parse"}
<1>1. p \notin {"idle", "parse"}
  BY DEF Wants
<1>2. Wants[p].lock \in Locks
  BY DEF Wants, Lock, Locks
<1> QED BY <1>1, <1>2

\* A task takes a lock, or waits for one, or its step needs none.
LEMMA QueueFrame ==
    ASSUME NEW t \in Users, Begin(t) \/ Step(t)
    PROVE  \/ Wait(t)
           \/ place[t] \in {"idle", "parse"} /\ queue' = queue
           \/ \E p \in DOMAIN Wants : Enter(t, p)
<1>1. CASE Begin(t) \/ Parse(t)
  BY <1>1 DEF Begin, Parse
<1>2. CASE ChangeStep(t) /\ ~ Parse(t)
  BY <1>2 DEF ChangeStep, RegCheck, RegInsert, RegAlias, RegCategory, ClearCommands,
              ClearAliases, ClearCategories, Wants
<1>3. CASE LookStep(t)
  BY <1>3 DEF LookStep, ByName, ByAlias, Target, StatsCommands, StatsAliases, StatsCategories, BuildRead,
              BuildThesaurus, BuildIndex, ProbeIndex, ProbeThesaurus, Probe, Search, Related, Match, Wants
<1> QED BY <1>1, <1>2, <1>3 DEF Step, ChangeStep, LookStep

\* A task in a queue is at the head of the one it enters by.
LEMMA NotElsewhere ==
    ASSUME QueueInv, NEW t \in Users, NEW l \in Locks, Waiting(t, l)
    PROVE  place[t] \in DOMAIN Wants /\ Wants[place[t]].lock = l
BY DEF QueueInv, Waiting

LEMMA QueueStep ==
    ASSUME RegistryTypes, QueueInv, DOMAIN queue = Locks, NEW t \in Users, Begin(t) \/ Step(t)
    PROVE  QueueInv' /\ DOMAIN queue' = Locks
<1>1. PICK q : place' = [place EXCEPT ![t] = q]
  BY StepFrame
<1>2. \A u \in Users \ {t} : place'[u] = place[u]
  BY <1>1 DEF RegistryTypes
<1>3. CASE Wait(t)
  <2> DEFINE l == Wants[place[t]].lock
  <2>1. /\ place[t] \in DOMAIN Wants /\ ~ Waiting(t, l)
        /\ queue' = [queue EXCEPT ![l] = Append(queue[l], t)] /\ place' = place
    BY <1>3 DEF Wait
  <2>2. l \in Locks
    BY <2>1, WantsIs
  <2>3. /\ Append(queue[l], t) \in Seq(Users) /\ Len(Append(queue[l], t)) = Len(queue[l]) + 1
        /\ \A i \in 1..Len(queue[l]) : Append(queue[l], t)[i] = queue[l][i]
        /\ Append(queue[l], t)[Len(queue[l]) + 1] = t
        /\ Len(queue[l]) \in Nat
    BY <2>2 DEF QueueInv
  <2> DEFINE new == Append(queue[l], t)
             n == Len(queue[l])
  <2>4. queue'[l] = new /\ \A k \in Locks \ {l} : queue'[k] = queue[k]
    BY <2>1, <2>2
  <2>5. \A i \in 1..n : queue[l][i] # t
    BY <2>1 DEF Waiting
  <2>6. /\ \A i \in 1..n : place[queue[l][i]] \in DOMAIN Wants /\ Wants[place[queue[l][i]]].lock = l
        /\ \A i, j \in 1..n : queue[l][i] = queue[l][j] => i = j
    BY <2>2 DEF QueueInv
  <2>7. Wants[place[t]].lock = l
    OBVIOUS
  <2> HIDE DEF l, new
  <2>8. \A i \in 1..(n + 1) : place[new[i]] \in DOMAIN Wants /\ Wants[place[new[i]]].lock = l
    <3>1. \A i \in 1..(n + 1) : i \in 1..n \/ i = n + 1
      BY <2>3
    <3>2. new[n + 1] = t /\ \A i \in 1..n : new[i] = queue[l][i]
      BY <2>3 DEF new
    <3> QED BY <3>1, <3>2, <2>1, <2>6, <2>7
  <2>9. \A i, j \in 1..(n + 1) : new[i] = new[j] => i = j
    <3>1. \A i \in 1..(n + 1) : i \in 1..n \/ i = n + 1
      BY <2>3
    <3>2. new[n + 1] = t /\ \A i \in 1..n : new[i] = queue[l][i]
      BY <2>3 DEF new
    <3> QED BY <3>1, <3>2, <2>5, <2>6
  <2>10. new \in Seq(Users) /\ Len(new) = n + 1
    BY <2>3 DEF new
  <2>11. DOMAIN queue' = Locks
    BY <2>1
  <2> HIDE DEF n
  <2>12. ASSUME NEW k \in Locks
         PROVE  /\ queue'[k] \in Seq(Users)
                /\ \A i \in 1..Len(queue'[k]) : /\ place'[queue'[k][i]] \in DOMAIN Wants
                                                /\ Wants[place'[queue'[k][i]]].lock = k
                /\ \A i, j \in 1..Len(queue'[k]) : queue'[k][i] = queue'[k][j] => i = j
    <3>1. CASE k = l
      <4>1. queue'[k] = new /\ place' = place
        BY <2>1, <2>4, <3>1
      <4>2. \A i \in 1..Len(queue'[k]) : /\ place'[queue'[k][i]] \in DOMAIN Wants
                                         /\ Wants[place'[queue'[k][i]]].lock = k
        BY <4>1, <2>8, <2>10, <3>1
      <4> QED BY <4>1, <4>2, <2>9, <2>10
    <3>2. CASE k # l
      <4>1. queue'[k] = queue[k] /\ place' = place
        BY <2>1, <2>4, <3>2
      <4> QED BY <4>1 DEF QueueInv
    <3> QED BY <3>1, <3>2
  <2> QED BY <2>11, <2>12 DEF QueueInv
<1>4. CASE place[t] \in {"idle", "parse"} /\ queue' = queue
  <2>1. place[t] \notin DOMAIN Wants
    BY <1>4, WantsIs
  <2>2. \A l \in Locks : \A i \in 1..Len(queue[l]) : queue[l][i] \in Users \ {t}
    BY <2>1 DEF QueueInv
  <2> QED BY <1>2, <1>4, <2>2 DEF QueueInv
<1>5. ASSUME NEW p \in DOMAIN Wants, Enter(t, p) PROVE QueueInv' /\ DOMAIN queue' = Locks
  <2> DEFINE l == Wants[p].lock
  <2>1. /\ place[t] = p /\ l \in Locks
        /\ queue[l] # <<>> => Head(queue[l]) = t
        /\ queue' = IF Waiting(t, l) THEN [queue EXCEPT ![l] = Tail(queue[l])] ELSE queue
    BY <1>5, WantsIs DEF Enter, Free
  <2>2. \A k \in Locks \ {l} : ~ Waiting(t, k)
    BY <2>1, NotElsewhere
  <2> HIDE DEF l
  <2>3. ASSUME NEW k \in Locks, ~ Waiting(t, k)
        PROVE  \A i \in 1..Len(queue[k]) : queue[k][i] \in Users \ {t}
    BY <2>3 DEF Waiting, QueueInv
  <2>4. CASE ~ Waiting(t, l)
    <3>1. \A k \in Locks : \A i \in 1..Len(queue[k]) : queue[k][i] \in Users \ {t}
      BY <2>2, <2>3, <2>4
    <3> QED BY <1>2, <2>1, <2>4, <3>1 DEF QueueInv
  <2>5. CASE Waiting(t, l)
    <3>1. queue'[l] = Tail(queue[l]) /\ (\A k \in Locks \ {l} : queue'[k] = queue[k])
          /\ DOMAIN queue' = Locks
      BY <2>1, <2>5
    <3>2. queue[l] \in Seq(Users) /\ queue[l] # <<>>
      <4>1. queue[l] \in Seq(Users)
        BY <2>1 DEF QueueInv
      <4>2. Len(queue[l]) # 0
        BY <2>5, <4>1 DEF Waiting
      <4> QED BY <4>1, <4>2
    <3>3. /\ Tail(queue[l]) \in Seq(Users) /\ Len(Tail(queue[l])) = Len(queue[l]) - 1
          /\ \A i \in 1..(Len(queue[l]) - 1) : Tail(queue[l])[i] = queue[l][i + 1]
          /\ Head(queue[l]) = queue[l][1] /\ Len(queue[l]) \in Nat \ {0}
      BY <3>2
    <3> DEFINE n == Len(queue[l])
               new == Tail(queue[l])
    <3>4. queue[l][1] = t
      BY <2>1, <3>2, <3>3
    <3>5. /\ \A i \in 1..n : place[queue[l][i]] \in DOMAIN Wants /\ Wants[place[queue[l][i]]].lock = l
          /\ \A i, j \in 1..n : queue[l][i] = queue[l][j] => i = j
          /\ \A i \in 1..n : queue[l][i] \in Users
      BY <2>1 DEF QueueInv
    <3>6. \A i \in 1..(n - 1) : i + 1 \in 1..n /\ 1 \in 1..n /\ i + 1 # 1
      BY <3>3
    <3>7. \A i \in 1..(n - 1) : /\ new[i] \in Users \ {t}
                                /\ place[new[i]] \in DOMAIN Wants /\ Wants[place[new[i]]].lock = l
      BY <3>3, <3>4, <3>5, <3>6
    <3>8. \A i, j \in 1..(n - 1) : new[i] = new[j] => i = j
      <4> SUFFICES ASSUME NEW i \in 1..(n - 1), NEW j \in 1..(n - 1), new[i] = new[j] PROVE i = j
        OBVIOUS
      <4>1. queue[l][i + 1] = queue[l][j + 1]
        BY <3>3
      <4>2. i + 1 = j + 1
        BY <4>1, <3>5, <3>6
      <4> QED BY <4>2, <3>3
    <3>9. Len(new) = n - 1 /\ new \in Seq(Users)
      BY <3>3
    <3> HIDE DEF n, new
    <3>10. \A k \in Locks \ {l} : \A i \in 1..Len(queue[k]) : queue[k][i] \in Users \ {t}
      BY <2>2, <2>3
    <3>11. queue'[l] = new
      BY <3>1 DEF new
    <3>12. ASSUME NEW k \in Locks
           PROVE  /\ queue'[k] \in Seq(Users)
                  /\ \A i \in 1..Len(queue'[k]) : /\ place'[queue'[k][i]] \in DOMAIN Wants
                                                  /\ Wants[place'[queue'[k][i]]].lock = k
                  /\ \A i, j \in 1..Len(queue'[k]) : queue'[k][i] = queue'[k][j] => i = j
      <4>1. CASE k = l
        BY <1>2, <3>7, <3>8, <3>9, <3>11, <4>1
      <4>2. CASE k # l
        BY <1>2, <3>1, <3>10, <4>2 DEF QueueInv
      <4> QED BY <4>1, <4>2
    <3> QED BY <3>1, <3>12 DEF QueueInv
  <2> QED BY <2>4, <2>5
<1> QED BY <1>3, <1>4, <1>5, QueueFrame

LEMMA LetGoIs ==
    ASSUME NEW t \in Users, NEW ls, LetGo(t, ls), NEW l \in Locks
    PROVE  t \in held'[l] <=> t \in held[l] /\ l \notin ls
BY DEF LetGo

LEMMA KeepIs ==
    ASSUME RegistryTypes, NEW t \in Users, NEW k \in Locks, Keep(t, k), NEW l \in Locks
    PROVE  t \in held'[l] <=> t \in held[l] \/ l = k
BY DEF Keep, RegistryTypes

LEMMA LocksAre == Locks = {"commands", "aliases", "categories", "thesaurus", "index"}
BY DEF Locks

\* A task that keeps nothing keeps what it should.
LEMMA KeepsNothing ==
    ASSUME NEW t \in Users, \A l \in Locks : t \notin held'[l]
    PROVE  Keeps(t)'
BY LocksAre DEF Keeps

LEMMA NextMatchKeeps ==
    ASSUME RegistryTypes, NEW t \in Users, Keeps(t), NextMatch(t), call[t].kind = "discover",
           place[t] \in {"by_name", "by_alias", "target", "related"}
    PROVE  Keeps(t)'
<1>1. CASE LetGo(t, Locks)
  <2>1. \A l \in Locks : t \notin held'[l]
    BY <1>1, LetGoIs
  <2> QED BY <2>1, KeepsNothing
<1>2. CASE place'[t] = "by_name" /\ LetGo(t, {"aliases"}) /\ UNCHANGED call
  <2>1. \A l \in Locks : t \in held'[l] <=> t \in held[l] /\ l # "aliases"
    BY <1>2, LetGoIs
  <2>2. t \notin held["commands"] /\ t \notin held["categories"] /\ t \notin held["thesaurus"]
    BY DEF Keeps, BuildPlaces
  <2> QED BY <1>2, <2>1, <2>2, LocksAre DEF Keeps
<1> QED BY <1>1, <1>2 DEF NextMatch, GotoLock, RegistryTypes

LEMMA ResolvedKeeps ==
    ASSUME RegistryTypes, NEW t \in Users, NEW d, Keeps(t), Resolved(t, d),
           place[t] \in {"by_name", "by_alias", "target"}
    PROVE  Keeps(t)'
<1>1. t \notin held["commands"] /\ t \notin held["categories"] /\ t \notin held["thesaurus"]
  BY DEF Keeps, BuildPlaces
<1>2. CASE LetGo(t, Locks)
  <2>1. \A l \in Locks : t \notin held'[l]
    BY <1>2, LetGoIs
  <2> QED BY <2>1, KeepsNothing
<1>3. CASE call[t].kind = "analyze" /\ LetGo(t, {"aliases"})
  <2>1. t \notin held["index"]
    BY <1>3 DEF Keeps
  <2>2. \A l \in Locks : t \in held'[l] <=> t \in held[l] /\ l # "aliases"
    BY <1>3, LetGoIs
  <2>3. \A l \in Locks : t \notin held'[l]
    BY <1>1, <2>1, <2>2, LocksAre
  <2> QED BY <2>3, KeepsNothing
<1>4. CASE call[t].kind = "discover" /\ NextMatch(t)
  BY <1>4, NextMatchKeeps
<1>5. CASE call[t].kind = "discover" /\ place'[t] = "related" /\ LetGo(t, {"aliases"}) /\ UNCHANGED call
  <2>1. \A l \in Locks : t \in held'[l] <=> t \in held[l] /\ l # "aliases"
    BY <1>5, LetGoIs
  <2> QED BY <1>1, <1>5, <2>1, LocksAre DEF Keeps
<1> QED BY <1>2, <1>3, <1>4, <1>5 DEF Resolved, GotoLock, RegistryTypes

\* A task that uses the index discovers commands.
Discovers(t) == place[t] \in {"probe_index", "search", "related"} => call[t].kind = "discover"

LEMMA DiscoverStep ==
    ASSUME RegistryTypes, NEW t \in Users, Begin(t) \/ Step(t), \A u \in Users : Discovers(u)
    PROVE  \A u \in Users : Discovers(u)'
<1>1. ASSUME NEW u \in Users \ {t} PROVE Discovers(u)'
  BY OthersDoStay DEF OthersStay, Discovers
<1> SUFFICES Discovers(t)'
  BY <1>1
<1>2. CASE Begin(t)
  <2>1. PICK k \in Kinds[t], w \in Words, d \in Definitions :
             /\ call' = [call EXCEPT ![t] = [kind |-> k, word |-> w, def |-> d]]
             /\ place' = [place EXCEPT ![t] = FirstStep[k]]
    BY <1>2 DEF Begin, GotoLock
  <2>2. k \in {"register", "load", "reload", "resolve", "stats", "build", "discover", "analyze"}
    BY RegistryAssumption
  <2>3. FirstStep[k] \in {"probe_index", "search", "related"} => k = "discover"
    BY <2>2 DEF FirstStep
  <2>4. place'[t] = FirstStep[k] /\ call'[t].kind = k
    BY <2>1 DEF RegistryTypes
  <2> QED BY <2>3, <2>4 DEF Discovers
<1>3. CASE Wait(t)
  BY <1>3 DEF Wait, locals, Discovers
<1>4. CASE ChangeStep(t)
  <2>1. \E p \in ChangePlaces \cup {"idle"} : place' = [place EXCEPT ![t] = p]
    BY <1>4 DEF ChangeStep, RegCheck, RegInsert, RegAlias, RegCategory, Parse, ClearCommands,
                ClearAliases, ClearCategories, Registers, Return, GotoLock, ChangePlaces, RegPlaces
  <2> QED BY <2>1 DEF RegistryTypes, ChangePlaces, RegPlaces, Discovers
<1>5. CASE LookStep(t)
  <2>1. CASE ByName(t) \/ ByAlias(t) \/ Target(t) \/ Related(t)
    BY <2>1 DEF ByName, ByAlias, Target, Related, Resolved, NextMatch, Return, GotoLock, RegistryTypes, Discovers
  <2>2. CASE ProbeIndex(t) \/ BuildIndex(t)
    BY <2>2 DEF ProbeIndex, Probe, BuildIndex, Enter, locals, Return, GotoLock, RegistryTypes, Discovers
  <2>3. CASE \/ StatsCommands(t) \/ StatsAliases(t) \/ StatsCategories(t) \/ BuildRead(t)
             \/ BuildThesaurus(t) \/ ProbeThesaurus(t) \/ Search(t) \/ Match(t)
    BY <2>3 DEF StatsCommands, StatsAliases, StatsCategories, BuildRead, BuildThesaurus, ProbeThesaurus,
                Probe, Search, Match, Return, GotoLock, RegistryTypes, Discovers
  <2> QED BY <1>5, <2>1, <2>2, <2>3 DEF LookStep
<1> QED BY <1>2, <1>3, <1>4, <1>5 DEF Step, LookStep, ChangeStep

LEMMA KeepsStep ==
    ASSUME RegistryTypes, NEW t \in Users, Begin(t) \/ Step(t),
           \A u \in Users : Keeps(u) /\ Discovers(u)
    PROVE  \A u \in Users : Keeps(u)'
<1>1. ASSUME NEW u \in Users \ {t} PROVE Keeps(u)'
  BY OthersDoStay, LocksAre DEF OthersStay, Keeps
<1> SUFFICES Keeps(t)'
  BY <1>1
<1>2. ASSUME place[t] \notin {"stats_aliases", "stats_categories", "target", "by_name", "by_alias",
                              "related"} \cup BuildPlaces, UNCHANGED held
      PROVE  Keeps(t)'
  <2>1. Keeps(t)
    OBVIOUS
  <2>2. \A l \in Locks : t \notin held'[l]
    BY <1>2, <2>1, LocksAre DEF Keeps
  <2> QED BY <2>2, KeepsNothing
<1>3. CASE Begin(t) \/ Wait(t) \/ ChangeStep(t)
  <2>1. CASE Wait(t)
    BY <2>1 DEF Wait, Keeps, locals
  <2>2. CASE Begin(t) \/ ChangeStep(t)
    <3>1. place[t] \in ChangePlaces \cup {"idle"} /\ UNCHANGED held
      BY <2>2 DEF Begin, ChangeStep, RegCheck, RegInsert, RegAlias, RegCategory, Parse, ClearCommands,
                  ClearAliases, ClearCategories, Enter, ChangePlaces, RegPlaces
    <3> QED BY <1>2, <3>1 DEF ChangePlaces, RegPlaces, BuildPlaces
  <2> QED BY <1>3, <2>1, <2>2
<1>4. CASE ProbeIndex(t) \/ ProbeThesaurus(t) \/ Match(t)
  BY <1>2, <1>4 DEF ProbeIndex, ProbeThesaurus, Probe, Match, Enter, BuildPlaces
<1>5. CASE ByName(t) \/ ByAlias(t) \/ Target(t)
  <2>1. place[t] \in {"by_name", "by_alias", "target"}
    BY <1>5 DEF ByName, ByAlias, Target, Enter
  <2>2. CASE \E d : Resolved(t, d)
    BY <2>1, <2>2, ResolvedKeeps
  <2>3. CASE place[t] = "by_name" /\ place'[t] = "by_alias" /\ UNCHANGED <<held, call>>
    BY <2>3, LocksAre DEF Keeps, BuildPlaces
  <2>4. CASE place[t] = "by_alias" /\ place'[t] = "target" /\ Keep(t, "aliases") /\ UNCHANGED call
    <3>1. \A l \in Locks : t \in held'[l] <=> t \in held[l] \/ l = "aliases"
      BY <2>4, LocksAre, KeepIs
    <3> QED BY <2>4, <3>1, LocksAre DEF Keeps, BuildPlaces
  <2> QED BY <1>5, <2>2, <2>3, <2>4 DEF ByName, ByAlias, Target, Enter, GotoLock, RegistryTypes
<1>6. CASE StatsCommands(t) \/ StatsAliases(t)
  <2>1. CASE place[t] = "stats_commands" /\ place'[t] = "stats_aliases" /\ Keep(t, "commands")
    <3>1. \A l \in Locks : t \in held'[l] <=> t \in held[l] \/ l = "commands"
      BY <2>1, LocksAre, KeepIs
    <3> QED BY <2>1, <3>1, LocksAre DEF Keeps, BuildPlaces
  <2>2. CASE place[t] = "stats_aliases" /\ place'[t] = "stats_categories" /\ Keep(t, "aliases")
    <3>1. \A l \in Locks : t \in held'[l] <=> t \in held[l] \/ l = "aliases"
      BY <2>2, LocksAre, KeepIs
    <3> QED BY <2>2, <3>1, LocksAre DEF Keeps, BuildPlaces
  <2> QED BY <1>6, <2>1, <2>2 DEF StatsCommands, StatsAliases, Enter, GotoLock, RegistryTypes
<1>7. CASE StatsCategories(t)
  <2>1. \A l \in Locks : t \notin held'[l]
    BY <1>7, LetGoIs DEF StatsCategories
  <2> QED BY <2>1, KeepsNothing
<1>8. CASE BuildRead(t)
  <2>1. CASE UNCHANGED held
    BY <1>2, <1>8, <2>1 DEF BuildRead, Enter, BuildPlaces
  <2>2. CASE place'[t] = "build_thesaurus" /\ Keep(t, "commands")
    <3>1. \A l \in Locks : t \in held'[l] <=> t \in held[l] \/ l = "commands"
      BY <2>2, LocksAre, KeepIs
    <3>2. place[t] = "build_read"
      BY <1>8 DEF BuildRead, Enter
    <3> QED BY <2>2, <3>1, <3>2, LocksAre DEF Keeps, BuildPlaces
  <2> QED BY <1>8, <2>1, <2>2 DEF BuildRead, GotoLock, RegistryTypes
<1>9. CASE BuildThesaurus(t)
  <2>1. place[t] = "build_thesaurus" /\ place'[t] = "build_index" /\ UNCHANGED held
    BY <1>9 DEF BuildThesaurus, Enter, GotoLock, RegistryTypes
  <2> QED BY <2>1, LocksAre DEF Keeps, BuildPlaces
<1>10. CASE BuildIndex(t)
  <2>1. place[t] = "build_index" /\ \A l \in Locks : t \in held'[l] <=> t \in held[l] /\ l # "commands"
    BY <1>10, LetGoIs DEF BuildIndex, Enter
  <2>2. \A l \in Locks : t \notin held'[l]
    BY <2>1, LocksAre DEF Keeps
  <2> QED BY <2>2, KeepsNothing
<1>11. CASE Search(t)
  <2>1. place[t] = "search"
    BY <1>11 DEF Search, Enter
  <2>2. CASE UNCHANGED held
    BY <1>2, <2>1, <2>2 DEF BuildPlaces
  <2>3. CASE place'[t] = "by_name" /\ Keep(t, "index") /\ UNCHANGED call
    <3>1. \A l \in Locks : t \in held'[l] <=> t \in held[l] \/ l = "index"
      BY <2>3, LocksAre, KeepIs
    <3>2. call[t].kind = "discover"
      BY <2>1 DEF Discovers
    <3> QED BY <2>1, <2>3, <3>1, <3>2, LocksAre DEF Keeps, BuildPlaces
  <2> QED BY <1>11, <2>2, <2>3 DEF Search, GotoLock, RegistryTypes
<1>12. CASE Related(t)
  <2>1. place[t] = "related" /\ NextMatch(t)
    BY <1>12 DEF Related, Enter
  <2>2. call[t].kind = "discover"
    BY <2>1 DEF Discovers
  <2> QED BY <2>1, <2>2, NextMatchKeeps
<1> QED BY <1>3, <1>4, <1>5, <1>6, <1>7, <1>8, <1>9, <1>10, <1>11, <1>12 DEF Step, ChangeStep

\* The locks, what the tasks keep of them, and the index that a discovery uses.
LockInv == DOMAIN queue = Locks /\ QueueInv /\ \A t \in Users : Keeps(t) /\ Discovers(t)

LEMMA LockInvariance == RegistrySpec => []LockInv
<1>1. RegistryInit => LockInv
  <2> SUFFICES ASSUME RegistryInit PROVE LockInv
    OBVIOUS
  <2>1. /\ DOMAIN queue = Locks /\ \A l \in Locks : queue[l] = <<>> /\ held[l] = {}
        /\ \A t \in Users : place[t] = "idle"
    BY DEF RegistryInit
  <2>2. QueueInv
    <3>1. << >> \in Seq(Users) /\ Len(<< >>) = 0
      OBVIOUS
    <3>2. ASSUME NEW l \in Locks PROVE queue[l] \in Seq(Users) /\ \A i \in 1..Len(queue[l]) : FALSE
      <4>1. queue[l] = << >>
        BY <2>1
      <4>2. Len(queue[l]) = 0
        BY <3>1, <4>1
      <4>3. \A i \in 1..0 : FALSE
        OBVIOUS
      <4> QED BY <3>1, <4>1, <4>2, <4>3
    <3> QED BY <3>2 DEF QueueInv
  <2> QED BY <2>1, <2>2, LocksAre DEF LockInv, Keeps, Discovers
<1>2. RegistryInv /\ LockInv /\ [RegistryNext]_registryVars => LockInv'
  <2> SUFFICES ASSUME RegistryInv, LockInv, [RegistryNext]_registryVars PROVE LockInv'
    OBVIOUS
  <2>1. CASE UNCHANGED registryVars
    BY <2>1 DEF LockInv, QueueInv, Keeps, Discovers, registryVars
  <2>2. ASSUME NEW t \in Users, Begin(t) \/ Step(t) PROVE LockInv'
    BY <2>2, QueueStep, KeepsStep, DiscoverStep DEF LockInv, RegistryInv
  <2> QED BY <2>1, <2>2 DEF RegistryNext
<1> QED BY <1>1, <1>2, RegistryInvariance, PTL DEF RegistrySpec

\* What was built are names, and the index and the thesaurus are nothing else.
BuiltTypes == thesaurus \in Snapshots \cup {NoDef} /\ index \in Snapshots \cup {NoDef}

LEMMA BuiltTypeStep ==
    ASSUME RegistryInv, BuiltTypes, NEW t \in Users, Begin(t) \/ Step(t)
    PROVE  BuiltTypes'
<1>1. ASSUME place[t] \in BuildPlaces PROVE snap[t] \in Snapshots
  <2>1. snap[t] = Registered /\ Registered \subseteq Words
    BY <1>1 DEF RegistryInv, BuildInv, Registered
  <2> QED BY <2>1 DEF Snapshots
<1>2. CASE BuildThesaurus(t)
  <2>1. place[t] \in BuildPlaces
    BY <1>2 DEF BuildThesaurus, Enter, BuildPlaces
  <2> QED BY <1>1, <1>2, <2>1 DEF BuildThesaurus, BuiltTypes
<1>3. CASE BuildIndex(t)
  <2>1. place[t] \in BuildPlaces
    BY <1>3 DEF BuildIndex, Enter, BuildPlaces
  <2> QED BY <1>1, <1>3, <2>1 DEF BuildIndex, BuiltTypes
<1> QED BY <1>2, <1>3, BuiltFrame DEF BuiltTypes

\* The types of the maps, of the index and of the locks with their queues.
THEOREM RegistryTypeCorrect == RegistrySpec => []RegistryTypeOK
<1>1. RegistryInit => BuiltTypes
  BY DEF RegistryInit, BuiltTypes
<1>2. RegistryInv /\ BuiltTypes /\ [RegistryNext]_registryVars => BuiltTypes'
  <2>1. ASSUME BuiltTypes, UNCHANGED registryVars PROVE BuiltTypes'
    BY <2>1 DEF BuiltTypes, registryVars, built
  <2> QED BY <2>1, BuiltTypeStep DEF RegistryNext
<1>3. RegistryInv /\ LockInv /\ BuiltTypes => RegistryTypeOK
  <2>1. DOMAIN Wants \cup {"idle", "parse"} = ChangePlaces \cup BuildPlaces \cup LookPlaces \cup {"idle"}
    BY DEF Wants, ChangePlaces, RegPlaces, BuildPlaces, LookPlaces
  <2> QED BY <2>1 DEF RegistryInv, RegistryTypes, LockInv, QueueInv, BuiltTypes, RegistryTypeOK
<1> QED BY <1>1, <1>2, <1>3, RegistryInvariance, LockInvariance, PTL DEF RegistrySpec

\* A set of tasks that wait for each other.
Closed(D) == D \subseteq Users /\ \A t \in D : \E u \in D : WaitsFor(t, u)

\* The first task of such a set in a queue wants to write, and one of the set keeps the lock.
LEMMA FirstWrites ==
    ASSUME LockInv, NEW D, Closed(D), NEW t \in D, NEW l \in Locks, Waiting(t, l)
    PROVE  (\E w \in D : Writing(w, l)) /\ (\E u \in D : u \in held[l])
<1> DEFINE I == {i \in 1..Len(queue[l]) : queue[l][i] \in D}
<1>1. queue[l] \in Seq(Users) /\ Len(queue[l]) \in Nat
  BY DEF LockInv, QueueInv
<1>2. I \subseteq Nat /\ I # {}
  BY <1>1 DEF Waiting
<1>3. PICK i \in I : \A j \in I : ~ (<<j, i>> \in OpToRel(<, Nat))
  BY <1>2, NatLessThanWellFounded, WFMin
<1>4. \A j \in I : ~ (j < i)
  BY <1>2, <1>3 DEF OpToRel
<1> DEFINE w == queue[l][i]
<1>5. w \in D /\ w \in Users /\ i \in 1..Len(queue[l])
  BY DEF Closed
<1>6. PICK u \in D : WaitsFor(w, u)
  BY <1>5 DEF Closed
<1>k. PICK k \in Locks : \E n \in 1..Len(queue[k]) :
        /\ queue[k][n] = w
        /\ \/ Wants[place[w]].write /\ u \in held[k]
           \/ \E j \in 1..(n - 1) : queue[k][j] = u
  BY <1>6 DEF WaitsFor
<1>7. PICK n \in 1..Len(queue[k]) :
        /\ queue[k][n] = w
        /\ \/ Wants[place[w]].write /\ u \in held[k]
           \/ \E j \in 1..(n - 1) : queue[k][j] = u
  BY <1>k
<1>8. k = l
  BY <1>5, <1>7 DEF LockInv, QueueInv
<1>9. n = i
  BY <1>5, <1>7, <1>8 DEF LockInv, QueueInv
<1>10. ~ (\E j \in 1..(n - 1) : queue[k][j] = u)
  <2> SUFFICES ASSUME NEW j \in 1..(i - 1), queue[l][j] = u PROVE FALSE
    BY <1>8, <1>9
  <2>1. j \in 1..Len(queue[l]) /\ j < i
    BY <1>1, <1>5
  <2>2. j \in I
    BY <2>1
  <2> QED BY <1>4, <2>1, <2>2
<1>11. Wants[place[w]].write /\ u \in held[l]
  BY <1>7, <1>8, <1>10
<1>12. Waiting(w, l)
  BY <1>5 DEF Waiting
<1> QED BY <1>5, <1>11, <1>12 DEF Writing

\* A task that waits, waits for the lock of its place.
LEMMA WaitsAt ==
    ASSUME LockInv, NEW D, Closed(D), NEW t \in D
    PROVE  place[t] \in DOMAIN Wants /\ Waiting(t, Wants[place[t]].lock) /\ Wants[place[t]].lock \in Locks
<1>1. PICK u \in D : WaitsFor(t, u)
  BY DEF Closed
<1>2. PICK l \in Locks : Waiting(t, l)
  BY <1>1 DEF WaitsFor, Waiting
<1>3. t \in Users
  BY DEF Closed
<1> QED BY <1>2, <1>3, NotElsewhere DEF LockInv

LEMMA LockOf ==
    /\ Wants["build_index"].lock = "index" /\ Wants["build_thesaurus"].lock = "thesaurus"
    /\ Wants["stats_aliases"].lock = "aliases" /\ Wants["stats_categories"].lock = "categories"
    /\ Wants["by_name"].lock = "commands" /\ Wants["target"].lock = "commands"
    /\ Wants["related"].lock = "commands" /\ Wants["by_alias"].lock = "aliases"
BY DEF Wants, Lock

\* Whoever keeps a lock while it waits in such a set.
LEMMA KeeperWaits ==
    ASSUME LockInv, NEW D, Closed(D), NEW u \in D
    PROVE  /\ u \notin held["categories"] /\ u \notin held["thesaurus"]
           /\ u \in held["commands"] =>
                 \/ place[u] = "stats_aliases" /\ Waiting(u, "aliases")
                 \/ place[u] = "build_index" /\ Waiting(u, "index")
           /\ u \in held["aliases"] => place[u] = "target" /\ Waiting(u, "commands")
           /\ u \in held["index"] =>
                 \/ place[u] = "by_alias" /\ Waiting(u, "aliases")
                 \/ place[u] \in {"by_name", "target", "related"} /\ Waiting(u, "commands")
<1>1. u \in Users /\ Keeps(u)
  BY DEF Closed, LockInv
<1>2. \A v \in D : v \notin held["categories"] /\ v \notin held["thesaurus"]
  BY DEF Closed, LockInv, Keeps
<1>3. ~ Waiting(u, "categories") /\ ~ Waiting(u, "thesaurus")
  BY <1>2, FirstWrites, LocksAre
<1>4. place[u] # "stats_categories" /\ place[u] # "build_thesaurus"
  BY <1>3, WaitsAt, LockOf
<1>5. Waiting(u, Wants[place[u]].lock)
  BY WaitsAt
<1>6. u \in held["commands"] =>
         \/ place[u] = "stats_aliases" /\ Waiting(u, "aliases")
         \/ place[u] = "build_index" /\ Waiting(u, "index")
  BY <1>1, <1>4, <1>5, LockOf DEF Keeps, BuildPlaces
<1>7. u \in held["aliases"] => place[u] = "target" /\ Waiting(u, "commands")
  BY <1>1, <1>4, <1>5, LockOf DEF Keeps
<1>8. u \in held["index"] =>
         \/ place[u] = "by_alias" /\ Waiting(u, "aliases")
         \/ place[u] \in {"by_name", "target", "related"} /\ Waiting(u, "commands")
  BY <1>1, <1>5, LockOf DEF Keeps
<1> QED BY <1>2, <1>6, <1>7, <1>8

\* Somebody who follows an alias waits for the commands when somebody waits for the aliases.
LEMMA AliasesWait ==
    ASSUME LockInv, NEW D, Closed(D), NEW t \in D, Waiting(t, "aliases")
    PROVE  \E r, v \in D : /\ r \in held["aliases"] /\ place[r] = "target" /\ Waiting(r, "commands")
                           /\ Writing(v, "aliases")
<1>1. PICK r \in D, v \in D : r \in held["aliases"] /\ Writing(v, "aliases")
  BY FirstWrites, LocksAre
<1> QED BY <1>1, KeeperWaits

\* However many tasks share the registry: those that wait for each other for ever are an index
\* build or statistics that keep the commands, a change of the commands behind them, and, behind
\* that, a discovery that keeps the index or a call that keeps the aliases.
THEOREM DeadlocksAreUpgrades == RegistrySpec => []DeadlockOnlyByUpgrade
<1>1. LockInv => DeadlockOnlyByUpgrade
  <2> SUFFICES ASSUME LockInv, Deadlocked # {}
               PROVE  \E b, r, w \in Deadlocked :
                 /\ "commands" \in Holding(b) /\ Writing(w, "commands")
                 /\ place[r] \in {"by_name", "target", "related"} /\ Waiting(r, "commands")
                 /\ \/ place[b] = "build_index" /\ "index" \in Holding(r)
                    \/ /\ "aliases" \in Holding(r) /\ \E v \in Deadlocked : Writing(v, "aliases")
                       /\ \/ place[b] = "stats_aliases"
                          \/ /\ place[b] = "build_index"
                             /\ \E d \in Deadlocked : place[d] = "by_alias" /\ "index" \in Holding(d)
    BY DEF DeadlockOnlyByUpgrade
  <2> DEFINE waits == {x \in Users \X Users : WaitsFor(x[1], x[2])}
  <2>1. PICK D \in SUBSET {x[1] : x \in waits} :
          (\A t \in D : \E u \in D : <<t, u>> \in waits) /\ D # {}
    BY DEF Deadlocked
  <2>2. D \subseteq Deadlocked
    BY <2>1 DEF Deadlocked
  <2>3. Closed(D)
    <3>1. D \subseteq Users
      BY <2>1
    <3>2. ASSUME NEW t \in D PROVE \E u \in D : WaitsFor(t, u)
      BY <2>1
    <3> QED BY <3>1, <3>2 DEF Closed
  <2>4. \A t \in D, l \in Locks : l \in Holding(t) <=> t \in held[l]
    BY DEF Holding
  <2>5. \E t \in D : Waiting(t, "commands")
    <3>1. PICK t \in D : TRUE
      BY <2>1
    <3>2. PICK l \in Locks, u \in D : u \in held[l]
      BY <2>3, <3>1, WaitsAt, FirstWrites
    <3>3. Waiting(u, "commands") \/ Waiting(u, "aliases") \/ Waiting(u, "index")
      BY <2>3, <3>2, KeeperWaits, LocksAre
    <3>4. (\E x \in D : Waiting(x, "index")) =>
             \E x \in D : Waiting(x, "commands") \/ Waiting(x, "aliases")
      BY <2>3, FirstWrites, KeeperWaits, LocksAre
    <3>5. (\E x \in D : Waiting(x, "aliases")) => \E x \in D : Waiting(x, "commands")
      BY <2>3, AliasesWait
    <3> QED BY <3>3, <3>4, <3>5
  <2>6. PICK b \in D, w \in D : b \in held["commands"] /\ Writing(w, "commands")
    BY <2>3, <2>5, FirstWrites, LocksAre
  <2>7. CASE place[b] = "stats_aliases" /\ Waiting(b, "aliases")
    <3>1. PICK r \in D, v \in D : /\ r \in held["aliases"] /\ place[r] = "target"
                                  /\ Waiting(r, "commands") /\ Writing(v, "aliases")
      BY <2>3, <2>7, AliasesWait
    <3> QED BY <2>2, <2>4, <2>6, <2>7, <3>1, LocksAre
  <2>8. CASE place[b] = "build_index" /\ Waiting(b, "index")
    <3>1. PICK d \in D : d \in held["index"]
      BY <2>3, <2>8, FirstWrites, LocksAre
    <3>2. CASE place[d] \in {"by_name", "target", "related"} /\ Waiting(d, "commands")
      BY <2>2, <2>4, <2>6, <2>8, <3>1, <3>2, LocksAre
    <3>3. CASE place[d] = "by_alias" /\ Waiting(d, "aliases")
      <4>1. PICK r \in D, v \in D : /\ r \in held["aliases"] /\ place[r] = "target"
                                    /\ Waiting(r, "commands") /\ Writing(v, "aliases")
        BY <2>3, <3>3, AliasesWait
      <4> QED BY <2>2, <2>4, <2>6, <2>8, <3>1, <3>3, <4>1, LocksAre
    <3> QED BY <2>3, <3>1, <3>2, <3>3, KeeperWaits
  <2> QED BY <2>3, <2>6, <2>7, <2>8, KeeperWaits
<1> QED BY <1>1, LockInvariance, PTL



-----------------------------------------------------------------------------
(* The execution of a markdown command.                                     *)

Hook == [name : STRING, priority : Int]

LEMMA PrioritiesAre ==
    ASSUME NEW hooks \in Seq(Hook)
    PROVE  \A i \in 1..Len(hooks) : hooks[i].priority \in Int
<1>1. \A h \in Hook : h.priority \in Int
  BY DEF Hook
<1>2. \A i \in 1..Len(hooks) : hooks[i] \in Hook
  OBVIOUS
<1> QED BY <1>1, <1>2

LEMMA AheadIs ==
    ASSUME NEW hooks \in Seq(Hook), NEW i \in 1..Len(hooks)
    PROVE  /\ IsFiniteSet(Ahead(hooks, i)) /\ i \in Ahead(hooks, i)
           /\ Cardinality(Ahead(hooks, i)) \in 1..Len(hooks)
<1> DEFINE A == Ahead(hooks, i)
           n == Len(hooks)
<1>1. n \in Nat
  OBVIOUS
<1>2. A \in SUBSET (1..n) /\ i \in A /\ i \in 1..n
  BY PrioritiesAre DEF Ahead
<1> HIDE DEF A, n
<1>3. IsFiniteSet(1..n) /\ Cardinality(1..n) = n
  BY <1>1, FS_Interval
<1>4. IsFiniteSet(A) /\ Cardinality(A) <= n /\ Cardinality(A) \in Nat
  BY <1>2, <1>3, FS_Subset, FS_CardinalityType
<1>5. Cardinality(A) # 0
  BY <1>2, <1>4, FS_EmptySet
<1> QED BY <1>1, <1>2, <1>4, <1>5 DEF A, n

\* Of two hooks the one of higher priority, or added first, has fewer ahead.
LEMMA FewerAhead ==
    ASSUME NEW hooks \in Seq(Hook), NEW i \in 1..Len(hooks), NEW k \in 1..Len(hooks),
           \/ hooks[i].priority > hooks[k].priority
           \/ hooks[i].priority = hooks[k].priority /\ i < k
    PROVE  Cardinality(Ahead(hooks, i)) < Cardinality(Ahead(hooks, k))
<1> DEFINE FirstOnes == Ahead(hooks, i)
           NextOnes  == Ahead(hooks, k)
<1>1. \A j \in 1..Len(hooks) : hooks[j].priority \in Int
  BY PrioritiesAre
<1>2. FirstOnes \subseteq NextOnes /\ k \notin FirstOnes
  BY <1>1 DEF Ahead
<1>3. /\ IsFiniteSet(FirstOnes) /\ IsFiniteSet(NextOnes) /\ k \in NextOnes
      /\ Cardinality(FirstOnes) \in Nat /\ Cardinality(NextOnes) \in Nat
  BY AheadIs, FS_CardinalityType
<1> HIDE DEF FirstOnes, NextOnes
<1>4. /\ Cardinality(FirstOnes) <= Cardinality(NextOnes)
      /\ Cardinality(NextOnes) # Cardinality(FirstOnes)
  BY <1>2, <1>3, FS_Subset
<1>5. Cardinality(FirstOnes) < Cardinality(NextOnes)
  BY <1>3, <1>4
<1> QED BY <1>5 DEF FirstOnes, NextOnes

\* The sorted hooks: each hook has a place, and each place a hook.
LEMMA SortedIs ==
    ASSUME NEW hooks \in Seq(Hook)
    PROVE  /\ Len(Sorted(hooks)) = Len(hooks) /\ Sorted(hooks) \in Seq(Hook)
           /\ \A n \in 1..Len(hooks) : \E i \in 1..Len(hooks) :
                 Sorted(hooks)[n] = hooks[i] /\ Cardinality(Ahead(hooks, i)) = n
           /\ \A i \in 1..Len(hooks) : \E n \in 1..Len(hooks) : Sorted(hooks)[n] = hooks[i]
<1> DEFINE D == 1..Len(hooks)
           f == [i \in D |-> Cardinality(Ahead(hooks, i))]
<1>l. Len(hooks) \in Nat
  OBVIOUS
<1>1. f \in [D -> D]
  BY AheadIs
<1>2. \A i, k \in D : f[i] = f[k] => i = k
  <2> SUFFICES ASSUME NEW i \in D, NEW k \in D, i # k PROVE f[i] # f[k]
    OBVIOUS
  <2>1. hooks[i].priority \in Int /\ hooks[k].priority \in Int
    BY PrioritiesAre
  <2>2. f[i] < f[k] \/ f[k] < f[i]
    BY <2>1, FewerAhead
  <2>3. f[i] \in Int /\ f[k] \in Int
    BY <1>1
  <2> QED BY <2>2, <2>3
<1>3. \A n \in D : \E i \in D : f[i] = n
  <2> HIDE DEF f
  <2>1. f \in Injection(D, D)
    BY <1>1, <1>2 DEF Injection, IsInjective
  <2>2. IsFiniteSet(D)
    BY <1>l, FS_Interval
  <2> HIDE DEF D
  <2>3. f \in Surjection(D, D)
    BY <2>1, <2>2, FS_Injection
  <2> QED BY <2>3 DEF Surjection
<1>4. \A n \in D : LET i == CHOOSE i \in D : Cardinality(Ahead(hooks, i)) = n
                   IN  i \in D /\ Cardinality(Ahead(hooks, i)) = n /\ Sorted(hooks)[n] = hooks[i]
  BY <1>3 DEF Sorted
<1>5. \A n \in D : \E i \in D : Sorted(hooks)[n] = hooks[i] /\ Cardinality(Ahead(hooks, i)) = n
  BY <1>4
<1>6. \A i \in D : \E n \in D : Sorted(hooks)[n] = hooks[i]
  <2> TAKE i \in D
  <2>1. f[i] \in D
    BY <1>1
  <2>2. PICK k \in D : Sorted(hooks)[f[i]] = hooks[k] /\ Cardinality(Ahead(hooks, k)) = f[i]
    BY <1>5, <2>1
  <2>3. k = i
    BY <1>2, <2>2
  <2> QED BY <2>1, <2>2, <2>3
<1>7. Sorted(hooks) \in [D -> Hook]
  <2>1. \A n \in D : Sorted(hooks)[n] \in Hook
    BY <1>5
  <2> QED BY <2>1 DEF Sorted
<1>8. Sorted(hooks) \in Seq(Hook) /\ Len(Sorted(hooks)) = Len(hooks)
  <2> DEFINE s == Sorted(hooks)
  <2> HIDE DEF s
  <2>1. s \in [1..Len(hooks) -> Hook]
    BY <1>7 DEF s
  <2>2. s \in Seq(Hook) /\ Len(s) = Len(hooks)
    BY <1>l, <2>1
  <2> QED BY <2>2 DEF s
<1> QED BY <1>5, <1>6, <1>8

LEMMA SortedHooks ==
    ASSUME NEW hooks \in Seq(Hook), NEW list \in Seq(Hook), Len(list) = Len(hooks),
           \A n \in 1..Len(hooks) : list[n] = Sorted(hooks)[n]
    PROVE  /\ \A n \in 1..Len(hooks) : Sorted(hooks)[n] \in Hook
           /\ ToSet(list) = ToSet(hooks)
<1>1. \A n \in 1..Len(hooks) : list[n] \in Hook
  OBVIOUS
<1>2. DOMAIN list = 1..Len(hooks) /\ DOMAIN hooks = 1..Len(hooks)
  OBVIOUS
<1>3. \A n \in 1..Len(hooks) : \E i \in 1..Len(hooks) : list[n] = hooks[i]
  <2> TAKE n \in 1..Len(hooks)
  <2>1. PICK i \in 1..Len(hooks) : Sorted(hooks)[n] = hooks[i]
    BY SortedIs
  <2>2. list[n] = Sorted(hooks)[n]
    OBVIOUS
  <2> QED BY <2>1, <2>2
<1>4. \A i \in 1..Len(hooks) : \E n \in 1..Len(hooks) : list[n] = hooks[i]
  <2> TAKE i \in 1..Len(hooks)
  <2>1. PICK n \in 1..Len(hooks) : Sorted(hooks)[n] = hooks[i]
    BY SortedIs
  <2>2. list[n] = Sorted(hooks)[n]
    OBVIOUS
  <2> QED BY <2>1, <2>2
<1>5. ToSet(list) = ToSet(hooks)
  <2> DEFINE D == 1..Len(hooks)
  <2>1. /\ DOMAIN list = D /\ DOMAIN hooks = D
        /\ \A n \in D : \E i \in D : list[n] = hooks[i]
        /\ \A i \in D : \E n \in D : list[n] = hooks[i]
    BY <1>2, <1>3, <1>4
  <2> HIDE DEF D
  <2>2. ToSet(list) = {list[i] : i \in D} /\ ToSet(hooks) = {hooks[i] : i \in D}
    BY <2>1, Zenon DEF ToSet
  <2>3. \A x \in ToSet(list) : x \in ToSet(hooks)
    BY <2>1, <2>2
  <2>4. \A x \in ToSet(hooks) : x \in ToSet(list)
    BY <2>1, <2>2
  <2> QED BY <2>3, <2>4
<1> QED BY <1>1, <1>5

LEMMA SortedByPriority ==
    ASSUME NEW hooks \in Seq(Hook), NEW m \in 1..Len(hooks), NEW n \in 1..Len(hooks), m < n
    PROVE  Sorted(hooks)[m].priority >= Sorted(hooks)[n].priority
<1>1. PICK i \in 1..Len(hooks) : Sorted(hooks)[m] = hooks[i] /\ Cardinality(Ahead(hooks, i)) = m
  BY SortedIs
<1>2. PICK k \in 1..Len(hooks) : Sorted(hooks)[n] = hooks[k] /\ Cardinality(Ahead(hooks, k)) = n
  BY SortedIs
<1>3. hooks[i].priority \in Int /\ hooks[k].priority \in Int
  BY PrioritiesAre
<1>4. ~ hooks[k].priority > hooks[i].priority
  BY <1>1, <1>2, FewerAhead
<1> QED BY <1>1, <1>2, <1>3, <1>4


Phases == {"idle", "security", "validate", "pre", "running", "post"}
TaskStep(t) ==
    Submit(t) \/ Security(t) \/ Validate(t) \/ PreHook(t) \/ Execute(t) \/ Finish(t) \/ PostHook(t)

ExecutionTypes ==
    /\ pc \in [Tasks -> Phases] /\ ran \in [Tasks -> Seq(Hook)]
    /\ req \in [Tasks -> Requests \cup {None}]

\* Which hooks ran: none before their phase, the first of the sorted ones in it, all of them
\* when the process is started, and then what the executor asked of its command line.
Vetted(t) ==
    /\ pc[t] \in {"idle", "security", "validate"} => ran[t] = <<>>
    /\ pc[t] \in {"pre", "running"} =>
          /\ Len(ran[t]) <= Len(PreHooks)
          /\ \A i \in 1..Len(ran[t]) : ran[t][i] = Sorted(PreHooks)[i]
    /\ pc[t] = "running" =>
          /\ Len(ran[t]) = Len(PreHooks)
          /\ Has(req[t].line, "local") /\ ~ Has(req[t].line, "meta")
          /\ req[t].risk \in {"high", "critical"} => req[t].mode = "local"

VetInv == ExecutionTypes /\ \A t \in Tasks : Vetted(t)

LEMMA GotoIs ==
    ASSUME ExecutionTypes, NEW t \in Tasks, NEW p \in Phases, Goto(t, p)
    PROVE  /\ pc' = [pc EXCEPT ![t] = p]
           /\ req' \in [Tasks -> Requests \cup {None}]
           /\ \A u \in Tasks \ {t} : req'[u] = req[u]
           /\ p # "idle" => req' = req
BY DEF Goto, ExecutionTypes

\* A step of a task is about this task.
LEMMA TaskFrame ==
    ASSUME ExecutionTypes, NEW t \in Tasks, TaskStep(t)
    PROVE  /\ \E p \in Phases : pc' = [pc EXCEPT ![t] = p]
           /\ req' \in [Tasks -> Requests \cup {None}]
           /\ ran' = ran \/ \E x : ran' = [ran EXCEPT ![t] = x]
           /\ \A u \in Tasks \ {t} : req'[u] = req[u]
<1>1. CASE Submit(t)
  BY <1>1, ZenonT(40) DEF Submit, ExecutionTypes, Phases
<1>2. CASE Security(t) \/ Validate(t) \/ Execute(t) \/ Finish(t)
  <2>1. \E p \in Phases : Goto(t, p)
    BY <1>2 DEF Security, Validate, Execute, Finish, Phases
  <2>2. ran' = ran \/ \E x : ran' = [ran EXCEPT ![t] = x]
    BY <1>2 DEF Security, Validate, Execute, Finish
  <2> QED BY <2>1, <2>2, GotoIs
<1>3. CASE PreHook(t) \/ PostHook(t)
  <2>1. UNCHANGED <<pc, req>> \/ Goto(t, "idle")
    BY <1>3 DEF PreHook, PostHook, task
  <2>2. ran' = ran \/ \E x : ran' = [ran EXCEPT ![t] = x]
    BY <1>3 DEF PreHook, PostHook
  <2>3. CASE UNCHANGED <<pc, req>>
    <3>1. pc = [pc EXCEPT ![t] = pc[t]] /\ pc[t] \in Phases
      BY DEF ExecutionTypes
    <3> QED BY <2>2, <2>3, <3>1 DEF ExecutionTypes
  <2>4. CASE Goto(t, "idle")
    BY <2>2, <2>4, GotoIs DEF Phases
  <2> QED BY <2>1, <2>3, <2>4
<1> QED BY <1>1, <1>2, <1>3 DEF TaskStep

LEMMA VetStep ==
    ASSUME VetInv, NEW t \in Tasks, TaskStep(t)
    PROVE  VetInv'
<1> USE DEF VetInv
<1>e. <<>> \in Seq(Hook) /\ Len(<<>>) = 0
  OBVIOUS
<1>h. PreHooks \in Seq(Hook) /\ PostHooks \in Seq(Hook) /\ Len(PreHooks) \in Nat
  BY ExecutionAssumption DEF Hook
<1>s. /\ \A n \in 1..Len(PreHooks) : Sorted(PreHooks)[n] \in Hook
      /\ \A n \in 1..Len(PostHooks) : Sorted(PostHooks)[n] \in Hook
  BY <1>h, SortedIs, SortedHooks
<1>p. PICK p \in Phases : pc' = [pc EXCEPT ![t] = p]
  BY TaskFrame
<1>x. PICK x : ran' = ran \/ ran' = [ran EXCEPT ![t] = x]
  BY TaskFrame
<1>o. \A u \in Tasks \ {t} : Vetted(u)'
  <2> SUFFICES ASSUME NEW u \in Tasks \ {t} PROVE Vetted(u)'
    OBVIOUS
  <2>1. pc'[u] = pc[u] /\ ran'[u] = ran[u] /\ req'[u] = req[u]
    BY <1>p, <1>x, TaskFrame DEF ExecutionTypes
  <2> QED BY <2>1 DEF Vetted
<1>i. ASSUME ran'[t] \in Seq(Hook), Vetted(t)' PROVE VetInv'
  <2>1. pc' \in [Tasks -> Phases] /\ req' \in [Tasks -> Requests \cup {None}]
    BY <1>p, TaskFrame DEF ExecutionTypes
  <2>2. ran' \in [Tasks -> Seq(Hook)]
    <3>1. \A u \in Tasks \ {t} : ran'[u] = ran[u] /\ ran[u] \in Seq(Hook)
      BY <1>x DEF ExecutionTypes
    <3>2. ran' = [u \in Tasks |-> ran'[u]]
      BY <1>x DEF ExecutionTypes
    <3> QED BY <3>1, <3>2, <1>i
  <2>3. \A u \in Tasks : Vetted(u)'
    BY <1>i, <1>o
  <2> QED BY <2>1, <2>2, <2>3 DEF ExecutionTypes
<1>t. ran[t] \in Seq(Hook) /\ Vetted(t) /\ Len(ran[t]) \in Nat
  BY DEF ExecutionTypes
<1>c. ASSUME ran' = [ran EXCEPT ![t] = <<>>], p # "running" PROVE VetInv'
  <2>1. ran'[t] = <<>> /\ pc'[t] = p
    BY <1>c, <1>p DEF ExecutionTypes
  <2>2. Vetted(t)'
    BY <1>c, <1>e, <1>h, <2>1 DEF Vetted
  <2> QED BY <1>e, <1>i, <2>1, <2>2
<1>1. CASE Submit(t) \/ Security(t) \/ Validate(t)
  <2>1. pc[t] \in {"idle", "security", "validate"} /\ ran' = ran /\ p \in {"idle", "security", "validate", "pre"}
    BY <1>1, <1>p DEF Submit, Security, Validate, Goto, ExecutionTypes
  <2>2. ran'[t] = <<>> /\ pc'[t] = p
    BY <1>p, <1>t, <2>1 DEF Vetted, ExecutionTypes
  <2>3. Vetted(t)'
    BY <1>e, <1>h, <2>1, <2>2 DEF Vetted
  <2> QED BY <1>e, <1>i, <2>2, <2>3
<1>2. CASE PreHook(t)
  <2>1. CASE Goto(t, "idle") /\ ran' = [ran EXCEPT ![t] = <<>>]
    <3>1. p = "idle"
      BY <1>p, <2>1 DEF Goto, ExecutionTypes
    <3> QED BY <1>c, <2>1, <3>1
  <2>2. CASE /\ ran' = [ran EXCEPT ![t] = Append(@, Sorted(PreHooks)[Len(ran[t]) + 1])]
             /\ UNCHANGED <<pc, task>>
    <3> DEFINE n == Len(ran[t]) + 1
               h == Sorted(PreHooks)[n]
               more == Append(ran[t], h)
    <3>0. pc[t] = "pre" /\ n \in 1..Len(PreHooks)
      BY <1>2, <1>t, <1>h DEF PreHook
    <3>1. h \in Hook
      BY <3>0, <1>s
    <3>2. ran'[t] = more /\ pc'[t] = "pre"
      BY <2>2, <3>0 DEF ExecutionTypes
    <3> HIDE DEF h
    <3>3. more \in Seq(Hook) /\ Len(more) = n /\ more[n] = h /\ \A i \in 1..Len(ran[t]) : more[i] = ran[t][i]
      BY <1>t, <3>1, AppendProperties
    <3> HIDE DEF more
    <3>4. \A i \in 1..n : i \in 1..Len(ran[t]) \/ i = n
      BY <1>t
    <3>5. \A i \in 1..Len(ran[t]) : ran[t][i] = Sorted(PreHooks)[i]
      BY <3>0, <1>t DEF Vetted
    <3>6. \A i \in 1..n : more[i] = Sorted(PreHooks)[i]
      BY <3>3, <3>4, <3>5 DEF h
    <3>7. Vetted(t)'
      BY <3>0, <3>2, <3>3, <3>6, <1>h DEF Vetted
    <3> QED BY <1>i, <3>2, <3>3, <3>7
  <2> QED BY <1>2, <2>1, <2>2 DEF PreHook
<1>3. CASE Execute(t)
  <2>0. pc[t] = "pre" /\ Len(ran[t]) = Len(PreHooks)
    BY <1>3 DEF Execute
  <2>1. CASE Goto(t, "post") /\ ran' = [ran EXCEPT ![t] = <<>>]
    <3>1. p = "post"
      BY <1>p, <2>1 DEF Goto, ExecutionTypes
    <3> QED BY <1>c, <2>1, <3>1
  <2>2. CASE /\ req[t].mode = "local" \/ (req[t].mode = "hybrid" /\ AssessedLocal(req[t].line, req[t]))
             /\ LocalAccepts(req[t].line, req[t])
             /\ Goto(t, "running") /\ UNCHANGED ran
    <3>1. pc'[t] = "running" /\ ran'[t] = ran[t] /\ req'[t] = req[t]
      BY <2>2, GotoIs DEF ExecutionTypes, Phases
    <3>2. req[t].risk \in {"high", "critical"} => req[t].mode = "local"
      BY <2>2 DEF AssessedLocal, SafeForLocal
    <3>3. Has(req[t].line, "local") /\ ~ Has(req[t].line, "meta")
      BY <2>2 DEF LocalAccepts
    <3>4. Vetted(t)'
      BY <2>0, <3>1, <3>2, <3>3, <1>t DEF Vetted
    <3> QED BY <1>i, <1>t, <3>1, <3>4
  <2> QED BY <1>3, <2>1, <2>2 DEF Execute
<1>4. CASE Finish(t)
  <2>1. p = "post"
    BY <1>4, <1>p DEF Finish, Goto, ExecutionTypes
  <2> QED BY <1>4, <1>c, <2>1 DEF Finish
<1>5. CASE PostHook(t)
  <2>0. pc[t] = "post"
    BY <1>5 DEF PostHook
  <2>1. CASE Goto(t, "idle") /\ ran' = [ran EXCEPT ![t] = <<>>]
    <3>1. p = "idle"
      BY <1>p, <2>1 DEF Goto, ExecutionTypes
    <3> QED BY <1>c, <2>1, <3>1
  <2>2. CASE /\ Len(ran[t]) < Len(PostHooks)
             /\ ran' = [ran EXCEPT ![t] = Append(@, Sorted(PostHooks)[Len(@) + 1])]
             /\ UNCHANGED <<pc, task>>
    <3> DEFINE h == Sorted(PostHooks)[Len(ran[t]) + 1]
    <3>1. h \in Hook
      <4>1. Len(ran[t]) + 1 \in 1..Len(PostHooks)
        BY <1>t, <1>h, <2>2
      <4> QED BY <4>1, <1>s
    <3>2. ran'[t] = Append(ran[t], h) /\ pc'[t] = "post"
      BY <2>0, <2>2 DEF ExecutionTypes
    <3> HIDE DEF h
    <3>3. Append(ran[t], h) \in Seq(Hook)
      BY <1>t, <3>1, AppendProperties
    <3>4. Vetted(t)'
      BY <3>2 DEF Vetted
    <3> QED BY <1>i, <3>2, <3>3, <3>4
  <2> QED BY <1>5, <2>1, <2>2 DEF PostHook
<1> QED BY <1>1, <1>2, <1>3, <1>4, <1>5 DEF TaskStep

LEMMA VetInvariance == Spec => []VetInv
<1>1. Init => VetInv
  <2> SUFFICES ASSUME Init PROVE VetInv
    OBVIOUS
  <2>1. <<>> \in Seq(Hook)
    OBVIOUS
  <2> QED BY <2>1 DEF Init, VetInv, ExecutionTypes, Vetted, Phases
<1>2. ASSUME VetInv, [Next]_vars PROVE VetInv'
  <2>1. CASE UNCHANGED <<pc, ran, req>>
    BY <1>2, <2>1 DEF VetInv, ExecutionTypes, Vetted
  <2>2. ASSUME NEW t \in Tasks, TaskStep(t) PROVE VetInv'
    BY <1>2, <2>2, VetStep
  <2>3. CASE Tick \/ Adjust \/ UNCHANGED vars
    BY <2>1, <2>3 DEF Tick, Adjust, vars, task
  <2> QED BY <1>2, <2>2, <2>3 DEF Next, TaskStep
<1> QED BY <1>1, <1>2, PTL DEF Spec

\* However invocations interleave: a process is started on the host only for a word of the
\* whitelist without shell characters, after every pre hook let it pass in the order of their
\* priorities, and at a high risk only when its definition says local.
THEOREM StartedWasVetted == Spec => []StartedIsVetted
<1>1. VetInv => StartedIsVetted
  <2> SUFFICES ASSUME VetInv, NEW t \in Tasks, pc[t] = "running"
               PROVE  /\ Has(req[t].line, "local") /\ ~ Has(req[t].line, "meta")
                      /\ Len(ran[t]) = Len(PreHooks) /\ ToSet(ran[t]) = ToSet(PreHooks)
                      /\ \A i, j \in 1..Len(ran[t]) : i < j => ran[t][i].priority >= ran[t][j].priority
                      /\ req[t].risk \in {"high", "critical"} => req[t].mode = "local"
    BY DEF StartedIsVetted
  <2>1. Vetted(t) /\ ran[t] \in Seq(Hook)
    BY DEF VetInv, ExecutionTypes
  <2>h. PreHooks \in Seq(Hook)
    BY ExecutionAssumption DEF Hook
  <2>2. Len(ran[t]) = Len(PreHooks) /\ \A i \in 1..Len(PreHooks) : ran[t][i] = Sorted(PreHooks)[i]
    BY <2>1 DEF Vetted
  <2>4. ToSet(ran[t]) = ToSet(PreHooks)
    BY <2>1, <2>2, <2>h, SortedHooks
  <2>5. \A i, j \in 1..Len(ran[t]) : i < j => ran[t][i].priority >= ran[t][j].priority
    BY <2>2, <2>h, SortedByPriority
  <2> QED BY <2>1, <2>2, <2>4, <2>5 DEF Vetted
<1> QED BY <1>1, VetInvariance, PTL


-----------------------------------------------------------------------------
(* The rate limit.                                                          *)

Counted == [at : Nat, tick : Nat, id : Nat]
Within(w, s) == {r \in granted[w] : r.tick \in s..(s + Limits[w].window - 1)}

RateTypes ==
    /\ now \in Nat /\ ticks \in Nat /\ events \in Nat
    /\ requests \in [DOMAIN Limits -> SUBSET Counted]
    /\ granted \in [DOMAIN Limits -> SUBSET Counted]

\* No more are counted than may be; what was let pass since the last adjustment is as old by the
\* wall clock as it is, and is counted as long as it is in the window.
RateKept(w) ==
    /\ IsFiniteSet(requests[w]) /\ Cardinality(requests[w]) <= Limits[w].max
    /\ \A r \in requests[w] : r.id < events
    /\ \A r \in granted[w] : /\ r.tick <= ticks /\ now - r.at = ticks - r.tick
                             /\ ticks - r.tick < Limits[w].window => r \in requests[w]
    /\ \A s \in Nat : IsFiniteSet(Within(w, s)) /\ Cardinality(Within(w, s)) <= Limits[w].max

RateInv == RateTypes /\ \A w \in DOMAIN Limits : RateKept(w)

LEMMA LimitsAre ==
    ASSUME NEW w \in DOMAIN Limits
    PROVE  Limits[w].max \in Nat /\ Limits[w].window \in Nat /\ Limits[w].window >= 1
BY ExecutionAssumption

\* The limited requests that are counted and pass within a step of the limit.
LEMMA LimitStep ==
    ASSUME RateInv, NEW w \in DOMAIN Limits, CheckRateLimit(w), UNCHANGED <<now, ticks>>,
           events' \in Nat, events' > events
    PROVE  RateInv'
<1> DEFINE Q == InWindow(w)
           r == [at |-> now, tick |-> ticks, id |-> events]
           new == IF RateAllows(w) THEN {r} ELSE {}
           L == Limits[w]
<1>t. now \in Nat /\ ticks \in Nat /\ events \in Nat /\ r \in Counted
  BY DEF RateInv, RateTypes, Counted
<1>l. L.max \in Nat /\ L.window \in Nat /\ L.window >= 1
  BY LimitsAre
<1>1. /\ requests' = [requests EXCEPT ![w] = Q \cup new]
      /\ granted' = [granted EXCEPT ![w] = @ \cup new]
  BY DEF CheckRateLimit
<1>2. Q \in SUBSET requests[w] /\ requests[w] \in SUBSET Counted /\ granted[w] \in SUBSET Counted
  BY DEF InWindow, RateInv, RateTypes
<1>3. new \in SUBSET {r}
  OBVIOUS
<1>k. RateKept(w)
  BY DEF RateInv
<1>4. RateTypes'
  <2>1. Q \cup new \in SUBSET Counted /\ granted[w] \cup new \in SUBSET Counted
    BY <1>2, <1>3, <1>t
  <2> HIDE DEF Q, new
  <2> QED BY <1>1, <2>1, <1>t DEF RateInv, RateTypes
<1>5. requests'[w] = Q \cup new /\ granted'[w] = granted[w] \cup new
  <2> HIDE DEF Q, new
  <2> QED BY <1>1 DEF RateInv, RateTypes
<1>6. \A v \in DOMAIN Limits \ {w} : RateKept(v)'
  <2> SUFFICES ASSUME NEW v \in DOMAIN Limits \ {w} PROVE RateKept(v)'
    OBVIOUS
  <2>1. requests'[v] = requests[v] /\ granted'[v] = granted[v]
    <3> HIDE DEF Q, new
    <3> QED BY <1>1 DEF RateInv, RateTypes
  <2>2. RateKept(v) /\ requests[v] \in SUBSET Counted
    BY DEF RateInv, RateTypes
  <2>3. \A q \in requests[v] : q.id < events'
    <3>1. \A q \in requests[v] : q.id \in Nat /\ q.id < events
      BY <2>2 DEF RateKept, Counted
    <3> QED BY <3>1, <1>t
  <2>4. \A s \in Nat : Within(v, s)' = Within(v, s)
    BY <2>1 DEF Within
  <2> QED BY <2>1, <2>2, <2>3, <2>4 DEF RateKept
<1>7. IsFiniteSet(Q) /\ Cardinality(Q) <= L.max /\ Cardinality(Q) \in Nat
  <2> HIDE DEF Q, L
  <2>1. IsFiniteSet(requests[w]) /\ Cardinality(requests[w]) <= L.max
    BY <1>k DEF RateKept, L
  <2>2. IsFiniteSet(Q) /\ Cardinality(Q) <= Cardinality(requests[w])
        /\ Cardinality(Q) \in Nat /\ Cardinality(requests[w]) \in Nat
    BY <1>2, <2>1, FS_Subset, FS_CardinalityType
  <2> QED BY <2>1, <2>2, <1>l
<1>8. IsFiniteSet(Q \cup new) /\ Cardinality(Q \cup new) <= L.max
  <2>1. CASE RateAllows(w)
    <3>1. Cardinality(Q) < L.max
      BY <2>1 DEF RateAllows
    <3> HIDE DEF Q, r, L
    <3>2. IsFiniteSet(Q \cup {r}) /\ Cardinality(Q \cup {r}) <= Cardinality(Q) + 1
      <4>1. /\ IsFiniteSet(Q \cup {r})
            /\ Cardinality(Q \cup {r}) = IF r \in Q THEN Cardinality(Q) ELSE Cardinality(Q) + 1
        BY <1>7, FS_AddElement, Zenon
      <4> QED BY <4>1, <1>7
    <3>3. IsFiniteSet(Q \cup {r}) /\ Cardinality(Q \cup {r}) \in Nat
      BY <3>2, FS_CardinalityType
    <3> QED BY <2>1, <3>1, <3>2, <3>3, <1>7, <1>l
  <2>2. CASE ~ RateAllows(w)
    BY <2>2, <1>7
  <2> QED BY <2>1, <2>2
<1>9. \A q \in Q \cup new : q.id < events'
  <2>1. \A q \in requests[w] : q.id \in Nat /\ q.id < events
    BY <1>2, <1>k DEF RateKept, Counted
  <2>2. r.id = events
    OBVIOUS
  <2> HIDE DEF Q, new, r
  <2> QED BY <2>1, <2>2, <1>2, <1>3, <1>t
<1>10. \A q \in granted[w] \cup new : /\ q.tick \in Nat /\ q.tick <= ticks
                                      /\ now - q.at = ticks - q.tick
                                      /\ ticks - q.tick < L.window => q \in Q \cup new
  <2>1. ASSUME NEW q \in granted[w]
        PROVE  /\ q.tick \in Nat /\ q.tick <= ticks /\ now - q.at = ticks - q.tick
               /\ ticks - q.tick < L.window => q \in Q
    <3>1. q.tick \in Nat /\ q.at \in Nat
      BY <1>2 DEF Counted
    <3>2. /\ q.tick <= ticks /\ now - q.at = ticks - q.tick
          /\ ticks - q.tick < L.window => q \in requests[w]
      BY <1>k DEF RateKept
    <3> QED BY <3>1, <3>2, <1>t, <1>l DEF InWindow
  <2>2. ASSUME NEW q \in new
        PROVE  q.tick \in Nat /\ q.tick <= ticks /\ now - q.at = ticks - q.tick
    <3>1. q.tick = ticks /\ q.at = now
      BY <1>3
    <3> QED BY <3>1, <1>t
  <2> HIDE DEF Q, new, L
  <2> QED BY <2>1, <2>2
<1>11. ASSUME NEW s \in Nat
       PROVE  /\ IsFiniteSet(Within(w, s)') /\ Cardinality(Within(w, s)') <= L.max
  <2> DEFINE W == Within(w, s)'
  <2>1. W = {q \in granted[w] \cup new : q.tick \in s..(s + L.window - 1)}
    <3> HIDE DEF new
    <3> QED BY <1>5 DEF Within
  <2>2. CASE ticks <= s + L.window - 1
    <3>1. \A q \in W : q \in Q \cup new
      <4> HIDE DEF Q, new, L
      <4> QED BY <1>10, <2>1, <2>2, <1>t, <1>l
    <3> HIDE DEF W, Q, new, L
    <3>2. W \in SUBSET (Q \cup new)
      BY <3>1
    <3>3. /\ IsFiniteSet(W) /\ Cardinality(W) <= Cardinality(Q \cup new)
          /\ Cardinality(W) \in Nat /\ Cardinality(Q \cup new) \in Nat
      BY <3>2, <1>8, FS_Subset, FS_CardinalityType
    <3> QED BY <3>3, <1>8, <1>l DEF W
  <2>3. CASE ticks > s + L.window - 1
    <3>1. \A q \in new : q.tick = ticks
      BY <1>3
    <3>2. W = Within(w, s)
      <4> HIDE DEF new
      <4> QED BY <2>1, <2>3, <3>1, <1>t, <1>l DEF Within
    <3> QED BY <3>2, <1>k DEF RateKept
  <2> QED BY <2>2, <2>3, <1>t, <1>l
<1>12. RateKept(w)'
  <2> HIDE DEF Q, new, r
  <2> QED BY <1>5, <1>8, <1>9, <1>10, <1>11 DEF RateKept
<1>13. \A v \in DOMAIN Limits : RateKept(v)'
  BY <1>6, <1>12
<1> QED BY <1>4, <1>13 DEF RateInv


\* A step that counts nothing: time passes, the clock is set, or another part moves.
LEMMA RateRests ==
    ASSUME RateInv, UNCHANGED <<now, ticks, requests, granted>>, events' \in Nat, events' >= events
    PROVE  RateInv'
<1>1. RateTypes'
  BY DEF RateInv, RateTypes
<1>2. ASSUME NEW w \in DOMAIN Limits PROVE RateKept(w)'
  <2>1. RateKept(w) /\ requests[w] \in SUBSET Counted /\ events \in Nat
    BY DEF RateInv, RateTypes
  <2>2. \A s \in Nat : Within(w, s)' = Within(w, s)
    BY DEF Within
  <2>3. \A q \in requests[w] : q.id < events'
    <3>1. \A q \in requests[w] : q.id \in Nat /\ q.id < events
      BY <2>1 DEF RateKept, Counted
    <3> QED BY <3>1, <2>1
  <2> QED BY <2>1, <2>2, <2>3 DEF RateKept
<1> QED BY <1>1, <1>2 DEF RateInv

\* The checks end at one of the four, and log as many events.
LEMMA SecurityIs ==
    ASSUME NEW t \in Tasks, Security(t)
    PROVE  \E n \in 1..4 :
             /\ Logged(n) /\ UNCHANGED <<now, ticks, jumps, cache>>
             /\ n = 1 => UNCHANGED <<requests, granted>>
             /\ n # 1 => CheckRateLimit(req[t].line.word)
<1> DEFINE passes == <<~ Has(req[t].line, "black"), RateAllows(req[t].line.word), now \in OpenTimes,
                       RoleAllows(req[t].line, role[t])>>
           denied == {i \in 1..4 : ~ passes[i]}
           last == IF denied = {} THEN 4 ELSE CHOOSE i \in denied : \A j \in denied : i <= j
<1>1. /\ Logged(last) /\ UNCHANGED <<now, ticks, jumps, cache>>
      /\ last = 1 => UNCHANGED <<requests, granted>>
      /\ last # 1 => CheckRateLimit(req[t].line.word)
  BY DEF Security, clock
<1>2. denied \in SUBSET (1..4)
  OBVIOUS
<1>3. last \in 1..4
  <2> HIDE DEF denied
  <2>1. ASSUME denied # {} PROVE \E i \in denied : \A j \in denied : i <= j
    <3>1. CASE 1 \in denied
      BY <3>1, <1>2
    <3>2. CASE 1 \notin denied /\ 2 \in denied
      BY <3>2, <1>2
    <3>3. CASE 1 \notin denied /\ 2 \notin denied /\ 3 \in denied
      BY <3>3, <1>2
    <3>4. CASE 1 \notin denied /\ 2 \notin denied /\ 3 \notin denied
      <4>1. \A i \in 1..4 : i \in {1, 2, 3, 4}
        OBVIOUS
      <4>2. \A i \in denied : i = 4
        BY <3>4, <4>1, <1>2
      <4> QED BY <2>1, <4>2
    <3> QED BY <3>1, <3>2, <3>3, <3>4
  <2>2. denied # {} => (CHOOSE i \in denied : \A j \in denied : i <= j) \in denied
    BY <2>1
  <2>3. denied # {} => last \in denied
    BY <2>2
  <2>4. denied = {} => last = 4
    OBVIOUS
  <2> HIDE DEF last
  <2>5. CASE denied = {}
    BY <2>4, <2>5
  <2>6. CASE denied # {}
    <3>1. last \in denied
      BY <2>3, <2>6
    <3> QED BY <3>1, <1>2
  <2> QED BY <2>5, <2>6
<1> HIDE DEF last
<1> QED BY <1>1, <1>3

LEMMA SecurityRates ==
    ASSUME RateInv, NEW t \in Tasks, Security(t)
    PROVE  RateInv'
<1>1. PICK n \in 1..4 : /\ Logged(n) /\ UNCHANGED <<now, ticks>>
                        /\ n = 1 => UNCHANGED <<requests, granted>>
                        /\ n # 1 => CheckRateLimit(req[t].line.word)
  BY SecurityIs
<1>4. events' = events + n /\ events \in Nat
  BY <1>1 DEF Logged, RateInv, RateTypes
<1>5. events' \in Nat /\ events' > events
  BY <1>4
<1>6. CASE n = 1 \/ req[t].line.word \notin DOMAIN Limits
  <2>1. UNCHANGED <<requests, granted>>
    BY <1>1, <1>6 DEF CheckRateLimit
  <2> QED BY <2>1, <1>1, <1>4, <1>5, RateRests
<1>7. CASE n # 1 /\ req[t].line.word \in DOMAIN Limits
  BY <1>1, <1>5, <1>7, LimitStep
<1> QED BY <1>6, <1>7

LEMMA TickRates ==
    ASSUME RateInv, Tick
    PROVE  RateInv'
<1>1. /\ now' = now + 1 /\ ticks' = ticks + 1 /\ UNCHANGED <<requests, granted, events>>
      /\ now \in Nat /\ ticks \in Nat
  BY DEF Tick, validator, RateInv, RateTypes
<1>2. RateTypes'
  BY <1>1 DEF RateInv, RateTypes
<1>3. ASSUME NEW w \in DOMAIN Limits PROVE RateKept(w)'
  <2>1. RateKept(w) /\ granted[w] \in SUBSET Counted
    BY DEF RateInv, RateTypes
  <2>2. \A s \in Nat : Within(w, s)' = Within(w, s)
    BY <1>1 DEF Within
  <2>3. ASSUME NEW q \in granted[w]
        PROVE  /\ q.tick <= ticks' /\ now' - q.at = ticks' - q.tick
               /\ ticks' - q.tick < Limits[w].window => q \in requests[w]
    <3>1. q.tick \in Nat /\ q.at \in Nat
      BY <2>1 DEF Counted
    <3>2. /\ q.tick <= ticks /\ now - q.at = ticks - q.tick
          /\ ticks - q.tick < Limits[w].window => q \in requests[w]
      BY <2>1 DEF RateKept
    <3> QED BY <3>1, <3>2, <1>1, LimitsAre
  <2> QED BY <1>1, <2>1, <2>2, <2>3 DEF RateKept
<1> QED BY <1>2, <1>3 DEF RateInv

LEMMA AdjustRates ==
    ASSUME RateInv, Adjust
    PROVE  RateInv'
<1>1. /\ now' \in Nat /\ granted' = [w \in DOMAIN Limits |-> {}]
      /\ UNCHANGED <<ticks, requests, events>>
  BY ExecutionAssumption DEF Adjust
<1>2. RateTypes'
  BY <1>1 DEF RateInv, RateTypes
<1>3. ASSUME NEW w \in DOMAIN Limits PROVE RateKept(w)'
  <2>1. RateKept(w) /\ granted'[w] = {} /\ Limits[w].max \in Nat
    BY <1>1, LimitsAre DEF RateInv
  <2>2. \A s \in Nat : Within(w, s)' = {}
    BY <2>1 DEF Within
  <2>3. \A s \in Nat : IsFiniteSet(Within(w, s)') /\ Cardinality(Within(w, s)') <= Limits[w].max
    BY <2>1, <2>2, FS_EmptySet
  <2> QED BY <1>1, <2>1, <2>3 DEF RateKept
<1> QED BY <1>2, <1>3 DEF RateInv

LEMMA RateInvariance == Spec => []RateInv
<1>1. Init => RateInv
  <2> SUFFICES ASSUME Init PROVE RateInv
    OBVIOUS
  <2>1. RateTypes
    BY DEF Init, RateTypes
  <2>2. ASSUME NEW w \in DOMAIN Limits PROVE RateKept(w)
    <3>1. requests[w] = {} /\ granted[w] = {} /\ Limits[w].max \in Nat
      BY LimitsAre DEF Init
    <3>2. \A s \in Nat : Within(w, s) = {}
      BY <3>1 DEF Within
    <3> QED BY <3>1, <3>2, FS_EmptySet DEF RateKept
  <2> QED BY <2>1, <2>2 DEF RateInv
<1>2. ASSUME RateInv, [Next]_vars PROVE RateInv'
  <2>0. events \in Nat
    BY <1>2 DEF RateInv, RateTypes
  <2>1. CASE UNCHANGED <<clock, requests, granted, events>>
    BY <1>2, <2>0, <2>1, RateRests DEF clock
  <2>2. ASSUME NEW t \in Tasks, TaskStep(t) PROVE RateInv'
    <3>1. CASE Security(t)
      BY <1>2, <3>1, SecurityRates
    <3>2. CASE ~ Security(t)
      BY <2>1, <2>2, <3>2 DEF TaskStep, Submit, Validate, PreHook, Execute, Finish, PostHook, validator
    <3> QED BY <3>1, <3>2
  <2>3. CASE UNCHANGED vars
    BY <2>1, <2>3 DEF vars, clock
  <2> QED BY <1>2, <2>2, <2>3, TickRates, AdjustRates DEF Next, TaskStep
<1> QED BY <1>1, <1>2, PTL DEF Spec

\* However the window slides over the requests, and whatever else denies or fails them: in every
\* window no more requests of a limited word pass their check than the limit says, while nobody
\* adjusts the clock.
THEOREM RateIsBounded == Spec => []RateBound
<1>1. RateInv => RateBound
  <2> SUFFICES ASSUME RateInv, NEW w \in DOMAIN Limits, NEW s \in 0..ticks
               PROVE  Cardinality({r \in granted[w] : r.tick \in s..(s + Limits[w].window - 1)})
                         <= Limits[w].max
    BY DEF RateBound
  <2>1. s \in Nat
    BY DEF RateInv, RateTypes
  <2> QED BY <2>1 DEF RateInv, RateKept, Within
<1> QED BY <1>1, RateInvariance, PTL

-----------------------------------------------------------------------------
(* The audit log and the types of the execution.                            *)

\* l is the end of what was logged by event e, without a gap, and lost only what cuts at the
\* limit drop.
LogIs(l, e) ==
    /\ l \in Seq(Nat) /\ Len(l) <= LogMax
    /\ e <= LogMax => Len(l) = e
    /\ e > LogMax => Len(l) > LogMax - LogDrop
    /\ \A i \in 1..Len(l) : l[i] = e - Len(l) + i

LEMMA EnteredIs ==
    ASSUME NEW l, NEW e \in Nat, LogIs(l, e)
    PROVE  LogIs(Entered(l, e + 1), e + 1)
<1> DEFINE m == Append(l, e + 1)
           n == SubSeq(m, LogDrop + 1, Len(m))
<1>0. LogMax \in Nat /\ LogDrop \in Nat /\ LogDrop >= 1 /\ LogDrop <= LogMax
  BY ExecutionAssumption
<1>1. l \in Seq(Nat) /\ Len(l) \in Nat /\ Len(l) <= LogMax
  BY DEF LogIs
<1>2. m \in Seq(Nat) /\ Len(m) = Len(l) + 1
  BY <1>1
<1>3. \A i \in 1..Len(m) : m[i] = e + 1 - Len(m) + i
  <2>1. ASSUME NEW i \in 1..Len(m), i <= Len(l) PROVE m[i] = e + 1 - Len(m) + i
    <3>1. i \in 1..Len(l) /\ m[i] = l[i]
      BY <1>1, <1>2, <2>1
    <3>2. l[i] = e - Len(l) + i
      BY <3>1 DEF LogIs
    <3> QED BY <1>1, <1>2, <3>1, <3>2
  <2>2. ASSUME NEW i \in 1..Len(m), i > Len(l) PROVE m[i] = e + 1 - Len(m) + i
    <3>1. i = Len(l) + 1 /\ m[i] = e + 1
      BY <1>1, <1>2, <2>2
    <3> QED BY <1>1, <1>2, <3>1
  <2> QED BY <1>1, <1>2, <2>1, <2>2
<1> HIDE DEF m
<1>4. CASE Len(m) > LogMax
  <2>1. Len(m) = LogMax + 1 /\ e >= LogMax
    <3>1. Len(l) = LogMax
      BY <1>0, <1>1, <1>2, <1>4
    <3>2. e <= LogMax => Len(l) = e
      BY DEF LogIs
    <3> QED BY <1>0, <1>2, <3>1, <3>2
  <2>2. n \in Seq(Nat) /\ Len(n) = Len(m) - LogDrop
    BY <1>0, <1>2, <2>1
  <2>3. \A i \in 1..Len(n) : n[i] = m[LogDrop + i] /\ LogDrop + i \in 1..Len(m)
    BY <1>0, <1>2, <2>1, <2>2
  <2> HIDE DEF n
  <2>4. \A i \in 1..Len(n) : n[i] = e + 1 - Len(n) + i
    <3> SUFFICES ASSUME NEW i \in 1..Len(n) PROVE n[i] = e + 1 - Len(n) + i
      OBVIOUS
    <3>1. n[i] = e + 1 - Len(m) + (LogDrop + i)
      BY <1>3, <2>3
    <3> QED BY <1>0, <1>2, <2>1, <2>2, <3>1
  <2>5. LogIs(n, e + 1)
    BY <1>0, <2>1, <2>2, <2>4 DEF LogIs
  <2> QED BY <1>4, <2>5 DEF Entered, m, n
<1>5. CASE ~ (Len(m) > LogMax)
  <2>1. (e + 1 <= LogMax => Len(m) = e + 1) /\ (e + 1 > LogMax => Len(m) > LogMax - LogDrop)
    BY <1>0, <1>1, <1>2, <1>5 DEF LogIs
  <2>2. LogIs(m, e + 1)
    BY <1>2, <1>3, <1>5, <2>1, <1>0 DEF LogIs
  <2> QED BY <1>5, <2>2 DEF Entered, m
<1> QED BY <1>4, <1>5

LEMMA LoggedIs ==
    ASSUME events \in Nat, LogIs(log, events), NEW n \in 1..4, Logged(n)
    PROVE  LogIs(log', events')
<1> DEFINE one == Entered(log, events + 1)
           two == Entered(one, events + 2)
           three == Entered(two, events + 3)
           four == Entered(three, events + 4)
<1>1. LogIs(one, events + 1)
  BY EnteredIs
<1>2. ASSUME NEW l, NEW k \in Nat, LogIs(l, events + k)
      PROVE  LogIs(Entered(l, events + (k + 1)), events + (k + 1))
  <2>1. LogIs(Entered(l, (events + k) + 1), (events + k) + 1)
    BY <1>2, EnteredIs
  <2>2. (events + k) + 1 = events + (k + 1)
    BY <1>2
  <2> QED BY <2>1, <2>2
<1> HIDE DEF one
<1>3. LogIs(two, events + 2)
  <2>1. LogIs(Entered(one, events + (1 + 1)), events + (1 + 1))
    BY <1>1, <1>2
  <2> QED BY <2>1
<1> HIDE DEF two
<1>4. LogIs(three, events + 3)
  <2>1. LogIs(Entered(two, events + (2 + 1)), events + (2 + 1))
    BY <1>3, <1>2
  <2> QED BY <2>1
<1> HIDE DEF three
<1>5. LogIs(four, events + 4)
  <2>1. LogIs(Entered(three, events + (3 + 1)), events + (3 + 1))
    BY <1>4, <1>2
  <2> QED BY <2>1
<1> HIDE DEF four
<1>6. log' = <<one, two, three, four>>[n] /\ events' = events + n
  BY DEF Logged, one, two, three, four
<1>7. n = 1 \/ n = 2 \/ n = 3 \/ n = 4
  OBVIOUS
<1>8. CASE n = 1
  <2>1. log' = one /\ events' = events + 1
    BY <1>6, <1>8
  <2> QED BY <1>1, <2>1
<1>9. CASE n = 2
  <2>1. log' = two /\ events' = events + 2
    BY <1>6, <1>9
  <2> QED BY <1>3, <2>1
<1>10. CASE n = 3
  <2>1. log' = three /\ events' = events + 3
    BY <1>6, <1>10
  <2> QED BY <1>4, <2>1
<1>11. CASE n = 4
  <2>1. log' = four /\ events' = events + 4
    BY <1>6, <1>11
  <2> QED BY <1>5, <2>1
<1> QED BY <1>7, <1>8, <1>9, <1>10, <1>11

\* The wall clock is at most one adjustment ahead of the time that went by.
TimeInv == now <= MaxTime + ticks /\ ticks <= MaxTime /\ jumps \in 0..MaxJumps

\* What is counted was counted, and logged, before.
Aged(w) == \A r \in requests[w] \cup granted[w] : r.tick <= ticks /\ r.id < events

CacheInv == cache \in [Roles -> {<<>>} \cup {<<g>> : g \in Graphs}]

ExecutionInv ==
    TimeInv /\ (\A w \in DOMAIN Limits : Aged(w)) /\ CacheInv /\ LogIs(log, events)

LEMMA AgedStays ==
    ASSUME RateTypes, \A w \in DOMAIN Limits : Aged(w), UNCHANGED requests,
           \A w \in DOMAIN Limits : granted'[w] \subseteq granted[w],
           ticks' \in Nat, ticks' >= ticks, events' \in Nat, events' >= events
    PROVE  \A w \in DOMAIN Limits : Aged(w)'
<1> SUFFICES ASSUME NEW w \in DOMAIN Limits, NEW r \in requests[w] \cup granted[w]
             PROVE  r.tick <= ticks' /\ r.id < events'
  BY DEF Aged
<1>1. r.tick \in Nat /\ r.id \in Nat /\ r.tick <= ticks /\ r.id < events
      /\ ticks \in Nat /\ events \in Nat
  BY DEF RateTypes, Counted, Aged
<1> QED BY <1>1

LEMMA CountedIsAged ==
    ASSUME RateTypes, \A w \in DOMAIN Limits : Aged(w), NEW v \in DOMAIN Limits,
           CheckRateLimit(v), UNCHANGED ticks, events' \in Nat, events' > events
    PROVE  \A w \in DOMAIN Limits : Aged(w)'
<1> SUFFICES ASSUME NEW w \in DOMAIN Limits, NEW r \in requests'[w] \cup granted'[w]
             PROVE  r.tick <= ticks' /\ r.id < events'
  BY DEF Aged
<1> DEFINE one == [at |-> now, tick |-> ticks, id |-> events]
           new == IF RateAllows(v) THEN {one} ELSE {}
<1>1. /\ requests' = [requests EXCEPT ![v] = InWindow(v) \cup new]
      /\ granted' = [granted EXCEPT ![v] = @ \cup new]
  BY DEF CheckRateLimit
<1>2. new \subseteq {one} /\ one.tick = ticks /\ one.id = events
  OBVIOUS
<1>3. InWindow(v) \subseteq requests[v]
  BY DEF InWindow
<1> HIDE DEF new, one
<1>4. requests'[w] \cup granted'[w] \subseteq requests[w] \cup granted[w] \cup {one}
  BY <1>1, <1>2, <1>3 DEF RateTypes
<1>5. CASE r = one
  BY <1>2, <1>5 DEF RateTypes
<1>6. CASE r \in requests[w] \cup granted[w]
  <2>1. r.tick \in Nat /\ r.id \in Nat /\ r.tick <= ticks /\ r.id < events
        /\ ticks \in Nat /\ events \in Nat
    BY <1>6 DEF RateTypes, Counted, Aged
  <2> QED BY <2>1
<1> QED BY <1>4, <1>5, <1>6

LEMMA ExecutionInvStep ==
    ASSUME RateInv, ExecutionInv, [Next]_vars
    PROVE  ExecutionInv'
<1>0. RateTypes /\ events \in Nat /\ now \in Nat /\ ticks \in Nat
      /\ MaxTime \in Nat /\ MaxJumps \in Nat
  BY ExecutionAssumption DEF RateInv, RateTypes
<1>1. CASE UNCHANGED <<clock, requests, granted, log, events, cache>>
  BY <1>1 DEF clock, ExecutionInv, TimeInv, Aged, CacheInv, LogIs
<1>2. CASE UNCHANGED vars
  BY <1>1, <1>2 DEF vars, clock
<1>3. ASSUME NEW t \in Tasks, Submit(t) \/ PreHook(t) \/ Execute(t) \/ Finish(t) \/ PostHook(t)
      PROVE  ExecutionInv'
  BY <1>1, <1>3 DEF Submit, PreHook, Execute, Finish, PostHook, validator
<1>4. ASSUME NEW t \in Tasks, Validate(t) PROVE ExecutionInv'
  <2>1. UNCHANGED <<clock, requests, granted, log, events>>
    BY <1>4 DEF Validate
  <2>2. UNCHANGED cache \/ \E g \in Graphs : cache' = [cache EXCEPT ![role[t]] = <<g>>]
    BY <1>4 DEF Validate
  <2>3. CacheInv'
    BY <2>2 DEF ExecutionInv, CacheInv
  <2> QED BY <2>1, <2>3 DEF clock, ExecutionInv, TimeInv, Aged, LogIs
<1>5. ASSUME NEW t \in Tasks, Security(t) PROVE ExecutionInv'
  <2>1. PICK n \in 1..4 : /\ Logged(n) /\ UNCHANGED <<now, ticks, jumps, cache>>
                          /\ n = 1 => UNCHANGED <<requests, granted>>
                          /\ n # 1 => CheckRateLimit(req[t].line.word)
    BY <1>5, SecurityIs
  <2>2. events' = events + n
    BY <2>1 DEF Logged
  <2>3. events' \in Nat /\ events' > events
    BY <1>0, <2>2
  <2>4. LogIs(log', events')
    BY <1>0, <2>1, LoggedIs DEF ExecutionInv
  <2>5. \A w \in DOMAIN Limits : Aged(w)'
    <3>1. CASE n = 1 \/ req[t].line.word \notin DOMAIN Limits
      <4>1. UNCHANGED <<requests, granted>>
        BY <2>1, <3>1 DEF CheckRateLimit
      <4> QED BY <1>0, <2>1, <2>3, <4>1, AgedStays DEF ExecutionInv
    <3>2. CASE n # 1 /\ req[t].line.word \in DOMAIN Limits
      BY <1>0, <2>1, <2>3, <3>2, CountedIsAged DEF ExecutionInv
    <3> QED BY <3>1, <3>2
  <2>6. TimeInv' /\ CacheInv'
    BY <2>1 DEF ExecutionInv, TimeInv, CacheInv
  <2> QED BY <2>4, <2>5, <2>6 DEF ExecutionInv, LogIs
<1>6. ASSUME Tick PROVE ExecutionInv'
  <2>1. ticks < MaxTime /\ ticks' = ticks + 1 /\ now' = now + 1
        /\ UNCHANGED <<jumps, requests, granted, log, events, cache>>
    BY <1>6 DEF Tick, validator
  <2>2. TimeInv'
    BY <1>0, <2>1 DEF ExecutionInv, TimeInv
  <2>3. \A w \in DOMAIN Limits : Aged(w)'
    BY <1>0, <2>1, AgedStays DEF ExecutionInv
  <2> QED BY <2>1, <2>2, <2>3 DEF ExecutionInv, CacheInv, LogIs
<1>7. ASSUME Adjust PROVE ExecutionInv'
  <2>1. jumps < MaxJumps /\ jumps' = jumps + 1 /\ now' \in 0..MaxTime
        /\ granted' = [w \in DOMAIN Limits |-> {}]
        /\ UNCHANGED <<ticks, requests, log, events, cache>>
    BY <1>7 DEF Adjust
  <2>2. TimeInv'
    BY <1>0, <2>1 DEF ExecutionInv, TimeInv
  <2>3. \A w \in DOMAIN Limits : Aged(w)'
    BY <1>0, <2>1, AgedStays DEF ExecutionInv
  <2> QED BY <2>1, <2>2, <2>3 DEF ExecutionInv, CacheInv, LogIs
<1> QED BY <1>2, <1>3, <1>4, <1>5, <1>6, <1>7 DEF Next

\* The audit log is always the end of what was logged, without a gap, and has
\* lost only what cuts at the limit drop; nothing counted for a rate limit is younger than
\* the clock or than the events, and a role caches an answer of the server or
\* none.
THEOREM ExecutionTypeCorrect == Spec => []TypeOK
<1>1. Init => ExecutionInv
  <2> SUFFICES ASSUME Init PROVE ExecutionInv
    OBVIOUS
  <2>0. MaxTime \in Nat /\ MaxJumps \in Nat /\ LogMax \in Nat
    BY ExecutionAssumption
  <2>1. TimeInv
    <3>1. now = 0 /\ ticks = 0 /\ jumps = 0
      BY DEF Init
    <3> QED BY <2>0, <3>1 DEF TimeInv
  <2>2. CacheInv
    BY DEF Init, CacheInv
  <2>3. ASSUME NEW w \in DOMAIN Limits PROVE Aged(w)
    <3>1. requests[w] = {} /\ granted[w] = {}
      BY DEF Init
    <3> QED BY <3>1 DEF Aged
  <2>4. LogIs(log, events)
    <3>1. log = <<>> /\ events = 0
      BY DEF Init
    <3> QED BY <2>0, <3>1 DEF LogIs
  <2> QED BY <2>1, <2>2, <2>3, <2>4 DEF ExecutionInv
<1>2. RateInv /\ ExecutionInv /\ [Next]_vars => ExecutionInv'
  BY ExecutionInvStep
<1>3. RateInv /\ VetInv /\ ExecutionInv => TypeOK
  <2> SUFFICES ASSUME RateInv, VetInv, ExecutionInv PROVE TypeOK
    OBVIOUS
  <2>1. RateTypes /\ MaxTime \in Nat /\ MaxJumps \in Nat
    BY ExecutionAssumption DEF RateInv
  <2>2. now \in 0..(2 * MaxTime) /\ ticks \in 0..MaxTime /\ jumps \in 0..MaxJumps
    BY <2>1 DEF ExecutionInv, TimeInv, RateTypes
  <2>3. ASSUME NEW w \in DOMAIN Limits, NEW r \in requests[w] \cup granted[w]
        PROVE  r.at \in Nat /\ r.tick \in 0..ticks /\ r.id \in 0..(events - 1)
    <3>1. r \in Counted /\ ticks \in Nat /\ events \in Nat
      BY <2>1 DEF RateTypes
    <3>2. r.tick <= ticks /\ r.id < events
      BY DEF ExecutionInv, Aged
    <3> QED BY <3>1, <3>2 DEF Counted
  <2>4. \A r \in Roles : cache[r] = <<>> \/ cache[r] \in {<<g>> : g \in Graphs}
    BY DEF ExecutionInv, CacheInv
  <2>5. /\ Len(log) <= LogMax /\ (events <= LogMax => Len(log) = events)
        /\ events > LogMax => Len(log) > LogMax - LogDrop
        /\ \A i \in 1..Len(log) : log[i] = events - Len(log) + i
    BY DEF ExecutionInv, LogIs
  <2>6. pc \in [Tasks -> {"idle", "security", "validate", "pre", "running", "post"}]
    BY DEF VetInv, ExecutionTypes, Phases
  <2> QED BY <2>2, <2>3, <2>4, <2>5, <2>6 DEF TypeOK
<1> QED BY <1>1, <1>2, <1>3, RateInvariance, VetInvariance, PTL DEF Spec

-----------------------------------------------------------------------------
(* What is learned from what users say.                                     *)

LEMMA LeastOf ==
    ASSUME NEW T, T \subseteq Nat, T # {}
    PROVE  \E x \in T : \A y \in T : x <= y
<1> DEFINE Less == {s \in Nat \X Nat : s[1] < s[2]}
<1>1. IsWellFoundedOn(Less, Nat)
  BY NatLessThanWellFounded DEF OpToRel
<1>2. PICK x \in T : \A y \in T : ~ (<<y, x>> \in Less)
  <2> HIDE DEF Less
  <2> QED BY <1>1, WFMin
<1>3. ASSUME NEW y \in T PROVE x <= y
  <2>1. x \in Nat /\ <<y, x>> \in Nat \X Nat
    OBVIOUS
  <2> QED BY <1>2, <2>1
<1> QED BY <1>3

Learnt(x) == \E command, chain, text, fix : x = Learning(x.dir, command, chain, text, fix)

\* A file is a learning or holds what somebody said; what was said is in the file it went to,
\* unless that was rewritten as a learning.
FilesInv ==
    /\ files \in Seq(Range(files)) /\ inProject \in BOOLEAN
    /\ \A i \in DOMAIN files :
           \/ files[i].form = "learning" /\ Learnt(files[i])
           \/ \E s \in said : s.file = i /\ files[i] = Correction(s.dir, s)
    /\ \A s \in said : /\ s.file \in DOMAIN files
                       /\ files[s.file].form = "correction" => files[s.file] = Correction(s.dir, s)

\* Somebody taught answer a for word w in directory d.
LEMMA TaughtIs ==
    ASSUME FilesInv, NEW d, NEW m \in Thesauri(d), NEW w \in DOMAIN m
    PROVE  m[w] \in AnswersTo(d, {w})
<1>1. PICK i \in Preferences(d) : files[i].original = w /\ files[i].corrected = m[w]
  BY DEF Thesauri
<1>2. /\ i \in DOMAIN files /\ files[i].dir = d /\ files[i].form = "correction"
      /\ files[i].type = "tool-preference" /\ files[i].original # NoWord
      /\ files[i].corrected # NoWord
  BY <1>1 DEF Preferences
<1>3. PICK s \in said : files[i] = Correction(s.dir, s)
  BY <1>2 DEF FilesInv
<1>4. /\ s.dir = d /\ s.type = "tool-preference"
      /\ Decoded(s.original) = w /\ Decoded(s.corrected) = m[w]
  BY <1>1, <1>2, <1>3 DEF Correction
<1>5. s.original # NoWord /\ s.corrected # NoWord
  BY <1>1, <1>2, <1>4, LearnAssumption DEF Decoded
<1> QED BY <1>4, <1>5 DEF AnswersTo, SaidOfTools

\* What was said about a word is in every thesaurus of the directory.
LEMMA TaughtIsThere ==
    ASSUME FilesInv, NEW d, NEW m \in Thesauri(d), NEW s \in InForce(d)
    PROVE  s.original \in DOMAIN m
<1>1. /\ s \in said /\ s.dir = d /\ s.type = "tool-preference" /\ s.original # NoWord
      /\ s.corrected # NoWord /\ s.original \notin Quoted /\ files[s.file].form = "correction"
  BY DEF InForce, SaidOfTools
<1>2. s.file \in DOMAIN files /\ files[s.file] = Correction(d, s)
  BY <1>1 DEF FilesInv
<1>3. /\ files[s.file].dir = d /\ files[s.file].type = "tool-preference"
      /\ files[s.file].original = s.original /\ files[s.file].corrected = Decoded(s.corrected)
  BY <1>1, <1>2 DEF Correction, Decoded
<1>4. Decoded(s.corrected) # NoWord
  BY <1>1, LearnAssumption DEF Decoded
<1>5. s.file \in Preferences(d)
  BY <1>1, <1>2, <1>3, <1>4 DEF Preferences
<1> QED BY <1>3, <1>5 DEF Thesauri, Originals

LEMMA EarliestIs == ASSUME NEW S, S \subseteq Nat, S # {} PROVE Earliest(S) \in S
<1>1. \E i \in S : \A j \in S : i <= j
  BY LeastOf
<1> QED BY <1>1 DEF Earliest

LEMMA AnswersGrow ==
    ASSUME NEW d, NEW V, NEW W, V \subseteq W
    PROVE  AnswersTo(d, V) \subseteq AnswersTo(d, W)
BY DEF AnswersTo

LEMMA SuggestionIs ==
    ASSUME FilesInv, NEW d, NEW m \in Thesauri(d), NEW text, DOMAIN text \subseteq Nat
    PROVE  IF \E s \in InForce(d) : s.original \in Range(text)
           THEN Suggestion(text, m) \in AnswersTo(d, Range(text))
           ELSE Suggestion(text, m) \in {NoWord} \cup AnswersTo(d, Range(text) \cup ConceptsOf(Range(text)))
<1> DEFINE words == Known(text, m)
           entities == Entities(text, m)
<1>1. words \subseteq DOMAIN text /\ entities \subseteq DOMAIN text
  BY DEF Known, Entities
<1>2. ASSUME words # {} PROVE Suggestion(text, m) \in AnswersTo(d, Range(text))
  <2>1. Earliest(words) \in words
    BY <1>1, <1>2, EarliestIs
  <2> DEFINE w == text[Earliest(words)]
  <2>2. w \in DOMAIN m /\ w \in Range(text) /\ Suggestion(text, m) = m[w]
    BY <1>2, <2>1 DEF Known, Range, Suggestion
  <2> HIDE DEF w, words
  <2>3. m[w] \in AnswersTo(d, {w})
    BY <2>2, TaughtIs
  <2> QED BY <2>2, <2>3, AnswersGrow
<1>3. ASSUME words = {}, entities # {}
      PROVE  Suggestion(text, m) \in AnswersTo(d, Range(text) \cup ConceptsOf(Range(text)))
  <2>1. Earliest(entities) \in entities
    BY <1>1, <1>3, EarliestIs
  <2> DEFINE t == text[Earliest(entities)]
             w == Concept[t]
  <2>2. w \in DOMAIN m /\ t \in Range(text) /\ t \in DOMAIN Concept /\ Suggestion(text, m) = m[w]
    BY <1>3, <2>1 DEF Entities, Range, Suggestion
  <2>3. w \in ConceptsOf(Range(text))
    BY <2>2 DEF ConceptsOf
  <2> HIDE DEF w, entities
  <2>4. m[w] \in AnswersTo(d, {w})
    BY <2>2, TaughtIs
  <2> QED BY <2>2, <2>3, <2>4, AnswersGrow
<1>4. (\E s \in InForce(d) : s.original \in Range(text)) => words # {}
  BY TaughtIsThere DEF Known, Range
<1>5. words = {} /\ entities = {} => Suggestion(text, m) = NoWord
  BY DEF Suggestion
<1> HIDE DEF words, entities
<1> QED BY <1>2, <1>3, <1>4, <1>5, AnswersGrow

\* A file more, or one file rewritten.
LEMMA FileAdded ==
    ASSUME NEW f, f \in Seq(Range(f)), NEW e
    PROVE  /\ Append(f, e) \in Seq(Range(Append(f, e))) /\ Len(f) \in Nat
           /\ Len(Append(f, e)) = Len(f) + 1 /\ Append(f, e)[Len(f) + 1] = e
           /\ DOMAIN Append(f, e) = DOMAIN f \cup {Len(f) + 1} /\ Len(f) + 1 \notin DOMAIN f
           /\ \A i \in DOMAIN f : Append(f, e)[i] = f[i]
<1> DEFINE S == Range(f) \cup {e}
           g == Append(f, e)
<1>1. f \in Seq(S)
  BY SeqMonotonic
<1> HIDE DEF S
<1>2. /\ g \in Seq(S) /\ Len(f) \in Nat /\ Len(g) = Len(f) + 1 /\ g[Len(f) + 1] = e
      /\ DOMAIN f = 1..Len(f) /\ \A i \in 1..Len(f) : g[i] = f[i]
  BY <1>1 DEF S
<1>3. DOMAIN g = 1..Len(g) /\ DOMAIN g = DOMAIN f \cup {Len(f) + 1}
  BY <1>2
<1> HIDE DEF g
<1>4. g \in Seq(Range(g))
  BY <1>2, SeqOfRange
<1> QED BY <1>2, <1>3, <1>4 DEF g

LEMMA FileRewritten ==
    ASSUME NEW f, f \in Seq(Range(f)), NEW i \in DOMAIN f, NEW e
    PROVE  LET g == [f EXCEPT ![i] = e] IN
           /\ g \in Seq(Range(g)) /\ Len(g) = Len(f) /\ DOMAIN g = DOMAIN f
           /\ g[i] = e /\ \A j \in DOMAIN f \ {i} : g[j] = f[j]
<1> DEFINE S == Range(f) \cup {e}
           g == [f EXCEPT ![i] = e]
<1>1. f \in Seq(S) /\ DOMAIN f = 1..Len(f)
  BY SeqMonotonic, LenProperties
<1>2. e \in S
  OBVIOUS
<1> HIDE DEF S
<1>3. g \in Seq(S) /\ Len(g) = Len(f)
  BY <1>1, <1>2, ExceptSeq
<1>4. DOMAIN g = DOMAIN f /\ g[i] = e /\ \A j \in DOMAIN f \ {i} : g[j] = f[j]
  OBVIOUS
<1> HIDE DEF g
<1>5. g \in Seq(Range(g))
  BY <1>3, SeqOfRange
<1> QED BY <1>3, <1>4, <1>5 DEF g

LEMMA CaptureFailedFiles ==
    ASSUME FilesInv, NEW f \in Failures, CaptureFailed(f) PROVE FilesInv'
<1>1. PICK fix : files' = Append(files, Learning(StorageLocation, FailingPart(f), Len(f.parts) > 1,
                                                 AnnotationText(f), fix))
  BY DEF CaptureFailed
<1>2. said' = said /\ inProject' = inProject
  BY DEF CaptureFailed
<1> DEFINE e == Learning(StorageLocation, FailingPart(f), Len(f.parts) > 1, AnnotationText(f), fix)
           n == Len(files) + 1
<1>3. e.form = "learning" /\ Learnt(e)
  <2>1. e.form = "learning" /\ e.dir = StorageLocation
    BY DEF Learning
  <2> QED BY <2>1 DEF Learnt
<1> HIDE DEF e
<1>4. /\ files' \in Seq(Range(files')) /\ DOMAIN files' = DOMAIN files \cup {n} /\ n \notin DOMAIN files
      /\ files'[n] = e /\ \A i \in DOMAIN files : files'[i] = files[i]
  BY <1>1, FileAdded DEF FilesInv, e
<1> HIDE DEF n
<1> QED BY <1>2, <1>3, <1>4 DEF FilesInv

LEMMA CaptureCorrectionFiles ==
    ASSUME FilesInv, NEW s \in Sayings, CaptureCorrection(s) PROVE FilesInv'
<1> DEFINE n == Len(files) + 1
           e == Correction(StorageLocation, s)
           t == [file |-> n, dir |-> StorageLocation, type |-> s.type, original |-> s.original,
                 corrected |-> s.corrected]
<1>1. files' = Append(files, e) /\ said' = said \cup {t} /\ inProject' = inProject
  BY DEF CaptureCorrection
<1>2. t.file = n /\ e = Correction(t.dir, t)
  BY DEF Correction
<1> HIDE DEF e, t
<1>3. /\ files' \in Seq(Range(files')) /\ DOMAIN files' = DOMAIN files \cup {n} /\ n \notin DOMAIN files
      /\ files'[n] = e /\ \A i \in DOMAIN files : files'[i] = files[i]
  BY <1>1, FileAdded DEF FilesInv
<1> HIDE DEF n
<1> QED BY <1>1, <1>2, <1>3 DEF FilesInv

LEMMA CorrectLearningFiles ==
    ASSUME FilesInv, NEW i \in DOMAIN files, NEW fix, CorrectLearning(i, fix)
    PROVE  FilesInv' /\ Len(files') = Len(files)
<1> DEFINE e == IF files[i].form = "learning"
                THEN [files[i] EXCEPT !.fix = fix, !.chain = FALSE]
                ELSE Learning(StorageLocation, NoWord, FALSE, <<>>, fix)
<1>1. files' = [files EXCEPT ![i] = e] /\ said' = said /\ inProject' = inProject
  BY DEF CorrectLearning
<1>2. e.form = "learning" /\ Learnt(e)
  <2>1. CASE files[i].form = "learning"
    <3>1. Learnt(files[i])
      <4>1. ASSUME NEW s \in said PROVE files[i] # Correction(s.dir, s)
        BY <2>1 DEF Correction
      <4> QED BY <4>1 DEF FilesInv
    <3>2. PICK command, chain, text, old : files[i] = Learning(files[i].dir, command, chain, text, old)
      BY <3>1 DEF Learnt
    <3>3. PICK d : d = files[i].dir
      OBVIOUS
    <3>4. e = [Learning(d, command, chain, text, old) EXCEPT !.fix = fix, !.chain = FALSE]
      BY <2>1, <3>2, <3>3
    <3>5. e = Learning(d, command, FALSE, text, fix)
      BY <3>4 DEF Learning
    <3>6. e.form = "learning" /\ e.dir = d
      BY <3>5 DEF Learning
    <3> HIDE DEF e
    <3> QED BY <3>5, <3>6 DEF Learnt
  <2>2. CASE files[i].form # "learning"
    BY <2>2 DEF Learning, Learnt
  <2> QED BY <2>1, <2>2
<1> HIDE DEF e
<1>3. /\ files' \in Seq(Range(files')) /\ Len(files') = Len(files) /\ DOMAIN files' = DOMAIN files
      /\ files'[i] = e /\ \A j \in DOMAIN files \ {i} : files'[j] = files[j]
  BY <1>1, FileRewritten DEF FilesInv
<1> QED BY <1>1, <1>2, <1>3 DEF FilesInv

THEOREM FilesInvariance == LearnSpec => []FilesInv
<1>1. LearnInit => FilesInv
  BY DEF LearnInit, FilesInv, Range
<1>2. FilesInv /\ [LearnNext]_learnVars => FilesInv'
  <2> SUFFICES ASSUME FilesInv, [LearnNext]_learnVars PROVE FilesInv'
    OBVIOUS
  <2>1. CASE UNCHANGED <<files, said>> /\ inProject' \in BOOLEAN
    BY <2>1 DEF FilesInv
  <2>2. CASE Compile \/ StartProject \/ UNCHANGED learnVars
    BY <2>1, <2>2 DEF FilesInv, Compile, StartProject, learnVars
  <2> QED BY <2>2, CaptureFailedFiles, CaptureCorrectionFiles, CorrectLearningFiles DEF LearnNext
<1> QED BY <1>1, <1>2, PTL DEF LearnSpec

\* The types of the learning directories: how many files there are, where each belongs, and
\* whether it is a learning or holds what somebody said.
THEOREM LearnTypeCorrect == LearnSpec => []LearnTypeOK
<1> DEFINE Bounded == /\ Len(files) <= MaxFiles
                      /\ \A i \in DOMAIN files :
                            /\ files[i].dir \in Dirs
                            /\ files[i].form = "learning" => files[i].chain \in BOOLEAN
<1>1. LearnInit => Bounded
  BY LearnAssumption DEF LearnInit
<1>2. FilesInv /\ Bounded /\ [LearnNext]_learnVars => Bounded'
  <2> SUFFICES ASSUME FilesInv, Bounded, [LearnNext]_learnVars PROVE Bounded'
    OBVIOUS
  <2>1. StorageLocation \in Dirs
    BY DEF StorageLocation, Dirs
  <2>2. ASSUME NEW e, files' = Append(files, e), Len(files) < MaxFiles, e.dir \in Dirs,
               e.form = "learning" => e.chain \in BOOLEAN
        PROVE  Bounded'
    <3>1. /\ Len(files) \in Nat /\ Len(files') = Len(files) + 1 /\ files'[Len(files) + 1] = e
          /\ DOMAIN files' = DOMAIN files \cup {Len(files) + 1}
          /\ \A i \in DOMAIN files : files'[i] = files[i]
      BY <2>2, FileAdded DEF FilesInv
    <3>2. Len(files') <= MaxFiles
      BY <2>2, <3>1, LearnAssumption
    <3> QED BY <2>2, <3>1, <3>2
  <2>3. ASSUME NEW f \in Failures, CaptureFailed(f) PROVE Bounded'
    <3>1. PICK fix : files' = Append(files, Learning(StorageLocation, FailingPart(f),
                                                     Len(f.parts) > 1, AnnotationText(f), fix))
      BY <2>3 DEF CaptureFailed
    <3> DEFINE e == Learning(StorageLocation, FailingPart(f), Len(f.parts) > 1,
                             AnnotationText(f), fix)
    <3>2. e.dir = StorageLocation /\ e.chain \in BOOLEAN
      BY DEF Learning
    <3> HIDE DEF e
    <3> QED BY <2>1, <2>2, <2>3, <3>1, <3>2 DEF CaptureFailed, e
  <2>4. ASSUME NEW s \in Sayings, CaptureCorrection(s) PROVE Bounded'
    <3> DEFINE e == Correction(StorageLocation, s)
    <3>1. e.dir = StorageLocation /\ e.form # "learning"
      BY DEF Correction
    <3>2. files' = Append(files, e) /\ Len(files) < MaxFiles
      BY <2>4 DEF CaptureCorrection
    <3> HIDE DEF e
    <3> QED BY <2>1, <2>2, <3>1, <3>2
  <2>5. ASSUME NEW i \in DOMAIN files, NEW fix \in Fixes, CorrectLearning(i, fix) PROVE Bounded'
    <3> DEFINE e == IF files[i].form = "learning"
                    THEN [files[i] EXCEPT !.fix = fix, !.chain = FALSE]
                    ELSE Learning(StorageLocation, NoWord, FALSE, <<>>, fix)
    <3>1. e.dir \in Dirs /\ (e.form = "learning" => e.chain \in BOOLEAN)
      <4>1. CASE files[i].form # "learning"
        BY <2>1, <4>1 DEF Learning
      <4>2. CASE files[i].form = "learning"
        <5>1. PICK command, chain, text, old :
                files[i] = Learning(files[i].dir, command, chain, text, old)
          <6>1. ASSUME NEW s \in said PROVE files[i] # Correction(s.dir, s)
            BY <4>2 DEF Correction
          <6> QED BY <6>1 DEF FilesInv, Learnt
        <5>2. PICK d : d = files[i].dir
          OBVIOUS
        <5>3. e = [Learning(d, command, chain, text, old) EXCEPT !.fix = fix, !.chain = FALSE]
          BY <4>2, <5>1, <5>2
        <5>4. e.dir = d /\ e.chain = FALSE
          BY <5>3 DEF Learning
        <5> HIDE DEF e
        <5> QED BY <5>2, <5>4
      <4> QED BY <4>1, <4>2
    <3>2. files' = [files EXCEPT ![i] = e]
      BY <2>5 DEF CorrectLearning
    <3> HIDE DEF e
    <3>3. /\ Len(files') = Len(files) /\ DOMAIN files' = DOMAIN files /\ files'[i] = e
          /\ \A j \in DOMAIN files \ {i} : files'[j] = files[j]
      BY <3>2, FileRewritten DEF FilesInv
    <3> QED BY <3>1, <3>3
  <2>6. CASE Compile \/ StartProject \/ UNCHANGED learnVars
    BY <2>6 DEF Compile, StartProject, learnVars
  <2> QED BY <2>3, <2>4, <2>5, <2>6 DEF LearnNext
<1>3. FilesInv /\ Bounded => LearnTypeOK
  <2> SUFFICES ASSUME FilesInv, Bounded, NEW i \in DOMAIN files, files[i].form # "learning"
               PROVE  \E s \in said : /\ s.file = i /\ s.dir = files[i].dir
                                       /\ files[i] = Correction(s.dir, s)
    BY DEF FilesInv, LearnTypeOK
  <2>1. PICK s \in said : s.file = i /\ files[i] = Correction(s.dir, s)
    BY DEF FilesInv
  <2>2. Correction(s.dir, s).dir = s.dir
    BY DEF Correction
  <2> QED BY <2>1, <2>2
<1> QED BY <1>1, <1>2, <1>3, FilesInvariance, PTL DEF LearnSpec

\* Whatever was said, rewritten and compiled before, and in whichever directory: a command that
\* fails is captured with an answer that its user gave for something in its text, and a compile has
\* an answer for every word about which one is in force.
THEOREM TaughtIsSuggested == LearnSpec => LearnedIsSuggested
<1> DEFINE Suggested ==
             LET new  == files'[Len(files')]
                 dir  == StorageLocation
                 text == Range(new.text)
             IN /\ Len(files') > Len(files) /\ new.form = "learning" =>
                     IF \E s \in InForce(dir) : s.original \in text
                     THEN new.fix \in AnswersTo(dir, text)
                     ELSE new.fix \in {NoWord} \cup AnswersTo(dir, text \cup ConceptsOf(text))
                /\ compiled' # compiled =>
                     \A s \in InForce(dir) : /\ s.original \in DOMAIN compiled'
                                             /\ compiled'[s.original] \in AnswersTo(dir, {s.original})
<1>1. FilesInv /\ [LearnNext]_learnVars => [Suggested]_learnVars
  <2> SUFFICES ASSUME FilesInv, LearnNext PROVE Suggested
    OBVIOUS
  <2> DEFINE d == StorageLocation
  <2>0. Len(files) \in Nat
    BY LenProperties DEF FilesInv
  <2>1. ASSUME NEW f \in Failures, CaptureFailed(f) PROVE Suggested
    <3>1. PICK m \in Thesauri(d) :
              files' = Append(files, Learning(d, FailingPart(f), Len(f.parts) > 1, AnnotationText(f),
                                              Suggestion(AnnotationText(f), m)))
      BY <2>1 DEF CaptureFailed
    <3>2. compiled' = compiled
      BY <2>1 DEF CaptureFailed
    <3> DEFINE e == Learning(d, FailingPart(f), Len(f.parts) > 1, AnnotationText(f),
                             Suggestion(AnnotationText(f), m))
    <3>3. Len(files') = Len(files) + 1 /\ files'[Len(files')] = e
      BY <3>1, FileAdded DEF FilesInv
    <3>4. e.text = AnnotationText(f) /\ e.fix = Suggestion(AnnotationText(f), m)
      BY DEF Learning
    <3>5. DOMAIN AnnotationText(f) \subseteq Nat
      <4>1. f.error \in Seq(Range(f.error) \cup {FailingPart(f)})
            /\ <<FailingPart(f)>> \in Seq(Range(f.error) \cup {FailingPart(f)})
        BY LearnAssumption, SeqMonotonic
      <4>2. AnnotationText(f) \in Seq(Range(f.error) \cup {FailingPart(f)})
        BY <4>1, ConcatProperties DEF AnnotationText
      <4> QED BY <4>2, LenProperties
    <3>6. PICK text : text = AnnotationText(f)
      OBVIOUS
    <3>7. IF \E s \in InForce(d) : s.original \in Range(text)
          THEN e.fix \in AnswersTo(d, Range(text))
          ELSE e.fix \in {NoWord} \cup AnswersTo(d, Range(text) \cup ConceptsOf(Range(text)))
      BY <3>4, <3>5, <3>6, SuggestionIs
    <3> HIDE DEF e, d
    <3> QED BY <3>2, <3>3, <3>4, <3>6, <3>7 DEF d
  <2>2. ASSUME NEW s \in Sayings, CaptureCorrection(s) PROVE Suggested
    <3>1. files'[Len(files')] = Correction(d, s) /\ compiled' = compiled
      <4>1. files' = Append(files, Correction(d, s)) /\ compiled' = compiled
        BY <2>2 DEF CaptureCorrection
      <4> QED BY <4>1, FileAdded DEF FilesInv
    <3>2. Correction(d, s).form # "learning"
      BY DEF Correction
    <3> QED BY <3>1, <3>2
  <2>3. ASSUME NEW i \in DOMAIN files, NEW fix \in Fixes, CorrectLearning(i, fix) PROVE Suggested
    <3>1. Len(files') = Len(files)
      BY <2>3, CorrectLearningFiles
    <3>2. compiled' = compiled
      BY <2>3 DEF CorrectLearning
    <3> QED BY <2>0, <3>1, <3>2
  <2>4. CASE Compile
    <3>1. PICK m \in Thesauri(d), curated \in {<<>>, Curated} :
              compiled' = [w \in DOMAIN m \cup DOMAIN curated |->
                             IF w \in DOMAIN m THEN m[w] ELSE curated[w]]
      BY <2>4 DEF Compile
    <3>2. files' = files
      BY <2>4 DEF Compile
    <3>3. ASSUME NEW s \in InForce(d)
          PROVE  /\ s.original \in DOMAIN compiled'
                 /\ compiled'[s.original] \in AnswersTo(d, {s.original})
      <4>1. s.original \in DOMAIN m
        BY TaughtIsThere
      <4>2. s.original \in DOMAIN compiled' /\ compiled'[s.original] = m[s.original]
        BY <3>1, <4>1
      <4> QED BY <4>1, <4>2, TaughtIs
    <3> QED BY <2>0, <3>2, <3>3
  <2>5. CASE StartProject
    BY <2>0, <2>5 DEF StartProject
  <2> HIDE DEF Suggested
  <2> QED BY <2>1, <2>2, <2>3, <2>4, <2>5 DEF LearnNext
<1> QED BY <1>1, FilesInvariance, PTL DEF LearnSpec, LearnedIsSuggested

-----------------------------------------------------------------------------
(* The commands together.                                                   *)

\* A behaviour of the composition is one of every component.
LEMMA CommandsCompose ==
    CommandsSpec => Spec /\ RegistrySpec /\ GrepSpec /\ SessionSpec /\ WikiSpec /\ LearnSpec
<1>1. CommandsInit =>
        Init /\ RegistryInit /\ GrepInit /\ SessionInit /\ WikiInit /\ LearnInit
  BY DEF CommandsInit
<1>2. [CommandsNext]_allVars =>
        /\ [Next]_vars /\ [RegistryNext]_registryVars /\ [GrepNext]_grepVars
        /\ [SessionNext]_sessionVars /\ [WikiNext]_wikiVars /\ [LearnNext]_learnVars
  BY DEF CommandsNext, allVars
<1> QED BY <1>1, <1>2, PTL
        DEF CommandsSpec, Spec, RegistrySpec, GrepSpec, SessionSpec, WikiSpec, LearnSpec, allVars

\* What the validator, the registry, the searches, the sessions, the wiki and the learnings
\* hold is of their types.
THEOREM CommandsTypesCorrect == CommandsSpec => []TypesOK
<1>1. TypeOK /\ RegistryTypeOK /\ GrepTypeOK /\ SessionTypeOK /\ WikiTypeOK /\ LearnTypeOK
        => TypesOK
  BY DEF TypesOK
<1> QED BY <1>1, CommandsCompose, ExecutionTypeCorrect, RegistryTypeCorrect, GrepTypeCorrect,
           SessionTypeCorrect, WikiTypeCorrect, LearnTypeCorrect, PTL

\* The safety properties that the components have alone they keep together, as they are checked.
THEOREM CommandsSafe ==
    CommandsSpec => /\ [](/\ MapsAgree /\ IndexMatchesThesaurus /\ DeadlockOnlyByUpgrade
                          /\ RateBound /\ StartedIsVetted /\ SynthesisIsEarned
                          /\ EmptyIsImported /\ SyncRepairs)
                    /\ LearnedIsSuggested
BY CommandsCompose, RegistryAgrees, BuiltOfTheSame, DeadlocksAreUpgrades, RateIsBounded,
   StartedWasVetted, ModelIsEarned, NeverEmptyUnasked, RunsRepair, TaughtIsSuggested, PTL

=============================================================================
