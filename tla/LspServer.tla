----------------------------- MODULE LspServer -----------------------------
(***************************************************************************)
(* The language server (terraphim_lsp/src/server.rs): diagnostics of open  *)
(* documents, debounced.                                                   *)
(*                                                                         *)
(* The editor's notifications are handled concurrently: tower-lsp starts   *)
(* the handlers in order and runs up to Concurrent of them at once, and    *)
(* each takes the lock of the documents and then that of the pending       *)
(* tasks.  A task sleeps, reads the document, scans what it read and       *)
(* publishes.  abort() removes a sleeping task; one that is already        *)
(* scanning only notices it if publishing has to wait.                     *)
(*                                                                         *)
(* The text of a document is the number of the write that put it there;    *)
(* closing counts as a write.  Time is left out: a sleep may end at once   *)
(* and a scan may take longer than the next task's sleep.                  *)
(***************************************************************************)
EXTENDS Naturals, FiniteSets

CONSTANTS
  Uris,
  Concurrent,  \* notifications handled at once (tower-lsp: 4)
  MaxSent      \* bound: notifications the editor sends

ASSUME LspAssumption == Concurrent \in Nat \ {0} /\ MaxSent \in Nat

VARIABLES
  opened,     \* what the editor has open
  handlers,   \* notifications being handled
  documents,  \* documents[u]: the server has a text of u
  writes,     \* writes[u]: writes of u so far
  pending,    \* pending[u]: the newest task of u, 0 for none
  tasks,      \* the debounced tasks that live
  shown,      \* shown[u]: the write whose diagnostics the editor shows
  overtaken,  \* overtaken[u]: an older publication has replaced a newer one
  notified, scheduled

lspVars == <<opened, handlers, documents, writes, pending, tasks, shown, overtaken,
             notified, scheduled>>

\* read: the write a scanning task, or a closing handler, has seen
Handlers == [n : 1..MaxSent, uri : Uris, kind : {"open", "change", "empty", "close"},
             pc : {"documents", "publish"}, read : 0..MaxSent]
Tasks    == [n : 1..MaxSent, uri : Uris, pc : {"sleep", "scan"}, read : 0..MaxSent,
             aborted : BOOLEAN]

LspTypeOK ==
  /\ opened \subseteq Uris
  /\ handlers \subseteq Handlers /\ Cardinality(handlers) <= Concurrent
  /\ documents \in [Uris -> BOOLEAN]
  /\ writes \in [Uris -> 0..MaxSent] /\ shown \in [Uris -> 0..MaxSent]
  /\ pending \in [Uris -> 0..MaxSent]
  /\ tasks \subseteq Tasks
  /\ overtaken \in [Uris -> BOOLEAN]
  /\ notified \in 0..MaxSent /\ scheduled \in 0..MaxSent

----------------------------------------------------------------------------
(* The editor: a document is opened, changed and closed in that order.     *)

Notify(u, kind) ==
  /\ notified < MaxSent /\ Cardinality(handlers) < Concurrent
  /\ notified' = notified + 1
  /\ handlers' = handlers \cup
       {[n |-> notified + 1, uri |-> u, kind |-> kind, pc |-> "documents", read |-> 0]}
  /\ opened' = CASE kind = "open"  -> opened \cup {u}
                 [] kind = "close" -> opened \ {u}
                 [] OTHER          -> opened
  /\ UNCHANGED <<documents, writes, pending, tasks, shown, overtaken, scheduled>>

\* a handler starts: the later ones start after its first step
Starts(h) == \A g \in handlers : g.pc = "documents" => h.n <= g.n

----------------------------------------------------------------------------
(* Handlers.                                                               *)

\* did_open, did_change, did_close change the document; a change without content does not
Documents(h) ==
  /\ h.pc = "documents"
  /\ writes' = [writes EXCEPT ![h.uri] = IF h.kind = "empty" THEN @ ELSE @ + 1]
  /\ documents' = [documents EXCEPT ![h.uri] = IF h.kind = "empty" THEN @ ELSE h.kind # "close"]
  /\ handlers' = (handlers \ {h}) \cup {[h EXCEPT !.pc = "publish", !.read = writes'[h.uri]]}
  /\ UNCHANGED <<opened, pending, tasks, shown, overtaken, notified, scheduled>>

\* abort: a task that sleeps is gone, one that scans may still publish
Aborted(u) ==
  {IF t.n = pending[u] THEN [t EXCEPT !.aborted = TRUE] ELSE t :
     t \in {t \in tasks : ~(t.n = pending[u] /\ t.pc = "sleep")}}

\* Mutant of Schedule: a document that has a task gets no other.
ScheduleOnce(h) ==
  \/ /\ h.pc = "publish" /\ h.kind # "close" /\ pending[h.uri] # 0
     /\ handlers' = handlers \ {h}
     /\ UNCHANGED <<opened, documents, writes, pending, tasks, shown, overtaken, notified, scheduled>>
  \/ /\ h.pc = "publish" /\ h.kind # "close" /\ pending[h.uri] = 0
     /\ scheduled' = scheduled + 1
     /\ tasks' = tasks \cup
          {[n |-> scheduled + 1, uri |-> h.uri, pc |-> "sleep", read |-> 0, aborted |-> FALSE]}
     /\ pending' = [pending EXCEPT ![h.uri] = scheduled + 1]
     /\ handlers' = handlers \ {h}
     /\ UNCHANGED <<opened, documents, writes, shown, overtaken, notified>>

\* schedule_diagnostics holds the lock of pending from the abort to the insert
Schedule(h) ==
  /\ h.pc = "publish" /\ h.kind # "close"
  /\ scheduled' = scheduled + 1
  /\ tasks' = Aborted(h.uri) \cup
       {[n |-> scheduled + 1, uri |-> h.uri, pc |-> "sleep", read |-> 0, aborted |-> FALSE]}
  /\ pending' = [pending EXCEPT ![h.uri] = scheduled + 1]
  /\ handlers' = handlers \ {h}
  /\ UNCHANGED <<opened, documents, writes, shown, overtaken, notified>>

\* what the editor shows is replaced by what was made of write w
Shows(u, w) ==
  /\ shown' = [shown EXCEPT ![u] = w]
  /\ overtaken' = [overtaken EXCEPT ![u] = @ \/ w < shown[u]]

\* did_close takes the diagnostics down; the pending task is left alone
Clear(h) ==
  /\ h.pc = "publish" /\ h.kind = "close"
  /\ Shows(h.uri, h.read)
  /\ handlers' = handlers \ {h}
  /\ UNCHANGED <<opened, documents, writes, pending, tasks, notified, scheduled>>

----------------------------------------------------------------------------
(* Tasks.                                                                  *)

\* the sleep is over: the task reads the document, none if it was closed, and scans
ReadDocument(t) ==
  /\ t.pc = "sleep"
  /\ tasks' = (tasks \ {t}) \cup {[t EXCEPT !.pc = "scan", !.read = writes[t.uri]]}
  /\ UNCHANGED <<opened, handlers, documents, writes, pending, shown, overtaken, notified, scheduled>>

Publish(t) ==
  /\ t.pc = "scan"
  /\ Shows(t.uri, t.read)
  /\ tasks' = tasks \ {t}
  /\ UNCHANGED <<opened, handlers, documents, writes, pending, notified, scheduled>>

\* an aborted task that would have to wait for the connection is dropped there
Drop(t) ==
  /\ t.pc = "scan" /\ t.aborted
  /\ tasks' = tasks \ {t}
  /\ UNCHANGED <<opened, handlers, documents, writes, pending, shown, overtaken, notified, scheduled>>

----------------------------------------------------------------------------

LspInit ==
  /\ opened = {} /\ handlers = {} /\ tasks = {}
  /\ documents = [u \in Uris |-> FALSE]
  /\ writes = [u \in Uris |-> 0] /\ shown = [u \in Uris |-> 0]
  /\ pending = [u \in Uris |-> 0]
  /\ overtaken = [u \in Uris |-> FALSE]
  /\ notified = 0 /\ scheduled = 0

Handle == \E h \in handlers : Starts(h) /\ (Documents(h) \/ Schedule(h) \/ Clear(h))
Work   == \E t \in tasks : ReadDocument(t) \/ Publish(t) \/ Drop(t)
Edit   == \E u \in Uris :
            \/ u \notin opened /\ Notify(u, "open")
            \/ u \in opened /\ \E kind \in {"change", "empty", "close"} : Notify(u, kind)

LspNext == Edit \/ Handle \/ Work

\* the runtime polls every handler and every task; the editor need not send anything
LspSpec == LspInit /\ [][LspNext]_lspVars /\ WF_lspVars(Handle) /\ WF_lspVars(Work)

----------------------------------------------------------------------------
(* Properties.                                                             *)

\* Debouncing postpones, it does not starve: whatever is written to a document, that write
\* or a later one is published in the end.
EditIsAnswered ==
  \A u \in Uris : \A w \in 1..MaxSent : writes[u] = w ~> (shown[u] >= w \/ overtaken[u])
=============================================================================
