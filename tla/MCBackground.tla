---------------------------- MODULE MCBackground ----------------------------
(* The tasks and servers that run beside others: the update scheduler's      *)
(* loop, the language server's debounced diagnostics, the watcher of session *)
(* files and the calls of the MCP server.  They share nothing, so a          *)
(* behaviour is of the one named by "which" and the others rest.             *)
EXTENDS McpService, UpdateScheduler, LspServer, SessionWatch

CONSTANTS c1, c2, g1, g2, plain, r1, r2

VARIABLE which

Scheduling == which = "scheduler"
Serving    == which = "lsp"
Watching   == which = "watch"
Calling    == which = "mcp"

BackgroundInit ==
  /\ which \in {"scheduler", "lsp", "watch", "mcp"}
  /\ SchedulerInit /\ LspInit /\ WatchInit /\ Init
  /\ roles[r1] = g1 /\ (~Calling => roles[r2] = g1)  \* g1 and g2 are alike

BackgroundNext ==
  \/ Scheduling /\ SchedulerNext /\ UNCHANGED <<which, lspVars, watchVars, vars>>
  \/ Serving /\ LspNext /\ UNCHANGED <<which, schedulerVars, watchVars, vars>>
  \/ Watching /\ WatchNext /\ UNCHANGED <<which, schedulerVars, lspVars, vars>>
  \/ Calling /\ Next /\ UNCHANGED <<which, schedulerVars, lspVars, watchVars>>

\* the fairness of SchedulerFairSpec, LspSpec, WatchSpec and FairSpec, each for its own component
BackgroundSpec ==
  /\ BackgroundInit /\ [][BackgroundNext]_<<which, schedulerVars, lspVars, watchVars, vars>>
  /\ WF_schedulerVars(Scheduling /\ Tick)
  /\ \A r \in Runs : /\ WF_schedulerVars(Scheduling /\ RunStep(r))
                     /\ WF_schedulerVars(Scheduling /\ CheckEnds(r))
  /\ WF_schedulerVars(Scheduling /\ StopReturn)
  /\ WF_lspVars(Serving /\ Handle) /\ WF_lspVars(Serving /\ Work)
  /\ WF_watchVars(Watching /\ Watcher) /\ WF_watchVars(Watching /\ Age)
  /\ WF_watchVars(Watching /\ Receive)
  /\ \A c \in Calls : SF_vars(Calling /\ Continue(c))

\* The type invariant of the component that moves: the subscriber of the session watcher is
\* never sent more than its channel holds, no more notifications are handled at once than
\* tower-lsp allows, stop() awaits the run that was started last, and so on.
TypesOK == /\ Scheduling => SchedulerTypeOK
           /\ Serving => LspTypeOK
           /\ Watching => WatchTypeOK
           /\ Calling => TypeOK
=============================================================================
