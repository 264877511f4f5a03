--------------------------- MODULE CommandExecution ---------------------------
(***************************************************************************)
(* A markdown command on its way to a process: the checks of the validator *)
(* (commands/validator.rs), the pre and post hooks (commands/mod.rs and    *)
(* hooks.rs), and the executors of the three modes (commands/executor.rs,  *)
(* modes/).                                                                *)
(*                                                                         *)
(* A command line is a record of what the code asks of its text: its first *)
(* word, and which of the lists of words and patterns it matches.          *)
(***************************************************************************)
EXTENDS Integers, FiniteSets, Sequences, SequencesExt

CONSTANTS
    Tasks,        \* invocations in flight
    Requests,     \* [line, shown, mode, risk, limits]: what callers execute
    Permissions,  \* role -> its permissions, for the roles of the table
    Roles,        \* the roles callers have, listed in the table or not
    Limits,       \* word -> [max, window], for the words with a rate limit
    OpenTimes,    \* the times at which allowed_hours and allowed_days let commands run
    Graphs,       \* the sets of concepts a server may answer with; {} if there is no client
    PreHooks, PostHooks,  \* the hooks in the order they are added: [name, priority]
    OutsideDir,   \* whether preflight restricts directories and this one is not allowed
    LogMax, LogDrop,      \* audit_log: 1000 events; 100 are dropped when there are more
    MaxCalls,     \* bound: invocations of one behaviour
    MaxTime,      \* bound: ticks of the clock
    MaxJumps      \* bound: adjustments of the wall clock

Modes == {"local", "firecracker", "hybrid"}
Risks == {"low", "medium", "high", "critical"}

ASSUME ExecutionAssumption ==
    /\ \A r \in Requests : r.mode \in Modes /\ r.risk \in Risks /\ r.limits \in BOOLEAN
    /\ \A w \in DOMAIN Limits : Limits[w].max \in Nat /\ Limits[w].window \in Nat \ {0}
    /\ PreHooks \in Seq([name : STRING, priority : Int])
    /\ PostHooks \in Seq([name : STRING, priority : Int])
    /\ LogMax \in Nat \ {0} /\ LogDrop \in 1..LogMax
    /\ MaxCalls \in Nat /\ MaxTime \in Nat /\ MaxJumps \in Nat

VARIABLES
    now,          \* the wall clock
    ticks,        \* the time that really went by
    requests,     \* word -> the requests counted in its window: [at, tick, id]
    cache,        \* role -> the concepts cached for it, or <<>> for none
    log,          \* audit_log: the numbers of its events
    events,       \* history: how many events were logged
    granted,      \* history: word -> the requests its rate limit let pass since the last adjustment
    pc, req, role,  \* task -> where it is, what it executes and for whom
    ran,          \* task -> the hooks that ran in this phase, in order
    calls, jumps  \* invocations begun, adjustments made

vars == <<now, ticks, requests, cache, log, events, granted, pc, req, role, ran, calls, jumps>>
clock == <<now, ticks, jumps>>
validator == <<requests, cache, log, events, granted>>
task == <<req, role>>
None == [line |-> [word |-> "", flags |-> {}], shown |-> [word |-> "", flags |-> {}],
         mode |-> "local", risk |-> "low", limits |-> FALSE]

Has(l, f) == f \in l.flags

(* The next place of an invocation; one that is over is forgotten. *)
Goto(t, p) ==
    /\ pc' = [pc EXCEPT ![t] = p]
    /\ req' = IF p = "idle" THEN [req EXCEPT ![t] = None] ELSE req
    /\ role' = IF p = "idle" THEN [role EXCEPT ![t] = ""] ELSE role

-----------------------------------------------------------------------------
(* The validator.                                                          *)

HasRequiredPermissions(l, ps) ==
    /\ Has(l, "write") => "write" \in ps
    /\ Has(l, "high") \/ Has(l, "system") => "execute" \in ps

(* A role that is not in the table is refused nothing. *)
RoleAllows(l, r) == r \in DOMAIN Permissions => HasRequiredPermissions(l, Permissions[r])

(* Mutant of InWindow: a request is forgotten one unit too early. *)
InWindowShort(w) ==
    {r \in requests[w] : r.at <= now /\ now - r.at + 1 < Limits[w].window}

(* The counted requests still inside the window; one the clock was set     *)
(* back behind is forgotten (unwrap_or(Duration::MAX)).                    *)
InWindow(w) == {r \in requests[w] : r.at <= now /\ now - r.at < Limits[w].window}

RateAllows(w) == w \in DOMAIN Limits => Cardinality(InWindow(w)) < Limits[w].max

(* Mutant of Entered: the newest events are dropped. *)
EnteredWrongEnd(l, e) ==
    LET m == Append(l, e) IN IF Len(m) > LogMax THEN SubSeq(m, 1, Len(m) - LogDrop) ELSE m

(* log_security_event: the event is appended, and a log that has become too *)
(* long loses its oldest ones.                                             *)
Entered(l, e) ==
    LET m == Append(l, e) IN IF Len(m) > LogMax THEN SubSeq(m, LogDrop + 1, Len(m)) ELSE m

(* The events of the first n of the four checks, one after the other. *)
Logged(n) ==
    LET one == Entered(log, events + 1)
        two == Entered(one, events + 2)
        three == Entered(two, events + 3)
        four == Entered(three, events + 4)
    IN  log' = <<one, two, three, four>>[n] /\ events' = events + n

(* check_rate_limit: a request that passes is counted, whatever denies it  *)
(* afterwards.  The count of the events tells those of one moment apart.   *)
CheckRateLimit(w) ==
    IF w \notin DOMAIN Limits THEN UNCHANGED <<requests, granted>>
    ELSE LET new == IF RateAllows(w) THEN {[at |-> now, tick |-> ticks, id |-> events]} ELSE {}
         IN  /\ requests' = [requests EXCEPT ![w] = InWindow(w) \cup new]
             /\ granted' = [granted EXCEPT ![w] = @ \cup new]

(* validate_command_security: the blacklist, the rate limit, the hours and *)
(* the permissions, up to the first that denies.                           *)
Security(t) ==
    /\ pc[t] = "security"
    /\ LET l == req[t].line
           passes == <<~ Has(l, "black"), RateAllows(l.word), now \in OpenTimes,
                       RoleAllows(l, role[t])>>
           denied == {i \in 1..4 : ~ passes[i]}
           last == IF denied = {} THEN 4 ELSE CHOOSE i \in denied : \A j \in denied : i <= j
       IN  /\ Logged(last)
           /\ IF last = 1 THEN UNCHANGED <<requests, granted>> ELSE CheckRateLimit(l.word)
           /\ Goto(t, IF denied = {} THEN "validate" ELSE "idle")
    /\ UNCHANGED <<clock, cache, calls, ran>>

(* validate_command_execution_with_mode: the permissions, then the word    *)
(* must be a concept of the role.  The concepts are fetched once for each  *)
(* role; a fetch that fails, or none, allows every word and is not cached. *)
Validate(t) ==
    /\ pc[t] = "validate"
    /\ LET l == req[t].line
           r == role[t]
           KnownIn(g) == g # {} => l.word \in g
       IN  \/ /\ ~ RoleAllows(l, r) /\ Goto(t, "idle") /\ UNCHANGED cache
          \/ /\ RoleAllows(l, r) /\ cache[r] # <<>>
             /\ Goto(t, IF KnownIn(cache[r][1]) THEN "pre" ELSE "idle")
             /\ UNCHANGED cache
          \/ /\ RoleAllows(l, r) /\ cache[r] = <<>>
             /\ \/ Goto(t, "pre") /\ UNCHANGED cache
                \/ \E g \in Graphs : /\ cache' = [cache EXCEPT ![r] = <<g>>]
                                     /\ Goto(t, IF KnownIn(g) THEN "pre" ELSE "idle")
    /\ UNCHANGED <<clock, requests, log, events, granted, calls, ran>>

-----------------------------------------------------------------------------
(* The hooks: HookManager keeps them by descending priority, those of the  *)
(* same priority in the order they were added: the sort is stable.         *)

Ahead(hooks, i) ==
    {j \in 1..Len(hooks) : \/ hooks[j].priority > hooks[i].priority
                           \/ hooks[j].priority = hooks[i].priority /\ j <= i}
Sorted(hooks) ==
    [n \in 1..Len(hooks) |->
        hooks[CHOOSE i \in 1..Len(hooks) : Cardinality(Ahead(hooks, i)) = n]]

(* PreflightCheckHook looks at the command of the context, which need not  *)
(* be the line in the parameters.  The other built-in hooks never stop a   *)
(* command, whatever fails in them; one of a user may.                     *)
MayPass(t, h) == h.name = "preflight" => ~ Has(req[t].shown, "black") /\ ~ OutsideDir
MayFail(t, h) == h.name = "custom" \/ ~ MayPass(t, h)

PreHook(t) ==
    /\ pc[t] = "pre" /\ Len(ran[t]) < Len(PreHooks)
    /\ LET h == Sorted(PreHooks)[Len(ran[t]) + 1] IN
         \/ /\ MayPass(t, h)
            /\ ran' = [ran EXCEPT ![t] = Append(@, h)] /\ UNCHANGED <<pc, task>>
         \/ /\ MayFail(t, h)
            /\ Goto(t, "idle") /\ ran' = [ran EXCEPT ![t] = <<>>]
    /\ UNCHANGED <<clock, validator, calls>>

(* The post hooks run whether the command succeeded or not; the first that *)
(* fails ends them, and the call returns what the command returned.        *)
PostHook(t) ==
    /\ pc[t] = "post"
    /\ \/ /\ Len(ran[t]) < Len(PostHooks)
          /\ ran' = [ran EXCEPT ![t] = Append(@, Sorted(PostHooks)[Len(@) + 1])]
          /\ UNCHANGED <<pc, task>>
       \/ /\ Len(ran[t]) < Len(PostHooks) =>
                Sorted(PostHooks)[Len(ran[t]) + 1].name = "custom"
          /\ Goto(t, "idle") /\ ran' = [ran EXCEPT ![t] = <<>>]
    /\ UNCHANGED <<clock, validator, calls>>

-----------------------------------------------------------------------------
(* The executors.                                                          *)

(* modes/hybrid.rs: is_safe_for_local_execution; the safe words come       *)
(* before every other list.                                                *)
SafeForLocal(l, r) ==
    /\ r.risk \notin {"high", "critical"}
    /\ \/ Has(l, "hybrid_safe")
       \/ ~ Has(l, "hybrid_risky") /\ ~ Has(l, "keyword") /\ ~ Has(l, "dangerous") /\ ~ r.limits

(* assess_command_risk and determine_execution_mode: only a command of low *)
(* risk, or one that is defined as local, may stay on the host.            *)
AssessedLocal(l, r) ==
    /\ SafeForLocal(l, r)
    /\ r.mode = "local" \/ (r.mode = "hybrid" /\ r.risk = "low")

(* Mutant of LocalAccepts: a word of the whitelist is enough. *)
LocalAcceptsWord(l, r) ==
    /\ Has(l, "local")
    /\ r.limits => ~ Has(l, "many_args")

(* modes/local.rs: the words of the whitelist, with no shell character in  *)
(* an argument.                                                            *)
LocalAccepts(l, r) ==
    /\ Has(l, "local") /\ ~ Has(l, "meta")
    /\ r.limits => ~ Has(l, "many_args")

(* The mode of the definition picks the executor, not the validator.  The  *)
(* firecracker executor has no client here and refuses every command.      *)
Execute(t) ==
    /\ pc[t] = "pre" /\ Len(ran[t]) = Len(PreHooks)
    /\ LET r == req[t]
           l == r.line
           here == r.mode = "local" \/ (r.mode = "hybrid" /\ AssessedLocal(l, r))
       IN  \/ /\ here /\ LocalAccepts(l, r)
             /\ Goto(t, "running") /\ UNCHANGED ran
          \/ /\ Goto(t, "post")                     \* refused, or the spawn fails
             /\ ran' = [ran EXCEPT ![t] = <<>>]
    /\ UNCHANGED <<clock, validator, calls>>

(* The process ends, or its time is up and it is killed with the future. *)
Finish(t) ==
    /\ pc[t] = "running"
    /\ Goto(t, "post") /\ ran' = [ran EXCEPT ![t] = <<>>]
    /\ UNCHANGED <<clock, validator, calls>>

-----------------------------------------------------------------------------
(* Callers and the clock.                                                  *)

(* A caller asks the validator first, or goes to the executor directly. *)
Submit(t) ==
    /\ pc[t] = "idle" /\ calls < MaxCalls
    /\ calls' = calls + 1
    /\ \E r \in Requests, who \in Roles \cup {""}, p \in {"security", "pre"} :
         /\ (p = "pre") <=> (who = "")
         /\ req' = [req EXCEPT ![t] = r] /\ role' = [role EXCEPT ![t] = who]
         /\ pc' = [pc EXCEPT ![t] = p]
    /\ UNCHANGED <<clock, validator, ran>>

Tick ==
    /\ ticks < MaxTime
    /\ ticks' = ticks + 1 /\ now' = now + 1
    /\ UNCHANGED <<jumps, validator, pc, task, calls, ran>>

(* The wall clock is set forward or back. *)
Adjust ==
    /\ jumps < MaxJumps
    /\ jumps' = jumps + 1
    /\ now' \in 0..MaxTime \ {now}
    /\ granted' = [w \in DOMAIN Limits |-> {}]
    /\ UNCHANGED <<ticks, requests, cache, log, events, pc, task, calls, ran>>

Init ==
    /\ now = 0 /\ ticks = 0 /\ jumps = 0 /\ calls = 0
    /\ requests = [w \in DOMAIN Limits |-> {}] /\ granted = requests
    /\ cache = [r \in Roles |-> <<>>] /\ log = <<>> /\ events = 0
    /\ pc = [t \in Tasks |-> "idle"]
    /\ req = [t \in Tasks |-> None]
    /\ role = [t \in Tasks |-> ""]
    /\ ran = [t \in Tasks |-> <<>>]

Next ==
    \/ \E t \in Tasks : \/ Submit(t) \/ Security(t) \/ Validate(t)
                        \/ PreHook(t) \/ Execute(t) \/ Finish(t) \/ PostHook(t)
    \/ Tick \/ Adjust

Spec == Init /\ [][Next]_vars

-----------------------------------------------------------------------------
(* Properties.                                                             *)

(* The type invariant: the audit log is the end of what was logged, without *)
(* a gap, but for what a cut at the limit drops (validator.rs:461).         *)
TypeOK ==
    /\ now \in 0..(2 * MaxTime) /\ ticks \in 0..MaxTime /\ jumps \in 0..MaxJumps
    /\ \A w \in DOMAIN Limits : \A r \in requests[w] \cup granted[w] :
           r.at \in Nat /\ r.tick \in 0..ticks /\ r.id \in 0..(events - 1)
    /\ \A r \in Roles : cache[r] = <<>> \/ cache[r] \in {<<g>> : g \in Graphs}
    /\ Len(log) <= LogMax /\ (events <= LogMax => Len(log) = events)
    /\ events > LogMax => Len(log) > LogMax - LogDrop
    /\ \A i \in 1..Len(log) : log[i] = events - Len(log) + i
    /\ pc \in [Tasks -> {"idle", "security", "validate", "pre", "running", "post"}]

(* In any window at most max requests of a limited word pass its check     *)
(* while nobody adjusts the clock (validator.rs:374), however the window   *)
(* slides and whatever becomes of the requests that were counted.          *)
RateBound ==
    \A w \in DOMAIN Limits : \A s \in 0..ticks :
        Cardinality({r \in granted[w] : r.tick \in s..(s + Limits[w].window - 1)})
            <= Limits[w].max

(* A process is started on the host only for a word of the whitelist with  *)
(* no shell character in its arguments, and only after every pre hook let  *)
(* it pass, those of higher priority first - whatever the definition, the  *)
(* hybrid assessment or a caller that skips the validator says             *)
(* (modes/local.rs:72, mod.rs:353).                                        *)
StartedIsVetted ==
    \A t \in Tasks : pc[t] = "running" =>
        /\ Has(req[t].line, "local") /\ ~ Has(req[t].line, "meta")
        /\ Len(ran[t]) = Len(PreHooks) /\ ToSet(ran[t]) = ToSet(PreHooks)
        /\ \A i, j \in 1..Len(ran[t]) : i < j => ran[t][i].priority >= ran[t][j].priority
        /\ req[t].risk \in {"high", "critical"} => req[t].mode = "local"

=============================================================================
