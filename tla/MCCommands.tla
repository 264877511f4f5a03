----------------------------- MODULE MCCommands -----------------------------
(* What the commands of the programs do: markdown commands, registered,      *)
(* looked up and executed, the searches of terraphim-grep, the session       *)
(* service, the learnings of failed commands and their synchronisation to    *)
(* the wiki.  They share nothing that they change, so a behaviour is of the  *)
(* one named by "which" and the others rest.                                 *)
EXTENDS CommandExecution, CommandRegistry, GrepSearch, SessionService, WikiSync,
        LearningCapture, TLC

CONSTANTS s1, s2, t1, writer, reloader, searcher, reader, l1, l2, l3

VARIABLE which

(* Command lines that between them match every list of the code, and that    *)
(* the lists disagree about.                                                 *)
Line(w, fs) == [word |-> w, flags |-> fs]
Ls == Line("ls", {"local", "hybrid_safe"})
EchoSemi == Line("echo", {"local", "meta", "hybrid_safe", "dangerous"})
RmRf == Line("rm", {"write", "high", "black", "hybrid_risky", "keyword"})
Shutdown == Line("shutdown", {"high", "system", "hybrid_risky", "keyword"})
SearchLine == Line("search", {})
Touch == Line("touch", {"write"})

R(l, s, m, k, b) == [line |-> l, shown |-> s, mode |-> m, risk |-> k, limits |-> b]
MCRequests ==
    {R(SearchLine, SearchLine, "hybrid", "low", FALSE), R(Ls, Ls, "hybrid", "low", FALSE),
     R(Ls, RmRf, "local", "high", TRUE), R(EchoSemi, SearchLine, "hybrid", "low", FALSE),
     R(RmRf, RmRf, "local", "low", FALSE), R(Touch, Touch, "firecracker", "medium", FALSE),
     R(Shutdown, SearchLine, "hybrid", "critical", TRUE)}
MCPermissions == [Default |-> {"read"}, Engineer |-> {"read", "write", "execute"}]
MCRoles == {"Default", "guest"}
MCLimits == [search |-> [max |-> 2, window |-> 2]]
MCGraphs == {{}, {"search", "ls"}}
H(n, p) == [name |-> n, priority |-> p]
MCPreHooks == <<H("custom", 70), H("logging", 100), H("preflight", 90), H("backup", 70)>>
MCPostHooks == <<H("resource", 60), H("custom", 80)>>

(* Two names, of which a definition of the other uses one as its alias, and  *)
(* a second definition without that alias.                                   *)
A1 == [name |-> "a", aliases |-> {"b"}]
A2 == [name |-> "a", aliases |-> {}]
B == [name |-> "b", aliases |-> {}]
MCDefinitions == {A1, A2, B}
MCListings == {<<A2, B>>}
MCLoaded == {A1}
MCKinds == (writer :> {"register"}) @@ (reloader :> {"reload"})
           @@ (searcher :> {"resolve", "discover"}) @@ (reader :> {"stats", "build", "analyze"})

(* A tree and a directory in it.  A query of five words: a line without any, *)
(* a line with one, or two in the tree where its path has another, and a     *)
(* line with all of them.  The aliases of the query are found in two lines,  *)
(* but in one of them within a longer word.                                  *)
MCLinesOf == [d \in {"tree", "sub"} |-> IF d = "tree" THEN {l1, l2, l3} ELSE {l1, l2}]
MCWordsOf == [d \in {"tree", "sub"} |-> [l \in {l1, l2, l3} |->
  CASE l = l1 -> {} [] l = l2 -> (IF d = "tree" THEN {1, 2} ELSE {1}) [] OTHER -> 1..5]]
MCBoosted == [d \in {"tree", "sub"} |-> IF d = "tree" THEN {l2} ELSE {}]
MCThresholds == [results |-> 2, diversity |-> 2, coverage |-> 7, confidence |-> 5]
Opts(force, answer, client, curate, docs, paths) ==
  [force |-> force, answer |-> answer, client |-> client, curate |-> curate,
   docs |-> docs, paths |-> paths, max |-> 2]
MCOptions == {Opts(FALSE, FALSE, TRUE, TRUE, FALSE, <<"sub">>),
              Opts(FALSE, TRUE, TRUE, TRUE, FALSE, <<"sub", "tree">>),
              Opts(TRUE, TRUE, FALSE, FALSE, FALSE, <<"sub">>),
              Opts(TRUE, FALSE, TRUE, TRUE, TRUE, <<"tree">>)}

(* Two sources with a session each.                                          *)
MCSources == <<"claude", "cursor">>
MCSourceOf == [s \in {"c1", "d1"} |-> IF s = "c1" THEN "claude" ELSE "cursor"]

(* Two learnings with a page each, and one whose name is refused.            *)
MCPageOf == [l \in {"x", "y", "bad"} |->
  CASE l = "x" -> "X" [] l = "y" -> "Y" [] OTHER -> "-bad"]
MCBatches == {{"x", "bad"}, {"x", "y"}}

(* A word in single quotes is written between backticks.  npm, yarn and node *)
(* are names of the concept javascript, about which one may speak as well.   *)
Said(t, o, c) == [type |-> t, original |-> o, corrected |-> c]
Failed(parts, op, error) == [parts |-> parts, op |-> op, code |-> 1, error |-> error]
MCIgnorable == {Failed(<<"cargo-test">>, "none", <<>>)}
MCFailures == {Failed(<<"npm">>, "none", <<"node">>), Failed(<<"cd", "yarn">>, "or", <<>>),
               Failed(<<"npm", "yarn">>, "and", <<>>)} \cup MCIgnorable
MCSayings == {Said("tool-preference", "npm", "bun"), Said("tool-preference", "yarn", "'bun'"),
              Said("tool-preference", "'npm'", "bun"), Said("tool-preference", "", "bun"),
              Said("tool-preference", "javascript", "deno"), Said("naming", "yarn", "pnpm")}
MCConcept == [w \in {"npm", "yarn", "node"} |-> "javascript"]
MCCurated == [w \in {"npm", "pip"} |-> "uv"]

CommandsInit ==
  /\ which \in {"execution", "registry", "grep", "sessions", "wiki", "learn"}
  /\ Init /\ RegistryInit /\ GrepInit /\ SessionInit /\ WikiInit /\ LearnInit
  /\ which # "learn" => ~inProject
  /\ search[s2].opts = Opts(FALSE, TRUE, TRUE, TRUE, FALSE, <<"sub", "tree">>)
  /\ search[s1].opts # search[s2].opts
  /\ which # "grep" => search[s1].opts = Opts(FALSE, FALSE, TRUE, TRUE, FALSE, <<"sub">>)
  /\ which # "registry" => commands = [w \in Words |-> NoDef]
  /\ which # "sessions" => ~perCommand /\ onDisk = {}
  /\ IF which = "wiki" THEN trusted \in MCBatches ELSE trusted = {}

allVars == <<which, vars, registryVars, grepVars, sessionVars, wikiVars, learnVars>>

CommandsNext ==
  \/ /\ which = "execution" /\ Next
     /\ UNCHANGED <<which, registryVars, grepVars, sessionVars, wikiVars, learnVars>>
  \/ /\ which = "registry" /\ RegistryNext
     /\ UNCHANGED <<which, vars, grepVars, sessionVars, wikiVars, learnVars>>
  \/ /\ which = "grep" /\ GrepNext
     /\ UNCHANGED <<which, vars, registryVars, sessionVars, wikiVars, learnVars>>
  \/ /\ which = "sessions" /\ SessionNext
     /\ UNCHANGED <<which, vars, registryVars, grepVars, wikiVars, learnVars>>
  \/ /\ which = "wiki" /\ WikiNext
     /\ UNCHANGED <<which, vars, registryVars, grepVars, sessionVars, learnVars>>
  \/ /\ which = "learn" /\ LearnNext
     /\ UNCHANGED <<which, vars, registryVars, grepVars, sessionVars, wikiVars>>

CommandsSpec == CommandsInit /\ [][CommandsNext]_allVars

\* The type invariants of the components, each while it is the one that moves.
TypesOK ==
  /\ which = "execution" => TypeOK
  /\ which = "registry" => RegistryTypeOK
  /\ which = "grep" => GrepTypeOK
  /\ which = "sessions" => SessionTypeOK
  /\ which = "wiki" => WikiTypeOK
  /\ which = "learn" => LearnTypeOK
=============================================================================
