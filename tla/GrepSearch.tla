---------------------------- MODULE GrepSearch ----------------------------
(***************************************************************************)
(* terraphim-grep: the hybrid search, the judgement of its results, the    *)
(* synthesis by a language model and the notes learned from it (lib.rs,    *)
(* hybrid_searcher.rs, sufficiency_judge.rs, kg_curation.rs).              *)
(*                                                                         *)
(* Each run of the program makes one search.  Runs may overlap and share   *)
(* the directory of learned notes (--kg-path), which nothing locks; a run  *)
(* may be killed in the middle of a note.  What the search engine finds,   *)
(* what the knowledge graph matches and what the model answers is chosen   *)
(* by the environment.  The build has the `llm` and `code-search` features *)
(* and the note directory is not among the searched paths.                 *)
(*                                                                         *)
(* A chunk is the line it shows, which of the searched paths it was found  *)
(* in and which copy of it this is: paths may overlap, and what is under   *)
(* two of them is found twice; expansion adds every chunk a second time.   *)
(* A chunk's boost is whether a concept of the knowledge graph matches it. *)
(***************************************************************************)
EXTENDS Naturals, Sequences, FiniteSets

CONSTANTS
  Searches,     \* runs of the program
  QueryWords,   \* the words of the query
  Lines,        \* the lines of the files
  Roots,        \* the directories and files that may be searched
  LinesOf,      \* LinesOf[d]: the lines under d
  WordsOf,      \* WordsOf[d][l]: the words line l, or its path below d, contains
  Aliased,      \* the lines that contain an alias of the query's exact term ...
  Named,        \* ... and those that contain one as a word of its own
  Boosted,      \* Boosted[d]: the lines that, or their path below d, a concept matches
  Options,      \* the options the runs may have
  Slugs,        \* file names of learned notes
  Thresholds,   \* the judge's thresholds: results, diversity, coverage and
                \* confidence in tenths
  PageCap,      \* the largest page when concepts rank it
  MaxConcepts,  \* bound: concepts in one answer of the model
  MaxCrashes,   \* bound: runs killed
  NoNote, Torn

ASSUME GrepAssumption ==
  /\ IsFiniteSet(QueryWords) /\ IsFiniteSet(Lines)
  /\ LinesOf \in [Roots -> SUBSET Lines] /\ Boosted \in [Roots -> SUBSET Lines]
  /\ WordsOf \in [Roots -> [Lines -> SUBSET QueryWords]]
  /\ Aliased \subseteq Lines /\ Named \subseteq Lines
  /\ Thresholds.results \in Nat /\ Thresholds.coverage \in Nat \ {0}
  /\ PageCap \in Nat
  /\ \A opts \in Options : opts.max \in Nat /\ opts.paths \in Seq(Roots)
  /\ MaxConcepts \in Nat /\ MaxCrashes \in Nat
  /\ NoNote \notin Searches /\ Torn \notin Searches

VARIABLES
  search,  \* search[s]: the search of run s
  notes,   \* notes[f]: what the learned note of slug f holds
  crashes

grepVars == <<search, notes, crashes>>

\* the concepts of the knowledge graph that match, by their average score
Concepts == {"none", "weak", "strong"}

\* The lines that chunks show, and the chunks as they were found.
Shown(chunks) == {c.line : c \in chunks}
Copied(chunks, n) == {[c EXCEPT !.copy = n] : c \in chunks}
Found(chunks) == Copied(chunks, 1)

Fresh(opts) == [pc |-> "graph", opts |-> opts, concepts |-> "none", chunks |-> {},
                exact |-> FALSE, calls |-> 0, answered |-> FALSE, cited |-> {},
                learnt |-> <<>>, status |-> "none"]

GrepTypeOK ==
  /\ \A s \in Searches :
       /\ search[s].pc \in {"graph", "code", "judge", "synthesis", "extract",
                            "check", "write", "done", "killed"}
       /\ search[s].opts \in Options
       /\ search[s].concepts \in Concepts
       /\ search[s].chunks \subseteq
            [line : Lines, root : DOMAIN search[s].opts.paths, copy : 1..2]
       /\ search[s].calls \in 0..2 /\ search[s].cited \subseteq Lines
       /\ search[s].status \in {"none", "failed", "SearchOnly", "RlmSynthesis", "RlmInsufficient"}
  /\ notes \in [Slugs -> Searches \cup {NoNote, Torn}]
  /\ crashes \in 0..MaxCrashes

----------------------------------------------------------------------------
(* The judge.                                                              *)

Covered(r) == UNION {WordsOf[r.opts.paths[c.root]][c.line] : c \in r.chunks}

\* the covered part of the query; an alias in a chunk stands for an exact query,
\* and is looked for as a word, where the search looks for any occurrence
StandsFor(r) == r.exact /\ Shown(r.chunks) \cap Named # {}
Covers(r, tenths) ==
  /\ r.chunks # {}
  /\ \/ StandsFor(r)
     \/ 10 * Cardinality(Covered(r)) >= tenths * Cardinality(QueryWords)
CoversSome(r) ==
  r.chunks # {} /\ (StandsFor(r) \/ QueryWords = {} \/ Covered(r) # {})

\* the average score: weak concepts score below the threshold
Confidence(r) ==
  CASE r.concepts = "none" -> 0 [] r.concepts = "weak" -> 2 [] OTHER -> 10

\* every chunk is of the haystack "code"
Diversity(r) == IF r.chunks = {} THEN 0 ELSE 1

Judged(r) ==
  LET enough == Cardinality(r.chunks) >= Thresholds.results IN
  CASE ~enough -> "Insufficient"
    [] /\ enough /\ Covers(r, Thresholds.coverage)
       /\ Confidence(r) >= Thresholds.confidence
       /\ Diversity(r) >= Thresholds.diversity -> "Sufficient"
    [] OTHER -> IF Covers(r, 3) THEN "NeedsSynthesis"
                ELSE IF CoversSome(r) THEN "NeedsExpansion"
                ELSE "Insufficient"

\* Mutant of Requested: a configured client is enough.
RequestedByClient(r) == r.opts.force \/ r.opts.answer \/ r.opts.client

\* rlm_requested
Requested(r) == r.opts.force \/ r.opts.answer

----------------------------------------------------------------------------
(* One search.                                                             *)

Becomes(s, r) == search' = [search EXCEPT ![s] = r]
Ends(s, r, status) == Becomes(s, [r EXCEPT !.pc = "done", !.status = status])

\* search_kg: the matches of the role graph, or of the thesaurus; the graph may refuse the query
SearchKg(s) ==
  LET r == search[s] IN
  /\ r.pc = "graph"
  /\ \/ Ends(s, r, "failed")
     \/ \E concepts \in Concepts, exact \in BOOLEAN :
          Becomes(s, [r EXCEPT !.pc = IF r.opts.docs THEN "judge" ELSE "code",
                               !.concepts = concepts, !.exact = exact])
  /\ UNCHANGED <<notes, crashes>>

\* The engine's page for each path is larger when concepts will rank what it finds.
Least(a, b) == IF a <= b THEN a ELSE b
Page(r) == IF r.concepts = "none" THEN r.opts.max ELSE Least(5 * r.opts.max, PageCap)

\* boost_chunks_with_kg: the sort is stable, so that no chunk is cut for one that no
\* concept matches and that was found in a later path.
Ranked(r, c) == r.concepts # "none" /\ c.line \in Boosted[r.opts.paths[c.root]]
Precedes(r, c, d) ==
  IF Ranked(r, d) THEN FALSE ELSE Ranked(r, c) \/ c.root < d.root
BestOf(r, found) ==
  {kept \in SUBSET found :
     /\ Cardinality(kept) = Least(Cardinality(found), r.opts.max)
     /\ \A d \in kept : \A c \in found \ kept : ~ Precedes(r, c, d)}

\* search_code in each path: an exact query looks for its aliases, any other for its own
\* text; what is found twice in one path is one hit.
Matches(r, d) == LinesOf[d] \cap (IF r.exact THEN Aliased ELSE Lines)
Hits(r) ==
  {hits \in [DOMAIN r.opts.paths -> SUBSET Lines] :
     \A k \in DOMAIN hits : /\ hits[k] \subseteq Matches(r, r.opts.paths[k])
                            /\ Cardinality(hits[k]) <= Page(r)}
ToChunks(hits) == UNION {[line : hits[k], root : {k}, copy : {1}] : k \in DOMAIN hits}

SearchCode(s) ==
  LET r == search[s] IN
  /\ r.pc = "code"
  /\ \/ Ends(s, r, "failed")
     \/ \E hits \in Hits(r) : \E kept \in BestOf(r, ToChunks(hits)) :
          Becomes(s, [r EXCEPT !.pc = "judge", !.chunks = kept])
  /\ UNCHANGED <<notes, crashes>>

\* search: force_rlm goes on whatever the judge says; NeedsExpansion adds the chunks again
Judge(s) ==
  LET r == search[s]
      kind == Judged(r) IN
  /\ r.pc = "judge"
  /\ IF r.opts.force THEN Becomes(s, [r EXCEPT !.pc = "synthesis"])
     ELSE IF kind = "Insufficient" THEN Ends(s, r, "RlmInsufficient")
     ELSE IF ~Requested(r) THEN Ends(s, r, "SearchOnly")
     ELSE Becomes(s, [r EXCEPT !.pc = "synthesis",
                               !.chunks = IF kind = "NeedsExpansion"
                                             THEN @ \cup Copied(@, 2) ELSE @])
  /\ UNCHANGED <<notes, crashes>>

\* search_with_rlm_fallback without a client
Degrade(s) ==
  /\ search[s].pc = "synthesis" /\ ~search[s].opts.client
  /\ Ends(s, search[s], "SearchOnly")
  /\ UNCHANGED <<notes, crashes>>

\* search_with_rlm_fallback: the call fails, or returns a text that may parse as an answer
Synthesize(s) ==
  LET r == [search[s] EXCEPT !.calls = @ + 1] IN
  /\ r.pc = "synthesis" /\ r.opts.client
  /\ \/ Ends(s, r, "failed")
     \/ \E parses \in BOOLEAN :
          LET told == IF r.opts.answer /\ parses
                      THEN [r EXCEPT !.answered = TRUE, !.cited = Shown(r.chunks)]
                      ELSE r IN
          IF r.opts.curate THEN Becomes(s, [told EXCEPT !.pc = "extract"])
          ELSE Ends(s, told, "RlmSynthesis")
  /\ UNCHANGED <<notes, crashes>>

\* extract_and_index: its failures, and an answer that does not parse, change nothing
Extract(s) ==
  LET r == [search[s] EXCEPT !.calls = @ + 1] IN
  /\ r.pc = "extract"
  /\ \/ Ends(s, r, "RlmSynthesis")
     \/ \E n \in 1..MaxConcepts : \E learnt \in [1..n -> Slugs] :
          Becomes(s, [r EXCEPT !.pc = "check", !.learnt = learnt])
  /\ UNCHANGED <<notes, crashes>>

NextNote(s, r) ==
  IF Len(r.learnt) = 1 THEN Ends(s, [r EXCEPT !.learnt = <<>>], "RlmSynthesis")
  ELSE Becomes(s, [r EXCEPT !.pc = "check", !.learnt = Tail(@)])

\* persist_concepts: a note that exists is left alone
CheckNote(s) ==
  LET r == search[s] IN
  /\ r.pc = "check"
  /\ IF notes[Head(r.learnt)] # NoNote THEN NextNote(s, r)
     ELSE Becomes(s, [r EXCEPT !.pc = "write"])
  /\ UNCHANGED <<notes, crashes>>

\* fs::write creates or truncates the file; an error is only logged and may leave part of it
WriteNote(s) ==
  LET r == search[s]
      f == Head(r.learnt) IN
  /\ r.pc = "write"
  /\ \E text \in {s, Torn, notes[f]} : notes' = [notes EXCEPT ![f] = text]
  /\ NextNote(s, r)
  /\ UNCHANGED crashes

\* the run is killed while it writes a note
KillWriting(s) ==
  /\ search[s].pc = "write" /\ crashes < MaxCrashes
  /\ crashes' = crashes + 1
  /\ notes' = [notes EXCEPT ![Head(search[s].learnt)] = Torn]
  /\ Becomes(s, [search[s] EXCEPT !.pc = "killed"])

GrepInit ==
  /\ \E opts \in [Searches -> Options] : search = [s \in Searches |-> Fresh(opts[s])]
  /\ notes = [f \in Slugs |-> NoNote]
  /\ crashes = 0

GrepNext ==
  \E s \in Searches :
    \/ SearchKg(s) \/ SearchCode(s) \/ Judge(s) \/ Degrade(s) \/ Synthesize(s)
    \/ Extract(s) \/ CheckNote(s) \/ WriteNote(s) \/ KillWriting(s)

GrepSpec == GrepInit /\ [][GrepNext]_grepVars

----------------------------------------------------------------------------
(* Properties.                                                             *)

\* "RLM synthesis is opt-in": whatever clients are configured and however runs overlap, the
\* model is called only by a run that asked for it and, unless forced, only on enough chunks
\* that cover a part of the query, of which the copies that expansion adds are none, but a
\* line does count once for each of the paths it was found in; an answer cites lines of its
\* own search only; and every learned note is of a run that was asked to synthesise and to learn.
SynthesisIsEarned ==
  /\ \A s \in Searches :
       LET r == search[s] IN
       /\ r.calls > 0 => /\ r.opts.client /\ (r.opts.force \/ r.opts.answer)
                         /\ r.opts.force \/ /\ Cardinality(Found(r.chunks)) >= Thresholds.results
                                            /\ CoversSome(r)
       /\ r.status = "RlmSynthesis" => r.calls > 0
       /\ r.answered => r.opts.answer /\ r.cited = Shown(r.chunks)
  /\ \A f \in Slugs : notes[f] \in Searches => search[notes[f]].calls = 2

=============================================================================
