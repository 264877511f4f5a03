--------------------------- MODULE LearningCapture ---------------------------
(***************************************************************************)
(* What the agent learns from commands that fail and from what its user    *)
(* says: the files of the two learning directories, the corrections        *)
(* suggested from them and the thesaurus compiled from them.               *)
(*                                                                         *)
(* A word stands for a command or for anything that a text mentions by     *)
(* name; a text is the sequence of the words it mentions.  Left out are    *)
(* the importance of a learning, which orders lists, the queries, and the  *)
(* redaction of secrets.  Captures and corrections hold the lock of the    *)
(* directory; what one that dies leaves behind is in AgentStore.           *)
(***************************************************************************)
EXTENDS Naturals, Sequences, Functions

CONSTANTS
  Failures,   \* commands that fail: parts, operator, exit code, words of the error
  Ignorable,  \* those of them that an ignore pattern matches
  Sayings,    \* what users say: type, original, corrected
  Fixes,      \* what users correct a learning with
  Quoted,     \* words written with backticks
  Backslash,  \* what decoding leaves of such a word
  Concept,    \* Concept[w]: the concept of the knowledge graph that w names
  Curated,    \* the thesaurus of "learn compile --merge-with"
  NoWord,     \* an empty text, no correction
  MaxFiles    \* bound: files of the two directories

ASSUME LearnAssumption ==
  /\ NoWord \notin Quoted \cup {Backslash}
  /\ \A f \in Failures : /\ f.parts \in Seq(Range(f.parts)) \ {<<>>}
                         /\ f.error \in Seq(Range(f.error))
  /\ MaxFiles \in Nat

VARIABLES
  inProject,  \* the working directory has a .terraphim
  files,      \* learning-*.md and correction-*.md, in the order of their creation
  compiled,   \* the output of "learn compile"
  said        \* history: what users said, with the file it went to

learnVars == <<inProject, files, compiled, said>>

Dirs == {"project", "global"}

\* where everything but --global reads and writes; TERRAPHIM_DEFAULT_DATA_PATH keeps it global
StorageLocation == IF inProject THEN "project" ELSE "global"

\* parse_chained_command: the part that is taken to have failed
FailingPart(f) == IF f.op = "and" \/ f.code = 0 THEN f.parts[1] ELSE f.parts[Len(f.parts)]

AnnotationText(f) == <<FailingPart(f)>> \o f.error

\* to_markdown escapes a backtick, and extract_code_after_heading ends at the next one
Decoded(w) == IF w \in Quoted THEN Backslash ELSE w

\* Mutant of Preferences: corrections of every type are compiled.
PreferencesOfAnyType(d) ==
  {i \in DOMAIN files : /\ files[i].dir = d /\ files[i].form = "correction"
                        /\ files[i].original # NoWord /\ files[i].corrected # NoWord}

\* the files of directory d that the compile takes: correction files that decode, of tool
\* preferences, with two texts
Preferences(d) ==
  {i \in DOMAIN files : /\ files[i].dir = d /\ files[i].form = "correction"
                        /\ files[i].type = "tool-preference"
                        /\ files[i].original # NoWord /\ files[i].corrected # NoWord}

Originals(d) == {files[i].original : i \in Preferences(d)}

\* compile_corrections_to_thesaurus: of several preferences about a word it is the last in the
\* order of the directory, which is any
Thesauri(d) ==
  {m \in [Originals(d) -> {files[i].corrected : i \in Preferences(d)}] :
     \A w \in Originals(d) :
       \E i \in Preferences(d) : files[i].original = w /\ files[i].corrected = m[w]}

\* where a text mentions a word that m has an entry for, and where it names such a concept
Known(text, m) == {i \in DOMAIN text : text[i] \in DOMAIN m}
Entities(text, m) ==
  {i \in DOMAIN text : text[i] \in DOMAIN Concept /\ Concept[text[i]] \in DOMAIN m}
Earliest(S) == CHOOSE i \in S : \A j \in S : i <= j

\* A word of the text itself goes before a concept that the text names.
Suggestion(text, m) ==
  LET words    == Known(text, m)
      entities == Entities(text, m)
  IN IF words # {} THEN m[text[Earliest(words)]]
     ELSE IF entities # {} THEN m[Concept[text[Earliest(entities)]]] ELSE NoWord

Learning(dir, command, chain, text, fix) ==
  [dir |-> dir, form |-> "learning", command |-> command, chain |-> chain, text |-> text,
   fix |-> fix]
Correction(dir, s) ==
  [dir |-> dir, form |-> "correction", type |-> s.type, original |-> Decoded(s.original),
   corrected |-> Decoded(s.corrected)]

LearnInit ==
  /\ inProject \in BOOLEAN /\ files = <<>> /\ compiled = <<>> /\ said = {}

\* capture_failed_command, from "learn capture" or the hook after a tool
CaptureFailed(f) ==
  /\ Len(files) < MaxFiles
  /\ f \notin Ignorable
  /\ \E m \in Thesauri(StorageLocation) :
       files' = Append(files, Learning(StorageLocation, FailingPart(f), Len(f.parts) > 1,
                                       AnnotationText(f), Suggestion(AnnotationText(f), m)))
  /\ UNCHANGED <<inProject, compiled, said>>

\* capture_correction, from "learn correction add" or the hook on a prompt
CaptureCorrection(s) ==
  /\ Len(files) < MaxFiles
  /\ files' = Append(files, Correction(StorageLocation, s))
  /\ said' = said \cup {[file |-> Len(files) + 1, dir |-> StorageLocation, type |-> s.type,
                         original |-> s.original, corrected |-> s.corrected]}
  /\ UNCHANGED <<inProject, compiled>>

\* correct_learning: of the Markdown files whose id has the prefix it rewrites the first as a
\* learning. A correction file decodes as one, without a command. The chain is not read back.
CorrectLearning(i, fix) ==
  /\ files[i].dir = StorageLocation
  /\ files' = [files EXCEPT ![i] =
       IF files[i].form = "learning"
       THEN [files[i] EXCEPT !.fix = fix, !.chain = FALSE]
       ELSE Learning(StorageLocation, NoWord, FALSE, <<>>, fix)]
  /\ UNCHANGED <<inProject, compiled, said>>

\* "learn compile": what was learned wins over the curated entries
Compile ==
  \E m \in Thesauri(StorageLocation), curated \in {<<>>, Curated} :
    /\ compiled' = [w \in DOMAIN m \cup DOMAIN curated |-> IF w \in DOMAIN m THEN m[w] ELSE curated[w]]
    /\ UNCHANGED <<inProject, files, said>>

\* A .terraphim appears in the working directory, and with it another storage location.
StartProject ==
  /\ ~inProject /\ inProject' = TRUE
  /\ UNCHANGED <<files, compiled, said>>

LearnNext ==
  \/ \E f \in Failures : CaptureFailed(f)
  \/ \E s \in Sayings : CaptureCorrection(s)
  \/ \E i \in DOMAIN files, fix \in Fixes : CorrectLearning(i, fix)
  \/ Compile
  \/ StartProject

LearnSpec == LearnInit /\ [][LearnNext]_learnVars

-----------------------------------------------------------------------------

\* Types: every file belongs to a directory, and what was said is in the file it went to.
LearnTypeOK ==
  /\ inProject \in BOOLEAN
  /\ Len(files) <= MaxFiles
  /\ \A i \in DOMAIN files :
       /\ files[i].dir \in Dirs
       /\ IF files[i].form = "learning"
          THEN files[i].chain \in BOOLEAN
          ELSE \E s \in said : /\ s.file = i /\ s.dir = files[i].dir
                               /\ files[i] = Correction(s.dir, s)
  /\ \A s \in said : s.file \in DOMAIN files

\* what was said about tools in directory d
SaidOfTools(d) ==
  {s \in said : /\ s.dir = d /\ s.type = "tool-preference"
                /\ s.original # NoWord /\ s.corrected # NoWord}

\* of this, what is about a word without backticks, in a file that correct_learning did not rewrite
InForce(d) ==
  {s \in SaidOfTools(d) : s.original \notin Quoted /\ files[s.file].form = "correction"}

\* the answers that files may give for the words of a text, and the concepts that it names
AnswersTo(d, words) ==
  {Decoded(s.corrected) : s \in {t \in SaidOfTools(d) : Decoded(t.original) \in words}}
ConceptsOf(words) == {Concept[w] : w \in words \cap DOMAIN Concept}

\* A command that fails is captured with what its user said to use instead of something that its
\* text mentions; without such a saying with one about a concept it names, or with nothing: never
\* with a correction of another kind or another place. A compile has what was said for every
\* word in force, whatever the curated thesaurus says (capture.rs:1070, compile.rs:93).
LearnedIsSuggested ==
  [][LET new  == files'[Len(files')]
         dir  == StorageLocation
         text == Range(new.text)
     IN /\ Len(files') > Len(files) /\ new.form = "learning" =>
             IF \E s \in InForce(dir) : s.original \in text
             THEN new.fix \in AnswersTo(dir, text)
             ELSE new.fix \in {NoWord} \cup AnswersTo(dir, text \cup ConceptsOf(text))
        /\ compiled' # compiled =>
             \A s \in InForce(dir) : /\ s.original \in DOMAIN compiled'
                                     /\ compiled'[s.original] \in AnswersTo(dir, {s.original})
    ]_learnVars

\* "This closes the learning feedback loop: user says "use X instead of Y" -> correction captured
\* -> compiled into thesaurus" (compile.rs:5): what a user said to use instead of a word is there
\* for the compile.
FeedbackLoop == \A d \in Dirs : \A s \in SaidOfTools(d) : s.original \in Originals(d)
=============================================================================
