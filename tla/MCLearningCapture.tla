------------------------- MODULE MCLearningCapture -------------------------
(* A small instance of the learning capture for TLC: a user speaks of tools, *)
(* now and then between backticks, which single quotes stand for here.       *)
EXTENDS LearningCapture

MCFailures == {[parts |-> <<"npm">>, op |-> "none", code |-> 1, error |-> <<"node">>]}
MCSayings == [type : {"tool-preference"}, original : {"npm", "'npm'"}, corrected : {"bun"}]
MCConcept == [w \in {"npm", "node"} |-> "javascript"]
MCCurated == [w \in {"npm"} |-> "uv"]
=============================================================================
