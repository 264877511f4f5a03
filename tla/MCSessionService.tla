-------------------------- MODULE MCSessionService --------------------------
(* The session service alone, with two sources that have a session each.    *)
EXTENDS SessionService

MCSources == <<"claude", "cursor">>
MCSourceOf == [s \in {"c1", "d1"} |-> IF s = "c1" THEN "claude" ELSE "cursor"]
=============================================================================
