--------------------------- MODULE MCDebugSession ---------------------------
(* Instances of DebugSession for TLC; the .cfg files choose the commands,    *)
(* the expressions, the start-up modes and the client's disciplines.         *)
EXTENDS DebugSession

Either == {TRUE, FALSE}
Always == {TRUE}
Never == {FALSE}
=============================================================================
