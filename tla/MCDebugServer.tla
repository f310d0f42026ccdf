---------------------------- MODULE MCDebugServer ----------------------------
(* Instances of DebugServer for TLC; the .cfg files choose the start-up mode *)
(* and the frames.                                                           *)
EXTENDS DebugServer

Either == {TRUE, FALSE}
Never == {FALSE}
=============================================================================
