--------------------------- MODULE PauseContract ---------------------------
(***************************************************************************)
(* What a pause of the debugger promises, without threads, mutexes or      *)
(* condition variables:                                                    *)
(*   - an expression is asked and evaluated only while the script stands   *)
(*     still and the client has not let it go;                             *)
(*   - the reply is the value of the expression that was asked, and is     *)
(*     given before another one is asked;                                  *)
(*   - the script moves on only after it was let go, and never leaves an   *)
(*     expression unanswered.                                              *)
(* DebugSession implements it.                                             *)
(***************************************************************************)

CONSTANTS Exprs, NoExpr

VARIABLES
    stopped,    \* the script stands still
    released,   \* the client has let it go
    asked,      \* the outstanding expression, or NoExpr
    answer      \* the expression whose value has been computed, or NoExpr

contract == <<stopped, released, asked, answer>>

Init ==
    /\ stopped = FALSE
    /\ released = FALSE
    /\ asked = NoExpr
    /\ answer = NoExpr

Stop ==
    /\ ~stopped
    /\ stopped' = TRUE
    /\ released' = FALSE
    /\ UNCHANGED <<asked, answer>>

Ask(e) ==
    /\ stopped /\ ~released
    /\ asked = NoExpr
    /\ asked' = e
    /\ UNCHANGED <<stopped, released, answer>>

Evaluate ==
    /\ stopped /\ ~released
    /\ asked # NoExpr
    /\ answer' = asked
    /\ UNCHANGED <<stopped, released, asked>>

Reply ==
    /\ asked # NoExpr /\ answer = asked
    /\ asked' = NoExpr
    /\ answer' = NoExpr
    /\ UNCHANGED <<stopped, released>>

Release ==
    /\ stopped /\ asked = NoExpr
    /\ released' = TRUE
    /\ UNCHANGED <<stopped, asked, answer>>

Go ==
    /\ stopped /\ released
    /\ stopped' = FALSE
    /\ released' = FALSE
    /\ UNCHANGED <<asked, answer>>

Next == Stop \/ (\E e \in Exprs : Ask(e)) \/ Evaluate \/ Reply \/ Release \/ Go

Spec == Init /\ [][Next]_contract
=============================================================================
