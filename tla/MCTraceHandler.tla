--------------------------- MODULE MCTraceHandler ---------------------------
(* Instances of TraceHandler for TLC; the .cfg files choose the commands and *)
(* the bounds.                                                               *)
EXTENDS TraceHandler

Either == {TRUE, FALSE}
Never == {FALSE}

\* States that differ only in what is not read any more, by a guard or by a
\* property, are one (LiveState).  Of a frame that the handler knows nothing of,
\* it is not read where it stands and what frame_stack_ and the lists made from
\* it hold of it: it reaches another statement, or is gone, before.
KnownPlaces == [i \in 1..Len(stack) |-> IF Known(i) THEN stack[i] ELSE Nowhere]

KnownTracked ==
    IF pc = "run" /\ outer = <<>>
    THEN [i \in 1..Len(stack) |->
             IF Known(i) /\ i <= Len(frame_stack) THEN frame_stack[i] ELSE Nowhere]
    ELSE [i \in 1..Len(frame_stack) |->
             IF i <= Len(stack) /\ ~Known(i) THEN Nowhere ELSE frame_stack[i]]

\* Levels are of interest only until a getter or an evaluation has run.
KnownListed(list, depth, levels) == [k \in 1..Len(list) |->
    <<IF Known(depth - k + 1) THEN list[k].at ELSE Nowhere, IF levels THEN list[k].level ELSE 0>>]

Interrupted(o) ==
    <<o.kind, o.base, KnownListed(o.frames, o.base, FALSE)>> \o
    IF o.kind = "condition" THEN <<o.hit, o.standing \intersect DOMAIN breakpoints>> ELSE <<>>

\* The switch distinguishes the step modes.  A step out does not look at the
\* statement, a step into not at the depth; a command writes what its mode needs.
\* The properties do not speak of a disturbed step.
StepOnly(m) == IF m \in StepModes THEN m ELSE "None"

Start(m, s) == IF m = "None" THEN <<>> ELSE
    <<IF m = "Into" THEN 0 ELSE s.depth, IF m = "Out" THEN Nowhere ELSE s.at>>

LiveMode == IF pc \in {"decide", "step"} THEN StepOnly(mode) ELSE "None"

LiveCommand == IF disturbed THEN <<>> ELSE
    <<cmd.mode, Start(cmd.mode, cmd), left /\ cmd.mode # "Into">>

LiveState == <<KnownPlaces, flags, StepOnly(step_mode), table, pc, KnownTracked,
    KnownListed(frames, Len(stack), ~disturbed),
    [i \in 1..Len(outer) |-> Interrupted(outer[i])],
    IF pc \in {"capture", "walk", "paused", "stuck"} THEN 0 ELSE hit,
    reason, disturbed, standing \intersect DOMAIN breakpoints,
    LiveMode, LiveCommand,
    Start(IF LiveMode # "None" THEN LiveMode ELSE StepOnly(step_mode), step_start)>>
=============================================================================
