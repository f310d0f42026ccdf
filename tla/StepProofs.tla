------------------------------ MODULE StepProofs ------------------------------
(***************************************************************************)
(* Stepping and breakpoints: the inductive invariant of TraceHandler, and  *)
(* what follows from it for every program, every depth of calls and of     *)
(* injected code, every number of breakpoints and every client: the types, *)
(* where a step stops and that it stops there, and that a breakpoint does. *)
(***************************************************************************)
EXTENDS TraceHandlerProofs

USE DEF Stacks, vars, engine, flags, steps, table, locals, history

\* The fields and locals that are not sequences, and the bounds.
Scalars ==
    /\ Len(stack) <= MaxDepth /\ Len(frame_stack) <= MaxDepth /\ Len(outer) <= MaxNest
    /\ enabled \in BOOLEAN /\ pause_requested \in BOOLEAN /\ pause_on_start \in BOOLEAN
    /\ step_mode \in Modes /\ mode \in Modes
    /\ step_start \in [depth : 0..MaxDepth, at : Frame]
    /\ next_bp_id \in 1..MaxBps + 1
    /\ \A id \in DOMAIN breakpoints : breakpoints[id] \in [at : BpPlaces, cond : BOOLEAN]
    /\ bp_active \in BOOLEAN
    /\ pc \in {"run", "decide", "lookup", "condition", "step", "capture", "walk", "paused", "stuck"}
    /\ hit \in 0..next_bp_id - 1
    /\ reason \in {"none", "pause", "entry", "breakpoint", "step"}
    /\ cmd \in [mode : StepModes \union {"None"}, depth : 0..MaxDepth, at : Frame]
    /\ left \in BOOLEAN /\ disturbed \in BOOLEAN

\* A handler runs on a frame whose last statement it was told of, and so do
\* those that injected code has interrupted.
Placed ==
    /\ pc # "run" => Known(Len(stack))
    /\ \A i \in 1..Len(outer) : Known(outer[i].base)

\* Once the handler has run, frame_stack_ is not empty; while a pause captures
\* and waits, it is as deep as the engine's stack, unless injected code disturbed
\* it.
Reached ==
    /\ pc # "run" \/ outer # <<>> => Len(frame_stack) >= 1
    /\ pc \in {"walk", "paused"} /\ ~disturbed => Len(frame_stack) = Len(stack)

\* The step state is the client's command until the step's end: no command
\* outlives a pause, and the session's mode, start and depth are those the
\* client gave, counted on the engine's stack.
Commanded ==
    /\ pc \in {"decide", "lookup", "step"} => mode = step_mode
    /\ pc \in {"walk", "paused", "stuck"} => disturbed \/ cmd = NoCommand
    /\ cmd.mode \in StepModes /\ ~disturbed =>
          /\ left \/ Len(stack) >= cmd.depth
          /\ pc \notin {"capture", "walk", "paused", "stuck"} =>
                step_mode = cmd.mode /\ step_start = [depth |-> cmd.depth, at |-> cmd.at]
    /\ pc = "capture" /\ reason = "step" /\ ~disturbed =>
          /\ cmd.mode = "Over" => Len(stack) <= cmd.depth /\ stack[Len(stack)] # cmd.at
          /\ cmd.mode = "Out" => Len(stack) < cmd.depth

\* What the handler knows of the breakpoints at its statement: an unconditional
\* one in force is not passed by, except after one with a lower id.
Watched ==
    /\ standing \subseteq 1..next_bp_id - 1
    /\ DOMAIN breakpoints \subseteq 1..next_bp_id - 1
    /\ pc = "step" => standing = {}
    /\ pc = "lookup" =>
          \A id \in standing \intersect DOMAIN breakpoints :
              breakpoints[id].at = stack[Len(stack)] /\ ~breakpoints[id].cond
    /\ pc = "condition" => Behind(hit, standing)

\* The same for the handlers that injected code has interrupted.
Interrupted ==
    \A i \in 1..Len(outer) :
        /\ outer[i].standing \subseteq 1..next_bp_id - 1
        /\ outer[i].hit \in 0..next_bp_id - 1
        /\ outer[i].kind = "condition" => Behind(outer[i].hit, outer[i].standing)

\* What a step preserves.
StepInvariant ==
    /\ FrameInvariant /\ Scalars
    /\ Placed /\ Reached /\ Commanded
    /\ Watched /\ Interrupted

\* The parts that give the types.
LEMMA TypesOf == FrameInvariant /\ Scalars /\ Watched /\ Interrupted => TypeOK
<1> SUFFICES ASSUME FrameInvariant, Scalars, Watched, Interrupted
             PROVE  TypeOK
  OBVIOUS
<1>1. /\ stack \in Seq(Frame) /\ Len(stack) \in 1..MaxDepth /\ unseen \subseteq 1..Len(stack)
      /\ frame_stack \in Seq(Frame) /\ Len(frame_stack) \in 0..MaxDepth
      /\ frames \in Listings
  BY HandlerAssumption DEF FrameInvariant, Typed, Scalars, Listed, Listings
<1>2. ASSUME NEW i \in 1..Len(outer)
      PROVE  outer[i] \in [kind : {"condition", "getter", "evaluate"}, base : 1..MaxDepth,
                           hit : 0..MaxBps, standing : SUBSET (1..MaxBps), frames : Listings]
  <2>1. outer[i] \in Interruption /\ outer[i].base < Len(stack)
    BY DEF FrameInvariant, Typed, Nested
  <2>2. outer[i].base \in 1..MaxDepth
    BY <1>1, <2>1, Fields, HandlerAssumption
  <2>3. outer[i].hit \in 0..MaxBps /\ outer[i].standing \subseteq 1..MaxBps
    <3>1. next_bp_id \in 1..MaxBps + 1 /\ MaxBps \in Nat
      BY HandlerAssumption DEF Scalars
    <3>2. outer[i].standing \subseteq 1..next_bp_id - 1 /\ outer[i].hit \in 0..next_bp_id - 1
      BY DEF Interrupted
    <3>3. next_bp_id - 1 \in 0..MaxBps
      BY <3>1
    <3> QED
      BY <3>1, <3>2, <3>3
  <2> QED
    BY <2>1, <2>2, <2>3 DEF Interruption, Listed, Listings
<1> QED
  BY <1>1, <1>2 DEF Scalars, Watched, TypeOK

\* Lengths are numbers, and interrupted handlers stand below the running one.
LEMMA Sizes ==
    ASSUME FrameInvariant
    PROVE  /\ Len(stack) \in Nat /\ Len(stack) >= 1
           /\ Len(frame_stack) \in Nat /\ Len(frames) \in Nat /\ Len(outer) \in Nat
           /\ Last(stack) = stack[Len(stack)]
           /\ outer = <<>> <=> Len(outer) = 0
           /\ \A i \in 1..Len(outer) : /\ outer[i] \in Interruption
                                       /\ outer[i].base \in Nat
                                       /\ 1 <= outer[i].base /\ outer[i].base < Len(stack)
<1>1. /\ Len(stack) \in Nat /\ Len(stack) >= 1
      /\ Len(frame_stack) \in Nat /\ Len(frames) \in Nat /\ Len(outer) \in Nat
      /\ Last(stack) = stack[Len(stack)] /\ (outer = <<>> <=> Len(outer) = 0)
  BY DEF FrameInvariant, Typed, Last
<1>2. \A i \in 1..Len(outer) : /\ outer[i] \in Interruption
                               /\ outer[i].base \in Nat
                               /\ 1 <= outer[i].base /\ outer[i].base < Len(stack)
  BY OuterFields DEF FrameInvariant, Nested
<1> QED
  BY <1>1, <1>2

\* The stack has a frame more, and below it nothing has changed.
Grows ==
    /\ Len(stack') = Len(stack) + 1
    /\ \A k \in 1..Len(stack) : stack'[k] = stack[k] /\ (k \in unseen' <=> k \in unseen)

\* Pushing a frame.
LEMMA Grown ==
    ASSUME FrameInvariant, stack' = Append(stack, Nowhere), UNCHANGED unseen
    PROVE  Grows
<1>1. stack \in Seq(Frame) /\ Nowhere \in Frame
  BY DEF FrameInvariant, Typed, Frame
<1> QED
  BY <1>1, AppendProperties DEF Grows

\* The stack has lost its top frame.
Shrinks ==
    /\ Len(stack') = Len(stack) - 1
    /\ \A k \in 1..Len(stack) - 1 : stack'[k] = stack[k] /\ (k \in unseen' <=> k \in unseen)

\* Popping one.
LEMMA Shrunk ==
    ASSUME FrameInvariant, stack' = Front(stack), unseen' = unseen \ {Len(stack)}
    PROVE  Shrinks
<1>1. stack \in Seq(Frame) /\ Len(stack) >= 1
  BY DEF FrameInvariant, Typed
<1> QED
  BY <1>1, FrontOf DEF Shrinks

\* The top frame has changed, and no other.
Turns ==
    /\ Len(stack') = Len(stack)
    /\ \A k \in 1..Len(stack) - 1 : stack'[k] = stack[k] /\ (k \in unseen' <=> k \in unseen)

\* The top frame is at p, and tracked.
Topped(p) ==
    /\ Turns
    /\ stack'[Len(stack)] = p /\ Len(stack) \notin unseen'
    /\ Len(frame_stack') = Len(stack)

\* Reaching a statement that the handler is not told of.
LEMMA TopSkipped ==
    ASSUME FrameInvariant, NEW p \in Places \union {Injected}, Skip(p)
    PROVE  Turns
<1>1. stack \in Seq(Frame) /\ Len(stack) >= 1 /\ Len(stack) \in Nat
  BY DEF FrameInvariant, Typed
<1> QED
  BY <1>1 DEF Skip, Turns, ReplaceAt

\* Reaching a statement that it is told of.
LEMMA TopSeen ==
    ASSUME FrameInvariant, NEW p \in Frame, stack' = ReplaceAt(stack, Len(stack), p),
           unseen' = unseen \ {Len(stack)}, frame_stack' = Track(Len(stack), p)
    PROVE  Topped(p)
<1>1. stack \in Seq(Frame) /\ Len(stack) >= 1 /\ frame_stack \in Seq(Frame) /\ Len(stack) \in Nat
  BY DEF FrameInvariant, Typed
<1>2. Len(frame_stack') = Len(stack)
  BY <1>1, TrackOf
<1> QED
  BY <1>1, <1>2 DEF Topped, Turns, ReplaceAt

\* Injected code starts.
Starts(kind) ==
    /\ Grows
    /\ Len(outer') = Len(outer) + 1
    /\ \A i \in 1..Len(outer) : outer'[i] = outer[i]
    /\ outer'[Len(outer) + 1].kind = kind
    /\ outer'[Len(outer) + 1].base = Len(stack)
    /\ outer'[Len(outer) + 1].hit = hit
    /\ outer'[Len(outer) + 1].standing = standing

\* What Inject does to the stack and to the interrupted handlers.
LEMMA Started ==
    ASSUME FrameInvariant, NEW kind \in {"condition", "getter", "evaluate"},
           NEW list \in Seq(Listed), Inject(kind, list)
    PROVE  Starts(kind)
<1> DEFINE e == [kind |-> kind, base |-> Len(stack), hit |-> hit,
                 standing |-> standing, frames |-> list]
<1>1. e \in Interruption
  BY DEF FrameInvariant, Typed, Interruption
<1>2. outer' = Append(outer, e) /\ stack' = Append(stack, Nowhere) /\ UNCHANGED unseen
  BY DEF Inject
<1>3. e.kind = kind /\ e.base = Len(stack) /\ e.hit = hit /\ e.standing = standing
  OBVIOUS
<1>4. outer \in Seq(Interruption)
  BY DEF FrameInvariant, Typed
<1> HIDE DEF e
<1>5. /\ Len(outer') = Len(outer) + 1
      /\ \A i \in 1..Len(outer) : outer'[i] = outer[i]
      /\ outer'[Len(outer) + 1] = e
  BY <1>1, <1>2, <1>4, AppendProperties
<1> QED
  BY <1>2, <1>3, <1>5, Grown DEF Starts

\* Injected code ends.
Ends(kind) ==
    /\ Shrinks
    /\ Len(outer) >= 1 /\ Len(outer') = Len(outer) - 1
    /\ \A i \in 1..Len(outer) - 1 : outer'[i] = outer[i]
    /\ Last(outer) = outer[Len(outer)] /\ Last(outer).kind = kind
    /\ Len(stack') = outer[Len(outer)].base
    /\ \A i \in 1..Len(outer) - 1 : outer[i].base < Len(stack')
    /\ left' \in BOOLEAN
    /\ left' <=> left \/ Len(stack') < cmd.depth

\* What InjectedEnds does to them.
LEMMA Ended ==
    ASSUME FrameInvariant, NEW kind, InjectedEnds(kind)
    PROVE  Ends(kind)
<1>1. /\ outer # <<>> /\ Last(outer).kind = kind /\ Len(stack) = Base + 1
      /\ stack' = Front(stack) /\ unseen' = unseen \ {Len(stack)} /\ outer' = Front(outer)
  BY DEF InjectedEnds
<1>0. left' \in BOOLEAN /\ (left' <=> left \/ Len(stack') < cmd.depth)
  BY Zenon DEF InjectedEnds
<1>2. outer \in Seq(Interruption) /\ Len(outer) >= 1
  BY <1>1 DEF FrameInvariant, Typed
<1>3. /\ Len(outer') = Len(outer) - 1
      /\ \A i \in 1..Len(outer) - 1 : outer'[i] = outer[i]
  BY <1>1, <1>2, FrontOf
<1>4. Last(outer) = outer[Len(outer)] /\ Base = outer[Len(outer)].base
  BY <1>1, <1>2 DEF Last, Base
<1>5. Shrinks
  BY <1>1, Shrunk
<1>6. Len(stack') = outer[Len(outer)].base
  BY <1>1, <1>2, <1>4, <1>5, Sizes DEF Shrinks
<1>7. \A i \in 1..Len(outer) - 1 : outer[i].base < Len(stack')
  BY <1>2, <1>6 DEF FrameInvariant, Nested
<1> QED
  BY <1>0, <1>1, <1>2, <1>3, <1>4, <1>5, <1>6, <1>7 DEF Ends

\* The engine's calls, returns and statements in these terms.
LEMMA CallGrows ==
    ASSUME FrameInvariant, Call
    PROVE  Grows
  BY Grown DEF Call

LEMMA LeaveShrinks ==
    ASSUME FrameInvariant, Leave
    PROVE  /\ Shrinks /\ UNCHANGED outer
           /\ \A i \in 1..Len(outer) : outer[i].base < Len(stack')
           /\ left' \in BOOLEAN /\ (left' <=> left \/ Len(stack') < cmd.depth)
<1>1. /\ stack' = Front(stack) /\ unseen' = unseen \ {Len(stack)}
      /\ Len(stack) > Base + 1 /\ UNCHANGED outer
  BY DEF Leave
<1>2. Shrinks
  BY <1>1, Shrunk
<1>3. ASSUME NEW i \in 1..Len(outer)
      PROVE  outer[i].base < Len(stack')
  <2>1. Base \in Nat /\ outer[i].base <= Base
    BY <1>3, Sizes, OuterPop DEF FrameInvariant
  <2> QED
    BY <1>1, <1>2, <2>1, Sizes DEF Shrinks
<1>4. left' \in BOOLEAN /\ (left' <=> left \/ Len(stack') < cmd.depth)
  BY Zenon DEF Leave
<1> QED
  BY <1>1, <1>2, <1>3, <1>4

LEMMA TraceTops ==
    ASSUME FrameInvariant, NEW p \in Places \union {Injected}, Trace(p)
    PROVE  Topped(p) /\ UNCHANGED outer
<1>1. p \in Frame
  BY DEF Frame
<1> QED
  BY <1>1, TopSeen DEF Trace

\* The three ways to start injected code.
LEMMA ConditionStarts ==
    ASSUME FrameInvariant, EvaluateCondition
    PROVE  Starts("condition")
<1>1. frames \in Seq(Listed)
  BY DEF FrameInvariant, Typed
<1> QED
  BY <1>1, Started DEF EvaluateCondition

LEMMA EvaluateStarts ==
    ASSUME FrameInvariant, Evaluate
    PROVE  Starts("evaluate")
<1>1. frames \in Seq(Listed)
  BY DEF FrameInvariant, Typed
<1> QED
  BY <1>1, Started DEF Evaluate

LEMMA GetterStarts ==
    ASSUME FrameInvariant, RunGetter
    PROVE  Starts("getter")
<1>1. PICK j \in 1..Len(stack) :
          j <= Len(stack) - Len(frames) + 1 /\ Inject("getter", Listing(j))
  BY DEF RunGetter
<1>2. Typed /\ Tracked /\ Lists(frames, Seen, Len(stack)) /\ Len(stack) <= Len(frame_stack)
  BY DEF RunGetter, FrameInvariant, Current
<1>3. Listing(j) \in Seq(Listed)
  BY <1>1, <1>2, ListingOf
<1> QED
  BY <1>1, <1>3, Started

\* The handler that continues stands on a known statement.
LEMMA EndsPlaced ==
    ASSUME FrameInvariant, Placed, NEW kind, Ends(kind)
    PROVE  /\ Known(Len(stack))'
           /\ \A i \in 1..Len(outer') : Known(outer[i].base)'
<1>1. Len(outer) \in 1..Len(outer)
  BY Sizes DEF Ends
<1>2. Len(stack') \in 1..Len(stack) - 1 /\ Known(Len(stack'))
  BY <1>1, Sizes DEF Ends, Shrinks, Placed, Known
<1>3. Known(Len(stack))'
  BY <1>2 DEF Ends, Shrinks, Known
<1>4. ASSUME NEW i \in 1..Len(outer')
      PROVE  Known(outer[i].base)'
  <2>1. i \in 1..Len(outer) /\ outer'[i] = outer[i] /\ outer[i].base < Len(stack')
    BY Sizes DEF Ends
  <2>2. outer[i].base \in 1..Len(stack) - 1 /\ Known(outer[i].base)
    BY <2>1, Sizes DEF Placed
  <2> QED
    BY <2>1, <2>2 DEF Ends, Shrinks, Known
<1> QED
  BY <1>3, <1>4

\* After capture_frames the tracked stack is as high as the engine's
\* (debug_session.cpp:537-574).
LEMMA CaptureTracks ==
    ASSUME FrameInvariant, Capture
    PROVE  Len(frame_stack') = Len(stack)
<1>1. Len(stack) \in Nat /\ Last(stack) \in Frame /\ frame_stack \in Seq(Frame)
  BY DEF FrameInvariant, Typed, Last
<1> QED
  BY <1>1, TrackOf DEF Capture

\* The second search takes the matching breakpoint with the least id
\* (debug_session.cpp:951-980).
LEMMA LookupFinds ==
    ASSUME FrameInvariant, Lookup
    PROVE  /\ Matching = {} => hit' = 0
           /\ Matching # {} => hit' \in Matching /\ \A id \in Matching : hit' <= id
           /\ pc' = "condition" => Matching # {} /\ breakpoints[hit'].cond
           /\ pc' \in {"condition", "capture"}
<1>1. Matching \in SUBSET Nat
  BY DEF Matching, FrameInvariant, Typed
<1>2. Matching # {} => Min(Matching) \in Matching /\ \A id \in Matching : Min(Matching) <= id
  BY <1>1, LeastOf
<1> QED
  BY <1>1, <1>2 DEF Lookup, Stop

\* The frame a step command is given at is known and, undisturbed, the engine's
\* (debug_session.cpp:304-343).
LEMMA ControlGiven ==
    ASSUME StepInvariant, NEW m \in StepModes \union {"Continue"}, Control(m)
    PROVE  /\ disturbed' \in BOOLEAN /\ (disturbed' <=> disturbed /\ m \in StepModes)
           /\ pause_requested' \in BOOLEAN
           /\ stack[Len(stack)] \in Frame /\ stack[Len(stack)] # Nowhere
           /\ Len(frame_stack) >= 1 /\ Last(frame_stack) \in Frame
           /\ ~disturbed => /\ Len(frame_stack) = Len(stack)
                            /\ Last(frame_stack) = Last(stack)
<1>1. disturbed' \in BOOLEAN /\ (disturbed' <=> disturbed /\ m \in StepModes)
  BY Zenon DEF Control, Remember
<1>2. pause_requested' \in BOOLEAN
  BY Zenon DEF Control
<1>3. stack \in Seq(Frame) /\ frame_stack \in Seq(Frame) /\ Len(stack) >= 1 /\ pc = "paused"
  BY DEF StepInvariant, FrameInvariant, Typed, Control
<1>4. /\ Known(Len(stack)) /\ stack[Len(stack)] # Nowhere /\ Len(frame_stack) >= 1
      /\ ~disturbed => Len(frame_stack) = Len(stack)
  BY <1>3 DEF StepInvariant, Placed, Reached, Known
<1>5. /\ stack[Len(stack)] \in Frame
      /\ Last(frame_stack) = frame_stack[Len(frame_stack)] /\ Last(frame_stack) \in Frame
      /\ Last(stack) = stack[Len(stack)]
  BY <1>3, <1>4 DEF Last
<1>6. ~disturbed => frame_stack[Len(stack)] = stack[Len(stack)]
  <2>1. Len(stack) \in 1..Len(stack) /\ Seen[Len(stack)] = stack[Len(stack)]
    BY <1>3, <1>4 DEF Seen
  <2> QED
    BY <1>4, <2>1 DEF StepInvariant, FrameInvariant, Tracked
<1> QED
  BY <1>1, <1>2, <1>4, <1>5, <1>6

\* Interrupted is kept where injected code starts and where it ends.
LEMMA StartsInterrupted ==
    ASSUME StepInvariant, NEW kind, Starts(kind), UNCHANGED table,
           kind = "condition" => Behind(hit, standing)
    PROVE  Interrupted'
<1> SUFFICES ASSUME NEW i \in 1..Len(outer) + 1
             PROVE  /\ outer'[i].standing \subseteq 1..next_bp_id - 1
                    /\ outer'[i].hit \in 0..next_bp_id - 1
                    /\ outer'[i].kind = "condition" => Behind(outer'[i].hit, outer'[i].standing)
  BY DEF Starts, Interrupted, Behind
<1>1. CASE i = Len(outer) + 1
  BY <1>1 DEF Starts, StepInvariant, Scalars, Watched
<1>2. CASE i # Len(outer) + 1
  <2>1. i \in 1..Len(outer) /\ outer'[i] = outer[i]
    BY <1>2, Sizes DEF StepInvariant, Starts
  <2> QED
    BY <2>1 DEF StepInvariant, Interrupted
<1> QED
  BY <1>1, <1>2

LEMMA EndsInterrupted ==
    ASSUME StepInvariant, NEW kind, Ends(kind), UNCHANGED table
    PROVE  Interrupted'
<1> SUFFICES ASSUME NEW i \in 1..Len(outer')
             PROVE  /\ outer'[i].standing \subseteq 1..next_bp_id - 1
                    /\ outer'[i].hit \in 0..next_bp_id - 1
                    /\ outer'[i].kind = "condition" => Behind(outer'[i].hit, outer'[i].standing)
  BY DEF Interrupted, Behind
<1>1. i \in 1..Len(outer) /\ outer'[i] = outer[i]
  BY Sizes DEF StepInvariant, Ends
<1> QED
  BY <1>1 DEF StepInvariant, Interrupted

\* Each action keeps the types and the bounds.
LEMMA NextScalars ==
    ASSUME StepInvariant, [Next]_vars
    PROVE  Scalars'
<1> USE HandlerAssumption DEF StepInvariant, Scalars, Frame, Modes, StepModes, NoCommand
<1>1. CASE Call
  BY <1>1, Sizes, CallGrows DEF Call, Grows
<1>2. CASE Leave
  BY <1>2, Sizes, LeaveShrinks DEF Leave, Shrinks
<1>3. ASSUME NEW p \in Places \union {Injected}, Trace(p)
      PROVE  Scalars'
  BY <1>3, Sizes, TraceTops DEF Trace, Topped, Turns, Here
<1>4. CASE TakeRequest
  <2>1. pause_requested' \in BOOLEAN
    BY <1>4, Zenon DEF TakeRequest
  <2> QED
    BY <1>4, <2>1, Sizes DEF TakeRequest, Stop
<1>5. CASE TakeEntry
  <2>1. pause_on_start' \in BOOLEAN
    BY <1>5, Zenon DEF TakeEntry
  <2> QED
    BY <1>5, <2>1, Sizes DEF TakeEntry, Stop
<1>6. CASE CheckBreakpoint
  BY <1>6, Sizes DEF CheckBreakpoint, Matching
<1>7. CASE Lookup
  <2>1. hit' \in 0..next_bp_id - 1
    BY <1>7, LookupFinds DEF Matching, Watched
  <2> QED
    BY <1>7, <2>1, LookupFinds, Sizes DEF Lookup, Stop
<1>8. CASE EvaluateCondition
  BY <1>8, Sizes, ConditionStarts DEF EvaluateCondition, Inject, Returns, Starts, Grows
<1>9. CASE ConditionFalsy /\ InjectedEnds("condition")
  BY <1>9, Sizes, Ended DEF ConditionFalsy, Returns, Ends, Shrinks
<1>10. CASE ConditionFalsy /\ pc = "condition" /\ UNCHANGED <<engine, outer, left>>
  BY <1>10, Sizes DEF ConditionFalsy, Returns
<1>11. CASE ConditionTruthy
  <2>1. Ends("condition")
    BY <1>11, Ended DEF ConditionTruthy
  <2>2. Last(outer).hit \in 0..next_bp_id - 1
    BY <2>1, Sizes DEF Ends, Interrupted
  <2> QED
    BY <1>11, <2>1, <2>2, Sizes DEF ConditionTruthy, Stop, Ends, Shrinks
<1>12. CASE Step
  BY <1>12, Sizes DEF Step, Stop, Returns, StepEnds
<1>13. CASE Capture
  <2>1. left' \in BOOLEAN /\ disturbed' \in BOOLEAN
    BY <1>13, Zenon DEF Capture, Captures
  <2>2. NoCommand \in [mode : StepModes \union {"None"}, depth : 0..MaxDepth, at : Frame]
    OBVIOUS
  <2>3. /\ pc' = "walk" /\ reason' = "none" /\ cmd' = NoCommand
        /\ UNCHANGED <<stack, flags, steps, table, mode, hit, outer>>
    BY <1>13 DEF Capture, Captures
  <2>4. Len(frame_stack') = Len(stack) /\ Len(stack) \in Nat
    BY <1>13, CaptureTracks, Sizes
  <2> HIDE DEF Frame, NoCommand
  <2> QED
    BY <2>1, <2>2, <2>3, <2>4
<1>14. CASE RunGetter
  BY <1>14, Sizes, GetterStarts DEF RunGetter, Inject, Returns, Starts, Grows
<1>15. CASE GetterEnds
  <2>1. Ends("getter")
    BY <1>15, Ended DEF GetterEnds
  <2>2. disturbed' \in BOOLEAN
    BY <1>15, Zenon DEF GetterEnds
  <2>3. Last(outer).hit \in 0..next_bp_id - 1
    BY <2>1, Sizes DEF Ends, Interrupted
  <2> QED
    BY <1>15, <2>1, <2>2, <2>3, Sizes DEF GetterEnds, Ends, Shrinks
<1>16. CASE CaptureEnds
  BY <1>16, Sizes DEF CaptureEnds
<1>17. ASSUME NEW m \in StepModes \union {"Continue"}, Control(m)
      PROVE  Scalars'
  <2>1. /\ Len(frame_stack) \in 0..MaxDepth /\ Len(stack) \in 0..MaxDepth
        /\ Last(frame_stack) \in Frame /\ Last(stack) \in Frame
    BY <1>17, ControlGiven, Sizes
  <2>2. /\ pc' = "run" /\ step_mode' = m /\ mode' = "None" /\ hit' = 0
        /\ UNCHANGED <<stack, enabled, pause_on_start, frame_stack, table, outer, reason, left>>
    BY <1>17 DEF Control, Returns
  <2>3. disturbed' \in BOOLEAN /\ pause_requested' \in BOOLEAN
    BY <1>17, ControlGiven
  <2>4. step_start' \in [depth : 0..MaxDepth, at : Frame]
    <3>1. step_start' \in {step_start, [depth |-> Len(frame_stack), at |-> Last(frame_stack)]}
      BY <1>17 DEF Control
    <3> HIDE DEF Frame
    <3> QED
      BY <2>1, <3>1
  <2>5. cmd' \in [mode : StepModes \union {"None"}, depth : 0..MaxDepth, at : Frame]
    <3>1. CASE m \in StepModes
      <4>1. cmd' = [mode |-> m, depth |-> Len(stack), at |-> Last(stack)]
        BY <1>17, <3>1 DEF Control, Remember
      <4> HIDE DEF Frame, StepModes
      <4> QED
        BY <2>1, <3>1, <4>1
    <3>2. CASE m \notin StepModes
      <4>1. cmd' = NoCommand
        BY <1>17, <3>2 DEF Control, Remember
      <4> QED
        BY <4>1
    <3> QED
      BY <3>1, <3>2
  <2> HIDE DEF Frame
  <2> QED
    BY <2>2, <2>3, <2>4, <2>5
<1>18. CASE Evaluate
  BY <1>18, Sizes, EvaluateStarts DEF Evaluate, Inject, Returns, Starts, Grows
<1>19. CASE EvaluateEnds
  <2>1. Ends("evaluate")
    BY <1>19, Ended DEF EvaluateEnds
  <2>2. disturbed' \in BOOLEAN
    BY <1>19, Zenon DEF EvaluateEnds
  <2>3. Last(outer).hit \in 0..next_bp_id - 1
    BY <2>1, Sizes DEF Ends, Interrupted
  <2> QED
    BY <1>19, <2>1, <2>2, <2>3, Sizes DEF EvaluateEnds, Ends, Shrinks
<1>20. ASSUME NEW q \in BpPlaces, NEW c \in Conditions, SetBreakpoint(q, c)
      PROVE  Scalars'
  BY <1>20, Sizes DEF SetBreakpoint
<1>21. ASSUME NEW id \in DOMAIN breakpoints, RemoveBreakpoint(id)
      PROVE  Scalars'
  BY <1>21, Sizes DEF RemoveBreakpoint
<1>22. CASE SetActive
  BY <1>22, Sizes DEF SetActive
<1>23. CASE RequestPause
  BY <1>23, Sizes DEF RequestPause
<1>24. CASE SetEnabled
  BY <1>24, Sizes DEF SetEnabled
<1>25. CASE UNCHANGED vars
  BY <1>25
<1>26. ASSUME NEW p \in Places \union {Injected}, Skip(p)
      PROVE  Scalars'
  BY <1>26, Sizes, TopSkipped DEF Skip, Turns
<1> QED
  BY <1>1, <1>2, <1>3, <1>4, <1>5, <1>6, <1>7, <1>8, <1>9, <1>10, <1>11, <1>12, <1>13, <1>14,
     <1>15, <1>16, <1>17, <1>18, <1>19, <1>20, <1>21, <1>22, <1>23, <1>24, <1>25, <1>26
  DEF Next, Engine, Handler, Client, ConditionFalsy

\* Each action keeps the handlers on known statements.
LEMMA NextPlaced ==
    ASSUME StepInvariant, [Next]_vars
    PROVE  Placed'
<1> USE HandlerAssumption DEF StepInvariant, Placed, Known
<1>1. CASE Call
  BY <1>1, Sizes, CallGrows DEF Call, Grows
<1>2. CASE Leave
  <2>1. ASSUME NEW i \in 1..Len(outer)
        PROVE  Known(outer[i].base)'
    BY <1>2, Sizes, LeaveShrinks DEF Shrinks
  <2> QED
    BY <1>2, <2>1, LeaveShrinks DEF Leave
<1>3. ASSUME NEW p \in Places \union {Injected}, Trace(p)
      PROVE  Placed'
  <2>1. ASSUME NEW i \in 1..Len(outer)
        PROVE  Known(outer[i].base)'
    BY <1>3, Sizes, TraceTops DEF Topped, Turns
  <2>2. p # Nowhere
    OBVIOUS
  <2> QED
    BY <1>3, <2>1, <2>2, TraceTops DEF Trace, Topped, Turns
<1>4. CASE TakeRequest
  BY <1>4, Sizes DEF TakeRequest, Stop
<1>5. CASE TakeEntry
  BY <1>5, Sizes DEF TakeEntry, Stop
<1>6. CASE CheckBreakpoint
  BY <1>6, Sizes DEF CheckBreakpoint, Matching
<1>7. CASE Lookup
  BY <1>7, Sizes DEF Lookup, Stop, Matching
<1>8. CASE EvaluateCondition
  BY <1>8, Sizes, ConditionStarts DEF EvaluateCondition, Inject, Returns, Starts, Grows
<1>9. CASE ConditionFalsy /\ InjectedEnds("condition")
  BY <1>9, Ended, EndsPlaced
<1>10. CASE ConditionFalsy /\ pc = "condition" /\ UNCHANGED <<engine, outer, left>>
  BY <1>10, Sizes DEF ConditionFalsy, Returns
<1>11. CASE ConditionTruthy
  BY <1>11, Ended, EndsPlaced DEF ConditionTruthy
<1>12. CASE Step
  BY <1>12, Sizes DEF Step, Stop, Returns, StepEnds
<1>13. CASE Capture
  BY <1>13, Sizes DEF Capture, Captures
<1>14. CASE RunGetter
  BY <1>14, Sizes, GetterStarts DEF RunGetter, Inject, Returns, Starts, Grows
<1>15. CASE GetterEnds
  BY <1>15, Ended, EndsPlaced DEF GetterEnds
<1>16. CASE CaptureEnds
  BY <1>16, Sizes DEF CaptureEnds
<1>17. ASSUME NEW m \in StepModes \union {"Continue"}, Control(m)
      PROVE  Placed'
  BY <1>17, Sizes DEF Control, Returns, Remember
<1>18. CASE Evaluate
  BY <1>18, Sizes, EvaluateStarts DEF Evaluate, Inject, Returns, Starts, Grows
<1>19. CASE EvaluateEnds
  BY <1>19, Ended, EndsPlaced DEF EvaluateEnds
<1>20. ASSUME NEW q \in BpPlaces, NEW c \in Conditions, SetBreakpoint(q, c)
      PROVE  Placed'
  BY <1>20, Sizes DEF SetBreakpoint
<1>21. ASSUME NEW id \in DOMAIN breakpoints, RemoveBreakpoint(id)
      PROVE  Placed'
  BY <1>21, Sizes DEF RemoveBreakpoint
<1>22. CASE SetActive
  BY <1>22, Sizes DEF SetActive
<1>23. CASE RequestPause
  BY <1>23, Sizes DEF RequestPause
<1>24. CASE SetEnabled
  BY <1>24, Sizes DEF SetEnabled
<1>25. CASE UNCHANGED vars
  BY <1>25
<1>26. ASSUME NEW p \in Places \union {Injected}, Skip(p)
      PROVE  Placed'
  <2>1. ASSUME NEW i \in 1..Len(outer)
        PROVE  Known(outer[i].base)'
    BY <1>26, Sizes, TopSkipped DEF Skip, Turns
  <2> QED
    BY <1>26, <2>1 DEF Skip
<1> QED
  BY <1>1, <1>2, <1>3, <1>4, <1>5, <1>6, <1>7, <1>8, <1>9, <1>10, <1>11, <1>12, <1>13, <1>14,
     <1>15, <1>16, <1>17, <1>18, <1>19, <1>20, <1>21, <1>22, <1>23, <1>24, <1>25, <1>26
  DEF Next, Engine, Handler, Client, ConditionFalsy

\* Each action keeps the frames tracked that a step will start from.
LEMMA NextReached ==
    ASSUME StepInvariant, [Next]_vars
    PROVE  Reached'
<1> USE HandlerAssumption DEF StepInvariant, Reached
<1>1. CASE Call
  BY <1>1, Sizes, CallGrows DEF Call, Grows
<1>2. CASE Leave
  BY <1>2, Sizes, LeaveShrinks DEF Leave, Shrinks
<1>3. ASSUME NEW p \in Places \union {Injected}, Trace(p)
      PROVE  Reached'
  BY <1>3, Sizes, TraceTops DEF Trace, Topped, Turns, Here
<1>4. CASE TakeRequest
  BY <1>4, Sizes DEF TakeRequest, Stop
<1>5. CASE TakeEntry
  BY <1>5, Sizes DEF TakeEntry, Stop
<1>6. CASE CheckBreakpoint
  BY <1>6, Sizes DEF CheckBreakpoint, Matching
<1>7. CASE Lookup
  BY <1>7, Sizes DEF Lookup, Stop, Matching
<1>8. CASE EvaluateCondition
  BY <1>8, Sizes, ConditionStarts DEF EvaluateCondition, Inject, Returns, Starts, Grows
<1>9. CASE ConditionFalsy /\ InjectedEnds("condition")
  BY <1>9, Sizes, Ended DEF ConditionFalsy, Returns, Ends, Shrinks
<1>10. CASE ConditionFalsy /\ pc = "condition" /\ UNCHANGED <<engine, outer, left>>
  BY <1>10, Sizes DEF ConditionFalsy, Returns
<1>11. CASE ConditionTruthy
  BY <1>11, Sizes, Ended DEF ConditionTruthy, Stop, Ends, Shrinks
<1>12. CASE Step
  BY <1>12, Sizes DEF Step, Stop, Returns, StepEnds
<1>13. CASE Capture
  BY <1>13, Sizes, CaptureTracks DEF Capture, Captures
<1>14. CASE RunGetter
  BY <1>14, Sizes, GetterStarts DEF RunGetter, Inject, Returns, Starts, Grows
<1>15. CASE GetterEnds
  BY <1>15, Sizes, Ended DEF GetterEnds, Ends, Shrinks
<1>16. CASE CaptureEnds
  BY <1>16, Sizes DEF CaptureEnds
<1>17. ASSUME NEW m \in StepModes \union {"Continue"}, Control(m)
      PROVE  Reached'
  BY <1>17, Sizes DEF Control, Returns, Remember
<1>18. CASE Evaluate
  BY <1>18, Sizes, EvaluateStarts DEF Evaluate, Inject, Returns, Starts, Grows
<1>19. CASE EvaluateEnds
  BY <1>19, Sizes, Ended DEF EvaluateEnds, Ends, Shrinks
<1>20. ASSUME NEW q \in BpPlaces, NEW c \in Conditions, SetBreakpoint(q, c)
      PROVE  Reached'
  BY <1>20, Sizes DEF SetBreakpoint
<1>21. ASSUME NEW id \in DOMAIN breakpoints, RemoveBreakpoint(id)
      PROVE  Reached'
  BY <1>21, Sizes DEF RemoveBreakpoint
<1>22. CASE SetActive
  BY <1>22, Sizes DEF SetActive
<1>23. CASE RequestPause
  BY <1>23, Sizes DEF RequestPause
<1>24. CASE SetEnabled
  BY <1>24, Sizes DEF SetEnabled
<1>25. CASE UNCHANGED vars
  BY <1>25
<1>26. ASSUME NEW p \in Places \union {Injected}, Skip(p)
      PROVE  Reached'
  BY <1>26, Sizes, TopSkipped DEF Skip, Turns
<1> QED
  BY <1>1, <1>2, <1>3, <1>4, <1>5, <1>6, <1>7, <1>8, <1>9, <1>10, <1>11, <1>12, <1>13, <1>14,
     <1>15, <1>16, <1>17, <1>18, <1>19, <1>20, <1>21, <1>22, <1>23, <1>24, <1>25, <1>26
  DEF Next, Engine, Handler, Client, ConditionFalsy

\* Each action keeps the step state the client's.
LEMMA NextCommanded ==
    ASSUME StepInvariant, [Next]_vars
    PROVE  Commanded'
<1> USE HandlerAssumption DEF StepInvariant, Scalars, Reached, Commanded, StepModes, NoCommand
<1>1. CASE Call
  BY <1>1, Sizes, CallGrows DEF Call, Grows
<1>2. CASE Leave
  BY <1>2, Sizes, LeaveShrinks DEF Leave, Shrinks
<1>3. ASSUME NEW p \in Places \union {Injected}, Trace(p)
      PROVE  Commanded'
  BY <1>3, Sizes, TraceTops DEF Trace, Topped, Turns, Here
<1>4. CASE TakeRequest
  BY <1>4, Sizes DEF TakeRequest, Stop
<1>5. CASE TakeEntry
  BY <1>5, Sizes DEF TakeEntry, Stop
<1>6. CASE CheckBreakpoint
  BY <1>6, Sizes DEF CheckBreakpoint, Matching
<1>7. CASE Lookup
  BY <1>7, Sizes DEF Lookup, Stop, Matching
<1>8. CASE EvaluateCondition
  BY <1>8, Sizes, ConditionStarts DEF EvaluateCondition, Inject, Returns, Starts, Grows
<1>9. CASE ConditionFalsy /\ InjectedEnds("condition")
  <2>1. /\ Len(stack') = Len(stack) - 1 /\ left' \in BOOLEAN
        /\ left' <=> left \/ Len(stack') < cmd.depth
    BY <1>9, Ended DEF Ends, Shrinks
  <2>2. pc = "run" /\ pc' = "run" /\ UNCHANGED <<step_mode, step_start, cmd, disturbed>>
    BY <1>9 DEF ConditionFalsy, InjectedEnds, Returns
  <2>3. cmd.depth \in Nat /\ Len(stack') \in Nat
    BY <2>1, Sizes
  <2> QED
    BY <2>1, <2>2, <2>3
<1>10. CASE ConditionFalsy /\ pc = "condition" /\ UNCHANGED <<engine, outer, left>>
  BY <1>10, Sizes DEF ConditionFalsy, Returns
<1>11. CASE ConditionTruthy
  BY <1>11, Sizes, Ended DEF ConditionTruthy, Stop, Ends, Shrinks
<1>12. CASE Step
  BY <1>12, Sizes DEF Step, Stop, Returns, StepEnds
<1>13. CASE Capture
  BY <1>13, Sizes DEF Capture, Captures
<1>14. CASE RunGetter
  BY <1>14, Sizes, GetterStarts DEF RunGetter, Inject, Returns, Starts, Grows
<1>15. CASE GetterEnds
  BY <1>15, Sizes, Ended DEF GetterEnds, Ends, Shrinks
<1>16. CASE CaptureEnds
  BY <1>16, Sizes DEF CaptureEnds
<1>17. ASSUME NEW m \in StepModes \union {"Continue"}, Control(m)
      PROVE  Commanded'
  <2>1. pc' = "run" /\ step_mode' = m /\ UNCHANGED <<stack, left>>
    BY <1>17 DEF Control, Returns
  <2>2. CASE m \in StepModes /\ ~disturbed
    <3>1. cmd' = [mode |-> m, depth |-> Len(stack), at |-> stack[Len(stack)]]
      BY <1>17, <2>2, Sizes DEF Control, Remember
    <3>2. step_start' = [depth |-> Len(stack), at |-> stack[Len(stack)]]
      BY <1>17, <2>2, Sizes, ControlGiven DEF Control
    <3> QED
      BY <2>1, <3>1, <3>2, Sizes
  <2>3. CASE m \notin StepModes
    <3>1. cmd' = NoCommand
      BY <1>17, <2>3 DEF Control, Remember
    <3> QED
      BY <2>1, <3>1
  <2>4. CASE m \in StepModes /\ disturbed
    BY <1>17, <2>1, <2>4, ControlGiven
  <2> QED
    BY <2>2, <2>3, <2>4
<1>18. CASE Evaluate
  BY <1>18, Sizes, EvaluateStarts DEF Evaluate, Inject, Returns, Starts, Grows
<1>19. CASE EvaluateEnds
  BY <1>19, Sizes, Ended DEF EvaluateEnds, Ends, Shrinks
<1>20. ASSUME NEW q \in BpPlaces, NEW c \in Conditions, SetBreakpoint(q, c)
      PROVE  Commanded'
  BY <1>20, Sizes DEF SetBreakpoint
<1>21. ASSUME NEW id \in DOMAIN breakpoints, RemoveBreakpoint(id)
      PROVE  Commanded'
  BY <1>21, Sizes DEF RemoveBreakpoint
<1>22. CASE SetActive
  BY <1>22, Sizes DEF SetActive
<1>23. CASE RequestPause
  BY <1>23, Sizes DEF RequestPause
<1>24. CASE SetEnabled
  BY <1>24, Sizes DEF SetEnabled
<1>25. CASE UNCHANGED vars
  BY <1>25
<1>26. ASSUME NEW p \in Places \union {Injected}, Skip(p)
      PROVE  Commanded'
  BY <1>26, Sizes, TopSkipped DEF Skip, Turns
<1> QED
  BY <1>1, <1>2, <1>3, <1>4, <1>5, <1>6, <1>7, <1>8, <1>9, <1>10, <1>11, <1>12, <1>13, <1>14,
     <1>15, <1>16, <1>17, <1>18, <1>19, <1>20, <1>21, <1>22, <1>23, <1>24, <1>25, <1>26
  DEF Next, Engine, Handler, Client, ConditionFalsy

\* Each action keeps what the handler knows of the breakpoints.
LEMMA NextWatched ==
    ASSUME StepInvariant, [Next]_vars
    PROVE  Watched'
<1> USE HandlerAssumption DEF StepInvariant, Scalars, Watched, Behind
<1>1. CASE Call
  BY <1>1, Sizes, CallGrows DEF Call, Grows
<1>2. CASE Leave
  BY <1>2, Sizes, LeaveShrinks DEF Leave, Shrinks
<1>3. ASSUME NEW p \in Places \union {Injected}, Trace(p)
      PROVE  Watched'
  BY <1>3, Sizes, TraceTops DEF Trace, Topped, Turns, Here
<1>4. CASE TakeRequest
  BY <1>4, Sizes DEF TakeRequest, Stop
<1>5. CASE TakeEntry
  BY <1>5, Sizes DEF TakeEntry, Stop
<1>6. CASE CheckBreakpoint
  BY <1>6, Sizes DEF CheckBreakpoint, Matching
<1>7. CASE Lookup
  <2>1. ASSUME pc' = "condition", NEW id \in standing \intersect DOMAIN breakpoints
        PROVE  0 < hit' /\ hit' < id
    <3>1. id \in Matching /\ ~breakpoints[id].cond
      BY <1>7, Sizes DEF Lookup, Matching
    <3>2. hit' \in Matching /\ hit' <= id /\ breakpoints[hit'].cond
      BY <1>7, <2>1, <3>1, LookupFinds
    <3> QED
      BY <3>1, <3>2 DEF Matching
  <2>2. pc' \in {"condition", "capture"} /\ UNCHANGED <<breakpoints, next_bp_id, standing>>
    BY <1>7, LookupFinds DEF Lookup
  <2> QED
    BY <2>1, <2>2
<1>8. CASE EvaluateCondition
  BY <1>8, Sizes, ConditionStarts DEF EvaluateCondition, Inject, Returns, Starts, Grows
<1>9. CASE ConditionFalsy /\ InjectedEnds("condition")
  BY <1>9, Sizes, Ended DEF ConditionFalsy, Returns, Ends, Shrinks
<1>10. CASE ConditionFalsy /\ pc = "condition" /\ UNCHANGED <<engine, outer, left>>
  BY <1>10, Sizes DEF ConditionFalsy, Returns
<1>11. CASE ConditionTruthy
  BY <1>11, Sizes, Ended DEF ConditionTruthy, Stop, Ends, Shrinks
<1>12. CASE Step
  BY <1>12, Sizes DEF Step, Stop, Returns, StepEnds
<1>13. CASE Capture
  BY <1>13, Sizes DEF Capture, Captures
<1>14. CASE RunGetter
  BY <1>14, Sizes, GetterStarts DEF RunGetter, Inject, Returns, Starts, Grows
<1>15. CASE GetterEnds
  BY <1>15, Sizes, Ended DEF GetterEnds, Ends, Shrinks
<1>16. CASE CaptureEnds
  BY <1>16, Sizes DEF CaptureEnds
<1>17. ASSUME NEW m \in StepModes \union {"Continue"}, Control(m)
      PROVE  Watched'
  BY <1>17, Sizes DEF Control, Returns, Remember
<1>18. CASE Evaluate
  BY <1>18, Sizes, EvaluateStarts DEF Evaluate, Inject, Returns, Starts, Grows
<1>19. CASE EvaluateEnds
  BY <1>19, Sizes, Ended DEF EvaluateEnds, Ends, Shrinks
<1>20. ASSUME NEW q \in BpPlaces, NEW c \in Conditions, SetBreakpoint(q, c)
      PROVE  Watched'
  <2>1. next_bp_id \in Nat /\ next_bp_id' = next_bp_id + 1
    BY <1>20 DEF SetBreakpoint
  <2>2. /\ DOMAIN breakpoints' = DOMAIN breakpoints \union {next_bp_id}
        /\ \A id \in DOMAIN breakpoints : id # next_bp_id /\ breakpoints'[id] = breakpoints[id]
    <3>1. next_bp_id \notin DOMAIN breakpoints
      BY <2>1
    <3> QED
      BY <1>20, <3>1 DEF SetBreakpoint
  <2>3. /\ pc' = pc /\ standing' = standing /\ hit' = hit /\ stack' = stack
    BY <1>20 DEF SetBreakpoint
  <2>4. standing' \subseteq 1..next_bp_id' - 1 /\ DOMAIN breakpoints' \subseteq 1..next_bp_id' - 1
    BY <2>1, <2>2, <2>3
  <2>5. standing' \intersect DOMAIN breakpoints' = standing \intersect DOMAIN breakpoints
    BY <2>1, <2>2, <2>3
  <2>6. pc' = "lookup" =>
          \A id \in standing' \intersect DOMAIN breakpoints' :
              breakpoints'[id].at = stack'[Len(stack')] /\ ~breakpoints'[id].cond
    BY <2>2, <2>3, <2>5
  <2>7. pc' = "condition" => Behind(hit, standing)'
    BY <2>3, <2>5 DEF Behind
  <2> QED
    BY <2>3, <2>4, <2>6, <2>7
<1>21. ASSUME NEW id \in DOMAIN breakpoints, RemoveBreakpoint(id)
      PROVE  Watched'
  BY <1>21, Sizes DEF RemoveBreakpoint
<1>22. CASE SetActive
  BY <1>22, Sizes DEF SetActive
<1>23. CASE RequestPause
  BY <1>23, Sizes DEF RequestPause
<1>24. CASE SetEnabled
  BY <1>24, Sizes DEF SetEnabled
<1>25. CASE UNCHANGED vars
  BY <1>25
<1>26. ASSUME NEW p \in Places \union {Injected}, Skip(p)
      PROVE  Watched'
  BY <1>26, Sizes, TopSkipped DEF Skip, Turns
<1> QED
  BY <1>1, <1>2, <1>3, <1>4, <1>5, <1>6, <1>7, <1>8, <1>9, <1>10, <1>11, <1>12, <1>13, <1>14,
     <1>15, <1>16, <1>17, <1>18, <1>19, <1>20, <1>21, <1>22, <1>23, <1>24, <1>25, <1>26
  DEF Next, Engine, Handler, Client, ConditionFalsy

\* A new breakpoint has an id that no handler has noted or met.
LEMMA NewIdElsewhere ==
    ASSUME NEW n \in Nat, NEW S \in SUBSET (1..n - 1), NEW D, NEW h \in 0..n - 1
    PROVE  /\ S \subseteq 1..n /\ h \in 0..n
           /\ S \intersect (D \union {n}) = S \intersect D
<1>1. n \notin S
  OBVIOUS
<1> QED
  BY <1>1

\* Each action keeps what the interrupted handlers know of them.
LEMMA NextInterrupted ==
    ASSUME StepInvariant, [Next]_vars
    PROVE  Interrupted'
<1> USE HandlerAssumption DEF StepInvariant, Scalars, Watched, Interrupted, Behind
<1>1. CASE Call
  BY <1>1, Sizes, CallGrows DEF Call, Grows
<1>2. CASE Leave
  BY <1>2, Sizes, LeaveShrinks DEF Leave, Shrinks
<1>3. ASSUME NEW p \in Places \union {Injected}, Trace(p)
      PROVE  Interrupted'
  BY <1>3, Sizes, TraceTops DEF Trace, Topped, Turns, Here
<1>4. CASE TakeRequest
  BY <1>4, Sizes DEF TakeRequest, Stop
<1>5. CASE TakeEntry
  BY <1>5, Sizes DEF TakeEntry, Stop
<1>6. CASE CheckBreakpoint
  BY <1>6, Sizes DEF CheckBreakpoint, Matching
<1>7. CASE Lookup
  BY <1>7, Sizes DEF Lookup, Stop, Matching
<1>8. CASE EvaluateCondition
  BY <1>8, ConditionStarts, StartsInterrupted DEF EvaluateCondition
<1>9. CASE ConditionFalsy /\ InjectedEnds("condition")
  BY <1>9, Ended, EndsInterrupted DEF ConditionFalsy
<1>10. CASE ConditionFalsy /\ pc = "condition" /\ UNCHANGED <<engine, outer, left>>
  BY <1>10, Sizes DEF ConditionFalsy, Returns
<1>11. CASE ConditionTruthy
  BY <1>11, Ended, EndsInterrupted DEF ConditionTruthy
<1>12. CASE Step
  BY <1>12, Sizes DEF Step, Stop, Returns, StepEnds
<1>13. CASE Capture
  BY <1>13, Sizes DEF Capture, Captures
<1>14. CASE RunGetter
  BY <1>14, GetterStarts, StartsInterrupted DEF RunGetter
<1>15. CASE GetterEnds
  BY <1>15, Ended, EndsInterrupted DEF GetterEnds
<1>16. CASE CaptureEnds
  BY <1>16, Sizes DEF CaptureEnds
<1>17. ASSUME NEW m \in StepModes \union {"Continue"}, Control(m)
      PROVE  Interrupted'
  BY <1>17, Sizes DEF Control, Returns, Remember
<1>18. CASE Evaluate
  BY <1>18, EvaluateStarts, StartsInterrupted DEF Evaluate
<1>19. CASE EvaluateEnds
  BY <1>19, Ended, EndsInterrupted DEF EvaluateEnds
<1>20. ASSUME NEW q \in BpPlaces, NEW c \in Conditions, SetBreakpoint(q, c)
      PROVE  Interrupted'
  <2>1. /\ DOMAIN breakpoints' = DOMAIN breakpoints \union {next_bp_id}
        /\ next_bp_id' = next_bp_id + 1 /\ UNCHANGED outer
    BY <1>20 DEF SetBreakpoint
  <2>2. ASSUME NEW i \in 1..Len(outer)
        PROVE  /\ outer[i].standing \subseteq 1..next_bp_id' - 1
               /\ outer[i].hit \in 0..next_bp_id' - 1
               /\ outer[i].standing \intersect DOMAIN breakpoints'
                     = outer[i].standing \intersect DOMAIN breakpoints
    <3>1. /\ next_bp_id \in Nat
          /\ outer[i].standing \subseteq 1..next_bp_id - 1
          /\ outer[i].hit \in 0..next_bp_id - 1
      BY <2>2 DEF Scalars
    <3>2. /\ DOMAIN breakpoints' = DOMAIN breakpoints \union {next_bp_id}
          /\ 1..next_bp_id' - 1 = 1..next_bp_id /\ 0..next_bp_id' - 1 = 0..next_bp_id
      BY <2>1, <3>1
    <3>3. /\ outer[i].standing \subseteq 1..next_bp_id /\ outer[i].hit \in 0..next_bp_id
          /\ outer[i].standing \intersect (DOMAIN breakpoints \union {next_bp_id})
                = outer[i].standing \intersect DOMAIN breakpoints
      BY <3>1, NewIdElsewhere
    <3> HIDE DEF StepInvariant, Interrupted
    <3> QED
      BY <3>2, <3>3
  <2> QED
    BY <2>1, <2>2
<1>21. ASSUME NEW id \in DOMAIN breakpoints, RemoveBreakpoint(id)
      PROVE  Interrupted'
  BY <1>21, Sizes DEF RemoveBreakpoint
<1>22. CASE SetActive
  BY <1>22, Sizes DEF SetActive
<1>23. CASE RequestPause
  BY <1>23, Sizes DEF RequestPause
<1>24. CASE SetEnabled
  BY <1>24, Sizes DEF SetEnabled
<1>25. CASE UNCHANGED vars
  BY <1>25
<1>26. ASSUME NEW p \in Places \union {Injected}, Skip(p)
      PROVE  Interrupted'
  BY <1>26, Sizes, TopSkipped DEF Skip, Turns
<1> QED
  BY <1>1, <1>2, <1>3, <1>4, <1>5, <1>6, <1>7, <1>8, <1>9, <1>10, <1>11, <1>12, <1>13, <1>14,
     <1>15, <1>16, <1>17, <1>18, <1>19, <1>20, <1>21, <1>22, <1>23, <1>24, <1>25, <1>26
  DEF Next, Engine, Handler, Client, ConditionFalsy

\* The session starts with nothing to step over, nothing set and nobody
\* interrupted (debug_session.h:141-167).
LEMMA InitStep == Init => StepInvariant
<1> SUFFICES ASSUME Init
             PROVE  StepInvariant
  OBVIOUS
<1> USE HandlerAssumption
<1>1. FrameInvariant
  BY InitFrames
<1>2. /\ Len(stack) = 1 /\ Len(frame_stack) = 0 /\ Len(outer) = 0 /\ DOMAIN breakpoints = {}
      /\ enabled \in BOOLEAN
  BY DEF Init
<1>3. Scalars
  <2>1. /\ step_start = [depth |-> 0, at |-> Nowhere] /\ next_bp_id = 1 /\ hit = 0
        /\ step_mode = "None" /\ mode = "None" /\ pc = "run" /\ reason = "none"
        /\ cmd = [mode |-> "None", depth |-> 0, at |-> Nowhere]
    BY DEF Init, NoCommand
  <2>2. /\ pause_requested \in BOOLEAN /\ pause_on_start \in BOOLEAN /\ bp_active \in BOOLEAN
        /\ left \in BOOLEAN /\ disturbed \in BOOLEAN
    BY Zenon DEF Init
  <2>3. /\ step_start \in [depth : 0..MaxDepth, at : Frame]
        /\ cmd \in [mode : StepModes \union {"None"}, depth : 0..MaxDepth, at : Frame]
    BY <2>1 DEF Frame
  <2> QED
    BY <1>2, <2>1, <2>2, <2>3 DEF Scalars, Modes
<1>4. Placed /\ Reached
  BY <1>2 DEF Init, Placed, Reached
<1>5. Commanded
  BY <1>2 DEF Init, Commanded, StepModes, NoCommand
<1>6. Watched /\ Interrupted
  BY <1>2, HandlerAssumption DEF Init, Watched, Interrupted
<1> QED
  BY <1>1, <1>3, <1>4, <1>5, <1>6 DEF StepInvariant

\* Every step of the engine, the handler and the client keeps the invariant.
LEMMA NextStep == StepInvariant /\ [Next]_vars => StepInvariant'
<1> SUFFICES ASSUME StepInvariant, [Next]_vars
             PROVE  StepInvariant'
  OBVIOUS
<1>1. FrameInvariant'
  BY NextFrames DEF StepInvariant
<1> QED
  BY <1>1, NextScalars, NextPlaced, NextReached, NextCommanded, NextWatched, NextInterrupted
  DEF StepInvariant

\* The inductive invariant holds of every behaviour.
THEOREM StepInvariantHolds == Spec => []StepInvariant
  BY InitStep, NextStep, PTL DEF Spec

\* The types of the session's fields and of the handler's locals, at every
\* depth of injected code (debug_session.h:141-167, 185).
THEOREM HandlerTypes == Spec => []TypeOK
<1>1. StepInvariant => TypeOK
  BY TypesOf DEF StepInvariant
<1> QED
  BY <1>1, StepInvariantHolds, PTL

\* The paused event's list of frames has the depth of the engine's stack; the
\* frame that stopped is listed at its statement, and every other one whose last
\* statement the handler was told of at that one, whatever was called, returned
\* or evaluated since, and whatever ran above it while the session was disabled;
\* a frame whose last statement itself ran then is the one exception.  The
\* levels are right unless code ran on top of the frames during the pause
\* (debug_session.cpp:537-574, 908, 913-924).
THEOREM FramesShown == Spec => []FramesAreReal
<1>1. StepInvariant => FramesAreReal
  <2> SUFFICES ASSUME StepInvariant, pc = "paused"
               PROVE  /\ Len(frames) = Len(stack)
                      /\ frames[1].at = Last(stack)
                      /\ \A k \in 1..Len(stack) :
                            /\ Known(Len(stack) - k + 1)
                                  => frames[k].at = stack[Len(stack) - k + 1]
                            /\ ~disturbed => frames[k].level = k - 1
    BY DEF FramesAreReal
  <2>1. /\ Lists(frames, Seen, Len(stack)) /\ Len(frames) = Len(stack)
        /\ ~disturbed => \A k \in 1..Len(frames) : frames[k].level = k - 1
        /\ Known(Len(stack))
    BY DEF StepInvariant, FrameInvariant, Current, Placed
  <2>2. Len(stack) \in Nat /\ Len(stack) >= 1 /\ Last(stack) = stack[Len(stack)]
    BY Sizes DEF StepInvariant
  <2>3. ASSUME NEW k \in 1..Len(stack), Known(Len(stack) - k + 1)
        PROVE  frames[k].at = stack[Len(stack) - k + 1]
    <3>1. Len(stack) - k + 1 \in 1..Len(stack)
      BY <2>2
    <3>2. /\ Seen[Len(stack) - k + 1] = stack[Len(stack) - k + 1]
          /\ Seen[Len(stack) - k + 1] # Nowhere
      BY <2>3, <3>1 DEF Seen, Known
    <3> QED
      BY <2>1, <3>2 DEF Lists
  <2>4. frames[1].at = Last(stack)
    <3>1. 1 \in 1..Len(stack) /\ Len(stack) - 1 + 1 = Len(stack)
      BY <2>2
    <3> QED
      BY <2>1, <2>2, <2>3, <3>1
  <2> QED
    BY <2>1, <2>3, <2>4
<1> QED
  BY <1>1, StepInvariantHolds, PTL

\* Step over: while the frame it was given in has not returned, it stops in
\* that frame and at another statement, whatever was called, however deep, and
\* whatever conditions ran meanwhile (debug_session.cpp:1006-1015, 315-324).
THEOREM StepOverNeverDeeper == Spec => []StepOverStays
<1>1. StepInvariant => StepOverStays
  <2> SUFFICES ASSUME StepInvariant, pc = "capture", reason = "step", cmd.mode = "Over",
                      ~left, ~disturbed
               PROVE  Len(stack) = cmd.depth /\ Last(stack) # cmd.at
    BY DEF StepOverStays
  <2>1. Len(stack) >= cmd.depth /\ Len(stack) <= cmd.depth /\ stack[Len(stack)] # cmd.at
    BY DEF StepInvariant, Commanded, StepModes
  <2>2. Len(stack) \in Nat /\ cmd.depth \in Nat /\ Last(stack) = stack[Len(stack)]
    BY Sizes, HandlerAssumption DEF StepInvariant, Scalars
  <2> QED
    BY <2>1, <2>2
<1> QED
  BY <1>1, StepInvariantHolds, PTL

\* Step out stops only when the frame it was given in has returned, however
\* deep the program and whatever it calls before it returns, if nothing ran on
\* top of the frames during the pause (debug_session.cpp:1017-1023, 336-343).
THEOREM StepOutNeverEarly == Spec => []StepOutLeavesUndisturbed
<1>1. StepInvariant => StepOutLeavesUndisturbed
  <2> SUFFICES ASSUME StepInvariant, pc = "capture", reason = "step", cmd.mode = "Out", ~disturbed
               PROVE  left
    BY DEF StepOutLeavesUndisturbed, StepOutLeaves
  <2>1. (left \/ Len(stack) >= cmd.depth) /\ Len(stack) < cmd.depth
    BY DEF StepInvariant, Commanded, StepModes
  <2>2. Len(stack) \in Nat /\ cmd.depth \in Nat
    BY Sizes, HandlerAssumption DEF StepInvariant, Scalars
  <2> QED
    BY <2>1, <2>2
<1> QED
  BY <1>1, StepInvariantHolds, PTL

\* Only the switch over the mode takes the handler from it back to the script.
LEMMA OnlyStepReturns ==
    ASSUME [Next]_vars, pc = "step", pc' = "run"
    PROVE  Step /\ ~StepEnds(Len(stack), Last(stack))
<1>1. Step
  BY DEF Next, Engine, Handler, Client, Call, Leave, Trace, Skip, TakeRequest, TakeEntry, CheckBreakpoint,
     Lookup, EvaluateCondition, ConditionFalsy, ConditionTruthy, InjectedEnds, Capture, Captures,
     RunGetter, GetterEnds, CaptureEnds, EvaluateEnds, Control, Evaluate, SetBreakpoint,
     RemoveBreakpoint, SetActive, RequestPause, SetEnabled
<1> QED
  BY <1>1 DEF Step, Stop

\* A step is not missed: where the handler returns from the switch over the
\* mode, the client's step has not come to its end, counted on the engine's own
\* stack (debug_session.cpp:992-1027).
THEOREM StepNeverMissed == Spec => StepTaken
<1>1. ASSUME StepInvariant, [Next]_vars, pc = "step", pc' = "run", ~disturbed
      PROVE  ~Arrived
  <2>1. Step /\ ~StepEnds(Len(stack), Last(stack))
    BY <1>1, OnlyStepReturns
  <2>2. ~(cmd.mode \in StepModes /\ Arrived)
    BY <1>1, <2>1 DEF StepInvariant, Commanded, Arrived, StepEnds
  <2> QED
    BY <2>2 DEF Arrived, StepModes
<1>2. StepInvariant /\ [Next]_vars => [pc = "step" /\ pc' = "run" /\ ~disturbed => ~Arrived]_vars
  BY <1>1
<1> QED
  BY <1>2, StepInvariantHolds, PTL DEF Spec, StepTaken

\* A breakpoint without a condition that was in force when the handler looked,
\* and still exists, stops the script there, unless a condition with a lower
\* id was met and was falsy, in the handler itself or in one the condition's
\* code had interrupted (debug_session.cpp:944-989).
THEOREM BreakpointsAlwaysStop == Spec => BreakpointsStop
<1>1. ASSUME StepInvariant, [Next]_vars, pc = "step", pc' = "run"
      PROVE  Behind(0, standing)
  BY <1>1 DEF StepInvariant, Watched, Behind
<1>2. ASSUME StepInvariant, [Next]_vars, pc = "condition", pc' = "run", outer' = outer
      PROVE  Behind(hit, standing)
  BY <1>2 DEF StepInvariant, Watched
<1>3. ASSUME StepInvariant, [Next]_vars, pc = "run", pc' = "run", Len(outer') < Len(outer)
      PROVE  Behind(Last(outer).hit, Last(outer).standing)
  <2>1. InjectedEnds("condition")
    <3>1. Len(outer) \in Nat /\ outer' # outer
      BY <1>3, Sizes DEF StepInvariant
    <3>2. ~Engine /\ ~Client
      BY <1>3, <3>1
      DEF Engine, Client, Call, Leave, Trace, Skip, Control, Evaluate, SetBreakpoint, RemoveBreakpoint,
       SetActive, RequestPause, SetEnabled
    <3>3. Handler
      BY <1>3, <3>1, <3>2 DEF Next
    <3> QED
      BY <1>3, <3>3
      DEF Handler, TakeRequest, TakeEntry, CheckBreakpoint, Lookup, EvaluateCondition,
       ConditionFalsy, ConditionTruthy, Stop, Step, Capture, Captures, RunGetter, GetterEnds,
       CaptureEnds, EvaluateEnds
  <2>2. Ends("condition")
    BY <1>3, <2>1, Ended DEF StepInvariant
  <2>3. Len(outer) \in 1..Len(outer) /\ outer[Len(outer)].kind = "condition"
    BY <1>3, <2>2, Sizes DEF StepInvariant, Ends
  <2> QED
    BY <1>3, <2>2, <2>3 DEF StepInvariant, Interrupted, Ends
<1>4. StepInvariant /\ [Next]_vars =>
        [/\ pc = "step" /\ pc' = "run" => Behind(0, standing)
         /\ pc = "condition" /\ pc' = "run" /\ outer' = outer => Behind(hit, standing)
         /\ pc = "run" /\ pc' = "run" /\ Len(outer') < Len(outer) =>
               Behind(Last(outer).hit, Last(outer).standing)]_vars
  BY <1>1, <1>2, <1>3
<1> QED
  BY <1>4, StepInvariantHolds, PTL DEF Spec, BreakpointsStop
===============================================================================
