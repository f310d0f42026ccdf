----------------------------- MODULE TraceHandler -----------------------------
(***************************************************************************)
(* Where the script stops: debug_trace_handler, the OP_debug callback      *)
(* (debugger/src/debug_session.cpp:902-1030), with the breakpoint table    *)
(* and the step state it decides from, and the tracking of the call stack  *)
(* in frame_stack_.                                                        *)
(*                                                                         *)
(* The engine is any program: it calls, returns and reaches statements.  A *)
(* conditional breakpoint, an evaluate request and a getter met while      *)
(* values are captured make it run injected code on top of the stack,      *)
(* whose statements enter the handler again.                               *)
(*                                                                         *)
(* A place stands for a file and a line.  How the two threads hand over a  *)
(* pause is the subject of DebugSession: here a control command answers a  *)
(* pause in one step, as StepHonoured and NoDataRace of DebugSession       *)
(* allow for a polite client.  Breakpoints change at any time.             *)
(***************************************************************************)
EXTENDS Integers, SequencesExt

CONSTANTS
    Places,      \* statements of the script
    Injected,    \* the statement of <bp-condition>, <debugger-eval>, a getter
    Nowhere,     \* FrameInfo{}: a frame whose statement is not known
    BpPlaces,    \* places breakpoints are set at
    Conditions,  \* may they have a condition: a set of Booleans
    Commands,    \* commands the client uses, a subset of AllCommands
    Getters,     \* do captured values have properties with getters
    MaxDepth,    \* bound on the call stack
    MaxBps,      \* bound on the breakpoints ever set
    MaxNest      \* bound on handlers interrupted by injected code

StepModes == {"Into", "Over", "Out"}

AllCommands == StepModes \union
    {"Continue", "pause", "enable", "active", "remove", "evaluate"}

ASSUME HandlerAssumption ==
    /\ Injected \notin Places /\ Nowhere \notin Places /\ Injected # Nowhere
    /\ BpPlaces \subseteq Places
    /\ Conditions \subseteq BOOLEAN
    /\ Commands \subseteq AllCommands
    /\ Getters \in BOOLEAN
    /\ MaxDepth \in Nat \ {0} /\ MaxBps \in Nat /\ MaxNest \in Nat

VARIABLES
    \* the engine: for each frame the statement it has reached, whether or not
    \* the handler was told; and the frames whose last one the handler was not
    \* told of, because the session was disabled (a history variable)
    stack, unseen,
    \* the session: flags, step state, frame tracking, breakpoints by id
    enabled, pause_requested, pause_on_start, step_mode, step_start, frame_stack,
    breakpoints, next_bp_id, bp_active,
    \* the handler: control point, its locals, the frames capture_frames has
    \* listed (captured_frames_ once it is done), the handlers that injected
    \* code has interrupted
    pc, mode, hit, frames, outer,
    \* history: the pause's reason, the step the client asked for with the frame
    \* and statement it was given at, whether that frame has returned since,
    \* whether code has run on top of the frames since they were captured, the
    \* unconditional breakpoints that were in force when this handler looked
    reason, cmd, left, disturbed, standing

engine  == <<stack, unseen>>
flags   == <<enabled, pause_requested, pause_on_start>>
steps   == <<step_mode, step_start>>
table   == <<breakpoints, next_bp_id, bp_active>>
locals  == <<mode, hit, frames, outer>>
history == <<reason, cmd, left, disturbed, standing>>
vars == <<engine, flags, steps, frame_stack, table, pc, locals, history>>

NoCommand == [mode |-> "None", depth |-> 0, at |-> Nowhere]

Init ==
    /\ stack = <<Nowhere>> /\ unseen = {}
    /\ pause_on_start \in BOOLEAN
    /\ enabled = pause_on_start
    /\ pause_requested = FALSE
    /\ step_mode = "None"
    /\ step_start = [depth |-> 0, at |-> Nowhere]
    /\ frame_stack = <<>>
    /\ breakpoints = <<>>
    /\ next_bp_id = 1
    /\ bp_active = TRUE
    /\ pc = "run"
    /\ mode = "None" /\ hit = 0 /\ frames = <<>> /\ outer = <<>>
    /\ reason = "none"
    /\ cmd = NoCommand
    /\ left = FALSE /\ disturbed = FALSE /\ standing = {}

-----------------------------------------------------------------------------
(* The engine.                                                             *)

\* Frames below the code that runs now: all of the script's, when injected
\* code runs, else none.
Base == IF outer = <<>> THEN 0 ELSE Last(outer).base

Call ==
    /\ pc = "run"
    /\ Len(stack) < MaxDepth
    /\ stack' = Append(stack, Nowhere)
    /\ UNCHANGED <<unseen, flags, steps, frame_stack, table, pc, locals, history>>

\* A frame returns, or an exception leaves it.
Leave ==
    /\ pc = "run"
    /\ Len(stack) > Base + 1
    /\ stack' = Front(stack)
    /\ unseen' = unseen \ {Len(stack)}
    /\ left' = (left \/ Len(stack') < cmd.depth)
    /\ UNCHANGED <<flags, steps, frame_stack, table, pc, locals, reason, cmd, disturbed, standing>>

\* frame_stack_ cut or filled to the given depth, its top overwritten.
Track(depth, p) ==
    [i \in 1..depth |-> IF i = depth THEN p
                        ELSE IF i <= Len(frame_stack) THEN frame_stack[i] ELSE Nowhere]

\* The statements the top frame can be at.
Here == IF outer # <<>> /\ Len(stack) = Base + 1 THEN {Injected} ELSE Places

\* A statement is reached while the session is disabled: the handler returns at
\* once, and frame_stack_ stays as it was.
Skip(p) ==
    /\ pc = "run" /\ ~enabled
    /\ p \in Here
    /\ stack' = ReplaceAt(stack, Len(stack), p)
    /\ unseen' = unseen \union {Len(stack)}
    /\ UNCHANGED <<flags, steps, frame_stack, table, pc, locals, history>>

\* A statement is reached while it is enabled: the handler tracks the frame and
\* loads the step mode.
Trace(p) ==
    /\ pc = "run" /\ enabled
    /\ p \in Here
    /\ stack' = ReplaceAt(stack, Len(stack), p)
    /\ unseen' = unseen \ {Len(stack)}
    /\ frame_stack' = Track(Len(stack), p)
    /\ mode' = step_mode
    /\ hit' = 0
    /\ pc' = "decide"
    /\ UNCHANGED <<flags, steps, table, frames, outer, history>>

-----------------------------------------------------------------------------
(* The handler decides: a request, the entry pause, a breakpoint, a step.  *)

\* Every path that pauses stores StepMode::None first.
Stop(r, bp) ==
    /\ pc' = "capture"
    /\ step_mode' = "None"
    /\ reason' = r
    /\ hit' = bp

\* The handler returns: its locals and what was noted of it are gone.
Returns ==
    /\ pc' = "run"
    /\ mode' = "None" /\ hit' = 0 /\ standing' = {}

TakeRequest ==
    /\ pc = "decide" /\ pause_requested
    /\ pause_requested' = FALSE
    /\ Stop("pause", 0)
    /\ UNCHANGED <<engine, enabled, pause_on_start, step_start, frame_stack, table, mode, frames, outer,
                   cmd, left, disturbed, standing>>

TakeEntry ==
    /\ pc = "decide" /\ ~pause_requested /\ pause_on_start
    /\ pause_on_start' = FALSE
    /\ Stop("entry", 0)
    /\ UNCHANGED <<engine, enabled, pause_requested, step_start, frame_stack, table, mode, frames, outer,
                   cmd, left, disturbed, standing>>

\* Ids of the breakpoints at the handler's statement.
Matching == {id \in DOMAIN breakpoints : breakpoints[id].at = Last(stack)}

\* Mutant: breakpoints are checked in the running modes only.
CheckBreakpointWhenRunning ==
    /\ pc = "decide" /\ ~pause_requested /\ ~pause_on_start
    /\ standing' = IF bp_active THEN {id \in Matching : ~breakpoints[id].cond} ELSE {}
    /\ pc' = IF bp_active /\ Matching # {} /\ mode \notin StepModes THEN "lookup" ELSE "step"
    /\ UNCHANGED <<engine, flags, steps, frame_stack, table, locals, reason, cmd, left, disturbed>>

\* check_breakpoint, in its own critical section.
CheckBreakpoint ==
    /\ pc = "decide" /\ ~pause_requested /\ ~pause_on_start
    /\ standing' = IF bp_active THEN {id \in Matching : ~breakpoints[id].cond} ELSE {}
    /\ pc' = IF bp_active /\ Matching # {} THEN "lookup" ELSE "step"
    /\ UNCHANGED <<engine, flags, steps, frame_stack, table, locals, reason, cmd, left, disturbed>>

\* The second critical section takes the matching breakpoint with the least
\* id; it does not look at bp_active_, and finds none that has been removed.
Lookup ==
    /\ pc = "lookup"
    /\ LET first == IF Matching = {} THEN 0 ELSE Min(Matching)
           conditional == first # 0 /\ breakpoints[first].cond
       IN  \/ /\ conditional
              /\ pc' = "condition" /\ hit' = first
              /\ UNCHANGED <<step_mode, reason>>
           \/ ~conditional /\ Stop("breakpoint", first)
    /\ UNCHANGED <<engine, flags, step_start, frame_stack, table, mode, frames, outer,
                   cmd, left, disturbed, standing>>

\* The engine runs injected code on top of the frames there are.  (The local
\* "mode" of the interrupted handler is not kept: it is not read any more.)
Inject(kind, list) ==
    /\ Len(outer) < MaxNest /\ Len(stack) < MaxDepth
    /\ Returns
    /\ outer' = Append(outer, [kind |-> kind, base |-> Len(stack), hit |-> hit,
                               standing |-> standing, frames |-> list])
    /\ stack' = Append(stack, Nowhere)
    /\ frames' = <<>>
    /\ UNCHANGED unseen

\* Injected code is over: the handler it interrupted continues with its locals.
InjectedEnds(kind) ==
    /\ pc = "run"
    /\ outer # <<>> /\ Last(outer).kind = kind /\ Len(stack) = Base + 1
    /\ stack' = Front(stack)
    /\ unseen' = unseen \ {Len(stack)}
    /\ outer' = Front(outer)
    /\ left' = (left \/ Len(stack') < cmd.depth)

EvaluateCondition ==
    /\ pc = "condition"
    /\ Inject("condition", frames)
    /\ UNCHANGED <<flags, steps, frame_stack, table, reason, cmd, left, disturbed>>

\* The condition throws, or is falsy: the handler returns without looking at
\* the step mode.
ConditionFalsy ==
    /\ \/ InjectedEnds("condition")
       \/ pc = "condition" /\ UNCHANGED <<engine, outer, left>>
    /\ Returns
    /\ UNCHANGED <<flags, steps, frame_stack, table, frames, reason, cmd, disturbed>>

ConditionTruthy ==
    /\ InjectedEnds("condition")
    /\ Stop("breakpoint", Last(outer).hit)
    /\ UNCHANGED <<flags, step_start, frame_stack, table, mode, frames, cmd, disturbed, standing>>

\* Mutant: stepping over stops in the functions it should run through.
StepEndsDeeper(depth, p) ==
    \/ mode \in {"Into", "Over"} /\ p # step_start.at
    \/ mode = "Out" /\ depth < step_start.depth

\* Mutant: stepping out stops in the function it should leave.
StepEndsBeforeReturn(depth, p) ==
    \/ mode = "Into" /\ p # step_start.at
    \/ mode = "Over" /\ depth <= step_start.depth /\ p # step_start.at
    \/ mode = "Out" /\ depth <= step_start.depth /\ p # step_start.at

\* The switch over the mode: has the step come to its end here?
StepEnds(depth, p) ==
    \/ mode = "Into" /\ p # step_start.at
    \/ mode = "Over" /\ depth <= step_start.depth /\ p # step_start.at
    \/ mode = "Out" /\ depth < step_start.depth

Step ==
    /\ pc = "step"
    /\ IF StepEnds(Len(stack), Last(stack))
       THEN Stop("step", 0) /\ UNCHANGED <<mode, standing>>
       ELSE Returns /\ UNCHANGED <<step_mode, reason>>
    /\ UNCHANGED <<engine, flags, step_start, frame_stack, table, frames, outer, cmd, left, disturbed>>

-----------------------------------------------------------------------------
(* do_pause and the client.                                                *)

\* Inside an evaluate request the pause waits for its own mutex for ever.
Evaluating == \E i \in 1..Len(outer) : outer[i].kind = "evaluate"

\* do_pause is entered: what led to the pause is over.
Captures ==
    /\ pc = "capture" /\ pc' = "walk"
    /\ frames' = <<>>
    /\ reason' = "none" /\ standing' = {}
    /\ cmd' = NoCommand /\ left' = FALSE /\ disturbed' = FALSE

\* Mutant: the frames are captured as they were last tracked.
CaptureUntracked ==
    /\ Captures
    /\ UNCHANGED <<engine, flags, steps, frame_stack, table, mode, hit, outer>>

\* capture_frames tracks once more: a condition's statements came in between.
Capture ==
    /\ Captures
    /\ frame_stack' = Track(Len(stack), Last(stack))
    /\ UNCHANGED <<engine, flags, steps, table, mode, hit, outer>>

\* The frames listed so far, and on down to frame j.  The level is counted
\* from the size frame_stack_ has at that moment.
Listing(j) ==
    LET next == Len(stack) - Len(frames)
    IN  frames \o [k \in 1..next - j + 1 |->
                     [at |-> frame_stack[next - k + 1],
                      level |-> Len(frame_stack) - (next - k + 1)]]

\* While frame j's values are read, JS_GetProperty runs a getter.
RunGetter ==
    /\ pc = "walk" /\ Getters
    /\ \E j \in 1..Len(stack) :
          j <= Len(stack) - Len(frames) + 1 /\ Inject("getter", Listing(j))
    /\ UNCHANGED <<flags, steps, frame_stack, table, reason, cmd, left, disturbed>>

GetterEnds ==
    /\ InjectedEnds("getter")
    /\ pc' = "walk"
    /\ hit' = Last(outer).hit /\ frames' = Last(outer).frames
    /\ disturbed' = TRUE
    /\ UNCHANGED <<flags, steps, frame_stack, table, mode, reason, cmd, standing>>

\* The rest of the frames is listed, the event is sent, do_pause waits.
CaptureEnds ==
    /\ pc = "walk"
    /\ frames' = Listing(1)
    /\ pc' = IF Evaluating THEN "stuck" ELSE "paused"
    /\ UNCHANGED <<engine, flags, steps, frame_stack, table, mode, hit, outer, history>>

\* History: of the commands only a step is remembered.
Remember(m) ==
    /\ cmd' = IF m \in StepModes THEN [mode |-> m, depth |-> Len(stack), at |-> Last(stack)]
              ELSE NoCommand
    /\ disturbed' = (disturbed /\ m \in StepModes)

\* Mutant: a step starts where the last one did.
ControlKeepsStart(m) ==
    /\ pc = "paused" /\ m \in Commands
    /\ step_mode' = m
    /\ pause_requested' = FALSE
    /\ Remember(m)
    /\ frames' = <<>>
    /\ Returns
    /\ UNCHANGED <<engine, enabled, pause_on_start, step_start, frame_stack, table, outer,
                   reason, left>>

\* resume, step_over, step_into, step_out; do_pause and the handler return.
Control(m) ==
    /\ pc = "paused" /\ m \in Commands
    /\ step_mode' = m
    /\ step_start' = IF m = "Continue" THEN step_start
                     ELSE [depth |-> Len(frame_stack), at |-> Last(frame_stack)]
    /\ pause_requested' = FALSE
    /\ Remember(m)
    /\ frames' = <<>>
    /\ Returns
    /\ UNCHANGED <<engine, enabled, pause_on_start, frame_stack, table, outer, reason, left>>

\* An expression that is no local's name is run by JS_Eval; the getters of
\* its value, or of the local's, run as well.
Evaluate ==
    /\ pc = "paused" /\ "evaluate" \in Commands
    /\ Inject("evaluate", frames)
    /\ UNCHANGED <<flags, steps, frame_stack, table, reason, cmd, left, disturbed>>

EvaluateEnds ==
    /\ InjectedEnds("evaluate")
    /\ pc' = "paused"
    /\ hit' = Last(outer).hit /\ frames' = Last(outer).frames
    /\ disturbed' = TRUE
    /\ UNCHANGED <<flags, steps, frame_stack, table, mode, reason, cmd, standing>>

\* Mutant: the next breakpoint gets the same id.
SetBreakpointSameId(p, c) ==
    /\ next_bp_id <= MaxBps
    /\ breakpoints' = [id \in DOMAIN breakpoints \union {next_bp_id} |->
                          IF id = next_bp_id THEN [at |-> p, cond |-> c] ELSE breakpoints[id]]
    /\ UNCHANGED <<engine, flags, steps, frame_stack, next_bp_id, bp_active, pc, locals, history>>

\* Ids are handed out upwards and never again.
SetBreakpoint(p, c) ==
    /\ next_bp_id <= MaxBps
    /\ breakpoints' = [id \in DOMAIN breakpoints \union {next_bp_id} |->
                          IF id = next_bp_id THEN [at |-> p, cond |-> c] ELSE breakpoints[id]]
    /\ next_bp_id' = next_bp_id + 1
    /\ UNCHANGED <<engine, flags, steps, frame_stack, bp_active, pc, locals, history>>

RemoveBreakpoint(id) ==
    /\ "remove" \in Commands
    /\ breakpoints' = [i \in DOMAIN breakpoints \ {id} |-> breakpoints[i]]
    /\ UNCHANGED <<engine, flags, steps, frame_stack, next_bp_id, bp_active, pc, locals, history>>

SetActive ==
    /\ "active" \in Commands
    /\ bp_active' \in BOOLEAN
    /\ UNCHANGED <<engine, flags, steps, frame_stack, breakpoints, next_bp_id, pc, locals, history>>

RequestPause ==
    /\ "pause" \in Commands
    /\ pause_requested' = TRUE
    /\ UNCHANGED <<engine, enabled, pause_on_start, steps, frame_stack, table, pc, locals, history>>

SetEnabled ==
    /\ "enable" \in Commands
    /\ enabled' \in BOOLEAN
    /\ UNCHANGED <<engine, pause_requested, pause_on_start, steps, frame_stack, table, pc, locals, history>>

-----------------------------------------------------------------------------
Engine == Call \/ Leave \/ \E p \in Places \union {Injected} : Trace(p) \/ Skip(p)

Handler ==
    \/ TakeRequest \/ TakeEntry \/ CheckBreakpoint \/ Lookup
    \/ EvaluateCondition \/ ConditionFalsy \/ ConditionTruthy
    \/ Step \/ Capture \/ RunGetter \/ GetterEnds \/ CaptureEnds \/ EvaluateEnds

Client ==
    \/ \E m \in StepModes \union {"Continue"} : Control(m)
    \/ Evaluate
    \/ \E p \in BpPlaces, c \in Conditions : SetBreakpoint(p, c)
    \/ \E id \in DOMAIN breakpoints : RemoveBreakpoint(id)
    \/ SetActive \/ RequestPause \/ SetEnabled

Next == Engine \/ Handler \/ Client

Spec == Init /\ [][Next]_vars

-----------------------------------------------------------------------------
(* Properties.                                                             *)

Frame == Places \union {Injected, Nowhere}
Modes == StepModes \union {"None", "Continue"}
Listings == Seq([at : Frame, level : Int])

\* Types of the session's fields and the handler's locals
\* (debug_session.h:141-167, 185).
TypeOK ==
    /\ stack \in Seq(Frame) /\ Len(stack) \in 1..MaxDepth
    /\ unseen \subseteq 1..Len(stack)
    /\ enabled \in BOOLEAN /\ pause_requested \in BOOLEAN /\ pause_on_start \in BOOLEAN
    /\ step_mode \in Modes /\ mode \in Modes
    /\ step_start \in [depth : 0..MaxDepth, at : Frame]
    /\ frame_stack \in Seq(Frame) /\ Len(frame_stack) \in 0..MaxDepth
    /\ next_bp_id \in 1..MaxBps + 1
    /\ DOMAIN breakpoints \subseteq 1..next_bp_id - 1
    /\ \A id \in DOMAIN breakpoints : breakpoints[id] \in [at : BpPlaces, cond : BOOLEAN]
    /\ bp_active \in BOOLEAN
    /\ pc \in {"run", "decide", "lookup", "condition", "step", "capture", "walk", "paused", "stuck"}
    /\ hit \in 0..next_bp_id - 1
    /\ frames \in Listings
    /\ Len(outer) <= MaxNest
    /\ \A i \in 1..Len(outer) :
          outer[i] \in [kind : {"condition", "getter", "evaluate"}, base : 1..MaxDepth,
                        hit : 0..MaxBps, standing : SUBSET (1..MaxBps), frames : Listings]
    /\ reason \in {"none", "pause", "entry", "breakpoint", "step"}
    /\ cmd \in [mode : StepModes \union {"None"}, depth : 0..MaxDepth, at : Frame]
    /\ left \in BOOLEAN /\ disturbed \in BOOLEAN /\ standing \subseteq 1..next_bp_id - 1

\* The handler was told of the last statement the i-th frame has reached.
Known(i) == stack[i] # Nowhere /\ i \notin unseen

\* The paused event lists as many frames as the engine has, innermost first: the
\* one that stopped at the statement it stopped at, every other one whose last
\* statement the handler was told of at that statement, whatever was called,
\* returned, evaluated or, while the session was disabled, run above it since;
\* and, if no getter ran while they were captured, each with its own level, by
\* which its variables are found.  It says nothing of where a frame is listed
\* whose last statement ran while the session was disabled
\* (debug_session.cpp:537-574, 908, 913-924).
FramesAreReal ==
    pc = "paused" =>
        /\ Len(frames) = Len(stack)
        /\ frames[1].at = Last(stack)
        /\ \A k \in 1..Len(stack) :
              /\ Known(Len(stack) - k + 1) => frames[k].at = stack[Len(stack) - k + 1]
              /\ ~disturbed => frames[k].level = k - 1

\* Step over does not stop in what the statement calls: while the frame it was
\* given in has not returned, it stops there, at another statement
\* (debug_session.cpp:1006-1015, 315-324).
StepOverStays ==
    pc = "capture" /\ reason = "step" /\ cmd.mode = "Over" /\ ~left /\ ~disturbed
        => Len(stack) = cmd.depth /\ Last(stack) # cmd.at

\* The end of the client's step, by the engine's stack and not by the
\* session's copy of it.
Arrived ==
    \/ cmd.mode = "Into" /\ Last(stack) # cmd.at
    \/ cmd.mode = "Over" /\ Len(stack) <= cmd.depth /\ Last(stack) # cmd.at
    \/ cmd.mode = "Out" /\ Len(stack) < cmd.depth

\* A step is not missed: once the switch is reached at the step's end, the
\* script does not run on (debug_session.cpp:992-1027).  A falsy condition at
\* the statement does skip the switch (983-985).
StepTaken == [][pc = "step" /\ pc' = "run" /\ ~disturbed => ~Arrived]_vars

\* A breakpoint without a condition that was in force when the handler looked,
\* and still exists, stops the script, unless the handler met a falsy condition
\* of one with a lower id (debug_session.cpp:944-989).
Behind(first, ids) == \A id \in ids \intersect DOMAIN breakpoints : 0 < first /\ first < id
BreakpointsStop ==
    [][/\ pc = "step" /\ pc' = "run" => Behind(0, standing)
       /\ pc = "condition" /\ pc' = "run" /\ outer' = outer => Behind(hit, standing)
       /\ pc = "run" /\ pc' = "run" /\ Len(outer') < Len(outer) =>
             Behind(Last(outer).hit, Last(outer).standing)]_vars

\* debug_session.cpp:1018: "Pause when we return to a lower depth": a step out
\* stops only when the frame it was given in has returned
\* (debug_session.cpp:1017-1023, 336-343).
StepOutLeaves == pc = "capture" /\ reason = "step" /\ cmd.mode = "Out" => left

\* What the code does keep of it: the same, unless a getter or an evaluate
\* request ran code on top of the frames during the pause the step was given in.
StepOutLeavesUndisturbed == ~disturbed => StepOutLeaves
=============================================================================
