---------------------------- MODULE DebugSession ----------------------------
(***************************************************************************)
(* Execution control of one DebugSession (debugger/src/debug_session.cpp): *)
(* the JS thread, which runs the script and the OP_debug callback, and the *)
(* WebSocket thread, which handles one CDP command after the other.  They  *)
(* share atomics, two condition variables and a pointer to an evaluate     *)
(* request that lives on the WebSocket thread's stack.                     *)
(*                                                                         *)
(* One action is one atomic load or store, one critical section, or one    *)
(* step of a condition variable's wait (test, block, wake), so that every  *)
(* order of the two threads' accesses is a behaviour.                      *)
(*                                                                         *)
(* Data the control does not depend on is abstracted: whether a breakpoint *)
(* matches, a condition is truthy or a step has reached its target is a    *)
(* choice; the contents of captured frames and events are left out.        *)
(***************************************************************************)

CONSTANTS
    InspectBrk,     \* the values --inspect-brk may have: a set of Booleans
    Commands,       \* CDP methods the client uses, a subset of AllCommands
    Locals,         \* expressions that name a local of the paused frame
    Code,           \* expressions that JS_Eval must run
    NoExpr,         \* not an expression: an unset json::Value
    Getters,        \* do captured values have properties with getters
    Disciplines     \* the values "polite" may have: a set of Booleans

Control == {"resume", "stepOver", "stepInto", "stepOut"}

AllCommands == Control \union
    {"pause", "enable", "disable", "evaluate", "getProperties",
     "runIfWaiting", "close"}

Exprs == Locals \union Code

ASSUME ConstantsAssumption ==
    /\ InspectBrk \subseteq BOOLEAN
    /\ Commands \subseteq AllCommands
    /\ Locals \intersect Code = {}
    /\ NoExpr \notin Exprs
    /\ Getters \in BOOLEAN
    /\ Disciplines \subseteq BOOLEAN

VARIABLES
    \* atomics of the session
    enabled, paused, step_mode, pause_requested, waiting,
    \* evaluate-while-paused queue: pending_eval is the pointer (TRUE when it
    \* is &req), eval_mutex is TRUE while the JS thread holds the mutex
    pending_eval, req, eval_mutex,
    \* JS thread: control point, the handler's local "mode", frames of an
    \* outer handler (its condition), of an outer capture_frames (a getter)
    \* and of an outer do_pause (its JS_Eval), each within the one before
    jpc, mode, inCond, inGet, inEval, pause_on_start, pause_mutex,
    \* WebSocket thread: control point and the step mode it is storing
    wpc, wmode,
    \* what the client has seen and sent: the last pause/resume event, and
    \* whether it has sent a control command since that event, and whether
    \* it is polite: sends control commands and reads paused state only while
    \* it knows of a pause it has not answered
    event, ordered, polite

atomics   == <<enabled, paused, step_mode, pause_requested, waiting>>
evalVars  == <<pending_eval, req, eval_mutex>>
stack     == <<inCond, inGet, inEval>>
jsLocal   == <<mode, stack, pause_on_start, pause_mutex>>
wsVars    == <<wpc, wmode>>
client    == <<event, ordered, polite>>
vars == <<atomics, evalVars, jpc, jsLocal, wsVars, client>>

StepModes == {"Over", "Into", "Out"}

\* The mode each control command stores into step_mode_.
ModeOf(c) == CASE c = "stepOver" -> "Over"
               [] c = "stepInto" -> "Into"
               [] c = "stepOut"  -> "Out"
               [] OTHER          -> "Continue"

\* Both threads are straight-line code: most steps move from a to b.
JsGo(a, b) == jpc = a /\ jpc' = b
WsGo(a, b) == wpc = a /\ wpc' = b

\* A step that only moves.
JsMove(a, b) == JsGo(a, b) /\ UNCHANGED <<atomics, evalVars, jsLocal, wsVars, client>>
WsMove(a, b) == WsGo(a, b) /\ UNCHANGED <<atomics, evalVars, jpc, jsLocal, wmode, client>>

-----------------------------------------------------------------------------
(* main() after the connection is accepted: inspect-brk arms the entry     *)
(* pause and enables the session before the WebSocket thread starts.       *)
Init ==
    /\ pause_on_start \in InspectBrk
    /\ enabled = pause_on_start
    /\ jpc = IF pause_on_start THEN "gate_set" ELSE "script"
    /\ paused = FALSE
    /\ step_mode = "None"
    /\ pause_requested = FALSE
    /\ waiting = FALSE
    /\ pending_eval = FALSE
    /\ req = [expr |-> NoExpr, ready |-> FALSE, result |-> NoExpr]
    /\ eval_mutex = FALSE
    /\ mode = "None"
    /\ inCond = FALSE
    /\ inGet = FALSE
    /\ inEval = FALSE
    /\ pause_mutex = FALSE
    /\ wpc = "recv"
    /\ wmode = "Continue"
    /\ event = "none"
    /\ ordered = FALSE
    /\ polite \in Disciplines

-----------------------------------------------------------------------------
(* JS thread: wait_for_debugger.  No other thread takes wait_mutex_.       *)

GateSet ==
    /\ JsGo("gate_set", "gate_test")
    /\ waiting' = TRUE
    /\ UNCHANGED <<enabled, paused, step_mode, pause_requested, evalVars, jsLocal, wsVars, client>>

GateTest == JsMove("gate_test", IF waiting THEN "gate_block" ELSE "script")

GateBlock == JsMove("gate_block", "gate_parked")

-----------------------------------------------------------------------------
(* JS thread: the engine, and debug_trace_handler up to its decision.      *)

\* JS_Eval of the script reaches an OP_debug, or returns.
RunScript ==
    /\ jpc = "script"
    /\ jpc' \in {"h_enabled", "done"}
    /\ UNCHANGED <<atomics, evalVars, jsLocal, wsVars, client>>

\* The handler returns to whatever called it: the expression do_pause is
\* evaluating, the getter of a value that is being captured, the condition an
\* outer handler is evaluating, or the script.
Return ==
    /\ jpc' = CASE inEval -> "eval_code"
                [] ~inEval /\ inGet -> "capture"
                [] ~inEval /\ ~inGet -> IF inCond THEN "h_cond" ELSE "script"
    /\ inEval' = FALSE
    /\ inGet' = (inGet /\ inEval)
    /\ inCond' = (inCond /\ (inEval \/ inGet))

HandlerEnabled ==
    /\ jpc = "h_enabled"
    /\ \/ enabled /\ jpc' = "h_frames" /\ UNCHANGED stack
       \/ ~enabled /\ Return
    /\ UNCHANGED <<atomics, evalVars, mode, pause_on_start, pause_mutex, wsVars, client>>

\* frame_stack_ is resized and its top overwritten.
HandlerFrames == JsMove("h_frames", "h_mode")

HandlerMode ==
    /\ JsGo("h_mode", "h_request")
    /\ mode' = step_mode
    /\ UNCHANGED <<atomics, evalVars, stack, pause_on_start, pause_mutex, wsVars, client>>

\* Mutant: a request is looked at only in a running mode.
HandlerRequestWhenRunning ==
    /\ JsGo("h_request", IF pause_requested /\ mode # "None" THEN "h_take"
                         ELSE IF pause_on_start THEN "h_none" ELSE "h_bp")
    /\ pause_on_start' = (pause_on_start /\ pause_requested)
    /\ UNCHANGED <<atomics, evalVars, mode, stack, pause_mutex, wsVars, client>>

\* A pause request wins over the entry pause, which stays armed.
HandlerRequest ==
    /\ JsGo("h_request", IF pause_requested THEN "h_take"
                         ELSE IF pause_on_start THEN "h_none" ELSE "h_bp")
    /\ pause_on_start' = (pause_on_start /\ pause_requested)
    /\ UNCHANGED <<atomics, evalVars, mode, stack, pause_mutex, wsVars, client>>

HandlerTake ==
    /\ JsGo("h_take", "h_none")
    /\ pause_requested' = FALSE
    /\ UNCHANGED <<enabled, paused, step_mode, waiting, evalVars, jsLocal, wsVars, client>>

\* No breakpoint matches, an unconditional one does, or one whose condition
\* must be evaluated.  Bound: no code the debugger runs reaches a further
\* conditional breakpoint.
HandlerBreakpoint ==
    /\ jpc = "h_bp"
    /\ jpc' \in {"h_step", "h_none"} \union (IF inCond \/ inGet \/ inEval THEN {} ELSE {"h_cond"})
    /\ UNCHANGED <<atomics, evalVars, jsLocal, wsVars, client>>

\* evaluate_condition runs JS_Eval, whose code reaches OP_debug callbacks;
\* it ends truthy (pause) or falsy (return 0 without looking at the steps).
HandlerCondition ==
    /\ jpc = "h_cond"
    /\ \/ jpc' = "h_enabled" /\ inCond' = TRUE /\ UNCHANGED <<inGet, inEval>>
       \/ jpc' = "h_none" /\ UNCHANGED stack
       \/ Return
    /\ UNCHANGED <<atomics, evalVars, mode, pause_on_start, pause_mutex, wsVars, client>>

\* The switch over the mode loaded on entry.
HandlerStep ==
    /\ jpc = "h_step"
    /\ \/ mode \in StepModes /\ jpc' = "h_none" /\ UNCHANGED stack
       \/ Return
    /\ UNCHANGED <<atomics, evalVars, mode, pause_on_start, pause_mutex, wsVars, client>>

\* Mutant: the pause is announced before the frames are captured.
HandlerNoneAnnounced ==
    /\ JsGo("h_none", "capture")
    /\ step_mode' = "None"
    /\ event' = "paused"
    /\ ordered' = FALSE
    /\ UNCHANGED <<enabled, paused, pause_requested, waiting, evalVars, jsLocal, wsVars, polite>>

\* Every path that pauses first stores StepMode::None.
HandlerNone ==
    /\ JsGo("h_none", "capture")
    /\ step_mode' = "None"
    /\ UNCHANGED <<enabled, paused, pause_requested, waiting, evalVars, jsLocal, wsVars, client>>

-----------------------------------------------------------------------------
(* JS thread: do_pause.                                                    *)

\* capture_frames rewrites frame_stack_, object_store_ and captured_frames_.
Capture == JsMove("capture", "p_store")

\* A value it reads has a getter, whose code reaches OP_debug: the handler
\* runs inside capture_frames.  Bound: no capture within it or within an
\* expression meets another getter.
CaptureGetter ==
    /\ Getters /\ ~inGet /\ ~inEval
    /\ JsGo("capture", "h_enabled")
    /\ inGet' = TRUE
    /\ UNCHANGED <<atomics, evalVars, mode, inCond, inEval, pause_on_start, pause_mutex,
                   wsVars, client>>

PauseStore ==
    /\ JsGo("p_store", "p_event")
    /\ paused' = TRUE
    /\ UNCHANGED <<enabled, step_mode, pause_requested, waiting, evalVars, jsLocal, wsVars, client>>

PauseEvent ==
    /\ JsGo("p_event", "p_lock")
    /\ event' = "paused"
    /\ ordered' = FALSE
    /\ UNCHANGED <<atomics, evalVars, jsLocal, wsVars, polite>>

\* Mutant: StepMode::None is stored after the event, under the lock.
PauseLockThenNone ==
    /\ \/ JsGo("p_lock", "w_while")
       \/ JsGo("w_woken", "w_pred")
    /\ ~pause_mutex
    /\ pause_mutex' = TRUE
    /\ step_mode' = "None"
    /\ UNCHANGED <<enabled, paused, pause_requested, waiting, evalVars, mode, stack,
                   pause_on_start, wsVars, client>>

\* Taking pause_mutex_, first and again after a wake-up.  Only the JS thread
\* ever takes it, so it is busy only under a do_pause further up its stack.
PauseLock ==
    /\ \/ JsGo("p_lock", "w_while")
       \/ JsGo("w_woken", "w_pred")
    /\ ~pause_mutex
    /\ pause_mutex' = TRUE
    /\ UNCHANGED <<atomics, evalVars, mode, stack, pause_on_start, wsVars, client>>

\* while (paused_.load()); leaving the block releases the mutex.
PauseWhile ==
    /\ JsGo("w_while", IF paused THEN "w_pred" ELSE "p_resumed")
    /\ pause_mutex' = paused
    /\ UNCHANGED <<atomics, evalVars, mode, stack, pause_on_start, wsVars, client>>

\* The wait's predicate, read in order: !paused_ || pending_eval_ != nullptr.
WaitPaused == JsMove("w_pred", IF paused THEN "w_pred2" ELSE "w_if")

WaitPending == JsMove("w_pred2", IF pending_eval THEN "w_if" ELSE "w_block")

\* wait(lock) releases the mutex and joins the waiters in one step.
WaitBlock ==
    /\ JsGo("w_block", "w_parked")
    /\ pause_mutex' = FALSE
    /\ UNCHANGED <<atomics, evalVars, mode, stack, pause_on_start, wsVars, client>>

\* if (paused_.load() && pending_eval_ != nullptr)
IfPaused == JsMove("w_if", IF paused THEN "w_if2" ELSE "w_while")

IfPending == JsMove("w_if2", IF pending_eval THEN "w_elock" ELSE "w_while")

EvalLock ==
    /\ JsGo("w_elock", "w_deref")
    /\ ~eval_mutex
    /\ eval_mutex' = TRUE
    /\ UNCHANGED <<atomics, pending_eval, req, jsLocal, wsVars, client>>

\* if (pending_eval_): a local of the frame is looked up, anything else runs.
EvalDeref ==
    /\ JsGo("w_deref", IF ~pending_eval THEN "w_eunlock"
                       ELSE IF req.expr \in Locals THEN "eval_local" ELSE "eval_code")
    /\ UNCHANGED <<atomics, evalVars, jsLocal, wsVars, client>>

\* JS_Eval, or a getter of the value, reaches an OP_debug: the handler runs
\* under both mutexes.
EvalReenter ==
    /\ \/ JsGo("eval_code", "h_enabled")
       \/ Getters /\ JsGo("eval_local", "h_enabled")
    /\ inEval' = TRUE
    /\ UNCHANGED <<atomics, evalVars, mode, inCond, inGet, pause_on_start, pause_mutex, wsVars, client>>

EvalResult ==
    /\ \/ JsGo("eval_local", "w_ready")
       \/ JsGo("eval_code", "w_ready")
    /\ req' = [req EXCEPT !.result = req.expr]
    /\ UNCHANGED <<atomics, pending_eval, eval_mutex, jsLocal, wsVars, client>>

\* Mutant: no notify_all on eval_done_cv_.
EvalReadySilent ==
    /\ JsGo("w_ready", "w_eunlock")
    /\ req' = [req EXCEPT !.ready = TRUE]
    /\ UNCHANGED <<atomics, pending_eval, eval_mutex, jsLocal, wsVars, client>>

\* ready = true and eval_done_cv_.notify_all(), under eval_mutex_.
EvalReady ==
    /\ JsGo("w_ready", "w_eunlock")
    /\ req' = [req EXCEPT !.ready = TRUE]
    /\ wpc' = IF wpc = "e_parked" THEN "e_wait" ELSE wpc
    /\ UNCHANGED <<atomics, pending_eval, eval_mutex, jsLocal, wmode, client>>

EvalUnlock ==
    /\ JsGo("w_eunlock", "w_while")
    /\ eval_mutex' = FALSE
    /\ UNCHANGED <<atomics, pending_eval, req, jsLocal, wsVars, client>>

\* Mutant: a step does not announce the end of the pause.
ResumedUnlessStepping ==
    /\ jpc = "p_resumed"
    /\ event' = IF step_mode \in StepModes THEN event ELSE "resumed"
    /\ Return
    /\ UNCHANGED <<atomics, evalVars, mode, pause_on_start, pause_mutex, wsVars, ordered, polite>>

\* The resumed event ends do_pause, and with it the handler.
Resumed ==
    /\ jpc = "p_resumed"
    /\ event' = "resumed"
    /\ Return
    /\ UNCHANGED <<atomics, evalVars, mode, pause_on_start, pause_mutex, wsVars, ordered, polite>>

-----------------------------------------------------------------------------
(* WebSocket thread: handle_message of one command, then the next one.     *)

\* A polite client also sends the start-up command before the first pause.
Polite(c) ==
    polite =>
        /\ c \in Control \union {"getProperties"} => event = "paused" /\ ~ordered
        /\ c = "runIfWaiting" => event = "none"

Receive(c) == wpc = "recv" /\ c \in Commands /\ Polite(c)

ReceiveControl(c) ==
    /\ Receive(c)
    /\ wpc' = IF c = "resume" THEN "g_mode" ELSE "g_start"
    /\ wmode' = ModeOf(c)
    /\ ordered' = TRUE
    /\ UNCHANGED <<atomics, evalVars, jpc, jsLocal, event, polite>>

\* step_over/into/out copy depth, line and file out of frame_stack_.
ControlStart == WsMove("g_start", "g_mode")

\* Stores of step_mode_, pause_requested_, paused_ and waiting_, in the order
\* of resume()/step_*(), of run_if_waiting() and of on_disconnect().
StoreMode ==
    /\ \/ WsGo("g_mode", "g_request") /\ step_mode' = wmode /\ UNCHANGED wmode
       \/ WsGo("r_mode", "r_waiting") /\ step_mode' = "Continue" /\ UNCHANGED wmode
       \/ WsGo("d_mode", "d_paused") /\ step_mode' = "Continue" /\ wmode' = "Continue"
    /\ UNCHANGED <<enabled, paused, pause_requested, waiting, evalVars, jpc, jsLocal, client>>

ClearRequest ==
    /\ \/ WsGo("g_request", "g_paused")
       \/ WsGo("d_request", "d_mode")
    /\ pause_requested' = FALSE
    /\ UNCHANGED <<enabled, paused, step_mode, waiting, evalVars, jpc, jsLocal, wmode, client>>

ClearPaused ==
    /\ \/ WsGo("g_paused", "g_notify")
       \/ WsGo("d_paused", "d_notify")
    /\ paused' = FALSE
    /\ UNCHANGED <<enabled, step_mode, pause_requested, waiting, evalVars, jpc, jsLocal, wmode, client>>

\* Mutant: pause_cv_ is not notified.
NotifyPauseLost ==
    /\ \/ WsGo("g_notify", "recv")
       \/ WsGo("d_notify", "d_waiting")
       \/ WsGo("e_notify", "e_wait")
    /\ UNCHANGED <<atomics, evalVars, jpc, jsLocal, wmode, client>>

\* pause_cv_.notify_all() wakes the JS thread if it is among the waiters.
NotifyPause ==
    /\ \/ WsGo("g_notify", "recv")
       \/ WsGo("d_notify", "d_waiting")
       \/ WsGo("e_notify", "e_wait")
    /\ jpc' = IF jpc = "w_parked" THEN "w_woken" ELSE jpc
    /\ UNCHANGED <<atomics, evalVars, jsLocal, wmode, client>>

ClearWaiting ==
    /\ \/ WsGo("r_waiting", "r_notify")
       \/ WsGo("d_waiting", "d_gate")
    /\ waiting' = FALSE
    /\ UNCHANGED <<enabled, paused, step_mode, pause_requested, evalVars, jpc, jsLocal, wmode, client>>

\* wait_cv_.notify_all(); after on_disconnect the thread ends.
NotifyGate ==
    /\ \/ WsGo("r_notify", "recv")
       \/ WsGo("d_gate", "gone")
    /\ jpc' = IF jpc = "gate_parked" THEN "gate_test" ELSE jpc
    /\ UNCHANGED <<atomics, evalVars, jsLocal, wmode, client>>

ReceiveRunIfWaiting ==
    /\ Receive("runIfWaiting")
    /\ wpc' = "r_mode"
    /\ UNCHANGED <<atomics, evalVars, jpc, jsLocal, wmode, client>>

\* The connection drops: the receive loop calls on_disconnect.
ReceiveClose ==
    /\ Receive("close")
    /\ wpc' = "d_request"
    /\ UNCHANGED <<atomics, evalVars, jpc, jsLocal, wmode, client>>

\* Mutant: the request is stored as StepMode::Pause.
RequestPauseMode ==
    /\ Receive("pause")
    /\ step_mode' = "Pause"
    /\ UNCHANGED <<enabled, paused, pause_requested, waiting, evalVars, jpc, jsLocal, wsVars, client>>

RequestPause ==
    /\ Receive("pause")
    /\ pause_requested' = TRUE
    /\ UNCHANGED <<enabled, paused, step_mode, waiting, evalVars, jpc, jsLocal, wsVars, client>>

SetEnabled ==
    /\ \/ Receive("enable") /\ enabled' = TRUE
       \/ Receive("disable") /\ enabled' = FALSE
    /\ UNCHANGED <<paused, step_mode, pause_requested, waiting, evalVars, jpc, jsLocal, wsVars, client>>

\* get_properties looks an id up in object_store_.
ReceiveGetProperties ==
    /\ Receive("getProperties")
    /\ WsMove("recv", "o_read")

ReadObjects == WsMove("o_read", "recv")

\* Mutant: the request is posted without looking at paused_.
ReceiveEvaluateUnchecked(e) ==
    /\ Receive("evaluate")
    /\ req' = [expr |-> e, ready |-> FALSE, result |-> NoExpr]
    /\ wpc' = "e_post"
    /\ UNCHANGED <<atomics, pending_eval, eval_mutex, jpc, jsLocal, wmode, client>>

\* evaluate_on_call_frame: not paused answers at once; otherwise the request
\* on this stack frame is posted and waited for.
ReceiveEvaluate(e) ==
    /\ Receive("evaluate")
    /\ req' = [expr |-> e, ready |-> FALSE, result |-> NoExpr]
    /\ wpc' = IF paused THEN "e_post" ELSE "recv"
    /\ UNCHANGED <<atomics, pending_eval, eval_mutex, jpc, jsLocal, wmode, client>>

EvaluatePost ==
    /\ WsGo("e_post", "e_notify")
    /\ ~eval_mutex
    /\ pending_eval' = TRUE
    /\ UNCHANGED <<atomics, req, eval_mutex, jpc, jsLocal, wmode, client>>

\* Mutant: the pointer to the dead request is left behind.
EvaluateWaitDangling ==
    /\ wpc = "e_wait"
    /\ ~eval_mutex
    /\ wpc' = IF req.ready THEN "recv" ELSE "e_parked"
    /\ UNCHANGED <<atomics, evalVars, jpc, jsLocal, wmode, client>>

\* Mutant: any wake-up is taken for the answer.
EvaluateWaitUnchecked ==
    /\ wpc = "e_wait"
    /\ ~eval_mutex
    /\ wpc' = "recv"
    /\ pending_eval' = FALSE
    /\ UNCHANGED <<atomics, req, eval_mutex, jpc, jsLocal, wmode, client>>

\* One critical section on eval_mutex_: the predicate holds and the pointer
\* is cleared, or the thread joins the waiters of eval_done_cv_.
EvaluateWait ==
    /\ wpc = "e_wait"
    /\ ~eval_mutex
    /\ wpc' = IF req.ready THEN "recv" ELSE "e_parked"
    /\ pending_eval' = (pending_eval /\ ~req.ready)
    /\ UNCHANGED <<atomics, req, eval_mutex, jpc, jsLocal, wmode, client>>

-----------------------------------------------------------------------------
\* A condition variable may wake its waiter without a notification.
SpuriousWake ==
    \/ /\ \/ JsGo("w_parked", "w_woken")
          \/ JsGo("gate_parked", "gate_test")
       /\ UNCHANGED <<atomics, evalVars, jsLocal, wsVars, client>>
    \/ /\ WsGo("e_parked", "e_wait")
       /\ UNCHANGED <<atomics, evalVars, jpc, jsLocal, wmode, client>>

JsStep ==
    \/ GateSet \/ GateTest \/ GateBlock
    \/ RunScript
    \/ HandlerEnabled \/ HandlerFrames \/ HandlerMode \/ HandlerRequest \/ HandlerTake
    \/ HandlerBreakpoint \/ HandlerCondition \/ HandlerStep \/ HandlerNone
    \/ Capture \/ CaptureGetter \/ PauseStore \/ PauseEvent \/ PauseLock \/ PauseWhile
    \/ WaitPaused \/ WaitPending \/ WaitBlock \/ IfPaused \/ IfPending
    \/ EvalLock \/ EvalDeref \/ EvalReenter \/ EvalResult \/ EvalReady \/ EvalUnlock
    \/ Resumed

ReceiveCommand ==
    \/ \E c \in Control : ReceiveControl(c)
    \/ ReceiveRunIfWaiting \/ ReceiveClose
    \/ RequestPause \/ SetEnabled \/ ReceiveGetProperties
    \/ \E e \in Exprs : ReceiveEvaluate(e)

WsStep ==
    \/ ControlStart \/ ReadObjects \/ StoreMode \/ ClearRequest \/ ClearPaused
    \/ NotifyPause \/ ClearWaiting \/ NotifyGate \/ EvaluatePost \/ EvaluateWait

Next == JsStep \/ ReceiveCommand \/ WsStep \/ SpuriousWake

Spec == Init /\ [][Next]_vars

\* Both threads are scheduled.  A mutex the JS thread releases again and
\* again is eventually granted to the WebSocket thread.  Neither the client
\* nor spurious wake-ups are owed.
FairSpec ==
    /\ Spec
    /\ WF_vars(JsStep)
    /\ WF_vars(WsStep)
    /\ SF_vars(EvaluateWait)

-----------------------------------------------------------------------------
(* Properties.                                                             *)

HandlerLabels == {"h_enabled", "h_frames", "h_mode", "h_request", "h_take",
                  "h_bp", "h_cond", "h_step", "h_none"}

\* do_pause holds pause_mutex_ here.
LockedLabels == {"w_while", "w_pred", "w_pred2", "w_block", "w_if", "w_if2", "w_elock",
                 "w_deref", "eval_local", "eval_code", "w_ready", "w_eunlock"}

\* do_pause between announcing the pause and announcing its end.
StopLabels == LockedLabels \union {"p_event", "p_lock", "w_parked", "w_woken", "p_resumed"}

GateLabels == {"gate_set", "gate_test", "gate_block", "gate_parked"}

JsLabels == HandlerLabels \union StopLabels \union GateLabels \union
    {"script", "done", "capture", "p_store"}

WsLabels == {"recv", "gone", "o_read",
             "g_start", "g_mode", "g_request", "g_paused", "g_notify",
             "r_mode", "r_waiting", "r_notify",
             "d_request", "d_mode", "d_paused", "d_notify", "d_waiting", "d_gate",
             "e_post", "e_notify", "e_wait", "e_parked"}

\* on_disconnect has released the pause itself; the client is gone.
Dropped == {"d_notify", "d_waiting", "d_gate", "gone"}

\* A control command that has yet to release the pause.
ReleaseLabels == {"g_start", "g_mode", "g_request", "g_paused"}

\* evaluate_on_call_frame, its request alive.
AskLabels == {"e_post", "e_notify", "e_wait", "e_parked"}

\* The script stands still: the JS thread is in do_pause, or runs an
\* expression or a callback on behalf of a do_pause.
Stopped == inEval \/ jpc \in StopLabels

\* Every variable keeps its type, and StepMode::Pause is never stored
\* (debug_session.h:146-187).
TypeOK ==
    /\ enabled \in BOOLEAN /\ paused \in BOOLEAN
    /\ pause_requested \in BOOLEAN /\ waiting \in BOOLEAN
    /\ pending_eval \in BOOLEAN /\ eval_mutex \in BOOLEAN
    /\ inCond \in BOOLEAN /\ inGet \in BOOLEAN /\ inEval \in BOOLEAN
    /\ pause_on_start \in BOOLEAN /\ pause_mutex \in BOOLEAN
    /\ step_mode \in StepModes \union {"None", "Continue"}
    /\ mode \in StepModes \union {"None", "Continue"}
    /\ wmode \in StepModes \union {"Continue"}
    /\ req \in [expr : Exprs \union {NoExpr}, ready : BOOLEAN,
                result : Exprs \union {NoExpr}]
    /\ jpc \in JsLabels
    /\ wpc \in WsLabels
    /\ event \in {"none", "paused", "resumed"}
    /\ ordered \in BOOLEAN /\ polite \in BOOLEAN

\* evaluate_on_call_frame's request lives on the WebSocket thread's stack:
\* the pointer other code reads is set only while that frame is alive, and
\* the JS thread computes an answer only for a live request
\* (debug_session.cpp:818-840 against 726-777).
RequestAlive ==
    /\ pending_eval => wpc \in {"e_notify", "e_wait", "e_parked"}
    /\ inEval \/ jpc \in {"eval_local", "eval_code", "w_ready"} => pending_eval

\* While an expression is outstanding nobody releases the pause, so the JS
\* thread cannot leave do_pause under the waiting WebSocket thread
\* (debug_session.cpp:716-780, 810-837).
AskedWhilePaused ==
    wpc \in AskLabels => paused /\ Stopped

\* Pauses and resumptions are announced alternately; the exception is a
\* pause inside an evaluated expression, announced within the outer one
\* (debug_session.cpp:706-708, 786-788).
EventsAlternate ==
    /\ jpc = "p_event" /\ ~inEval => event # "paused"
    /\ jpc = "p_resumed" => event = "paused"

\* The mode a control command stores outlives the JS thread's own store of
\* StepMode::None and is the one the next callback loads, for a client that
\* waits for the paused event (debug_session.cpp:308-344, 926-1021).  (A getter
\* runs before its pause is announced, not after the last one's end.)
StepHonoured ==
    /\ polite /\ ~inGet
    /\ event = "resumed" \/ jpc = "p_resumed"
    /\ jpc \in {"p_resumed", "script", "h_enabled", "h_frames", "h_mode"}
    /\ wpc \notin Dropped
    => step_mode = wmode

\* For such a client the WebSocket thread never reads what the JS thread is
\* writing: frame_stack_ in step_*(), object_store_ in get_properties(); nor
\* does the JS thread read the step_start_ fields while they are written
\* (debug_session.cpp:317-339, 796, 916-924, 997-1019, 674).
NoDataRace ==
    /\ polite /\ wpc = "g_start" => jpc \notin {"h_frames", "h_step", "capture"}
    /\ polite /\ wpc = "o_read" => jpc \notin {"capture", "eval_local", "eval_code"}

-----------------------------------------------------------------------------
\* The inductive invariant behind the safety properties: who holds which
\* mutex, which states of the two threads go together, and what the request
\* holds (the locking of debug_session.cpp:714-781 and 824-837).

MutexOwners ==
    /\ pause_mutex <=> inEval \/ jpc \in LockedLabels
    /\ eval_mutex <=> inEval \/ jpc \in {"w_deref", "eval_local", "eval_code",
                                         "w_ready", "w_eunlock"}

Rendezvous ==
    /\ pending_eval <=> wpc \in {"e_notify", "e_wait", "e_parked"}
    /\ AskedWhilePaused
    /\ paused => Stopped
    /\ RequestAlive

RequestContents ==
    /\ req.result \in {NoExpr, req.expr}
    /\ req.ready => req.result = req.expr
    /\ jpc = "w_ready" => req.result = req.expr
    /\ wpc = "e_post" => req.result = NoExpr
    /\ wpc \in AskLabels => req.expr \in Exprs

PauseStack ==
    /\ jpc = "p_resumed" => ~paused /\ ~inEval
    /\ inEval => jpc \in HandlerLabels \union {"capture", "p_store", "p_event", "p_lock"}

PauseInvariant == MutexOwners /\ Rendezvous /\ RequestContents /\ PauseStack

\* The inductive invariant behind what a client sees and may rely on: the last
\* announcement tells where the JS thread stands, a polite client's commands
\* are handled within the pause they answer, and step_mode_ holds the last
\* one's mode until the handler has loaded it (debug_session.cpp:308-344,
\* 700-714, 782-788, 926-1021).

Announced ==
    /\ event = "paused" <=> inEval \/ jpc \in StopLabels \ {"p_event"}
    /\ jpc \in GateLabels => event = "none"

AnsweredInPause ==
    polite =>
        /\ wpc \in ReleaseLabels => event = "paused" /\ ordered /\ paused
        /\ wpc = "o_read" => event = "paused" /\ ~ordered
        /\ wpc \in {"r_mode", "r_waiting", "r_notify"} => event # "resumed" /\ ~ordered
        /\ event = "none" => ~ordered
        /\ jpc = "p_event" /\ wpc \notin Dropped => paused
        /\ event = "paused" /\ wpc \notin Dropped \union ReleaseLabels =>
               (paused <=> ~ordered)

ModeKept ==
    polite =>
        /\ wpc \in {"g_request", "g_paused"} => step_mode = wmode
        /\ wpc \notin Dropped /\ event = "paused" /\ ~paused => step_mode = wmode
        /\ /\ wpc \notin Dropped /\ event = "resumed" /\ ~inGet
           /\ jpc \in HandlerLabels \union {"script"}
           => step_mode = wmode

ClientInvariant == Announced /\ AnsweredInPause /\ ModeKept

\* The session implements the contract of a pause.
Contract == INSTANCE PauseContract WITH
    stopped  <- Stopped,
    released <- Stopped /\ ~paused,
    asked    <- IF pending_eval THEN req.expr ELSE NoExpr,
    answer   <- IF pending_eval THEN req.result ELSE NoExpr

\* Every behaviour of the two threads is one of PauseContract
\* (do_pause and evaluate_on_call_frame, debug_session.cpp:670-840).
ImplementsContract == Contract!Spec

-----------------------------------------------------------------------------
(* Liveness.                                                               *)

\* A client that repeats the command while it has no effect: resume while the
\* script stands still, runIfWaitingForDebugger while it has not started.
RetrySpec ==
    /\ FairSpec
    /\ SF_vars(Stopped /\ ReceiveControl("resume"))
    /\ SF_vars(jpc \in GateLabels /\ ReceiveRunIfWaiting)

\* A client that repeats resume and runIfWaitingForDebugger gets the script
\* going again, even when a notification was lost, unless the WebSocket
\* thread is for ever inside one evaluate (debug_session.cpp:308-313,
\* 361-366, 714-719, 832-837).
RepeatedCommandsRelease ==
    \/ <>[](wpc \in {"e_wait", "e_parked"})
    \/ /\ []<>~Stopped
       /\ []<>(jpc \notin GateLabels)

\* A pause request is taken by a coming callback, unless a control command
\* withdraws it or the script ends (debug_session.cpp:310, 347, 929-934).
PauseRequestTaken ==
    pause_requested /\ enabled ~> Stopped \/ ~pause_requested \/ jpc = "done"

\* An expression posted to a parked JS thread is answered, when the
\* expression itself ends (debug_session.cpp:830-839).
ParkedEvalAnswered ==
    jpc = "w_parked" /\ wpc = "e_notify" ~> wpc \notin AskLabels

\* Statements of the documentation that the code does not keep.

\* README.md:79: "DebugSession receives the command and unblocks, script
\* resumes execution"; debug_session.cpp:369: "Unblock everything on disconnect":
\* a pause ends when it has been resumed or its debugger has left
\* (debug_session.cpp:308-313, 368-373, 714-719), under FairSpec.
ResumeUnblocks == wpc \in {"g_paused", "d_paused"} ~> ~Stopped

\* debug_session.h:180: ready is "set true when JS thread is done"; a request
\* that is done is not evaluated again (debug_session.cpp:716-777).
EvaluatedOnce == jpc \in {"eval_local", "eval_code"} => ~req.ready

\* README.md:77-79: a breakpoint that is hit pauses, and the command that
\* answers it unblocks; so a pause must get as far as waiting for one
\* (debug_session.cpp:715, reached again from 749).
PauseGetsToWait == jpc = "p_lock" => ~pause_mutex
=============================================================================
