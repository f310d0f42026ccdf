------------------------- MODULE DebugSessionProofs -------------------------
(***************************************************************************)
(* Theorems about DebugSession for every client, every choice of --inspect *)
(* and --inspect-brk and every set of expressions:                         *)
(*   - its types, the inductive invariant of the pause and what follows    *)
(*     from it about the evaluate request;                                 *)
(*   - that it implements PauseContract.                                   *)
(***************************************************************************)
EXTENDS DebugSession, TLAPS

\* What a step preserves.
IInv == TypeOK /\ PauseInvariant

USE DEF vars, atomics, evalVars, stack, jsLocal, wsVars, client,
        JsGo, WsGo, JsMove, WsMove

\* A return from the handler leads to a control point (debug_session.cpp:1029).
LEMMA ReturnTypes ==
    ASSUME TypeOK, Return
    PROVE  jpc' \in JsLabels /\ inEval' \in BOOLEAN /\ inGet' \in BOOLEAN /\ inCond' \in BOOLEAN
<1>1. jpc' \in JsLabels
  BY DEF Return, TypeOK, JsLabels, StopLabels, LockedLabels, HandlerLabels
<1>2. inEval' \in BOOLEAN /\ inGet' \in BOOLEAN /\ inCond' \in BOOLEAN
  BY Zenon DEF Return
<1> QED
  BY <1>1, <1>2

\* No access of either thread spoils a type (debug_session.h:146-187).
LEMMA NextTypeOK == TypeOK /\ [Next]_vars => TypeOK'
<1> SUFFICES ASSUME TypeOK, [Next]_vars PROVE TypeOK'
    OBVIOUS
<1> USE DEF TypeOK, StepModes, JsLabels, WsLabels, StopLabels, LockedLabels, HandlerLabels, GateLabels
<1>1. CASE GateSet
  BY <1>1 DEF GateSet
<1>2. CASE GateTest
  BY <1>2 DEF GateTest
<1>3. CASE GateBlock
  BY <1>3 DEF GateBlock
<1>4. CASE RunScript
  BY <1>4 DEF RunScript
<1>5. CASE HandlerEnabled
  <2>1. CASE enabled /\ jpc' = "h_frames" /\ UNCHANGED stack
    BY <1>5, <2>1 DEF HandlerEnabled
  <2>2. CASE Return
    BY <1>5, <2>2, ReturnTypes DEF HandlerEnabled
  <2> QED
    BY <1>5, <2>1, <2>2 DEF HandlerEnabled
<1>6. CASE HandlerFrames
  BY <1>6 DEF HandlerFrames
<1>7. CASE HandlerMode
  BY <1>7 DEF HandlerMode
<1>8. CASE HandlerRequest
  BY <1>8 DEF HandlerRequest
<1>9. CASE HandlerTake
  <2>1. pause_requested' \in BOOLEAN
    BY <1>9, Zenon DEF HandlerTake
  <2> QED
    BY <1>9, <2>1 DEF HandlerTake
<1>10. CASE HandlerBreakpoint
  BY <1>10 DEF HandlerBreakpoint
<1>11. CASE HandlerCondition
  <2>1. CASE Return
    BY <1>11, <2>1, ReturnTypes DEF HandlerCondition
  <2>2. CASE jpc' = "h_none" /\ UNCHANGED stack
    BY <1>11, <2>2 DEF HandlerCondition
  <2>3. CASE jpc' = "h_enabled" /\ inCond' = TRUE /\ UNCHANGED <<inGet, inEval>>
    BY <1>11, <2>3 DEF HandlerCondition
  <2> QED
    BY <1>11, <2>1, <2>2, <2>3 DEF HandlerCondition
<1>12. CASE HandlerStep
  <2>1. CASE Return
    BY <1>12, <2>1, ReturnTypes DEF HandlerStep
  <2>2. CASE ~Return
    BY <1>12, <2>2 DEF HandlerStep
  <2> QED
    BY <2>1, <2>2
<1>13. CASE HandlerNone
  BY <1>13 DEF HandlerNone
<1>14. CASE Capture
  BY <1>14 DEF Capture
<1>15. CASE PauseStore
  BY <1>15 DEF PauseStore
<1>16. CASE PauseEvent
  <2>1. ordered' \in BOOLEAN
    BY <1>16, Zenon DEF PauseEvent
  <2> QED
    BY <1>16, <2>1 DEF PauseEvent
<1>17. CASE PauseLock
  BY <1>17 DEF PauseLock
<1>18. CASE PauseWhile
  BY <1>18 DEF PauseWhile
<1>19. CASE WaitPaused
  BY <1>19 DEF WaitPaused
<1>20. CASE WaitPending
  BY <1>20 DEF WaitPending
<1>21. CASE WaitBlock
  <2>1. pause_mutex' \in BOOLEAN
    BY <1>21, Zenon DEF WaitBlock
  <2> QED
    BY <1>21, <2>1 DEF WaitBlock
<1>22. CASE IfPaused
  BY <1>22 DEF IfPaused
<1>23. CASE IfPending
  BY <1>23 DEF IfPending
<1>24. CASE EvalLock
  BY <1>24 DEF EvalLock
<1>25. CASE EvalDeref
  BY <1>25 DEF EvalDeref
<1>26. CASE EvalReenter
  BY <1>26 DEF EvalReenter
<1>27. CASE EvalResult
  BY <1>27 DEF EvalResult
<1>28. CASE EvalReady
  <2>1. req' \in [expr : Exprs \union {NoExpr}, ready : BOOLEAN,
                   result : Exprs \union {NoExpr}]
    BY <1>28 DEF EvalReady
  <2>2. wpc' \in WsLabels
    BY <1>28 DEF EvalReady
  <2> QED
    BY <1>28, <2>1, <2>2 DEF EvalReady
<1>29. CASE EvalUnlock
  <2>1. eval_mutex' \in BOOLEAN
    BY <1>29, Zenon DEF EvalUnlock
  <2> QED
    BY <1>29, <2>1 DEF EvalUnlock
<1>30. CASE Resumed
  BY <1>30, ReturnTypes DEF Resumed
<1>31. CASE \E c \in Control : ReceiveControl(c)
  BY <1>31 DEF ReceiveControl, Control, ModeOf, Receive
<1>32. CASE ReceiveRunIfWaiting
  BY <1>32 DEF ReceiveRunIfWaiting, Receive
<1>33. CASE ReceiveClose
  BY <1>33 DEF ReceiveClose, Receive
<1>34. CASE RequestPause
  BY <1>34 DEF RequestPause, Receive
<1>35. CASE SetEnabled
  <2>1. enabled' \in BOOLEAN
    BY <1>35, Zenon DEF SetEnabled, Receive
  <2> QED
    BY <1>35, <2>1 DEF SetEnabled, Receive
<1>36. CASE ReceiveGetProperties
  BY <1>36 DEF ReceiveGetProperties, Receive
<1>37. CASE \E e \in Exprs : ReceiveEvaluate(e)
  BY <1>37, ConstantsAssumption DEF ReceiveEvaluate, Receive
<1>38. CASE ControlStart
  BY <1>38 DEF ControlStart
<1>39. CASE ReadObjects
  BY <1>39 DEF ReadObjects
<1>40. CASE StoreMode
  BY <1>40 DEF StoreMode
<1>41. CASE ClearRequest
  <2>1. pause_requested' \in BOOLEAN
    BY <1>41, Zenon DEF ClearRequest
  <2> QED
    BY <1>41, <2>1 DEF ClearRequest
<1>42. CASE ClearPaused
  <2>1. paused' \in BOOLEAN
    BY <1>42, Zenon DEF ClearPaused
  <2> QED
    BY <1>42, <2>1 DEF ClearPaused
<1>43. CASE NotifyPause
  BY <1>43 DEF NotifyPause
<1>44. CASE ClearWaiting
  <2>1. waiting' \in BOOLEAN
    BY <1>44, Zenon DEF ClearWaiting
  <2> QED
    BY <1>44, <2>1 DEF ClearWaiting
<1>45. CASE NotifyGate
  BY <1>45 DEF NotifyGate
<1>46. CASE EvaluatePost
  BY <1>46 DEF EvaluatePost
<1>47. CASE EvaluateWait
  BY <1>47 DEF EvaluateWait
<1>48. CASE SpuriousWake
  BY <1>48 DEF SpuriousWake
<1>49. CASE UNCHANGED vars
  BY <1>49
<1>50. CASE CaptureGetter
  BY <1>50 DEF CaptureGetter
<1> QED
  BY <1>1, <1>2, <1>3, <1>4, <1>5, <1>6, <1>7, <1>8, <1>9, <1>10, <1>11, <1>12, <1>13, <1>14,
     <1>15, <1>16, <1>17, <1>18, <1>19, <1>20, <1>21, <1>22, <1>23, <1>24, <1>25, <1>26, <1>27,
     <1>28, <1>29, <1>30, <1>31, <1>32, <1>33, <1>34, <1>35, <1>36, <1>37, <1>38, <1>39, <1>40,
     <1>41, <1>42, <1>43, <1>44, <1>45, <1>46, <1>47, <1>48, <1>49, <1>50
  DEF Next, JsStep, ReceiveCommand, WsStep

\* Every access of either thread keeps the mutexes' owners, the rendezvous and
\* the request's contents (debug_session.cpp:714-781, 824-837).
LEMMA NextPauseInvariant == IInv /\ [Next]_vars => PauseInvariant'
<1> SUFFICES ASSUME TypeOK, PauseInvariant, [Next]_vars PROVE PauseInvariant'
    BY DEF IInv
<1> USE DEF TypeOK, PauseInvariant, MutexOwners, Rendezvous, RequestContents, PauseStack,
            RequestAlive, AskedWhilePaused, AskLabels, Stopped, StopLabels, LockedLabels, HandlerLabels
<1>1. CASE GateSet
  BY <1>1 DEF GateSet
<1>2. CASE GateTest
  BY <1>2 DEF GateTest
<1>3. CASE GateBlock
  BY <1>3 DEF GateBlock
<1>4. CASE RunScript
  BY <1>4 DEF RunScript
<1>5. CASE HandlerEnabled
  BY <1>5 DEF HandlerEnabled, Return
<1>6. CASE HandlerFrames
  BY <1>6 DEF HandlerFrames
<1>7. CASE HandlerMode
  BY <1>7 DEF HandlerMode
<1>8. CASE HandlerRequest
  BY <1>8 DEF HandlerRequest
<1>9. CASE HandlerTake
  BY <1>9 DEF HandlerTake
<1>10. CASE HandlerBreakpoint
  BY <1>10 DEF HandlerBreakpoint
<1>11. CASE HandlerCondition
  BY <1>11 DEF HandlerCondition, Return
<1>12. CASE HandlerStep
  BY <1>12 DEF HandlerStep, Return
<1>13. CASE HandlerNone
  BY <1>13 DEF HandlerNone
<1>14. CASE Capture
  BY <1>14 DEF Capture
<1>15. CASE PauseStore
  BY <1>15 DEF PauseStore
<1>16. CASE PauseEvent
  BY <1>16 DEF PauseEvent
<1>17. CASE PauseLock
  BY <1>17 DEF PauseLock
<1>18. CASE PauseWhile
  BY <1>18 DEF PauseWhile
<1>19. CASE WaitPaused
  BY <1>19 DEF WaitPaused
<1>20. CASE WaitPending
  BY <1>20 DEF WaitPending
<1>21. CASE WaitBlock
  BY <1>21 DEF WaitBlock
<1>22. CASE IfPaused
  BY <1>22 DEF IfPaused
<1>23. CASE IfPending
  BY <1>23 DEF IfPending
<1>24. CASE EvalLock
  BY <1>24 DEF EvalLock
<1>25. CASE EvalDeref
  BY <1>25 DEF EvalDeref
<1>26. CASE EvalReenter
  BY <1>26 DEF EvalReenter
<1>27. CASE EvalResult
  BY <1>27 DEF EvalResult
<1>28. CASE EvalReady
  BY <1>28 DEF EvalReady
<1>29. CASE EvalUnlock
  BY <1>29 DEF EvalUnlock
<1>30. CASE Resumed
  BY <1>30 DEF Resumed, Return
<1>31. CASE \E c \in Control : ReceiveControl(c)
  BY <1>31 DEF ReceiveControl, Control, ModeOf, Receive
<1>32. CASE ReceiveRunIfWaiting
  BY <1>32 DEF ReceiveRunIfWaiting, Receive
<1>33. CASE ReceiveClose
  BY <1>33 DEF ReceiveClose, Receive
<1>34. CASE RequestPause
  BY <1>34 DEF RequestPause, Receive
<1>35. CASE SetEnabled
  BY <1>35 DEF SetEnabled, Receive
<1>36. CASE ReceiveGetProperties
  BY <1>36 DEF ReceiveGetProperties, Receive
<1>37. CASE \E e \in Exprs : ReceiveEvaluate(e)
  BY <1>37, ConstantsAssumption DEF ReceiveEvaluate, Receive
<1>38. CASE ControlStart
  BY <1>38 DEF ControlStart
<1>39. CASE ReadObjects
  BY <1>39 DEF ReadObjects
<1>40. CASE StoreMode
  BY <1>40 DEF StoreMode
<1>41. CASE ClearRequest
  BY <1>41 DEF ClearRequest
<1>42. CASE ClearPaused
  BY <1>42 DEF ClearPaused
<1>43. CASE NotifyPause
  BY <1>43 DEF NotifyPause
<1>44. CASE ClearWaiting
  BY <1>44 DEF ClearWaiting
<1>45. CASE NotifyGate
  BY <1>45 DEF NotifyGate
<1>46. CASE EvaluatePost
  BY <1>46 DEF EvaluatePost
<1>47. CASE EvaluateWait
  BY <1>47 DEF EvaluateWait
<1>48. CASE SpuriousWake
  BY <1>48 DEF SpuriousWake
<1>49. CASE UNCHANGED vars
  BY <1>49
<1>50. CASE CaptureGetter
  BY <1>50 DEF CaptureGetter
<1> QED
  BY <1>1, <1>2, <1>3, <1>4, <1>5, <1>6, <1>7, <1>8, <1>9, <1>10, <1>11, <1>12, <1>13, <1>14,
     <1>15, <1>16, <1>17, <1>18, <1>19, <1>20, <1>21, <1>22, <1>23, <1>24, <1>25, <1>26, <1>27,
     <1>28, <1>29, <1>30, <1>31, <1>32, <1>33, <1>34, <1>35, <1>36, <1>37, <1>38, <1>39, <1>40,
     <1>41, <1>42, <1>43, <1>44, <1>45, <1>46, <1>47, <1>48, <1>49, <1>50
  DEF Next, JsStep, ReceiveCommand, WsStep

\* main() starts both threads in a state of the invariant.
LEMMA InitIInv == Init => IInv
<1> SUFFICES ASSUME Init PROVE TypeOK /\ PauseInvariant
    BY DEF IInv
<1>1. TypeOK
  <2>1. /\ enabled \in BOOLEAN /\ pause_on_start \in BOOLEAN /\ paused \in BOOLEAN
        /\ pause_requested \in BOOLEAN /\ waiting \in BOOLEAN
        /\ pending_eval \in BOOLEAN /\ eval_mutex \in BOOLEAN
        /\ inCond \in BOOLEAN /\ inGet \in BOOLEAN /\ inEval \in BOOLEAN
        /\ pause_mutex \in BOOLEAN /\ ordered \in BOOLEAN /\ polite \in BOOLEAN
    BY ConstantsAssumption, Zenon DEF Init
  <2>2. req \in [expr : Exprs \union {NoExpr}, ready : BOOLEAN,
                result : Exprs \union {NoExpr}]
    BY DEF Init
  <2> QED
    BY <2>1, <2>2 DEF Init, TypeOK, StepModes, JsLabels, WsLabels, StopLabels,
         LockedLabels, HandlerLabels, GateLabels
<1>2. PauseInvariant
  BY DEF Init, PauseInvariant, MutexOwners, Rendezvous, RequestContents, PauseStack,
         RequestAlive, AskedWhilePaused, AskLabels, Stopped, StopLabels,
         LockedLabels, HandlerLabels
<1> QED
  BY <1>1, <1>2

\* Every reachable state satisfies the invariant of the pause: who holds the
\* mutexes of do_pause and which states of the two threads go together
\* (debug_session.cpp:714-781, 824-837).
THEOREM SessionInvariant == Spec => []IInv
<1>1. Init => IInv
  BY InitIInv
<1>2. IInv /\ [Next]_vars => IInv'
  BY NextTypeOK, NextPauseInvariant DEF IInv
<1> QED
  BY <1>1, <1>2, PTL DEF Spec

\* Types of the session's fields, and StepMode::Pause is never stored
\* (debug_session.h:146-187).
THEOREM SessionTypes == Spec => []TypeOK
<1>1. IInv => TypeOK
  BY DEF IInv
<1> QED
  BY <1>1, SessionInvariant, PTL

\* The invariant of the pause as the runs check it
\* (debug_session.cpp:714-781, 824-837).
THEOREM SessionPauseInvariant == Spec => []PauseInvariant
<1>1. IInv => PauseInvariant
  BY DEF IInv
<1> QED
  BY <1>1, SessionInvariant, PTL

\* The JS thread never reads the evaluate request after the WebSocket
\* thread's frame that holds it is gone (debug_session.cpp:818-840, 726-777).
THEOREM SessionRequestAlive == Spec => []RequestAlive
<1>1. IInv => RequestAlive
  BY DEF IInv, PauseInvariant, Rendezvous
<1> QED
  BY <1>1, SessionInvariant, PTL

-----------------------------------------------------------------------------
(* The session implements the contract of a pause.                         *)

\* The script has not stopped and nothing is asked when the threads start.
LEMMA InitContract == Init => Contract!Init
  BY DEF Init, Contract!Init, Stopped, StopLabels, LockedLabels

\* Every step of either thread is a step of the contract or leaves it alone.
LEMMA NextContract == IInv /\ [Next]_vars => [Contract!Next]_(Contract!contract)
<1> SUFFICES ASSUME TypeOK, PauseInvariant, [Next]_vars
             PROVE  Contract!Next \/ UNCHANGED Contract!contract
    BY DEF IInv
<1> USE DEF TypeOK, PauseInvariant, MutexOwners, Rendezvous, RequestContents, PauseStack,
            RequestAlive, AskedWhilePaused, AskLabels, Stopped, StopLabels, LockedLabels,
            HandlerLabels, Contract!Next, Contract!contract
<1>1. CASE GateSet
  BY <1>1 DEF GateSet
<1>2. CASE GateTest
  BY <1>2 DEF GateTest
<1>3. CASE GateBlock
  BY <1>3 DEF GateBlock
<1>4. CASE RunScript
  BY <1>4 DEF RunScript
<1>5. CASE HandlerEnabled
  BY <1>5 DEF HandlerEnabled, Return
<1>6. CASE HandlerFrames
  BY <1>6 DEF HandlerFrames
<1>7. CASE HandlerMode
  BY <1>7 DEF HandlerMode
<1>8. CASE HandlerRequest
  BY <1>8 DEF HandlerRequest
<1>9. CASE HandlerTake
  BY <1>9 DEF HandlerTake
<1>10. CASE HandlerBreakpoint
  BY <1>10 DEF HandlerBreakpoint
<1>11. CASE HandlerCondition
  BY <1>11 DEF HandlerCondition, Return
<1>12. CASE HandlerStep
  BY <1>12 DEF HandlerStep, Return
<1>13. CASE HandlerNone
  BY <1>13 DEF HandlerNone
<1>14. CASE Capture
  BY <1>14 DEF Capture
<1>15. CASE PauseStore
  <2>1. CASE inEval
    BY <1>15, <2>1 DEF PauseStore
  <2>2. CASE ~inEval
    BY <1>15, <2>2 DEF PauseStore, Contract!Stop
  <2> QED
    BY <2>1, <2>2
<1>16. CASE PauseEvent
  BY <1>16 DEF PauseEvent
<1>17. CASE PauseLock
  BY <1>17 DEF PauseLock
<1>18. CASE PauseWhile
  BY <1>18 DEF PauseWhile
<1>19. CASE WaitPaused
  BY <1>19 DEF WaitPaused
<1>20. CASE WaitPending
  BY <1>20 DEF WaitPending
<1>21. CASE WaitBlock
  BY <1>21 DEF WaitBlock
<1>22. CASE IfPaused
  BY <1>22 DEF IfPaused
<1>23. CASE IfPending
  BY <1>23 DEF IfPending
<1>24. CASE EvalLock
  BY <1>24 DEF EvalLock
<1>25. CASE EvalDeref
  BY <1>25 DEF EvalDeref
<1>26. CASE EvalReenter
  BY <1>26 DEF EvalReenter
<1>27. CASE EvalResult
  BY <1>27, ConstantsAssumption DEF EvalResult, Contract!Evaluate
<1>28. CASE EvalReady
  BY <1>28 DEF EvalReady
<1>29. CASE EvalUnlock
  BY <1>29 DEF EvalUnlock
<1>30. CASE Resumed
  BY <1>30 DEF Resumed, Return, Contract!Go
<1>31. CASE \E c \in Control : ReceiveControl(c)
  BY <1>31 DEF ReceiveControl, Control, ModeOf, Receive
<1>32. CASE ReceiveRunIfWaiting
  BY <1>32 DEF ReceiveRunIfWaiting, Receive
<1>33. CASE ReceiveClose
  BY <1>33 DEF ReceiveClose, Receive
<1>34. CASE RequestPause
  BY <1>34 DEF RequestPause, Receive
<1>35. CASE SetEnabled
  BY <1>35 DEF SetEnabled, Receive
<1>36. CASE ReceiveGetProperties
  BY <1>36 DEF ReceiveGetProperties, Receive
<1>37. CASE \E e \in Exprs : ReceiveEvaluate(e)
  BY <1>37 DEF ReceiveEvaluate, Receive
<1>38. CASE ControlStart
  BY <1>38 DEF ControlStart
<1>39. CASE ReadObjects
  BY <1>39 DEF ReadObjects
<1>40. CASE StoreMode
  BY <1>40 DEF StoreMode
<1>41. CASE ClearRequest
  BY <1>41 DEF ClearRequest
<1>42. CASE ClearPaused
  <2>1. CASE Stopped
    BY <1>42, <2>1 DEF ClearPaused, Contract!Release
  <2>2. CASE ~Stopped
    BY <1>42, <2>2 DEF ClearPaused
  <2> QED
    BY <2>1, <2>2
<1>43. CASE NotifyPause
  BY <1>43 DEF NotifyPause
<1>44. CASE ClearWaiting
  BY <1>44 DEF ClearWaiting
<1>45. CASE NotifyGate
  BY <1>45 DEF NotifyGate
<1>46. CASE EvaluatePost
  <2>1. Contract!Ask(req.expr)
    BY <1>46 DEF EvaluatePost, Contract!Ask
  <2> QED
    BY <1>46, <2>1 DEF EvaluatePost
<1>47. CASE EvaluateWait
  <2>1. CASE req.ready
    BY <1>47, <2>1, ConstantsAssumption DEF EvaluateWait, Contract!Reply
  <2>2. CASE ~req.ready
    BY <1>47, <2>2 DEF EvaluateWait
  <2> QED
    BY <2>1, <2>2
<1>48. CASE SpuriousWake
  BY <1>48 DEF SpuriousWake
<1>49. CASE UNCHANGED vars
  BY <1>49
<1>50. CASE CaptureGetter
  BY <1>50 DEF CaptureGetter
<1> QED
  BY <1>1, <1>2, <1>3, <1>4, <1>5, <1>6, <1>7, <1>8, <1>9, <1>10, <1>11, <1>12, <1>13, <1>14,
     <1>15, <1>16, <1>17, <1>18, <1>19, <1>20, <1>21, <1>22, <1>23, <1>24, <1>25, <1>26, <1>27,
     <1>28, <1>29, <1>30, <1>31, <1>32, <1>33, <1>34, <1>35, <1>36, <1>37, <1>38, <1>39, <1>40,
     <1>41, <1>42, <1>43, <1>44, <1>45, <1>46, <1>47, <1>48, <1>49, <1>50
  DEF Next, JsStep, ReceiveCommand, WsStep

\* Every behaviour of the two threads is a behaviour of PauseContract
\* (do_pause and evaluate_on_call_frame, debug_session.cpp:670-840).
THEOREM SessionImplementsContract == Spec => ImplementsContract
<1>1. Init => Contract!Init
  BY InitContract
<1>2. IInv /\ [Next]_vars => [Contract!Next]_(Contract!contract)
  BY NextContract
<1> QED
  BY <1>1, <1>2, SessionInvariant, PTL DEF Spec, ImplementsContract, Contract!Spec
=============================================================================
