-------------------------- MODULE SessionClientProofs --------------------------
(***************************************************************************)
(* What a client of DebugSession may rely on, for every client, every      *)
(* start-up mode and every set of expressions: the order of the events it  *)
(* is sent, and, when it waits for the paused event before it answers,     *)
(* that its step is the one taken and that the two threads' unlocked       *)
(* accesses do not meet.                                                   *)
(***************************************************************************)
EXTENDS DebugSessionProofs

USE DEF vars, atomics, evalVars, stack, jsLocal, wsVars, client,
        JsGo, WsGo, JsMove, WsMove

\* Before the first announcement no command is owed an answer
\* (main.cpp:300-345, debug_session.cpp:650-668).
LEMMA InitClientInvariant == Init => ClientInvariant
  BY DEF Init, ClientInvariant, Announced, AnsweredInPause, ModeKept, StopLabels, LockedLabels,
         GateLabels, HandlerLabels, Dropped, ReleaseLabels

\* Every access of either thread keeps the last announcement true of where the
\* JS thread stands, and the mode of the last answer in step_mode_
\* (debug_session.cpp:308-344, 700-714, 782-788, 926-1021).
LEMMA NextClientInvariant == IInv /\ ClientInvariant /\ [Next]_vars => ClientInvariant'
<1> SUFFICES ASSUME TypeOK, PauseInvariant, ClientInvariant, [Next]_vars
             PROVE  ClientInvariant'
    BY DEF IInv
<1> USE DEF TypeOK, PauseInvariant, MutexOwners, Rendezvous, RequestContents, PauseStack,
            RequestAlive, AskedWhilePaused, AskLabels, Stopped, StopLabels, LockedLabels,
            HandlerLabels, GateLabels, ClientInvariant, Announced, AnsweredInPause,
            ModeKept, Dropped, ReleaseLabels
<1>1. CASE GateSet
  BY <1>1 DEF GateSet
<1>2. CASE GateTest
  BY <1>2 DEF GateTest
<1>3. CASE GateBlock
  BY <1>3 DEF GateBlock
<1>4. CASE RunScript
  BY <1>4 DEF RunScript
<1>5. CASE HandlerEnabled
  BY <1>5 DEF HandlerEnabled, Return
<1>6. CASE HandlerFrames
  BY <1>6 DEF HandlerFrames
<1>7. CASE HandlerMode
  BY <1>7 DEF HandlerMode
<1>8. CASE HandlerRequest
  BY <1>8 DEF HandlerRequest
<1>9. CASE HandlerTake
  BY <1>9 DEF HandlerTake
<1>10. CASE HandlerBreakpoint
  BY <1>10 DEF HandlerBreakpoint
<1>11. CASE HandlerCondition
  BY <1>11 DEF HandlerCondition, Return
<1>12. CASE HandlerStep
  BY <1>12 DEF HandlerStep, Return
<1>13. CASE HandlerNone
  BY <1>13 DEF HandlerNone
<1>14. CASE Capture
  BY <1>14 DEF Capture
<1>15. CASE PauseStore
  BY <1>15 DEF PauseStore
<1>16. CASE PauseEvent
  BY <1>16 DEF PauseEvent
<1>17. CASE PauseLock
  BY <1>17 DEF PauseLock
<1>18. CASE PauseWhile
  BY <1>18 DEF PauseWhile
<1>19. CASE WaitPaused
  BY <1>19 DEF WaitPaused
<1>20. CASE WaitPending
  BY <1>20 DEF WaitPending
<1>21. CASE WaitBlock
  BY <1>21 DEF WaitBlock
<1>22. CASE IfPaused
  BY <1>22 DEF IfPaused
<1>23. CASE IfPending
  BY <1>23 DEF IfPending
<1>24. CASE EvalLock
  BY <1>24 DEF EvalLock
<1>25. CASE EvalDeref
  BY <1>25 DEF EvalDeref
<1>26. CASE EvalReenter
  BY <1>26 DEF EvalReenter
<1>27. CASE EvalResult
  BY <1>27 DEF EvalResult
<1>28. CASE EvalReady
  BY <1>28 DEF EvalReady
<1>29. CASE EvalUnlock
  BY <1>29 DEF EvalUnlock
<1>30. CASE Resumed
  BY <1>30 DEF Resumed, Return
<1>31. CASE \E c \in Control : ReceiveControl(c)
  BY <1>31 DEF ReceiveControl, Receive, Polite
<1>32. CASE ReceiveRunIfWaiting
  BY <1>32 DEF ReceiveRunIfWaiting, Receive, Polite
<1>33. CASE ReceiveClose
  BY <1>33 DEF ReceiveClose, Receive, Polite
<1>34. CASE RequestPause
  BY <1>34 DEF RequestPause, Receive, Polite
<1>35. CASE SetEnabled
  BY <1>35 DEF SetEnabled, Receive, Polite
<1>36. CASE ReceiveGetProperties
  BY <1>36 DEF ReceiveGetProperties, Receive, Polite
<1>37. CASE \E e \in Exprs : ReceiveEvaluate(e)
  BY <1>37, ConstantsAssumption DEF ReceiveEvaluate, Receive, Polite
<1>38. CASE ControlStart
  BY <1>38 DEF ControlStart
<1>39. CASE ReadObjects
  BY <1>39 DEF ReadObjects
<1>40. CASE StoreMode
  BY <1>40 DEF StoreMode
<1>41. CASE ClearRequest
  BY <1>41 DEF ClearRequest
<1>42. CASE ClearPaused
  BY <1>42 DEF ClearPaused
<1>43. CASE NotifyPause
  BY <1>43 DEF NotifyPause
<1>44. CASE ClearWaiting
  BY <1>44 DEF ClearWaiting
<1>45. CASE NotifyGate
  BY <1>45 DEF NotifyGate
<1>46. CASE EvaluatePost
  BY <1>46 DEF EvaluatePost
<1>47. CASE EvaluateWait
  BY <1>47 DEF EvaluateWait
<1>48. CASE SpuriousWake
  BY <1>48 DEF SpuriousWake
<1>49. CASE UNCHANGED vars
  BY <1>49
<1>50. CASE CaptureGetter
  BY <1>50 DEF CaptureGetter
<1> QED
  BY <1>1, <1>2, <1>3, <1>4, <1>5, <1>6, <1>7, <1>8, <1>9, <1>10, <1>11, <1>12, <1>13, <1>14,
     <1>15, <1>16, <1>17, <1>18, <1>19, <1>20, <1>21, <1>22, <1>23, <1>24, <1>25, <1>26, <1>27,
     <1>28, <1>29, <1>30, <1>31, <1>32, <1>33, <1>34, <1>35, <1>36, <1>37, <1>38, <1>39, <1>40,
     <1>41, <1>42, <1>43, <1>44, <1>45, <1>46, <1>47, <1>48, <1>49, <1>50
  DEF Next, JsStep, ReceiveCommand, WsStep

\* The order of announcements and answers in every reachable state
\* (debug_session.cpp:308-344, 670-788).
THEOREM SessionClientInvariant == Spec => [](IInv /\ ClientInvariant)
<1>1. Init => IInv /\ ClientInvariant
  BY InitIInv, InitClientInvariant
<1>2. IInv /\ ClientInvariant /\ [Next]_vars => (IInv /\ ClientInvariant)'
  BY NextTypeOK, NextPauseInvariant, NextClientInvariant DEF IInv
<1> QED
  BY <1>1, <1>2, PTL DEF Spec

\* A client is told of pauses and resumptions alternately, except for a pause
\* inside an expression it asked for (debug_session.cpp:706-708, 786-788).
THEOREM SessionEventsAlternate == Spec => []EventsAlternate
<1>1. IInv /\ ClientInvariant => EventsAlternate
  BY DEF ClientInvariant, Announced, EventsAlternate, StopLabels
<1> QED
  BY <1>1, SessionClientInvariant, PTL

\* The mode of the command that ended a pause is the one the next callback
\* loads: the JS thread's own store of StepMode::None never overtakes it
\* (debug_session.cpp:308-344, 926-1021).
THEOREM SessionStepHonoured == Spec => []StepHonoured
<1>1. IInv /\ ClientInvariant => StepHonoured
  BY DEF IInv, PauseInvariant, PauseStack, ClientInvariant, Announced, ModeKept,
         StepHonoured, StopLabels, HandlerLabels
<1> QED
  BY <1>1, SessionClientInvariant, PTL

\* With a client that answers pauses it was told of, the unlocked reads of
\* frame_stack_ and object_store_ never meet the JS thread's writes
\* (debug_session.cpp:317-339, 796, 916-924, 997-1019, 674).
THEOREM SessionNoDataRace == Spec => []NoDataRace
<1>1. IInv /\ ClientInvariant => NoDataRace
  BY DEF IInv, PauseInvariant, PauseStack, Rendezvous, RequestAlive, Stopped,
         ClientInvariant, AnsweredInPause, NoDataRace, StopLabels, LockedLabels,
         HandlerLabels, ReleaseLabels, Dropped
<1> QED
  BY <1>1, SessionClientInvariant, PTL
=============================================================================
