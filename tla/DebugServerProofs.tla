--------------------------- MODULE DebugServerProofs ---------------------------
(***************************************************************************)
(* Theorems about DebugServer for any number of connections, any inbox     *)
(* bound, both platforms and both start-up modes: its types, the invariant *)
(* that says which thread runs where and whose socket it holds, and what   *)
(* follows from it for a process started with --inspect-brk.               *)
(***************************************************************************)
EXTENDS DebugServer, TLAPS

USE DEF vars, platform, network, server, thread, loop, session, Go, Step

\* main() starts alone, with no client (main.cpp:233-245,
\* websocket_server.h:36-44).
LEMMA InitServer == Init => TypeOK /\ ServerInvariant
<1> SUFFICES ASSUME Init PROVE TypeOK /\ ServerInvariant
    OBVIOUS
<1>1. TypeOK
  <2>1. /\ brk \in BOOLEAN /\ closeWakes \in BOOLEAN /\ connected \in BOOLEAN
        /\ ws_running \in BOOLEAN /\ got \in BOOLEAN
        /\ enabled \in BOOLEAN /\ waiting \in BOOLEAN /\ paused \in BOOLEAN
    BY ServerAssumption, Zenon DEF Init
  <2> QED
    BY <2>1 DEF Init, TypeOK, Threads, Labels, GateLabels, PauseLabels, DropLabels
<1>2. ServerInvariant
  BY ServerAssumption
     DEF Init, ServerInvariant, ThreadsStarted, ClientOwned, SendersExcluded, AcceptedThenRun,
         BrkFrameWhole, FrameWhole, Threads, StartLabels, SendLabels, GateLabels,
         PauseLabels, DropLabels
<1> QED
  BY <1>1, <1>2

\* No step of a thread or a peer spoils a type; the record main() starts the
\* second thread with keeps the control points' shape (main.cpp:262-310,
\* websocket_server.cpp:231-489).
LEMMA NextTypes ==
    ASSUME TypeOK, ThreadsStarted, [Next]_vars
    PROVE  TypeOK'
<1> USE ServerAssumption DEF TypeOK, ThreadsStarted, Threads, Labels, StartLabels, SendLabels,
           GateLabels, PauseLabels, DropLabels, Commands, AllFrames
<1>1. ASSUME NEW t \in Threads, Accept(t) PROVE TypeOK'
  BY <1>1 DEF Accept
<1>2. ASSUME NEW t \in Threads, AcceptFails(t) PROVE TypeOK'
  BY <1>2 DEF AcceptFails
<1>3. ASSUME NEW t \in Threads, ServeHttp(t) PROVE TypeOK'
  BY <1>3 DEF ServeHttp
<1>4. ASSUME NEW t \in Threads, Upgrade(t) PROVE TypeOK'
  BY <1>4 DEF Upgrade
<1>5. ASSUME NEW t \in Threads, HandshakeDone(t) PROVE TypeOK'
  BY <1>5 DEF HandshakeDone
<1>6. ASSUME NEW t \in Threads, HandshakeFails(t) PROVE TypeOK'
  BY <1>6 DEF HandshakeFails
<1>7. ASSUME NEW t \in Threads, Disconnect(t) PROVE TypeOK'
  <2>1. connected' \in BOOLEAN
    BY <1>7, Zenon DEF Disconnect
  <2> QED
    BY <1>7, <2>1 DEF Disconnect
<1>8. ASSUME NEW t \in Threads, CloseClient(t) PROVE TypeOK'
  BY <1>8 DEF CloseClient
<1>9. ASSUME NEW t \in Threads, ForgetClient(t) PROVE TypeOK'
  BY <1>9 DEF ForgetClient
<1>10. ASSUME NEW t \in Threads, SendLock(t) PROVE TypeOK'
  BY <1>10 DEF SendLock, Return
<1>11. ASSUME NEW t \in Threads, SendHeader(t) PROVE TypeOK'
  BY <1>11 DEF SendHeader, Open
<1>12. ASSUME NEW t \in Threads, HeaderFails(t) PROVE TypeOK'
  BY <1>12 DEF HeaderFails, Return, Unlock, Open
<1>13. ASSUME NEW t \in Threads, SendPayload(t) PROVE TypeOK'
  BY <1>13 DEF SendPayload, Return, Unlock
<1>14. CASE Arm
  BY <1>14 DEF Arm
<1>15. CASE EnterGate
  BY <1>15 DEF EnterGate
<1>16. CASE TestGate
  BY <1>16 DEF TestGate
<1>17. CASE ConsoleLog
  BY <1>17 DEF ConsoleLog, Send
<1>18. CASE Pause
  BY <1>18 DEF Pause, Send
<1>19. CASE TestPause
  BY <1>19 DEF TestPause, Send
<1>20. CASE Finish
  <2>1. ws_running' \in BOOLEAN
    BY <1>20, Zenon DEF Finish
  <2> QED
    BY <1>20, <2>1 DEF Finish
<1>21. CASE Join
  BY <1>21 DEF Join
<1>22. CASE Loop
  BY <1>22 DEF Loop
<1>23. CASE Check
  BY <1>23 DEF Check
<1>24. CASE Call
  BY <1>24 DEF Call, Open
<1>25. CASE ReadFails
  <2>1. connected' \in BOOLEAN
    BY <1>25, Zenon DEF ReadFails
  <2> QED
    BY <1>25, <2>1 DEF ReadFails, Returns, Open
<1>26. CASE Handle
  BY <1>26 DEF Handle, Send
<1>27. CASE Answer
  BY <1>27 DEF Answer, Send
<1>28. CASE Nothing
  BY <1>28 DEF Nothing
<1>29. CASE Drop
  <2>1. paused' \in BOOLEAN
    BY <1>29, Zenon DEF Drop
  <2> QED
    BY <1>29, <2>1 DEF Drop
<1>30. ASSUME NEW f \in Frames, ReadText(f) PROVE TypeOK'
  BY <1>30 DEF ReadText, Read, Returns
<1>31. ASSUME NEW f \in Frames, ReadControl(f) PROVE TypeOK'
  BY <1>31 DEF ReadControl, Read
<1>32. ASSUME NEW c \in Conns, Dial(c) PROVE TypeOK'
  BY <1>32 DEF Dial
<1>33. ASSUME NEW c \in Conns, Request(c) PROVE TypeOK'
  BY <1>33 DEF Request
<1>34. ASSUME NEW c \in Conns, Leave(c) PROVE TypeOK'
  BY <1>34 DEF Leave
<1>35. ASSUME NEW c \in Conns, NEW f \in Frames, SendFrame(c, f) PROVE TypeOK'
  BY <1>35 DEF SendFrame
<1>36. CASE UNCHANGED vars
  BY <1>36
<1>37. CASE FallAsleep
  BY <1>37 DEF FallAsleep
<1>38. CASE Wake
  BY <1>38 DEF Wake
<1>39. CASE NotifyPause
  BY <1>39 DEF NotifyPause
<1>40. CASE NotifyGate
  BY <1>40 DEF NotifyGate
<1>41. CASE DropGate
  <2>1. waiting' \in BOOLEAN
    BY <1>41, Zenon DEF DropGate
  <2> QED
    BY <1>41, <2>1 DEF DropGate
<1> QED
  BY <1>1, <1>2, <1>3, <1>4, <1>5, <1>6, <1>7, <1>8, <1>9, <1>10, <1>11, <1>12, <1>13, <1>14,
     <1>15, <1>16, <1>17, <1>18, <1>19, <1>20, <1>21, <1>22, <1>23, <1>24, <1>25, <1>26,
     <1>27, <1>28, <1>29, <1>30, <1>31, <1>32, <1>33, <1>34, <1>35, <1>36, <1>37, <1>38, <1>39,
     <1>40, <1>41
  DEF Next, MainStep, WsStep, Shared, Peer, Threads

\* Every step keeps the order in which threads, sockets and messages come
\* (main.cpp:262-347, websocket_server.cpp:231-489).
LEMMA NextServer ==
    ASSUME TypeOK, ServerInvariant, [Next]_vars
    PROVE  ServerInvariant'
<1> USE ServerAssumption DEF TypeOK, ServerInvariant, ThreadsStarted, ClientOwned, SendersExcluded,
           AcceptedThenRun, BrkFrameWhole, FrameWhole, Threads, Labels, StartLabels, SendLabels,
           GateLabels, PauseLabels, DropLabels
<1>1. ASSUME NEW t \in Threads, Accept(t) PROVE ServerInvariant'
  BY <1>1 DEF Accept
<1>2. ASSUME NEW t \in Threads, AcceptFails(t) PROVE ServerInvariant'
  BY <1>2 DEF AcceptFails
<1>3. ASSUME NEW t \in Threads, ServeHttp(t) PROVE ServerInvariant'
  BY <1>3 DEF ServeHttp
<1>4. ASSUME NEW t \in Threads, Upgrade(t) PROVE ServerInvariant'
  BY <1>4 DEF Upgrade
<1>5. ASSUME NEW t \in Threads, HandshakeDone(t) PROVE ServerInvariant'
  BY <1>5 DEF HandshakeDone
<1>6. ASSUME NEW t \in Threads, HandshakeFails(t) PROVE ServerInvariant'
  BY <1>6 DEF HandshakeFails
<1>7. ASSUME NEW t \in Threads, Disconnect(t) PROVE ServerInvariant'
  BY <1>7 DEF Disconnect
<1>8. ASSUME NEW t \in Threads, CloseClient(t) PROVE ServerInvariant'
  BY <1>8 DEF CloseClient
<1>9. ASSUME NEW t \in Threads, ForgetClient(t) PROVE ServerInvariant'
  BY <1>9 DEF ForgetClient
<1>10. ASSUME NEW t \in Threads, SendLock(t) PROVE ServerInvariant'
  BY <1>10 DEF SendLock, Return
<1>11. ASSUME NEW t \in Threads, SendHeader(t) PROVE ServerInvariant'
  BY <1>11 DEF SendHeader, Open
<1>12. ASSUME NEW t \in Threads, HeaderFails(t) PROVE ServerInvariant'
  BY <1>12 DEF HeaderFails, Return, Unlock, Open
<1>13. ASSUME NEW t \in Threads, SendPayload(t) PROVE ServerInvariant'
  BY <1>13 DEF SendPayload, Return, Unlock
<1>14. CASE Arm
  BY <1>14 DEF Arm
<1>15. CASE EnterGate
  BY <1>15 DEF EnterGate
<1>16. CASE TestGate
  BY <1>16 DEF TestGate
<1>17. CASE ConsoleLog
  BY <1>17 DEF ConsoleLog, Send
<1>18. CASE Pause
  BY <1>18 DEF Pause, Send
<1>19. CASE TestPause
  BY <1>19 DEF TestPause, Send
<1>20. CASE Finish
  BY <1>20 DEF Finish
<1>21. CASE Join
  BY <1>21 DEF Join
<1>22. CASE Loop
  BY <1>22 DEF Loop
<1>23. CASE Check
  BY <1>23 DEF Check
<1>24. CASE Call
  BY <1>24 DEF Call, Open
<1>25. CASE ReadFails
  BY <1>25 DEF ReadFails, Returns, Open
<1>26. CASE Handle
  BY <1>26 DEF Handle, Send
<1>27. CASE Answer
  BY <1>27 DEF Answer, Send
<1>28. CASE Nothing
  BY <1>28 DEF Nothing
<1>29. CASE Drop
  BY <1>29 DEF Drop
<1>30. ASSUME NEW f \in Frames, ReadText(f) PROVE ServerInvariant'
  BY <1>30 DEF ReadText, Read, Returns
<1>31. ASSUME NEW f \in Frames, ReadControl(f) PROVE ServerInvariant'
  BY <1>31 DEF ReadControl, Read
<1>32. ASSUME NEW c \in Conns, Dial(c) PROVE ServerInvariant'
  BY <1>32 DEF Dial
<1>33. ASSUME NEW c \in Conns, Request(c) PROVE ServerInvariant'
  BY <1>33 DEF Request
<1>34. ASSUME NEW c \in Conns, Leave(c) PROVE ServerInvariant'
  BY <1>34 DEF Leave
<1>35. ASSUME NEW c \in Conns, NEW f \in Frames, SendFrame(c, f) PROVE ServerInvariant'
  BY <1>35 DEF SendFrame
<1>36. CASE UNCHANGED vars
  BY <1>36
<1>37. CASE FallAsleep
  BY <1>37 DEF FallAsleep
<1>38. CASE Wake
  BY <1>38 DEF Wake
<1>39. CASE NotifyPause
  BY <1>39 DEF NotifyPause
<1>40. CASE NotifyGate
  BY <1>40 DEF NotifyGate
<1>41. CASE DropGate
  BY <1>41 DEF DropGate
<1> QED
  BY <1>1, <1>2, <1>3, <1>4, <1>5, <1>6, <1>7, <1>8, <1>9, <1>10, <1>11, <1>12, <1>13, <1>14,
     <1>15, <1>16, <1>17, <1>18, <1>19, <1>20, <1>21, <1>22, <1>23, <1>24, <1>25, <1>26,
     <1>27, <1>28, <1>29, <1>30, <1>31, <1>32, <1>33, <1>34, <1>35, <1>36, <1>37, <1>38, <1>39,
     <1>40, <1>41
  DEF Next, MainStep, WsStep, Shared, Peer, Threads

\* Which thread runs where, whose socket client_sock_ is and what has come in,
\* in every reachable state (main.cpp:233-347, websocket_server.cpp:231-489).
THEOREM ServerInvariantHolds == Spec => [](TypeOK /\ ServerInvariant)
<1>1. Init => TypeOK /\ ServerInvariant
  BY InitServer
<1>2. TypeOK /\ ServerInvariant /\ [Next]_vars => (TypeOK /\ ServerInvariant)'
  BY NextTypes, NextServer DEF ServerInvariant
<1> QED
  BY <1>1, <1>2, PTL DEF Spec

\* Types of the server's and main()'s state: a thread holds a socket of its own
\* exactly while it serves a request or blocks in recv()
\* (websocket_server.cpp:239, 442).
THEOREM ServerTypes == Spec => []TypeOK
<1>1. TypeOK /\ ServerInvariant => TypeOK
  OBVIOUS
<1> QED
  BY <1>1, ServerInvariantHolds, PTL

\* With --inspect-brk the header and the payload of every frame go to one
\* client, although disconnect() and the accept loop take no lock
\* (main.cpp:262-310, websocket_server.cpp:361-431).
THEOREM ServerBrkFrameWhole == Spec => []BrkFrameWhole
<1>1. TypeOK /\ ServerInvariant => BrkFrameWhole
  BY DEF ServerInvariant
<1> QED
  BY <1>1, ServerInvariantHolds, PTL

\* With --inspect-brk the script does not run before a message has come in or
\* accepting a client has become impossible: a probe does not start it
\* (main.cpp:268-292, debug_session.cpp:354-376).
THEOREM ServerProbesDoNotStart == Spec => []ProbesDoNotStart
<1>1. TypeOK /\ ServerInvariant => ProbesDoNotStart
  BY DEF ServerInvariant, AcceptedThenRun, ProbesDoNotStart, StartLabels,
        GateLabels, PauseLabels
<1> QED
  BY <1>1, ServerInvariantHolds, PTL

\* No two threads write a frame at once: the writer of a header or a payload
\* owns send_mutex_ (websocket_server.cpp:361-371, 389-394).
THEOREM ServerSendersExcluded ==
    Spec => [](~(pc["main"] \in {"header", "payload"} /\ pc["ws"] \in {"header", "payload"}))
<1>1. TypeOK /\ ServerInvariant => ~(pc["main"] \in {"header", "payload"} /\ pc["ws"] \in {"header", "payload"})
  BY DEF ServerInvariant, SendersExcluded, Threads
<1> QED
  BY <1>1, ServerInvariantHolds, PTL
=============================================================================
