----------------------------- MODULE DebugServer -----------------------------
(***************************************************************************)
(* The life of the process: main() and the WebSocket thread it starts      *)
(* (debugger/src/main.cpp), the one WebSocketServer they share             *)
(* (debugger/src/websocket_server.cpp), and the connections that browsers, *)
(* probes and debuggers open.                                              *)
(*                                                                         *)
(* Of the session there is what the two threads hand over at the start     *)
(* gate and in a pause: enabled_, waiting_, paused_ and the two condition  *)
(* variables.  One action is one blocking call or one access to what the   *)
(* two threads share; a frame is read in one step and sent in two, its     *)
(* header and its payload; a wait tests its predicate, falls asleep and    *)
(* sleeps, and a notification wakes only a thread that sleeps.             *)
(***************************************************************************)
EXTENDS Naturals, Sequences

CONSTANTS
    Conns,       \* connections that may be opened
    NoConn,      \* INVALID_SOCK
    InspectBrk,  \* the values --inspect-brk may have: a set of Booleans
    CloseWakes,  \* whether close_socket() ends a recv() blocked in another
                 \* thread: a set of Booleans (TRUE is Windows, FALSE Linux)
    Frames,      \* frames the clients send, a subset of AllFrames
    MaxInbox     \* bound on the frames a connection has in flight

Commands == {"enable", "run", "go"}   \* Debugger.enable, runIfWaiting, resume
AllFrames == Commands \union {"empty", "ping", "bye"}

ASSUME ServerAssumption ==
    /\ NoConn \notin Conns
    /\ InspectBrk \subseteq BOOLEAN
    /\ CloseWakes \subseteq BOOLEAN
    /\ Frames \subseteq AllFrames
    /\ MaxInbox \in Nat

Threads == {"main", "ws"}

VARIABLES
    \* the command line and the platform
    brk, closeWakes,
    \* connections: what the peer has done, the frames it sent, and the
    \* server's descriptor
    peer, inbox, sock,
    \* WebSocketServer; send_mutex names its owner
    connected, client_sock, send_mutex,
    \* threads: control point, the socket wait_for_connection or recv() is
    \* working on, where a send returns to, where its header went
    pc, cur, back, dest,
    \* main()'s ws_running and the WebSocket thread's message
    ws_running, got, frame,
    \* the session, from outside
    enabled, waiting, paused

platform == <<brk, closeWakes>>
network  == <<peer, inbox, sock>>
server   == <<connected, client_sock, send_mutex>>
thread   == <<pc, cur, back, dest>>
loop     == <<ws_running, got, frame>>
session  == <<enabled, waiting, paused>>
vars == <<platform, network, server, thread, loop, session>>

Go(t, l) == pc' = [pc EXCEPT ![t] = l]
Step(t, a, b) == pc[t] = a /\ Go(t, b)

Init ==
    /\ brk \in InspectBrk
    /\ closeWakes \in CloseWakes
    /\ peer = [c \in Conns |-> "new"]
    /\ inbox = [c \in Conns |-> <<>>]
    /\ sock = [c \in Conns |-> "none"]
    /\ connected = FALSE
    /\ client_sock = NoConn
    /\ send_mutex = "free"
    /\ pc = [t \in Threads |-> IF t = "main" THEN "accept" ELSE "off"]
    /\ cur = [t \in Threads |-> NoConn]
    /\ back = [t \in Threads |-> "none"]
    /\ dest = [t \in Threads |-> NoConn]
    /\ ws_running = TRUE
    /\ got = FALSE
    /\ frame = "none"
    /\ enabled = FALSE
    /\ waiting = FALSE
    /\ paused = FALSE

-----------------------------------------------------------------------------
(* Peers: connect, send an HTTP request, send frames, leave.               *)

Dial(c) ==
    /\ peer[c] = "new"
    /\ peer' = [peer EXCEPT ![c] = "dialled"]
    /\ UNCHANGED <<platform, inbox, sock, server, thread, loop, session>>

Request(c) ==
    /\ peer[c] = "dialled"
    /\ peer' = [peer EXCEPT ![c] = "asked"]
    /\ UNCHANGED <<platform, inbox, sock, server, thread, loop, session>>

SendFrame(c, f) ==
    /\ peer[c] = "open"
    /\ Len(inbox[c]) < MaxInbox
    /\ inbox' = [inbox EXCEPT ![c] = Append(@, f)]
    /\ UNCHANGED <<platform, peer, sock, server, thread, loop, session>>

Leave(c) ==
    /\ peer[c] \in {"dialled", "asked", "open"}
    /\ peer' = [peer EXCEPT ![c] = "left"]
    /\ UNCHANGED <<platform, inbox, sock, server, thread, loop, session>>

-----------------------------------------------------------------------------
(* wait_for_connection, run by main() first and by the WebSocket thread    *)
(* when a probe has left.                                                  *)

Accept(t) ==
    \E c \in Conns :
        /\ Step(t, "accept", "request")
        /\ peer[c] # "new" /\ sock[c] = "none"
        /\ sock' = [sock EXCEPT ![c] = "open"]
        /\ cur' = [cur EXCEPT ![t] = c]
        /\ UNCHANGED <<platform, peer, inbox, server, back, dest, loop, session>>

\* Mutant: the result of accept() is not tested.
AcceptUntested(t) ==
    /\ Step(t, "accept", "request")
    /\ UNCHANGED <<platform, network, server, cur, back, dest, loop, session>>

\* accept() fails: main() gives up, the WebSocket thread calls on_disconnect.
AcceptFails(t) ==
    /\ Step(t, "accept", IF t = "main" THEN "exit" ELSE "drop")
    /\ UNCHANGED <<platform, network, server, cur, back, dest, loop, session>>

\* read_http_request, and the answer to anything but an upgrade: an HTTP
\* response, or nothing at all, and close.
ServeHttp(t) ==
    /\ Step(t, "request", "accept")
    /\ peer[cur[t]] \in {"asked", "left"}
    /\ sock' = [sock EXCEPT ![cur[t]] = "closed"]
    /\ peer' = [peer EXCEPT ![cur[t]] = "left"]
    /\ cur' = [cur EXCEPT ![t] = NoConn]
    /\ UNCHANGED <<platform, inbox, server, back, dest, loop, session>>

\* An upgrade: client_sock_ is set before the handshake is sent.
Upgrade(t) ==
    /\ Step(t, "request", "shake")
    /\ peer[cur[t]] \in {"asked", "left"}
    /\ client_sock' = cur[t]
    /\ UNCHANGED <<platform, network, connected, send_mutex, cur, back, dest, loop, session>>

HandshakeDone(t) ==
    /\ Step(t, "shake", IF t = "main" THEN "arm" ELSE "loop")
    /\ connected' = TRUE
    /\ peer' = [peer EXCEPT ![cur[t]] = IF @ = "asked" THEN "open" ELSE @]
    /\ cur' = [cur EXCEPT ![t] = NoConn]
    /\ UNCHANGED <<platform, inbox, sock, client_sock, send_mutex, back, dest, loop, session>>

\* No Sec-WebSocket-Key, or the response cannot be sent.
HandshakeFails(t) ==
    /\ Step(t, "shake", "accept")
    /\ sock' = [sock EXCEPT ![cur[t]] = "closed"]
    /\ peer' = [peer EXCEPT ![cur[t]] = "left"]
    /\ client_sock' = NoConn
    /\ cur' = [cur EXCEPT ![t] = NoConn]
    /\ UNCHANGED <<platform, inbox, connected, send_mutex, back, dest, loop, session>>

-----------------------------------------------------------------------------
(* disconnect(), run by main() at the end and by the WebSocket thread      *)
(* before it accepts again: clear connected_, close, forget the socket.    *)

Disconnect(t) ==
    /\ Step(t, "disconnect", "close")
    /\ connected' = FALSE
    /\ UNCHANGED <<platform, network, client_sock, send_mutex, cur, back, dest, loop, session>>

\* Mutant: the socket is forgotten without being closed.
CloseClientSkipped(t) ==
    /\ Step(t, "close", "forget")
    /\ UNCHANGED <<platform, network, server, cur, back, dest, loop, session>>

CloseClient(t) ==
    /\ Step(t, "close", "forget")
    /\ sock' = [c \in Conns |-> IF c = client_sock THEN "closed" ELSE sock[c]]
    /\ UNCHANGED <<platform, peer, inbox, server, cur, back, dest, loop, session>>

ForgetClient(t) ==
    /\ Step(t, "forget", IF t = "main" THEN "join" ELSE "accept")
    /\ client_sock' = NoConn
    /\ UNCHANGED <<platform, network, connected, send_mutex, cur, back, dest, loop, session>>

-----------------------------------------------------------------------------
(* send(), and the pong and close frames that receive() sends: lock, test  *)
(* (only send() does), header, payload.                                    *)

Return(t) == Go(t, back[t]) /\ back' = [back EXCEPT ![t] = "none"]

SendLock(t) ==
    /\ pc[t] \in {"lock", "rawlock"}
    /\ send_mutex = "free"
    /\ IF pc[t] = "rawlock" \/ (connected /\ client_sock # NoConn)
       THEN Go(t, "header") /\ send_mutex' = t /\ UNCHANGED back
       ELSE Return(t) /\ UNCHANGED send_mutex
    /\ UNCHANGED <<platform, network, connected, client_sock, cur, dest, loop, session>>

\* Descriptors a system call works on.
Open == {c \in Conns : sock[c] = "open"}

\* The pong's lock_guard lives until the receive() it recurses into returns.
Unlock(t) == send_mutex' = IF back[t] = "check" THEN t ELSE "free"

SendHeader(t) ==
    /\ Step(t, "header", "payload")
    /\ client_sock \in Open
    /\ dest' = [dest EXCEPT ![t] = client_sock]
    /\ UNCHANGED <<platform, network, server, cur, back, loop, session>>

HeaderFails(t) ==
    /\ pc[t] = "header" /\ Return(t)
    /\ client_sock \notin {c \in Open : peer[c] # "left"}
    /\ Unlock(t)
    /\ UNCHANGED <<platform, network, connected, client_sock, cur, dest, loop, session>>

SendPayload(t) ==
    /\ pc[t] = "payload" /\ Return(t)
    /\ dest' = [dest EXCEPT ![t] = NoConn]
    /\ Unlock(t)
    /\ UNCHANGED <<platform, network, connected, client_sock, cur, loop, session>>

\* Thread t goes to send a message and will then be at l.
Send(t, l) == Go(t, "lock") /\ back' = [back EXCEPT ![t] = l]

-----------------------------------------------------------------------------
(* main() after the first connection.                                      *)

\* pause_on_start and set_enabled for --inspect-brk, then the thread starts.
Arm ==
    /\ pc["main"] = "arm"
    /\ pc' = [main |-> IF brk THEN "gate" ELSE "script", ws |-> "loop"]
    /\ enabled' = brk
    /\ UNCHANGED <<platform, network, server, cur, back, dest, loop, waiting, paused>>

EnterGate ==
    /\ Step("main", "gate", "wait")
    /\ waiting' = TRUE
    /\ UNCHANGED <<platform, network, server, cur, back, dest, loop, enabled, paused>>

\* The predicate of wait_cv_.wait(): leave, or go to sleep.
TestGate ==
    /\ Step("main", "wait", IF waiting THEN "wait_doze" ELSE "script")
    /\ UNCHANGED <<platform, network, server, cur, back, dest, loop, session>>

\* console.log sends an event whether or not a debugger has enabled anything.
ConsoleLog ==
    /\ pc["main"] = "script"
    /\ Send("main", "script")
    /\ UNCHANGED <<platform, network, server, cur, dest, loop, session>>

\* do_pause: the paused event, the wait, the resumed event.
Pause ==
    /\ pc["main"] = "script" /\ enabled
    /\ paused' = TRUE
    /\ Send("main", "paused")
    /\ UNCHANGED <<platform, network, server, cur, dest, loop, enabled, waiting>>

\* The predicate of pause_cv_.wait(): go to sleep, or leave with the resumed
\* event.
TestPause ==
    /\ pc["main"] = "paused"
    /\ IF paused THEN Go("main", "doze") /\ UNCHANGED back ELSE Send("main", "script")
    /\ UNCHANGED <<platform, network, server, cur, dest, loop, session>>

\* Between its test and its sleep the JS thread holds the wait's mutex, which
\* nobody who clears and notifies takes.
FallAsleep ==
    /\ Step("main", "wait_doze", "wait_sleep") \/ Step("main", "doze", "sleep")
    /\ UNCHANGED <<platform, network, server, cur, back, dest, loop, session>>

\* A wait may end without a notification, or with evaluate()'s.
Wake ==
    /\ Step("main", "wait_sleep", "wait") \/ Step("main", "sleep", "paused")
    /\ UNCHANGED <<platform, network, server, cur, back, dest, loop, session>>

\* The script ends: ws_running is cleared, then the client is disconnected.
Finish ==
    /\ Step("main", "script", "disconnect")
    /\ ws_running' = FALSE
    /\ UNCHANGED <<platform, network, server, cur, back, dest, got, frame, session>>

Join ==
    /\ Step("main", "join", "exit")
    /\ pc["ws"] = "end"
    /\ UNCHANGED <<platform, network, server, cur, back, dest, loop, session>>

-----------------------------------------------------------------------------
(* The WebSocket thread.                                                   *)

Loop ==
    /\ Step("ws", "loop", IF ws_running THEN "check" ELSE "end")
    /\ UNCHANGED <<platform, network, server, cur, back, dest, loop, session>>

\* receive() tests connected_ and client_sock_ ...
Check ==
    /\ pc["ws"] = "check"
    /\ IF connected /\ client_sock # NoConn
       THEN Go("ws", "call") /\ UNCHANGED send_mutex
       ELSE Go("ws", "nothing") /\ send_mutex' = IF send_mutex = "ws" THEN "free" ELSE send_mutex
    /\ UNCHANGED <<platform, network, connected, client_sock, cur, back, dest, loop, session>>

\* ... and recv() takes the socket that is there when it is called.
Call ==
    /\ Step("ws", "call", "recv")
    /\ client_sock \in Open
    /\ cur' = [cur EXCEPT !["ws"] = client_sock]
    /\ UNCHANGED <<platform, network, server, back, dest, loop, session>>

\* receive() returns: a lock_guard of an enclosing receive() is released.
Returns(l) ==
    /\ Go("ws", l)
    /\ cur' = [cur EXCEPT !["ws"] = NoConn]
    /\ send_mutex' = IF send_mutex = "ws" THEN "free" ELSE send_mutex

\* read_ws_frame fails: the socket was bad when recv() was called, the peer
\* has left, close_socket() ended the recv(), or main() closed the socket
\* while the frame was on its way (its later parts are read from INVALID_SOCK).
ReadFails ==
    /\ \/ pc["ws"] = "call" /\ client_sock \notin Open
       \/ /\ pc["ws"] = "recv"
          /\ LET c == cur["ws"] IN
                \/ peer[c] = "left" /\ inbox[c] = <<>>
                \/ sock[c] = "closed" /\ closeWakes
                \/ sock[c] = "closed" /\ inbox[c] # <<>>
    /\ connected' = FALSE
    /\ Returns("nothing")
    /\ UNCHANGED <<platform, network, client_sock, back, dest, loop, session>>

\* read_ws_frame succeeds.
Read(f) ==
    /\ pc["ws"] = "recv"
    /\ inbox[cur["ws"]] # <<>> /\ Head(inbox[cur["ws"]]) = f
    /\ sock[cur["ws"]] = "open"
    /\ inbox' = [inbox EXCEPT ![cur["ws"]] = Tail(@)]

\* A text frame is returned; one without payload looks like "nothing".
ReadText(f) ==
    /\ Read(f) /\ f \in Commands \union {"empty"}
    /\ Returns(IF f = "empty" THEN "nothing" ELSE "handle")
    /\ frame' = IF f = "empty" THEN "none" ELSE f
    /\ UNCHANGED <<platform, peer, sock, connected, client_sock, back, dest, ws_running, got, session>>

\* A ping is answered, and receive() calls itself with send_mutex_ held; a
\* close frame is answered after connected_ is cleared.
ReadControl(f) ==
    /\ Read(f) /\ f \in {"ping", "bye"}
    /\ Go("ws", "rawlock")
    /\ back' = [back EXCEPT !["ws"] = IF f = "ping" THEN "check" ELSE "nothing"]
    /\ connected' = (connected /\ f # "bye")
    /\ cur' = [cur EXCEPT !["ws"] = NoConn]
    /\ UNCHANGED <<platform, peer, sock, client_sock, send_mutex, dest, loop, session>>

\* handle_message: the command's effect on the session; Debugger.enable also
\* sends a scriptParsed event before the answer, the others notify.
Handle ==
    /\ pc["ws"] = "handle"
    /\ got' = TRUE
    /\ enabled' = (enabled \/ frame = "enable")
    /\ waiting' = (waiting /\ frame # "run")
    /\ paused' = (paused /\ frame # "go")
    /\ frame' = "none"
    /\ IF frame = "enable"
       THEN Send("ws", "answer")
       ELSE Go("ws", IF frame = "go" THEN "notify_pause" ELSE "notify_gate") /\ UNCHANGED back
    /\ UNCHANGED <<platform, network, server, cur, dest, ws_running>>

\* notify_all() by a command or by on_disconnect(): it wakes the JS thread if
\* that sleeps, and is lost on one that is only about to.
NotifyPause ==
    /\ pc["ws"] \in {"notify_pause", "drop_notify_pause"}
    /\ pc' = [main |-> IF pc["main"] = "sleep" THEN "paused" ELSE pc["main"],
               ws   |-> IF pc["ws"] = "notify_pause" THEN "answer" ELSE "drop_gate"]
    /\ UNCHANGED <<platform, network, server, cur, back, dest, loop, session>>

NotifyGate ==
    /\ pc["ws"] \in {"notify_gate", "drop_notify_gate"}
    /\ pc' = [main |-> IF pc["main"] = "wait_sleep" THEN "wait" ELSE pc["main"],
               ws   |-> IF pc["ws"] = "notify_gate" THEN "answer" ELSE "end"]
    /\ UNCHANGED <<platform, network, server, cur, back, dest, loop, session>>

\* The response, to a message with a positive id only.
Answer ==
    /\ pc["ws"] = "answer"
    /\ Send("ws", "loop") \/ (Go("ws", "loop") /\ UNCHANGED back)
    /\ UNCHANGED <<platform, network, server, cur, dest, loop, session>>

\* Mutant: every dropped connection is reported to the session.
NothingIsADrop ==
    /\ Step("ws", "nothing", IF connected THEN "end" ELSE "drop")
    /\ UNCHANGED <<platform, network, server, cur, back, dest, loop, session>>

\* Mutant: every dropped connection is taken for a probe.
NothingIsAProbe ==
    /\ Step("ws", "nothing", IF connected THEN "end" ELSE "disconnect")
    /\ UNCHANGED <<platform, network, server, cur, back, dest, loop, session>>

\* An empty message: end, or accept again if the connection dropped before it
\* sent anything, or tell the session that its debugger has gone.
Nothing ==
    /\ Step("ws", "nothing", IF connected THEN "end" ELSE IF got THEN "drop" ELSE "disconnect")
    /\ UNCHANGED <<platform, network, server, cur, back, dest, loop, session>>

\* Mutant: on_disconnect() clears paused_ and leaves the notification out.
DropSilently ==
    /\ Step("ws", "drop", "drop_gate")
    /\ paused' = FALSE
    /\ UNCHANGED <<platform, network, server, cur, back, dest, loop, enabled, waiting>>

\* on_disconnect(): clear paused_ and notify, clear waiting_ and notify, all
\* without the mutex of either wait; then the thread ends.
Drop ==
    /\ Step("ws", "drop", "drop_notify_pause")
    /\ paused' = FALSE
    /\ UNCHANGED <<platform, network, server, cur, back, dest, loop, enabled, waiting>>

DropGate ==
    /\ Step("ws", "drop_gate", "drop_notify_gate")
    /\ waiting' = FALSE
    /\ UNCHANGED <<platform, network, server, cur, back, dest, loop, enabled, paused>>

-----------------------------------------------------------------------------
Shared(t) ==
    \/ Accept(t) \/ ServeHttp(t) \/ Upgrade(t) \/ HandshakeDone(t) \/ HandshakeFails(t)
    \/ Disconnect(t) \/ CloseClient(t) \/ ForgetClient(t)
    \/ SendLock(t) \/ SendHeader(t) \/ HeaderFails(t) \/ SendPayload(t)

MainStep ==
    \/ Shared("main")
    \/ Arm \/ EnterGate \/ TestGate \/ ConsoleLog \/ Pause \/ TestPause \/ FallAsleep
    \/ Finish \/ Join

WsStep ==
    \/ Shared("ws")
    \/ Loop \/ Check \/ Call \/ ReadFails
    \/ \E f \in Frames : ReadText(f) \/ ReadControl(f)
    \/ Handle \/ NotifyPause \/ NotifyGate \/ Answer \/ Nothing \/ Drop \/ DropGate

Peer == \E c \in Conns : Dial(c) \/ Request(c) \/ Leave(c) \/ \E f \in Frames : SendFrame(c, f)

Next == MainStep \/ WsStep \/ Wake \/ Peer \/ \E t \in Threads : AcceptFails(t)

\* The two threads are scheduled and get send_mutex_ if it is freed for them
\* again and again; peers owe nothing, and a wait owes no wake-up of its own.
Spec ==
    /\ Init /\ [][Next]_vars
    /\ WF_vars(MainStep) /\ WF_vars(WsStep)
    /\ \A t \in Threads : SF_vars(SendLock(t))

-----------------------------------------------------------------------------
(* Properties.                                                             *)

GateLabels == {"wait", "wait_doze", "wait_sleep"}
PauseLabels == {"paused", "doze", "sleep"}
DropLabels == {"drop", "drop_notify_pause", "drop_gate", "drop_notify_gate"}
Labels == GateLabels \union PauseLabels \union DropLabels \union
          {"off", "accept", "request", "shake", "arm", "gate", "script", "disconnect", "close",
           "forget", "join", "exit", "lock", "rawlock", "header", "payload", "loop", "check",
           "call", "recv", "handle", "notify_pause", "notify_gate", "answer", "nothing", "end"}

\* Types, and the sockets the threads' locals hold: accept()'s while a request
\* is served, recv()'s while it blocks (websocket_server.cpp:239, 442).
TypeOK ==
    /\ brk \in BOOLEAN /\ closeWakes \in BOOLEAN
    /\ peer \in [Conns -> {"new", "dialled", "asked", "open", "left"}]
    /\ inbox \in [Conns -> Seq(Frames)]
    /\ sock \in [Conns -> {"none", "open", "closed"}]
    /\ connected \in BOOLEAN
    /\ client_sock \in Conns \union {NoConn}
    /\ send_mutex \in Threads \union {"free"}
    /\ pc \in [Threads -> Labels]
    /\ back \in [Threads -> {"none", "script", "paused", "loop", "answer", "check", "nothing"}]
    /\ cur \in [Threads -> Conns \union {NoConn}]
    /\ dest \in [Threads -> Conns \union {NoConn}]
    /\ \A t \in Threads :
          /\ IF pc[t] \in {"request", "shake", "recv"} THEN cur[t] \in Conns ELSE cur[t] = NoConn
          /\ IF pc[t] = "payload" THEN dest[t] \in Conns ELSE dest[t] = NoConn
    /\ ws_running \in BOOLEAN /\ got \in BOOLEAN
    /\ frame \in Commands \union {"none"}
    /\ enabled \in BOOLEAN /\ waiting \in BOOLEAN /\ paused \in BOOLEAN

\* websocket_server.h:20: send() is "Thread-safe send (can be called from any
\* thread)": header and payload of a frame go to one client, and only once its
\* handshake is done (websocket_server.cpp:361-362, 425-431).
FrameWhole ==
    \A t \in Threads : dest[t] # NoConn =>
        /\ client_sock \in {dest[t], NoConn}
        /\ peer[dest[t]] \in {"open", "left"}

\* With --inspect-brk the script sends nothing before a message has come in,
\* and then no probe is accepted any more: every frame is whole, although
\* disconnect() and the accept loop take no lock (main.cpp:262-310).
BrkFrameWhole == brk => FrameWhole

\* A probe that leaves without a message does not start the script of
\* --inspect-brk, unless accepting the next connection fails
\* (main.cpp:268-292, debug_session.cpp:354-376).
ProbesDoNotStart ==
    brk /\ pc["main"] \in PauseLabels \union {"script", "lock", "header", "payload", "disconnect"}
        => got \/ (pc["ws"] \in {"drop_notify_gate", "end"} /\ client_sock = NoConn)

-----------------------------------------------------------------------------
\* The inductive invariant behind the safety properties: which thread runs
\* where, whose socket client_sock_ is, who may be sending, and what has come
\* in before the script of --inspect-brk runs (main.cpp:233-310,
\* websocket_server.cpp:231-340, 361-431).

StartLabels == {"accept", "request", "shake", "arm"}
SendLabels == {"lock", "rawlock", "header", "payload"}

\* The WebSocket thread does not run before main() has a client, and a thread
\* inside a send has somewhere to return to.
ThreadsStarted ==
    /\ pc["main"] \in StartLabels => pc["ws"] = "off"
    /\ pc["main"] \in StartLabels \union SendLabels \union GateLabels \union PauseLabels \union
           {"gate", "script", "disconnect", "close", "forget", "join", "exit"}
    /\ pc["ws"] \notin GateLabels \union PauseLabels \union {"arm", "gate", "script", "join", "exit"}
    /\ back["main"] \in {"none", "script", "paused"}
    /\ back["ws"] \in {"none", "loop", "answer", "check", "nothing"}
    /\ \A t \in Threads : pc[t] \in SendLabels <=> back[t] # "none"

\* client_sock_ is unset while a thread accepts, and else a connection whose
\* handshake is under way or done (main()'s disconnect() may forget it in the
\* middle of one).
ClientOwned ==
    /\ \A t \in Threads :
          /\ pc[t] \in {"accept", "request"} => client_sock = NoConn
          /\ pc[t] = "shake" => client_sock \in {cur[t], NoConn} /\ peer[cur[t]] \in {"asked", "left"}
    /\ client_sock # NoConn /\ (\A t \in Threads : pc[t] # "shake")
           => peer[client_sock] \in {"open", "left"}

\* A frame is written by the owner of send_mutex_: no two at a time.
SendersExcluded == \A t \in Threads : pc[t] \in {"header", "payload"} => send_mutex = t

\* Once a message has come in no probe is accepted any more; and the script of
\* --inspect-brk has either had a message or lost every prospect of one.
AcceptedThenRun ==
    /\ got => pc["ws"] \in SendLabels \union DropLabels \union
                  {"loop", "check", "call", "recv", "handle", "notify_pause", "notify_gate",
                   "answer", "nothing", "end"}
    /\ pc["ws"] \in DropLabels => got \/ client_sock = NoConn
    /\ brk /\ (pc["main"] \in GateLabels => ~waiting)
           /\ pc["main"] \notin StartLabels \union {"gate", "exit"}
       => got \/ (pc["ws"] \in {"drop_notify_gate", "end"} /\ client_sock = NoConn)

ServerInvariant ==
    ThreadsStarted /\ ClientOwned /\ SendersExcluded /\ AcceptedThenRun /\ BrkFrameWhole

\* main() is in do_pause(): it sends the paused event, tests, dozes or sleeps.
InPause == pc["main"] \in PauseLabels \/ back["main"] = "paused"

\* on_disconnect()'s notification has come between the JS thread's test of
\* paused_ and its sleep: it will sleep although paused_ is clear, and nobody is
\* left to notify it again.
Missed ==
    /\ pc["main"] = "doze" /\ ~paused
    /\ pc["ws"] \in {"drop_gate", "drop_notify_gate", "end"}

\* When the debugger of a paused script leaves, the script goes on, or that one
\* notification is missed (against debug_session.cpp:369, "Unblock everything on
\* disconnect"; see ResumeUnblocks of DebugSession); provided that a command came
\* before and no empty frame or ping is to be read (debug_session.cpp:368-376,
\* 714-719, websocket_server.cpp:374-402, main.cpp:276-296).
Sane(c) == \A i \in 1..Len(inbox[c]) : inbox[c][i] \notin {"empty", "ping"}
DepartureReleases ==
    /\ InPause
    /\ pc["ws"] = "recv" /\ peer[cur["ws"]] = "left" /\ Sane(cur["ws"])
    /\ got /\ send_mutex # "ws"
    ~> ~InPause \/ Missed

\* After the script has ended, main() joins a WebSocket thread that has had a
\* message and is not stuck in a pong: at once where closing the socket ends
\* recv(), else when the debugger has left (main.cpp:342-347).
ProcessExits ==
    /\ pc["main"] = "join" /\ got
    /\ ~(pc["ws"] = "rawlock" /\ send_mutex = "ws")
    /\ closeWakes \/ (pc["ws"] = "recv" => peer[cur["ws"]] = "left")
    ~> pc["main"] = "exit"

\* websocket_server.cpp:389: "Ping -> Pong": the thread that is to send one
\* does not hold the mutex it takes for it (389-394).
PongCanBeSent == pc["ws"] = "rawlock" => send_mutex # "ws"
=============================================================================
