# TLA+ models and proofs of the QuickJS debugger

`qjs_debug` (`debugger/src/`) runs one script on the QuickJS engine and serves
one debugger front end over a WebSocket with the Chrome DevTools Protocol (CDP).
Two threads matter: the **JS thread** (`main()`, which runs the script and,
inside it, the `OP_debug` callback) and the **WebSocket thread**, which
receives CDP messages and handles one after the other.  They share atomics, two
condition variables, a table of breakpoints, containers without locks, one
client socket, and a raw pointer to a request on the WebSocket thread's stack.
Nearly everything that is hard about this program is in how these two meet.

This directory models that: three specifications of the two threads, an
abstract one that the first implements, a fourth that follows a debugging
session in messages and a fifth that puts them on the wire, down to characters
and bytes, with the modules of operators they are built from, model-checking
instances, and eight modules of proofs.

| file | contents |
|---|---|
| `DebugSession.tla` | the two threads around one pause, one atomic access per action |
| `PauseContract.tla` | what a pause promises; `DebugSession` implements it |
| `DebugSessionProofs.tla` | types, inductive invariant and refinement of `DebugSession`, for every instance |
| `SessionClientProofs.tla` | what a client of `DebugSession` may rely on |
| `TraceHandler.tla` | where the script stops: breakpoints, conditions, steps, the tracked call stack |
| `TraceHandlerProofs.tla` | the tracked call stack against the engine's, for every script and client |
| `StepProofs.tla` | what a pause lists, where a step ends and that a breakpoint stops the script |
| `DebugServer.tla` | the process: `main()`, the WebSocket thread's loop, connections, sending |
| `DebugServerProofs.tla` | which thread owns the socket, and what `--inspect-brk` gets from it |
| `Inspection.tla` | a session in messages: requests, answers, events, and what the client makes of them |
| `InspectionProofs.tla` | the two ends agree on the session, for every script and list of requests |
| `Wire.tla` | the same session in bytes; it implements `Inspection` |
| `RemoteObjects.tla` | frames, values and object ids as the client is shown them |
| `SourceUrl.tla` | names of files: the engine's, the client's, and how one is matched with the other |
| `SourceUrlProofs.tla` | a breakpoint set under an announced URL, or a pattern for it, binds |
| `JsonValue.tla` | JSON values |
| `JsonText.tla` | the serializer, the parser, and RFC 8259 |
| `WsFrame.tla` | WebSocket frames as the server writes and reads them, and RFC 6455 |
| `WsFrameProofs.tla` | frames are read back as what was sent |
| `MC*.tla`, `MC*_<run>.cfg` | instances for TLC |
| `PROJECT.json` | runs, mutants, theorems, findings, hazards, and the source lines of every definition |

Line numbers below are of `debugger/src/` unless a path is given.

## 1. The system

| component | state | operations | met by |
|---|---|---|---|
| session: execution control (`debug_session.cpp` 308-376, 670-840) | atomics `enabled_ paused_ step_mode_ pause_requested_ waiting_`; `pause_mutex_/pause_cv_`, `wait_mutex_/wait_cv_`; `eval_mutex_/eval_cv_`, `pending_eval_` | `do_pause`, `resume`, `step_*`, `request_pause`, `run_if_waiting`, `wait_for_debugger`, `on_disconnect`, `evaluate_on_call_frame` | `DebugSession`, `PauseContract` |
| session: where to stop (848-1030, 184-303) | `breakpoints_`, `next_bp_id_`, `bp_active_` under `bp_mutex_`; `step_start_*`; `frame_stack_`; `pause_on_start_` | `debug_trace_handler`, `check_breakpoint`, `evaluate_condition`, `set_breakpoint_by_url`, `remove_breakpoint`, `capture_frames` (tracking) | `TraceHandler` |
| process and WebSocket server (`main.cpp` 225-356, `websocket_server.cpp`) | `connected_`, `client_sock_`, `send_mutex_`; `ws_running`, `msg_count`; listening socket | `wait_for_connection`, `receive`, `send`, `disconnect`; WebSocket thread's loop; start-up, shutdown | `DebugServer` |
| CDP dispatch (`cdp_handler.cpp`) | none of its own | one handler per method | `Inspection`: effect, events and answer of every method; the races of the commands are in the other three |
| frames and remote objects (388-664, 725-806) | `captured_frames_`, `object_store_`, `next_obj_id_` | `capture_frames`, `js_value_to_remote_object`, `store_object`, `get_properties`, evaluation | `RemoteObjects` in `Inspection`; getters during a capture in `TraceHandler` and `DebugSession` |
| scripts and URL matching (39-71, 108-245, 264-302) | `scripts_` | `add_script`, `find_script_id`, `normalize_url`, `to_file_url`, `paths_match`, `set_breakpoint_by_url` | `SourceUrl` in `Inspection` |
| frame codec (`websocket_server.cpp` 404-488) | the byte streams | `send_ws_frame`, `read_ws_frame` | `WsFrame` in `Wire`; a frame cut in two in `DebugServer` |
| JSON (`json.h`) | none | `parse`, `serialize` | `JsonValue` in `Inspection`, `JsonText` in `Wire` |
| HTTP parsing, SHA-1, base64 | none | `read_http_request`, `do_websocket_handshake` | only the outcome of a request (`DebugServer`) |
| platform wrappers, usage text, argument parsing, build and CI files | – | – | not modelled: printing, or no run-time state |
| QuickJS engine (a submodule, absent from the tree) | – | `OP_debug` callbacks, `JS_Eval` | external, nondeterministic |

Interactions: CDP messages arrive on the WebSocket thread
(`receive` → `CDPHandler::handle_message` → session).  Events leave on the JS
thread (`do_pause` → `send_event` → `WebSocketServer::send`) and responses on
the WebSocket thread, so both threads send.  A pause is a rendezvous: the JS
thread waits on `pause_cv_`; the WebSocket thread changes atomics and notifies.
An evaluate request is a second rendezvous inside the first: the WebSocket
thread posts `&req`, wakes the JS thread and blocks on `eval_cv_` until the JS
thread has run the expression.

A message passes four layers on its way: the JSON text of a value, the payload
of a frame, the bytes of a stream, and back; what it *means* depends on names
(script URLs, breakpoint ids, frame ids, object ids) that one message hands out
and a later one uses.

What is hard: atomics changed and condition variables notified without the
waiter's mutex; `pending_eval_` read without its mutex; code run *inside* the
handler (conditions) and *inside* a pause (evaluate), which enters the handler
again; getters run *inside* a capture, while it walks `frame_stack_`; an event
that overtakes an answer; names of files and numbers of lines that each side
counts in its own way; the breakpoint table read twice in two critical sections; `frame_stack_`
rebuilt from callbacks alone; a socket that one thread replaces while the other
sends; a debugger that leaves at any moment; the join at the end.
`PROJECT.json` lists each hazard at its line with the properties that cover it,
or the reason why none does yet.

## 2. The modules

### DebugSession: the two threads

One action is one atomic load or store, one critical section, or one of the
three steps of a condition variable's wait: test the predicate, block (which
frees the mutex), wake.  `jpc` and `wpc` are the control points; a comment names
the function a group of actions belongs to.  The order of the source is the
order of the control points: e.g. `resume` is `g_start` (step start, for steps)
→ `g_mode` `StoreMode` → `g_request` → `g_paused` → `g_notify`.

* `NotifyPause` moves a parked JS thread (`w_parked`) to `w_woken`; a
  notification that finds nobody parked is gone.  `SpuriousWake` may happen at
  any time.
* Handlers nest.  `inCond`: an outer handler is evaluating a breakpoint's
  condition.  `inEval`: an outer `do_pause` is running an expression.
  `inGet`: an outer `capture_frames` is reading a property whose getter runs
  script code (`CaptureGetter`).
* `pause_mutex`, `eval_mutex` are TRUE while the JS thread holds them.  Locking
  a `std::mutex` the thread already holds is undefined in C++; `PauseLock` (and
  the pong in `DebugServer`) blocks for ever, as a pthread mutex does.  What
  another library may do instead is not modelled.
* A *polite* client sends control commands and reads paused state only while
  it knows of a pause it has not answered.  Both disciplines are explored; only
  `StepHonoured` and `NoDataRace` are about the polite one.
* Abstracted: whether a breakpoint matches, a condition is truthy or a step is
  at its end is a free choice (that is `TraceHandler`'s subject); an expression
  is a name whose value is itself, so an answer can be told from a wrong one.

`PauseContract` says what a pause is for, with no threads: an expression is
asked only while the script stands still and has not been let go, is answered
with its own value, and the script never moves on past an unanswered one.  The
refinement mapping is at the end of `DebugSession`: `stopped` is "inside
`do_pause`, or on its behalf"; `released` is `paused_` cleared; `asked` and
`answer` are read through `pending_eval_`.

### TraceHandler: where the script stops

The engine is any program: `Call`, `Leave`, `Trace(p)` (a statement is reached
while the session is enabled) and `Skip(p)` (one is reached while it is not, and
the handler returns at 908) in any order up to `MaxDepth` frames.  `stack` is the
engine's own stack: every statement moves it, whether the handler is told or
not.  `frame_stack` is what the session rebuilt from the callbacks it was told
of.  `unseen` (history) is the set of frames whose last statement was skipped;
`Known(i)` says of a frame that it has reached a statement and that the handler
was told of its last one.  The handler's decision follows 926-1027 in order: pause
request, entry pause, `check_breakpoint` (first critical section), `Lookup`
(second one, which takes the first match and does not look at `bp_active_`),
condition, then the switch over the step mode.  `EvaluateCondition` and
`Evaluate` push injected code on the stack, whose statements enter the handler
again; so does `RunGetter`, a getter that runs while `capture_frames` converts
the variables of a frame (497): `Capture` starts the listing, `CaptureEnds`
finishes it, and any number of getters run between, at any frame of the walk.
`outer` keeps what the interrupted handler's C++ frame keeps.
A command answers a pause in one step here: that this is a fair abstraction for
a polite client is what `StepHonoured` and `NoDataRace` of `DebugSession` say.
A place stands for a file and a line; URL matching becomes equality of places.

### DebugServer: the process and its connections

`Threads == {"main", "ws"}` share the code of the server: `Accept`, `ServeHttp`,
`Upgrade`, `HandshakeDone/Fails` (`wait_for_connection`, run by main first and
by the WebSocket thread after a probe), `Disconnect`/`CloseClient`/`ForgetClient`,
`SendLock`/`SendHeader`/`SendPayload`.  Peers dial, send a request, send frames
and leave at any time.  A read blocks in one step and finds a text frame, a
control frame or the end of the stream.  The session is seen from outside:
`enabled`, `waiting`, `paused`; `Handle` is a command's effect and `Answer` its
response, if it has one.  `CloseWakes` is the platform: whether `close_socket`
in one thread ends a `recv` in another (Windows) or not (Linux).

The two waits of the JS thread have the control points that a lost notification
needs: it tests the predicate (`TestPause`, `TestGate`), dozes, that is, holds
the waiter's mutex and is about to block, and sleeps (`FallAsleep`).  `Handle`
and `Drop`/`DropGate` clear a flag in one step and notify in a later one
(`NotifyPause`, `NotifyGate`), without that mutex; a notification wakes a thread
that sleeps and is lost on one that dozes.  `Wake` is a spurious wake-up, or an
evaluate's.  After `Drop` the WebSocket thread ends: nobody notifies again.

### Inspection and Wire: a session, in messages and in bytes

The three modules above abstract from what is said; these are about nothing
else.  In `Inspection` the two directions of the connection are queues of
messages, `sent` and `told`.

* **Server.**  `Handle` is the handler of a message's method: `Enable`,
  `Disable`, `SetBreakpoint`, `RemoveBreakpoint`, `SetActive`, `Control` (resume
  and the steps), `RequestPause`, `RunIfWaiting`, `Evaluate`, and `Query` for
  everything that changes nothing, the stubs and the unknown methods included.
  The messages it answers with go to `todo`, and `SendNext` sends them one by
  one: an event of the JS thread can come between two of them.
* **JS thread.**  `Stop` (a reason is due: a pause request, the entry, a
  breakpoint whose name and line match, a step), `CaptureFrame` for each frame,
  `Pause`, which sends the event, and `Resumed`.  What the engine would report at
  a statement is one of the constant `Snapshots`.  Whether a step ends somewhere
  is `TraceHandler`'s subject; here it may end anywhere.
* **Client.**  A front end that enables the debugger first, breaks in scripts it
  was told of, by URL or by a regular expression, and uses the frames and ids of
  a pause only until it sends the command that ends it.  `client` is what it
  remembers: the requests it waits for, the scripts, the breakpoints and the
  places they were bound to, the frames of the pause, the last expression and the
  last list of properties it was shown.  A message it cannot make out tells it
  nothing; `Inspection` allows that only for an answer that shows values.

`Wire` adds the two byte streams, `up` and `down`.  `Receive` takes a frame off
`up` (`ReadFrame`), parses it and handles *what it got*; `Transmit` serializes
and frames what is told; the client (`Submit`, `Hear`) writes JSON in a style of
its own (blanks, optional escapes), masks its frames, and reads the server's by
the RFCs alone: `RfcLengths` and `IsTextOf` are written from them and share with
`SendFrame` and `Serialize` only the constants (which escapes there are).  `sent`
and `told` are the messages *meant* by the frames under way.  `MessagesArrive`
says that, with `up` and `down` forgotten, this is a behaviour of `Inspection`:
the bytes carry the messages.  It is what carries the theorems about `Inspection`
over to the program that sends bytes.

`JsonText` works on characters; a word, the text of a number and the digits of a
`\u` escape are one character each, because the code scans them in one go.
`IsTextOf` asks whether a text is *one of* those RFC 8259 gives to a value,
which leaves the order of members and the choice of escapes open.  `WsFrame`
takes the number of byte values and the lengths at which the header changes as
constants.  `SourceUrl` takes a name as a sequence of pieces, so that "part of"
and "lower case" mean what they mean for strings.  `RemoteObjects` keeps the
fields of a value that a client acts on.  Integers of messages are C++ `int`s: ids of
breakpoints and objects stay below `MaxInt` (`Room`), which two thousand million
requests, or objects shown in one pause, would exceed.

## 3. What the runs show

Every run ends with the exhaustive state space of its instance; none has a
state constraint.

| run | asks | instance | result |
|---|---|---|---|
| `session_safety` | `TypeOK`, `RequestAlive`, `EventsAlternate`, `StepHonoured`, `NoDataRace`, `PauseInvariant`, `ClientInvariant`, refinement `ImplementsContract` | every command, both start-up modes, both disciplines, one local and one code expression, getters; 1 214 056 states | holds |
| `session_liveness` | `RepeatedCommandsRelease`, `PauseRequestTaken`, `ParkedEvalAnswered` under `RetrySpec` | the commands that start, stop or ask; 97 938 states | holds |
| `session_lostResume` | `ResumeUnblocks` under `FairSpec` | enable, resume, close | **violated** |
| `session_evalTwice` | `EvaluatedOnce` | enable, evaluate | **violated** |
| `session_nestedPause` | `PauseGetsToWait` | enable, evaluate | **violated** |
| `server_life` | `TypeOK`, `ServerInvariant`, `BrkFrameWhole`, `ProbesDoNotStart` | two connections in any order, all frames, both modes and platforms; 1 934 668 states | holds |
| `server_end` | `DepartureReleases`, `ProcessExits` under `Spec`'s fairness | one connection; 55 452 states | holds |
| `server_ping` | `PongCanBeSent` | two connections | **violated** |
| `server_frames` | `FrameWhole` | two connections, no `--inspect-brk` | **violated** |
| `trace_stops` | `TypeOK`, `FramesAreReal`, `StepOverStays`, `StepOutLeavesUndisturbed`, `StepTaken`, `BreakpointsStop` | three frames, two statements, two breakpoints with or without condition, getters, all commands; 1 224 408 states | holds |
| `inspect_cdp` | `TypeOK`, `AnsweredInOrder`, `ScriptsAnnounced`, `ObjectsResolve`, `BreakpointsBind`, the inductive `SessionInvariant`; on the wire `WireTypeOK`, `RequestsArrive`, `RepliesArrive` and the refinement `MessagesArrive` | a Windows host waiting for its debugger and a POSIX host running; four requests, two unanswered at a time; 92 672 states | holds |
| `trace_stepOut` | `StepOutLeaves` | continue, step out, evaluate | **violated** |

**Bounds.**  `DebugSession` has no counter: with one expression of each kind its
state space is complete; a second of a kind would be treated like the first.
Two connections are needed for a probe followed by a debugger, and suffice for
one frame split over two clients; one frame in flight suffices because the
reader takes them one by one.  In `TraceHandler` three frames give a caller, the
stepped frame and a callee (or injected code on top of one of them), two
statements tell "another line" from "the same line", two breakpoints at one
place give the first-match rule its choice, and `MaxNest = 1` gives injected
code that stops in the handler once: deeper nesting is covered by the theorems,
which have no bound.  A frame whose callee is called, runs and returns while the
session is disabled fits in too.  `VIEW LiveState` merges states that differ only
in what is not read any more, by a guard or by a property: `mode` outside the
decision, `step_start` and the client's command but for the parts its mode needs,
`None` and `Continue`, breakpoints noted and since removed, levels after a getter
or an evaluation, and of a frame that is not `Known` where it stands and what
`frame_stack` and the lists made from it hold of it.  With a finer view, that
merges only on `mode`, `step_start` and the places of unknown frames, the
instance has 6 220 768 states, and the properties hold there as well.

`inspect_cdp`: four requests are enough for enable, set a breakpoint, run or
pause, and one look at the pause's objects, or for removing or deactivating what
was set; two unanswered ones let answers and events cross.  The first snapshot
has two frames, an array and an object that contain each other, strings with
every kind of escape, and more fields than `MaxProps` allows; the last holds a
NaN.  `MaxInt = 40` leaves room for the ids of all of them.  `Byte = 128` and
`Wide = 150` make the header change its form at 62 and 150 instead of 126 and 65536: frames of all three forms occur, in both directions.

**Deadlock** is not an error in these runs: the script ends, a client that has
nothing to say leaves the JS thread parked, and a wait for one's own mutex stops
a thread for good (that case has a run of its own).  In `inspect_cdp` the
client stops after its last request.

**Fairness.**  Both threads are scheduled by the operating system: weak fairness
of each thread's step.  A mutex that is freed again and again is granted
eventually: strong fairness of `EvaluateWait` (the wake-up that must reacquire
`eval_mutex_`) and of `SendLock`.  Clients, peers, spurious wake-ups (`SpuriousWake`, `Wake`) and failing
`accept` calls owe nothing.  `RetrySpec` adds a client that repeats `resume` while the script
stands still and `runIfWaitingForDebugger` while it has not started (and at no
other time: a client that resumed for ever would withdraw every pause request,
and `PauseRequestTaken` would be empty); without it a lost notification stops the script for
good, which is `session_lostResume`.  `RepeatedCommandsRelease` excludes the
behaviours in which the WebSocket thread stays inside one evaluate for ever (an
expression that does not end, or one that pauses, `session_nestedPause`);
`DepartureReleases` says what a departure does achieve: the script goes on, or it
is the one case of `Missed` (the JS thread dozes with `paused_` cleared and the
notification gone), whose outcome `session_lostResume` shows;
`ProcessExits` excludes a join on a thread blocked in `recv` where closing the
socket does not end it and the debugger never leaves: the process then really
hangs (main.cpp:346).

### What was found

Each is a run of its own; `PROJECT.json` quotes the text it contradicts.

1. `session_lostResume`.  `resume()` clears `paused_` and notifies without
   `pause_mutex_`; between the wait's test and its block the notification is
   lost and the script sleeps on though it was resumed.  The step commands, the
   post of an evaluate, `run_if_waiting` (with `wait_mutex_`) and `on_disconnect`
   have the same window.  The last is the worst, and is what TLC shows: the
   thread that could notify again has ended, and "Unblock everything on
   disconnect" (369) fails for good.
2. `session_evalTwice`.  `do_pause` evaluates whenever the pointer is set and
   does not look at `ready`: an expression can be run twice, side effects
   included.  The contract still holds, because the second answer is the same
   expression's.
3. `session_nestedPause`.  Code evaluated in a pause that reaches a breakpoint
   enters `do_pause` on the same thread, which waits for a mutex it holds.
4. `server_ping`.  The `lock_guard` for a pong lives through the recursive
   `return receive()`: every event blocks until the next text frame, and a
   second ping never returns.
5. `server_frames`.  `disconnect()` and the accept loop change `client_sock_`
   without `send_mutex_`: a frame of a `console.log` can be split over two
   clients or reach one before its handshake.
6. `trace_stepOut`.  After an evaluate the `<debugger-eval>` frame is still on
   `frame_stack_`; a step out takes its depth as the start and stops in the frame
   it should leave.  Without such code it never does: `StepOutLeavesUndisturbed`,
   checked in `trace_stops` and proved.

Disagreements met while reading that have no run:

* `README.md:133` and `:175` of the repository say that with `--inspect` the
  script runs immediately; main.cpp:254 waits for a connection in both modes.
* `README.md:238` says `--inspect-brk` blocks until `runIfWaitingForDebugger`;
  `on_disconnect` (375) opens the gate too, so a debugger that sends anything
  and leaves starts the script.
* debug_session.cpp:369 says "Unblock everything on disconnect"; besides finding
  1, `enabled_` and the breakpoints stay, and a later breakpoint pauses with
  nobody to resume, since the WebSocket thread has ended.
* An empty text frame is indistinguishable from a failed receive
  (websocket_server.h:23, main.cpp:275-297): the thread ends without telling
  the session.
* A falsy condition returns before the switch (983-985), so a step that ends at
  that statement runs on, against 1007 ("Pause on next line at the same or
  lower depth"); and it hides a later breakpoint at the same place.  A
  conditional breakpoint removed between the two lookups stops unconditionally
  and is reported without an id.
* A step into, or a pause request, may stop inside `<bp-condition>`.
* A `runIfWaitingForDebugger` that falls between the test and the block of
  `wait_for_debugger`, or comes before `waiting_` is set (356), is lost, and the
  script of `--inspect-brk` does not start, against `README.md:75` ("unblocks
  execution, script starts running").
* `README.md:77` says that `do_pause()` captures the call stack.  While the session
  is disabled the handler tracks nothing (908), and the next callback only cuts
  or fills `frame_stack_` and sets its last entry (913-924): a pause after
  `Debugger.enable` shows the callers that ran meanwhile as empty frames, at the
  lines they were at before, or with the file and line of a function that has
  returned.  A frame that has reached no statement of its own (a native one, say)
  may be shown as such a function too.  `FramesAreReal` is about the other frames.

Met while modelling the wire, and contradicted by no text of the repository:

* A NaN or an infinity is written as `printf` writes it (json.h:129), which is no
  JSON: the answer to `Runtime.getProperties` or `evaluateOnCallFrame` that holds
  one cannot be read, and its request is never settled on the client.  (The event
  of a pause holds only ids and can always be read.)  `RepliesArrive` and
  `MessagesArrive` except exactly these answers.
* A getter that runs during a capture re-enters the handler.  It may lengthen or
  cut `frame_stack_` under the loop that walks it (the reference at 561 may
  dangle; the model reads the entry anew), so that the levels of the remaining
  frames are off (`FramesAreReal` promises levels only when no getter ran); and a
  breakpoint in it starts a pause inside the capture, which clears the object
  store.
* `Debugger.enable` enables the session before it sends `scriptParsed` (115): a
  pause in between would show frames of a script not announced yet.  For a client
  that enables first, nothing is due at that moment, or the gate is still closed:
  `ScriptsAnnounced` holds.  A client that asks for a pause before it enables
  gets such frames.
* A breakpoint is in the table before its answer is sent: the stop it causes can
  be told first, with an id the client does not know yet (`BreakpointsBind`
  allows exactly that).
* `find_script_id` takes the first script whose name *or* base name fits
  (156-166); with two like-named files the frames of the second are shown in the
  first.  The process adds one script, so no run shows it.
* On POSIX hosts the handler strips the slash of an absolute path along with
  `file:///` (160-161); such a breakpoint matches as a part of the path or by its
  base name, never as the path itself.  Matching by parts ignores case on every
  host, and an empty URL matches every file.
* Characters outside the basic plane that a client escapes as surrogate pairs
  become two three-byte sequences each (json.h:208-222), which is not UTF-8.
* `std::stod` throws on a number out of range (json.h:254) and ends the process.
* A string with a NUL is cut there (debug_session.cpp:424); FIN is ignored
  (websocket_server.cpp:457), so a fragmented message is handled piece by piece.

## 4. What is proved

TLAPS checks these for every value of the constants that the modules' named
assumptions allow: any set of commands, expressions, places and connections, any
depth of the stack, any number of breakpoints and requests, any heap and name of
a file, any size of a byte.  The
assumptions are `ConstantsAssumption` (`DebugSession`), `HandlerAssumption`
(`TraceHandler`: injected code is no place of the script, bounds are numbers),
`ServerAssumption` (`DebugServer`: the name for "no connection" is none),
`ValueAssumption` (`JsonValue`: different ints have different texts),
`UrlAssumption` (`SourceUrl`: lower case is reached in one step and no separator
has another case, as with `tolower`), `RemoteAssumption` (`RemoteObjects`: what an
object refers to is on the heap), `InspectionAssumption` (`Inspection`: the engine
reports a stack that is not empty, of values on the heap) and `FrameAssumption`
(`WsFrame`: the values of a byte are a multiple of 32, the two lengths at which
the header changes fit it, and exclusive or with one byte undoes itself).

**DebugSession** (`DebugSessionProofs`).  The inductive invariant is
`TypeOK /\ PauseInvariant`.  `RequestAlive`, the property one wants, is not
inductive: that the JS thread dereferences a live request needs to know that the
WebSocket thread cannot leave its wait while the JS thread holds `eval_mutex_`
(`MutexOwners`), that the pointer is set exactly while the WebSocket thread is
at one of three control points and that nobody clears `paused_` meanwhile
(`Rendezvous`), what the request holds when it is called ready
(`RequestContents`), and that no pause is left while an expression runs
(`PauseStack`).  The proof has one step per action; the refinement's
(`NextContract`) says for each action which step of `PauseContract` it is, or
that it is a stutter.  Theorems: `SessionInvariant`, `SessionTypes`,
`SessionPauseInvariant`, `SessionRequestAlive`, `SessionImplementsContract`.

**DebugSession and its client** (`SessionClientProofs`).  `EventsAlternate`,
`StepHonoured` and `NoDataRace` say what a front end may conclude from events;
none is inductive.  `ClientInvariant` on top of the session's invariant is:

* `Announced`: the last event tells where the JS thread stands (`paused` exactly
  between the event of `do_pause` and the one that ends it, or while an
  expression of that pause runs).  It needs no discipline of the client, hence
  `EventsAlternate` holds for every client.
* `AnsweredInPause`: a polite client's command is handled within the pause it
  answers, from its first store to its last, and `paused_` is set exactly as long
  as it is unanswered.  This is why the unlocked reads of `frame_stack_` (317)
  and `object_store_` (796) cannot meet the JS thread's writes: `NoDataRace`.
* `ModeKept`: `step_mode_` holds the mode of the last command from its store
  until the handler has loaded it (926): `StepHonoured`.

**TraceHandler, the call stack** (`TraceHandlerProofs`, `StepProofs`).
`FramesShown`: a pause lists as many frames as the engine's stack has; the one
that stopped at the statement it stopped at; every other one whose last statement
the handler was told of at that statement; each at its level when no getter ran
while the list was made.  The engine's stack is `stack`, which statements move
that the handler never hears of.  The theorem is silent about *where* a frame is
listed that is not `Known`: one that has reached no statement (nothing says where
it is), or whose last statement ran while the session was disabled, which the code
does list wrongly (section 3).
`FramesAreReal` speaks of paused states only.  `FrameInvariant` (theorem
`FramesTracked`) says that in *every* state each known frame is tracked at its
level (`Tracked`; `Seen` is the stack with the other frames blanked), which calls,
returns, callbacks, conditions, getters and any stretch of unseen statements above
it preserve; that interrupted
handlers stand at different frames (`Nested`); that what an interrupted handler
has listed stays true of the known frames while other code runs (`Kept`); and
what holds of the list under way (`Current`).  That the frame that stopped is
known while the handler runs is `Placed`, below, so `FramesShown` is proved with
`StepInvariant`.  Lemmas: `TrackOf` (what a callback makes of
`frame_stack_`), `Push`, `Pop`, `TrackTop`, `ListingOf` (what the walk lists),
`OuterPop`, `LeastOf`, and one lemma each for the engine, the handler and the
client.

**TraceHandler, steps and breakpoints** (`StepProofs`).  The step's start is
taken from `frame_stack_` by a command and compared with it statements later,
so everything rests on `FrameInvariant`.  `StepInvariant` adds

* `Scalars`, `Placed`: the ranges of the other variables; a handler stands at a
  known frame;
* `Reached`: while a pause waits undisturbed, `frame_stack_` is as deep as the
  engine's stack, so the depth a command reads (`frame_stack_.size()`, 317) is the engine's;
* `Commanded`: the session's mode and start are the client's command until the
  step has ended, and the engine's stack has not been shallower without `left`
  being true;
* `Watched`, `Interrupted`: every unconditional breakpoint in force at the
  statement is found by the handler, except behind a match with a lower id, also
  when the handler has been interrupted by injected code.

Theorems: `HandlerTypes`, `FramesShown`, `StepOverNeverDeeper` (`StepOverStays`),
`StepOutNeverEarly` (`StepOutLeavesUndisturbed`; without "undisturbed" it is the
finding `trace_stepOut`), `StepNeverMissed` (`StepTaken`),
`BreakpointsAlwaysStop` (`BreakpointsStop`).

**DebugServer** (`DebugServerProofs`).  `ServerInvariant` is inductive together
with `TypeOK`: the WebSocket thread is off until `main()` has a client, and a
thread that sends has a place to return to (`ThreadsStarted`); whose socket
`client_sock_` is at each control point (`ClientOwned`); who is sending holds
`send_mutex_` (`SendersExcluded`); once a message has come in no probe is
accepted any more, and a script of `--inspect-brk` that runs has had a message,
or the WebSocket thread has ended without a client (`AcceptedThenRun`).
`BrkFrameWhole` is its last part.  TLC refuted a first version of `ClientOwned`
that let a handshake own the socket to its end: without `--inspect-brk`,
`main()`'s `disconnect()` at the end of a short script forgets the socket while
the WebSocket thread is still in the handshake of the next client.  Theorems:
`ServerInvariantHolds`, `ServerTypes`, `ServerBrkFrameWhole`,
`ServerProbesDoNotStart`, `ServerSendersExcluded`.

**WsFrame** (`WsFrameProofs`).  Facts about operators, not about behaviours, and
without a bound on the payload but the two-byte form's: `UnmaskUndoes`;
`ClientFramesAreRead`, `read_ws_frame` takes from the stream the opcode and the
payload of the frame a client has put there and leaves what follows it;
`ServerFramesAreRead`, the header `send_ws_frame` writes can be read as one
length only, and it is the right one.  The lemmas say what a division by `Byte`
gives (`Digits`), what two bytes are read as (`NumberOfTwo`), and where the parts
of a concatenation are (`Cut`, `Middle`, `Parts`).  `Number` is a recursive
function, so that two bytes can be computed; the eight-byte form has `WideBytes`
of them, for any `WideBytes`, and stays with `inspect_cdp`.

**SourceUrl** (`SourceUrlProofs`).  `AnnouncedUrlBinds`: the URL `to_file_url`
announces for a script, sent back in `setBreakpointByUrl`, stripped and
normalized there, matches the script in `check_breakpoint`, for a name of any
shape (either slash, with or without a drive, absolute, relative, a URL) and on
both hosts.  It is not the equality of `paths_match` that makes this so, since on
POSIX the stripped name has lost its slash: what is stripped is always an end of
the name (`AnnouncedIsEnd`), and an end is a part (`EndIsPart`), which is what
the search of one name in the other finds.  `LowerCaseUrlBinds` is the same for
the URL in lower case on Windows, which some front ends send, and `RegexBinds`
for a pattern found in the URL.  `OwnScriptFound`: `find_script_id` finds the
script whose path the frame's file normalizes to, unless an earlier one fits.

**Inspection** (`InspectionProofs`).  `SessionInvariant`, which `inspect_cdp`
checks on its instance, is inductive together with `TypeOK`.  What one wants is
not: that ids lead to the engine's variables (`ObjectsResolve`) needs that the
pause the client has is the one that lasts, that an answer is matched with the
request it is for, and that no request about one pause is answered in the next.
The parts, in the order in which they are proved:

* `Queued`: what the client waits for is, in order, what is answered, told or to
  be told, and what is still on its way to the server; an answer fits its
  request.  Each handler answers exactly once (`Served`), and an event that the
  JS thread slips in between moves no answer (`AnswersSlip`).
* `Reported`: what is under way and is no answer is one of three events, or tells
  of the pause that lasts.
* `Announced`: five stages, from the session not yet enabled to the client
  knowing the script; nothing that mentions the script is sent before.
* `PauseShared`: four stages again.  The event of a pause is on its way, or the
  client has its frames, or the command that ends it is on its way back, or the
  script runs; never two at once.
* `Captured`: the frames captured are those of the stack, at their places.

These need one another and `TypeOK` to be kept: their conjunction is `Core`
(`CoreHolds`), and gives `SessionTypes`, `AnswersInOrder` (`AnsweredInOrder`) and
`ScriptsKnown` (`ScriptsAnnounced`).  On top of it

* `Bound`: every breakpoint in the table, and every one that has stopped the
  script, was issued to the client (it has it, or the answer is under way), with
  the line it was asked for.  Hence `BreakpointsKept` (`BreakpointsBind`).
* `Looking`: requests to look at a pause are answered before it ends: a look is
  never behind the command that ends the pause, and never unanswered when the
  next pause is told.
* `Shown`: the frames captured, the answers under way and what the client was
  shown last are true of the store; the ids it asks about are in it.  It needs
  `Looking`, since an answer is compared with the store of the pause in which it
  is *read*.  Hence `ShownTruly` (`ObjectsResolve`).

The theorems speak of the client of section 2, which keeps to its manners, and
of the one script the process runs; setups, snapshots, heap, expressions, lines,
other requests and the number of requests in flight are any.

`EndsAgree` is the whole invariant.  The lemmas below are about the store and the
operators that fill it: `store_object` only adds (`StoreObjectStores`, `Grows`),
what was shown stays shown (`ObjectGrown`, `FrameGrown`), a value converted is
shown down to the depth limit (`RemoteObjectShows`), a call frame likewise
(`CallFrameShows`).  `Numbered` and `ListedBy` are recursive functions;
that such a function exists, and what holds of it at every length, is shown by a
least counterexample (`LeastOf`), which stands in for induction.  One clause was
found missing on the way: with `next_bp_id` any number, 0 included, the
breakpoint just set could lie outside `1..next_bp_id - 1`; `TypeOK` says that
the counter is positive.

**Only model-checked**: liveness under fairness, which is outside the prover's
reach; that the bytes carry the messages (`MessagesArrive`, `RequestsArrive`,
`RepliesArrive`, `WireTypeOK`), since parsing and serializing are recursive over
data, for which the provers have no induction, and are declared `RECURSIVE`; the
eight-byte form of a frame's length; and the six violations, which need a
behaviour and not a proof.

## 5. What is not modelled

All components that decide anything have their module, and every invariant and
action property of the passing runs is a theorem, but for those of `Wire`.  Not
modelled, and why:

* The text of HTTP requests and headers, SHA-1 and base64: parsing of fixed
  text and bit arithmetic; what depends on them, the outcome of a connection's
  request, is an action of `DebugServer`.
* Arguments, usage text, reading the script's file, console set-up and the
  platform wrappers, except what closing a socket does to a blocked `recv`.
* Of the messages: class names, descriptions, columns, property flags,
  `sourceMappingURL`, the contents of `console.log`; nothing depends on them.
* UTF-8 (a character is an element of `Alphabet`) and `std::regex` (a parameter,
  `Finds`).
* In `Inspection`: conditions of breakpoints, and code that enters the handler
  from an evaluation or a getter: `TraceHandler` and `DebugSession` have them.
* The engine: any program, given by nondeterministic calls, returns and
  statements, or by the snapshots of `Inspection`.

## 6. Running

    tlc -workers 2 -config MCDebugSession_safety.cfg MCDebugSession
    tlapm DebugSessionProofs.tla
    tlapm SessionClientProofs.tla
    tlapm TraceHandlerProofs.tla
    tlapm StepProofs.tla
    tlapm DebugServerProofs.tla
    tlapm WsFrameProofs.tla
    tlapm SourceUrlProofs.tla
    tlapm InspectionProofs.tla

The longest runs are `trace_stops` and `inspect_cdp` (two to three minutes each
with two workers); the longest proof is `InspectionProofs` (ten minutes).
