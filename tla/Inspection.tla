----------------------------- MODULE Inspection -----------------------------
(***************************************************************************)
(* A debugging session in messages: the client's requests, the server's    *)
(* answers and events, the handlers of cdp_handler.cpp and what they read  *)
(* and change in the session; and the pauses, with the frames and objects  *)
(* the client is shown.  Module Wire has the bytes the messages travel in. *)
(*                                                                         *)
(* Modules DebugSession, TraceHandler and DebugServer have the races of the*)
(* two threads, the stepping rules and the connections.  Here a pause and  *)
(* a request are one step each, but the messages a request is answered     *)
(* with are sent one by one, with the script's events between them.        *)
(*                                                                         *)
(* The client is a well-behaved one: it enables the debugger first, breaks *)
(* in scripts it was told of, and uses the frames and ids of a pause only  *)
(* until it sends the command that ends it.                                *)
(***************************************************************************)
EXTENDS RemoteObjects

CONSTANTS
    Setups,         \* what differs between sessions: see Init
    Source,         \* the script's text
    Snapshots,      \* what the engine may report at a statement: the stack,
                    \* innermost frame first, and the global variables
    Lines,          \* lines, from 0, that the client breaks at
    Expressions,    \* expressions it evaluates
    Queries,        \* requests that change nothing: method and parameters
    MaxRequests, MaxInFlight    \* bounds: of all requests, and unanswered ones

\* The methods that change the session.
Steps == {"Debugger.stepOver", "Debugger.stepInto", "Debugger.stepOut"}

Changing == Steps \union
    {"Debugger.enable", "Debugger.disable", "Debugger.setBreakpointByUrl",
     "Debugger.removeBreakpoint", "Debugger.setBreakpointsActive", "Debugger.resume",
     "Debugger.pause", "Debugger.evaluateOnCallFrame", "Runtime.runIfWaitingForDebugger"}

\* Code runs in a frame, so no stack is empty; MaxRequests ids are ints.
ASSUME InspectionAssumption ==
    /\ \A u \in Setups : IsSeq(u.path) /\ u.windows \in BOOLEAN /\ u.brk \in BOOLEAN
    /\ IsSeq(Snapshots)
    /\ \A s \in 1..Len(Snapshots) :
          /\ IsSeq(Snapshots[s].stack) /\ Snapshots[s].stack # <<>>
          /\ IsSeq(Snapshots[s].globals)
          /\ \A i \in 1..Len(Snapshots[s].stack) :
                /\ Snapshots[s].stack[i].line \in Nat
                /\ IsSeq(Snapshots[s].stack[i].locals)
                /\ \A j \in 1..Len(Snapshots[s].stack[i].locals) :
                      OnHeap(Snapshots[s].stack[i].locals[j][2])
          /\ \A i \in 1..Len(Snapshots[s].globals) : OnHeap(Snapshots[s].globals[i][2])
    /\ \A e \in Expressions : OnHeap(Outcome(e))
    /\ Lines \subseteq 0..MaxInt
    /\ IsSeq(Queries)
    /\ \A i \in 1..Len(Queries) :
          Queries[i].method \notin Changing \union {"Runtime.getProperties"}
    /\ MaxRequests \in 0..MaxInt /\ MaxInFlight \in Nat

VARIABLES
    setup,
    sent, told,         \* messages under way, to the server and to the client
    todo,               \* messages the WebSocket thread still has to send
    enabled, active,    \* enabled_, bp_active_
    breakpoints, next_bp_id,
    due,                \* reasons to stop: the pause request, entry, a step
    js, stop,           \* the JS thread, and the snapshot it has stopped at
    why,                \* the reason of the stop, and the breakpoint's id
    frames, store,      \* captured_frames_; object_store_ and next_obj_id_
    client              \* what the client knows

table == <<active, breakpoints, next_bp_id>>
pause == <<stop, why, frames>>
session == <<enabled, table, due, js, pause, store>>
vars == <<setup, sent, told, todo, session, client>>

-----------------------------------------------------------------------------
\* main adds one script, and the engine reports its path for every frame.
Scripts == <<Normalize(setup.path)>>
Stack(s) == [i \in 1..Len(Snapshots[s].stack) |->
                [file   |-> setup.path,
                 line   |-> Snapshots[s].stack[i].line,
                 locals |-> Snapshots[s].stack[i].locals]]

Init ==
    /\ setup \in Setups     \* windows, path, brk; the client's style and mask
    /\ sent = <<>> /\ told = <<>> /\ todo = <<>>
    /\ enabled = setup.brk
    /\ active = TRUE /\ breakpoints = <<>> /\ next_bp_id = 1
    /\ due = IF setup.brk THEN {"entry"} ELSE {}
    /\ js = IF setup.brk THEN "gate" ELSE "running"
    /\ stop = 0 /\ why = <<>> /\ frames = <<>> /\ store = EmptyStore
    /\ client = [next |-> 1, waiting |-> <<>>, scripts |-> <<>>, bound |-> <<>>,
                 frames |-> <<>>, hit |-> <<>>, watch |-> <<>>, list |-> <<>>]

-----------------------------------------------------------------------------
(* The server: messages.                                                   *)

Method(m) == StrOf(Get(m, "method"))
Params(m) == IF Has(m, "params") THEN m.o["params"] ELSE Obj(<<>>)
Nothing == Obj(<<>>)

Event(method, params) == Obj([method |-> Word(method), params |-> params])

\* send_event, send_response.
Tell(msg) == told' = Append(told, msg)

\* Mutant: an empty result is not sent.
ReplyIfAny(id, result) ==
    IF id <= 0 \/ result = Nothing THEN <<>>
    ELSE <<Obj([id |-> Num(id), result |-> result])>>

\* A request without an id, or with one that is not positive, gets no answer.
Reply(id, result) ==
    IF id <= 0 THEN <<>> ELSE <<Obj([id |-> Num(id), result |-> result])>>

\* The events a handler sends, then its result.
Answer(m, events, result) == todo' = events \o Reply(IntOf(Get(m, "id")), result)

-----------------------------------------------------------------------------
(* The server: handlers.  m is the message parsed.                         *)

\* Mutant: the path as the command line has it.
ScriptParsedRaw(i) ==
    Event("Debugger.scriptParsed",
          Obj([scriptId |-> Word(Decimal(i)), url |-> Str(Scripts[i])]))

ScriptParsed(i) ==
    Event("Debugger.scriptParsed",
          Obj([scriptId |-> Word(Decimal(i)), url |-> Str(ToFileUrl(Scripts[i]))]))

Enable(m) ==
    /\ Method(m) = <<"Debugger.enable">>
    /\ enabled' = TRUE
    /\ Answer(m, [i \in 1..Len(Scripts) |-> ScriptParsed(i)],
              Obj([debuggerId |-> Word("quickjs-debugger-1")]))
    /\ UNCHANGED <<table, due, js, pause, store>>

Disable(m) ==
    /\ Method(m) = <<"Debugger.disable">>
    /\ enabled' = FALSE
    /\ Answer(m, <<>>, Nothing)
    /\ UNCHANGED <<table, due, js, pause, store>>

BreakpointId(n, line) == Str(<<Decimal(n), ":", Decimal(line), ":", "0">>)

\* Mutant: the client's line is taken for the engine's.
EngineLineSame(line) == line

\* The client counts lines from 0.
EngineLine(line) == line + 1

NewBreakpoint(p) ==
    LET regex == ~Has(p, "url") /\ Has(p, "urlRegex")
    IN  [regex |-> regex,
         line  |-> EngineLine(IntOf(Get(p, "lineNumber"))),
         url   |-> IF regex THEN StrOf(Get(p, "urlRegex"))
                   ELSE Normalize(Strip(StrOf(Get(p, "url"))))]

\* The breakpoint's script, as it is answered.  (No script's name ends in a
\* slash.)
Resolved(bp) ==
    LET fits == {i \in 1..Len(Scripts) : Matches(setup.windows, Scripts[i], bp)}
    IN  Word(Decimal(IF fits = {} THEN 0 ELSE Min(fits)))

\* Mutant: the counter stays.
SetBreakpointSameId(m) ==
    /\ Method(m) = <<"Debugger.setBreakpointByUrl">>
    /\ breakpoints' = Put(breakpoints, next_bp_id, NewBreakpoint(Params(m)))
    /\ Answer(m, <<>>, Nothing)
    /\ UNCHANGED <<next_bp_id, enabled, active, due, js, pause, store>>

SetBreakpoint(m) ==
    LET bp   == NewBreakpoint(Params(m))
        line == IntOf(Get(Params(m), "lineNumber"))
    IN  /\ Method(m) = <<"Debugger.setBreakpointByUrl">>
        /\ breakpoints' = Put(breakpoints, next_bp_id, bp)
        /\ next_bp_id' = next_bp_id + 1
        /\ Answer(m, <<>>,
              Obj([breakpointId |-> BreakpointId(next_bp_id, line),
                   locations    |-> Arr(<<Obj([scriptId   |-> Resolved(bp),
                                               lineNumber |-> Num(line)])>>)]))
        /\ UNCHANGED <<enabled, active, due, js, pause, store>>

\* std::stoi takes the digits before the first colon.
RemoveBreakpoint(m) ==
    LET text == StrOf(Get(Params(m), "breakpointId"))
        id   == IF text = <<>> THEN 0 ELSE IntOf(Numeral(Head(text)))
    IN  /\ Method(m) = <<"Debugger.removeBreakpoint">>
        /\ breakpoints' = Restrict(breakpoints, DOMAIN breakpoints \ {id})
        /\ Answer(m, <<>>, Nothing)
        /\ UNCHANGED <<next_bp_id, enabled, active, due, js, pause, store>>

SetActive(m) ==
    /\ Method(m) = <<"Debugger.setBreakpointsActive">>
    /\ active' = IF Has(Params(m), "active") THEN Get(Params(m), "active") = Bool(TRUE) ELSE TRUE
    /\ Answer(m, <<>>, Nothing)
    /\ UNCHANGED <<breakpoints, next_bp_id, enabled, due, js, pause, store>>

\* resume and the steps withdraw a pause request.
Control(m) ==
    /\ Method(m) \in {<<c>> : c \in Steps \union {"Debugger.resume"}}
    /\ due' = (due \ {"pause", "step"}) \union
              (IF Method(m) \in {<<c>> : c \in Steps} THEN {"step"} ELSE {})
    /\ js' = IF js = "paused" THEN "released" ELSE js
    /\ Answer(m, <<>>, Nothing)
    /\ UNCHANGED <<enabled, table, pause, store>>

RequestPause(m) ==
    /\ Method(m) = <<"Debugger.pause">>
    /\ due' = due \union {"pause"}
    /\ Answer(m, <<>>, Nothing)
    /\ UNCHANGED <<enabled, table, js, pause, store>>

RunIfWaiting(m) ==
    /\ Method(m) = <<"Runtime.runIfWaitingForDebugger">>
    /\ due' = due \ {"step"}
    /\ js' = IF js = "gate" THEN "running" ELSE js
    /\ Answer(m, <<>>, Nothing)
    /\ UNCHANGED <<enabled, table, pause, store>>

Undefined == Obj([result |-> Obj([type |-> Word("undefined")])])

\* The JS thread evaluates while the handler waits for it.  (std::stoi of
\* something else gives level 0.)
Evaluate(m) ==
    LET p == Params(m)
        level == IF Has(p, "callFrameId") THEN IntOf(Numeral(Head(StrOf(p.o["callFrameId"])))) ELSE 0
        e == EvaluateOn(Stack(stop), level, StrOf(Get(p, "expression")), store)
    IN  /\ Method(m) = <<"Debugger.evaluateOnCallFrame">>
        /\ Answer(m, <<>>, IF js = "paused" THEN e.answer ELSE Undefined)
        /\ store' = IF js = "paused" THEN e.st ELSE store
        /\ Room(store')
        /\ UNCHANGED <<enabled, table, due, js, pause>>

\* on_debugger_get_possible_breakpoints: every line of the range, or the
\* first two.
Possible(p) ==
    LET from == Get(p, "start")
        first == IntOf(Get(from, "lineNumber"))
        last == IF Has(p, "end") THEN IntOf(Get(Get(p, "end"), "lineNumber")) ELSE first + 1
    IN  IF ~Has(p, "start") THEN <<>>
        ELSE [i \in 1..last - first + 1 |->
                 Obj([scriptId |-> Str(StrOf(Get(from, "scriptId"))),
                      lineNumber |-> Num(first + i - 1)])]

Context == Event("Runtime.executionContextCreated", Obj([context |-> Obj([id |-> Num(1)])]))

\* A script that is not known has no text.
ScriptSource(id) == IF \E i \in 1..Len(Scripts) : id = <<Decimal(i)>> THEN Source ELSE <<>>

\* The result of a request that changes nothing; of a stub, or of a method
\* that is not known, an empty one.
Result(m) ==
    LET p == Params(m)
    IN  CASE Method(m) = <<"Runtime.getProperties">> ->
                GetProperties(store, StrOf(Get(p, "objectId")))
          [] Method(m) = <<"Debugger.getScriptSource">> ->
                Obj([scriptSource |-> Str(ScriptSource(StrOf(Get(p, "scriptId"))))])
          [] Method(m) = <<"Debugger.getPossibleBreakpoints">> ->
                Obj([locations |-> Arr(Possible(p))])
          [] Method(m) \in {<<"Runtime.evaluate">>, <<"Runtime.callFunctionOn">>} -> Undefined
          [] Method(m) = <<"Runtime.getIsolateId">> -> Obj([id |-> Word("quickjs-isolate-1")])
          [] OTHER -> Nothing

Query(m) ==
    /\ Method(m) \notin {<<c>> : c \in Changing}
    /\ Answer(m, IF Method(m) = <<"Runtime.enable">> THEN <<Context>> ELSE <<>>, Result(m))
    /\ UNCHANGED session

\* receive and handle_message, when they have made m of the next message.  What
\* is not an object has neither a method nor an id, and so no effect.
Handle(m) ==
    /\ todo = <<>> /\ sent' = Tail(sent)
    /\ \/ Enable(m) \/ Disable(m) \/ SetBreakpoint(m) \/ RemoveBreakpoint(m)
       \/ SetActive(m) \/ Control(m) \/ RequestPause(m) \/ RunIfWaiting(m)
       \/ Evaluate(m) \/ Query(m)
    /\ UNCHANGED <<setup, told, client>>

SendNext ==
    /\ todo # <<>>
    /\ Tell(Head(todo))
    /\ todo' = Tail(todo)
    /\ UNCHANGED <<setup, sent, session, client>>

-----------------------------------------------------------------------------
(* The JS thread.                                                          *)

\* The breakpoints that a stop at snapshot s hits (conditions: TraceHandler).
Hits(s) ==
    LET top == Head(Stack(s))
    IN  {n \in DOMAIN breakpoints :
            /\ active /\ breakpoints[n].line = top.line
            /\ Matches(setup.windows, top.file, breakpoints[n])}

\* The reason the handler finds first, if it stops at s.  (Whether a step
\* ends there is decided in TraceHandler.)
Reasons(s) ==
    IF "pause" \in due THEN {"pause"}
    ELSE IF "entry" \in due THEN {"Break on start"}
    ELSE IF Hits(s) # {} THEN {"breakpoint"}
    ELSE IF "step" \in due THEN {"step"} ELSE {}

\* The breakpoint's id as the client was given it: the line of the stop is the
\* line of the breakpoint.
HitIds(s) == <<BreakpointId(Min(Hits(s)), Head(Stack(s)).line - 1)>>

Paused(callFrames, reason, hit) ==
    Event("Debugger.paused",
          Obj([callFrames |-> Arr(callFrames), reason |-> Word(reason), hitBreakpoints |-> Arr(hit)]))

\* Mutant: the frames of the pause before are kept.
StopStale ==
    /\ js = "running" /\ enabled /\ js' = "capturing"
    /\ \E s \in 1..Len(Snapshots) : \E reason \in Reasons(s) :
          /\ stop' = s /\ why' = <<reason, IF reason = "breakpoint" THEN HitIds(s) ELSE <<>>>>
          /\ due' = due \ (CASE reason = "pause" -> {"pause", "step"}
                             [] reason = "Break on start" -> {"entry", "step"}
                             [] OTHER -> {"step"})
    /\ store' = EmptyStore
    /\ UNCHANGED <<setup, sent, told, todo, enabled, table, frames, client>>

\* debug_trace_handler decides to stop; do_pause begins by dropping what was
\* captured before.
Stop ==
    /\ js = "running" /\ enabled /\ js' = "capturing"
    /\ \E s \in 1..Len(Snapshots) : \E reason \in Reasons(s) :
          /\ stop' = s /\ why' = <<reason, IF reason = "breakpoint" THEN HitIds(s) ELSE <<>>>>
          /\ due' = due \ (CASE reason = "pause" -> {"pause", "step"}
                             [] reason = "Break on start" -> {"entry", "step"}
                             [] OTHER -> {"step"})
    /\ frames' = <<>> /\ store' = EmptyStore
    /\ UNCHANGED <<setup, sent, told, todo, enabled, table, client>>

\* The next frame, from the innermost outwards.
CaptureFrame ==
    /\ js = "capturing" /\ Len(frames) < Len(Stack(stop))
    /\ \E c \in {CallFrame(setup.windows, Scripts, Stack(stop)[Len(frames) + 1], Len(frames),
                           Snapshots[stop].globals, store)} :
          frames' = Append(frames, c.frame) /\ store' = c.st /\ Room(c.st)
    /\ UNCHANGED <<setup, sent, told, todo, enabled, table, due, js, stop, why, client>>

\* paused_ is set, the client told, and the JS thread waits.
Pause ==
    /\ js = "capturing" /\ Len(frames) = Len(Stack(stop)) /\ js' = "paused"
    /\ Tell(Paused(frames, why[1], why[2]))
    /\ UNCHANGED <<setup, sent, todo, enabled, table, due, pause, store, client>>

\* do_pause goes on.
Resumed ==
    /\ js = "released" /\ js' = "running"
    /\ Tell(Event("Debugger.resumed", Nothing))
    /\ UNCHANGED <<setup, sent, todo, enabled, table, due, pause, store, client>>

-----------------------------------------------------------------------------
(* The client.                                                             *)

\* One request; known is what the client knows from then on.
Request(method, params, known) ==
    LET msg == Obj([id |-> Num(client.next), method |-> Word(method), params |-> params])
    IN  /\ client.next <= MaxRequests /\ Len(client.waiting) < MaxInFlight
        /\ sent' = Append(sent, msg)
        /\ client' = [known EXCEPT !.next = @ + 1, !.waiting = Append(@, msg)]
        /\ UNCHANGED <<setup, told, todo, session>>

AskToEnable ==
    /\ client.next = 1
    /\ Request("Debugger.enable", Nothing, client)

\* In a script by its URL, on Windows with the drive in either case, or by a
\* regular expression.
PlacesIn(url) ==
    {Obj([url |-> Str(u), lineNumber |-> Num(line)]) :
        u \in IF setup.windows THEN {url, Lower(url)} ELSE {url}, line \in Lines}
    \union
    {Obj([urlRegex |-> Str(re), lineNumber |-> Num(line)]) :
        re \in {re \in Regexes \ BadRegexes : Finds(re, url)}, line \in Lines}

AskToBreak ==
    \E id \in DOMAIN client.scripts : \E place \in PlacesIn(client.scripts[id]) :
        Request("Debugger.setBreakpointByUrl", place, client)

AskToRemove ==
    \E b \in DOMAIN client.bound :
        Request("Debugger.removeBreakpoint", Obj([breakpointId |-> Str(b)]), client)

AskToStop ==
    /\ client.next > 1 /\ client.frames = <<>>
    /\ \/ Request("Debugger.pause", Nothing, client)
       \/ Request("Debugger.setBreakpointsActive", Obj([active |-> Bool(FALSE)]), client)
       \/ Request("Debugger.disable", Nothing, client)

AskToRun ==
    /\ client.next > 1
    /\ Request("Runtime.runIfWaitingForDebugger", Nothing, client)

\* Ends the pause: its frames and ids are forgotten.
AskToResume ==
    /\ client.frames # <<>>
    /\ \E command \in {"Debugger.resume", "Debugger.stepOver"} :
          Request(command, Nothing,
                  [client EXCEPT !.frames = <<>>, !.hit = <<>>, !.watch = <<>>, !.list = <<>>])

AskForValue ==
    /\ client.frames # <<>>
    /\ \E e \in Expressions :
          Request("Debugger.evaluateOnCallFrame",
                  Obj([callFrameId |-> Word(Decimal(0)), expression |-> Str(e)]), client)

\* The ids of the frames' scopes.
ScopeIds(callFrames) ==
    UNION {LET scopes == callFrames[i].o["scopeChain"].a
           IN  {scopes[j].o["object"].o["objectId"].s : j \in 1..Len(scopes)}
           : i \in 1..Len(callFrames)}

AskForProperties ==
    \E oid \in ScopeIds(client.frames) :
        Request("Runtime.getProperties", Obj([objectId |-> Str(oid)]), client)

AskQuery ==
    /\ client.next > 1
    /\ \E i \in 1..Len(Queries) : Request(Queries[i].method, Queries[i].params, client)

\* What an event tells.
Heard(m) ==
    LET p == Params(m)
    IN  CASE Method(m) = <<"Debugger.scriptParsed">> ->
                [client EXCEPT !.scripts = Put(@, p.o["scriptId"].s, p.o["url"].s)]
          [] Method(m) = <<"Debugger.paused">> ->
                [client EXCEPT !.frames = p.o["callFrames"].a, !.hit = p.o["hitBreakpoints"].a]
          [] OTHER -> client

\* The place of the request an answer is for.
Asked(m) == Min({i \in 1..Len(client.waiting) :
                    Get(client.waiting[i], "id") = Get(m, "id")})

\* What an answer tells; those about a pause that is over tell nothing.
Learnt(m) ==
    LET q == client.waiting[Asked(m)]
        r == m.o["result"]
    IN  CASE Method(q) = <<"Debugger.setBreakpointByUrl">> ->
                [client EXCEPT !.bound =
                    Put(@, r.o["breakpointId"].s, [line   |-> Get(Params(q), "lineNumber"),
                                                   places |-> r.o["locations"].a])]
          [] Method(q) = <<"Debugger.evaluateOnCallFrame">> /\ client.frames # <<>> ->
                [client EXCEPT !.watch = <<StrOf(Get(Params(q), "expression")), r>>]
          [] Method(q) = <<"Runtime.getProperties">> /\ client.frames # <<>> ->
                [client EXCEPT !.list = <<StrOf(Get(Params(q), "objectId")), r.o["result"].a>>]
          [] OTHER -> client

\* The next message.  One the client cannot make out tells nothing; the request
\* it answers is given up.
Read(legible) ==
    /\ told' = Tail(told)
    /\ LET m == Head(told)
           known == IF ~legible THEN client ELSE IF Has(m, "id") THEN Learnt(m) ELSE Heard(m)
       IN  client' = [known EXCEPT !.waiting = IF Has(m, "id") THEN RemoveAt(@, Asked(m)) ELSE @]
    /\ UNCHANGED <<setup, sent, todo, session>>

\* An answer that holds values of the script.  Among them may be a number that
\* JSON cannot express; every other message can be read.
IsLook(q) == Method(q) \in {<<"Debugger.evaluateOnCallFrame">>, <<"Runtime.getProperties">>}
ShowsValues(m) == Has(m, "id") /\ IsLook(client.waiting[Asked(m)])

-----------------------------------------------------------------------------
HandleNext == sent # <<>> /\ Handle(Head(sent))
ReadNext ==
    /\ told # <<>>
    /\ \E legible \in BOOLEAN : (legible \/ ShowsValues(Head(told))) /\ Read(legible)

Ask == \/ AskToEnable \/ AskToBreak \/ AskToRemove \/ AskToStop \/ AskToRun \/ AskToResume
       \/ AskForValue \/ AskForProperties \/ AskQuery

Next ==
    \/ HandleNext \/ SendNext \/ Stop \/ CaptureFrame \/ Pause \/ Resumed
    \/ Ask \/ ReadNext

Spec == Init /\ [][Next]_vars

-----------------------------------------------------------------------------
(* Properties.                                                             *)

\* Types: breakpoints are under the ids handed out so far, and the store's ids
\* are exactly those below its counter (breakpoints_, next_bp_id_,
\* object_store_, next_obj_id_).
TypeOK ==
    /\ setup \in Setups
    /\ IsSeq(sent) /\ IsSeq(told) /\ IsSeq(todo) /\ IsSeq(frames)
    /\ DOMAIN client = {"next", "waiting", "scripts", "bound", "frames", "hit", "watch", "list"}
    /\ client.next \in 1..MaxRequests + 1 /\ IsSeq(client.waiting)
    /\ enabled \in BOOLEAN /\ active \in BOOLEAN
    /\ next_bp_id \in Nat \ {0} /\ DOMAIN breakpoints \subseteq 1..next_bp_id - 1
    /\ due \subseteq {"pause", "entry", "step"}
    /\ js \in {"gate", "running", "capturing", "paused", "released"}
    /\ stop \in 0..Len(Snapshots) /\ (js \in {"capturing", "paused"} => stop # 0)
    /\ store.next \in Nat \ {0}
    /\ DOMAIN store.objects = {ObjectId(i) : i \in 1..store.next - 1}
    /\ \A oid \in DOMAIN store.objects : store.objects[oid] = Arr(ArrOf(store.objects[oid]))

\* The messages that have an id, requests and answers, in their order.  (Not with
\* SelectSeq, which the provers do not know.)
Numbered(msgs) ==
    LET upTo[i \in 0..Len(msgs)] ==
            IF i = 0 THEN <<>>
            ELSE IF Has(msgs[i], "id") THEN Append(upTo[i - 1], msgs[i]) ELSE upTo[i - 1]
    IN  upTo[Len(msgs)]

IdsOf(msgs) == [i \in 1..Len(Numbered(msgs)) |-> Get(Numbered(msgs)[i], "id")]

\* Each request is answered once, and in order: what the client waits for is
\* under way, as an answer on the wire, as one still to be sent behind a
\* handler's events, or as a request (handle_message, send_response).
AnsweredInOrder == IdsOf(client.waiting) = IdsOf(told) \o IdsOf(todo) \o IdsOf(sent)

\* A frame's script was announced before it, under the same URL: the URL of
\* scriptParsed and that of a call frame are made in different places
\* (on_debugger_enable, capture_frames).
ScriptsAnnounced ==
    \A i \in 1..Len(client.frames) :
        LET f == client.frames[i].o
            id == f["location"].o["scriptId"].s
        IN  id \in DOMAIN client.scripts /\ f["url"] = Str(client.scripts[id])

\* The store as the client knows it: what it has got, else what it would get.
Seen ==
    IF client.list = <<>> THEN store
    ELSE [next |-> store.next, objects |-> Put(store.objects, client.list[1], Arr(client.list[2]))]

\* The answer r to evaluating e in the innermost frame is no error, and shows a
\* local variable there or what the engine evaluates e to.
ShowsWatch(st, e, r) ==
    ~Has(r, "exceptionDetails") =>
        \E x \in {Head(Stack(stop)).locals[j][2] : j \in 1..Len(Head(Stack(stop)).locals)}
              \union {Outcome(e)} : ShowsObject(st, Get(r, "result"), x)

\* While the client has the frames of a pause, following the ids in them leads
\* to the variables the engine reported there, and their fields, each under an
\* id of its own; an evaluated expression likewise, and evaluating adds to the
\* store without disturbing it (capture_frames, store_object, get_properties).
ObjectsResolve ==
    client.frames # <<>> =>
        /\ Len(client.frames) = Len(Stack(stop))
        /\ \A i \in 1..Len(Stack(stop)) :
              ShowsFrame(Seen, client.frames[i], Stack(stop)[i], Snapshots[stop].globals)
        /\ client.watch # <<>> => ShowsWatch(Seen, client.watch[1], client.watch[2])

\* A breakpoint set by an announced URL or a regular expression for it is
\* answered with that script and the line asked for, and where it stops the
\* script is exactly there; the id a stop reports was answered before, or its
\* answer is on its way (the event may overtake it: set_breakpoint_by_url,
\* check_breakpoint, do_pause).
BreakpointsBind ==
    /\ \A b \in DOMAIN client.bound :
          LET place == client.bound[b].places[1]
          IN  /\ Get(place, "lineNumber") = client.bound[b].line
              /\ Get(place, "scriptId").s \in DOMAIN client.scripts
    /\ client.hit # <<>> =>
          LET b == client.hit[1].s
          IN  IF b \in DOMAIN client.bound
              THEN client.frames[1].o["location"] = client.bound[b].places[1]
              ELSE \E i \in 1..Len(told \o todo) :
                      Get(Get((told \o todo)[i], "result"), "breakpointId") = Str(b)

-----------------------------------------------------------------------------
(* The invariant these properties follow from.                             *)

\* The answers under way, and what they answer: the requests the client waits
\* for are those answered, in that order, and then those still to be handled.
Answers == Numbered(told \o todo)

AnnouncedUrl == ToFileUrl(Scripts[1])
Place(line) == Obj([scriptId |-> Word(Decimal(1)), lineNumber |-> Num(line)])

Asks(q) ==
    /\ \E i \in 1..MaxRequests :
          q = Obj([id |-> Num(i), method |-> Get(q, "method"), params |-> Get(q, "params")])
    /\ Method(q) = <<"Debugger.setBreakpointByUrl">> => Params(q) \in PlacesIn(AnnouncedUrl)
    /\ Method(q) = <<"Debugger.evaluateOnCallFrame">> =>
          \E e \in Expressions :
              Params(q) = Obj([callFrameId |-> Word(Decimal(0)), expression |-> Str(e)])

Fits(a, q) ==
    /\ a = Obj([id |-> Get(q, "id"), result |-> Get(a, "result")])
    /\ Method(q) = <<"Debugger.setBreakpointByUrl">> =>
          \E n \in 1..next_bp_id - 1, line \in Lines :
              /\ Get(Params(q), "lineNumber") = Num(line)
              /\ Get(a, "result") = Obj([breakpointId |-> BreakpointId(n, line),
                                         locations    |-> Arr(<<Place(line)>>)])

Queued ==
    /\ Len(client.waiting) = Len(Answers) + Len(sent)
    /\ \A k \in 1..Len(client.waiting) : Asks(client.waiting[k])
    /\ \A k \in 1..Len(sent) : sent[k] = client.waiting[Len(Answers) + k]
    /\ \A k \in 1..Len(Answers) : Fits(Answers[k], client.waiting[k])

\* What is no answer is an event; the event of a pause is sent by the JS thread,
\* and is about the pause that lasts.
IsPaused(m) == Method(m) = <<"Debugger.paused">>
Events == {ScriptParsed(1), Context, Event("Debugger.resumed", Nothing)}

Reported ==
    /\ \A i \in 1..Len(todo) : Has(todo[i], "id") \/ todo[i] \in Events
    /\ \A i \in 1..Len(told) :
          \/ Has(told[i], "id") \/ told[i] \in Events
          \/ js = "paused" /\ told[i] = Paused(frames, why[1], why[2])

\* The script is announced before anything can stop it: the client's first
\* request is to enable the debugger, its answer begins with the announcement.
Unused ==
    /\ told = <<>> /\ breakpoints = <<>>
    /\ js \in {"gate", "running"} /\ (js = "running" => due = {})

Unaware == client.scripts = <<>> /\ client.bound = <<>> /\ client.frames = <<>>

Announced ==
    \/ Unused /\ Unaware /\ client.next = 1 /\ sent = <<>> /\ todo = <<>>
    \/ /\ Unused /\ Unaware /\ todo = <<>>
       /\ sent # <<>> /\ Method(Head(sent)) = <<"Debugger.enable">>
    \/ Unused /\ Unaware /\ todo # <<>> /\ Head(todo) = ScriptParsed(1)
    \/ Unaware /\ told # <<>> /\ Head(told) = ScriptParsed(1)
    \/ client.scripts = Put(<<>>, <<Decimal(1)>>, AnnouncedUrl)

\* A pause is on its way to the client, or the client has its frames, or the
\* command that ends it is on its way back.
IsControl(q) == Method(q) \in {<<c>> : c \in Steps \union {"Debugger.resume"}}
NoneTold == \A i \in 1..Len(told) : ~IsPaused(told[i])
NoneSent == \A i \in 1..Len(sent) : ~IsControl(sent[i])
ToldAt(i) == IsPaused(told[i]) /\ \A j \in 1..Len(told) : IsPaused(told[j]) => j = i
SentAt(i) == IsControl(sent[i]) /\ \A j \in 1..Len(sent) : IsControl(sent[j]) => j = i

PauseShared ==
    /\ client.frames = <<>> => client.hit = <<>> /\ client.watch = <<>> /\ client.list = <<>>
    /\ \/ js # "paused" /\ NoneTold /\ NoneSent /\ client.frames = <<>>
       \/ js = "paused" /\ (\E i \in 1..Len(told) : ToldAt(i)) /\ NoneSent /\ client.frames = <<>>
       \/ js = "paused" /\ NoneTold /\ (\E i \in 1..Len(sent) : SentAt(i)) /\ client.frames = <<>>
       \/ /\ js = "paused" /\ NoneTold /\ NoneSent
          /\ client.frames = frames /\ client.hit = why[2]

\* The frames captured are those of the stack, in the script announced.
Placed(callFrame, frame) ==
    /\ callFrame.o["location"] = Place(ZeroBased(frame.line))
    /\ callFrame.o["url"] = Str(AnnouncedUrl)

Captured ==
    /\ js \in {"capturing", "paused"} =>
          /\ stop # 0 /\ Len(frames) <= Len(Stack(stop))
          /\ \A i \in 1..Len(frames) : Placed(frames[i], Stack(stop)[i])
    /\ js = "paused" => Len(frames) = Len(Stack(stop))

\* A breakpoint's id is known to the client or on its way, with its line, and
\* so is the id a stop reports, with the line of the stop.
Issued(b) ==
    \/ b \in DOMAIN client.bound
    \/ \E k \in 1..Len(Answers) :
          /\ Method(client.waiting[k]) = <<"Debugger.setBreakpointByUrl">>
          /\ Get(Get(Answers[k], "result"), "breakpointId") = Str(b)

IssuedFor(n, line) == n \in 1..next_bp_id - 1 /\ Issued(BreakpointId(n, line).s)

Bound ==
    /\ \A n \in DOMAIN breakpoints :
          \E line \in Lines : breakpoints[n].line = line + 1 /\ IssuedFor(n, line)
    /\ js \in {"capturing", "paused"} /\ why[2] # <<>> =>
          \E n \in 1..next_bp_id - 1, line \in Lines :
              /\ why[2] = <<BreakpointId(n, line)>> /\ IssuedFor(n, line)
              /\ Head(Stack(stop)).line = line + 1
    /\ \A b \in DOMAIN client.bound :
          /\ client.scripts # <<>>
          /\ \E n \in 1..next_bp_id - 1, line \in Lines :
                /\ b = BreakpointId(n, line).s
                /\ client.bound[b] = [line |-> Num(line), places |-> <<Place(line)>>]

\* The client asks to look at a pause, and is answered, only while it lasts.
Before(i) == Len(Numbered(SubSeq(told, 1, i)))

Looking ==
    /\ js # "paused" =>
          \A k \in 1..Len(client.waiting) : IsLook(client.waiting[k]) => k <= Len(Numbered(told))
    /\ \A i \in 1..Len(told) : IsPaused(told[i]) =>
          \A k \in 1..Len(client.waiting) : IsLook(client.waiting[k]) => k <= Before(i)
    /\ \A i, j \in 1..Len(sent) : IsControl(sent[i]) /\ IsLook(sent[j]) => j < i

\* The frames captured show the stack in the store, and so does what the client
\* has been told since.
TrueAnswer(a, q) ==
    LET r == Get(a, "result")
    IN  /\ Method(q) = <<"Runtime.getProperties">> =>
              r = GetProperties(store, StrOf(Get(Params(q), "objectId")))
        /\ Method(q) = <<"Debugger.evaluateOnCallFrame">> =>
              ShowsWatch(store, StrOf(Get(Params(q), "expression")), r)

Shown ==
    /\ js \in {"capturing", "paused"} =>
          \A i \in 1..Len(frames) :
              ShowsFrame(store, frames[i], Stack(stop)[i], Snapshots[stop].globals)
    /\ client.frames # <<>> =>
          /\ \A k \in 1..Len(client.waiting) :
                Method(client.waiting[k]) = <<"Runtime.getProperties">> =>
                    StrOf(Get(Params(client.waiting[k]), "objectId")) \in DOMAIN store.objects
          /\ \A k \in 1..Len(Answers) : TrueAnswer(Answers[k], client.waiting[k])
          /\ client.watch # <<>> => ShowsWatch(store, client.watch[1], client.watch[2])
          /\ client.list # <<>> =>
                /\ client.list[1] \in DOMAIN store.objects
                /\ store.objects[client.list[1]] = Arr(client.list[2])

\* The two ends agree on the session: on the requests under way, the script, the
\* breakpoints, the pause and what is shown of it (handle_message, do_pause,
\* capture_frames).
SessionInvariant ==
    /\ Queued /\ Reported /\ Announced /\ PauseShared /\ Captured /\ Bound /\ Looking /\ Shown
=============================================================================
