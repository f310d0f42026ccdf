---------------------------- MODULE RemoteObjects ----------------------------
(***************************************************************************)
(* What the client sees of a pause: the values of the paused frames as     *)
(* RemoteObjects, the store their ids lead into, and the call frames       *)
(* (debugger/src/debug_session.cpp:391-664, 674-709, 721-776, 793-806).    *)
(*                                                                         *)
(* An engine value is a record: its kind k and, for what has more to it, v:*)
(* a number's text, a string, or the name of an object on Heap.  Of the    *)
(* messages the fields are kept that a client acts on; class names,        *)
(* descriptions, columns and property flags are left out, and so are       *)
(* getters, which are the subject of TraceHandler.                         *)
(***************************************************************************)
EXTENDS JsonValue, SourceUrl

CONSTANTS
    Heap,           \* function: an object -> its fields, pairs of name and value
    MaxProps,       \* elements and properties walked of a value: 100
    MaxGlobals,     \* global variables listed: 50
    Outcome(_)      \* what JS_Eval of an expression yields, or kind "throws"

IsSeq(s) == s \in Seq(Range(s))

\* The fields of an array or an object are on the heap.
OnHeap(x) == x.k \in {"array", "object"} => x.v \in DOMAIN Heap

ASSUME RemoteAssumption ==
    /\ MaxProps \in Nat /\ MaxGlobals \in Nat
    /\ \A x \in DOMAIN Heap :
          IsSeq(Heap[x]) /\ \A i \in 1..Len(Heap[x]) : OnHeap(Heap[x][i][2])

Objects == {"function", "array", "object"}      \* kinds that get an id

EmptyStore == [next |-> 1, objects |-> <<>>]

\* Bound: next_obj_id_, an int, does not run over.
Room(st) == st.next <= MaxInt

\* {"ordinal":N,"injectedScriptId":1}, itself a text.
ObjectId(n) == <<"{", "\"", "ordinal", "\"", ":", Decimal(n), ",",
                 "\"", "injectedScriptId", "\"", ":", "1", "}">>

\* Mutant: the counter is not advanced.
StoreObjectSame(st, props) ==
    [oid |-> ObjectId(st.next),
     st  |-> [next |-> st.next, objects |-> Put(st.objects, ObjectId(st.next), Arr(props))]]

\* store_object
StoreObject(st, props) ==
    [oid |-> ObjectId(st.next),
     st  |-> [next |-> st.next + 1, objects |-> Put(st.objects, ObjectId(st.next), Arr(props))]]

Prop(name, ro) == Obj([name |-> Word(name), value |-> ro])

\* The fields of an object that are walked; the index is an element's name.
Fields(x) == IF x.k \in {"array", "object"}
             THEN SubSeq(Heap[x.v], 1, Min({MaxProps, Len(Heap[x.v])})) ELSE <<>>

\* The type of a value, and a primitive's value.
Described(x) ==
    CASE x.k = "null"   -> [type |-> Word("object"), subtype |-> Word("null"), value |-> Null]
      [] x.k = "bool"   -> [type |-> Word("boolean"), value |-> Bool(x.v)]
      [] x.k = "number" -> [type |-> Word("number"), value |-> Numeral(x.v)]
      [] x.k = "string" -> [type |-> Word("string"), value |-> Str(x.v)]
      [] x.k = "array"  -> [type |-> Word("object"), subtype |-> Word("array")]
      [] OTHER          -> [type |-> Word(x.k)]

\* The RemoteObject of x whose fields have been converted to props: an object
\* is stored under a new id, an array with its length behind its elements.
Boxed(x, props, st) ==
    IF x.k \notin Objects THEN [ro |-> Obj(Described(x)), st |-> st]
    ELSE LET length == Prop("length", Obj([type  |-> Word("number"),
                                           value |-> Num(Len(Heap[x.v]))]))
             s == StoreObject(st, IF x.k = "array" THEN Append(props, length) ELSE props)
         IN  [ro |-> Obj(Put(Described(x), "objectId", Str(s.oid))), st |-> s.st]

\* Fields converted one after the other, each adding to the store.
ListedBy(fields, st, Convert(_, _)) ==
    LET upTo[i \in 0..Len(fields)] ==
            IF i = 0 THEN [props |-> <<>>, st |-> st]
            ELSE LET before == upTo[i - 1]
                     r == Convert(fields[i][2], before.st)
                 IN  [props |-> Append(before.props, Prop(fields[i][1], r.ro)), st |-> r.st]
    IN  upTo[Len(fields)]

\* js_value_to_remote_object: at the depth limit the fields are not walked; the
\* limit, kMaxRemoteObjectDepth, is 1.
Shell(x, st) == Boxed(x, <<>>, st)

RemoteObject(x, st) ==
    LET inner == ListedBy(Fields(x), st, Shell) IN Boxed(x, inner.props, inner.st)

-----------------------------------------------------------------------------
(* One frame of capture_frames: a file, a line and its local variables.     *)

\* A scope: its variables, converted and stored.
Scope(type, vars, st) ==
    LET inner == ListedBy(vars, st, RemoteObject)
        s == StoreObject(inner.st, inner.props)
    IN  [scope |-> Obj([type   |-> Word(type),
                        object |-> Obj([type |-> Word("object"), objectId |-> Str(s.oid)])]),
         st |-> s.st]

ZeroBased(line) == IF line > 0 THEN line - 1 ELSE 0

ScriptId(windows, scripts, file) == Word(Decimal(FindScript(windows, scripts, file)))

\* The frame at a level, 0 the innermost; no local scope without variables.
CallFrame(windows, scripts, frame, level, globals, st) ==
    LET local  == IF frame.locals = <<>> THEN [scopes |-> <<>>, st |-> st]
                  ELSE LET s == Scope("local", frame.locals, st)
                       IN  [scopes |-> <<s.scope>>, st |-> s.st]
        global == Scope("global", SubSeq(globals, 1, Min({MaxGlobals, Len(globals)})), local.st)
    IN  [frame |-> Obj([callFrameId |-> Word(Decimal(level)),
                        location    |-> Obj([scriptId   |-> ScriptId(windows, scripts, frame.file),
                                             lineNumber |-> Num(ZeroBased(frame.line))]),
                        url         |-> Str(ToFileUrl(frame.file)),
                        scopeChain  |-> Arr(Append(local.scopes, global.scope))]),
         st |-> global.st]

\* get_properties: an id that is not stored has no properties.
GetProperties(st, oid) ==
    Obj([result |-> IF oid \in DOMAIN st.objects THEN st.objects[oid] ELSE Arr(<<>>)])

\* An evaluate request: the frame's first local of that name, else JS_Eval.
EvaluateOn(stack, level, expression, st) ==
    LET locals == IF level < Len(stack) THEN stack[level + 1].locals ELSE <<>>
        named  == {i \in 1..Len(locals) : <<locals[i][1]>> = expression}
        value  == IF named # {} THEN locals[Min(named)][2] ELSE Outcome(expression)
        r      == RemoteObject(value, st)
    IN  IF value.k = "throws"
        THEN [answer |-> Obj([result |-> Obj([type    |-> Word("object"),
                                              subtype |-> Word("error")]),
                              exceptionDetails |-> Obj(<<>>)]),
              st |-> st]
        ELSE [answer |-> Obj([result |-> r.ro]), st |-> r.st]

-----------------------------------------------------------------------------
(* What it means to show a value: following ids through the store st leads *)
(* to it.                                                                  *)

PropertiesOf(st, oid) == ArrOf(GetProperties(st, oid).o["result"])

\* A value by its type, a primitive one by its value, an object by an id ...
ShowsValue(st, ro, x) ==
    /\ Get(ro, "type") = Word(CASE x.k \in {"null", "array", "object"} -> "object"
                                [] x.k = "bool" -> "boolean"
                                [] OTHER -> x.k)
    /\ x.k = "number" => Get(ro, "value") = Numeral(x.v)
    /\ x.k = "string" => Get(ro, "value") = Str(x.v)
    /\ x.k = "bool" => Get(ro, "value") = Bool(x.v)
    /\ x.k \in Objects => Has(ro, "objectId") /\ ro.o["objectId"].s \in DOMAIN st.objects

ShowsFields(st, props, fields) ==
    /\ Len(props) >= Len(fields)
    /\ \A i \in 1..Len(fields) : /\ props[i].o["name"] = Word(fields[i][1])
                                 /\ ShowsValue(st, props[i].o["value"], fields[i][2])

\* ... under which its fields are found.
ShowsObject(st, ro, x) ==
    /\ ShowsValue(st, ro, x)
    /\ x.k \in Objects =>
          LET props == PropertiesOf(st, ro.o["objectId"].s)
          IN  /\ Len(props) = Len(Fields(x)) + (IF x.k = "array" THEN 1 ELSE 0)
              /\ ShowsFields(st, props, Fields(x))

ShowsVariables(st, props, vars) ==
    /\ Len(props) = Len(vars)
    /\ \A i \in 1..Len(vars) : /\ props[i].o["name"] = Word(vars[i][1])
                               /\ ShowsObject(st, props[i].o["value"], vars[i][2])

ShowsScope(st, scope, vars) ==
    LET oid == scope.o["object"].o["objectId"].s
    IN  oid \in DOMAIN st.objects /\ ShowsVariables(st, PropertiesOf(st, oid), vars)

\* A call frame: its local variables, if it has any, and the global ones.
ShowsFrame(st, callFrame, frame, globals) ==
    LET scopes == callFrame.o["scopeChain"].a
    IN  /\ Len(scopes) = IF frame.locals = <<>> THEN 1 ELSE 2
        /\ frame.locals # <<>> => ShowsScope(st, scopes[1], frame.locals)
        /\ ShowsScope(st, scopes[Len(scopes)], SubSeq(globals, 1, Min({MaxGlobals, Len(globals)})))
=============================================================================
