---------------------------- MODULE MCInspection ----------------------------
(***************************************************************************)
(* A script of a few lines: on a Windows host, waiting for its debugger, and*)
(* on a POSIX host, running; the client's texts with blanks, and with what  *)
(* can be escaped escaped.                                                  *)
(***************************************************************************)
EXTENDS Wire, Bitwise

Control1 == "U+0001"    \* a control character without an escape letter

Keys == <<"active", "breakpointId", "callFrameId", "callFrames", "context", "debuggerId",
          "exceptionDetails", "expression", "hitBreakpoints", "id", "lineNumber", "location",
          "locations", "method", "name", "object", "objectId", "params", "reason", "result",
          "scopeChain", "scriptId", "scriptSource", "start", "subtype", "type", "url",
          "urlRegex", "value">>

Digits == <<"0", "1", "2", "3", "4", "5", "6", "7", "8", "9", "10", "11", "12", "13", "14", "15", "16", "17", "18",
            "19", "20">>

Commands == <<"Debugger.enable", "Debugger.disable", "Debugger.setBreakpointByUrl",
              "Debugger.removeBreakpoint", "Debugger.setBreakpointsActive", "Debugger.resume",
              "Debugger.stepOver", "Debugger.pause", "Debugger.evaluateOnCallFrame",
              "Debugger.getScriptSource", "Debugger.getPossibleBreakpoints",
              "Runtime.enable", "Runtime.getProperties", "Runtime.runIfWaitingForDebugger",
              "Runtime.callFunctionOn", "Runtime.getIsolateId", "Network.enable",
              "Debugger.scriptParsed", "Debugger.paused", "Debugger.resumed",
              "Runtime.executionContextCreated">>

Words == <<"null", "true", "false", "nan", "undefined", "boolean", "number", "string", "array",
           "function", "error", "local", "global", "pause", "Break on start", "breakpoint",
           "step", "length", "ordinal", "injectedScriptId", "quickjs-debugger-1",
           "quickjs-isolate-1", "file:", "c", "C", "app", "main", ".js", "main[.]js",
           "a", "o", "s", "f", "x">>

Punctuation == <<"{", "}", "[", "]", ":", ",", "\"", "\\", "/", " ", "\n", "n", "t", "\t", "u",
                 "0001", "000a", Control1>>

Chars == Keys \o Digits \o Commands \o Words \o Punctuation

Nums == Range(Digits)
DecimalOf(i) == ToString(i)
Letters == ("\"" :> "\"") @@ ("\\" :> "\\") @@ ("\n" :> "n") @@ ("\t" :> "t")
Hexes == Control1 :> "0001"
Codes == (Control1 :> "0001") @@ ("\n" :> "000a")

XorTable == [b \in 0..127 |-> [k \in 0..127 |-> b ^^ k]]
XorOf(b, k) == XorTable[b][k]

-----------------------------------------------------------------------------
Windows == <<"C", ":", "\\", "app", "\\", "main", ".js">>
Posix == <<"/", "app", "/", "main", ".js">>
Lowers == "C" :> "c"
DriveLetters == {"C", "c"}
Patterns == {<<"main[.]js">>}
FindsOf(re, name) == re = <<"main[.]js">> /\ HasPart(name, <<"main", ".js">>)

Spaced == [gap |-> <<" ">>, escape |-> Escaped]
Coded == [gap |-> <<"\n", "\t">>,
          escape |-> [c \in DOMAIN Escaped \union {"/"} |->
                         CASE c = "/" -> <<"\\", "/">>
                           [] c \in DOMAIN Codes -> <<"\\", "u", Codes[c]>>
                           [] OTHER -> Escaped[c]]]

Sessions ==
    {[windows |-> TRUE, path |-> Windows, brk |-> TRUE, style |-> Spaced, mask |-> <<1, 2, 100, 127>>],
     [windows |-> FALSE, path |-> Posix, brk |-> FALSE, style |-> Coded, mask |-> <<127, 1, 0, 100>>]}

-----------------------------------------------------------------------------
Text1 == <<"a", "\n", "\"", Control1, "\\">>
Number5 == [k |-> "number", v |-> "5"]
String == [k |-> "string", v |-> Text1]
Graph == ("o1" :> <<<<"a", Number5>>, <<"o", [k |-> "array", v |-> "o2"]>>, <<"s", String>>>>) @@
         ("o2" :> <<<<"0", String>>, <<"1", [k |-> "object", v |-> "o1"]>>>>)

Frame(line, locals) == [line |-> line, locals |-> locals]
Globals == <<<<"o", [k |-> "object", v |-> "o1"]>>, <<"f", [k |-> "function", v |-> "o3"]>>>>
Statements ==
    <<[stack |-> <<Frame(2, <<<<"a", [k |-> "array", v |-> "o2"]>>>>), Frame(4, <<>>)>>,
       globals |-> Globals],
      [stack |-> <<Frame(1, <<>>)>>, globals |-> <<>>],
      [stack |-> <<Frame(4, <<<<"x", [k |-> "number", v |-> "nan"]>>>>)>>,
       globals |-> <<>>]>>

\* Long enough for the longest form of a frame.
Long == <<"s", "\n">> \o [i \in 1..120 |-> "x"]
Evaluated(e) == IF e = Long THEN String ELSE [k |-> "throws"]

AskedLines == {1}
Typed == {<<"a">>, <<"f">>, Long}
Program == Text1 \o <<"\t", "/", "x">>

Other ==
    <<[method |-> "Runtime.enable", params |-> Obj(<<>>)],
      [method |-> "Debugger.getScriptSource", params |-> Obj([scriptId |-> Word("1")])],
      [method |-> "Debugger.getPossibleBreakpoints",
       params |-> Obj([start |-> Obj([scriptId |-> Word("1"), lineNumber |-> Num(0)])])]>>
=============================================================================
