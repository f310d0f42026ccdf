------------------------------ MODULE JsonText ------------------------------
(***************************************************************************)
(* The JSON texts the two ends exchange (debugger/src/json.h): the text    *)
(* serialize writes, the value parse makes of a text, and, as the other    *)
(* end reads it, what RFC 8259 calls a text of a value.                    *)
(*                                                                         *)
(* A text is a sequence of characters.  A word, a number's text and the    *)
(* four digits of a \u escape count as one character each: the code scans  *)
(* them in one go.  A key is one word.                                     *)
(***************************************************************************)
EXTENDS JsonValue

CONSTANTS
    Numerals,   \* texts of numbers
    Letter,     \* function: characters with an escape letter -> that letter
    Hex,        \* function: the other control characters -> their \u digits
    Code,       \* function: characters a client may write as \u -> the digits
    KeyOrder    \* the keys in the order of a std::map

ASSUME JsonAssumption ==
    /\ DOMAIN Letter \intersect DOMAIN Hex = {}
    /\ {"\"", "\\"} \subseteq DOMAIN Letter
    /\ IsInjective(Letter) /\ "u" \notin Range(Letter)
    /\ IsInjective(Code) /\ \A c \in DOMAIN Hex : c \in DOMAIN Code /\ Code[c] = Hex[c]
    /\ IsInjective(KeyOrder)

-----------------------------------------------------------------------------
(* Writing.  A style is the blank put after a colon or a comma and the     *)
(* escape of some characters; the others stand for themselves.             *)

\* Mutant: control characters that have no letter are written as they are.
EscapedByLetter == [c \in DOMAIN Letter |-> <<"\\", Letter[c]>>]

\* The escapes of serialize_to.
Escaped == [c \in DOMAIN Letter \union DOMAIN Hex |->
               IF c \in DOMAIN Letter THEN <<"\\", Letter[c]>> ELSE <<"\\", "u", Hex[c]>>]

Own == [gap |-> <<>>, escape |-> Escaped]

Quoted(s, style) ==
    <<"\"">> \o
    FlattenSeq([i \in 1..Len(s) |->
        IF s[i] \in DOMAIN style.escape THEN style.escape[s[i]] ELSE <<s[i]>>]) \o
    <<"\"">>

Separated(parts, style) ==
    FlattenSeq([i \in 1..Len(parts) |->
        IF i = 1 THEN parts[i] ELSE <<",">> \o style.gap \o parts[i]])

RECURSIVE Text(_, _)
Text(v, style) ==
    CASE v.t = "null"   -> <<"null">>
      [] v.t = "bool"   -> <<IF v.b THEN "true" ELSE "false">>
      [] v.t = "number" -> <<v.n>>
      [] v.t = "string" -> Quoted(v.s, style)
      [] v.t = "array"  ->
            <<"[">> \o Separated([i \in 1..Len(v.a) |-> Text(v.a[i], style)], style) \o <<"]">>
      [] v.t = "object" ->
            LET keys == SelectSeq(KeyOrder, LAMBDA k : k \in DOMAIN v.o)
                member(k) == Quoted(<<k>>, style) \o <<":">> \o style.gap \o Text(v.o[k], style)
            IN  <<"{">> \o Separated([i \in 1..Len(keys) |-> member(keys[i])], style) \o <<"}">>

Serialize(v) == Text(v, Own)

-----------------------------------------------------------------------------
(* Parsing, as json.h does it: each step is given a position and returns a *)
(* value and the position after it.  What is missing is passed over.       *)

\* Mutant: a tab is no blank.
BlankWithoutTab == {" ", "\n", "\r"}

Blank == {" ", "\n", "\t", "\r"}

\* The character at p; none behind the end.
At(s, p) == IF p <= Len(s) THEN s[p] ELSE ""

RECURSIVE SkipWs(_, _)
SkipWs(s, p) == IF At(s, p) \in Blank THEN SkipWs(s, p + 1) ELSE p

\* Past the closing bracket, if it is there.
Closed(s, p, c) == LET q == SkipWs(s, p) IN IF At(s, q) = c THEN q + 1 ELSE q

\* Mutant: the escape letters stand for themselves.
UnescapeLiteral(e) == e

\* The character an escape letter stands for; "/" and unknown ones themselves.
Unescape(e) ==
    IF e \in Range(Letter) THEN CHOOSE c \in DOMAIN Letter : Letter[c] = e ELSE e

\* The rest of a string, to its closing quote.  (std::stoul throws on digits
\* that are none; no client's escape has such.)
RECURSIVE ParseChars(_, _, _)
ParseChars(s, p, r) ==
    LET c == At(s, p)
        e == At(s, p + 1)
    IN  CASE c = ""   -> [v |-> r, p |-> p]
          [] c = "\"" -> [v |-> r, p |-> p + 1]
          [] c = "\\" ->
                IF e = "" THEN [v |-> r, p |-> p + 1]
                ELSE IF e # "u" THEN ParseChars(s, p + 2, Append(r, Unescape(e)))
                ELSE IF At(s, p + 2) = "" THEN ParseChars(s, p + 2, r)
                ELSE ParseChars(s, p + 3,
                        Append(r, CHOOSE x \in DOMAIN Code : Code[x] = At(s, p + 2)))
          [] OTHER    -> ParseChars(s, p + 1, Append(r, c))

RECURSIVE ParseValue(_, _), ParseMembers(_, _, _), ParseElements(_, _, _)

\* std::stod throws on anything else, which ends the process.
ParseNumber(s, p) ==
    [v |-> IF s[p] \in Numerals THEN Numeral(s[p]) ELSE [t |-> "thrown"], p |-> p + 1]

ParseValue(s, start) ==
    LET p == SkipWs(s, start)
        c == At(s, p)
        inside == SkipWs(s, p + 1)
    IN  CASE c = ""     -> [v |-> Null, p |-> p]
          [] c = "\""   -> LET r == ParseChars(s, p + 1, <<>>) IN [v |-> Str(r.v), p |-> r.p]
          [] c = "{"    -> IF At(s, inside) = "}" THEN [v |-> Obj(<<>>), p |-> inside + 1]
                           ELSE ParseMembers(s, inside, <<>>)
          [] c = "["    -> IF At(s, inside) = "]" THEN [v |-> Arr(<<>>), p |-> inside + 1]
                           ELSE ParseElements(s, inside, <<>>)
          [] c \in {"true", "false"} -> [v |-> Bool(c = "true"), p |-> p + 1]
          [] c = "null" -> [v |-> Null, p |-> p + 1]
          [] OTHER      -> ParseNumber(s, p)

\* A later member overrides an earlier one of the same key.
ParseMembers(s, start, o) ==
    LET p == SkipWs(s, start)
    IN  IF At(s, p) # "\"" THEN [v |-> Obj(o), p |-> Closed(s, p, "}")]
        ELSE LET key  == ParseChars(s, p + 1, <<>>)
                 val  == ParseValue(s, Closed(s, key.p, ":"))
                 next == SkipWs(s, val.p)
                 more == Put(o, Head(key.v), val.v)
             IN  IF At(s, next) = "," THEN ParseMembers(s, next + 1, more)
                 ELSE [v |-> Obj(more), p |-> Closed(s, next, "}")]

ParseElements(s, start, a) ==
    IF start > Len(s) THEN [v |-> Arr(a), p |-> start]
    ELSE LET val  == ParseValue(s, start)
             next == SkipWs(s, val.p)
         IN  IF At(s, next) = "," THEN ParseElements(s, next + 1, Append(a, val.v))
             ELSE [v |-> Arr(Append(a, val.v)), p |-> Closed(s, next, "]")]

Parse(s) == ParseValue(s, 1).v

-----------------------------------------------------------------------------
(* RFC 8259, as the other end applies it.                                  *)

\* The positions behind character c, for each position in P.
Past(s, P, c) == {p + 1 : p \in {q \in P : At(s, q) = c}}

\* ... behind a string, each character as it is or escaped.
PastString(s, P, chars) ==
    LET one(Q, c) ==
            (IF c \in DOMAIN Letter \union DOMAIN Hex THEN {} ELSE Past(s, Q, c))
            \union (IF c \in DOMAIN Letter THEN Past(s, Past(s, Q, "\\"), Letter[c]) ELSE {})
            \union (IF c \in DOMAIN Code
                    THEN Past(s, Past(s, Past(s, Q, "\\"), "u"), Code[c]) ELSE {})
    IN  Past(s, FoldLeft(one, Past(s, P, "\""), chars), "\"")

\* ... behind a text of value v.  A number that has no numeral has no text.
RECURSIVE PastValue(_, _, _), PastMembers(_, _, _)
PastValue(s, P, v) ==
    CASE v.t = "null"   -> Past(s, P, "null")
      [] v.t = "bool"   -> Past(s, P, IF v.b THEN "true" ELSE "false")
      [] v.t = "number" -> IF v.n \in Numerals THEN Past(s, P, v.n) ELSE {}
      [] v.t = "string" -> PastString(s, P, v.s)
      [] v.t = "array"  ->
            LET element(Q, i) == PastValue(s, IF i = 1 THEN Q ELSE Past(s, Q, ","), v.a[i])
            IN  Past(s, FoldLeft(element, Past(s, P, "["), [i \in 1..Len(v.a) |-> i]), "]")
      [] v.t = "object" ->
            IF DOMAIN v.o = {} THEN Past(s, Past(s, P, "{"), "}")
            ELSE PastMembers(s, Past(s, P, "{"), v.o)

\* The members may come in any order.
PastMembers(s, P, o) ==
    UNION {LET key  == PastString(s, P, <<k>>)
               val  == IF key = {} THEN {} ELSE PastValue(s, Past(s, key, ":"), o[k])
               rest == [x \in DOMAIN o \ {k} |-> o[x]]
           IN  CASE val = {}  -> {}
                 [] val # {} /\ DOMAIN rest = {} -> Past(s, val, "}")
                 [] OTHER     -> PastMembers(s, Past(s, val, ","), rest)
           : k \in DOMAIN o}

\* (The session writes no blanks, so none are passed over here.)
IsTextOf(s, v) == Len(s) + 1 \in PastValue(s, {1}, v)
=============================================================================
