----------------------------- MODULE JsonValue -----------------------------
(***************************************************************************)
(* JSON values and how the handlers read them (debugger/src/json.h:17-94). *)
(* Their texts are the subject of JsonText.                                *)
(***************************************************************************)
EXTENDS Integers, SequencesExt

CONSTANTS
    MaxInt,         \* bound: the greatest int that is converted, INT_MAX
    Decimal(_)      \* std::to_string of an int

ASSUME ValueAssumption ==
    /\ MaxInt \in Nat
    /\ \A i, j \in 0..MaxInt : Decimal(i) = Decimal(j) => i = j

\* f with value v under key k: an assignment to map[k].
Put(f, k, v) == [x \in DOMAIN f \union {k} |-> IF x = k THEN v ELSE f[x]]

Null == [t |-> "null"]
Bool(b) == [t |-> "bool", b |-> b]
Numeral(text) == [t |-> "number", n |-> text]
Num(i) == Numeral(Decimal(i))
Str(s) == [t |-> "string", s |-> s]
Word(w) == Str(<<w>>)
Arr(a) == [t |-> "array", a |-> a]
Obj(o) == [t |-> "object", o |-> o]

\* operator[] of a constant value, has, get_string, get_array, get_int: a value
\* of another type has none.
Has(v, k) == v.t = "object" /\ k \in DOMAIN v.o
Get(v, k) == IF Has(v, k) THEN v.o[k] ELSE Null
StrOf(v) == IF v.t = "string" THEN v.s ELSE <<>>
ArrOf(v) == IF v.t = "array" THEN v.a ELSE <<>>
IntOf(v) == IF v.t = "number" THEN CHOOSE i \in 0..MaxInt : Decimal(i) = v.n ELSE 0
=============================================================================
