-------------------------- MODULE InspectionProofs --------------------------
(***************************************************************************)
(* The debugger and its client agree on the session (Inspection), for      *)
(* every script, program state, list of requests and choice of names that  *)
(* the constants allow.                                                    *)
(*                                                                         *)
(* SessionInvariant is inductive together with TypeOK.  It is proved part  *)
(* by part, each part from those before it:                                *)
(*                                                                         *)
(*   Core     the types, the queues, the reports under way, the script     *)
(*            announced, the pause shared and the frames captured need     *)
(*            one another to be kept                                       *)
(*   Bound    the breakpoints need Core, for the script and for the        *)
(*            answer that is read to be the one to its request             *)
(*   Looking  the looks at a pause need Core, for a command to be the only *)
(*            one that ends it                                             *)
(*   Shown    what is shown needs Core and Looking, for an answer to be    *)
(*            about the store of the pause it is read in                   *)
(*                                                                         *)
(* A step is taken apart into what it does to the queues (HandleEffect,    *)
(* AskEffect, ReadEffect, CaptureEffect), so that each part is proved kept *)
(* from what the step does to the little that it is about.                 *)
(***************************************************************************)
EXTENDS Inspection, SourceUrlProofs, SequenceTheorems, WellFoundedInduction, TLAPS
-----------------------------------------------------------------------------
(* Sequences.                                                              *)

\* A sequence is the function of its elements.
LEMMA SeqIs ==
    ASSUME NEW s, IsSeq(s)
    PROVE  /\ s \in Seq(Range(s)) /\ Len(s) \in Nat /\ DOMAIN s = 1..Len(s)
           /\ \A i \in 1..Len(s) : s[i] \in Range(s)
           /\ s # <<>> <=> Len(s) > 0
  BY DEF IsSeq, Range

\* ... and every function of 1..n is a sequence.
LEMMA IsSeqOf ==
    ASSUME NEW n \in Nat, NEW s, s = [i \in 1..n |-> s[i]]
    PROVE  IsSeq(s) /\ Len(s) = n
<1>1. DOMAIN s = 1..n
  OBVIOUS
<1>2. \A i \in 1..n : s[i] \in Range(s)
  BY <1>1 DEF Range
<1>3. s \in [1..n -> Range(s)]
  BY <1>2
<1> QED
  BY <1>3 DEF IsSeq

\* A sequence over any set is one in the sense of IsSeq.
LEMMA InSeq ==
    ASSUME NEW S, NEW s \in Seq(S)
    PROVE  IsSeq(s)
<1>1. Len(s) \in Nat /\ s = [i \in 1..Len(s) |-> s[i]]
  OBVIOUS
<1> QED
  BY <1>1, IsSeqOf

\* The empty sequence.
LEMMA EmptyIs == IsSeq(<<>>) /\ Len(<<>>) = 0
  BY DEF IsSeq

\* Sequences over one set with the same elements are equal.
LEMMA SameElements ==
    ASSUME NEW S, NEW s \in Seq(S), NEW t \in Seq(S), Len(s) = Len(t),
           \A i \in 1..Len(s) : s[i] = t[i]
    PROVE  s = t
  OBVIOUS

\* Sequences with the same elements are equal, whatever they are over.
LEMMA SameSequence ==
    ASSUME NEW s, NEW t, IsSeq(s), IsSeq(t), Len(s) = Len(t), \A i \in 1..Len(s) : s[i] = t[i]
    PROVE  s = t
<1> DEFINE S == Range(s) \union Range(t)
<1>1. Len(s) \in Nat /\ s = [i \in 1..Len(s) |-> s[i]] /\ \A i \in 1..Len(s) : s[i] \in S
  BY SeqIs
<1>2. Len(t) \in Nat /\ t = [i \in 1..Len(t) |-> t[i]] /\ \A i \in 1..Len(t) : t[i] \in S
  BY SeqIs
<1>3. s \in Seq(S) /\ t \in Seq(S)
  BY <1>1, <1>2
<1>4. \A U : s \in Seq(U) /\ t \in Seq(U) => s = t
  BY SameElements
<1>5. s = t
  BY <1>3, <1>4
<1> QED
  BY <1>5

\* The elements of a sequence with one more.
LEMMA AppendIs ==
    ASSUME NEW s, NEW x, IsSeq(s)
    PROVE  /\ IsSeq(Append(s, x)) /\ Len(Append(s, x)) = Len(s) + 1
           /\ \A i \in 1..Len(s) : Append(s, x)[i] = s[i]
           /\ Append(s, x)[Len(s) + 1] = x
<1> DEFINE S == Range(s) \union {x}
<1>1. s \in Seq(S)
  <2>1. Len(s) \in Nat /\ s = [i \in 1..Len(s) |-> s[i]] /\ \A i \in 1..Len(s) : s[i] \in S
    BY SeqIs
  <2> QED
    BY <2>1
<1>2. x \in S
  OBVIOUS
<1> HIDE DEF S
<1>3. /\ Append(s, x) \in Seq(S) /\ Len(Append(s, x)) = Len(s) + 1
      /\ \A i \in 1..Len(s) : Append(s, x)[i] = s[i]
      /\ Append(s, x)[Len(s) + 1] = x
  BY <1>1, <1>2, AppendProperties
<1> QED
  BY <1>3, InSeq

\* The elements of a sequence but the first.
LEMMA TailIs ==
    ASSUME NEW s, IsSeq(s), s # <<>>
    PROVE  /\ IsSeq(Tail(s)) /\ Len(s) >= 1 /\ Len(Tail(s)) = Len(s) - 1
           /\ Head(s) = s[1]
           /\ \A i \in 1..Len(s) - 1 : Tail(s)[i] = s[i + 1]
<1>1. s \in Seq(Range(s))
  BY DEF IsSeq
<1> DEFINE S == Range(s)
<1>2. s \in Seq(S)
  BY <1>1
<1> HIDE DEF S
<1>3. /\ Tail(s) \in Seq(S) /\ Len(s) >= 1 /\ Len(Tail(s)) = Len(s) - 1 /\ Head(s) = s[1]
      /\ \A i \in 1..Len(s) - 1 : Tail(s)[i] = s[i + 1]
  BY <1>2
<1> QED
  BY <1>3, InSeq

\* The elements of two sequences, one after the other.
LEMMA ConcatIs ==
    ASSUME NEW s, NEW t, IsSeq(s), IsSeq(t)
    PROVE  /\ IsSeq(s \o t) /\ Len(s \o t) = Len(s) + Len(t)
           /\ \A i \in 1..Len(s) : (s \o t)[i] = s[i]
           /\ \A i \in 1..Len(t) : (s \o t)[Len(s) + i] = t[i]
<1> DEFINE S == Range(s) \union Range(t)
<1>1. s \in Seq(S) /\ t \in Seq(S)
  <2>1. Len(s) \in Nat /\ s = [i \in 1..Len(s) |-> s[i]] /\ \A i \in 1..Len(s) : s[i] \in S
    BY SeqIs
  <2>2. Len(t) \in Nat /\ t = [i \in 1..Len(t) |-> t[i]] /\ \A i \in 1..Len(t) : t[i] \in S
    BY SeqIs
  <2> QED
    BY <2>1, <2>2
<1> HIDE DEF S
<1>2. /\ s \o t \in Seq(S) /\ Len(s \o t) = Len(s) + Len(t)
      /\ \A i \in 1..Len(s) + Len(t) : (s \o t)[i] = IF i <= Len(s) THEN s[i] ELSE t[i - Len(s)]
  BY <1>1, ConcatProperties, LenProperties
<1>3. Len(s) \in Nat /\ Len(t) \in Nat
  BY SeqIs
<1>4. ASSUME NEW i \in 1..Len(t)
      PROVE  (s \o t)[Len(s) + i] = t[i]
  <2>1. Len(s) + i \in 1..Len(s) + Len(t) /\ ~(Len(s) + i <= Len(s)) /\ Len(s) + i - Len(s) = i
    BY <1>3
  <2> QED
    BY <1>2, <2>1
<1>5. ASSUME NEW i \in 1..Len(s)
      PROVE  (s \o t)[i] = s[i]
  <2>1. i \in 1..Len(s) + Len(t) /\ i <= Len(s)
    BY <1>3
  <2> QED
    BY <1>2, <2>1
<1> QED
  BY <1>2, <1>4, <1>5, InSeq

-----------------------------------------------------------------------------
(* The messages that have an id.                                           *)

\* The least of a set of naturals is one of them, and below the others.
LEMMA LeastOf ==
    ASSUME NEW T \in SUBSET Nat, T # {}
    PROVE  Min(T) \in T /\ \A y \in T : Min(T) <= y
<1> DEFINE Less == {ss \in Nat \X Nat : ss[1] < ss[2]}
<1>1. IsWellFoundedOn(Less, Nat)
  BY NatLessThanWellFounded DEF OpToRel
<1>2. PICK x \in T : \A y \in T : ~(<<y, x>> \in Less)
  <2> HIDE DEF Less
  <2> QED
    BY <1>1, WFMin
<1>3. ASSUME NEW y \in T
      PROVE  x <= y
  <2>1. x \in Nat /\ y \in Nat
    OBVIOUS
  <2>2. <<y, x>> \in Less <=> y < x
    BY <2>1
  <2> QED
    BY <1>2, <2>1, <2>2
<1> QED
  BY <1>3 DEF Min

\* ... and the number before it, if there is one, is not among them.
LEMMA LeastStep ==
    ASSUME NEW T \in SUBSET Nat, T # {}, 0 \notin T
    PROVE  \E k \in Nat : k > 0 /\ k \in T /\ k - 1 \in Nat /\ k - 1 \notin T
<1>1. Min(T) \in T /\ \A y \in T : Min(T) <= y
  BY LeastOf
<1>2. Min(T) \in Nat /\ Min(T) # 0
  BY <1>1
<1> DEFINE k == Min(T)
<1>3. k \in Nat /\ k # 0 /\ k \in T /\ \A y \in T : k <= y
  BY <1>1, <1>2
<1> HIDE DEF k
<1>4. k - 1 \in Nat /\ k > 0 /\ k - 1 \notin T
  BY <1>3
<1> QED
  BY <1>3, <1>4

-----------------------------------------------------------------------------
\* The function that Numbered unrolls.
Numbers(f, msgs, n) ==
    f = [i \in 0..n |-> IF i = 0 THEN <<>>
                        ELSE IF Has(msgs[i], "id") THEN Append(f[i - 1], msgs[i]) ELSE f[i - 1]]

\* The recursive function in Numbered exists, at every length.
LEMMA NumbersExists ==
    ASSUME NEW msgs, NEW n \in Nat
    PROVE  \E f : Numbers(f, msgs, n)
<1> DEFINE T == {k \in Nat : ~ \E f : Numbers(f, msgs, k)}
<1>1. SUFFICES T = {}
  BY DEF T
<1>2. SUFFICES ASSUME T # {} PROVE FALSE
  OBVIOUS
<1>3. 0 \notin T
  <2> DEFINE f == [i \in 0..0 |-> <<>>]
  <2>1. Numbers(f, msgs, 0)
    BY DEF Numbers
  <2> QED
    BY <2>1
<1>4. PICK k \in Nat : k > 0 /\ k \in T /\ k - 1 \in Nat /\ k - 1 \notin T
  BY <1>2, <1>3, LeastStep
<1>5. PICK f : Numbers(f, msgs, k - 1)
  BY <1>4
<1> DEFINE g == [i \in 0..k |-> IF i < k THEN f[i]
                                ELSE IF Has(msgs[k], "id") THEN Append(f[k - 1], msgs[k]) ELSE f[k - 1]]
<1>6. \A i \in 0..k : g[i] = IF i = 0 THEN <<>>
                             ELSE IF Has(msgs[i], "id") THEN Append(g[i - 1], msgs[i]) ELSE g[i - 1]
  <2> SUFFICES ASSUME NEW i \in 0..k
               PROVE  g[i] = IF i = 0 THEN <<>>
                             ELSE IF Has(msgs[i], "id") THEN Append(g[i - 1], msgs[i]) ELSE g[i - 1]
    OBVIOUS
  <2>1. CASE i = k
    <3>1. i # 0 /\ g[i] = (IF Has(msgs[k], "id") THEN Append(f[k - 1], msgs[k]) ELSE f[k - 1])
      BY <2>1, <1>4
    <3>2. g[i - 1] = f[k - 1]
      BY <2>1, <1>4
    <3> HIDE DEF g
    <3> QED
      BY <3>1, <3>2, <2>1
  <2>2. CASE i # k
    <3>1. i \in 0..k - 1 /\ g[i] = f[i]
      BY <2>2, <1>4
    <3>2. f[i] = IF i = 0 THEN <<>>
                 ELSE IF Has(msgs[i], "id") THEN Append(f[i - 1], msgs[i]) ELSE f[i - 1]
      BY <3>1, <1>5 DEF Numbers
    <3>3. i # 0 => g[i - 1] = f[i - 1]
      BY <3>1, <1>4
    <3> HIDE DEF g
    <3> QED
      BY <3>1, <3>2, <3>3
  <2> QED
    BY <2>1, <2>2
<1>7. Numbers(g, msgs, k)
  <2>1. g = [i \in 0..k |-> g[i]]
    OBVIOUS
  <2> HIDE DEF g
  <2> QED
    BY <1>6, <2>1 DEF Numbers
<1> QED
  BY <1>4, <1>7

\* Its value at i, by its value before i.
LEMMA NumbersStep ==
    ASSUME NEW f, NEW msgs, NEW n \in Nat, Numbers(f, msgs, n), NEW i \in 1..n
    PROVE  f[i] = IF Has(msgs[i], "id") THEN Append(f[i - 1], msgs[i]) ELSE f[i - 1]
<1>1. i \in 0..n /\ i # 0
  OBVIOUS
<1>2. f[i] = IF i = 0 THEN <<>>
             ELSE IF Has(msgs[i], "id") THEN Append(f[i - 1], msgs[i]) ELSE f[i - 1]
  BY <1>1 DEF Numbers
<1> QED
  BY <1>1, <1>2

AlikeUpTo(a, b, m) == \A i \in 1..m : a[i] = b[i]
EqualUpTo(f, g, m) == \A i \in 0..m : f[i] = g[i]

\* What it is up to some message depends on those messages only.
LEMMA NumbersAgree ==
    ASSUME NEW a, NEW b, NEW m \in Nat, NEW n \in Nat, NEW f, NEW g, m <= n,
           AlikeUpTo(a, b, m), Numbers(f, a, m), Numbers(g, b, n)
    PROVE  EqualUpTo(f, g, m)
<1> DEFINE T == {k \in Nat : k <= m /\ f[k] # g[k]}
<1>1. SUFFICES ASSUME T # {} PROVE FALSE
  BY DEF EqualUpTo
<1>2. f[0] = <<>> /\ g[0] = <<>>
  <2>1. 0 \in 0..m /\ 0 \in 0..n
    OBVIOUS
  <2> QED
    BY <2>1 DEF Numbers
<1>3. PICK k \in Nat : k > 0 /\ k \in T /\ k - 1 \in Nat /\ k - 1 \notin T
  BY <1>1, <1>2, LeastStep
<1>4. k \in 1..m /\ k \in 0..m /\ k \in 0..n /\ f[k - 1] = g[k - 1] /\ f[k] # g[k]
  BY <1>3
<1>5. /\ f[k] = IF Has(a[k], "id") THEN Append(f[k - 1], a[k]) ELSE f[k - 1]
      /\ g[k] = IF Has(b[k], "id") THEN Append(g[k - 1], b[k]) ELSE g[k - 1]
  BY <1>3, <1>4 DEF Numbers
<1> QED
  BY <1>4, <1>5 DEF AlikeUpTo

\* Numbered is its last value.
LEMMA NumberedIs ==
    ASSUME NEW s, IsSeq(s)
    PROVE  \E f : Numbers(f, s, Len(s)) /\ Numbered(s) = f[Len(s)]
<1> DEFINE f == CHOOSE f : Numbers(f, s, Len(s))
<1>1. Len(s) \in Nat
  BY SeqIs
<1>2. Numbers(f, s, Len(s))
  BY <1>1, NumbersExists
<1>3. Numbered(s) = f[Len(s)]
  BY DEF Numbered, Numbers
<1> QED
  BY <1>2, <1>3

\* No messages, none numbered.
LEMMA NumberedNone == Numbered(<<>>) = <<>>
<1>1. PICK f : Numbers(f, <<>>, 0) /\ Numbered(<<>>) = f[0]
  BY EmptyIs, NumberedIs
<1> QED
  BY <1>1 DEF Numbers

\* A message appended is numbered last, if it has an id.
LEMMA NumberedAppend ==
    ASSUME NEW s, NEW x, IsSeq(s)
    PROVE  Numbered(Append(s, x)) =
               IF Has(x, "id") THEN Append(Numbered(s), x) ELSE Numbered(s)
<1> DEFINE t == Append(s, x)
           n == Len(s)
<1>1. IsSeq(t) /\ n \in Nat /\ Len(t) = n + 1 /\ t[n + 1] = x /\ \A i \in 1..n : s[i] = t[i]
  BY AppendIs, SeqIs
<1>2. PICK f : Numbers(f, s, n) /\ Numbered(s) = f[n]
  BY NumberedIs
<1>3. PICK g : Numbers(g, t, n + 1) /\ Numbered(t) = g[n + 1]
  BY <1>1, NumberedIs
<1> HIDE DEF t, n
<1>4. n + 1 \in Nat /\ n <= n + 1 /\ n \in 0..n
  BY <1>1
<1>5. f[n] = g[n]
  <2>1. AlikeUpTo(s, t, n)
    BY <1>1 DEF AlikeUpTo
  <2>2. EqualUpTo(f, g, n)
    BY <1>1, <1>2, <1>3, <1>4, <2>1, NumbersAgree
  <2> QED
    BY <1>4, <2>2 DEF EqualUpTo
<1>6. g[n + 1] = IF Has(t[n + 1], "id") THEN Append(g[n], t[n + 1]) ELSE g[n]
  <2>1. n + 1 \in 1..n + 1 /\ n + 1 - 1 = n
    BY <1>1
  <2>2. g[n + 1] = IF Has(t[n + 1], "id") THEN Append(g[n + 1 - 1], t[n + 1]) ELSE g[n + 1 - 1]
    BY <1>3, <1>4, <2>1, NumbersStep
  <2> QED
    BY <2>1, <2>2
<1>7. Numbered(t) = IF Has(x, "id") THEN Append(Numbered(s), x) ELSE Numbered(s)
  BY <1>1, <1>2, <1>3, <1>5, <1>6
<1> QED
  BY <1>7 DEF t

\* The messages with an id are a sequence, of messages that have one.
Numerous(s) ==
    /\ IsSeq(Numbered(s)) /\ Len(Numbered(s)) <= Len(s)
    /\ \A k \in 1..Len(Numbered(s)) :
          Has(Numbered(s)[k], "id") /\ \E i \in 1..Len(s) : Numbered(s)[k] = s[i]

\* A sequence that is not empty is one shorter, and its last element.
LEMMA LastOff ==
    ASSUME NEW s, IsSeq(s), s # <<>>
    PROVE  \E t, x : IsSeq(t) /\ s = Append(t, x) /\ Len(t) = Len(s) - 1
<1> DEFINE t == [i \in 1..Len(s) - 1 |-> s[i]]
           x == s[Len(s)]
<1>1. Len(s) \in Nat /\ Len(s) > 0 /\ Len(s) - 1 \in Nat
  BY SeqIs
<1>2. t = [i \in 1..Len(s) - 1 |-> t[i]] /\ \A i \in 1..Len(s) - 1 : t[i] = s[i]
  OBVIOUS
<1>3. IsSeq(t) /\ Len(t) = Len(s) - 1
  <2> HIDE DEF t
  <2> QED
    BY <1>1, <1>2, IsSeqOf
<1> HIDE DEF t
<1>4. /\ IsSeq(Append(t, x)) /\ Len(Append(t, x)) = Len(s)
      /\ \A i \in 1..Len(s) - 1 : Append(t, x)[i] = s[i]
      /\ Append(t, x)[Len(s)] = s[Len(s)]
  BY <1>1, <1>2, <1>3, AppendIs
<1>5. \A i \in 1..Len(s) : Append(t, x)[i] = s[i]
  BY <1>1, <1>4
<1>6. Append(t, x) = s
  BY <1>4, <1>5, SameSequence
<1> QED
  BY <1>3, <1>6

\* The numbered messages are some of the messages, each with an id.
LEMMA NumberedFrom ==
    ASSUME NEW s, IsSeq(s)
    PROVE  Numerous(s)
<1> DEFINE P(n) == \A u : IsSeq(u) /\ Len(u) = n => Numerous(u)
           T == {n \in Nat : ~P(n)}
<1>1. T = {}
  <2> SUFFICES ASSUME T # {} PROVE FALSE
    OBVIOUS
  <2>1. 0 \notin T
    <3> SUFFICES ASSUME NEW u, IsSeq(u), Len(u) = 0 PROVE Numerous(u)
      OBVIOUS
    <3>1. u = <<>>
      BY SeqIs
    <3> QED
      BY <3>1, NumberedNone, EmptyIs DEF Numerous
  <2>2. PICK n \in Nat : n > 0 /\ n \in T /\ n - 1 \in Nat /\ n - 1 \notin T
    <3>1. T \in SUBSET Nat
      OBVIOUS
    <3> HIDE DEF T
    <3> QED
      BY <2>1, <3>1, LeastStep
  <2>3. PICK u : IsSeq(u) /\ Len(u) = n /\ ~Numerous(u)
    BY <2>2
  <2>4. u # <<>>
    BY <2>2, <2>3, SeqIs
  <2>5. PICK t, x : IsSeq(t) /\ u = Append(t, x) /\ Len(t) = n - 1
    BY <2>3, <2>4, LastOff
  <2>6. Numerous(t)
    BY <2>2, <2>5
  <2> HIDE DEF T
  <2>7. /\ IsSeq(Numbered(t)) /\ Len(Numbered(t)) <= Len(t)
        /\ \A k \in 1..Len(Numbered(t)) :
              Has(Numbered(t)[k], "id") /\ \E i \in 1..Len(t) : Numbered(t)[k] = t[i]
    BY <2>6 DEF Numerous
  <2>8. /\ Len(t) \in Nat /\ Len(u) = Len(t) + 1
        /\ \A i \in 1..Len(t) : u[i] = t[i] /\ u[Len(t) + 1] = x
    BY <2>5, AppendIs, SeqIs
  <2>9. CASE ~Has(x, "id")
    <3>1. Numbered(u) = Numbered(t)
      BY <2>5, <2>9, NumberedAppend
    <3>2. Numerous(u)
      BY <2>7, <2>8, <3>1, SeqIs DEF Numerous
    <3> QED
      BY <2>3, <3>2
  <2>10. CASE Has(x, "id")
    <3> DEFINE a == Numbered(t)
    <3>1. Numbered(u) = Append(a, x)
      BY <2>5, <2>10, NumberedAppend
    <3>2. /\ IsSeq(Append(a, x)) /\ Len(Append(a, x)) = Len(a) + 1 /\ Len(a) \in Nat
          /\ \A k \in 1..Len(a) : Append(a, x)[k] = a[k]
          /\ Append(a, x)[Len(a) + 1] = x
      BY <2>7, AppendIs, SeqIs
    <3>3. u[Len(t) + 1] = x
      BY <2>5, AppendIs
    <3> HIDE DEF a
    <3>4. ASSUME NEW k \in 1..Len(a) + 1
          PROVE  Has(Append(a, x)[k], "id") /\ \E i \in 1..Len(u) : Append(a, x)[k] = u[i]
      <4>1. CASE k = Len(a) + 1
        <5>1. Append(a, x)[k] = u[Len(t) + 1] /\ Len(t) + 1 \in 1..Len(u)
          BY <3>2, <3>3, <4>1, <2>8
        <5> QED
          BY <5>1, <3>3, <2>10
      <4>2. CASE k # Len(a) + 1
        <5>1. k \in 1..Len(a) /\ Append(a, x)[k] = a[k]
          BY <3>2, <4>2
        <5>2. PICK i \in 1..Len(t) : a[k] = t[i]
          BY <5>1, <2>7 DEF a
        <5>3. i \in 1..Len(u) /\ u[i] = t[i]
          BY <2>8
        <5>4. Has(a[k], "id")
          BY <5>1, <2>7 DEF a
        <5> QED
          BY <5>1, <5>2, <5>3, <5>4
      <4> QED
        BY <4>1, <4>2
    <3>5. Len(a) + 1 <= Len(u)
      BY <2>7, <2>8, <3>2 DEF a
    <3>6. Numerous(u)
      BY <3>1, <3>2, <3>4, <3>5 DEF Numerous
    <3> QED
      BY <2>3, <3>6
  <2> QED
    BY <2>9, <2>10
<1>2. Len(s) \in Nat
  BY SeqIs
<1> QED
  BY <1>1, <1>2

\* Nothing added on either side.
LEMMA ConcatNone == ASSUME NEW s, IsSeq(s) PROVE s \o <<>> = s /\ <<>> \o s = s
<1>1. s \in Seq(Range(s))
  BY DEF IsSeq
<1>2. \A S : s \in Seq(S) => s \o <<>> = s /\ <<>> \o s = s
  OBVIOUS
<1> QED
  BY <1>1, <1>2

\* Appending to the second of two sequences appends to both.
LEMMA ConcatAppend ==
    ASSUME NEW s, NEW t, NEW x, IsSeq(s), IsSeq(t)
    PROVE  s \o Append(t, x) = Append(s \o t, x)
<1> DEFINE n == Len(s)
           m == Len(t)
           l == s \o Append(t, x)
           r == Append(s \o t, x)
<1>1. n \in Nat /\ m \in Nat
  BY SeqIs
<1>2. /\ IsSeq(Append(t, x)) /\ Len(Append(t, x)) = m + 1
      /\ \A i \in 1..m : Append(t, x)[i] = t[i]
      /\ Append(t, x)[m + 1] = x
  BY AppendIs
<1>3. /\ IsSeq(s \o t) /\ Len(s \o t) = n + m
      /\ \A i \in 1..n : (s \o t)[i] = s[i]
      /\ \A i \in 1..m : (s \o t)[n + i] = t[i]
  BY ConcatIs
<1>4. /\ IsSeq(l) /\ Len(l) = n + (m + 1)
      /\ \A i \in 1..n : l[i] = s[i]
      /\ \A i \in 1..m + 1 : l[n + i] = Append(t, x)[i]
  BY <1>2, ConcatIs
<1>5. /\ IsSeq(r) /\ Len(r) = n + m + 1
      /\ \A i \in 1..n + m : r[i] = (s \o t)[i]
      /\ r[n + m + 1] = x
  BY <1>3, AppendIs
<1> HIDE DEF n, m, l, r
<1>6. ASSUME NEW i \in 1..Len(l)
      PROVE  l[i] = r[i]
  <2>1. CASE i <= n
    <3>1. i \in 1..n /\ i \in 1..n + m
      BY <1>1, <2>1
    <3> QED
      BY <1>3, <1>4, <1>5, <3>1
  <2>2. CASE i > n
    <3> DEFINE k == i - n
    <3>1. k \in 1..m + 1 /\ i = n + k
      BY <1>1, <1>4, <2>2
    <3> HIDE DEF k
    <3>2. l[i] = Append(t, x)[k]
      BY <1>4, <3>1
    <3>3. CASE k = m + 1
      <4>1. i = n + m + 1
        BY <1>1, <3>1, <3>3
      <4> QED
        BY <1>2, <1>5, <3>2, <3>3, <4>1
    <3>4. CASE k # m + 1
      <4>1. k \in 1..m /\ i \in 1..n + m
        BY <1>1, <3>1, <3>4
      <4> QED
        BY <1>2, <1>3, <1>5, <3>1, <3>2, <4>1
    <3> QED
      BY <3>3, <3>4
  <2> QED
    BY <2>1, <2>2, <1>1, <1>4
<1>7. Len(l) = Len(r)
  BY <1>1, <1>4, <1>5
<1>8. l = r
  BY <1>4, <1>5, <1>6, <1>7, SameSequence
<1> QED
  BY <1>8 DEF l, r

\* The numbered messages of two sequences, one after the other.
LEMMA NumberedConcat ==
    ASSUME NEW s, NEW t, IsSeq(s), IsSeq(t)
    PROVE  Numbered(s \o t) = Numbered(s) \o Numbered(t)
<1> DEFINE Q(u) == Numbered(s \o u) = Numbered(s) \o Numbered(u)
           P(n) == \A u : IsSeq(u) /\ Len(u) = n => Q(u)
           T == {n \in Nat : ~P(n)}
<1>0. IsSeq(Numbered(s))
  BY NumberedFrom DEF Numerous
<1>1. T = {}
  <2> SUFFICES ASSUME T # {} PROVE FALSE
    OBVIOUS
  <2>1. 0 \notin T
    <3> SUFFICES ASSUME NEW u, IsSeq(u), Len(u) = 0 PROVE Q(u)
      OBVIOUS
    <3>1. u = <<>>
      BY SeqIs
    <3>2. s \o u = s /\ Numbered(s) \o <<>> = Numbered(s)
      BY <1>0, <3>1, ConcatNone
    <3> QED
      BY <3>1, <3>2, NumberedNone
  <2>2. PICK n \in Nat : n > 0 /\ n \in T /\ n - 1 \in Nat /\ n - 1 \notin T
    <3>1. T \in SUBSET Nat
      OBVIOUS
    <3> HIDE DEF T
    <3> QED
      BY <2>1, <3>1, LeastStep
  <2>3. PICK u : IsSeq(u) /\ Len(u) = n /\ ~Q(u)
    BY <2>2
  <2>4. u # <<>>
    BY <2>2, <2>3, SeqIs
  <2>5. PICK v, x : IsSeq(v) /\ u = Append(v, x) /\ Len(v) = n - 1
    BY <2>3, <2>4, LastOff
  <2>6. Numbered(s \o v) = Numbered(s) \o Numbered(v)
    BY <2>2, <2>5
  <2> HIDE DEF T
  <2>7. s \o u = Append(s \o v, x) /\ IsSeq(s \o v) /\ IsSeq(Numbered(v))
    BY <2>5, ConcatAppend, ConcatIs, NumberedFrom DEF Numerous
  <2>8. Numbered(s \o u) =
            IF Has(x, "id") THEN Append(Numbered(s) \o Numbered(v), x)
            ELSE Numbered(s) \o Numbered(v)
    BY <2>6, <2>7, NumberedAppend
  <2>9. Numbered(u) = IF Has(x, "id") THEN Append(Numbered(v), x) ELSE Numbered(v)
    BY <2>5, NumberedAppend
  <2>10. Numbered(s) \o Append(Numbered(v), x) = Append(Numbered(s) \o Numbered(v), x)
    BY <1>0, <2>7, ConcatAppend
  <2> QED
    BY <2>3, <2>8, <2>9, <2>10
<1>2. Len(t) \in Nat
  BY SeqIs
<1> QED
  BY <1>1, <1>2

\* Where all messages have an id, all are numbered.
LEMMA NumberedAll ==
    ASSUME NEW s, IsSeq(s), \A i \in 1..Len(s) : Has(s[i], "id")
    PROVE  Numbered(s) = s
<1> DEFINE P(n) == \A u : IsSeq(u) /\ Len(u) = n /\ (\A i \in 1..n : Has(u[i], "id")) => Numbered(u) = u
           T == {n \in Nat : ~P(n)}
<1>1. T = {}
  <2> SUFFICES ASSUME T # {} PROVE FALSE
    OBVIOUS
  <2>1. 0 \notin T
    <3> SUFFICES ASSUME NEW u, IsSeq(u), Len(u) = 0 PROVE Numbered(u) = u
      OBVIOUS
    <3>1. u = <<>>
      BY SeqIs
    <3> QED
      BY <3>1, NumberedNone
  <2>2. PICK n \in Nat : n > 0 /\ n \in T /\ n - 1 \in Nat /\ n - 1 \notin T
    <3>1. T \in SUBSET Nat
      OBVIOUS
    <3> HIDE DEF T
    <3> QED
      BY <2>1, <3>1, LeastStep
  <2>3. PICK u : IsSeq(u) /\ Len(u) = n /\ (\A i \in 1..n : Has(u[i], "id")) /\ Numbered(u) # u
    BY <2>2
  <2>4. u # <<>>
    BY <2>2, <2>3, SeqIs
  <2>5. PICK v, x : IsSeq(v) /\ u = Append(v, x) /\ Len(v) = n - 1
    BY <2>3, <2>4, LastOff
  <2>6. (\A i \in 1..n - 1 : u[i] = v[i]) /\ u[n] = x
    BY <2>2, <2>5, AppendIs
  <2>7. Has(x, "id") /\ \A i \in 1..n - 1 : Has(v[i], "id")
    BY <2>2, <2>3, <2>6
  <2>8. Numbered(v) = v
    BY <2>2, <2>5, <2>7
  <2> HIDE DEF T
  <2> QED
    BY <2>3, <2>5, <2>7, <2>8, NumberedAppend
<1>2. Len(s) \in Nat
  BY SeqIs
<1> QED
  BY <1>1, <1>2

-----------------------------------------------------------------------------
(* Values in the store of remote objects.                                  *)

\* A store: its ids are those below its counter, and lead to arrays.
StoreOK(st) ==
    /\ st.next \in Nat \ {0}
    /\ DOMAIN st.objects = {ObjectId(i) : i \in 1..st.next - 1}
    /\ \A oid \in DOMAIN st.objects : st.objects[oid] = Arr(ArrOf(st.objects[oid]))

Grows(a, b) ==
    \A oid \in DOMAIN a.objects : oid \in DOMAIN b.objects /\ b.objects[oid] = a.objects[oid]

\* What holds as long as the counter has room.
Sound(st) == st.next \in Nat \ {0} /\ (Room(st) => StoreOK(st))

Onward(a, b) == Sound(b) /\ a.next <= b.next /\ (Room(b) => Grows(a, b))

\* A store goes on to itself ...
LEMMA OnwardSame == ASSUME NEW a, Sound(a) PROVE Onward(a, a)
  BY DEF Onward, Sound, Grows

\* What has room after storing had room before.
LEMMA RoomBefore ==
    ASSUME NEW a, NEW b, Sound(a), Onward(a, b), Room(b)
    PROVE  Room(a) /\ StoreOK(a) /\ StoreOK(b) /\ Grows(a, b)
  BY ValueAssumption DEF Sound, Onward, Room

\* ... and on from one store to the next.
LEMMA OnwardOn ==
    ASSUME NEW a, NEW b, NEW c, Sound(a), Onward(a, b), Onward(b, c)
    PROVE  Onward(a, c)
<1>1. a.next <= c.next
  BY DEF Sound, Onward
<1>2. ASSUME Room(c) PROVE Grows(a, c)
  <2>1. Sound(b)
    BY DEF Onward
  <2>2. Room(b) /\ Grows(b, c)
    BY <1>2, <2>1, RoomBefore
  <2>3. Grows(a, b)
    BY <2>2, RoomBefore
  <2> QED
    BY <2>2, <2>3 DEF Grows
<1> QED
  BY <1>1, <1>2 DEF Onward

\* Different numbers make different object ids (store_object).
LEMMA ObjectIdsDiffer ==
    ASSUME NEW i \in 0..MaxInt, NEW j \in 0..MaxInt, ObjectId(i) = ObjectId(j)
    PROVE  i = j
<1>1. ObjectId(i)[6] = Decimal(i) /\ ObjectId(j)[6] = Decimal(j)
  BY DEF ObjectId
<1> QED
  BY <1>1, ValueAssumption

\* A value stored is found under its id, and everything else where it was.
Stored(st, s, props) ==
    /\ Onward(st, s.st)
    /\ Room(s.st) => s.oid \in DOMAIN s.st.objects /\ s.st.objects[s.oid] = Arr(props)

\* store_object adds one list under an id not used yet, and changes no other.
LEMMA StoreObjectStores ==
    ASSUME NEW st, NEW props, Sound(st)
    PROVE  Stored(st, StoreObject(st, props), props)
<1> DEFINE s == StoreObject(st, props)
           n == st.next
           d == st.objects
           e == Put(d, ObjectId(n), Arr(props))
<1>1. s.oid = ObjectId(n) /\ s.st.next = n + 1 /\ s.st.objects = e
  BY DEF StoreObject
<1>2. n \in Nat \ {0}
  BY DEF Sound
<1>3. /\ DOMAIN e = DOMAIN d \union {ObjectId(n)} /\ e[ObjectId(n)] = Arr(props)
      /\ \A oid \in DOMAIN d : oid # ObjectId(n) => e[oid] = d[oid]
  BY DEF Put
<1>4. ASSUME n + 1 <= MaxInt
      PROVE  /\ DOMAIN e = {ObjectId(i) : i \in 1..n}
             /\ \A oid \in DOMAIN d : e[oid] = d[oid]
             /\ \A oid \in DOMAIN e : e[oid] = Arr(ArrOf(e[oid]))
  <2>1. MaxInt \in Nat /\ n <= MaxInt
    BY <1>2, <1>4, ValueAssumption
  <2>2. StoreOK(st)
    BY <2>1 DEF Sound, Room
  <2>3. /\ DOMAIN d = {ObjectId(i) : i \in 1..n - 1}
        /\ \A oid \in DOMAIN d : d[oid] = Arr(ArrOf(d[oid]))
    BY <2>2 DEF StoreOK
  <2>4. ASSUME NEW oid \in DOMAIN d
        PROVE  oid # ObjectId(n)
    <3>1. PICK i \in 1..n - 1 : oid = ObjectId(i)
      BY <2>3
    <3>2. i \in 0..MaxInt /\ n \in 0..MaxInt /\ i # n
      BY <1>2, <2>1
    <3> QED
      BY <3>1, <3>2, ObjectIdsDiffer
  <2> HIDE DEF e, d, n
  <2>5. \A oid \in DOMAIN d : e[oid] = d[oid]
    BY <1>3, <2>4
  <2>6. DOMAIN e = {ObjectId(i) : i \in 1..n}
    <3>1. 1..n = (1..n - 1) \union {n}
      BY <1>2
    <3> QED
      BY <1>3, <2>3, <3>1
  <2>7. ArrOf(Arr(props)) = props
    BY DEF ArrOf, Arr
  <2>8. \A oid \in DOMAIN e : e[oid] = Arr(ArrOf(e[oid]))
    BY <1>3, <2>3, <2>5, <2>7
  <2> QED
    BY <2>5, <2>6, <2>8
<1> HIDE DEF e, n, s
<1>5. Sound(s.st)
  <2>1. s.st.next \in Nat \ {0} /\ s.st.next - 1 = n
    BY <1>1, <1>2
  <2>2. ASSUME Room(s.st) PROVE StoreOK(s.st)
    <3>1. n + 1 <= MaxInt
      BY <1>1, <2>2 DEF Room
    <3> QED
      BY <1>1, <1>4, <2>1, <3>1 DEF StoreOK
  <2> QED
    BY <2>1, <2>2 DEF Sound
<1>6. Room(s.st) => Grows(st, s.st) /\ s.oid \in DOMAIN s.st.objects /\ s.st.objects[s.oid] = Arr(props)
  BY <1>1, <1>3, <1>4 DEF Room, Grows
<1>7. Onward(st, s.st)
  BY <1>1, <1>2, <1>5, <1>6 DEF Onward, n
<1>8. Stored(st, s, props)
  BY <1>6, <1>7 DEF Stored
<1> QED
  BY <1>8 DEF s

-----------------------------------------------------------------------------
\* A field of an object value.
LEMMA FieldOf ==
    ASSUME NEW o, NEW k, k \in DOMAIN o
    PROVE  Has(Obj(o), k) /\ Get(Obj(o), k) = o[k] /\ Obj(o).o = o
  BY DEF Has, Get, Obj

TypeName(x) == Word(CASE x.k \in {"null", "array", "object"} -> "object"
                      [] x.k = "bool" -> "boolean"
                      [] OTHER -> x.k)

\* What a description holds of its value (get_remote_object).
LEMMA Describes ==
    ASSUME NEW x
    PROVE  /\ "type" \in DOMAIN Described(x) /\ Described(x)["type"] = TypeName(x)
           /\ x.k = "number" => "value" \in DOMAIN Described(x) /\ Described(x)["value"] = Numeral(x.v)
           /\ x.k = "string" => "value" \in DOMAIN Described(x) /\ Described(x)["value"] = Str(x.v)
           /\ x.k = "bool" => "value" \in DOMAIN Described(x) /\ Described(x)["value"] = Bool(x.v)
<1> HIDE DEF Word, Null, Bool, Numeral, Str
<1>1. CASE x.k = "null"
  BY <1>1 DEF Described, TypeName
<1>2. CASE x.k = "bool"
  BY <1>2 DEF Described, TypeName
<1>3. CASE x.k = "number"
  BY <1>3 DEF Described, TypeName
<1>4. CASE x.k = "string"
  BY <1>4 DEF Described, TypeName
<1>5. CASE x.k = "array"
  BY <1>5 DEF Described, TypeName
<1>6. CASE x.k \notin {"null", "bool", "number", "string", "array"}
  <2>1. Described(x) = [type |-> Word(x.k)]
    BY <1>6 DEF Described
  <2>2. TypeName(x) = Word(x.k)
    BY <1>6 DEF TypeName
  <2> QED
    BY <1>6, <2>1, <2>2
<1> QED
  BY <1>1, <1>2, <1>3, <1>4, <1>5, <1>6

WithLength(x, props) ==
    IF x.k = "array"
    THEN Append(props, Prop("length", Obj([type |-> Word("number"), value |-> Num(Len(Heap[x.v]))])))
    ELSE props

\* What boxing a value comes to.
Boxes(x, props, st, r) ==
    /\ Onward(st, r.st)
    /\ Room(r.st) =>
          /\ ShowsValue(r.st, r.ro, x)
          /\ x.k \in Objects => PropertiesOf(r.st, r.ro.o["objectId"].s) = WithLength(x, props)

\* A value put under an id of its own, if it is an object, is shown.
LEMMA BoxedShows ==
    ASSUME NEW x, NEW props, NEW st, Sound(st)
    PROVE  Boxes(x, props, st, Boxed(x, props, st))
<1> DEFINE r == Boxed(x, props, st)
           d == Described(x)
<1>1. CASE x.k \notin Objects
  <2>1. r.ro = Obj(d) /\ r.st = st
    BY <1>1 DEF Boxed
  <2> HIDE DEF r, d
  <2>2. Get(r.ro, "type") = TypeName(x)
    BY <2>1, Describes, FieldOf DEF d
  <2>3. /\ x.k = "number" => Get(r.ro, "value") = Numeral(x.v)
        /\ x.k = "string" => Get(r.ro, "value") = Str(x.v)
        /\ x.k = "bool" => Get(r.ro, "value") = Bool(x.v)
    <3>1. "value" \in DOMAIN d => Get(r.ro, "value") = d["value"]
      BY <2>1, FieldOf
    <3>2. /\ x.k = "number" => "value" \in DOMAIN d /\ d["value"] = Numeral(x.v)
          /\ x.k = "string" => "value" \in DOMAIN d /\ d["value"] = Str(x.v)
          /\ x.k = "bool" => "value" \in DOMAIN d /\ d["value"] = Bool(x.v)
      BY Describes DEF d
    <3> QED
      BY <3>1, <3>2
  <2>4. ShowsValue(r.st, r.ro, x)
    BY <1>1, <2>2, <2>3 DEF ShowsValue, TypeName
  <2>5. Boxes(x, props, st, r)
    BY <1>1, <2>1, <2>4, OnwardSame DEF Boxes
  <2> QED
    BY <2>5 DEF r
<1>2. CASE x.k \in Objects
  <2> DEFINE s == StoreObject(st, WithLength(x, props))
             o == Put(d, "objectId", Str(s.oid))
  <2>1. r.ro = Obj(o) /\ r.st = s.st
    BY <1>2 DEF Boxed, WithLength
  <2>2. Stored(st, s, WithLength(x, props))
    BY StoreObjectStores
  <2>3. /\ DOMAIN o = DOMAIN d \union {"objectId"} /\ o["objectId"] = Str(s.oid)
        /\ "type" \in DOMAIN d /\ o["type"] = d["type"]
    <3>1. "type" \in DOMAIN d /\ "type" # "objectId"
      BY Describes
    <3>2. o = Put(d, "objectId", Str(s.oid))
      OBVIOUS
    <3> HIDE DEF d, o, s
    <3> QED
      BY <3>1, <3>2 DEF Put
  <2> HIDE DEF r, d, s, o
  <2>4. Get(r.ro, "type") = TypeName(x)
    BY <2>1, <2>3, Describes, FieldOf DEF d
  <2>5. Has(r.ro, "objectId") /\ r.ro.o["objectId"].s = s.oid
    <3>1. Str(s.oid).s = s.oid
      BY DEF Str
    <3> QED
      BY <2>1, <2>3, <3>1, FieldOf
  <2>6. x.k \notin {"number", "string", "bool"}
    BY <1>2 DEF Objects
  <2>7. ASSUME Room(r.st)
        PROVE  /\ ShowsValue(r.st, r.ro, x)
               /\ PropertiesOf(r.st, r.ro.o["objectId"].s) = WithLength(x, props)
    <3>1. s.oid \in DOMAIN r.st.objects /\ r.st.objects[s.oid] = Arr(WithLength(x, props))
      BY <2>1, <2>2, <2>7 DEF Stored
    <3>2. ShowsValue(r.st, r.ro, x)
      BY <2>4, <2>5, <2>6, <3>1 DEF ShowsValue, TypeName
    <3>3. PropertiesOf(r.st, s.oid) = ArrOf(r.st.objects[s.oid])
      BY <3>1 DEF PropertiesOf, GetProperties, Obj
    <3>4. ArrOf(Arr(WithLength(x, props))) = WithLength(x, props)
      BY DEF ArrOf, Arr
    <3> QED
      BY <2>5, <3>1, <3>2, <3>3, <3>4
  <2>8. Boxes(x, props, st, r)
    BY <2>1, <2>2, <2>7 DEF Boxes, Stored
  <2> QED
    BY <2>8 DEF r
<1> QED
  BY <1>1, <1>2

-----------------------------------------------------------------------------
\* The function that a list of shells unrolls.
ListsShells(f, fields, st, n) ==
    f = [i \in 0..n |->
            IF i = 0 THEN [props |-> <<>>, st |-> st]
            ELSE [props |-> Append(f[i - 1].props,
                                   Prop(fields[i][1], Shell(fields[i][2], f[i - 1].st).ro)),
                  st |-> Shell(fields[i][2], f[i - 1].st).st]]

\* The recursive function that lists fields without their own fields exists.
LEMMA ListsShellsExists ==
    ASSUME NEW fields, NEW st, NEW n \in Nat
    PROVE  \E f : ListsShells(f, fields, st, n)
<1> DEFINE T == {k \in Nat : ~ \E f : ListsShells(f, fields, st, k)}
           Step(i, b) == [props |-> Append(b.props, Prop(fields[i][1], Shell(fields[i][2], b.st).ro)),
                          st |-> Shell(fields[i][2], b.st).st]
<1>1. SUFFICES ASSUME T # {} PROVE FALSE
  OBVIOUS
<1>2. 0 \notin T
  <2> DEFINE f == [i \in 0..0 |-> [props |-> <<>>, st |-> st]]
  <2>1. ListsShells(f, fields, st, 0)
    BY DEF ListsShells
  <2> QED
    BY <2>1
<1>3. PICK k \in Nat : k > 0 /\ k \in T /\ k - 1 \in Nat /\ k - 1 \notin T
  <2>1. T \in SUBSET Nat
    OBVIOUS
  <2> HIDE DEF T
  <2> QED
    BY <1>1, <1>2, <2>1, LeastStep
<1>4. PICK f : ListsShells(f, fields, st, k - 1)
  BY <1>3
<1>5. f = [i \in 0..k - 1 |-> IF i = 0 THEN [props |-> <<>>, st |-> st] ELSE Step(i, f[i - 1])]
  BY <1>4 DEF ListsShells
<1> HIDE DEF Step
<1> DEFINE g == [i \in 0..k |-> IF i < k THEN f[i] ELSE Step(k, f[k - 1])]
<1>6. ASSUME NEW i \in 0..k
      PROVE  g[i] = IF i = 0 THEN [props |-> <<>>, st |-> st] ELSE Step(i, g[i - 1])
  <2>1. CASE i = k
    <3>1. i # 0 /\ g[i] = Step(k, f[k - 1])
      BY <2>1, <1>3
    <3>2. g[i - 1] = f[k - 1]
      BY <2>1, <1>3
    <3> HIDE DEF g
    <3> QED
      BY <3>1, <3>2, <2>1
  <2>2. CASE i # k
    <3>1. i \in 0..k - 1 /\ g[i] = f[i]
      BY <2>2, <1>3
    <3>2. f[i] = IF i = 0 THEN [props |-> <<>>, st |-> st] ELSE Step(i, f[i - 1])
      BY <3>1, <1>5
    <3>3. i # 0 => g[i - 1] = f[i - 1]
      BY <3>1, <1>3
    <3> HIDE DEF g
    <3> QED
      BY <3>1, <3>2, <3>3
  <2> QED
    BY <2>1, <2>2
<1>7. g = [i \in 0..k |-> IF i = 0 THEN [props |-> <<>>, st |-> st] ELSE Step(i, g[i - 1])]
  <2>1. g = [i \in 0..k |-> g[i]]
    OBVIOUS
  <2> HIDE DEF g
  <2> QED
    BY <1>6, <2>1
<1>8. ListsShells(g, fields, st, k)
  <2> HIDE DEF g
  <2> QED
    BY <1>7 DEF ListsShells, Step
<1> QED
  BY <1>3, <1>8

\* The list of them is its last value.
LEMMA ListedShellsIs ==
    ASSUME NEW fields, NEW st, IsSeq(fields)
    PROVE  \E f : ListsShells(f, fields, st, Len(fields)) /\ ListedBy(fields, st, Shell) = f[Len(fields)]
<1> DEFINE f == CHOOSE f : ListsShells(f, fields, st, Len(fields))
<1>1. Len(fields) \in Nat
  BY SeqIs
<1>2. ListsShells(f, fields, st, Len(fields))
  BY <1>1, ListsShellsExists
<1>3. ListedBy(fields, st, Shell) = f[Len(fields)]
  BY DEF ListedBy, ListsShells
<1> QED
  BY <1>2, <1>3

-----------------------------------------------------------------------------
\* A store that grows shows every value it showed ...
LEMMA ValueGrown ==
    ASSUME NEW a, NEW b, Grows(a, b), NEW ro, NEW x, ShowsValue(a, ro, x)
    PROVE  ShowsValue(b, ro, x)
  BY DEF Grows, ShowsValue

\* ... holds the same properties under an id it had ...
LEMMA PropertiesGrown ==
    ASSUME NEW a, NEW b, Grows(a, b), NEW oid \in DOMAIN a.objects
    PROVE  PropertiesOf(b, oid) = PropertiesOf(a, oid)
  BY DEF Grows, PropertiesOf, GetProperties

\* ... and shows every object it showed.
LEMMA ObjectGrown ==
    ASSUME NEW a, NEW b, Grows(a, b), NEW ro, NEW x, ShowsObject(a, ro, x)
    PROVE  ShowsObject(b, ro, x)
<1>1. ShowsValue(a, ro, x) /\ ShowsValue(b, ro, x)
  BY ValueGrown DEF ShowsObject
<1>2. CASE x.k \notin Objects
  BY <1>1, <1>2 DEF ShowsObject
<1>3. CASE x.k \in Objects
  <2> DEFINE oid == ro.o["objectId"].s
  <2>1. oid \in DOMAIN a.objects
    BY <1>1, <1>3 DEF ShowsValue
  <2>2. PropertiesOf(b, oid) = PropertiesOf(a, oid)
    BY <2>1, PropertiesGrown
  <2> DEFINE props == PropertiesOf(a, oid)
  <2>3. /\ Len(props) = Len(Fields(x)) + (IF x.k = "array" THEN 1 ELSE 0)
        /\ ShowsFields(a, props, Fields(x))
    BY <1>3 DEF ShowsObject
  <2>4. ShowsFields(b, props, Fields(x))
    <3> HIDE DEF props
    <3> QED
      BY <2>3, ValueGrown DEF ShowsFields
  <2> QED
    BY <1>1, <2>2, <2>3, <2>4 DEF ShowsObject
<1> QED
  BY <1>2, <1>3

\* What listing shells comes to, of the first n fields.
ShowsShells(st, props, fields, n) ==
    \A i \in 1..n : /\ props[i].o["name"] = Word(fields[i][1])
                    /\ ShowsValue(st, props[i].o["value"], fields[i][2])

ShellsUpTo(l, fields, st, n) ==
    /\ Onward(st, l.st) /\ IsSeq(l.props) /\ Len(l.props) = n
    /\ Room(l.st) => ShowsShells(l.st, l.props, fields, n)

\* One more field listed, all up to it are shown.
LEMMA NextShell ==
    ASSUME NEW b, NEW l, NEW fields, NEW st, NEW n \in Nat, n > 0, Sound(st),
           ShellsUpTo(b, fields, st, n - 1),
           l = [props |-> Append(b.props, Prop(fields[n][1], Shell(fields[n][2], b.st).ro)),
                st |-> Shell(fields[n][2], b.st).st]
    PROVE  ShellsUpTo(l, fields, st, n)
<1> DEFINE x == fields[n][2]
           r == Shell(x, b.st)
           p == Prop(fields[n][1], r.ro)
<1>1. l.props = Append(b.props, p) /\ l.st = r.st
  OBVIOUS
<1>2. Onward(st, b.st) /\ Sound(b.st) /\ IsSeq(b.props) /\ Len(b.props) = n - 1
  BY DEF ShellsUpTo, Onward
<1>3. Onward(b.st, r.st) /\ (Room(r.st) => ShowsValue(r.st, r.ro, x))
  BY <1>2, BoxedShows DEF Boxes, Shell
<1>4. Onward(st, r.st)
  BY <1>2, <1>3, OnwardOn
<1>5. p.o["name"] = Word(fields[n][1]) /\ p.o["value"] = r.ro
  BY DEF Prop, Obj
<1>6. /\ IsSeq(l.props) /\ Len(l.props) = n
      /\ \A i \in 1..n - 1 : l.props[i] = b.props[i]
      /\ l.props[n] = p
  <2> HIDE DEF p, r
  <2>1. /\ IsSeq(l.props) /\ Len(l.props) = n - 1 + 1
        /\ \A i \in 1..n - 1 : l.props[i] = b.props[i]
        /\ l.props[n - 1 + 1] = p
    BY <1>1, <1>2, AppendIs
  <2> QED
    BY <2>1
<1>7. ASSUME Room(r.st)
      PROVE  ShowsShells(r.st, l.props, fields, n)
  <2>1. Room(b.st) /\ Grows(b.st, r.st)
    BY <1>2, <1>3, <1>7, RoomBefore
  <2>2. ShowsShells(b.st, b.props, fields, n - 1)
    BY <2>1 DEF ShellsUpTo
  <2>3. ASSUME NEW i \in 1..n
        PROVE  /\ l.props[i].o["name"] = Word(fields[i][1])
               /\ ShowsValue(r.st, l.props[i].o["value"], fields[i][2])
    <3>1. CASE i = n
      <4> HIDE DEF p, r
      <4> QED
        BY <3>1, <1>3, <1>5, <1>6, <1>7 DEF x
    <3>2. CASE i # n
      <4>1. i \in 1..n - 1
        BY <3>2
      <4>2. /\ b.props[i].o["name"] = Word(fields[i][1])
            /\ ShowsValue(b.st, b.props[i].o["value"], fields[i][2])
        BY <2>2, <4>1 DEF ShowsShells
      <4> HIDE DEF p, r
      <4>3. ShowsValue(r.st, b.props[i].o["value"], fields[i][2])
        BY <2>1, <4>2, ValueGrown
      <4> QED
        BY <1>6, <4>1, <4>2, <4>3
    <3> QED
      BY <3>1, <3>2
  <2> HIDE DEF p, r
  <2> QED
    BY <2>3 DEF ShowsShells
<1> HIDE DEF p, r
<1> QED
  BY <1>1, <1>4, <1>6, <1>7 DEF ShellsUpTo

\* All fields listed are shown, in a store that has grown.
LEMMA ListedShellsShow ==
    ASSUME NEW fields, NEW st, IsSeq(fields), Sound(st)
    PROVE  ShellsUpTo(ListedBy(fields, st, Shell), fields, st, Len(fields))
<1> DEFINE n == Len(fields)
<1>1. PICK f : ListsShells(f, fields, st, n) /\ ListedBy(fields, st, Shell) = f[n]
  BY ListedShellsIs
<1>2. n \in Nat
  BY SeqIs
<1> DEFINE T == {k \in Nat : k <= n /\ ~ShellsUpTo(f[k], fields, st, k)}
<1>3. T = {}
  <2> SUFFICES ASSUME T # {} PROVE FALSE
    OBVIOUS
  <2> HIDE DEF n
  <2>1. f[0] = [props |-> <<>>, st |-> st]
    <3>1. 0 \in 0..n
      BY <1>2
    <3> QED
      BY <1>1, <3>1 DEF ListsShells
  <2>2. ShellsUpTo(f[0], fields, st, 0)
    BY <2>1, OnwardSame, EmptyIs DEF ShellsUpTo, ShowsShells
  <2>3. PICK k \in Nat : k > 0 /\ k \in T /\ k - 1 \in Nat /\ k - 1 \notin T
    <3>1. T \in SUBSET Nat /\ 0 \notin T
      BY <2>2
    <3> HIDE DEF T
    <3> QED
      BY <3>1, LeastStep
  <2>4. k <= n /\ ~ShellsUpTo(f[k], fields, st, k) /\ ShellsUpTo(f[k - 1], fields, st, k - 1)
    BY <1>2, <2>3
  <2>5. f[k] = [props |-> Append(f[k - 1].props,
                                 Prop(fields[k][1], Shell(fields[k][2], f[k - 1].st).ro)),
                st |-> Shell(fields[k][2], f[k - 1].st).st]
    <3>1. k \in 0..n /\ k # 0
      BY <1>2, <2>3, <2>4
    <3> QED
      BY <1>1, <3>1 DEF ListsShells
  <2> HIDE DEF T
  <2>6. ShellsUpTo(f[k], fields, st, k)
    BY <2>3, <2>4, <2>5, NextShell
  <2> QED
    BY <2>4, <2>6
<1>4. ShellsUpTo(f[n], fields, st, n)
  BY <1>2, <1>3
<1> QED
  BY <1>1, <1>4

-----------------------------------------------------------------------------
(* Variables in it, with their fields.                                     *)

\* The first few of a sequence.
LEMMA FirstOf ==
    ASSUME NEW s, NEW n \in Nat, IsSeq(s)
    PROVE  /\ IsSeq(SubSeq(s, 1, Min({n, Len(s)})))
           /\ Len(SubSeq(s, 1, Min({n, Len(s)}))) <= Len(s)
           /\ \A i \in 1..Len(SubSeq(s, 1, Min({n, Len(s)}))) : SubSeq(s, 1, Min({n, Len(s)}))[i] = s[i]
<1> DEFINE m == Min({n, Len(s)})
           t == SubSeq(s, 1, m)
<1>1. Len(s) \in Nat
  BY SeqIs
<1>2. m \in {n, Len(s)} /\ m <= n /\ m <= Len(s)
  <2>1. {n, Len(s)} \in SUBSET Nat /\ {n, Len(s)} # {}
    BY <1>1
  <2> QED
    BY <2>1, LeastOf
<1> HIDE DEF m
<1>3. m \in Nat
  BY <1>1, <1>2
<1>4. \A S : s \in Seq(S) => t \in Seq(S) /\ Len(t) = m /\ \A i \in 1..m : t[i] = s[i]
  <2> SUFFICES ASSUME NEW S, s \in Seq(S)
               PROVE  t \in Seq(S) /\ Len(t) = m /\ \A i \in 1..m : t[i] = s[i]
    OBVIOUS
  <2>1. 1 \in 1..Len(s) + 1 /\ m \in 1 - 1..Len(s)
    BY <1>1, <1>2, <1>3
  <2>2. /\ t \in Seq(S) /\ Len(t) = m - 1 + 1
        /\ \A i \in 1..m - 1 + 1 : t[i] = s[1 + i - 1]
    BY <2>1, SubSeqProperties
  <2> HIDE DEF t
  <2> QED
    BY <1>3, <2>2
<1> HIDE DEF t
<1>5. s \in Seq(Range(s))
  BY DEF IsSeq
<1>6. IsSeq(t) /\ Len(t) = m /\ \A i \in 1..m : t[i] = s[i]
  BY <1>4, <1>5, InSeq
<1>7. IsSeq(t) /\ Len(t) <= Len(s) /\ \A i \in 1..Len(t) : t[i] = s[i]
  BY <1>2, <1>6
<1> QED
  BY <1>7 DEF t, m

\* All that a sequence of pairs of a name and a value leads to is on the heap.
Grounded(s) == IsSeq(s) /\ \A i \in 1..Len(s) : OnHeap(s[i][2])

\* The fields of a value on the heap are on the heap.
LEMMA FieldsIs ==
    ASSUME NEW x, OnHeap(x)
    PROVE  Grounded(Fields(x))
<1>1. CASE x.k \in {"array", "object"}
  <2> DEFINE s == Heap[x.v]
  <2>1. x.v \in DOMAIN Heap
    BY <1>1 DEF OnHeap
  <2>2. MaxProps \in Nat /\ IsSeq(s) /\ \A i \in 1..Len(s) : OnHeap(s[i][2])
    BY <2>1, RemoteAssumption
  <2>3. Fields(x) = SubSeq(s, 1, Min({MaxProps, Len(s)}))
    BY <1>1 DEF Fields
  <2> HIDE DEF s
  <2>4. /\ IsSeq(Fields(x)) /\ Len(Fields(x)) <= Len(s)
        /\ \A i \in 1..Len(Fields(x)) : Fields(x)[i] = s[i]
    BY <2>2, <2>3, FirstOf
  <2>5. Len(s) \in Nat /\ Len(Fields(x)) \in Nat
    BY <2>2, <2>4, SeqIs
  <2> QED
    BY <2>2, <2>4, <2>5 DEF Grounded
<1>2. CASE x.k \notin {"array", "object"}
  BY <1>2, EmptyIs DEF Fields, Grounded
<1> QED
  BY <1>1, <1>2

\* What converting a value comes to.
ObjectShown(r, x, st) == Onward(st, r.st) /\ (Room(r.st) => ShowsObject(r.st, r.ro, x))

\* get_remote_object shows its value and stores what that needs.
LEMMA RemoteObjectShows ==
    ASSUME NEW x, NEW st, Sound(st), OnHeap(x)
    PROVE  ObjectShown(RemoteObject(x, st), x, st)
<1> DEFINE fields == Fields(x)
           inner == ListedBy(fields, st, Shell)
           r == Boxed(x, inner.props, inner.st)
           n == Len(fields)
<1>1. IsSeq(fields) /\ n \in Nat
  BY FieldsIs, SeqIs DEF Grounded
<1> HIDE DEF fields
<1>2. ShellsUpTo(inner, fields, st, n)
  BY <1>1, ListedShellsShow
<1> HIDE DEF inner
<1>3. Onward(st, inner.st) /\ Sound(inner.st) /\ IsSeq(inner.props) /\ Len(inner.props) = n
  BY <1>2 DEF ShellsUpTo, Onward
<1>4. Boxes(x, inner.props, inner.st, r)
  BY <1>3, BoxedShows
<1> HIDE DEF r
<1>5. Onward(inner.st, r.st)
  BY <1>4 DEF Boxes
<1>6. Onward(st, r.st)
  BY <1>3, <1>5, OnwardOn
<1>7. ASSUME Room(r.st) PROVE ShowsObject(r.st, r.ro, x)
  <2> DEFINE props == WithLength(x, inner.props)
  <2>1. ShowsValue(r.st, r.ro, x)
    BY <1>4, <1>7 DEF Boxes
  <2>2. x.k \in Objects => PropertiesOf(r.st, r.ro.o["objectId"].s) = props
    BY <1>4, <1>7 DEF Boxes
  <2>3. Room(inner.st) /\ Grows(inner.st, r.st)
    BY <1>3, <1>5, <1>7, RoomBefore
  <2>4. ShowsShells(inner.st, inner.props, fields, n)
    BY <1>2, <2>3 DEF ShellsUpTo
  <2>5. /\ Len(props) = n + (IF x.k = "array" THEN 1 ELSE 0)
        /\ \A i \in 1..n : props[i] = inner.props[i]
    <3>1. CASE x.k = "array"
      <4> DEFINE p == Prop("length", Obj([type |-> Word("number"), value |-> Num(Len(Heap[x.v]))]))
      <4>1. props = Append(inner.props, p)
        BY <3>1 DEF WithLength
      <4> HIDE DEF p, props
      <4> QED
        BY <1>3, <3>1, <4>1, AppendIs
    <3>2. CASE x.k # "array"
      BY <1>1, <1>3, <3>2 DEF WithLength
    <3> QED
      BY <3>1, <3>2
  <2> HIDE DEF props
  <2>6. ShowsFields(r.st, props, fields)
    <3>1. ASSUME NEW i \in 1..n
          PROVE  /\ props[i].o["name"] = Word(fields[i][1])
                 /\ ShowsValue(r.st, props[i].o["value"], fields[i][2])
      <4>1. /\ inner.props[i].o["name"] = Word(fields[i][1])
            /\ ShowsValue(inner.st, inner.props[i].o["value"], fields[i][2])
        BY <2>4 DEF ShowsShells
      <4>2. ShowsValue(r.st, inner.props[i].o["value"], fields[i][2])
        BY <2>3, <4>1, ValueGrown
      <4> QED
        BY <2>5, <4>1, <4>2
    <3>2. Len(props) >= n
      BY <1>1, <2>5
    <3> QED
      BY <3>1, <3>2 DEF ShowsFields
  <2>7. x.k \in Objects =>
            LET q == PropertiesOf(r.st, r.ro.o["objectId"].s)
            IN  /\ Len(q) = Len(Fields(x)) + (IF x.k = "array" THEN 1 ELSE 0)
                /\ ShowsFields(r.st, q, Fields(x))
    BY <2>2, <2>5, <2>6 DEF fields
  <2> QED
    BY <2>1, <2>7 DEF ShowsObject
<1>8. RemoteObject(x, st) = r
  BY DEF RemoteObject, r, inner, fields
<1> QED
  BY <1>6, <1>7, <1>8 DEF ObjectShown

-----------------------------------------------------------------------------
\* The function that a list of objects unrolls.
ListsObjects(f, fields, st, n) ==
    f = [i \in 0..n |->
            IF i = 0 THEN [props |-> <<>>, st |-> st]
            ELSE [props |-> Append(f[i - 1].props,
                                   Prop(fields[i][1], RemoteObject(fields[i][2], f[i - 1].st).ro)),
                  st |-> RemoteObject(fields[i][2], f[i - 1].st).st]]

\* The recursive function that lists variables with their fields exists.
LEMMA ListsObjectsExists ==
    ASSUME NEW fields, NEW st, NEW n \in Nat
    PROVE  \E f : ListsObjects(f, fields, st, n)
<1> DEFINE T == {k \in Nat : ~ \E f : ListsObjects(f, fields, st, k)}
           Step(i, b) == [props |-> Append(b.props, Prop(fields[i][1], RemoteObject(fields[i][2], b.st).ro)),
                          st |-> RemoteObject(fields[i][2], b.st).st]
<1>1. SUFFICES ASSUME T # {} PROVE FALSE
  OBVIOUS
<1>2. 0 \notin T
  <2> DEFINE f == [i \in 0..0 |-> [props |-> <<>>, st |-> st]]
  <2>1. ListsObjects(f, fields, st, 0)
    BY DEF ListsObjects
  <2> QED
    BY <2>1
<1>3. PICK k \in Nat : k > 0 /\ k \in T /\ k - 1 \in Nat /\ k - 1 \notin T
  <2>1. T \in SUBSET Nat
    OBVIOUS
  <2> HIDE DEF T
  <2> QED
    BY <1>1, <1>2, <2>1, LeastStep
<1>4. PICK f : ListsObjects(f, fields, st, k - 1)
  BY <1>3
<1>5. f = [i \in 0..k - 1 |-> IF i = 0 THEN [props |-> <<>>, st |-> st] ELSE Step(i, f[i - 1])]
  BY <1>4 DEF ListsObjects
<1> HIDE DEF Step
<1> DEFINE g == [i \in 0..k |-> IF i < k THEN f[i] ELSE Step(k, f[k - 1])]
<1>6. ASSUME NEW i \in 0..k
      PROVE  g[i] = IF i = 0 THEN [props |-> <<>>, st |-> st] ELSE Step(i, g[i - 1])
  <2>1. CASE i = k
    <3>1. i # 0 /\ g[i] = Step(k, f[k - 1])
      BY <2>1, <1>3
    <3>2. g[i - 1] = f[k - 1]
      BY <2>1, <1>3
    <3> HIDE DEF g
    <3> QED
      BY <3>1, <3>2, <2>1
  <2>2. CASE i # k
    <3>1. i \in 0..k - 1 /\ g[i] = f[i]
      BY <2>2, <1>3
    <3>2. f[i] = IF i = 0 THEN [props |-> <<>>, st |-> st] ELSE Step(i, f[i - 1])
      BY <3>1, <1>5
    <3>3. i # 0 => g[i - 1] = f[i - 1]
      BY <3>1, <1>3
    <3> HIDE DEF g
    <3> QED
      BY <3>1, <3>2, <3>3
  <2> QED
    BY <2>1, <2>2
<1>7. g = [i \in 0..k |-> IF i = 0 THEN [props |-> <<>>, st |-> st] ELSE Step(i, g[i - 1])]
  <2>1. g = [i \in 0..k |-> g[i]]
    OBVIOUS
  <2> HIDE DEF g
  <2> QED
    BY <1>6, <2>1
<1>8. ListsObjects(g, fields, st, k)
  <2> HIDE DEF g
  <2> QED
    BY <1>7 DEF ListsObjects, Step
<1> QED
  BY <1>3, <1>8

\* The list of them is its last value.
LEMMA ListedObjectsIs ==
    ASSUME NEW fields, NEW st, IsSeq(fields)
    PROVE  \E f : ListsObjects(f, fields, st, Len(fields))
                 /\ ListedBy(fields, st, RemoteObject) = f[Len(fields)]
<1> DEFINE f == CHOOSE f : ListsObjects(f, fields, st, Len(fields))
<1>1. Len(fields) \in Nat
  BY SeqIs
<1>2. ListsObjects(f, fields, st, Len(fields))
  BY <1>1, ListsObjectsExists
<1>3. ListedBy(fields, st, RemoteObject) = f[Len(fields)]
  BY DEF ListedBy, ListsObjects
<1> QED
  BY <1>2, <1>3

\* What listing objects comes to, of the first n fields.
ShowsObjects(st, props, fields, n) ==
    \A i \in 1..n : /\ props[i].o["name"] = Word(fields[i][1])
                    /\ ShowsObject(st, props[i].o["value"], fields[i][2])

ObjectsUpTo(l, fields, st, n) ==
    /\ Onward(st, l.st) /\ IsSeq(l.props) /\ Len(l.props) = n
    /\ Room(l.st) => ShowsObjects(l.st, l.props, fields, n)

\* One more variable listed, all up to it are shown.
LEMMA NextObject ==
    ASSUME NEW b, NEW l, NEW fields, NEW st, NEW n \in Nat, n > 0, Sound(st),
           OnHeap(fields[n][2]),
           ObjectsUpTo(b, fields, st, n - 1),
           l = [props |-> Append(b.props, Prop(fields[n][1], RemoteObject(fields[n][2], b.st).ro)),
                st |-> RemoteObject(fields[n][2], b.st).st]
    PROVE  ObjectsUpTo(l, fields, st, n)
<1> DEFINE x == fields[n][2]
           r == RemoteObject(x, b.st)
           p == Prop(fields[n][1], r.ro)
<1>1. l.props = Append(b.props, p) /\ l.st = r.st
  OBVIOUS
<1>2. Onward(st, b.st) /\ Sound(b.st) /\ IsSeq(b.props) /\ Len(b.props) = n - 1
  BY DEF ObjectsUpTo, Onward
<1>3. Onward(b.st, r.st) /\ (Room(r.st) => ShowsObject(r.st, r.ro, x))
  BY <1>2, RemoteObjectShows DEF ObjectShown
<1>4. Onward(st, r.st)
  BY <1>2, <1>3, OnwardOn
<1>5. p.o["name"] = Word(fields[n][1]) /\ p.o["value"] = r.ro
  BY DEF Prop, Obj
<1>6. /\ IsSeq(l.props) /\ Len(l.props) = n
      /\ \A i \in 1..n - 1 : l.props[i] = b.props[i]
      /\ l.props[n] = p
  <2> HIDE DEF p, r
  <2>1. /\ IsSeq(l.props) /\ Len(l.props) = n - 1 + 1
        /\ \A i \in 1..n - 1 : l.props[i] = b.props[i]
        /\ l.props[n - 1 + 1] = p
    BY <1>1, <1>2, AppendIs
  <2> QED
    BY <2>1
<1>7. ASSUME Room(r.st)
      PROVE  ShowsObjects(r.st, l.props, fields, n)
  <2>1. Room(b.st) /\ Grows(b.st, r.st)
    BY <1>2, <1>3, <1>7, RoomBefore
  <2>2. ShowsObjects(b.st, b.props, fields, n - 1)
    BY <2>1 DEF ObjectsUpTo
  <2>3. ASSUME NEW i \in 1..n
        PROVE  /\ l.props[i].o["name"] = Word(fields[i][1])
               /\ ShowsObject(r.st, l.props[i].o["value"], fields[i][2])
    <3>1. CASE i = n
      <4> HIDE DEF p, r
      <4> QED
        BY <3>1, <1>3, <1>5, <1>6, <1>7 DEF x
    <3>2. CASE i # n
      <4>1. i \in 1..n - 1
        BY <3>2
      <4>2. /\ b.props[i].o["name"] = Word(fields[i][1])
            /\ ShowsObject(b.st, b.props[i].o["value"], fields[i][2])
        BY <2>2, <4>1 DEF ShowsObjects
      <4> HIDE DEF p, r
      <4>3. ShowsObject(r.st, b.props[i].o["value"], fields[i][2])
        BY <2>1, <4>2, ObjectGrown
      <4> QED
        BY <1>6, <4>1, <4>2, <4>3
    <3> QED
      BY <3>1, <3>2
  <2> HIDE DEF p, r
  <2> QED
    BY <2>3 DEF ShowsObjects
<1> HIDE DEF p, r
<1> QED
  BY <1>1, <1>4, <1>6, <1>7 DEF ObjectsUpTo

\* All variables listed are shown, in a store that has grown.
LEMMA ListedObjectsShow ==
    ASSUME NEW fields, NEW st, Grounded(fields), Sound(st)
    PROVE  ObjectsUpTo(ListedBy(fields, st, RemoteObject), fields, st, Len(fields))
<1> DEFINE n == Len(fields)
<1>0. IsSeq(fields) /\ \A i \in 1..n : OnHeap(fields[i][2])
  BY DEF Grounded
<1>1. PICK f : ListsObjects(f, fields, st, n) /\ ListedBy(fields, st, RemoteObject) = f[n]
  BY <1>0, ListedObjectsIs
<1>2. n \in Nat
  BY <1>0, SeqIs
<1> DEFINE T == {k \in Nat : k <= n /\ ~ObjectsUpTo(f[k], fields, st, k)}
<1>3. T = {}
  <2> SUFFICES ASSUME T # {} PROVE FALSE
    OBVIOUS
  <2> HIDE DEF n
  <2>1. f[0] = [props |-> <<>>, st |-> st]
    <3>1. 0 \in 0..n
      BY <1>2
    <3> QED
      BY <1>1, <3>1 DEF ListsObjects
  <2>2. ObjectsUpTo(f[0], fields, st, 0)
    BY <2>1, OnwardSame, EmptyIs DEF ObjectsUpTo, ShowsObjects
  <2>3. PICK k \in Nat : k > 0 /\ k \in T /\ k - 1 \in Nat /\ k - 1 \notin T
    <3>1. T \in SUBSET Nat /\ 0 \notin T
      BY <2>2
    <3> HIDE DEF T
    <3> QED
      BY <3>1, LeastStep
  <2>4. k <= n /\ ~ObjectsUpTo(f[k], fields, st, k) /\ ObjectsUpTo(f[k - 1], fields, st, k - 1)
    BY <1>2, <2>3
  <2>5. f[k] = [props |-> Append(f[k - 1].props,
                                 Prop(fields[k][1], RemoteObject(fields[k][2], f[k - 1].st).ro)),
                st |-> RemoteObject(fields[k][2], f[k - 1].st).st]
    <3>1. k \in 0..n /\ k # 0
      BY <1>2, <2>3, <2>4
    <3> QED
      BY <1>1, <3>1 DEF ListsObjects
  <2> HIDE DEF T
  <2>6. ObjectsUpTo(f[k], fields, st, k)
    <3>1. OnHeap(fields[k][2])
      BY <1>0, <1>2, <2>3, <2>4
    <3> QED
      BY <2>3, <2>4, <2>5, <3>1, NextObject
  <2> QED
    BY <2>4, <2>6
<1>4. ObjectsUpTo(f[n], fields, st, n)
  BY <1>2, <1>3
<1> QED
  BY <1>1, <1>4

-----------------------------------------------------------------------------
(* Scopes and call frames.                                                 *)

\* The sequence of one element.
LEMMA SingleIs == ASSUME NEW x PROVE IsSeq(<<x>>) /\ Len(<<x>>) = 1 /\ <<x>>[1] = x
<1>1. <<x>> \in Seq({x})
  OBVIOUS
<1>2. IsSeq(<<x>>)
  BY <1>1, InSeq
<1> QED
  BY <1>2

\* A store that grows shows the variables it showed ...
LEMMA VariablesGrown ==
    ASSUME NEW a, NEW b, Grows(a, b), NEW props, NEW listing, ShowsVariables(a, props, listing)
    PROVE  ShowsVariables(b, props, listing)
  BY ObjectGrown DEF ShowsVariables

\* ... the scopes ...
LEMMA ScopeGrown ==
    ASSUME NEW a, NEW b, Grows(a, b), NEW scope, NEW listing, ShowsScope(a, scope, listing)
    PROVE  ShowsScope(b, scope, listing)
<1> DEFINE oid == scope.o["object"].o["objectId"].s
<1>1. oid \in DOMAIN a.objects /\ ShowsVariables(a, PropertiesOf(a, oid), listing)
  BY DEF ShowsScope
<1>2. oid \in DOMAIN b.objects /\ PropertiesOf(b, oid) = PropertiesOf(a, oid)
  BY <1>1, PropertiesGrown DEF Grows
<1>3. ShowsVariables(b, PropertiesOf(a, oid), listing)
  BY <1>1, VariablesGrown
<1> QED
  BY <1>2, <1>3 DEF ShowsScope

\* ... and the call frames.
LEMMA FrameGrown ==
    ASSUME NEW a, NEW b, Grows(a, b), NEW callFrame, NEW frame, NEW globals,
           ShowsFrame(a, callFrame, frame, globals)
    PROVE  ShowsFrame(b, callFrame, frame, globals)
<1> DEFINE scopes == callFrame.o["scopeChain"].a
           listed == SubSeq(globals, 1, Min({MaxGlobals, Len(globals)}))
<1>1. /\ Len(scopes) = IF frame.locals = <<>> THEN 1 ELSE 2
      /\ frame.locals # <<>> => ShowsScope(a, scopes[1], frame.locals)
      /\ ShowsScope(a, scopes[Len(scopes)], listed)
  BY DEF ShowsFrame
<1>2. /\ frame.locals # <<>> => ShowsScope(b, scopes[1], frame.locals)
      /\ ShowsScope(b, scopes[Len(scopes)], listed)
  <2> HIDE DEF scopes, listed
  <2> QED
    BY <1>1, ScopeGrown
<1> QED
  BY <1>1, <1>2 DEF ShowsFrame

\* What converting a scope comes to.
ScopeShown(r, listing, st) ==
    /\ Onward(st, r.st)
    /\ Room(r.st) => ShowsScope(r.st, r.scope, listing)

\* A scope captured shows its variables (capture_frames).
LEMMA ScopeShows ==
    ASSUME NEW type, NEW listing, NEW st, Sound(st), Grounded(listing)
    PROVE  ScopeShown(Scope(type, listing, st), listing, st)
<1> DEFINE inner == ListedBy(listing, st, RemoteObject)
           s == StoreObject(inner.st, inner.props)
           r == Scope(type, listing, st)
<1>1. /\ r.st = s.st
      /\ r.scope = Obj([type   |-> Word(type),
                        object |-> Obj([type |-> Word("object"), objectId |-> Str(s.oid)])])
  BY DEF Scope
<1>2. r.scope.o["object"].o["objectId"].s = s.oid
  BY <1>1 DEF Obj, Str
<1>3. ObjectsUpTo(inner, listing, st, Len(listing))
  BY ListedObjectsShow
<1>4. Onward(st, inner.st) /\ Sound(inner.st) /\ Len(inner.props) = Len(listing)
  BY <1>3 DEF ObjectsUpTo, Onward
<1>5. Stored(inner.st, s, inner.props)
  BY <1>4, StoreObjectStores
<1> HIDE DEF inner, s, r
<1>6. Onward(inner.st, s.st)
  BY <1>5 DEF Stored
<1>7. Onward(st, s.st)
  BY <1>4, <1>6, OnwardOn
<1>8. ASSUME Room(s.st) PROVE ShowsScope(s.st, r.scope, listing)
  <2>1. Room(inner.st) /\ Grows(inner.st, s.st)
    BY <1>4, <1>6, <1>8, RoomBefore
  <2>2. s.oid \in DOMAIN s.st.objects /\ s.st.objects[s.oid] = Arr(inner.props)
    BY <1>5, <1>8 DEF Stored
  <2>3. PropertiesOf(s.st, s.oid) = inner.props
    BY <2>2 DEF PropertiesOf, GetProperties, Obj, Arr, ArrOf
  <2>4. ShowsObjects(inner.st, inner.props, listing, Len(listing))
    BY <1>3, <2>1 DEF ObjectsUpTo
  <2>5. ShowsVariables(inner.st, inner.props, listing)
    BY <1>4, <2>4 DEF ShowsVariables, ShowsObjects
  <2>6. ShowsVariables(s.st, inner.props, listing)
    BY <2>1, <2>5, VariablesGrown
  <2> QED
    BY <1>2, <2>2, <2>3, <2>6 DEF ShowsScope
<1>9. ScopeShown(r, listing, st)
  BY <1>1, <1>7, <1>8 DEF ScopeShown
<1> QED
  BY <1>9 DEF r

\* What capturing a frame comes to.
FrameShown(r, frame, globals, st) ==
    /\ Onward(st, r.st)
    /\ Room(r.st) => ShowsFrame(r.st, r.frame, frame, globals)

\* A call frame captured shows its frame's variables and the global ones.
LEMMA CallFrameShows ==
    ASSUME NEW windows, NEW scripts, NEW frame, NEW level, NEW globals, NEW st,
           Sound(st), Grounded(frame.locals), Grounded(globals)
    PROVE  FrameShown(CallFrame(windows, scripts, frame, level, globals, st), frame, globals, st)
<1> DEFINE s == Scope("local", frame.locals, st)
           local == IF frame.locals = <<>> THEN [scopes |-> <<>>, st |-> st]
                    ELSE [scopes |-> <<s.scope>>, st |-> s.st]
           listed == SubSeq(globals, 1, Min({MaxGlobals, Len(globals)}))
           global == Scope("global", listed, local.st)
           scopes == Append(local.scopes, global.scope)
           r == CallFrame(windows, scripts, frame, level, globals, st)
<1>1. r.st = global.st /\ r.frame.o["scopeChain"].a = scopes
  BY DEF CallFrame, Obj, Arr
<1>2. ScopeShown(s, frame.locals, st)
  BY ScopeShows
<1>3. /\ frame.locals = <<>> => local.scopes = <<>> /\ local.st = st
      /\ frame.locals # <<>> => local.scopes = <<s.scope>> /\ local.st = s.st
  OBVIOUS
<1>4. Grounded(listed)
  <2>1. IsSeq(globals) /\ MaxGlobals \in Nat /\ \A i \in 1..Len(globals) : OnHeap(globals[i][2])
    BY RemoteAssumption DEF Grounded
  <2>2. /\ IsSeq(listed) /\ Len(listed) <= Len(globals)
        /\ \A i \in 1..Len(listed) : listed[i] = globals[i]
    BY <2>1, FirstOf
  <2>3. Len(listed) \in Nat /\ Len(globals) \in Nat
    BY <2>1, <2>2, SeqIs
  <2> HIDE DEF listed
  <2> QED
    BY <2>1, <2>2, <2>3 DEF Grounded
<1> HIDE DEF s, local
<1>5. Onward(st, local.st) /\ Sound(local.st)
  <2>1. Onward(st, local.st)
    BY <1>2, <1>3, OnwardSame DEF ScopeShown
  <2> QED
    BY <2>1 DEF Onward
<1>6. ScopeShown(global, listed, local.st)
  <2> HIDE DEF listed
  <2> QED
    BY <1>4, <1>5, ScopeShows
<1> HIDE DEF global, listed
<1>7. /\ scopes[Len(scopes)] = global.scope
      /\ Len(scopes) = IF frame.locals = <<>> THEN 1 ELSE 2
      /\ frame.locals # <<>> => scopes[1] = s.scope
  <2>1. CASE frame.locals = <<>>
    BY <1>3, <2>1
  <2>2. CASE frame.locals # <<>>
    <3>1. local.scopes = <<s.scope>> /\ Len(local.scopes) = 1 /\ local.scopes[1] = s.scope
      <4>1. local.scopes = <<s.scope>>
        BY <1>3, <2>2
      <4> QED
        BY <4>1, SingleIs
    <3>3. IsSeq(local.scopes)
      BY <3>1, SingleIs
    <3> QED
      BY <2>2, <3>1, <3>3, AppendIs
  <2> QED
    BY <2>1, <2>2
<1> HIDE DEF scopes, r
<1>8. Onward(local.st, global.st)
  BY <1>6 DEF ScopeShown
<1>9. Onward(st, global.st)
  BY <1>5, <1>8, OnwardOn
<1>10. ASSUME Room(global.st) PROVE ShowsFrame(global.st, r.frame, frame, globals)
  <2>1. Room(local.st) /\ Grows(local.st, global.st)
    BY <1>5, <1>8, <1>10, RoomBefore
  <2>2. ShowsScope(global.st, global.scope, listed)
    BY <1>6, <1>10 DEF ScopeShown
  <2>3. ASSUME frame.locals # <<>> PROVE ShowsScope(global.st, s.scope, frame.locals)
    <3>1. ShowsScope(s.st, s.scope, frame.locals) /\ s.st = local.st
      BY <1>2, <1>3, <2>1, <2>3 DEF ScopeShown
    <3> QED
      BY <2>1, <3>1, ScopeGrown
  <2> QED
    BY <1>1, <1>7, <2>2, <2>3 DEF ShowsFrame, listed
<1>11. FrameShown(r, frame, globals, st)
  BY <1>1, <1>9, <1>10 DEF FrameShown
<1> QED
  BY <1>11 DEF r

-----------------------------------------------------------------------------
(* What the client asks.                                                   *)

\* Different words are different names.
LEMMA Words == ASSUME NEW a, NEW b, <<a>> = <<b>> PROVE a = b
<1>1. <<a>>[1] = a /\ <<b>>[1] = b
  OBVIOUS
<1> QED
  BY <1>1

\* A request, and what is read of it.
Inquiry(i, w, p) == Obj([id |-> Num(i), method |-> Word(w), params |-> p])

\* The parts of a request.
LEMMA InquiryIs ==
    ASSUME NEW i, NEW w, NEW p
    PROVE  /\ Method(Inquiry(i, w, p)) = <<w>> /\ Params(Inquiry(i, w, p)) = p
           /\ Has(Inquiry(i, w, p), "id") /\ Get(Inquiry(i, w, p), "id") = Num(i)
           /\ Get(Inquiry(i, w, p), "method") = Word(w) /\ Get(Inquiry(i, w, p), "params") = p
<1> DEFINE o == [id |-> Num(i), method |-> Word(w), params |-> p]
           q == Inquiry(i, w, p)
<1>1. q = Obj(o) /\ DOMAIN o = {"id", "method", "params"}
      /\ o["id"] = Num(i) /\ o["method"] = Word(w) /\ o["params"] = p
  BY DEF Inquiry
<1> HIDE DEF o, q
<1>2. /\ Has(q, "id") /\ Get(q, "id") = Num(i) /\ Get(q, "method") = Word(w)
      /\ Has(q, "params") /\ Get(q, "params") = p /\ q.o["params"] = p
  BY <1>1, FieldOf
<1>3. Method(q) = <<w>>
  BY <1>2 DEF Method, StrOf, Word, Str
<1>4. Params(q) = p
  BY <1>2 DEF Params
<1> QED
  BY <1>2, <1>3, <1>4 DEF q

\* What a request of the client changes.
Sends(q) ==
    /\ client.next <= MaxRequests
    /\ sent' = Append(sent, q)
    /\ DOMAIN client' = DOMAIN client
    /\ client'.next = client.next + 1 /\ client'.waiting = Append(client.waiting, q)
    /\ client'.scripts = client.scripts /\ client'.bound = client.bound
    /\ IF IsControl(q)
       THEN client'.frames = <<>> /\ client'.hit = <<>> /\ client'.watch = <<>> /\ client'.list = <<>>
       ELSE /\ client'.frames = client.frames /\ client'.hit = client.hit
            /\ client'.watch = client.watch /\ client'.list = client.list
    /\ setup' = setup /\ told' = told /\ todo' = todo
    /\ enabled' = enabled /\ active' = active /\ breakpoints' = breakpoints
    /\ next_bp_id' = next_bp_id /\ due' = due /\ js' = js /\ stop' = stop /\ why' = why
    /\ frames' = frames /\ store' = store

\* ... and what it asks when.
Mannered(w, p) ==
    /\ client.next = 1 /\ Unaware => w = "Debugger.enable"
    /\ w = "Debugger.setBreakpointByUrl" =>
          \E id \in DOMAIN client.scripts : p \in PlacesIn(client.scripts[id])
    /\ w = "Debugger.evaluateOnCallFrame" =>
          /\ client.frames # <<>>
          /\ \E e \in Expressions : p = Obj([callFrameId |-> Word(Decimal(0)), expression |-> Str(e)])
    /\ w = "Runtime.getProperties" =>
          client.frames # <<>> /\ \E oid \in ScopeIds(client.frames) : p = Obj([objectId |-> Str(oid)])
    /\ w \in Steps \union {"Debugger.resume"} => client.frames # <<>>

\* Which requests resume or step.
LEMMA ControlIs ==
    ASSUME NEW i, NEW w, NEW p
    PROVE  IsControl(Inquiry(i, w, p)) <=> w \in Steps \union {"Debugger.resume"}
<1>1. Method(Inquiry(i, w, p)) = <<w>>
  BY InquiryIs
<1> QED
  BY <1>1, Words DEF IsControl

\* A request that leaves what the client knows as it is.
LEMMA RequestSends ==
    ASSUME NEW w, NEW p, TypeOK, Request(w, p, client), w \notin Steps \union {"Debugger.resume"}
    PROVE  Sends(Inquiry(client.next, w, p))
<1> DEFINE q == Inquiry(client.next, w, p)
<1>1. /\ client.next <= MaxRequests
      /\ sent' = Append(sent, q)
      /\ client' = [client EXCEPT !.next = @ + 1, !.waiting = Append(@, q)]
      /\ UNCHANGED <<setup, told, todo, session>>
  BY DEF Request, Inquiry
<1>2. ~IsControl(q)
  BY ControlIs
<1>3. DOMAIN client = {"next", "waiting", "scripts", "bound", "frames", "hit", "watch", "list"}
  BY DEF TypeOK
<1> HIDE DEF q
<1>4. /\ DOMAIN client' = DOMAIN client
      /\ client'.next = client.next + 1 /\ client'.waiting = Append(client.waiting, q)
      /\ client'.scripts = client.scripts /\ client'.bound = client.bound
      /\ client'.frames = client.frames /\ client'.hit = client.hit
      /\ client'.watch = client.watch /\ client'.list = client.list
  BY <1>1, <1>3
<1> QED
  BY <1>1, <1>2, <1>4 DEF Sends, session, table, pause, q

\* One that ends the pause.
Forgetful == [client EXCEPT !.frames = <<>>, !.hit = <<>>, !.watch = <<>>, !.list = <<>>]

\* The client resumes or steps by sending that request and forgetting the
\* pause.
LEMMA ControlSends ==
    ASSUME NEW w, NEW p, TypeOK, w \in Steps \union {"Debugger.resume"}, Request(w, p, Forgetful)
    PROVE  Sends(Inquiry(client.next, w, p))
<1> DEFINE q == Inquiry(client.next, w, p)
<1>1. /\ client.next <= MaxRequests
      /\ sent' = Append(sent, q)
      /\ client' = [Forgetful EXCEPT !.next = @ + 1, !.waiting = Append(@, q)]
      /\ UNCHANGED <<setup, told, todo, session>>
  BY DEF Request, Inquiry
<1>2. IsControl(q)
  BY ControlIs
<1>3. DOMAIN client = {"next", "waiting", "scripts", "bound", "frames", "hit", "watch", "list"}
  BY DEF TypeOK
<1> HIDE DEF q
<1>4. /\ DOMAIN Forgetful = DOMAIN client
      /\ Forgetful.next = client.next /\ Forgetful.waiting = client.waiting
      /\ Forgetful.scripts = client.scripts /\ Forgetful.bound = client.bound
      /\ Forgetful.frames = <<>> /\ Forgetful.hit = <<>>
      /\ Forgetful.watch = <<>> /\ Forgetful.list = <<>>
  BY <1>3 DEF Forgetful
<1>5. /\ DOMAIN client' = DOMAIN client
      /\ client'.next = client.next + 1 /\ client'.waiting = Append(client.waiting, q)
      /\ client'.scripts = client.scripts /\ client'.bound = client.bound
      /\ client'.frames = <<>> /\ client'.hit = <<>>
      /\ client'.watch = <<>> /\ client'.list = <<>>
  BY <1>1, <1>3, <1>4
<1> QED
  BY <1>1, <1>2, <1>5 DEF Sends, session, table, pause, q

Asking == \E w, p : Sends(Inquiry(client.next, w, p)) /\ Mannered(w, p)

\* What asking does, whatever is asked for.
LEMMA AskEffect ==
    ASSUME TypeOK, Ask
    PROVE  Asking
<1> DEFINE Ends == Steps \union {"Debugger.resume"}
<1>1. CASE AskToEnable
  <2>1. Request("Debugger.enable", Nothing, client) /\ "Debugger.enable" \notin Ends
    BY <1>1 DEF AskToEnable, Steps
  <2>2. Sends(Inquiry(client.next, "Debugger.enable", Nothing))
    BY <2>1, RequestSends
  <2>3. Mannered("Debugger.enable", Nothing)
    BY <2>1 DEF Mannered
  <2> QED
    BY <2>2, <2>3 DEF Asking
<1>2. CASE AskToBreak
  <2>0. PICK id \in DOMAIN client.scripts :
            \E p \in PlacesIn(client.scripts[id]) : Request("Debugger.setBreakpointByUrl", p, client)
    BY <1>2 DEF AskToBreak
  <2>1. PICK p \in PlacesIn(client.scripts[id]) : Request("Debugger.setBreakpointByUrl", p, client)
    BY <2>0
  <2>2. "Debugger.setBreakpointByUrl" \notin Ends
    BY DEF Steps
  <2>3. Sends(Inquiry(client.next, "Debugger.setBreakpointByUrl", p))
    BY <2>1, <2>2, RequestSends
  <2>4. ~Unaware
    BY <2>1 DEF Unaware
  <2>5. Mannered("Debugger.setBreakpointByUrl", p)
    BY <2>1, <2>2, <2>4 DEF Mannered
  <2> QED
    BY <2>3, <2>5 DEF Asking
<1>3. CASE AskToRemove
  <2>1. PICK b \in DOMAIN client.bound :
            Request("Debugger.removeBreakpoint", Obj([breakpointId |-> Str(b)]), client)
    BY <1>3 DEF AskToRemove
  <2>2. "Debugger.removeBreakpoint" \notin Ends
    BY DEF Steps
  <2> DEFINE p == Obj([breakpointId |-> Str(b)])
  <2> HIDE DEF p
  <2>3. Sends(Inquiry(client.next, "Debugger.removeBreakpoint", p))
    BY <2>1, <2>2, RequestSends DEF p
  <2>4. ~Unaware
    BY <2>1 DEF Unaware
  <2>5. Mannered("Debugger.removeBreakpoint", p)
    BY <2>2, <2>4 DEF Mannered
  <2> QED
    BY <2>3, <2>5 DEF Asking
<1>4. CASE AskToStop \/ AskToRun \/ AskQuery
  <2>1. client.next # 1
    BY <1>4 DEF AskToStop, AskToRun, AskQuery, TypeOK
  <2>2. PICK w, p : Request(w, p, client) /\ w \notin Ends /\ w \notin
            {"Debugger.setBreakpointByUrl", "Debugger.evaluateOnCallFrame", "Runtime.getProperties"}
    <3>1. CASE AskToStop
      BY <3>1 DEF AskToStop, Steps
    <3>2. CASE AskToRun
      BY <3>2 DEF AskToRun, Steps
    <3>3. CASE AskQuery
      <4>1. PICK i \in 1..Len(Queries) : Request(Queries[i].method, Queries[i].params, client)
        BY <3>3 DEF AskQuery
      <4>2. Queries[i].method \notin Changing \union {"Runtime.getProperties"}
        BY InspectionAssumption
      <4> QED
        BY <4>1, <4>2 DEF Changing
    <3> QED
      BY <1>4, <3>1, <3>2, <3>3
  <2>3. Sends(Inquiry(client.next, w, p))
    BY <2>2, RequestSends
  <2>4. Mannered(w, p)
    BY <2>1, <2>2 DEF Mannered
  <2> QED
    BY <2>3, <2>4 DEF Asking
<1>5. CASE AskToResume
  <2>1. PICK w \in {"Debugger.resume", "Debugger.stepOver"} : Request(w, Nothing, Forgetful)
    BY <1>5 DEF AskToResume, Forgetful
  <2>2. w \in Ends /\ client.frames # <<>>
    BY <1>5 DEF AskToResume, Steps
  <2>3. Sends(Inquiry(client.next, w, Nothing))
    BY <2>1, <2>2, ControlSends
  <2>4. Mannered(w, Nothing)
    BY <2>2, <2>1 DEF Mannered, Unaware
  <2> QED
    BY <2>3, <2>4 DEF Asking
<1>6. CASE AskForValue
  <2> DEFINE w == "Debugger.evaluateOnCallFrame"
             p(e) == Obj([callFrameId |-> Word(Decimal(0)), expression |-> Str(e)])
  <2>1. PICK e \in Expressions : Request(w, p(e), client)
    BY <1>6 DEF AskForValue
  <2>2. w \notin Ends /\ client.frames # <<>>
    BY <1>6 DEF AskForValue, Steps
  <2>3. Mannered(w, p(e))
    <3>1. \E x \in Expressions : p(e) = Obj([callFrameId |-> Word(Decimal(0)), expression |-> Str(x)])
      OBVIOUS
    <3> HIDE DEF p
    <3> QED
      BY <2>2, <3>1 DEF Mannered, Unaware
  <2> HIDE DEF p
  <2>4. Sends(Inquiry(client.next, w, p(e)))
    BY <2>1, <2>2, RequestSends
  <2> QED
    BY <2>3, <2>4 DEF Asking
<1>7. CASE AskForProperties
  <2> DEFINE w == "Runtime.getProperties"
             p(oid) == Obj([objectId |-> Str(oid)])
  <2>1. PICK oid \in ScopeIds(client.frames) : Request(w, p(oid), client)
    BY <1>7 DEF AskForProperties
  <2>2. w \notin Ends
    BY DEF Steps
  <2>3. client.frames # <<>>
    <3> SUFFICES ASSUME client.frames = <<>> PROVE FALSE
      OBVIOUS
    <3>1. 1..Len(client.frames) = {}
      OBVIOUS
    <3> QED
      BY <2>1, <3>1 DEF ScopeIds
  <2>4. Mannered(w, p(oid))
    <3>1. \E x \in ScopeIds(client.frames) : p(oid) = Obj([objectId |-> Str(x)])
      BY <2>1
    <3> HIDE DEF p
    <3> QED
      BY <2>2, <2>3, <3>1 DEF Mannered, Unaware
  <2> HIDE DEF p
  <2>5. Sends(Inquiry(client.next, w, p(oid)))
    BY <2>1, <2>2, RequestSends
  <2> QED
    BY <2>4, <2>5 DEF Asking
<1> QED
  BY <1>1, <1>2, <1>3, <1>4, <1>5, <1>6, <1>7 DEF Ask

-----------------------------------------------------------------------------
(* Queues of messages.                                                     *)

\* Three sequences are over one set.
LEMMA AlikeSeqs ==
    ASSUME NEW s, NEW t, NEW u, IsSeq(s), IsSeq(t), IsSeq(u)
    PROVE  \E S : s \in Seq(S) /\ t \in Seq(S) /\ u \in Seq(S)
<1> DEFINE S == Range(s) \union Range(t) \union Range(u)
<1>1. s \in Seq(S)
  <2>1. Len(s) \in Nat /\ s = [i \in 1..Len(s) |-> s[i]] /\ \A i \in 1..Len(s) : s[i] \in S
    BY SeqIs
  <2> QED
    BY <2>1
<1>2. t \in Seq(S)
  <2>1. Len(t) \in Nat /\ t = [i \in 1..Len(t) |-> t[i]] /\ \A i \in 1..Len(t) : t[i] \in S
    BY SeqIs
  <2> QED
    BY <2>1
<1>3. u \in Seq(S)
  <2>1. Len(u) \in Nat /\ u = [i \in 1..Len(u) |-> u[i]] /\ \A i \in 1..Len(u) : u[i] \in S
    BY SeqIs
  <2> QED
    BY <2>1
<1> QED
  BY <1>1, <1>2, <1>3

\* Joining sequences is associative.
LEMMA Associates ==
    ASSUME NEW s, NEW t, NEW u, IsSeq(s), IsSeq(t), IsSeq(u)
    PROVE  (s \o t) \o u = s \o (t \o u)
<1>1. PICK S : s \in Seq(S) /\ t \in Seq(S) /\ u \in Seq(S)
  BY AlikeSeqs
<1> QED
  BY <1>1, ConcatAssociative

\* Appending is joining a sequence of one.
LEMMA AppendOn ==
    ASSUME NEW s, NEW x, IsSeq(s)
    PROVE  Append(s, x) = s \o <<x>>
<1>1. PICK S : s \in Seq(S) /\ <<x>> \in Seq(S)
  BY AlikeSeqs, SingleIs
<1>2. x \in S
  BY <1>1, SingleIs, ElementOfSeq
<1> QED
  BY <1>1, <1>2, AppendIsConcat

\* A sequence is its first element and the rest.
LEMMA HeadOn ==
    ASSUME NEW s, IsSeq(s), s # <<>>
    PROVE  s = <<Head(s)>> \o Tail(s)
<1> DEFINE x == Head(s)
           t == Tail(s)
           u == <<x>> \o t
<1>1. IsSeq(t) /\ Len(s) >= 1 /\ Len(t) = Len(s) - 1 /\ x = s[1] /\ \A i \in 1..Len(s) - 1 : t[i] = s[i + 1]
  BY TailIs
<1>2. IsSeq(<<x>>) /\ Len(<<x>>) = 1 /\ <<x>>[1] = x
  BY SingleIs
<1>0. Len(s) \in Nat
  BY SeqIs
<1> HIDE DEF x, t
<1>3. /\ IsSeq(u) /\ Len(u) = 1 + Len(t) /\ u[1] = x
      /\ \A i \in 1..Len(t) : u[1 + i] = t[i]
  BY <1>1, <1>2, ConcatIs
<1> HIDE DEF u
<1>4. ASSUME NEW i \in 1..Len(s) PROVE s[i] = u[i]
  <2>1. CASE i = 1
    BY <2>1, <1>1, <1>3
  <2>2. CASE i # 1
    <3> DEFINE j == i - 1
    <3>1. j \in 1..Len(t) /\ j \in 1..Len(s) - 1 /\ i = 1 + j /\ i = j + 1
      BY <2>2, <1>0, <1>1
    <3> HIDE DEF j
    <3>2. t[j] = s[j + 1] /\ u[1 + j] = t[j]
      BY <1>1, <1>3, <3>1
    <3> QED
      BY <3>1, <3>2
  <2> QED
    BY <2>1, <2>2
<1>5. Len(s) = Len(u)
  BY <1>0, <1>1, <1>3
<1>6. s = u
  BY <1>3, <1>4, <1>5, SameSequence
<1> QED
  BY <1>6 DEF u, x, t

\* A message passed on is where it was.
LEMMA PassedOn ==
    ASSUME NEW s, NEW t, IsSeq(s), IsSeq(t), t # <<>>
    PROVE  Append(s, Head(t)) \o Tail(t) = s \o t
<1> DEFINE x == Head(t)
           u == Tail(t)
<1>1. IsSeq(u) /\ IsSeq(<<x>>) /\ t = <<x>> \o u
  BY TailIs, SingleIs, HeadOn
<1> HIDE DEF x, u
<1>2. Append(s, x) = s \o <<x>>
  BY AppendOn
<1>3. (s \o <<x>>) \o u = s \o (<<x>> \o u)
  BY <1>1, Associates
<1> QED
  BY <1>1, <1>2, <1>3 DEF x, u

\* Removing the first element leaves the rest.
LEMMA FirstRemoved ==
    ASSUME NEW s, IsSeq(s), s # <<>>
    PROVE  RemoveAt(s, 1) = Tail(s)
<1>1. s \in Seq(Range(s))
  BY DEF IsSeq
<1> DEFINE S == Range(s)
<1>2. s \in Seq(S)
  BY <1>1
<1> HIDE DEF S
<1>3. Len(s) \in Nat
  BY <1>2
<1>4. SubSeq(s, 1, 0) = <<>> /\ Tail(s) = SubSeq(s, 2, Len(s))
  BY <1>2, SubSeqEmpty, TailIsSubSeq
<1>5. IsSeq(Tail(s))
  BY TailIs
<1>6. RemoveAt(s, 1) = SubSeq(s, 1, 0) \o SubSeq(s, 2, Len(s))
  BY <1>3 DEF RemoveAt
<1> QED
  BY <1>4, <1>5, <1>6, ConcatNone

\* One message, numbered or not.
LEMMA NumberedOne ==
    ASSUME NEW x
    PROVE  Numbered(<<x>>) = IF Has(x, "id") THEN <<x>> ELSE <<>>
<1>1. <<x>> = Append(<<>>, x)
  OBVIOUS
<1>2. Numbered(Append(<<>>, x)) = IF Has(x, "id") THEN Append(Numbered(<<>>), x) ELSE Numbered(<<>>)
  BY EmptyIs, NumberedAppend
<1> QED
  BY <1>1, <1>2, NumberedNone

\* The numbered messages, by the first message and the rest.
LEMMA NumberedHead ==
    ASSUME NEW s, IsSeq(s), s # <<>>
    PROVE  Numbered(s) = IF Has(Head(s), "id") THEN <<Head(s)>> \o Numbered(Tail(s))
                         ELSE Numbered(Tail(s))
<1> DEFINE x == Head(s)
           t == Tail(s)
<1>1. IsSeq(t) /\ IsSeq(<<x>>) /\ s = <<x>> \o t
  BY TailIs, SingleIs, HeadOn
<1> HIDE DEF x, t
<1>2. Numbered(s) = Numbered(<<x>>) \o Numbered(t) /\ IsSeq(Numbered(t))
  BY <1>1, NumberedConcat, NumberedFrom DEF Numerous
<1>3. Numbered(s) = IF Has(x, "id") THEN <<x>> \o Numbered(t) ELSE Numbered(t)
  BY <1>2, NumberedOne, ConcatNone
<1> QED
  BY <1>3 DEF x, t

\* The numbered messages when the first one is taken.
LEMMA NumberedTaken ==
    ASSUME NEW s, IsSeq(s), s # <<>>, Has(Head(s), "id")
    PROVE  /\ Len(Numbered(s)) = Len(Numbered(Tail(s))) + 1
           /\ Numbered(s)[1] = Head(s)
           /\ \A k \in 1..Len(Numbered(Tail(s))) : Numbered(s)[k + 1] = Numbered(Tail(s))[k]
<1> DEFINE x == Head(s)
           a == Numbered(Tail(s))
<1>1. Numbered(s) = <<x>> \o a
  BY NumberedHead
<1>2. IsSeq(a)
  BY TailIs, NumberedFrom DEF Numerous
<1> HIDE DEF x, a
<1>3. IsSeq(<<x>>) /\ Len(<<x>>) = 1 /\ <<x>>[1] = x
  BY SingleIs
<1>4. /\ Len(<<x>> \o a) = 1 + Len(a) /\ (<<x>> \o a)[1] = x
      /\ \A k \in 1..Len(a) : (<<x>> \o a)[1 + k] = a[k]
  BY <1>2, <1>3, ConcatIs
<1>5. Len(a) \in Nat
  BY <1>2, SeqIs
<1>6. \A k \in 1..Len(a) : k + 1 = 1 + k
  BY <1>5
<1>7. /\ Len(Numbered(s)) = Len(a) + 1 /\ Numbered(s)[1] = x
      /\ \A k \in 1..Len(a) : Numbered(s)[k + 1] = a[k]
  BY <1>1, <1>4, <1>5, <1>6
<1> QED
  BY <1>7 DEF x, a

-----------------------------------------------------------------------------
(* Requests and their answers.                                             *)

\* A number within bounds is read back as it was (get_int).
LEMMA NumIs ==
    ASSUME NEW i \in 0..MaxInt
    PROVE  IntOf(Num(i)) = i
<1>1. Num(i).t = "number" /\ Num(i).n = Decimal(i)
  BY DEF Num, Numeral
<1>2. IntOf(Num(i)) = CHOOSE j \in 0..MaxInt : Decimal(j) = Decimal(i)
  BY <1>1 DEF IntOf
<1>3. \A j \in 0..MaxInt : Decimal(j) = Decimal(i) => j = i
  BY ValueAssumption
<1> QED
  BY <1>2, <1>3

\* Different numbers are written differently.
LEMMA NumsDiffer ==
    ASSUME NEW i \in 0..MaxInt, NEW j \in 0..MaxInt, Num(i) = Num(j)
    PROVE  i = j
<1>1. Num(i).n = Decimal(i) /\ Num(j).n = Decimal(j)
  BY DEF Num, Numeral
<1> QED
  BY <1>1, ValueAssumption

\* A request has an id that is read as it was written.
LEMMA AsksIs ==
    ASSUME NEW q, Asks(q)
    PROVE  /\ Has(q, "id") /\ \E i \in 1..MaxRequests : Get(q, "id") = Num(i)
           /\ Params(q) = Get(q, "params")
           /\ IntOf(Get(q, "id")) \in Nat \ {0} /\ Num(IntOf(Get(q, "id"))) = Get(q, "id")
<1>1. PICK i \in 1..MaxRequests :
          q = Obj([id |-> Num(i), method |-> Get(q, "method"), params |-> Get(q, "params")])
  BY DEF Asks
<1> DEFINE o == [id |-> Num(i), method |-> Get(q, "method"), params |-> Get(q, "params")]
<1>2. DOMAIN o = {"id", "method", "params"} /\ o["id"] = Num(i) /\ o["params"] = Get(q, "params")
  OBVIOUS
<1>3. q = Obj(o)
  BY <1>1
<1> HIDE DEF o
<1>4. Has(q, "id") /\ Get(q, "id") = Num(i) /\ Has(q, "params") /\ q.o["params"] = Get(q, "params")
  BY <1>2, <1>3, FieldOf
<1>5. i \in 0..MaxInt /\ i \in Nat \ {0}
  BY InspectionAssumption, ValueAssumption
<1>6. IntOf(Get(q, "id")) = i
  BY <1>4, <1>5, NumIs
<1>7. Params(q) = Get(q, "params")
  BY <1>4 DEF Params
<1> QED
  BY <1>4, <1>5, <1>6, <1>7

\* An answer, and what is read of it.
Response(q, result) == Obj([id |-> Get(q, "id"), result |-> result])

\* The parts of a response (send_response).
LEMMA ResponseIs ==
    ASSUME NEW q, NEW r
    PROVE  /\ Has(Response(q, r), "id") /\ Get(Response(q, r), "id") = Get(q, "id")
           /\ Get(Response(q, r), "result") = r /\ Response(q, r).o["result"] = r
<1> DEFINE o == [id |-> Get(q, "id"), result |-> r]
<1>1. DOMAIN o = {"id", "result"} /\ o["id"] = Get(q, "id") /\ o["result"] = r
  OBVIOUS
<1>2. Response(q, r) = Obj(o)
  BY DEF Response
<1> HIDE DEF o
<1> QED
  BY <1>1, <1>2, FieldOf

\* A handler's response comes after the events it sends.
LEMMA AnswerIs ==
    ASSUME NEW q, Asks(q), NEW events, NEW result, Answer(q, events, result)
    PROVE  todo' = events \o <<Response(q, result)>>
<1>1. ~(IntOf(Get(q, "id")) <= 0) /\ Num(IntOf(Get(q, "id"))) = Get(q, "id")
  BY AsksIs
<1> QED
  BY <1>1 DEF Answer, Reply, Response

\* The requests still to be handled, and the answers.
LEMMA NextAsked ==
    ASSUME TypeOK, Queued, sent # <<>>
    PROVE  /\ IsSeq(Answers) /\ Len(Answers) + 1 \in 1..Len(client.waiting)
           /\ Head(sent) = client.waiting[Len(Answers) + 1] /\ Asks(Head(sent))
<1>1. IsSeq(told \o todo) /\ IsSeq(sent)
  BY ConcatIs DEF TypeOK
<1>2. IsSeq(Answers) /\ Len(Answers) \in Nat /\ Len(sent) \in Nat /\ Len(sent) > 0
  BY <1>1, NumberedFrom, SeqIs DEF Answers, Numerous
<1>3. Head(sent) = sent[1]
  BY <1>1, TailIs
<1>4. /\ Len(client.waiting) = Len(Answers) + Len(sent)
      /\ sent[1] = client.waiting[Len(Answers) + 1]
  BY <1>2 DEF Queued
<1>5. Len(Answers) + 1 \in 1..Len(client.waiting)
  BY <1>2, <1>4
<1>6. Asks(client.waiting[Len(Answers) + 1])
  BY <1>5 DEF Queued
<1> QED
  BY <1>2, <1>3, <1>4, <1>5, <1>6

\* The answer at the head of what is told is to the first request waited for.
LEMMA FirstAnswered ==
    ASSUME TypeOK, Queued, told # <<>>, Has(Head(told), "id")
    PROVE  /\ client.waiting # <<>> /\ Head(told) = Answers[1] /\ 1 \in 1..Len(Answers)
           /\ Fits(Head(told), client.waiting[1]) /\ Asked(Head(told)) = 1
<1> DEFINE m == Head(told)
           s == told \o todo
<1>1. IsSeq(told) /\ IsSeq(todo) /\ IsSeq(s) /\ IsSeq(client.waiting) /\ IsSeq(sent)
  BY ConcatIs DEF TypeOK
<1>2. Len(told) \in Nat /\ Len(told) > 0 /\ Len(todo) \in Nat
      /\ Len(s) = Len(told) + Len(todo) /\ s[1] = told[1]
  <2>1. 1 \in 1..Len(told)
    BY <1>1, SeqIs
  <2> QED
    BY <1>1, <2>1, SeqIs, ConcatIs
<1>3. s # <<>> /\ Head(s) = m
  <2>1. s # <<>>
    BY <1>1, <1>2, SeqIs
  <2> QED
    BY <1>1, <1>2, <2>1, TailIs
<1> HIDE DEF s, m
<1>4. IsSeq(Numbered(Tail(s))) /\ IsSeq(Numbered(s)) /\ IsSeq(Tail(s))
  BY <1>1, <1>3, TailIs, NumberedFrom DEF Numerous
<1>5. Answers = Numbered(s)
  BY DEF Answers, s
<1>6. Has(m, "id")
  BY DEF m
<1>7. Len(Answers) = Len(Numbered(Tail(s))) + 1 /\ Answers[1] = m
  BY <1>1, <1>3, <1>5, <1>6, NumberedTaken
<1>8. 1 \in 1..Len(Answers) /\ Len(sent) \in Nat
  BY <1>1, <1>4, <1>7, SeqIs
<1>9. Fits(m, client.waiting[1]) /\ Len(client.waiting) = Len(Answers) + Len(sent)
  BY <1>7, <1>8 DEF Queued
<1>10. Len(client.waiting) \in Nat /\ Len(client.waiting) > 0
  BY <1>1, <1>8, <1>9, SeqIs
<1>11. Get(m, "id") = Get(client.waiting[1], "id")
  <2>1. m = Response(client.waiting[1], Get(m, "result"))
    BY <1>9 DEF Fits, Response
  <2> QED
    BY <2>1, ResponseIs
<1>12. Asked(m) = 1
  <2> DEFINE T == {i \in 1..Len(client.waiting) : Get(client.waiting[i], "id") = Get(m, "id")}
  <2>1. 1 \in T /\ T \in SUBSET Nat /\ \A i \in T : i >= 1
    BY <1>10, <1>11
  <2>2. Asked(m) = Min(T)
    BY DEF Asked
  <2> HIDE DEF T
  <2>3. Min(T) \in T /\ Min(T) <= 1
    BY <2>1, LeastOf
  <2> DEFINE x == Min(T)
  <2>4. x \in Nat /\ x >= 1 /\ x <= 1
    BY <2>1, <2>3
  <2> HIDE DEF x
  <2>5. x = 1
    BY <2>4
  <2> QED
    BY <2>2, <2>5 DEF x
<1>13. client.waiting # <<>>
  BY <1>1, <1>10, SeqIs
<1> QED
  BY <1>7, <1>8, <1>9, <1>12, <1>13 DEF m

-----------------------------------------------------------------------------
(* What the handlers do.                                                   *)

Evaluates(q) == Method(q) = <<"Debugger.evaluateOnCallFrame">>
Lists(q) == Method(q) = <<"Runtime.getProperties">>
Breaks(q) == Method(q) = <<"Debugger.setBreakpointByUrl">>
Enables(q) == Method(q) = <<"Debugger.enable">>

LineOf(q) == IntOf(Get(Params(q), "lineNumber"))
Evaluated(q) == EvaluateOn(Stack(stop), 0, StrOf(Get(Params(q), "expression")), store)

\* What the server answers ...
Responds(q, events, result) ==
    /\ todo' = events \o <<Response(q, result)>>
    /\ events \in {<<>>, <<ScriptParsed(1)>>, <<Context>>}
    /\ Enables(q) => events = <<ScriptParsed(1)>>
    /\ Lists(q) => result = GetProperties(store, StrOf(Get(Params(q), "objectId")))
    /\ Evaluates(q) /\ js = "paused" => result = Evaluated(q).answer
    /\ Breaks(q) =>
          result = Obj([breakpointId |-> BreakpointId(next_bp_id, LineOf(q)),
                        locations    |-> Arr(<<Obj([scriptId   |-> Resolved(NewBreakpoint(Params(q))),
                                                    lineNumber |-> Num(LineOf(q))])>>)])

\* ... and changes in the session, handling q.
Serves(q) ==
    /\ enabled' \in BOOLEAN /\ active' \in BOOLEAN
    /\ due' \subseteq {"pause", "entry", "step"}
    /\ stop' = stop /\ why' = why /\ frames' = frames
    /\ js' = IF IsControl(q) /\ js = "paused" THEN "released"
             ELSE IF Method(q) = <<"Runtime.runIfWaitingForDebugger">> /\ js = "gate" THEN "running"
             ELSE js
    /\ \A n \in DOMAIN breakpoints' :
          \/ n \in DOMAIN breakpoints /\ breakpoints'[n] = breakpoints[n]
          \/ Breaks(q) /\ n = next_bp_id /\ breakpoints'[n] = NewBreakpoint(Params(q))
    /\ next_bp_id' = IF Breaks(q) THEN next_bp_id + 1 ELSE next_bp_id
    /\ Enables(q) => breakpoints' = breakpoints /\ due' = due
    /\ store' = IF Evaluates(q) /\ js = "paused" THEN Evaluated(q).st ELSE store
    /\ Evaluates(q) /\ js = "paused" => Room(store')

Served(q) == (\E events, result : Responds(q, events, result)) /\ Serves(q)

\* The frame that is asked about is the innermost one.
LEMMA LevelIs ==
    ASSUME NEW e
    PROVE  LET p == Obj([callFrameId |-> Word(Decimal(0)), expression |-> Str(e)])
           IN  /\ Has(p, "callFrameId") /\ IntOf(Numeral(Head(StrOf(p.o["callFrameId"])))) = 0
               /\ StrOf(Get(p, "expression")) = e
<1> DEFINE o == [callFrameId |-> Word(Decimal(0)), expression |-> Str(e)]
           p == Obj(o)
<1>1. DOMAIN o = {"callFrameId", "expression"} /\ o["callFrameId"] = Word(Decimal(0))
      /\ o["expression"] = Str(e)
  OBVIOUS
<1> HIDE DEF o
<1>2. Has(p, "callFrameId") /\ p.o["callFrameId"] = Word(Decimal(0)) /\ Get(p, "expression") = Str(e)
  BY <1>1, FieldOf
<1>3. StrOf(Word(Decimal(0))) = <<Decimal(0)>> /\ StrOf(Str(e)) = e
  BY DEF StrOf, Word, Str
<1>4. Head(<<Decimal(0)>>) = Decimal(0)
  OBVIOUS
<1>5. IntOf(Numeral(Decimal(0))) = 0
  BY ValueAssumption, NumIs DEF Num
<1> QED
  BY <1>2, <1>3, <1>4, <1>5 DEF o

\* A request has one method.
LEMMA OtherMethods ==
    ASSUME NEW q, NEW w, Method(q) = <<w>>
    PROVE  /\ Evaluates(q) <=> w = "Debugger.evaluateOnCallFrame"
           /\ Lists(q) <=> w = "Runtime.getProperties"
           /\ Breaks(q) <=> w = "Debugger.setBreakpointByUrl"
           /\ Enables(q) <=> w = "Debugger.enable"
           /\ IsControl(q) <=> w \in Steps \union {"Debugger.resume"}
           /\ Method(q) = <<"Runtime.runIfWaitingForDebugger">> <=> w = "Runtime.runIfWaitingForDebugger"
  BY Words DEF Evaluates, Lists, Breaks, Enables, IsControl

\* Each handler answers as Served says: Debugger.enable ...
LEMMA EnableServes ==
    ASSUME TypeOK, NEW q, Asks(q), Enable(q)
    PROVE  Served(q)
<1>1. Method(q) = <<"Debugger.enable">>
  BY DEF Enable
<1>2. [i \in 1..Len(Scripts) |-> ScriptParsed(i)] = <<ScriptParsed(1)>>
  <2>1. Len(Scripts) = 1
    BY DEF Scripts
  <2> QED
    BY <2>1
<1>3. todo' = <<ScriptParsed(1)>> \o <<Response(q, Obj([debuggerId |-> Word("quickjs-debugger-1")]))>>
  BY <1>2, AnswerIs DEF Enable
<1>4. \E result : Responds(q, <<ScriptParsed(1)>>, result)
  BY <1>1, <1>3, OtherMethods DEF Responds
<1>5. Serves(q)
  BY <1>1, OtherMethods DEF Enable, table, pause, TypeOK, Serves, Steps
<1> QED
  BY <1>4, <1>5 DEF Served

\* ... the requests that set one flag or erase a breakpoint ...
LEMMA OthersServe ==
    ASSUME TypeOK, NEW q, Asks(q), Disable(q) \/ RemoveBreakpoint(q) \/ SetActive(q) \/ RequestPause(q)
    PROVE  Served(q)
<1>1. PICK w : Method(q) = <<w>> /\ w \in {"Debugger.disable", "Debugger.removeBreakpoint",
                                           "Debugger.setBreakpointsActive", "Debugger.pause"}
  BY DEF Disable, RemoveBreakpoint, SetActive, RequestPause
<1>2. todo' = <<>> \o <<Response(q, Nothing)>>
  BY AnswerIs DEF Disable, RemoveBreakpoint, SetActive, RequestPause
<1>3. Responds(q, <<>>, Nothing)
  BY <1>1, <1>2, OtherMethods DEF Responds
<1>4. ~IsControl(q) /\ ~Evaluates(q) /\ ~Breaks(q) /\ ~Enables(q)
      /\ Method(q) # <<"Runtime.runIfWaitingForDebugger">>
  BY <1>1, OtherMethods DEF Steps
<1>5. /\ \A n \in DOMAIN breakpoints' : n \in DOMAIN breakpoints /\ breakpoints'[n] = breakpoints[n]
      /\ stop' = stop /\ why' = why /\ frames' = frames /\ js' = js /\ next_bp_id' = next_bp_id
      /\ store' = store
  <2>1. CASE Disable(q) \/ SetActive(q) \/ RequestPause(q)
    BY <2>1 DEF Disable, SetActive, RequestPause, table, pause
  <2>2. CASE RemoveBreakpoint(q)
    BY <2>2 DEF RemoveBreakpoint, pause, Restrict
  <2> QED
    BY <2>1, <2>2
<1>6. enabled' \in BOOLEAN /\ active' \in BOOLEAN /\ due' \subseteq {"pause", "entry", "step"}
  BY DEF Disable, RemoveBreakpoint, SetActive, RequestPause, table, pause, TypeOK
<1>7. Serves(q)
  BY <1>4, <1>5, <1>6 DEF Serves
<1> QED
  BY <1>3, <1>7 DEF Served

\* ... those that let the script run ...
LEMMA RunsServe ==
    ASSUME TypeOK, NEW q, Asks(q), Control(q) \/ RunIfWaiting(q)
    PROVE  Served(q)
<1>1. PICK w : Method(q) = <<w>> /\ (Control(q) => w \in Steps \union {"Debugger.resume"})
                                 /\ (RunIfWaiting(q) => w = "Runtime.runIfWaitingForDebugger")
                                 /\ w \in Steps \union {"Debugger.resume", "Runtime.runIfWaitingForDebugger"}
  <2>1. CASE Control(q)
    <3>1. PICK c \in Steps \union {"Debugger.resume"} : Method(q) = <<c>>
      BY <2>1 DEF Control
    <3>2. c # "Runtime.runIfWaitingForDebugger"
      BY <3>1 DEF Steps
    <3>3. ~RunIfWaiting(q)
      BY <3>1, <3>2, Words DEF RunIfWaiting
    <3> QED
      BY <3>1, <3>3
  <2>2. CASE ~Control(q) /\ RunIfWaiting(q)
    BY <2>2 DEF RunIfWaiting
  <2> QED
    BY <2>1, <2>2
<1>2. todo' = <<>> \o <<Response(q, Nothing)>>
  BY AnswerIs DEF Control, RunIfWaiting
<1>3. Responds(q, <<>>, Nothing)
  BY <1>1, <1>2, OtherMethods DEF Responds, Steps
<1>4. ~Evaluates(q) /\ ~Breaks(q) /\ ~Enables(q)
  BY <1>1, OtherMethods DEF Steps
<1>5. js' = IF IsControl(q) /\ js = "paused" THEN "released"
            ELSE IF Method(q) = <<"Runtime.runIfWaitingForDebugger">> /\ js = "gate" THEN "running"
            ELSE js
  <2>1. CASE Control(q)
    <3>1. IsControl(q) /\ Method(q) # <<"Runtime.runIfWaitingForDebugger">>
      BY <1>1, <2>1, OtherMethods DEF Steps
    <3> QED
      BY <2>1, <3>1 DEF Control
  <2>2. CASE RunIfWaiting(q)
    <3>1. ~IsControl(q) /\ Method(q) = <<"Runtime.runIfWaitingForDebugger">>
      BY <1>1, <2>2, OtherMethods DEF Steps
    <3> QED
      BY <2>2, <3>1 DEF RunIfWaiting
  <2> QED
    BY <2>1, <2>2
<1>6. /\ breakpoints' = breakpoints /\ stop' = stop /\ why' = why /\ frames' = frames
      /\ next_bp_id' = next_bp_id /\ store' = store /\ enabled' = enabled /\ active' = active
  BY DEF Control, RunIfWaiting, table, pause
<1>7. due' \subseteq {"pause", "entry", "step"}
  BY DEF Control, RunIfWaiting, TypeOK
<1>8. Serves(q)
  BY <1>4, <1>5, <1>6, <1>7 DEF Serves, TypeOK
<1> QED
  BY <1>3, <1>8 DEF Served

\* ... Debugger.setBreakpointByUrl ...
LEMMA BreakServes ==
    ASSUME TypeOK, NEW q, Asks(q), SetBreakpoint(q)
    PROVE  Served(q)
<1> DEFINE line == IntOf(Get(Params(q), "lineNumber"))
           bp == NewBreakpoint(Params(q))
           result == Obj([breakpointId |-> BreakpointId(next_bp_id, line),
                          locations    |-> Arr(<<Obj([scriptId   |-> Resolved(bp),
                                                      lineNumber |-> Num(line)])>>)])
<1>1. Method(q) = <<"Debugger.setBreakpointByUrl">> /\ Answer(q, <<>>, result)
  BY DEF SetBreakpoint
<1>2. breakpoints' = Put(breakpoints, next_bp_id, bp)
  BY DEF SetBreakpoint
<1> HIDE DEF bp
<1>3. \A n \in DOMAIN breakpoints' :
          \/ n \in DOMAIN breakpoints /\ breakpoints'[n] = breakpoints[n]
          \/ n = next_bp_id /\ breakpoints'[n] = bp
  BY <1>2 DEF Put
<1>4. /\ next_bp_id' = next_bp_id + 1
      /\ UNCHANGED <<enabled, active, due, js, stop, why, frames, store>>
  BY DEF SetBreakpoint, pause
<1>5. Breaks(q) /\ ~IsControl(q) /\ ~Evaluates(q) /\ ~Enables(q) /\ ~Lists(q)
      /\ Method(q) # <<"Runtime.runIfWaitingForDebugger">>
  BY <1>1, OtherMethods DEF Steps
<1>6. Serves(q)
  BY <1>3, <1>4, <1>5 DEF Serves, TypeOK, bp
<1> HIDE DEF result
<1>7. todo' = <<>> \o <<Response(q, result)>>
  BY <1>1, AnswerIs
<1>8. Responds(q, <<>>, result)
  BY <1>5, <1>7 DEF Responds, result, LineOf, bp
<1> QED
  BY <1>6, <1>8 DEF Served

\* ... Debugger.evaluateOnCallFrame ...
LEMMA EvaluateServes ==
    ASSUME TypeOK, NEW q, Asks(q), Evaluate(q)
    PROVE  Served(q)
<1> DEFINE result == IF js = "paused" THEN Evaluated(q).answer ELSE Undefined
<1>1. Method(q) = <<"Debugger.evaluateOnCallFrame">>
  BY DEF Evaluate
<1>2. PICK e \in Expressions : Params(q) = Obj([callFrameId |-> Word(Decimal(0)), expression |-> Str(e)])
  BY <1>1 DEF Asks
<1> DEFINE p == Params(q)
           level == IF Has(p, "callFrameId") THEN IntOf(Numeral(Head(StrOf(p.o["callFrameId"])))) ELSE 0
<1>3. level = 0
  BY <1>2, LevelIs
<1>4. /\ Answer(q, <<>>, IF js = "paused"
                         THEN EvaluateOn(Stack(stop), level, StrOf(Get(p, "expression")), store).answer
                         ELSE Undefined)
      /\ store' = (IF js = "paused"
                   THEN EvaluateOn(Stack(stop), level, StrOf(Get(p, "expression")), store).st
                   ELSE store)
      /\ Room(store')
      /\ UNCHANGED <<enabled, table, due, js, pause>>
  BY DEF Evaluate
<1> HIDE DEF level
<1>5. Answer(q, <<>>, result) /\ store' = IF js = "paused" THEN Evaluated(q).st ELSE store
  BY <1>3, <1>4 DEF Evaluated
<1>6. Evaluates(q) /\ ~IsControl(q) /\ ~Breaks(q) /\ ~Enables(q) /\ ~Lists(q)
      /\ Method(q) # <<"Runtime.runIfWaitingForDebugger">>
  BY <1>1, OtherMethods DEF Steps
<1>7. Serves(q)
  BY <1>4, <1>5, <1>6 DEF Serves, TypeOK, table, pause
<1> HIDE DEF result
<1>8. todo' = <<>> \o <<Response(q, result)>>
  BY <1>5, AnswerIs
<1>9. Responds(q, <<>>, result)
  BY <1>6, <1>8 DEF Responds, result
<1> QED
  BY <1>7, <1>9 DEF Served

\* ... and those that read.
LEMMA QueryServes ==
    ASSUME TypeOK, NEW q, Asks(q), Query(q)
    PROVE  Served(q)
<1> DEFINE events == IF Method(q) = <<"Runtime.enable">> THEN <<Context>> ELSE <<>>
<1>1. /\ Method(q) \notin {<<c>> : c \in Changing}
      /\ Answer(q, events, Result(q)) /\ UNCHANGED session
  BY DEF Query
<1>2. ~IsControl(q) /\ ~Evaluates(q) /\ ~Breaks(q) /\ ~Enables(q)
      /\ Method(q) # <<"Runtime.runIfWaitingForDebugger">>
  <2>1. ASSUME NEW c \in Changing PROVE Method(q) # <<c>>
    BY <1>1
  <2> QED
    BY <2>1 DEF IsControl, Evaluates, Breaks, Enables, Changing, Steps
<1>3. Serves(q)
  BY <1>1, <1>2 DEF Serves, TypeOK, session, table, pause
<1>4. Lists(q) => Result(q) = GetProperties(store, StrOf(Get(Params(q), "objectId")))
  BY DEF Lists, Result
<1>5. events \in {<<>>, <<ScriptParsed(1)>>, <<Context>>}
  OBVIOUS
<1> HIDE DEF events
<1>6. todo' = events \o <<Response(q, Result(q))>>
  BY <1>1, AnswerIs
<1>7. Responds(q, events, Result(q))
  BY <1>2, <1>4, <1>5, <1>6 DEF Responds
<1> QED
  BY <1>3, <1>7 DEF Served

\* The server handles the first request the client waits for.
LEMMA HandleEffect ==
    ASSUME TypeOK, Queued, HandleNext
    PROVE  /\ sent # <<>> /\ todo = <<>> /\ sent' = Tail(sent)
           /\ setup' = setup /\ told' = told /\ client' = client
           /\ Served(Head(sent))
<1> DEFINE q == Head(sent)
<1>1. sent # <<>> /\ Handle(q)
  BY DEF HandleNext
<1>2. Asks(q)
  BY <1>1, NextAsked
<1> HIDE DEF q
<1>3. todo = <<>> /\ sent' = Tail(sent) /\ setup' = setup /\ told' = told /\ client' = client
  BY <1>1 DEF Handle
<1>4. Enable(q) \/ Disable(q) \/ SetBreakpoint(q) \/ RemoveBreakpoint(q) \/ SetActive(q)
      \/ Control(q) \/ RequestPause(q) \/ RunIfWaiting(q) \/ Evaluate(q) \/ Query(q)
  BY <1>1 DEF Handle
<1>5. Served(q)
  BY <1>2, <1>4, EnableServes, OthersServe, RunsServe, BreakServes, EvaluateServes, QueryServes
<1> QED
  BY <1>1, <1>3, <1>5 DEF q

-----------------------------------------------------------------------------
(* What the client learns.                                                 *)

\* The parts of an event (send_event).
LEMMA EventIs ==
    ASSUME NEW w, NEW p
    PROVE  /\ Method(Event(w, p)) = <<w>> /\ Params(Event(w, p)) = p
           /\ ~Has(Event(w, p), "id") /\ (IsPaused(Event(w, p)) <=> w = "Debugger.paused")
<1> DEFINE o == [method |-> Word(w), params |-> p]
           m == Event(w, p)
<1>1. DOMAIN o = {"method", "params"} /\ o["method"] = Word(w) /\ o["params"] = p /\ m = Obj(o)
  BY DEF Event
<1> HIDE DEF o, m
<1>2. Has(m, "params") /\ m.o["params"] = p /\ Get(m, "method") = Word(w)
  BY <1>1, FieldOf
<1>3. ~Has(m, "id")
  BY <1>1 DEF Has, Obj
<1>4. Method(m) = <<w>> /\ Params(m) = p
  BY <1>2 DEF Method, Params, StrOf, Word, Str
<1>5. IsPaused(m) <=> w = "Debugger.paused"
  BY <1>4, Words DEF IsPaused
<1> QED
  BY <1>3, <1>4, <1>5 DEF m

\* The parts of Debugger.paused (do_pause).
LEMMA PausedIs ==
    ASSUME NEW callFrames, NEW reason, NEW hit
    PROVE  LET m == Paused(callFrames, reason, hit)
           IN  /\ Method(m) = <<"Debugger.paused">> /\ ~Has(m, "id") /\ IsPaused(m)
               /\ Params(m).o["callFrames"].a = callFrames /\ Params(m).o["hitBreakpoints"].a = hit
<1> DEFINE p == Obj([callFrames |-> Arr(callFrames), reason |-> Word(reason), hitBreakpoints |-> Arr(hit)])
           m == Paused(callFrames, reason, hit)
<1>1. p.o["callFrames"].a = callFrames /\ p.o["hitBreakpoints"].a = hit
  BY DEF Obj, Arr
<1> HIDE DEF p
<1>2. m = Event("Debugger.paused", p)
  BY DEF Paused, p
<1> HIDE DEF m
<1>3. Method(m) = <<"Debugger.paused">> /\ Params(m) = p /\ ~Has(m, "id") /\ IsPaused(m)
  BY <1>2, EventIs
<1> QED
  BY <1>1, <1>3 DEF m

\* The parts of Debugger.scriptParsed for the one script.
LEMMA ScriptParsedIs ==
    /\ Method(ScriptParsed(1)) = <<"Debugger.scriptParsed">> /\ ~Has(ScriptParsed(1), "id")
    /\ Params(ScriptParsed(1)).o["scriptId"].s = <<Decimal(1)>>
    /\ Params(ScriptParsed(1)).o["url"].s = AnnouncedUrl
<1> DEFINE p == Obj([scriptId |-> Word(Decimal(1)), url |-> Str(ToFileUrl(Scripts[1]))])
           m == ScriptParsed(1)
<1>1. p.o["scriptId"].s = <<Decimal(1)>> /\ p.o["url"].s = AnnouncedUrl
  BY DEF Obj, Str, Word, AnnouncedUrl
<1> HIDE DEF p
<1>2. m = Event("Debugger.scriptParsed", p)
  BY DEF ScriptParsed, p
<1> HIDE DEF m
<1>3. Method(m) = <<"Debugger.scriptParsed">> /\ Params(m) = p /\ ~Has(m, "id")
  BY <1>2, EventIs
<1> QED
  BY <1>1, <1>3 DEF m

\* Neither of a handler's events has an id or is Debugger.paused.
LEMMA EventsAre ==
    ASSUME NEW m \in Events
    PROVE  ~Has(m, "id") /\ ~IsPaused(m)
<1>1. CASE m = ScriptParsed(1)
  BY <1>1, EventIs DEF ScriptParsed
<1>2. CASE m = Context
  BY <1>2, EventIs DEF Context
<1>3. CASE m = Event("Debugger.resumed", Nothing)
  BY <1>3, EventIs
<1> QED
  BY <1>1, <1>2, <1>3 DEF Events

\* What the client learns from an event ...
TakesEvent(m) ==
    /\ client'.waiting = client.waiting /\ client'.bound = client.bound
    /\ client'.watch = client.watch /\ client'.list = client.list
    /\ \/ /\ m = ScriptParsed(1)
          /\ client'.scripts = Put(client.scripts, <<Decimal(1)>>, AnnouncedUrl)
          /\ client'.frames = client.frames /\ client'.hit = client.hit
       \/ /\ m \in {Context, Event("Debugger.resumed", Nothing)}
          /\ client'.scripts = client.scripts
          /\ client'.frames = client.frames /\ client'.hit = client.hit
       \/ /\ js = "paused" /\ m = Paused(frames, why[1], why[2])
          /\ client'.scripts = client.scripts
          /\ client'.frames = frames /\ client'.hit = why[2]

\* ... and from an answer r to q.
TakesAnswer(q, r) ==
    /\ client'.waiting = Tail(client.waiting) /\ client'.scripts = client.scripts
    /\ client'.frames = client.frames /\ client'.hit = client.hit
    /\ client'.bound = IF Breaks(q)
                       THEN Put(client.bound, r.o["breakpointId"].s,
                                [line |-> Get(Params(q), "lineNumber"), places |-> r.o["locations"].a])
                       ELSE client.bound
    /\ \/ client'.watch = client.watch
       \/ /\ Evaluates(q) /\ client.frames # <<>>
          /\ client'.watch = <<StrOf(Get(Params(q), "expression")), r>>
    /\ \/ client'.list = client.list
       \/ /\ Lists(q) /\ client.frames # <<>>
          /\ client'.list = <<StrOf(Get(Params(q), "objectId")), r.o["result"].a>>

Takes ==
    LET m == Head(told)
        q == client.waiting[1]
    IN  /\ told # <<>> /\ told' = Tail(told)
        /\ setup' = setup /\ sent' = sent /\ todo' = todo
        /\ enabled' = enabled /\ active' = active /\ breakpoints' = breakpoints
        /\ next_bp_id' = next_bp_id /\ due' = due /\ js' = js /\ stop' = stop /\ why' = why
        /\ frames' = frames /\ store' = store
        /\ DOMAIN client' = DOMAIN client /\ client'.next = client.next
        /\ IF Has(m, "id")
           THEN /\ client.waiting # <<>> /\ m = Answers[1] /\ 1 \in 1..Len(Answers)
                /\ Fits(m, q) /\ TakesAnswer(q, Get(m, "result"))
           ELSE TakesEvent(m)

\* The parts of what the client knows.
Knows(k) == DOMAIN k = {"next", "waiting", "scripts", "bound", "frames", "hit", "watch", "list"}

\* What the client does with an event.
LEMMA HeardIs ==
    ASSUME TypeOK, Reported, told # <<>>, ~Has(Head(told), "id"),
           client' = [Heard(Head(told)) EXCEPT !.waiting = @]
    PROVE  DOMAIN client' = DOMAIN client /\ client'.next = client.next /\ TakesEvent(Head(told))
<1> DEFINE m == Head(told)
           k == Heard(m)
<1>1. Knows(client)
  BY DEF TypeOK, Knows
<1>2. m = told[1] /\ 1 \in 1..Len(told)
  BY TailIs, SeqIs DEF TypeOK
<1>3. m \in Events \/ (js = "paused" /\ m = Paused(frames, why[1], why[2]))
  BY <1>2 DEF Reported
<1>4. client' = [k EXCEPT !.waiting = @]
  OBVIOUS
<1>5. CASE m = ScriptParsed(1)
  <2>1. k = [client EXCEPT !.scripts = Put(@, <<Decimal(1)>>, AnnouncedUrl)]
    BY <1>5, ScriptParsedIs DEF Heard
  <2>2. Knows(k) /\ k.scripts = Put(client.scripts, <<Decimal(1)>>, AnnouncedUrl)
        /\ k.next = client.next /\ k.waiting = client.waiting /\ k.bound = client.bound
        /\ k.watch = client.watch /\ k.list = client.list /\ k.frames = client.frames
        /\ k.hit = client.hit
    BY <1>1, <2>1 DEF Knows
  <2> HIDE DEF k, m
  <2>3. Knows(client') /\ client'.scripts = k.scripts
        /\ client'.next = k.next /\ client'.waiting = k.waiting /\ client'.bound = k.bound
        /\ client'.watch = k.watch /\ client'.list = k.list /\ client'.frames = k.frames
        /\ client'.hit = k.hit
    BY <1>4, <2>2 DEF Knows
  <2>4. DOMAIN client' = DOMAIN client
    BY <1>1, <2>3 DEF Knows
  <2>5. TakesEvent(m)
    BY <1>5, <2>2, <2>3 DEF TakesEvent
  <2> QED
    BY <2>2, <2>3, <2>4, <2>5 DEF m
<1>6. CASE m \in {Context, Event("Debugger.resumed", Nothing)}
  <2>1. Method(m) = <<"Runtime.executionContextCreated">> \/ Method(m) = <<"Debugger.resumed">>
    BY <1>6, EventIs DEF Context
  <2>2. Method(m) # <<"Debugger.scriptParsed">> /\ Method(m) # <<"Debugger.paused">>
    BY <2>1, Words
  <2>3. k = client
    BY <2>2 DEF Heard
  <2> HIDE DEF k, m
  <2>4. Knows(client') /\ client'.scripts = client.scripts
        /\ client'.next = client.next /\ client'.waiting = client.waiting /\ client'.bound = client.bound
        /\ client'.watch = client.watch /\ client'.list = client.list /\ client'.frames = client.frames
        /\ client'.hit = client.hit
    BY <1>1, <1>4, <2>3 DEF Knows
  <2>5. DOMAIN client' = DOMAIN client
    BY <1>1, <2>4 DEF Knows
  <2>6. TakesEvent(m)
    BY <1>6, <2>4 DEF TakesEvent
  <2> QED
    BY <2>4, <2>5, <2>6 DEF m
<1>7. CASE js = "paused" /\ m = Paused(frames, why[1], why[2])
  <2>1. /\ Method(m) = <<"Debugger.paused">> /\ Params(m).o["callFrames"].a = frames
        /\ Params(m).o["hitBreakpoints"].a = why[2]
    BY <1>7, PausedIs
  <2>2. Method(m) # <<"Debugger.scriptParsed">>
    BY <2>1, Words
  <2>3. k = [client EXCEPT !.frames = frames, !.hit = why[2]]
    BY <2>1, <2>2 DEF Heard
  <2>4. Knows(k) /\ k.scripts = client.scripts
        /\ k.next = client.next /\ k.waiting = client.waiting /\ k.bound = client.bound
        /\ k.watch = client.watch /\ k.list = client.list /\ k.frames = frames
        /\ k.hit = why[2]
    BY <1>1, <2>3 DEF Knows
  <2> HIDE DEF k, m
  <2>5. Knows(client') /\ client'.scripts = k.scripts
        /\ client'.next = k.next /\ client'.waiting = k.waiting /\ client'.bound = k.bound
        /\ client'.watch = k.watch /\ client'.list = k.list /\ client'.frames = k.frames
        /\ client'.hit = k.hit
    BY <1>4, <2>4 DEF Knows
  <2>6. DOMAIN client' = DOMAIN client
    BY <1>1, <2>5 DEF Knows
  <2>7. TakesEvent(m)
    BY <1>7, <2>4, <2>5 DEF TakesEvent
  <2> QED
    BY <2>4, <2>5, <2>6, <2>7 DEF m
<1> QED
  BY <1>3, <1>5, <1>6, <1>7 DEF Events

\* What the client does with an answer.
LEMMA LearntIs ==
    ASSUME TypeOK, Queued, told # <<>>, Has(Head(told), "id"), NEW known,
           known = Learnt(Head(told)) \/ (known = client /\ IsLook(client.waiting[1])),
           client' = [known EXCEPT !.waiting = RemoveAt(@, Asked(Head(told)))]
    PROVE  /\ DOMAIN client' = DOMAIN client /\ client'.next = client.next
           /\ TakesAnswer(client.waiting[1], Get(Head(told), "result"))
<1> DEFINE m == Head(told)
           q == client.waiting[1]
           r == Get(m, "result")
<1>1. Knows(client) /\ IsSeq(client.waiting)
  BY DEF TypeOK, Knows
<1>2. client.waiting # <<>> /\ Fits(m, q) /\ Asked(m) = 1
  BY FirstAnswered
<1>3. m.o["result"] = r
  <2>1. m = Response(q, r)
    BY <1>2 DEF Fits, Response
  <2> HIDE DEF m, r, q
  <2> QED
    BY <2>1, ResponseIs
<1>4. client' = [known EXCEPT !.waiting = RemoveAt(@, 1)]
  BY <1>2
<1>5. RemoveAt(client.waiting, 1) = Tail(client.waiting)
  BY <1>1, <1>2, FirstRemoved
<1>6. IsLook(q) => ~Breaks(q)
  BY Words DEF IsLook, Breaks
<1>7. Learnt(m) =
        CASE Breaks(q) ->
                [client EXCEPT !.bound =
                    Put(@, r.o["breakpointId"].s, [line   |-> Get(Params(q), "lineNumber"),
                                                   places |-> r.o["locations"].a])]
          [] Evaluates(q) /\ client.frames # <<>> ->
                [client EXCEPT !.watch = <<StrOf(Get(Params(q), "expression")), r>>]
          [] Lists(q) /\ client.frames # <<>> ->
                [client EXCEPT !.list = <<StrOf(Get(Params(q), "objectId")), r.o["result"].a>>]
          [] OTHER -> client
  BY <1>2, <1>3 DEF Learnt, Breaks, Evaluates, Lists
<1> DEFINE bound == IF Breaks(q) THEN Put(client.bound, r.o["breakpointId"].s,
                                          [line |-> Get(Params(q), "lineNumber"), places |-> r.o["locations"].a])
                    ELSE client.bound
           watch == <<StrOf(Get(Params(q), "expression")), r>>
           list == <<StrOf(Get(Params(q), "objectId")), r.o["result"].a>>
<1>8. ~(Breaks(q) /\ Evaluates(q)) /\ ~(Breaks(q) /\ Lists(q)) /\ ~(Evaluates(q) /\ Lists(q))
  BY Words DEF Breaks, Evaluates, Lists
<1> HIDE DEF m, q, r
<1>9. /\ Knows(known) /\ known.next = client.next /\ known.waiting = client.waiting
      /\ known.scripts = client.scripts /\ known.frames = client.frames /\ known.hit = client.hit
      /\ known.bound = bound
      /\ known.watch = client.watch \/ (Evaluates(q) /\ client.frames # <<>> /\ known.watch = watch)
      /\ known.list = client.list \/ (Lists(q) /\ client.frames # <<>> /\ known.list = list)
  <2>1. CASE known = client /\ IsLook(q)
    <3>1. bound = client.bound
      BY <1>6, <2>1
    <3> HIDE DEF bound
    <3> QED
      BY <1>1, <2>1, <3>1
  <2>0. known = Learnt(m) \/ (known = client /\ IsLook(q))
    BY DEF m, q
  <2>2. CASE Breaks(q) /\ known = Learnt(m)
    <3> DEFINE b == r.o["breakpointId"].s
               e == [line |-> Get(Params(q), "lineNumber"), places |-> r.o["locations"].a]
    <3>0. known = [client EXCEPT !.bound = Put(client.bound, b, e)] /\ bound = Put(client.bound, b, e)
      BY <1>7, <1>8, <2>2
    <3>1. known = [client EXCEPT !.bound = bound]
      <4> HIDE DEF b, e, bound
      <4> QED
        BY <3>0
    <3> HIDE DEF bound, watch, list
    <3>2. DOMAIN client = {"next", "waiting", "scripts", "bound", "frames", "hit", "watch", "list"}
      BY <1>1 DEF Knows
    <3>3. DOMAIN known = DOMAIN client /\ known.bound = bound /\ known.next = client.next
          /\ known.waiting = client.waiting /\ known.scripts = client.scripts
          /\ known.frames = client.frames /\ known.hit = client.hit
          /\ known.watch = client.watch /\ known.list = client.list
      BY <3>1, <3>2
    <3> QED
      BY <1>1, <3>3 DEF Knows
  <2>3. CASE Evaluates(q) /\ client.frames # <<>> /\ known = Learnt(m)
    <3>1. known = [client EXCEPT !.watch = watch] /\ bound = client.bound
      BY <1>7, <1>8, <2>3
    <3> HIDE DEF watch, bound
    <3> QED
      BY <1>1, <2>3, <3>1 DEF Knows
  <2>4. CASE Lists(q) /\ client.frames # <<>> /\ known = Learnt(m)
    <3>1. known = [client EXCEPT !.list = list] /\ bound = client.bound
      BY <1>7, <1>8, <2>4
    <3> HIDE DEF list, bound
    <3> QED
      BY <1>1, <2>4, <3>1 DEF Knows
  <2>5. CASE /\ ~Breaks(q) /\ ~(Evaluates(q) /\ client.frames # <<>>)
             /\ ~(Lists(q) /\ client.frames # <<>>) /\ known = Learnt(m)
    <3>1. known = client /\ bound = client.bound
      BY <1>7, <2>5
    <3> QED
      BY <1>1, <3>1
  <2> QED
    BY <2>0, <2>1, <2>2, <2>3, <2>4, <2>5
<1> HIDE DEF bound, watch, list
<1>10. /\ Knows(client') /\ client'.next = known.next /\ client'.waiting = RemoveAt(known.waiting, 1)
       /\ client'.scripts = known.scripts /\ client'.frames = known.frames /\ client'.hit = known.hit
       /\ client'.bound = known.bound /\ client'.watch = known.watch /\ client'.list = known.list
  BY <1>4, <1>9 DEF Knows
<1>11. DOMAIN client' = DOMAIN client
  BY <1>1, <1>10 DEF Knows
<1>12. TakesAnswer(q, r)
  BY <1>5, <1>9, <1>10 DEF TakesAnswer, bound, watch, list
<1> QED
  BY <1>9, <1>10, <1>11, <1>12 DEF q, r, m

\* What reading does, whatever is read.
LEMMA ReadEffect ==
    ASSUME TypeOK, Queued, Reported, ReadNext
    PROVE  Takes
<1> DEFINE m == Head(told)
<1>1. told # <<>>
  BY DEF ReadNext
<1>2. PICK legible \in BOOLEAN : (legible \/ ShowsValues(m)) /\ Read(legible)
  BY DEF ReadNext
<1>3. /\ told' = Tail(told) /\ UNCHANGED <<setup, sent, todo, session>>
      /\ LET known == IF ~legible THEN client ELSE IF Has(m, "id") THEN Learnt(m) ELSE Heard(m)
         IN  client' = [known EXCEPT !.waiting = IF Has(m, "id") THEN RemoveAt(@, Asked(m)) ELSE @]
  BY <1>2 DEF Read
<1>4. CASE ~Has(m, "id")
  <2>1. legible
    BY <1>2, <1>4 DEF ShowsValues
  <2>2. client' = [Heard(m) EXCEPT !.waiting = @]
    BY <1>3, <1>4, <2>1
  <2>3. DOMAIN client' = DOMAIN client /\ client'.next = client.next /\ TakesEvent(m)
    BY <1>1, <1>4, <2>2, HeardIs
  <2> QED
    BY <1>1, <1>3, <1>4, <2>3 DEF Takes, session, table, pause
<1>5. CASE Has(m, "id")
  <2>1. PICK known : /\ known = Learnt(m) \/ known = client
                     /\ ~legible => known = client
                     /\ legible => known = Learnt(m)
                     /\ client' = [known EXCEPT !.waiting = RemoveAt(@, Asked(m))]
    BY <1>3, <1>5
  <2>2. /\ client.waiting # <<>> /\ m = Answers[1] /\ 1 \in 1..Len(Answers)
        /\ Fits(m, client.waiting[1]) /\ Asked(m) = 1
    BY <1>1, <1>5, FirstAnswered
  <2>3. /\ DOMAIN client' = DOMAIN client /\ client'.next = client.next
        /\ TakesAnswer(client.waiting[1], Get(m, "result"))
    <3>1. CASE legible
      <4>1. client' = [Learnt(m) EXCEPT !.waiting = RemoveAt(@, Asked(m))]
        BY <2>1, <3>1
      <4> QED
        BY <1>1, <1>5, <2>1, <3>1, LearntIs
    <3>2. CASE ~legible
      <4>1. IsLook(client.waiting[1]) /\ known = client
        BY <1>2, <2>1, <2>2, <3>2 DEF ShowsValues
      <4> QED
        BY <1>1, <1>5, <2>1, <4>1, LearntIs
    <3> QED
      BY <3>1, <3>2
  <2> QED
    BY <1>1, <1>3, <1>5, <2>2, <2>3 DEF Takes, session, table, pause
<1> QED
  BY <1>4, <1>5

-----------------------------------------------------------------------------
(* Type correctness.                                                       *)

\* What the engine reports at a stop.
LEMMA StackIs ==
    ASSUME NEW s \in 1..Len(Snapshots)
    PROVE  /\ IsSeq(Stack(s)) /\ Len(Stack(s)) \in Nat /\ Len(Stack(s)) > 0
           /\ Head(Stack(s)) = Stack(s)[1]
           /\ Grounded(Snapshots[s].globals)
           /\ \A i \in 1..Len(Stack(s)) :
                 /\ Grounded(Stack(s)[i].locals) /\ Stack(s)[i].line \in Nat
                 /\ Stack(s)[i].file = setup.path
<1> DEFINE stack == Snapshots[s].stack
           t == Stack(s)
<1>1. /\ IsSeq(stack) /\ stack # <<>> /\ IsSeq(Snapshots[s].globals)
      /\ \A i \in 1..Len(stack) : /\ stack[i].line \in Nat
                                  /\ IsSeq(stack[i].locals)
                                  /\ \A j \in 1..Len(stack[i].locals) : OnHeap(stack[i].locals[j][2])
      /\ \A i \in 1..Len(Snapshots[s].globals) : OnHeap(Snapshots[s].globals[i][2])
  BY InspectionAssumption
<1>2. t = [i \in 1..Len(stack) |->
              [file |-> setup.path, line |-> stack[i].line, locals |-> stack[i].locals]]
  BY DEF Stack
<1> HIDE DEF stack, t
<1>3. Len(stack) \in Nat /\ Len(stack) > 0
  BY <1>1, SeqIs
<1>4. \A i \in 1..Len(stack) : t[i].file = setup.path /\ t[i].line = stack[i].line
                                /\ t[i].locals = stack[i].locals
  BY <1>2
<1>5. t = [i \in 1..Len(stack) |-> t[i]]
  BY <1>2
<1>6. IsSeq(t) /\ Len(t) = Len(stack)
  BY <1>3, <1>5, IsSeqOf
<1>7. Head(t) = t[1]
  <2>1. t # <<>>
    BY <1>3, <1>6, SeqIs
  <2> QED
    BY <1>6, <2>1, TailIs
<1>8. Grounded(Snapshots[s].globals)
  BY <1>1 DEF Grounded
<1>9. \A i \in 1..Len(t) : Grounded(t[i].locals) /\ t[i].line \in Nat /\ t[i].file = setup.path
  BY <1>1, <1>4, <1>6 DEF Grounded
<1> QED
  BY <1>3, <1>6, <1>7, <1>8, <1>9 DEF t

\* The store is as its type says, and sound.
LEMMA StoreSound ==
    ASSUME TypeOK
    PROVE  StoreOK(store) /\ Sound(store)
  BY DEF TypeOK, StoreOK, Sound

\* What evaluating comes to.
EvaluationShown(v, e) ==
    /\ Onward(store, v.st)
    /\ Room(v.st) => ShowsWatch(v.st, e, v.answer)

\* Evaluating in the innermost frame shows a local variable or what the
\* engine computes.
LEMMA EvaluateShows ==
    ASSUME TypeOK, js = "paused", NEW e \in Expressions
    PROVE  EvaluationShown(EvaluateOn(Stack(stop), 0, e, store), e)
<1> DEFINE v == EvaluateOn(Stack(stop), 0, e, store)
           locals == IF 0 < Len(Stack(stop)) THEN Stack(stop)[0 + 1].locals ELSE <<>>
           named == {i \in 1..Len(locals) : <<locals[i][1]>> = e}
           value == IF named # {} THEN locals[Min(named)][2] ELSE Outcome(e)
           r == RemoteObject(value, store)
           shown == {Head(Stack(stop)).locals[j][2] : j \in 1..Len(Head(Stack(stop)).locals)}
                        \union {Outcome(e)}
<1>1. stop \in 1..Len(Snapshots) /\ Sound(store)
  <2>1. Len(Snapshots) \in Nat
    BY InspectionAssumption, SeqIs
  <2> QED
    BY <2>1, StoreSound DEF TypeOK
<1>2. locals = Head(Stack(stop)).locals /\ Grounded(locals)
  <2>1. /\ Len(Stack(stop)) \in Nat /\ Len(Stack(stop)) > 0 /\ Head(Stack(stop)) = Stack(stop)[1]
        /\ \A i \in 1..Len(Stack(stop)) : Grounded(Stack(stop)[i].locals)
    BY <1>1, StackIs
  <2>2. 1 \in 1..Len(Stack(stop)) /\ 0 < Len(Stack(stop)) /\ 0 + 1 = 1
    BY <2>1
  <2> QED
    BY <2>1, <2>2
<1>3. /\ value.k = "throws" => v.answer = Obj([result |-> Obj([type    |-> Word("object"),
                                                               subtype |-> Word("error")]),
                                               exceptionDetails |-> Obj(<<>>)])
                               /\ v.st = store
      /\ value.k # "throws" => v.answer = Obj([result |-> r.ro]) /\ v.st = r.st
  BY DEF EvaluateOn
<1> HIDE DEF v
<1>4. OnHeap(value) /\ value \in shown
  <2>1. CASE named # {}
    <3>1. named \in SUBSET Nat
      OBVIOUS
    <3> DEFINE n == Min(named)
    <3>2. n \in named
      <4> HIDE DEF named
      <4> QED
        BY <2>1, <3>1, LeastOf
    <3>3. value = locals[n][2]
      BY <2>1
    <3>4. n \in 1..Len(locals)
      BY <3>2
    <3> HIDE DEF locals, n, named, value
    <3>5. OnHeap(value)
      BY <1>2, <3>3, <3>4 DEF Grounded
    <3>6. value \in {locals[j][2] : j \in 1..Len(locals)}
      BY <3>3, <3>4
    <3> QED
      BY <1>2, <3>5, <3>6
  <2>2. CASE named = {}
    <3>1. value = Outcome(e)
      BY <2>2
    <3> HIDE DEF value
    <3> QED
      BY <3>1, InspectionAssumption
  <2> QED
    BY <2>1, <2>2
<1> HIDE DEF value, shown
<1>5. ObjectShown(r, value, store)
  BY <1>1, <1>4, RemoteObjectShows
<1> HIDE DEF r
<1>6. CASE value.k = "throws"
  <2>1. Has(v.answer, "exceptionDetails") /\ v.st = store
    BY <1>3, <1>6 DEF Has, Obj
  <2>2. EvaluationShown(v, e)
    BY <1>1, <2>1, OnwardSame DEF EvaluationShown, ShowsWatch
  <2> QED
    BY <2>2 DEF v
<1>7. CASE value.k # "throws"
  <2>1. v.answer = Obj([result |-> r.ro]) /\ v.st = r.st
    BY <1>3, <1>7
  <2>2. Get(v.answer, "result") = r.ro
    BY <2>1 DEF Get, Has, Obj
  <2>3. Onward(store, v.st) /\ (Room(v.st) => ShowsObject(v.st, Get(v.answer, "result"), value))
    BY <1>5, <2>1, <2>2 DEF ObjectShown
  <2>4. EvaluationShown(v, e)
    BY <1>4, <2>3 DEF EvaluationShown, ShowsWatch, shown
  <2> QED
    BY <2>4 DEF v
<1> QED
  BY <1>6, <1>7

\* The expression of a request to evaluate.
LEMMA ExpressionIs ==
    ASSUME NEW q, Asks(q), Evaluates(q)
    PROVE  StrOf(Get(Params(q), "expression")) \in Expressions
<1>1. PICK e \in Expressions : Params(q) = Obj([callFrameId |-> Word(Decimal(0)), expression |-> Str(e)])
  BY DEF Asks, Evaluates
<1> QED
  BY <1>1, LevelIs

\* A frame is captured as the next one of the stack.
Captures ==
    /\ js = "capturing" /\ stop \in 1..Len(Snapshots)
    /\ Len(frames) + 1 \in 1..Len(Stack(stop)) /\ Len(frames) \in Nat
    /\ StoreOK(store') /\ Grows(store, store')
    /\ \E frame : /\ frames' = Append(frames, frame)
                  /\ frame = CallFrame(setup.windows, Scripts, Stack(stop)[Len(frames) + 1],
                                       Len(frames), Snapshots[stop].globals, store).frame
                  /\ ShowsFrame(store', frame, Stack(stop)[Len(frames) + 1], Snapshots[stop].globals)
    /\ setup' = setup /\ sent' = sent /\ told' = told /\ todo' = todo /\ enabled' = enabled
    /\ active' = active /\ breakpoints' = breakpoints /\ next_bp_id' = next_bp_id /\ due' = due
    /\ js' = js /\ stop' = stop /\ why' = why /\ client' = client

\* Capturing a frame appends it, shown in a store that has grown.
LEMMA CaptureEffect ==
    ASSUME TypeOK, CaptureFrame
    PROVE  Captures
<1> DEFINE n == Len(frames) + 1
           frame == Stack(stop)[n]
           globals == Snapshots[stop].globals
           c == CallFrame(setup.windows, Scripts, frame, Len(frames), globals, store)
<1>1. /\ js = "capturing" /\ Len(frames) < Len(Stack(stop))
      /\ frames' = Append(frames, c.frame) /\ store' = c.st /\ Room(c.st)
      /\ UNCHANGED <<setup, sent, told, todo, enabled, table, due, js, stop, why, client>>
  BY DEF CaptureFrame
<1>2. stop \in 1..Len(Snapshots) /\ Sound(store)
  <2>1. Len(Snapshots) \in Nat
    BY InspectionAssumption, SeqIs
  <2> QED
    BY <1>1, <2>1, StoreSound DEF TypeOK
<1>3. Len(frames) \in Nat /\ n \in 1..Len(Stack(stop)) /\ Grounded(globals) /\ Grounded(frame.locals)
  <2>1. Len(frames) \in Nat
    BY SeqIs DEF TypeOK
  <2>2. /\ Len(Stack(stop)) \in Nat /\ Grounded(globals)
        /\ \A i \in 1..Len(Stack(stop)) : Grounded(Stack(stop)[i].locals)
    BY <1>2, StackIs
  <2>3. n \in 1..Len(Stack(stop))
    BY <1>1, <2>1, <2>2
  <2> QED
    BY <2>1, <2>2, <2>3
<1> HIDE DEF frame, globals
<1>4. FrameShown(c, frame, globals, store)
  BY <1>2, <1>3, CallFrameShows
<1> HIDE DEF c
<1>5. Onward(store, c.st) /\ ShowsFrame(c.st, c.frame, frame, globals)
  BY <1>1, <1>4 DEF FrameShown
<1>6. StoreOK(c.st) /\ Grows(store, c.st)
  BY <1>1, <1>2, <1>5, RoomBefore
<1>7. \E f : /\ frames' = Append(frames, f) /\ f = c.frame
             /\ ShowsFrame(store', f, frame, globals)
  BY <1>1, <1>5
<1> QED
  BY <1>1, <1>2, <1>3, <1>6, <1>7 DEF Captures, table, frame, globals, c

-----------------------------------------------------------------------------
\* The variables have their types initially ...
LEMMA TypesInitially == Init => TypeOK
<1> SUFFICES ASSUME Init PROVE TypeOK
  OBVIOUS
<1>1. setup.brk \in BOOLEAN /\ Len(Snapshots) \in Nat /\ MaxRequests \in Nat
  BY InspectionAssumption, ValueAssumption, SeqIs DEF Init
<1>2. DOMAIN store.objects = {ObjectId(i) : i \in 1..store.next - 1} /\ store.next \in Nat \ {0}
      /\ \A oid \in DOMAIN store.objects : store.objects[oid] = Arr(ArrOf(store.objects[oid]))
  BY DEF Init, EmptyStore
<1>3. DOMAIN client = {"next", "waiting", "scripts", "bound", "frames", "hit", "watch", "list"}
      /\ client.next = 1 /\ client.waiting = <<>>
  BY DEF Init
<1>4. next_bp_id \in Nat /\ DOMAIN breakpoints \subseteq 1..next_bp_id - 1
  BY DEF Init
<1> QED
  BY <1>1, <1>2, <1>3, <1>4, EmptyIs DEF Init, TypeOK

\* ... and keep them.
LEMMA TypesKept ==
    ASSUME TypeOK, Queued, Reported, [Next]_vars
    PROVE  TypeOK'
<1>0. Len(Snapshots) \in Nat /\ MaxRequests \in Nat
  BY InspectionAssumption, ValueAssumption, SeqIs
<1>1. CASE HandleNext
  <2> DEFINE q == Head(sent)
  <2>1. /\ sent # <<>> /\ todo = <<>> /\ sent' = Tail(sent)
        /\ setup' = setup /\ told' = told /\ client' = client /\ Served(q)
    BY <1>1, HandleEffect
  <2>2. Asks(q)
    BY <2>1, NextAsked
  <2> HIDE DEF q
  <2>3. PICK events, result : Responds(q, events, result)
    BY <2>1 DEF Served
  <2>4. IsSeq(todo')
    <3>1. IsSeq(events) /\ IsSeq(<<Response(q, result)>>)
      BY <2>3, EmptyIs, SingleIs DEF Responds
    <3> QED
      BY <2>3, <3>1, ConcatIs DEF Responds
  <2>5. Serves(q)
    BY <2>1 DEF Served
  <2>6. StoreOK(store')
    <3>1. CASE Evaluates(q) /\ js = "paused"
      <4> DEFINE v == Evaluated(q)
      <4>1. store' = v.st /\ Room(v.st)
        BY <2>5, <3>1 DEF Serves
      <4>2. EvaluationShown(v, StrOf(Get(Params(q), "expression")))
        BY <2>2, <3>1, ExpressionIs, EvaluateShows DEF Evaluated
      <4> HIDE DEF v
      <4>3. Onward(store, v.st)
        BY <4>2 DEF EvaluationShown
      <4> QED
        BY <4>1, <4>3, StoreSound, RoomBefore
    <3>2. CASE ~(Evaluates(q) /\ js = "paused")
      <4>1. store' = store
        BY <2>5, <3>2 DEF Serves
      <4> QED
        BY <4>1, StoreSound
    <3> QED
      BY <3>1, <3>2
  <2>7. IsSeq(sent')
    BY <2>1, TailIs DEF TypeOK
  <2>8. next_bp_id' \in Nat \ {0} /\ DOMAIN breakpoints' \subseteq 1..next_bp_id' - 1
    <3>1. next_bp_id \in Nat \ {0} /\ \A n \in DOMAIN breakpoints : n \in 1..next_bp_id - 1
      BY DEF TypeOK
    <3>2. next_bp_id' = IF Breaks(q) THEN next_bp_id + 1 ELSE next_bp_id
      BY <2>5 DEF Serves
    <3>3. ASSUME NEW n \in DOMAIN breakpoints' PROVE n \in 1..next_bp_id' - 1
      <4>1. n \in DOMAIN breakpoints \/ (Breaks(q) /\ n = next_bp_id)
        BY <2>5 DEF Serves
      <4> QED
        BY <3>1, <3>2, <4>1
    <3> QED
      BY <3>1, <3>2, <3>3
  <2>9. js' \in {"gate", "running", "capturing", "paused", "released"}
        /\ (js' \in {"capturing", "paused"} => stop' # 0)
    BY <2>5 DEF Serves, TypeOK
  <2>10. IsSeq(frames') /\ enabled' \in BOOLEAN /\ active' \in BOOLEAN
         /\ due' \subseteq {"pause", "entry", "step"} /\ stop' \in 0..Len(Snapshots)
    BY <2>5 DEF Serves, TypeOK
  <2>11. /\ setup' \in Setups /\ IsSeq(told') /\ IsSeq(client'.waiting)
         /\ DOMAIN client' = {"next", "waiting", "scripts", "bound", "frames", "hit", "watch", "list"}
         /\ client'.next \in 1..MaxRequests + 1
    BY <2>1 DEF TypeOK
  <2> QED
    BY <2>4, <2>6, <2>7, <2>8, <2>9, <2>10, <2>11 DEF TypeOK, StoreOK
<1>2. CASE SendNext
  <2>1. IsSeq(told') /\ IsSeq(todo')
    BY <1>2, AppendIs, TailIs DEF SendNext, Tell, TypeOK
  <2> QED
    BY <1>2, <2>1 DEF SendNext, session, table, pause, TypeOK
<1>3. CASE Stop
  <2>1. PICK s \in 1..Len(Snapshots) : stop' = s
    BY <1>3 DEF Stop
  <2>2. stop' \in 0..Len(Snapshots) /\ stop' # 0
    BY <1>0, <2>1
  <2>3. due' \subseteq {"pause", "entry", "step"} /\ js' = "capturing" /\ frames' = <<>> /\ store' = EmptyStore
        /\ UNCHANGED <<setup, sent, told, todo, enabled, table, client>>
    BY <1>3 DEF Stop, TypeOK
  <2>4. store'.next \in Nat \ {0} /\ DOMAIN store'.objects = {ObjectId(i) : i \in 1..store'.next - 1}
        /\ \A oid \in DOMAIN store'.objects : store'.objects[oid] = Arr(ArrOf(store'.objects[oid]))
    BY <2>3 DEF EmptyStore
  <2> QED
    BY <2>2, <2>3, <2>4, EmptyIs DEF TypeOK, table
<1>4. CASE CaptureFrame
  <2>1. Captures
    BY <1>4, CaptureEffect
  <2>2. IsSeq(frames')
    BY <2>1, AppendIs DEF Captures, TypeOK
  <2>3. StoreOK(store')
    BY <2>1 DEF Captures
  <2> QED
    BY <2>1, <2>2, <2>3 DEF Captures, TypeOK, StoreOK
<1>5. CASE Pause
  <2>1. IsSeq(told')
    BY <1>5, AppendIs DEF Pause, Tell, TypeOK
  <2> QED
    BY <1>5, <2>1 DEF Pause, table, pause, TypeOK
<1>6. CASE Resumed
  <2>1. IsSeq(told')
    BY <1>6, AppendIs DEF Resumed, Tell, TypeOK
  <2> QED
    BY <1>6, <2>1 DEF Resumed, table, pause, TypeOK
<1>7. CASE Ask
  <2>1. PICK w, p : Sends(Inquiry(client.next, w, p))
    BY <1>7, AskEffect DEF Asking
  <2>2. IsSeq(sent') /\ IsSeq(client'.waiting)
    BY <2>1, AppendIs DEF Sends, TypeOK
  <2>3. client'.next \in 1..MaxRequests + 1
    BY <1>0, <2>1 DEF Sends, TypeOK
  <2> QED
    BY <2>1, <2>2, <2>3 DEF Sends, TypeOK
<1>8. CASE ReadNext
  <2>1. Takes
    BY <1>8, ReadEffect
  <2>2. IsSeq(told')
    BY <2>1, TailIs DEF Takes, TypeOK
  <2>3. IsSeq(client'.waiting)
    <3>1. CASE Has(Head(told), "id")
      BY <2>1, <3>1, TailIs DEF Takes, TakesAnswer, TypeOK
    <3>2. CASE ~Has(Head(told), "id")
      BY <2>1, <3>2 DEF Takes, TakesEvent, TypeOK
    <3> QED
      BY <3>1, <3>2
  <2> QED
    BY <2>1, <2>2, <2>3 DEF Takes, TypeOK
<1>9. CASE UNCHANGED vars
  BY <1>9 DEF vars, session, table, pause, TypeOK
<1> QED
  BY <1>1, <1>2, <1>3, <1>4, <1>5, <1>6, <1>7, <1>8, <1>9 DEF Next

-----------------------------------------------------------------------------
(* The answers under way, step by step.                                    *)

\* What is under way, and how a step moves it.
LEMMA AnswersAre ==
    ASSUME TypeOK
    PROVE  /\ Answers = Numbered(told) \o Numbered(todo)
           /\ IsSeq(Answers) /\ Len(Answers) \in Nat
           /\ IsSeq(Numbered(told)) /\ Len(Numbered(told)) \in Nat
           /\ IsSeq(Numbered(todo)) /\ Len(Numbered(todo)) \in Nat
           /\ Len(Answers) = Len(Numbered(told)) + Len(Numbered(todo))
<1>1. IsSeq(told) /\ IsSeq(todo)
  BY DEF TypeOK
<1>2. Answers = Numbered(told) \o Numbered(todo)
  BY <1>1, NumberedConcat DEF Answers
<1>3. IsSeq(Numbered(told)) /\ IsSeq(Numbered(todo))
  BY <1>1, NumberedFrom DEF Numerous
<1>4. IsSeq(Answers) /\ Len(Answers) = Len(Numbered(told)) + Len(Numbered(todo))
  BY <1>2, <1>3, ConcatIs
<1> QED
  BY <1>2, <1>3, <1>4, SeqIs

\* A request handled puts its answer behind the others ...
LEMMA AnswersHandled ==
    ASSUME TypeOK, told' = told, todo = <<>>, NEW e, NEW a, Has(a, "id"),
           e \in {<<>>, <<ScriptParsed(1)>>, <<Context>>}, todo' = e \o <<a>>
    PROVE  Answers' = Append(Answers, a)
<1>1. IsSeq(told) /\ IsSeq(e) /\ IsSeq(<<a>>)
  BY SingleIs, EmptyIs DEF TypeOK
<1>2. Numbered(e) = <<>>
  <2>1. ~Has(ScriptParsed(1), "id") /\ ~Has(Context, "id")
    BY EventsAre DEF Events
  <2> QED
    BY <2>1, NumberedOne, NumberedNone
<1>3. Numbered(<<a>>) = <<a>>
  BY NumberedOne
<1>4. Numbered(e \o <<a>>) = <<a>>
  BY <1>1, <1>2, <1>3, NumberedConcat, ConcatNone
<1>5. IsSeq(e \o <<a>>)
  BY <1>1, ConcatIs
<1>6. Answers' = Numbered(told) \o <<a>>
  <2>1. Answers' = Numbered(told \o (e \o <<a>>))
    BY DEF Answers
  <2> QED
    BY <1>1, <1>4, <1>5, <2>1, NumberedConcat
<1>7. Answers = Numbered(told) /\ IsSeq(Numbered(told))
  BY <1>1, ConcatNone, NumberedFrom DEF Answers, Numerous
<1> QED
  BY <1>6, <1>7, AppendOn

\* ... sending moves answers without reordering them ...
LEMMA AnswersSent ==
    ASSUME TypeOK, SendNext
    PROVE  told' \o todo' = told \o todo /\ Answers' = Answers
<1>1. told' \o todo' = told \o todo
  BY PassedOn DEF SendNext, Tell, TypeOK
<1> QED
  BY <1>1 DEF Answers

\* ... an event that the script's thread slips in moves none ...
LEMMA AnswersSlip ==
    ASSUME TypeOK, NEW e, ~Has(e, "id"), told' = Append(told, e), todo' = todo
    PROVE  Answers' = Answers
<1>1. IsSeq(told) /\ IsSeq(todo) /\ IsSeq(Append(told, e))
  BY AppendIs DEF TypeOK
<1>2. Numbered(Append(told, e)) = Numbered(told)
  BY <1>1, NumberedAppend
<1>3. Answers' = Numbered(Append(told, e) \o todo)
  BY DEF Answers
<1>4. Answers' = Numbered(Append(told, e)) \o Numbered(todo)
  BY <1>1, <1>3, NumberedConcat
<1>5. Answers = Numbered(told) \o Numbered(todo)
  BY AnswersAre
<1> QED
  BY <1>2, <1>4, <1>5

\* The answers without the first.
Shifted(a, b) ==
    /\ Len(a) = Len(b) + 1
    /\ \A k \in 1..Len(b) : a[k + 1] = b[k]

\* ... and reading an answer takes the first.
LEMMA AnswersRead ==
    ASSUME TypeOK, told # <<>>, told' = Tail(told), todo' = todo
    PROVE  IF Has(Head(told), "id") THEN Shifted(Answers, Answers') ELSE Answers' = Answers
<1> DEFINE h == Head(told)
           t == Tail(told)
<1>1. IsSeq(told) /\ IsSeq(todo) /\ IsSeq(t)
  BY TailIs DEF TypeOK
<1>2. Numbered(told) = IF Has(h, "id") THEN <<h>> \o Numbered(t) ELSE Numbered(t)
  BY <1>1, NumberedHead
<1>3. IsSeq(Numbered(t)) /\ IsSeq(Numbered(todo)) /\ IsSeq(<<h>>)
  BY <1>1, NumberedFrom, SingleIs DEF Numerous
<1>4. Answers' = Numbered(t) \o Numbered(todo)
  <2>1. Answers' = Numbered(t \o todo)
    BY DEF Answers
  <2> QED
    BY <1>1, <2>1, NumberedConcat
<1>5. Answers = Numbered(told) \o Numbered(todo)
  BY <1>1, NumberedConcat DEF Answers
<1>6. CASE ~Has(h, "id")
  BY <1>2, <1>4, <1>5, <1>6
<1>7. CASE Has(h, "id")
  <2> HIDE DEF h, t
  <2>1. Answers = <<h>> \o Answers'
    BY <1>2, <1>3, <1>4, <1>5, <1>7, Associates
  <2> DEFINE b == Answers'
  <2>2. IsSeq(b) /\ Answers = <<h>> \o b
    BY <1>3, <1>4, <2>1, ConcatIs
  <2> HIDE DEF b
  <2>3. Len(b) \in Nat
    BY <2>2, SeqIs
  <2>4. Len(<<h>> \o b) = 1 + Len(b) /\ \A k \in 1..Len(b) : (<<h>> \o b)[1 + k] = b[k]
    BY <1>3, <2>2, ConcatIs, SingleIs
  <2>5. Len(Answers) = Len(b) + 1 /\ \A k \in 1..Len(b) : Answers[k + 1] = b[k]
    <3>1. \A k \in 1..Len(b) : k + 1 = 1 + k
      BY <2>3
    <3> QED
      BY <2>2, <2>3, <2>4, <3>1
  <2>6. Shifted(Answers, b)
    BY <2>5 DEF Shifted
  <2> QED
    BY <1>7, <2>6 DEF b, h
<1> QED
  BY <1>6, <1>7

-----------------------------------------------------------------------------
(* The place a breakpoint is set at.                                       *)

\* What the client asks and how the server takes it does not change.
LEMMA AsksKept == ASSUME setup' = setup, NEW q, Asks(q) PROVE Asks(q)'
  BY DEF Asks, PlacesIn, AnnouncedUrl, Scripts

\* An answer that fits its request goes on fitting it.
LEMMA FitsKept ==
    ASSUME next_bp_id \in Nat, next_bp_id' \in {next_bp_id, next_bp_id + 1}, NEW a, NEW q, Fits(a, q)
    PROVE  Fits(a, q)'
<1>1. \A n \in 1..next_bp_id - 1 : n \in 1..next_bp_id' - 1
  <2> DEFINE x == next_bp_id
             y == next_bp_id'
  <2>1. x \in Nat /\ (y = x \/ y = x + 1)
    OBVIOUS
  <2> HIDE DEF x, y
  <2>2. \A n \in 1..x - 1 : n \in 1..y - 1
    BY <2>1
  <2> QED
    BY <2>2 DEF x, y
<1> QED
  BY <1>1 DEF Fits

\* The script's name.
LEMMA NameIs ==
    ASSUME TypeOK
    PROVE  /\ setup.windows \in BOOLEAN /\ Scripts[1] = Normalize(setup.path) /\ Len(Scripts) = 1
           /\ \E S : setup.path \in Seq(S) /\ Scripts[1] \in Seq(S) /\ Normalize(Scripts[1]) = Scripts[1]
<1>1. setup.windows \in BOOLEAN /\ IsSeq(setup.path)
  BY InspectionAssumption DEF TypeOK
<1>2. Scripts[1] = Normalize(setup.path) /\ Len(Scripts) = 1
  BY DEF Scripts
<1> DEFINE path == setup.path
           S == Range(path) \union {"/"}
<1>3. path \in Seq(S) /\ "/" \in S
  <2>1. Len(path) \in Nat /\ path = [i \in 1..Len(path) |-> path[i]] /\ \A i \in 1..Len(path) : path[i] \in S
    BY <1>1, SeqIs
  <2> QED
    BY <2>1
<1> HIDE DEF S
<1>4. Normal(S, Normalize(path))
  BY <1>3, Normalized
<1>5. Normalize(path) \in Seq(S) /\ Normalize(Normalize(path)) = Normalize(path)
  BY <1>4, NormalizeKeeps DEF Normal
<1> QED
  BY <1>1, <1>2, <1>3, <1>5

\* A breakpoint the client sets is in the script announced.
BindsAt(q, line) ==
    /\ Get(Params(q), "lineNumber") = Num(line) /\ LineOf(q) = line
    /\ NewBreakpoint(Params(q)).line = line + 1
    /\ Resolved(NewBreakpoint(Params(q))) = Word(Decimal(1))

\* A request for a breakpoint is answered with the place it asks for.
LEMMA BreakpointAnswered ==
    ASSUME TypeOK, NEW q, Asks(q), Breaks(q)
    PROVE  \E line \in Lines : BindsAt(q, line)
<1> DEFINE p == Params(q)
           bp == NewBreakpoint(p)
           name == Scripts[1]
           regex == ~Has(p, "url") /\ Has(p, "urlRegex")
<1>1. p \in PlacesIn(AnnouncedUrl)
  BY DEF Asks, Breaks
<1> DEFINE ByUrl(u, line) == Obj([url |-> Str(u), lineNumber |-> Num(line)])
           ByRegex(u, line) == Obj([urlRegex |-> Str(u), lineNumber |-> Num(line)])
<1>2. PICK line \in Lines : \E u :
          \/ p = ByUrl(u, line) /\ (u = AnnouncedUrl \/ u = Lower(AnnouncedUrl))
          \/ p = ByRegex(u, line) /\ u \in Regexes \ BadRegexes /\ Finds(u, AnnouncedUrl)
  <2> DEFINE us == IF setup.windows THEN {AnnouncedUrl, Lower(AnnouncedUrl)} ELSE {AnnouncedUrl}
             rs == {re \in Regexes \ BadRegexes : Finds(re, AnnouncedUrl)}
  <2>1. p \in {ByUrl(u, line) : u \in us, line \in Lines} \union {ByRegex(u, line) : u \in rs, line \in Lines}
    BY <1>1 DEF PlacesIn
  <2>2. \A u \in us : u = AnnouncedUrl \/ u = Lower(AnnouncedUrl)
    OBVIOUS
  <2> HIDE DEF us, ByUrl, ByRegex, p
  <2>3. CASE p \in {ByUrl(u, line) : u \in us, line \in Lines}
    BY <2>2, <2>3
  <2>4. CASE p \in {ByRegex(u, line) : u \in rs, line \in Lines}
    BY <2>4
  <2> QED
    BY <2>1, <2>3, <2>4
<1>11. PICK u :
          \/ p = ByUrl(u, line) /\ (u = AnnouncedUrl \/ u = Lower(AnnouncedUrl))
          \/ p = ByRegex(u, line) /\ u \in Regexes \ BadRegexes /\ Finds(u, AnnouncedUrl)
  BY <1>2
<1>3. setup.windows \in BOOLEAN /\ Len(Scripts) = 1
  BY NameIs
<1>4. PICK S : setup.path \in Seq(S) /\ name \in Seq(S) /\ Normalize(name) = name
  BY NameIs
<1>0. StrOf(Str(u)) = u
  BY DEF StrOf, Str
<1>5. AnnouncedUrl = ToFileUrl(name)
  BY DEF AnnouncedUrl
<1>6. /\ bp.regex = regex /\ bp.line = IntOf(Get(p, "lineNumber")) + 1
      /\ bp.url = IF regex THEN StrOf(Get(p, "urlRegex")) ELSE Normalize(Strip(StrOf(Get(p, "url"))))
  BY DEF NewBreakpoint, EngineLine
<1>7. IntOf(Num(line)) = line
  BY InspectionAssumption, NumIs
<1> HIDE DEF bp, name, p, regex
<1>8. /\ Get(p, "lineNumber") = Num(line)
      /\ Matches(setup.windows, name, bp)
  <2>1. CASE p = Obj([url |-> Str(u), lineNumber |-> Num(line)])
             /\ (u = AnnouncedUrl \/ u = Lower(AnnouncedUrl))
    <3> DEFINE o == [url |-> Str(u), lineNumber |-> Num(line)]
    <3>1. p = Obj(o) /\ DOMAIN o = {"url", "lineNumber"} /\ o["url"] = Str(u) /\ o["lineNumber"] = Num(line)
      BY <2>1
    <3> HIDE DEF o
    <3>2. Has(p, "url") /\ Get(p, "url") = Str(u) /\ Get(p, "lineNumber") = Num(line)
      BY <3>1, FieldOf
    <3>3. ~bp.regex /\ bp.url = Normalize(Strip(u))
      BY <1>0, <1>6, <3>2 DEF regex
    <3>4. Matches(setup.windows, name, bp)
      BY <1>3, <1>4, <1>5, <2>1, <3>3, AnnouncedUrlBinds, LowerCaseUrlBinds
    <3> QED
      BY <3>2, <3>4
  <2>2. CASE /\ p = Obj([urlRegex |-> Str(u), lineNumber |-> Num(line)])
             /\ u \in Regexes \ BadRegexes /\ Finds(u, AnnouncedUrl)
    <3> DEFINE o == [urlRegex |-> Str(u), lineNumber |-> Num(line)]
    <3>1. p = Obj(o) /\ DOMAIN o = {"urlRegex", "lineNumber"}
          /\ o["urlRegex"] = Str(u) /\ o["lineNumber"] = Num(line)
      BY <2>2
    <3> HIDE DEF o
    <3>2. Has(p, "urlRegex") /\ Get(p, "urlRegex") = Str(u) /\ Get(p, "lineNumber") = Num(line)
      BY <3>1, FieldOf
    <3>3. ~Has(p, "url")
      BY <3>1 DEF Has, Obj
    <3>4. bp.regex /\ bp.url = u
      BY <1>0, <1>6, <3>2, <3>3 DEF regex
    <3>5. Matches(setup.windows, name, bp)
      BY <1>4, <1>5, <2>2, <3>4, RegexBinds
    <3> QED
      BY <3>2, <3>5
  <2> QED
    BY <1>11, <2>1, <2>2
<1>9. Resolved(bp) = Word(Decimal(1))
  <2> DEFINE fits == {i \in 1..Len(Scripts) : Matches(setup.windows, Scripts[i], bp)}
  <2>1. fits = {1}
    BY <1>3, <1>8 DEF name
  <2>2. Resolved(bp) = Word(Decimal(IF fits = {} THEN 0 ELSE Min(fits)))
    BY DEF Resolved
  <2>3. Min({1}) = 1
    BY DEF Min
  <2> HIDE DEF fits
  <2> QED
    BY <2>1, <2>2, <2>3
<1>10. BindsAt(q, line)
  BY <1>6, <1>7, <1>8, <1>9 DEF BindsAt, LineOf, p, bp
<1> QED
  BY <1>10

-----------------------------------------------------------------------------
(* Queued: the requests and answers are in line.                           *)

\* The parts of Queued, for queues that a step may have changed.
Lined(answers, asked, waiting) ==
    /\ Len(waiting) = Len(answers) + Len(asked)
    /\ \A k \in 1..Len(asked) : asked[k] = waiting[Len(answers) + k]

\* Answers and requests stay in line when a request is answered ...
LEMMA LinedHandled ==
    ASSUME NEW a, NEW s, NEW w, IsSeq(a), IsSeq(s), IsSeq(w), s # <<>>, Lined(a, s, w), NEW x
    PROVE  Lined(Append(a, x), Tail(s), w)
<1>1. /\ Len(a) \in Nat /\ Len(s) \in Nat /\ Len(Append(a, x)) = Len(a) + 1
      /\ Len(Tail(s)) = Len(s) - 1 /\ \A k \in 1..Len(s) - 1 : Tail(s)[k] = s[k + 1]
  BY SeqIs, AppendIs, TailIs
<1> DEFINE b == Append(a, x)
           t == Tail(s)
<1>2. ASSUME NEW k \in 1..Len(t) PROVE t[k] = w[Len(b) + k]
  <2>1. k \in 1..Len(s) - 1 /\ k + 1 \in 1..Len(s) /\ Len(b) + k = Len(a) + (k + 1)
    BY <1>1
  <2> HIDE DEF b, t
  <2>2. t[k] = s[k + 1]
    BY <1>1, <2>1 DEF t
  <2>3. s[k + 1] = w[Len(a) + (k + 1)]
    BY <2>1 DEF Lined
  <2> QED
    BY <2>1, <2>2, <2>3
<1>3. Len(w) = Len(b) + Len(t)
  BY <1>1 DEF Lined
<1> QED
  BY <1>2, <1>3 DEF Lined

\* ... when one is sent ...
LEMMA LinedAsked ==
    ASSUME NEW a, NEW s, NEW w, IsSeq(a), IsSeq(s), IsSeq(w), Lined(a, s, w), NEW q
    PROVE  Lined(a, Append(s, q), Append(w, q))
<1> DEFINE t == Append(s, q)
           v == Append(w, q)
<1>1. /\ Len(a) \in Nat /\ Len(s) \in Nat /\ Len(w) \in Nat
      /\ Len(t) = Len(s) + 1 /\ t[Len(s) + 1] = q /\ \A k \in 1..Len(s) : t[k] = s[k]
      /\ Len(v) = Len(w) + 1 /\ v[Len(w) + 1] = q /\ \A k \in 1..Len(w) : v[k] = w[k]
  BY SeqIs, AppendIs
<1>2. Len(w) = Len(a) + Len(s)
  BY DEF Lined
<1> HIDE DEF t, v
<1>3. ASSUME NEW k \in 1..Len(t) PROVE t[k] = v[Len(a) + k]
  <2>1. CASE k = Len(s) + 1
    <3>1. Len(a) + k = Len(w) + 1
      BY <1>1, <1>2, <2>1
    <3> QED
      BY <1>1, <2>1, <3>1
  <2>2. CASE k # Len(s) + 1
    <3>1. k \in 1..Len(s) /\ Len(a) + k \in 1..Len(w)
      BY <1>1, <1>2, <2>2
    <3>2. s[k] = w[Len(a) + k]
      BY <3>1 DEF Lined
    <3> QED
      BY <1>1, <3>1, <3>2
  <2> QED
    BY <2>1, <2>2
<1>4. Len(v) = Len(a) + Len(t)
  BY <1>1, <1>2
<1> QED
  BY <1>3, <1>4 DEF Lined, t, v

\* ... and when an answer is read.
LEMMA LinedRead ==
    ASSUME NEW a, NEW b, NEW s, NEW w, IsSeq(a), IsSeq(b), IsSeq(s), IsSeq(w), w # <<>>,
           Shifted(a, b), Lined(a, s, w)
    PROVE  Lined(b, s, Tail(w))
<1> DEFINE v == Tail(w)
<1>1. /\ Len(b) \in Nat /\ Len(s) \in Nat /\ Len(w) \in Nat /\ Len(a) = Len(b) + 1
      /\ Len(v) = Len(w) - 1 /\ \A k \in 1..Len(w) - 1 : v[k] = w[k + 1]
  BY SeqIs, TailIs DEF Shifted
<1> HIDE DEF v
<1>2. Len(w) = Len(a) + Len(s)
  BY DEF Lined
<1>3. ASSUME NEW k \in 1..Len(s) PROVE s[k] = v[Len(b) + k]
  <2>1. Len(b) + k \in 1..Len(w) - 1 /\ Len(b) + k + 1 = Len(a) + k
    BY <1>1, <1>2
  <2>2. s[k] = w[Len(a) + k]
    BY DEF Lined
  <2> QED
    BY <1>1, <2>1, <2>2
<1>4. Len(v) = Len(b) + Len(s)
  BY <1>1, <1>2
<1> QED
  BY <1>3, <1>4 DEF Lined, v

\* An announced URL.
LEMMA OnlyScript ==
    ASSUME NEW k, NEW v
    PROVE  DOMAIN Put(<<>>, k, v) = {k} /\ Put(<<>>, k, v)[k] = v
<1> DEFINE g == Put(<<>>, k, v)
<1>1. DOMAIN <<>> = {}
  OBVIOUS
<1>2. g = [x \in {k} |-> v]
  BY <1>1 DEF Put
<1> HIDE DEF g
<1>3. DOMAIN g = {k} /\ g[k] = v
  BY <1>2
<1> QED
  BY <1>3 DEF g

\* The client knows each script by the one URL there is.
LEMMA AnnouncedIs ==
    ASSUME Announced, NEW id \in DOMAIN client.scripts
    PROVE  client.scripts[id] = AnnouncedUrl
<1>1. ~Unaware
  BY DEF Unaware
<1>2. client.scripts = Put(<<>>, <<Decimal(1)>>, AnnouncedUrl)
  BY <1>1 DEF Announced
<1> DEFINE k == <<Decimal(1)>>
           v == AnnouncedUrl
<1>3. client.scripts = Put(<<>>, k, v)
  BY <1>2
<1> HIDE DEF k, v
<1>4. DOMAIN client.scripts = {k} /\ client.scripts[k] = v
  BY <1>3, OnlyScript
<1> QED
  BY <1>4 DEF v

\* What the client sends are requests that the handlers know.
LEMMA AskedIs ==
    ASSUME TypeOK, Announced, NEW w, NEW p, client.next <= MaxRequests, Mannered(w, p)
    PROVE  Asks(Inquiry(client.next, w, p))
<1> DEFINE q == Inquiry(client.next, w, p)
<1>1. /\ Method(q) = <<w>> /\ Params(q) = p /\ Get(q, "method") = Word(w) /\ Get(q, "params") = p
      /\ q = Obj([id |-> Num(client.next), method |-> Word(w), params |-> p])
  BY InquiryIs DEF Inquiry
<1> HIDE DEF q
<1>2. client.next \in 1..MaxRequests
  BY InspectionAssumption, ValueAssumption DEF TypeOK
<1>3. \E i \in 1..MaxRequests :
          q = Obj([id |-> Num(i), method |-> Get(q, "method"), params |-> Get(q, "params")])
  BY <1>1, <1>2
<1>4. Method(q) = <<"Debugger.setBreakpointByUrl">> => Params(q) \in PlacesIn(AnnouncedUrl)
  BY <1>1, AnnouncedIs, Words DEF Mannered
<1>5. Method(q) = <<"Debugger.evaluateOnCallFrame">> =>
          \E e \in Expressions :
              Params(q) = Obj([callFrameId |-> Word(Decimal(0)), expression |-> Str(e)])
  BY <1>1, Words DEF Mannered
<1> QED
  BY <1>3, <1>4, <1>5 DEF Asks, q

\* What is answered fits what was asked.
LEMMA ResponseFits ==
    ASSUME TypeOK, NEW q, Asks(q), NEW events, NEW result, Responds(q, events, result),
           next_bp_id' = IF Breaks(q) THEN next_bp_id + 1 ELSE next_bp_id
    PROVE  Fits(Response(q, result), q)'
<1> DEFINE a == Response(q, result)
<1>1. a = Obj([id |-> Get(q, "id"), result |-> Get(a, "result")]) /\ Get(a, "result") = result
  <2>1. Get(a, "result") = result
    BY ResponseIs
  <2>2. a = Obj([id |-> Get(q, "id"), result |-> result])
    BY DEF Response
  <2> HIDE DEF a
  <2> QED
    BY <2>1, <2>2
<1> HIDE DEF a
<1>2. ASSUME Breaks(q)
      PROVE  \E n \in 1..next_bp_id' - 1, line \in Lines :
                /\ Get(Params(q), "lineNumber") = Num(line)
                /\ result = Obj([breakpointId |-> BreakpointId(n, line),
                                 locations    |-> Arr(<<Place(line)>>)])
  <2>1. PICK line \in Lines : BindsAt(q, line)
    BY <1>2, BreakpointAnswered
  <2>2. result = Obj([breakpointId |-> BreakpointId(next_bp_id, LineOf(q)),
                      locations    |-> Arr(<<Obj([scriptId   |-> Resolved(NewBreakpoint(Params(q))),
                                                  lineNumber |-> Num(LineOf(q))])>>)])
    BY <1>2 DEF Responds
  <2>3. /\ Get(Params(q), "lineNumber") = Num(line) /\ LineOf(q) = line
        /\ Resolved(NewBreakpoint(Params(q))) = Word(Decimal(1))
    BY <2>1 DEF BindsAt
  <2>4. result = Obj([breakpointId |-> BreakpointId(next_bp_id, line), locations |-> Arr(<<Place(line)>>)])
    BY <2>2, <2>3 DEF Place
  <2>5. next_bp_id \in 1..next_bp_id' - 1
    <3>1. next_bp_id \in Nat \ {0} /\ next_bp_id' = next_bp_id + 1
      BY <1>2 DEF TypeOK
    <3> QED
      BY <3>1
  <2> QED
    BY <2>3, <2>4, <2>5
<1>3. Fits(a, q)'
  BY <1>1, <1>2 DEF Fits, Breaks, Place
<1> QED
  BY <1>3 DEF a

AskedOf(waiting) == \A k \in 1..Len(waiting) : Asks(waiting[k])
FittedOf(answers, waiting) == \A k \in 1..Len(answers) : Fits(answers[k], waiting[k])

\* Queued, by its parts ...
LEMMA QueuedIs ==
    Queued <=> Lined(Answers, sent, client.waiting) /\ AskedOf(client.waiting)
               /\ FittedOf(Answers, client.waiting)
  BY DEF Queued, Lined, AskedOf, FittedOf

\* ... and in the next state.
LEMMA QueuedIsNext ==
    Queued' <=> Lined(Answers', sent', client'.waiting) /\ AskedOf(client.waiting)'
               /\ FittedOf(Answers, client.waiting)'
  BY DEF Queued, Lined, AskedOf, FittedOf

\* A step that moves no request and no answer.
LEMMA QueuedSame ==
    ASSUME TypeOK, Queued, Answers' = Answers, sent' = sent, client'.waiting = client.waiting,
           setup' = setup, next_bp_id' = next_bp_id
    PROVE  Queued'
<1>1. Lined(Answers, sent, client.waiting) /\ AskedOf(client.waiting) /\ FittedOf(Answers, client.waiting)
  BY QueuedIs
<1>2. AskedOf(client.waiting)'
  BY <1>1, AsksKept DEF AskedOf
<1>3. next_bp_id \in Nat /\ next_bp_id' \in {next_bp_id, next_bp_id + 1}
  BY DEF TypeOK
<1>4. FittedOf(Answers, client.waiting)'
  BY <1>1, <1>3, FitsKept DEF FittedOf
<1> QED
  BY <1>1, <1>2, <1>4, QueuedIsNext

\* A request handled.
LEMMA QueuedHandled ==
    ASSUME TypeOK, Queued, sent # <<>>, setup' = setup, client'.waiting = client.waiting,
           sent' = Tail(sent), next_bp_id' \in {next_bp_id, next_bp_id + 1},
           NEW a, NEW q, q = Head(sent), Answers' = Append(Answers, a), Fits(a, q)'
    PROVE  Queued'
<1>1. Lined(Answers, sent, client.waiting) /\ AskedOf(client.waiting) /\ FittedOf(Answers, client.waiting)
  BY QueuedIs
<1>2. AskedOf(client.waiting)'
  BY <1>1, AsksKept DEF AskedOf
<1>3. IsSeq(Answers) /\ IsSeq(sent) /\ IsSeq(client.waiting) /\ Len(Answers) \in Nat
  BY AnswersAre DEF TypeOK
<1>4. Lined(Answers', sent', client'.waiting)
  BY <1>1, <1>3, LinedHandled
<1>5. Head(sent) = client.waiting[Len(Answers) + 1]
  BY NextAsked
<1>6. /\ Len(Answers') = Len(Answers) + 1 /\ Answers'[Len(Answers) + 1] = a
      /\ \A k \in 1..Len(Answers) : Answers'[k] = Answers[k]
  BY <1>3, AppendIs
<1>7. next_bp_id \in Nat
  BY DEF TypeOK
<1>8. ASSUME NEW k \in 1..Len(Answers') PROVE Fits(Answers[k], client.waiting[k])'
  <2>1. CASE k = Len(Answers) + 1
    <3>1. Answers'[k] = a /\ client'.waiting[k] = q
      BY <1>5, <1>6, <2>1
    <3> QED
      BY <3>1
  <2>2. CASE k # Len(Answers) + 1
    <3>1. k \in 1..Len(Answers)
      BY <1>3, <1>6, <2>2
    <3>2. Fits(Answers[k], client.waiting[k]) /\ Answers'[k] = Answers[k]
      BY <1>1, <1>6, <3>1 DEF FittedOf
    <3> QED
      BY <1>7, <3>2, FitsKept
  <2> QED
    BY <2>1, <2>2
<1>9. FittedOf(Answers, client.waiting)'
  BY <1>8 DEF FittedOf
<1> QED
  BY <1>2, <1>4, <1>9, QueuedIsNext

\* A request sent.
LEMMA QueuedAsked ==
    ASSUME TypeOK, Queued, setup' = setup, Answers' = Answers, next_bp_id' = next_bp_id,
           NEW q, Asks(q), sent' = Append(sent, q), client'.waiting = Append(client.waiting, q)
    PROVE  Queued'
<1>1. Lined(Answers, sent, client.waiting) /\ AskedOf(client.waiting) /\ FittedOf(Answers, client.waiting)
  BY QueuedIs
<1>2. IsSeq(Answers) /\ IsSeq(sent) /\ IsSeq(client.waiting) /\ Len(Answers) \in Nat
      /\ Len(sent) \in Nat /\ Len(client.waiting) \in Nat
  BY AnswersAre, SeqIs DEF TypeOK
<1>3. Lined(Answers', sent', client'.waiting)
  BY <1>1, <1>2, LinedAsked
<1>4. /\ Len(client'.waiting) = Len(client.waiting) + 1
      /\ client'.waiting[Len(client.waiting) + 1] = q
      /\ \A k \in 1..Len(client.waiting) : client'.waiting[k] = client.waiting[k]
  BY <1>2, AppendIs
<1>5. ASSUME NEW k \in 1..Len(client'.waiting) PROVE Asks(client.waiting[k])'
  <2>1. CASE k = Len(client.waiting) + 1
    BY <1>4, <2>1, AsksKept
  <2>2. CASE k # Len(client.waiting) + 1
    <3>1. k \in 1..Len(client.waiting)
      BY <1>2, <1>4, <2>2
    <3>2. client'.waiting[k] = client.waiting[k] /\ Asks(client.waiting[k])
      BY <1>1, <1>4, <3>1 DEF AskedOf
    <3> QED
      BY <3>2, AsksKept
  <2> QED
    BY <2>1, <2>2
<1>6. AskedOf(client.waiting)'
  BY <1>5 DEF AskedOf
<1>7. next_bp_id \in Nat /\ next_bp_id' \in {next_bp_id, next_bp_id + 1}
  BY DEF TypeOK
<1>8. ASSUME NEW k \in 1..Len(Answers) PROVE Fits(Answers[k], client.waiting[k])'
  <2>1. k \in 1..Len(client.waiting)
    BY <1>1, <1>2 DEF Lined
  <2>2. Fits(Answers[k], client.waiting[k]) /\ client'.waiting[k] = client.waiting[k]
    BY <1>1, <1>4, <2>1 DEF FittedOf
  <2> QED
    BY <1>7, <2>2, FitsKept
<1>9. FittedOf(Answers, client.waiting)'
  BY <1>8 DEF FittedOf
<1> QED
  BY <1>3, <1>6, <1>9, QueuedIsNext

\* An answer read.
LEMMA QueuedRead ==
    ASSUME TypeOK, Queued, setup' = setup, next_bp_id' = next_bp_id, sent' = sent,
           client.waiting # <<>>, client'.waiting = Tail(client.waiting),
           IsSeq(Answers'), Shifted(Answers, Answers')
    PROVE  Queued'
<1>1. Lined(Answers, sent, client.waiting) /\ AskedOf(client.waiting) /\ FittedOf(Answers, client.waiting)
  BY QueuedIs
<1>2. IsSeq(Answers) /\ IsSeq(sent) /\ IsSeq(client.waiting) /\ Len(Answers) \in Nat
      /\ Len(sent) \in Nat /\ Len(client.waiting) \in Nat
  BY AnswersAre, SeqIs DEF TypeOK
<1> DEFINE b == Answers'
<1>3. Lined(b, sent', client'.waiting)
  <2> HIDE DEF b
  <2>1. IsSeq(b) /\ Shifted(Answers, b)
    BY DEF b
  <2> QED
    BY <1>1, <1>2, <2>1, LinedRead
<1>4. Len(b) \in Nat /\ Len(Answers) = Len(b) + 1 /\ \A k \in 1..Len(b) : Answers[k + 1] = b[k]
  <2> HIDE DEF b
  <2>1. IsSeq(b) /\ Shifted(Answers, b)
    BY DEF b
  <2> QED
    BY <2>1, SeqIs DEF Shifted
<1>5. /\ Len(client'.waiting) = Len(client.waiting) - 1
      /\ \A k \in 1..Len(client.waiting) - 1 : client'.waiting[k] = client.waiting[k + 1]
  BY <1>2, TailIs
<1>6. ASSUME NEW k \in 1..Len(client'.waiting) PROVE Asks(client.waiting[k])'
  <2>1. k \in 1..Len(client.waiting) - 1 /\ k + 1 \in 1..Len(client.waiting)
    BY <1>2, <1>5
  <2>2. client'.waiting[k] = client.waiting[k + 1] /\ Asks(client.waiting[k + 1])
    BY <1>1, <1>5, <2>1 DEF AskedOf
  <2> QED
    BY <2>2, AsksKept
<1>7. AskedOf(client.waiting)'
  BY <1>6 DEF AskedOf
<1>8. next_bp_id \in Nat /\ next_bp_id' \in {next_bp_id, next_bp_id + 1}
  BY DEF TypeOK
<1>9. ASSUME NEW k \in 1..Len(b) PROVE Fits(Answers[k], client.waiting[k])'
  <2>1. k + 1 \in 1..Len(Answers)
    <3> HIDE DEF b
    <3> QED
      BY <1>4
  <2>2. k \in 1..Len(client.waiting) - 1
    <3> HIDE DEF b
    <3> QED
      BY <1>1, <1>2, <1>4 DEF Lined
  <2>3. Fits(Answers[k + 1], client.waiting[k + 1])
    BY <1>1, <2>1 DEF FittedOf
  <2>4. client'.waiting[k] = client.waiting[k + 1] /\ Answers'[k] = Answers[k + 1]
    BY <1>4, <1>5, <2>2
  <2> QED
    BY <1>8, <2>3, <2>4, FitsKept
<1>10. FittedOf(Answers, client.waiting)'
  BY <1>9 DEF FittedOf
<1> QED
  BY <1>3, <1>7, <1>10, QueuedIsNext

\* Queued is kept.
LEMMA QueuedKept ==
    ASSUME TypeOK, Queued, Reported, Announced, [Next]_vars
    PROVE  Queued'
<1>1. CASE HandleNext
  <2>0. PICK q : q = Head(sent)
    OBVIOUS
  <2>1. /\ sent # <<>> /\ todo = <<>> /\ sent' = Tail(sent)
        /\ setup' = setup /\ told' = told /\ client' = client /\ Served(q)
    BY <1>1, <2>0, HandleEffect
  <2>2. Asks(q)
    BY <2>0, <2>1, NextAsked
  <2>3. PICK events, result : Responds(q, events, result)
    BY <2>1 DEF Served
  <2>4. next_bp_id' = IF Breaks(q) THEN next_bp_id + 1 ELSE next_bp_id
    BY <2>1 DEF Served, Serves
  <2> DEFINE a == Response(q, result)
  <2>5. Fits(a, q)' /\ Has(a, "id")
    BY <2>2, <2>3, <2>4, ResponseFits, ResponseIs
  <2> HIDE DEF a
  <2>6. events \in {<<>>, <<ScriptParsed(1)>>, <<Context>>} /\ todo' = events \o <<a>>
    BY <2>3 DEF Responds, a
  <2>7. Answers' = Append(Answers, a)
    BY <2>1, <2>5, <2>6, AnswersHandled
  <2>8. next_bp_id' \in {next_bp_id, next_bp_id + 1} /\ client'.waiting = client.waiting
    BY <2>1, <2>4
  <2> QED
    BY <2>0, <2>1, <2>5, <2>7, <2>8, QueuedHandled
<1>2. CASE SendNext
  <2>1. Answers' = Answers
    BY <1>2, AnswersSent
  <2> QED
    BY <1>2, <2>1, QueuedSame DEF SendNext, session, table
<1>3. CASE Stop
  <2>1. told' = told /\ todo' = todo /\ sent' = sent /\ client' = client /\ setup' = setup
        /\ next_bp_id' = next_bp_id
    BY <1>3 DEF Stop, table
  <2> QED
    BY <2>1, QueuedSame DEF Answers
<1>4. CASE CaptureFrame
  <2>1. told' = told /\ todo' = todo /\ sent' = sent /\ client' = client /\ setup' = setup
        /\ next_bp_id' = next_bp_id
    BY <1>4 DEF CaptureFrame, table
  <2> QED
    BY <2>1, QueuedSame DEF Answers
<1>5. CASE Pause
  <2>1. told' = Append(told, Paused(frames, why[1], why[2])) /\ todo' = todo /\ sent' = sent
        /\ client' = client /\ setup' = setup /\ next_bp_id' = next_bp_id
    BY <1>5 DEF Pause, Tell, table
  <2>2. Answers' = Answers
    BY <2>1, PausedIs, AnswersSlip
  <2> QED
    BY <2>1, <2>2, QueuedSame
<1>6. CASE Resumed
  <2>1. told' = Append(told, Event("Debugger.resumed", Nothing)) /\ todo' = todo /\ sent' = sent
        /\ client' = client /\ setup' = setup /\ next_bp_id' = next_bp_id
    BY <1>6 DEF Resumed, Tell, table
  <2>2. Answers' = Answers
    BY <2>1, EventIs, AnswersSlip
  <2> QED
    BY <2>1, <2>2, QueuedSame
<1>7. CASE Ask
  <2>1. PICK w, p : Sends(Inquiry(client.next, w, p)) /\ Mannered(w, p)
    BY <1>7, AskEffect DEF Asking
  <2> DEFINE q == Inquiry(client.next, w, p)
  <2>2. Asks(q)
    BY <2>1, AskedIs DEF Sends
  <2> HIDE DEF q
  <2>3. /\ sent' = Append(sent, q) /\ client'.waiting = Append(client.waiting, q)
        /\ setup' = setup /\ told' = told /\ todo' = todo /\ next_bp_id' = next_bp_id
    BY <2>1 DEF Sends, q
  <2>4. Answers' = Answers
    BY <2>3 DEF Answers
  <2> QED
    BY <2>2, <2>3, <2>4, QueuedAsked
<1>8. CASE ReadNext
  <2>1. Takes
    BY <1>8, ReadEffect
  <2>2. /\ told # <<>> /\ told' = Tail(told) /\ todo' = todo /\ sent' = sent /\ setup' = setup
        /\ next_bp_id' = next_bp_id
    BY <2>1 DEF Takes
  <2>3. IF Has(Head(told), "id") THEN Shifted(Answers, Answers') ELSE Answers' = Answers
    BY <2>2, AnswersRead
  <2>4. CASE Has(Head(told), "id")
    <3>1. client.waiting # <<>> /\ client'.waiting = Tail(client.waiting)
      BY <2>1, <2>4 DEF Takes, TakesAnswer
    <3>2. IsSeq(Answers')
      <4>1. IsSeq(told') /\ IsSeq(todo')
        BY <2>2, TailIs DEF TypeOK
      <4>2. IsSeq(told' \o todo')
        BY <4>1, ConcatIs
      <4> QED
        BY <4>2, NumberedFrom DEF Answers, Numerous
    <3> QED
      BY <2>2, <2>3, <2>4, <3>1, <3>2, QueuedRead
  <2>5. CASE ~Has(Head(told), "id")
    <3>1. client'.waiting = client.waiting
      BY <2>1, <2>5 DEF Takes, TakesEvent
    <3> QED
      BY <2>2, <2>3, <2>5, <3>1, QueuedSame
  <2> QED
    BY <2>4, <2>5
<1>9. CASE UNCHANGED vars
  <2>1. told' = told /\ todo' = todo /\ sent' = sent /\ client' = client /\ setup' = setup
        /\ next_bp_id' = next_bp_id
    BY <1>9 DEF vars, session, table
  <2> QED
    BY <2>1, QueuedSame DEF Answers
<1> QED
  BY <1>1, <1>2, <1>3, <1>4, <1>5, <1>6, <1>7, <1>8, <1>9 DEF Next

-----------------------------------------------------------------------------
\* A handler's events are the same throughout a session.
LEMMA EventsKept ==
    ASSUME setup' = setup
    PROVE  Events' = Events /\ ScriptParsed(1)' = ScriptParsed(1) /\ AnnouncedUrl' = AnnouncedUrl
  BY DEF Events, ScriptParsed, Scripts, AnnouncedUrl

TodoTold == \A i \in 1..Len(todo) : Has(todo[i], "id") \/ todo[i] \in Events
Relays(m) == Has(m, "id") \/ m \in Events
Tells(m) == Relays(m) \/ (js = "paused" /\ m = Paused(frames, why[1], why[2]))
ToldTold == \A i \in 1..Len(told) : Tells(told[i])

\* Reported, by its parts ...
LEMMA ReportedIs == Reported <=> TodoTold /\ ToldTold
  BY DEF Reported, TodoTold, ToldTold, Tells, Relays

\* ... and in the next state.
LEMMA ReportedIsNext == Reported' <=> TodoTold' /\ ToldTold'
  BY DEF Reported, TodoTold, ToldTold, Tells, Relays

\* What relays a fact goes on relaying it.
LEMMA RelaysKept == ASSUME setup' = setup, NEW m, Relays(m) PROVE Relays(m)' /\ Tells(m)'
  BY EventsKept DEF Relays, Tells

\* What is told when a pause ends, or has not begun, is no pause.
LEMMA NoPauseTold ==
    ASSUME ToldTold, js # "paused" \/ NoneTold
    PROVE  \A i \in 1..Len(told) : Relays(told[i])
<1> SUFFICES ASSUME NEW i \in 1..Len(told) PROVE Relays(told[i])
  OBVIOUS
<1>1. Tells(told[i])
  BY DEF ToldTold
<1>2. CASE js = "paused" /\ told[i] = Paused(frames, why[1], why[2]) /\ NoneTold
  <2>1. IsPaused(told[i])
    BY <1>2, PausedIs
  <2> QED
    BY <1>2, <2>1 DEF NoneTold
<1> QED
  BY <1>1, <1>2 DEF Tells

\* What was told and is no report of a pause stays so ...
LEMMA RelaysToldKept ==
    ASSUME setup' = setup, told' = told, \A i \in 1..Len(told) : Relays(told[i])
    PROVE  ToldTold'
  BY RelaysKept DEF ToldTold

\* ... everything told stays true while the pause lasts ...
LEMMA ToldSame ==
    ASSUME ToldTold, setup' = setup, told' = told, js' = js, frames' = frames, why' = why
    PROVE  ToldTold'
<1>1. ASSUME NEW i \in 1..Len(told) PROVE Tells(told[i])'
  <2>1. Tells(told[i])
    BY DEF ToldTold
  <2> QED
    BY <2>1, EventsKept DEF Tells, Relays
<1> QED
  BY <1>1 DEF ToldTold

\* ... with one more message ...
LEMMA ToldAppended ==
    ASSUME TypeOK, ToldTold, setup' = setup, NEW m, told' = Append(told, m), Tells(m)',
           \/ js' = js /\ frames' = frames /\ why' = why
           \/ js # "paused"
    PROVE  ToldTold'
<1>1. IsSeq(told) /\ Len(told) \in Nat
  BY SeqIs DEF TypeOK
<1>2. /\ Len(told') = Len(told) + 1 /\ told'[Len(told) + 1] = m
      /\ \A i \in 1..Len(told) : told'[i] = told[i]
  BY <1>1, AppendIs
<1>3. ASSUME NEW i \in 1..Len(told') PROVE Tells(told[i])'
  <2>1. CASE i = Len(told) + 1
    BY <1>2, <2>1
  <2>2. CASE i # Len(told) + 1
    <3>1. i \in 1..Len(told)
      BY <1>1, <1>2, <2>2
    <3>2. Tells(told[i]) /\ told'[i] = told[i]
      BY <1>2, <3>1 DEF ToldTold
    <3>3. Tells(told[i])'
      BY <3>2, EventsKept DEF Tells, Relays
    <3> QED
      BY <3>3
  <2> QED
    BY <2>1, <2>2
<1> QED
  BY <1>3 DEF ToldTold

\* ... and with the first one read.
LEMMA ToldTaken ==
    ASSUME TypeOK, ToldTold, setup' = setup, told # <<>>, told' = Tail(told),
           js' = js, frames' = frames, why' = why
    PROVE  ToldTold'
<1>1. Len(told) \in Nat /\ Len(told') = Len(told) - 1
      /\ \A i \in 1..Len(told) - 1 : told'[i] = told[i + 1]
  BY SeqIs, TailIs DEF TypeOK
<1>2. ASSUME NEW i \in 1..Len(told') PROVE Tells(told[i])'
  <2>1. i \in 1..Len(told) - 1 /\ i + 1 \in 1..Len(told)
    BY <1>1
  <2>2. told'[i] = told[i + 1] /\ Tells(told[i + 1])
    BY <1>1, <2>1 DEF ToldTold
  <2> QED
    BY <2>2, EventsKept DEF Tells, Relays
<1> QED
  BY <1>2 DEF ToldTold

-----------------------------------------------------------------------------
(* Reported: what the client is told is so.                                *)

TodoIs == \A i \in 1..Len(todo) : Relays(todo[i])

\* What a handler has still to send, by its parts.
LEMMA TodoRelays == (TodoTold <=> TodoIs) /\ (TodoTold' <=> TodoIs')
  BY DEF TodoTold, TodoIs, Relays

\* A handler's messages stay true until they are sent.
LEMMA TodoSame == ASSUME TodoTold, setup' = setup, todo' = todo PROVE TodoTold'
<1>1. TodoIs'
  BY TodoRelays, RelaysKept DEF TodoIs
<1> QED
  BY <1>1, TodoRelays

\* A pause that the client is ending is told no more.
LEMMA EndingTold ==
    ASSUME TypeOK, PauseShared, sent # <<>>, IsControl(Head(sent)), js = "paused"
    PROVE  NoneTold /\ client.frames = <<>> /\ \E i \in 1..Len(sent) : SentAt(i)
<1>1. Head(sent) = sent[1] /\ 1 \in 1..Len(sent)
  BY TailIs, SeqIs DEF TypeOK
<1>2. ~NoneSent
  BY <1>1 DEF NoneSent
<1> QED
  BY <1>2 DEF PauseShared

\* Reported is kept.
LEMMA ReportedKept ==
    ASSUME TypeOK, Queued, Reported, PauseShared, [Next]_vars
    PROVE  Reported'
<1>0. TodoTold /\ ToldTold /\ TodoIs
  BY ReportedIs, TodoRelays
<1>1. CASE HandleNext
  <2>0. PICK q : q = Head(sent)
    OBVIOUS
  <2>1. /\ sent # <<>> /\ todo = <<>> /\ sent' = Tail(sent)
        /\ setup' = setup /\ told' = told /\ client' = client /\ Served(q)
    BY <1>1, <2>0, HandleEffect
  <2>2. PICK events, result : Responds(q, events, result)
    BY <2>1 DEF Served
  <2> DEFINE a == Response(q, result)
  <2>3. Has(a, "id")
    BY ResponseIs
  <2> HIDE DEF a
  <2>4. events \in {<<>>, <<ScriptParsed(1)>>, <<Context>>} /\ todo' = events \o <<a>>
    BY <2>2 DEF Responds, a
  <2>5. TodoIs'
    <3>1. IsSeq(events) /\ Len(events) \in Nat /\ \A i \in 1..Len(events) : Relays(events[i])
      <4>1. Relays(ScriptParsed(1)) /\ Relays(Context)
        BY DEF Relays, Events
      <4>2. CASE events = <<>>
        BY <4>2, EmptyIs
      <4>3. CASE \E e \in {ScriptParsed(1), Context} : events = <<e>>
        <5>1. PICK e \in {ScriptParsed(1), Context} : events = <<e>>
          BY <4>3
        <5>2. Relays(e)
          BY <4>1
        <5> HIDE DEF Relays
        <5>3. IsSeq(events) /\ Len(events) = 1 /\ events[1] = e
          BY <5>1, SingleIs
        <5> QED
          BY <5>2, <5>3
      <4> QED
        BY <2>4, <4>2, <4>3
    <3>2. Relays(a)
      BY <2>3 DEF Relays
    <3>3. todo' = Append(events, a)
      BY <2>4, <3>1, AppendOn
    <3>4. /\ Len(todo') = Len(events) + 1 /\ todo'[Len(events) + 1] = a
          /\ \A i \in 1..Len(events) : todo'[i] = events[i]
      BY <3>1, <3>3, AppendIs
    <3>5. ASSUME NEW i \in 1..Len(todo') PROVE Relays(todo[i])'
      <4>1. CASE i = Len(events) + 1
        BY <2>1, <3>2, <3>4, <4>1, RelaysKept
      <4>2. CASE i # Len(events) + 1
        <5>1. i \in 1..Len(events)
          BY <3>1, <3>4, <4>2
        <5> QED
          BY <2>1, <3>1, <3>4, <5>1, RelaysKept
      <4> QED
        BY <4>1, <4>2
    <3> QED
      BY <3>5 DEF TodoIs
  <2>6. ToldTold'
    <3>1. js' = js \/ (js = "paused" /\ IsControl(q)) \/ js = "gate"
      BY <2>1 DEF Served, Serves
    <3>2. CASE js' = js
      BY <1>0, <2>1, <3>2, ToldSame DEF Served, Serves
    <3>3. CASE (js = "paused" /\ IsControl(q)) \/ js = "gate"
      <4>1. js # "paused" \/ NoneTold
        BY <2>0, <2>1, <3>3, EndingTold
      <4> QED
        BY <1>0, <2>1, <4>1, NoPauseTold, RelaysToldKept
    <3> QED
      BY <3>1, <3>2, <3>3
  <2> QED
    BY <2>5, <2>6, TodoRelays, ReportedIsNext
<1>2. CASE SendNext
  <2>1. /\ todo # <<>> /\ told' = Append(told, Head(todo)) /\ todo' = Tail(todo) /\ setup' = setup
        /\ js' = js /\ frames' = frames /\ why' = why
    BY <1>2 DEF SendNext, Tell, session, pause
  <2>2. /\ Head(todo) = todo[1] /\ 1 \in 1..Len(todo) /\ Len(todo) \in Nat /\ Len(todo') = Len(todo) - 1
        /\ \A i \in 1..Len(todo) - 1 : todo'[i] = todo[i + 1]
    BY <2>1, TailIs, SeqIs DEF TypeOK
  <2>3. PICK m : m = Head(todo) /\ Relays(m)
    BY <1>0, <2>2 DEF TodoIs
  <2>4. ToldTold'
    BY <1>0, <2>1, <2>3, RelaysKept, ToldAppended
  <2>5. ASSUME NEW i \in 1..Len(todo') PROVE Relays(todo[i])'
    <3>1. i \in 1..Len(todo) - 1 /\ i + 1 \in 1..Len(todo)
      BY <2>2
    <3> QED
      BY <1>0, <2>1, <2>2, <3>1, RelaysKept DEF TodoIs
  <2>6. TodoIs'
    BY <2>5 DEF TodoIs
  <2> QED
    BY <2>4, <2>6, TodoRelays, ReportedIsNext
<1>3. CASE Stop
  <2>1. js = "running" /\ told' = told /\ todo' = todo /\ setup' = setup
    BY <1>3 DEF Stop
  <2> QED
    BY <1>0, <2>1, NoPauseTold, RelaysToldKept, TodoSame, ReportedIsNext
<1>4. CASE CaptureFrame
  <2>1. js = "capturing" /\ told' = told /\ todo' = todo /\ setup' = setup
    BY <1>4 DEF CaptureFrame
  <2> QED
    BY <1>0, <2>1, NoPauseTold, RelaysToldKept, TodoSame, ReportedIsNext
<1>5. CASE Pause
  <2>1. js = "capturing" /\ js' = "paused" /\ todo' = todo /\ setup' = setup
        /\ told' = Append(told, Paused(frames, why[1], why[2])) /\ frames' = frames /\ why' = why
    BY <1>5 DEF Pause, Tell, pause
  <2>2. PICK m : m = Paused(frames, why[1], why[2])
    OBVIOUS
  <2>3. Tells(m)'
    BY <2>1, <2>2 DEF Tells
  <2>4. ToldTold'
    BY <1>0, <2>1, <2>2, <2>3, ToldAppended
  <2> QED
    BY <1>0, <2>1, <2>4, TodoSame, ReportedIsNext
<1>6. CASE Resumed
  <2>1. js = "released" /\ todo' = todo /\ setup' = setup
        /\ told' = Append(told, Event("Debugger.resumed", Nothing))
    BY <1>6 DEF Resumed, Tell
  <2>2. PICK m : m = Event("Debugger.resumed", Nothing) /\ Relays(m)
    BY DEF Relays, Events
  <2>3. ToldTold'
    BY <1>0, <2>1, <2>2, RelaysKept, ToldAppended
  <2> QED
    BY <1>0, <2>1, <2>3, TodoSame, ReportedIsNext
<1>7. CASE Ask
  <2>1. PICK w, p : Sends(Inquiry(client.next, w, p))
    BY <1>7, AskEffect DEF Asking
  <2>2. told' = told /\ todo' = todo /\ setup' = setup /\ js' = js /\ frames' = frames /\ why' = why
    BY <2>1 DEF Sends
  <2> QED
    BY <1>0, <2>2, ToldSame, TodoSame, ReportedIsNext
<1>8. CASE ReadNext
  <2>1. /\ told # <<>> /\ told' = Tail(told) /\ todo' = todo /\ setup' = setup
        /\ js' = js /\ frames' = frames /\ why' = why
    BY <1>8, ReadEffect DEF Takes
  <2> QED
    BY <1>0, <2>1, ToldTaken, TodoSame, ReportedIsNext
<1>9. CASE UNCHANGED vars
  <2>1. told' = told /\ todo' = todo /\ setup' = setup /\ js' = js /\ frames' = frames /\ why' = why
    BY <1>9 DEF vars, session, pause
  <2> QED
    BY <1>0, <2>1, ToldSame, TodoSame, ReportedIsNext
<1> QED
  BY <1>1, <1>2, <1>3, <1>4, <1>5, <1>6, <1>7, <1>8, <1>9 DEF Next

-----------------------------------------------------------------------------
(* Announced: the script comes before all that is about it.                *)

\* Appending leaves the first element.
LEMMA HeadAppended ==
    ASSUME NEW s, IsSeq(s), NEW x
    PROVE  /\ Append(s, x) # <<>> /\ IsSeq(Append(s, x))
           /\ Head(Append(s, x)) = IF s = <<>> THEN x ELSE Head(s)
<1> DEFINE t == Append(s, x)
<1>1. IsSeq(t) /\ Len(t) = Len(s) + 1 /\ t[Len(s) + 1] = x /\ \A i \in 1..Len(s) : t[i] = s[i]
  BY AppendIs
<1>2. Len(s) \in Nat /\ (s # <<>> <=> Len(s) > 0)
  BY SeqIs
<1> HIDE DEF t
<1>3. t # <<>>
  BY <1>1, <1>2, SeqIs
<1>4. Head(t) = t[1]
  BY <1>1, <1>3, TailIs
<1>5. CASE s = <<>>
  BY <1>1, <1>3, <1>4, <1>5, EmptyIs DEF t
<1>6. CASE s # <<>>
  <2>1. Head(s) = s[1] /\ 1 \in 1..Len(s)
    BY <1>2, <1>6, TailIs
  <2> QED
    BY <1>1, <1>3, <1>4, <1>6, <2>1 DEF t
<1> QED
  BY <1>5, <1>6

\* The stages of the announcement.
Silent == Unused /\ Unaware /\ client.next = 1 /\ sent = <<>> /\ todo = <<>>
Enabling == Unused /\ Unaware /\ todo = <<>> /\ sent # <<>> /\ Method(Head(sent)) = <<"Debugger.enable">>
Announcing == Unused /\ Unaware /\ todo # <<>> /\ Head(todo) = ScriptParsed(1)
Arriving == Unaware /\ told # <<>> /\ Head(told) = ScriptParsed(1)
Known == client.scripts = Put(<<>>, <<Decimal(1)>>, AnnouncedUrl)

\* Announced is one of five stages ...
LEMMA AnnouncedStages == Announced <=> Silent \/ Enabling \/ Announcing \/ Arriving \/ Known
  BY DEF Announced, Silent, Enabling, Announcing, Arriving, Known

\* ... and in the next state.
LEMMA AnnouncedStagesNext ==
    Announced' <=> Silent' \/ Enabling' \/ Announcing' \/ Arriving' \/ Known'
  BY DEF Announced, Silent, Enabling, Announcing, Arriving, Known

\* Before Debugger.enable the script has not run and nothing can be read.
LEMMA UnusedRuns == ASSUME Unused PROVE ~Stop /\ ~CaptureFrame /\ ~Pause /\ ~Resumed /\ ~ReadNext
<1>1. told = <<>> /\ breakpoints = <<>> /\ (js = "running" => due = {})
  BY DEF Unused
<1>2. js # "capturing" /\ js # "released"
  BY DEF Unused
<1>3. ASSUME Stop PROVE FALSE
  <2>1. js = "running" /\ \E s \in 1..Len(Snapshots) : Reasons(s) # {}
    BY <1>3 DEF Stop
  <2>2. DOMAIN breakpoints = {}
    <3>1. DOMAIN <<>> = {}
      OBVIOUS
    <3> QED
      BY <1>1, <3>1
  <2>3. \A s : Hits(s) = {}
    BY <2>2 DEF Hits
  <2>4. \A s : Reasons(s) = {}
    BY <1>1, <2>1, <2>3 DEF Reasons
  <2> QED
    BY <2>1, <2>4
<1> QED
  BY <1>1, <1>2, <1>3 DEF CaptureFrame, Pause, Resumed, ReadNext

\* Asking tells the client of no script ...
LEMMA UnawareAsks ==
    ASSUME Unaware, NEW q, Sends(q)
    PROVE  Unaware'
  BY DEF Unaware, Sends

\* ... and sets off none.
LEMMA UnusedAsks ==
    ASSUME Unused, NEW q, Sends(q)
    PROVE  Unused'
  BY DEF Unused, Sends

\* What follows each stage: before Debugger.enable ...
LEMMA SilentGoesOn ==
    ASSUME TypeOK, Queued, Reported, Silent, Next
    PROVE  Announced'
<1>1. Unused /\ Unaware /\ client.next = 1 /\ sent = <<>> /\ todo = <<>>
  BY DEF Silent
<1>2. ~HandleNext /\ ~SendNext
  BY <1>1 DEF HandleNext, SendNext
<1>3. Ask
  BY <1>1, <1>2, UnusedRuns DEF Next
<1>4. PICK w, p : Sends(Inquiry(client.next, w, p)) /\ Mannered(w, p)
  BY <1>3, AskEffect DEF Asking
<1>5. w = "Debugger.enable"
  BY <1>1, <1>4 DEF Mannered
<1> DEFINE q == Inquiry(client.next, w, p)
<1>6. Method(q) = <<w>>
  BY InquiryIs
<1> HIDE DEF q
<1>7. Unused' /\ Unaware' /\ sent' = Append(sent, q) /\ todo' = todo
  BY <1>1, <1>4, UnusedAsks, UnawareAsks DEF q, Sends
<1>8. sent' # <<>> /\ Head(sent') = q
  BY <1>1, <1>7, EmptyIs, HeadAppended
<1>9. Enabling'
  BY <1>1, <1>5, <1>6, <1>7, <1>8 DEF Enabling, Method
<1> QED
  BY <1>9, AnnouncedStagesNext

\* ... while it is under way ...
LEMMA EnablingGoesOn ==
    ASSUME TypeOK, Queued, Reported, Enabling, Next
    PROVE  Announced'
<1>1. Unused /\ Unaware /\ todo = <<>> /\ sent # <<>> /\ Method(Head(sent)) = <<"Debugger.enable">>
  BY DEF Enabling
<1>2. ~SendNext
  BY <1>1 DEF SendNext
<1>3. CASE HandleNext
  <2>0. PICK q : q = Head(sent)
    OBVIOUS
  <2>1. setup' = setup /\ told' = told /\ client' = client /\ Served(q)
    BY <1>3, <2>0, HandleEffect
  <2>2. Enables(q) /\ ~IsControl(q) /\ Method(q) # <<"Runtime.runIfWaitingForDebugger">>
    BY <1>1, <2>0, OtherMethods DEF Steps
  <2>3. PICK events, result : Responds(q, events, result)
    BY <2>1 DEF Served
  <2>4. todo' = <<ScriptParsed(1)>> \o <<Response(q, result)>>
    BY <2>2, <2>3 DEF Responds
  <2> DEFINE e == ScriptParsed(1)
             r == Response(q, result)
  <2>5. todo' # <<>> /\ Head(todo') = e
    <3> HIDE DEF e, r
    <3>1. todo' = <<e>> \o <<r>>
      BY <2>4 DEF e, r
    <3>2. IsSeq(<<e>>) /\ <<e>> # <<>> /\ Head(<<e>>) = e
      BY SingleIs
    <3>3. <<e>> \o <<r>> = Append(<<e>>, r)
      BY <3>2, AppendOn
    <3> QED
      BY <3>1, <3>2, <3>3, HeadAppended
  <2>6. js' = js /\ due' = due /\ breakpoints' = breakpoints
    BY <2>1, <2>2 DEF Served, Serves
  <2>7. Unused' /\ Unaware'
    BY <1>1, <2>1, <2>6 DEF Unused, Unaware
  <2>8. Announcing'
    BY <2>1, <2>5, <2>7, EventsKept DEF Announcing
  <2> QED
    BY <2>8, AnnouncedStagesNext
<1>4. CASE Ask
  <2>1. PICK w, p : Sends(Inquiry(client.next, w, p))
    BY <1>4, AskEffect DEF Asking
  <2> DEFINE q == Inquiry(client.next, w, p)
  <2> HIDE DEF q
  <2>2. Unused' /\ Unaware' /\ sent' = Append(sent, q) /\ todo' = todo
    BY <1>1, <2>1, UnusedAsks, UnawareAsks DEF q, Sends
  <2>3. sent' # <<>> /\ Head(sent') = Head(sent)
    BY <1>1, <2>2, HeadAppended DEF TypeOK
  <2>4. Enabling'
    BY <1>1, <2>2, <2>3 DEF Enabling, Method
  <2> QED
    BY <2>4, AnnouncedStagesNext
<1> QED
  BY <1>1, <1>2, <1>3, <1>4, UnusedRuns DEF Next

\* ... while it is being answered ...
LEMMA AnnouncingGoesOn ==
    ASSUME TypeOK, Queued, Reported, Announcing, Next
    PROVE  Announced'
<1>1. Unused /\ Unaware /\ todo # <<>> /\ Head(todo) = ScriptParsed(1)
  BY DEF Announcing
<1>2. ~HandleNext
  BY <1>1 DEF HandleNext, Handle
<1>3. CASE SendNext
  <2>1. told' = Append(told, Head(todo)) /\ client' = client /\ setup' = setup
    BY <1>3 DEF SendNext, Tell
  <2>2. told = <<>>
    BY <1>1 DEF Unused
  <2>3. told' # <<>> /\ Head(told') = ScriptParsed(1)
    BY <1>1, <2>1, <2>2, EmptyIs, HeadAppended
  <2>4. Arriving'
    BY <1>1, <2>1, <2>3, EventsKept DEF Arriving, Unaware
  <2> QED
    BY <2>4, AnnouncedStagesNext
<1>4. CASE Ask
  <2>1. PICK w, p : Sends(Inquiry(client.next, w, p))
    BY <1>4, AskEffect DEF Asking
  <2>2. Unused' /\ Unaware' /\ todo' = todo /\ setup' = setup
    BY <1>1, <2>1, UnusedAsks, UnawareAsks DEF Sends
  <2>3. Announcing'
    BY <1>1, <2>2, EventsKept DEF Announcing
  <2> QED
    BY <2>3, AnnouncedStagesNext
<1> QED
  BY <1>1, <1>2, <1>3, <1>4, UnusedRuns DEF Next

\* What every step does to what is told and to the scripts known.
ToldOn == told' = told \/ \E m : told' = Append(told, m)

\* (what the steps but reading have in common) ...
LEMMA OthersTell ==
    ASSUME TypeOK, Queued, Reported, [Next]_vars, ~ReadNext
    PROVE  /\ ToldOn /\ setup' = setup
           /\ client'.scripts = client.scripts /\ client'.bound = client.bound
           /\ client'.frames = client.frames \/ client'.frames = <<>>
<1>1. CASE HandleNext
  <2>1. setup' = setup /\ told' = told /\ client' = client
    BY <1>1, HandleEffect
  <2> QED
    BY <2>1 DEF ToldOn
<1>2. CASE SendNext \/ Stop \/ CaptureFrame \/ Pause \/ Resumed \/ UNCHANGED vars
  BY <1>2 DEF SendNext, Stop, CaptureFrame, Pause, Resumed, Tell, vars, ToldOn
<1>3. CASE Ask
  <2>1. PICK w, p : Sends(Inquiry(client.next, w, p))
    BY <1>3, AskEffect DEF Asking
  <2> QED
    BY <2>1 DEF Sends, ToldOn
<1> QED
  BY <1>1, <1>2, <1>3 DEF Next

\* ... while the client is being told ...
LEMMA ArrivingGoesOn ==
    ASSUME TypeOK, Queued, Reported, Arriving, Next
    PROVE  Announced'
<1>1. Unaware /\ told # <<>> /\ Head(told) = ScriptParsed(1)
  BY DEF Arriving
<1>2. CASE ReadNext
  <2>1. Takes
    BY <1>2, ReadEffect
  <2>2. ~Has(Head(told), "id") /\ Method(Head(told)) = <<"Debugger.scriptParsed">>
    BY <1>1, ScriptParsedIs
  <2>3. TakesEvent(Head(told)) /\ setup' = setup
    BY <2>1, <2>2 DEF Takes
  <2>4. Method(Context) = <<"Runtime.executionContextCreated">>
        /\ Method(Event("Debugger.resumed", Nothing)) = <<"Debugger.resumed">>
        /\ Method(Paused(frames, why[1], why[2])) = <<"Debugger.paused">>
    BY EventIs, PausedIs DEF Context
  <2>5. Head(told) # Context /\ Head(told) # Event("Debugger.resumed", Nothing)
        /\ Head(told) # Paused(frames, why[1], why[2])
    BY <2>2, <2>4, Words
  <2>6. client'.scripts = Put(client.scripts, <<Decimal(1)>>, AnnouncedUrl)
    BY <2>3, <2>5 DEF TakesEvent
  <2>7. Known'
    BY <1>1, <2>3, <2>6, EventsKept DEF Known, Unaware
  <2> QED
    BY <2>7, AnnouncedStagesNext
<1>3. CASE ~ReadNext
  <2>1. /\ ToldOn /\ setup' = setup
        /\ client'.scripts = client.scripts /\ client'.bound = client.bound
        /\ client'.frames = client.frames \/ client'.frames = <<>>
    BY <1>3, OthersTell
  <2>2. told' # <<>> /\ Head(told') = ScriptParsed(1)
    BY <1>1, <2>1, HeadAppended DEF ToldOn, TypeOK
  <2>3. Arriving'
    BY <1>1, <2>1, <2>2, EventsKept DEF Arriving, Unaware
  <2> QED
    BY <2>3, AnnouncedStagesNext
<1> QED
  BY <1>2, <1>3

\* (announcing a script twice is announcing it once) ...
LEMMA PutTwice == ASSUME NEW k, NEW v PROVE Put(Put(<<>>, k, v), k, v) = Put(<<>>, k, v)
<1> DEFINE g == Put(<<>>, k, v)
<1>1. DOMAIN <<>> = {}
  OBVIOUS
<1>2. g = [x \in {k} |-> v]
  BY <1>1 DEF Put
<1> HIDE DEF g
<1>3. Put(g, k, v) = [x \in {k} |-> v]
  BY <1>2 DEF Put
<1> QED
  BY <1>2, <1>3 DEF g

\* ... and when it knows the script.
LEMMA KnownGoesOn ==
    ASSUME TypeOK, Queued, Reported, Known, Next
    PROVE  Known'
<1> DEFINE k == <<Decimal(1)>>
           v == AnnouncedUrl
<1>1. client.scripts = Put(<<>>, k, v)
  BY DEF Known
<1>2. CASE ReadNext
  <2>1. Takes
    BY <1>2, ReadEffect
  <2>2. setup' = setup /\ (client'.scripts = client.scripts \/ client'.scripts = Put(client.scripts, k, v))
    <3>1. CASE Has(Head(told), "id")
      BY <2>1, <3>1 DEF Takes, TakesAnswer
    <3>2. CASE ~Has(Head(told), "id")
      BY <2>1, <3>2 DEF Takes, TakesEvent
    <3> QED
      BY <3>1, <3>2
  <2>3. client'.scripts = Put(<<>>, k, v)
    <3> HIDE DEF k, v
    <3> QED
      BY <1>1, <2>2, PutTwice
  <2> QED
    BY <2>2, <2>3, EventsKept DEF Known
<1>3. CASE ~ReadNext
  BY <1>1, <1>3, OthersTell, EventsKept DEF Known
<1> QED
  BY <1>2, <1>3

\* Announced is kept.
LEMMA AnnouncedKept ==
    ASSUME TypeOK, Queued, Reported, Announced, [Next]_vars
    PROVE  Announced'
<1>1. CASE Next
  BY <1>1, AnnouncedStages, AnnouncedStagesNext, SilentGoesOn, EnablingGoesOn, AnnouncingGoesOn,
     ArrivingGoesOn, KnownGoesOn
<1>2. CASE UNCHANGED vars
  <2>1. /\ setup' = setup /\ sent' = sent /\ told' = told /\ todo' = todo /\ client' = client
        /\ breakpoints' = breakpoints /\ js' = js /\ due' = due
    BY <1>2 DEF vars, session, table, pause
  <2>2. ScriptParsed(1)' = ScriptParsed(1) /\ AnnouncedUrl' = AnnouncedUrl
    BY <2>1, EventsKept
  <2> QED
    BY <2>1, <2>2 DEF Announced, Unused, Unaware
<1> QED
  BY <1>1, <1>2

-----------------------------------------------------------------------------
(* PauseShared: one pause, and one end of it.                              *)

\* Messages with one of some methods, in a queue.
NoneIn(s, C) == \A i \in 1..Len(s) : Method(s[i]) \notin C
AloneIn(s, C, i) == Method(s[i]) \in C /\ \A j \in 1..Len(s) : Method(s[j]) \in C => j = i
OneIn(s, C) == \E i \in 1..Len(s) : AloneIn(s, C, i)

\* Messages of some methods, when one message is appended ...
LEMMA InAppended ==
    ASSUME NEW s, IsSeq(s), NEW x, NEW C
    PROVE  /\ NoneIn(s, C) /\ Method(x) \notin C => NoneIn(Append(s, x), C)
           /\ NoneIn(s, C) /\ Method(x) \in C => OneIn(Append(s, x), C)
           /\ OneIn(s, C) /\ Method(x) \notin C => OneIn(Append(s, x), C)
<1> DEFINE t == Append(s, x)
           n == Len(s)
<1>1. n \in Nat /\ Len(t) = n + 1 /\ t[n + 1] = x /\ \A i \in 1..n : t[i] = s[i]
  BY AppendIs, SeqIs
<1> HIDE DEF t, n
<1>2. ASSUME NEW i \in 1..Len(t) PROVE i \in 1..n \/ i = n + 1
  BY <1>1
<1>3. ASSUME NoneIn(s, C), Method(x) \notin C PROVE NoneIn(t, C)
  BY <1>1, <1>2, <1>3 DEF NoneIn, n
<1>4. ASSUME NoneIn(s, C), Method(x) \in C PROVE OneIn(t, C)
  <2>1. n + 1 \in 1..Len(t)
    BY <1>1
  <2>2. AloneIn(t, C, n + 1)
    BY <1>1, <1>2, <1>4 DEF NoneIn, AloneIn, n
  <2> QED
    BY <2>1, <2>2 DEF OneIn
<1>5. ASSUME OneIn(s, C), Method(x) \notin C PROVE OneIn(t, C)
  <2>1. PICK i \in 1..n : AloneIn(s, C, i)
    BY <1>5 DEF OneIn, n
  <2>2. i \in 1..Len(t) /\ t[i] = s[i]
    BY <1>1
  <2>3. ASSUME NEW j \in 1..Len(t), Method(t[j]) \in C PROVE j = i
    <3>1. j \in 1..n
      BY <1>1, <1>2, <1>5, <2>3
    <3> QED
      BY <1>1, <2>1, <2>3, <3>1 DEF AloneIn, n
  <2>4. AloneIn(t, C, i)
    BY <2>1, <2>2, <2>3 DEF AloneIn
  <2> QED
    BY <2>2, <2>4 DEF OneIn
<1> QED
  BY <1>3, <1>4, <1>5 DEF t

\* ... and when the first is taken.
LEMMA InTail ==
    ASSUME NEW s, IsSeq(s), s # <<>>, NEW C
    PROVE  /\ NoneIn(s, C) => NoneIn(Tail(s), C) /\ Method(Head(s)) \notin C
           /\ OneIn(s, C) /\ Method(Head(s)) \in C => NoneIn(Tail(s), C)
           /\ OneIn(s, C) /\ Method(Head(s)) \notin C => OneIn(Tail(s), C)
<1> DEFINE t == Tail(s)
           n == Len(s)
<1>1. /\ n \in Nat /\ n >= 1 /\ Len(t) = n - 1 /\ Head(s) = s[1] /\ \A i \in 1..n - 1 : t[i] = s[i + 1]
  BY TailIs, SeqIs
<1> HIDE DEF t, n
<1>2. ASSUME NEW i \in 1..Len(t) PROVE i \in 1..n - 1 /\ i + 1 \in 1..n /\ i + 1 # 1
  BY <1>1
<1>3. 1 \in 1..n
  BY <1>1
<1>4. ASSUME NoneIn(s, C) PROVE NoneIn(t, C) /\ Method(Head(s)) \notin C
  BY <1>1, <1>2, <1>3, <1>4 DEF NoneIn, n
<1>5. ASSUME OneIn(s, C), Method(Head(s)) \in C PROVE NoneIn(t, C)
  <2>1. PICK i \in 1..n : AloneIn(s, C, i)
    BY <1>5 DEF OneIn, n
  <2>2. i = 1
    BY <1>1, <1>3, <1>5, <2>1 DEF AloneIn, n
  <2>3. ASSUME NEW j \in 1..Len(t) PROVE Method(t[j]) \notin C
    BY <1>1, <1>2, <2>1, <2>2 DEF AloneIn, n
  <2> QED
    BY <2>3 DEF NoneIn
<1>6. ASSUME OneIn(s, C), Method(Head(s)) \notin C PROVE OneIn(t, C)
  <2>1. PICK i \in 1..n : AloneIn(s, C, i)
    BY <1>6 DEF OneIn, n
  <2>2. i # 1
    BY <1>1, <1>6, <2>1 DEF AloneIn
  <2> DEFINE k == i - 1
  <2>3. k \in 1..Len(t) /\ k + 1 = i /\ k \in 1..n - 1
    BY <1>1, <2>2
  <2> HIDE DEF k
  <2>4. Method(t[k]) \in C
    BY <1>1, <2>1, <2>3 DEF AloneIn
  <2>5. ASSUME NEW j \in 1..Len(t), Method(t[j]) \in C PROVE j = k
    <3>1. j + 1 \in 1..n /\ t[j] = s[j + 1]
      BY <1>1, <1>2
    <3>2. j + 1 = i
      BY <2>1, <2>5, <3>1 DEF AloneIn, n
    <3> QED
      BY <2>3, <3>2
  <2> QED
    BY <2>3, <2>4, <2>5 DEF OneIn, AloneIn
<1> QED
  BY <1>4, <1>5, <1>6 DEF t

-----------------------------------------------------------------------------
Pausing == {<<"Debugger.paused">>}
Ending == {<<c>> : c \in Steps \union {"Debugger.resume"}}

Apart == js # "paused" /\ NoneIn(told, Pausing) /\ NoneIn(sent, Ending) /\ client.frames = <<>>
Telling == js = "paused" /\ OneIn(told, Pausing) /\ NoneIn(sent, Ending) /\ client.frames = <<>>
Leaving == js = "paused" /\ NoneIn(told, Pausing) /\ OneIn(sent, Ending) /\ client.frames = <<>>
Sharing == /\ js = "paused" /\ NoneIn(told, Pausing) /\ NoneIn(sent, Ending)
           /\ client.frames = frames /\ client.hit = why[2]
Clear == client.frames = <<>> => client.hit = <<>> /\ client.watch = <<>> /\ client.list = <<>>

\* PauseShared is one of four stages, in this state and the next.
LEMMA PauseStages ==
    /\ PauseShared <=> Clear /\ (Apart \/ Telling \/ Leaving \/ Sharing)
    /\ PauseShared' <=> Clear' /\ (Apart' \/ Telling' \/ Leaving' \/ Sharing')
<1>1. /\ \A m : IsPaused(m) <=> Method(m) \in Pausing
      /\ \A m : IsControl(m) <=> Method(m) \in Ending
  BY DEF IsPaused, IsControl, Pausing, Ending
<1>2. /\ NoneTold <=> NoneIn(told, Pausing)
      /\ (\E i \in 1..Len(told) : ToldAt(i)) <=> OneIn(told, Pausing)
      /\ NoneSent <=> NoneIn(sent, Ending)
      /\ (\E i \in 1..Len(sent) : SentAt(i)) <=> OneIn(sent, Ending)
  BY <1>1 DEF NoneTold, ToldAt, NoneSent, SentAt, NoneIn, OneIn, AloneIn
<1>3. /\ NoneTold' <=> NoneIn(told', Pausing)
      /\ (\E i \in 1..Len(told) : ToldAt(i))' <=> OneIn(told', Pausing)
      /\ NoneSent' <=> NoneIn(sent', Ending)
      /\ (\E i \in 1..Len(sent) : SentAt(i))' <=> OneIn(sent', Ending)
  BY <1>1 DEF NoneTold, ToldAt, NoneSent, SentAt, NoneIn, OneIn, AloneIn
<1>4. PauseShared <=> Clear /\ (Apart \/ Telling \/ Leaving \/ Sharing)
  BY <1>2 DEF PauseShared, Clear, Apart, Telling, Leaving, Sharing
<1>5. PauseShared' <=> Clear' /\ (Apart' \/ Telling' \/ Leaving' \/ Sharing')
  BY <1>3 DEF PauseShared, Clear, Apart, Telling, Leaving, Sharing
<1> QED
  BY <1>4, <1>5

\* An answer is no pause.
LEMMA ResponseSilent ==
    ASSUME NEW q, NEW r
    PROVE  Method(Response(q, r)) = <<>> /\ Method(Response(q, r)) \notin Pausing
<1> DEFINE o == [id |-> Get(q, "id"), result |-> r]
<1>1. DOMAIN o = {"id", "result"} /\ Response(q, r) = Obj(o)
  BY DEF Response
<1> HIDE DEF o
<1>2. ~Has(Obj(o), "method")
  BY <1>1 DEF Has, Obj
<1>3. Method(Obj(o)) = <<>>
  BY <1>2 DEF Method, Get, StrOf, Null
<1>4. <<>> # <<"Debugger.paused">>
  OBVIOUS
<1> QED
  BY <1>1, <1>3, <1>4 DEF Pausing

\* No answer and ...
LEMMA FitsSilent ==
    ASSUME NEW a, NEW q, Fits(a, q)
    PROVE  Method(a) \notin Pausing
<1>1. a = Response(q, Get(a, "result"))
  BY DEF Fits, Response
<1> QED
  BY <1>1, ResponseSilent

\* ... no event of a handler begins or ends a pause.
LEMMA EventSilent ==
    ASSUME NEW m \in Events
    PROVE  Method(m) \notin Pausing
  BY EventsAre DEF IsPaused, Pausing

\* The next message to be sent.
LEMMA NextSilent ==
    ASSUME TypeOK, Queued, Reported, todo # <<>>
    PROVE  Method(Head(todo)) \notin Pausing
<1> DEFINE m == Head(todo)
           n == Len(Numbered(told))
<1>1. IsSeq(todo) /\ m = todo[1] /\ 1 \in 1..Len(todo)
  BY TailIs, SeqIs DEF TypeOK
<1>2. CASE m \in Events
  BY <1>2, EventSilent
<1>3. CASE Has(m, "id")
  <2>1. Len(Numbered(todo)) = Len(Numbered(Tail(todo))) + 1 /\ Numbered(todo)[1] = m
    BY <1>1, <1>3, NumberedTaken
  <2>2. Len(Numbered(Tail(todo))) \in Nat
    BY <1>1, TailIs, NumberedFrom, SeqIs DEF Numerous
  <2>3. 1 \in 1..Len(Numbered(todo))
    BY <2>1, <2>2
  <2>4. /\ Answers = Numbered(told) \o Numbered(todo) /\ n \in Nat
        /\ IsSeq(Numbered(told)) /\ IsSeq(Numbered(todo)) /\ Len(Answers) = n + Len(Numbered(todo))
    BY AnswersAre
  <2>5. Answers[n + 1] = m
    BY <2>1, <2>3, <2>4, ConcatIs
  <2>6. n + 1 \in 1..Len(Answers)
    <3>1. Len(Numbered(todo)) \in Nat /\ Len(Numbered(todo)) >= 1
      BY <2>1, <2>2
    <3> HIDE DEF n
    <3> QED
      BY <2>4, <3>1
  <2> HIDE DEF n, m
  <2>7. Fits(m, client.waiting[n + 1])
    BY <2>5, <2>6 DEF Queued
  <2> QED
    BY <2>7, FitsSilent DEF m
<1> QED
  BY <1>1, <1>2, <1>3 DEF Reported

\* A pause the client has been told of has frames.
LEMMA PausedFrames ==
    ASSUME TypeOK, Captured, js = "paused"
    PROVE  frames # <<>> /\ stop \in 1..Len(Snapshots) /\ Len(frames) = Len(Stack(stop))
<1>1. stop \in 1..Len(Snapshots)
  <2>1. Len(Snapshots) \in Nat
    BY InspectionAssumption, SeqIs
  <2> QED
    BY <2>1 DEF TypeOK
<1>2. Len(frames) = Len(Stack(stop)) /\ Len(Stack(stop)) > 0 /\ Len(Stack(stop)) \in Nat
  BY <1>1, StackIs DEF Captured
<1>3. frames # <<>>
  BY <1>2, EmptyIs
<1> QED
  BY <1>1, <1>2, <1>3

\* A step that leaves the pause, and what the client knows of it, as they are.
LEMMA PauseUnmoved ==
    ASSUME PauseShared, js' = js \/ (js # "paused" /\ js' # "paused"), frames' = frames, why' = why,
           client'.frames = client.frames, client'.hit = client.hit, Clear',
           NoneIn(told, Pausing) => NoneIn(told', Pausing),
           OneIn(told, Pausing) => OneIn(told', Pausing),
           NoneIn(sent, Ending) => NoneIn(sent', Ending),
           OneIn(sent, Ending) => OneIn(sent', Ending)
    PROVE  PauseShared'
<1>1. CASE Apart
  <2>1. Apart'
    BY <1>1 DEF Apart
  <2> QED
    BY <2>1, PauseStages
<1>2. CASE Telling
  <2>1. Telling'
    BY <1>2 DEF Telling
  <2> QED
    BY <2>1, PauseStages
<1>3. CASE Leaving
  <2>1. Leaving'
    BY <1>3 DEF Leaving
  <2> QED
    BY <2>1, PauseStages
<1>4. CASE Sharing
  <2>1. Sharing'
    BY <1>4 DEF Sharing
  <2> QED
    BY <2>1, PauseStages
<1> QED
  BY <1>1, <1>2, <1>3, <1>4, PauseStages

\* A step of the JS thread while there is no pause.
LEMMA ApartMoves ==
    ASSUME PauseShared, js # "paused", js' # "paused", sent' = sent, client' = client,
           NoneIn(told, Pausing) => NoneIn(told', Pausing)
    PROVE  PauseShared'
<1>1. Apart /\ Clear
  BY PauseStages DEF Apart, Telling, Leaving, Sharing
<1>2. Apart' /\ Clear'
  BY <1>1 DEF Apart, Clear
<1> QED
  BY <1>2, PauseStages

\* PauseShared is kept.
LEMMA PauseSharedKept ==
    ASSUME TypeOK, Queued, Reported, PauseShared, Captured, [Next]_vars
    PROVE  PauseShared'
<1>0. IsSeq(told) /\ IsSeq(sent) /\ Clear
  BY PauseStages DEF TypeOK
<1>1. CASE HandleNext
  <2>0. PICK q : q = Head(sent)
    OBVIOUS
  <2>1. /\ sent # <<>> /\ sent' = Tail(sent) /\ told' = told /\ client' = client /\ Serves(q)
    BY <1>1, <2>0, HandleEffect DEF Served
  <2>2. /\ NoneIn(sent, Ending) => NoneIn(sent', Ending) /\ Method(q) \notin Ending
        /\ OneIn(sent, Ending) /\ Method(q) \in Ending => NoneIn(sent', Ending)
        /\ OneIn(sent, Ending) /\ Method(q) \notin Ending => OneIn(sent', Ending)
    BY <1>0, <2>0, <2>1, InTail
  <2>3. Clear'
    BY <1>0, <2>1 DEF Clear
  <2>4. frames' = frames /\ why' = why
    BY <2>1 DEF Serves
  <2>5. CASE Method(q) \notin Ending
    <3>1. js' = js \/ (js = "gate" /\ js' = "running")
      BY <2>1, <2>5 DEF Serves, IsControl, Ending
    <3> QED
      BY <2>1, <2>2, <2>3, <2>4, <2>5, <3>1, PauseUnmoved
  <2>6. CASE Method(q) \in Ending
    <3>1. Leaving
      BY <2>2, <2>6, PauseStages DEF Apart, Telling, Leaving, Sharing
    <3>2. js' = "released"
      BY <2>1, <2>6, <3>1 DEF Serves, IsControl, Ending, Leaving
    <3>3. Apart'
      BY <2>1, <2>2, <2>6, <3>1, <3>2 DEF Leaving, Apart
    <3> QED
      BY <2>3, <3>3, PauseStages
  <2> QED
    BY <2>5, <2>6
<1>2. CASE SendNext
  <2>1. /\ todo # <<>> /\ told' = Append(told, Head(todo)) /\ sent' = sent /\ client' = client
        /\ js' = js /\ frames' = frames /\ why' = why
    BY <1>2 DEF SendNext, Tell, session, pause
  <2>2. Method(Head(todo)) \notin Pausing
    BY <2>1, NextSilent
  <2>3. (NoneIn(told, Pausing) => NoneIn(told', Pausing)) /\ (OneIn(told, Pausing) => OneIn(told', Pausing))
    BY <1>0, <2>1, <2>2, InAppended
  <2>4. Clear'
    BY <1>0, <2>1 DEF Clear
  <2> QED
    BY <2>1, <2>3, <2>4, PauseUnmoved
<1>3. CASE Stop \/ CaptureFrame
  <2>1. /\ js # "paused" /\ js' # "paused" /\ sent' = sent /\ told' = told /\ client' = client
    BY <1>3 DEF Stop, CaptureFrame
  <2> QED
    BY <2>1, ApartMoves
<1>4. CASE Pause
  <2>1. /\ js = "capturing" /\ js' = "paused" /\ sent' = sent /\ client' = client
        /\ told' = Append(told, Paused(frames, why[1], why[2]))
    BY <1>4 DEF Pause, Tell
  <2> DEFINE m == Paused(frames, why[1], why[2])
  <2>2. Method(m) \in Pausing
    BY PausedIs DEF Pausing
  <2> HIDE DEF m
  <2>3. Apart
    BY <2>1, PauseStages DEF Apart, Telling, Leaving, Sharing
  <2>4. OneIn(told', Pausing)
    BY <1>0, <2>1, <2>2, <2>3, InAppended DEF Apart, m
  <2>5. Telling' /\ Clear'
    BY <1>0, <2>1, <2>3, <2>4 DEF Telling, Apart, Clear
  <2> QED
    BY <2>5, PauseStages
<1>5. CASE Resumed
  <2> DEFINE m == Event("Debugger.resumed", Nothing)
  <2>1. /\ js = "released" /\ js' = "running" /\ sent' = sent /\ client' = client
        /\ told' = Append(told, m)
    BY <1>5 DEF Resumed, Tell
  <2>2. Method(m) \notin Pausing
    BY EventSilent DEF Events
  <2> HIDE DEF m
  <2>3. NoneIn(told, Pausing) => NoneIn(told', Pausing)
    BY <1>0, <2>1, <2>2, InAppended
  <2> QED
    BY <2>1, <2>3, ApartMoves
<1>6. CASE Ask
  <2>1. PICK w, p : Sends(Inquiry(client.next, w, p)) /\ Mannered(w, p)
    BY <1>6, AskEffect DEF Asking
  <2>0. PICK q : q = Inquiry(client.next, w, p)
    OBVIOUS
  <2>2. Sends(q) /\ Method(q) = <<w>>
    BY <2>0, <2>1, InquiryIs
  <2>3. /\ sent' = Append(sent, q) /\ told' = told /\ js' = js /\ frames' = frames /\ why' = why
    BY <2>2 DEF Sends
  <2>4. CASE Method(q) \notin Ending
    <3>1. /\ client'.frames = client.frames /\ client'.hit = client.hit
          /\ client'.watch = client.watch /\ client'.list = client.list
      BY <2>2, <2>4 DEF Sends, IsControl, Ending
    <3>2. (NoneIn(sent, Ending) => NoneIn(sent', Ending)) /\ (OneIn(sent, Ending) => OneIn(sent', Ending))
      BY <1>0, <2>3, <2>4, InAppended
    <3>3. Clear'
      BY <1>0, <3>1 DEF Clear
    <3> QED
      BY <2>3, <3>1, <3>2, <3>3, PauseUnmoved
  <2>5. CASE Method(q) \in Ending
    <3>1. client'.frames = <<>> /\ client'.hit = <<>> /\ client'.watch = <<>> /\ client'.list = <<>>
      BY <2>2, <2>5 DEF Sends, IsControl, Ending
    <3>2. client.frames # <<>>
      <4>1. w \in Steps \union {"Debugger.resume"}
        BY <2>2, <2>5, Words DEF Ending
      <4> QED
        BY <2>1, <4>1 DEF Mannered
    <3>3. Sharing
      BY <3>2, PauseStages DEF Apart, Telling, Leaving, Sharing
    <3>4. OneIn(sent', Ending)
      BY <1>0, <2>3, <2>5, <3>3, InAppended DEF Sharing
    <3>5. Leaving' /\ Clear'
      BY <2>3, <3>1, <3>3, <3>4 DEF Sharing, Leaving, Clear
    <3> QED
      BY <3>5, PauseStages
  <2> QED
    BY <2>4, <2>5
<1>7. CASE ReadNext
  <2>0. PICK m : m = Head(told)
    OBVIOUS
  <2>1. Takes
    BY <1>7, ReadEffect
  <2>2. /\ told # <<>> /\ told' = Tail(told) /\ sent' = sent
        /\ js' = js /\ frames' = frames /\ why' = why
    BY <2>1 DEF Takes
  <2>3. /\ NoneIn(told, Pausing) => NoneIn(told', Pausing) /\ Method(m) \notin Pausing
        /\ OneIn(told, Pausing) /\ Method(m) \in Pausing => NoneIn(told', Pausing)
        /\ OneIn(told, Pausing) /\ Method(m) \notin Pausing => OneIn(told', Pausing)
    BY <1>0, <2>0, <2>2, InTail
  <2>4. CASE Has(m, "id")
    <3>1. Fits(m, client.waiting[1]) /\ TakesAnswer(client.waiting[1], Get(m, "result"))
      BY <2>0, <2>1, <2>4 DEF Takes
    <3>2. Method(m) \notin Pausing
      BY <3>1, FitsSilent
    <3>3. client'.frames = client.frames /\ client'.hit = client.hit
      BY <3>1 DEF TakesAnswer
    <3>4. Clear'
      BY <1>0, <3>1 DEF TakesAnswer, Clear
    <3> QED
      BY <2>2, <2>3, <3>2, <3>3, <3>4, PauseUnmoved
  <2>5. CASE ~Has(m, "id")
    <3>1. TakesEvent(m)
      BY <2>0, <2>1, <2>5 DEF Takes
    <3>2. CASE m \in Events /\ client'.frames = client.frames /\ client'.hit = client.hit
      <4>1. Method(m) \notin Pausing
        BY <3>2, EventSilent
      <4>2. Clear'
        BY <1>0, <3>1, <3>2 DEF TakesEvent, Clear
      <4> QED
        BY <2>2, <2>3, <3>2, <4>1, <4>2, PauseUnmoved
    <3>3. CASE /\ js = "paused" /\ m = Paused(frames, why[1], why[2])
               /\ client'.frames = frames /\ client'.hit = why[2]
      <4>1. Method(m) \in Pausing
        BY <3>3, PausedIs DEF Pausing
      <4>2. Telling
        BY <2>3, <4>1, PauseStages DEF Apart, Telling, Leaving, Sharing
      <4>3. frames # <<>>
        BY <3>3, PausedFrames
      <4>4. Sharing' /\ Clear'
        BY <2>2, <2>3, <3>3, <4>1, <4>2, <4>3 DEF Telling, Sharing, Clear
      <4> QED
        BY <4>4, PauseStages
    <3> QED
      BY <3>1, <3>2, <3>3 DEF TakesEvent, Events
  <2> QED
    BY <2>4, <2>5
<1>8. CASE UNCHANGED vars
  <2>1. /\ sent' = sent /\ told' = told /\ client' = client /\ js' = js /\ frames' = frames /\ why' = why
    BY <1>8 DEF vars, session, pause
  <2>2. Clear'
    BY <1>0, <2>1 DEF Clear
  <2> QED
    BY <2>1, <2>2, PauseUnmoved
<1> QED
  BY <1>1, <1>2, <1>3, <1>4, <1>5, <1>6, <1>7, <1>8 DEF Next

-----------------------------------------------------------------------------
(* Captured: the frames are those of the stack.                            *)

\* A stop keeps its stack.
LEMMA StackKept ==
    ASSUME setup' = setup
    PROVE  /\ \A s : Stack(s)' = Stack(s)
           /\ stop' = stop => Stack(stop)' = Stack(stop)
  BY DEF Stack

\* A frame keeps its place.
LEMMA PlacedKept ==
    ASSUME setup' = setup, NEW c, NEW f, Placed(c, f)
    PROVE  Placed(c, f)'
<1>1. AnnouncedUrl' = AnnouncedUrl
  BY EventsKept
<1> QED
  BY <1>1 DEF Placed, Place

\* A path and its normal form have the same URL.
LEMMA SameUrl ==
    ASSUME TypeOK
    PROVE  ToFileUrl(setup.path) = AnnouncedUrl /\ FindScript(setup.windows, Scripts, setup.path) = 1
<1>1. /\ setup.windows \in BOOLEAN /\ Scripts[1] = Normalize(setup.path) /\ Len(Scripts) = 1
      /\ \E S : setup.path \in Seq(S) /\ Scripts[1] \in Seq(S) /\ Normalize(Scripts[1]) = Scripts[1]
  BY NameIs
<1>2. ToFileUrl(Normalize(setup.path)) = ToFileUrl(setup.path)
  <2>1. Normalize(Normalize(setup.path)) = Normalize(setup.path)
    BY <1>1
  <2> QED
    BY <2>1 DEF ToFileUrl
<1>3. FindScript(setup.windows, Scripts, setup.path) = 1
  <2>1. Len(Scripts) \in Nat /\ 1 \in 1..Len(Scripts)
    BY <1>1
  <2> DEFINE w == setup.windows
             ss == Scripts
             name == setup.path
  <2>2. w \in BOOLEAN /\ Len(ss) \in Nat /\ 1 \in 1..Len(ss) /\ ss[1] = Normalize(name)
    BY <1>1, <2>1
  <2> HIDE DEF w, ss, name
  <2>3. \A i \in 1..1 - 1 : /\ ~PathsMatch(w, ss[i], Normalize(name))
                            /\ Base(ss[i]) # <<>> => ~PathsMatch(w, Base(ss[i]), Base(Normalize(name)))
    OBVIOUS
  <2>4. FindScript(w, ss, name) = 1
    BY <2>2, <2>3, OwnScriptFound
  <2> QED
    BY <2>4 DEF w, ss, name
<1> QED
  BY <1>1, <1>2, <1>3 DEF AnnouncedUrl

\* A frame is captured at its place (capture_frames).
LEMMA CapturedPlaced ==
    ASSUME TypeOK, NEW f, f.file = setup.path, NEW level, NEW globals, NEW st
    PROVE  Placed(CallFrame(setup.windows, Scripts, f, level, globals, st).frame, f)
<1> DEFINE c == CallFrame(setup.windows, Scripts, f, level, globals, st)
<1>1. \E chain : c.frame = Obj([callFrameId |-> Word(Decimal(level)),
                        location    |-> Obj([scriptId   |-> ScriptId(setup.windows, Scripts, f.file),
                                             lineNumber |-> Num(ZeroBased(f.line))]),
                        url         |-> Str(ToFileUrl(f.file)),
                        scopeChain  |-> chain])
  BY DEF CallFrame
<1> HIDE DEF c
<1>2. ScriptId(setup.windows, Scripts, f.file) = Word(Decimal(1)) /\ ToFileUrl(f.file) = AnnouncedUrl
  BY SameUrl DEF ScriptId
<1>3. c.frame.o["location"] = Place(ZeroBased(f.line)) /\ c.frame.o["url"] = Str(AnnouncedUrl)
  BY <1>1, <1>2 DEF Obj, Place
<1> QED
  BY <1>3 DEF Placed, c

\* Captured is kept by a step that leaves the frames and the stop alone ...
LEMMA CapturedSame ==
    ASSUME Captured, setup' = setup, stop' = stop, frames' = frames,
           \/ js' = js \/ js' \notin {"capturing", "paused"}
           \/ js = "capturing" /\ Len(frames) = Len(Stack(stop))
    PROVE  Captured'
<1>1. Stack(stop)' = Stack(stop)
  BY StackKept
<1>2. CASE js' \notin {"capturing", "paused"}
  BY <1>2 DEF Captured
<1>3. CASE js' \in {"capturing", "paused"}
  <2>1. /\ stop # 0 /\ Len(frames) <= Len(Stack(stop))
        /\ \A i \in 1..Len(frames) : Placed(frames[i], Stack(stop)[i])
        /\ js' = "paused" => Len(frames) = Len(Stack(stop))
    BY <1>3 DEF Captured
  <2>2. ASSUME NEW i \in 1..Len(frames) PROVE Placed(frames[i], Stack(stop)[i])'
    <3>1. PICK c, f : c = frames[i] /\ f = Stack(stop)[i]
      OBVIOUS
    <3>2. Placed(c, f)'
      BY <2>1, <3>1, PlacedKept
    <3>3. frames'[i] = c /\ (Stack(stop)')[i] = f
      BY <1>1, <3>1
    <3> QED
      BY <3>2, <3>3
  <2> QED
    BY <1>1, <2>1, <2>2 DEF Captured
<1> QED
  BY <1>2, <1>3

\* ... and by the others.
LEMMA CapturedKept ==
    ASSUME TypeOK, Queued, Reported, Captured, [Next]_vars
    PROVE  Captured'
<1>1. CASE HandleNext
  <2>1. setup' = setup /\ Served(Head(sent))
    BY <1>1, HandleEffect
  <2>2. stop' = stop /\ frames' = frames /\ (js' = js \/ js' \notin {"capturing", "paused"})
    BY <2>1 DEF Served, Serves
  <2> QED
    BY <2>1, <2>2, CapturedSame
<1>2. CASE SendNext
  BY <1>2, CapturedSame DEF SendNext, session, pause
<1>3. CASE Stop
  <2>1. frames' = <<>> /\ js' = "capturing" /\ \E s \in 1..Len(Snapshots) : stop' = s
    BY <1>3 DEF Stop
  <2>2. setup' = setup
    BY <1>3 DEF Stop
  <2>3. PICK s \in 1..Len(Snapshots) : stop' = s
    BY <2>1
  <2>4. Len(Stack(s)) \in Nat /\ Stack(s)' = Stack(s)
    BY StackIs, StackKept, <2>2
  <2>5. Stack(stop)' = Stack(s)
    BY <2>3, <2>2 DEF Stack
  <2>6. s # 0
    BY InspectionAssumption, SeqIs
  <2> QED
    BY <2>1, <2>3, <2>4, <2>5, <2>6, EmptyIs DEF Captured
<1>4. CASE CaptureFrame
  <2>0. Captures
    BY <1>4, CaptureEffect
  <2>1. PICK c : /\ frames' = Append(frames, c)
                 /\ c = CallFrame(setup.windows, Scripts, Stack(stop)[Len(frames) + 1],
                                       Len(frames), Snapshots[stop].globals, store).frame
    BY <2>0 DEF Captures
  <2>2. /\ js = "capturing" /\ stop \in 1..Len(Snapshots) /\ Len(frames) \in Nat
        /\ Len(frames) + 1 \in 1..Len(Stack(stop))
        /\ setup' = setup /\ stop' = stop /\ js' = js
    BY <2>0 DEF Captures
  <2> DEFINE n == Len(frames)
             f == Stack(stop)[n + 1]
  <2>3. f.file = setup.path /\ Len(Stack(stop)) \in Nat
    BY <2>2, StackIs
  <2>4. Placed(c, f)
    <3> HIDE DEF f
    <3>1. Placed(CallFrame(setup.windows, Scripts, f, n, Snapshots[stop].globals, store).frame, f)
      BY <2>3, CapturedPlaced
    <3> QED
      BY <2>1, <3>1 DEF f
  <2>5. IsSeq(frames)
    BY DEF TypeOK
  <2>6. /\ Len(frames') = n + 1 /\ frames'[n + 1] = c
        /\ \A i \in 1..n : frames'[i] = frames[i]
    BY <2>1, <2>5, AppendIs
  <2>7. /\ stop # 0 /\ \A i \in 1..n : Placed(frames[i], Stack(stop)[i])
    BY <2>2 DEF Captured
  <2>8. Stack(stop)' = Stack(stop)
    BY <2>2, StackKept
  <2>9. ASSUME NEW i \in 1..n + 1 PROVE Placed(frames[i], Stack(stop)[i])'
    <3>1. PICK d, g : d = frames'[i] /\ g = Stack(stop)[i]
      OBVIOUS
    <3>2. Placed(d, g)
      <4>1. CASE i = n + 1
        BY <2>4, <2>6, <3>1, <4>1
      <4>2. CASE i \in 1..n
        BY <2>6, <2>7, <3>1, <4>2
      <4> QED
        BY <2>2, <4>1, <4>2
    <3>3. Placed(d, g)'
      BY <2>2, <3>2, PlacedKept
    <3>4. (Stack(stop)')[i] = g
      BY <2>8, <3>1
    <3> QED
      BY <3>1, <3>3, <3>4
  <2>10. Len(frames') <= Len(Stack(stop)) /\ js' # "paused" /\ stop' # 0
    BY <2>2, <2>3, <2>6, <2>7
  <2> QED
    BY <2>6, <2>8, <2>9, <2>10 DEF Captured
<1>5. CASE Pause
  BY <1>5, CapturedSame DEF Pause, pause
<1>6. CASE Resumed
  BY <1>6, CapturedSame DEF Resumed, pause
<1>7. CASE Ask
  <2>1. PICK w, p : Sends(Inquiry(client.next, w, p))
    BY <1>7, AskEffect DEF Asking
  <2> QED
    BY <2>1, CapturedSame DEF Sends
<1>8. CASE ReadNext
  <2>1. Takes
    BY <1>8, ReadEffect
  <2> QED
    BY <2>1, CapturedSame DEF Takes
<1>9. CASE UNCHANGED vars
  BY <1>9, CapturedSame DEF vars, session, pause
<1> QED
  BY <1>1, <1>2, <1>3, <1>4, <1>5, <1>6, <1>7, <1>8, <1>9 DEF Next

-----------------------------------------------------------------------------
(* Core: these together, and what they show.                               *)

Core == TypeOK /\ Queued /\ Reported /\ Announced /\ PauseShared /\ Captured

\* Core holds initially ...
LEMMA CoreInitially == Init => Core
<1> SUFFICES ASSUME Init PROVE Core
  OBVIOUS
<1>1. TypeOK
  BY TypesInitially
<1>2. /\ sent = <<>> /\ told = <<>> /\ todo = <<>> /\ client.waiting = <<>>
      /\ client.next = 1 /\ client.scripts = <<>> /\ client.bound = <<>>
      /\ client.frames = <<>> /\ client.hit = <<>> /\ client.watch = <<>> /\ client.list = <<>>
      /\ breakpoints = <<>> /\ js \in {"gate", "running"} /\ (js = "running" => due = {})
  BY DEF Init
<1>3. Queued
  <2>1. told \o todo = <<>>
    BY <1>2, EmptyIs, ConcatNone
  <2>2. Answers = <<>>
    BY <2>1, NumberedNone DEF Answers
  <2>3. Len(Answers) = 0 /\ Len(sent) = 0 /\ Len(client.waiting) = 0
    BY <1>2, <2>2, EmptyIs
  <2> QED
    BY <2>3 DEF Queued
<1>4. Reported
  BY <1>2, EmptyIs DEF Reported
<1>5. Announced
  BY <1>2 DEF Announced, Unused, Unaware
<1>6. PauseShared
  BY <1>2, EmptyIs DEF PauseShared, NoneTold, NoneSent
<1>7. Captured
  BY <1>2 DEF Captured
<1> QED
  BY <1>1, <1>3, <1>4, <1>5, <1>6, <1>7 DEF Core

\* ... and is kept.
LEMMA CoreKept == Core /\ [Next]_vars => Core'
<1> SUFFICES ASSUME Core, [Next]_vars PROVE Core'
  OBVIOUS
<1>1. TypeOK /\ Queued /\ Reported /\ Announced /\ PauseShared /\ Captured
  BY DEF Core
<1>2. TypeOK'
  BY <1>1, TypesKept
<1>3. Queued'
  BY <1>1, QueuedKept
<1>4. Reported'
  BY <1>1, ReportedKept
<1>5. Announced'
  BY <1>1, AnnouncedKept
<1>6. PauseShared'
  BY <1>1, PauseSharedKept
<1>7. Captured'
  BY <1>1, CapturedKept
<1> QED
  BY <1>2, <1>3, <1>4, <1>5, <1>6, <1>7 DEF Core

\* The part of the session invariant that needs no more to be kept: the
\* types, the queues of requests and answers, the reports under way, the
\* script announced, the pause shared and the frames captured
\* (handle_message, do_pause, capture_frames).
THEOREM CoreHolds == Spec => []Core
  BY CoreInitially, CoreKept, PTL DEF Spec

-----------------------------------------------------------------------------
Ids(s) == [i \in 1..Len(s) |-> Get(s[i], "id")]

\* The ids of messages ...
LEMMA IdsIs ==
    ASSUME NEW s, IsSeq(s)
    PROVE  /\ IsSeq(Ids(s)) /\ Len(Ids(s)) = Len(s)
           /\ \A i \in 1..Len(s) : Ids(s)[i] = Get(s[i], "id")
<1> DEFINE t == Ids(s)
<1>1. Len(s) \in Nat
  BY SeqIs
<1>2. /\ \A i \in 1..Len(s) : t[i] = Get(s[i], "id")
      /\ t = [i \in 1..Len(s) |-> t[i]]
  BY DEF Ids
<1> HIDE DEF t
<1>3. IsSeq(t) /\ Len(t) = Len(s)
  BY <1>1, <1>2, IsSeqOf
<1> QED
  BY <1>2, <1>3 DEF t

\* ... of two sequences of them ...
LEMMA IdsConcat ==
    ASSUME NEW s, NEW t, IsSeq(s), IsSeq(t)
    PROVE  Ids(s \o t) = Ids(s) \o Ids(t)
<1> DEFINE u == s \o t
           a == Ids(s)
           b == Ids(t)
           c == Ids(u)
<1>1. /\ IsSeq(u) /\ Len(u) = Len(s) + Len(t)
      /\ \A i \in 1..Len(s) : u[i] = s[i]
      /\ \A i \in 1..Len(t) : u[Len(s) + i] = t[i]
  BY ConcatIs
<1> HIDE DEF u
<1>2. /\ IsSeq(a) /\ Len(a) = Len(s) /\ \A i \in 1..Len(s) : a[i] = Get(s[i], "id")
      /\ IsSeq(b) /\ Len(b) = Len(t) /\ \A i \in 1..Len(t) : b[i] = Get(t[i], "id")
      /\ IsSeq(c) /\ Len(c) = Len(u) /\ \A i \in 1..Len(u) : c[i] = Get(u[i], "id")
  BY <1>1, IdsIs
<1> HIDE DEF a, b, c
<1>0. IsSeq(a) /\ IsSeq(b)
  BY <1>2
<1>3. /\ IsSeq(a \o b) /\ Len(a \o b) = Len(a) + Len(b)
      /\ \A i \in 1..Len(a) : (a \o b)[i] = a[i]
      /\ \A i \in 1..Len(b) : (a \o b)[Len(a) + i] = b[i]
  BY <1>0, ConcatIs
<1>4. Len(s) \in Nat /\ Len(t) \in Nat
  BY SeqIs
<1>5. ASSUME NEW i \in 1..Len(u) PROVE c[i] = (a \o b)[i]
  <2>1. i \in 1..Len(s) \/ (i - Len(s) \in 1..Len(t) /\ i = Len(s) + (i - Len(s)))
    BY <1>1, <1>4
  <2>2. CASE i \in 1..Len(s)
    BY <1>1, <1>2, <1>3, <2>2
  <2>3. ASSUME NEW j \in 1..Len(t), i = Len(s) + j PROVE c[i] = (a \o b)[i]
    <3>1. (a \o b)[Len(a) + j] = b[j] /\ u[Len(s) + j] = t[j]
      BY <1>1, <1>2, <1>3
    <3> QED
      BY <1>2, <2>3, <3>1
  <2> QED
    BY <2>1, <2>2, <2>3
<1>6. c = a \o b
  <2> DEFINE d == a \o b
  <2>1. IsSeq(c) /\ IsSeq(d) /\ Len(c) = Len(d) /\ \A i \in 1..Len(c) : c[i] = d[i]
    BY <1>1, <1>2, <1>3, <1>5
  <2> HIDE DEF d
  <2>2. c = d
    BY <2>1, SameSequence
  <2> QED
    BY <2>2 DEF d
<1> QED
  BY <1>6 DEF a, b, c, u

\* ... and of those that are numbered.
LEMMA IdsOfIs == ASSUME NEW s PROVE IdsOf(s) = Ids(Numbered(s))
  BY DEF IdsOf, Ids

\* Requests in line with answers are answered in order.
LEMMA CoreAnswers == Core => AnsweredInOrder
<1> SUFFICES ASSUME Core PROVE AnsweredInOrder
  OBVIOUS
<1> DEFINE w == client.waiting
           a == Answers
           u == a \o sent
<1>1. /\ IsSeq(w) /\ IsSeq(sent) /\ IsSeq(a) /\ IsSeq(Numbered(told)) /\ IsSeq(Numbered(todo))
      /\ Len(a) \in Nat /\ Len(sent) \in Nat /\ Len(w) \in Nat /\ a = Numbered(told) \o Numbered(todo)
  BY AnswersAre, SeqIs DEF Core, TypeOK
<1>2. /\ Len(w) = Len(a) + Len(sent)
      /\ \A k \in 1..Len(w) : Asks(w[k])
      /\ \A k \in 1..Len(sent) : sent[k] = w[Len(a) + k]
      /\ \A k \in 1..Len(a) : Fits(a[k], w[k])
  BY DEF Core, Queued
<1> HIDE DEF w, a
<1>3. Numbered(w) = w
  <2>1. \A k \in 1..Len(w) : Has(w[k], "id")
    BY <1>2, AsksIs
  <2> QED
    BY <1>1, <2>1, NumberedAll
<1>4. Numbered(sent) = sent
  <2>1. ASSUME NEW k \in 1..Len(sent) PROVE Has(sent[k], "id")
    <3>1. Len(a) + k \in 1..Len(w)
      BY <1>1, <1>2
    <3> QED
      BY <1>2, <3>1, AsksIs
  <2> QED
    BY <1>1, <2>1, NumberedAll
<1>5. /\ IsSeq(u) /\ Len(u) = Len(w)
      /\ \A i \in 1..Len(a) : u[i] = a[i]
      /\ \A i \in 1..Len(sent) : u[Len(a) + i] = sent[i]
  BY <1>1, <1>2, ConcatIs
<1> HIDE DEF u
<1>6. ASSUME NEW i \in 1..Len(w) PROVE Get(w[i], "id") = Get(u[i], "id")
  <2>1. i \in 1..Len(a) \/ (i - Len(a) \in 1..Len(sent) /\ i = Len(a) + (i - Len(a)))
    BY <1>1, <1>2
  <2>2. CASE i \in 1..Len(a)
    <3>1. a[i] = Obj([id |-> Get(w[i], "id"), result |-> Get(a[i], "result")])
      BY <1>2, <2>2 DEF Fits
    <3>2. Get(a[i], "id") = Get(w[i], "id")
      BY <3>1 DEF Get, Has, Obj
    <3> QED
      BY <1>5, <2>2, <3>2
  <2>3. ASSUME NEW j \in 1..Len(sent), i = Len(a) + j PROVE u[i] = w[i]
    BY <1>2, <1>5, <2>3
  <2> QED
    BY <2>1, <2>2, <2>3
<1>7. Ids(w) = Ids(u)
  BY <1>1, <1>5, <1>6, IdsIs, SameSequence
<1>8. Ids(u) = (Ids(Numbered(told)) \o Ids(Numbered(todo))) \o Ids(sent)
  <2>1. Ids(u) = Ids(a) \o Ids(sent)
    BY <1>1, IdsConcat DEF u
  <2> DEFINE x == Numbered(told)
             y == Numbered(todo)
  <2>2. IsSeq(x) /\ IsSeq(y) /\ a = x \o y
    BY <1>1
  <2> HIDE DEF x, y
  <2>3. Ids(a) = Ids(x) \o Ids(y)
    BY <2>2, IdsConcat
  <2> QED
    BY <2>1, <2>3 DEF x, y
<1>9. /\ IdsOf(w) = Ids(w) /\ IdsOf(sent) = Ids(sent)
      /\ IdsOf(told) = Ids(Numbered(told)) /\ IdsOf(todo) = Ids(Numbered(todo))
  BY <1>3, <1>4, IdsOfIs
<1> QED
  BY <1>7, <1>8, <1>9 DEF AnsweredInOrder, w

\* While the client has frames, it shares the pause with the script's thread.
LEMMA CoreShares ==
    ASSUME Core, client.frames # <<>>
    PROVE  /\ js = "paused" /\ NoneTold /\ NoneSent /\ client.frames = frames /\ client.hit = why[2]
           /\ client.scripts = Put(<<>>, <<Decimal(1)>>, AnnouncedUrl)
           /\ Len(frames) = Len(Stack(stop)) /\ stop # 0
           /\ \A i \in 1..Len(frames) : Placed(frames[i], Stack(stop)[i])
<1>1. js = "paused" /\ NoneTold /\ NoneSent /\ client.frames = frames /\ client.hit = why[2]
  BY DEF Core, PauseShared
<1>2. client.scripts = Put(<<>>, <<Decimal(1)>>, AnnouncedUrl)
  BY DEF Core, Announced, Unaware
<1> QED
  BY <1>1, <1>2 DEF Core, Captured

\* Either the client has no frames, or it knows their script.
LEMMA CoreAnnounces == Core => ScriptsAnnounced
<1> SUFFICES ASSUME Core, NEW i \in 1..Len(client.frames)
             PROVE  LET f == client.frames[i].o
                        id == f["location"].o["scriptId"].s
                    IN  id \in DOMAIN client.scripts /\ f["url"] = Str(client.scripts[id])
  BY DEF ScriptsAnnounced
<1>1. client.frames # <<>>
  BY EmptyIs
<1>2. Placed(client.frames[i], Stack(stop)[i])
  BY <1>1, CoreShares
<1>3. /\ client.frames[i].o["location"].o["scriptId"].s = <<Decimal(1)>>
      /\ client.frames[i].o["url"] = Str(AnnouncedUrl)
  BY <1>2 DEF Placed, Place, Obj, Word, Str
<1>4. <<Decimal(1)>> \in DOMAIN client.scripts /\ client.scripts[<<Decimal(1)>>] = AnnouncedUrl
  <2> DEFINE k == <<Decimal(1)>>
             v == AnnouncedUrl
  <2>1. client.scripts = Put(<<>>, k, v)
    BY <1>1, CoreShares
  <2> HIDE DEF k, v
  <2>2. k \in DOMAIN client.scripts /\ client.scripts[k] = v
    <3>1. DOMAIN Put(<<>>, k, v) = {k} /\ Put(<<>>, k, v)[k] = v
      BY OnlyScript
    <3> QED
      BY <2>1, <3>1
  <2> QED
    BY <2>2 DEF k, v
<1> QED
  BY <1>3, <1>4

\* The variables have their types: what the session stores, the messages on
\* the wire and what the client keeps of them.
THEOREM SessionTypes == Spec => []TypeOK
<1>1. Core => TypeOK
  BY DEF Core
<1> QED
  BY <1>1, CoreHolds, PTL

\* Each request is answered once and in order, however the answers and the
\* events of the two threads interleave (handle_message, send_response,
\* send_event).
THEOREM AnswersInOrder == Spec => []AnsweredInOrder
  BY CoreAnswers, CoreHolds, PTL

\* The client knows the script of every frame it is shown, by the id and the
\* URL the frame bears (handle_debugger_enable, capture_frames).
THEOREM ScriptsKnown == Spec => []ScriptsAnnounced
  BY CoreAnnounces, CoreHolds, PTL

-----------------------------------------------------------------------------
(* The steps by kind.                                                      *)

\* A request handled: what the session does with it, and the answer.
Handled(q, result) ==
    /\ sent # <<>> /\ todo = <<>> /\ q = Head(sent) /\ sent' = Tail(sent)
    /\ Asks(q) /\ Len(Answers) + 1 \in 1..Len(client.waiting) /\ q = client.waiting[Len(Answers) + 1]
    /\ setup' = setup /\ told' = told /\ client' = client
    /\ Serves(q) /\ \E events : Responds(q, events, result)
    /\ Answers' = Append(Answers, Response(q, result)) /\ Fits(Response(q, result), q)'

\* Handling a request takes it, answers it and leaves the rest to the
\* handler.
LEMMA HandleMoves ==
    ASSUME TypeOK, Queued, HandleNext
    PROVE  \E q, result : Handled(q, result)
<1>0. PICK q : q = Head(sent)
  OBVIOUS
<1>1. /\ sent # <<>> /\ todo = <<>> /\ sent' = Tail(sent)
      /\ setup' = setup /\ told' = told /\ client' = client /\ Served(q)
  BY <1>0, HandleEffect
<1>2. Asks(q) /\ Len(Answers) + 1 \in 1..Len(client.waiting) /\ q = client.waiting[Len(Answers) + 1]
  BY <1>0, <1>1, NextAsked
<1>3. PICK events, result : Responds(q, events, result)
  BY <1>1 DEF Served
<1>4. next_bp_id' = IF Breaks(q) THEN next_bp_id + 1 ELSE next_bp_id
  BY <1>1 DEF Served, Serves
<1> DEFINE a == Response(q, result)
<1>5. Fits(a, q)' /\ Has(a, "id")
  BY <1>2, <1>3, <1>4, ResponseFits, ResponseIs
<1> HIDE DEF a
<1>6. events \in {<<>>, <<ScriptParsed(1)>>, <<Context>>} /\ todo' = events \o <<a>>
  BY <1>3 DEF Responds, a
<1>7. Answers' = Append(Answers, a)
  BY <1>1, <1>5, <1>6, AnswersHandled
<1>8. Handled(q, result)
  BY <1>0, <1>1, <1>2, <1>3, <1>5, <1>7 DEF Handled, Served, a
<1> QED
  BY <1>8

\* The steps in which no request is made, handled or found answered.
Passing == SendNext \/ Stop \/ CaptureFrame \/ Pause \/ Resumed \/ UNCHANGED vars

\* The steps that neither take requests nor answers.
LEMMA PassingMoves ==
    ASSUME TypeOK, Passing
    PROVE  /\ Answers' = Answers /\ sent' = sent /\ client' = client /\ setup' = setup
           /\ breakpoints' = breakpoints /\ next_bp_id' = next_bp_id
<1>1. CASE SendNext
  <2>1. Answers' = Answers
    BY <1>1, AnswersSent
  <2> QED
    BY <1>1, <2>1 DEF SendNext, session, table
<1>2. CASE Stop
  BY <1>2 DEF Stop, table, Answers
<1>3. CASE CaptureFrame
  BY <1>3 DEF CaptureFrame, table, Answers
<1>4. CASE Pause
  <2> DEFINE e == Paused(frames, why[1], why[2])
  <2>1. told' = Append(told, e) /\ todo' = todo /\ ~Has(e, "id")
    BY <1>4, PausedIs DEF Pause, Tell
  <2> HIDE DEF e
  <2>2. Answers' = Answers
    BY <2>1, AnswersSlip
  <2> QED
    BY <1>4, <2>2 DEF Pause, table
<1>5. CASE Resumed
  <2> DEFINE e == Event("Debugger.resumed", Nothing)
  <2>1. told' = Append(told, e) /\ todo' = todo /\ ~Has(e, "id")
    BY <1>5, EventIs DEF Resumed, Tell
  <2> HIDE DEF e
  <2>2. Answers' = Answers
    BY <2>1, AnswersSlip
  <2> QED
    BY <1>5, <2>2 DEF Resumed, table
<1>6. CASE UNCHANGED vars
  BY <1>6 DEF vars, session, table, Answers
<1> QED
  BY <1>1, <1>2, <1>3, <1>4, <1>5, <1>6 DEF Passing

\* Every step is of one of four kinds.
LEMMA StepsAre ==
    ASSUME [Next]_vars
    PROVE  HandleNext \/ Passing \/ Ask \/ ReadNext
  BY DEF Next, Passing

\* A request sent, and an answer or an event read.
Sent(q) ==
    /\ Sends(q) /\ Answers' = Answers /\ Asks(q)
    /\ \E w, p : q = Inquiry(client.next, w, p) /\ Mannered(w, p)

\* Asking sends one request.
LEMMA AskMoves ==
    ASSUME TypeOK, Announced, Ask
    PROVE  \E q : Sent(q)
<1>1. PICK w, p : Sends(Inquiry(client.next, w, p)) /\ Mannered(w, p)
  BY AskEffect DEF Asking
<1>2. PICK q : q = Inquiry(client.next, w, p)
  OBVIOUS
<1>3. Sends(q)
  BY <1>1, <1>2
<1>4. client.next <= MaxRequests /\ told' = told /\ todo' = todo
  BY <1>3 DEF Sends
<1>5. Asks(q)
  BY <1>1, <1>2, <1>4, AskedIs
<1>6. Answers' = Answers
  BY <1>4 DEF Answers
<1> QED
  BY <1>1, <1>2, <1>3, <1>5, <1>6 DEF Sent

\* Reading takes one message, and an answer off the answers.
LEMMA ReadMoves ==
    ASSUME TypeOK, Queued, Reported, ReadNext
    PROVE  /\ Takes
           /\ IF Has(Head(told), "id") THEN Shifted(Answers, Answers') ELSE Answers' = Answers
<1>1. Takes
  BY ReadEffect
<1>2. told # <<>> /\ told' = Tail(told) /\ todo' = todo
  BY <1>1 DEF Takes
<1> QED
  BY <1>1, <1>2, AnswersRead

-----------------------------------------------------------------------------
(* Bound: the two ends agree on each breakpoint.                           *)

\* Where the id of a breakpoint is on its way to the client.
IssuedAt(b, k) ==
    /\ Method(client.waiting[k]) = <<"Debugger.setBreakpointByUrl">>
    /\ Get(Get(Answers[k], "result"), "breakpointId") = Str(b)

\* An id is issued when the client has it or its answer is under way.
LEMMA IssuedIs ==
    /\ \A b : Issued(b) <=> b \in DOMAIN client.bound \/ \E k \in 1..Len(Answers) : IssuedAt(b, k)
    /\ \A b : Issued(b)' <=> b \in DOMAIN client'.bound \/ \E k \in 1..Len(Answers') : IssuedAt(b, k)'
  BY DEF Issued, IssuedAt

\* An id issued stays so when a request is handled ...
LEMMA IssuedHandled ==
    ASSUME TypeOK, NEW q, NEW result, Handled(q, result), NEW b, Issued(b)
    PROVE  Issued(b)'
<1>1. IsSeq(Answers) /\ Len(Answers) \in Nat
  BY AnswersAre
<1>2. /\ client' = client /\ Len(Answers') = Len(Answers) + 1
      /\ \A k \in 1..Len(Answers) : Answers'[k] = Answers[k]
  BY <1>1, AppendIs DEF Handled
<1>3. CASE b \in DOMAIN client.bound
  BY <1>2, <1>3, IssuedIs
<1>4. ASSUME NEW k \in 1..Len(Answers), IssuedAt(b, k) PROVE Issued(b)'
  <2>1. k \in 1..Len(Answers')
    BY <1>1, <1>2
  <2>2. IssuedAt(b, k)'
    BY <1>2, <1>4 DEF IssuedAt
  <2> QED
    BY <2>1, <2>2, IssuedIs
<1> QED
  BY <1>3, <1>4, IssuedIs

\* ... and when the client reads.
LEMMA IssuedRead ==
    ASSUME TypeOK, Queued, Takes,
           IF Has(Head(told), "id") THEN Shifted(Answers, Answers') ELSE Answers' = Answers,
           NEW b, Issued(b)
    PROVE  Issued(b)'
<1>1. IsSeq(client.waiting) /\ Len(client.waiting) \in Nat /\ Len(Answers) \in Nat /\ Len(sent) \in Nat
  BY AnswersAre, SeqIs DEF TypeOK
<1>2. CASE ~Has(Head(told), "id")
  <2>1. Answers' = Answers /\ client'.waiting = client.waiting /\ client'.bound = client.bound
    BY <1>2 DEF Takes, TakesEvent
  <2> QED
    BY <2>1, IssuedIs DEF IssuedAt
<1>3. CASE Has(Head(told), "id")
  <2> DEFINE q == client.waiting[1]
             a == Answers[1]
             r == Get(a, "result")
             new == [line |-> Get(Params(q), "lineNumber"), places |-> r.o["locations"].a]
  <2>1. /\ client.waiting # <<>> /\ 1 \in 1..Len(Answers) /\ Fits(a, q)
        /\ client'.waiting = Tail(client.waiting) /\ Shifted(Answers, Answers')
        /\ client'.bound = IF Breaks(q) THEN Put(client.bound, r.o["breakpointId"].s, new) ELSE client.bound
    BY <1>3 DEF Takes, TakesAnswer
  <2>2. /\ Len(Answers) = Len(Answers') + 1 /\ \A k \in 1..Len(Answers') : Answers'[k] = Answers[k + 1]
    BY <2>1 DEF Shifted
  <2>3. \A k \in 1..Len(client.waiting) - 1 : client'.waiting[k] = client.waiting[k + 1]
    BY <1>1, <2>1, TailIs
  <2>4. CASE b \in DOMAIN client.bound
    <3>1. b \in DOMAIN client'.bound
      <4> HIDE DEF new
      <4> QED
        BY <2>1, <2>4 DEF Put
    <3> QED
      BY <3>1, IssuedIs
  <2>5. ASSUME NEW k \in 1..Len(Answers), IssuedAt(b, k) PROVE Issued(b)'
    <3>1. CASE k = 1
      <4>1. Breaks(q) /\ Get(r, "breakpointId") = Str(b)
        BY <2>5, <3>1 DEF IssuedAt, Breaks
      <4>2. PICK n, line : r = Obj([breakpointId |-> BreakpointId(n, line),
                                    locations    |-> Arr(<<Place(line)>>)])
        BY <2>1, <4>1 DEF Fits, Breaks
      <4>3. r.o["breakpointId"] = Str(b)
        BY <4>1, <4>2 DEF Get, Has, Obj
      <4>4. r.o["breakpointId"].s = b
        BY <4>3 DEF Str
      <4>5. b \in DOMAIN client'.bound
        <5> HIDE DEF new, r
        <5> QED
          BY <2>1, <4>1, <4>4 DEF Put
      <4> QED
        BY <4>5, IssuedIs
    <3>2. ASSUME NEW j \in 1..Len(Answers'), k = j + 1 PROVE Issued(b)'
      <4>1. Len(client.waiting) >= Len(Answers)
        BY <1>1 DEF Queued
      <4>2. Answers'[j] = Answers[k] /\ client'.waiting[j] = client.waiting[k]
        <5>1. j \in 1..Len(client.waiting) - 1
          BY <1>1, <2>2, <4>1
        <5> QED
          BY <2>2, <2>3, <3>2, <5>1
      <4>3. IssuedAt(b, j)'
        BY <2>5, <4>2 DEF IssuedAt
      <4> QED
        BY <3>2, <4>3, IssuedIs
    <3>3. Len(Answers') \in Nat
      BY <1>1, <2>2, <2>1, AnswersAre, SeqIs
    <3>4. k = 1 \/ (k - 1 \in 1..Len(Answers') /\ k = (k - 1) + 1)
      BY <1>1, <2>2, <3>3
    <3> QED
      BY <3>1, <3>2, <3>4
  <2> QED
    BY <2>4, <2>5, IssuedIs
<1> QED
  BY <1>2, <1>3

\* The ids issued stay so.
LEMMA IssuedKept ==
    ASSUME TypeOK, Queued, Reported, Announced, [Next]_vars, NEW b, Issued(b)
    PROVE  Issued(b)'
<1>1. CASE HandleNext
  <2>1. PICK q, result : Handled(q, result)
    BY <1>1, HandleMoves
  <2> QED
    BY <2>1, IssuedHandled
<1>2. CASE Passing
  <2>1. Answers' = Answers /\ client' = client
    BY <1>2, PassingMoves
  <2> QED
    BY <2>1, IssuedIs DEF IssuedAt
<1>3. CASE Ask
  <2>1. PICK q : Sends(q) /\ Answers' = Answers
    BY <1>3, AskMoves DEF Sent
  <2>2. client'.waiting = Append(client.waiting, q) /\ client'.bound = client.bound
    BY <2>1 DEF Sends
  <2>3. /\ Len(Answers) <= Len(client.waiting) /\ Len(Answers) \in Nat
        /\ \A k \in 1..Len(client.waiting) : client'.waiting[k] = client.waiting[k]
    <3>1. IsSeq(client.waiting) /\ Len(sent) \in Nat /\ Len(Answers) \in Nat
      BY AnswersAre, SeqIs DEF TypeOK
    <3>2. Len(client.waiting) = Len(Answers) + Len(sent)
      BY DEF Queued
    <3> QED
      BY <2>2, <3>1, <3>2, AppendIs
  <2>4. ASSUME NEW k \in 1..Len(Answers), IssuedAt(b, k) PROVE IssuedAt(b, k)'
    <3>1. client'.waiting[k] = client.waiting[k]
      BY <2>3, SeqIs DEF TypeOK
    <3> QED
      BY <2>1, <2>4, <3>1 DEF IssuedAt
  <2> QED
    BY <2>1, <2>2, <2>4, IssuedIs
<1>4. CASE ReadNext
  <2>1. Takes /\ IF Has(Head(told), "id") THEN Shifted(Answers, Answers') ELSE Answers' = Answers
    BY <1>4, ReadMoves
  <2> QED
    BY <2>1, IssuedRead
<1> QED
  BY <1>1, <1>2, <1>3, <1>4, StepsAre

\* The counter of breakpoints never goes back.
LEMMA CounterKept ==
    ASSUME TypeOK, Queued, Reported, Announced, [Next]_vars
    PROVE  setup' = setup /\ next_bp_id' \in {next_bp_id, next_bp_id + 1}
<1>1. CASE HandleNext
  <2>1. PICK q, result : Handled(q, result)
    BY <1>1, HandleMoves
  <2> QED
    BY <2>1 DEF Handled, Serves
<1>2. CASE Passing
  BY <1>2, PassingMoves
<1>3. CASE Ask
  <2>1. PICK q : Sends(q) /\ Answers' = Answers
    BY <1>3, AskMoves DEF Sent
  <2> QED
    BY <2>1 DEF Sends
<1>4. CASE ReadNext
  BY <1>4, ReadMoves DEF Takes
<1> QED
  BY <1>1, <1>2, <1>3, <1>4, StepsAre

\* A number issued for a line stays issued for it.
LEMMA IssuedForKept ==
    ASSUME TypeOK, Queued, Reported, Announced, [Next]_vars, NEW n, NEW line, IssuedFor(n, line)
    PROVE  IssuedFor(n, line)'
<1>1. PICK b : b = BreakpointId(n, line).s
  OBVIOUS
<1>2. Issued(b)'
  BY <1>1, IssuedKept DEF IssuedFor
<1>3. n \in 1..next_bp_id' - 1
  <2> DEFINE x == next_bp_id
             y == next_bp_id'
  <2>1. x \in Nat /\ (y = x \/ y = x + 1) /\ n \in 1..x - 1
    BY CounterKept DEF TypeOK, IssuedFor
  <2> HIDE DEF x, y
  <2>2. n \in 1..y - 1
    BY <2>1
  <2> QED
    BY <2>2 DEF y
<1>4. BreakpointId(n, line).s' = b
  BY <1>1 DEF BreakpointId
<1> QED
  BY <1>1, <1>2, <1>3 DEF IssuedFor, BreakpointId

-----------------------------------------------------------------------------
\* The parts of Bound.
TableBound ==
    \A n \in DOMAIN breakpoints :
        \E line \in Lines : breakpoints[n].line = line + 1 /\ IssuedFor(n, line)

StopFor(n, line) ==
    /\ why[2] = <<BreakpointId(n, line)>> /\ IssuedFor(n, line)
    /\ Head(Stack(stop)).line = line + 1

StopBound ==
    js \in {"capturing", "paused"} /\ why[2] # <<>> =>
        \E n \in 1..next_bp_id - 1, line \in Lines : StopFor(n, line)

ClientFor(e, b, n, line) ==
    b = BreakpointId(n, line).s /\ e = [line |-> Num(line), places |-> <<Place(line)>>]

ClientBound ==
    \A b \in DOMAIN client.bound :
        /\ client.scripts # <<>>
        /\ \E n \in 1..next_bp_id - 1, line \in Lines : ClientFor(client.bound[b], b, n, line)

\* Bound, by its parts, in this state and the next.
LEMMA BoundIs ==
    /\ Bound <=> TableBound /\ StopBound /\ ClientBound
    /\ Bound' <=> TableBound' /\ StopBound' /\ ClientBound'
  BY DEF Bound, TableBound, StopBound, StopFor, ClientBound, ClientFor

\* A breakpoint left alone stays bound ...
LEMMA TableSame ==
    ASSUME TypeOK, Queued, Reported, Announced, [Next]_vars, TableBound, NEW n \in DOMAIN breakpoints,
           n \in DOMAIN breakpoints', breakpoints'[n] = breakpoints[n]
    PROVE  \E line \in Lines : breakpoints'[n].line = line + 1 /\ IssuedFor(n, line)'
<1>1. PICK line \in Lines : breakpoints[n].line = line + 1 /\ IssuedFor(n, line)
  BY DEF TableBound
<1>2. IssuedFor(n, line)'
  BY <1>1, IssuedForKept
<1> QED
  BY <1>1, <1>2

\* A breakpoint set is on its way, under its line.
LEMMA BreakpointIssued ==
    ASSUME TypeOK, Queued, NEW q, NEW result, Handled(q, result), Breaks(q)
    PROVE  \E n, line : /\ n = next_bp_id /\ line \in Lines /\ NewBreakpoint(Params(q)).line = line + 1
                        /\ IssuedFor(n, line)'
<1>1. PICK line \in Lines : BindsAt(q, line)
  BY BreakpointAnswered DEF Handled
<1> DEFINE a == Response(q, result)
           k == Len(Answers) + 1
<1>2. Len(Answers) \in Nat /\ IsSeq(Answers)
  BY AnswersAre
<1>3. /\ Answers' = Append(Answers, a) /\ client' = client /\ q = client.waiting[k]
  BY DEF Handled
<1>4. Len(Answers') = k /\ Answers'[k] = a
  BY <1>2, <1>3, AppendIs
<1>5. Get(a, "result") = result
  BY ResponseIs
<1>6. \E locations : result = Obj([breakpointId |-> BreakpointId(next_bp_id, line), locations |-> locations])
  BY <1>1 DEF Handled, Responds, BindsAt
<1>7. Get(result, "breakpointId") = BreakpointId(next_bp_id, line)
  BY <1>6 DEF Get, Has, Obj
<1>8. PICK b : b = BreakpointId(next_bp_id, line).s
  OBVIOUS
<1>9. BreakpointId(next_bp_id, line) = Str(b)
  BY <1>8 DEF BreakpointId, Str
<1>10. Method(client'.waiting[k]) = <<"Debugger.setBreakpointByUrl">>
  BY <1>3 DEF Breaks
<1>11. Get(Get(Answers'[k], "result"), "breakpointId") = Str(b)
  BY <1>4, <1>5, <1>7, <1>9
<1>12. k \in 1..Len(Answers')
  BY <1>2, <1>4
<1>13. Issued(b)'
  BY <1>10, <1>11, <1>12 DEF Issued
<1>14. PICK n : n = next_bp_id
  OBVIOUS
<1>15. n \in 1..next_bp_id' - 1
  <2> DEFINE y == next_bp_id'
  <2>1. n \in Nat \ {0} /\ y = n + 1
    BY <1>14 DEF TypeOK, Handled, Serves
  <2> HIDE DEF y
  <2>2. n \in 1..y - 1
    BY <2>1
  <2> QED
    BY <2>2 DEF y
<1>16. BreakpointId(n, line).s = b
  BY <1>8, <1>14
<1>17. IssuedFor(n, line)'
  BY <1>13, <1>15, <1>16 DEF IssuedFor, BreakpointId
<1>18. NewBreakpoint(Params(q)).line = line + 1
  BY <1>1 DEF BindsAt
<1> QED
  BY <1>14, <1>17, <1>18

\* ... so the table does.
LEMMA TableBoundKept ==
    ASSUME TypeOK, Queued, Reported, Announced, [Next]_vars, TableBound
    PROVE  TableBound'
<1> SUFFICES ASSUME NEW n \in DOMAIN breakpoints'
             PROVE  \E line \in Lines : breakpoints'[n].line = line + 1 /\ IssuedFor(n, line)'
  BY DEF TableBound
<1>1. CASE n \in DOMAIN breakpoints /\ breakpoints'[n] = breakpoints[n]
  BY <1>1, TableSame
<1>2. CASE HandleNext
  <2>1. PICK q, result : Handled(q, result)
    BY <1>2, HandleMoves
  <2>2. (n \in DOMAIN breakpoints /\ breakpoints'[n] = breakpoints[n])
        \/ (Breaks(q) /\ n = next_bp_id /\ breakpoints'[n] = NewBreakpoint(Params(q)))
    BY <2>1 DEF Handled, Serves
  <2>3. CASE Breaks(q) /\ n = next_bp_id /\ breakpoints'[n] = NewBreakpoint(Params(q))
    <3>1. PICK m, line : /\ m = next_bp_id /\ line \in Lines /\ NewBreakpoint(Params(q)).line = line + 1
                         /\ IssuedFor(m, line)'
      BY <2>1, <2>3, BreakpointIssued
    <3>2. m = n
      BY <2>3, <3>1
    <3> QED
      BY <2>3, <3>1, <3>2
  <2> QED
    BY <1>1, <2>2, <2>3
<1>3. ASSUME ~HandleNext PROVE breakpoints' = breakpoints
  <2>1. CASE Passing
    BY <2>1, PassingMoves
  <2>2. CASE Ask
    <3>1. PICK q : Sends(q) /\ Answers' = Answers
      BY <2>2, AskMoves DEF Sent
    <3> QED
      BY <3>1 DEF Sends
  <2>3. CASE ReadNext
    BY <2>3, ReadMoves DEF Takes
  <2> QED
    BY <1>3, <2>1, <2>2, <2>3, StepsAre
<1> QED
  BY <1>1, <1>2, <1>3

\* The stop lasts.
LEMMA StopKept ==
    ASSUME TypeOK, Queued, Reported, Announced, [Next]_vars, ~Stop
    PROVE  /\ stop' = stop /\ why' = why
           /\ js' \in {"capturing", "paused"} => js \in {"capturing", "paused"}
           /\ js' = "capturing" => js = "capturing"
<1>1. CASE HandleNext
  <2>1. PICK q, result : Handled(q, result)
    BY <1>1, HandleMoves
  <2> QED
    BY <2>1 DEF Handled, Serves
<1>2. CASE Passing
  <2>1. CASE SendNext
    BY <2>1 DEF SendNext, session, pause
  <2>2. CASE CaptureFrame
    BY <2>2 DEF CaptureFrame
  <2>3. CASE Pause
    BY <2>3 DEF Pause, pause
  <2>4. CASE Resumed
    BY <2>4 DEF Resumed, pause
  <2>5. CASE UNCHANGED vars
    BY <2>5 DEF vars, session, pause
  <2> QED
    BY <1>2, <2>1, <2>2, <2>3, <2>4, <2>5 DEF Passing
<1>3. CASE Ask
  <2>1. PICK q : Sends(q) /\ Answers' = Answers
    BY <1>3, AskMoves DEF Sent
  <2> QED
    BY <2>1 DEF Sends
<1>4. CASE ReadNext
  BY <1>4, ReadMoves DEF Takes
<1> QED
  BY <1>1, <1>2, <1>3, <1>4, StepsAre

\* A stop at a breakpoint stays at it ...
LEMMA StopForKept ==
    ASSUME TypeOK, Queued, Reported, Announced, [Next]_vars, stop' = stop, why' = why,
           NEW n, NEW line, StopFor(n, line)
    PROVE  StopFor(n, line)'
<1>1. IssuedFor(n, line)'
  BY IssuedForKept DEF StopFor
<1>2. Stack(stop)' = Stack(stop)
  BY CounterKept, StackKept
<1>3. why'[2] = <<BreakpointId(n, line)>> /\ Head(Stack(stop)').line = line + 1
  BY <1>2 DEF StopFor
<1> QED
  BY <1>1, <1>3 DEF StopFor, BreakpointId

\* ... so stops do.
LEMMA StopBoundKept ==
    ASSUME TypeOK, Queued, Reported, Announced, [Next]_vars, TableBound, StopBound
    PROVE  StopBound'
<1> SUFFICES ASSUME js' \in {"capturing", "paused"}, why'[2] # <<>>
             PROVE  \E n, line : n \in 1..next_bp_id' - 1 /\ line \in Lines /\ StopFor(n, line)'
  BY DEF StopBound
<1>1. CASE ~Stop
  <2>1. stop' = stop /\ why' = why /\ js \in {"capturing", "paused"}
    BY <1>1, StopKept
  <2>2. PICK n \in 1..next_bp_id - 1, line \in Lines : StopFor(n, line)
    BY <2>1 DEF StopBound
  <2>3. StopFor(n, line)'
    BY <2>1, <2>2, StopForKept
  <2>4. n \in 1..next_bp_id' - 1
    BY <2>3 DEF StopFor, IssuedFor
  <2> QED
    BY <2>3, <2>4
<1>2. CASE Stop
  <2>1. PICK s \in 1..Len(Snapshots) : \E reason \in Reasons(s) :
            stop' = s /\ why' = <<reason, IF reason = "breakpoint" THEN HitIds(s) ELSE <<>>>>
    BY <1>2 DEF Stop
  <2>2. PICK reason \in Reasons(s) :
            stop' = s /\ why' = <<reason, IF reason = "breakpoint" THEN HitIds(s) ELSE <<>>>>
    BY <2>1
  <2>3. reason = "breakpoint" /\ why'[2] = HitIds(s)
    BY <2>2
  <2>4. Hits(s) # {}
    BY <2>2, <2>3 DEF Reasons
  <2>5. Hits(s) \in SUBSET Nat /\ \A n \in Hits(s) :
            n \in DOMAIN breakpoints /\ breakpoints[n].line = Head(Stack(s)).line
    BY DEF Hits, TypeOK
  <2> DEFINE n == Min(Hits(s))
  <2>6. n \in DOMAIN breakpoints /\ breakpoints[n].line = Head(Stack(s)).line
    <3> DEFINE h == Hits(s)
    <3>1. h \in SUBSET Nat /\ h # {}
      BY <2>4, <2>5
    <3> HIDE DEF h
    <3>2. Min(h) \in h
      BY <3>1, LeastOf
    <3> QED
      BY <2>5, <3>2 DEF h
  <2>7. HitIds(s) = <<BreakpointId(n, Head(Stack(s)).line - 1)>>
    BY DEF HitIds
  <2>8. PICK m : m = n
    OBVIOUS
  <2> HIDE DEF n
  <2>9. PICK line \in Lines : breakpoints[m].line = line + 1 /\ IssuedFor(m, line)
    BY <2>6, <2>8 DEF TableBound
  <2>10. Head(Stack(s)).line = line + 1 /\ Head(Stack(s)).line - 1 = line
    <3>1. line \in Int
      BY InspectionAssumption, ValueAssumption
    <3> QED
      BY <2>6, <2>8, <2>9, <3>1
  <2>11. why'[2] = <<BreakpointId(m, line)>>
    BY <2>3, <2>7, <2>8, <2>10
  <2>12. IssuedFor(m, line)'
    BY <2>9, IssuedForKept
  <2>13. Stack(stop)' = Stack(s)
    BY <2>2, CounterKept DEF Stack
  <2>14. StopFor(m, line)'
    BY <2>10, <2>11, <2>12, <2>13 DEF StopFor, BreakpointId
  <2> QED
    BY <2>12, <2>14 DEF IssuedFor
<1> QED
  BY <1>1, <1>2

\* With an answer to read, the client knows the script.
LEMMA KnownScripts ==
    ASSUME Announced, client.scripts # <<>> \/ ~Unaware \/ (told # <<>> /\ Has(Head(told), "id"))
    PROVE  client.scripts = Put(<<>>, <<Decimal(1)>>, AnnouncedUrl) /\ client.scripts # <<>>
<1>1. client.scripts = Put(<<>>, <<Decimal(1)>>, AnnouncedUrl)
  BY ScriptParsedIs DEF Announced, Unaware, Unused
<1>2. \A v : Put(<<>>, <<Decimal(1)>>, v) # <<>>
  <2> DEFINE k == <<Decimal(1)>>
  <2> HIDE DEF k
  <2>1. ASSUME NEW v PROVE Put(<<>>, k, v) # <<>>
    <3>1. DOMAIN Put(<<>>, k, v) = {k}
      BY OnlyScript
    <3>2. DOMAIN <<>> = {}
      OBVIOUS
    <3> QED
      BY <3>1, <3>2
  <2> QED
    BY <2>1 DEF k
<1> QED
  BY <1>1, <1>2

\* What the client has of a breakpoint stays so ...
LEMMA ClientBoundSame ==
    ASSUME TypeOK, Queued, Reported, Announced, [Next]_vars, ClientBound, client'.scripts # <<>>,
           NEW b \in DOMAIN client.bound, client'.bound[b] = client.bound[b]
    PROVE  /\ client'.scripts # <<>>
           /\ \E n, line : n \in 1..next_bp_id' - 1 /\ line \in Lines /\ ClientFor(client.bound[b], b, n, line)'
<1>1. PICK n \in 1..next_bp_id - 1, line \in Lines : ClientFor(client.bound[b], b, n, line)
  BY DEF ClientBound
<1>2. n \in 1..next_bp_id' - 1
  <2> DEFINE x == next_bp_id
             y == next_bp_id'
  <2>1. x \in Nat /\ (y = x \/ y = x + 1) /\ n \in 1..x - 1
    BY CounterKept DEF TypeOK
  <2> HIDE DEF x, y
  <2>2. n \in 1..y - 1
    BY <2>1
  <2> QED
    BY <2>2 DEF y
<1>3. ClientFor(client.bound[b], b, n, line)'
  BY <1>1 DEF ClientFor, BreakpointId, Place
<1> QED
  BY <1>2, <1>3

\* ... for all it knows.
LEMMA ClientBoundKept ==
    ASSUME TypeOK, Queued, Reported, Announced, Announced', [Next]_vars, ClientBound
    PROVE  ClientBound'
<1> SUFFICES ASSUME NEW b \in DOMAIN client'.bound
             PROVE  /\ client'.scripts # <<>>
                    /\ \E n, line : n \in 1..next_bp_id' - 1 /\ line \in Lines
                                    /\ ClientFor(client.bound[b], b, n, line)'
  BY DEF ClientBound
<1>1. CASE b \in DOMAIN client.bound /\ client'.bound[b] = client.bound[b] /\ client'.scripts # <<>>
  BY <1>1, ClientBoundSame
<1>2. b \in DOMAIN client.bound => client.scripts # <<>>
  BY DEF ClientBound
<1>3. CASE ~ReadNext
  <2>1. client'.bound = client.bound /\ client'.scripts = client.scripts
    BY <1>3, OthersTell
  <2> QED
    BY <1>1, <1>2, <2>1
<1>4. CASE ReadNext
  <2>1. Takes
    BY <1>4, ReadMoves
  <2>2. CASE ~Has(Head(told), "id")
    <3>1. client'.bound = client.bound
      BY <2>1, <2>2 DEF Takes, TakesEvent
    <3>2. client.scripts # <<>>
      BY <1>2, <3>1
    <3>3. client'.scripts # <<>>
      <4>1. client.scripts = Put(<<>>, <<Decimal(1)>>, AnnouncedUrl)
        BY <3>2, KnownScripts
      <4> DEFINE k == <<Decimal(1)>>
                 v == AnnouncedUrl
      <4>2. client'.scripts = client.scripts \/ client'.scripts = Put(client.scripts, k, v)
        BY <2>1, <2>2 DEF Takes, TakesEvent
      <4> HIDE DEF k, v
      <4>3. k \in DOMAIN Put(client.scripts, k, v)
        BY DEF Put
      <4>4. DOMAIN <<>> = {}
        OBVIOUS
      <4> QED
        BY <3>2, <4>2, <4>3, <4>4
    <3> QED
      BY <1>1, <3>1, <3>3
  <2>3. CASE Has(Head(told), "id")
    <3> DEFINE q == client.waiting[1]
               r == Get(Head(told), "result")
               new == [line |-> Get(Params(q), "lineNumber"), places |-> r.o["locations"].a]
    <3>1. /\ told # <<>> /\ Fits(Head(told), q) /\ client'.scripts = client.scripts
          /\ client'.bound = IF Breaks(q) THEN Put(client.bound, r.o["breakpointId"].s, new) ELSE client.bound
      BY <2>1, <2>3 DEF Takes, TakesAnswer
    <3>2. client'.scripts # <<>>
      BY <2>3, <3>1, KnownScripts
    <3>3. CASE ~Breaks(q)
      BY <1>1, <3>1, <3>2, <3>3
    <3>4. CASE Breaks(q)
      <4>1. PICK n \in 1..next_bp_id - 1, line \in Lines :
                /\ Get(Params(q), "lineNumber") = Num(line)
                /\ r = Obj([breakpointId |-> BreakpointId(n, line), locations |-> Arr(<<Place(line)>>)])
        BY <3>1, <3>4 DEF Fits, Breaks
      <4>2. r.o["breakpointId"] = BreakpointId(n, line) /\ r.o["locations"].a = <<Place(line)>>
        BY <4>1 DEF Obj, Arr
      <4>3. new = [line |-> Num(line), places |-> <<Place(line)>>]
        BY <4>1, <4>2
      <4> HIDE DEF new
      <4> DEFINE c == r.o["breakpointId"].s
      <4>4. c = BreakpointId(n, line).s
        BY <4>2
      <4> HIDE DEF c
      <4>5. client'.bound = Put(client.bound, c, new)
        BY <3>1, <3>4 DEF c
      <4>6. CASE b = c
        <5>1. client'.bound[b] = new
          BY <4>5, <4>6 DEF Put
        <5>2. ClientFor(client.bound[b], b, n, line)'
          BY <4>3, <4>4, <4>6, <5>1 DEF ClientFor, BreakpointId, Place
        <5>3. n \in 1..next_bp_id' - 1
          BY <2>1 DEF Takes
        <5> QED
          BY <3>2, <5>2, <5>3
      <4>7. CASE b # c
        <5>1. b \in DOMAIN client.bound /\ client'.bound[b] = client.bound[b]
          BY <4>5, <4>7 DEF Put
        <5> QED
          BY <1>1, <3>2, <5>1
      <4> QED
        BY <4>6, <4>7
    <3> QED
      BY <3>3, <3>4
  <2> QED
    BY <2>2, <2>3
<1> QED
  BY <1>3, <1>4

\* Bound is kept.
LEMMA BoundKept ==
    ASSUME Core, Core', Bound, [Next]_vars
    PROVE  Bound'
  BY BoundIs, TableBoundKept, StopBoundKept, ClientBoundKept DEF Core

\* Ids of breakpoints at different lines differ (the id holds the line).
LEMMA LinesDiffer ==
    ASSUME NEW m, NEW n, NEW k \in Lines, NEW l \in Lines, BreakpointId(m, k).s = BreakpointId(n, l).s
    PROVE  k = l
<1>1. <<Decimal(m), ":", Decimal(k), ":", "0">> = <<Decimal(n), ":", Decimal(l), ":", "0">>
  BY DEF BreakpointId, Str
<1>2. Decimal(k) = Decimal(l)
  BY <1>1
<1>3. k \in 0..MaxInt /\ l \in 0..MaxInt
  BY InspectionAssumption
<1> QED
  BY <1>2, <1>3, ValueAssumption

\* Where an id issued is.
LEMMA IssuedWhere ==
    ASSUME TypeOK, NEW b, Issued(b), b \notin DOMAIN client.bound
    PROVE  \E i \in 1..Len(told \o todo) :
               Get(Get((told \o todo)[i], "result"), "breakpointId") = Str(b)
<1>1. PICK k \in 1..Len(Answers) : Get(Get(Answers[k], "result"), "breakpointId") = Str(b)
  BY DEF Issued
<1> DEFINE s == told \o todo
<1>2. IsSeq(s)
  BY ConcatIs DEF TypeOK
<1>3. Answers = Numbered(s)
  BY DEF Answers
<1> HIDE DEF s
<1>4. \E i \in 1..Len(s) : Numbered(s)[k] = s[i]
  BY <1>1, <1>2, <1>3, NumberedFrom DEF Numerous
<1>5. PICK i \in 1..Len(s) : Answers[k] = s[i]
  BY <1>3, <1>4
<1>6. Get(Get(s[i], "result"), "breakpointId") = Str(b)
  BY <1>1, <1>5
<1> QED
  BY <1>6 DEF s

\* With the two ends agreeing on them, breakpoints stop where the client was
\* told.
LEMMA BoundBinds ==
    ASSUME Core, Bound
    PROVE  BreakpointsBind
<1>0. TypeOK /\ Announced
  BY DEF Core
<1>1. ASSUME NEW b \in DOMAIN client.bound
      PROVE  /\ Get(client.bound[b].places[1], "lineNumber") = client.bound[b].line
             /\ Get(client.bound[b].places[1], "scriptId").s \in DOMAIN client.scripts
  <2>1. client.scripts # <<>>
    BY DEF Bound
  <2>2. PICK line \in Lines : client.bound[b] = [line |-> Num(line), places |-> <<Place(line)>>]
    BY DEF Bound
  <2>3. client.bound[b].places[1] = Place(line) /\ client.bound[b].line = Num(line)
    BY <2>2
  <2>4. Get(Place(line), "lineNumber") = Num(line) /\ Get(Place(line), "scriptId") = Word(Decimal(1))
    BY DEF Place, Get, Has, Obj
  <2> DEFINE k == <<Decimal(1)>>
             v == AnnouncedUrl
  <2>5. client.scripts = Put(<<>>, k, v)
    BY <1>0, <2>1, KnownScripts
  <2> HIDE DEF k, v
  <2>6. k \in DOMAIN client.scripts
    <3>1. DOMAIN Put(<<>>, k, v) = {k}
      BY OnlyScript
    <3> QED
      BY <2>5, <3>1
  <2>7. Word(Decimal(1)).s = k
    BY DEF Word, Str, k
  <2> QED
    BY <2>3, <2>4, <2>6, <2>7
<1>2. ASSUME client.hit # <<>>
      PROVE  LET b == client.hit[1].s
             IN  IF b \in DOMAIN client.bound
                 THEN client.frames[1].o["location"] = client.bound[b].places[1]
                 ELSE \E i \in 1..Len(told \o todo) :
                         Get(Get((told \o todo)[i], "result"), "breakpointId") = Str(b)
  <2>1. client.frames # <<>>
    BY <1>2 DEF Core, PauseShared
  <2>2. /\ js = "paused" /\ client.frames = frames /\ client.hit = why[2]
        /\ \A i \in 1..Len(frames) : Placed(frames[i], Stack(stop)[i])
    BY <2>1, CoreShares
  <2>3. PICK n \in 1..next_bp_id - 1, line \in Lines :
            why[2] = <<BreakpointId(n, line)>> /\ IssuedFor(n, line) /\ Head(Stack(stop)).line = line + 1
    BY <1>2, <2>2 DEF Bound
  <2>4. PICK b : b = BreakpointId(n, line).s
    OBVIOUS
  <2>5. client.hit[1].s = b
    BY <2>2, <2>3, <2>4
  <2>6. CASE b \in DOMAIN client.bound
    <3>1. PICK m \in 1..next_bp_id - 1, l \in Lines :
              b = BreakpointId(m, l).s /\ client.bound[b] = [line |-> Num(l), places |-> <<Place(l)>>]
      BY <2>6 DEF Bound
    <3>2. l = line
      BY <2>4, <3>1, LinesDiffer
    <3>3. client.bound[b].places[1] = Place(line)
      BY <3>1, <3>2
    <3>4. stop \in 1..Len(Snapshots) /\ Len(frames) = Len(Stack(stop))
      BY <2>2, PausedFrames DEF Core
    <3>5. 1 \in 1..Len(frames) /\ Head(Stack(stop)) = Stack(stop)[1]
      BY <3>4, StackIs
    <3>6. client.frames[1].o["location"] = Place(ZeroBased(Stack(stop)[1].line))
      BY <2>2, <3>5 DEF Placed
    <3>7. ZeroBased(line + 1) = line
      <4>1. line \in 0..MaxInt
        BY InspectionAssumption
      <4>2. line \in Nat
        BY <4>1, ValueAssumption
      <4> QED
        BY <4>2 DEF ZeroBased
    <3>8. client.frames[1].o["location"] = Place(line)
      BY <2>3, <3>5, <3>6, <3>7
    <3> QED
      BY <2>5, <2>6, <3>3, <3>8
  <2>7. CASE b \notin DOMAIN client.bound
    <3>1. Issued(b)
      BY <2>3, <2>4 DEF IssuedFor
    <3>2. \E i \in 1..Len(told \o todo) :
               Get(Get((told \o todo)[i], "result"), "breakpointId") = Str(b)
      BY <1>0, <2>7, <3>1, IssuedWhere
    <3> QED
      BY <2>5, <2>7, <3>2
  <2> QED
    BY <2>6, <2>7
<1> QED
  BY <1>1, <1>2 DEF BreakpointsBind

\* No breakpoint is set initially.
LEMMA BoundInitially == Init => Bound
  BY DEF Init, Bound

\* A breakpoint is bound where the client was told, and stops the script
\* there and nowhere else (set_breakpoint_by_url, check_breakpoint,
\* do_pause).
THEOREM BreakpointsKept == Spec => []BreakpointsBind
<1>1. Init => Core /\ Bound
  BY CoreInitially, BoundInitially
<1>2. Core /\ Bound /\ [Next]_vars => (Core /\ Bound)'
  BY CoreKept, BoundKept
<1>3. Core /\ Bound => BreakpointsBind
  BY BoundBinds
<1> QED
  BY <1>1, <1>2, <1>3, PTL DEF Spec

-----------------------------------------------------------------------------
(* Looking: a pause is looked at only while it lasts.                      *)

\* The first messages of a queue.
LEMMA UptoIs ==
    ASSUME NEW s, IsSeq(s), NEW i \in 1..Len(s)
    PROVE  /\ IsSeq(SubSeq(s, 1, i)) /\ Len(SubSeq(s, 1, i)) = i
           /\ \A j \in 1..i : SubSeq(s, 1, i)[j] = s[j]
<1> DEFINE t == SubSeq(s, 1, i)
<1>1. Len(s) \in Nat
  BY SeqIs
<1>2. ASSUME NEW S, s \in Seq(S)
      PROVE  t \in Seq(S) /\ Len(t) = i /\ \A j \in 1..i : t[j] = s[j]
  <2>1. \A j \in 1..i : j \in 1..Len(s)
    BY <1>1
  <2>2. /\ t \in Seq(S) /\ Len(t) = i - 1 + 1
        /\ \A j \in 1..i - 1 + 1 : t[j] = s[1 + j - 1]
    BY <1>2, <1>1, <2>1, SubSeqProperties
  <2> QED
    BY <2>2
<1>3. s \in Seq(Range(s))
  BY DEF IsSeq
<1> HIDE DEF t
<1>4. t \in Seq(Range(s)) /\ Len(t) = i /\ \A j \in 1..i : t[j] = s[j]
  BY <1>2, <1>3
<1>5. IsSeq(t)
  BY <1>4, InSeq
<1> QED
  BY <1>4, <1>5 DEF t

Upto(s, i) == Len(Numbered(SubSeq(s, 1, i)))

\* The answers up to a message, when one is appended ...
LEMMA UptoAppended ==
    ASSUME NEW s, IsSeq(s), NEW x, NEW i \in 1..Len(s)
    PROVE  Upto(Append(s, x), i) = Upto(s, i)
<1> DEFINE t == Append(s, x)
<1>1. /\ IsSeq(t) /\ Len(t) = Len(s) + 1 /\ \A j \in 1..Len(s) : t[j] = s[j]
  BY AppendIs
<1>2. Len(s) \in Nat
  BY SeqIs
<1> HIDE DEF t
<1>3. i \in 1..Len(t)
  BY <1>1, <1>2
<1> DEFINE a == SubSeq(s, 1, i)
           b == SubSeq(t, 1, i)
<1>4. /\ IsSeq(a) /\ Len(a) = i /\ \A j \in 1..i : a[j] = s[j]
  BY UptoIs
<1>5. /\ IsSeq(b) /\ Len(b) = i /\ \A j \in 1..i : b[j] = t[j]
  BY <1>1, <1>3, UptoIs
<1> HIDE DEF a, b
<1>6. \A j \in 1..i : a[j] = b[j]
  BY <1>1, <1>2, <1>4, <1>5
<1>7. a = b
  BY <1>4, <1>5, <1>6, SameSequence
<1> QED
  BY <1>7 DEF Upto, a, b, t

\* ... up to the last one ...
LEMMA UptoWhole ==
    ASSUME NEW s, IsSeq(s), s # <<>>
    PROVE  Upto(s, Len(s)) = Len(Numbered(s))
<1>1. Len(s) \in 1..Len(s)
  BY SeqIs
<1> DEFINE a == SubSeq(s, 1, Len(s))
<1>2. /\ IsSeq(a) /\ Len(a) = Len(s) /\ \A j \in 1..Len(s) : a[j] = s[j]
  BY <1>1, UptoIs
<1> HIDE DEF a
<1>3. a = s
  BY <1>2, SameSequence
<1> QED
  BY <1>3 DEF Upto, a

\* ... and when the first is taken.
LEMMA UptoTaken ==
    ASSUME NEW s, IsSeq(s), s # <<>>, NEW i \in 1..Len(Tail(s))
    PROVE  /\ i + 1 \in 1..Len(s) /\ Tail(s)[i] = s[i + 1]
           /\ Upto(s, i + 1) = IF Has(Head(s), "id") THEN Upto(Tail(s), i) + 1 ELSE Upto(Tail(s), i)
           /\ Upto(s, i + 1) \in Nat /\ Upto(Tail(s), i) \in Nat
<1> DEFINE t == Tail(s)
           a == SubSeq(s, 1, i + 1)
           b == SubSeq(t, 1, i)
<1>1. /\ IsSeq(t) /\ Len(t) = Len(s) - 1 /\ Head(s) = s[1] /\ Len(s) \in Nat
      /\ \A j \in 1..Len(s) - 1 : t[j] = s[j + 1]
  BY TailIs, SeqIs
<1>2. i \in 1..Len(t)
  OBVIOUS
<1> HIDE DEF t
<1>3. i + 1 \in 1..Len(s) /\ t[i] = s[i + 1]
  BY <1>1, <1>2
<1>4. /\ IsSeq(a) /\ Len(a) = i + 1 /\ \A j \in 1..i + 1 : a[j] = s[j]
  BY <1>3, UptoIs
<1>5. /\ IsSeq(b) /\ Len(b) = i /\ \A j \in 1..i : b[j] = t[j]
  BY <1>1, <1>2, UptoIs
<1> HIDE DEF a, b
<1>6. a # <<>> /\ Head(a) = Head(s)
  <2>1. Len(a) > 0 /\ 1 \in 1..i + 1
    BY <1>2, <1>4
  <2>2. a # <<>>
    BY <1>4, <2>1, EmptyIs
  <2>3. Head(a) = a[1]
    BY <1>4, <2>2, TailIs
  <2> QED
    BY <1>1, <1>4, <2>1, <2>2, <2>3
<1>7. Tail(a) = b
  <2> DEFINE c == Tail(a)
  <2>1. IsSeq(c) /\ Len(c) = Len(a) - 1 /\ \A j \in 1..Len(a) - 1 : c[j] = a[j + 1]
    BY <1>4, <1>6, TailIs
  <2> HIDE DEF c
  <2>2. Len(c) = i
    BY <1>4, <2>1, <1>2
  <2>3. ASSUME NEW j \in 1..i PROVE c[j] = b[j]
    <3>1. j + 1 \in 1..i + 1 /\ j \in 1..Len(a) - 1 /\ j \in 1..Len(s) - 1
      BY <1>1, <1>2, <1>4
    <3>2. c[j] = a[j + 1] /\ a[j + 1] = s[j + 1] /\ t[j] = s[j + 1]
      BY <1>1, <1>4, <2>1, <3>1
    <3> QED
      BY <1>5, <3>2
  <2>4. c = b
    BY <2>1, <2>2, <2>3, <1>5, SameSequence
  <2> QED
    BY <2>4 DEF c
<1>8. Len(Numbered(a)) \in Nat /\ Len(Numbered(b)) \in Nat
  BY <1>4, <1>5, NumberedFrom, SeqIs DEF Numerous
<1>9. Len(Numbered(a)) = IF Has(Head(s), "id") THEN Len(Numbered(b)) + 1 ELSE Len(Numbered(b))
  <2>1. CASE Has(Head(s), "id")
    BY <1>4, <1>6, <1>7, <2>1, NumberedTaken
  <2>2. CASE ~Has(Head(s), "id")
    BY <1>4, <1>6, <1>7, <2>2, NumberedHead
  <2> QED
    BY <2>1, <2>2
<1> QED
  BY <1>3, <1>8, <1>9 DEF Upto, a, b, t

-----------------------------------------------------------------------------
\* Only the first n of the requests w may be looks at a pause.
LooksWithin(w, n) == \A k \in 1..Len(w) : IsLook(w[k]) => k <= n

LooksAnswered(w, t) == LooksWithin(w, Len(Numbered(t)))
LooksBefore(w, t) == \A i \in 1..Len(t) : IsPaused(t[i]) => LooksWithin(w, Upto(t, i))
LooksFirst(s) == \A i, j \in 1..Len(s) : IsControl(s[i]) /\ IsLook(s[j]) => j < i

\* Looking, by its parts, in this state and the next.
LEMMA LookingIs ==
    /\ Looking <=> /\ (js # "paused" => LooksAnswered(client.waiting, told))
                   /\ LooksBefore(client.waiting, told) /\ LooksFirst(sent)
    /\ Looking' <=> /\ (js' # "paused" => LooksAnswered(client'.waiting, told'))
                    /\ LooksBefore(client'.waiting, told') /\ LooksFirst(sent')
  BY DEF Looking, LooksAnswered, LooksBefore, LooksFirst, LooksWithin, Before, Upto

\* Looks stay answered in time when a message is told ...
LEMMA LooksTold ==
    ASSUME NEW w, NEW t, IsSeq(t), NEW x
    PROVE  /\ LooksAnswered(w, t) /\ IsSeq(w) => LooksAnswered(w, Append(t, x))
           /\ LooksBefore(w, t) /\ (IsPaused(x) => LooksAnswered(w, t) /\ ~Has(x, "id")) => LooksBefore(w, Append(t, x))
<1> DEFINE u == Append(t, x)
<1>1. /\ IsSeq(u) /\ Len(u) = Len(t) + 1 /\ u[Len(t) + 1] = x /\ Len(t) \in Nat
      /\ \A j \in 1..Len(t) : u[j] = t[j]
  BY AppendIs, SeqIs
<1>2. Numbered(u) = IF Has(x, "id") THEN Append(Numbered(t), x) ELSE Numbered(t)
  BY NumberedAppend
<1>3. IsSeq(Numbered(t)) /\ Len(Numbered(t)) \in Nat
  BY NumberedFrom, SeqIs DEF Numerous
<1>4. \A i \in 1..Len(t) : Upto(u, i) = Upto(t, i)
  BY UptoAppended
<1>5. Upto(u, Len(u)) = Len(Numbered(u))
  <2>1. u # <<>>
    BY <1>1, EmptyIs
  <2> HIDE DEF u
  <2> QED
    BY <1>1, <2>1, UptoWhole
<1> HIDE DEF u
<1>6. Len(Numbered(u)) \in Nat /\ Len(Numbered(u)) >= Len(Numbered(t))
  BY <1>2, <1>3, AppendIs
<1>7. ASSUME LooksAnswered(w, t), IsSeq(w) PROVE LooksAnswered(w, u)
  <2>1. ASSUME NEW k \in 1..Len(w), IsLook(w[k]) PROVE k <= Len(Numbered(u))
    <3>1. k <= Len(Numbered(t)) /\ k \in Nat
      BY <1>7, <2>1 DEF LooksAnswered, LooksWithin
    <3> QED
      BY <1>3, <1>6, <3>1
  <2> QED
    BY <2>1 DEF LooksAnswered, LooksWithin
<1>8. ASSUME LooksBefore(w, t), IsPaused(x) => LooksAnswered(w, t) /\ ~Has(x, "id"),
             NEW i \in 1..Len(u), IsPaused(u[i])
      PROVE  LooksWithin(w, Upto(u, i))
  <2>1. CASE i \in 1..Len(t)
    <3>1. IsPaused(t[i]) /\ Upto(u, i) = Upto(t, i)
      BY <1>1, <1>4, <1>8, <2>1
    <3> QED
      BY <1>8, <2>1, <3>1 DEF LooksBefore
  <2>2. CASE i = Len(t) + 1
    <3>1. IsPaused(x)
      BY <1>1, <1>8, <2>2
    <3>2. LooksAnswered(w, t) /\ ~Has(x, "id")
      BY <1>8, <3>1
    <3>3. Upto(u, i) = Len(Numbered(t))
      BY <1>1, <1>2, <1>5, <2>2, <3>2
    <3> QED
      BY <3>2, <3>3 DEF LooksAnswered
  <2> QED
    BY <1>1, <2>1, <2>2
<1>9. /\ LooksAnswered(w, t) /\ IsSeq(w) => LooksAnswered(w, u)
      /\ LooksBefore(w, t) /\ (IsPaused(x) => LooksAnswered(w, t) /\ ~Has(x, "id")) => LooksBefore(w, u)
  BY <1>7, <1>8 DEF LooksBefore
<1> QED
  BY <1>9 DEF u

\* ... when an event is read ...
LEMMA LooksSame ==
    ASSUME NEW w, NEW t, IsSeq(t), t # <<>>, ~Has(Head(t), "id")
    PROVE  /\ LooksAnswered(w, t) => LooksAnswered(w, Tail(t))
           /\ LooksBefore(w, t) => LooksBefore(w, Tail(t))
<1>1. Numbered(t) = Numbered(Tail(t))
  BY NumberedHead
<1>2. ASSUME LooksBefore(w, t), NEW i \in 1..Len(Tail(t)), IsPaused(Tail(t)[i])
      PROVE  LooksWithin(w, Upto(Tail(t), i))
  <2>1. i + 1 \in 1..Len(t) /\ Tail(t)[i] = t[i + 1] /\ Upto(t, i + 1) = Upto(Tail(t), i)
    BY UptoTaken
  <2> DEFINE j == i + 1
  <2>2. j \in 1..Len(t) /\ IsPaused(t[j]) /\ Upto(t, j) = Upto(Tail(t), i)
    BY <1>2, <2>1
  <2> HIDE DEF j
  <2>3. LooksWithin(w, Upto(t, j))
    BY <1>2, <2>2 DEF LooksBefore
  <2> QED
    BY <2>2, <2>3
<1> QED
  BY <1>1, <1>2 DEF LooksAnswered, LooksBefore

\* (one request fewer, one answer fewer) ...
LEMMA WithinTail ==
    ASSUME NEW w, IsSeq(w), w # <<>>, NEW n \in Nat, LooksWithin(w, n + 1)
    PROVE  LooksWithin(Tail(w), n)
<1> DEFINE v == Tail(w)
<1>1. Len(v) = Len(w) - 1 /\ Len(w) \in Nat /\ \A k \in 1..Len(w) - 1 : v[k] = w[k + 1]
  BY TailIs, SeqIs
<1> HIDE DEF v
<1>2. ASSUME NEW k \in 1..Len(v), IsLook(v[k]) PROVE k <= n
  <2> DEFINE j == k + 1
  <2>1. j \in 1..Len(w) /\ v[k] = w[j]
    BY <1>1
  <2>2. j <= n + 1
    <3> HIDE DEF j
    <3> QED
      BY <1>2, <2>1 DEF LooksWithin
  <2> QED
    BY <1>1, <2>2
<1> QED
  BY <1>2 DEF LooksWithin, v

\* ... when an answer is read ...
LEMMA LooksRead ==
    ASSUME NEW w, NEW t, IsSeq(w), IsSeq(t), t # <<>>, w # <<>>, Has(Head(t), "id")
    PROVE  /\ LooksAnswered(w, t) => LooksAnswered(Tail(w), Tail(t))
           /\ LooksBefore(w, t) => LooksBefore(Tail(w), Tail(t))
<1>1. Len(Numbered(t)) = Len(Numbered(Tail(t))) + 1
  BY NumberedTaken
<1>2. Len(Numbered(Tail(t))) \in Nat
  BY TailIs, NumberedFrom, SeqIs DEF Numerous
<1>3. LooksAnswered(w, t) => LooksAnswered(Tail(w), Tail(t))
  BY <1>1, <1>2, WithinTail DEF LooksAnswered
<1>4. ASSUME LooksBefore(w, t), NEW i \in 1..Len(Tail(t)), IsPaused(Tail(t)[i])
      PROVE  LooksWithin(Tail(w), Upto(Tail(t), i))
  <2>1. i + 1 \in 1..Len(t) /\ Tail(t)[i] = t[i + 1] /\ Upto(t, i + 1) = Upto(Tail(t), i) + 1
        /\ Upto(Tail(t), i) \in Nat
    BY UptoTaken
  <2> DEFINE j == i + 1
  <2>2. j \in 1..Len(t) /\ IsPaused(t[j]) /\ Upto(t, j) = Upto(Tail(t), i) + 1
    BY <1>4, <2>1
  <2> HIDE DEF j
  <2>3. LooksWithin(w, Upto(t, j))
    BY <1>4, <2>2 DEF LooksBefore
  <2> QED
    BY <2>1, <2>2, <2>3, WithinTail
<1> QED
  BY <1>3, <1>4 DEF LooksBefore

\* ... when a request is taken ...
LEMMA FirstTail ==
    ASSUME NEW s, IsSeq(s), s # <<>>, LooksFirst(s)
    PROVE  LooksFirst(Tail(s))
<1> DEFINE t == Tail(s)
<1>1. Len(t) = Len(s) - 1 /\ Len(s) \in Nat /\ \A k \in 1..Len(s) - 1 : t[k] = s[k + 1]
  BY TailIs, SeqIs
<1> HIDE DEF t
<1>2. ASSUME NEW i \in 1..Len(t), NEW j \in 1..Len(t), IsControl(t[i]), IsLook(t[j]) PROVE j < i
  <2> DEFINE a == i + 1
             b == j + 1
  <2>1. a \in 1..Len(s) /\ b \in 1..Len(s) /\ t[i] = s[a] /\ t[j] = s[b]
    BY <1>1
  <2>2. b < a
    <3> HIDE DEF a, b
    <3> QED
      BY <1>2, <2>1 DEF LooksFirst
  <2> QED
    BY <1>1, <2>2
<1> QED
  BY <1>2 DEF LooksFirst, t

\* ... when one is sent ...
LEMMA FirstAppended ==
    ASSUME NEW s, IsSeq(s), LooksFirst(s), NEW q,
           ~IsLook(q) \/ (~IsControl(q) /\ \A i \in 1..Len(s) : ~IsControl(s[i]))
    PROVE  LooksFirst(Append(s, q))
<1> DEFINE t == Append(s, q)
<1>1. Len(t) = Len(s) + 1 /\ t[Len(s) + 1] = q /\ Len(s) \in Nat /\ \A k \in 1..Len(s) : t[k] = s[k]
  BY AppendIs, SeqIs
<1> HIDE DEF t
<1>2. ASSUME NEW i \in 1..Len(t), NEW j \in 1..Len(t), IsControl(t[i]), IsLook(t[j]) PROVE j < i
  <2>1. i \in 1..Len(s) \/ i = Len(s) + 1
    BY <1>1
  <2>2. j \in 1..Len(s) \/ j = Len(s) + 1
    BY <1>1
  <2>3. CASE ~IsLook(q)
    <3>1. j \in 1..Len(s) /\ IsLook(s[j])
      BY <1>1, <1>2, <2>2, <2>3
    <3>2. CASE i \in 1..Len(s)
      BY <1>1, <1>2, <3>1, <3>2 DEF LooksFirst
    <3>3. CASE i = Len(s) + 1
      BY <1>1, <3>1, <3>3
    <3> QED
      BY <2>1, <3>2, <3>3
  <2>4. CASE ~IsControl(q) /\ \A k \in 1..Len(s) : ~IsControl(s[k])
    BY <1>1, <1>2, <2>1, <2>4
  <2> QED
    BY <2>3, <2>4
<1> QED
  BY <1>2 DEF LooksFirst, t

\* ... and none of it changes with a request that does not look.
LEMMA LooksAsked ==
    ASSUME NEW w, IsSeq(w), NEW t, NEW q, ~IsLook(q)
    PROVE  /\ LooksAnswered(w, t) => LooksAnswered(Append(w, q), t)
           /\ LooksBefore(w, t) => LooksBefore(Append(w, q), t)
<1>1. ASSUME NEW n, LooksWithin(w, n) PROVE LooksWithin(Append(w, q), n)
  <2> DEFINE v == Append(w, q)
  <2>1. Len(v) = Len(w) + 1 /\ v[Len(w) + 1] = q /\ Len(w) \in Nat /\ \A k \in 1..Len(w) : v[k] = w[k]
    BY AppendIs, SeqIs
  <2> HIDE DEF v
  <2>2. ASSUME NEW k \in 1..Len(v), IsLook(v[k]) PROVE k <= n
    <3>1. k \in 1..Len(w) \/ k = Len(w) + 1
      BY <2>1
    <3> QED
      BY <1>1, <2>1, <2>2, <3>1 DEF LooksWithin
  <2> QED
    BY <2>2 DEF LooksWithin, v
<1> QED
  BY <1>1 DEF LooksAnswered, LooksBefore

\* A command that ends the pause comes behind the looks at it.
LEMMA LooksHandled ==
    ASSUME TypeOK, Queued, todo = <<>>, sent # <<>>, IsControl(Head(sent)), LooksFirst(sent)
    PROVE  LooksAnswered(client.waiting, told)
<1> DEFINE w == client.waiting
           n == Len(Numbered(told))
<1>1. Len(Answers) = n /\ n \in Nat
  BY AnswersAre, NumberedNone, EmptyIs
<1>2. Len(w) = n + Len(sent) /\ \A k \in 1..Len(sent) : sent[k] = w[n + k]
  BY <1>1 DEF Queued
<1>3. Len(sent) \in Nat /\ 1 \in 1..Len(sent) /\ IsControl(sent[1])
  BY TailIs, SeqIs DEF TypeOK
<1> HIDE DEF w, n
<1>4. ASSUME NEW k \in 1..Len(w), IsLook(w[k]) PROVE k <= n
  <2>1. CASE k <= n
    BY <2>1
  <2>2. CASE k > n
    <3> DEFINE j == k - n
    <3>1. j \in 1..Len(sent) /\ n + j = k /\ ~(j < 1)
      BY <1>1, <1>2, <1>3, <2>2
    <3> HIDE DEF j
    <3>2. IsLook(sent[j])
      BY <1>2, <1>4, <3>1
    <3> QED
      BY <1>3, <3>1, <3>2 DEF LooksFirst
  <2> QED
    BY <1>1, <2>1, <2>2
<1> QED
  BY <1>4 DEF LooksAnswered, LooksWithin, w, n

\* The requests that look at a pause do not end it.
LEMMA LookIs ==
    ASSUME NEW q
    PROVE  /\ IsLook(q) <=> Evaluates(q) \/ Lists(q)
           /\ IsLook(q) => ~IsControl(q)
<1>1. IsLook(q) <=> Evaluates(q) \/ Lists(q)
  BY DEF IsLook, Evaluates, Lists
<1>2. CASE Evaluates(q)
  BY <1>1, <1>2, OtherMethods DEF Evaluates, Steps
<1>3. CASE Lists(q)
  BY <1>1, <1>3, OtherMethods DEF Lists, Steps
<1> QED
  BY <1>1, <1>2, <1>3

\* Looking is kept.
LEMMA LookingKept ==
    ASSUME Core, Looking, [Next]_vars
    PROVE  Looking'
<1> DEFINE w == client.waiting
<1>0. /\ TypeOK /\ Queued /\ Reported /\ Announced /\ PauseShared
      /\ IsSeq(told) /\ IsSeq(sent) /\ IsSeq(w)
  BY DEF Core, TypeOK
<1>1. /\ js # "paused" => LooksAnswered(w, told)
      /\ LooksBefore(w, told) /\ LooksFirst(sent)
  BY LookingIs
<1> HIDE DEF w
<1>2. ASSUME NEW m, told' = Append(told, m), ~IsPaused(m), client' = client, sent' = sent,
             js' # "paused" => js # "paused"
      PROVE  Looking'
  <2>1. /\ js # "paused" => LooksAnswered(w, told')
        /\ LooksBefore(w, told')
    BY <1>0, <1>1, <1>2, LooksTold
  <2>2. client'.waiting = w
    BY <1>2 DEF w
  <2> QED
    BY <1>1, <1>2, <2>1, <2>2, LookingIs
<1>3. ASSUME told' = told, client' = client, sent' = sent, js' # "paused" => js # "paused"
      PROVE  Looking'
  BY <1>1, <1>3, LookingIs DEF w
<1>4. CASE HandleNext
  <2>1. PICK q, result : Handled(q, result)
    BY <1>0, <1>4, HandleMoves
  <2>2. /\ sent # <<>> /\ q = Head(sent) /\ sent' = Tail(sent) /\ todo = <<>>
        /\ told' = told /\ client' = client /\ Serves(q)
    BY <2>1 DEF Handled
  <2>3. LooksFirst(sent')
    BY <1>0, <1>1, <2>2, FirstTail
  <2>4. js' # "paused" => LooksAnswered(w, told)
    <3>1. CASE js # "paused"
      BY <1>1, <3>1
    <3>2. CASE js = "paused" /\ js' # "paused"
      <4>1. IsControl(q)
        BY <2>2, <3>2 DEF Serves
      <4> QED
        BY <1>0, <1>1, <2>2, <4>1, LooksHandled DEF w
    <3> QED
      BY <3>1, <3>2
  <2> QED
    BY <1>1, <2>2, <2>3, <2>4, LookingIs DEF w
<1>5. CASE Passing
  <2>1. CASE SendNext
    <3>1. told' = Append(told, Head(todo)) /\ sent' = sent /\ client' = client /\ todo # <<>> /\ js' = js
      BY <2>1 DEF SendNext, Tell, session
    <3>2. ~IsPaused(Head(todo))
      BY <1>0, <3>1, NextSilent DEF Pausing, IsPaused
    <3> QED
      BY <1>2, <3>1, <3>2
  <2>2. CASE Stop
    BY <1>3, <2>2 DEF Stop
  <2>3. CASE CaptureFrame
    BY <1>3, <2>3 DEF CaptureFrame
  <2>4. CASE Pause
    <3> DEFINE m == Paused(frames, why[1], why[2])
    <3>1. js # "paused" /\ js' = "paused" /\ told' = Append(told, m) /\ sent' = sent /\ client' = client
      BY <2>4 DEF Pause, Tell
    <3>2. ~Has(m, "id")
      BY PausedIs
    <3> HIDE DEF m
    <3>3. LooksBefore(w, told')
      BY <1>0, <1>1, <3>1, <3>2, LooksTold
    <3> QED
      BY <1>1, <3>1, <3>3, LookingIs DEF w
  <2>5. CASE Resumed
    <3> DEFINE m == Event("Debugger.resumed", Nothing)
    <3>1. js # "paused" /\ told' = Append(told, m) /\ sent' = sent /\ client' = client
      BY <2>5 DEF Resumed, Tell
    <3>2. ~IsPaused(m)
      BY EventIs
    <3> HIDE DEF m
    <3> QED
      BY <1>2, <3>1, <3>2
  <2>6. CASE UNCHANGED vars
    BY <1>3, <2>6 DEF vars, session
  <2> QED
    BY <1>5, <2>1, <2>2, <2>3, <2>4, <2>5, <2>6 DEF Passing
<1>6. CASE Ask
  <2>1. PICK q : Sent(q)
    BY <1>0, <1>6, AskMoves
  <2>2. /\ sent' = Append(sent, q) /\ client'.waiting = Append(w, q) /\ told' = told /\ js' = js
    BY <2>1 DEF Sent, Sends, w
  <2>3. CASE IsLook(q)
    <3>1. client.frames # <<>>
      <4>1. PICK v, p : q = Inquiry(client.next, v, p) /\ Mannered(v, p)
        BY <2>1 DEF Sent
      <4>2. Method(q) = <<v>>
        BY <4>1, InquiryIs
      <4>3. v \in {"Debugger.evaluateOnCallFrame", "Runtime.getProperties"}
        BY <2>3, <4>2, OtherMethods, LookIs
      <4> QED
        BY <4>1, <4>3 DEF Mannered
    <3>2. js = "paused" /\ NoneTold /\ NoneSent
      BY <3>1, CoreShares
    <3>3. \A t : LooksBefore(t, told')
      BY <2>2, <3>2 DEF LooksBefore, NoneTold
    <3>4. LooksFirst(sent')
      BY <1>0, <1>1, <2>2, <2>3, <3>2, LookIs, FirstAppended DEF NoneSent
    <3> QED
      BY <2>2, <3>2, <3>3, <3>4, LookingIs
  <2>4. CASE ~IsLook(q)
    <3>1. LooksFirst(sent')
      BY <1>0, <1>1, <2>2, <2>4, FirstAppended
    <3>2. /\ js # "paused" => LooksAnswered(client'.waiting, told)
          /\ LooksBefore(client'.waiting, told)
      BY <1>0, <1>1, <2>2, <2>4, LooksAsked
    <3> QED
      BY <2>2, <3>1, <3>2, LookingIs
  <2> QED
    BY <2>3, <2>4
<1>7. CASE ReadNext
  <2>1. Takes
    BY <1>0, <1>7, ReadMoves
  <2>2. told # <<>> /\ told' = Tail(told) /\ sent' = sent /\ js' = js
    BY <2>1 DEF Takes
  <2>3. CASE Has(Head(told), "id")
    <3>1. w # <<>> /\ client'.waiting = Tail(w)
      BY <2>1, <2>3 DEF Takes, TakesAnswer, w
    <3>2. /\ js # "paused" => LooksAnswered(Tail(w), Tail(told))
          /\ LooksBefore(Tail(w), Tail(told))
      BY <1>0, <1>1, <2>2, <2>3, <3>1, LooksRead
    <3> QED
      BY <1>1, <2>2, <3>1, <3>2, LookingIs
  <2>4. CASE ~Has(Head(told), "id")
    <3>1. client'.waiting = w
      BY <2>1, <2>4 DEF Takes, TakesEvent, w
    <3>2. /\ js # "paused" => LooksAnswered(w, Tail(told))
          /\ LooksBefore(w, Tail(told))
      BY <1>0, <1>1, <2>2, <2>4, LooksSame
    <3> QED
      BY <1>1, <2>2, <3>1, <3>2, LookingIs
  <2> QED
    BY <2>3, <2>4
<1> QED
  BY <1>0, <1>4, <1>5, <1>6, <1>7, StepsAre

-----------------------------------------------------------------------------
(* Shown: the store holds what the client is shown.                        *)

\* The parts of Shown, for a store st, the innermost frame top, the requests w
\* waited for, the answers s to them, and what was watched and listed last.
WatchShown(st, top, e, r) ==
    ~Has(r, "exceptionDetails") =>
        \E x \in {top.locals[j][2] : j \in 1..Len(top.locals)} \union {Outcome(e)} :
            ShowsObject(st, Get(r, "result"), x)

IdOf(q) == StrOf(Get(Params(q), "objectId"))
TrueTo(st, top, a, q) ==
    /\ Lists(q) => Get(a, "result") = GetProperties(st, IdOf(q))
    /\ Evaluates(q) => WatchShown(st, top, StrOf(Get(Params(q), "expression")), Get(a, "result"))

ListShown(st, list) ==
    list # <<>> => list[1] \in DOMAIN st.objects /\ st.objects[list[1]] = Arr(list[2])

LooksShown(st, top, w, s, watch, list) ==
    /\ \A k \in 1..Len(w) : Lists(w[k]) => IdOf(w[k]) \in DOMAIN st.objects
    /\ \A k \in 1..Len(s) : TrueTo(st, top, s[k], w[k])
    /\ watch # <<>> => WatchShown(st, top, watch[1], watch[2])
    /\ ListShown(st, list)

FramesShown(st, stack, globals, fs) ==
    \A i \in 1..Len(fs) : ShowsFrame(st, fs[i], stack[i], globals)

\* ShowsWatch, with the store and the innermost frame named.
LEMMA WatchIs ==
    /\ \A st, e, r : ShowsWatch(st, e, r) <=> WatchShown(st, Head(Stack(stop)), e, r)
    /\ \A st, e, r : ShowsWatch(st, e, r)' <=> WatchShown(st, Head(Stack(stop)'), e, r)
  BY DEF ShowsWatch, WatchShown

\* TrueAnswer likewise.
LEMMA TrueIs ==
    /\ \A a, q : TrueAnswer(a, q) <=> TrueTo(store, Head(Stack(stop)), a, q)
    /\ \A a, q : TrueAnswer(a, q)' <=> TrueTo(store', Head(Stack(stop)'), a, q)
  BY DEF TrueAnswer, TrueTo, ShowsWatch, WatchShown, Lists, Evaluates, IdOf

\* Shown, by these parts ...
LEMMA ShownIs ==
    Shown <=>
       /\ js \in {"capturing", "paused"} => FramesShown(store, Stack(stop), Snapshots[stop].globals, frames)
       /\ client.frames # <<>> =>
             LooksShown(store, Head(Stack(stop)), client.waiting, Answers, client.watch, client.list)
  BY DEF Shown, FramesShown, LooksShown, ListShown, TrueAnswer, TrueTo, ShowsWatch, WatchShown,
         Lists, Evaluates, IdOf

\* ... and in the next state.
LEMMA ShownIsNext ==
    Shown' <=>
       /\ js' \in {"capturing", "paused"} =>
             FramesShown(store', Stack(stop)', Snapshots[stop'].globals, frames')
       /\ client'.frames # <<>> =>
             LooksShown(store', Head(Stack(stop)'), client'.waiting, Answers', client'.watch, client'.list)
  BY DEF Shown, FramesShown, LooksShown, ListShown, TrueAnswer, TrueTo, ShowsWatch, WatchShown,
         Lists, Evaluates, IdOf

-----------------------------------------------------------------------------
\* A store that grows goes on showing an evaluated expression ...
LEMMA WatchGrown ==
    ASSUME NEW a, NEW b, Grows(a, b), NEW top, NEW e, NEW r, WatchShown(a, top, e, r)
    PROVE  WatchShown(b, top, e, r)
<1> SUFFICES ASSUME ~Has(r, "exceptionDetails")
             PROVE  \E x \in {top.locals[j][2] : j \in 1..Len(top.locals)} \union {Outcome(e)} :
                        ShowsObject(b, Get(r, "result"), x)
  BY DEF WatchShown
<1>1. PICK x \in {top.locals[j][2] : j \in 1..Len(top.locals)} \union {Outcome(e)} :
          ShowsObject(a, Get(r, "result"), x)
  BY DEF WatchShown
<1>2. ShowsObject(b, Get(r, "result"), x)
  BY <1>1, ObjectGrown
<1> QED
  BY <1>1, <1>2

\* ... agreeing with an answer ...
LEMMA TrueGrown ==
    ASSUME NEW a, NEW b, Grows(a, b), NEW top, NEW m, NEW q, TrueTo(a, top, m, q),
           Lists(q) => IdOf(q) \in DOMAIN a.objects
    PROVE  TrueTo(b, top, m, q)
<1>1. Lists(q) => Get(m, "result") = GetProperties(b, IdOf(q))
  BY DEF TrueTo, GetProperties, Grows
<1>2. Evaluates(q) => WatchShown(b, top, StrOf(Get(Params(q), "expression")), Get(m, "result"))
  BY WatchGrown DEF TrueTo
<1> QED
  BY <1>1, <1>2 DEF TrueTo

\* ... with all that the client looks at ...
LEMMA LooksGrown ==
    ASSUME NEW a, NEW b, Grows(a, b), NEW top, NEW w, NEW s, NEW watch, NEW list,
           LooksShown(a, top, w, s, watch, list),
           Len(w) \in Nat, Len(s) \in Nat, Len(s) <= Len(w)
    PROVE  LooksShown(b, top, w, s, watch, list)
<1>1. \A k \in 1..Len(w) : Lists(w[k]) => IdOf(w[k]) \in DOMAIN b.objects
  BY DEF LooksShown, Grows
<1>2. ASSUME NEW k \in 1..Len(s) PROVE TrueTo(b, top, s[k], w[k])
  <2>1. TrueTo(a, top, s[k], w[k])
    BY DEF LooksShown
  <2>2. k \in 1..Len(w)
    OBVIOUS
  <2>3. Lists(w[k]) => IdOf(w[k]) \in DOMAIN a.objects
    BY <2>2 DEF LooksShown
  <2> QED
    BY <2>1, <2>3, TrueGrown
<1>3. watch # <<>> => WatchShown(b, top, watch[1], watch[2])
  BY WatchGrown DEF LooksShown
<1>4. ListShown(b, list)
  BY DEF LooksShown, ListShown, Grows
<1> QED
  BY <1>1, <1>2, <1>3, <1>4 DEF LooksShown

\* ... and showing the frames.
LEMMA FramesGrown ==
    ASSUME NEW a, NEW b, Grows(a, b), NEW stack, NEW globals, NEW fs, FramesShown(a, stack, globals, fs)
    PROVE  FramesShown(b, stack, globals, fs)
  BY FrameGrown DEF FramesShown

\* What the client looks at stays true with one more answer ...
LEMMA LooksAnsweredOn ==
    ASSUME NEW st, NEW top, NEW w, NEW s, IsSeq(s), NEW watch, NEW list,
           LooksShown(st, top, w, s, watch, list), NEW a, TrueTo(st, top, a, w[Len(s) + 1])
    PROVE  LooksShown(st, top, w, Append(s, a), watch, list)
<1> DEFINE t == Append(s, a)
<1>1. Len(t) = Len(s) + 1 /\ t[Len(s) + 1] = a /\ Len(s) \in Nat /\ \A k \in 1..Len(s) : t[k] = s[k]
  BY AppendIs, SeqIs
<1> HIDE DEF t
<1>2. ASSUME NEW k \in 1..Len(t) PROVE TrueTo(st, top, t[k], w[k])
  <2>1. k \in 1..Len(s) \/ k = Len(s) + 1
    BY <1>1
  <2> QED
    BY <1>1, <2>1 DEF LooksShown
<1>3. LooksShown(st, top, w, t, watch, list)
  BY <1>2 DEF LooksShown
<1> QED
  BY <1>3 DEF t

\* ... with one more request ...
LEMMA LooksAskedOn ==
    ASSUME NEW st, NEW top, NEW w, IsSeq(w), NEW s, Len(s) \in Nat, Len(s) <= Len(w), NEW watch, NEW list,
           LooksShown(st, top, w, s, watch, list), NEW q, Lists(q) => IdOf(q) \in DOMAIN st.objects
    PROVE  LooksShown(st, top, Append(w, q), s, watch, list)
<1> DEFINE v == Append(w, q)
<1>1. Len(v) = Len(w) + 1 /\ v[Len(w) + 1] = q /\ Len(w) \in Nat /\ \A k \in 1..Len(w) : v[k] = w[k]
  BY AppendIs, SeqIs
<1> HIDE DEF v
<1>2. ASSUME NEW k \in 1..Len(v), Lists(v[k]) PROVE IdOf(v[k]) \in DOMAIN st.objects
  <2>1. k \in 1..Len(w) \/ k = Len(w) + 1
    BY <1>1
  <2> QED
    BY <1>1, <1>2, <2>1 DEF LooksShown
<1>3. ASSUME NEW k \in 1..Len(s) PROVE TrueTo(st, top, s[k], v[k])
  <2>1. k \in 1..Len(w)
    BY <1>1
  <2> QED
    BY <1>1, <2>1 DEF LooksShown
<1>4. LooksShown(st, top, v, s, watch, list)
  BY <1>2, <1>3 DEF LooksShown
<1> QED
  BY <1>4 DEF v

\* ... and with an answer read.
LEMMA LooksReadOn ==
    ASSUME NEW st, NEW top, NEW w, IsSeq(w), w # <<>>, NEW s, NEW t, Len(t) \in Nat, Shifted(s, t),
           Len(s) <= Len(w), NEW watch, NEW list, NEW seen, NEW listed,
           LooksShown(st, top, w, s, watch, list),
           seen # <<>> => WatchShown(st, top, seen[1], seen[2]),
           ListShown(st, listed)
    PROVE  LooksShown(st, top, Tail(w), t, seen, listed)
<1> DEFINE v == Tail(w)
<1>1. Len(v) = Len(w) - 1 /\ Len(w) \in Nat /\ \A k \in 1..Len(w) - 1 : v[k] = w[k + 1]
  BY TailIs, SeqIs
<1>2. Len(s) = Len(t) + 1 /\ \A k \in 1..Len(t) : s[k + 1] = t[k]
  BY DEF Shifted
<1> HIDE DEF v
<1>3. ASSUME NEW k \in 1..Len(v), Lists(v[k]) PROVE IdOf(v[k]) \in DOMAIN st.objects
  <2>1. k + 1 \in 1..Len(w) /\ v[k] = w[k + 1]
    BY <1>1
  <2> QED
    BY <1>3, <2>1 DEF LooksShown
<1>4. ASSUME NEW k \in 1..Len(t) PROVE TrueTo(st, top, t[k], v[k])
  <2>1. k + 1 \in 1..Len(s) /\ k \in 1..Len(w) - 1
    BY <1>1, <1>2
  <2>2. s[k + 1] = t[k] /\ v[k] = w[k + 1]
    BY <1>1, <1>2, <2>1
  <2> QED
    BY <2>1, <2>2 DEF LooksShown
<1>5. LooksShown(st, top, v, t, seen, listed)
  BY <1>3, <1>4 DEF LooksShown
<1> QED
  BY <1>5 DEF v

\* The store grows as a request is handled.
LEMMA HandledGrows ==
    ASSUME Core, NEW q, NEW result, Handled(q, result)
    PROVE  /\ Grows(store, store') /\ stop' = stop /\ frames' = frames
           /\ js' = js \/ js' \notin {"capturing", "paused"}
           /\ js = "paused" => TrueTo(store', Head(Stack(stop)), Response(q, result), q)
<1>0. TypeOK
  BY DEF Core
<1>1. /\ Serves(q) /\ Asks(q) /\ \E events : Responds(q, events, result)
  BY DEF Handled
<1>2. stop' = stop /\ frames' = frames /\ (js' = js \/ js' \notin {"capturing", "paused"})
  BY <1>1 DEF Serves
<1>3. Get(Response(q, result), "result") = result
  BY ResponseIs
<1>4. Lists(q) => ~Evaluates(q) /\ result = GetProperties(store, IdOf(q))
  BY <1>1 DEF Lists, Evaluates, Responds, IdOf
<1>5. CASE Evaluates(q) /\ js = "paused"
  <2> DEFINE v == Evaluated(q)
             e == StrOf(Get(Params(q), "expression"))
  <2>1. store' = v.st /\ Room(v.st) /\ result = v.answer
    BY <1>1, <1>5 DEF Serves, Responds
  <2>2. EvaluationShown(v, e)
    BY <1>0, <1>1, <1>5, ExpressionIs, EvaluateShows DEF Evaluated
  <2> HIDE DEF v, e
  <2>3. Onward(store, v.st) /\ ShowsWatch(v.st, e, v.answer)
    BY <2>1, <2>2 DEF EvaluationShown
  <2>4. Grows(store, store')
    BY <1>0, <2>1, <2>3, StoreSound, RoomBefore
  <2>5. WatchShown(store', Head(Stack(stop)), e, result)
    BY <2>1, <2>3, WatchIs
  <2>6. ~Lists(q)
    BY <1>4, <1>5
  <2> QED
    BY <1>2, <1>3, <2>4, <2>5, <2>6 DEF TrueTo, e
<1>6. CASE ~(Evaluates(q) /\ js = "paused")
  <2>1. store' = store
    BY <1>1, <1>6 DEF Serves
  <2>2. Grows(store, store')
    BY <2>1 DEF Grows
  <2> QED
    BY <1>2, <1>3, <1>4, <1>6, <2>1, <2>2 DEF TrueTo
<1> QED
  BY <1>5, <1>6

\* The ids of the scopes captured lead into the store.
LEMMA ScopesStored ==
    ASSUME NEW st, NEW stack, NEW globals, NEW fs, FramesShown(st, stack, globals, fs),
           NEW oid \in ScopeIds(fs)
    PROVE  oid \in DOMAIN st.objects
<1>1. PICK i \in 1..Len(fs) : \E j \in 1..Len(fs[i].o["scopeChain"].a) :
          oid = fs[i].o["scopeChain"].a[j].o["object"].o["objectId"].s
  BY DEF ScopeIds
<1> DEFINE scopes == fs[i].o["scopeChain"].a
           listed == SubSeq(globals, 1, Min({MaxGlobals, Len(globals)}))
<1>2. PICK j \in 1..Len(scopes) : oid = scopes[j].o["object"].o["objectId"].s
  BY <1>1
<1>3. ShowsFrame(st, fs[i], stack[i], globals)
  BY DEF FramesShown
<1>4. /\ Len(scopes) = IF stack[i].locals = <<>> THEN 1 ELSE 2
      /\ stack[i].locals # <<>> => ShowsScope(st, scopes[1], stack[i].locals)
      /\ ShowsScope(st, scopes[Len(scopes)], listed)
  BY <1>3 DEF ShowsFrame
<1> HIDE DEF scopes, listed
<1>5. j = Len(scopes) \/ (j = 1 /\ stack[i].locals # <<>>)
  BY <1>4
<1> QED
  BY <1>2, <1>4, <1>5 DEF ShowsScope

\* There are no more answers than requests waited for.
LEMMA QueueLengths ==
    ASSUME Core
    PROVE  /\ IsSeq(client.waiting) /\ Len(client.waiting) \in Nat /\ IsSeq(Answers) /\ Len(Answers) \in Nat
           /\ Len(Answers) <= Len(client.waiting)
<1>1. /\ IsSeq(client.waiting) /\ Len(client.waiting) \in Nat /\ IsSeq(Answers) /\ Len(Answers) \in Nat
      /\ Len(sent) \in Nat
  BY AnswersAre, SeqIs DEF Core, TypeOK
<1>2. Len(client.waiting) = Len(Answers) + Len(sent)
  BY DEF Core, Queued
<1> QED
  BY <1>1, <1>2

\* Shown is kept when a request is handled ...
LEMMA ShownHandled ==
    ASSUME Core, Shown, NEW q, NEW result, Handled(q, result)
    PROVE  Shown'
<1> DEFINE globals == Snapshots[stop].globals
           top == Head(Stack(stop))
<1>1. /\ Grows(store, store') /\ stop' = stop /\ frames' = frames
      /\ js' = js \/ js' \notin {"capturing", "paused"}
      /\ js = "paused" => TrueTo(store', top, Response(q, result), q)
  BY HandledGrows
<1>2. /\ setup' = setup /\ client' = client /\ Answers' = Append(Answers, Response(q, result))
      /\ q = client.waiting[Len(Answers) + 1]
  BY DEF Handled
<1>3. Stack(stop)' = Stack(stop) /\ Snapshots[stop'].globals = globals
  BY <1>1, <1>2, StackKept
<1>4. js' \in {"capturing", "paused"} => FramesShown(store', Stack(stop), globals, frames)
  <2>1. js' \in {"capturing", "paused"} => FramesShown(store, Stack(stop), globals, frames)
    BY <1>1, ShownIs
  <2> HIDE DEF globals
  <2> QED
    BY <1>1, <2>1, FramesGrown
<1>5. ASSUME client.frames # <<>>
      PROVE  LooksShown(store', top, client.waiting, Answers', client.watch, client.list)
  <2>1. js = "paused"
    BY <1>5, CoreShares
  <2>2. LooksShown(store, top, client.waiting, Answers, client.watch, client.list)
    BY <1>5, ShownIs
  <2> HIDE DEF top
  <2>3. LooksShown(store', top, client.waiting, Answers, client.watch, client.list)
    BY <1>1, <2>2, QueueLengths, LooksGrown
  <2> DEFINE a == Response(q, result)
  <2>4. TrueTo(store', top, a, client.waiting[Len(Answers) + 1])
    BY <1>1, <1>2, <2>1
  <2> HIDE DEF a
  <2>5. LooksShown(store', top, client.waiting, Append(Answers, a), client.watch, client.list)
    BY <2>3, <2>4, QueueLengths, LooksAnsweredOn
  <2> QED
    BY <1>2, <2>5 DEF a
<1> QED
  BY <1>1, <1>2, <1>3, <1>4, <1>5, ShownIsNext

\* ... when one is sent ...
LEMMA ShownAsked ==
    ASSUME Core, Shown, NEW q, Sent(q)
    PROVE  Shown'
<1> DEFINE globals == Snapshots[stop].globals
           top == Head(Stack(stop))
<1>1. /\ setup' = setup /\ stop' = stop /\ frames' = frames /\ store' = store /\ js' = js
      /\ Answers' = Answers /\ client'.waiting = Append(client.waiting, q)
      /\ \/ client'.frames = <<>>
         \/ /\ client'.frames = client.frames /\ client'.watch = client.watch /\ client'.list = client.list
  BY DEF Sent, Sends
<1>2. Stack(stop)' = Stack(stop) /\ Snapshots[stop'].globals = globals
  BY <1>1, StackKept
<1>3. ASSUME client'.frames # <<>>
      PROVE  LooksShown(store, top, client'.waiting, Answers, client'.watch, client'.list)
  <2>1. client.frames # <<>> /\ client'.watch = client.watch /\ client'.list = client.list
    BY <1>1, <1>3
  <2>2. LooksShown(store, top, client.waiting, Answers, client.watch, client.list)
    BY <2>1, ShownIs
  <2>3. ASSUME Lists(q) PROVE IdOf(q) \in DOMAIN store.objects
    <3>1. PICK w, p : q = Inquiry(client.next, w, p) /\ Mannered(w, p)
      BY DEF Sent
    <3>2. Method(q) = <<w>> /\ Params(q) = p
      BY <3>1, InquiryIs
    <3>3. w = "Runtime.getProperties"
      BY <2>3, <3>2, OtherMethods
    <3>4. PICK oid \in ScopeIds(client.frames) : p = Obj([objectId |-> Str(oid)])
      BY <3>1, <3>3 DEF Mannered
    <3>5. IdOf(q) = oid
      BY <3>2, <3>4 DEF IdOf, Get, Has, Obj, StrOf, Str
    <3>6. client.frames = frames /\ js = "paused"
      BY <2>1, CoreShares
    <3>7. FramesShown(store, Stack(stop), globals, frames)
      BY <3>6, ShownIs
    <3> HIDE DEF globals
    <3> QED
      BY <3>4, <3>5, <3>6, <3>7, ScopesStored
  <2> HIDE DEF top
  <2> QED
    BY <1>1, <2>1, <2>2, <2>3, QueueLengths, LooksAskedOn
<1> QED
  BY <1>1, <1>2, <1>3, ShownIs, ShownIsNext

\* What a list of properties tells.
LEMMA ListedIs ==
    ASSUME TypeOK, NEW oid \in DOMAIN store.objects, NEW r, r = GetProperties(store, oid)
    PROVE  ListShown(store, <<oid, r.o["result"].a>>)
<1> DEFINE x == store.objects[oid]
<1>1. x = Arr(ArrOf(x))
  BY DEF TypeOK
<1>2. r.o["result"] = x
  BY DEF GetProperties, Obj
<1>3. x = Arr(x.a)
  BY <1>1 DEF Arr, ArrOf
<1> HIDE DEF x
<1>4. store.objects[oid] = Arr(r.o["result"].a)
  BY <1>2, <1>3 DEF x
<1> QED
  BY <1>4 DEF ListShown

\* (what an answer read shows) ...
LEMMA ShownAnswerRead ==
    ASSUME Core, Shown, Takes, Has(Head(told), "id"), Shifted(Answers, Answers'), client.frames # <<>>
    PROVE  LooksShown(store, Head(Stack(stop)), client'.waiting, Answers', client'.watch, client'.list)
<1> DEFINE top == Head(Stack(stop))
           w == client.waiting
           q == w[1]
           r == Get(Head(told), "result")
           e == StrOf(Get(Params(q), "expression"))
<1>1. LooksShown(store, top, w, Answers, client.watch, client.list)
  BY ShownIs
<1>2. /\ w # <<>> /\ Head(told) = Answers[1] /\ 1 \in 1..Len(Answers) /\ client'.waiting = Tail(w)
      /\ \/ client'.watch = client.watch
         \/ Evaluates(q) /\ client'.watch = <<e, r>>
      /\ \/ client'.list = client.list
         \/ Lists(q) /\ client'.list = <<IdOf(q), r.o["result"].a>>
  BY DEF Takes, TakesAnswer, IdOf
<1>3. 1 \in 1..Len(w)
  BY <1>2, QueueLengths
<1>4. TrueTo(store, top, Answers[1], q)
  BY <1>1, <1>2 DEF LooksShown
<1>5. client'.watch # <<>> => WatchShown(store, top, client'.watch[1], client'.watch[2])
  <2>1. CASE client'.watch = client.watch
    BY <1>1, <2>1 DEF LooksShown
  <2>2. CASE Evaluates(q) /\ client'.watch = <<e, r>>
    <3>1. WatchShown(store, top, e, r)
      BY <1>2, <1>4, <2>2 DEF TrueTo
    <3>2. client'.watch[1] = e /\ client'.watch[2] = r
      BY <2>2
    <3> QED
      BY <3>1, <3>2
  <2> QED
    BY <1>2, <2>1, <2>2
<1>6. ListShown(store, client'.list)
  <2>1. CASE client'.list = client.list
    BY <1>1, <2>1 DEF LooksShown
  <2>2. CASE Lists(q) /\ client'.list = <<IdOf(q), r.o["result"].a>>
    <3>1. r = GetProperties(store, IdOf(q))
      BY <1>2, <1>4, <2>2 DEF TrueTo
    <3>2. IdOf(q) \in DOMAIN store.objects
      BY <1>1, <1>3, <2>2 DEF LooksShown
    <3> QED
      BY <2>2, <3>1, <3>2, ListedIs DEF Core
  <2> QED
    BY <1>2, <2>1, <2>2
<1>7. Len(Answers') \in Nat
  <2>1. IsSeq(told') /\ IsSeq(todo')
    BY TailIs DEF Takes, Core, TypeOK
  <2>2. IsSeq(told' \o todo')
    BY <2>1, ConcatIs
  <2> QED
    BY <2>2, NumberedFrom, SeqIs DEF Answers, Numerous
<1> HIDE DEF top, w, q, r, e
<1>8. IsSeq(w) /\ Len(Answers) <= Len(w)
  BY QueueLengths DEF w
<1> DEFINE b == Answers'
           seen == client'.watch
           listed == client'.list
<1>9. LooksShown(store, top, Tail(w), b, seen, listed)
  <2>1. Len(b) \in Nat /\ Shifted(Answers, b)
    BY <1>7
  <2>2. (seen # <<>> => WatchShown(store, top, seen[1], seen[2])) /\ ListShown(store, listed)
    BY <1>5, <1>6
  <2> HIDE DEF b, seen, listed
  <2> QED
    BY <1>1, <1>2, <1>8, <2>1, <2>2, LooksReadOn
<1> QED
  BY <1>2, <1>9 DEF top

\* A pause the client is told of has not been looked at.
LEMMA ShownPauseRead ==
    ASSUME Core, Looking, told # <<>>, IsPaused(Head(told)), ~Has(Head(told), "id")
    PROVE  LooksShown(store, Head(Stack(stop)), client.waiting, Answers, client.watch, client.list)
           /\ client.frames = <<>>
<1>1. IsSeq(told) /\ Head(told) = told[1] /\ 1 \in 1..Len(told)
  BY TailIs, SeqIs DEF Core, TypeOK
<1>2. ~NoneTold
  BY <1>1 DEF NoneTold
<1>3. client.frames = <<>>
  BY <1>2, CoreShares
<1>4. client.watch = <<>> /\ client.list = <<>>
  BY <1>3 DEF Core, PauseShared
<1>5. Upto(told, 1) = 0
  <2> DEFINE a == SubSeq(told, 1, 1)
  <2>1. IsSeq(a) /\ Len(a) = 1 /\ a[1] = told[1]
    <3>1. IsSeq(a) /\ Len(a) = 1 /\ \A j \in 1..1 : a[j] = told[j]
      BY <1>1, UptoIs
    <3> QED
      BY <3>1
  <2> HIDE DEF a
  <2>2. a # <<>>
    BY <2>1, EmptyIs
  <2>3. Head(a) = told[1] /\ Len(Tail(a)) = 0 /\ IsSeq(Tail(a))
    BY <2>1, <2>2, TailIs
  <2>4. Tail(a) = <<>>
    <3> DEFINE c == Tail(a)
    <3>1. IsSeq(c) /\ Len(c) = 0
      BY <2>3
    <3> HIDE DEF c
    <3>2. c = <<>>
      BY <3>1, SeqIs
    <3> QED
      BY <3>2 DEF c
  <2>5. Numbered(a) = <<>>
    BY <1>1, <2>1, <2>2, <2>3, <2>4, NumberedHead, NumberedNone
  <2> QED
    BY <2>5, EmptyIs DEF Upto, a
<1>6. LooksWithin(client.waiting, 0)
  BY <1>1, <1>5, LookingIs DEF LooksBefore
<1>7. \A k \in 1..Len(client.waiting) : ~IsLook(client.waiting[k])
  BY <1>6 DEF LooksWithin
<1>8. \A k \in 1..Len(client.waiting) : ~Lists(client.waiting[k]) /\ ~Evaluates(client.waiting[k])
  BY <1>7, LookIs
<1>9. \A k \in 1..Len(Answers) : k \in 1..Len(client.waiting)
  BY QueueLengths
<1>10. \A k \in 1..Len(Answers) : ~Lists(client.waiting[k]) /\ ~Evaluates(client.waiting[k])
  BY <1>8, <1>9
<1> QED
  BY <1>3, <1>4, <1>8, <1>10 DEF LooksShown, TrueTo, ListShown

\* ... when the client reads ...
LEMMA ShownRead ==
    ASSUME Core, Shown, Looking, ReadNext
    PROVE  Shown'
<1> DEFINE globals == Snapshots[stop].globals
           top == Head(Stack(stop))
<1>0. Takes /\ IF Has(Head(told), "id") THEN Shifted(Answers, Answers') ELSE Answers' = Answers
  BY ReadMoves DEF Core
<1>1. /\ setup' = setup /\ stop' = stop /\ frames' = frames /\ store' = store /\ js' = js /\ told # <<>>
  BY <1>0 DEF Takes
<1>2. Stack(stop)' = Stack(stop) /\ Snapshots[stop'].globals = globals
  BY <1>1, StackKept
<1>3. ASSUME client'.frames # <<>>
      PROVE  LooksShown(store, top, client'.waiting, Answers', client'.watch, client'.list)
  <2>1. CASE Has(Head(told), "id")
    <3>1. client'.frames = client.frames
      BY <1>0, <2>1 DEF Takes, TakesAnswer
    <3> QED
      BY <1>0, <1>3, <2>1, <3>1, ShownAnswerRead
  <2>2. CASE ~Has(Head(told), "id")
    <3>1. /\ Answers' = Answers /\ client'.waiting = client.waiting
          /\ client'.watch = client.watch /\ client'.list = client.list
          /\ client'.frames = client.frames \/ Head(told) = Paused(frames, why[1], why[2])
      BY <1>0, <2>2 DEF Takes, TakesEvent
    <3>2. CASE client'.frames = client.frames
      BY <1>3, <3>1, <3>2, ShownIs
    <3>3. CASE Head(told) = Paused(frames, why[1], why[2])
      <4>1. IsPaused(Head(told))
        BY <3>3, PausedIs
      <4> QED
        BY <1>1, <2>2, <3>1, <4>1, ShownPauseRead
    <3> QED
      BY <3>1, <3>2, <3>3
  <2> QED
    BY <2>1, <2>2
<1> QED
  BY <1>1, <1>2, <1>3, ShownIs, ShownIsNext

\* ... and when a frame is captured.
LEMMA ShownCaptured ==
    ASSUME Core, Shown, CaptureFrame
    PROVE  Shown'
<1> DEFINE globals == Snapshots[stop].globals
           stack == Stack(stop)
           n == Len(frames)
<1>0. TypeOK /\ IsSeq(frames)
  BY DEF Core, TypeOK
<1>1. Captures
  BY <1>0, <1>0, CaptureEffect
<1>2. PICK f : /\ frames' = Append(frames, f)
               /\ ShowsFrame(store', f, stack[n + 1], globals)
  BY <1>1 DEF Captures
<1>3. /\ js = "capturing" /\ setup' = setup /\ stop' = stop /\ client' = client /\ Grows(store, store')
      /\ n \in Nat
  BY <1>1 DEF Captures
<1>4. Stack(stop)' = stack /\ Snapshots[stop'].globals = globals
  BY <1>3, StackKept
<1>5. FramesShown(store, stack, globals, frames)
  BY <1>3, ShownIs
<1> HIDE DEF stack, globals
<1>6. FramesShown(store', stack, globals, frames)
  BY <1>3, <1>5, FramesGrown
<1>7. Len(frames') = n + 1 /\ frames'[n + 1] = f /\ \A i \in 1..n : frames'[i] = frames[i]
  BY <1>0, <1>2, AppendIs
<1>8. ASSUME NEW i \in 1..Len(frames') PROVE ShowsFrame(store', frames'[i], stack[i], globals)
  <2>1. i \in 1..n \/ i = n + 1
    BY <1>3, <1>7
  <2>2. CASE i \in 1..n
    <3>1. frames'[i] = frames[i]
      BY <1>7, <2>2
    <3>2. ShowsFrame(store', frames[i], stack[i], globals)
      BY <1>6, <2>2 DEF FramesShown
    <3> QED
      BY <3>1, <3>2
  <2>3. CASE i = n + 1
    BY <1>2, <1>7, <2>3
  <2> QED
    BY <2>1, <2>2, <2>3
<1>9. FramesShown(store', stack, globals, frames')
  BY <1>8 DEF FramesShown
<1>10. client'.frames = <<>>
  BY <1>3, CoreShares
<1> QED
  BY <1>4, <1>9, <1>10, ShownIsNext

\* Shown is kept.
LEMMA ShownKept ==
    ASSUME Core, Shown, Looking, [Next]_vars
    PROVE  Shown'
<1>0. TypeOK /\ Queued /\ Reported /\ Announced
  BY DEF Core
<1>1. ASSUME setup' = setup, stop' = stop, frames' = frames, store' = store, client' = client,
             Answers' = Answers, js' \in {"capturing", "paused"} => js \in {"capturing", "paused"}
      PROVE  Shown'
  <2>1. Stack(stop)' = Stack(stop)
    BY <1>1, StackKept
  <2> QED
    BY <1>1, <2>1, ShownIs, ShownIsNext
<1>2. CASE HandleNext
  <2>1. PICK q, result : Handled(q, result)
    BY <1>0, <1>2, HandleMoves
  <2> QED
    BY <2>1, ShownHandled
<1>3. CASE Passing
  <2>1. Answers' = Answers /\ client' = client /\ setup' = setup
    BY <1>0, <1>3, PassingMoves
  <2>2. CASE SendNext
    BY <1>1, <2>1, <2>2 DEF SendNext, session, pause
  <2>3. CASE Stop
    <3>1. frames' = <<>> /\ client.frames = <<>>
      BY <2>3, CoreShares DEF Stop
    <3>2. FramesShown(store', Stack(stop)', Snapshots[stop'].globals, frames')
      BY <3>1, EmptyIs DEF FramesShown
    <3> QED
      BY <2>1, <3>1, <3>2, ShownIsNext
  <2>4. CASE CaptureFrame
    BY <2>4, ShownCaptured
  <2>5. CASE Pause
    BY <1>1, <2>1, <2>5 DEF Pause, pause
  <2>6. CASE Resumed
    BY <1>1, <2>1, <2>6 DEF Resumed, pause
  <2>7. CASE UNCHANGED vars
    BY <1>1, <2>1, <2>7 DEF vars, session, pause
  <2> QED
    BY <1>3, <2>2, <2>3, <2>4, <2>5, <2>6, <2>7 DEF Passing
<1>4. CASE Ask
  <2>1. PICK q : Sent(q)
    BY <1>0, <1>4, AskMoves
  <2> QED
    BY <2>1, ShownAsked
<1>5. CASE ReadNext
  BY <1>5, ShownRead
<1> QED
  BY <1>2, <1>3, <1>4, <1>5, StepsAre

\* Nothing is asked for initially ...
LEMMA LookingInitially == Init => Looking
<1> SUFFICES ASSUME Init PROVE Looking
  OBVIOUS
<1>1. client.waiting = <<>> /\ told = <<>> /\ sent = <<>>
  BY DEF Init
<1>2. Len(client.waiting) = 0 /\ Len(told) = 0 /\ Len(sent) = 0
  BY <1>1, EmptyIs
<1> QED
  BY <1>2 DEF Looking

\* ... and nothing shown.
LEMMA ShownInitially == Init => Shown
<1> SUFFICES ASSUME Init PROVE Shown
  OBVIOUS
<1>1. js \notin {"capturing", "paused"} /\ client.frames = <<>>
  BY DEF Init
<1> QED
  BY <1>1 DEF Shown

\* What the client has got for an id is what the store holds under it: what it
\* sees is the store itself.
LEMMA SeenGrows ==
    ASSUME Shown, client.frames # <<>>
    PROVE  Grows(store, Seen)
<1>1. CASE client.list = <<>>
  BY <1>1 DEF Seen, Grows
<1>2. CASE client.list # <<>>
  <2>1. /\ client.list[1] \in DOMAIN store.objects
        /\ store.objects[client.list[1]] = Arr(client.list[2])
    BY <1>2 DEF Shown
  <2>2. Seen.objects = Put(store.objects, client.list[1], Arr(client.list[2]))
    BY <1>2 DEF Seen
  <2> QED
    BY <2>1, <2>2 DEF Grows, Put
<1> QED
  BY <1>1, <1>2

\* What the store shows, the client sees.
LEMMA ShownResolves == Core /\ Shown => ObjectsResolve
<1> SUFFICES ASSUME Core, Shown, client.frames # <<>>
             PROVE  /\ Len(client.frames) = Len(Stack(stop))
                    /\ \A i \in 1..Len(Stack(stop)) :
                          ShowsFrame(Seen, client.frames[i], Stack(stop)[i], Snapshots[stop].globals)
                    /\ client.watch # <<>> => ShowsWatch(Seen, client.watch[1], client.watch[2])
  BY DEF ObjectsResolve
<1>1. js = "paused" /\ client.frames = frames /\ Len(frames) = Len(Stack(stop))
  BY CoreShares
<1>2. Grows(store, Seen)
  BY SeenGrows
<1>3. FramesShown(store, Stack(stop), Snapshots[stop].globals, frames)
  BY <1>1, ShownIs
<1>4. client.watch # <<>> => WatchShown(store, Head(Stack(stop)), client.watch[1], client.watch[2])
  BY ShownIs DEF LooksShown
<1> DEFINE seen == Seen
           top == Head(Stack(stop))
           globals == Snapshots[stop].globals
           stack == Stack(stop)
<1>5. ASSUME NEW i \in 1..Len(stack)
      PROVE  ShowsFrame(seen, client.frames[i], stack[i], globals)
  <2>1. ShowsFrame(store, frames[i], stack[i], globals)
    BY <1>1, <1>3, <1>5 DEF FramesShown
  <2> DEFINE f == frames[i]
             g == stack[i]
  <2>2. Grows(store, seen) /\ ShowsFrame(store, f, g, globals)
    BY <1>2, <2>1
  <2> HIDE DEF seen, globals, f, g
  <2>3. ShowsFrame(seen, f, g, globals)
    BY <2>2, FrameGrown
  <2> QED
    BY <1>1, <2>3 DEF f, g
<1>6. ASSUME client.watch # <<>>
      PROVE  ShowsWatch(seen, client.watch[1], client.watch[2])
  <2> DEFINE e == client.watch[1]
             r == client.watch[2]
  <2>1. Grows(store, seen) /\ WatchShown(store, top, e, r)
    BY <1>2, <1>4, <1>6
  <2> HIDE DEF seen, top, e, r
  <2>2. WatchShown(seen, top, e, r)
    BY <2>1, WatchGrown
  <2> QED
    BY <2>2, WatchIs DEF top, e, r
<1> QED
  BY <1>1, <1>5, <1>6

\* Following the ids that the client has been given in a pause leads to the
\* variables the engine reported, for as long as the client has the frames
\* (capture_frames, store_object, get_properties, evaluate_on_call_frame).
THEOREM ShownTruly == Spec => []ObjectsResolve
<1>1. Init => Core /\ Looking /\ Shown
  BY CoreInitially, LookingInitially, ShownInitially
<1>2. Core /\ Looking /\ Shown /\ [Next]_vars => (Core /\ Looking /\ Shown)'
  BY CoreKept, LookingKept, ShownKept
<1>3. Core /\ Looking /\ Shown => ObjectsResolve
  BY ShownResolves
<1> QED
  BY <1>1, <1>2, <1>3, PTL DEF Spec

\* The two ends agree on the session: the whole inductive invariant
\* (handle_message, do_pause, capture_frames).
THEOREM EndsAgree == Spec => []SessionInvariant
<1>1. Init => Core /\ Bound /\ Looking /\ Shown
  BY CoreInitially, BoundInitially, LookingInitially, ShownInitially
<1>2. Core /\ Bound /\ Looking /\ Shown /\ [Next]_vars => (Core /\ Bound /\ Looking /\ Shown)'
  BY CoreKept, BoundKept, LookingKept, ShownKept
<1>3. Core /\ Bound /\ Looking /\ Shown => SessionInvariant
  BY DEF Core, SessionInvariant
<1> QED
  BY <1>1, <1>2, <1>3, PTL DEF Spec
=============================================================================
