---------------------------- MODULE WsFrameProofs ----------------------------
(***************************************************************************)
(* What one end of the connection puts on the stream, the other takes off  *)
(* it: the same payload, and no byte of what follows (debugger/src/        *)
(* websocket_server.cpp:404-488), for every byte size, every mask and every*)
(* payload whose length is in the header's short or two-byte form.         *)
(*                                                                         *)
(* The third form, of payloads from Wide on, is left to TLC: its length is *)
(* WideBytes digits long for any WideBytes, which asks for an induction.   *)
(***************************************************************************)
EXTENDS WsFrame, SequenceTheorems, TLAPS

\* What a byte of the stream is.
Bytes == 0..Byte - 1

\* The numbers of the header's second byte: what FrameAssumption gives of them.
LEMMA HalfOf == /\ Half \in Nat /\ Half >= 16 /\ Half % 16 = 0 /\ Byte \in Nat /\ Byte = 2 * Half
                /\ Two \in Nat /\ Two >= 2 /\ Many = Two + 1
  BY FrameAssumption DEF Half, Two, Many

-----------------------------------------------------------------------------
(* The mask (websocket_server.cpp:473-485).                                 *)

\* The byte of the mask for the payload's byte i.
At(i) == ((i - 1) % 4) + 1

\* It is one of the four.
LEMMA AtMask == \A i \in Nat \ {0} : At(i) \in 1..4
  BY DEF At

\* A byte masked twice with the same byte is the byte.
LEMMA XorBytes ==
    ASSUME NEW b \in Bytes, NEW m \in Bytes
    PROVE  ByteXor(b, m) \in Bytes /\ ByteXor(ByteXor(b, m), m) = b
  BY FrameAssumption DEF Bytes

\* Masking keeps the length, and every byte of the result is a byte.
LEMMA Masked ==
    ASSUME NEW body \in Seq(Bytes), NEW mask \in Seq(Bytes), Len(mask) = 4
    PROVE  /\ Unmask(body, mask) \in Seq(Bytes) /\ Len(Unmask(body, mask)) = Len(body)
           /\ \A i \in 1..Len(body) : Unmask(body, mask)[i] = ByteXor(body[i], mask[At(i)])
<1>1. ASSUME NEW i \in 1..Len(body)
      PROVE  ByteXor(body[i], mask[At(i)]) \in Bytes
  <2>1. body[i] \in Bytes /\ i \in Nat \ {0}
    OBVIOUS
  <2>2. mask[At(i)] \in Bytes
    <3>1. At(i) \in 1..4
      BY <2>1, AtMask
    <3>2. At(i) \in 1..Len(mask)
      BY <3>1
    <3> HIDE DEF Bytes, At
    <3> QED
      BY <3>2, ElementOfSeq
  <2> QED
    BY <2>1, <2>2, XorBytes
<1>2. Unmask(body, mask) = [i \in 1..Len(body) |-> ByteXor(body[i], mask[At(i)])]
  BY DEF Unmask, At
<1>3. Len(body) \in Nat
  OBVIOUS
<1> HIDE DEF Bytes
<1> QED
  BY <1>1, <1>2, <1>3

\* Unmasking what was masked with the same four bytes gives the payload back,
\* whatever its length is modulo 4 (payload[i] ^= mask[i % 4], :482-483).
THEOREM UnmaskUndoes ==
    ASSUME NEW body \in Seq(Bytes), NEW mask \in Seq(Bytes), Len(mask) = 4
    PROVE  Unmask(Unmask(body, mask), mask) = body
<1> DEFINE u == Unmask(body, mask)
<1>1. /\ u \in Seq(Bytes) /\ Len(u) = Len(body)
      /\ \A i \in 1..Len(body) : u[i] = ByteXor(body[i], mask[At(i)])
  BY Masked
<1>2. /\ Unmask(u, mask) \in Seq(Bytes) /\ Len(Unmask(u, mask)) = Len(u)
      /\ \A i \in 1..Len(u) : Unmask(u, mask)[i] = ByteXor(u[i], mask[At(i)])
  BY <1>1, Masked
<1> HIDE DEF u
<1>3. ASSUME NEW i \in 1..Len(body)
      PROVE  Unmask(u, mask)[i] = body[i]
  <2>1. body[i] \in Bytes /\ i \in Nat \ {0}
    OBVIOUS
  <2>2. mask[At(i)] \in Bytes
    <3>1. At(i) \in 1..4
      BY <2>1, AtMask
    <3>2. At(i) \in 1..Len(mask)
      BY <3>1
    <3> HIDE DEF Bytes, At
    <3> QED
      BY <3>2, ElementOfSeq
  <2> QED
    BY <1>1, <1>2, <2>1, <2>2, XorBytes
<1>4. Unmask(u, mask) = body
  <2> HIDE DEF Bytes
  <2>1. Unmask(u, mask) \in Seq(Bytes) /\ Len(Unmask(u, mask)) = Len(body)
    BY <1>1, <1>2
  <2>2. \A i \in 1..Len(Unmask(u, mask)) : Unmask(u, mask)[i] = body[i]
    BY <1>3, <2>1
  <2> QED
    BY <2>1, <2>2, SeqEqual
<1> QED
  BY <1>4 DEF u

-----------------------------------------------------------------------------
(* The two-byte length (websocket_server.cpp:413-417 and 461-464).          *)

\* Division with remainder, by any positive number.
LEMMA Division ==
    ASSUME NEW n \in Nat, NEW B \in Nat, B > 0
    PROVE  n \div B \in Int /\ n % B \in 0..B - 1 /\ n = B * (n \div B) + (n % B)
<1>1. n \div B \in Int
  OBVIOUS
<1>2. n % B \in 0..B - 1
  OBVIOUS
<1>3. n = B * (n \div B) + (n % B)
  OBVIOUS
<1> QED
  BY <1>1, <1>2, <1>3

\* A length below Wide has two digits, and they are bytes.
LEMMA Digits ==
    ASSUME NEW n \in Nat, n < Wide
    PROVE  /\ n \div Byte \in Bytes /\ n % Byte \in Bytes
           /\ (n \div Byte) * Byte + (n % Byte) = n
<1>1. n < Byte * Byte
  BY HalfOf, FrameAssumption
<1> DEFINE q == n \div Byte
           r == n % Byte
<1>2. q \in Int /\ r \in 0..Byte - 1 /\ n = Byte * q + r
  <2>1. Byte \in Nat /\ Byte > 0
    BY HalfOf
  <2> QED
    BY <2>1, Division
<1> HIDE DEF q, r
<1>3. q >= 0
  BY <1>2, HalfOf
<1>4. q < Byte
  <2> SUFFICES ASSUME q >= Byte PROVE FALSE
    BY <1>2, HalfOf
  <2>1. Byte * q >= Byte * Byte
    BY <1>2, HalfOf
  <2> QED
    BY <1>1, <1>2, <2>1, HalfOf
<1>5. q * Byte = Byte * q
  BY <1>2, HalfOf
<1>6. q \in Bytes /\ r \in Bytes /\ q * Byte + r = n
  BY <1>2, <1>3, <1>4, <1>5, HalfOf DEF Bytes
<1> QED
  BY <1>6 DEF q, r

\* read_ws_frame's loop over the length's bytes, when there are two.
LEMMA NumberOfTwo ==
    ASSUME NEW a \in Nat, NEW b \in Nat
    PROVE  Number(<<a, b>>) = a * Byte + b
<1> DEFINE s == <<a, b>>
           Is(f) == f = [i \in 0..Len(s) |-> IF i = 0 THEN 0 ELSE f[i - 1] * Byte + s[i]]
           value == CHOOSE f : Is(f)
           w == [i \in 0..2 |-> IF i = 0 THEN 0 ELSE IF i = 1 THEN a ELSE a * Byte + b]
<1>1. Len(s) = 2 /\ s[1] = a /\ s[2] = b
  OBVIOUS
<1> HIDE DEF s
<1>2. Is(w)
  <2>1. ASSUME NEW i \in 0..2
        PROVE  w[i] = IF i = 0 THEN 0 ELSE w[i - 1] * Byte + s[i]
    <3>1. CASE i = 0
      BY <3>1
    <3>2. CASE i = 1
      BY <1>1, <3>2, HalfOf
    <3>3. CASE i = 2
      BY <1>1, <3>3
    <3> QED
      BY <3>1, <3>2, <3>3
  <2> QED
    BY <1>1, <2>1
<1>3. Is(value)
  BY <1>2
<1>4. /\ value[0] = 0
      /\ value[1] = value[0] * Byte + s[1]
      /\ value[2] = value[1] * Byte + s[2]
  <2> HIDE DEF value
  <2> QED
    BY <1>1, <1>3
<1>5. Number(s) = value[2]
  BY <1>1 DEF Number
<1> QED
  BY <1>1, <1>4, <1>5, HalfOf DEF s

-----------------------------------------------------------------------------
(* Parts of sequences.                                                      *)

\* The cut of s that agrees with b everywhere is b.
LEMMA Cut ==
    ASSUME NEW S, NEW s \in Seq(S), NEW b \in Seq(S), NEW m \in Nat \ {0}, m + Len(b) - 1 <= Len(s),
           \A i \in 1..Len(b) : s[m + i - 1] = b[i]
    PROVE  SubSeq(s, m, m + Len(b) - 1) = b
<1> DEFINE n == m + Len(b) - 1
           t == SubSeq(s, m, n)
<1>1. Len(b) \in Nat /\ n \in Int /\ \A i \in m..n : s[i] \in S
  BY LenProperties
<1>2. /\ t \in Seq(S) /\ Len(t) = IF m <= n THEN n - m + 1 ELSE 0
      /\ \A i \in 1..n - m + 1 : t[i] = s[m + i - 1]
  <2> HIDE DEF n
  <2> QED
    BY <1>1, SubSeqProperties
<1>3. Len(t) = Len(b) /\ n - m + 1 = Len(b)
  BY <1>1, <1>2
<1> HIDE DEF n, t
<1>4. t = b
  BY <1>2, <1>3, SeqEqual
<1> QED
  BY <1>4 DEF t, n

\* Behind a, the stream starts with whatever d starts with.
LEMMA After ==
    ASSUME NEW S, NEW a \in Seq(S), NEW d \in Seq(S), NEW b \in Seq(S),
           Len(b) <= Len(d), \A i \in 1..Len(b) : d[i] = b[i]
    PROVE  SubSeq(a \o d, Len(a) + 1, Len(a) + Len(b)) = b
<1> DEFINE s == a \o d
           m == Len(a) + 1
<1>1. Len(a) \in Nat /\ Len(b) \in Nat /\ Len(d) \in Nat
  BY LenProperties
<1>2. /\ s \in Seq(S) /\ Len(s) = Len(a) + Len(d)
      /\ \A i \in 1..Len(a) + Len(d) : s[i] = IF i <= Len(a) THEN a[i] ELSE d[i - Len(a)]
  BY ConcatProperties
<1> HIDE DEF s
<1>3. ASSUME NEW i \in 1..Len(b)
      PROVE  s[m + i - 1] = b[i]
  <2>1. m + i - 1 \in 1..Len(a) + Len(d) /\ ~(m + i - 1 <= Len(a)) /\ m + i - 1 - Len(a) = i
    BY <1>1
  <2> DEFINE j == m + i - 1
  <2>2. j \in 1..Len(a) + Len(d) /\ ~(j <= Len(a)) /\ j - Len(a) = i
    BY <2>1
  <2> HIDE DEF j
  <2>3. s[j] = d[j - Len(a)]
    BY <1>2, <2>2
  <2>4. s[j] = d[i] /\ d[i] = b[i]
    BY <2>2, <2>3
  <2> QED
    BY <2>4 DEF j
<1>4. m \in Nat \ {0} /\ m + Len(b) - 1 <= Len(s) /\ m + Len(b) - 1 = Len(a) + Len(b)
  <2>1. Len(s) = Len(a) + Len(d) /\ Len(b) <= Len(d)
    BY <1>2
  <2> QED
    BY <1>1, <2>1
<1> HIDE DEF m
<1>5. SubSeq(s, m, m + Len(b) - 1) = b
  <2>1. s \in Seq(S) /\ m \in Nat \ {0} /\ m + Len(b) - 1 <= Len(s)
    BY <1>2, <1>4
  <2> QED
    BY <1>3, <2>1, Cut
<1> QED
  BY <1>4, <1>5 DEF s, m

\* The middle one of three.
LEMMA Middle ==
    ASSUME NEW S, NEW a \in Seq(S), NEW b \in Seq(S), NEW c \in Seq(S)
    PROVE  SubSeq(a \o (b \o c), Len(a) + 1, Len(a) + Len(b)) = b
<1> DEFINE d == b \o c
<1>1. /\ d \in Seq(S) /\ Len(b) \in Nat /\ Len(c) \in Nat /\ Len(d) = Len(b) + Len(c)
      /\ \A i \in 1..Len(b) : d[i] = b[i]
  BY LenProperties, ConcatProperties
<1> HIDE DEF d
<1>2. SubSeq(a \o d, Len(a) + 1, Len(a) + Len(b)) = b
  BY <1>1, After
<1> QED
  BY <1>2 DEF d

\* A header, a mask and a payload on the stream, and what follows them.
Stream(h, k, u, tail) == ((h \o k) \o u) \o tail

\* What is where on s, when s is made of the four.
PartsAre(S, h, k, u, tail, s) ==
    /\ s \in Seq(S) /\ Len(s) = Len(h) + Len(k) + Len(u) + Len(tail)
    /\ \A i \in 1..Len(h) : s[i] = h[i]
    /\ SubSeq(s, 1, Len(h)) = h
    /\ SubSeq(s, Len(h) + 1, Len(h) + Len(k)) = k
    /\ SubSeq(s, Len(h) + Len(k) + 1, Len(h) + Len(k) + Len(u)) = u
    /\ SubSeq(s, Len(h) + Len(k) + Len(u) + 1, Len(s)) = tail

\* Concatenation and its associativity by name, for steps that need no more.
Join(a, b) == a \o b
Regroups(a, b, c) == (a \o b) \o c = a \o (b \o c)

LEMMA Joins ==
    ASSUME NEW S, NEW a \in Seq(S), NEW b \in Seq(S)
    PROVE  Join(a, b) \in Seq(S)
  BY ConcatProperties DEF Join

LEMMA JoinsRegroup ==
    ASSUME NEW S, NEW a \in Seq(S), NEW b \in Seq(S), NEW c \in Seq(S)
    PROVE  Regroups(a, b, c)
  BY ConcatAssociative DEF Regroups

\* A stream is made of its parts.
LEMMA Parts ==
    ASSUME NEW S, NEW h \in Seq(S), NEW k \in Seq(S), NEW u \in Seq(S), NEW tail \in Seq(S)
    PROVE  PartsAre(S, h, k, u, tail, Stream(h, k, u, tail))
<1> DEFINE s == Stream(h, k, u, tail)
<1>0. s = ((h \o k) \o u) \o tail
  BY DEF Stream
<1> HIDE DEF s
<1> DEFINE a == Len(h) + Len(k)
<1>1. /\ h \o k \in Seq(S) /\ Len(h \o k) = a
      /\ (h \o k) \o u \in Seq(S) /\ Len((h \o k) \o u) = a + Len(u)
      /\ s \in Seq(S) /\ Len(s) = a + Len(u) + Len(tail)
      /\ k \o (u \o tail) \in Seq(S) /\ u \o tail \in Seq(S)
  BY <1>0, ConcatProperties
<1>2. /\ s = h \o (k \o (u \o tail))
      /\ s = (h \o k) \o (u \o tail)
  <2>1. Join(h, k) \in Seq(S) /\ Join(u, tail) \in Seq(S)
    BY Joins, Zenon
  <2>2. Regroups(Join(h, k), u, tail)
    BY <2>1, JoinsRegroup, Zenon
  <2>3. Regroups(h, k, Join(u, tail))
    BY <2>1, JoinsRegroup, Zenon
  <2> QED
    BY <1>0, <2>2, <2>3, Zenon DEF Join, Regroups
<1>3. SubSeq(s, Len(h) + 1, a) = k
  BY <1>1, <1>2, Middle
<1>4. SubSeq(s, a + 1, a + Len(u)) = u
  BY <1>1, <1>2, Middle
<1>5. SubSeq(s, a + Len(u) + 1, Len(s)) = tail
  <2>1. tail \o <<>> = tail /\ <<>> \in Seq(S)
    BY ConcatEmptySeq, EmptySeq
  <2> DEFINE g == (h \o k) \o u
  <2>2. g \in Seq(S) /\ Len(g) = a + Len(u) /\ s = g \o (tail \o <<>>)
    BY <1>0, <1>1, <2>1
  <2> HIDE DEF g
  <2>3. SubSeq(g \o (tail \o <<>>), Len(g) + 1, Len(g) + Len(tail)) = tail
    BY <2>1, <2>2, Middle
  <2>4. Len(g) + 1 = a + Len(u) + 1 /\ Len(g) + Len(tail) = Len(s)
    BY <1>1, <2>2
  <2> QED
    BY <2>2, <2>3, <2>4
<1>6. SubSeq(s, 1, Len(h)) = h
  <2>1. <<>> \o h = h /\ <<>> \in Seq(S) /\ Len(<<>>) = 0
    BY ConcatEmptySeq, EmptySeq
  <2> DEFINE g == k \o (u \o tail)
  <2>2. g \in Seq(S) /\ h \o g \in Seq(S) /\ s = <<>> \o (h \o g)
    BY <1>1, <1>2, <2>1, ConcatEmptySeq, ConcatProperties
  <2> HIDE DEF g
  <2>3. SubSeq(s, Len(<<>>) + 1, Len(<<>>) + Len(h)) = h
    BY <2>1, <2>2, Middle
  <2>4. Len(<<>>) + 1 = 1 /\ Len(<<>>) + Len(h) = Len(h)
    BY <2>1
  <2> QED
    BY <2>3, <2>4
<1>7. ASSUME NEW i \in 1..Len(h)
      PROVE  s[i] = h[i]
  <2> DEFINE g == k \o (u \o tail)
  <2>1. g \in Seq(S) /\ s = h \o g
    BY <1>1, <1>2
  <2> HIDE DEF g
  <2> QED
    BY <2>1
<1> QED
  BY <1>1, <1>3, <1>4, <1>5, <1>6, <1>7 DEF PartsAre, s

-----------------------------------------------------------------------------
(* The header (websocket_server.cpp:405-424 and 454-471).                   *)

\* A byte with its highest bit set.
LEMMA WithBit == ASSUME NEW c \in 0..Half - 1
                PROVE  Half + c \in Bytes /\ (Half + c) % Half = c /\ Half + c >= Half
<1>1. Half \in Nat /\ Half >= 16 /\ Byte = 2 * Half
  BY HalfOf
<1>2. \A x \in Nat : \A d \in 0..x - 1 : x > 0 => (x + d) % x = d
  OBVIOUS
<1> HIDE DEF Half
<1> QED
  BY <1>1, <1>2 DEF Bytes

\* A byte without it.
LEMMA Small == ASSUME NEW c \in 0..Half - 1
               PROVE  c \in Bytes /\ c % Half = c /\ ~(c >= Half)
<1>1. Half \in Nat /\ Half >= 16 /\ Byte = 2 * Half
  BY HalfOf
<1>2. \A x \in Nat : \A d \in 0..x - 1 : x > 0 => d % x = d
  OBVIOUS
<1> HIDE DEF Half
<1> QED
  BY <1>1, <1>2 DEF Bytes

\* The low four bits of a byte with its highest bit set.
LEMMA Opcode == ASSUME NEW op \in Opcodes
                PROVE  (Half + op) % 16 = op
<1>1. \A x \in Nat : x % 16 = 0 => (x + op) % 16 = op
  BY DEF Opcodes
<1> QED
  BY <1>1, HalfOf

\* The two bytes of a length below Wide.
High(n) == n \div Byte
Low(n) == n % Byte

\* The low bits of the second byte, and how many bytes of the length follow it.
Code(n) == IF n < Two THEN n ELSE Two
Ext(n) == IF n < Two THEN 0 ELSE 2

\* The code of a length below Wide is never that of the longest form.
LEMMA CodeOf ==
    ASSUME NEW n \in Nat
    PROVE  /\ Code(n) \in 0..Half - 1 /\ Code(n) # Many
           /\ n < Two => Code(n) # Two
  BY HalfOf DEF Code, Half, Two, Many

\* The whole header of a frame whose payload is shorter than Wide.
Header(op, n, bit) ==
    IF n < Two THEN <<Half + op, bit + n>> ELSE <<Half + op, bit + Two, n \div Byte, n % Byte>>

\* Two sequences in a row, byte by byte.
LEMMA Joined ==
    ASSUME NEW S, NEW u \in Seq(S), NEW v \in Seq(S), NEW w \in Seq(S), Len(w) = Len(u) + Len(v),
           \A i \in 1..Len(u) : w[i] = u[i], \A i \in 1..Len(v) : w[Len(u) + i] = v[i]
    PROVE  u \o v = w
<1> DEFINE c == u \o v
<1>1. /\ c \in Seq(S) /\ Len(c) = Len(u) + Len(v) /\ Len(u) \in Nat /\ Len(v) \in Nat
      /\ \A i \in 1..Len(u) + Len(v) : c[i] = IF i <= Len(u) THEN u[i] ELSE v[i - Len(u)]
  BY ConcatProperties, LenProperties
<1> HIDE DEF c
<1>2. ASSUME NEW i \in 1..Len(c)
      PROVE  c[i] = w[i]
  <2>1. CASE i <= Len(u)
    BY <1>1, <2>1
  <2>2. CASE ~(i <= Len(u))
    <3>1. i - Len(u) \in 1..Len(v) /\ Len(u) + (i - Len(u)) = i /\ i \in 1..Len(u) + Len(v)
      BY <1>1, <2>2
    <3>2. w[Len(u) + (i - Len(u))] = v[i - Len(u)]
      BY <3>1
    <3> QED
      BY <1>1, <2>2, <3>1, <3>2
  <2> QED
    BY <2>1, <2>2
<1>3. c = w
  BY <1>1, <1>2, SeqEqual
<1> QED
  BY <1>3 DEF c

\* Short tuples in a row.
LEMMA OneAndOne ==
    ASSUME NEW x, NEW a
    PROVE  <<x>> \o <<a>> = <<x, a>>
<1> DEFINE S == {x, a}
           u == <<x>>
           v == <<a>>
           w == <<x, a>>
<1>1. /\ u \in Seq(S) /\ Len(u) = 1 /\ u[1] = x
      /\ v \in Seq(S) /\ Len(v) = 1 /\ v[1] = a
      /\ w \in Seq(S) /\ Len(w) = 2 /\ w[1] = x /\ w[2] = a
  OBVIOUS
<1> HIDE DEF u, v, w, S
<1>2. /\ Len(w) = Len(u) + Len(v)
      /\ \A i \in 1..Len(u) : w[i] = u[i]
      /\ \A i \in 1..Len(v) : w[Len(u) + i] = v[i]
  BY <1>1
<1>3. u \o v = w
  BY <1>1, <1>2, Joined, Zenon
<1> QED
  BY <1>3 DEF u, v, w

LEMMA OneAndThree ==
    ASSUME NEW x, NEW a, NEW q, NEW r
    PROVE  <<x>> \o <<a, q, r>> = <<x, a, q, r>>
<1> DEFINE S == {x, a, q, r}
           u == <<x>>
           v == <<a, q, r>>
           w == <<x, a, q, r>>
<1>1. /\ u \in Seq(S) /\ Len(u) = 1 /\ u[1] = x
      /\ v \in Seq(S) /\ Len(v) = 3 /\ v[1] = a /\ v[2] = q /\ v[3] = r
      /\ w \in Seq(S) /\ Len(w) = 4 /\ w[1] = x /\ w[2] = a /\ w[3] = q /\ w[4] = r
  OBVIOUS
<1> HIDE DEF u, v, w, S
<1>2. /\ Len(w) = Len(u) + Len(v)
      /\ \A i \in 1..Len(u) : w[i] = u[i]
      /\ \A i \in 1..Len(v) : w[Len(u) + i] = v[i]
  BY <1>1
<1>3. u \o v = w
  BY <1>1, <1>2, Joined, Zenon
<1> QED
  BY <1>3 DEF u, v, w

LEMMA TwoAndTwo ==
    ASSUME NEW x, NEW a, NEW q, NEW r
    PROVE  <<x, a>> \o <<q, r>> = <<x, a, q, r>>
<1> DEFINE S == {x, a, q, r}
           u == <<x, a>>
           v == <<q, r>>
           w == <<x, a, q, r>>
<1>1. /\ u \in Seq(S) /\ Len(u) = 2 /\ u[1] = x /\ u[2] = a
      /\ v \in Seq(S) /\ Len(v) = 2 /\ v[1] = q /\ v[2] = r
      /\ w \in Seq(S) /\ Len(w) = 4 /\ w[1] = x /\ w[2] = a /\ w[3] = q /\ w[4] = r
  OBVIOUS
<1> HIDE DEF u, v, w, S
<1>2. /\ Len(w) = Len(u) + Len(v)
      /\ \A i \in 1..Len(u) : w[i] = u[i]
      /\ \A i \in 1..Len(v) : w[Len(u) + i] = v[i]
  BY <1>1
<1>3. u \o v = w
  BY <1>1, <1>2, Joined, Zenon
<1> QED
  BY <1>3 DEF u, v, w

\* A header says what is needed to read it.
HeaderIs(h, op, n, bit) ==
    /\ h \in Seq(Bytes) /\ Len(h) = 2 + Ext(n)
    /\ h[1] = Half + op /\ h[2] = bit + Code(n)
    /\ ~(n < Two) => h[3] = High(n) /\ h[4] = Low(n)

\* The header RFC 6455 asks for is Header, and says so.
LEMMA HeaderOf ==
    ASSUME NEW op \in Opcodes, NEW n \in Nat, n < Wide, NEW bit \in {0, Half}
    PROVE  /\ <<Half + op>> \o RfcLength(n, bit) = Header(op, n, bit)
           /\ HeaderIs(Header(op, n, bit), op, n, bit)
<1>1. Half + op \in Bytes /\ bit + Code(n) \in Bytes /\ n \div Byte \in Bytes /\ n % Byte \in Bytes
  <2>1. op \in 0..Half - 1
    BY HalfOf DEF Opcodes
  <2> QED
    BY <2>1, WithBit, CodeOf, Small, Digits
<1>2. CASE n < Two
  <2>1. RfcLength(n, bit) = <<bit + n>> /\ Header(op, n, bit) = <<Half + op, bit + n>>
    BY <1>2 DEF RfcLength, Header
  <2>2. Code(n) = n /\ Ext(n) = 0
    BY <1>2 DEF Code, Ext
  <2> HIDE DEF Bytes
  <2>3. <<Half + op>> \o <<bit + n>> = <<Half + op, bit + n>>
    BY <1>1, <2>2, OneAndOne
  <2> QED
    BY <1>1, <1>2, <2>1, <2>2, <2>3 DEF HeaderIs
<1>3. CASE ~(n < Two)
  <2>1. /\ RfcLength(n, bit) = <<bit + Two, n \div Byte, n % Byte>>
        /\ Header(op, n, bit) = <<Half + op, bit + Two, n \div Byte, n % Byte>>
    BY <1>3 DEF RfcLength, Header
  <2>2. Code(n) = Two /\ Ext(n) = 2
    BY <1>3 DEF Code, Ext
  <2> DEFINE q == n \div Byte
             r == n % Byte
             x == Half + op
             y == bit + Two
  <2>3. x \in Bytes /\ y \in Bytes /\ q \in Bytes /\ r \in Bytes
    BY <1>1, <2>2
  <2>4. RfcLength(n, bit) = <<y, q, r>> /\ Header(op, n, bit) = <<x, y, q, r>>
    BY <2>1
  <2> HIDE DEF q, r, x, y, Bytes
  <2>5. <<x>> \o <<y, q, r>> = <<x, y, q, r>>
    BY <2>3, OneAndThree
  <2>6. /\ <<x>> \o RfcLength(n, bit) = Header(op, n, bit)
        /\ Header(op, n, bit) \in Seq(Bytes) /\ Len(Header(op, n, bit)) = 4
        /\ Header(op, n, bit)[1] = x /\ Header(op, n, bit)[2] = y
        /\ Header(op, n, bit)[3] = q /\ Header(op, n, bit)[4] = r
    BY <2>3, <2>4, <2>5
  <2> QED
    BY <2>2, <2>6 DEF q, r, x, y, High, Low, HeaderIs
<1> QED
  BY <1>2, <1>3

-----------------------------------------------------------------------------
(* From the client to the server (read_ws_frame, websocket_server.cpp:      *)
(* 453-488).                                                                *)

\* The two bytes behind the second one are read as the length.
LEMMA LengthRead ==
    ASSUME NEW n \in Nat, n < Wide, NEW s \in Seq(Bytes), Len(s) >= 4,
           s[3] = High(n), s[4] = Low(n)
    PROVE  Number(SubSeq(s, 3, 4)) = n
<1> DEFINE q == High(n)
           r == Low(n)
<1>1. q \in Nat /\ r \in Nat /\ q * Byte + r = n /\ s[3] = q /\ s[4] = r
  BY Digits DEF Bytes, High, Low
<1> HIDE DEF q, r
<1>2. SubSeq(s, 3, 4) = <<s[3], s[4]>>
  <2> DEFINE b == <<s[3], s[4]>>
  <2>1. s[3] \in Bytes /\ s[4] \in Bytes
    BY ElementOfSeq
  <2>2. b \in Seq(Bytes) /\ Len(b) = 2 /\ b[1] = s[3] /\ b[2] = s[4]
    BY <2>1
  <2> HIDE DEF b, Bytes
  <2>3. SubSeq(s, 3, 3 + Len(b) - 1) = b
    BY <2>2, Cut
  <2> QED
    BY <2>2, <2>3 DEF b
<1>3. Number(<<q, r>>) = q * Byte + r
  BY <1>1, NumberOfTwo
<1>4. SubSeq(s, 3, 4) = <<q, r>>
  BY <1>1, <1>2
<1> QED
  BY <1>1, <1>3, <1>4

\* A masked frame on the stream, the way read_ws_frame counts its bytes.
PlacedAre(S, e, n, h, mask, u, tail, s) ==
    /\ s \in Seq(S) /\ Len(s) >= 6 + e /\ \A i \in 1..2 + e : s[i] = h[i]
    /\ SubSeq(s, 3 + e, 6 + e) = mask
    /\ SubSeq(s, 2 + e + 4 + 1, 2 + e + 4 + n) = u
    /\ SubSeq(s, 2 + e + 4 + n + 1, Len(s)) = tail

\* The parts of the stream are at the offsets read_ws_frame counts.
LEMMA Placed ==
    ASSUME NEW S, NEW e \in {0, 2}, NEW n \in Nat, NEW h \in Seq(S), Len(h) = 2 + e,
           NEW mask \in Seq(S), Len(mask) = 4, NEW u \in Seq(S), Len(u) = n, NEW tail \in Seq(S),
           NEW s, s = Stream(h, mask, u, tail)
    PROVE  PlacedAre(S, e, n, h, mask, u, tail, s)
<1>1. /\ s \in Seq(S) /\ Len(s) = Len(h) + Len(mask) + Len(u) + Len(tail)
      /\ \A i \in 1..Len(h) : s[i] = h[i]
      /\ SubSeq(s, Len(h) + 1, Len(h) + Len(mask)) = mask
      /\ SubSeq(s, Len(h) + Len(mask) + 1, Len(h) + Len(mask) + Len(u)) = u
      /\ SubSeq(s, Len(h) + Len(mask) + Len(u) + 1, Len(s)) = tail
  <2>1. PartsAre(S, h, mask, u, tail, s)
    BY Parts
  <2> QED
    BY <2>1 DEF PartsAre
<1>2. /\ Len(h) + 1 = 3 + e /\ Len(h) + Len(mask) = 6 + e
      /\ Len(h) + Len(mask) + 1 = 2 + e + 4 + 1
      /\ Len(h) + Len(mask) + Len(u) = 2 + e + 4 + n
      /\ Len(h) + Len(mask) + Len(u) + 1 = 2 + e + 4 + n + 1
  OBVIOUS
<1>3. Len(tail) \in Nat /\ Len(s) >= 6 + e
  BY <1>1, <1>2, LenProperties
<1> QED
  BY <1>1, <1>2, <1>3 DEF PlacedAre

\* read_ws_frame on a masked frame: the opcode, the unmasked payload and the rest.
LEMMA MaskedRead ==
    ASSUME NEW op \in Opcodes, NEW n \in Nat, n < Wide,
           NEW h, HeaderIs(h, op, n, Half),
           NEW mask \in Seq(Bytes), Len(mask) = 4,
           NEW u \in Seq(Bytes), Len(u) = n, NEW tail \in Seq(Bytes),
           NEW s, s = Stream(h, mask, u, tail)
    PROVE  ReadFrame(s) = [op |-> op, payload |-> Unmask(u, mask), rest |-> tail]
<1> DEFINE e == Ext(n)
<1>0. /\ h \in Seq(Bytes) /\ Len(h) = 2 + e /\ h[1] = Half + op /\ h[2] = Half + Code(n)
      /\ ~(n < Two) => h[3] = High(n) /\ h[4] = Low(n)
  BY DEF HeaderIs
<1>1. Half \in Nat /\ Half >= 16
  BY HalfOf
<1>2. e \in {0, 2} /\ (e = 0 <=> n < Two)
  BY DEF Ext
<1> HIDE DEF e, Bytes
<1>5. /\ s \in Seq(Bytes) /\ Len(s) >= 6 + e /\ \A i \in 1..2 + e : s[i] = h[i]
      /\ SubSeq(s, 3 + e, 6 + e) = mask
      /\ SubSeq(s, 2 + e + 4 + 1, 2 + e + 4 + n) = u
      /\ SubSeq(s, 2 + e + 4 + n + 1, Len(s)) = tail
  <2>1. PlacedAre(Bytes, e, n, h, mask, u, tail, s)
    BY <1>0, <1>2, Placed
  <2> QED
    BY <2>1 DEF PlacedAre
<1>6. s[1] % 16 = op /\ s[2] >= Half /\ s[2] % Half = Code(n)
  <2>1. s[1] = Half + op /\ s[2] = Half + Code(n)
    <3>1. 1 \in 1..2 + e /\ 2 \in 1..2 + e
      BY <1>2
    <3> QED
      BY <1>0, <1>5, <3>1, Zenon
  <2>2. Code(n) \in 0..Half - 1
    BY CodeOf
  <2> QED
    BY <2>1, <2>2, Opcode, WithBit
<1>7. e = CASE Code(n) = Two -> 2 [] Code(n) = Many -> WideBytes [] OTHER -> 0
  BY <1>2, CodeOf DEF Code
<1>8. n = IF e = 0 THEN Code(n) ELSE Number(SubSeq(s, 3, 2 + e))
  <2>1. CASE e = 0
    BY <1>2, <2>1 DEF Code
  <2>2. CASE e = 2
    <3>1. Len(s) >= 4 /\ s[3] = High(n) /\ s[4] = Low(n)
      <4>1. s[3] = h[3] /\ s[4] = h[4] /\ Len(s) >= 4
        BY <1>5, <2>2
      <4>2. h[3] = High(n) /\ h[4] = Low(n)
        BY <1>0, <1>2, <2>2
      <4> QED
        BY <4>1, <4>2
    <3>2. Number(SubSeq(s, 3, 4)) = n
      BY <1>5, <3>1, LengthRead, Zenon
    <3> QED
      BY <2>2, <3>2
  <2> QED
    BY <1>2, <2>1, <2>2
<1> DEFINE code == s[2] % Half
           ext == CASE code = Two -> 2 [] code = Many -> WideBytes [] OTHER -> 0
           len == IF ext = 0 THEN code ELSE Number(SubSeq(s, 3, 2 + ext))
           body == SubSeq(s, 2 + ext + 4 + 1, 2 + ext + 4 + len)
<1>9. ReadFrame(s) = [op |-> s[1] % 16,
                      payload |-> Unmask(body, SubSeq(s, 3 + ext, 6 + ext)),
                      rest |-> SubSeq(s, 2 + ext + 4 + len + 1, Len(s))]
  BY <1>6, Zenon DEF ReadFrame
<1>10. ext = e
  BY <1>6, <1>7
<1> HIDE DEF ext
<1>11. len = n
  BY <1>6, <1>8, <1>10
<1> HIDE DEF len
<1>12. body = u
  BY <1>5, <1>10, <1>11
<1> HIDE DEF body
<1> QED
  BY <1>5, <1>6, <1>9, <1>10, <1>11, <1>12

\* A frame a client sends - of any opcode, with any mask, its payload shorter than
\* Wide - is read by read_ws_frame as that opcode and that payload, and the stream
\* is left at the first byte behind it: the next frame is read from its start.
THEOREM ClientFramesAreRead ==
    ASSUME NEW op \in Opcodes, NEW payload \in Seq(Bytes), Len(payload) < Wide,
           NEW mask \in Seq(Bytes), Len(mask) = 4, NEW tail \in Seq(Bytes)
    PROVE  ReadFrame(RfcClientFrame(op, payload, mask) \o tail)
             = [op |-> op, payload |-> payload, rest |-> tail]
<1> DEFINE n == Len(payload)
           h == Header(op, n, Half)
           u == Unmask(payload, mask)
           s == Stream(h, mask, u, tail)
<1>1. n \in Nat /\ Half \in {0, Half}
  OBVIOUS
<1>2. /\ <<Half + op>> \o RfcLength(n, Half) = h
      /\ HeaderIs(h, op, n, Half)
  BY <1>1, HeaderOf
<1>3. RfcClientFrame(op, payload, mask) \o tail = s
  BY <1>2 DEF RfcClientFrame, Unmask, Stream
<1>4. u \in Seq(Bytes) /\ Len(u) = n /\ Unmask(u, mask) = payload
  BY Masked, UnmaskUndoes
<1>5. n < Wide
  OBVIOUS
<1> HIDE DEF n, h, u, Bytes
<1>6. ReadFrame(s) = [op |-> op, payload |-> Unmask(u, mask), rest |-> tail]
  BY <1>1, <1>2, <1>4, <1>5, MaskedRead
<1> QED
  BY <1>3, <1>4, <1>6
-----------------------------------------------------------------------------
(* From the server to the client (send_ws_frame, websocket_server.cpp:      *)
(* 404-437).                                                                *)

\* n >> 0 and n >> 8.
LEMMA Shifts ==
    ASSUME NEW n \in Nat
    PROVE  Shifted(n, 0) = n /\ Shifted(n, 1) = n \div Byte
<1>1. ASSUME NEW j \in {0, 1}
      PROVE  Shifted(n, j) = IF j = 0 THEN n ELSE n \div Byte
  <2> DEFINE Is(f) == f = [i \in 0..j |-> IF i = 0 THEN n ELSE f[i - 1] \div Byte]
             shift == CHOOSE f : Is(f)
             w == [i \in 0..j |-> IF i = 0 THEN n ELSE n \div Byte]
  <2>1. Is(w)
    <3>1. ASSUME NEW i \in 0..j
          PROVE  w[i] = IF i = 0 THEN n ELSE w[i - 1] \div Byte
      <4>1. CASE i = 0
        BY <4>1
      <4>2. CASE i = 1
        BY <4>2
      <4> QED
        BY <4>1, <4>2
    <3> QED
      BY <3>1
  <2>2. Is(shift)
    BY <2>1
  <2>3. shift[0] = n /\ (j = 1 => shift[1] = shift[0] \div Byte)
    <3> HIDE DEF shift
    <3> QED
      BY <2>2
  <2>4. Shifted(n, j) = shift[j]
    BY DEF Shifted
  <2> QED
    BY <2>3, <2>4
<1> QED
  BY <1>1

\* send_ws_frame writes the header RFC 6455 asks for.
LEMMA ServerHeader ==
    ASSUME NEW op \in Opcodes, NEW payload \in Seq(Bytes), Len(payload) < Wide
    PROVE  SendFrame(op, payload) = Header(op, Len(payload), 0) \o payload
<1> DEFINE n == Len(payload)
<1>1. n \in Nat /\ n < Wide /\ Two \in Nat
  BY HalfOf
<1> DEFINE head == CASE n < Two -> <<Half + op, n>>
                     [] Two <= n /\ n < Wide -> <<Half + op, Two>> \o BigEndian(n, 2)
                     [] OTHER -> <<Half + op, Many>> \o BigEndian(n, WideBytes)
<1>4. SendFrame(op, payload) = head \o payload
  BY DEF SendFrame
<1> HIDE DEF n
<1>2. CASE n < Two
  <2>1. Header(op, n, 0) = <<Half + op, n>>
    BY <1>1, <1>2 DEF Header
  <2>2. head = <<Half + op, n>>
    BY <1>1, <1>2
  <2> HIDE DEF head
  <2> QED
    BY <1>4, <2>1, <2>2 DEF n
<1>3. CASE ~(n < Two)
  <2> DEFINE q == n \div Byte
             r == n % Byte
  <2>1. q \in Bytes /\ r \in Bytes
    BY <1>1, Digits
  <2>2. BigEndian(n, 2) = <<q, r>>
    <3>1. BigEndian(n, 2) = [i \in 1..2 |-> Shifted(n, 2 - i) % Byte]
      BY DEF BigEndian
    <3>2. Shifted(n, 2 - 1) = q /\ Shifted(n, 2 - 2) = n
      BY <1>1, Shifts
    <3>3. q % Byte = q
      <4>1. \A d \in 0..Byte - 1 : d % Byte = d
        BY HalfOf
      <4> QED
        BY <2>1, <4>1 DEF Bytes
    <3> HIDE DEF q
    <3> QED
      BY <3>1, <3>2, <3>3
  <2> DEFINE x == Half + op
  <2>3. Header(op, n, 0) = <<x, Two, q, r>>
    BY <1>1, <1>3 DEF Header
  <2>4. head = <<x, Two>> \o BigEndian(n, 2)
    BY <1>1, <1>3
  <2> HIDE DEF q, r, x, head
  <2>5. <<x, Two>> \o <<q, r>> = <<x, Two, q, r>>
    BY TwoAndTwo
  <2> QED
    BY <1>4, <2>2, <2>3, <2>4, <2>5 DEF n
<1> QED
  BY <1>2, <1>3 DEF n
\* A prefix agrees with the stream byte by byte.
LEMMA PrefixAgrees ==
    ASSUME NEW S, NEW h \in Seq(S), NEW T, NEW s \in Seq(T), IsPrefix(h, s)
    PROVE  Len(h) <= Len(s) /\ \A i \in 1..Len(h) : s[i] = h[i]
<1>1. /\ Len(h) \in Nat /\ Len(s) \in Nat /\ Len(h) <= Len(s)
      /\ SubSeq(h, 1, Len(h)) = SubSeq(s, 1, Len(h))
  BY LenProperties DEF IsPrefix
<1>2. ASSUME NEW i \in 1..Len(h)
      PROVE  SubSeq(h, 1, Len(h))[i] = h[i] /\ SubSeq(s, 1, Len(h))[i] = s[i]
  BY <1>1
<1> QED
  BY <1>1, <1>2

\* The second byte of a header of the longest form.
LEMMA LongHeader ==
    ASSUME NEW x, NEW m \in Nat, m >= Wide
    PROVE  \E S : /\ <<x>> \o RfcLength(m, 0) \in Seq(S) /\ Len(<<x>> \o RfcLength(m, 0)) >= 2
                  /\ (<<x>> \o RfcLength(m, 0))[2] = Many
<1> DEFINE d == [i \in 1..WideBytes |-> IF i = WideBytes THEN m % Byte
                                        ELSE IF i = WideBytes - 1 THEN (m \div Byte) % Byte
                                        ELSE IF i = WideBytes - 2 THEN m \div (Byte * Byte) ELSE 0]
           S == {x, Many} \cup {d[i] : i \in 1..WideBytes}
           a == <<x>>
           b == <<Many>>
<1>1. RfcLength(m, 0) = b \o d
  <2>1. ~(m < Two) /\ ~(m < Wide) /\ 0 + Many = Many
    BY HalfOf, FrameAssumption
  <2> QED
    BY <2>1 DEF RfcLength
<1>2. d \in Seq(S) /\ Len(d) = WideBytes /\ WideBytes \in Nat
  <2>1. d = [i \in 1..WideBytes |-> d[i]]
    OBVIOUS
  <2>2. \A i \in 1..WideBytes : d[i] \in S
    OBVIOUS
  <2>3. WideBytes \in Nat
    BY FrameAssumption
  <2> HIDE DEF d, S
  <2> QED
    BY <2>1, <2>2, <2>3
<1>3. a \in Seq(S) /\ Len(a) = 1 /\ b \in Seq(S) /\ Len(b) = 1 /\ b[1] = Many
  OBVIOUS
<1> HIDE DEF d, S, a, b
<1> DEFINE c == b \o d
<1>4. c \in Seq(S) /\ Len(c) = 1 + WideBytes /\ c[1] = Many
  <2>1. c \in Seq(S) /\ Len(c) = Len(b) + Len(d)
    BY <1>2, <1>3, ConcatProperties
  <2>2. \A i \in 1..Len(b) + Len(d) : c[i] = IF i <= Len(b) THEN b[i] ELSE d[i - Len(b)]
    BY <1>2, <1>3, ConcatProperties
  <2>3. 1 \in 1..Len(b) + Len(d) /\ 1 <= Len(b)
    BY <1>2, <1>3
  <2> HIDE DEF c
  <2> QED
    BY <1>2, <1>3, <2>1, <2>2, <2>3
<1> HIDE DEF c
<1>5. a \o c \in Seq(S) /\ Len(a \o c) >= 2 /\ (a \o c)[2] = Many
  <2> DEFINE g == a \o c
  <2>1. g \in Seq(S) /\ Len(g) = Len(a) + Len(c)
    BY <1>3, <1>4, ConcatProperties
  <2>2. \A i \in 1..Len(a) + Len(c) : g[i] = IF i <= Len(a) THEN a[i] ELSE c[i - Len(a)]
    BY <1>3, <1>4, ConcatProperties
  <2>3. 2 \in 1..Len(a) + Len(c) /\ ~(2 <= Len(a)) /\ 2 - Len(a) = 1 /\ Len(a) + Len(c) >= 2
    BY <1>2, <1>3, <1>4
  <2> HIDE DEF g
  <2>4. g[2] = c[1]
    BY <2>2, <2>3
  <2>5. g \in Seq(S) /\ Len(g) >= 2 /\ g[2] = Many
    BY <1>4, <2>1, <2>3, <2>4
  <2> QED
    BY <2>5 DEF g
<1> QED
  BY <1>1, <1>5 DEF a, c

\* The header on the stream can be read as one length only.
LEMMA OneLength ==
    ASSUME NEW n \in Nat, n < Wide, NEW s \in Seq(Bytes), Len(s) >= 2 + Ext(n), s[2] = Code(n),
           ~(n < Two) => s[3] = High(n) /\ s[4] = Low(n),
           NEW m \in Nat, IsPrefix(<<Half + TextOp>> \o RfcLength(m, 0), s)
    PROVE  m = n
<1> DEFINE h == <<Half + TextOp>> \o RfcLength(m, 0)
<1>1. TextOp \in Opcodes /\ 0 \in {0, Half}
  BY HalfOf DEF TextOp, Opcodes
<1>2. m < Wide
  <2> SUFFICES ASSUME m >= Wide PROVE FALSE
    BY FrameAssumption
  <2>1. PICK S : h \in Seq(S) /\ Len(h) >= 2 /\ h[2] = Many
    BY LongHeader
  <2> HIDE DEF h, Bytes
  <2>2. Len(h) \in Nat /\ \A i \in 1..Len(h) : s[i] = h[i]
    <3>1. IsPrefix(h, s)
      BY DEF h
    <3> QED
      BY <2>1, <3>1, PrefixAgrees
  <2>3. s[2] = Many
    BY <2>1, <2>2
  <2> QED
    BY <2>3, CodeOf
<1>3. h = Header(TextOp, m, 0) /\ HeaderIs(h, TextOp, m, 0)
  BY <1>1, <1>2, HeaderOf
<1>4. h \in Seq(Bytes) /\ Len(h) = 2 + Ext(m) /\ h[2] = Code(m)
  <2>1. 0 + Code(m) = Code(m)
    <3>1. Code(m) \in Int
      BY HalfOf, CodeOf
    <3> QED
      BY <3>1
  <2> QED
    BY <1>3, <2>1 DEF HeaderIs
<1>5. ~(m < Two) => h[3] = High(m) /\ h[4] = Low(m)
  BY <1>3 DEF HeaderIs
<1>6. IsPrefix(h, s)
  OBVIOUS
<1> HIDE DEF h, Bytes
<1>7. \A i \in 1..Len(h) : s[i] = h[i]
  BY <1>4, <1>6, PrefixAgrees
<1>8. Code(m) = Code(n)
  <2>1. 2 \in 1..2 + Ext(m)
    BY DEF Ext
  <2> QED
    BY <1>4, <1>7, <2>1
<1>9. CASE n < Two
  BY <1>8, <1>9, HalfOf DEF Code
<1>10. CASE ~(n < Two)
  <2>1. ~(m < Two) /\ Ext(m) = 2
    BY <1>8, <1>10, HalfOf DEF Code, Ext
  <2>2. 3 \in 1..Len(h) /\ 4 \in 1..Len(h)
    BY <1>4, <2>1
  <2>3. High(m) = High(n) /\ Low(m) = Low(n)
    BY <1>5, <1>7, <1>10, <2>1, <2>2
  <2>4. High(m) * Byte + Low(m) = m /\ High(n) * Byte + Low(n) = n
    BY <1>2, Digits DEF High, Low
  <2> QED
    BY <2>3, <2>4
<1> QED
  BY <1>9, <1>10

\* A text frame send_ws_frame writes, its payload shorter than Wide, can be read by
\* RFC 6455 in one way only: its one possible length is the payload's, what it holds
\* is the payload, and what is left is what follows it on the stream.
THEOREM ServerFramesAreRead ==
    ASSUME NEW payload \in Seq(Bytes), Len(payload) < Wide, NEW tail \in Seq(Bytes)
    PROVE  LET s == SendFrame(TextOp, payload) \o tail
               n == Len(payload)
           IN  /\ RfcLengths(s) = {n}
               /\ RfcPayload(s, n) = payload
               /\ RfcRest(s, n) = tail
<1> DEFINE n == Len(payload)
           h == Header(TextOp, n, 0)
           s == SendFrame(TextOp, payload) \o tail
<1>1. TextOp \in Opcodes /\ 0 \in {0, Half} /\ n \in Nat /\ Len(tail) \in Nat
  BY HalfOf DEF TextOp, Opcodes
<1>2. n < Wide
  OBVIOUS
<1>3. <<Half + TextOp>> \o RfcLength(n, 0) = h /\ HeaderIs(h, TextOp, n, 0)
  BY <1>1, <1>2, HeaderOf
<1>4. s = (h \o payload) \o tail
  BY <1>1, ServerHeader
<1> HIDE DEF n, h, s
<1>5. /\ h \in Seq(Bytes) /\ Len(h) = 2 + Ext(n) /\ h[2] = Code(n)
      /\ ~(n < Two) => h[3] = High(n) /\ h[4] = Low(n)
  BY <1>1, <1>3, CodeOf DEF HeaderIs
<1>6. Ext(n) \in {0, 2} /\ (~(n < Two) => Ext(n) = 2)
  BY DEF Ext
<1> HIDE DEF Bytes
<1>7. PartsAre(Bytes, h, payload, <<>>, tail, s)
  <2>1. (h \o payload) \o <<>> = h \o payload
    BY <1>5, ConcatEmptySeq, ConcatProperties
  <2>2. s = Stream(h, payload, <<>>, tail)
    BY <1>4, <2>1 DEF Stream
  <2> QED
    BY <1>5, <2>2, Parts, EmptySeq
<1>8. /\ s \in Seq(Bytes) /\ Len(s) = 2 + Ext(n) + n + Len(tail)
      /\ \A i \in 1..2 + Ext(n) : s[i] = h[i]
      /\ SubSeq(s, 1, Len(h)) = h
      /\ SubSeq(s, Len(h) + 1, Len(h) + n) = payload
      /\ SubSeq(s, Len(h) + n + 1, Len(s)) = tail
  <2>1. Len(<<>>) = 0 /\ Len(payload) = n
    BY DEF n
  <2>2. /\ Len(h) + Len(payload) = Len(h) + n
        /\ Len(h) + Len(payload) + Len(<<>>) + 1 = Len(h) + n + 1
        /\ Len(h) + Len(payload) + Len(<<>>) + Len(tail) = 2 + Ext(n) + n + Len(tail)
    BY <1>1, <1>5, <1>6, <2>1
  <2>3. /\ s \in Seq(Bytes) /\ Len(s) = Len(h) + Len(payload) + Len(<<>>) + Len(tail)
        /\ \A i \in 1..Len(h) : s[i] = h[i]
        /\ SubSeq(s, 1, Len(h)) = h
        /\ SubSeq(s, Len(h) + 1, Len(h) + Len(payload)) = payload
        /\ SubSeq(s, Len(h) + Len(payload) + Len(<<>>) + 1, Len(s)) = tail
    BY <1>7 DEF PartsAre
  <2> QED
    BY <1>5, <2>2, <2>3
<1>9. 1 + Len(RfcLength(n, 0)) = Len(h)
  <2>1. RfcLength(n, 0) = IF n < Two THEN <<0 + n>> ELSE <<0 + Two, n \div Byte, n % Byte>>
    BY <1>2 DEF RfcLength
  <2>2. Len(RfcLength(n, 0)) = 1 + Ext(n)
    BY <2>1 DEF Ext
  <2> QED
    BY <1>5, <1>6, <2>2
<1>10. RfcPayload(s, n) = payload /\ RfcRest(s, n) = tail
  BY <1>8, <1>9 DEF RfcPayload, RfcRest
<1>11. ASSUME NEW m \in 0..Len(s) - 2, IsPrefix(<<Half + TextOp>> \o RfcLength(m, 0), s)
       PROVE  m = n
  <2>1. m \in Nat /\ Len(s) >= 2 + Ext(n)
    BY <1>1, <1>6, <1>8
  <2>2. s[2] = Code(n) /\ (~(n < Two) => s[3] = High(n) /\ s[4] = Low(n))
    BY <1>5, <1>6, <1>8
  <2> QED
    BY <1>1, <1>2, <1>8, <1>11, <2>1, <2>2, OneLength
<1>12. n \in 0..Len(s) - 2 /\ IsPrefix(h, s) /\ Len(h) + n <= Len(s)
  <2>1. SubSeq(h, 1, Len(h)) = h
    BY <1>5
  <2>2. n \in 0..Len(s) - 2 /\ Len(h) <= Len(s) /\ Len(h) + n <= Len(s)
    <3>1. /\ Len(s) = 2 + Ext(n) + n + Len(tail) /\ Len(h) = 2 + Ext(n)
          /\ n \in Nat /\ Len(tail) \in Nat /\ Ext(n) \in {0, 2}
      BY <1>1, <1>5, <1>6, <1>8
    <3> QED
      BY <3>1
  <2>3. SubSeq(s, 1, Len(h)) = h
    BY <1>8
  <2> QED
    BY <2>1, <2>2, <2>3 DEF IsPrefix
<1>13. RfcLengths(s) = {n}
  BY <1>3, <1>11, <1>12 DEF RfcLengths
<1> QED
  BY <1>10, <1>13 DEF n, s
=============================================================================
