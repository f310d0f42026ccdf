--------------------------- MODULE SourceUrlProofs ---------------------------
(***************************************************************************)
(* A script and the breakpoints a client sets in it find each other: the   *)
(* URL to_file_url announces comes back through the handler of             *)
(* setBreakpointByUrl as a name that check_breakpoint takes for the        *)
(* script's (debug_session.cpp:39-56, 264-302, cdp_handler.cpp:154-169),   *)
(* for every name a script can have.                                       *)
(***************************************************************************)
EXTENDS SourceUrl, SequenceTheorems, TLAPS

\* A name without a backslash, and the end of it from position k on.
Normal(S, n) == n \in Seq(S) /\ \A i \in 1..Len(n) : n[i] # "\\"
From(n, k) == SubSeq(n, k, Len(n))

\* normalize_url leaves no backslash.
LEMMA Normalized ==
    ASSUME NEW S, "/" \in S, NEW name \in Seq(S)
    PROVE  Normal(S, Normalize(name))
<1>1. /\ Len(name) \in Nat
      /\ Normalize(name) = [i \in 1..Len(name) |-> IF name[i] = "\\" THEN "/" ELSE name[i]]
  BY DEF Normalize
<1>2. \A i \in 1..Len(name) : name[i] \in S
  OBVIOUS
<1>3. Normalize(name) \in Seq(S) /\ Len(Normalize(name)) = Len(name)
  BY <1>1, <1>2
<1>4. \A i \in 1..Len(name) : Normalize(name)[i] # "\\"
  BY <1>1
<1> QED
  BY <1>3, <1>4 DEF Normal

\* What is normal already it leaves alone.
LEMMA NormalizeKeeps ==
    ASSUME NEW S, NEW n, Normal(S, n)
    PROVE  Normalize(n) = n
<1>1. n \in Seq(S) /\ \A i \in 1..Len(n) : n[i] # "\\"
  BY DEF Normal
<1>2. Normalize(n) = [i \in 1..Len(n) |-> n[i]]
  BY <1>1 DEF Normalize
<1>3. n = [i \in 1..Len(n) |-> n[i]]
  BY <1>1
<1> QED
  BY <1>2, <1>3

\* The end of a name, piece by piece.
LEMMA FromOf ==
    ASSUME NEW S, NEW n \in Seq(S), NEW k \in 1..Len(n) + 1
    PROVE  /\ From(n, k) \in Seq(S) /\ Len(From(n, k)) = Len(n) - k + 1
           /\ \A i \in 1..Len(n) - k + 1 : From(n, k)[i] = n[k + i - 1]
<1>1. Len(n) \in Nat /\ \A i \in k..Len(n) : n[i] \in S
  OBVIOUS
<1>2. /\ SubSeq(n, k, Len(n)) \in Seq(S)
      /\ Len(SubSeq(n, k, Len(n))) = IF k <= Len(n) THEN Len(n) - k + 1 ELSE 0
      /\ \A i \in 1..Len(n) - k + 1 : SubSeq(n, k, Len(n))[i] = n[k + i - 1]
  BY <1>1, SubSeqProperties
<1> QED
  BY <1>1, <1>2 DEF From

\* The end of a name is a part of it, also in lower case: HasPart finds it.
LEMMA EndIsPart ==
    ASSUME NEW S, NEW n \in Seq(S), NEW k \in 1..Len(n) + 1
    PROVE  HasPart(Lower(n), Lower(From(n, k)))
<1> DEFINE t == From(n, k)
           T == S \union {LowerOf[x] : x \in DOMAIN LowerOf}
           a == Lower(n)
           b == Lower(t)
<1>1. /\ t \in Seq(S) /\ Len(t) = Len(n) - k + 1 /\ Len(n) \in Nat
      /\ \A i \in 1..Len(n) - k + 1 : t[i] = n[k + i - 1]
  BY FromOf
<1> HIDE DEF t
<1>2. ASSUME NEW s \in Seq(S)
      PROVE  /\ Lower(s) \in Seq(T) /\ Len(Lower(s)) = Len(s)
             /\ \A i \in 1..Len(s) :
                   Lower(s)[i] = IF s[i] \in DOMAIN LowerOf THEN LowerOf[s[i]] ELSE s[i]
  <2>1. \A i \in 1..Len(s) : (IF s[i] \in DOMAIN LowerOf THEN LowerOf[s[i]] ELSE s[i]) \in T
    OBVIOUS
  <2> HIDE DEF T
  <2> QED
    BY <2>1 DEF Lower
<1>3. /\ a \in Seq(T) /\ Len(a) = Len(n) /\ b \in Seq(T) /\ Len(b) = Len(t)
      /\ \A i \in 1..Len(t) : b[i] = a[k + i - 1]
  <2>1. a \in Seq(T) /\ Len(a) = Len(n) /\ b \in Seq(T) /\ Len(b) = Len(t)
    BY <1>1, <1>2
  <2>2. ASSUME NEW i \in 1..Len(t)
        PROVE  b[i] = a[k + i - 1]
    <3>1. k + i - 1 \in 1..Len(n) /\ t[i] = n[k + i - 1]
      BY <1>1
    <3>2. b[i] = IF t[i] \in DOMAIN LowerOf THEN LowerOf[t[i]] ELSE t[i]
      BY <1>1, <1>2
    <3> DEFINE j == k + i - 1
    <3>3. j \in 1..Len(n) /\ t[i] = n[j]
      BY <3>1
    <3> HIDE DEF j
    <3>4. a[j] = IF n[j] \in DOMAIN LowerOf THEN LowerOf[n[j]] ELSE n[j]
      BY <1>2, <3>3
    <3>5. b[i] = a[j]
      BY <3>2, <3>3, <3>4
    <3> QED
      BY <3>5 DEF j
  <2> QED
    BY <2>1, <2>2
<1> HIDE DEF a, b, T
<1>4. SubSeq(a, (k - 1) + 1, (k - 1) + Len(b)) = b
  <2>1. (k - 1) + 1 = k /\ (k - 1) + Len(b) = Len(a) /\ k \in 1..Len(a) + 1
    BY <1>1, <1>3
  <2>2. From(a, k) = b
    <3>1. /\ From(a, k) \in Seq(T) /\ Len(From(a, k)) = Len(b)
          /\ \A i \in 1..Len(b) : From(a, k)[i] = a[k + i - 1]
      BY <1>1, <1>3, <2>1, FromOf
    <3> QED
      BY <1>3, <3>1, SeqEqual
  <2> QED
    BY <2>1, <2>2 DEF From
<1>5. k - 1 \in 0..Len(a) - Len(b)
  BY <1>1, <1>3
<1> QED
  BY <1>4, <1>5 DEF HasPart, a, b, t

\* A prefix of three or four pieces, cut off.
LEMMA CutOff ==
    ASSUME NEW S, NEW p \in Seq(S), NEW n \in Seq(S)
    PROVE  From(p \o n, Len(p) + 1) = n
<1> DEFINE s == p \o n
<1>1. /\ s \in Seq(S) /\ Len(s) = Len(p) + Len(n) /\ Len(p) \in Nat /\ Len(n) \in Nat
      /\ \A i \in 1..Len(p) + Len(n) : s[i] = IF i <= Len(p) THEN p[i] ELSE n[i - Len(p)]
  BY ConcatProperties, LenProperties
<1> HIDE DEF s
<1> DEFINE k == Len(p) + 1
<1>2. k \in 1..Len(s) + 1 /\ Len(s) - k + 1 = Len(n)
  BY <1>1
<1>3. /\ From(s, k) \in Seq(S) /\ Len(From(s, k)) = Len(n)
      /\ \A i \in 1..Len(n) : From(s, k)[i] = s[k + i - 1]
  <2> HIDE DEF k
  <2> QED
    BY <1>1, <1>2, FromOf
<1>4. ASSUME NEW i \in 1..Len(n)
      PROVE  From(s, k)[i] = n[i]
  <2> DEFINE j == k + i - 1
  <2>1. j \in 1..Len(p) + Len(n) /\ ~(j <= Len(p)) /\ j - Len(p) = i
    BY <1>1
  <2>2. From(s, k)[i] = s[j]
    BY <1>3
  <2> HIDE DEF j
  <2> QED
    BY <1>1, <2>1, <2>2
<1> HIDE DEF k
<1>5. From(s, k) = n
  BY <1>3, <1>4, SeqEqual
<1> QED
  BY <1>5 DEF s, k

\* And found at the head.
LEMMA HeadIsPrefix ==
    ASSUME NEW S, NEW p \in Seq(S), NEW n \in Seq(S)
    PROVE  IsPrefix(p, p \o n)
<1> DEFINE s == p \o n
<1>1. /\ s \in Seq(S) /\ Len(s) = Len(p) + Len(n) /\ Len(p) \in Nat /\ Len(n) \in Nat
      /\ \A i \in 1..Len(p) + Len(n) : s[i] = IF i <= Len(p) THEN p[i] ELSE n[i - Len(p)]
  BY ConcatProperties, LenProperties
<1> HIDE DEF s
<1>2. /\ SubSeq(p, 1, Len(p)) \in Seq(S) /\ Len(SubSeq(p, 1, Len(p))) = Len(p)
      /\ \A i \in 1..Len(p) : SubSeq(p, 1, Len(p))[i] = p[i]
  BY <1>1
<1>3. /\ SubSeq(s, 1, Len(p)) \in Seq(S) /\ Len(SubSeq(s, 1, Len(p))) = Len(p)
      /\ \A i \in 1..Len(p) : SubSeq(s, 1, Len(p))[i] = p[i]
  BY <1>1
<1>4. SubSeq(p, 1, Len(p)) = SubSeq(s, 1, Len(p))
  BY <1>2, <1>3, SeqEqual
<1> QED
  BY <1>1, <1>4 DEF IsPrefix, s

\* The handler of setBreakpointByUrl cuts whole pieces off the head.
LEMMA StripCuts ==
    ASSUME NEW S, NEW u \in Seq(S)
    PROVE  \E k \in 1..Len(u) + 1 : Strip(u) = From(u, k)
<1>1. Len(u) \in Nat /\ Len(Scheme) = 3 /\ Len(Append(Scheme, "/")) = 4
  BY DEF Scheme
<1>2. CASE IsPrefix(Append(Scheme, "/"), u)
  <2>1. 5 \in 1..Len(u) + 1
    BY <1>1, <1>2 DEF IsPrefix
  <2>2. Strip(u) = From(u, 5)
    BY <1>1, <1>2 DEF Strip, From
  <2> QED
    BY <2>1, <2>2
<1>3. CASE ~IsPrefix(Append(Scheme, "/"), u) /\ IsPrefix(Scheme, u)
  <2>1. 4 \in 1..Len(u) + 1
    BY <1>1, <1>3 DEF IsPrefix
  <2>2. Strip(u) = From(u, 4)
    BY <1>1, <1>3 DEF Strip, From
  <2> QED
    BY <2>1, <2>2
<1>4. CASE ~IsPrefix(Append(Scheme, "/"), u) /\ ~IsPrefix(Scheme, u)
  <2>1. 1 \in 1..Len(u) + 1
    BY <1>1
  <2>2. Strip(u) = u
    BY <1>4 DEF Strip
  <2>3. From(u, 1) = u
    <3>1. /\ From(u, 1) \in Seq(S) /\ Len(From(u, 1)) = Len(u)
          /\ \A i \in 1..Len(u) : From(u, 1)[i] = u[i]
      BY <1>1, <2>1 DEF From
    <3> QED
      BY <3>1, SeqEqual
  <2> QED
    BY <2>1, <2>2, <2>3
<1> QED
  BY <1>2, <1>3, <1>4

\* Scheme and slash are cut off together.
LEMMA StripUndoes ==
    ASSUME NEW S, {"file:", "/"} \subseteq S, NEW r \in Seq(S)
    PROVE  Strip(Scheme \o (<<"/">> \o r)) = r
<1> DEFINE p == Append(Scheme, "/")
           c == <<"/">>
<1>1. /\ Scheme \in Seq(S) /\ Len(Scheme) = 3 /\ p \in Seq(S) /\ Len(p) = 4
      /\ c \in Seq(S) /\ p = Scheme \o c
  BY DEF Scheme
<1> HIDE DEF p, c
<1>2. Scheme \o (c \o r) = p \o r
  BY <1>1, ConcatAssociative
<1> DEFINE u == p \o r
<1>3. IsPrefix(p, u)
  BY <1>1, HeadIsPrefix
<1>4. From(u, 5) = r
  <2>1. From(u, Len(p) + 1) = r
    BY <1>1, CutOff
  <2>2. Len(p) + 1 = 5
    BY <1>1
  <2> HIDE DEF u
  <2> QED
    BY <2>1, <2>2
<1> HIDE DEF u
<1>5. Strip(u) = SubSeq(u, Len(Scheme) + 2, Len(u))
  BY <1>3 DEF Strip, p
<1>6. Strip(u) = r
  BY <1>1, <1>4, <1>5 DEF From
<1> QED
  BY <1>2, <1>6 DEF u, c

\* The announced URL of a name, without its scheme, is the end of the name; of an
\* absolute one, it is the name but for the slash it begins with.
LEMMA AnnouncedIsEnd ==
    ASSUME NEW S, {"file:", "/"} \subseteq S, NEW name \in Seq(S), NEW n, n = Normalize(name)
    PROVE  \E k \in 1..Len(n) + 1 : Strip(ToFileUrl(name)) = From(n, k)
<1>1. n \in Seq(S) /\ Len(n) \in Nat
  BY Normalized DEF Normal
<1> DEFINE drive == Len(n) >= 3 /\ n[1] \in Drives /\ n[2] = ":"
<1>2. ToFileUrl(name) = IF IsPrefix(Scheme, n) \/ n = <<>> THEN n
                        ELSE IF n[1] = "/" THEN Scheme \o n
                        ELSE IF drive THEN Scheme \o (<<"/">> \o n)
                        ELSE n
  BY DEF ToFileUrl
<1> HIDE DEF drive
<1>3. CASE ToFileUrl(name) = n
  BY <1>1, <1>3, StripCuts
<1>4. CASE ToFileUrl(name) = Scheme \o n /\ n # <<>> /\ n[1] = "/"
  <2> DEFINE r == From(n, 2)
             m == <<"/">> \o r
  <2>1. 2 \in 1..Len(n) + 1
    BY <1>1, <1>4
  <2>2. r \in Seq(S) /\ Len(r) = Len(n) - 1 /\ \A i \in 1..Len(n) - 1 : r[i] = n[i + 1]
    <3>1. /\ r \in Seq(S) /\ Len(r) = Len(n) - 2 + 1
          /\ \A i \in 1..Len(n) - 2 + 1 : r[i] = n[2 + i - 1]
      <4> HIDE DEF r
      <4> QED
        BY <1>1, <2>1, FromOf DEF r
    <3> HIDE DEF r
    <3> QED
      BY <1>1, <3>1
  <2> HIDE DEF r
  <2>3. m = n
    <3>1. m \in Seq(S) /\ Len(m) = Len(n) /\ \A i \in 1..Len(n) : m[i] = n[i]
      BY <1>1, <1>4, <2>1, <2>2
    <3> HIDE DEF m
    <3> QED
      BY <1>1, <3>1, SeqEqual
  <2>4. Strip(ToFileUrl(name)) = r
    BY <1>4, <2>2, <2>3, StripUndoes
  <2> QED
    BY <2>1, <2>4 DEF r
<1>5. CASE ToFileUrl(name) = Scheme \o (<<"/">> \o n)
  <2>1. Strip(ToFileUrl(name)) = n
    BY <1>1, <1>5, StripUndoes
  <2>2. From(n, 1) = n /\ 1 \in 1..Len(n) + 1
    <3>1. /\ From(n, 1) \in Seq(S) /\ Len(From(n, 1)) = Len(n)
          /\ \A i \in 1..Len(n) : From(n, 1)[i] = n[i]
      BY <1>1 DEF From
    <3> QED
      BY <1>1, <3>1, SeqEqual
  <2> QED
    BY <2>1, <2>2
<1> QED
  BY <1>2, <1>3, <1>4, <1>5

\* A breakpoint set under the URL its script was announced with matches that
\* script, on a Windows and on a POSIX host, whatever the script's name is: a
\* path with either kind of slash, with or without a drive, absolute, relative or
\* a URL itself (debug_session.cpp:45-56, 264-302, cdp_handler.cpp:154-169).
THEOREM AnnouncedUrlBinds ==
    ASSUME NEW S, NEW name \in Seq(S), NEW windows \in BOOLEAN,
           NEW bp, ~bp.regex, bp.url = Normalize(Strip(ToFileUrl(name)))
    PROVE  Matches(windows, name, bp)
<1> DEFINE T == S \union {"file:", "/"}
           n == Normalize(name)
<1>1. name \in Seq(T)
  OBVIOUS
<1>2. {"file:", "/"} \subseteq T /\ "/" \in T
  OBVIOUS
<1> HIDE DEF T
<1>3. Normal(T, n)
  BY <1>1, <1>2, Normalized
<1>4. PICK k \in 1..Len(n) + 1 : Strip(ToFileUrl(name)) = From(n, k)
  BY <1>1, <1>2, AnnouncedIsEnd
<1> HIDE DEF n
<1>5. n \in Seq(T) /\ Len(n) \in Nat
  BY <1>3 DEF Normal
<1>6. Normal(T, From(n, k))
  <2>1. /\ From(n, k) \in Seq(T) /\ Len(From(n, k)) = Len(n) - k + 1
        /\ \A i \in 1..Len(n) - k + 1 : From(n, k)[i] = n[k + i - 1]
    BY <1>4, <1>5, FromOf
  <2>2. ASSUME NEW i \in 1..Len(n) - k + 1
        PROVE  k + i - 1 \in 1..Len(n)
    BY <1>4, <1>5
  <2> QED
    BY <1>3, <2>1, <2>2 DEF Normal
<1>7. bp.url = From(n, k)
  BY <1>4, <1>6, NormalizeKeeps
<1>8. HasPart(Lower(n), Lower(bp.url))
  BY <1>4, <1>5, <1>7, EndIsPart
<1> QED
  BY <1>8 DEF Matches, PlainMatch, n

-----------------------------------------------------------------------------
(* In the case the client pleases, and by a regular expression.             *)

Lowered(S) == S \union {LowerOf[x] : x \in DOMAIN LowerOf}

LEMMA LowerIs ==
    ASSUME NEW S, NEW s \in Seq(S)
    PROVE  /\ Lower(s) \in Seq(Lowered(S)) /\ Len(Lower(s)) = Len(s)
           /\ \A i \in 1..Len(s) : Lower(s)[i] = IF s[i] \in DOMAIN LowerOf THEN LowerOf[s[i]] ELSE s[i]
<1>1. \A i \in 1..Len(s) : (IF s[i] \in DOMAIN LowerOf THEN LowerOf[s[i]] ELSE s[i]) \in Lowered(S)
  BY DEF Lowered
<1> QED
  BY <1>1 DEF Lower

LEMMA LowerTwice ==
    ASSUME NEW S, NEW s \in Seq(S)
    PROVE  Lower(Lower(s)) = Lower(s)
<1> DEFINE a == Lower(s)
           b == Lower(a)
<1>1. /\ a \in Seq(Lowered(S)) /\ Len(a) = Len(s)
      /\ \A i \in 1..Len(s) : a[i] = IF s[i] \in DOMAIN LowerOf THEN LowerOf[s[i]] ELSE s[i]
  BY LowerIs
<1> HIDE DEF a
<1>2. /\ b \in Seq(Lowered(Lowered(S))) /\ Len(b) = Len(a)
      /\ \A i \in 1..Len(a) : b[i] = IF a[i] \in DOMAIN LowerOf THEN LowerOf[a[i]] ELSE a[i]
  BY <1>1, LowerIs
<1>3. a \in Seq(Lowered(Lowered(S)))
  <2>1. Lowered(S) \subseteq Lowered(Lowered(S))
    BY DEF Lowered
  <2> QED
    BY <1>1, <2>1, SeqMonotonic
<1> HIDE DEF b
<1>4. \A i \in 1..Len(b) : b[i] = a[i]
  BY <1>1, <1>2, UrlAssumption
<1>5. b = a
  BY <1>2, <1>3, <1>4, SeqEqual
<1> QED
  BY <1>5 DEF a, b

LEMMA PrefixIs ==
    ASSUME NEW S, NEW p \in Seq(S), NEW s \in Seq(S)
    PROVE  IsPrefix(p, s) <=> Len(p) <= Len(s) /\ \A i \in 1..Len(p) : p[i] = s[i]
<1>1. Len(p) \in Nat /\ Len(s) \in Nat
  OBVIOUS
<1>2. /\ SubSeq(p, 1, Len(p)) \in Seq(S) /\ Len(SubSeq(p, 1, Len(p))) = Len(p)
      /\ \A i \in 1..Len(p) : SubSeq(p, 1, Len(p))[i] = p[i]
  OBVIOUS
<1>3. ASSUME Len(p) <= Len(s)
      PROVE  /\ SubSeq(s, 1, Len(p)) \in Seq(S) /\ Len(SubSeq(s, 1, Len(p))) = Len(p)
             /\ \A i \in 1..Len(p) : SubSeq(s, 1, Len(p))[i] = s[i]
  BY <1>1, <1>3
<1>4. ASSUME Len(p) <= Len(s), \A i \in 1..Len(p) : p[i] = s[i]
      PROVE  SubSeq(p, 1, Len(p)) = SubSeq(s, 1, Len(p))
  BY <1>2, <1>3, <1>4, SeqEqual
<1> QED
  BY <1>2, <1>3, <1>4 DEF IsPrefix

\* Lower case leaves the scheme and the slashes as they are.
LEMMA PrefixLowered ==
    ASSUME NEW S, {"file:", "/"} \subseteq S, NEW u \in Seq(S), NEW p \in Seq({"file:", "/"})
    PROVE  IsPrefix(p, Lower(u)) <=> IsPrefix(p, u)
<1> DEFINE a == Lower(u)
<1>1. /\ a \in Seq(Lowered(S)) /\ Len(a) = Len(u)
      /\ \A i \in 1..Len(u) : a[i] = IF u[i] \in DOMAIN LowerOf THEN LowerOf[u[i]] ELSE u[i]
  BY LowerIs
<1> HIDE DEF a
<1>2. p \in Seq(S) /\ p \in Seq(Lowered(S)) /\ Len(p) \in Nat /\ Len(u) \in Nat
  <2>1. {"file:", "/"} \subseteq Lowered(S)
    BY DEF Lowered
  <2> QED
    BY <2>1, SeqMonotonic
<1>3. ASSUME Len(p) <= Len(u), NEW i \in 1..Len(p)
      PROVE  p[i] = a[i] <=> p[i] = u[i]
  <2>1. p[i] \in {"file:", "/"} /\ i \in 1..Len(u)
    BY <1>2, <1>3
  <2>2. p[i] \notin DOMAIN LowerOf /\ p[i] \notin Range(LowerOf)
    BY <2>1, UrlAssumption
  <2>3. u[i] \in DOMAIN LowerOf => LowerOf[u[i]] \in Range(LowerOf)
    BY DEF Range
  <2> QED
    BY <1>1, <2>1, <2>2, <2>3
<1>4. IsPrefix(p, a) <=> Len(p) <= Len(u) /\ \A i \in 1..Len(p) : p[i] = a[i]
  BY <1>1, <1>2, PrefixIs
<1>5. IsPrefix(p, u) <=> Len(p) <= Len(u) /\ \A i \in 1..Len(p) : p[i] = u[i]
  BY <1>2, PrefixIs
<1>6. IsPrefix(p, a) <=> IsPrefix(p, u)
  BY <1>3, <1>4, <1>5
<1> QED
  BY <1>6 DEF a

LEMMA LowerFrom ==
    ASSUME NEW S, NEW u \in Seq(S), NEW k \in 1..Len(u) + 1
    PROVE  From(Lower(u), k) = Lower(From(u, k))
<1> DEFINE a == Lower(u)
           t == From(u, k)
           b == Lower(t)
           c == From(a, k)
<1>0. Len(u) \in Nat
  OBVIOUS
<1>1. /\ a \in Seq(Lowered(S)) /\ Len(a) = Len(u)
      /\ \A i \in 1..Len(u) : a[i] = IF u[i] \in DOMAIN LowerOf THEN LowerOf[u[i]] ELSE u[i]
  BY LowerIs
<1>2. /\ t \in Seq(S) /\ Len(t) = Len(u) - k + 1
      /\ \A i \in 1..Len(u) - k + 1 : t[i] = u[k + i - 1]
  BY FromOf
<1> HIDE DEF a, t
<1>3. /\ b \in Seq(Lowered(S)) /\ Len(b) = Len(t)
      /\ \A i \in 1..Len(t) : b[i] = IF t[i] \in DOMAIN LowerOf THEN LowerOf[t[i]] ELSE t[i]
  BY <1>2, LowerIs
<1>4. /\ c \in Seq(Lowered(S)) /\ Len(c) = Len(a) - k + 1
      /\ \A i \in 1..Len(a) - k + 1 : c[i] = a[k + i - 1]
  <2> DEFINE T == Lowered(S)
  <2>1. a \in Seq(T) /\ k \in 1..Len(a) + 1
    BY <1>1
  <2> HIDE DEF T
  <2>2. /\ From(a, k) \in Seq(T) /\ Len(From(a, k)) = Len(a) - k + 1
        /\ \A i \in 1..Len(a) - k + 1 : From(a, k)[i] = a[k + i - 1]
    BY <2>1, FromOf
  <2> QED
    BY <2>2 DEF T
<1> HIDE DEF b, c
<1>5. ASSUME NEW i \in 1..Len(c)
      PROVE  c[i] = b[i]
  <2> DEFINE j == k + i - 1
  <2>1. j \in 1..Len(u) /\ i \in 1..Len(t) /\ c[i] = a[j] /\ t[i] = u[j]
    BY <1>0, <1>1, <1>2, <1>4
  <2> HIDE DEF j
  <2> QED
    BY <1>1, <1>3, <2>1
<1>6. c = b
  BY <1>0, <1>1, <1>2, <1>3, <1>4, <1>5, SeqEqual
<1> QED
  BY <1>6 DEF a, t, b, c

LEMMA StripLowered ==
    ASSUME NEW S, {"file:", "/"} \subseteq S, NEW u \in Seq(S)
    PROVE  Strip(Lower(u)) = Lower(Strip(u))
<1> DEFINE a == Lower(u)
<1>1. Scheme \in Seq({"file:", "/"}) /\ Append(Scheme, "/") \in Seq({"file:", "/"})
      /\ Len(Scheme) = 3 /\ Len(Append(Scheme, "/")) = 4
  BY DEF Scheme
<1>2. /\ IsPrefix(Scheme, a) <=> IsPrefix(Scheme, u)
      /\ IsPrefix(Append(Scheme, "/"), a) <=> IsPrefix(Append(Scheme, "/"), u)
  BY <1>1, PrefixLowered
<1>3. Len(a) = Len(u)
  BY LowerIs
<1>0. Len(u) \in Nat
  OBVIOUS
<1>4. \A k \in 1..Len(u) + 1 : From(a, k) = Lower(From(u, k))
  BY LowerFrom
<1> HIDE DEF a
<1>5. CASE IsPrefix(Append(Scheme, "/"), u)
  <2>1. 5 \in 1..Len(u) + 1
    BY <1>0, <1>1, <1>3, <1>5 DEF IsPrefix
  <2>2. Strip(u) = From(u, 5) /\ Strip(a) = From(a, 5)
    BY <1>1, <1>2, <1>5 DEF Strip, From
  <2> QED
    BY <1>4, <2>1, <2>2 DEF a
<1>6. CASE ~IsPrefix(Append(Scheme, "/"), u) /\ IsPrefix(Scheme, u)
  <2>1. 4 \in 1..Len(u) + 1
    BY <1>0, <1>1, <1>3, <1>6 DEF IsPrefix
  <2>2. Strip(u) = From(u, 4) /\ Strip(a) = From(a, 4)
    BY <1>1, <1>2, <1>6 DEF Strip, From
  <2> QED
    BY <1>4, <2>1, <2>2 DEF a
<1>7. CASE ~IsPrefix(Append(Scheme, "/"), u) /\ ~IsPrefix(Scheme, u)
  BY <1>2, <1>7 DEF Strip, a
<1> QED
  BY <1>5, <1>6, <1>7

\* So does a breakpoint set under that URL in lower case, as an editor on
\* Windows sends it (debug_session.cpp:224-236, 264-302): the matching of parts
\* of names does not tell case from case.
THEOREM LowerCaseUrlBinds ==
    ASSUME NEW S, NEW name \in Seq(S), NEW windows \in BOOLEAN,
           NEW bp, ~bp.regex, bp.url = Normalize(Strip(Lower(ToFileUrl(name))))
    PROVE  Matches(windows, name, bp)
<1> DEFINE T == S \union {"file:", "/"}
           n == Normalize(name)
           u == ToFileUrl(name)
<1>1. name \in Seq(T)
  OBVIOUS
<1>2. {"file:", "/"} \subseteq T /\ "/" \in T
  OBVIOUS
<1> HIDE DEF T
<1>3. Normal(T, n)
  BY <1>1, <1>2, Normalized
<1>4. PICK k \in 1..Len(n) + 1 : Strip(u) = From(n, k)
  BY <1>1, <1>2, AnnouncedIsEnd
<1>5. u \in Seq(T)
  <2>1. n \in Seq(T)
    BY <1>3 DEF Normal
  <2>2. Scheme \in Seq(T) /\ <<"/">> \o n \in Seq(T)
    <3>1. Scheme \in Seq({"file:", "/"}) /\ <<"/">> \in Seq({"file:", "/"})
      BY DEF Scheme
    <3>2. Scheme \in Seq(T) /\ <<"/">> \in Seq(T)
      BY <1>2, <3>1, SeqMonotonic
    <3> HIDE DEF n
    <3> QED
      BY <2>1, <3>2, ConcatProperties
  <2>3. u \in {n, Scheme \o n, Scheme \o (<<"/">> \o n)}
    BY DEF ToFileUrl
  <2> HIDE DEF n, u
  <2> QED
    BY <2>1, <2>2, <2>3, ConcatProperties
<1> HIDE DEF n, u
<1>6. n \in Seq(T) /\ Len(n) \in Nat /\ \A i \in 1..Len(n) : n[i] # "\\"
  BY <1>3 DEF Normal
<1> DEFINE t == From(n, k)
           a == Lower(t)
<1>7. Strip(Lower(u)) = a
  BY <1>2, <1>4, <1>5, StripLowered
<1>8. /\ t \in Seq(T) /\ Len(t) = Len(n) - k + 1
      /\ \A i \in 1..Len(n) - k + 1 : t[i] = n[k + i - 1]
  BY <1>4, <1>6, FromOf
<1>9. HasPart(Lower(n), a)
  BY <1>4, <1>6, EndIsPart
<1> HIDE DEF t
<1>10. /\ a \in Seq(Lowered(T)) /\ Len(a) = Len(t)
       /\ \A i \in 1..Len(t) : a[i] = IF t[i] \in DOMAIN LowerOf THEN LowerOf[t[i]] ELSE t[i]
  BY <1>8, LowerIs
<1>11. Lower(a) = a
  BY <1>8, LowerTwice
<1> HIDE DEF a
<1>12. Normal(Lowered(T), a)
  <2>1. ASSUME NEW i \in 1..Len(a) PROVE a[i] # "\\"
    <3> DEFINE j == k + i - 1
    <3>1. i \in 1..Len(t) /\ j \in 1..Len(n) /\ t[i] = n[j]
      BY <1>4, <1>6, <1>8, <1>10
    <3> HIDE DEF j
    <3>2. t[i] # "\\"
      BY <1>6, <3>1
    <3>3. t[i] \in DOMAIN LowerOf => LowerOf[t[i]] \in Range(LowerOf)
      BY DEF Range
    <3>4. "\\" \notin Range(LowerOf)
      BY UrlAssumption
    <3> QED
      BY <1>10, <3>1, <3>2, <3>3, <3>4
  <2> QED
    BY <1>10, <2>1 DEF Normal
<1>13. bp.url = a
  BY <1>7, <1>12, NormalizeKeeps DEF u
<1>14. HasPart(Lower(n), Lower(bp.url))
  BY <1>9, <1>11, <1>13
<1> QED
  BY <1>14 DEF Matches, PlainMatch, n

\* And one set by a regular expression that finds something in the URL, for a
\* script added under its normalized path (debug_session.cpp:154-158, 270-287).
THEOREM RegexBinds ==
    ASSUME NEW S, NEW name \in Seq(S), NEW windows, Normalize(name) = name,
           NEW bp, bp.regex, bp.url \notin BadRegexes, Finds(bp.url, ToFileUrl(name))
    PROVE  Matches(windows, name, bp)
  BY DEF Matches

-----------------------------------------------------------------------------
(* The script of a call frame.                                              *)

\* A path the engine reports is taken for the script added under it, unless an
\* earlier script has that name or that base name (find_script_id,
\* debug_session.cpp:154-168).
THEOREM OwnScriptFound ==
    ASSUME NEW windows \in BOOLEAN, NEW scripts, NEW name, Len(scripts) \in Nat,
           NEW k \in 1..Len(scripts), scripts[k] = Normalize(name),
           \A i \in 1..k - 1 : /\ ~PathsMatch(windows, scripts[i], Normalize(name))
                               /\ Base(scripts[i]) # <<>> =>
                                     ~PathsMatch(windows, Base(scripts[i]), Base(Normalize(name)))
    PROVE  FindScript(windows, scripts, name) = k
<1> DEFINE n == Normalize(name)
           fits == {i \in 1..Len(scripts) :
                       \/ PathsMatch(windows, scripts[i], n)
                       \/ PathsMatch(windows, Base(scripts[i]), Base(n)) /\ Base(scripts[i]) # <<>>}
<1>1. PathsMatch(windows, scripts[k], n)
  BY DEF PathsMatch
<1>2. k \in fits /\ fits \in SUBSET Nat /\ \A i \in fits : i \in Nat /\ ~(i \in 1..k - 1)
  BY <1>1
<1>3. FindScript(windows, scripts, name) = Min(fits)
  BY <1>2 DEF FindScript
<1> HIDE DEF fits
<1>4. \A i \in fits : k <= i
  <2>1. \A i \in fits : i # 0
    BY DEF fits
  <2> QED
    BY <1>2, <2>1
<1>5. Min(fits) = CHOOSE x \in fits : \A y \in fits : x <= y
  BY DEF Min
<1>6. \A x \in fits : (\A y \in fits : x <= y) => x = k
  BY <1>2, <1>4
<1>7. Min(fits) = k
  BY <1>2, <1>4, <1>5, <1>6
<1> QED
  BY <1>3, <1>7
=============================================================================
