-------------------------- MODULE TraceHandlerProofs --------------------------
(***************************************************************************)
(* What the handler knows of the engine's call stack, for every program,   *)
(* every depth and every client of TraceHandler: frame_stack_, and every   *)
(* list of frames made from it, has each frame whose last statement the    *)
(* handler was told of at that statement, whatever the engine has run      *)
(* since, with the session enabled or disabled.                            *)
(***************************************************************************)
EXTENDS TraceHandler, SequenceTheorems, WellFoundedInduction, TLAPS

Listed == [at : Frame, level : Int]

Interruption == [kind : {"condition", "getter", "evaluate"}, base : Nat \ {0},
                 hit : Nat, standing : SUBSET Nat, frames : Seq(Listed)]

\* The engine's stack is never empty, and only its frames can have been missed.
Stacks == stack \in Seq(Frame) /\ Len(stack) >= 1 /\ unseen \in SUBSET (1..Len(stack))

\* The sequences of the model.
Typed ==
    /\ Stacks
    /\ frame_stack \in Seq(Frame)
    /\ outer \in Seq(Interruption)
    /\ frames \in Seq(Listed)
    /\ hit \in Nat /\ standing \in SUBSET Nat
    /\ DOMAIN breakpoints \subseteq Nat /\ next_bp_id \in Nat

\* What there is to know of the engine's frames: their statements, except of
\* those whose last one the handler was not told of.
Seen == [i \in 1..Len(stack) |-> IF Known(i) THEN stack[i] ELSE Nowhere]

\* Every frame that is known is tracked at its level.
Tracked ==
    \A i \in 1..Len(stack) : Seen[i] # Nowhere =>
        i <= Len(frame_stack) /\ frame_stack[i] = Seen[i]

\* Interrupted handlers stand at different frames, innermost last.
Nested ==
    /\ \A i \in 1..Len(outer) : outer[i].base < Len(stack)
    /\ \A i, j \in 1..Len(outer) : i < j => outer[i].base < outer[j].base

\* The list names the innermost of the first n frames of s.
Lists(list, s, n) ==
    /\ Len(list) <= n
    /\ \A k \in 1..Len(list) : s[n - k + 1] # Nowhere => list[k].at = s[n - k + 1]

\* What an interrupted handler has listed stays true; it tracked its frames.
Kept ==
    \A i \in 1..Len(outer) :
        /\ outer[i].kind # "condition" => Lists(outer[i].frames, Seen, outer[i].base)
        /\ outer[i].kind = "evaluate" => Len(outer[i].frames) = outer[i].base
        /\ outer[i].kind = "getter" => outer[i].base <= Len(frame_stack)

\* What the running handler has listed.
Current ==
    /\ pc \in {"walk", "paused"} => Lists(frames, Seen, Len(stack))
    /\ pc = "walk" => Len(stack) <= Len(frame_stack)
    /\ pc = "walk" /\ ~disturbed => frames = <<>> /\ Len(frame_stack) = Len(stack)
    /\ pc = "paused" => Len(frames) = Len(stack)
    /\ pc = "paused" /\ ~disturbed => \A k \in 1..Len(frames) : frames[k].level = k - 1

FrameInvariant == Typed /\ Tracked /\ Nested /\ Kept /\ Current

USE DEF Stacks, vars, engine, flags, steps, table, locals, history

\* The fields of an interruption, and of all there are.
LEMMA Fields ==
    ASSUME NEW e \in Interruption
    PROVE  /\ e.base \in Nat /\ e.base >= 1 /\ e.hit \in Nat /\ e.standing \in SUBSET Nat
           /\ e.frames \in Seq(Listed) /\ Len(e.frames) \in Nat
<1>1. /\ e.base \in Nat \ {0} /\ e.hit \in Nat /\ e.standing \in SUBSET Nat
      /\ e.frames \in Seq(Listed)
  BY DEF Interruption
<1> QED
  BY <1>1

LEMMA OuterFields ==
    Typed => \A i \in 1..Len(outer) :
        /\ outer[i] \in Interruption
        /\ outer[i].base \in Nat /\ outer[i].base >= 1 /\ Len(outer[i].frames) \in Nat
<1> SUFFICES ASSUME Typed, NEW i \in 1..Len(outer)
             PROVE  /\ outer[i] \in Interruption
                    /\ outer[i].base \in Nat /\ outer[i].base >= 1 /\ Len(outer[i].frames) \in Nat
  OBVIOUS
<1>1. outer[i] \in Interruption
  BY DEF Typed
<1> QED
  BY <1>1, Fields

\* What Front returns (the community module defines it by SubSeq).
LEMMA FrontOf ==
    ASSUME NEW S, NEW s \in Seq(S), Len(s) >= 1
    PROVE  /\ Front(s) \in Seq(S)
           /\ Len(Front(s)) = Len(s) - 1
           /\ \A i \in 1..Len(s) - 1 : Front(s)[i] = s[i]
<1> DEFINE n == Len(s) - 1
<1>1. n \in Nat /\ \A i \in 1..n : s[i] \in S
  OBVIOUS
<1>2. /\ SubSeq(s, 1, n) \in Seq(S)
      /\ Len(SubSeq(s, 1, n)) = IF 1 <= n THEN n - 1 + 1 ELSE 0
      /\ \A i \in 1..n - 1 + 1 : SubSeq(s, 1, n)[i] = s[1 + i - 1]
  <2> HIDE DEF n
  <2> QED
    BY <1>1, SubSeqProperties
<1>3. Front(s) = SubSeq(s, 1, n)
  BY DEF Front
<1>4. Len(SubSeq(s, 1, n)) = n
  <2> HIDE DEF n
  <2> QED
    BY <1>1, <1>2
<1>5. ASSUME NEW i \in 1..n
      PROVE  SubSeq(s, 1, n)[i] = s[i]
  <2> HIDE DEF n
  <2>1. i \in 1..n - 1 + 1 /\ 1 + i - 1 = i
    BY <1>1
  <2> QED
    BY <1>2, <2>1
<1> QED
  BY <1>2, <1>3, <1>4, <1>5

\* The least of a set of ids is one of them, and below the others.
LEMMA LeastOf ==
    ASSUME NEW T \in SUBSET Nat, T # {}
    PROVE  Min(T) \in T /\ \A y \in T : Min(T) <= y
<1> DEFINE Less == {ss \in Nat \X Nat : ss[1] < ss[2]}
<1>1. IsWellFoundedOn(Less, Nat)
  BY NatLessThanWellFounded DEF OpToRel
<1>2. PICK x \in T : \A y \in T : ~(<<y, x>> \in Less)
  <2> HIDE DEF Less
  <2> QED
    BY <1>1, WFMin
<1>3. ASSUME NEW y \in T
      PROVE  x <= y
  <2>1. x \in Nat /\ y \in Nat
    OBVIOUS
  <2>2. <<y, x>> \in Less <=> y < x
    BY <2>1
  <2> QED
    BY <1>2, <2>1, <2>2
<1> QED
  BY <1>3 DEF Min

\* frame_stack_ after a callback has the engine's depth, the callback's place
\* on top and what it had below (debug_session.cpp:916-924).
LEMMA TrackOf ==
    ASSUME frame_stack \in Seq(Frame), NEW d \in Nat, NEW p \in Frame
    PROVE  /\ Track(d, p) \in Seq(Frame)
           /\ Len(Track(d, p)) = d
           /\ \A i \in 1..d : Track(d, p)[i] =
                 IF i = d THEN p
                 ELSE IF i <= Len(frame_stack) THEN frame_stack[i] ELSE Nowhere
<1>1. \A i \in 1..d : (IF i = d THEN p
                       ELSE IF i <= Len(frame_stack) THEN frame_stack[i] ELSE Nowhere) \in Frame
  BY DEF Frame
<1>2. Track(d, p) \in [1..d -> Frame]
  BY <1>1 DEF Track
<1>3. Track(d, p) \in Seq(Frame) /\ Len(Track(d, p)) = d
  BY <1>2
<1> QED
  BY <1>3 DEF Track

\* The session starts with nothing tracked and nothing interrupted.
LEMMA InitFrames == Init => FrameInvariant
<1> SUFFICES ASSUME Init PROVE FrameInvariant
  OBVIOUS
<1>1. Typed
  BY DEF Init, Typed, Frame
<1>2. Tracked
  BY DEF Init, Tracked, Seen, Known
<1>3. Nested /\ Kept /\ Current
  BY DEF Init, Nested, Kept, Current
<1> QED
  BY <1>1, <1>2, <1>3 DEF FrameInvariant

\* What the handler knows after a call, a return, a statement it is told of and
\* one it is not told of: it changes at the top only.
LEMMA Pushed ==
    ASSUME Stacks, stack' = Append(stack, Nowhere), UNCHANGED unseen
    PROVE  /\ Stacks' /\ Len(stack') = Len(stack) + 1
           /\ \A k \in 1..Len(stack) : Seen'[k] = Seen[k]
           /\ Seen'[Len(stack) + 1] = Nowhere
<1>1. Nowhere \in Frame /\ stack \in Seq(Frame) /\ Len(stack) \in Nat
  BY DEF Frame
<1>2. /\ stack' \in Seq(Frame) /\ Len(stack') = Len(stack) + 1
      /\ \A k \in 1..Len(stack) : stack'[k] = stack[k]
      /\ stack'[Len(stack) + 1] = Nowhere
  BY <1>1, AppendProperties
<1> QED
  BY <1>1, <1>2 DEF Seen, Known

LEMMA Popped ==
    ASSUME Stacks, Len(stack) >= 2, stack' = Front(stack), unseen' = unseen \ {Len(stack)}
    PROVE  /\ Stacks' /\ Len(stack') = Len(stack) - 1
           /\ \A k \in 1..Len(stack) - 1 : Seen'[k] = Seen[k]
<1> DEFINE n == Len(stack)
<1>1. stack \in Seq(Frame) /\ n \in Nat /\ n >= 2 /\ unseen \in SUBSET (1..n)
  OBVIOUS
<1>2. /\ stack' \in Seq(Frame) /\ Len(stack') = n - 1
      /\ \A k \in 1..n - 1 : stack'[k] = stack[k]
  BY <1>1, FrontOf
<1>3. unseen' = unseen \ {n}
  OBVIOUS
<1> HIDE DEF n
<1>4. unseen' \in SUBSET (1..n - 1)
  <2>1. \A k \in 1..n : k # n => k \in 1..n - 1
    BY <1>1
  <2> QED
    BY <1>1, <1>3, <2>1
<1>5. ASSUME NEW k \in 1..n - 1
      PROVE  Seen'[k] = Seen[k]
  <2>1. k # n /\ k \in 1..n /\ k \in 1..Len(stack')
    BY <1>1, <1>2
  <2>2. Known(k)' <=> Known(k)
    BY <1>2, <1>3, <2>1 DEF Known
  <2>3. Seen[k] = IF Known(k) THEN stack[k] ELSE Nowhere
    BY <2>1 DEF Seen, n
  <2>4. Seen'[k] = IF Known(k)' THEN stack'[k] ELSE Nowhere
    BY <2>1 DEF Seen
  <2> QED
    BY <1>2, <2>2, <2>3, <2>4
<1>6. Len(stack') >= 1
  BY <1>1, <1>2
<1> QED
  BY <1>2, <1>4, <1>5, <1>6 DEF n

LEMMA Replaced ==
    ASSUME Stacks, NEW p \in Frame, stack' = ReplaceAt(stack, Len(stack), p),
           unseen' \in {unseen, unseen \ {Len(stack)}, unseen \union {Len(stack)}}
    PROVE  /\ Stacks' /\ Len(stack') = Len(stack)
           /\ \A k \in 1..Len(stack) - 1 : Seen'[k] = Seen[k]
           /\ Seen'[Len(stack)] \in {p, Nowhere}
<1> DEFINE n == Len(stack)
<1>1. stack \in Seq(Frame) /\ n \in Nat /\ n >= 1 /\ unseen \in SUBSET (1..n)
  OBVIOUS
<1>2. /\ stack' \in Seq(Frame) /\ Len(stack') = n
      /\ \A k \in 1..n : stack'[k] = IF k = n THEN p ELSE stack[k]
  BY <1>1 DEF ReplaceAt
<1>3. unseen' \in {unseen, unseen \ {n}, unseen \union {n}}
  OBVIOUS
<1>4. \A k \in 1..n : Seen[k] = IF Known(k) THEN stack[k] ELSE Nowhere
  BY DEF Seen
<1>5. \A k \in 1..n : Seen'[k] = IF Known(k)' THEN stack'[k] ELSE Nowhere
  BY <1>2 DEF Seen
<1> HIDE DEF n
<1>6. unseen' \in SUBSET (1..n)
  BY <1>1, <1>3
<1>7. ASSUME NEW k \in 1..n - 1
      PROVE  Seen'[k] = Seen[k]
  <2>1. k # n /\ k \in 1..n
    BY <1>1
  <2>2. Known(k)' <=> Known(k)
    BY <1>2, <1>3, <2>1 DEF Known
  <2> QED
    BY <1>2, <1>4, <1>5, <2>1, <2>2
<1>8. Seen'[n] \in {p, Nowhere}
  BY <1>1, <1>2, <1>5
<1> QED
  BY <1>1, <1>2, <1>6, <1>7, <1>8 DEF n

LEMMA Skipped ==
    ASSUME Stacks, NEW p \in Frame, stack' = ReplaceAt(stack, Len(stack), p),
           unseen' = unseen \union {Len(stack)}
    PROVE  Seen'[Len(stack)] = Nowhere
  BY DEF Seen, Known, ReplaceAt

\* Calling a function keeps the frames tracked: the new one has reached no
\* statement (the engine's stack grows between two callbacks).
LEMMA Push ==
    Typed /\ Tracked /\ stack' = Append(stack, Nowhere) /\ UNCHANGED <<unseen, frame_stack>>
        => Stacks' /\ Tracked'
<1> SUFFICES ASSUME Typed, Tracked, stack' = Append(stack, Nowhere),
                    UNCHANGED <<unseen, frame_stack>>
             PROVE  Stacks' /\ Tracked'
  OBVIOUS
<1>1. /\ Stacks' /\ Len(stack') = Len(stack) + 1
      /\ \A i \in 1..Len(stack) : Seen'[i] = Seen[i]
      /\ Seen'[Len(stack) + 1] = Nowhere
  BY Pushed DEF Typed
<1>2. Len(stack) \in Nat
  BY DEF Typed
<1>3. ASSUME NEW i \in 1..Len(stack'), Seen'[i] # Nowhere
      PROVE  i <= Len(frame_stack) /\ frame_stack[i] = Seen'[i]
  BY <1>1, <1>2, <1>3 DEF Tracked
<1> QED
  BY <1>1, <1>3 DEF Tracked

\* Returning from a function keeps the frames below it tracked (frame_stack_
\* is cut only at the next callback).
LEMMA Pop ==
    (/\ Typed /\ Tracked /\ Len(stack) >= 2
     /\ stack' = Front(stack) /\ unseen' = unseen \ {Len(stack)} /\ UNCHANGED frame_stack)
        => Stacks' /\ Tracked'
<1> SUFFICES ASSUME Typed, Tracked, Len(stack) >= 2, stack' = Front(stack),
                    unseen' = unseen \ {Len(stack)}, UNCHANGED frame_stack
             PROVE  Stacks' /\ Tracked'
  OBVIOUS
<1>1. /\ Stacks' /\ Len(stack') = Len(stack) - 1
      /\ \A i \in 1..Len(stack) - 1 : Seen'[i] = Seen[i]
  BY Popped DEF Typed
<1>2. Len(stack) \in Nat
  BY DEF Typed
<1>3. ASSUME NEW i \in 1..Len(stack'), Seen'[i] # Nowhere
      PROVE  i <= Len(frame_stack) /\ frame_stack[i] = Seen'[i]
  BY <1>1, <1>2, <1>3 DEF Tracked
<1> QED
  BY <1>1, <1>3 DEF Tracked

\* A callback leaves every known frame tracked and none too many, whatever had
\* been called or returned since the last one (debug_session.cpp:916-924).
LEMMA TrackTop ==
    ASSUME NEW p \in Frame
    PROVE  /\ Typed /\ Tracked
           /\ stack' = ReplaceAt(stack, Len(stack), p) /\ unseen' \in {unseen, unseen \ {Len(stack)}}
           /\ frame_stack' = Track(Len(stack), p)
           => /\ Stacks' /\ Len(stack') = Len(stack)
              /\ \A k \in 1..Len(stack) - 1 : Seen'[k] = Seen[k]
              /\ frame_stack' \in Seq(Frame) /\ Len(frame_stack') = Len(stack')
              /\ Tracked'
<1> SUFFICES ASSUME Typed, Tracked, stack' = ReplaceAt(stack, Len(stack), p),
                    unseen' \in {unseen, unseen \ {Len(stack)}},
                    frame_stack' = Track(Len(stack), p)
             PROVE  /\ Stacks' /\ Len(stack') = Len(stack)
                    /\ \A k \in 1..Len(stack) - 1 : Seen'[k] = Seen[k]
                    /\ frame_stack' \in Seq(Frame) /\ Len(frame_stack') = Len(stack')
                    /\ Tracked'
  OBVIOUS
<1> DEFINE n == Len(stack)
<1>1. n \in Nat /\ n >= 1
  BY DEF Typed
<1>2. /\ Stacks' /\ Len(stack') = n
      /\ \A i \in 1..n - 1 : Seen'[i] = Seen[i]
      /\ Seen'[n] \in {p, Nowhere}
  BY Replaced DEF Typed
<1>3. /\ frame_stack' \in Seq(Frame) /\ Len(frame_stack') = n
      /\ \A i \in 1..n : frame_stack'[i] =
            IF i = n THEN p ELSE IF i <= Len(frame_stack) THEN frame_stack[i] ELSE Nowhere
  <2>1. frame_stack \in Seq(Frame) /\ frame_stack' = Track(n, p)
    BY DEF Typed
  <2> HIDE DEF n
  <2>2. /\ Track(n, p) \in Seq(Frame) /\ Len(Track(n, p)) = n
        /\ \A i \in 1..n : Track(n, p)[i] =
              IF i = n THEN p ELSE IF i <= Len(frame_stack) THEN frame_stack[i] ELSE Nowhere
    BY <1>1, <2>1, TrackOf
  <2> QED
    BY <2>1, <2>2
<1>4. \A i \in 1..n : Seen'[i] # Nowhere => frame_stack'[i] = Seen'[i]
  BY <1>1, <1>2, <1>3 DEF Tracked
<1> QED
  BY <1>1, <1>2, <1>3, <1>4 DEF Tracked

\* A list stays true as long as the frames it names are there.
LEMMA ListsBelow ==
    ASSUME NEW list, NEW s, NEW t, NEW n \in Nat, Len(list) \in Nat,
           \A i \in 1..n : t[i] = s[i], Lists(list, s, n)
    PROVE  Lists(list, t, n)
<1> SUFFICES ASSUME NEW k \in 1..Len(list), t[n - k + 1] # Nowhere
             PROVE  list[k].at = t[n - k + 1]
  BY DEF Lists
<1>1. n - k + 1 \in 1..n
  BY DEF Lists
<1> QED
  BY <1>1 DEF Lists

\* What the interrupted handlers know survives whatever happens above the
\* frames they stand at.
LEMMA Below ==
    /\ Typed /\ Nested /\ Kept /\ outer' = outer
    /\ stack' \in Seq(Frame) /\ frame_stack' \in Seq(Frame)
    /\ \A i \in 1..Len(outer) :
          /\ outer[i].base < Len(stack')
          /\ outer[i].kind = "getter" => outer[i].base <= Len(frame_stack')
          /\ \A k \in 1..outer[i].base : Seen'[k] = Seen[k]
    => Nested' /\ Kept'
<1> SUFFICES ASSUME Typed, Nested, Kept, outer' = outer,
                    stack' \in Seq(Frame), frame_stack' \in Seq(Frame),
                    \A i \in 1..Len(outer) :
                        /\ outer[i].base < Len(stack')
                        /\ outer[i].kind = "getter" => outer[i].base <= Len(frame_stack')
                        /\ \A k \in 1..outer[i].base : Seen'[k] = Seen[k]
             PROVE  Nested' /\ Kept'
  OBVIOUS
<1>1. Nested'
  BY DEF Nested
<1>2. ASSUME NEW i \in 1..Len(outer), outer[i].kind # "condition"
      PROVE  Lists(outer[i].frames, Seen', outer[i].base)
  <2>2. outer[i].base \in Nat /\ Len(outer[i].frames) \in Nat
    BY OuterFields
  <2>3. Lists(outer[i].frames, Seen, outer[i].base)
    BY <1>2 DEF Kept
  <2>4. \A k \in 1..outer[i].base : Seen'[k] = Seen[k]
    OBVIOUS
  <2> QED
    BY <2>2, <2>3, <2>4, ListsBelow
<1>3. Kept'
  BY <1>2 DEF Kept
<1> QED
  BY <1>1, <1>3

\* What capture_frames has listed when it comes to frame j, and the levels it
\* gives if no frame was left on frame_stack_ meanwhile
\* (debug_session.cpp:558-574).
LEMMA ListingOf ==
    ASSUME Typed, Tracked, Lists(frames, Seen, Len(stack)), Len(stack) <= Len(frame_stack),
           NEW j \in 1..Len(stack), j <= Len(stack) - Len(frames) + 1
    PROVE  /\ Listing(j) \in Seq(Listed)
           /\ Len(Listing(j)) = Len(stack) - j + 1
           /\ Lists(Listing(j), Seen, Len(stack))
           /\ frames = <<>> /\ Len(frame_stack) = Len(stack)
              => \A k \in 1..Len(Listing(j)) : Listing(j)[k].level = k - 1
<1> DEFINE d == Len(stack)
           next == d - Len(frames)
           entry(k) == [at |-> frame_stack[next - k + 1],
                        level |-> Len(frame_stack) - (next - k + 1)]
           more == [k \in 1..next - j + 1 |-> entry(k)]
<1>1. /\ d \in Nat /\ next \in Nat /\ next <= d /\ d <= Len(frame_stack)
      /\ next = d - Len(frames) /\ Len(frames) \in Nat /\ j \in Nat /\ j <= next + 1 /\ 1 <= j
      /\ Len(frame_stack) \in Nat
  BY DEF Typed, Lists
<1>2. \A k \in 1..next - j + 1 : entry(k) \in Listed
  <2> SUFFICES ASSUME NEW k \in 1..next - j + 1
               PROVE  entry(k) \in Listed
    OBVIOUS
  <2> HIDE DEF d, next
  <2>1. next - k + 1 \in 1..Len(frame_stack)
    BY <1>1
  <2>2. frame_stack[next - k + 1] \in Frame
    BY <2>1 DEF Typed
  <2> QED
    BY <1>1, <2>1, <2>2 DEF Listed
<1>3. more \in Seq(Listed) /\ Len(more) = next - j + 1
  <2> HIDE DEF d, next, entry
  <2>1. next - j + 1 \in Nat
    BY <1>1
  <2>2. more \in [1..next - j + 1 -> Listed]
    BY <1>2
  <2> QED
    BY <2>1, <2>2
<1>4. \A k \in 1..Len(more) : /\ more[k].at = frame_stack[next - k + 1]
                              /\ more[k].level = Len(frame_stack) - (next - k + 1)
  BY <1>3
<1>5. frames \in Seq(Listed) /\ Listing(j) = frames \o more
  BY DEF Typed, Listing
<1> HIDE DEF more, d, next, entry
<1>6. /\ Listing(j) \in Seq(Listed)
      /\ Len(Listing(j)) = Len(frames) + Len(more)
      /\ \A k \in 1..Len(frames) + Len(more) :
            Listing(j)[k] = IF k <= Len(frames) THEN frames[k] ELSE more[k - Len(frames)]
  <2>1. /\ frames \o more \in Seq(Listed)
        /\ Len(frames \o more) = Len(frames) + Len(more)
        /\ \A k \in 1..Len(frames) + Len(more) :
              (frames \o more)[k] = IF k <= Len(frames) THEN frames[k] ELSE more[k - Len(frames)]
    BY <1>3, <1>5, ConcatProperties
  <2> QED
    BY <1>5, <2>1
<1>7. Len(Listing(j)) = d - j + 1
  BY <1>1, <1>3, <1>6
<1>8. ASSUME NEW k \in 1..Len(Listing(j)), Seen[d - k + 1] # Nowhere
      PROVE  Listing(j)[k].at = Seen[d - k + 1]
  <2>1. CASE k <= Len(frames)
    <3>1. k \in 1..Len(frames) /\ Listing(j)[k] = frames[k]
      BY <1>1, <1>6, <2>1
    <3>2. frames[k].at = Seen[d - k + 1]
      BY <1>8, <3>1 DEF Lists, d
    <3> QED
      BY <3>1, <3>2
  <2>2. CASE k > Len(frames)
    <3>1. k - Len(frames) \in 1..Len(more) /\ next - (k - Len(frames)) + 1 = d - k + 1
      BY <1>1, <1>6, <2>2
    <3>2. Listing(j)[k].at = frame_stack[d - k + 1]
      <4>1. Listing(j)[k] = more[k - Len(frames)]
        BY <1>1, <1>6, <2>2
      <4>2. more[k - Len(frames)].at = frame_stack[next - (k - Len(frames)) + 1]
        BY <1>4, <3>1
      <4> QED
        BY <3>1, <4>1, <4>2
    <3>3. d - k + 1 \in 1..d
      BY <1>1, <1>7
    <3> QED
      BY <1>8, <3>2, <3>3 DEF Tracked, d
  <2> QED
    BY <1>1, <2>1, <2>2
<1>9. Lists(Listing(j), Seen, d)
  BY <1>1, <1>7, <1>8 DEF Lists
<1>10. ASSUME frames = <<>>, Len(frame_stack) = d, NEW k \in 1..Len(Listing(j))
       PROVE  Listing(j)[k].level = k - 1
  <2>1. Len(frames) = 0
    BY <1>10
  <2>2. k \in 1..Len(more) /\ Listing(j)[k] = more[k]
    BY <1>1, <1>6, <2>1
  <2> QED
    BY <1>1, <1>4, <1>10, <2>1, <2>2
<1> QED
  BY <1>6, <1>7, <1>9, <1>10 DEF d

\* When injected code ends, the interrupted handler gets back a list that is
\* true of the frames there are, and so do those further out.
LEMMA OuterPop ==
    Typed /\ Nested /\ Kept /\ outer # <<>>
        => /\ Last(outer) \in Interruption
           /\ Base = Last(outer).base /\ Base \in Nat /\ Base >= 1
           /\ \A i \in 1..Len(outer) : outer[i].base <= Base
           /\ Last(outer).kind # "condition" => Lists(Last(outer).frames, Seen, Base)
           /\ Last(outer).kind = "evaluate" => Len(Last(outer).frames) = Base
           /\ Last(outer).kind = "getter" => Base <= Len(frame_stack)
           /\ /\ outer' = Front(outer) /\ frame_stack' = frame_stack
              /\ stack' \in Seq(Frame) /\ Len(stack') = Base
              /\ \A k \in 1..Base : Seen'[k] = Seen[k]
              => outer' \in Seq(Interruption) /\ Nested' /\ Kept'
<1> SUFFICES ASSUME Typed, Nested, Kept, outer # <<>>
             PROVE  /\ Last(outer) \in Interruption
                    /\ Base = Last(outer).base /\ Base \in Nat /\ Base >= 1
                    /\ \A i \in 1..Len(outer) : outer[i].base <= Base
                    /\ Last(outer).kind # "condition" => Lists(Last(outer).frames, Seen, Base)
                    /\ Last(outer).kind = "evaluate" => Len(Last(outer).frames) = Base
                    /\ Last(outer).kind = "getter" => Base <= Len(frame_stack)
                    /\ /\ outer' = Front(outer) /\ frame_stack' = frame_stack
                       /\ stack' \in Seq(Frame) /\ Len(stack') = Base
                       /\ \A k \in 1..Base : Seen'[k] = Seen[k]
                       => outer' \in Seq(Interruption) /\ Nested' /\ Kept'
  OBVIOUS
<1> DEFINE n == Len(outer)
<1>1. outer \in Seq(Interruption) /\ n >= 1 /\ n \in Nat
  BY DEF Typed
<1>2. Last(outer) = outer[n] /\ n \in 1..n
  BY <1>1 DEF Last
<1>3. \A i \in 1..n : outer[i] \in Interruption /\ outer[i].base \in Nat /\ outer[i].base >= 1
                      /\ Len(outer[i].frames) \in Nat
  BY OuterFields
<1>4. Base = outer[n].base
  BY <1>2 DEF Base
<1>5. \A i \in 1..n : outer[i].base <= Base
  BY <1>1, <1>2, <1>3, <1>4 DEF Nested
<1>6. /\ outer[n].kind # "condition" => Lists(outer[n].frames, Seen, Base)
      /\ outer[n].kind = "evaluate" => Len(outer[n].frames) = Base
      /\ outer[n].kind = "getter" => Base <= Len(frame_stack)
  BY <1>2, <1>4 DEF Kept
<1>7. ASSUME outer' = Front(outer), frame_stack' = frame_stack,
             stack' \in Seq(Frame), Len(stack') = Base,
             \A k \in 1..Base : Seen'[k] = Seen[k]
      PROVE  outer' \in Seq(Interruption) /\ Nested' /\ Kept'
  <2>1. /\ outer' \in Seq(Interruption) /\ Len(outer') = n - 1
        /\ \A i \in 1..n - 1 : outer'[i] = outer[i]
    BY <1>1, <1>7, FrontOf
  <2>2. \A i \in 1..n - 1 : outer[i].base < Base
    BY <1>1, <1>2, <1>4 DEF Nested
  <2>3. Nested'
    <3>1. \A i \in 1..n - 1 : outer'[i].base < Len(stack')
      BY <1>7, <2>1, <2>2
    <3>2. \A i, j \in 1..n - 1 : i < j => outer'[i].base < outer'[j].base
      <4>1. 1..n - 1 \subseteq 1..n
        BY <1>1
      <4> QED
        BY <2>1, <4>1 DEF Nested
    <3> QED
      BY <2>1, <3>1, <3>2 DEF Nested
  <2>4. ASSUME NEW i \in 1..n - 1, outer[i].kind # "condition"
        PROVE  Lists(outer[i].frames, Seen', outer[i].base)
    <3>1. i \in 1..n /\ outer[i].base \in Nat /\ Len(outer[i].frames) \in Nat /\ Base \in Nat
      BY <1>1, <1>2, <1>3, <1>4
    <3>2. \A k \in 1..outer[i].base : Seen'[k] = Seen[k]
      BY <1>7, <2>2, <3>1
    <3>3. Lists(outer[i].frames, Seen, outer[i].base)
      BY <2>4, <3>1 DEF Kept
    <3> QED
      BY <3>1, <3>2, <3>3, ListsBelow
  <2>5. \A i \in 1..n - 1 :
            /\ outer[i].kind = "evaluate" => Len(outer[i].frames) = outer[i].base
            /\ outer[i].kind = "getter" => outer[i].base <= Len(frame_stack)
    BY <1>1 DEF Kept
  <2>6. Kept'
    <3> SUFFICES ASSUME NEW i \in 1..Len(outer')
                 PROVE  /\ outer'[i].kind # "condition"
                              => Lists(outer'[i].frames, Seen', outer'[i].base)
                        /\ outer'[i].kind = "evaluate" => Len(outer'[i].frames) = outer'[i].base
                        /\ outer'[i].kind = "getter" => outer'[i].base <= Len(frame_stack')
      BY DEF Kept
    <3> QED
      BY <1>7, <2>1, <2>4, <2>5
  <2> QED
    BY <2>1, <2>3, <2>6
<1> QED
  BY <1>2, <1>3, <1>4, <1>5, <1>6, <1>7

\* An action that leaves the stacks, the interruptions and the list alone, and
\* begins no pause, keeps the invariant if it keeps the types.
LEMMA Elsewhere ==
    /\ FrameInvariant /\ Typed'
    /\ UNCHANGED <<engine, frame_stack, outer>>
    /\ \/ pc' \notin {"walk", "paused"}
       \/ pc' = pc /\ UNCHANGED <<frames, disturbed>>
    => FrameInvariant'
<1> SUFFICES ASSUME FrameInvariant, Typed', UNCHANGED <<engine, frame_stack, outer>>,
                    \/ pc' \notin {"walk", "paused"}
                    \/ pc' = pc /\ UNCHANGED <<frames, disturbed>>
             PROVE  FrameInvariant'
  OBVIOUS
<1>0. Seen' = Seen
  BY DEF Seen, Known
<1>1. Tracked' /\ Nested' /\ Kept'
  BY <1>0 DEF FrameInvariant, Tracked, Nested, Kept
<1>2. Current'
  BY <1>0 DEF FrameInvariant, Current
<1> QED
  BY <1>1, <1>2 DEF FrameInvariant

\* The engine calls, returns and reaches statements.
LEMMA EngineFrames == FrameInvariant /\ Engine => FrameInvariant'
<1> SUFFICES ASSUME FrameInvariant, Engine PROVE FrameInvariant'
  OBVIOUS
<1> USE DEF FrameInvariant
<1>0. \A i \in 1..Len(outer) : outer[i].base \in Nat /\ outer[i].base < Len(stack)
  BY OuterFields DEF Nested
<1>1. CASE Call
  <2>1. Stacks' /\ Tracked'
    BY <1>1, Push DEF Call
  <2>2. Len(stack') = Len(stack) + 1 /\ \A k \in 1..Len(stack) : Seen'[k] = Seen[k]
    BY <1>1, Pushed DEF Call, Typed
  <2>3. Typed'
    BY <1>1, <2>1 DEF Call, Typed
  <2>4. Nested' /\ Kept'
    <3>1. \A i \in 1..Len(outer) : outer[i].kind = "getter" => outer[i].base <= Len(frame_stack)
      BY DEF Kept
    <3>2. UNCHANGED <<outer, frame_stack>> /\ frame_stack \in Seq(Frame) /\ Len(stack) \in Nat
      BY <1>1 DEF Call, Typed
    <3> QED
      BY <1>0, <2>1, <2>2, <3>1, <3>2, Below
  <2>5. Current'
    BY <1>1 DEF Call, Current
  <2> QED
    BY <2>1, <2>3, <2>4, <2>5
<1>2. CASE Leave
  <2>1. Base \in Nat /\ \A i \in 1..Len(outer) : outer[i].base <= Base
    <3>1. CASE outer = <<>>
      BY <3>1 DEF Base
    <3>2. CASE outer # <<>>
      BY <3>2, OuterPop
    <3> QED
      BY <3>1, <3>2
  <2>2. /\ Len(stack) > Base + 1 /\ stack' = Front(stack) /\ unseen' = unseen \ {Len(stack)}
        /\ UNCHANGED <<outer, frame_stack>>
    BY <1>2 DEF Leave
  <2>3. Len(stack) \in Nat /\ Len(stack) >= 2
    BY <2>1, <2>2 DEF Typed
  <2>4. Stacks' /\ Tracked'
    BY <2>2, <2>3, Pop
  <2>5. Len(stack') = Len(stack) - 1 /\ \A k \in 1..Len(stack) - 1 : Seen'[k] = Seen[k]
    BY <2>2, <2>3, Popped DEF Typed
  <2>6. Typed'
    BY <1>2, <2>4 DEF Leave, Typed
  <2>7. Nested' /\ Kept'
    <3>1. ASSUME NEW i \in 1..Len(outer)
          PROVE  /\ outer[i].base < Len(stack')
                 /\ \A k \in 1..outer[i].base : Seen'[k] = Seen[k]
      <4>1. outer[i].base \in Nat /\ outer[i].base <= Base
        BY <1>0, <2>1
      <4>2. outer[i].base < Len(stack) - 1
        BY <2>1, <2>2, <2>3, <4>1
      <4> QED
        BY <2>3, <2>5, <4>1, <4>2
    <3>2. \A i \in 1..Len(outer) : outer[i].kind = "getter" => outer[i].base <= Len(frame_stack)
      BY DEF Kept
    <3>3. frame_stack \in Seq(Frame)
      BY DEF Typed
    <3> QED
      BY <2>2, <2>4, <3>1, <3>2, <3>3, Below
  <2>8. Current'
    BY <1>2 DEF Leave, Current
  <2> QED
    BY <2>4, <2>6, <2>7, <2>8
<1>3. ASSUME NEW p \in Places \union {Injected}, Trace(p)
      PROVE  FrameInvariant'
  <2>1. p \in Frame
    BY DEF Frame
  <2>2. /\ Stacks'
        /\ frame_stack' \in Seq(Frame) /\ Len(frame_stack') = Len(stack') /\ Tracked'
    BY <1>3, <2>1, TrackTop DEF Trace
  <2>3. Len(stack') = Len(stack) /\ \A k \in 1..Len(stack) - 1 : Seen'[k] = Seen[k]
    BY <1>3, <2>1, TrackTop DEF Trace
  <2>4. Typed'
    BY <1>3, <2>2 DEF Trace, Typed
  <2>5. Nested' /\ Kept'
    <3>1. Len(stack) \in Nat /\ outer' = outer
      BY <1>3 DEF Trace, Typed
    <3>2. \A i \in 1..Len(outer) :
              /\ outer[i].base < Len(stack')
              /\ outer[i].base <= Len(frame_stack')
              /\ \A k \in 1..outer[i].base : Seen'[k] = Seen[k]
      BY <1>0, <2>2, <2>3, <3>1
    <3> QED
      BY <2>2, <3>1, <3>2, Below
  <2>6. Current'
    BY <1>3 DEF Trace, Current
  <2> QED
    BY <2>2, <2>4, <2>5, <2>6
<1>4. ASSUME NEW p \in Places \union {Injected}, Skip(p)
      PROVE  FrameInvariant'
  <2>1. /\ p \in Frame /\ stack' = ReplaceAt(stack, Len(stack), p)
        /\ unseen' = unseen \union {Len(stack)} /\ UNCHANGED <<outer, frame_stack>>
    BY <1>4 DEF Skip, Frame
  <2>2. Len(stack) \in Nat /\ Len(stack) >= 1 /\ frame_stack \in Seq(Frame)
    BY DEF Typed
  <2>3. /\ Stacks' /\ Len(stack') = Len(stack)
        /\ \A k \in 1..Len(stack) - 1 : Seen'[k] = Seen[k]
        /\ Seen'[Len(stack)] = Nowhere
    BY <2>1, Replaced, Skipped DEF Typed
  <2>4. Typed'
    BY <1>4, <2>3 DEF Skip, Typed
  <2>5. Tracked'
    BY <2>1, <2>2, <2>3 DEF Tracked
  <2>6. Nested' /\ Kept'
    <3>1. \A i \in 1..Len(outer) :
              /\ outer[i].base < Len(stack')
              /\ outer[i].kind = "getter" => outer[i].base <= Len(frame_stack')
              /\ \A k \in 1..outer[i].base : Seen'[k] = Seen[k]
      BY <1>0, <2>1, <2>2, <2>3 DEF Kept
    <3> QED
      BY <2>1, <2>2, <2>3, <3>1, Below
  <2>7. Current'
    BY <1>4 DEF Skip, Current
  <2> QED
    BY <2>4, <2>5, <2>6, <2>7
<1> QED
  BY <1>1, <1>2, <1>3, <1>4 DEF Engine

\* Injected code starts above the frames there are; the interrupted handler
\* keeps its list.
LEMMA InjectFrames ==
    ASSUME NEW kind \in {"condition", "getter", "evaluate"}, NEW list \in Seq(Listed),
           kind # "condition" => Lists(list, Seen, Len(stack)),
           kind = "evaluate" => Len(list) = Len(stack),
           kind = "getter" => Len(stack) <= Len(frame_stack)
    PROVE  FrameInvariant /\ Inject(kind, list) /\ UNCHANGED <<frame_stack, breakpoints, next_bp_id>>
        => FrameInvariant'
<1> SUFFICES ASSUME FrameInvariant, Inject(kind, list),
                    UNCHANGED <<frame_stack, breakpoints, next_bp_id>>
             PROVE  FrameInvariant'
  OBVIOUS
<1> USE DEF FrameInvariant
<1> DEFINE e == [kind |-> kind, base |-> Len(stack), hit |-> hit,
                 standing |-> standing, frames |-> list]
           n == Len(outer)
<1>1. e \in Interruption /\ e.kind = kind /\ e.base = Len(stack) /\ e.frames = list
  BY DEF Typed, Interruption
<1>2. outer' = Append(outer, e)
  BY DEF Inject
<1> HIDE DEF e
<1>3. /\ outer' \in Seq(Interruption) /\ Len(outer') = n + 1 /\ n \in Nat
      /\ \A j \in 1..n : outer'[j] = outer[j]
      /\ outer'[n + 1] = e
  BY <1>1, <1>2, AppendProperties DEF Typed
<1>4. Stacks' /\ Tracked'
  BY Push DEF Inject
<1>5. Len(stack) \in Nat /\ Len(stack') = Len(stack) + 1
      /\ \A k \in 1..Len(stack) : Seen'[k] = Seen[k]
  BY Pushed DEF Inject, Typed
<1>6. Typed'
  BY <1>3, <1>4 DEF Typed, Inject, Returns
<1>7. \A j \in 1..n : outer[j].base \in Nat /\ outer[j].base < Len(stack)
                      /\ Len(outer[j].frames) \in Nat
  BY OuterFields DEF Nested
<1>8. Nested'
  <2>1. ASSUME NEW i \in 1..n + 1 PROVE outer'[i].base < Len(stack')
    <3>1. CASE i = n + 1
      <4>1. outer'[i].base = Len(stack)
        BY <1>1, <1>3, <3>1
      <4> QED
        BY <1>5, <4>1
    <3>2. CASE i # n + 1
      <4>1. i \in 1..n /\ outer'[i].base = outer[i].base
        BY <1>3, <3>2
      <4> QED
        BY <1>5, <1>7, <4>1
    <3> QED
      BY <3>1, <3>2
  <2>2. \A i, j \in 1..n + 1 : i < j => outer'[i].base < outer'[j].base
    <3> SUFFICES ASSUME NEW i \in 1..n + 1, NEW j \in 1..n + 1, i < j
                 PROVE  outer'[i].base < outer'[j].base
      OBVIOUS
    <3>1. i \in 1..n /\ outer'[i].base = outer[i].base
      BY <1>3
    <3>2. CASE j = n + 1
      BY <1>1, <1>3, <1>7, <3>1, <3>2
    <3>3. CASE j # n + 1
      <4>1. j \in 1..n /\ outer'[j] = outer[j]
        BY <1>3, <3>3
      <4> QED
        BY <3>1, <4>1 DEF Nested
    <3> QED
      BY <3>2, <3>3
  <2> QED
    BY <1>3, <2>1, <2>2 DEF Nested
<1>9. Kept'
  <2> SUFFICES ASSUME NEW i \in 1..n + 1
               PROVE  /\ outer'[i].kind # "condition"
                            => Lists(outer'[i].frames, Seen', outer'[i].base)
                      /\ outer'[i].kind = "evaluate" => Len(outer'[i].frames) = outer'[i].base
                      /\ outer'[i].kind = "getter" => outer'[i].base <= Len(frame_stack')
    BY <1>3 DEF Kept
  <2>1. CASE i = n + 1
    <3>1. kind # "condition" => Lists(list, Seen', Len(stack))
      BY <1>5, ListsBelow
    <3> QED
      BY <1>1, <1>3, <2>1, <3>1
  <2>2. CASE i # n + 1
    <3>1. i \in 1..n /\ outer'[i] = outer[i]
      BY <1>3, <2>2
    <3>2. \A k \in 1..outer[i].base : Seen'[k] = Seen[k]
      BY <1>5, <1>7, <3>1
    <3>3. outer[i].kind # "condition" => Lists(outer[i].frames, Seen', outer[i].base)
      BY <1>7, <3>1, <3>2, ListsBelow DEF Kept
    <3> QED
      BY <3>1, <3>3 DEF Kept
  <2> QED
    BY <2>1, <2>2
<1>10. Current'
  BY DEF Inject, Returns, Current
<1> QED
  BY <1>4, <1>6, <1>8, <1>9, <1>10

\* The end of injected code gives the frames and the list back.
LEMMA EndFrames ==
    ASSUME NEW kind
    PROVE  FrameInvariant /\ InjectedEnds(kind) /\ frame_stack' = frame_stack
        => /\ Stacks' /\ Tracked'
           /\ outer' \in Seq(Interruption) /\ Nested' /\ Kept'
           /\ Last(outer) \in Interruption /\ Last(outer).kind = kind
           /\ kind # "condition" => Lists(Last(outer).frames, Seen', Len(stack'))
           /\ kind = "evaluate" => Len(Last(outer).frames) = Len(stack')
           /\ kind = "getter" => Len(stack') <= Len(frame_stack)
<1> SUFFICES ASSUME FrameInvariant, InjectedEnds(kind), frame_stack' = frame_stack
             PROVE  /\ Stacks' /\ Tracked'
                    /\ outer' \in Seq(Interruption) /\ Nested' /\ Kept'
                    /\ Last(outer) \in Interruption /\ Last(outer).kind = kind
                    /\ kind # "condition" => Lists(Last(outer).frames, Seen', Len(stack'))
                    /\ kind = "evaluate" => Len(Last(outer).frames) = Len(stack')
                    /\ kind = "getter" => Len(stack') <= Len(frame_stack)
  OBVIOUS
<1> USE DEF FrameInvariant
<1>1. /\ outer # <<>> /\ Last(outer).kind = kind /\ Len(stack) = Base + 1
      /\ stack' = Front(stack) /\ unseen' = unseen \ {Len(stack)} /\ outer' = Front(outer)
  BY DEF InjectedEnds
<1>2. /\ Last(outer) \in Interruption /\ Base \in Nat /\ Base >= 1
      /\ Last(outer).kind # "condition" => Lists(Last(outer).frames, Seen, Base)
      /\ Last(outer).kind = "evaluate" => Len(Last(outer).frames) = Base
      /\ Last(outer).kind = "getter" => Base <= Len(frame_stack)
  BY <1>1, OuterPop
<1>3. Stacks' /\ Tracked'
  BY <1>1, <1>2, Pop DEF Typed
<1>4. Len(stack') = Base /\ \A k \in 1..Base : Seen'[k] = Seen[k]
  <2>1. Len(stack) \in Nat /\ Len(stack) >= 2
    BY <1>1, <1>2 DEF Typed
  <2>2. Len(stack') = Len(stack) - 1 /\ \A k \in 1..Len(stack) - 1 : Seen'[k] = Seen[k]
    BY <1>1, <2>1, Popped DEF Typed
  <2> QED
    BY <1>1, <1>2, <2>2
<1>5. outer' \in Seq(Interruption) /\ Nested' /\ Kept'
  BY <1>1, <1>3, <1>4, OuterPop
<1>6. kind # "condition" => Lists(Last(outer).frames, Seen', Len(stack'))
  <2>1. Len(Last(outer).frames) \in Nat
    BY <1>2 DEF Interruption
  <2> QED
    BY <1>1, <1>2, <1>4, <2>1, ListsBelow
<1> QED
  BY <1>1, <1>2, <1>3, <1>4, <1>5, <1>6

\* The handler decides, captures the frames, or is given back its thread.
LEMMA HandlerFrames == FrameInvariant /\ Handler => FrameInvariant'
<1> SUFFICES ASSUME FrameInvariant, Handler PROVE FrameInvariant'
  OBVIOUS
<1>1. CASE TakeRequest
  <2>1. Typed'
    BY <1>1 DEF TakeRequest, Stop, FrameInvariant, Typed
  <2> QED
    BY <1>1, <2>1, Elsewhere DEF TakeRequest, Stop
<1>2. CASE TakeEntry
  <2>1. Typed'
    BY <1>2 DEF TakeEntry, Stop, FrameInvariant, Typed
  <2> QED
    BY <1>2, <2>1, Elsewhere DEF TakeEntry, Stop
<1>3. CASE CheckBreakpoint
  <2>1. standing' \in SUBSET Nat
    BY <1>3 DEF CheckBreakpoint, Matching, FrameInvariant, Typed
  <2>2. Typed'
    BY <1>3, <2>1 DEF CheckBreakpoint, FrameInvariant, Typed
  <2>3. pc' \in {"lookup", "step"}
    BY <1>3 DEF CheckBreakpoint
  <2> QED
    BY <1>3, <2>2, <2>3, Elsewhere DEF CheckBreakpoint
<1>4. CASE Lookup
  <2>1. Matching \in SUBSET Nat
    BY DEF Matching, FrameInvariant, Typed
  <2>2. (IF Matching = {} THEN 0 ELSE Min(Matching)) \in Nat
    BY <2>1, LeastOf
  <2>3. hit' \in Nat
    BY <1>4, <2>2 DEF Lookup, Stop
  <2>4. Typed'
    BY <1>4, <2>3 DEF Lookup, FrameInvariant, Typed
  <2>5. pc' \in {"condition", "capture"}
    BY <1>4 DEF Lookup, Stop
  <2> QED
    BY <1>4, <2>4, <2>5, Elsewhere DEF Lookup
<1>5. CASE EvaluateCondition
  <2>1. frames \in Seq(Listed)
    BY DEF FrameInvariant, Typed
  <2> QED
    BY <1>5, <2>1, InjectFrames DEF EvaluateCondition
<1>6. CASE ConditionFalsy
  <2>1. CASE InjectedEnds("condition")
    <3>1. /\ Stacks' /\ Tracked'
          /\ outer' \in Seq(Interruption) /\ Nested' /\ Kept'
      BY <1>6, <2>1, EndFrames DEF ConditionFalsy
    <3>2. Typed'
      BY <1>6, <3>1 DEF ConditionFalsy, Returns, FrameInvariant, Typed
    <3>3. Current'
      BY <1>6 DEF ConditionFalsy, Returns, Current
    <3> QED
      BY <3>1, <3>2, <3>3 DEF FrameInvariant
  <2>2. CASE pc = "condition" /\ UNCHANGED <<engine, outer, left>>
    <3>1. Typed'
      BY <1>6, <2>2 DEF ConditionFalsy, Returns, FrameInvariant, Typed
    <3> QED
      BY <1>6, <2>2, <3>1, Elsewhere DEF ConditionFalsy, Returns
  <2> QED
    BY <1>6, <2>1, <2>2 DEF ConditionFalsy
<1>7. CASE ConditionTruthy
  <2>1. /\ Stacks' /\ Tracked'
        /\ outer' \in Seq(Interruption) /\ Nested' /\ Kept'
        /\ Last(outer) \in Interruption
    BY <1>7, EndFrames DEF ConditionTruthy
  <2>2. hit' \in Nat
    BY <1>7, <2>1 DEF ConditionTruthy, Stop, Interruption
  <2>3. Typed'
    BY <1>7, <2>1, <2>2 DEF ConditionTruthy, FrameInvariant, Typed
  <2>4. Current'
    BY <1>7 DEF ConditionTruthy, Stop, Current
  <2> QED
    BY <2>1, <2>3, <2>4 DEF FrameInvariant
<1>8. CASE Step
  <2>1. /\ pc' \in {"run", "capture"}
        /\ hit' = 0 /\ standing' \in {standing, {}}
    BY <1>8, Zenon DEF Step, Stop, Returns
  <2>2. UNCHANGED <<stack, unseen, frame_stack, frames, outer, breakpoints, next_bp_id>>
    BY <1>8, Zenon DEF Step
  <2>3. Typed'
    BY <2>1, <2>2 DEF FrameInvariant, Typed
  <2> QED
    BY <2>1, <2>2, <2>3, Elsewhere
<1>9. CASE Capture
  <2> USE DEF FrameInvariant
  <2>1. Last(stack) \in Frame /\ stack' = ReplaceAt(stack, Len(stack), Last(stack))
    BY <1>9 DEF Capture, Typed, Last, ReplaceAt
  <2>2. /\ Stacks' /\ frame_stack' \in Seq(Frame) /\ Len(frame_stack') = Len(stack')
        /\ Tracked'
    BY <1>9, <2>1, TrackTop DEF Capture
  <2>3. Typed'
    BY <1>9, <2>2 DEF Capture, Captures, Typed
  <2>4. Nested' /\ Kept'
    <3>1. \A i \in 1..Len(outer) : outer[i].base \in Nat /\ outer[i].base < Len(stack)
      BY OuterFields DEF Nested
    <3>2. Len(stack) \in Nat /\ stack \in Seq(Frame) /\ UNCHANGED <<stack, unseen, outer>>
      BY <1>9 DEF Capture, Typed
    <3>3. Seen' = Seen
      BY <3>2 DEF Seen, Known
    <3> QED
      BY <2>2, <3>1, <3>2, <3>3, Below
  <2>5. Lists(frames', Seen', Len(stack'))
    BY <1>9 DEF Capture, Captures, Lists, Typed
  <2>6. Current'
    BY <1>9, <2>2, <2>5 DEF Capture, Captures, Current, Typed
  <2> QED
    BY <2>2, <2>3, <2>4, <2>6
<1>10. CASE RunGetter
  <2> USE DEF FrameInvariant
  <2>1. PICK j \in 1..Len(stack) :
            j <= Len(stack) - Len(frames) + 1 /\ Inject("getter", Listing(j))
    BY <1>10 DEF RunGetter
  <2>2. Lists(frames, Seen, Len(stack)) /\ Len(stack) <= Len(frame_stack)
    BY <1>10 DEF RunGetter, Current
  <2>3. Listing(j) \in Seq(Listed) /\ Lists(Listing(j), Seen, Len(stack))
    BY <2>1, <2>2, ListingOf
  <2>4. UNCHANGED <<frame_stack, breakpoints, next_bp_id>>
    BY <1>10 DEF RunGetter
  <2> QED
    BY <2>1, <2>2, <2>3, <2>4, InjectFrames
<1>11. ASSUME GetterEnds \/ EvaluateEnds
       PROVE  FrameInvariant'
  <2> DEFINE kind == IF GetterEnds THEN "getter" ELSE "evaluate"
  <2>1. /\ InjectedEnds(kind) /\ kind \in {"getter", "evaluate"}
        /\ pc' = IF kind = "getter" THEN "walk" ELSE "paused"
        /\ hit' = Last(outer).hit /\ frames' = Last(outer).frames /\ disturbed' = TRUE
        /\ UNCHANGED <<frame_stack, breakpoints, next_bp_id, standing>>
    BY <1>11 DEF GetterEnds, EvaluateEnds
  <2> HIDE DEF kind
  <2>2. /\ Stacks' /\ Tracked'
        /\ outer' \in Seq(Interruption) /\ Nested' /\ Kept'
        /\ Last(outer) \in Interruption
        /\ Lists(Last(outer).frames, Seen', Len(stack'))
        /\ kind = "evaluate" => Len(Last(outer).frames) = Len(stack')
        /\ kind = "getter" => Len(stack') <= Len(frame_stack)
    BY <2>1, EndFrames
  <2>3. hit' \in Nat /\ frames' \in Seq(Listed)
    BY <2>1, <2>2 DEF Interruption
  <2>4. Typed'
    BY <2>1, <2>2, <2>3 DEF FrameInvariant, Typed
  <2>5. Current'
    BY <2>1, <2>2 DEF Current
  <2> QED
    BY <2>2, <2>4, <2>5 DEF FrameInvariant
<1>12. CASE CaptureEnds
  <2> USE DEF FrameInvariant
  <2>1. /\ pc = "walk" /\ frames' = Listing(1)
        /\ UNCHANGED <<stack, unseen, frame_stack, hit, outer, breakpoints, next_bp_id,
                       disturbed, standing>>
    BY <1>12 DEF CaptureEnds
  <2>0. Seen' = Seen
    BY <2>1 DEF Seen, Known
  <2>2. Lists(frames, Seen, Len(stack)) /\ Len(stack) <= Len(frame_stack)
    BY <2>1 DEF Current
  <2>3. 1 \in 1..Len(stack) /\ 1 <= Len(stack) - Len(frames) + 1
    BY <2>2 DEF Typed, Lists
  <2>4. /\ Listing(1) \in Seq(Listed) /\ Len(Listing(1)) = Len(stack) - 1 + 1
        /\ Lists(Listing(1), Seen, Len(stack))
        /\ frames = <<>> /\ Len(frame_stack) = Len(stack)
           => \A k \in 1..Len(Listing(1)) : Listing(1)[k].level = k - 1
    BY <2>2, <2>3, ListingOf
  <2>5. Len(Listing(1)) = Len(stack)
    BY <2>4 DEF Typed
  <2>6. Typed'
    BY <2>1, <2>4 DEF Typed
  <2>7. Tracked' /\ Nested' /\ Kept'
    BY <2>0, <2>1 DEF Tracked, Nested, Kept
  <2>8. pc' \in {"stuck", "paused"}
    BY <1>12 DEF CaptureEnds
  <2>9. ~disturbed => \A k \in 1..Len(Listing(1)) : Listing(1)[k].level = k - 1
    BY <2>1, <2>4 DEF Current
  <2>10. Current'
    BY <2>0, <2>1, <2>4, <2>5, <2>8, <2>9 DEF Current
  <2> QED
    BY <2>6, <2>7, <2>10
<1> QED
  BY <1>1, <1>2, <1>3, <1>4, <1>5, <1>6, <1>7, <1>8, <1>9, <1>10, <1>11, <1>12 DEF Handler

\* Commands change the table, the flags and the step state; an answer to a
\* pause gives the thread back, an evaluate request starts injected code.
LEMMA ClientFrames == FrameInvariant /\ Client => FrameInvariant'
<1> SUFFICES ASSUME FrameInvariant, Client PROVE FrameInvariant'
  OBVIOUS
<1>1. ASSUME NEW m \in StepModes \union {"Continue"}, Control(m)
      PROVE  FrameInvariant'
  <2>1. Typed'
    BY <1>1 DEF Control, Returns, FrameInvariant, Typed
  <2> QED
    BY <1>1, <2>1, Elsewhere DEF Control, Returns
<1>2. CASE Evaluate
  <2>1. frames \in Seq(Listed) /\ Lists(frames, Seen, Len(stack)) /\ Len(frames) = Len(stack)
    BY <1>2 DEF Evaluate, FrameInvariant, Typed, Current
  <2> QED
    BY <1>2, <2>1, InjectFrames DEF Evaluate
<1>3. ASSUME NEW p \in BpPlaces, NEW c \in Conditions, SetBreakpoint(p, c)
      PROVE  FrameInvariant'
  <2>1. DOMAIN breakpoints' = DOMAIN breakpoints \union {next_bp_id}
    BY <1>3 DEF SetBreakpoint
  <2>2. Typed'
    BY <1>3, <2>1 DEF SetBreakpoint, FrameInvariant, Typed
  <2> QED
    BY <1>3, <2>2, Elsewhere DEF SetBreakpoint
<1>4. ASSUME NEW id \in DOMAIN breakpoints, RemoveBreakpoint(id)
      PROVE  FrameInvariant'
  <2>1. DOMAIN breakpoints' \subseteq DOMAIN breakpoints
    BY <1>4 DEF RemoveBreakpoint
  <2>2. Typed'
    BY <1>4, <2>1 DEF RemoveBreakpoint, FrameInvariant, Typed
  <2> QED
    BY <1>4, <2>2, Elsewhere DEF RemoveBreakpoint
<1>5. CASE SetActive \/ RequestPause \/ SetEnabled
  <2>1. Typed'
    BY <1>5 DEF SetActive, RequestPause, SetEnabled, FrameInvariant, Typed
  <2> QED
    BY <1>5, <2>1, Elsewhere DEF SetActive, RequestPause, SetEnabled
<1> QED
  BY <1>1, <1>2, <1>3, <1>4, <1>5 DEF Client

\* Every step keeps the frames tracked and listed.
LEMMA NextFrames == FrameInvariant /\ [Next]_vars => FrameInvariant'
<1> SUFFICES ASSUME FrameInvariant, [Next]_vars PROVE FrameInvariant'
  OBVIOUS
<1>1. CASE UNCHANGED vars
  <2>1. Typed'
    BY <1>1 DEF FrameInvariant, Typed
  <2> QED
    BY <1>1, <2>1, Elsewhere
<1> QED
  BY <1>1, EngineFrames, HandlerFrames, ClientFrames DEF Next

\* frame_stack_ and all the lists made from it agree with the engine's stack on
\* every frame whose last statement the handler was told of, whatever was
\* called, returned, evaluated or skipped since (debug_session.cpp:537-574,
\* 905-924).
THEOREM FramesTracked == Spec => []FrameInvariant
<1>1. Init => FrameInvariant
  BY InitFrames
<1>2. FrameInvariant /\ [Next]_vars => FrameInvariant'
  BY NextFrames
<1> QED
  BY <1>1, <1>2, PTL DEF Spec
=============================================================================
