---------------------------- MODULE TypesProofs ----------------------------
(***************************************************************************)
(* Reading types keeps its parts rooted, in texts of any length and types  *)
(* of any depth (TypeSyntax).                                              *)
(*                                                                         *)
(* What the open calls hold on the stack lies there in their order: there  *)
(* are numbers, one for each call, that say where its part begins.  How    *)
(* much a call holds follows from what it has read, so that what it pops   *)
(* at its end is exactly what it has pushed, on every way through it.      *)
(*                                                                         *)
(* Static types are true (FlowTyping): in programs without the idioms a    *)
(* value is of the types the compiler takes its variable to have, so that  *)
(* the instructions it chooses for them read their operands right.         *)
(*                                                                         *)
(* Types and values are of any depth.  The relations on them are shown     *)
(* equal to their definitions by the rank of types; what is accepted for a *)
(* type is then included in it.  Along the open ifs each type kept for the *)
(* end of a branch includes the one it was narrowed to, and where the code *)
(* runs the value is of the innermost: an end, or an else, brings back a   *)
(* type the value still has.                                               *)
(*                                                                         *)
(* A match that compiles has an arm for what its target holds, and leaves  *)
(* a value of the type that the compiler goes on with (Matches).           *)
(***************************************************************************)
EXTENDS TypeSyntax, FlowTyping, Matches, ProofBasics, FiniteSetTheorems

Kinds == {"start"} \cup OfOne \cup Lists \cup {"Table", "Set", "Shape", "Union"}
Entries == Int \X Int
Words == {"->", "a", "b"}
FramesOf(T) == [kind : Kinds, parts : Seq(T), names : Seq(Words)]

\* Calls that hold their parts one by one.
OneByOne == {"Tuple", "Function", "Union"}

\* How much a call holds.
Held(f) ==
    CASE f.kind \in {"Array", "Set"} -> 1
      [] f.kind = "Table" -> IF f.parts = <<>> THEN 1 ELSE 2
      [] f.kind = "Shape" -> 1 + Len(f.names) + Len(f.parts)
      [] f.kind \in OneByOne -> Len(f.parts)
      [] OTHER -> 0

\* Call i, f, holds it from at on.
Laid(f, i, at, st) ==
    /\ f.kind \in KeepsRecord => st[at + 1] = <<i, 0>>
    /\ f.kind \in OneByOne => \A j \in 1 .. Len(f.parts) : st[at + j] = <<i, j>>

Layout(T, fs, st, b) ==
    /\ fs \in Seq(FramesOf(T)) /\ st \in Seq(Entries)
    /\ b \in [1 .. Len(fs) + 1 -> Nat]
    /\ b[1] = 0 /\ b[Len(fs) + 1] = Len(st)
    /\ \A i \in 1 .. Len(fs) : b[i + 1] = b[i] + Held(fs[i]) /\ Laid(fs[i], i, b[i], st)

\* A call that waits for one it has made, and the one that goes on.
Waits(f) ==
    /\ f.kind # "start"
    /\ f.kind \in OfOne \cup {"Set"} => f.parts = <<>>
    /\ f.kind = "Table" => Len(f.parts) <= 1
    /\ f.kind = "Shape" => Len(f.names) = Len(f.parts) + 1

GoesOn(f) == f.kind = "Shape" => Len(f.names) = Len(f.parts)

Calls(fs) ==
    /\ \A i \in 1 .. Len(fs) - 1 : Waits(fs[i])
    /\ fs # <<>> => GoesOn(fs[Len(fs)])

SyntaxInv ==
    /\ \E T, b : Layout(T, frames, stack, b)
    /\ Calls(frames)
    /\ status = "done" <=> frames = <<>>

-----------------------------------------------------------------------------
LEMMA HeldIsANumber ==
    ASSUME NEW T, NEW f \in FramesOf(T)
    PROVE  Held(f) \in Nat /\ Len(f.parts) \in Nat /\ Len(f.names) \in Nat
<1>1. f.parts \in Seq(T) /\ f.names \in Seq(Words)
  BY DEF FramesOf
<1>2. Len(f.parts) \in Nat /\ Len(f.names) \in Nat
  BY <1>1, LenProperties
<1>3. CASE f.kind = "Shape"
  <2> DEFINE p == Len(f.parts)
             q == Len(f.names)
  <2>1. Held(f) = 1 + q + p
    BY <1>3 DEF Held, OneByOne
  <2>2. p \in Nat /\ q \in Nat
    BY <1>2
  <2> HIDE DEF p, q
  <2>3. 1 + q + p \in Nat
    BY <2>2
  <2> QED BY <1>2, <2>1, <2>3
<1>4. CASE f.kind \in OneByOne
  BY <1>2, <1>4 DEF Held, OneByOne
<1>5. CASE f.kind \notin OneByOne \cup {"Shape"}
  BY <1>2, <1>5 DEF Held, OneByOne
<1> QED BY <1>3, <1>4, <1>5

\* Frames whose parts are in T have their parts in what is larger.
LEMMA FrameOfMore ==
    ASSUME NEW T, NEW U, T \subseteq U, NEW f \in FramesOf(T)
    PROVE  f \in FramesOf(U)
<1>1. f.parts \in Seq(T) /\ f.names \in Seq(Words) /\ f.kind \in Kinds
  BY DEF FramesOf
<1>2. f.parts \in Seq(U)
  <2>1. f.parts \in [1 .. Len(f.parts) -> T] /\ Len(f.parts) \in Nat
    BY <1>1, LenProperties
  <2>2. f.parts \in [1 .. Len(f.parts) -> U]
    BY <2>1
  <2> QED BY <2>1, <2>2, SeqDef
<1>3. f = [kind |-> f.kind, parts |-> f.parts, names |-> f.names]
  BY DEF FramesOf
<1> QED BY <1>1, <1>2, <1>3 DEF FramesOf

LEMMA FramesGrow ==
    ASSUME NEW T, NEW U, T \subseteq U, NEW fs \in Seq(FramesOf(T))
    PROVE  fs \in Seq(FramesOf(U))
<1>1. FramesOf(T) \subseteq FramesOf(U)
  BY FrameOfMore
<1>2. fs \in [1 .. Len(fs) -> FramesOf(T)] /\ Len(fs) \in Nat
  BY LenProperties
<1>3. fs \in [1 .. Len(fs) -> FramesOf(U)]
  BY <1>1, <1>2
<1> QED BY <1>2, <1>3, SeqDef

\* The call that goes on begins where what it holds ends at the top.
LEMMA TopOfLayout ==
    ASSUME NEW T, NEW fs, NEW st, NEW b, Layout(T, fs, st, b), fs # <<>>
    PROVE  LET n == Len(fs)
           IN  /\ n \in Nat \ {0} /\ fs[n] \in FramesOf(T)
               /\ b[n] \in Nat /\ b[n] + Held(fs[n]) = Len(st)
               /\ b[n] \in 0 .. Len(st) /\ Len(st) - Held(fs[n]) = b[n]
<1> DEFINE n == Len(fs)
<1>1. n \in Nat \ {0} /\ fs[n] \in FramesOf(T)
  BY StackTop DEF Layout
<1>2. b[n] \in Nat /\ b[n + 1] = b[n] + Held(fs[n]) /\ b[n + 1] = Len(st)
  BY <1>1 DEF Layout
<1>3. Held(fs[n]) \in Nat
  BY <1>1, HeldIsANumber
<1> QED BY <1>1, <1>2, <1>3

\* Where each call begins is within the stack.
LEMMA Beginnings ==
    ASSUME NEW T, NEW fs, NEW st, NEW b, Layout(T, fs, st, b), fs # <<>>
    PROVE  \A i \in 1 .. Len(fs) : b[i + 1] <= b[Len(fs)] \/ i = Len(fs)
<1> DEFINE n == Len(fs)
           Late == {i \in 1 .. n : i # n /\ ~(b[i + 1] <= b[n])}
<1>1. n \in Nat \ {0} /\ \A i \in 1 .. n : b[i] \in Nat /\ b[i + 1] \in Nat /\ Held(fs[i]) \in Nat
  <2>1. n \in Nat \ {0} /\ \A i \in 1 .. n : fs[i] \in FramesOf(T)
    BY TopOfLayout, ElementOfSeq DEF Layout
  <2> QED BY SMTT(30), <2>1, HeldIsANumber DEF Layout
<1>2. SUFFICES ASSUME Late # {}
               PROVE  FALSE
  OBVIOUS
<1>3. PICK i \in Late : \A j \in Late : i >= j
  <2>1. Late \in SUBSET (0 .. n)
    BY <1>1
  <2> QED BY <1>1, <1>2, <2>1, GreatestNat
<1>4. i + 1 \in 1 .. n /\ i + 1 # n
  BY <1>1, <1>3
<1>5. b[(i + 1) + 1] <= b[n]
  BY <1>1, <1>3, <1>4
<1>6. b[(i + 1) + 1] = b[i + 1] + Held(fs[i + 1])
  BY <1>4 DEF Layout
<1>7. b[i + 1] \in Nat /\ Held(fs[i + 1]) \in Nat /\ b[n] \in Nat
  BY <1>1, <1>4
<1>8. b[i + 1] <= b[n]
  BY <1>5, <1>6, <1>7
<1> QED BY <1>3, <1>8

LEMMA Below ==
    ASSUME NEW x \in Nat, NEW y \in Nat, NEW z \in Nat, x + y <= z,
           NEW st, NEW tt, \A k \in 1 .. z : tt[k] = st[k]
    PROVE  \A k \in x + 1 .. x + y : tt[k] = st[k]
OBVIOUS

LEMMA RecordIsHeld ==
    ASSUME NEW T, NEW f \in FramesOf(T), f.kind \in KeepsRecord
    PROVE  Held(f) >= 1
<1>1. Len(f.parts) \in Nat /\ Len(f.names) \in Nat
  BY HeldIsANumber
<1>2. CASE f.kind = "Shape"
  <2> DEFINE p == Len(f.parts)
             q == Len(f.names)
  <2>1. Held(f) = 1 + q + p /\ p \in Nat /\ q \in Nat
    BY <1>1, <1>2 DEF Held, OneByOne
  <2> HIDE DEF p, q
  <2> QED BY <2>1
<1>3. CASE f.kind = "Table"
  BY <1>3 DEF Held, OneByOne
<1>4. CASE f.kind \in {"Array", "Set"}
  <2>1. Held(f) = 1
    BY <1>4 DEF Held, OneByOne
  <2> QED BY <2>1
<1> QED BY <1>2, <1>3, <1>4 DEF KeepsRecord

\* What the first calls hold stays where it is when more is pushed, and when
\* what the others hold is popped.
LEMMA LaidStays ==
    ASSUME NEW T, NEW f \in FramesOf(T), NEW i, NEW at \in Nat, NEW st, NEW tt,
           Laid(f, i, at, st),
           \A k \in at + 1 .. at + Held(f) : tt[k] = st[k]
    PROVE  Laid(f, i, at, tt)
<1>1. Held(f) \in Nat /\ Len(f.parts) \in Nat /\ Len(f.names) \in Nat
  BY HeldIsANumber
<1>2. CASE f.kind \in KeepsRecord
  <2>1. Held(f) >= 1
    BY <1>2, RecordIsHeld
  <2>2. tt[at + 1] = st[at + 1]
    BY <1>1, <2>1
  <2>3. f.kind \notin OneByOne
    BY <1>2 DEF KeepsRecord, OneByOne
  <2> QED BY <1>2, <2>2, <2>3 DEF Laid
<1>3. CASE f.kind \in OneByOne
  <2>1. Held(f) = Len(f.parts) /\ f.kind \notin KeepsRecord
    BY <1>3 DEF KeepsRecord, Held, OneByOne
  <2>2. \A j \in 1 .. Len(f.parts) : tt[at + j] = st[at + j]
    BY <1>1, <2>1
  <2> QED BY <1>3, <2>1, <2>2 DEF Laid
<1> QED BY <1>2, <1>3 DEF Laid

\* The innermost call returns: what it holds is popped.
LEMMA CutLayout ==
    ASSUME NEW T, NEW fs, NEW st, NEW b, Layout(T, fs, st, b), fs # <<>>
    PROVE  LET n == Len(fs)
           IN  Layout(T, SubSeq(fs, 1, n - 1), SubSeq(st, 1, b[n]),
                      [i \in 1 .. n |-> b[i]])
<1> DEFINE n == Len(fs)
           gs == SubSeq(fs, 1, n - 1)
           tt == SubSeq(st, 1, b[n])
           c == [i \in 1 .. n |-> b[i]]
<1>1. n \in Nat \ {0} /\ b[n] \in 0 .. Len(st) /\ b[n] \in Nat
  BY TopOfLayout
<1>2. /\ gs \in Seq(FramesOf(T)) /\ Len(gs) = n - 1
      /\ \A i \in 1 .. n - 1 : gs[i] = fs[i]
  BY StackPop DEF Layout
<1>3. /\ tt \in Seq(Entries) /\ Len(tt) = b[n]
      /\ \A k \in 1 .. b[n] : tt[k] = st[k]
  BY <1>1, Prefix DEF Layout
<1>4. \A i \in 1 .. n : b[i + 1] <= b[n] \/ i = n
  BY Beginnings
<1>5. /\ \A i \in 1 .. n : fs[i] \in FramesOf(T) /\ b[i] \in Nat
      /\ \A i \in 1 .. n : b[i + 1] = b[i] + Held(fs[i]) /\ Laid(fs[i], i, b[i], st)
      /\ b[1] = 0
  BY SMTT(30), <1>1, ElementOfSeq DEF Layout
<1> HIDE DEF gs, tt, n
<1>6. c \in [1 .. Len(gs) + 1 -> Nat] /\ c[1] = 0 /\ c[Len(gs) + 1] = Len(tt)
  BY <1>1, <1>2, <1>3, <1>5
<1>7. ASSUME NEW i \in 1 .. Len(gs)
      PROVE  c[i + 1] = c[i] + Held(gs[i]) /\ Laid(gs[i], i, c[i], tt)
  <2>1. /\ i \in 1 .. n - 1 /\ i \in 1 .. n /\ i + 1 \in 1 .. n /\ i # n
        /\ gs[i] = fs[i] /\ c[i] = b[i] /\ c[i + 1] = b[i + 1] /\ b[i] \in Nat
    BY <1>1, <1>2, <1>5
  <2>2. b[i + 1] = b[i] + Held(fs[i]) /\ b[i + 1] <= b[n] /\ Held(fs[i]) \in Nat
    BY <1>4, <1>5, <2>1, HeldIsANumber
  <2>3. \A k \in b[i] + 1 .. b[i] + Held(fs[i]) : tt[k] = st[k]
    <3>1. b[i] + Held(fs[i]) <= b[n]
      BY <2>2
    <3>2. b[n] \in Nat /\ b[i] \in Nat /\ Held(fs[i]) \in Nat
      BY <1>1, <2>1, <2>2
    <3>3. \A k \in 1 .. b[n] : tt[k] = st[k]
      BY <1>3
    <3> QED BY <3>1, <3>2, <3>3, Below
  <2>4. Laid(fs[i], i, b[i], st) /\ fs[i] \in FramesOf(T)
    BY <1>5, <2>1
  <2>5. Laid(fs[i], i, b[i], tt)
    BY <2>1, <2>3, <2>4, LaidStays
  <2> QED BY <2>1, <2>2, <2>5
<1> QED BY <1>2, <1>3, <1>6, <1>7 DEF Layout, gs, tt, n

\* A call is made, and what it holds is pushed.
LEMMA PushLayout ==
    ASSUME NEW T, NEW fs, NEW st, NEW b, Layout(T, fs, st, b),
           NEW f \in FramesOf(T), NEW pushed \in Seq(Entries),
           Held(f) = Len(pushed), Laid(f, Len(fs) + 1, Len(st), st \o pushed)
    PROVE  LET n == Len(fs)
           IN  Layout(T, Append(fs, f), st \o pushed,
                      [i \in 1 .. n + 2 |-> IF i = n + 2 THEN Len(st) + Len(pushed) ELSE b[i]])
<1> DEFINE n == Len(fs)
           gs == Append(fs, f)
           tt == st \o pushed
           c == [i \in 1 .. n + 2 |-> IF i = n + 2 THEN Len(st) + Len(pushed) ELSE b[i]]
<1>1. n \in Nat /\ Len(st) \in Nat /\ Len(pushed) \in Nat
  BY LenProperties DEF Layout
<1>2. /\ gs \in Seq(FramesOf(T)) /\ Len(gs) = n + 1 /\ gs[n + 1] = f
      /\ \A i \in 1 .. n : gs[i] = fs[i]
  BY StackPush DEF Layout
<1>3. /\ tt \in Seq(Entries) /\ Len(tt) = Len(st) + Len(pushed)
      /\ \A k \in 1 .. Len(st) : tt[k] = st[k]
  BY ConcatProperties, <1>1 DEF Layout
<1>4. /\ \A i \in 1 .. n : fs[i] \in FramesOf(T) /\ Held(fs[i]) \in Nat
      /\ \A i \in 1 .. n + 1 : b[i] \in Nat
      /\ \A i \in 1 .. n : b[i + 1] = b[i] + Held(fs[i]) /\ Laid(fs[i], i, b[i], st)
      /\ b[1] = 0 /\ b[n + 1] = Len(st)
  BY <1>1, ElementOfSeq, HeldIsANumber DEF Layout
<1>5. \A i \in 1 .. n : b[i + 1] <= Len(st)
  <2>1. CASE fs = <<>>
    <3>1. n = 0
      BY <2>1, EmptySeq
    <3> QED BY <3>1
  <2>2. CASE fs # <<>>
    <3>1. \A i \in 1 .. n : b[i + 1] <= b[n] \/ i = n
      BY <2>2, Beginnings
    <3>2. b[n] <= Len(st)
      BY <2>2, TopOfLayout
    <3>3. ASSUME NEW i \in 1 .. n
          PROVE  b[i + 1] <= Len(st)
      <4>1. CASE i = n
        <5>1. b[i + 1] = Len(st)
          BY <1>4, <4>1
        <5> QED BY <1>1, <5>1
      <4>2. CASE i # n
        <5>1. b[i + 1] <= b[n]
          BY <3>1, <4>2
        <5>2. b[i + 1] \in Nat /\ b[n] \in Nat
          BY <1>1, <1>4, <3>3
        <5> QED BY <1>1, <3>2, <5>1, <5>2
      <4> QED BY <4>1, <4>2
    <3> QED BY <3>3
  <2> QED BY <2>1, <2>2
<1>6. Laid(f, n + 1, Len(st), tt) /\ Held(f) = Len(pushed)
  OBVIOUS
<1> HIDE DEF gs, tt, n
<1>7. /\ c \in [1 .. Len(gs) + 1 -> Nat] /\ c[1] = 0 /\ c[Len(gs) + 1] = Len(tt)
      /\ \A i \in 1 .. n + 1 : c[i] = b[i]
      /\ c[n + 2] = Len(st) + Len(pushed)
  BY <1>1, <1>2, <1>3, <1>4
<1> HIDE DEF c
<1>8. ASSUME NEW i \in 1 .. Len(gs)
      PROVE  c[i + 1] = c[i] + Held(gs[i]) /\ Laid(gs[i], i, c[i], tt)
  <2>1. CASE i = n + 1
    <3>1. c[i + 1] = Len(st) + Len(pushed) /\ c[i] = Len(st) /\ gs[i] = f
      BY <1>1, <1>2, <1>4, <1>7, <2>1
    <3> QED BY <1>6, <2>1, <3>1
  <2>2. CASE i # n + 1
    <3>1. /\ i \in 1 .. n /\ i \in 1 .. n + 1 /\ i + 1 \in 1 .. n + 1
          /\ gs[i] = fs[i] /\ c[i] = b[i] /\ c[i + 1] = b[i + 1] /\ b[i] \in Nat
      BY SMTT(30), <1>1, <1>2, <1>4, <1>7, <2>2
    <3>2. b[i + 1] = b[i] + Held(fs[i]) /\ b[i + 1] <= Len(st) /\ Held(fs[i]) \in Nat
      BY <1>4, <1>5, <3>1
    <3>3. \A k \in b[i] + 1 .. b[i] + Held(fs[i]) : tt[k] = st[k]
      <4>1. b[i] + Held(fs[i]) <= Len(st)
        BY <3>2
      <4>2. Len(st) \in Nat /\ b[i] \in Nat /\ Held(fs[i]) \in Nat
        BY <1>1, <3>1, <3>2
      <4>3. \A k \in 1 .. Len(st) : tt[k] = st[k]
        BY <1>3
      <4> QED BY <4>1, <4>2, <4>3, Below
    <3>4. Laid(fs[i], i, b[i], st) /\ fs[i] \in FramesOf(T)
      BY <1>4, <3>1
    <3>5. Laid(fs[i], i, b[i], tt)
      BY <3>1, <3>3, <3>4, LaidStays
    <3> QED BY <3>1, <3>2, <3>5
  <2> QED BY <2>1, <2>2
<1> QED BY <1>2, <1>3, <1>7, <1>8 DEF Layout, gs, tt, n, c

\* The innermost call goes on, as g, and holds something more.
LEMMA ReplaceLayout ==
    ASSUME NEW T, NEW fs, NEW st, NEW b, Layout(T, fs, st, b), fs # <<>>,
           NEW g \in FramesOf(T), NEW pushed \in Seq(Entries),
           Held(g) = Held(fs[Len(fs)]) + Len(pushed),
           Laid(g, Len(fs), b[Len(fs)], st \o pushed)
    PROVE  LET n == Len(fs)
           IN  Layout(T, [fs EXCEPT ![n] = g], st \o pushed,
                      [b EXCEPT ![n + 1] = Len(st) + Len(pushed)])
<1> DEFINE n == Len(fs)
           gs == [fs EXCEPT ![n] = g]
           tt == st \o pushed
           c == [b EXCEPT ![n + 1] = Len(st) + Len(pushed)]
<1>1. /\ n \in Nat \ {0} /\ Len(st) \in Nat /\ Len(pushed) \in Nat
      /\ b[n] \in Nat /\ b[n] + Held(fs[n]) = Len(st)
  BY LenProperties, TopOfLayout DEF Layout
<1>b. b[n] <= Len(st)
  BY TopOfLayout
<1>2. gs \in Seq(FramesOf(T)) /\ Len(gs) = n /\ gs[n] = g /\ \A i \in 1 .. n - 1 : gs[i] = fs[i]
  <2>1. fs \in [1 .. n -> FramesOf(T)]
    BY LenProperties DEF Layout
  <2>2. gs \in [1 .. n -> FramesOf(T)] /\ gs[n] = g /\ \A i \in 1 .. n - 1 : gs[i] = fs[i]
    BY <1>1, <2>1
  <2> HIDE DEF gs
  <2> QED BY <1>1, <2>2, FunSeq
<1>3. /\ tt \in Seq(Entries) /\ Len(tt) = Len(st) + Len(pushed)
      /\ \A k \in 1 .. Len(st) : tt[k] = st[k]
  BY ConcatProperties, <1>1 DEF Layout
<1>4. /\ \A i \in 1 .. n : fs[i] \in FramesOf(T)
      /\ b \in [1 .. n + 1 -> Nat]
      /\ \A i \in 1 .. n : b[i + 1] = b[i] + Held(fs[i]) /\ Laid(fs[i], i, b[i], st)
      /\ b[1] = 0
  BY ElementOfSeq DEF Layout
<1>5. \A i \in 1 .. n : b[i + 1] <= b[n] \/ i = n
  BY Beginnings
<1>6. Held(fs[n]) \in Nat
  BY <1>1, <1>4, HeldIsANumber
<1>7. Laid(g, n, b[n], tt) /\ Held(g) = Held(fs[n]) + Len(pushed)
  OBVIOUS
<1> HIDE DEF gs, tt, n
<1>8. /\ c \in [1 .. Len(gs) + 1 -> Nat] /\ c[1] = 0 /\ c[Len(gs) + 1] = Len(tt)
      /\ \A i \in 1 .. n : c[i] = b[i]
      /\ c[n + 1] = Len(st) + Len(pushed)
  BY <1>1, <1>2, <1>3, <1>4
<1> HIDE DEF c
<1>9. ASSUME NEW i \in 1 .. Len(gs)
      PROVE  c[i + 1] = c[i] + Held(gs[i]) /\ Laid(gs[i], i, c[i], tt)
  <2>1. CASE i = n
    <3>1. c[i + 1] = Len(st) + Len(pushed) /\ c[i] = b[n] /\ gs[i] = g
      BY <1>1, <1>2, <1>8, <2>1
    <3>2. Laid(gs[i], i, c[i], tt)
      BY <1>7, <2>1, <3>1
    <3>3. Held(gs[i]) = Held(fs[n]) + Len(pushed)
      BY <1>7, <3>1
    <3>4. c[i + 1] = c[i] + Held(gs[i])
      <4> DEFINE x == b[n]
                 y == Held(fs[n])
                 z == Len(pushed)
                 w == Len(st)
      <4>1. x \in Nat /\ y \in Nat /\ z \in Nat /\ w \in Nat /\ x + y = w
        BY <1>1, <1>6
      <4>2. c[i + 1] = w + z /\ c[i] = x /\ Held(gs[i]) = y + z
        BY <3>1, <3>3
      <4> HIDE DEF x, y, z, w
      <4>3. w + z = x + (y + z)
        BY <4>1
      <4> QED BY <4>2, <4>3
    <3> QED BY <3>2, <3>4
  <2>2. CASE i # n
    <3>0. i \in 1 .. n - 1 /\ i \in 1 .. n /\ i + 1 \in 1 .. n /\ i \in 1 .. n + 1
      BY <1>1, <1>2, <2>2
    <3>1. /\ gs[i] = fs[i] /\ c[i] = b[i] /\ c[i + 1] = b[i + 1] /\ b[i] \in Nat
          /\ i \in 1 .. n
      BY <1>2, <1>4, <1>8, <3>0
    <3>2. b[i + 1] = b[i] + Held(fs[i]) /\ b[i + 1] <= b[n] /\ Held(fs[i]) \in Nat
      BY <1>4, <1>5, <2>2, <3>1, HeldIsANumber
    <3>r. b[i] + Held(fs[i]) <= Len(st)
      <4>1. b[n] <= Len(st)
        BY <1>b
      <4>2. b[i + 1] <= Len(st) /\ b[i + 1] \in Nat
        BY SMTT(30), <1>1, <1>4, <3>0, <3>2, <4>1
      <4> QED BY <3>2, <4>2
    <3>3. \A k \in b[i] + 1 .. b[i] + Held(fs[i]) : tt[k] = st[k]
      <4>1. Len(st) \in Nat /\ b[i] \in Nat /\ Held(fs[i]) \in Nat
        BY <1>1, <3>1, <3>2
      <4>2. \A k \in 1 .. Len(st) : tt[k] = st[k]
        BY <1>3
      <4> QED BY <3>r, <4>1, <4>2, Below
    <3>4. Laid(fs[i], i, b[i], st) /\ fs[i] \in FramesOf(T)
      BY <1>4, <3>1
    <3>5. Laid(fs[i], i, b[i], tt)
      BY <3>1, <3>3, <3>4, LaidStays
    <3> QED BY <3>1, <3>2, <3>5
  <2> QED BY <2>1, <2>2
<1> QED BY <1>2, <1>3, <1>8, <1>9 DEF Layout, gs, tt, n, c

-----------------------------------------------------------------------------
(***************************************************************************)
(* Calls.                                                                  *)
(***************************************************************************)
LEMMA NewFrame ==
    ASSUME NEW T, NEW i, NEW at, NEW st
    PROVE  /\ Frame \in FramesOf(T) /\ Held(Frame) = 0 /\ Laid(Frame, i, at, st)
           /\ GoesOn(Frame)
<1>1. Frame.kind = "start" /\ Frame.parts = <<>> /\ Frame.names = <<>>
  BY DEF Frame
<1>2. Frame \in FramesOf(T)
  <2>1. <<>> \in Seq(T) /\ <<>> \in Seq(Words)
    BY EmptySeq
  <2>2. "start" \in Kinds
    BY DEF Kinds
  <2> QED BY <2>1, <2>2 DEF Frame, FramesOf
<1> QED BY <1>1, <1>2 DEF Held, Laid, GoesOn, KeepsRecord, OneByOne

LEMMA NothingPushed ==
    ASSUME NEW S, NEW st \in Seq(S)
    PROVE  st \o <<>> = st /\ <<>> \in Seq(S) /\ Len(<<>>) = 0
BY ConcatEmptySeq, EmptySeq

LEMMA OnePushed ==
    ASSUME NEW S, NEW st \in Seq(S), NEW e \in S
    PROVE  /\ Append(st, e) = st \o <<e>> /\ <<e>> \in Seq(S) /\ Len(<<e>>) = 1
           /\ (st \o <<e>>)[Len(st) + 1] = e
           /\ \A k \in 1 .. Len(st) : (st \o <<e>>)[k] = st[k]
<1>1. Append(st, e) = st \o <<e>>
  BY AppendIsConcat
<1>2. <<e>> \in Seq(S) /\ Len(<<e>>) = 1
  BY StackOne
<1>3. /\ Append(st, e)[Len(st) + 1] = e
      /\ \A k \in 1 .. Len(st) : Append(st, e)[k] = st[k]
  BY StackPush
<1> QED BY <1>1, <1>2, <1>3

\* A call is made, when all that are open wait for it.
LEMMA NextCall ==
    ASSUME NEW T, NEW gs, NEW tt, NEW c, Layout(T, gs, tt, c),
           \A i \in 1 .. Len(gs) : Waits(gs[i])
    PROVE  /\ \E d : Layout(T, Append(gs, Frame), tt, d)
           /\ Calls(Append(gs, Frame)) /\ Append(gs, Frame) # <<>>
<1>1. tt \in Seq(Entries) /\ gs \in Seq(FramesOf(T)) /\ Len(gs) \in Nat
  BY LenProperties DEF Layout
<1>2. Frame \in FramesOf(T) /\ Held(Frame) = 0 /\ Laid(Frame, Len(gs) + 1, Len(tt), tt)
      /\ GoesOn(Frame)
  BY NewFrame
<1>3. tt \o <<>> = tt /\ <<>> \in Seq(Entries) /\ Len(<<>>) = 0
  BY <1>1, NothingPushed
<1>4. Laid(Frame, Len(gs) + 1, Len(tt), tt \o <<>>) /\ Held(Frame) = Len(<<>>)
  BY <1>2, <1>3
<1>5. \E d : Layout(T, Append(gs, Frame), tt \o <<>>, d)
  BY <1>2, <1>3, <1>4, PushLayout
<1>6. /\ Len(Append(gs, Frame)) = Len(gs) + 1 /\ Append(gs, Frame) # <<>>
      /\ Append(gs, Frame)[Len(gs) + 1] = Frame
      /\ \A i \in 1 .. Len(gs) : Append(gs, Frame)[i] = gs[i]
  BY <1>1, <1>2, StackPush
<1>7. Len(Append(gs, Frame)) - 1 = Len(gs)
  BY <1>1, <1>6
<1> QED BY <1>2, <1>3, <1>5, <1>6, <1>7 DEF Calls

\* The innermost call waits for another, and holds more meanwhile.
LEMMA PartIsRead ==
    ASSUME SyntaxInv, frames # <<>>, status # "done",
           NEW f, \A T : Top \in FramesOf(T) => f \in FramesOf(T),
           Waits(f), NEW pushed \in Seq(Entries), NEW at \in Nat,
           at + Held(Top) = Len(stack), Held(f) = Held(Top) + Len(pushed),
           Laid(f, Level, at, stack \o pushed),
           NEW n, ReadPart(f, n, pushed)
    PROVE  SyntaxInv'
<1> DEFINE gs == [frames EXCEPT ![Level] = f]
           tt == stack \o pushed
<1>1. PICK T, b : Layout(T, frames, stack, b)
  BY DEF SyntaxInv
<1>2. /\ Level \in Nat \ {0} /\ Top \in FramesOf(T)
      /\ b[Level] \in Nat /\ b[Level] + Held(Top) = Len(stack) /\ Len(stack) \in Nat
  <2>1. Len(stack) \in Nat
    BY <1>1, LenProperties DEF Layout
  <2> QED BY <1>1, <2>1, TopOfLayout DEF Level, Top
<1>3. b[Level] = at
  <2>1. Held(Top) \in Nat
    BY <1>2, HeldIsANumber
  <2> QED BY <1>2, <2>1
<1>4. f \in FramesOf(T)
  BY <1>2
<1>5. PICK c : Layout(T, gs, tt, c)
  <2>1. Laid(f, Len(frames), b[Len(frames)], stack \o pushed)
    BY <1>3 DEF Level
  <2>2. Held(f) = Held(frames[Len(frames)]) + Len(pushed)
    BY DEF Top, Level
  <2> QED BY <1>1, <1>4, <2>1, <2>2, ReplaceLayout DEF Level
<1>6. /\ Len(gs) = Level /\ gs[Level] = f
      /\ \A i \in 1 .. Level - 1 : gs[i] = frames[i]
  <2>1. frames \in [1 .. Level -> FramesOf(T)]
    BY <1>1, LenProperties DEF Layout, Level
  <2>2. gs \in [1 .. Level -> FramesOf(T)] /\ gs[Level] = f
        /\ \A i \in 1 .. Level - 1 : gs[i] = frames[i]
    BY <1>2, <1>4, <2>1
  <2> HIDE DEF gs
  <2>3. Len(gs) = Level
    BY <1>2, <2>2, FunSeq
  <2> QED BY <2>2, <2>3
<1>7. frames' = Append(gs, Frame) /\ stack' = tt /\ status' = status
  BY DEF ReadPart
<1> HIDE DEF gs, tt
<1>8. ASSUME NEW i \in 1 .. Len(gs)
      PROVE  Waits(gs[i])
  <2>1. CASE i = Level
    BY <1>6, <2>1
  <2>2. CASE i # Level
    <3>1. i \in 1 .. Level - 1
      BY <1>2, <1>6, <2>2
    <3> QED BY <1>6, <3>1 DEF SyntaxInv, Calls, Level
  <2> QED BY <2>1, <2>2
<1>9. /\ \E d : Layout(T, Append(gs, Frame), tt, d)
      /\ Calls(Append(gs, Frame)) /\ Append(gs, Frame) # <<>>
  BY <1>5, <1>8, NextCall
<1> QED BY <1>7, <1>9 DEF SyntaxInv

\* A call that has a part more, and has pushed it if it does so.
Handed(f, t) == [f EXCEPT !.parts = Append(@, t)]

LEMMA OnePartMore ==
    ASSUME NEW U, NEW f \in FramesOf(U), NEW t \in U
    PROVE  /\ Handed(f, t) \in FramesOf(U)
           /\ Handed(f, t).kind = f.kind /\ Handed(f, t).names = f.names
           /\ Handed(f, t).parts = Append(f.parts, t)
           /\ Len(Handed(f, t).parts) = Len(f.parts) + 1 /\ Handed(f, t).parts # <<>>
<1> DEFINE e == Append(f.parts, t)
<1>1. e \in Seq(U) /\ e # <<>> /\ Len(e) = Len(f.parts) + 1
  <2>1. f.parts \in Seq(U)
    BY DEF FramesOf
  <2> QED BY <2>1, StackPush
<1>2. Handed(f, t) = [f EXCEPT !.parts = e]
  BY DEF Handed
<1>e. e = Append(f.parts, t)
  OBVIOUS
<1> HIDE DEF e
<1>3. f = [kind |-> f.kind, parts |-> f.parts, names |-> f.names]
  BY DEF FramesOf
<1>4. Handed(f, t) = [kind |-> f.kind, parts |-> e, names |-> f.names]
  BY <1>2, <1>3
<1>5. Handed(f, t) \in FramesOf(U)
  BY <1>1, <1>4 DEF FramesOf
<1>6. Handed(f, t).kind = f.kind /\ Handed(f, t).names = f.names /\ Handed(f, t).parts = e
  BY <1>4
<1> QED BY <1>1, <1>5, <1>6, <1>e

LEMMA PartsOfGiven ==
    ASSUME NEW T, NEW f \in FramesOf(T), NEW t
    PROVE  /\ Handed(f, t).kind = f.kind /\ Handed(f, t).names = f.names
           /\ Handed(f, t).parts = Append(f.parts, t)
           /\ Len(Handed(f, t).parts) = Len(f.parts) + 1 /\ Handed(f, t).parts # <<>>
<1>1. PICK U : T \subseteq U /\ t \in U
  <2>1. T \subseteq T \cup {t} /\ t \in T \cup {t}
    OBVIOUS
  <2> QED BY <2>1
<1>2. f \in FramesOf(U)
  BY <1>1, FrameOfMore
<1> QED BY <1>1, <1>2, OnePartMore

LEMMA HeldMore ==
    ASSUME NEW T, NEW f \in FramesOf(T), Waits(f), NEW t
    PROVE  /\ PushesPart(f) => Held(Handed(f, t)) = Held(f) + 1
           /\ ~PushesPart(f) => Held(Handed(f, t)) = Held(f)
           /\ GoesOn(Handed(f, t))
<1> DEFINE g == Handed(f, t)
           p == Len(f.parts)
           q == Len(f.names)
<1>1. /\ g.kind = f.kind /\ g.names = f.names /\ Len(g.parts) = p + 1 /\ g.parts # <<>>
      /\ p \in Nat /\ q \in Nat /\ Held(f) \in Nat
  <2>1. p \in Nat /\ q \in Nat /\ Held(f) \in Nat
    BY HeldIsANumber
  <2>2. /\ Handed(f, t).kind = f.kind /\ Handed(f, t).names = f.names
        /\ Len(Handed(f, t).parts) = Len(f.parts) + 1 /\ Handed(f, t).parts # <<>>
    BY PartsOfGiven
  <2> QED BY <2>1, <2>2
<1> HIDE DEF g
<1>2. CASE f.kind = "Shape"
  <2>1. Held(f) = 1 + q + p /\ Held(g) = 1 + q + (p + 1)
    BY <1>1, <1>2 DEF Held, OneByOne
  <2>2. PushesPart(f) /\ q = p + 1
    BY <1>2 DEF PushesPart, Waits
  <2> HIDE DEF p, q
  <2>3. Held(g) = Held(f) + 1
    BY <1>1, <2>1
  <2>4. Len(g.names) = Len(g.parts)
    BY <1>1, <2>2 DEF q
  <2> QED BY <2>2, <2>3, <2>4 DEF GoesOn, g
<1>3. CASE f.kind \in OneByOne
  <2>1. Held(f) = p /\ Held(g) = p + 1 /\ f.kind # "Shape"
    BY <1>1, <1>3 DEF Held, OneByOne
  <2>2. PushesPart(f)
    BY <1>3 DEF PushesPart, OneByOne
  <2> HIDE DEF p
  <2> QED BY <1>1, <2>1, <2>2 DEF GoesOn, g
<1>4. CASE f.kind = "Table"
  <2>1. Held(f) = (IF f.parts = <<>> THEN 1 ELSE 2) /\ Held(g) = 2
    BY <1>1, <1>4 DEF Held, OneByOne
  <2>2. PushesPart(f) <=> f.parts = <<>>
    BY <1>4 DEF PushesPart
  <2> QED BY <1>1, <1>4, <2>1, <2>2 DEF GoesOn, g
<1>5. CASE f.kind \notin OneByOne \cup {"Shape", "Table"}
  <2>1. Held(f) = Held(g) /\ ~PushesPart(f)
    BY <1>1, <1>5 DEF Held, OneByOne, PushesPart
  <2> QED BY <1>1, <1>5, <2>1 DEF GoesOn, g
<1> QED BY <1>2, <1>3, <1>4, <1>5

\* What the innermost call pops is what it holds.
LEMMA PopsWhatIsHeld ==
    ASSUME NEW T, NEW f \in FramesOf(T), GoesOn(f), f.kind = "Table" => Len(f.parts) = 2
    PROVE  Pops(f) = Held(f)
<1> DEFINE p == Len(f.parts)
           q == Len(f.names)
<1>1. p \in Nat /\ q \in Nat
  BY HeldIsANumber
<1>2. CASE f.kind = "Shape"
  <2>1. Held(f) = 1 + q + p
    BY <1>2 DEF Held, OneByOne
  <2>2. Pops(f) = 2 * p + 1
    BY <1>2 DEF Pops
  <2>3. q = p
    BY <1>2 DEF GoesOn
  <2> HIDE DEF p, q
  <2>4. 1 + q + p = 2 * p + 1
    BY <1>1, <2>3
  <2> QED BY <2>1, <2>2, <2>4
<1>3. CASE f.kind \in OneByOne
  <2>1. Held(f) = p
    BY <1>3 DEF Held, OneByOne
  <2>2. Pops(f) = p
    BY <1>3 DEF Pops, OneByOne
  <2> QED BY <2>1, <2>2
<1>4. CASE f.kind = "Table"
  <2>1. f.parts # <<>>
    BY <1>4, EmptySeq
  <2> QED BY <1>4, <2>1 DEF Held, Pops, OneByOne
<1>5. CASE f.kind \notin OneByOne \cup {"Shape", "Table"}
  BY <1>5 DEF Held, Pops, OneByOne
<1> QED BY <1>2, <1>3, <1>4, <1>5

\* The call that waited has its part.
LEMMA CallerGoesOn ==
    ASSUME NEW T, NEW fs, NEW st, NEW b, Layout(T, fs, st, b), fs # <<>>,
           Waits(fs[Len(fs)]), NEW t
    PROVE  LET m == Len(fs)
               c == fs[m]
               tt == IF PushesPart(c) THEN Append(st, <<m, Len(c.parts) + 1>>) ELSE st
           IN  /\ \E U, d : Layout(U, [fs EXCEPT ![m] = Handed(c, t)], tt, d)
               /\ GoesOn(Handed(c, t))
<1> DEFINE m == Len(fs)
           c == fs[m]
           e == <<m, Len(c.parts) + 1>>
           g == Handed(c, t)
           tt == IF PushesPart(c) THEN Append(st, e) ELSE st
           pushed == IF PushesPart(c) THEN <<e>> ELSE <<>>
<1>1. /\ m \in Nat \ {0} /\ c \in FramesOf(T)
      /\ b[m] \in Nat /\ b[m] + Held(c) = Len(st)
  BY TopOfLayout
<1>2. PICK U : T \subseteq U /\ t \in U
  <2>1. T \subseteq T \cup {t} /\ t \in T \cup {t}
    OBVIOUS
  <2> QED BY <2>1
<1>3. Layout(U, fs, st, b)
  <2>1. fs \in Seq(FramesOf(T))
    BY DEF Layout
  <2>2. fs \in Seq(FramesOf(U))
    BY <1>2, <2>1, FramesGrow
  <2> QED BY <2>2 DEF Layout
<1>4. c \in FramesOf(U)
  BY <1>1, <1>2, FrameOfMore
<1>5. /\ g \in FramesOf(U) /\ g.kind = c.kind /\ Len(g.parts) = Len(c.parts) + 1
  BY <1>2, <1>4, OnePartMore
<1>6. /\ PushesPart(c) => Held(g) = Held(c) + 1
      /\ ~PushesPart(c) => Held(g) = Held(c)
      /\ GoesOn(g)
  BY <1>4, HeldMore
<1>7. Held(c) \in Nat /\ Len(c.parts) \in Nat /\ st \in Seq(Entries) /\ Len(st) \in Nat
  BY <1>1, HeldIsANumber, LenProperties DEF Layout
<1>8. e \in Entries
  BY <1>1, <1>7 DEF Entries
<1>9. /\ tt = st \o pushed /\ pushed \in Seq(Entries)
      /\ PushesPart(c) => Len(pushed) = 1 /\ tt[Len(st) + 1] = e
      /\ ~PushesPart(c) => Len(pushed) = 0
      /\ \A k \in 1 .. Len(st) : tt[k] = st[k]
  <2>1. CASE PushesPart(c)
    <3>1. tt = Append(st, e) /\ pushed = <<e>>
      BY <2>1
    <3> HIDE DEF tt, pushed, e, c, m
    <3> QED BY <1>7, <1>8, <2>1, <3>1, OnePushed
  <2>2. CASE ~PushesPart(c)
    <3>1. tt = st /\ pushed = <<>>
      BY <2>2
    <3> HIDE DEF tt, pushed, e, c, m
    <3> QED BY <1>7, <2>2, <3>1, NothingPushed
  <2> QED BY <2>1, <2>2
<1>10. Laid(c, m, b[m], st)
  BY <1>1 DEF Layout
<1>p. c.kind \in OneByOne => PushesPart(c) /\ Held(c) = Len(c.parts)
  BY DEF PushesPart, OneByOne, Held
<1>e. e = <<m, Len(c.parts) + 1>>
  OBVIOUS
<1> HIDE DEF tt, pushed, e, g, c
<1>11. Laid(c, m, b[m], tt)
  <2>1. \A k \in b[m] + 1 .. b[m] + Held(c) : tt[k] = st[k]
    BY <1>1, <1>7, <1>9
  <2> QED BY <1>1, <1>10, <2>1, LaidStays
<1>12. Laid(g, m, b[m], tt)
  <2>1. g.kind \in KeepsRecord => tt[b[m] + 1] = <<m, 0>>
    BY <1>5, <1>11 DEF Laid
  <2>2. ASSUME g.kind \in OneByOne, NEW j \in 1 .. Len(g.parts)
        PROVE  tt[b[m] + j] = <<m, j>>
    <3>1. CASE j \in 1 .. Len(c.parts)
      BY <1>5, <1>11, <2>2, <3>1 DEF Laid
    <3>2. CASE j \notin 1 .. Len(c.parts)
      <4>1. j = Len(c.parts) + 1
        BY <1>5, <1>7, <2>2, <3>2
      <4>2. b[m] + j = Len(st) + 1
        <5>1. Held(c) = Len(c.parts)
          BY <1>5, <1>p, <2>2
        <5>2. b[m] \in Nat /\ b[m] + Len(c.parts) = Len(st) /\ Len(c.parts) \in Nat
          BY <1>1, <1>7, <5>1
        <5> QED BY SMTT(30), <4>1, <5>2
      <4>3. tt[Len(st) + 1] = e
        BY <1>5, <1>9, <1>p, <2>2
      <4> QED BY <1>e, <4>1, <4>2, <4>3
    <3> QED BY <3>1, <3>2
  <2> QED BY <2>1, <2>2 DEF Laid
<1>13. Held(g) = Held(c) + Len(pushed)
  <2>1. CASE PushesPart(c)
    <3>1. Held(g) = Held(c) + 1 /\ Len(pushed) = 1
      BY <1>6, <1>9, <2>1
    <3> QED BY <3>1
  <2>2. CASE ~PushesPart(c)
    <3>1. Held(g) = Held(c) /\ Len(pushed) = 0 /\ Held(c) \in Nat
      BY <1>6, <1>7, <1>9, <2>2
    <3> QED BY <3>1
  <2> QED BY <2>1, <2>2
<1>14. Laid(g, m, b[m], st \o pushed)
  BY <1>9, <1>12
<1>15. Held(g) = Held(fs[Len(fs)]) + Len(pushed)
  BY <1>13 DEF c
<1>16. \E d : Layout(U, [fs EXCEPT ![m] = g], st \o pushed, d)
  BY <1>3, <1>5, <1>9, <1>14, <1>15, ReplaceLayout
<1>17. \E V, d : Layout(V, [fs EXCEPT ![m] = g], tt, d)
  BY <1>9, <1>16
<1> QED BY <1>6, <1>17 DEF tt, e, g, c

\* What is left of the stack by a call that ends.
LEMMA WhatIsLeft ==
    ASSUME NEW T, NEW b, Layout(T, frames, stack, b), frames # <<>>, Pops(Top) = Held(Top)
    PROVE  Popped = SubSeq(stack, 1, b[Level]) /\ Level \in Nat \ {0}
<1>1. Len(stack) - Held(Top) = b[Level] /\ Level \in Nat \ {0}
  BY TopOfLayout DEF Top, Level
<1> QED BY <1>1 DEF Popped

\* A call returns.
LEMMA Returned ==
    ASSUME SyntaxInv, status = "reading", Pops(Top) = Held(Top),
           NEW t, NEW n, Returns(t, n)
    PROVE  SyntaxInv'
<1> DEFINE gs == SubSeq(frames, 1, Level - 1)
           caller == frames[Level - 1]
<1>1. PICK T, b : Layout(T, frames, stack, b)
  BY DEF SyntaxInv
<1>2. frames # <<>>
  BY DEF SyntaxInv
<1>3. Popped = SubSeq(stack, 1, b[Level]) /\ Level \in Nat \ {0}
  BY <1>1, <1>2, WhatIsLeft
<1>4. /\ gs \in Seq(FramesOf(T)) /\ Len(gs) = Level - 1
      /\ \A i \in 1 .. Level - 1 : gs[i] = frames[i]
  BY <1>1, <1>2, StackPop DEF Layout, Level
<1>5. PICK c : Layout(T, gs, Popped, c)
  BY <1>1, <1>2, <1>3, CutLayout DEF Level
<1>6. CASE Level = 1
  <2>1. frames' = <<>> /\ stack' = Popped /\ status' = "done"
    BY <1>6 DEF Returns
  <2>2. gs = <<>>
    BY <1>4, <1>6, EmptySeq
  <2>3. Layout(T, frames', stack', c)
    BY <1>5, <2>1, <2>2
  <2>4. Calls(frames')
    BY <2>1 DEF Calls
  <2> QED BY <2>1, <2>3, <2>4 DEF SyntaxInv
<1>7. CASE Level # 1
  <2> DEFINE m == Level - 1
             tt == IF PushesPart(caller) THEN Append(Popped, <<m, Len(caller.parts) + 1>>)
                   ELSE Popped
             hs == [gs EXCEPT ![m] = Handed(caller, t)]
  <2>1. m \in Nat \ {0} /\ Len(gs) = m /\ gs # <<>> /\ gs[m] = caller
    <3>1. m \in Nat \ {0} /\ Len(gs) = m
      BY <1>3, <1>4, <1>7
    <3>2. gs # <<>>
      BY <3>1, EmptySeq
    <3> QED BY <1>4, <3>1, <3>2
  <2>2. Waits(caller)
    BY <2>1 DEF SyntaxInv, Calls, Level
  <2>3. /\ frames' = [gs EXCEPT ![m].parts = Append(@, t)]
        /\ stack' = tt /\ status' = status
    BY <1>7 DEF Returns
  <2>4. [gs EXCEPT ![m].parts = Append(@, t)] = [gs EXCEPT ![m] = Handed(gs[m], t)]
    BY DEF Handed
  <2> HIDE DEF gs, caller
  <2>5. frames' = hs
    BY <2>1, <2>3, <2>4
  <2>6. (\E U, d : Layout(U, hs, tt, d)) /\ GoesOn(Handed(caller, t))
    BY <1>5, <2>1, <2>2, CallerGoesOn
  <2>7. Len(hs) = m /\ hs[m] = Handed(caller, t) /\ \A i \in 1 .. m - 1 : hs[i] = gs[i]
    <3>1. PICK U, d : Layout(U, hs, tt, d)
      BY <2>6
    <3>2. gs \in [1 .. m -> FramesOf(T)]
      BY <1>4, <2>1, LenProperties
    <3>3. DOMAIN hs = 1 .. m /\ hs[m] = Handed(caller, t) /\ \A i \in 1 .. m - 1 : hs[i] = gs[i]
      BY <2>1, <3>2
    <3> HIDE DEF hs
    <3>4. Len(hs) = m
      <4>1. hs \in Seq(FramesOf(U))
        BY <3>1 DEF Layout
      <4> QED BY <2>1, <3>3, <4>1, LenProperties
    <3> QED BY <3>3, <3>4
  <2> HIDE DEF hs, tt
  <2>8. Calls(hs)
    <3>1. ASSUME NEW i \in 1 .. m - 1
          PROVE  Waits(hs[i])
      <4>1. i \in 1 .. Level - 1
        BY <2>1
      <4>2. Waits(frames[i])
        BY <4>1 DEF SyntaxInv, Calls, Level
      <4> QED BY <1>4, <2>7, <4>1, <4>2
    <3> QED BY <2>6, <2>7, <3>1 DEF Calls
  <2>9. hs # <<>>
    BY <2>1, <2>7, EmptySeq
  <2> QED BY <2>3, <2>5, <2>6, <2>8, <2>9 DEF SyntaxInv
<1> QED BY <1>6, <1>7

\* A union that has its first part.
LEMMA NewUnion ==
    ASSUME NEW U, NEW t \in U
    PROVE  LET f == [Frame EXCEPT !.kind = "Union", !.parts = <<t>>]
           IN  f \in FramesOf(U) /\ f.kind = "Union" /\ f.parts = <<t>> /\ Held(f) = 1 /\ Waits(f)
<1> DEFINE f == [Frame EXCEPT !.kind = "Union", !.parts = <<t>>]
           p == <<t>>
<1>1. f = [kind |-> "Union", parts |-> p, names |-> <<>>]
  <2>1. f = [[kind |-> "start", parts |-> <<>>, names |-> <<>>] EXCEPT !.kind = "Union", !.parts = p]
    BY DEF Frame
  <2> HIDE DEF p, f
  <2> DEFINE o == <<>>
  <2>2. f = [[kind |-> "start", parts |-> o, names |-> o] EXCEPT !.kind = "Union", !.parts = p]
    BY <2>1
  <2>o. o = <<>>
    OBVIOUS
  <2> HIDE DEF o
  <2>3. f = [kind |-> "Union", parts |-> p, names |-> o]
    BY <2>2
  <2> QED BY <2>3, <2>o
<1>2. p \in Seq(U) /\ Len(p) = 1
  BY StackOne
<1>3. <<>> \in Seq(Words) /\ "Union" \in Kinds
  BY EmptySeq DEF Kinds
<1>p. p = <<t>>
  OBVIOUS
<1> HIDE DEF p
<1>4. f \in FramesOf(U) /\ f.kind = "Union" /\ f.parts = p
  BY <1>1, <1>2, <1>3 DEF FramesOf
<1> HIDE DEF f
<1>5. Held(f) = 1 /\ Waits(f)
  BY <1>2, <1>4 DEF Held, OneByOne, Waits, OfOne
<1> QED BY <1>4, <1>5, <1>p DEF f

LEMMA SameFunction ==
    ASSUME NEW S, NEW V, NEW F \in [S -> V], NEW G \in [S -> V], \A x \in S : F[x] = G[x]
    PROVE  F = G
OBVIOUS

\* A type is read to its end, and what follows it is looked at.
LEMMA Ended ==
    ASSUME SyntaxInv, status = "reading", Pops(Top) = Held(Top),
           NEW t, NEW n, Ends(t, n)
    PROVE  SyntaxInv'
<1> DEFINE gs == SubSeq(frames, 1, Level - 1)
           f == [Frame EXCEPT !.kind = "Union", !.parts = <<t>>]
           e == <<Level, 1>>
           hs == Append(gs, f)
           tt == Append(Popped, e)
<1>1. CASE TokenAt(pos + n) # "|"
  <2>1. Returns(t, n)
    BY <1>1 DEF Ends
  <2> QED BY <2>1, Returned
<1>2. CASE TokenAt(pos + n) = "|"
  <2>1. PICK T, b : Layout(T, frames, stack, b)
    BY DEF SyntaxInv
  <2>2. PICK U : T \subseteq U /\ t \in U
    <3>1. T \subseteq T \cup {t} /\ t \in T \cup {t}
      OBVIOUS
    <3> QED BY <3>1
  <2>3. frames # <<>>
    BY DEF SyntaxInv
  <2>4. Layout(U, frames, stack, b)
    <3>1. frames \in Seq(FramesOf(T))
      BY <2>1 DEF Layout
    <3>2. frames \in Seq(FramesOf(U))
      BY <2>2, <3>1, FramesGrow
    <3> QED BY <2>1, <3>2 DEF Layout
  <2>5. Popped = SubSeq(stack, 1, b[Level]) /\ Level \in Nat \ {0}
    BY <2>1, <2>3, WhatIsLeft
  <2>6. /\ gs \in Seq(FramesOf(U)) /\ Len(gs) = Level - 1
        /\ \A i \in 1 .. Level - 1 : gs[i] = frames[i]
    BY <2>3, <2>4, StackPop DEF Layout, Level
  <2>7. PICK c : Layout(U, gs, Popped, c)
    BY <2>3, <2>4, <2>5, CutLayout DEF Level
  <2>8. f \in FramesOf(U) /\ f.kind = "Union" /\ f.parts = <<t>> /\ Held(f) = 1 /\ Waits(f)
    BY <2>2, NewUnion
  <2>9. [frames EXCEPT ![Level] = f] = hs
    <3> DEFINE fs == [frames EXCEPT ![Level] = f]
    <3>1. frames \in [1 .. Level -> FramesOf(U)]
      BY <2>4, LenProperties DEF Layout, Level
    <3>2. fs \in [1 .. Level -> FramesOf(U)] /\ fs[Level] = f
          /\ \A i \in 1 .. Level - 1 : fs[i] = frames[i]
      BY <2>5, <2>8, <3>1
    <3> HIDE DEF fs, f
    <3>3. /\ hs \in Seq(FramesOf(U)) /\ Len(hs) = (Level - 1) + 1
          /\ hs[(Level - 1) + 1] = f /\ \A i \in 1 .. Level - 1 : hs[i] = gs[i]
      BY <2>6, <2>8, StackPush
    <3> HIDE DEF hs
    <3>4. hs \in [1 .. Level -> FramesOf(U)] /\ hs[Level] = f
      <4>1. (Level - 1) + 1 = Level
        BY <2>5
      <4> QED BY <3>3, <4>1, LenProperties
    <3>5. ASSUME NEW i \in 1 .. Level
          PROVE  fs[i] = hs[i]
      <4>1. CASE i = Level
        BY <3>2, <3>4, <4>1
      <4>2. CASE i # Level
        <5>1. i \in 1 .. Level - 1
          BY <2>5, <4>2
        <5> QED BY <2>6, <3>2, <3>3, <5>1
      <4> QED BY <4>1, <4>2
    <3>6. fs = hs
      <4>1. PICK S : S = 1 .. Level
        OBVIOUS
      <4>2. fs \in [S -> FramesOf(U)] /\ hs \in [S -> FramesOf(U)] /\ \A x \in S : fs[x] = hs[x]
        BY <3>2, <3>4, <3>5, <4>1
      <4> QED BY <4>2, SameFunction
    <3> QED BY <3>6 DEF fs
  <2>10. PICK d : Layout(U, hs, tt, d)
    <3>1. Popped \in Seq(Entries) /\ e \in Entries
      BY <2>5, <2>7 DEF Layout, Entries
    <3>2. /\ tt = Popped \o <<e>> /\ <<e>> \in Seq(Entries) /\ Len(<<e>>) = 1
          /\ (Popped \o <<e>>)[Len(Popped) + 1] = e
      <4> HIDE DEF e
      <4> QED BY <3>1, OnePushed
    <3>3. Laid(f, Len(gs) + 1, Len(Popped), Popped \o <<e>>)
      <4>1. Len(gs) + 1 = Level
        BY <2>5, <2>6
      <4>2. Len(f.parts) = 1
        <5>1. Len(<<t>>) = 1
          BY StackOne
        <5> QED BY <2>8, <5>1
      <4>3. f.kind \notin KeepsRecord
        BY <2>8 DEF KeepsRecord
      <4>e. e = <<Level, 1>>
        OBVIOUS
      <4> HIDE DEF f, e
      <4>4. ASSUME NEW j \in 1 .. Len(f.parts)
            PROVE  (Popped \o <<e>>)[Len(Popped) + j] = <<Len(gs) + 1, j>>
        <5>1. j = 1
          BY <4>2
        <5> QED BY <3>2, <4>1, <4>e, <5>1
      <4> QED BY <4>3, <4>4 DEF Laid
    <3>4. Held(f) = Len(<<e>>)
      BY <2>8, <3>2
    <3> HIDE DEF f, e, gs
    <3>5. \E d : Layout(U, Append(gs, f), Popped \o <<e>>, d)
      BY <2>7, <2>8, <3>2, <3>3, <3>4, PushLayout
    <3> QED BY <3>2, <3>5
  <2>11. ASSUME NEW i \in 1 .. Len(hs)
         PROVE  Waits(hs[i])
    <3> HIDE DEF gs, f
    <3>1. Len(hs) = Len(gs) + 1 /\ hs[Len(gs) + 1] = f /\ \A k \in 1 .. Len(gs) : hs[k] = gs[k]
      BY <2>6, <2>8, StackPush
    <3>2. CASE i = Len(gs) + 1
      BY <2>8, <3>1, <3>2
    <3>3. CASE i # Len(gs) + 1
      <4>1. i \in 1 .. Len(gs) /\ i \in 1 .. Level - 1
        BY <2>5, <2>6, <3>1, <3>3
      <4>2. Waits(frames[i])
        BY <4>1 DEF SyntaxInv, Calls, Level
      <4> QED BY <2>6, <3>1, <4>1, <4>2
    <3> QED BY <3>2, <3>3
  <2>12. frames' = Append(hs, Frame) /\ stack' = tt /\ status' = status
    <3>1. frames' = Append([frames EXCEPT ![Level] = f], Frame) /\ stack' = tt /\ status' = status
      BY <1>2 DEF Ends
    <3> QED BY <2>9, <3>1
  <2> HIDE DEF hs, tt
  <2>13. /\ \E k : Layout(U, Append(hs, Frame), tt, k)
         /\ Calls(Append(hs, Frame)) /\ Append(hs, Frame) # <<>>
    BY <2>10, <2>11, NextCall
  <2> QED BY <2>12, <2>13 DEF SyntaxInv
<1> QED BY <1>1, <1>2

-----------------------------------------------------------------------------
(***************************************************************************)
(* Steps.                                                                  *)
(***************************************************************************)
LEMMA GoingOn ==
    ASSUME SyntaxInv, status = "reading"
    PROVE  /\ frames # <<>> /\ Level \in Nat \ {0} /\ GoesOn(Top)
           /\ stack \in Seq(Entries) /\ Len(stack) \in Nat
           /\ \E T : Top \in FramesOf(T)
           /\ \E at \in Nat : at + Held(Top) = Len(stack) /\ Laid(Top, Level, at, stack)
<1>1. frames # <<>>
  BY DEF SyntaxInv
<1>2. PICK T, b : Layout(T, frames, stack, b)
  BY DEF SyntaxInv
<1>3. /\ Level \in Nat \ {0} /\ Top \in FramesOf(T)
      /\ b[Level] \in Nat /\ b[Level] + Held(Top) = Len(stack)
  BY <1>1, <1>2, TopOfLayout DEF Level, Top
<1>4. Laid(Top, Level, b[Level], stack)
  BY <1>2, <1>3 DEF Layout, Level, Top
<1>5. stack \in Seq(Entries) /\ Len(stack) \in Nat
  BY <1>2, LenProperties DEF Layout
<1>6. GoesOn(Top)
  BY <1>1 DEF SyntaxInv, Calls, Level, Top
<1> QED BY <1>1, <1>3, <1>4, <1>5, <1>6

\* A call ends.
LEMMA EndOfCall ==
    ASSUME SyntaxInv, status = "reading", Top.kind = "Table" => Len(Top.parts) = 2
    PROVE  Pops(Top) = Held(Top)
BY GoingOn, PopsWhatIsHeld

LEMMA TopIsAFrame ==
    ASSUME SyntaxInv, status = "reading"
    PROVE  Held(Top) \in Nat /\ Len(Top.parts) \in Nat /\ Len(Top.names) \in Nat
           /\ Top.names \in Seq(Words)
<1>1. PICK T : Top \in FramesOf(T)
  BY GoingOn
<1>2. Held(Top) \in Nat /\ Len(Top.parts) \in Nat /\ Len(Top.names) \in Nat
  BY <1>1, HeldIsANumber
<1> QED BY <1>1, <1>2 DEF FramesOf

\* A call begins to read a type with parts.
LEMMA CallOpened ==
    ASSUME SyntaxInv, status = "reading", Top.kind = "start",
           NEW kind \in Kinds \ {"start"}, NEW ns \in Seq(Words), kind = "Shape" => Len(ns) = 1,
           NEW f, f = [kind |-> kind, parts |-> <<>>, names |-> ns],
           NEW pushed \in Seq(Entries), Held(f) = Len(pushed),
           kind \in KeepsRecord => pushed # <<>> /\ pushed[1] = <<Level, 0>>,
           NEW n, ReadPart(f, n, pushed)
    PROVE  SyntaxInv'
<1>1. /\ frames # <<>> /\ Level \in Nat \ {0} /\ stack \in Seq(Entries) /\ Len(stack) \in Nat
  BY GoingOn
<1>2. Held(Top) = 0
  BY DEF Held, OneByOne
<1>3. ASSUME NEW T
      PROVE  f \in FramesOf(T)
  <2>1. PICK p : p = <<>> /\ p \in Seq(T)
    BY EmptySeq
  <2>2. f = [kind |-> kind, parts |-> p, names |-> ns]
    BY <2>1
  <2> QED BY <2>1, <2>2 DEF FramesOf
<1>4. f.kind = kind /\ f.parts = <<>> /\ f.names = ns /\ Len(f.parts) = 0
  BY EmptySeq
<1>5. Waits(f)
  BY <1>4 DEF Waits
<1>6. Laid(f, Level, Len(stack), stack \o pushed)
  <2>1. ASSUME kind \in KeepsRecord
        PROVE  (stack \o pushed)[Len(stack) + 1] = <<Level, 0>>
    <3>1. Len(pushed) \in Nat /\ Len(pushed) # 0
      BY <2>1, LenProperties, EmptySeq
    <3> QED BY <1>1, <2>1, <3>1, ConcatProperties
  <2> QED BY <1>4, <2>1 DEF Laid
<1>7. Len(stack) + Held(Top) = Len(stack) /\ Held(f) = Held(Top) + Len(pushed)
  <2>1. Len(pushed) \in Nat
    BY LenProperties
  <2> QED BY <1>1, <1>2, <2>1
<1> QED BY <1>1, <1>3, <1>5, <1>6, <1>7, PartIsRead

\* A call goes on to the next part.
LEMMA NextRead ==
    ASSUME SyntaxInv, status = "reading",
           NEW f, \A T : Top \in FramesOf(T) => f \in FramesOf(T),
           f.kind = Top.kind, f.parts = Top.parts, Waits(f),
           NEW pushed \in Seq(Entries), Held(f) = Held(Top) + Len(pushed),
           NEW n, ReadPart(f, n, pushed)
    PROVE  SyntaxInv'
<1>1. PICK at \in Nat : at + Held(Top) = Len(stack) /\ Laid(Top, Level, at, stack)
  BY GoingOn
<1>2. /\ frames # <<>> /\ stack \in Seq(Entries) /\ Len(stack) \in Nat
  BY GoingOn
<1>3. PICK T : Top \in FramesOf(T)
  BY GoingOn
<1>4. \A k \in at + 1 .. at + Held(Top) : (stack \o pushed)[k] = stack[k]
  <2>1. \A k \in 1 .. Len(stack) : (stack \o pushed)[k] = stack[k]
    BY <1>2, ConcatProperties
  <2> QED BY <1>1, <1>2, <2>1
<1>5. Laid(Top, Level, at, stack \o pushed)
  BY <1>1, <1>3, <1>4, LaidStays
<1>6. Laid(f, Level, at, stack \o pushed)
  BY <1>5 DEF Laid
<1> QED BY <1>1, <1>2, <1>6, PartIsRead

LEMMA OtherNames ==
    ASSUME NEW f, NEW ns \in Seq(Words)
    PROVE  \A T : f \in FramesOf(T) =>
               LET g == [f EXCEPT !.names = ns]
               IN  g \in FramesOf(T) /\ g.kind = f.kind /\ g.parts = f.parts /\ g.names = ns
<1>1. SUFFICES ASSUME NEW T, f \in FramesOf(T)
               PROVE  LET g == [f EXCEPT !.names = ns]
                      IN  g \in FramesOf(T) /\ g.kind = f.kind /\ g.parts = f.parts /\ g.names = ns
  OBVIOUS
<1>2. f = [kind |-> f.kind, parts |-> f.parts, names |-> f.names]
  BY <1>1 DEF FramesOf
<1>3. [f EXCEPT !.names = ns] = [kind |-> f.kind, parts |-> f.parts, names |-> ns]
  BY <1>2
<1>4. f.kind \in Kinds /\ f.parts \in Seq(T)
  BY <1>1 DEF FramesOf
<1> QED BY <1>3, <1>4 DEF FramesOf

LEMMA ReadSimpleKeeps ==
    ASSUME SyntaxInv, ReadSimple
    PROVE  SyntaxInv'
<1>1. status = "reading" /\ Pops(Top) = Held(Top)
  BY EndOfCall DEF ReadSimple, Starts, Reading
<1>2. \E t, n : Ends(t, n)
  BY DEF ReadSimple
<1> QED BY <1>1, <1>2, Ended

LEMMA ReadVectorKeeps ==
    ASSUME SyntaxInv, ReadVector
    PROVE  SyntaxInv'
<1>1. status = "reading" /\ Pops(Top) = Held(Top)
  BY EndOfCall DEF ReadVector, Starts, Reading
<1>2. \E t, n : Ends(t, n) \/ Returns(t, n)
  BY DEF ReadVector
<1> QED BY <1>1, <1>2, Ended, Returned

LEMMA ReadMatrixKeeps ==
    ASSUME SyntaxInv, ReadMatrix
    PROVE  SyntaxInv'
<1>1. status = "reading" /\ Pops(Top) = Held(Top)
  BY EndOfCall DEF ReadMatrix, Starts, Reading
<1>2. \E t, n : Ends(t, n) \/ Returns(t, n)
  BY DEF ReadMatrix
<1> QED BY <1>1, <1>2, Ended, Returned

LEMMA OpenPartsKeeps ==
    ASSUME SyntaxInv, OpenParts
    PROVE  SyntaxInv'
<1>1. PICK kind \in OfOne \union Lists \union {"Table", "Set", "Shape"} :
          LET n == Len(Opens(kind))
              own == IF kind \in KeepsRecord THEN <<<<Level, 0>>>> ELSE <<>>
              f == [Frame EXCEPT !.kind = kind]
          IN  /\ Starts
              /\ Follow(Opens(kind))
              /\ CASE kind \in Lists /\ TokenAt(pos + n) = Closes(kind) ->
                         IF kind = "Tuple" THEN Ends(Of("Tuple", <<>>), n + 1)
                         ELSE /\ TokenAt(pos + n + 1) = "->"
                              /\ ReadPart([f EXCEPT !.names = <<"->">>], n + 2, own)
                   [] kind = "Shape" ->
                         \/ TokenAt(pos + n) = "}" /\ Ends(Shape(<<>>, <<>>), n + 1)
                         \/ Field(n) /\ ReadPart([f EXCEPT !.names = <<TokenAt(pos + n)>>], n + 2, own \o Name)
                   [] OTHER -> ReadPart(f, n, own)
  BY DEF OpenParts
<1> DEFINE n == Len(Opens(kind))
           own == IF kind \in KeepsRecord THEN <<<<Level, 0>>>> ELSE <<>>
           f == [Frame EXCEPT !.kind = kind]
<1>2. status = "reading" /\ Top.kind = "start"
  BY <1>1 DEF Starts, Reading
<1>3. Pops(Top) = Held(Top)
  BY <1>2, EndOfCall
<1>4. kind \in Kinds \ {"start"}
  BY DEF Kinds, OfOne, Lists
<1>5. Level \in Nat
  BY <1>2, GoingOn
<1>6. /\ kind \in KeepsRecord => /\ own \in Seq(Entries) /\ Len(own) = 1 /\ own # <<>>
                                 /\ own[1] = <<Level, 0>>
      /\ kind \notin KeepsRecord => own = <<>> /\ own \in Seq(Entries) /\ Len(own) = 0
  <2>1. PICK e : e = <<Level, 0>>
    OBVIOUS
  <2>e. e \in Entries
    BY <1>5, <2>1 DEF Entries
  <2>2. <<e>> \in Seq(Entries) /\ Len(<<e>>) = 1 /\ <<e>>[1] = e
    BY <2>e, StackOne
  <2>3. <<e>> # <<>>
    BY <2>2, EmptySeq
  <2>4. <<>> \in Seq(Entries) /\ Len(<<>>) = 0
    BY EmptySeq
  <2> QED BY <2>1, <2>2, <2>3, <2>4
<1>7. f = [kind |-> kind, parts |-> <<>>, names |-> <<>>]
  BY DEF Frame
<1>8. <<>> \in Seq(Words) /\ Len(<<>>) = 0
  BY EmptySeq
<1>9. CASE kind \in Lists /\ TokenAt(pos + n) = Closes(kind)
  <2>1. CASE kind = "Tuple"
    <3>1. Ends(Of("Tuple", <<>>), n + 1)
      BY <1>1, <1>9, <2>1
    <3> QED BY <1>2, <1>3, <3>1, Ended
  <2>2. CASE kind # "Tuple"
    <3>1. ReadPart([f EXCEPT !.names = <<"->">>], n + 2, own)
      <4>1. IF kind = "Tuple" THEN Ends(Of("Tuple", <<>>), n + 1)
            ELSE /\ TokenAt(pos + n + 1) = "->"
                 /\ ReadPart([f EXCEPT !.names = <<"->">>], n + 2, own)
        <5>1. kind # "Shape"
          BY <1>9 DEF Lists
        <5> QED BY <1>1, <1>9, <5>1
      <4> HIDE DEF n, f, own
      <4> QED BY <2>2, <4>1
    <3>s. "->" \in Words
      BY DEF Words
    <3>2. PICK ns : ns = <<"->">> /\ ns \in Seq(Words)
      BY <3>s, StackOne
    <3>3. PICK g : g = [kind |-> kind, parts |-> <<>>, names |-> ns]
      OBVIOUS
    <3>4. [f EXCEPT !.names = ns] = g
      <4>1. PICK o : o = <<>>
        OBVIOUS
      <4>2. f = [kind |-> kind, parts |-> o, names |-> o] /\ g = [kind |-> kind, parts |-> o, names |-> ns]
        BY <1>7, <3>3, <4>1
      <4> HIDE DEF f
      <4> QED BY <4>2
    <3>5. kind = "Function" /\ kind \notin KeepsRecord
      BY <1>9, <2>2 DEF Lists, KeepsRecord
    <3>6. Held(g) = 0
      <4>1. Held(g) = Len(g.parts)
        BY <3>3, <3>5 DEF Held, OneByOne
      <4> QED BY <1>8, <3>3, <4>1
    <3>7. ReadPart(g, n + 2, own)
      BY <3>1, <3>2, <3>4
    <3> HIDE DEF own, n, f
    <3> QED BY <1>2, <1>4, <1>6, <3>2, <3>3, <3>5, <3>6, <3>7, CallOpened
  <2> QED BY <2>1, <2>2
<1>10. CASE kind = "Shape"
  <2>1. kind \notin Lists
    BY <1>10 DEF Lists
  <2>2. CASE Ends(Shape(<<>>, <<>>), n + 1)
    BY <1>2, <1>3, <2>2, Ended
  <2>3. CASE Field(n) /\ ReadPart([f EXCEPT !.names = <<TokenAt(pos + n)>>], n + 2, own \o Name)
    <3>1. PICK ns : ns = <<TokenAt(pos + n)>> /\ ns \in Seq(Words) /\ Len(ns) = 1
      <4>1. TokenAt(pos + n) \in Words
        <5>1. Field(n)
          BY <2>3
        <5> HIDE DEF n, f, own
        <5>2. TokenAt(pos + n) \in {"a", "b"}
          BY <5>1 DEF Field
        <5> QED BY <5>2 DEF Words
      <4> QED BY <4>1, StackOne
    <3>2. PICK g : g = [kind |-> kind, parts |-> <<>>, names |-> ns]
      OBVIOUS
    <3>3. [f EXCEPT !.names = ns] = g
      <4>1. PICK o : o = <<>>
        OBVIOUS
      <4>2. f = [kind |-> kind, parts |-> o, names |-> o] /\ g = [kind |-> kind, parts |-> o, names |-> ns]
        BY <1>7, <3>2, <4>1
      <4> HIDE DEF f
      <4> QED BY <4>2
    <3>4. PICK e : e = <<Level, -1>>
      OBVIOUS
    <3>e. e \in Entries
      BY <1>5, <3>4 DEF Entries
    <3>5. Name = <<e>>
      BY <3>4 DEF Name
    <3>6. own \in Seq(Entries) /\ Len(own) = 1 /\ own[1] = <<Level, 0>>
      BY <1>6, <1>10 DEF KeepsRecord
    <3>7. PICK pushed : pushed = own \o Name
      OBVIOUS
    <3>8. ReadPart(g, n + 2, pushed)
      BY <2>3, <3>1, <3>3, <3>7
    <3> HIDE DEF own, n, f
    <3>9. pushed \in Seq(Entries) /\ Len(pushed) = 2 /\ pushed[1] = <<Level, 0>> /\ pushed # <<>>
      <4>1. <<e>> \in Seq(Entries) /\ Len(<<e>>) = 1
        BY <3>e, StackOne
      <4>2. pushed \in Seq(Entries) /\ Len(pushed) = 2 /\ pushed[1] = own[1]
        BY <3>5, <3>6, <3>7, <4>1, ConcatProperties
      <4> QED BY <3>6, <4>2, EmptySeq
    <3>10. Held(g) = 2
      <4>1. Held(g) = 1 + Len(g.names) + Len(g.parts)
        BY <1>10, <3>2 DEF Held, OneByOne
      <4>2. Len(g.names) = 1 /\ Len(g.parts) = 0
        BY <1>8, <3>1, <3>2
      <4> QED BY <4>1, <4>2
    <3> QED BY <1>2, <1>4, <3>1, <3>2, <3>8, <3>9, <3>10, CallOpened
  <2> QED BY <1>1, <1>10, <2>1, <2>2, <2>3
<1>11. CASE ~(kind \in Lists /\ TokenAt(pos + n) = Closes(kind)) /\ kind # "Shape"
  <2>1. ReadPart(f, n, own)
    BY <1>1, <1>11
  <2>2. Held(f) = Len(own)
    <3>1. CASE kind \in {"Array", "Set", "Table"}
      <4>1. Held(f) = 1
        BY <1>7, <3>1 DEF Held, OneByOne
      <4> QED BY <1>6, <3>1, <4>1 DEF KeepsRecord
    <3>2. CASE kind \notin {"Array", "Set", "Table"}
      <4>1. kind \notin KeepsRecord
        BY <1>11, <3>2 DEF KeepsRecord
      <4>2. Held(f) = 0
        <5>1. Held(f) = 0 \/ Held(f) = Len(f.parts)
          BY <1>7, <1>11, <3>2 DEF Held, OneByOne
        <5> QED BY <1>7, <1>8, <5>1
      <4> QED BY <1>6, <4>1, <4>2
    <3> QED BY <3>1, <3>2
  <2>3. PICK g : g = [kind |-> kind, parts |-> <<>>, names |-> <<>>] /\ g = f
    BY <1>7
  <2>4. ReadPart(g, n, own) /\ Held(g) = Len(own)
    BY <2>1, <2>2, <2>3
  <2>5. kind # "Shape"
    BY <1>11
  <2>6. PICK ns : ns = <<>> /\ ns \in Seq(Words)
    BY <1>8
  <2>7. g = [kind |-> kind, parts |-> <<>>, names |-> ns]
    BY <2>3, <2>6
  <2> HIDE DEF own, n, f
  <2> QED BY <1>2, <1>4, <1>6, <2>4, <2>5, <2>6, <2>7, CallOpened
<1> QED BY <1>9, <1>10, <1>11

LEMMA NextPartKeeps ==
    ASSUME SyntaxInv, NextPart
    PROVE  SyntaxInv'
<1>1. status = "reading"
  BY DEF NextPart, Inside, Reading
<1>2. Held(Top) \in Nat /\ Len(Top.parts) \in Nat /\ Len(Top.names) \in Nat /\ Top.names \in Seq(Words)
  BY <1>1, TopIsAFrame
<1>3. <<>> \in Seq(Entries) /\ Len(<<>>) = 0
  BY EmptySeq
<1>4. Held(Top) = Held(Top) + Len(<<>>)
  BY <1>2, <1>3
<1>5. ASSUME Waits(Top), NEW n, ReadPart(Top, n, <<>>)
      PROVE  SyntaxInv'
  BY <1>1, <1>3, <1>4, <1>5, NextRead
<1>6. CASE Top.kind = "Table" /\ Len(Top.parts) = 1 /\ ReadPart(Top, 1, <<>>)
  <2>1. Waits(Top)
    BY <1>6 DEF Waits, OfOne
  <2> QED BY <1>5, <1>6, <2>1
<1>7. CASE Top.kind \in OneByOne /\ ReadPart(Top, 1, <<>>)
  <2>1. Waits(Top)
    BY <1>7 DEF Waits, OfOne, OneByOne
  <2> QED BY <1>5, <1>7, <2>1
<1>8. CASE Top.kind = "Function" /\ ReadPart([Top EXCEPT !.names = <<"->">>], 2, <<>>)
  <2>1. PICK ns : ns = <<"->">> /\ ns \in Seq(Words)
    <3>1. "->" \in Words
      BY DEF Words
    <3> QED BY <3>1, StackOne
  <2>2. PICK g : g = [Top EXCEPT !.names = ns]
    OBVIOUS
  <2>3. \A T : Top \in FramesOf(T) =>
            g \in FramesOf(T) /\ g.kind = Top.kind /\ g.parts = Top.parts
    BY <2>1, <2>2, OtherNames
  <2>4. g.kind = Top.kind /\ g.parts = Top.parts
    BY <1>1, <2>3, GoingOn
  <2>5. Waits(g) /\ Held(g) = Held(Top)
    BY <1>8, <2>4 DEF Waits, OfOne, Held, OneByOne
  <2>6. Held(g) = Held(Top) + Len(<<>>)
    BY <1>4, <2>5
  <2>7. ReadPart(g, 2, <<>>)
    BY <1>8, <2>1, <2>2
  <2> QED BY <1>1, <1>3, <2>3, <2>4, <2>5, <2>6, <2>7, NextRead
<1>9. CASE /\ Top.kind = "Shape" /\ Field(1)
           /\ ReadPart([Top EXCEPT !.names = Append(@, TokenAt(pos + 1))], 3, Name)
  <2>1. PICK x : x = TokenAt(pos + 1)
    OBVIOUS
  <2>2. x \in Words
    <3>1. x \in {"a", "b"}
      BY <1>9, <2>1 DEF Field
    <3> QED BY <3>1 DEF Words
  <2>3. PICK ns : ns = Append(Top.names, x)
    OBVIOUS
  <2>4. ns \in Seq(Words) /\ Len(ns) = Len(Top.names) + 1
    BY <1>2, <2>2, <2>3, StackPush
  <2>5. PICK g : g = [Top EXCEPT !.names = ns]
    OBVIOUS
  <2>6. \A T : Top \in FramesOf(T) =>
            g \in FramesOf(T) /\ g.kind = Top.kind /\ g.parts = Top.parts /\ g.names = ns
    BY <2>4, <2>5, OtherNames
  <2>7. g.kind = Top.kind /\ g.parts = Top.parts /\ g.names = ns
    BY <1>1, <2>6, GoingOn
  <2>8. ReadPart(g, 3, Name)
    BY <1>9, <2>1, <2>3, <2>5
  <2>9. Name \in Seq(Entries) /\ Len(Name) = 1
    <3>1. PICK e : e = <<Level, -1>>
      OBVIOUS
    <3>2. e \in Entries
      BY <1>1, <3>1, GoingOn DEF Entries
    <3>3. Name = <<e>>
      BY <3>1 DEF Name
    <3> QED BY <3>2, <3>3, StackOne
  <2> DEFINE p == Len(Top.parts)
             q == Len(Top.names)
  <2>10. Held(g) = 1 + (q + 1) + p /\ Held(Top) = 1 + q + p
    BY <1>9, <2>4, <2>7 DEF Held, OneByOne
  <2>11. q = p
    BY <1>1, <1>9, GoingOn DEF GoesOn
  <2>12. p \in Nat /\ q \in Nat
    BY <1>2
  <2>13. Waits(g)
    <3>1. Len(g.names) = Len(g.parts) + 1
      BY <2>4, <2>7, <2>11
    <3> QED BY <1>9, <2>7, <3>1 DEF Waits, OfOne
  <2> HIDE DEF p, q
  <2>14. Held(g) = Held(Top) + Len(Name)
    BY <2>9, <2>10, <2>12
  <2> QED BY <1>1, <2>6, <2>7, <2>8, <2>9, <2>13, <2>14, NextRead
<1> QED BY <1>6, <1>7, <1>8, <1>9 DEF NextPart, Inside, OneByOne

LEMMA ClosePartsKeeps ==
    ASSUME SyntaxInv, CloseParts
    PROVE  SyntaxInv'
<1>1. status = "reading"
  BY DEF CloseParts, Inside, Reading
<1>2. Top.kind = "Table" => Len(Top.parts) = 2
  BY DEF CloseParts, Inside, OfOne
<1>3. Pops(Top) = Held(Top)
  BY <1>1, <1>2, EndOfCall
<1>4. \E t, n : Ends(t, n) \/ Returns(t, n)
  BY DEF CloseParts
<1> QED BY <1>1, <1>3, <1>4, Ended, Returned

LEMMA SyntaxInit == Init => SyntaxInv
<1>1. SUFFICES ASSUME Init
               PROVE  SyntaxInv
  OBVIOUS
<1>2. frames = <<Frame>> /\ stack = <<>> /\ status = "reading"
  BY <1>1 DEF Init
<1>3. Layout({}, <<>>, <<>>, [i \in {1} |-> 0])
  <2>1. /\ <<>> \in Seq(FramesOf({})) /\ <<>> \in Seq(Entries)
        /\ Len(<<>>) = 0
    BY EmptySeq
  <2> QED BY <2>1 DEF Layout
<1>4. PICK o, z : o = <<>> /\ Len(o) = 0 /\ z = [i \in {1} |-> 0]
  BY EmptySeq
<1>l. Layout({}, o, o, z) /\ \A i \in 1 .. Len(o) : Waits(o[i])
  BY <1>3, <1>4
<1>5. /\ \E d : Layout({}, Append(o, Frame), o, d)
      /\ Calls(Append(o, Frame)) /\ Append(o, Frame) # <<>>
  BY <1>l, NextCall
<1>6. Append(<<>>, Frame) = <<Frame>>
  BY StackOne
<1> QED BY <1>2, <1>4, <1>5, <1>6 DEF SyntaxInv

LEMMA SyntaxStep == SyntaxInv /\ [Next]_vars => SyntaxInv'
<1>1. SUFFICES ASSUME SyntaxInv, [Next]_vars
               PROVE  SyntaxInv'
  OBVIOUS
<1>2. CASE ReadSimple
  BY <1>1, <1>2, ReadSimpleKeeps
<1>3. CASE ReadVector
  BY <1>1, <1>3, ReadVectorKeeps
<1>4. CASE ReadMatrix
  BY <1>1, <1>4, ReadMatrixKeeps
<1>5. CASE OpenParts
  BY <1>1, <1>5, OpenPartsKeeps
<1>6. CASE NextPart
  BY <1>1, <1>6, NextPartKeeps
<1>7. CASE CloseParts
  BY <1>1, <1>7, ClosePartsKeeps
<1>8. CASE Refuse
  <2>1. status = "reading" /\ status' = "refused" /\ frames' = frames /\ stack' = stack
    BY <1>8 DEF Refuse, Reading
  <2> QED BY <1>1, <2>1 DEF SyntaxInv
<1>9. CASE UNCHANGED vars
  <2>1. status' = status /\ frames' = frames /\ stack' = stack
    BY <1>9 DEF vars
  <2> QED BY <1>1, <2>1 DEF SyntaxInv
<1> QED BY <1>1, <1>2, <1>3, <1>4, <1>5, <1>6, <1>7, <1>8, <1>9 DEF Next, Reads

\* What a call holds is within the stack, and is at least its record.
LEMMA SyntaxProtects == SyntaxInv => PartsAreProtected
<1>1. SUFFICES ASSUME SyntaxInv
               PROVE  PartsAreProtected
  OBVIOUS
<1>2. PICK T, b : Layout(T, frames, stack, b)
  BY <1>1 DEF SyntaxInv
<1>3. ASSUME NEW i \in 1 .. Level - 1, NEW j \in DOMAIN frames[i].parts
      PROVE  \E k \in DOMAIN stack :
                 \/ stack[k] = <<i, j>>
                 \/ stack[k] = <<i, 0>> /\ frames[i].kind \in KeepsRecord
  <2>1. Level \in Nat /\ frames # <<>> /\ stack \in Seq(Entries) /\ Len(stack) \in Nat
    BY <1>2, <1>3, LenProperties, EmptySeq DEF Layout, Level
  <2>2. /\ frames[i] \in FramesOf(T) /\ Laid(frames[i], i, b[i], stack)
        /\ b[i] \in Nat /\ b[i + 1] \in Nat /\ b[i + 1] = b[i] + Held(frames[i])
    <3>1. i \in 1 .. Len(frames)
      BY <2>1 DEF Level
    <3>2. frames[i] \in FramesOf(T)
      BY <1>2, <3>1, ElementOfSeq DEF Layout
    <3>3. i \in 1 .. Len(frames) + 1 /\ i + 1 \in 1 .. Len(frames) + 1
      BY <2>1, <3>1 DEF Level
    <3>4. b[i] \in Nat /\ b[i + 1] \in Nat
      BY <1>2, <3>3 DEF Layout
    <3> QED BY <1>2, <3>1, <3>2, <3>4 DEF Layout
  <2>3. b[i + 1] <= Len(stack)
    <3>1. i \in 1 .. Len(frames) /\ i # Len(frames)
      BY <2>1 DEF Level
    <3>2. b[i + 1] <= b[Len(frames)]
      BY <1>2, <2>1, <3>1, Beginnings
    <3>3. b[Len(frames)] \in 0 .. Len(stack)
      BY <1>2, <2>1, TopOfLayout
    <3> QED BY <2>1, <2>2, <3>2, <3>3
  <2>4. Waits(frames[i])
    BY <1>1 DEF SyntaxInv, Calls, Level
  <2>5. /\ Held(frames[i]) \in Nat /\ Len(frames[i].parts) \in Nat /\ Len(frames[i].names) \in Nat
        /\ j \in 1 .. Len(frames[i].parts)
    <3>1. frames[i].parts \in Seq(T)
      BY <2>2 DEF FramesOf
    <3> QED BY <1>3, <2>2, <3>1, HeldIsANumber, LenProperties
  <2>6. DOMAIN stack = 1 .. Len(stack)
    BY <2>1, LenProperties
  <2>7. CASE frames[i].kind \in OneByOne
    <3>1. stack[b[i] + j] = <<i, j>>
      BY <2>2, <2>5, <2>7 DEF Laid
    <3>2. Held(frames[i]) = Len(frames[i].parts)
      BY <2>7 DEF Held, OneByOne
    <3> DEFINE x == b[i]
               y == Held(frames[i])
               z == Len(stack)
    <3>3. x \in Nat /\ y \in Nat /\ z \in Nat /\ x + y <= z /\ j \in 1 .. y
      BY <2>1, <2>2, <2>3, <2>5, <3>2
    <3>4. DOMAIN stack = 1 .. z
      BY <2>6
    <3> HIDE DEF x, y, z
    <3>5. x + j \in DOMAIN stack
      BY <3>3, <3>4
    <3> QED BY <3>1, <3>5 DEF x
  <2>8. CASE frames[i].kind \in KeepsRecord
    <3>1. stack[b[i] + 1] = <<i, 0>>
      BY <2>2, <2>8 DEF Laid
    <3>2. Held(frames[i]) >= 1
      BY <2>2, <2>8, RecordIsHeld
    <3> DEFINE x == b[i]
               y == Held(frames[i])
               z == Len(stack)
    <3>3. x \in Nat /\ y \in Nat /\ z \in Nat /\ x + y <= z /\ y >= 1
      BY <2>1, <2>2, <2>3, <2>5, <3>2
    <3>4. DOMAIN stack = 1 .. z
      BY <2>6
    <3> HIDE DEF x, y, z
    <3>5. x + 1 \in DOMAIN stack
      BY <3>3, <3>4
    <3> QED BY <2>8, <3>1, <3>5 DEF x
  <2>9. CASE frames[i].kind \notin OneByOne \cup KeepsRecord
    <3>1. frames[i].kind \in OfOne
      <4>1. frames[i].kind \in Kinds
        BY <2>2 DEF FramesOf
      <4> QED BY <2>4, <2>9, <4>1 DEF Waits, Kinds, OneByOne, KeepsRecord, Lists
    <3>2. Len(frames[i].parts) = 0
      BY <2>4, <3>1, EmptySeq DEF Waits
    <3> QED BY <2>5, <3>2
  <2> QED BY <2>7, <2>8, <2>9
<1>4. ASSUME status = "done"
      PROVE  stack = <<>>
  <2>1. Len(frames) = 0
    BY <1>1, <1>4, EmptySeq DEF SyntaxInv
  <2>2. b[1] = 0 /\ b[Len(frames) + 1] = Len(stack) /\ stack \in Seq(Entries)
    BY <1>2 DEF Layout
  <2>3. Len(stack) = 0
    BY <2>1, <2>2
  <2> QED BY <2>2, <2>3, EmptySeq
<1> QED BY <1>3, <1>4 DEF PartsAreProtected

\* A part that has been read is on the stack, or in a record that is, whenever
\* a call of parse_type_record waits for another, whatever the text and however
\* deep its types; and the outermost call leaves nothing on the stack.
THEOREM PartsStayProtected == Spec => []PartsAreProtected
<1>1. Spec => []SyntaxInv
  BY SyntaxInit, SyntaxStep, PTL DEF Spec
<1> QED BY <1>1, SyntaxProtects, PTL

(***************************************************************************)
(* The relations of Types are defined by recursion over the parts of       *)
(* types. Each is what its definition says: the relations at pairs of      *)
(* lower rank are all that a pair's own line looks at.                     *)
(***************************************************************************)

USE DEF Pairs

\* Parts are types, of lower rank.
LEMMA PartsAreTypes ==
    ASSUME NEW t \in TypeRecords
    PROVE  /\ DOMAIN t.parts = 1 .. Len(t.parts) /\ Len(t.parts) \in Nat
           /\ Rank[t] \in Nat
           /\ \A i \in DOMAIN t.parts : /\ t.parts[i] \in TypeRecords
                                        /\ Rank[t.parts[i]] \in Nat /\ Rank[t.parts[i]] < Rank[t]
<1>1. t.parts \in Seq(TypeRecords)
  BY TypesAssumption
<1>2. DOMAIN t.parts = 1 .. Len(t.parts) /\ Len(t.parts) \in Nat
  BY <1>1, LenProperties
<1>3. \A i \in DOMAIN t.parts : t.parts[i] \in TypeRecords
  BY <1>1, <1>2, ElementOfSeq
<1> QED BY <1>2, <1>3, RankAssumption

PairRank == [p \in Pairs |-> Rank[p[1]] + Rank[p[2]]]

LEMMA PairsHaveRanks ==
    /\ PairRank \in [Pairs -> Nat]
    /\ \A a \in TypeRecords, b \in TypeRecords : PairRank[<<a, b>>] = Rank[a] + Rank[b]
BY RankAssumption DEF PairRank

LEMMA LowerPair ==
    ASSUME NEW a \in TypeRecords, NEW b \in TypeRecords, NEW i \in DOMAIN a.parts, NEW j \in DOMAIN b.parts
    PROVE  /\ PairRank[<<a.parts[i], b.parts[j]>>] < PairRank[<<a, b>>]
           /\ PairRank[<<b.parts[j], a.parts[i]>>] < PairRank[<<a, b>>]
           /\ PairRank[<<a.parts[i], b>>] < PairRank[<<a, b>>]
           /\ PairRank[<<a, b.parts[j]>>] < PairRank[<<a, b>>]
<1> DEFINE x == a.parts[i]
           y == b.parts[j]
<1>1. /\ x \in TypeRecords /\ y \in TypeRecords
      /\ Rank[x] \in Nat /\ Rank[y] \in Nat /\ Rank[a] \in Nat /\ Rank[b] \in Nat
      /\ Rank[x] < Rank[a] /\ Rank[y] < Rank[b]
  BY PartsAreTypes
<1> HIDE DEF x, y
<1>2. /\ PairRank[<<x, y>>] = Rank[x] + Rank[y] /\ PairRank[<<y, x>>] = Rank[y] + Rank[x]
      /\ PairRank[<<x, b>>] = Rank[x] + Rank[b] /\ PairRank[<<a, y>>] = Rank[a] + Rank[y]
      /\ PairRank[<<a, b>>] = Rank[a] + Rank[b]
  BY <1>1, PairsHaveRanks
<1>3. PairRank[<<x, y>>] < PairRank[<<a, b>>] /\ PairRank[<<y, x>>] < PairRank[<<a, b>>]
  BY <1>1, <1>2
<1>4. PairRank[<<x, b>>] < PairRank[<<a, b>>] /\ PairRank[<<a, y>>] < PairRank[<<a, b>>]
  BY <1>1, <1>2
<1> QED BY <1>3, <1>4 DEF x, y

\* The relations the compiler decides are what their definitions say.
LEMMA EqualIsEqualBy ==
    \A a \in TypeRecords, b \in TypeRecords : Equal[<<a, b>>] <=> EqualBy(Equal, a, b)
<1> DEFINE F == [f \in [Pairs -> BOOLEAN] |-> [p \in Pairs |-> EqualBy(f, p[1], p[2])]]
<1>1. F \in [[Pairs -> BOOLEAN] -> [Pairs -> BOOLEAN]]
  <2>1. ASSUME NEW f \in [Pairs -> BOOLEAN], NEW p \in Pairs
        PROVE  EqualBy(f, p[1], p[2]) \in BOOLEAN
    BY DEF EqualBy
  <2> QED BY <2>1
<1>2. ASSUME NEW f \in [Pairs -> BOOLEAN], NEW g \in [Pairs -> BOOLEAN], NEW p \in Pairs,
             \A q \in Pairs : PairRank[q] < PairRank[p] => f[q] = g[q]
      PROVE  F[f][p] = F[g][p]
  <2>1. PICK a \in TypeRecords, b \in TypeRecords : p = <<a, b>>
    OBVIOUS
  <2>2. \A i \in DOMAIN a.parts, j \in DOMAIN b.parts : f[<<a.parts[i], b.parts[j]>>] = g[<<a.parts[i], b.parts[j]>>]
    <3> TAKE i \in DOMAIN a.parts, j \in DOMAIN b.parts
    <3>1. PairRank[<<a.parts[i], b.parts[j]>>] < PairRank[p]
      BY <2>1, LowerPair
    <3> QED BY <1>2, <2>1, <3>1, PartsAreTypes
  <2>3. SameParts(f, a, b) = SameParts(g, a, b)
    <3>1. CASE Len(a.parts) # Len(b.parts)
      BY <3>1 DEF SameParts
    <3>2. CASE Len(a.parts) = Len(b.parts)
      <4>1. DOMAIN a.parts = DOMAIN b.parts
        BY <3>2, PartsAreTypes
      <4>2. \A i \in DOMAIN a.parts : f[<<a.parts[i], b.parts[i]>>] = g[<<a.parts[i], b.parts[i]>>]
        BY <2>2, <4>1
      <4> QED BY <4>2 DEF SameParts
    <3> QED BY <3>1, <3>2
  <2>4. Covers(f, a, b) = Covers(g, a, b)
    BY <2>2 DEF Covers
  <2>5. SameFields(f, a, b) = SameFields(g, a, b)
    BY SMTT(30), <2>2 DEF SameFields
  <2>6. EqualBy(f, a, b) = EqualBy(g, a, b)
    BY <2>3, <2>4, <2>5 DEF EqualBy
  <2> QED BY <2>1, <2>6
<1>3. \E f \in [Pairs -> BOOLEAN] : f = F[f]
  <2>1. PairRank \in [Pairs -> Nat]
    BY PairsHaveRanks
  <2> HIDE DEF Pairs, F
  <2>2. ByRank(Pairs, BOOLEAN, PairRank, F)
    BY <1>1, <1>2, <2>1 DEF ByRank
  <2> QED BY <2>2, FunctionsByRank
<1>4. Equals = [p \in Pairs |-> EqualBy(Equals, p[1], p[2])]
  BY <1>3 DEF Equals
<1> QED BY <1>4 DEF Equal

\* Relations that agree on what is decided before a pair.
AgreeBelow(f, g, p) == \A q \in Pairs : PairRank[q] < PairRank[p] => f[q] = g[q]

\* Both relations look at parts only: at these pairs.
LEMMA CompatibleByParts ==
    ASSUME NEW f \in [Pairs -> BOOLEAN], NEW g \in [Pairs -> BOOLEAN],
           NEW a \in TypeRecords, NEW b \in TypeRecords,
           AgreeBelow(f, g, <<a, b>>)
    PROVE  CompatibleBy(f, a, b) = CompatibleBy(g, a, b)
<1> USE DEF AgreeBelow
<1>1. \A i \in DOMAIN a.parts, j \in DOMAIN b.parts :
          /\ f[<<a.parts[i], b.parts[j]>>] = g[<<a.parts[i], b.parts[j]>>]
          /\ f[<<b.parts[j], a.parts[i]>>] = g[<<b.parts[j], a.parts[i]>>]
  BY LowerPair, PartsAreTypes
<1>2. \A i \in DOMAIN b.parts : f[<<a, b.parts[i]>>] = g[<<a, b.parts[i]>>]
  <2> TAKE i \in DOMAIN b.parts
  <2>1. Rank[a] \in Nat /\ Rank[b] \in Nat /\ Rank[b.parts[i]] \in Nat /\ Rank[b.parts[i]] < Rank[b]
        /\ b.parts[i] \in TypeRecords
    BY PartsAreTypes
  <2>2. Rank[a] + Rank[b.parts[i]] < Rank[a] + Rank[b]
    BY <2>1
  <2> QED BY <2>1, <2>2, PairsHaveRanks
<1>3. \A i \in DOMAIN a.parts : f[<<a.parts[i], b>>] = g[<<a.parts[i], b>>]
  <2> TAKE i \in DOMAIN a.parts
  <2>1. Rank[a] \in Nat /\ Rank[b] \in Nat /\ Rank[a.parts[i]] \in Nat /\ Rank[a.parts[i]] < Rank[a]
        /\ a.parts[i] \in TypeRecords
    BY PartsAreTypes
  <2>2. Rank[a.parts[i]] + Rank[b] < Rank[a] + Rank[b]
    BY <2>1
  <2> QED BY <2>1, <2>2, PairsHaveRanks
<1>4. SameParts(f, a, b) = SameParts(g, a, b)
  <2>1. CASE Len(a.parts) # Len(b.parts)
    BY <2>1 DEF SameParts
  <2>2. CASE Len(a.parts) = Len(b.parts)
    <3>1. DOMAIN a.parts = DOMAIN b.parts
      BY <2>2, PartsAreTypes
    <3>2. \A i \in DOMAIN a.parts : f[<<a.parts[i], b.parts[i]>>] = g[<<a.parts[i], b.parts[i]>>]
      BY <1>1, <3>1
    <3> QED BY <3>2 DEF SameParts
  <2> QED BY <2>1, <2>2
<1>5. SameFields(f, a, b) = SameFields(g, a, b)
  <2>1. \A i \in DOMAIN a.parts, j \in DOMAIN b.parts :
            f[<<a.parts[i], b.parts[j]>>] = g[<<a.parts[i], b.parts[j]>>]
    BY <1>1
  <2> QED BY SMTT(30), <2>1 DEF SameFields
<1>6. FunctionParts(f, a, b) = FunctionParts(g, a, b)
  <2>1. CASE Len(a.parts) # Len(b.parts)
    BY <2>1 DEF FunctionParts
  <2>2. CASE Len(a.parts) = Len(b.parts)
    <3>1. DOMAIN a.parts = DOMAIN b.parts
      BY <2>2, PartsAreTypes
    <3>2. \A i \in DOMAIN b.parts : /\ f[<<a.parts[i], b.parts[i]>>] = g[<<a.parts[i], b.parts[i]>>]
                                    /\ f[<<b.parts[i], a.parts[i]>>] = g[<<b.parts[i], a.parts[i]>>]
      BY <1>1, <3>1
    <3> QED BY <3>2 DEF FunctionParts
  <2> QED BY <2>1, <2>2
<1>7. /\ (\A i \in DOMAIN b.parts : f[<<a, b.parts[i]>>]) = (\A i \in DOMAIN b.parts : g[<<a, b.parts[i]>>])
      /\ (\E i \in DOMAIN a.parts : f[<<a.parts[i], b>>]) = (\E i \in DOMAIN a.parts : g[<<a.parts[i], b>>])
  BY <1>2, <1>3
<1> QED BY <1>4, <1>5, <1>6, <1>7 DEF CompatibleBy

LEMMA CompatibleIsCompatibleBy ==
    \A a \in TypeRecords, b \in TypeRecords : Compatible[<<a, b>>] <=> CompatibleBy(Compatible, a, b)
<1> DEFINE F == [f \in [Pairs -> BOOLEAN] |-> [p \in Pairs |-> CompatibleBy(f, p[1], p[2])]]
<1>1. F \in [[Pairs -> BOOLEAN] -> [Pairs -> BOOLEAN]]
  <2>1. ASSUME NEW f \in [Pairs -> BOOLEAN], NEW p \in Pairs
        PROVE  CompatibleBy(f, p[1], p[2]) \in BOOLEAN
    BY DEF CompatibleBy
  <2> QED BY <2>1
<1>2. \A f \in [Pairs -> BOOLEAN], g \in [Pairs -> BOOLEAN] : \A p \in Pairs :
          (\A q \in Pairs : PairRank[q] < PairRank[p] => f[q] = g[q]) => F[f][p] = F[g][p]
  <2> SUFFICES ASSUME NEW f \in [Pairs -> BOOLEAN], NEW g \in [Pairs -> BOOLEAN], NEW p \in Pairs,
                      \A q \in Pairs : PairRank[q] < PairRank[p] => f[q] = g[q]
               PROVE  F[f][p] = F[g][p]
    OBVIOUS
  <2>1. PICK a \in TypeRecords, b \in TypeRecords : p = <<a, b>>
    OBVIOUS
  <2>2. AgreeBelow(f, g, <<a, b>>)
    BY <2>1 DEF AgreeBelow
  <2>3. CompatibleBy(f, a, b) = CompatibleBy(g, a, b)
    BY ZenonT(40), <2>2, CompatibleByParts
  <2> QED BY <2>1, <2>3
<1>3. \E f \in [Pairs -> BOOLEAN] : f = F[f]
  <2>1. PairRank \in [Pairs -> Nat]
    BY PairsHaveRanks
  <2> HIDE DEF Pairs, F
  <2>2. ByRank(Pairs, BOOLEAN, PairRank, F)
    BY <1>1, <1>2, <2>1 DEF ByRank
  <2> QED BY <2>2, FunctionsByRank
<1>4. Accepts = [p \in Pairs |-> CompatibleBy(Accepts, p[1], p[2])]
  BY <1>3 DEF Accepts
<1>5. Compatible = Accepts
  BY <1>4 DEF Compatible
<1> QED BY <1>4, <1>5

\* Which values a type has is what its definition says.
LEMMA PartsOfValues ==
    ASSUME NEW v \in Values
    PROVE  /\ DOMAIN v.parts = 1 .. Len(v.parts) /\ Len(v.parts) \in Nat
           /\ v.base # "Function" => \A i \in DOMAIN v.parts : v.parts[i] \in Values
           /\ v.base = "Function" => /\ Len(v.parts) # 0
                                     /\ \A i \in DOMAIN v.parts : v.parts[i] \in TypeRecords
<1>1. CASE v.base = "Function"
  <2>1. v.parts \in Seq(TypeRecords) /\ v.parts # <<>>
    BY <1>1, ValuesAssumption
  <2>2. DOMAIN v.parts = 1 .. Len(v.parts) /\ Len(v.parts) \in Nat /\ Len(v.parts) # 0
    BY <2>1, LenProperties, EmptySeq
  <2> QED BY <1>1, <2>1, <2>2, ElementOfSeq
<1>2. CASE v.base # "Function"
  <2>1. v.parts \in Seq(Values)
    BY <1>2, ValuesAssumption
  <2>2. DOMAIN v.parts = 1 .. Len(v.parts) /\ Len(v.parts) \in Nat
    BY <2>1, LenProperties
  <2> QED BY <1>2, <2>1, <2>2, ElementOfSeq
<1> QED BY <1>1, <1>2

Judgements == Values \X TypeRecords
TypeRank == [p \in Judgements |-> Rank[p[2]]]

LEMMA HasByParts ==
    ASSUME NEW f \in [Judgements -> BOOLEAN], NEW g \in [Judgements -> BOOLEAN],
           NEW v \in Values, NEW t \in TypeRecords,
           \A w \in Values, s \in TypeRecords : Rank[s] < Rank[t] => f[<<w, s>>] = g[<<w, s>>]
    PROVE  HasBy(f, v, t) = HasBy(g, v, t)
<1>p. /\ DOMAIN t.parts = 1 .. Len(t.parts) /\ Len(t.parts) \in Nat
      /\ \A i \in DOMAIN t.parts : t.parts[i] \in TypeRecords /\ Rank[t.parts[i]] < Rank[t]
  BY PartsAreTypes
<1>v. /\ DOMAIN v.parts = 1 .. Len(v.parts) /\ Len(v.parts) \in Nat
      /\ v.base # "Function" => \A i \in DOMAIN v.parts : v.parts[i] \in Values
      /\ v.base = "Function" => /\ Len(v.parts) # 0
                                /\ \A i \in DOMAIN v.parts : v.parts[i] \in TypeRecords
  BY PartsOfValues
<1>1. CASE t.base = "Union"
  <2>1. \A i \in DOMAIN t.parts : f[<<v, t.parts[i]>>] = g[<<v, t.parts[i]>>]
    BY <1>p
  <2> QED BY <1>1, <2>1 DEF HasBy
<1>2. CASE t.base \in {"Array", "Set", "Option", "Result", "Iterator"}
  <2>1. CASE v.base = t.base
    <3>1. Len(t.parts) = 1
      BY <1>2, TypesAssumption
    <3>2. \A i \in DOMAIN v.parts : f[<<v.parts[i], t.parts[1]>>] = g[<<v.parts[i], t.parts[1]>>]
      BY <1>2, <1>p, <1>v, <2>1, <3>1
    <3> QED BY <1>2, <3>2 DEF HasBy
  <2>2. CASE v.base # t.base
    BY <1>2, <2>2 DEF HasBy
  <2> QED BY <2>1, <2>2
<1>3. CASE t.base \in {"Tuple", "Struct"}
  <2>1. CASE v.base = t.base /\ Len(v.parts) = Len(t.parts)
    <3>1. \A i \in DOMAIN v.parts : f[<<v.parts[i], t.parts[i]>>] = g[<<v.parts[i], t.parts[i]>>]
      BY <1>3, <1>p, <1>v, <2>1
    <3>2. SameParts(f, v, t) = SameParts(g, v, t)
      BY <3>1 DEF SameParts
    <3> QED BY <1>3, <3>2 DEF HasBy
  <2>2. CASE Len(v.parts) # Len(t.parts)
    <3>1. ~SameParts(f, v, t) /\ ~SameParts(g, v, t)
      BY <2>2 DEF SameParts
    <3> QED BY <1>3, <3>1 DEF HasBy
  <2>3. CASE v.base # t.base
    BY <1>3, <2>3 DEF HasBy
  <2> QED BY <2>1, <2>2, <2>3
<1>4. CASE t.base = "Shape"
  <2>1. CASE v.base = "Struct"
    <3>1. \A i \in DOMAIN t.parts, j \in DOMAIN v.parts : f[<<v.parts[j], t.parts[i]>>] = g[<<v.parts[j], t.parts[i]>>]
      BY <1>p, <1>v, <2>1
    <3> QED BY <1>4, <3>1 DEF HasBy
  <2>2. CASE v.base # "Struct"
    BY <1>4, <2>2 DEF HasBy
  <2> QED BY <2>1, <2>2
<1>5. CASE t.base = "Function"
  <2>1. CASE v.base = "Function" /\ Len(v.parts) = Len(t.parts)
    <3>1. \A s \in TypeRecords : Rank[s] < Rank[t] => ValuesOf(f, s) = ValuesOf(g, s)
      BY DEF ValuesOf
    <3>2. \A i \in DOMAIN v.parts : v.parts[i] \in TypeRecords /\ Rank[v.parts[i]] < Rank[t]
      BY <1>5, <1>v, <2>1, RankAssumption
    <3>3. \A i \in 1 .. Len(t.parts) : /\ ValuesOf(f, v.parts[i]) = ValuesOf(g, v.parts[i])
                                       /\ ValuesOf(f, t.parts[i]) = ValuesOf(g, t.parts[i])
      BY <1>p, <1>v, <2>1, <3>1, <3>2
    <3>4. Len(t.parts) \in 1 .. Len(t.parts) /\ \A i \in 1 .. Len(t.parts) - 1 : i \in 1 .. Len(t.parts)
      BY <1>p, <1>v, <2>1
    <3> QED BY <1>5, <2>1, <3>3, <3>4 DEF HasBy
  <2>2. CASE ~(v.base = "Function" /\ Len(v.parts) = Len(t.parts))
    BY <1>5, <2>2 DEF HasBy
  <2> QED BY <2>1, <2>2
<1>6. CASE t.base \notin {"Union", "Array", "Set", "Option", "Result", "Iterator", "Tuple", "Struct", "Shape", "Function"}
  BY <1>6 DEF HasBy
<1> QED BY <1>1, <1>2, <1>3, <1>4, <1>5, <1>6

LEMMA HasIsHasBy ==
    \A v \in Values, t \in TypeRecords : Has[<<v, t>>] <=> HasBy(Has, v, t)
<1> DEFINE F == [f \in [Judgements -> BOOLEAN] |-> [p \in Judgements |-> HasBy(f, p[1], p[2])]]
<1> USE DEF Judgements
<1>1. F \in [[Judgements -> BOOLEAN] -> [Judgements -> BOOLEAN]]
  <2>1. ASSUME NEW f \in [Judgements -> BOOLEAN], NEW p \in Judgements
        PROVE  HasBy(f, p[1], p[2]) \in BOOLEAN
    <3>1. PICK v \in Values, t \in TypeRecords : p = <<v, t>>
      OBVIOUS
    <3> SUFFICES HasBy(f, v, t) \in BOOLEAN
      BY <3>1
    <3>2. CASE t.base = "Union"
      BY <3>2 DEF HasBy
    <3>3. CASE t.base \in {"Array", "Set", "Option", "Result", "Iterator"}
      BY <3>3 DEF HasBy
    <3>4. CASE t.base \in {"Tuple", "Struct", "Vector", "Matrix"}
      BY <3>4 DEF HasBy
    <3>5. CASE t.base = "Shape"
      BY <3>5 DEF HasBy
    <3>6. CASE t.base = "Function"
      BY <3>6 DEF HasBy
    <3>7. CASE t.base \in {"Any", "NULL"}
      <4>1. HasBy(f, v, t) = TRUE
        BY <3>7 DEF HasBy
      <4> QED BY <4>1
    <3>9. CASE t.base = "Float"
      <4>1. HasBy(f, v, t) = (v.base \in {"Float", "Int"})
        BY <3>9 DEF HasBy
      <4> QED BY <4>1
    <3>8. CASE t.base \notin {"Union", "Array", "Set", "Option", "Result", "Iterator", "Tuple", "Struct",
                             "Vector", "Matrix", "Shape", "Function", "Any", "NULL", "Float"}
      BY <3>8 DEF HasBy
    <3> QED BY <3>2, <3>3, <3>4, <3>5, <3>6, <3>7, <3>8, <3>9
  <2> QED BY <2>1
<1>2. \A f \in [Judgements -> BOOLEAN], g \in [Judgements -> BOOLEAN] : \A p \in Judgements :
          (\A q \in Judgements : TypeRank[q] < TypeRank[p] => f[q] = g[q]) => F[f][p] = F[g][p]
  <2> SUFFICES ASSUME NEW f \in [Judgements -> BOOLEAN], NEW g \in [Judgements -> BOOLEAN], NEW p \in Judgements,
                      \A q \in Judgements : TypeRank[q] < TypeRank[p] => f[q] = g[q]
               PROVE  F[f][p] = F[g][p]
    OBVIOUS
  <2>1. PICK v \in Values, t \in TypeRecords : p = <<v, t>>
    OBVIOUS
  <2>2. \A w \in Values, s \in TypeRecords : Rank[s] < Rank[t] => f[<<w, s>>] = g[<<w, s>>]
    BY <2>1 DEF TypeRank
  <2>3. HasBy(f, v, t) = HasBy(g, v, t)
    BY <2>2, HasByParts
  <2> QED BY <2>1, <2>3
<1>3. \E f \in [Judgements -> BOOLEAN] : f = F[f]
  <2>1. TypeRank \in [Judgements -> Nat]
    BY RankAssumption DEF TypeRank
  <2> HIDE DEF Judgements, F
  <2>2. ByRank(Judgements, BOOLEAN, TypeRank, F)
    BY <1>1, <1>2, <2>1 DEF ByRank
  <2> QED BY <2>2, FunctionsByRank
<1>4. IsOf = [p \in Judgements |-> HasBy(IsOf, p[1], p[2])]
  BY <1>3 DEF IsOf
<1>5. Has = IsOf
  BY <1>4 DEF Has
<1> QED BY <1>4, <1>5

\* What is vague is so by itself or by a part.
LEMMA VagueIsOfParts ==
    \A t \in TypeRecords :
        t \in Vague <=> t = Any \/ t = Unknown \/ IsGeneric(t) \/ \E i \in DOMAIN t.parts : t.parts[i] \in Vague
<1> DEFINE M(f, t) == t = Any \/ t = Unknown \/ IsGeneric(t) \/ \E i \in DOMAIN t.parts : f[t.parts[i]]
           F == [f \in [TypeRecords -> BOOLEAN] |-> [t \in TypeRecords |-> M(f, t)]]
<1>1. F \in [[TypeRecords -> BOOLEAN] -> [TypeRecords -> BOOLEAN]]
  OBVIOUS
<1>2. \A f \in [TypeRecords -> BOOLEAN], g \in [TypeRecords -> BOOLEAN] : \A t \in TypeRecords :
          (\A s \in TypeRecords : Rank[s] < Rank[t] => f[s] = g[s]) => F[f][t] = F[g][t]
  BY PartsAreTypes
<1>3. \E f \in [TypeRecords -> BOOLEAN] : f = F[f]
  <2> HIDE DEF F
  <2>2. ByRank(TypeRecords, BOOLEAN, Rank, F)
    BY <1>1, <1>2, RankAssumption DEF ByRank
  <2> QED BY <2>2, FunctionsByRank
<1>4. MentionsAny = [t \in TypeRecords |-> M(MentionsAny, t)]
  BY <1>3 DEF MentionsAny
<1>5. \A t \in TypeRecords : MentionsAny[t] <=> M(MentionsAny, t)
  BY <1>4
<1> QED BY <1>5, PartsAreTypes DEF Vague

(***************************************************************************)
(* A type that is compatible with another, without vague parts, includes   *)
(* it.                                                                     *)
(***************************************************************************)

Elements == {"Array", "Set", "Option", "Result", "Iterator"}

\* What is of a type, by the type's base.
LEMMA HasByBase ==
    ASSUME NEW v \in Values, NEW t \in TypeRecords
    PROVE  /\ t.base \in {"Any", "NULL"} => Has[<<v, t>>]
           /\ t.base = "Union" => (Has[<<v, t>>] <=> \E i \in DOMAIN t.parts : Has[<<v, t.parts[i]>>])
           /\ t.base = "Float" => (Has[<<v, t>>] <=> v.base \in {"Float", "Int"})
           /\ t.base \in Elements =>
                  (Has[<<v, t>>] <=> /\ v.base = t.base
                                     /\ \A i \in DOMAIN v.parts : Has[<<v.parts[i], t.parts[1]>>])
           /\ t.base = "Tuple" =>
                  (Has[<<v, t>>] <=> v.base = "Tuple" /\ (IsGeneric(t) \/ SameParts(Has, v, t)))
           /\ t.base \in {"Vector", "Matrix"} =>
                  (Has[<<v, t>>] <=> v.base = t.base /\ (IsGeneric(t) \/ v.size = t.size))
           /\ t.base = "Struct" =>
                  (Has[<<v, t>>] <=> /\ v.base = "Struct" /\ v.name = t.name /\ v.names = t.names
                                     /\ SameParts(Has, v, t))
           /\ t.base = "Shape" =>
                  (Has[<<v, t>>] <=> /\ v.base = "Struct"
                                     /\ \A i \in DOMAIN t.parts : \E j \in DOMAIN v.parts :
                                            v.names[j] = t.names[i] /\ Has[<<v.parts[j], t.parts[i]>>])
           /\ t.base = "Function" =>
                  (Has[<<v, t>>] <=>
                       /\ v.base = "Function"
                       /\ Len(v.parts) = Len(t.parts)
                       /\ \A i \in 1 .. Len(t.parts) - 1 :
                              ValuesOf(Has, t.parts[i]) \subseteq ValuesOf(Has, v.parts[i])
                       /\ ValuesOf(Has, v.parts[Len(v.parts)]) \subseteq ValuesOf(Has, t.parts[Len(t.parts)]))
           /\ t.base \notin Elements \union {"Any", "NULL", "Union", "Float", "Tuple", "Vector", "Matrix",
                                            "Struct", "Shape", "Function"} =>
                  (Has[<<v, t>>] <=> v.base = t.base)
<1>1. Has[<<v, t>>] <=> HasBy(Has, v, t)
  BY HasIsHasBy
<1>2. CASE t.base \in {"Any", "NULL"}
  BY <1>1, <1>2 DEF HasBy, Elements
<1>3. CASE t.base = "Union"
  BY <1>1, <1>3 DEF HasBy, Elements
<1>4. CASE t.base = "Float"
  BY <1>1, <1>4 DEF HasBy, Elements
<1>5. CASE t.base \in Elements
  BY <1>1, <1>5 DEF HasBy, Elements
<1>6. CASE t.base = "Tuple"
  BY <1>1, <1>6 DEF HasBy, Elements
<1>7. CASE t.base \in {"Vector", "Matrix"}
  BY <1>1, <1>7 DEF HasBy, Elements
<1>8. CASE t.base = "Struct"
  BY <1>1, <1>8 DEF HasBy, Elements
<1>9. CASE t.base = "Shape"
  BY <1>1, <1>9 DEF HasBy, Elements
<1>10. CASE t.base = "Function"
  BY <1>1, <1>10 DEF HasBy, Elements
<1>11. CASE t.base \notin Elements \union {"Any", "NULL", "Union", "Float", "Tuple", "Vector", "Matrix",
                                          "Struct", "Shape", "Function"}
  BY <1>1, <1>11 DEF HasBy, Elements
<1> QED BY <1>2, <1>3, <1>4, <1>5, <1>6, <1>7, <1>8, <1>9, <1>10, <1>11

\* What is of type g is of type e.
Includes(e, g) == \A v \in Values : Has[<<v, g>>] => Has[<<v, e>>]

CompatibleBelow(n) ==
    \A a \in TypeRecords, b \in TypeRecords :
        Rank[a] + Rank[b] < n /\ Compatible[<<a, b>>] /\ b \notin Vague => Includes(a, b)

LEMMA CompatibleStep ==
    ASSUME ArgumentsAreTyped, NEW e \in TypeRecords, NEW g \in TypeRecords,
           CompatibleBelow(Rank[e] + Rank[g]), Compatible[<<e, g>>], g \notin Vague
    PROVE  Includes(e, g)
<1>c. CompatibleBy(Compatible, e, g)
  BY CompatibleIsCompatibleBy
<1>v. /\ g # Any /\ g # Unknown /\ ~IsGeneric(g)
      /\ \A i \in DOMAIN g.parts : g.parts[i] \notin Vague
  BY VagueIsOfParts
<1>e. /\ DOMAIN e.parts = 1 .. Len(e.parts) /\ Len(e.parts) \in Nat /\ Rank[e] \in Nat
      /\ \A i \in DOMAIN e.parts : /\ e.parts[i] \in TypeRecords
                                   /\ Rank[e.parts[i]] \in Nat /\ Rank[e.parts[i]] < Rank[e]
  BY PartsAreTypes
<1>g. /\ DOMAIN g.parts = 1 .. Len(g.parts) /\ Len(g.parts) \in Nat /\ Rank[g] \in Nat
      /\ \A i \in DOMAIN g.parts : /\ g.parts[i] \in TypeRecords
                                   /\ Rank[g.parts[i]] \in Nat /\ Rank[g.parts[i]] < Rank[g]
  BY PartsAreTypes
\* the pairs of parts that CompatibleBy looks at
<1>i. \A i \in DOMAIN e.parts, j \in DOMAIN g.parts :
          /\ Compatible[<<e.parts[i], g.parts[j]>>] => Includes(e.parts[i], g.parts[j])
          /\ Compatible[<<g.parts[j], e.parts[i]>>] /\ e.parts[i] \notin Vague
                 => Includes(g.parts[j], e.parts[i])
  <2> SUFFICES ASSUME NEW i \in DOMAIN e.parts, NEW j \in DOMAIN g.parts
               PROVE  /\ Compatible[<<e.parts[i], g.parts[j]>>] => Includes(e.parts[i], g.parts[j])
                      /\ Compatible[<<g.parts[j], e.parts[i]>>] /\ e.parts[i] \notin Vague
                             => Includes(g.parts[j], e.parts[i])
    OBVIOUS
  <2> DEFINE x == e.parts[i]
             y == g.parts[j]
  <2>1. /\ x \in TypeRecords /\ y \in TypeRecords /\ y \notin Vague
        /\ Rank[x] \in Nat /\ Rank[y] \in Nat /\ Rank[x] < Rank[e] /\ Rank[y] < Rank[g]
    BY <1>e, <1>g, <1>v
  <2> HIDE DEF x, y
  <2>2. Rank[x] + Rank[y] < Rank[e] + Rank[g] /\ Rank[y] + Rank[x] < Rank[e] + Rank[g]
    BY <2>1, <1>e, <1>g
  <2>3. (Compatible[<<x, y>>] => Includes(x, y)) /\ (Compatible[<<y, x>>] /\ x \notin Vague => Includes(y, x))
    BY <2>1, <2>2 DEF CompatibleBelow
  <2> QED BY <2>3 DEF x, y
<1>1. CASE e = g
  BY <1>1 DEF Includes
<1>2. CASE e.base = "Any"
  BY <1>2, HasByBase DEF Includes
<1>3. CASE g.base \in {"Never", "Any"}
  <2>1. g.base = "Never"
    BY <1>3, <1>v, TypesAssumption
  <2>2. \A v \in Values : ~Has[<<v, g>>]
    BY <2>1, HasByBase, ValuesAssumption DEF Elements
  <2> QED BY <2>2 DEF Includes
<1>4. CASE g.base = "Union" /\ \A i \in DOMAIN g.parts : Compatible[<<e, g.parts[i]>>]
  <2>1. \A i \in DOMAIN g.parts : Includes(e, g.parts[i])
    <3> SUFFICES ASSUME NEW i \in DOMAIN g.parts PROVE Includes(e, g.parts[i])
      OBVIOUS
    <3> DEFINE y == g.parts[i]
    <3>1. y \in TypeRecords /\ y \notin Vague /\ Rank[y] \in Nat /\ Rank[y] < Rank[g] /\ Compatible[<<e, y>>]
      BY <1>4, <1>g, <1>v
    <3> HIDE DEF y
    <3>2. Rank[e] + Rank[y] < Rank[e] + Rank[g]
      BY <3>1, <1>e, <1>g
    <3>3. Includes(e, y)
      BY <3>1, <3>2 DEF CompatibleBelow
    <3> QED BY <3>3 DEF y
  <2> QED BY <1>4, <2>1, HasByBase DEF Includes
<1>5. CASE e.base = "Union" /\ \E i \in DOMAIN e.parts : Compatible[<<e.parts[i], g>>]
  <2>1. PICK i \in DOMAIN e.parts : Compatible[<<e.parts[i], g>>]
    BY <1>5
  <2>2. Includes(e.parts[i], g)
    <3> DEFINE x == e.parts[i]
    <3>1. x \in TypeRecords /\ Rank[x] \in Nat /\ Rank[x] < Rank[e] /\ Compatible[<<x, g>>]
      BY <2>1, <1>e
    <3> HIDE DEF x
    <3>2. Rank[x] + Rank[g] < Rank[e] + Rank[g]
      BY <3>1, <1>e, <1>g
    <3>3. Includes(x, g)
      BY <3>1, <3>2 DEF CompatibleBelow
    <3> QED BY <3>3 DEF x
  <2> QED BY <1>5, <2>1, <2>2, HasByBase DEF Includes
<1>6. CASE e.base = "Float" /\ g.base = "Int"
  BY <1>6, HasByBase DEF Includes, Elements
<1>7. CASE e.base = "Shape" /\ g.base \in {"Struct", "Shape"} /\ SameFields(Compatible, e, g)
  <2> SUFFICES ASSUME NEW v \in Values, Has[<<v, g>>] PROVE Has[<<v, e>>]
    BY DEF Includes
  <2>1. v.base = "Struct"
    BY <1>7, HasByBase
  <2>2. DOMAIN v.parts = 1 .. Len(v.parts) /\ \A j \in DOMAIN v.parts : v.parts[j] \in Values
    BY <2>1, PartsOfValues
  <2>3. ASSUME NEW i \in DOMAIN e.parts
        PROVE  \E j \in DOMAIN v.parts : v.names[j] = e.names[i] /\ Has[<<v.parts[j], e.parts[i]>>]
    <3>1. PICK k \in DOMAIN g.parts : e.names[i] = g.names[k] /\ Compatible[<<e.parts[i], g.parts[k]>>]
      BY <1>7 DEF SameFields
    <3>2. PICK j \in DOMAIN v.parts : v.names[j] = g.names[k] /\ Has[<<v.parts[j], g.parts[k]>>]
      <4>1. CASE g.base = "Struct"
        <5>1. v.names = g.names /\ SameParts(Has, v, g)
          BY <4>1, HasByBase
        <5>2. DOMAIN v.parts = DOMAIN g.parts /\ Has[<<v.parts[k], g.parts[k]>>]
          BY <5>1, <2>2, <1>g DEF SameParts
        <5> QED BY <5>1, <5>2
      <4>2. CASE g.base = "Shape"
        BY <4>2, HasByBase
      <4> QED BY <1>7, <4>1, <4>2
    <3>3. Includes(e.parts[i], g.parts[k])
      BY <3>1, <1>i
    <3> QED BY <2>2, <3>1, <3>2, <3>3 DEF Includes
  <2> QED BY <1>7, <2>1, <2>3, HasByBase
<1>8. CASE e.base = "Function" /\ g.base = "Function" /\ FunctionParts(Compatible, e, g)
  <2> DEFINE n == Len(g.parts)
  <2>1. n = Len(e.parts) /\ n \in Nat \ {0} /\ DOMAIN e.parts = 1 .. n /\ DOMAIN g.parts = 1 .. n
    BY <1>8, <1>e, <1>g, TypesAssumption, EmptySeq DEF FunctionParts
  <2>2. Includes(e.parts[n], g.parts[n])
    <3>1. n \in DOMAIN g.parts /\ n \in DOMAIN e.parts /\ ~(n < Len(g.parts))
      BY <2>1
    <3>2. Compatible[<<e.parts[n], g.parts[n]>>]
      BY <1>8, <3>1 DEF FunctionParts
    <3> QED BY <3>1, <3>2, <1>i
  <2>3. \A i \in 1 .. n - 1 : Includes(g.parts[i], e.parts[i])
    <3> TAKE i \in 1 .. n - 1
    <3>1. i \in 1 .. n /\ i < n
      BY <2>1
    <3>2. e.parts[i] \notin Vague
      BY <1>8, <2>1 DEF ArgumentsAreTyped
    <3> QED BY <1>8, <2>1, <3>1, <3>2, <1>i DEF FunctionParts
  <2>4. /\ ValuesOf(Has, g.parts[n]) \subseteq ValuesOf(Has, e.parts[n])
        /\ \A i \in 1 .. n - 1 : ValuesOf(Has, e.parts[i]) \subseteq ValuesOf(Has, g.parts[i])
    BY <2>2, <2>3 DEF Includes, ValuesOf
  <2> SUFFICES ASSUME NEW v \in Values, Has[<<v, g>>] PROVE Has[<<v, e>>]
    BY DEF Includes
  <2>5. /\ v.base = "Function" /\ Len(v.parts) = n
        /\ \A i \in 1 .. n - 1 : ValuesOf(Has, g.parts[i]) \subseteq ValuesOf(Has, v.parts[i])
        /\ ValuesOf(Has, v.parts[n]) \subseteq ValuesOf(Has, g.parts[n])
    BY <1>8, HasByBase
  <2>6. /\ \A i \in 1 .. n - 1 : ValuesOf(Has, e.parts[i]) \subseteq ValuesOf(Has, v.parts[i])
        /\ ValuesOf(Has, v.parts[n]) \subseteq ValuesOf(Has, e.parts[n])
    BY <2>4, <2>5
  <2> QED BY ZenonT(40), <1>8, <2>1, <2>5, <2>6, HasByBase
<1>9. CASE e.base = g.base /\ g.base \in Containers \ {"Function"} /\ SameParts(Compatible, e, g)
  <2>1. CASE g.base = "Table"
    BY <1>9, <2>1, HasByBase DEF Includes, Elements
  <2>2. CASE g.base \in Elements
    <3>1. Len(e.parts) = 1 /\ Len(g.parts) = 1
      BY <1>9, <2>2, TypesAssumption DEF Elements
    <3>2. Includes(e.parts[1], g.parts[1])
      BY <1>9, <3>1, <1>e, <1>g, <1>i DEF SameParts
    <3> SUFFICES ASSUME NEW v \in Values, Has[<<v, g>>] PROVE Has[<<v, e>>]
      BY DEF Includes
    <3>3. v.base = g.base /\ \A i \in DOMAIN v.parts : v.parts[i] \in Values /\ Has[<<v.parts[i], g.parts[1]>>]
      BY <2>2, HasByBase, PartsOfValues DEF Elements
    <3>4. \A i \in DOMAIN v.parts : Has[<<v.parts[i], e.parts[1]>>]
      BY <3>2, <3>3 DEF Includes
    <3> QED BY <1>9, <2>2, <3>3, <3>4, HasByBase
  <2> QED BY <1>9, <2>1, <2>2 DEF Containers, Elements
<1>10. CASE e.base = "Tuple" /\ g.base = "Tuple" /\ (IsGeneric(e) \/ SameParts(Compatible, e, g))
  <2> SUFFICES ASSUME NEW v \in Values, Has[<<v, g>>] PROVE Has[<<v, e>>]
    BY DEF Includes
  <2>1. v.base = "Tuple" /\ SameParts(Has, v, g)
    BY <1>10, <1>v, HasByBase
  <2>2. CASE IsGeneric(e)
    BY <1>10, <2>1, <2>2, HasByBase
  <2>3. CASE SameParts(Compatible, e, g)
    <3>1. /\ Len(v.parts) = Len(e.parts) /\ DOMAIN v.parts = DOMAIN e.parts /\ DOMAIN v.parts = DOMAIN g.parts
          /\ \A i \in DOMAIN v.parts : v.parts[i] \in Values
      BY <2>1, <2>3, <1>e, <1>g, PartsOfValues DEF SameParts
    <3>2. \A i \in DOMAIN v.parts : Includes(e.parts[i], g.parts[i])
      BY <2>3, <3>1, <1>i DEF SameParts
    <3>3. SameParts(Has, v, e)
      BY <2>1, <3>1, <3>2 DEF SameParts, Includes
    <3> QED BY <1>10, <2>1, <3>3, HasByBase
  <2> QED BY <1>10, <2>2, <2>3
<1>11. CASE /\ e.base = g.base /\ g.base \in {"Vector", "Matrix"}
            /\ IsGeneric(e) \/ e.size = g.size
  BY <1>11, <1>v, HasByBase DEF Includes
<1>12. CASE e.base = "Struct" /\ g.base = "Struct" /\ Equals[<<e, g>>]
  <2>1. Equal[<<e, g>>]
    BY <1>12 DEF Equal, Pairs
  <2>2. e.name = g.name
    BY <1>12, <2>1, EqualIsEqualBy DEF EqualBy, Containers
  <2> QED BY <1>1, <1>12, <2>2, TypesAssumption
<1>13. CASE /\ e.base = g.base
            /\ g.base \notin Containers \union {"Function", "Tuple", "Vector", "Matrix", "Struct", "Shape", "Union"}
  BY <1>13, HasByBase DEF Includes, Containers, Elements
<1> QED BY <1>c, <1>v, <1>1, <1>2, <1>3, <1>4, <1>5, <1>6, <1>7, <1>8, <1>9, <1>10, <1>11, <1>12, <1>13
        DEF CompatibleBy

\* Without vague parts, what is compatible is included.
LEMMA CompatibleIncludes ==
    ASSUME ArgumentsAreTyped, NEW e \in TypeRecords, NEW g \in TypeRecords,
           Compatible[<<e, g>>], g \notin Vague
    PROVE  Includes(e, g)
<1> DEFINE Bad(n) == \E a \in TypeRecords, b \in TypeRecords :
                         Rank[a] + Rank[b] = n /\ Compatible[<<a, b>>] /\ b \notin Vague /\ ~Includes(a, b)
           T == {n \in Nat : Bad(n)}
<1>r. \A t \in TypeRecords : Rank[t] \in Nat
  BY RankAssumption
<1>1. SUFFICES ASSUME T # {} PROVE FALSE
  <2>1. Rank[e] + Rank[g] \in Nat
    BY <1>r
  <2> QED BY <2>1
<1>2. PICK n \in T : \A m \in T : n <= m
  <2>1. T \in SUBSET Nat
    OBVIOUS
  <2> HIDE DEF T
  <2> QED BY <1>1, <2>1, LeastNat
<1>3. PICK a \in TypeRecords, b \in TypeRecords :
          Rank[a] + Rank[b] = n /\ Compatible[<<a, b>>] /\ b \notin Vague /\ ~Includes(a, b)
  BY <1>2
<1>4. CompatibleBelow(n)
  <2> SUFFICES ASSUME NEW x \in TypeRecords, NEW y \in TypeRecords,
                      Rank[x] + Rank[y] < n, Compatible[<<x, y>>], y \notin Vague, ~Includes(x, y)
               PROVE  FALSE
    BY DEF CompatibleBelow
  <2> DEFINE m == Rank[x] + Rank[y]
  <2>1. m \in Nat /\ m < n /\ n \in Nat
    BY <1>r, <1>2
  <2>2. m \in T
    BY <2>1
  <2>3. n <= m
    BY <1>2, <2>2
  <2> HIDE DEF T, m
  <2> QED BY <2>1, <2>3
<1> QED BY <1>3, <1>4, CompatibleStep

(***************************************************************************)
(* What instructions give, for operands that have the types they are       *)
(* chosen for.                                                             *)
(***************************************************************************)

Ops == {"+", "/", "\\", "**", "<"}

LEMMA PlainBase == \A b : Plain(b).base = b
BY DEF Plain, Record

LEMMA PlainTypes ==
    /\ \A b \in Scalars : Plain(b) \in TypeRecords
    /\ Any \in TypeRecords /\ Unknown \in TypeRecords
    /\ Any.base = "Any" /\ Unknown.base = "NULL" /\ Misread.base = "misread" /\ Panic.base = "panic"
    /\ Misread \notin Values /\ Panic \notin Values /\ Misread # Panic
    /\ \A b : b \notin {"misread", "panic"} => Plain(b) # Misread /\ Plain(b) # Panic
<1>1. \A b \in Scalars : FromString(b) = Plain(b)
  BY DEF Scalars, FromString
<1>2. \A b \in Scalars : Plain(b) \in TypeRecords
  BY <1>1, ProgramsAssumption
<1>3. Any \in TypeRecords /\ Unknown \in TypeRecords
  BY TypesAssumption
<1>4. Any.base = "Any" /\ Unknown.base = "NULL" /\ Misread.base = "misread" /\ Panic.base = "panic"
  BY PlainBase DEF Any, Unknown, Misread, Panic
<1>5. Misread \notin Values /\ Panic \notin Values
  BY ResultsAssumption
<1>6. \A b : b \notin {"misread", "panic"} => Plain(b) # Misread /\ Plain(b) # Panic
  BY <1>4, PlainBase
<1> QED BY <1>2, <1>3, <1>4, <1>5, <1>6

\* What is accepted where a type is expected, and is not vague, has it.
LEMMA AcceptedFits ==
    ASSUME "any" \notin Idioms, NEW e \in TypeRecords, NEW g \in TypeRecords,
           Accepted(e, g), Trusted(e, g), NEW v \in Values, Has[<<v, g>>]
    PROVE  Has[<<v, e>>]
<1>1. CASE e.base \in {"Any", "NULL"}
  BY <1>1, HasByBase
<1>2. CASE e = g
  BY <1>2
<1>3. CASE e.base \notin {"Any", "NULL"} /\ g \notin Vague
  <2>1. g # Any /\ g # Unknown
    BY <1>3, VagueIsOfParts
  <2>2. g.base \notin {"Any", "NULL"}
    BY <2>1, TypesAssumption
  <2>3. Compatible[<<e, g>>]
    BY <1>3, <2>2 DEF Accepted, EitherAny
  <2> QED BY <1>3, <2>3, ArgumentsAssumption, CompatibleIncludes DEF Includes
<1> QED BY <1>1, <1>2, <1>3, PlainTypes DEF Trusted

\* What an instruction that looks at its operands gives.
LEMMA CheckedGives ==
    ASSUME "overflow" \notin Idioms, NEW op \in Ops, NEW v, NEW w, NEW r \in Checked(op, v, w)
    PROVE  \/ r = Panic
           \/ op = "+" /\ v.base = "String" /\ w.base = "String" /\ r = v
           \/ op = "+" /\ v.base = "Int" /\ w.base = "Int" /\ r = Plain("Int")
           \/ op = "+" /\ v.base \in Numbers /\ w.base \in Numbers /\ r = Plain("Float")
           \/ op = "\\" /\ r = Plain("Int")
           \/ op \in {"/", "**"} /\ r = Plain("Float")
           \/ op = "<" /\ r = Plain("Bool")
<1>1. CASE op = "+"
  BY <1>1 DEF Checked, BothIn, OnInts, OnNumbers, Int32, Numbers
<1>2. CASE op = "\\"
  BY <1>2 DEF Checked, BothIn, OnInts, OnNumbers, Int32, Numbers
<1>3. CASE op = "/"
  BY <1>3 DEF Checked, BothIn, OnInts, OnNumbers, Int32, Numbers
<1>4. CASE op = "**"
  BY <1>4 DEF Checked, BothIn, OnInts, OnNumbers, Int32, Numbers
<1>5. CASE op = "<"
  BY <1>5 DEF Checked, BothIn, OnInts, OnNumbers, Int32, Numbers
<1> QED BY <1>1, <1>2, <1>3, <1>4, <1>5 DEF Ops

LEMMA ResultTypes ==
    ASSUME NEW op \in Ops, NEW t \in TypeRecords, NEW u \in TypeRecords
    PROVE  ResultType(op, t, u) \in TypeRecords
BY PlainTypes DEF ResultType, Scalars

\* A result that was checked has the type the compiler gives it.
LEMMA CheckedFits ==
    ASSUME "overflow" \notin Idioms, NEW op \in Ops, NEW t \in TypeRecords, NEW u \in TypeRecords,
           NEW v \in Values, NEW w \in Values, Has[<<v, t>>], Has[<<w, u>>],
           \/ EitherAny(t, u) \/ BothIn(Numbers, t, u)
           \/ op = "+" /\ BothIn({"String"}, t, u)
           \/ op = "<",
           NEW r \in Checked(op, v, w)
    PROVE  r # Misread /\ (r \in Values => Has[<<r, ResultType(op, t, u)>>])
<1> DEFINE s == ResultType(op, t, u)
<1>s. s \in TypeRecords
  BY ResultTypes
<1>t. /\ t.base = "Int" => v.base = "Int"
      /\ u.base = "Int" => w.base = "Int"
      /\ t.base = "String" => v.base = "String"
      /\ t.base = "Float" => v.base \in {"Int", "Float"}
      /\ u.base = "Float" => w.base \in {"Int", "Float"}
  BY HasByBase DEF Elements
<1>p. \A b \in Scalars : Plain(b).base = b /\ Plain(b) # Misread
  BY PlainTypes, PlainBase DEF Scalars
<1>1. CASE r = Panic
  BY <1>1, PlainTypes
<1>2. CASE op = "+" /\ v.base = "String" /\ w.base = "String" /\ r = v
  <2>1. ~BothIn(Numbers, t, u)
    BY <1>2, <1>t DEF BothIn, Numbers
  <2>2. CASE EitherAny(t, u)
    <3>1. s = Any
      BY <1>2, <2>2 DEF ResultType
    <3> QED BY <1>2, <3>1, <1>s, HasByBase, PlainTypes
  <2>3. CASE ~EitherAny(t, u) /\ BothIn({"String"}, t, u)
    <3>1. s = t
      BY <1>2, <2>3 DEF ResultType, BothIn
    <3> QED BY <1>2, <3>1, PlainTypes
  <2> QED BY <1>2, <2>1, <2>2, <2>3
<1>3. CASE op = "+" /\ v.base \in Numbers /\ w.base \in Numbers /\ r \in {Plain("Int"), Plain("Float")}
  <2>1. CASE EitherAny(t, u)
    <3>1. s = Any
      BY <1>3, <2>1 DEF ResultType
    <3> QED BY <1>3, <3>1, <1>s, <1>p, HasByBase, PlainTypes DEF Scalars
  <2>2. CASE ~EitherAny(t, u) /\ BothIn(Numbers, t, u)
    <3>1. CASE t.base = "Int" /\ u.base = "Int"
      <4>1. s = Plain("Int")
        BY <1>3, <2>2, <3>1 DEF ResultType, BothIn
      <4>2. v.base = "Int" /\ w.base = "Int"
        BY <3>1, <1>t
      <4>3. r = Plain("Int")
        BY <1>3, <4>2, CheckedGives, <1>p DEF Checked, BothIn, OnInts, Int32
      <4> QED BY <4>1, <4>3, <1>s, <1>p, HasByBase DEF Scalars, Elements
    <3>2. CASE ~(t.base = "Int" /\ u.base = "Int")
      <4>1. s = Plain("Float")
        BY <1>3, <2>2, <3>2 DEF ResultType, BothIn, Numbers
      <4> QED BY <1>3, <4>1, <1>s, <1>p, HasByBase DEF Scalars, Elements
    <3> QED BY <3>1, <3>2
  <2>3. ~BothIn({"String"}, t, u)
    BY <1>3, <1>t DEF BothIn, Numbers
  <2> QED BY <1>3, <2>1, <2>2, <2>3
<1>4. CASE op = "\\" /\ r = Plain("Int")
  <2>1. s = Plain("Int")
    BY <1>4 DEF ResultType
  <2> QED BY <1>4, <2>1, <1>s, <1>p, HasByBase DEF Scalars, Elements
<1>5. CASE op \in {"/", "**"} /\ r = Plain("Float")
  <2>1. EitherAny(t, u) \/ BothIn(Numbers, t, u)
    BY <1>5
  <2>2. s = Plain("Float")
    <3>1. CASE op = "**"
      BY <3>1 DEF ResultType
    <3>2. CASE op = "/" /\ EitherAny(t, u)
      BY <3>2 DEF ResultType
    <3>3. CASE op = "/" /\ ~EitherAny(t, u) /\ BothIn(Numbers, t, u)
      BY <3>3 DEF ResultType, BothIn, Numbers
    <3> QED BY <1>5, <2>1, <3>1, <3>2, <3>3
  <2> QED BY <1>5, <2>2, <1>s, <1>p, HasByBase DEF Scalars, Elements
<1>6. CASE op = "<" /\ r = Plain("Bool")
  <2>1. s = Plain("Bool")
    BY <1>6 DEF ResultType
  <2> QED BY <1>6, <2>1, <1>s, <1>p, HasByBase DEF Scalars, Elements
<1> QED BY <1>1, <1>2, <1>3, <1>4, <1>5, <1>6, CheckedGives DEF Numbers

\* An instruction the compiler chose for two types reads operands of those types
\* for what they are.
LEMMA OutcomesFit ==
    ASSUME "overflow" \notin Idioms, NEW op \in Ops, NEW t \in TypeRecords, NEW u \in TypeRecords,
           NEW v \in Values, NEW w \in Values, Has[<<v, t>>], Has[<<w, u>>],
           Instruction(op, t, u) # "refused", NEW r \in Outcomes(op, Instruction(op, t, u), v, w)
    PROVE  r # Misread /\ (r \in Values => Has[<<r, ResultType(op, t, u)>>])
<1> DEFINE i == Instruction(op, t, u)
           s == ResultType(op, t, u)
<1>s. s \in TypeRecords
  BY ResultTypes
<1>t. /\ t.base = "Int" => v.base = "Int"
      /\ u.base = "Int" => w.base = "Int"
      /\ t.base = "Float" => v.base \in {"Int", "Float"}
      /\ u.base = "Float" => w.base \in {"Int", "Float"}
      /\ t.base = "Vector" => v.base = "Vector" /\ (IsGeneric(t) \/ v.size = t.size)
      /\ u.base = "Vector" => w.base = "Vector" /\ (IsGeneric(u) \/ w.size = u.size)
  BY HasByBase DEF Elements
<1>p. \A b \in Scalars : Plain(b).base = b /\ Plain(b) # Misread
  BY PlainTypes, PlainBase DEF Scalars
<1>1. CASE \/ EitherAny(t, u)
           \/ op = "+" /\ BothIn({"String"}, t, u)
           \/ op = "<" /\ IsNumeric[t] /\ IsNumeric[u]
  <2>1. i = "CHECKED"
    BY <1>1 DEF Instruction
  <2>2. r \in Checked(op, v, w)
    BY <2>1 DEF Outcomes
  <2> QED BY <1>1, <2>2, CheckedFits
<1>2. CASE ~EitherAny(t, u) /\ op \in {"+", "\\", "**"} /\ t.base = "Int" /\ u.base = "Int"
  <2>1. i = "INT"
    BY <1>2 DEF Instruction, BothIn
  <2>2. r \in OnInts(op)
    BY <1>2, <2>1, <1>t DEF Outcomes, BothIn
  <2>3. \/ op = "+" /\ r = Plain("Int") /\ s = Plain("Int")
        \/ op = "\\" /\ r \in {Plain("Int"), Panic} /\ s = Plain("Int")
        \/ op = "**" /\ r = Plain("Float") /\ s = Plain("Float")
    BY <1>2, <2>2 DEF OnInts, Int32, ResultType, BothIn
  <2> QED BY <2>3, <1>s, <1>p, HasByBase, PlainTypes DEF Scalars, Elements
<1>3. CASE /\ ~EitherAny(t, u) /\ op \in {"+", "/", "**"} /\ t.base \in Numbers /\ u.base \in Numbers
           /\ ~(op \in {"+", "\\", "**"} /\ t.base = "Int" /\ u.base = "Int")
  <2>1. i = "NUM"
    BY <1>3 DEF Instruction, BothIn, Numbers
  <2>2. r \in OnNumbers(op)
    BY <1>3, <2>1, <1>t DEF Outcomes, BothIn, Numbers
  <2>3. r \in {Plain("Float"), Panic} /\ s = Plain("Float")
    BY <1>3, <2>2 DEF OnNumbers, ResultType, BothIn, Numbers
  <2> QED BY <2>3, <1>s, <1>p, HasByBase, PlainTypes DEF Scalars, Elements
<1>4. CASE /\ ~EitherAny(t, u) /\ op \in {"+", "/"} /\ t.base = "Vector" /\ u.base = "Vector"
           /\ SizesAgree(t, u)
  <2>1. i = "VECTOR"
    BY <1>4 DEF Instruction, BothIn, Numbers
  <2>2. r = Panic \/ (v.size = w.size /\ r = v)
    BY <1>4, <2>1, <1>t DEF Outcomes, BothIn
  <2>3. s = IF IsGeneric(t) THEN u ELSE t
    BY <1>4 DEF ResultType, BothIn
  <2> QED BY <1>4, <2>2, <2>3, <1>s, <1>t, HasByBase, PlainTypes
<1> QED BY <1>1, <1>2, <1>3, <1>4 DEF Instruction, BothIn, Numbers

(***************************************************************************)
(* Expressions: their results have the types the compiler gives them.      *)
(***************************************************************************)

Strict == Idioms = {}

\* Every variable has the type the compiler takes it to have.
WellTyped ==
    \A x \in Vars : vals[x] \in Values /\ TypeOf(x) \in TypeRecords \ {Unknown} /\ Has[<<vals[x], TypeOf(x)>>]

Fits(v, t) == v \in Values /\ t \in TypeRecords \ {Unknown} /\ Has[<<v, t>>]

\* What a result may be: a value of the type, or the end of the script.
Gives(r, t) == r # Misread /\ (r \in Values => Has[<<r, t>>])

LEMMA LiteralsFit ==
    ASSUME NEW v \in Literals
    PROVE  Fits(v, Plain(v.base)) /\ v.base \in Scalars /\ v = Plain(v.base)
<1>1. v \in Values /\ v.base \in Scalars /\ v = Plain(v.base)
  BY ProgramsAssumption
<1>2. Plain(v.base) \in TypeRecords /\ Plain(v.base).base = v.base /\ Plain(v.base) # Unknown
  BY <1>1, PlainTypes, PlainBase DEF Scalars, Unknown
<1> QED BY <1>1, <1>2, HasByBase DEF Scalars, Elements, Fits

LEMMA OperandsFit ==
    ASSUME WellTyped, NEW a \in Operands
    PROVE  Fits(OperandValue(a), OperandType(a))
<1>1. CASE a \in Variables
  <2>1. PICK x \in Vars : a = Read(x)
    BY <1>1 DEF Variables
  <2> QED BY <2>1 DEF WellTyped, Fits, OperandValue, OperandType, Read
<1>2. CASE a \in {Literal(v) : v \in Literals}
  <2>1. PICK v \in Literals : a = Literal(v)
    BY <1>2
  <2> QED BY <2>1, LiteralsFit DEF OperandValue, OperandType, Literal
<1> QED BY <1>1, <1>2 DEF Operands

LEMMA ElementsFit ==
    ASSUME Strict, NEW t, NEW u, NEW v, NEW w, Fits(v, t), Fits(w, u),
           Trusted(ElementType(t, u), u), ElementType(t, u) \in TypeRecords
    PROVE  Has[<<v, ElementType(t, u)>>] /\ Has[<<w, ElementType(t, u)>>]
<1> DEFINE s == ElementType(t, u)
<1>f. /\ v \in Values /\ w \in Values /\ t \in TypeRecords /\ u \in TypeRecords /\ t # Unknown
      /\ Has[<<v, t>>] /\ Has[<<w, u>>] /\ "any" \notin Idioms
  BY DEF Fits, Strict
<1>1. CASE Accepted(t, u)
  <2>1. s = t
    BY <1>1, <1>f DEF ElementType, Accepted
  <2> QED BY <1>1, <1>f, <2>1, AcceptedFits
<1>2. CASE ~Accepted(t, u) /\ BothIn(Numbers, t, u)
  <2>1. s = Plain("Float")
    BY <1>2, <1>f DEF ElementType, Accepted
  <2>2. v.base \in {"Int", "Float"} /\ w.base \in {"Int", "Float"}
    BY <1>2, <1>f, HasByBase DEF BothIn, Numbers, Elements
  <2> QED BY <1>f, <2>1, <2>2, PlainBase, HasByBase
<1>3. CASE ~Accepted(t, u) /\ ~BothIn(Numbers, t, u)
  <2>1. s = Any
    BY <1>3, <1>f DEF ElementType, Accepted
  <2> QED BY <1>f, <2>1, PlainTypes, HasByBase
<1> QED BY <1>1, <1>2, <1>3

LEMMA ArraysFit ==
    ASSUME NEW s, NEW v \in Values, NEW w \in Values, Of("Array", <<s>>) \in TypeRecords,
           Has[<<v, s>>], Has[<<w, s>>], Of("Array", <<v, w>>) \in Values
    PROVE  Has[<<Of("Array", <<v, w>>), Of("Array", <<s>>)>>]
<1> DEFINE r == Of("Array", <<v, w>>)
           t == Of("Array", <<s>>)
<1>1. r.base = "Array" /\ r.parts = <<v, w>> /\ t.base = "Array" /\ t.parts = <<s>>
  BY DEF Of, Record
<1>2. DOMAIN r.parts = {1, 2} /\ r.parts[1] = v /\ r.parts[2] = w /\ t.parts[1] = s
  BY <1>1
<1>3. r \in Values /\ t \in TypeRecords
  OBVIOUS
<1> HIDE DEF r, t
<1>4. \A i \in DOMAIN r.parts : Has[<<r.parts[i], t.parts[1]>>]
  BY <1>2
<1>5. Has[<<r, t>>]
  BY ZenonT(40), <1>1, <1>3, <1>4, HasByBase DEF Elements
<1> QED BY <1>5 DEF r, t

LEMMA OptionsFit ==
    ASSUME NEW s, NEW v \in Values, Of("Option", <<s>>) \in TypeRecords,
           Has[<<v, s>>], Of("Option", <<v>>) \in Values
    PROVE  Has[<<Of("Option", <<v>>), Of("Option", <<s>>)>>]
<1> DEFINE r == Of("Option", <<v>>)
           t == Of("Option", <<s>>)
<1>1. r.base = "Option" /\ r.parts = <<v>> /\ t.base = "Option" /\ t.parts = <<s>>
  BY DEF Of, Record
<1>2. DOMAIN r.parts = {1} /\ r.parts[1] = v /\ t.parts[1] = s
  <2>1. DOMAIN <<v>> = {1} /\ <<v>>[1] = v /\ <<s>>[1] = s
    OBVIOUS
  <2> HIDE DEF r, t
  <2> QED BY <1>1, <2>1
<1>3. r \in Values /\ t \in TypeRecords
  OBVIOUS
<1> HIDE DEF r, t
<1>4. \A i \in DOMAIN r.parts : Has[<<r.parts[i], t.parts[1]>>]
  BY <1>2
<1>5. Has[<<r, t>>]
  BY <1>1, <1>3, <1>4, HasByBase DEF Elements
<1> QED BY <1>5 DEF r, t

\* A type without structure says no more than the kind of value.
LEMMA CastsFit ==
    ASSUME NEW t \in TypeRecords, NEW v \in Values, ~HasStructure(t), MaskCompatible(t, v)
    PROVE  Has[<<v, t>>]
<1>1. t.parts = <<>> /\ t.size = <<>> /\ t.base \notin {"Struct", "Tuple"}
  BY DEF HasStructure
<1>2. t.base \notin Elements \union {"Function", "Union", "Vector", "Matrix"}
  <2>1. Len(t.parts) = 0
    BY <1>1
  <2>2. /\ t.base \in {"Array", "Set", "Option", "Result", "Iterator"} => Len(t.parts) = 1
        /\ t.base \in {"Function", "Union"} => t.parts # <<>>
        /\ t.base \in {"Vector", "Matrix"} => t.size # <<>>
    BY TypesAssumption
  <2> QED BY <1>1, <2>1, <2>2 DEF Elements
<1>3. t.base \in {"Any", v.base} /\ v.base # "Shape"
  BY <1>2, ValuesAssumption DEF MaskCompatible
<1> QED BY <1>1, <1>2, <1>3, HasByBase

LEMMA CallsFit ==
    ASSUME NEW t \in TypeRecords, t.base = "Function", Len(t.parts) = 2,
           NEW v \in Values, Has[<<v, t>>], NEW w \in Values, Has[<<w, t.parts[1]>>], NEW r \in Answers(v, w)
    PROVE  Gives(r, t.parts[2])
<1>1. /\ v.base = "Function" /\ Len(v.parts) = 2
      /\ ValuesOf(Has, t.parts[1]) \subseteq ValuesOf(Has, v.parts[1])
      /\ ValuesOf(Has, v.parts[2]) \subseteq ValuesOf(Has, t.parts[2])
  <2>1. /\ v.base = "Function" /\ Len(v.parts) = Len(t.parts)
        /\ \A i \in 1 .. Len(t.parts) - 1 :
               ValuesOf(Has, t.parts[i]) \subseteq ValuesOf(Has, v.parts[i])
        /\ ValuesOf(Has, v.parts[Len(v.parts)]) \subseteq ValuesOf(Has, t.parts[Len(t.parts)])
    BY HasByBase
  <2>2. 1 \in 1 .. Len(t.parts) - 1
    OBVIOUS
  <2> QED BY <2>1, <2>2
<1>2. Has[<<w, v.parts[1]>>]
  BY <1>1 DEF ValuesOf
<1>3. r \in Values /\ Has[<<r, v.parts[2]>>]
  BY <1>1, <1>2 DEF Answers
<1> QED BY <1>1, <1>3, PlainTypes DEF ValuesOf, Gives

LEMMA ExpressionsFit ==
    ASSUME Strict, WellTyped, NEW e \in Expressions, Compiles(e), StaticType(e) \in TypeRecords,
           NEW r \in Results(e)
    PROVE  Gives(r, StaticType(e))
<1>i. "any" \notin Idioms /\ "overflow" \notin Idioms /\ "cast" \notin Idioms
  BY DEF Strict
<1>1. CASE e \in Operands
  <2>1. e.op \in {"read", "literal"}
    BY <1>1 DEF Operands, Variables, Read, Literal
  <2>2. r = OperandValue(e) /\ StaticType(e) = OperandType(e)
    BY <2>1 DEF Results, StaticType
  <2> QED BY <1>1, <2>2, OperandsFit, PlainTypes DEF Fits, Gives
<1>2. ASSUME NEW op \in {"+", "/", "\\", "**", "<", "array", "call"}, NEW a \in Variables, NEW b \in Operands,
             e = Expression(op, a, b)
      PROVE  Gives(r, StaticType(e))
  <2> DEFINE t == OperandType(a)
             u == OperandType(b)
             v == OperandValue(a)
             w == OperandValue(b)
  <2>1. e.op = op /\ e.a = a /\ e.b = b
    BY <1>2 DEF Expression
  <2>2. Fits(v, t) /\ Fits(w, u)
    BY OperandsFit DEF Operands
  <2> HIDE DEF t, u, v, w
  <2>3. /\ v \in Values /\ w \in Values /\ t \in TypeRecords /\ u \in TypeRecords
        /\ Has[<<v, t>>] /\ Has[<<w, u>>]
    BY <2>2 DEF Fits
  <2>4. CASE op \in {"+", "/", "\\", "**", "<"}
    <3>1. /\ Instruction(op, t, u) # "refused" /\ StaticType(e) = ResultType(op, t, u)
          /\ r \in Outcomes(op, Instruction(op, t, u), v, w)
      BY <2>1, <2>4 DEF Compiles, StaticType, Results, t, u, v, w
    <3> QED BY <1>i, <2>3, <2>4, <3>1, OutcomesFit DEF Ops, Gives
  <2>5. CASE op = "array"
    <3>1. /\ Trusted(ElementType(t, u), u) /\ StaticType(e) = Of("Array", <<ElementType(t, u)>>)
          /\ r = Of("Array", <<v, w>>)
      BY <2>1, <2>5 DEF Compiles, StaticType, Results, t, u, v, w
    <3>2. ElementType(t, u) \in TypeRecords
      <4> DEFINE s == ElementType(t, u)
                 c == Of("Array", <<s>>)
      <4>1. c \in TypeRecords
        BY <3>1
      <4> HIDE DEF s
      <4>2. c.parts = <<s>>
        BY DEF Of, Record
      <4>3. DOMAIN <<s>> = {1} /\ <<s>>[1] = s
        OBVIOUS
      <4> HIDE DEF c
      <4>4. s \in TypeRecords
        BY <4>1, <4>2, <4>3, PartsAreTypes
      <4> QED BY <4>4 DEF s
    <3>3. Has[<<v, ElementType(t, u)>>] /\ Has[<<w, ElementType(t, u)>>]
      BY <2>2, <3>1, <3>2, ElementsFit
    <3>4. r # Misread
      <4>1. r.base = "Array"
        BY <3>1 DEF Of, Record
      <4> QED BY <4>1, PlainTypes
    <3> QED BY <2>3, <3>1, <3>3, <3>4, ArraysFit DEF Gives
  <2>6. CASE op = "call"
    <3>1. CASE t.base = "Function"
      <4>1. /\ Len(t.parts) = 2 /\ Accepted(t.parts[1], u) /\ Trusted(t.parts[1], u)
            /\ StaticType(e) = t.parts[2] /\ r \in Answers(v, w)
        BY <2>1, <2>6, <3>1 DEF Compiles, StaticType, Results, Sq!Last, t, u, v, w
      <4>2. t.parts[1] \in TypeRecords
        BY <2>3, <4>1, PartsAreTypes
      <4>3. Has[<<w, t.parts[1]>>]
        BY <1>i, <2>3, <4>1, <4>2, AcceptedFits
      <4> QED BY <2>3, <3>1, <4>1, <4>3, CallsFit
    <3>2. CASE t.base # "Function"
      BY <1>i, <2>1, <2>6, <3>2 DEF Compiles, t, u
    <3> QED BY <3>1, <3>2
  <2> QED BY <2>4, <2>5, <2>6
<1>3. ASSUME NEW op \in {"negate", "index", "some"}, NEW a \in Variables, e = Expression(op, a, a)
      PROVE  Gives(r, StaticType(e))
  <2> DEFINE t == OperandType(a)
             v == OperandValue(a)
  <2>1. e.op = op /\ e.a = a
    BY <1>3 DEF Expression
  <2>2. Fits(v, t)
    BY OperandsFit DEF Operands
  <2> HIDE DEF t, v
  <2>3. v \in Values /\ t \in TypeRecords /\ Has[<<v, t>>]
    BY <2>2 DEF Fits
  <2>4. CASE op = "negate"
    <3>1. t.base \in {"Any", "Int", "Float"} /\ StaticType(e) = t /\ r \in Negated(v)
      BY <2>1, <2>4 DEF Compiles, StaticType, Results, t, v
    <3>2. \/ v.base = "Int" /\ r = Plain("Int")
          \/ v.base = "Float" /\ r = v
          \/ r = Panic
      BY <1>i, <3>1 DEF Negated, Int32
    <3>3. Plain("Int").base = "Int" /\ Plain("Int") # Misread
      BY PlainBase, PlainTypes
    <3> QED BY <2>3, <3>1, <3>2, <3>3, HasByBase, PlainTypes DEF Gives, Elements
  <2>5. CASE op = "index"
    <3>1. /\ StaticType(e) = IF t.base = "Array" THEN t.parts[1] ELSE Any
          /\ r = Panic \/ (v.base = "Array" /\ \E i \in DOMAIN v.parts : r = v.parts[i])
      BY <2>1, <2>5 DEF StaticType, Results, Sq!ToSet, t, v
    <3>2. r = Panic \/ r \in Values
      BY <2>3, <3>1, PartsOfValues
    <3>3. CASE t.base = "Array"
      BY <2>3, <3>1, <3>2, <3>3, HasByBase, PlainTypes DEF Gives, Elements
    <3>4. CASE t.base # "Array"
      BY <3>1, <3>2, <3>4, HasByBase, PlainTypes DEF Gives
    <3> QED BY <3>3, <3>4
  <2>6. CASE op = "some"
    <3>1. StaticType(e) = Of("Option", <<t>>) /\ r = Of("Option", <<v>>)
      BY <2>1, <2>6 DEF StaticType, Results, t, v
    <3>2. r # Misread
      <4>1. r.base = "Option"
        BY <3>1 DEF Of, Record
      <4> QED BY <4>1, PlainTypes
    <3> QED BY <2>3, <3>1, <3>2, OptionsFit DEF Gives
  <2> QED BY <2>4, <2>5, <2>6
<1>4. ASSUME NEW a \in Variables, NEW t \in AllAnnotations, e = Cast(a, t)
      PROVE  Gives(r, StaticType(e))
  <2> DEFINE v == OperandValue(a)
  <2>1. e.op = "as" /\ e.a = a /\ e.to = t
    BY <1>4 DEF Cast
  <2>2. v \in Values
    BY OperandsFit DEF Operands, Fits
  <2> HIDE DEF v
  <2>3. /\ StaticType(e) = t /\ ~HasStructure(t)
        /\ r = Panic \/ (r = v /\ MaskCompatible(t, v))
    BY <1>i, <2>1 DEF Compiles, StaticType, Results, v
  <2> QED BY <2>2, <2>3, CastsFit, PlainTypes DEF Gives
<1> QED BY <1>1, <1>2, <1>3, <1>4 DEF Expressions

(***************************************************************************)
(* Tests: what is left of a type.                                          *)
(***************************************************************************)

\* The loop of strip_type keeps what is not compatible, and nothing else.
KeptUpTo(k, parts, r, n) ==
    /\ k \in Seq(TypeRecords)
    /\ \A i \in 1 .. n : ~Compatible[<<r, parts[i]>>] => \E j \in DOMAIN k : k[j] = parts[i]
    /\ \A j \in DOMAIN k : \E i \in 1 .. n : ~Compatible[<<r, parts[i]>>] /\ k[j] = parts[i]

LEMMA KeptIsTheLoop ==
    ASSUME NEW parts \in Seq(TypeRecords), NEW r \in TypeRecords
    PROVE  \A n \in 0 .. Len(parts) :
               Kept(parts, r)[n] = IF n = 0 THEN <<>>
                                   ELSE IF Compatible[<<r, parts[n]>>] THEN Kept(parts, r)[n - 1]
                                   ELSE Append(Kept(parts, r)[n - 1], parts[n])
<1> DEFINE D == 0 .. Len(parts)
           C == Seq(TypeRecords)
           M(f, n) == IF n = 0 THEN <<>>
                      ELSE IF Compatible[<<r, parts[n]>>] THEN f[n - 1]
                      ELSE Append(f[n - 1], parts[n])
           F == [f \in [D -> C] |-> [n \in D |-> M(f, n)]]
           R == [n \in D |-> n]
<1>0. Len(parts) \in Nat /\ DOMAIN parts = 1 .. Len(parts) /\ \A n \in DOMAIN parts : parts[n] \in TypeRecords
  BY LenProperties, ElementOfSeq
<1>1. F \in [[D -> C] -> [D -> C]]
  <2>1. ASSUME NEW f \in [D -> C], NEW n \in D PROVE M(f, n) \in C
    <3>1. CASE n = 0
      BY <3>1
    <3>2. CASE n # 0
      <4>1. n - 1 \in D /\ n \in DOMAIN parts
        BY <1>0, <3>2
      <4>2. f[n - 1] \in C /\ parts[n] \in TypeRecords
        BY <1>0, <4>1
      <4> QED BY <3>2, <4>2
    <3> QED BY <3>1, <3>2
  <2> QED BY <2>1
<1>2. \A f \in [D -> C], g \in [D -> C] : \A n \in D : (\A m \in D : R[m] < R[n] => f[m] = g[m]) => F[f][n] = F[g][n]
  <2> SUFFICES ASSUME NEW f \in [D -> C], NEW g \in [D -> C], NEW n \in D, \A m \in D : R[m] < R[n] => f[m] = g[m]
               PROVE  M(f, n) = M(g, n)
    OBVIOUS
  <2>1. CASE n = 0
    BY <2>1
  <2>2. CASE n # 0
    <3>1. n - 1 \in D /\ n - 1 < n
      BY <1>0, <2>2
    <3>2. f[n - 1] = g[n - 1]
      BY <3>1
    <3> QED BY <3>2
  <2> QED BY <2>1, <2>2
<1>3. \E f \in [D -> C] : f = F[f]
  <2>1. C # {} /\ R \in [D -> Nat]
    BY <1>0
  <2> HIDE DEF D, C, R, F
  <2>2. ByRank(D, C, R, F)
    BY <1>1, <1>2, <2>1 DEF ByRank
  <2> QED BY <2>2, FunctionsByRank
<1>4. Kept(parts, r) = [n \in D |-> M(Kept(parts, r), n)]
  <2>1. PICK f \in [D -> C] : f = F[f]
    BY <1>3
  <2>2. f = [n \in D |-> M(f, n)]
    BY <2>1
  <2> QED BY <2>2 DEF Kept
<1> QED BY <1>4

LEMMA KeptParts ==
    ASSUME NEW parts \in Seq(TypeRecords), NEW r \in TypeRecords
    PROVE  KeptUpTo(Kept(parts, r)[Len(parts)], parts, r, Len(parts))
<1> DEFINE k == Kept(parts, r)
           T == {n \in 0 .. Len(parts) : ~KeptUpTo(k[n], parts, r, n)}
<1>0. Len(parts) \in Nat /\ DOMAIN parts = 1 .. Len(parts) /\ \A n \in DOMAIN parts : parts[n] \in TypeRecords
  BY LenProperties, ElementOfSeq
<1>k. \A n \in 0 .. Len(parts) :
          k[n] = IF n = 0 THEN <<>> ELSE IF Compatible[<<r, parts[n]>>] THEN k[n - 1] ELSE Append(k[n - 1], parts[n])
  BY KeptIsTheLoop
<1> HIDE DEF k
<1>1. SUFFICES ASSUME T # {} PROVE FALSE
  BY <1>0 DEF k
<1>2. PICK n \in T : \A m \in T : n <= m
  <2>1. T \in SUBSET Nat
    BY <1>0
  <2> HIDE DEF T
  <2> QED BY <1>1, <2>1, LeastNat
<1>3. n \in 0 .. Len(parts) /\ n \in Nat /\ ~KeptUpTo(k[n], parts, r, n)
  BY <1>0, <1>2
<1>4. CASE n = 0
  <2>1. k[n] = <<>>
    BY <1>k, <1>3, <1>4
  <2> QED BY <1>3, <1>4, <2>1 DEF KeptUpTo
<1>5. CASE n # 0
  <2>1. n - 1 \in 0 .. Len(parts) /\ n - 1 \in Nat /\ ~(n <= n - 1) /\ n \in DOMAIN parts
    BY <1>0, <1>3, <1>5
  <2>2. KeptUpTo(k[n - 1], parts, r, n - 1)
    BY <1>2, <2>1
  <2>3. parts[n] \in TypeRecords /\ 1 .. n = (1 .. n - 1) \union {n}
    BY <1>0, <2>1
  <2>4. CASE Compatible[<<r, parts[n]>>]
    <3>1. k[n] = k[n - 1]
      BY <1>k, <1>3, <1>5, <2>4
    <3> QED BY ZenonT(40), <1>3, <2>2, <2>3, <2>4, <3>1 DEF KeptUpTo
  <2>5. CASE ~Compatible[<<r, parts[n]>>]
    <3> DEFINE a == k[n - 1]
               b == k[n]
    <3>1. b = Append(a, parts[n])
      BY <1>k, <1>3, <1>5, <2>5
    <3>2. a \in Seq(TypeRecords)
      BY <2>2 DEF KeptUpTo
    <3> HIDE DEF a, b
    <3>3. /\ b \in Seq(TypeRecords) /\ Len(a) \in Nat /\ Len(b) = Len(a) + 1
          /\ DOMAIN a = 1 .. Len(a) /\ DOMAIN b = 1 .. Len(a) + 1
          /\ \A j \in 1 .. Len(a) : b[j] = a[j]
          /\ b[Len(a) + 1] = parts[n]
      BY <2>3, <3>1, <3>2
    <3>4. DOMAIN b = DOMAIN a \union {Len(a) + 1}
      BY <3>3
    <3>5. KeptUpTo(a, parts, r, n - 1)
      BY <2>2 DEF a
    <3>6. KeptUpTo(b, parts, r, n)
      <4>1. ASSUME NEW i \in 1 .. n, ~Compatible[<<r, parts[i]>>] PROVE \E j \in DOMAIN b : b[j] = parts[i]
        <5>1. CASE i = n
          BY <3>3, <3>4, <5>1
        <5>2. CASE i \in 1 .. n - 1
          <6>1. PICK j \in DOMAIN a : a[j] = parts[i]
            BY <3>5, <4>1, <5>2 DEF KeptUpTo
          <6> QED BY <3>3, <3>4, <6>1
        <5> QED BY <2>3, <5>1, <5>2
      <4>2. ASSUME NEW j \in DOMAIN b PROVE \E i \in 1 .. n : ~Compatible[<<r, parts[i]>>] /\ b[j] = parts[i]
        <5>1. CASE j = Len(a) + 1
          BY <2>3, <2>5, <3>3, <5>1
        <5>2. CASE j \in DOMAIN a
          <6>1. PICK i \in 1 .. n - 1 : ~Compatible[<<r, parts[i]>>] /\ a[j] = parts[i]
            BY <3>5, <5>2 DEF KeptUpTo
          <6> QED BY <2>3, <3>3, <5>2, <6>1
        <5> QED BY <3>4, <5>1, <5>2
      <4> QED BY <3>3, <4>1, <4>2 DEF KeptUpTo
    <3> QED BY <1>3, <3>6 DEF b
  <2> QED BY <2>4, <2>5
<1> QED BY <1>4, <1>5

\* A scalar type is that of the values of its base.
LEMMA ScalarTypes ==
    ASSUME NEW b \in Scalars
    PROVE  /\ Plain(b) \in TypeRecords \ {Unknown} /\ Plain(b).base = b /\ Plain(b) \notin Vague
           /\ \A v \in Values : Has[<<v, Plain(b)>>] <=> v.base = b \/ (b = "Float" /\ v.base = "Int")
<1>1. Plain(b) \in TypeRecords /\ Plain(b).base = b /\ b \notin {"Any", "NULL"}
  BY PlainTypes, PlainBase DEF Scalars
<1>2. Plain(b).size = <<>> /\ Plain(b).parts = <<>>
  BY DEF Plain, Record
<1>3. Plain(b) # Any /\ Plain(b) # Unknown
  BY <1>1, PlainTypes
<1>4. Plain(b) \notin Vague
  <2>1. ~IsGeneric(Plain(b)) /\ DOMAIN Plain(b).parts = {}
    BY <1>2 DEF IsGeneric
  <2> QED BY <1>1, <1>3, <2>1, VagueIsOfParts
<1>5. ASSUME NEW v \in Values
      PROVE  Has[<<v, Plain(b)>>] <=> v.base = b \/ (b = "Float" /\ v.base = "Int")
  <2> DEFINE t == Plain(b)
  <2>1. t \in TypeRecords /\ t.base = b
    BY <1>1
  <2> HIDE DEF t
  <2>2. Has[<<v, t>>] <=> v.base = b \/ (b = "Float" /\ v.base = "Int")
    BY <2>1, HasByBase DEF Scalars, Elements
  <2> QED BY <2>2 DEF t
<1> QED BY <1>1, <1>3, <1>4, <1>5

\* A type with one value of a scalar base has all that are of the scalar type.
LEMMA ScalarsAreAlike ==
    ASSUME NEW b \in Scalars, NEW t \in TypeRecords, NEW v \in Values, v.base = b, Has[<<v, t>>]
    PROVE  Includes(t, Plain(b))
<1> DEFINE Bad(s) == s \in TypeRecords /\ Has[<<v, s>>] /\ ~Includes(s, Plain(b))
           T == {n \in Nat : \E s \in TypeRecords : Rank[s] = n /\ Bad(s)}
<1>1. SUFFICES ASSUME T # {} PROVE FALSE
  BY PartsAreTypes
<1>2. PICK n \in T : \A m \in T : n <= m
  <2>1. T \in SUBSET Nat
    OBVIOUS
  <2> HIDE DEF T
  <2> QED BY <1>1, <2>1, LeastNat
<1>3. PICK s \in TypeRecords : Rank[s] = n /\ Bad(s)
  BY <1>2
<1>4. PICK w \in Values : Has[<<w, Plain(b)>>] /\ ~Has[<<w, s>>]
  BY <1>3 DEF Includes
<1>5. w.base = b \/ (b = "Float" /\ w.base = "Int")
  BY <1>4, ScalarTypes
<1>6. CASE s.base = "Union"
  <2>1. PICK i \in DOMAIN s.parts : Has[<<v, s.parts[i]>>]
    BY <1>3, <1>6, HasByBase
  <2> DEFINE p == s.parts[i]
  <2>2. p \in TypeRecords /\ Rank[p] \in Nat /\ Rank[p] < n /\ n \in Nat
    BY <1>3, PartsAreTypes
  <2>3. ~Has[<<w, p>>]
    BY <1>4, <1>6, HasByBase
  <2>4. Bad(p)
    BY <1>4, <2>1, <2>2, <2>3 DEF Includes
  <2> HIDE DEF p, Bad
  <2>5. Rank[p] \in T
    BY <2>2, <2>4
  <2> QED BY <1>2, <2>2, <2>5
<1>7. CASE s.base # "Union"
  BY <1>3, <1>4, <1>5, <1>7, HasByBase DEF Scalars, Elements
<1> QED BY <1>6, <1>7

\* What strip_type leaves, by the type.
LEMMA StripLeaves ==
    ASSUME NEW t \in TypeRecords \ {Unknown}, NEW r \in TypeRecords \ {Unknown}
    PROVE  /\ Strip(t, r) \in TypeRecords \ {Unknown}
           /\ t.base # "Union" => Strip(t, r) = IF Compatible[<<r, t>>] THEN Any ELSE t
           /\ t.base = "Union" =>
                  IF \A i \in DOMAIN t.parts : Compatible[<<r, t.parts[i]>>] THEN Strip(t, r) = Any
                  ELSE \A v \in Values : Has[<<v, Strip(t, r)>>] <=>
                           \E i \in DOMAIN t.parts : ~Compatible[<<r, t.parts[i]>>] /\ Has[<<v, t.parts[i]>>]
<1>a. Any # Unknown
  BY PlainTypes
<1>t. Strip(t, r) \in TypeRecords
  BY TypesAssumption
<1>1. CASE t.base # "Union"
  <2>1. Strip(t, r) = IF Compatible[<<r, t>>] THEN Any ELSE t
    BY <1>1 DEF Strip
  <2> QED BY <1>1, <1>a, <1>t, <2>1
<1>2. CASE t.base = "Union"
  <2> DEFINE k == Kept(t.parts, r)[Len(t.parts)]
  <2>1. Strip(t, r) = UnionOf(k)
    BY <1>2 DEF Strip
  <2>2. t.parts \in Seq(TypeRecords) /\ DOMAIN t.parts = 1 .. Len(t.parts)
    BY TypesAssumption, PartsAreTypes
  <2>3. KeptUpTo(k, t.parts, r, Len(t.parts))
    BY <2>2, KeptParts
  <2> HIDE DEF k
  <2>4. k \in Seq(TypeRecords) /\ DOMAIN k = 1 .. Len(k) /\ Len(k) \in Nat
    BY <2>3, LenProperties DEF KeptUpTo
  <2>5. /\ \A i \in DOMAIN t.parts : ~Compatible[<<r, t.parts[i]>>] => \E j \in DOMAIN k : k[j] = t.parts[i]
        /\ \A j \in DOMAIN k : \E i \in DOMAIN t.parts : ~Compatible[<<r, t.parts[i]>>] /\ k[j] = t.parts[i]
    BY <2>2, <2>3 DEF KeptUpTo
  <2>6. CASE Len(k) = 0
    <3>1. Strip(t, r) = Any
      BY <2>1, <2>6 DEF UnionOf
    <3>2. \A i \in DOMAIN t.parts : Compatible[<<r, t.parts[i]>>]
      BY <2>4, <2>5, <2>6
    <3> QED BY <1>2, <1>a, <1>t, <3>1, <3>2
  <2>7. CASE Len(k) # 0
    <3>1. 1 \in DOMAIN k
      BY <2>4, <2>7
    <3>2. ~\A i \in DOMAIN t.parts : Compatible[<<r, t.parts[i]>>]
      BY <2>5, <3>1
    <3>3. Strip(t, r) # Unknown /\ \A v \in Values : Has[<<v, Strip(t, r)>>] <=> \E j \in DOMAIN k : Has[<<v, k[j]>>]
      <4>1. CASE Len(k) = 1
        <5>1. Strip(t, r) = k[1] /\ DOMAIN k = {1}
          BY <2>1, <2>4, <4>1 DEF UnionOf
        <5>2. PICK i \in DOMAIN t.parts : k[1] = t.parts[i]
          BY <2>5, <3>1
        <5>3. t.parts[i] # Unknown
          BY <1>2, TypesAssumption
        <5> QED BY <5>1, <5>2, <5>3
      <4>2. CASE Len(k) # 1
        <5> DEFINE s == Strip(t, r)
        <5>1. s = Of("Union", k)
          BY <2>1, <2>7, <4>2 DEF UnionOf
        <5> HIDE DEF s
        <5>2. s.base = "Union" /\ s.parts = k
          BY <5>1 DEF Of, Record
        <5>3. s \in TypeRecords /\ s # Unknown
          BY <1>t, <5>2, PlainTypes DEF s
        <5>4. \A v \in Values : Has[<<v, s>>] <=> \E j \in DOMAIN k : Has[<<v, k[j]>>]
          BY <5>2, <5>3, HasByBase
        <5> QED BY <5>3, <5>4 DEF s
      <4> QED BY <4>1, <4>2
    <3>4. ASSUME NEW v \in Values
          PROVE  (\E j \in DOMAIN k : Has[<<v, k[j]>>])
                     <=> \E i \in DOMAIN t.parts : ~Compatible[<<r, t.parts[i]>>] /\ Has[<<v, t.parts[i]>>]
      BY <2>5
    <3> QED BY <1>2, <1>t, <3>2, <3>3, <3>4
  <2> QED BY <2>6, <2>7
<1> QED BY <1>1, <1>2

\* What a scalar type that is not Float is compatible with has only its values.
LEMMA ScalarsCompatible ==
    ASSUME NEW b \in Scalars, b # "Float", NEW t \in TypeRecords, t # Any, t.base # "Union",
           Compatible[<<Plain(b), t>>], NEW v \in Values, Has[<<v, t>>]
    PROVE  v.base = b
<1> DEFINE r == Plain(b)
<1>1. r \in TypeRecords /\ r.base = b
  BY ScalarTypes
<1>2. CompatibleBy(Compatible, r, t)
  BY <1>1, CompatibleIsCompatibleBy
<1> HIDE DEF r
<1>3. t.base \in {"Never", "Any"} \/ t.base = b
  BY <1>1, <1>2 DEF CompatibleBy, Scalars
<1>4. t.base # "Any"
  BY TypesAssumption
<1>5. CASE t.base = "Never"
  BY <1>5, HasByBase, ValuesAssumption DEF Elements
<1>6. CASE t.base = b
  BY <1>6, HasByBase DEF Elements, Scalars
<1> QED BY <1>3, <1>4, <1>5, <1>6

\* What is left of a type after a test for a scalar type has the values that are
\* not of it, and no others than the type had.
LEMMA StripIsSound ==
    ASSUME NEW t \in TypeRecords \ {Unknown}, NEW b \in Scalars, ~IsCoarse(t, Plain(b)),
           NEW v \in Values, Has[<<v, t>>], v.base # b
    PROVE  Has[<<v, Strip(t, Plain(b))>>] /\ Includes(t, Strip(t, Plain(b)))
<1> DEFINE r == Plain(b)
<1>r. r \in TypeRecords \ {Unknown} /\ r.base = b
  BY ScalarTypes
<1>1. CASE t.base # "Union"
  <2>1. Strip(t, r) = IF Compatible[<<r, t>>] THEN Any ELSE t
    BY <1>1, <1>r, StripLeaves
  <2>2. Strip(t, r) = t
    <3>1. SUFFICES ASSUME Compatible[<<r, t>>], t # Any PROVE FALSE
      BY <2>1
    <3>2. b # "Float"
      BY <1>1, <1>r, <3>1 DEF IsCoarse, Members
    <3> QED BY <1>1, <3>1, <3>2, ScalarsCompatible
  <2> QED BY <2>2 DEF Includes
<1>2. CASE t.base = "Union"
  <2>1. PICK i \in DOMAIN t.parts : Has[<<v, t.parts[i]>>]
    BY <1>2, HasByBase
  <2>2. t.parts[i] \in TypeRecords /\ t.parts[i] \in Members(t)
    BY <1>2, PartsAreTypes DEF Members, Sq!ToSet
  <2>3. ~Compatible[<<r, t.parts[i]>>]
    <3>1. SUFFICES ASSUME Compatible[<<r, t.parts[i]>>] PROVE FALSE
      OBVIOUS
    <3>2. b # "Float" /\ Equal[<<r, t.parts[i]>>]
      BY <1>2, <1>r, <2>2, <3>1 DEF IsCoarse
    <3>3. t.parts[i].base = b
      BY <1>r, <2>2, <3>2, EqualIsEqualBy DEF EqualBy
    <3>4. v.base = b
      BY <2>1, <2>2, <3>2, <3>3, HasByBase DEF Scalars, Elements
    <3> QED BY <3>4
  <2>4. \A w \in Values : Has[<<w, Strip(t, r)>>] <=>
            \E j \in DOMAIN t.parts : ~Compatible[<<r, t.parts[j]>>] /\ Has[<<w, t.parts[j]>>]
    BY <1>2, <1>r, <2>3, StripLeaves
  <2>5. Has[<<v, Strip(t, r)>>]
    BY <2>1, <2>3, <2>4
  <2>6. Includes(t, Strip(t, r))
    BY <1>2, <2>4, HasByBase DEF Includes
  <2> QED BY <2>5, <2>6
<1> QED BY <1>1, <1>2

LEMMA TestsAre ==
    ASSUME "text" \notin Idioms, NEW test \in Tests
    PROVE  /\ test.kind = "flag" => test = Flag
           /\ test.kind # "flag" => test.var \in Vars /\ test.op \in Equalities
           /\ test.kind \in {"flag", "nil", "typeof", "through"}
           /\ test.kind = "through" => "through" \in Idioms
           /\ test.kind = "typeof" => test.text \in Texts /\ (HasParts(test.text) => "parts" \in Idioms)
<1>1. CASE test = Flag
  <2>1. test.kind = "flag"
    BY <1>1 DEF Flag, Test
  <2> QED BY <1>1, <2>1
<1>3. CASE \E x \in Vars, op \in Equalities : test = Test("nil", x, None, op)
  <2>1. PICK x \in Vars, op \in Equalities : test = Test("nil", x, None, op)
    BY <1>3
  <2>2. test.kind = "nil" /\ test.var = x /\ test.op = op
    BY <2>1 DEF Test
  <2> QED BY <2>2
<1>4. CASE \E x \in Vars, op \in Equalities, text \in {s \in Texts : HasParts(s) => "parts" \in Idioms} :
               test = Test("typeof", x, text, op)
  <2>1. PICK x \in Vars, op \in Equalities, text \in {s \in Texts : HasParts(s) => "parts" \in Idioms} :
            test = Test("typeof", x, text, op)
    BY <1>4
  <2>2. test.kind = "typeof" /\ test.var = x /\ test.op = op /\ test.text = text
    BY <2>1 DEF Test
  <2> QED BY <2>1, <2>2
<1>5. CASE "through" \in Idioms /\ \E x \in Vars, op \in Equalities : test = Test("through", x, None, op)
  <2>1. PICK x \in Vars, op \in Equalities : test = Test("through", x, None, op)
    BY <1>5
  <2>2. test.kind = "through" /\ test.var = x /\ test.op = op
    BY <2>1 DEF Test
  <2> QED BY <1>5, <2>2
<1> DEFINE Through == {Test("through", x, None, op) :
                           x \in IF "through" \in Idioms THEN Vars ELSE {}, op \in Equalities}
           TypeOfs == {Test("typeof", x, text, op) :
                           x \in Vars, op \in Equalities,
                           text \in {s \in Texts : HasParts(s) => "parts" \in Idioms}}
           Nils == {Test("nil", x, None, op) : x \in Vars, op \in Equalities}
           TextTests == {Test("text", x, text, "==") :
                             x \in IF "text" \in Idioms THEN Vars ELSE {}, text \in {"Nil", "hello"}}
<1>6. test \in {Flag} \union Nils \union TypeOfs \union TextTests \union Through
  BY DEF Tests
<1>7. TextTests = {}
  OBVIOUS
<1>8. test \in Through => "through" \in Idioms /\ \E x \in Vars, op \in Equalities : test = Test("through", x, None, op)
  OBVIOUS
<1>9. test \in TypeOfs => \E x \in Vars, op \in Equalities, text \in {s \in Texts : HasParts(s) => "parts" \in Idioms} :
                              test = Test("typeof", x, text, op)
  OBVIOUS
<1>10. test \in Nils => \E x \in Vars, op \in Equalities : test = Test("nil", x, None, op)
  OBVIOUS
<1> HIDE DEF Through, TypeOfs, Nils, TextTests
<1> QED BY <1>1, <1>3, <1>4, <1>5, <1>6, <1>7, <1>8, <1>9, <1>10

\* What a test asks for is a type; with the simple tests, a scalar one.
LEMMA TestedTypes ==
    ASSUME "text" \notin Idioms, NEW test \in Tests, test.kind # "flag"
    PROVE  test.var \in Vars /\ TestedType(test) \in TypeRecords \ {Unknown}
<1>1. CASE test.kind = "typeof"
  <2>1. test.var \in Vars /\ test.text \in Texts
    BY <1>1, TestsAre
  <2>2. TestedType(test) = FromString(test.text)
    BY <1>1 DEF TestedType
  <2>3. FromString(test.text) \in TypeRecords
    BY <2>1, ProgramsAssumption
  <2>4. FromString(test.text).base # "NULL"
    BY PlainTypes DEF FromString, Of, Plain, Sized, Record
  <2> QED BY <2>1, <2>2, <2>3, <2>4, PlainTypes
<1>2. CASE test.kind # "typeof"
  <2>1. test.var \in Vars /\ test.kind \in {"nil", "through"}
    BY <1>2, TestsAre
  <2>2. TestedType(test) = Plain("Nil")
    BY <2>1 DEF TestedType
  <2> QED BY <2>1, <2>2, ScalarTypes DEF Scalars
<1> QED BY <1>1, <1>2

LEMMA SimpleTests ==
    ASSUME Strict, NEW test \in Tests, test.kind # "flag", vals[test.var] \in Values
    PROVE  /\ test.op \in Equalities
           /\ \E b \in Scalars : /\ TestedType(test) = Plain(b)
                                 /\ Holds(test) = {vals[test.var].base = b <=> test.op = "=="}
<1>i. "text" \notin Idioms /\ "through" \notin Idioms /\ "parts" \notin Idioms
  BY DEF Strict
<1> DEFINE v == vals[test.var]
<1>1. CASE test.kind = "typeof"
  <2>1. test.text \in Texts /\ test.op \in Equalities /\ FromString(test.text).base \in Scalars
    BY <1>1, <1>i, TestsAre DEF HasParts
  <2>2. test.text \in Scalars /\ FromString(test.text) = Plain(test.text)
    BY <2>1 DEF FromString, Of, Any, Plain, Sized, Record, Scalars
  <2>3. TypeName(v) = test.text <=> v.base = test.text
    <3>1. TypeName(v) = test.text => v.base = test.text
      BY <2>2, ValuesAssumption
    <3>2. v.base = test.text => TypeName(v) = test.text
      BY <2>2 DEF TypeName, Scalars
    <3> QED BY <3>1, <3>2
  <2>4. TestedType(test) = Plain(test.text)
    BY <1>1, <2>2 DEF TestedType
  <2>5. Holds(test) = {TypeName(v) = test.text <=> test.op = "=="}
    BY <1>1 DEF Holds
  <2>6. (TypeName(v) = test.text) = (v.base = test.text)
    BY <2>3
  <2> QED BY <2>1, <2>2, <2>4, <2>5, <2>6
<1>2. CASE test.kind # "typeof"
  <2>1. test.kind = "nil" /\ test.op \in Equalities
    BY <1>2, <1>i, TestsAre
  <2>2. TestedType(test) = Plain("Nil") /\ Holds(test) = {v.base = "Nil" <=> test.op = "=="}
    BY <2>1 DEF TestedType, Holds
  <2> QED BY <2>1, <2>2 DEF Scalars
<1> QED BY <1>1, <1>2

(***************************************************************************)
(* The ifs being compiled.                                                 *)
(***************************************************************************)

\* A narrowing, and a table of types, that the compiler can have.
IsNarrowing(n) ==
    n \in [var : Vars \ Outer, to : TypeRecords \ {Unknown}, rest : TypeRecords \ {Unknown}]
Known(t) == t \in [Vars -> TypeRecords] /\ \A x \in Vars \ Outer : t[x] # Unknown

LEMMA ConcludesNarrowing ==
    ASSUME "text" \notin Idioms, "outer" \notin Idioms, NEW test \in Tests, NEW t, Known(t), MayTest(test, t)
    PROVE  /\ test.kind = "flag" => Concludes(test, t) = Nothing
           /\ test.kind # "flag" => IsNarrowing(Concludes(test, t)) /\ Concludes(test, t).var = test.var
<1>1. CASE test.kind = "flag"
  BY <1>1 DEF Concludes
<1>2. CASE test.kind # "flag"
  <2> DEFINE r == TestedType(test)
             s == t[test.var]
  <2>1. test.var \in Vars \ Outer /\ r \in TypeRecords \ {Unknown}
    BY <1>2, TestedTypes DEF MayTest
  <2>2. s \in TypeRecords \ {Unknown}
    BY <2>1 DEF Known
  <2>3. Strip(s, r) \in TypeRecords \ {Unknown}
    BY <2>1, <2>2, StripLeaves
  <2>4. Stripped(s, r) = Strip(s, r)
    BY <2>1 DEF Stripped
  <2>5. Concludes(test, t) = IF test.op = "==" THEN Narrowing(test.var, r, Strip(s, r))
                                               ELSE Narrowing(test.var, Strip(s, r), r)
    BY <1>2, <2>4 DEF Concludes
  <2> HIDE DEF r, s
  <2> QED BY <1>2, <2>1, <2>3, <2>5 DEF IsNarrowing, Narrowing
<1> QED BY <1>1, <1>2

LEMMA NarrowedIsKnown ==
    ASSUME NEW t, Known(t), NEW n, n = Nothing \/ IsNarrowing(n)
    PROVE  /\ Known(Narrowed(t, n))
           /\ n = Nothing => Narrowed(t, n) = t
           /\ IsNarrowing(n) => Narrowed(t, n) = [t EXCEPT ![n.var] = n.to]
<1>1. CASE n = Nothing
  <2>1. n.var = None
    BY <1>1 DEF Nothing, Narrowing
  <2>2. Narrowed(t, n) = t
    BY <2>1 DEF Narrowed
  <2>3. ~IsNarrowing(n)
    BY <2>1, ProgramsAssumption DEF IsNarrowing
  <2> QED BY <1>1, <2>2, <2>3
<1>2. CASE IsNarrowing(n)
  <2>1. n.var \in Vars /\ n.var # None /\ n.to \in TypeRecords /\ n.to # Unknown
    BY <1>2, ProgramsAssumption DEF IsNarrowing
  <2>2. Narrowed(t, n) = [t EXCEPT ![n.var] = n.to]
    BY <2>1 DEF Narrowed
  <2>3. n # Nothing
    BY <2>1 DEF Nothing, Narrowing
  <2> QED BY <2>1, <2>2, <2>3 DEF Known
<1> QED BY <1>1, <1>2

LEMMA ConditionsAre ==
    ASSUME NEW c \in Conditions
    PROVE  /\ c.kind \in {"test", "and", "or", "not"} /\ c.a \in Tests
           /\ c.kind = "and" => c.b \in Tests
           /\ c.kind = "not" => "not" \in Idioms \/ c.a = Flag
<1>f. Flag \in Tests
  BY DEF Tests
<1>1. ASSUME NEW a \in Tests, c = Condition("test", a, Flag)
      PROVE  c.kind = "test" /\ c.a \in Tests
  BY <1>1 DEF Condition
<1>2. ASSUME NEW a \in Tests, NEW b \in Tests, c = Condition("and", a, b)
      PROVE  c.kind = "and" /\ c.a \in Tests /\ c.b \in Tests
  BY <1>2 DEF Condition
<1>3. ASSUME NEW a \in Tests, c = Condition("or", a, Flag)
      PROVE  c.kind = "or" /\ c.a \in Tests
  BY <1>3 DEF Condition
<1>4. ASSUME NEW a \in IF "not" \in Idioms THEN Tests ELSE {Flag}, c = Condition("not", a, Flag)
      PROVE  c.kind = "not" /\ c.a \in Tests /\ ("not" \in Idioms \/ c.a = Flag)
  <2>1. a \in Tests /\ ("not" \in Idioms \/ a = Flag)
    BY <1>f
  <2> QED BY <1>4, <2>1 DEF Condition
<1> QED BY <1>1, <1>2, <1>3, <1>4 DEF Conditions

LEMMA ConcludedNarrowing ==
    ASSUME "text" \notin Idioms, "outer" \notin Idioms, Known(types), NEW c \in Conditions, MayDecide(c)
    PROVE  Concluded(c) = Nothing \/ IsNarrowing(Concluded(c))
<1> DEFINE n == Concludes(c.a, types)
<1>1. c.a \in Tests /\ MayTest(c.a, types)
  BY ConditionsAre DEF MayDecide
<1>2. n = Nothing \/ IsNarrowing(n)
  BY <1>1, ConcludesNarrowing
<1> HIDE DEF n
<1>3. CASE c.kind = "and"
  <2> DEFINE t == OnTheRight(c.a)
             m == Concludes(c.b, t)
  <2>1. c.b \in Tests /\ MayTest(c.b, t)
    BY <1>3, ConditionsAre DEF MayDecide
  <2>2. t = Narrowed(types, n)
    BY DEF OnTheRight, n
  <2>3. Known(t)
    BY <1>2, <2>2, NarrowedIsKnown
  <2> HIDE DEF t
  <2>4. m = Nothing \/ IsNarrowing(m)
    BY <2>1, <2>3, ConcludesNarrowing
  <2>5. Concluded(c) = LastOf(n, m)
    BY <1>3 DEF Concluded, n, t
  <2> HIDE DEF m
  <2> QED BY <1>2, <2>4, <2>5 DEF LastOf
<1>4. CASE c.kind = "or"
  BY <1>4 DEF Concluded
<1>5. CASE c.kind \in {"test", "not"}
  <2>1. Concluded(c) = n
    BY <1>5 DEF Concluded, n
  <2> QED BY <1>2, <2>1
<1> QED BY <1>3, <1>4, <1>5, ConditionsAre

LEMMA DecidedIsBoolean == ASSUME NEW c \in Conditions PROVE Decided(c) \subseteq BOOLEAN
<1>h. \A test : Holds(test) \subseteq BOOLEAN
  BY DEF Holds
<1>1. CASE c.kind = "and"
  BY <1>1, <1>h DEF Decided
<1>2. CASE c.kind = "or"
  BY <1>2, <1>h DEF Decided
<1>3. CASE c.kind = "not"
  <2>1. Decided(c) = {~p : p \in Holds(c.a)}
    BY <1>3 DEF Decided
  <2>2. \A p \in BOOLEAN : (~p) \in BOOLEAN
    OBVIOUS
  <2> QED BY <2>1, <2>2, <1>h
<1>4. CASE c.kind = "test"
  BY <1>4, <1>h DEF Decided
<1> QED BY <1>1, <1>2, <1>3, <1>4, ConditionsAre

Branches == [narrowing : [var : Vars \union {None}, to : TypeRecords, rest : TypeRecords],
             original : TypeRecords, holds : BOOLEAN, hasElse : BOOLEAN, simple : BOOLEAN]

\* The types outside of ifs.
AtRest(d) == [x \in Vars |-> IF x \in Outer THEN Unknown ELSE d[x]]

Subject == nest[1].narrowing.var

\* The ifs being compiled are about one variable, the only one whose type is not
\* the declared one; the outermost has kept that.
FlowInv ==
    /\ FlowTypeOK
    /\ nest \in Seq(Branches)
    /\ \A x \in Vars : declared[x] # Unknown
    /\ Known(types)
    /\ \A x \in Vars : nest = <<>> \/ x # Subject => types[x] = AtRest(declared)[x]
    /\ \A i \in DOMAIN nest :
           /\ nest[i].narrowing.var = Subject
           /\ nest[i].narrowing = Nothing \/ (IsNarrowing(nest[i].narrowing) /\ nest[i].original # Unknown)
    /\ nest # <<>> /\ Subject # None => nest[1].original = declared[Subject]

LEMMA NothingHasNone == Nothing.var = None /\ Nothing.rest = Unknown /\ ~IsNarrowing(Nothing)
BY ProgramsAssumption DEF Nothing, Narrowing, IsNarrowing

LEMMA AnnotationsAreTypes ==
    \A x \in Vars : Annotations[x] \subseteq TypeRecords \ {Unknown}
BY ProgramsAssumption

LEMMA FlowInvInitially == FlowInit => FlowInv
<1> SUFFICES ASSUME FlowInit PROVE FlowInv
  OBVIOUS
<1>1. declared \in [Vars -> AllAnnotations] /\ \A x \in Vars : declared[x] \in Annotations[x]
  BY DEF FlowInit
<1>2. declared \in [Vars -> TypeRecords] /\ \A x \in Vars : declared[x] # Unknown
  BY <1>1, AnnotationsAreTypes
<1>3. types = AtRest(declared)
  BY DEF FlowInit, AtRest
<1>4. Known(types)
  BY <1>2, <1>3, PlainTypes DEF Known, AtRest
<1>5. nest = <<>> /\ nest \in Seq(Branches) /\ DOMAIN nest = {}
  <2>1. nest = <<>>
    BY DEF FlowInit
  <2> QED BY <2>1
<1>6. FlowTypeOK
  <2>1. vals \in [Vars -> Values] /\ machine = "running"
    BY DEF FlowInit
  <2>2. types \in [Vars -> TypeRecords]
    BY <1>4 DEF Known
  <2> QED BY <1>2, <1>5, <2>1, <2>2 DEF FlowTypeOK
<1> QED BY <1>2, <1>3, <1>4, <1>5, <1>6 DEF FlowInv

LEMMA StoreIsTyped ==
    ASSUME FlowTypeOK, NEW x \in Vars, NEW r, Store(x, r)
    PROVE  vals' \in [Vars -> Values] /\ machine' \in {"running", "misread"}
BY DEF FlowTypeOK, Store

\* The branch that is being compiled.
LEMMA TopBranch ==
    ASSUME FlowInv, nest # <<>>
    PROVE  /\ Len(nest) \in Nat \ {0} /\ DOMAIN nest = 1 .. Len(nest) /\ Sq!Last(nest) = nest[Len(nest)]
           /\ Len(nest) \in DOMAIN nest /\ 1 \in DOMAIN nest
           /\ nest[Len(nest)] \in Branches
<1>1. nest \in Seq(Branches)
  BY DEF FlowInv
<1>2. Len(nest) \in Nat \ {0} /\ DOMAIN nest = 1 .. Len(nest) /\ nest[Len(nest)] \in Branches
  BY <1>1, StackTop
<1> QED BY <1>2 DEF Sq!Last

LEMMA RestoredTypes ==
    ASSUME FlowInv, nest # <<>>, NEW t
    PROVE  LET b == nest[Len(nest)]
           IN  /\ b.narrowing = Nothing \/ IsNarrowing(b.narrowing)
               /\ b.narrowing = Nothing => Subject = None /\ Replaced(t, b) = t
                                           /\ Restored(t, b.narrowing.var, b.original) = t
               /\ IsNarrowing(b.narrowing) =>
                      /\ b.narrowing.var = Subject /\ Subject \in Vars \ Outer
                      /\ b.original \in TypeRecords \ {Unknown}
                      /\ Replaced(t, b) = [t EXCEPT ![Subject] = b.narrowing.rest]
                      /\ Restored(t, Subject, b.original) = [t EXCEPT ![Subject] = b.original]
<1> DEFINE b == nest[Len(nest)]
           n == b.narrowing
<1>1. b \in Branches /\ n.var = Subject /\ (n = Nothing \/ (IsNarrowing(n) /\ b.original # Unknown))
  BY TopBranch DEF FlowInv
<1> HIDE DEF b
<1>2. CASE n = Nothing
  <2>1. n.var = None /\ n.rest = Unknown /\ ~IsNarrowing(n)
    BY <1>2, NothingHasNone
  <2> QED BY <1>1, <1>2, <2>1 DEF Replaced, Restored, b
<1>3. CASE IsNarrowing(n)
  <2>1. n.var \in Vars \ Outer /\ n.var # None /\ n.rest # Unknown /\ n # Nothing
    BY <1>3, NothingHasNone, ProgramsAssumption DEF IsNarrowing
  <2>2. b.original \in TypeRecords \ {Unknown}
    BY <1>1, <2>1 DEF Branches
  <2>3. Replaced(t, b) = [t EXCEPT ![n.var] = n.rest]
    BY <2>1 DEF Replaced
  <2>4. Restored(t, n.var, b.original) = [t EXCEPT ![n.var] = b.original]
    BY <2>1, <2>2 DEF Restored
  <2> QED BY <1>1, <1>3, <2>1, <2>2, <2>3, <2>4 DEF b
<1> QED BY <1>1, <1>2, <1>3 DEF b

LEMMA IfOpens ==
    ASSUME FlowInv, NEW n, n = Nothing \/ IsNarrowing(n), NEW simple \in BOOLEAN,
           NEW outcomes \in SUBSET BOOLEAN, OpenIf(n, simple, outcomes)
    PROVE  /\ types' = Narrowed(types, n)
           /\ nest # <<>> => n.var = Subject /\ IsNarrowing(n)
           /\ \E b \in Branches : /\ nest' = Append(nest, b) /\ b.narrowing = n
                                  /\ b.holds \in outcomes /\ ~b.hasElse
                                  /\ b.simple = (simple \/ n = Nothing)
                                  /\ IsNarrowing(n) => b.original = types[n.var]
<1>1. types' = Narrowed(types, n)
  <2>1. CASE n = Nothing
    <3>1. None \notin Globals
      BY ProgramsAssumption DEF Vars
    <3> QED BY <2>1, <3>1, NothingHasNone DEF OpenIf
  <2>2. CASE IsNarrowing(n)
    BY <2>2 DEF OpenIf, IsNarrowing, FlowInv, Known
  <2> QED BY <2>1, <2>2
<1>2. nest # <<>> => n.var = Subject /\ IsNarrowing(n)
  BY NothingHasNone DEF OpenIf, Subject
<1> DEFINE original == IF n.var = None \/ n.to = Unknown THEN Unknown ELSE types[n.var]
<1>3. PICK holds \in outcomes : nest' = Append(nest, Opened(n, original, holds, simple \/ n = Nothing))
  BY DEF OpenIf
<1> DEFINE b == Opened(n, original, holds, simple \/ n = Nothing)
<1>4. n \in [var : Vars \union {None}, to : TypeRecords, rest : TypeRecords]
  <2>1. CASE n = Nothing
    BY <2>1, PlainTypes DEF Nothing, Narrowing
  <2>2. CASE IsNarrowing(n)
    BY <2>2 DEF IsNarrowing
  <2> QED BY <2>1, <2>2
<1>5. original \in TypeRecords
  BY <1>4, PlainTypes DEF FlowInv, Known
<1> HIDE DEF original
<1>6. /\ b.narrowing = n /\ b.original = original /\ b.holds = holds
      /\ b.hasElse = FALSE /\ b.simple = (simple \/ n = Nothing)
  BY DEF Opened
<1>7. b \in Branches
  BY <1>4, <1>5 DEF Opened, Branches
<1>8. IsNarrowing(n) => original = types[n.var]
  BY ProgramsAssumption DEF original, IsNarrowing
<1> HIDE DEF b
<1> QED BY <1>1, <1>2, <1>3, <1>6, <1>7, <1>8 DEF b

LEMMA BeginIfOpens ==
    ASSUME "text" \notin Idioms, "outer" \notin Idioms, FlowInv, NEW c \in Conditions, MayDecide(c),
           OpenIf(Concluded(c), c.kind # "and", IF Live THEN Decided(c) ELSE {FALSE})
    PROVE  LET n == Concluded(c)
           IN  /\ n = Nothing \/ IsNarrowing(n)
               /\ types' = Narrowed(types, n)
               /\ nest # <<>> => n.var = Subject /\ IsNarrowing(n)
               /\ \E b \in Branches : /\ nest' = Append(nest, b) /\ b.narrowing = n
                                      /\ b.holds \in (IF Live THEN Decided(c) ELSE {FALSE}) /\ ~b.hasElse
                                      /\ b.simple = (c.kind # "and" \/ n = Nothing)
                                      /\ IsNarrowing(n) => b.original = types[n.var]
<1> DEFINE n == Concluded(c)
           simple == c.kind # "and"
           outcomes == IF Live THEN Decided(c) ELSE {FALSE}
<1>1. Known(types)
  BY DEF FlowInv
<1>2. n = Nothing \/ IsNarrowing(n)
  BY <1>1, ConcludedNarrowing
<1>3. simple \in BOOLEAN
  OBVIOUS
<1>4. outcomes \in SUBSET BOOLEAN
  BY DecidedIsBoolean
<1>5. OpenIf(n, simple, outcomes)
  OBVIOUS
<1> HIDE DEF n, outcomes, simple
<1>6. /\ types' = Narrowed(types, n)
      /\ nest # <<>> => n.var = Subject /\ IsNarrowing(n)
      /\ \E b \in Branches : /\ nest' = Append(nest, b) /\ b.narrowing = n
                             /\ b.holds \in outcomes /\ ~b.hasElse
                             /\ b.simple = (simple \/ n = Nothing)
                             /\ IsNarrowing(n) => b.original = types[n.var]
  BY <1>2, <1>3, <1>4, <1>5, IfOpens
<1> QED BY <1>2, <1>6 DEF n, outcomes, simple

LEMMA FlowInvBeginIf ==
    ASSUME "text" \notin Idioms, "outer" \notin Idioms, FlowInv, BeginIf
    PROVE  FlowInv'
<1>1. PICK c \in Conditions : /\ MayDecide(c)
                              /\ OpenIf(Concluded(c), c.kind # "and", IF Live THEN Decided(c) ELSE {FALSE})
  BY DEF BeginIf
<1> DEFINE n == Concluded(c)
<1>2. /\ n = Nothing \/ IsNarrowing(n)
      /\ types' = Narrowed(types, n)
      /\ nest # <<>> => n.var = Subject /\ IsNarrowing(n)
  BY <1>1, BeginIfOpens
<1>3. PICK b \in Branches : /\ nest' = Append(nest, b) /\ b.narrowing = n
                            /\ IsNarrowing(n) => b.original = types[n.var]
  BY <1>1, BeginIfOpens
<1> HIDE DEF n
<1>u. UNCHANGED <<declared, vals, machine>>
  BY DEF BeginIf
<1>4. nest \in Seq(Branches) /\ Len(nest) \in Nat /\ DOMAIN nest = 1 .. Len(nest)
  BY LenProperties DEF FlowInv
<1>5. /\ nest' \in Seq(Branches) /\ Len(nest') = Len(nest) + 1 /\ nest' # <<>>
      /\ nest'[Len(nest) + 1] = b /\ DOMAIN nest' = 1 .. Len(nest) + 1
      /\ \A i \in 1 .. Len(nest) : nest'[i] = nest[i]
  <2>1. /\ nest' \in Seq(Branches) /\ Len(nest') = Len(nest) + 1 /\ nest' # <<>>
        /\ nest'[Len(nest) + 1] = b
        /\ \A i \in 1 .. Len(nest) : nest'[i] = nest[i]
    BY <1>3, <1>4, StackPush
  <2>2. DOMAIN nest' = 1 .. Len(nest')
    BY <2>1, LenProperties
  <2> QED BY <2>1, <2>2
<1>6. Known(types') /\ (n = Nothing => types' = types)
      /\ (IsNarrowing(n) => types' = [types EXCEPT ![n.var] = n.to])
  BY <1>2, NarrowedIsKnown DEF FlowInv
<1>7. Subject' = n.var
  <2>1. CASE nest = <<>>
    <3>1. Len(nest) + 1 = 1
      BY <2>1
    <3>2. nest'[1] = b
      BY <1>5, <3>1
    <3> QED BY <1>3, <3>2 DEF Subject
  <2>2. CASE nest # <<>>
    <3>1. 1 \in 1 .. Len(nest)
      BY <2>2, TopBranch
    <3> QED BY <1>2, <1>5, <2>2, <3>1 DEF Subject
  <2> QED BY <2>1, <2>2
<1>8. \A x \in Vars : x # n.var => types'[x] = AtRest(declared)[x]
  <2> SUFFICES ASSUME NEW x \in Vars, x # n.var PROVE types'[x] = AtRest(declared)[x]
    OBVIOUS
  <2>1. types'[x] = types[x]
    BY <1>2, <1>6 DEF FlowInv, Known
  <2> QED BY <1>2, <2>1 DEF FlowInv
<1>9. \A i \in DOMAIN nest' :
          /\ nest'[i].narrowing.var = n.var
          /\ nest'[i].narrowing = Nothing \/ (IsNarrowing(nest'[i].narrowing) /\ nest'[i].original # Unknown)
  <2> SUFFICES ASSUME NEW i \in DOMAIN nest'
               PROVE  /\ nest'[i].narrowing.var = n.var
                      /\ nest'[i].narrowing = Nothing
                         \/ (IsNarrowing(nest'[i].narrowing) /\ nest'[i].original # Unknown)
    OBVIOUS
  <2>1. CASE i = Len(nest) + 1
    <3>1. IsNarrowing(n) => types[n.var] # Unknown
      BY DEF FlowInv, Known, IsNarrowing
    <3>2. nest'[i] = b
      BY <1>5, <2>1
    <3>3. b.narrowing = n /\ (IsNarrowing(n) => b.original = types[n.var])
      BY <1>3
    <3> QED BY <1>2, <3>1, <3>2, <3>3
  <2>2. CASE i # Len(nest) + 1
    <3>1. i \in DOMAIN nest /\ nest'[i] = nest[i] /\ nest # <<>>
      BY <1>4, <1>5, <2>2
    <3> QED BY <1>2, <3>1 DEF FlowInv
  <2> QED BY <2>1, <2>2
<1>10. n.var # None => nest'[1].original = declared[n.var]
  <2> SUFFICES ASSUME n.var # None PROVE nest'[1].original = declared[n.var]
    OBVIOUS
  <2>1. IsNarrowing(n)
    BY <1>2, NothingHasNone
  <2>2. CASE nest = <<>>
    <3>0. Len(nest) + 1 = 1
      BY <2>2
    <3>1. nest'[1] = b
      BY <1>5, <3>0
    <3>2. n.var \in Vars \ Outer
      BY <2>1 DEF IsNarrowing
    <3>3. types[n.var] = declared[n.var]
      BY <2>2, <3>2 DEF FlowInv, AtRest
    <3>4. b.original = types[n.var]
      BY <1>3, <2>1
    <3> QED BY <3>1, <3>3, <3>4
  <2>3. CASE nest # <<>>
    <3>1. 1 \in 1 .. Len(nest)
      BY <2>3, TopBranch
    <3> QED BY <1>2, <1>5, <2>3, <3>1 DEF FlowInv
  <2> QED BY <2>2, <2>3
<1>11. FlowTypeOK'
  <2>1. \A i \in DOMAIN nest' : nest'[i] \in Branches
    BY <1>5, ElementOfSeq
  <2> QED BY <1>u, <1>6, <2>1 DEF FlowTypeOK, FlowInv, Known, Branches
<1> QED BY <1>u, <1>5, <1>6, <1>7, <1>8, <1>9, <1>10, <1>11 DEF FlowInv

LEMMA FlowInvElse == ASSUME FlowInv, Else PROVE FlowInv'
<1> DEFINE m == Len(nest)
           b == nest[m]
           n == b.narrowing
<1>u. UNCHANGED <<declared, vals, machine>> /\ nest # <<>>
  BY DEF Else
<1>1. m \in Nat \ {0} /\ DOMAIN nest = 1 .. m /\ Sq!Last(nest) = b /\ b \in Branches /\ nest \in Seq(Branches)
  BY <1>u, TopBranch DEF FlowInv
<1>2. types' = Replaced(types, b) /\ nest' = [nest EXCEPT ![m].hasElse = TRUE]
  BY <1>1 DEF Else
<1>3. /\ n = Nothing \/ IsNarrowing(n)
      /\ n = Nothing => types' = types
      /\ IsNarrowing(n) => Subject \in Vars \ Outer /\ types' = [types EXCEPT ![Subject] = n.rest]
  BY <1>u, <1>2, RestoredTypes
<1>4. n = Nothing => Subject = None
  BY <1>u, RestoredTypes
<1> HIDE DEF m
<1>5. /\ nest' \in Seq(Branches) /\ DOMAIN nest' = DOMAIN nest /\ nest' # <<>>
      /\ \A i \in DOMAIN nest : /\ nest'[i].narrowing = nest[i].narrowing /\ nest'[i].original = nest[i].original
  <2>1. \A i \in DOMAIN nest : nest[i] \in Branches
    BY <1>1, ElementOfSeq
  <2>2. nest' \in [1 .. m -> Branches]
    BY <1>1, <1>2, <2>1 DEF Branches
  <2>3. nest' \in Seq(Branches)
    BY <1>1, <2>2, FunSeq
  <2>4. \A i \in DOMAIN nest : nest'[i].narrowing = nest[i].narrowing /\ nest'[i].original = nest[i].original
    BY <1>1, <1>2, <2>1 DEF Branches
  <2>5. 1 \in DOMAIN nest' /\ nest' # <<>>
    <3>1. 1 \in 1 .. m
      BY <1>1
    <3>2. 1 \in DOMAIN nest'
      BY <2>2, <3>1
    <3> QED BY <3>2
  <2> QED BY <1>1, <2>2, <2>3, <2>4, <2>5
<1>6. Known(types') /\ \A x \in Vars : x # Subject => types'[x] = types[x]
  <2>1. CASE n = Nothing
    BY <1>3, <2>1 DEF FlowInv
  <2>2. CASE IsNarrowing(n)
    BY <1>3, <2>2 DEF FlowInv, Known, IsNarrowing
  <2> QED BY <1>3, <2>1, <2>2
<1>7. Subject' = Subject /\ 1 \in DOMAIN nest
  BY <1>1, <1>5 DEF Subject
<1>8. FlowTypeOK'
  BY <1>u, <1>5, <1>6 DEF FlowTypeOK, FlowInv, Known
<1>9. \A i \in DOMAIN nest' :
          /\ nest'[i].narrowing.var = Subject'
          /\ nest'[i].narrowing = Nothing \/ (IsNarrowing(nest'[i].narrowing) /\ nest'[i].original # Unknown)
  BY <1>5, <1>7 DEF FlowInv
<1>10. \A x \in Vars : x # Subject' => types'[x] = AtRest(declared')[x]
  BY <1>u, <1>6, <1>7 DEF FlowInv
<1>11. Subject' # None => nest'[1].original = declared'[Subject']
  BY <1>u, <1>5, <1>7 DEF FlowInv
<1>12. \A x \in Vars : declared'[x] # Unknown
  BY <1>u DEF FlowInv
<1> QED BY <1>5, <1>6, <1>8, <1>9, <1>10, <1>11, <1>12 DEF FlowInv

\* What is left after an if.
LEMMA EndIfCloses ==
    ASSUME FlowInv, EndIf
    PROVE  LET m == Len(nest)
               b == nest[m]
           IN  /\ nest # <<>> /\ m \in Nat \ {0}
               /\ nest' \in Seq(Branches) /\ Len(nest') = m - 1 /\ DOMAIN nest' = 1 .. m - 1
               /\ \A i \in 1 .. m - 1 : nest'[i] = nest[i]
               /\ b.narrowing = Nothing => Subject = None /\ types' = types
               /\ b.narrowing # Nothing =>
                      /\ Subject \in Vars \ Outer /\ b.original \in TypeRecords \ {Unknown}
                      /\ types' = [types EXCEPT ![Subject] = b.original]
<1> DEFINE m == Len(nest)
           b == nest[m]
           n == b.narrowing
           before == IF b.hasElse THEN types ELSE Replaced(types, b)
<1>u. nest # <<>> /\ nest' = Sq!Front(nest)
  BY DEF EndIf
<1>1. m \in Nat \ {0} /\ Sq!Last(nest) = b /\ nest \in Seq(Branches)
  BY <1>u, TopBranch DEF FlowInv
<1>2. types' = Restored(before, n.var, b.original)
  BY <1>1 DEF EndIf
<1>3. nest' = SubSeq(nest, 1, Len(nest) - 1)
  BY <1>u DEF Sq!Front
<1>4. /\ nest' \in Seq(Branches) /\ Len(nest') = Len(nest) - 1
      /\ \A i \in 1 .. Len(nest) - 1 : nest'[i] = nest[i]
  BY <1>u, <1>1, <1>3, StackPop
<1>5. DOMAIN nest' = 1 .. m - 1
  BY <1>4, LenProperties
<1>6. n = Nothing \/ IsNarrowing(n)
  BY <1>u, RestoredTypes
<1>7. CASE n = Nothing
  <2>1. Subject = None /\ before = types /\ Restored(before, n.var, b.original) = before
    BY <1>u, <1>7, RestoredTypes
  <2> QED BY <1>u, <1>1, <1>2, <1>4, <1>5, <1>7, <2>1
<1>8. CASE IsNarrowing(n)
  <2>1. /\ n.var = Subject /\ Subject \in Vars \ Outer /\ b.original \in TypeRecords \ {Unknown}
        /\ Replaced(types, b) = [types EXCEPT ![Subject] = n.rest]
        /\ Restored(before, Subject, b.original) = [before EXCEPT ![Subject] = b.original]
    BY <1>u, <1>8, RestoredTypes
  <2>2. [before EXCEPT ![Subject] = b.original] = [types EXCEPT ![Subject] = b.original]
    <3>1. types \in [Vars -> TypeRecords]
      BY DEF FlowInv, Known
    <3> HIDE DEF b, n
    <3> QED BY <2>1, <3>1
  <2> HIDE DEF before, n, b
  <2>3. types' = [types EXCEPT ![Subject] = b.original]
    BY <1>2, <2>1, <2>2
  <2>4. n # Nothing
    BY <1>8, NothingHasNone
  <2> QED BY <1>u, <1>1, <1>4, <1>5, <2>1, <2>3, <2>4 DEF n, b
<1> QED BY <1>6, <1>7, <1>8

LEMMA FlowInvEndIf == ASSUME FlowInv, EndIf PROVE FlowInv'
<1> DEFINE m == Len(nest)
           b == nest[m]
<1>u. UNCHANGED <<declared, vals, machine>>
  BY DEF EndIf
<1>1. /\ nest # <<>> /\ m \in Nat \ {0}
      /\ nest' \in Seq(Branches) /\ Len(nest') = m - 1 /\ DOMAIN nest' = 1 .. m - 1
      /\ \A i \in 1 .. m - 1 : nest'[i] = nest[i]
  BY EndIfCloses
<1>2. /\ b.narrowing = Nothing => Subject = None /\ types' = types
      /\ b.narrowing # Nothing =>
             /\ Subject \in Vars \ Outer /\ b.original \in TypeRecords \ {Unknown}
             /\ types' = [types EXCEPT ![Subject] = b.original]
  BY EndIfCloses
<1>3. DOMAIN nest = 1 .. m
  BY <1>1, TopBranch
<1>4. nest' # <<>> => 1 \in DOMAIN nest' /\ Subject' = Subject
  <2> SUFFICES ASSUME nest' # <<>> PROVE 1 \in DOMAIN nest' /\ Subject' = Subject
    OBVIOUS
  <2>1. Len(nest') \in Nat \ {0}
    BY <1>1, StackTop
  <2>2. 1 \in 1 .. m - 1
    BY <1>1, <2>1
  <2> QED BY <1>1, <2>2 DEF Subject
<1>5. nest' = <<>> => m = 1
  BY <1>1
<1> HIDE DEF b, m
<1>6. Known(types') /\ \A x \in Vars : x # Subject => types'[x] = types[x]
  BY <1>2 DEF FlowInv, Known
<1>7. \A x \in Vars : nest' = <<>> \/ x # Subject' => types'[x] = AtRest(declared)[x]
  <2> SUFFICES ASSUME NEW x \in Vars, nest' = <<>> \/ x # Subject' PROVE types'[x] = AtRest(declared)[x]
    OBVIOUS
  <2>1. CASE x # Subject
    BY <1>6, <2>1 DEF FlowInv
  <2>2. CASE x = Subject
    <3>1. m = 1 /\ x # None
      BY <1>4, <1>5, <2>2, ProgramsAssumption
    <3>2. b.narrowing # Nothing /\ b.original = declared[x]
      BY <1>1, <1>2, <2>2, <3>1 DEF FlowInv, b
    <3>3. types'[x] = declared[x] /\ x \notin Outer
      BY <1>2, <2>2, <3>2 DEF FlowInv, Known
    <3> QED BY <3>3 DEF AtRest
  <2> QED BY <2>1, <2>2
<1>8. \A i \in DOMAIN nest' :
          /\ nest'[i].narrowing.var = Subject'
          /\ nest'[i].narrowing = Nothing \/ (IsNarrowing(nest'[i].narrowing) /\ nest'[i].original # Unknown)
  <2> SUFFICES ASSUME NEW i \in DOMAIN nest'
               PROVE  /\ nest'[i].narrowing.var = Subject'
                      /\ nest'[i].narrowing = Nothing
                         \/ (IsNarrowing(nest'[i].narrowing) /\ nest'[i].original # Unknown)
    OBVIOUS
  <2>1. i \in 1 .. m /\ nest'[i] = nest[i] /\ nest' # <<>>
    BY <1>1
  <2> QED BY <1>3, <1>4, <2>1 DEF FlowInv
<1>9. nest' # <<>> /\ Subject' # None => nest'[1].original = declared[Subject']
  BY <1>1, <1>4 DEF FlowInv
<1>10. FlowTypeOK'
  <2>1. \A i \in DOMAIN nest' : nest'[i] \in Branches
    BY <1>1, ElementOfSeq
  <2> QED BY <1>u, <1>6, <2>1 DEF FlowTypeOK, FlowInv, Known, Branches
<1> QED BY <1>u, <1>1, <1>6, <1>7, <1>8, <1>9, <1>10 DEF FlowInv

LEMMA FlowInvStore ==
    ASSUME FlowInv, UNCHANGED <<declared, types, nest>>,
           vals' \in [Vars -> Values], machine' \in {"running", "misread"}
    PROVE  FlowInv'
BY DEF FlowInv, FlowTypeOK, Subject

LEMMA FlowInvDeclare == ASSUME FlowInv, NEW x \in Vars, Declare(x) PROVE FlowInv'
<1>1. PICK type \in Annotations[x] : /\ declared' = [declared EXCEPT ![x] = type]
                                     /\ types' = [types EXCEPT ![x] = type]
  BY DEF Declare, DeclareAs
<1>2. x \notin Outer /\ nest = <<>> /\ nest' = nest
  BY DEF Declare
<1>3. vals' \in [Vars -> Values] /\ machine' \in {"running", "misread"}
  BY StoreIsTyped DEF Declare, FlowInv
<1>4. type \in TypeRecords \ {Unknown}
  BY <1>1, AnnotationsAreTypes
<1>5. declared' \in [Vars -> TypeRecords] /\ \A y \in Vars : declared'[y] # Unknown
  BY <1>1, <1>4 DEF FlowInv, FlowTypeOK
<1>6. Known(types')
  BY <1>1, <1>4 DEF FlowInv, Known
<1>7. \A y \in Vars : types'[y] = AtRest(declared')[y]
  BY <1>1, <1>2, <1>4 DEF FlowInv, FlowTypeOK, Known, AtRest
<1>8. nest' \in Seq(Branches) /\ nest' = <<>> /\ DOMAIN nest' = {}
  BY <1>2
<1>9. FlowTypeOK'
  BY <1>3, <1>5, <1>6, <1>8 DEF FlowTypeOK, Known
<1> QED BY <1>5, <1>6, <1>7, <1>8, <1>9 DEF FlowInv

LEMMA FlowInvNext ==
    ASSUME "text" \notin Idioms, "outer" \notin Idioms, FlowInv, [FlowNext]_flowVars
    PROVE  FlowInv'
<1>1. ASSUME NEW x \in Vars, Declare(x) PROVE FlowInv'
  BY <1>1, FlowInvDeclare
<1>2. ASSUME NEW x \in Vars, Assign(x) PROVE FlowInv'
  BY <1>2, FlowInvStore, StoreIsTyped DEF Assign, FlowInv
<1>3. ASSUME NEW x \in Vars, Compound(x) PROVE FlowInv'
  BY <1>3, FlowInvStore, StoreIsTyped DEF Compound, FlowInv
<1>4. ASSUME NEW x \in Vars, Call(x) PROVE FlowInv'
  <2>1. vals' \in [Vars -> Values] /\ machine' \in {"running", "misread"}
    BY <1>4, StoreIsTyped DEF Call, FlowInv
  <2> QED BY <1>4, <2>1, FlowInvStore DEF Call
<1>5. CASE BeginIf
  BY <1>5, FlowInvBeginIf
<1>6. CASE Else
  BY <1>6, FlowInvElse
<1>7. CASE EndIf
  BY <1>7, FlowInvEndIf
<1>8. CASE UNCHANGED flowVars
  BY <1>8 DEF flowVars, FlowInv, FlowTypeOK, Subject
<1> QED BY <1>1, <1>2, <1>3, <1>4, <1>5, <1>6, <1>7, <1>8 DEF FlowNext

\* Narrowings end with the branch they were made for.
THEOREM NarrowingsEnd ==
    ASSUME "text" \notin Idioms, "outer" \notin Idioms
    PROVE  FlowSpec => []FlowIsSound
<1>1. FlowInv => FlowIsSound
  <2> SUFFICES ASSUME FlowInv PROVE FlowIsSound
    OBVIOUS
  <2>1. nest = <<>> => types = AtRest(declared)
    BY DEF FlowInv, Known, AtRest
  <2> QED BY <2>1 DEF FlowInv, FlowIsSound, NarrowingIsUndone, AtRest
<1>2. FlowInv /\ [FlowNext]_flowVars => FlowInv'
  BY FlowInvNext
<1> QED BY <1>1, <1>2, FlowInvInitially, PTL DEF FlowSpec

(***************************************************************************)
(* What a condition says of the value of a variable.                       *)
(***************************************************************************)

\* What the compiler concludes from a test is so, and no more than was known.
Sound(h, n, t) ==
    LET v == vals[n.var]
    IN  /\ h => Has[<<v, n.to>>] /\ Includes(t[n.var], n.to)
        /\ ~h => Has[<<v, n.rest>>] /\ Includes(t[n.var], n.rest)

LEMMA TestsAreSound ==
    ASSUME Strict, NEW test \in Tests, test.kind # "flag", NEW t, Known(t), MayTest(test, t),
           vals \in [Vars -> Values], Has[<<vals[test.var], t[test.var]>>], NEW h \in Holds(test)
    PROVE  Sound(h, Concludes(test, t), t)
<1> DEFINE x == test.var
           v == vals[x]
           s == t[x]
<1>i. "text" \notin Idioms /\ "outer" \notin Idioms /\ "coarse" \notin Idioms
  BY DEF Strict
<1>1. x \in Vars \ Outer /\ v \in Values
  BY <1>i, TestedTypes DEF MayTest
<1>2. s \in TypeRecords \ {Unknown} /\ Has[<<v, s>>]
  BY <1>1 DEF Known
<1>3. PICK b \in Scalars : /\ TestedType(test) = Plain(b)
                           /\ Holds(test) = {v.base = b <=> test.op = "=="}
  BY <1>1, SimpleTests
<1> DEFINE r == Plain(b)
<1>4. r \in TypeRecords \ {Unknown} /\ (Has[<<v, r>>] <=> v.base = b \/ (b = "Float" /\ v.base = "Int"))
  BY <1>1, ScalarTypes
<1>5. ~IsCoarse(s, r)
  BY <1>i, <1>3 DEF MayTest
<1>6. v.base = b => Has[<<v, r>>] /\ Includes(s, r)
  BY <1>1, <1>2, <1>4, ScalarsAreAlike
<1>7. v.base # b => Has[<<v, Strip(s, r)>>] /\ Includes(s, Strip(s, r))
  BY <1>1, <1>2, <1>5, StripIsSound
<1>8. Stripped(s, r) = Strip(s, r)
  BY <1>4 DEF Stripped
<1>9. Concludes(test, t) = IF test.op = "==" THEN Narrowing(x, r, Strip(s, r)) ELSE Narrowing(x, Strip(s, r), r)
  BY <1>3, <1>8 DEF Concludes
<1>10. h <=> (v.base = b <=> test.op = "==")
  BY <1>3
<1> DEFINE u == Strip(s, r)
<1> HIDE DEF r, u
<1>11. CASE test.op = "=="
  <2> DEFINE n == Narrowing(x, r, u)
  <2>1. Concludes(test, t) = n
    BY <1>9, <1>11 DEF u
  <2>2. n.var = x /\ n.to = r /\ n.rest = u
    BY DEF Narrowing
  <2> HIDE DEF n
  <2> QED BY <1>6, <1>7, <1>10, <1>11, <2>1, <2>2 DEF Sound, u
<1>12. CASE test.op # "=="
  <2> DEFINE n == Narrowing(x, u, r)
  <2>1. Concludes(test, t) = n
    BY <1>9, <1>12 DEF u
  <2>2. n.var = x /\ n.to = u /\ n.rest = r
    BY DEF Narrowing
  <2> HIDE DEF n
  <2> QED BY <1>6, <1>7, <1>10, <1>12, <2>1, <2>2 DEF Sound, u
<1> QED BY <1>11, <1>12

\* The same of a condition; of `and`, if it holds.
LEMMA ConditionsAreSound ==
    ASSUME Strict, NEW c \in Conditions, Known(types), MayDecide(c), vals \in [Vars -> Values],
           IsNarrowing(Concluded(c)), Has[<<vals[Concluded(c).var], types[Concluded(c).var]>>],
           NEW h \in Decided(c), h \/ c.kind # "and"
    PROVE  Sound(h, Concluded(c), types)
<1>i. "text" \notin Idioms /\ "outer" \notin Idioms /\ "not" \notin Idioms
  BY DEF Strict
<1> DEFINE l == Concludes(c.a, types)
<1>1. c.a \in Tests /\ MayTest(c.a, types)
  BY ConditionsAre DEF MayDecide
<1>2. IF c.a.kind = "flag" THEN l = Nothing ELSE IsNarrowing(l) /\ l.var = c.a.var
  BY <1>i, <1>1, ConcludesNarrowing
<1>3. ASSUME NEW p \in Holds(c.a), l # Nothing, Has[<<vals[l.var], types[l.var]>>]
      PROVE  Sound(p, l, types)
  <2>1. c.a.kind # "flag" /\ l.var = c.a.var
    BY <1>2, <1>3
  <2> QED BY <1>1, <1>3, <2>1, TestsAreSound
<1> HIDE DEF l
<1>4. CASE c.kind = "test"
  <2>1. Concluded(c) = l /\ Decided(c) = Holds(c.a)
    BY <1>4 DEF Concluded, Decided, l
  <2> QED BY <1>3, <2>1, NothingHasNone
<1>5. CASE c.kind = "not"
  <2>1. c.a.kind = "flag"
    BY <1>5, <1>i, ConditionsAre DEF Flag, Test
  <2>2. Concluded(c) = Nothing
    BY <1>2, <1>5, <2>1 DEF Concluded, l
  <2> QED BY <2>2, NothingHasNone
<1>6. CASE c.kind = "or"
  BY <1>6, NothingHasNone DEF Concluded
<1>7. CASE c.kind = "and"
  <2> DEFINE t == OnTheRight(c.a)
             m == Concludes(c.b, t)
  <2>1. c.b \in Tests /\ MayTest(c.b, t)
    BY <1>7, ConditionsAre DEF MayDecide
  <2>2. t = Narrowed(types, l)
    BY DEF OnTheRight, l
  <2>3. /\ Known(t) /\ (l = Nothing => t = types)
        /\ IsNarrowing(l) => t = [types EXCEPT ![l.var] = l.to]
    BY <1>2, <2>2, NarrowedIsKnown
  <2>4. Concluded(c) = LastOf(l, m)
    BY <1>7 DEF Concluded, l
  <2> HIDE DEF t
  <2>5. IF c.b.kind = "flag" THEN m = Nothing ELSE IsNarrowing(m) /\ m.var = c.b.var
    BY <1>i, <2>1, <2>3, ConcludesNarrowing
  <2>6. ASSUME NEW q \in Holds(c.b), m # Nothing, Has[<<vals[m.var], t[m.var]>>]
        PROVE  Sound(q, m, t)
    <3>1. c.b.kind # "flag" /\ m.var = c.b.var
      BY <2>5, <2>6
    <3> QED BY <2>1, <2>3, <2>6, <3>1, TestsAreSound
  <2> HIDE DEF m
  <2>7. h = TRUE /\ TRUE \in Holds(c.a) /\ TRUE \in Holds(c.b)
    <3>1. Decided(c) = {p /\ q : p \in Holds(c.a), q \in Holds(c.b)}
      BY <1>7 DEF Decided
    <3>2. PICK p \in Holds(c.a), q \in Holds(c.b) : h = (p /\ q)
      BY <3>1
    <3>3. p \in BOOLEAN /\ q \in BOOLEAN
      BY DEF Holds
    <3> QED BY <1>7, <3>2, <3>3
  <2>8. CASE m = Nothing
    <3>1. Concluded(c) = l
      BY <2>4, <2>8, NothingHasNone DEF LastOf
    <3>2. l # Nothing
      BY <3>1, NothingHasNone
    <3>3. Sound(TRUE, l, types)
      BY <1>3, <2>7, <3>1, <3>2
    <3> QED BY <2>7, <3>1, <3>3
  <2>9. CASE m # Nothing
    <3>1. IsNarrowing(m) /\ m.var # None /\ m.var \in Vars
      BY <2>5, <2>9, ProgramsAssumption DEF IsNarrowing
    <3>2. Concluded(c) = m
      BY <2>4, <3>1 DEF LastOf
    <3>3. Has[<<vals[m.var], t[m.var]>>] /\ Includes(types[m.var], t[m.var])
      <4>1. CASE t[m.var] = types[m.var]
        BY <3>2, <4>1 DEF Includes
      <4>2. CASE t[m.var] # types[m.var]
        <5>1. l # Nothing
          BY <2>3, <4>2
        <5>2. IsNarrowing(l)
          BY <1>2, <5>1
        <5>3. l.var = m.var /\ t[m.var] = l.to
          BY <2>3, <3>1, <4>2, <5>2 DEF Known
        <5>4. Sound(TRUE, l, types)
          BY <1>3, <2>7, <3>2, <5>1, <5>3
        <5> QED BY <5>3, <5>4 DEF Sound
      <4> QED BY <4>1, <4>2
    <3>4. Sound(TRUE, m, t)
      BY <2>6, <2>7, <2>9, <3>3
    <3>5. Sound(TRUE, m, types)
      BY <3>3, <3>4 DEF Sound, Includes
    <3> QED BY <2>7, <3>2, <3>5
  <2> QED BY <2>8, <2>9
<1> QED BY <1>4, <1>5, <1>6, <1>7, ConditionsAre

(***************************************************************************)
(* The values beside the types.                                            *)
(***************************************************************************)

\* whether what is in the branch of the first j ifs runs, and the type the
\* variable has there
LiveTo(j) == \A i \in 1 .. j : Taken(nest[i])
LevelType(j) == IF j = Len(nest) THEN types[Subject] ELSE nest[j + 1].original

\* The types an if has kept and concluded, one against the other and against the
\* value.
LevelFits(j) ==
    LET b == nest[j]
    IN  /\ LiveTo(j - 1) => Has[<<vals[Subject], b.original>>]
        /\ LiveTo(j) => \A i \in 1 .. j : Includes(nest[i].original, LevelType(j))
        /\ LiveTo(j - 1) /\ ~b.hasElse /\ ~b.holds /\ b.simple =>
               Has[<<vals[Subject], b.narrowing.rest>>] /\ Includes(b.original, b.narrowing.rest)

\* A value that is stored fits the type at the innermost level; by the inclusions
\* it fits all that an end of an if or an else can bring back.
TypedInv ==
    /\ FlowInv
    /\ machine = "running"
    /\ \A x \in Vars : Has[<<vals[x], declared[x]>>]
    /\ nest # <<>> /\ Subject # None =>
           /\ Live => Has[<<vals[Subject], types[Subject]>>]
           /\ \A j \in 1 .. Len(nest) : LevelFits(j)

LEMMA SubjectIsInner ==
    ASSUME FlowInv, nest # <<>>, Subject # None
    PROVE  Subject \in Vars \ Outer /\ nest[1].original = declared[Subject]
           /\ \A j \in 1 .. Len(nest) : IsNarrowing(nest[j].narrowing) /\ nest[j].narrowing.var = Subject
<1>1. 1 \in DOMAIN nest /\ DOMAIN nest = 1 .. Len(nest)
  BY TopBranch
<1>2. \A j \in DOMAIN nest : nest[j].narrowing.var = Subject
                             /\ (nest[j].narrowing = Nothing \/ IsNarrowing(nest[j].narrowing))
  BY DEF FlowInv
<1>3. \A j \in DOMAIN nest : IsNarrowing(nest[j].narrowing)
  BY <1>2, NothingHasNone
<1>4. Subject \in Vars \ Outer
  BY <1>1, <1>2, <1>3 DEF IsNarrowing
<1> QED BY <1>1, <1>2, <1>3, <1>4 DEF FlowInv

LEMMA TypesAreKnown ==
    ASSUME FlowInv, NEW x \in Vars
    PROVE  /\ TypeOf(x) \in TypeRecords \ {Unknown}
           /\ nest = <<>> \/ x # Subject => TypeOf(x) = declared[x]
           /\ x \notin Outer => TypeOf(x) = types[x]
<1>1. declared[x] \in TypeRecords \ {Unknown} /\ types[x] \in TypeRecords
  BY DEF FlowInv, FlowTypeOK
<1>2. CASE x \notin Outer
  <2>1. TypeOf(x) = types[x] /\ types[x] # Unknown
    BY <1>2 DEF TypeOf, FlowInv, Known
  <2>2. nest = <<>> \/ x # Subject => types[x] = declared[x]
    BY <1>2 DEF FlowInv, AtRest
  <2> QED BY <1>1, <1>2, <2>1, <2>2
<1>3. CASE x \in Outer
  <2>1. nest = <<>> \/ x # Subject
    <3>1. SUFFICES ASSUME nest # <<>>, x = Subject PROVE FALSE
      OBVIOUS
    <3> QED BY <1>3, <3>1, SubjectIsInner, ProgramsAssumption
  <2>2. types[x] = Unknown
    BY <1>3, <2>1 DEF FlowInv, AtRest
  <2> QED BY <1>1, <1>3, <2>2 DEF TypeOf
<1> QED BY <1>2, <1>3

\* Where the code runs, every variable has the type it is taken to have.
LEMMA TypedIsWell ==
    ASSUME TypedInv
    PROVE  Live => WellTyped
<1> SUFFICES ASSUME Live, NEW x \in Vars
             PROVE  vals[x] \in Values /\ TypeOf(x) \in TypeRecords \ {Unknown} /\ Has[<<vals[x], TypeOf(x)>>]
  BY DEF WellTyped
<1>i. FlowInv
  BY DEF TypedInv
<1>1. vals[x] \in Values
  BY <1>i DEF FlowInv, FlowTypeOK
<1>2. TypeOf(x) \in TypeRecords \ {Unknown}
  BY <1>i, TypesAreKnown
<1>3. Has[<<vals[x], TypeOf(x)>>]
  <2>1. CASE nest = <<>> \/ x # Subject
    BY <1>i, <2>1, TypesAreKnown DEF TypedInv
  <2>2. CASE nest # <<>> /\ x = Subject
    <3>1. x # None
      BY ProgramsAssumption
    <3>2. TypeOf(x) = types[x]
      BY <1>i, <2>2, <3>1, SubjectIsInner, TypesAreKnown
    <3> QED BY <2>2, <3>1, <3>2 DEF TypedInv
  <2> QED BY <2>1, <2>2
<1> QED BY <1>1, <1>2, <1>3

LEMMA LiveIsLiveTo ==
    ASSUME FlowInv, nest # <<>>
    PROVE  /\ Live <=> LiveTo(Len(nest))
           /\ Live => \A j \in 1 .. Len(nest) : LiveTo(j) /\ LiveTo(j - 1) /\ Taken(nest[j])
<1>1. Len(nest) \in Nat \ {0} /\ DOMAIN nest = 1 .. Len(nest)
  BY TopBranch
<1> QED BY <1>1 DEF Live, LiveTo

\* Storing a value of the type the variable is taken to have.
LEMMA StoreFits ==
    ASSUME TypedInv, Running, NEW x \in Vars, NEW r \in Values, Has[<<r, TypeOf(x)>>],
           vals' = [vals EXCEPT ![x] = r], UNCHANGED <<declared, types, nest, machine>>
    PROVE  TypedInv'
<1>i. FlowInv /\ Live
  BY DEF TypedInv, Running
<1>v. vals \in [Vars -> Values] /\ vals' \in [Vars -> Values] /\ machine' \in {"running", "misread"}
  BY <1>i DEF FlowInv, FlowTypeOK
<1>1. FlowInv'
  BY <1>i, <1>v, FlowInvStore
<1>2. \A y \in Vars : vals'[y] = IF y = x THEN r ELSE vals[y]
  BY <1>v
<1>3. CASE nest = <<>> \/ x # Subject
  <2>1. Has[<<r, declared[x]>>]
    BY <1>i, <1>3, TypesAreKnown
  <2>2. \A y \in Vars : Has[<<vals'[y], declared'[y]>>]
    BY <1>2, <2>1 DEF TypedInv
  <2>3. nest # <<>> /\ Subject # None => vals'[Subject] = vals[Subject] /\ Subject' = Subject
    BY <1>i, <1>2, <1>3, SubjectIsInner DEF Subject
  <2>4. nest # <<>> /\ Subject # None => /\ Has[<<vals[Subject], types[Subject]>>]
                                         /\ \A j \in 1 .. Len(nest) : LevelFits(j)
    BY <1>i DEF TypedInv
  <2>5. nest' # <<>> /\ Subject' # None => /\ Live' => Has[<<vals'[Subject'], types'[Subject']>>]
                                           /\ \A j \in 1 .. Len(nest') : LevelFits(j)'
    <3> SUFFICES ASSUME nest' # <<>>, Subject' # None
                 PROVE  /\ Live' => Has[<<vals'[Subject'], types'[Subject']>>]
                        /\ \A j \in 1 .. Len(nest') : LevelFits(j)'
      OBVIOUS
    <3>1. Subject' = Subject /\ vals'[Subject] = vals[Subject]
      BY <2>3 DEF Subject
    <3>2. \A j \in 1 .. Len(nest) : LevelFits(j) => LevelFits(j)'
      BY <3>1 DEF LevelFits, LiveTo, LevelType
    <3>4. nest # <<>> /\ Subject # None
      BY <3>1
    <3>5. Has[<<vals'[Subject'], types'[Subject']>>] <=> Has[<<vals[Subject], types[Subject]>>]
      BY <3>1
    <3>6. Len(nest') = Len(nest)
      OBVIOUS
    <3> QED BY <2>4, <3>2, <3>4, <3>5, <3>6
  <2> QED BY <1>1, <2>2, <2>5 DEF TypedInv
<1>4. CASE nest # <<>> /\ x = Subject
  <2> DEFINE m == Len(nest)
  <2>0. x # None /\ x \notin Outer /\ nest[1].original = declared[x]
    BY <1>i, <1>4, ProgramsAssumption, SubjectIsInner
  <2>1. m \in Nat \ {0} /\ LiveTo(m) /\ \A j \in 1 .. m : Taken(nest[j])
    BY <1>i, <1>4, TopBranch, LiveIsLiveTo
  <2>2. TypeOf(x) = types[x] /\ Has[<<r, types[x]>>]
    BY <1>i, <2>0, TypesAreKnown
  <2>3. \A i \in 1 .. m : Has[<<r, nest[i].original>>]
    <3>1. LevelFits(m)
      BY <1>4, <2>0, <2>1 DEF TypedInv
    <3>2. \A i \in 1 .. m : Includes(nest[i].original, types[x])
      BY <1>4, <2>1, <3>1 DEF LevelFits, LevelType
    <3> QED BY <2>2, <3>2 DEF Includes
  <2>4. \A y \in Vars : Has[<<vals'[y], declared'[y]>>]
    BY <1>2, <2>0, <2>1, <2>3 DEF TypedInv
  <2>5. Subject' = Subject /\ vals'[Subject] = r
    BY <1>2, <1>4 DEF Subject
  <2>6. ASSUME NEW j \in 1 .. m PROVE LevelFits(j)'
    <3>1. LevelFits(j)
      BY <1>4, <2>0 DEF TypedInv
    <3>2. ~(~nest[j].hasElse /\ ~nest[j].holds)
      <4>1. nest[j] \in Branches
        BY <1>i, ElementOfSeq DEF FlowInv
      <4> QED BY <2>1, <4>1 DEF Taken, Branches
    <3>3. Has[<<vals'[Subject'], nest'[j].original>>]
      BY <2>3, <2>5
    <3>4. (LiveTo(j) => \A i \in 1 .. j : Includes(nest[i].original, LevelType(j)))'
      BY <2>5, <3>1 DEF LevelFits, LiveTo, LevelType
    <3> QED BY <3>2, <3>3, <3>4 DEF LevelFits
  <2> QED BY <1>1, <1>4, <2>2, <2>4, <2>5, <2>6 DEF TypedInv
<1> QED BY <1>3, <1>4

LEMMA IncludesChain ==
    ASSUME NEW a, NEW b, NEW c, Includes(a, b), Includes(b, c)
    PROVE  Includes(a, c)
BY DEF Includes

LEMMA TypedBeginIf == ASSUME Strict, TypedInv, BeginIf PROVE TypedInv'
<1>i. FlowInv /\ "text" \notin Idioms /\ "outer" \notin Idioms
  BY DEF TypedInv, Strict
<1>1. FlowInv'
  BY <1>i, FlowInvBeginIf
<1>2. PICK c \in Conditions :
          /\ MayDecide(c)
          /\ OpenIf(Concluded(c), c.kind # "and", IF Live THEN Decided(c) ELSE {FALSE})
  BY DEF BeginIf
<1>u. UNCHANGED <<declared, vals, machine>>
  BY DEF BeginIf
<1> DEFINE n == Concluded(c)
<1>m. PICK m : m = Len(nest)
  OBVIOUS
<1>3. /\ n = Nothing \/ IsNarrowing(n)
      /\ types' = Narrowed(types, n)
      /\ nest # <<>> => n.var = Subject /\ IsNarrowing(n)
  BY <1>i, <1>2, BeginIfOpens
<1>4. PICK b \in Branches :
          /\ nest' = Append(nest, b) /\ b.narrowing = n
          /\ b.holds \in (IF Live THEN Decided(c) ELSE {FALSE}) /\ ~b.hasElse
          /\ b.simple = (c.kind # "and" \/ n = Nothing)
          /\ IsNarrowing(n) => b.original = types[n.var]
  BY <1>i, <1>2, BeginIfOpens
<1>5. nest \in Seq(Branches) /\ m \in Nat /\ DOMAIN nest = 1 .. m
  BY <1>m, <1>i, LenProperties DEF FlowInv
<1>6. /\ nest' \in Seq(Branches) /\ Len(nest') = m + 1 /\ nest' # <<>>
      /\ nest'[m + 1] = b
      /\ \A j \in 1 .. m : nest'[j] = nest[j]
  BY <1>m, <1>4, <1>5, StackPush
<1>7. DOMAIN nest' = 1 .. m + 1
  BY <1>6, LenProperties
<1>8. Subject' = n.var
  <2>1. CASE nest = <<>>
    <3>1. m + 1 = 1
      BY <1>m, <2>1
    <3>2. nest'[1] = b
      BY <1>6, <3>1
    <3> QED BY <1>4, <3>2 DEF Subject
  <2>2. CASE nest # <<>>
    <3>1. 1 \in 1 .. m
      BY <1>m, <1>i, <2>2, TopBranch
    <3> QED BY <1>3, <1>6, <2>2, <3>1 DEF Subject
  <2> QED BY <2>1, <2>2
<1>d. \A x \in Vars : Has[<<vals'[x], declared'[x]>>]
  BY <1>u DEF TypedInv
<1>s. IsNarrowing(n) /\ Live =>
          /\ Has[<<vals[n.var], types[n.var]>>]
          /\ b.holds \/ b.simple => Sound(b.holds, n, types)
  <2> SUFFICES ASSUME IsNarrowing(n), Live
               PROVE  /\ Has[<<vals[n.var], types[n.var]>>]
                      /\ b.holds \/ b.simple => Sound(b.holds, n, types)
    OBVIOUS
  <2>1. n.var \in Vars \ Outer /\ n # Nothing
    BY NothingHasNone DEF IsNarrowing
  <2>2. Has[<<vals[n.var], types[n.var]>>]
    BY <1>i, <2>1, TypedIsWell, TypesAreKnown DEF WellTyped
  <2>3. b.holds \in Decided(c)
    BY <1>4
  <2>4. b.simple => c.kind # "and"
    BY <1>4, <2>1
  <2>5. Known(types) /\ vals \in [Vars -> Values]
    BY <1>i DEF FlowInv, FlowTypeOK
  <2>6. b.holds \/ b.simple => b.holds \/ c.kind # "and"
    BY <2>4
  <2> QED BY <1>2, <2>2, <2>3, <2>5, <2>6, ConditionsAreSound
<1> HIDE DEF n
<1>9. CASE n = Nothing
  <2>1. Subject' = None
    BY <1>8, <1>9, NothingHasNone
  <2> QED BY <1>1, <1>d, <1>u, <2>1 DEF TypedInv
<1>10. CASE IsNarrowing(n)
  <2> DEFINE x == n.var
  <2>1. x \in Vars /\ types' = [types EXCEPT ![x] = n.to] /\ types \in [Vars -> TypeRecords] /\ x # None
    BY <1>3, <1>i, <1>10, NarrowedIsKnown, ProgramsAssumption DEF IsNarrowing, FlowInv, Known
  <2>2. types'[x] = n.to /\ b.original = types[x] /\ b.narrowing = n
    BY <1>4, <1>10, <2>1
  <2>3. \A j \in 1 .. m : LiveTo(j)' <=> LiveTo(j)
    BY <1>5, <1>6 DEF LiveTo
  <2>b. b.holds \in BOOLEAN /\ b.hasElse \in BOOLEAN
    BY DEF Branches
  <2>4. Live <=> LiveTo(m)
    BY <1>5 DEF Live, LiveTo
  <2>5. LiveTo(m)' <=> Live
    BY <1>5, <1>6, <2>4 DEF LiveTo
  <2>6. /\ LiveTo(m + 1)' <=> Live /\ b.holds
        /\ Live' <=> Live /\ b.holds
    <3>1. Taken(nest'[m + 1]) <=> b.holds
      BY <1>4, <1>6, <2>b DEF Taken
    <3>2. 1 .. m + 1 = (1 .. m) \union {m + 1}
      BY <1>5
    <3>3. LiveTo(m + 1)' <=> LiveTo(m)' /\ Taken(nest'[m + 1])
      BY <3>2 DEF LiveTo
    <3>4. Live' <=> LiveTo(m + 1)'
      BY <1>7 DEF Live, LiveTo
    <3> QED BY <2>5, <3>1, <3>3, <3>4
  <2>7. Live /\ b.holds => Has[<<vals[x], n.to>>] /\ Includes(types[x], n.to)
    BY <1>s, <1>10 DEF Sound
  <2>8. Live /\ ~b.holds /\ b.simple => Has[<<vals[x], n.rest>>] /\ Includes(types[x], n.rest)
    BY <1>s, <1>10 DEF Sound
  <2>9. Live' => Has[<<vals'[Subject'], types'[Subject']>>]
    BY <1>u, <1>8, <2>2, <2>6, <2>7
  <2> HIDE DEF x
  <2>o. nest # <<>> => Subject = x /\ \A j \in 1 .. m : LevelFits(j)
    BY <1>m, <1>3, <2>1, <1>10 DEF TypedInv, x
  <2>10. ASSUME NEW j \in 1 .. m + 1 PROVE LevelFits(j)'
    <3>1. CASE j \in 1 .. m
      <4>1. nest # <<>> /\ Subject = x /\ LevelFits(j) /\ j \in Nat /\ j - 1 \in 0 .. m
        BY <1>m, <1>5, <2>o, <3>1
      <4>2. nest'[j] = nest[j] /\ vals'[Subject'] = vals[Subject] /\ \A i \in 1 .. j : nest'[i] = nest[i]
        BY <1>u, <1>5, <1>6, <1>8, <3>1, <4>1 DEF x
      <4>3. (LiveTo(j)' <=> LiveTo(j)) /\ (LiveTo(j - 1)' <=> LiveTo(j - 1))
        BY <1>5, <4>2 DEF LiveTo
      <4>4. LevelType(j)' = LevelType(j)
        <5>1. j # m + 1 /\ LevelType(j)' = nest'[j + 1].original
          BY <1>5, <1>6, <3>1 DEF LevelType
        <5>2. CASE j = m
          BY <1>m, <1>6, <2>2, <4>1, <5>1, <5>2 DEF LevelType
        <5>3. CASE j # m
          <6>1. j + 1 \in 1 .. m
            BY <1>5, <3>1, <5>3
          <6> QED BY <1>m, <1>6, <5>1, <5>3, <6>1 DEF LevelType
        <5> QED BY <5>2, <5>3
      <4> QED BY <4>1, <4>2, <4>3, <4>4 DEF LevelFits
    <3>2. CASE j = m + 1
      <4>1. nest'[j] = b /\ vals'[Subject'] = vals[x] /\ LevelType(j)' = n.to /\ j - 1 = m
        BY <1>u, <1>5, <1>6, <1>8, <2>2, <3>2 DEF LevelType, x
      <4>2. LiveTo(j - 1)' => Has[<<vals[x], b.original>>]
        BY <1>s, <1>10, <2>2, <2>5, <4>1 DEF x
      <4>3. LiveTo(j)' => \A i \in 1 .. j : Includes(nest'[i].original, n.to)
        <5> SUFFICES ASSUME LiveTo(j)', NEW i \in 1 .. j PROVE Includes(nest'[i].original, n.to)
          OBVIOUS
        <5>1. Live /\ Includes(types[x], n.to)
          BY <2>6, <2>7, <3>2
        <5>2. CASE i = m + 1
          BY <1>6, <2>2, <5>1, <5>2
        <5>3. CASE i \in 1 .. m
          <6>1. nest # <<>> /\ Subject = x /\ LevelFits(m) /\ m \in 1 .. m /\ nest'[i] = nest[i]
            BY <1>m, <1>5, <1>6, <2>o, <5>3
          <6>2. LevelType(m) = types[x]
            BY <1>m, <6>1 DEF LevelType
          <6>3. Includes(nest[i].original, types[x])
            BY <2>4, <5>1, <5>3, <6>1, <6>2 DEF LevelFits
          <6> QED BY <5>1, <6>1, <6>3, IncludesChain
        <5> QED BY <1>5, <3>2, <5>2, <5>3
      <4>4. LiveTo(j - 1)' /\ ~b.holds /\ b.simple => Has[<<vals[x], n.rest>>] /\ Includes(b.original, n.rest)
        BY <2>2, <2>5, <2>8, <4>1
      <4> QED BY <2>2, <4>1, <4>2, <4>3, <4>4 DEF LevelFits
    <3> QED BY <1>5, <3>1, <3>2
  <2> QED BY <1>1, <1>6, <1>d, <1>u, <2>9, <2>10 DEF TypedInv
<1> QED BY <1>3, <1>9, <1>10

LEMMA TypedElse == ASSUME Strict, TypedInv, Else PROVE TypedInv'
<1>i. FlowInv
  BY DEF TypedInv
<1>1. FlowInv'
  BY <1>i, FlowInvElse
<1>u. UNCHANGED <<declared, vals, machine>> /\ nest # <<>>
  BY DEF Else
<1>m. PICK m : m = Len(nest)
  OBVIOUS
<1> DEFINE b == nest[m]
           n == b.narrowing
<1>2. m \in Nat \ {0} /\ DOMAIN nest = 1 .. m /\ Sq!Last(nest) = b /\ b \in Branches /\ nest \in Seq(Branches)
  BY <1>m, <1>i, <1>u, TopBranch DEF FlowInv
<1>3. /\ types' = Replaced(types, b) /\ nest' = [nest EXCEPT ![m].hasElse = TRUE]
      /\ ~b.hasElse /\ b.simple
  BY <1>m, <1>2 DEF Else, Strict
<1>4. IsNarrowing(n) => types' = [types EXCEPT ![Subject] = n.rest]
  BY <1>m, <1>i, <1>u, <1>3, RestoredTypes
<1>5. /\ nest' \in [1 .. m -> Branches] /\ Len(nest') = m
      /\ nest'[m].hasElse = TRUE
      /\ \A j \in 1 .. m : /\ nest'[j].narrowing = nest[j].narrowing /\ nest'[j].original = nest[j].original
                           /\ nest'[j].holds = nest[j].holds /\ nest'[j].simple = nest[j].simple
                           /\ j # m => nest'[j] = nest[j]
  <2>1. \A j \in 1 .. m : nest[j] \in Branches
    BY <1>2, ElementOfSeq
  <2>2. nest' \in [1 .. m -> Branches]
    BY <1>2, <1>3, <2>1 DEF Branches
  <2>3. nest' \in Seq(Branches) /\ Len(nest') = m
    BY <1>2, <2>2, FunSeq
  <2>4. \A j \in 1 .. m : /\ nest'[j].narrowing = nest[j].narrowing /\ nest'[j].original = nest[j].original
                          /\ nest'[j].holds = nest[j].holds /\ nest'[j].simple = nest[j].simple
                          /\ j # m => nest'[j] = nest[j]
    BY <1>2, <1>3, <2>1 DEF Branches
  <2>5. nest'[m].hasElse = TRUE
    BY <1>2, <1>3, <2>1 DEF Branches
  <2> QED BY <2>2, <2>3, <2>4, <2>5
<1>6. Subject' = Subject
  BY <1>2, <1>5 DEF Subject
<1>d. \A x \in Vars : Has[<<vals'[x], declared'[x]>>]
  BY <1>u DEF TypedInv
<1>7. CASE Subject = None
  BY <1>1, <1>6, <1>7, <1>d, <1>u DEF TypedInv
<1>8. CASE Subject # None
  <2>1. Subject \in Vars /\ IsNarrowing(n)
    BY <1>m, <1>i, <1>u, <1>2, <1>8, SubjectIsInner
  <2>2. types'[Subject] = n.rest
    BY <1>4, <1>i, <2>1 DEF FlowInv, Known
  <2>f. \A j \in 1 .. m : LevelFits(j)
    BY <1>m, <1>u, <1>8 DEF TypedInv
  <2>3. \A j \in 1 .. m : /\ LiveTo(j - 1)' <=> LiveTo(j - 1)
                          /\ j # m => (LiveTo(j)' <=> LiveTo(j))
    BY <1>2, <1>5 DEF LiveTo
  <2>4. LiveTo(m)' <=> LiveTo(m - 1) /\ ~b.holds
    <3>1. 1 .. m = (1 .. m - 1) \union {m}
      BY <1>2
    <3>2. LiveTo(m)' <=> LiveTo(m - 1)' /\ Taken(nest'[m])
      BY <3>1 DEF LiveTo
    <3>3. Taken(nest'[m]) <=> ~b.holds
      <4>1. nest'[m].holds = b.holds /\ b.holds \in BOOLEAN
        BY SMTT(30), <1>2, <1>5 DEF Branches
      <4> QED BY <1>5, <4>1 DEF Taken
    <3> QED BY <1>2, <2>3, <3>2, <3>3
  <2>5. LiveTo(m - 1) /\ ~b.holds => Has[<<vals[Subject], n.rest>>] /\ Includes(b.original, n.rest)
    <3>1. LevelFits(m)
      BY <1>2, <2>f
    <3> QED BY <1>3, <3>1 DEF LevelFits
  <2>6. Live' => LiveTo(m)'
    BY <1>5 DEF Live, LiveTo
  <2>7. Live' => Has[<<vals'[Subject'], types'[Subject']>>]
    BY <1>u, <1>6, <2>2, <2>4, <2>5, <2>6
  <2>8. ASSUME NEW j \in 1 .. m PROVE LevelFits(j)'
    <3>1. LevelFits(j) /\ vals'[Subject'] = vals[Subject] /\ j \in Nat \ {0}
      BY <1>u, <1>2, <1>6, <2>f
    <3>2. CASE j # m
      <4>1. nest'[j] = nest[j] /\ (LiveTo(j - 1)' <=> LiveTo(j - 1)) /\ (LiveTo(j)' <=> LiveTo(j))
        BY <1>5, <2>3, <3>2
      <4>2. LevelType(j)' = LevelType(j)
        <5>1. j + 1 \in 1 .. m
          BY <1>2, <3>2
        <5> QED BY <1>m, <1>5, <3>2, <5>1 DEF LevelType
      <4>3. \A i \in 1 .. j : nest'[i].original = nest[i].original
        BY <1>2, <1>5
      <4> QED BY <3>1, <4>1, <4>2, <4>3 DEF LevelFits
    <3>3. CASE j = m
      <4>1. LevelType(j)' = n.rest
        BY <1>5, <1>6, <2>2, <3>3 DEF LevelType
      <4>2. LiveTo(j - 1)' => Has[<<vals[Subject], nest'[j].original>>]
        BY <1>5, <2>3, <3>1, <3>3 DEF LevelFits
      <4>3. LiveTo(j)' => \A i \in 1 .. j : Includes(nest'[i].original, n.rest)
        <5> SUFFICES ASSUME LiveTo(j)', NEW i \in 1 .. j PROVE Includes(nest'[i].original, n.rest)
          OBVIOUS
        <5>1. LiveTo(m - 1) /\ Includes(b.original, n.rest)
          BY <2>4, <2>5, <3>3
        <5>2. CASE i = m
          BY <1>5, <5>1, <5>2
        <5>3. CASE i # m
          <6>1. m - 1 \in 1 .. m /\ i \in 1 .. m - 1 /\ m - 1 # m /\ m - 1 + 1 = m
            BY <1>2, <3>3, <5>3
          <6>2. LevelFits(m - 1) /\ LevelType(m - 1) = b.original
            BY <1>m, <2>f, <6>1 DEF LevelType
          <6>3. Includes(nest[i].original, b.original)
            BY <5>1, <6>1, <6>2 DEF LevelFits
          <6>4. nest'[i].original = nest[i].original
            BY <1>5, <3>3
          <6> QED BY <5>1, <6>3, <6>4, IncludesChain
        <5> QED BY <5>2, <5>3
      <4>4. nest'[j].hasElse
        BY <1>5, <3>3
      <4> QED BY <3>1, <4>1, <4>2, <4>3, <4>4 DEF LevelFits
    <3> QED BY <3>2, <3>3
  <2> QED BY <1>1, <1>5, <1>d, <1>u, <2>7, <2>8 DEF TypedInv
<1> QED BY <1>7, <1>8

LEMMA TypedEndIf == ASSUME Strict, TypedInv, EndIf PROVE TypedInv'
<1>i. FlowInv
  BY DEF TypedInv
<1>1. FlowInv'
  BY <1>i, FlowInvEndIf
<1>u. UNCHANGED <<declared, vals, machine>>
  BY DEF EndIf
<1>m. PICK m : m = Len(nest)
  OBVIOUS
<1> DEFINE b == nest[m]
<1>2. /\ nest # <<>> /\ m \in Nat \ {0}
      /\ nest' \in Seq(Branches) /\ Len(nest') = m - 1 /\ DOMAIN nest' = 1 .. m - 1
      /\ \A j \in 1 .. m - 1 : nest'[j] = nest[j]
      /\ b.narrowing # Nothing => types' = [types EXCEPT ![Subject] = b.original]
  BY <1>m, <1>i, EndIfCloses
<1>d. \A x \in Vars : Has[<<vals'[x], declared'[x]>>]
  BY <1>u DEF TypedInv
<1>3. SUFFICES ASSUME nest' # <<>>, Subject' # None
               PROVE  /\ Live' => Has[<<vals'[Subject'], types'[Subject']>>]
                      /\ \A j \in 1 .. m - 1 : LevelFits(j)'
  BY <1>1, <1>2, <1>d, <1>u DEF TypedInv
<1>4. 1 \in 1 .. m - 1 /\ Subject' = Subject
  <2>1. Len(nest') \in Nat \ {0}
    BY <1>2, <1>3, StackTop
  <2>2. 1 \in 1 .. m - 1
    BY <1>2, <2>1
  <2> QED BY <1>2, <2>2 DEF Subject
<1>5. Subject \in Vars /\ IsNarrowing(b.narrowing)
  BY <1>m, <1>i, <1>2, <1>3, <1>4, SubjectIsInner
<1>6. types'[Subject] = b.original
  BY <1>i, <1>2, <1>5, NothingHasNone DEF FlowInv, Known
<1>f. \A j \in 1 .. m : LevelFits(j)
  BY <1>m, <1>2, <1>3, <1>4 DEF TypedInv
<1>7. \A j \in 0 .. m - 1 : LiveTo(j)' <=> LiveTo(j)
  BY <1>2 DEF LiveTo
<1>8. Live' => LiveTo(m - 1)
  BY <1>2 DEF Live, LiveTo
<1>9. Live' => Has[<<vals'[Subject'], types'[Subject']>>]
  <2>1. LevelFits(m)
    BY <1>2, <1>f
  <2> QED BY <1>u, <1>4, <1>6, <1>8, <2>1 DEF LevelFits
<1>10. ASSUME NEW j \in 1 .. m - 1 PROVE LevelFits(j)'
  <2>1. /\ LevelFits(j) /\ vals'[Subject'] = vals[Subject] /\ nest'[j] = nest[j]
        /\ \A i \in 1 .. j : nest'[i] = nest[i]
    BY <1>u, <1>2, <1>4, <1>f
  <2>2. (LiveTo(j)' <=> LiveTo(j)) /\ (LiveTo(j - 1)' <=> LiveTo(j - 1))
    BY <1>2, <1>7
  <2>3. LevelType(j)' = LevelType(j)
    <3>1. CASE j = m - 1
      <4>1. LevelType(j)' = b.original
        BY <1>2, <1>4, <1>6, <3>1 DEF LevelType
      <4>2. j + 1 = m /\ j # m
        BY <1>2, <3>1
      <4> QED BY <1>m, <4>1, <4>2 DEF LevelType
    <3>2. CASE j # m - 1
      <4>1. j + 1 \in 1 .. m - 1 /\ j # m
        BY <1>2, <3>2
      <4> QED BY <1>m, <1>2, <3>2, <4>1 DEF LevelType
    <3> QED BY <3>1, <3>2
  <2> QED BY <2>1, <2>2, <2>3 DEF LevelFits
<1> QED BY <1>9, <1>10

\* A result that is stored is a value of its type, so that nothing is misread.
LEMMA StoreGives ==
    ASSUME TypedInv, Running, NEW x \in Vars, NEW r, r # Misread, Store(x, r),
           r \in Values => Has[<<r, TypeOf(x)>>], UNCHANGED <<declared, types, nest>>
    PROVE  TypedInv'
<1>1. r \in Values /\ vals' = [vals EXCEPT ![x] = r] /\ machine' = machine
  BY DEF Store
<1> QED BY <1>1, StoreFits

LEMMA RunningIsWell ==
    ASSUME TypedInv, Running
    PROVE  FlowInv /\ WellTyped
BY TypedIsWell DEF TypedInv, Running

LEMMA OperandsAreTyped ==
    ASSUME WellTyped, NEW a \in Operands
    PROVE  OperandType(a) \in TypeRecords /\ OperandValue(a) \in Values /\ Has[<<OperandValue(a), OperandType(a)>>]
BY OperandsFit DEF Fits

LEMMA TypedAssign == ASSUME Strict, TypedInv, NEW x \in Vars, Assign(x) PROVE TypedInv'
<1>1. Running /\ UNCHANGED <<declared, types, nest>>
  BY DEF Assign
<1>2. PICK e \in Expressions : /\ Compiles(e) /\ Assignable(TypeOf(x), StaticType(e))
                               /\ \E r \in Results(e) : Store(x, r)
  BY DEF Assign
<1>3. PICK r \in Results(e) : Store(x, r)
  BY <1>2
<1>4. FlowInv /\ WellTyped /\ "any" \notin Idioms
  BY <1>1, RunningIsWell DEF Strict
<1>5. /\ TypeOf(x) \in TypeRecords /\ StaticType(e) \in TypeRecords
      /\ Accepted(TypeOf(x), StaticType(e)) /\ Trusted(TypeOf(x), StaticType(e))
  BY <1>2 DEF Assignable, Pairs
<1>6. Gives(r, StaticType(e))
  BY <1>2, <1>4, <1>5, ExpressionsFit
<1>7. r # Misread /\ (r \in Values => Has[<<r, TypeOf(x)>>])
  BY <1>4, <1>5, <1>6, AcceptedFits DEF Gives
<1> QED BY <1>1, <1>3, <1>7, StoreGives

LEMMA TypedCompound == ASSUME Strict, TypedInv, NEW x \in Vars, Compound(x) PROVE TypedInv'
<1>1. Running /\ UNCHANGED <<declared, types, nest>>
  BY DEF Compound
<1>2. PICK op \in {"+", "/", "\\"}, a \in Operands :
          /\ MayCompound(op, TypeOf(x), OperandType(a))
          /\ \E r \in IF BothIn({"String"}, vals[x], OperandValue(a)) THEN {Panic}
                      ELSE Checked(op, vals[x], OperandValue(a)) : Store(x, r)
  BY DEF Compound
<1>3. PICK r : Store(x, r) /\ (r = Panic \/ r \in Checked(op, vals[x], OperandValue(a)))
  BY <1>2
<1> DEFINE t == TypeOf(x)
           u == OperandType(a)
           v == vals[x]
           w == OperandValue(a)
           s == ResultType(op, t, u)
<1>4. WellTyped /\ "any" \notin Idioms /\ "compound" \notin Idioms /\ "overflow" \notin Idioms /\ op \in Ops
  BY <1>1, RunningIsWell DEF Strict, Ops
<1>5. /\ t \in TypeRecords /\ u \in TypeRecords /\ v \in Values /\ w \in Values
      /\ Has[<<v, t>>] /\ Has[<<w, u>>]
  BY <1>4, OperandsAreTyped DEF WellTyped
<1>6. EitherAny(t, u) \/ BothIn(Numbers, t, u)
  BY <1>2 DEF MayCompound, BothIn, Numbers
<1>7. Compatible[<<t, s>>] /\ Trusted(t, s)
  BY <1>2, <1>4 DEF MayCompound
<1>8. s \in TypeRecords
  BY <1>4, <1>5, ResultTypes
<1>9. r # Misread /\ (r \in Values => Has[<<r, t>>])
  <2>1. CASE r = Panic
    BY <2>1, PlainTypes
  <2>2. CASE r \in Checked(op, v, w)
    <3> HIDE DEF t, u, v, w
    <3>1. r # Misread /\ (r \in Values => Has[<<r, s>>])
      BY <1>4, <1>5, <1>6, <2>2, CheckedFits
    <3> HIDE DEF s
    <3>2. Accepted(t, s)
      BY <1>7 DEF Accepted
    <3> QED BY <1>4, <1>5, <1>7, <1>8, <3>1, <3>2, AcceptedFits
  <2> QED BY <1>3, <2>1, <2>2
<1> QED BY <1>1, <1>3, <1>9, StoreGives

LEMMA TypedCall == ASSUME Strict, TypedInv, NEW x \in Vars, Call(x) PROVE TypedInv'
<1>1. Running /\ UNCHANGED <<declared, types, nest>>
  BY DEF Call
<1>i. "closure" \notin Idioms /\ "call" \notin Idioms /\ "any" \notin Idioms /\ "overflow" \notin Idioms
  BY DEF Strict
<1>2. Captured(x) = {declared[x]}
  BY <1>i DEF Captured
<1> DEFINE t == declared[x]
<1>3. PICK value \in Literals \union {Uses} :
          IF value = Uses
          THEN /\ Instruction("+", t, t) # "refused"
               /\ Misread \in Outcomes("+", Instruction("+", t, t), vals[x], vals[x])
          ELSE Accepted(t, Plain(value.base)) /\ TypeOf(x) = t /\ Store(x, value)
  BY <1>2, <1>i DEF Call
<1>4. FlowInv /\ vals[x] \in Values /\ t \in TypeRecords /\ Has[<<vals[x], t>>]
  BY <1>1, RunningIsWell DEF FlowInv, FlowTypeOK, TypedInv
<1>5. CASE value = Uses
  BY <1>3, <1>4, <1>5, <1>i, OutcomesFit DEF Ops
<1>6. CASE value # Uses
  <2> DEFINE u == Plain(value.base)
  <2>1. value \in Literals /\ Accepted(t, u) /\ TypeOf(x) = t /\ Store(x, value)
    BY <1>3, <1>6
  <2>2. value \in Values /\ value.base \in Scalars /\ Has[<<value, u>>]
    BY <2>1, LiteralsFit DEF Fits
  <2>3. u \in TypeRecords /\ u \notin Vague /\ u.base = value.base
    BY <2>2, ScalarTypes
  <2>4. Trusted(t, u)
    BY <2>3 DEF Trusted
  <2> HIDE DEF u
  <2>5. Has[<<value, t>>]
    BY <1>4, <1>i, <2>1, <2>2, <2>3, <2>4, AcceptedFits
  <2>6. value # Misread
    BY <2>2, PlainTypes
  <2> QED BY <1>1, <2>1, <2>5, <2>6, StoreGives
<1> QED BY <1>5, <1>6

LEMMA TypedDeclare == ASSUME Strict, TypedInv, NEW x \in Vars, Declare(x) PROVE TypedInv'
<1>1. Running /\ nest = <<>> /\ nest' = nest
  BY DEF Declare
<1>2. PICK annotation \in {Unknown} \union AllAnnotations, e \in Expressions :
          /\ Compiles(e)
          /\ annotation # Unknown => Assignable(annotation, StaticType(e))
          /\ DeclareAs(x, DeclaredType(annotation, StaticType(e)))
          /\ \E r \in Results(e) : Store(x, r)
  BY DEF Declare
<1>3. PICK r \in Results(e) : Store(x, r)
  BY <1>2
<1> DEFINE got == StaticType(e)
           type == DeclaredType(annotation, got)
<1>4. FlowInv /\ WellTyped /\ "any" \notin Idioms
  BY <1>1, RunningIsWell DEF Strict
<1>5. FlowInv'
  BY <1>4, FlowInvDeclare
<1>6. type \in TypeRecords \ {Unknown} /\ declared' = [declared EXCEPT ![x] = type]
  BY <1>2, AnnotationsAreTypes DEF DeclareAs
<1>7. got \in TypeRecords
  <2>1. CASE annotation # Unknown
    BY <1>2, <2>1 DEF Assignable, Pairs
  <2>2. CASE annotation = Unknown /\ got # Unknown
    BY <1>6, <2>2 DEF DeclaredType
  <2>3. CASE got = Unknown
    BY <2>3, PlainTypes
  <2> QED BY <2>1, <2>2, <2>3
<1>8. Gives(r, got)
  BY <1>2, <1>4, <1>7, ExpressionsFit
<1> HIDE DEF got
<1>9. r \in Values => Has[<<r, type>>]
  <2> SUFFICES ASSUME r \in Values PROVE Has[<<r, type>>]
    OBVIOUS
  <2>1. Has[<<r, got>>]
    BY <1>8 DEF Gives
  <2>2. CASE type = got
    BY <2>1, <2>2
  <2>3. CASE annotation = Unknown /\ got = Unknown
    <3>1. type = Any
      BY <2>3 DEF DeclaredType
    <3> QED BY <3>1, PlainTypes, HasByBase
  <2>4. CASE type # got /\ annotation # Unknown
    <3>1. type = annotation
      BY <2>4 DEF DeclaredType
    <3>2. Accepted(annotation, got) /\ Trusted(annotation, got) /\ annotation \in TypeRecords
      BY <1>2, <2>4 DEF Assignable, Pairs, got
    <3> QED BY <1>4, <1>7, <2>1, <3>1, <3>2, AcceptedFits
  <2>5. annotation = Unknown /\ got # Unknown => type = got
    BY DEF DeclaredType
  <2> QED BY <2>2, <2>3, <2>4, <2>5
<1> HIDE DEF type
<1>10. r \in Values /\ vals' = [vals EXCEPT ![x] = r] /\ machine' = "running"
  BY <1>3, <1>8 DEF Store, Gives, TypedInv
<1>11. \A y \in Vars : Has[<<vals'[y], declared'[y]>>]
  <2> SUFFICES ASSUME NEW y \in Vars PROVE Has[<<vals'[y], declared'[y]>>]
    OBVIOUS
  <2>1. vals \in [Vars -> Values] /\ declared \in [Vars -> TypeRecords]
    BY <1>4 DEF FlowInv, FlowTypeOK
  <2> QED BY <1>6, <1>9, <1>10, <2>1 DEF TypedInv
<1> QED BY <1>1, <1>5, <1>10, <1>11 DEF TypedInv

LEMMA TypedInitially == FlowInit => TypedInv
BY FlowInvInitially DEF FlowInit, TypedInv

LEMMA TypedStutters == ASSUME TypedInv, UNCHANGED flowVars PROVE TypedInv'
<1>1. FlowInv'
  BY DEF flowVars, TypedInv, FlowInv, FlowTypeOK, Subject
<1>2. UNCHANGED <<declared, types, vals, nest, machine>>
  BY DEF flowVars
<1> QED BY <1>1, <1>2 DEF TypedInv, LevelFits, LiveTo, LevelType, Live, Subject

LEMMA TypedNext == ASSUME Strict, TypedInv, [FlowNext]_flowVars PROVE TypedInv'
<1>1. ASSUME NEW x \in Vars, Declare(x) PROVE TypedInv'
  BY <1>1, TypedDeclare
<1>2. ASSUME NEW x \in Vars, Assign(x) PROVE TypedInv'
  BY <1>2, TypedAssign
<1>3. ASSUME NEW x \in Vars, Compound(x) PROVE TypedInv'
  BY <1>3, TypedCompound
<1>4. ASSUME NEW x \in Vars, Call(x) PROVE TypedInv'
  BY <1>4, TypedCall
<1>5. CASE BeginIf
  BY <1>5, TypedBeginIf
<1>6. CASE Else
  BY <1>6, TypedElse
<1>7. CASE EndIf
  BY <1>7, TypedEndIf
<1>8. CASE UNCHANGED flowVars
  BY <1>8, TypedStutters
<1> QED BY <1>1, <1>2, <1>3, <1>4, <1>5, <1>6, <1>7, <1>8 DEF FlowNext

LEMMA TypedAlways == ASSUME Strict PROVE FlowSpec => []TypedInv
<1>1. TypedInv /\ [FlowNext]_flowVars => TypedInv'
  BY TypedNext
<1> QED BY <1>1, TypedInitially, PTL DEF FlowSpec

\* Soundness of the static types: in a program without the idioms what a variable
\* holds is of the type it was declared with, and of the type the compiler takes
\* it to have where the code runs.
THEOREM StaticTypesAreTrue ==
    ASSUME Idioms = {}
    PROVE  FlowSpec => []ValuesHaveTheirTypes
<1>1. TypedInv => ValuesHaveTheirTypes
  BY TypedIsWell DEF TypedInv, ValuesHaveTheirTypes, WellTyped
<1>2. FlowSpec => []TypedInv
  BY TypedAlways DEF Strict
<1> QED BY <1>1, <1>2, PTL

\* No instruction chosen for static types, and no function, is given an operand of
\* another representation.
THEOREM NothingIsMisread ==
    ASSUME Idioms = {}
    PROVE  FlowSpec => []OperandsAreWhatOpcodesRead
<1>1. TypedInv => OperandsAreWhatOpcodesRead
  BY DEF TypedInv, OperandsAreWhatOpcodesRead
<1>2. FlowSpec => []TypedInv
  BY TypedAlways DEF Strict
<1> QED BY <1>1, <1>2, PTL

(***************************************************************************)
(* Match expressions: what the tests of arms cover.                        *)
(***************************************************************************)

Masks == DOMAIN Bit

LEMMA MaskInIs ==
    ASSUME NEW t \in TypeRecords, NEW m \in Masks
    PROVE  MaskIn[<<t, m>>] <=> \/ t.base = m
                                \/ t.base = "Union" /\ \E i \in DOMAIN t.parts : MaskIn[<<t.parts[i], m>>]
<1> DEFINE D == TypeRecords \X Masks
           R == [p \in D |-> Rank[p[1]]]
           M(f, p) == \/ p[1].base = p[2]
                      \/ p[1].base = "Union" /\ \E i \in DOMAIN p[1].parts : f[<<p[1].parts[i], p[2]>>]
           F == [f \in [D -> BOOLEAN] |-> [p \in D |-> M(f, p)]]
<1> HIDE DEF Masks
<1>1. F \in [[D -> BOOLEAN] -> [D -> BOOLEAN]]
  OBVIOUS
<1>2. ASSUME NEW f \in [D -> BOOLEAN], NEW g \in [D -> BOOLEAN], NEW p \in D,
             \A q \in D : R[q] < R[p] => f[q] = g[q]
      PROVE  F[f][p] = F[g][p]
  <2>0. PICK a \in TypeRecords, b \in Masks : p = <<a, b>>
    OBVIOUS
  <2>1. \A i \in DOMAIN a.parts : f[<<a.parts[i], b>>] = g[<<a.parts[i], b>>]
    <3> TAKE i \in DOMAIN a.parts
    <3>1. <<a.parts[i], b>> \in D /\ R[<<a.parts[i], b>>] < R[p]
      BY <2>0, PartsAreTypes
    <3> QED BY <1>2, <3>1
  <2>2. M(f, p) = M(g, p)
    BY <2>0, <2>1
  <2> QED BY <2>2
<1>3. \E f \in [D -> BOOLEAN] : f = F[f]
  <2>1. R \in [D -> Nat]
    BY PartsAreTypes
  <2> HIDE DEF D, R, F
  <2>2. ByRank(D, BOOLEAN, R, F)
    BY <1>1, <1>2, <2>1 DEF ByRank
  <2> QED BY <2>2, FunctionsByRank
<1>4. MaskIn = [p \in D |-> M(MaskIn, p)]
  BY <1>3 DEF MaskIn, Masks
<1>5. <<t, m>> \in D /\ <<t, m>>[1] = t /\ <<t, m>>[2] = m
  OBVIOUS
<1>6. MaskIn[<<t, m>>] = M(MaskIn, <<t, m>>)
  BY <1>4, <1>5
<1> QED BY <1>5, <1>6

LEMMA AlternativesAre ==
    ASSUME NEW t \in TypeRecords
    PROVE  LET a == Alternatives(t)
           IN  /\ a \in Seq(TypeRecords) /\ Len(a) \in Nat /\ DOMAIN a = 1 .. Len(a)
               /\ t.base = "Union" => a = t.parts
               /\ t.base # "Union" => a = <<t>> /\ Len(a) = 1 /\ \A i \in DOMAIN a : a[i] = t
<1>1. CASE t.base = "Union"
  BY <1>1, PartsAreTypes, TypesAssumption DEF Alternatives
<1>2. CASE t.base # "Union"
  <2>1. <<t>> \in Seq(TypeRecords) /\ Len(<<t>>) = 1 /\ DOMAIN <<t>> = 1 .. 1 /\ <<t>>[1] = t
    BY StackOne
  <2> QED BY <1>2, <2>1 DEF Alternatives
<1> QED BY <1>1, <1>2

LEMMA CoverageIsTheLoop ==
    ASSUME target \in TypeRecords, covered \subseteq TypeRecords, NEW m \in Masks
    PROVE  \A n \in 0 .. Len(Alternatives(target)) :
               Coverage(m)[n] = IF n = 0 THEN covered
                                ELSE IF MaskIn[<<Alternatives(target)[n], m>>]
                                     THEN Recorded(Coverage(m)[n - 1], Alternatives(target)[n])
                                     ELSE Coverage(m)[n - 1]
<1> DEFINE a == Alternatives(target)
           D == 0 .. Len(a)
           C == SUBSET TypeRecords
           M(f, n) == IF n = 0 THEN covered
                      ELSE IF MaskIn[<<a[n], m>>] THEN Recorded(f[n - 1], a[n]) ELSE f[n - 1]
           F == [f \in [D -> C] |-> [n \in D |-> M(f, n)]]
           R == [n \in D |-> n]
<1>0. a \in Seq(TypeRecords) /\ Len(a) \in Nat /\ \A n \in 1 .. Len(a) : a[n] \in TypeRecords
  BY AlternativesAre, ElementOfSeq
<1> HIDE DEF a, Masks
<1>1. F \in [[D -> C] -> [D -> C]]
  <2>1. ASSUME NEW f \in [D -> C], NEW n \in D PROVE M(f, n) \in C
    <3>1. CASE n = 0
      BY <3>1
    <3>2. CASE n # 0
      <4>1. n - 1 \in D /\ n \in 1 .. Len(a)
        BY <1>0, <3>2
      <4>2. f[n - 1] \in C /\ a[n] \in TypeRecords
        BY <1>0, <4>1
      <4> QED BY <3>2, <4>2 DEF Recorded
    <3> QED BY <3>1, <3>2
  <2> QED BY <2>1
<1>2. \A f \in [D -> C], g \in [D -> C] : \A n \in D : (\A k \in D : R[k] < R[n] => f[k] = g[k]) => F[f][n] = F[g][n]
  <2> SUFFICES ASSUME NEW f \in [D -> C], NEW g \in [D -> C], NEW n \in D, \A k \in D : R[k] < R[n] => f[k] = g[k]
               PROVE  M(f, n) = M(g, n)
    OBVIOUS
  <2>1. CASE n = 0
    BY <2>1
  <2>2. CASE n # 0
    <3>1. n - 1 \in D /\ n - 1 < n
      BY <1>0, <2>2
    <3>2. f[n - 1] = g[n - 1]
      BY <3>1
    <3> QED BY <3>2
  <2> QED BY <2>1, <2>2
<1>3. \E f \in [D -> C] : f = F[f]
  <2>0. {} \in C
    OBVIOUS
  <2>3. R \in [D -> Nat]
    BY <1>0
  <2>1. C # {} /\ R \in [D -> Nat]
    BY <2>0, <2>3
  <2> HIDE DEF D, C, R, F
  <2>2. ByRank(D, C, R, F)
    BY <1>1, <1>2, <2>1 DEF ByRank
  <2> QED BY <2>2, FunctionsByRank
<1>4. Coverage(m) = [n \in D |-> M(Coverage(m), n)]
  <2>1. PICK f \in [D -> C] : f = F[f]
    BY <1>3
  <2>2. f = [n \in D |-> M(f, n)]
    BY <2>1
  <2> QED BY <2>2 DEF Coverage, a
<1> QED BY <1>4 DEF a

\* What a test for a mask covers: no more than the alternatives of that mask.
CoveredUpTo(c, m, n) ==
    \A t \in c : t \in covered \/ \E i \in 1 .. n : t = Alternatives(target)[i] /\ MaskIn[<<t, m>>]

LEMMA CoverageIs ==
    ASSUME target \in TypeRecords, covered \subseteq TypeRecords, NEW m \in Masks
    PROVE  CoveredUpTo(Coverage(m)[Len(Alternatives(target))], m, Len(Alternatives(target)))
<1> DEFINE a == Alternatives(target)
           c == Coverage(m)
           T == {n \in 0 .. Len(a) : ~CoveredUpTo(c[n], m, n)}
<1>0. Len(a) \in Nat
  BY AlternativesAre
<1>k. \A n \in 0 .. Len(a) : c[n] = IF n = 0 THEN covered
                                    ELSE IF MaskIn[<<a[n], m>>] THEN Recorded(c[n - 1], a[n]) ELSE c[n - 1]
  BY CoverageIsTheLoop
<1> HIDE DEF c, Masks
<1>1. SUFFICES ASSUME T # {} PROVE FALSE
  BY <1>0 DEF c
<1>2. PICK n \in T : \A k \in T : n <= k
  <2>1. T \in SUBSET Nat
    BY <1>0
  <2> HIDE DEF T
  <2> QED BY <1>1, <2>1, LeastNat
<1>3. n \in 0 .. Len(a) /\ n \in Nat /\ ~CoveredUpTo(c[n], m, n)
  BY <1>0, <1>2
<1>4. CASE n = 0
  BY <1>k, <1>3, <1>4 DEF CoveredUpTo
<1>5. CASE n # 0
  <2>1. n - 1 \in 0 .. Len(a) /\ ~(n <= n - 1) /\ n \in 1 .. n /\ 1 .. n - 1 \subseteq 1 .. n
    BY <1>0, <1>3, <1>5
  <2>2. CoveredUpTo(c[n - 1], m, n - 1)
    BY <1>2, <2>1
  <2>3. \A t \in c[n] : t \in c[n - 1] \/ (t = a[n] /\ MaskIn[<<a[n], m>>])
    BY <1>k, <1>3, <1>5 DEF Recorded
  <2>4. CoveredUpTo(c[n], m, n)
    BY <2>1, <2>2, <2>3 DEF CoveredUpTo
  <2> QED BY <1>3, <2>4
<1> QED BY <1>4, <1>5

(***************************************************************************)
(* Match expressions: an arm for every value.  What was tried before an    *)
(* arm is taken was not what the target holds.                             *)
(***************************************************************************)

\* What has been tried so far was not what the target holds.
MatchInv ==
    /\ SomeArmIsTaken
    /\ "unions" \in MatchIdioms \/ ~IsNested(target)
    /\ target.base # "Any"
    /\ ~taken =>
          /\ outcome # "left" /\ "default" \notin seen
          /\ Has[<<top, target>>] /\ MaskIn[<<target, top.base>>]
          /\ "Ok" \in seen => target.base = "Result" /\ top.parts = <<>>
          /\ "Err" \in seen => target.base = "Result" /\ top.parts # <<>>
          /\ "Some" \in seen => target.base = "Option" /\ top.parts = <<>>
          /\ "None" \in seen => target.base = "Option" /\ top.parts # <<>>
          /\ \A t \in covered : t.base # top.base

\* What a part is bound from.
LEMMA Wrapped ==
    ASSUME NEW v \in Values, NEW t \in TypeRecords, t.base \in {"Result", "Option"}, Has[<<v, t>>]
    PROVE  /\ v.base = t.base
           /\ v.parts # <<>> => /\ v.parts[1] \in Values /\ t.parts[1] \in TypeRecords
                                /\ Has[<<v.parts[1], t.parts[1]>>]
<1>1. v.base = t.base /\ \A i \in DOMAIN v.parts : Has[<<v.parts[i], t.parts[1]>>]
  BY HasByBase DEF Elements
<1>2. v.parts \in Seq(Values)
  BY <1>1, ValuesAssumption
<1>3. t.parts[1] \in TypeRecords
  BY PartsAreTypes, TypesAssumption
<1>4. v.parts # <<>> => 1 \in DOMAIN v.parts /\ v.parts[1] \in Values
  BY <1>2, StackTop, ElementOfSeq
<1> QED BY <1>1, <1>3, <1>4

\* The arms there are.
Arms == {[kind |-> "default", of |-> "Any"]}
        \union {[kind |-> k, of |-> "Result"] : k \in {"Ok", "Err"}}
        \union {[kind |-> k, of |-> "Option"] : k \in {"Some", "None"}}
        \union {[kind |-> "type", of |-> m] : m \in Masks}
        \union {[kind |-> "literal", of |-> v.base] : v \in Given}

LEMMA ArmsAre ==
    ASSUME NEW arm \in Arms
    PROVE  /\ arm.kind \in {"default", "Ok", "Err", "Some", "None", "type", "literal"}
           /\ arm.kind \in {"Ok", "Err"} => arm.of = "Result"
           /\ arm.kind \in {"Some", "None"} => arm.of = "Option"
           /\ arm.kind = "type" => arm.of \in Masks
<1> HIDE DEF Masks
<1>1. CASE \E k \in {"Ok", "Err"} : arm = [kind |-> k, of |-> "Result"]
  BY <1>1
<1>2. CASE \E k \in {"Some", "None"} : arm = [kind |-> k, of |-> "Option"]
  BY <1>2
<1>3. CASE \E m \in Masks : arm = [kind |-> "type", of |-> m]
  BY <1>3
<1>4. CASE arm = [kind |-> "default", of |-> "Any"] \/ \E v \in Given : arm = [kind |-> "literal", of |-> v.base]
  BY <1>4
<1> QED BY <1>1, <1>2, <1>3, <1>4 DEF Arms

\* What running an arm tests.
LEMMA MatchedIs ==
    ASSUME NEW arm \in Arms, NEW v
    PROVE  /\ Matched(arm, v) \subseteq BOOLEAN
           /\ arm.kind \in {"Ok", "Some"} => Matched(arm, v) = {v.base = arm.of /\ v.parts # <<>>}
           /\ arm.kind \in {"Err", "None"} => Matched(arm, v) = {v.base = arm.of /\ v.parts = <<>>}
           /\ arm.kind = "type" => Matched(arm, v) = {Bit[arm.of] < OperandBits /\ v.base = arm.of}
           /\ arm.kind = "default" => Matched(arm, v) = {TRUE}
<1>1. CASE arm.kind \in {"Ok", "Some"}
  BY <1>1 DEF Matched
<1>2. CASE arm.kind \in {"Err", "None"}
  BY <1>2 DEF Matched
<1>3. CASE arm.kind = "type"
  BY <1>3 DEF Matched
<1>4. CASE arm.kind = "default"
  BY <1>4 DEF Matched
<1>5. CASE arm.kind = "literal"
  BY <1>5 DEF Matched
<1> QED BY <1>1, <1>2, <1>3, <1>4, <1>5, ArmsAre

IsBody(b) == b.type \in TypeRecords /\ b.leaves \subseteq Values

\* What an arm binds when it is taken, and what its body leaves, are values.
LEMMA ArmBinds ==
    ASSUME NEW arm \in Arms, NEW v \in Values, TRUE \in Matched(arm, v), Has[<<v, target>>],
           target \in TypeRecords, arm.kind \in {"Ok", "Err", "Some", "None"} => target.base = arm.of
    PROVE  Bound(arm, v) \in Values
<1>1. CASE arm.kind \in {"Ok", "Some"}
  <2>1. v.base = arm.of /\ v.parts # <<>> /\ target.base = arm.of /\ arm.of \in {"Result", "Option"}
    BY ZenonT(40), <1>1, ArmsAre, MatchedIs
  <2> QED BY <1>1, <2>1, Wrapped DEF Bound
<1>2. CASE arm.kind = "Err"
  BY <1>2, MatchesAssumption DEF Bound
<1>3. CASE arm.kind \notin {"Ok", "Some", "Err"}
  BY <1>3 DEF Bound
<1> QED BY <1>1, <1>2, <1>3

LEMMA BodiesAre ==
    ASSUME NEW arm \in Arms, NEW v \in Values, NEW b \in BodiesOf(arm, v), target \in TypeRecords,
           arm.kind \in {"Ok", "Err", "Some", "None"} => target.base = arm.of
    PROVE  IsBody(b)
<1>1. NilT \in TypeRecords /\ NilT \in Values /\ Never \in TypeRecords /\ Plain("Error") \in TypeRecords
      /\ \A g \in Given : g \in TypeRecords /\ g \in Values
  BY MatchesAssumption
<1>2. \A t \in BoundTypes(arm) : t \in TypeRecords
  <2>1. CASE arm.kind = "Err"
    BY <1>1, <2>1 DEF BoundTypes
  <2>2. CASE arm.kind \in {"Ok", "Some"}
    <3>1. arm.of \in {"Result", "Option"}
      BY <2>2, ArmsAre
    <3>2. target.parts[1] \in TypeRecords
      BY <2>2, <3>1, PartsAreTypes, TypesAssumption
    <3> QED BY <2>2, <3>2 DEF BoundTypes
  <2>3. CASE arm.kind \notin {"Ok", "Some", "Err"}
    BY <2>3 DEF BoundTypes
  <2> QED BY <2>1, <2>2, <2>3
<1>3. \E t \in TypeRecords, l \in SUBSET Values : b = Body(t, l)
  <2>1. CASE \E g \in Given \union {NilT} : b = Body(g, {g})
    BY <1>1, <2>1
  <2>2. CASE b = Body(Never, {})
    BY <1>1, <2>2
  <2>3. CASE \E t \in BoundTypes(arm) : b = Body(t, {v})
    BY <1>2, <2>3
  <2>4. CASE b = Body(NilT, {v})
    BY <1>1, <2>4
  <2>5. CASE \E g \in Given : b = Body(g, Given)
    BY <1>1, <2>5
  <2> DEFINE A == {Body(g, {g}) : g \in Given \union {NilT}}
             B == {Body(Never, {})}
             C == {Body(t, {v}) : t \in BoundTypes(arm)}
             D == {Body(NilT, {v})}
             E == {Body(g, Given) : g \in Given}
  <2>6. b \in A \/ b \in B \/ b \in C \/ b \in D \/ b \in E
    <3>1. b \in A \union B \union C \union (IF "block" \in MatchIdioms THEN D ELSE {})
                 \union (IF "branches" \in MatchIdioms THEN E ELSE {})
      BY DEF BodiesOf
    <3> HIDE DEF A, B, C, D, E
    <3> QED BY <3>1
  <2> QED BY <2>1, <2>2, <2>3, <2>4, <2>5, <2>6
<1> QED BY <1>3 DEF IsBody, Body

\* The type of the whole is a type.
LEMMA ProducesTypes ==
    ASSUME resultant \in TypeRecords, NEW t \in TypeRecords, NEW r \in Produces(t)
    PROVE  r \in TypeRecords
BY DEF Produces

\* An arm that is compiled, and runs or not.
LEMMA RunsKeepsTypes ==
    ASSUME MatchTypeOK, NEW arm \in Arms, Runs(arm), outcome = "open",
           arm.kind \in {"Ok", "Err", "Some", "None"} => target.base = arm.of,
           ~taken => Has[<<top, target>>]
    PROVE  /\ target' = target /\ resultant' \in TypeRecords /\ top' \in Values /\ taken' \in BOOLEAN
           /\ outcome' \in {"open", "left"} /\ (taken => taken')
           /\ ~taken' => /\ FALSE \in Matched(arm, top)
                         /\ top' = top /\ outcome' = "open"
<1> DEFINE now == IF taken THEN {FALSE} ELSE Matched(arm, top)
<1>0. target \in TypeRecords /\ top \in Values /\ resultant \in TypeRecords /\ taken \in BOOLEAN
  BY MatchesAssumption DEF MatchTypeOK
<1>1. PICK runs \in now :
          \E body \in BodiesOf(arm, IF runs THEN Bound(arm, top) ELSE top) :
               /\ resultant' \in Produces(body.type)
               /\ taken' = (taken \/ runs)
               /\ IF runs /\ body.leaves # {} THEN top' \in body.leaves ELSE top' = top
               /\ outcome' = IF runs /\ body.leaves = {} THEN "left" ELSE outcome
               /\ UNCHANGED target
  BY DEF Runs
<1> DEFINE v == IF runs THEN Bound(arm, top) ELSE top
<1>2. PICK body \in BodiesOf(arm, v) :
               /\ resultant' \in Produces(body.type)
               /\ taken' = (taken \/ runs)
               /\ IF runs /\ body.leaves # {} THEN top' \in body.leaves ELSE top' = top
               /\ outcome' = IF runs /\ body.leaves = {} THEN "left" ELSE outcome
               /\ UNCHANGED target
  BY <1>1
<1>b. runs \in BOOLEAN
  BY <1>1, MatchedIs
<1>3. v \in Values
  BY <1>0, <1>1, <1>b, ArmBinds
<1>4. IsBody(body)
  BY <1>0, <1>2, <1>3, BodiesAre
<1>5. resultant' \in TypeRecords
  BY <1>0, <1>2, <1>4, ProducesTypes DEF IsBody
<1>6. top' \in Values
  BY <1>0, <1>2, <1>4 DEF IsBody
<1>7. ~taken' => ~runs /\ ~taken
  BY <1>0, <1>2, <1>b
<1> HIDE DEF v
<1>8. ~taken' => FALSE \in Matched(arm, top)
  BY <1>0, <1>1, <1>7, <1>b
<1> QED BY <1>0, <1>2, <1>5, <1>6, <1>7, <1>8, <1>b

PlainTargets == {"wide", "untyped", "promoted", "unions"} \intersect MatchIdioms = {}

LEMMA MatchInvInit ==
    ASSUME PlainTargets, MatchInit
    PROVE  MatchInv
<1>1. target \in TypeRecords /\ Unknown \in TypeRecords
  BY MatchesAssumption, TypesAssumption DEF MatchInit
<1>2. MatchTypeOK
  BY <1>1 DEF MatchInit, MatchTypeOK
<1> QED BY <1>2 DEF MatchInv, SomeArmIsTaken, MatchInit, PlainTargets

\* An arm of a kind that is written once, or that covers nothing: what is
\* known of the target when it was not taken is what its test found.
LEMMA ArmKeepsInv ==
    ASSUME PlainTargets, MatchInv, NEW arm \in Arms, Runs(arm), outcome = "open",
           arm.kind \in {"Ok", "Err", "Some", "None"} => target.base = arm.of,
           seen' = seen \union {arm.kind},
           covered' \subseteq {Alternatives(target)[i] : i \in DOMAIN Alternatives(target)},
           ~taken /\ FALSE \in Matched(arm, top) => \A t \in covered' : t.base # top.base
    PROVE  MatchInv'
<1>0. MatchTypeOK /\ taken \in BOOLEAN
  BY DEF MatchInv, SomeArmIsTaken, MatchTypeOK
<1>1. /\ target' = target /\ resultant' \in TypeRecords /\ top' \in Values /\ taken' \in BOOLEAN
      /\ outcome' \in {"open", "left"} /\ (taken => taken')
      /\ ~taken' => FALSE \in Matched(arm, top) /\ top' = top /\ outcome' = "open"
  BY <1>0, RunsKeepsTypes DEF MatchInv
<1>2. arm.kind \in {"default", "Ok", "Err", "Some", "None", "type", "literal"}
  BY ArmsAre
<1>3. MatchTypeOK'
  BY <1>0, <1>1, <1>2 DEF MatchTypeOK, Alternatives
<1>4. ASSUME ~taken'
      PROVE  /\ outcome' # "left" /\ "default" \notin seen'
             /\ Has[<<top, target>>]' /\ MaskIn[<<target, top.base>>]'
             /\ "Ok" \in seen' => target'.base = "Result" /\ top'.parts = <<>>
             /\ "Err" \in seen' => target'.base = "Result" /\ top'.parts # <<>>
             /\ "Some" \in seen' => target'.base = "Option" /\ top'.parts = <<>>
             /\ "None" \in seen' => target'.base = "Option" /\ top'.parts # <<>>
             /\ \A t \in covered' : t.base # top'.base
  <2>1. /\ ~taken /\ top' = top /\ target' = target /\ outcome' = "open"
        /\ FALSE \in Matched(arm, top)
    BY <1>1, <1>4
  <2>2. /\ "default" \notin seen
        /\ Has[<<top, target>>] /\ MaskIn[<<target, top.base>>]
        /\ "Ok" \in seen => target.base = "Result" /\ top.parts = <<>>
        /\ "Err" \in seen => target.base = "Result" /\ top.parts # <<>>
        /\ "Some" \in seen => target.base = "Option" /\ top.parts = <<>>
        /\ "None" \in seen => target.base = "Option" /\ top.parts # <<>>
    BY <2>1 DEF MatchInv
  <2>3. arm.kind # "default"
    BY <2>1, MatchedIs
  <2>w. target.base \in {"Result", "Option"} => top.base = target.base
    <3>1. top \in Values /\ target \in TypeRecords
      BY <1>0, MatchesAssumption DEF MatchTypeOK
    <3> QED BY <2>2, <3>1, Wrapped
  <2>m. /\ arm.kind \in {"Ok", "Some"} => ~(top.base = arm.of /\ top.parts # <<>>)
        /\ arm.kind \in {"Err", "None"} => ~(top.base = arm.of /\ top.parts = <<>>)
    BY <2>1, MatchedIs
  <2>4. arm.kind = "Ok" => target.base = "Result" /\ top.parts = <<>>
    BY <2>w, <2>m, ArmsAre
  <2>5. arm.kind = "Err" => target.base = "Result" /\ top.parts # <<>>
    BY <2>w, <2>m, ArmsAre
  <2>6. arm.kind = "Some" => target.base = "Option" /\ top.parts = <<>>
    BY <2>w, <2>m, ArmsAre
  <2>7. arm.kind = "None" => target.base = "Option" /\ top.parts # <<>>
    BY <2>w, <2>m, ArmsAre
  <2>8. \A t \in covered' : t.base # top'.base
    BY <2>1
  <2> QED BY <2>1, <2>2, <2>3, <2>4, <2>5, <2>6, <2>7, <2>8
<1>5. ("unions" \in MatchIdioms \/ ~IsNested(target')) /\ target'.base # "Any"
  BY <1>1 DEF MatchInv
<1>6. SomeArmIsTaken'
  BY <1>1, <1>3 DEF SomeArmIsTaken
<1> QED BY <1>4, <1>5, <1>6 DEF MatchInv, IsNested

\* Alternatives of a type that is not nested have the mask they are found by.
LEMMA AlternativeHasMask ==
    ASSUME target \in TypeRecords, ~IsNested(target), NEW m \in Masks,
           NEW i \in DOMAIN Alternatives(target), MaskIn[<<Alternatives(target)[i], m>>]
    PROVE  Alternatives(target)[i].base = m
<1> DEFINE a == Alternatives(target)[i]
<1>1. a \in TypeRecords /\ a.base # "Union"
  BY AlternativesAre, PartsAreTypes DEF IsNested
<1> HIDE DEF Masks
<1> QED BY <1>1, MaskInIs

LEMMA CoverageStays ==
    ASSUME MatchTypeOK, NEW m \in Masks
    PROVE  /\ Coverage(m)[Len(Alternatives(target))]
                \subseteq {Alternatives(target)[i] : i \in DOMAIN Alternatives(target)}
           /\ \A t \in Coverage(m)[Len(Alternatives(target))] :
                 t \in covered \/ \E i \in DOMAIN Alternatives(target) :
                                      t = Alternatives(target)[i] /\ MaskIn[<<t, m>>]
<1>1. target \in TypeRecords
  BY MatchesAssumption DEF MatchTypeOK
<1>2. DOMAIN Alternatives(target) = 1 .. Len(Alternatives(target))
      /\ \A i \in DOMAIN Alternatives(target) : Alternatives(target)[i] \in TypeRecords
  BY <1>1, AlternativesAre, ElementOfSeq
<1>3. covered \subseteq TypeRecords
  BY <1>2 DEF MatchTypeOK
<1>4. CoveredUpTo(Coverage(m)[Len(Alternatives(target))], m, Len(Alternatives(target)))
  BY <1>1, <1>3, CoverageIs
<1> HIDE DEF Masks
<1> QED BY <1>2, <1>4 DEF CoveredUpTo, MatchTypeOK

LEMMA TypeArmKeepsInv ==
    ASSUME PlainTargets, MatchInv, NEW m \in DOMAIN Bit \ Nameless, TypeArm(m)
    PROVE  MatchInv'
<1> DEFINE arm == [kind |-> "type", of |-> m]
           c == Coverage(m)[Len(Alternatives(target))]
<1>1. m \in Masks /\ outcome = "open" /\ seen' = seen \union {"type"} /\ covered' = c /\ Runs(arm)
      /\ Bit[m] < OperandBits
  BY DEF TypeArm, PlainTargets, Masks
<1>2. MatchTypeOK /\ target \in TypeRecords /\ ~IsNested(target)
  BY MatchesAssumption DEF MatchInv, SomeArmIsTaken, MatchTypeOK, PlainTargets
<1>3. c \subseteq {Alternatives(target)[i] : i \in DOMAIN Alternatives(target)}
      /\ \A t \in c : t \in covered \/ \E i \in DOMAIN Alternatives(target) :
                                      t = Alternatives(target)[i] /\ MaskIn[<<t, m>>]
  BY <1>1, <1>2, CoverageStays
<1> HIDE DEF c, Masks
<1>4. arm \in Arms /\ arm.kind = "type" /\ arm.of = m
  BY <1>1 DEF Arms
<1>5. ASSUME ~taken, FALSE \in Matched(arm, top) PROVE \A t \in covered' : t.base # top.base
  <2>1. top.base # m
    BY <1>1, <1>4, <1>5, MatchedIs
  <2>2. \A t \in covered : t.base # top.base
    BY <1>5 DEF MatchInv
  <2>3. \A t \in c : t \in covered \/ t.base = m
    <3> SUFFICES ASSUME NEW t \in c, t \notin covered PROVE t.base = m
      OBVIOUS
    <3>1. PICK i \in DOMAIN Alternatives(target) : t = Alternatives(target)[i] /\ MaskIn[<<t, m>>]
      BY <1>3
    <3>2. MaskIn[<<Alternatives(target)[i], m>>]
      BY <3>1
    <3>3. Alternatives(target)[i].base = m
      BY <1>1, <1>2, <3>2, AlternativeHasMask
    <3> QED BY <3>1, <3>3
  <2> QED BY <1>1, <2>1, <2>2, <2>3
<1> HIDE DEF arm
<1> QED BY <1>1, <1>3, <1>4, <1>5, ArmKeepsInv

LEMMA SomeAlternativeIsLeft ==
    ASSUME MatchTypeOK, ~IsNested(target), MaskIn[<<target, top.base>>], AllCovered
    PROVE  \E t \in covered : t.base = top.base
<1> DEFINE a == Alternatives(target)
           m == top.base
<1>0. target \in TypeRecords /\ m \in Masks /\ m # "Union"
  BY MatchesAssumption, ValuesAssumption DEF MatchTypeOK, Masks
<1>1. a \in Seq(TypeRecords) /\ Len(a) \in Nat /\ DOMAIN a = 1 .. Len(a)
  BY <1>0, AlternativesAre
<1>2. covered \subseteq {a[i] : i \in DOMAIN a}
  BY DEF MatchTypeOK
<1> HIDE DEF m, Masks
<1>3. CASE target.base # "Union"
  <2>1. covered # {}
    BY <1>3 DEF AllCovered
  <2>2. PICK t \in covered : TRUE
    BY <2>1
  <2>3. t = target
    BY <1>0, <1>2, <1>3, AlternativesAre
  <2>4. target.base = m
    BY <1>0, <1>3, MaskInIs DEF m
  <2> QED BY <2>2, <2>3, <2>4 DEF m
<1>4. CASE target.base = "Union"
  <2>1. a = target.parts
    BY <1>4 DEF Alternatives
  <2>2. MaskIn[<<target, m>>]
    BY DEF m
  <2>3. PICK i \in DOMAIN target.parts : MaskIn[<<target.parts[i], m>>]
    BY <1>0, <1>4, <2>2, MaskInIs
  <2>4. i \in DOMAIN a /\ MaskIn[<<a[i], m>>]
    BY <2>1, <2>3
  <2>5. a[i].base = m
    BY <1>0, <2>4, AlternativeHasMask
  <2>6. ASSUME a[i] \notin covered PROVE FALSE
    <3> DEFINE n == Len(a)
               T == (1 .. n) \ {i}
               f == [t \in covered |-> CHOOSE j \in DOMAIN a : a[j] = t]
    <3>1. \A t \in covered : f[t] \in DOMAIN a /\ a[f[t]] = t
      BY <1>2
    <3>2. \A t \in covered : f[t] # i
      BY <2>6, <3>1
    <3>3. f \in [covered -> T]
      <4>1. \A t \in covered : f[t] \in T
        BY <1>1, <3>1, <3>2
      <4> QED BY <4>1
    <3> HIDE DEF f
    <3>4. \A t \in covered, u \in covered : f[t] = f[u] => t = u
      BY <3>1
    <3>n. n \in Nat /\ i \in 1 .. n
      BY <1>1, <2>4
    <3> HIDE DEF a, n
    <3>5. IsFiniteSet(1 .. n) /\ Cardinality(1 .. n) = n
      <4>1. Cardinality(1 .. n) = IF 1 > n THEN 0 ELSE n - 1 + 1
        BY <3>n, FS_Interval
      <4>2. ~(1 > n) /\ n - 1 + 1 = n
        BY <3>n
      <4> QED BY <3>n, <4>1, <4>2, FS_Interval
    <3>6. IsFiniteSet(T) /\ Cardinality(T) = n - 1
      BY <3>n, <3>5, FS_RemoveElement
    <3>7. f \in Injection(covered, T)
      BY <3>3, <3>4 DEF Injection, IsInjective
    <3> HIDE DEF T
    <3>8. IsFiniteSet(covered) /\ Cardinality(covered) <= Cardinality(T)
      BY <3>6, <3>7, FS_Injection
    <3>9. Cardinality(covered) \in Nat
      BY <3>8, FS_CardinalityType
    <3>10. Cardinality(covered) >= n
      BY <1>4, <2>1 DEF AllCovered, n
    <3> QED BY <3>n, <3>6, <3>8, <3>9, <3>10
  <2> QED BY <2>5, <2>6 DEF m
<1> QED BY <1>3, <1>4

LEMMA EndKeepsInv ==
    ASSUME PlainTargets, MatchInv, EndMatch
    PROVE  MatchInv'
<1>0. MatchTypeOK /\ taken \in BOOLEAN
  BY DEF MatchInv, SomeArmIsTaken, MatchTypeOK
<1>1. outcome' = "done" /\ target' = target /\ seen' = seen /\ covered' = covered
      /\ resultant' = resultant /\ top' = top /\ taken' = taken
  BY DEF EndMatch
<1>2. taken
  <2> SUFFICES ASSUME ~taken PROVE FALSE
    OBVIOUS
  <2>1. Exhaustive /\ ~IsNested(target)
    BY DEF EndMatch, MatchInv, PlainTargets
  <2>2. /\ "default" \notin seen /\ MaskIn[<<target, top.base>>]
        /\ "Ok" \in seen => target.base = "Result" /\ top.parts = <<>>
        /\ "Err" \in seen => target.base = "Result" /\ top.parts # <<>>
        /\ "Some" \in seen => target.base = "Option" /\ top.parts = <<>>
        /\ "None" \in seen => target.base = "Option" /\ top.parts # <<>>
        /\ \A t \in covered : t.base # top.base
    BY DEF MatchInv
  <2>3. "type" \in seen /\ AllCovered
    BY <2>1, <2>2 DEF Exhaustive
  <2> QED BY <1>0, <2>1, <2>2, <2>3, SomeAlternativeIsLeft
<1>3. MatchTypeOK'
  BY <1>0, <1>1 DEF MatchTypeOK, Alternatives
<1>4. ("unions" \in MatchIdioms \/ ~IsNested(target')) /\ target'.base # "Any"
  BY <1>1 DEF MatchInv
<1> QED BY <1>1, <1>2, <1>3, <1>4 DEF MatchInv, SomeArmIsTaken, IsNested

LEMMA MatchStep ==
    ASSUME PlainTargets, MatchInv, [MatchNext]_matchVars
    PROVE  MatchInv'
<1>0. covered \subseteq {Alternatives(target)[i] : i \in DOMAIN Alternatives(target)}
  BY DEF MatchInv, SomeArmIsTaken, MatchTypeOK
<1>c. ~taken => \A t \in covered : t.base # top.base
  BY DEF MatchInv
<1>1. CASE DefaultArm
  <2> DEFINE arm == [kind |-> "default", of |-> "Any"]
  <2>1. arm \in Arms /\ arm.kind = "default"
    BY DEF Arms
  <2>2. outcome = "open" /\ seen' = seen \union {arm.kind} /\ covered' = covered /\ Runs(arm)
    BY <1>1 DEF DefaultArm, Once
  <2> HIDE DEF arm
  <2> QED BY <1>0, <1>c, <2>1, <2>2, ArmKeepsInv
<1>2. ASSUME NEW k, NEW b, <<k, b>> \in ({"Ok", "Err"} \X {"Result"}) \union ({"Some", "None"} \X {"Option"}),
             PartArm(k, b)
      PROVE  MatchInv'
  <2> DEFINE arm == [kind |-> k, of |-> b]
  <2>1. arm \in Arms /\ arm.kind = k /\ arm.of = b
    BY <1>2 DEF Arms
  <2>2. outcome = "open" /\ seen' = seen \union {arm.kind} /\ covered' = covered /\ Runs(arm)
        /\ target.base = arm.of
    BY <1>2 DEF PartArm, Once, MatchInv
  <2> HIDE DEF arm
  <2> QED BY <1>0, <1>c, <2>1, <2>2, ArmKeepsInv
<1>3. ASSUME NEW m \in DOMAIN Bit \ Nameless, TypeArm(m) PROVE MatchInv'
  BY <1>3, TypeArmKeepsInv
<1>4. ASSUME NEW g \in Given, LiteralArm(g) PROVE MatchInv'
  <2> DEFINE arm == [kind |-> "literal", of |-> g.base]
  <2>1. arm \in Arms /\ arm.kind = "literal"
    BY <1>4 DEF Arms
  <2>2. outcome = "open" /\ seen' = seen \union {arm.kind} /\ covered' = covered /\ Runs(arm)
    BY <1>4 DEF LiteralArm
  <2> HIDE DEF arm
  <2> QED BY <1>0, <1>c, <2>1, <2>2, ArmKeepsInv
<1>5. CASE EndMatch
  BY <1>5, EndKeepsInv
<1>6. CASE UNCHANGED matchVars
  BY <1>6 DEF matchVars, MatchInv, SomeArmIsTaken, MatchTypeOK, Alternatives, IsNested
<1> QED BY <1>1, <1>2, <1>3, <1>4, <1>5, <1>6 DEF MatchNext

LEMMA MatchInvHolds == ASSUME PlainTargets PROVE MatchSpec => []MatchInv
<1>1. MatchInit => MatchInv
  BY MatchInvInit
<1>2. MatchInv /\ [MatchNext]_matchVars => MatchInv'
  BY MatchStep
<1> QED BY <1>1, <1>2, PTL DEF MatchSpec

\* A match that compiles has an arm for what its target holds, when it has no
\* arm for a type beyond the operand of OP_TYPE_MATCH and its target is no
\* promoted Float, not of type Any and of no nested union.
THEOREM MatchesRunAnArm ==
    ASSUME PlainTargets
    PROVE  MatchSpec => []SomeArmIsTaken
<1>1. MatchInv => SomeArmIsTaken
  BY DEF MatchInv
<1> QED BY <1>1, MatchInvHolds, PTL

(***************************************************************************)
(* Match expressions: the type of what is left.                            *)
(***************************************************************************)

\* Once an arm was taken the value has the type of the whole.
TypedMatch ==
    /\ MatchInv
    /\ taken /\ outcome # "left" => resultant \notin {Unknown, Never} /\ Has[<<top, resultant>>]

Leaves(b, g) == b.leaves = {g} /\ g \in Values /\ Has[<<g, b.type>>] /\ b.type # Never

\* What an arm gives has the type it is taken to produce.
LEMMA ScalarFits ==
    ASSUME NEW b \in Scalars \union {"Error"}, Plain(b) \in Values, Plain(b) \in TypeRecords
    PROVE  Has[<<Plain(b), Plain(b)>>] /\ Plain(b) \notin Vague /\ Plain(b) # Never
<1> DEFINE p == Plain(b)
<1>1. p.base = b /\ p.parts = <<>> /\ p.size = <<>>
  BY DEF Plain, Record
<1>d. DOMAIN p.parts = {}
  <2>1. DOMAIN <<>> = {}
    OBVIOUS
  <2> QED BY <1>1, <2>1
<1>2. ~IsGeneric(p)
  BY <1>1 DEF IsGeneric
<1>3. Any.base = "Any" /\ Unknown.base = "NULL" /\ Never.base = "Never"
  BY PlainBase DEF Any, Unknown, Never
<1>4. p # Any /\ p # Unknown /\ p # Never
  BY <1>1, <1>3 DEF Scalars
<1>5. p \notin Vague
  BY <1>d, <1>2, <1>4, VagueIsOfParts
<1>6. Has[<<p, p>>]
  BY <1>1, <1>d, HasByBase DEF Scalars, Elements
<1> QED BY <1>4, <1>5, <1>6

LEMMA BodyFits ==
    ASSUME MatchIdioms = {}, NEW arm \in Arms, top \in Values, target \in TypeRecords,
           Has[<<top, target>>], TRUE \in Matched(arm, top),
           arm.kind \in {"Ok", "Err", "Some", "None"} => target.base = arm.of,
           NEW b \in BodiesOf(arm, Bound(arm, top))
    PROVE  \/ b = Body(Never, {})
           \/ \E g : Leaves(b, g) /\ b.type \notin Vague
<1> DEFINE v == Bound(arm, top)
<1>1. \/ \E g \in Given \union {NilT} : b = Body(g, {g})
      \/ b = Body(Never, {})
      \/ \E t \in BoundTypes(arm) : b = Body(t, {v})
  <2> DEFINE A == {Body(g, {g}) : g \in Given \union {NilT}}
             C == {Body(t, {v}) : t \in BoundTypes(arm)}
  <2>1. b \in A \union {Body(Never, {})} \union C
    BY DEF BodiesOf
  <2> HIDE DEF v
  <2> QED BY <2>1
<1>2. ASSUME NEW g \in Given \union {NilT}, b = Body(g, {g}) PROVE Leaves(b, g) /\ b.type \notin Vague
  <2>1. \E s \in Scalars : g = Plain(s) /\ g \in Values /\ g \in TypeRecords
    BY MatchesAssumption DEF NilT, Scalars
  <2>2. Has[<<g, g>>] /\ g \notin Vague /\ g # Never /\ g \in Values
    BY <2>1, ScalarFits
  <2> QED BY <1>2, <2>2 DEF Leaves, Body
<1>3. ASSUME NEW t \in BoundTypes(arm), b = Body(t, {v}) PROVE Leaves(b, v) /\ b.type \notin Vague
  <2>1. CASE arm.kind = "Err"
    <3>1. t = Plain("Error") /\ v = Plain("Error")
      BY <1>3, <2>1 DEF BoundTypes, Bound
    <3>2. Plain("Error") \in Values /\ Plain("Error") \in TypeRecords
      BY MatchesAssumption
    <3>3. Has[<<v, t>>] /\ t \notin Vague /\ t # Never /\ v \in Values
      BY <3>1, <3>2, ScalarFits
    <3> HIDE DEF v
    <3> QED BY <1>3, <3>3 DEF Leaves, Body
  <2>2. CASE arm.kind \in {"Ok", "Some"}
    <3>1. t = target.parts[1] /\ t \notin Vague /\ v = top.parts[1]
      BY <1>3, <2>2 DEF BoundTypes, Bound
    <3>2. target.base \in {"Result", "Option"} /\ top.parts # <<>>
      BY ZenonT(40), <2>2, ArmsAre, MatchedIs
    <3>3. v \in Values /\ t \in TypeRecords /\ Has[<<v, t>>]
      BY <3>1, <3>2, Wrapped
    <3>4. t # Never
      <4>1. Never.base = "Never" /\ v.base # "Never"
        BY <3>3, PlainBase, ValuesAssumption DEF Never
      <4> HIDE DEF v
      <4>2. t.base = "Never" => v.base = t.base
        BY <3>3, HasByBase DEF Elements
      <4> QED BY <4>1, <4>2
    <3> HIDE DEF v
    <3> QED BY <1>3, <3>1, <3>3, <3>4 DEF Leaves, Body
  <2>3. CASE arm.kind \notin {"Ok", "Some", "Err"}
    BY <1>3, <2>3 DEF BoundTypes
  <2> QED BY <2>1, <2>2, <2>3
<1> QED BY <1>1, <1>2, <1>3

\* What the arms agree on includes what each gives.
LEMMA ProducesWhatFits ==
    ASSUME MatchIdioms = {}, resultant \in TypeRecords, NEW t \in TypeRecords, t \notin Vague, t # Never,
           NEW v \in Values, Has[<<v, t>>], NEW r \in Produces(t)
    PROVE  r \notin {Unknown, Never} /\ Has[<<v, r>>]
<1>1. t # Unknown /\ t # Any
  BY VagueIsOfParts
<1>2. CASE resultant \in {Unknown, Never}
  BY <1>1, <1>2 DEF Produces
<1>3. CASE resultant \notin {Unknown, Never}
  <2>1. r = resultant /\ (resultant = Any \/ Compatible[<<resultant, t>>])
    BY <1>1, <1>3 DEF Produces
  <2>2. CASE resultant = Any
    <3>1. resultant.base = "Any"
      BY <2>2, PlainBase DEF Any
    <3>2. Has[<<v, resultant>>]
      BY <3>1, HasByBase
    <3> QED BY <1>3, <2>1, <3>2
  <2>3. CASE Compatible[<<resultant, t>>]
    <3>1. ArgumentsAreTyped
      BY MatchesAssumption
    <3>2. Includes(resultant, t)
      BY <2>3, <3>1, CompatibleIncludes
    <3> QED BY <1>3, <2>1, <3>2 DEF Includes
  <2> QED BY <2>1, <2>2, <2>3
<1> QED BY <1>2, <1>3

LEMMA RunsKeepsTyped ==
    ASSUME MatchIdioms = {}, TypedMatch, NEW arm \in Arms, Runs(arm), outcome = "open",
           arm.kind \in {"Ok", "Err", "Some", "None"} => target.base = arm.of
    PROVE  taken' /\ outcome' # "left" => resultant' \notin {Unknown, Never} /\ Has[<<top', resultant'>>]
<1>0. /\ MatchTypeOK /\ target \in TypeRecords /\ top \in Values /\ resultant \in TypeRecords
      /\ taken \in BOOLEAN
  BY MatchesAssumption DEF TypedMatch, MatchInv, SomeArmIsTaken, MatchTypeOK
<1>1. PICK runs \in IF taken THEN {FALSE} ELSE Matched(arm, top) :
          \E body \in BodiesOf(arm, IF runs THEN Bound(arm, top) ELSE top) :
               /\ resultant' \in Produces(body.type)
               /\ taken' = (taken \/ runs)
               /\ IF runs /\ body.leaves # {} THEN top' \in body.leaves ELSE top' = top
               /\ outcome' = IF runs /\ body.leaves = {} THEN "left" ELSE outcome
               /\ UNCHANGED target
  BY DEF Runs
<1>b. runs \in BOOLEAN
  BY <1>1, MatchedIs
<1>2. CASE runs
  <2>1. ~taken /\ TRUE \in Matched(arm, top) /\ Has[<<top, target>>]
    BY <1>0, <1>1, <1>2, <1>b DEF TypedMatch, MatchInv
  <2>2. PICK body \in BodiesOf(arm, Bound(arm, top)) :
               /\ resultant' \in Produces(body.type)
               /\ IF body.leaves # {} THEN top' \in body.leaves ELSE top' = top
               /\ outcome' = IF body.leaves = {} THEN "left" ELSE outcome
    BY <1>1, <1>2
  <2>3. CASE body = Body(Never, {})
    BY <2>2, <2>3 DEF Body
  <2>4. ASSUME NEW g, Leaves(body, g), body.type \notin Vague
        PROVE  resultant' \notin {Unknown, Never} /\ Has[<<top', resultant'>>]
    <3>1. top' = g /\ g \in Values /\ Has[<<g, body.type>>] /\ body.type # Never
      BY <2>2, <2>4 DEF Leaves
    <3>2. body.type \in TypeRecords
      <4>1. Bound(arm, top) \in Values
        BY <1>0, <2>1, ArmBinds
      <4> QED BY <1>0, <4>1, BodiesAre DEF IsBody
    <3> QED BY <1>0, <2>2, <2>4, <3>1, <3>2, ProducesWhatFits
  <2>5. body = Body(Never, {}) \/ \E g : Leaves(body, g) /\ body.type \notin Vague
    BY <1>0, <2>1, BodyFits
  <2> QED BY <2>3, <2>4, <2>5
<1>3. CASE ~runs
  <2>1. taken' => taken /\ resultant \notin {Unknown, Never} /\ Has[<<top, resultant>>]
    BY <1>0, <1>1, <1>3 DEF TypedMatch
  <2>2. top' = top
    BY <1>1, <1>3
  <2>3. resultant \notin {Unknown, Never} => resultant' = resultant
    BY <1>1 DEF Produces
  <2> QED BY <2>1, <2>2, <2>3
<1> QED BY <1>2, <1>3, <1>b

LEMMA TypedMatchStep ==
    ASSUME MatchIdioms = {}, TypedMatch, [MatchNext]_matchVars
    PROVE  TypedMatch'
<1>0. PlainTargets /\ MatchInv
  BY DEF PlainTargets, TypedMatch
<1>i. MatchInv'
  BY <1>0, MatchStep
<1>k. (taken' /\ outcome' # "left" => resultant' \notin {Unknown, Never} /\ Has[<<top', resultant'>>])
          => TypedMatch'
  BY <1>i DEF TypedMatch
<1>1. CASE DefaultArm
  <2> DEFINE arm == [kind |-> "default", of |-> "Any"]
  <2>1. arm \in Arms /\ arm.kind = "default"
    BY DEF Arms
  <2>2. outcome = "open" /\ Runs(arm)
    BY <1>1 DEF DefaultArm, Once
  <2> HIDE DEF arm
  <2> QED BY <1>k, <2>1, <2>2, RunsKeepsTyped
<1>2. ASSUME NEW k, NEW b, <<k, b>> \in ({"Ok", "Err"} \X {"Result"}) \union ({"Some", "None"} \X {"Option"}),
             PartArm(k, b)
      PROVE  TypedMatch'
  <2> DEFINE arm == [kind |-> k, of |-> b]
  <2>1. arm \in Arms /\ arm.kind = k /\ arm.of = b
    BY <1>2 DEF Arms
  <2>2. outcome = "open" /\ Runs(arm) /\ target.base = arm.of
    BY <1>0, <1>2 DEF PartArm, Once, MatchInv
  <2> HIDE DEF arm
  <2> QED BY <1>k, <2>1, <2>2, RunsKeepsTyped
<1>3. ASSUME NEW m \in DOMAIN Bit \ Nameless, TypeArm(m) PROVE TypedMatch'
  <2> DEFINE arm == [kind |-> "type", of |-> m]
  <2>1. arm \in Arms /\ arm.kind = "type"
    BY DEF Arms, Masks
  <2>2. outcome = "open" /\ Runs(arm)
    BY <1>3 DEF TypeArm
  <2> HIDE DEF arm
  <2> QED BY <1>k, <2>1, <2>2, RunsKeepsTyped
<1>4. ASSUME NEW g \in Given, LiteralArm(g) PROVE TypedMatch'
  <2> DEFINE arm == [kind |-> "literal", of |-> g.base]
  <2>1. arm \in Arms /\ arm.kind = "literal"
    BY <1>4 DEF Arms
  <2>2. outcome = "open" /\ Runs(arm)
    BY <1>4 DEF LiteralArm
  <2> HIDE DEF arm
  <2> QED BY <1>k, <2>1, <2>2, RunsKeepsTyped
<1>5. CASE EndMatch
  BY <1>5, <1>k DEF EndMatch, TypedMatch
<1>6. CASE UNCHANGED matchVars
  BY <1>6, <1>k DEF matchVars, TypedMatch
<1> QED BY <1>1, <1>2, <1>3, <1>4, <1>5, <1>6 DEF MatchNext

\* The value a match leaves has the type that the compiler goes on with, when
\* the program has none of the idioms.
THEOREM MatchesAgree ==
    ASSUME MatchIdioms = {}
    PROVE  MatchSpec => []ResultHasItsType
<1>1. PlainTargets
  BY DEF PlainTargets
<1>2. MatchInit => TypedMatch
  <2> HAVE MatchInit
  <2> QED BY <1>1, MatchInvInit DEF MatchInit, TypedMatch
<1>3. TypedMatch /\ [MatchNext]_matchVars => TypedMatch'
  BY TypedMatchStep
<1>4. TypedMatch => ResultHasItsType
  BY DEF TypedMatch, MatchInv, SomeArmIsTaken, ResultHasItsType
<1> QED BY <1>2, <1>3, <1>4, PTL DEF MatchSpec

=============================================================================
