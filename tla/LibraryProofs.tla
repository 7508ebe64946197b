---------------------------- MODULE LibraryProofs ----------------------------
(***************************************************************************)
(* Of the standard library: files, the sort of arrays, and arrays.  The    *)
(* three share no state; each has its part below.                          *)
(*                                                                         *)
(* Files, for any paths, handles, texts and offsets: no call leaks a       *)
(* descriptor; and, where the disk does not fill up and no file is copied  *)
(* onto itself, what a call answers to have done is done.                  *)
(***************************************************************************)
EXTENDS Files, Sorting, Arrays, ProofBasics

-----------------------------------------------------------------------------
(***************************************************************************)
(* Texts.                                                                  *)
(***************************************************************************)
LEMMA MaxOfTwo ==
    ASSUME NEW a \in Nat, NEW b \in Nat
    PROVE  Fs!Max({a, b}) = IF a >= b THEN a ELSE b
<1>1. \E x \in {a, b} : \A y \in {a, b} : x >= y
  OBVIOUS
<1>2. Fs!Max({a, b}) \in {a, b} /\ \A y \in {a, b} : Fs!Max({a, b}) >= y
  BY <1>1 DEF Fs!Max
<1> QED BY <1>2

LEMMA MinIsLeast ==
    ASSUME NEW S \in SUBSET Nat, S # {}
    PROVE  Fs!Min(S) \in S /\ \A y \in S : Fs!Min(S) <= y
<1>1. \E x \in S : \A y \in S : x <= y
  BY LeastNat
<1> QED BY <1>1 DEF Fs!Min

\* The first n bytes of a text, and the rest.
LEMMA Cut ==
    ASSUME NEW s \in Seq(Int), NEW n \in 0 .. Len(s)
    PROVE  /\ SubSeq(s, 1, n) \in Seq(Int) /\ Len(SubSeq(s, 1, n)) = n
           /\ \A i \in 1 .. n : SubSeq(s, 1, n)[i] = s[i]
           /\ SubSeq(s, n+1, Len(s)) \in Seq(Int)
           /\ Len(SubSeq(s, n+1, Len(s))) = Len(s) - n
           /\ n = Len(s) => SubSeq(s, 1, n) = s /\ SubSeq(s, n+1, Len(s)) = <<>>
           /\ n = 0 => SubSeq(s, 1, n) = <<>> /\ SubSeq(s, n+1, Len(s)) = s
<1>1. /\ Len(s) \in Nat /\ n \in Nat /\ n <= Len(s)
      /\ \A i \in 1 .. Len(s) : s[i] \in Int
  BY LenProperties, ElementOfSeq
<1>2. /\ SubSeq(s, 1, n) \in Seq(Int) /\ Len(SubSeq(s, 1, n)) = n
      /\ \A i \in 1 .. n : SubSeq(s, 1, n)[i] = s[i]
  BY Prefix
<1>3. \A i \in n+1 .. Len(s) : s[i] \in Int
  BY <1>1
<1>4. /\ SubSeq(s, n+1, Len(s)) \in Seq(Int)
      /\ Len(SubSeq(s, n+1, Len(s))) = IF n+1 <= Len(s) THEN Len(s) - (n+1) + 1 ELSE 0
      /\ \A i \in 1 .. Len(s) - (n+1) + 1 :
            SubSeq(s, n+1, Len(s))[i] = s[n+1 + i - 1]
  BY <1>1, <1>3, SubSeqProperties
<1>5. Len(SubSeq(s, n+1, Len(s))) = Len(s) - n
  BY <1>1, <1>4
<1>6. ASSUME n = Len(s)
      PROVE  SubSeq(s, 1, n) = s /\ SubSeq(s, n+1, Len(s)) = <<>>
  <2>1. SubSeq(s, 1, n) = s
    BY <1>2, <1>6, SeqEqual
  <2>2. Len(SubSeq(s, n+1, Len(s))) = 0
    BY <1>1, <1>5, <1>6
  <2> QED BY <2>1, <2>2, <1>4, EmptySeq
<1>7. ASSUME n = 0
      PROVE  SubSeq(s, 1, n) = <<>> /\ SubSeq(s, n+1, Len(s)) = s
  <2>1. SubSeq(s, 1, n) = <<>>
    BY <1>2, <1>7, EmptySeq
  <2>2. \A i \in 1 .. Len(s) : SubSeq(s, n+1, Len(s))[i] = s[i]
    BY <1>1, <1>4, <1>7
  <2>3. Len(SubSeq(s, n+1, Len(s))) = Len(s)
    BY <1>1, <1>5, <1>7
  <2>4. SubSeq(s, n+1, Len(s)) = s
    BY <1>4, <2>2, <2>3, SeqEqual
  <2> QED BY <2>1, <2>4
<1> QED BY <1>2, <1>4, <1>5, <1>6, <1>7

\* What there is after an offset.
LEMMA Tails ==
    ASSUME NEW s \in Seq(Int), NEW at \in Nat
    PROVE  /\ SubSeq(s, at+1, Len(s)) \in Seq(Int)
           /\ at <= Len(s) => Len(SubSeq(s, at+1, Len(s))) = Len(s) - at
<1>1. Len(s) \in Nat /\ \A i \in 1 .. Len(s) : s[i] \in Int
  BY LenProperties, ElementOfSeq
<1>2. \A i \in at+1 .. Len(s) : s[i] \in Int
  BY <1>1
<1>3. /\ SubSeq(s, at+1, Len(s)) \in Seq(Int)
      /\ Len(SubSeq(s, at+1, Len(s))) =
            IF at+1 <= Len(s) THEN Len(s) - (at+1) + 1 ELSE 0
  BY <1>1, <1>2, SubSeqProperties
<1> QED BY <1>1, <1>3

\* What writing at an offset gives.
Longer(a, b) == IF a >= b THEN a ELSE b

LEMMA OverlayIs ==
    ASSUME NEW bytes \in Seq(Int), NEW at \in Nat, NEW text \in Seq(Int), text # <<>>
    PROVE  LET o == Overlay(bytes, at, text)
           IN  /\ o \in Seq(Int) /\ Len(o) = Longer(Len(bytes), at + Len(text))
               /\ \A k \in 1 .. Longer(Len(bytes), at + Len(text)) :
                     o[k] = IF k > at /\ k <= at + Len(text) THEN text[k - at]
                            ELSE IF k <= Len(bytes) THEN bytes[k] ELSE Hole
<1> DEFINE n == Longer(Len(bytes), at + Len(text))
           f == [k \in 1 .. n |->
                   IF k - at \in 1 .. Len(text) THEN text[k - at]
                   ELSE IF k \in 1 .. Len(bytes) THEN bytes[k] ELSE Hole]
<1>1. /\ Len(bytes) \in Nat /\ Len(text) \in Nat /\ at + Len(text) \in Nat
      /\ DOMAIN bytes = 1 .. Len(bytes) /\ DOMAIN text = 1 .. Len(text)
  BY LenProperties
<1>2. n \in Nat /\ Fs!Max({Len(bytes), at + Len(text)}) = n
  BY <1>1, MaxOfTwo DEF Longer
<1>3. Overlay(bytes, at, text) = f
  BY <1>1, <1>2 DEF Overlay
<1>n. n = Longer(Len(bytes), at + Len(text))
  OBVIOUS
<1> HIDE DEF n
<1>4. \A k \in 1 .. n : f[k] \in Int
  <2>1. \A k \in 1 .. Len(text) : text[k] \in Int
    BY ElementOfSeq
  <2>2. \A k \in 1 .. Len(bytes) : bytes[k] \in Int
    BY ElementOfSeq
  <2>3. Hole \in Int
    BY InputsAssumption
  <2> QED BY <2>1, <2>2, <2>3, <1>1
<1>5. f \in Seq(Int) /\ Len(f) = n
  BY <1>2, <1>4, FunSeq
<1>6. \A k \in 1 .. n : f[k] = IF k > at /\ k <= at + Len(text) THEN text[k - at]
                               ELSE IF k <= Len(bytes) THEN bytes[k] ELSE Hole
  BY <1>1, <1>2
<1> HIDE DEF f
<1> QED BY <1>3, <1>5, <1>6, <1>n

LEMMA OverlayType ==
    ASSUME NEW bytes \in Seq(Int), NEW at \in Nat, NEW text \in Seq(Int)
    PROVE  Overlay(bytes, at, text) \in Seq(Int)
<1>1. CASE text = <<>>
  BY <1>1 DEF Overlay
<1>2. CASE text # <<>>
  BY <1>2, OverlayIs
<1> QED BY <1>1, <1>2

\* Two pieces, one behind the other, are written at once or one by one.
LEMMA OverlayTwice ==
    ASSUME NEW bytes \in Seq(Int), NEW at \in Nat,
           NEW s \in Seq(Int), NEW t \in Seq(Int)
    PROVE  Overlay(bytes, at, s \o t) = Overlay(Overlay(bytes, at, s), at + Len(s), t)
<1>0. /\ Len(bytes) \in Nat /\ Len(s) \in Nat /\ Len(t) \in Nat /\ at + Len(s) \in Nat
      /\ Overlay(bytes, at, s) \in Seq(Int)
  BY LenProperties, OverlayType
<1>1. CASE t = <<>>
  <2>1. s \o t = s
    BY <1>1, ConcatEmptySeq
  <2> QED BY <1>1, <2>1 DEF Overlay
<1>2. CASE s = <<>>
  <2>1. s \o t = t /\ Len(s) = 0
    BY <1>2, ConcatEmptySeq, EmptySeq
  <2>2. at + Len(s) = at
    BY <2>1
  <2> QED BY <1>2, <2>1, <2>2 DEF Overlay
<1>3. CASE s # <<>> /\ t # <<>>
  <2> DEFINE o == Overlay(bytes, at, s)
             a == Overlay(bytes, at, s \o t)
             b == Overlay(o, at + Len(s), t)
             n == Longer(Len(bytes), at + (Len(s) + Len(t)))
  <2>1. /\ s \o t \in Seq(Int) /\ Len(s \o t) = Len(s) + Len(t)
        /\ \A i \in 1 .. Len(s) + Len(t) :
              (s \o t)[i] = IF i <= Len(s) THEN s[i] ELSE t[i - Len(s)]
    BY ConcatProperties
  <2>2. Len(s) > 0 /\ Len(t) > 0 /\ s \o t # <<>>
    <3>1. Len(s) > 0 /\ Len(t) > 0
      BY <1>3, EmptySeq
    <3> QED BY <3>1, <2>1, <1>0, EmptySeq
  <2>3. /\ o \in Seq(Int) /\ Len(o) = Longer(Len(bytes), at + Len(s))
        /\ \A k \in 1 .. Longer(Len(bytes), at + Len(s)) :
              o[k] = IF k > at /\ k <= at + Len(s) THEN s[k - at]
                     ELSE IF k <= Len(bytes) THEN bytes[k] ELSE Hole
    BY <1>3, OverlayIs
  <2>4. /\ a \in Seq(Int) /\ Len(a) = n
        /\ \A k \in 1 .. n :
              a[k] = IF k > at /\ k <= at + (Len(s) + Len(t)) THEN (s \o t)[k - at]
                     ELSE IF k <= Len(bytes) THEN bytes[k] ELSE Hole
    <3> DEFINE u == s \o t
    <3>1. u \in Seq(Int) /\ u # <<>> /\ Len(u) = Len(s) + Len(t)
      BY <2>1, <2>2
    <3> HIDE DEF u
    <3>2. /\ Overlay(bytes, at, u) \in Seq(Int)
          /\ Len(Overlay(bytes, at, u)) = Longer(Len(bytes), at + Len(u))
          /\ \A k \in 1 .. Longer(Len(bytes), at + Len(u)) :
                Overlay(bytes, at, u)[k] =
                   IF k > at /\ k <= at + Len(u) THEN u[k - at]
                   ELSE IF k <= Len(bytes) THEN bytes[k] ELSE Hole
      BY <3>1, OverlayIs
    <3>3. /\ Overlay(bytes, at, u) \in Seq(Int)
          /\ Len(Overlay(bytes, at, u)) = n
          /\ \A k \in 1 .. n :
                Overlay(bytes, at, u)[k] =
                   IF k > at /\ k <= at + (Len(s) + Len(t)) THEN u[k - at]
                   ELSE IF k <= Len(bytes) THEN bytes[k] ELSE Hole
      BY <3>1, <3>2
    <3> QED BY <3>3 DEF u
  <2> HIDE DEF o
  <2>5. /\ b \in Seq(Int) /\ Len(b) = Longer(Len(o), (at + Len(s)) + Len(t))
        /\ \A k \in 1 .. Longer(Len(o), (at + Len(s)) + Len(t)) :
              b[k] = IF k > at + Len(s) /\ k <= (at + Len(s)) + Len(t)
                     THEN t[k - (at + Len(s))]
                     ELSE IF k <= Len(o) THEN o[k] ELSE Hole
    BY <1>0, <1>3, <2>3, OverlayIs
  <2>n. n = Longer(Len(bytes), at + (Len(s) + Len(t)))
    OBVIOUS
  <2> HIDE DEF a, b, n
  <2>6. n \in Nat /\ Longer(Len(o), (at + Len(s)) + Len(t)) = n /\ Len(o) \in Nat
    BY SMTT(30), <1>0, <2>2, <2>3, <2>n DEF Longer
  <2>7. \A k \in 1 .. n : a[k] = b[k]
    <3> SUFFICES ASSUME NEW k \in 1 .. n
                 PROVE  a[k] = b[k]
      OBVIOUS
    <3>1. k \in Nat /\ k >= 1 /\ k <= n
      BY <2>6
    <3>2. CASE k > at + Len(s) /\ k <= (at + Len(s)) + Len(t)
      <4>1. b[k] = t[k - (at + Len(s))]
        BY <2>5, <2>6, <3>2
      <4>0. k > at /\ k <= at + (Len(s) + Len(t))
        BY <1>0, <3>1, <3>2
      <4>2. a[k] = (s \o t)[k - at]
        BY <2>4, <4>0
      <4>3. k - at \in 1 .. Len(s) + Len(t) /\ k - at > Len(s)
        BY <1>0, <3>1, <3>2
      <4>4. (s \o t)[k - at] = t[(k - at) - Len(s)]
        BY <1>0, <2>1, <4>3
      <4>5. (k - at) - Len(s) = k - (at + Len(s))
        BY <1>0, <3>1
      <4> QED BY <4>1, <4>2, <4>4, <4>5
    <3>3. CASE k > at /\ k <= at + Len(s)
      <4>0. k \in 1 .. Len(o) /\ ~(k > at + Len(s))
        BY SMTT(30), <1>0, <2>3, <3>1, <3>3 DEF Longer
      <4>1. b[k] = o[k] /\ k \in 1 .. Len(o)
        BY <2>5, <2>6, <3>1, <4>0
      <4>2. o[k] = s[k - at]
        BY <2>3, <3>3, <4>1
      <4>3. a[k] = (s \o t)[k - at]
        BY <1>0, <2>4, <3>1, <3>3
      <4>4. k - at \in 1 .. Len(s) + Len(t) /\ k - at <= Len(s)
        BY <1>0, <3>1, <3>3
      <4> QED BY <2>1, <4>1, <4>2, <4>3, <4>4
    <3>4. CASE ~(k > at /\ k <= (at + Len(s)) + Len(t))
      <4>1. a[k] = IF k <= Len(bytes) THEN bytes[k] ELSE Hole
        BY <1>0, <2>4, <3>1, <3>4
      <4>2. b[k] = IF k <= Len(o) THEN o[k] ELSE Hole
        BY <1>0, <2>5, <2>6, <3>1, <3>4
      <4>3. ASSUME k <= Len(o)
            PROVE  o[k] = IF k <= Len(bytes) THEN bytes[k] ELSE Hole
        <5>1. ~(k > at /\ k <= at + Len(s))
          BY <1>0, <3>1, <3>4
        <5>2. k \in 1 .. Longer(Len(bytes), at + Len(s))
          BY <2>3, <2>6, <3>1, <4>3
        <5> QED BY <2>3, <5>1, <5>2
      <4>4. k <= Len(bytes) => k <= Len(o)
        BY <1>0, <2>3, <3>1 DEF Longer
      <4>5. CASE k <= Len(o)
        BY <4>1, <4>2, <4>3, <4>5
      <4>6. CASE ~(k <= Len(o))
        BY <4>1, <4>2, <4>4, <4>6
      <4> QED BY <4>5, <4>6
    <3> QED BY <1>0, <3>1, <3>2, <3>3, <3>4
  <2>8. a = b
    BY <2>4, <2>5, <2>6, <2>7, SeqEqual
  <2> QED BY <2>8 DEF a, b, o
<1> QED BY <1>1, <1>2, <1>3

-----------------------------------------------------------------------------
(***************************************************************************)
(* Type correctness and descriptors.                                       *)
(***************************************************************************)
\* The values of a function on a finite set are at most as many.
LEMMA ImageSize ==
    ASSUME NEW S, IsFiniteSet(S), NEW T, NEW f \in [S -> T]
    PROVE  LET I == {f[x] : x \in S}
           IN  IsFiniteSet(I) /\ Cardinality(I) <= Cardinality(S)
<1> DEFINE I == {f[x] : x \in S}
<1>1. f \in [S -> I] /\ \A y \in I : \E x \in S : f[x] = y
  OBVIOUS
<1>2. f \in Surjection(S, I)
  BY <1>1 DEF Surjection
<1> QED BY <1>2, FS_Surjection

OpenHandles == {h \in Handles : stream[h] # Closed}

\* There are enough inodes for every path and every handle.
LEMMA FreshIsFree ==
    ASSUME TypeOK, NEW p \in Paths, entries[p] = None
    PROVE  /\ Fresh \in Inodes
           /\ \A h \in Handles : stream[h] # Closed => stream[h].inode # Fresh
           /\ \A q \in Paths : entries[q] # Fresh
<1> DEFINE names == {entries[q] : q \in Paths \ {p}}
           g == [h \in Handles |-> IF stream[h] = Closed THEN None ELSE stream[h].inode]
           opened == {g[h] : h \in Handles}
<1>1. IsFiniteSet(names) /\ Cardinality(names) < Cardinality(Paths)
  <2> DEFINE Q == Paths \ {p}
             f == [q \in Q |-> entries[q]]
  <2>1. IsFiniteSet(Q) /\ Cardinality(Q) = Cardinality(Paths) - 1
    BY EnoughInodes, FS_RemoveElement
  <2>2. f \in [Q -> Inodes \cup {None, Directory}]
    BY DEF TypeOK
  <2>3. names = {f[q] : q \in Q}
    OBVIOUS
  <2> HIDE DEF f, Q
  <2>q. IsFiniteSet({f[q] : q \in Q}) /\ Cardinality({f[q] : q \in Q}) <= Cardinality(Q)
    BY <2>1, <2>2, ImageSize
  <2> HIDE DEF names
  <2>4. IsFiniteSet(names) /\ Cardinality(names) <= Cardinality(Q)
    BY <2>3, <2>q
  <2>5. Cardinality(names) \in Nat /\ Cardinality(Paths) \in Nat
    BY <2>4, EnoughInodes, FS_CardinalityType
  <2> QED BY <2>1, <2>4, <2>5
<1>2. IsFiniteSet(opened) /\ Cardinality(opened) <= Cardinality(Handles)
  <2>1. g \in [Handles -> {g[h] : h \in Handles}]
    OBVIOUS
  <2> HIDE DEF g
  <2> QED BY <2>1, EnoughInodes, ImageSize
<1> HIDE DEF names, opened
<1>3. IsFiniteSet(names \cup opened) /\ Cardinality(names \cup opened) < Cardinality(Inodes)
  <2>1. /\ IsFiniteSet(names \cup opened)
        /\ Cardinality(names \cup opened) =
              Cardinality(names) + Cardinality(opened) - Cardinality(names \cap opened)
    BY <1>1, <1>2, FS_Union
  <2>2. Cardinality(names) \in Nat /\ Cardinality(opened) \in Nat
    BY <1>1, <1>2, FS_CardinalityType
  <2>3. Cardinality(names \cap opened) \in Nat
    BY <1>1, FS_Intersection, FS_CardinalityType
  <2>4. /\ Cardinality(Paths) \in Nat /\ Cardinality(Handles) \in Nat
        /\ Cardinality(Inodes) \in Nat
    BY EnoughInodes, FS_CardinalityType
  <2> QED BY <1>1, <1>2, <2>1, <2>2, <2>3, <2>4, EnoughInodes
<1>4. PICK i \in Inodes : i \notin names \cup opened
  <2>1. CASE Inodes \subseteq names \cup opened
    <3>1. Cardinality(Inodes) <= Cardinality(names \cup opened)
      BY <1>3, <2>1, FS_Subset
    <3>2. Cardinality(Inodes) \in Nat /\ Cardinality(names \cup opened) \in Nat
      BY <1>3, EnoughInodes, FS_CardinalityType
    <3> QED BY <1>3, <3>1, <3>2
  <2> QED BY <2>1
<1>5. \A q \in Paths : entries[q] # i
  BY <1>4, NamesAssumption DEF names
<1>6. \A h \in Handles : stream[h] # Closed => stream[h].inode # i
  BY <1>4 DEF opened
<1>7. OpenOn(i) = {}
  BY <1>6 DEF OpenOn
<1>8. /\ Fresh \in Inodes /\ OpenOn(Fresh) = {} /\ \A q \in Paths : entries[q] # Fresh
  BY <1>5, <1>7 DEF Fresh
<1> QED BY <1>8 DEF OpenOn

LEMMA StreamParts ==
    ASSUME TypeOK, NEW h \in Handles, stream[h] # Closed
    PROVE  LET s == stream[h]
           IN  /\ s \in Stream /\ s.inode \in Inodes \cup {Directory} /\ s.mode \in Modes
               /\ s.at \in Nat /\ s.pending \in Seq(Int) /\ Len(s.pending) \in Nat
               /\ Len(s.pending) <= s.at
               /\ s.inode = Directory => s.mode = "r" /\ s.pending = <<>>
               /\ s.pending # <<>> => mode_is_writable(s.mode)
<1>1. stream[h] \in Stream
  BY DEF TypeOK
<1>2. /\ stream[h].inode \in Inodes \cup {Directory} /\ stream[h].mode \in Modes
      /\ stream[h].at \in Nat /\ stream[h].pending \in Seq(Int)
  BY <1>1 DEF Stream
<1>3. Len(stream[h].pending) \in Nat
  BY <1>2, LenProperties
<1>4. /\ stream[h].inode = Directory => stream[h].mode = "r"
      /\ Len(stream[h].pending) <= stream[h].at
      /\ stream[h].pending # <<>> => mode_is_writable(stream[h].mode)
  BY DEF TypeOK
<1>5. ~mode_is_writable("r")
  BY DEF mode_is_writable
<1> QED BY <1>1, <1>2, <1>3, <1>4, <1>5

LEMMA BytesType ==
    ASSUME TypeOK, NEW i
    PROVE  Bytes(i) \in Seq(Int) /\ Len(Bytes(i)) \in Nat
<1>1. Bytes(i) \in Seq(Int)
  BY EmptySeq DEF TypeOK, Bytes
<1> QED BY <1>1, LenProperties

LEMMA StartType ==
    ASSUME TypeOK, NEW s \in Stream, Len(s.pending) <= s.at
    PROVE  Start(s) \in Nat
<1>1. s.at \in Nat /\ Len(s.pending) \in Nat
  BY LenProperties DEF Stream
<1> QED BY <1>1, BytesType DEF Start

LEMMA WrittenType ==
    ASSUME TypeOK, NEW s \in Stream, Len(s.pending) <= s.at,
           NEW n \in 0 .. Len(s.pending)
    PROVE  Written(s, n) \in [Inodes -> Seq(Int)]
<1>1. s.pending \in Seq(Int) /\ SubSeq(s.pending, 1, n) \in Seq(Int)
  BY Cut DEF Stream
<1>2. Start(s) \in Nat
  BY StartType
<1>3. \A i \in Inodes : /\ content[i] \in Seq(Int)
                        /\ Overlay(content[i], Start(s), SubSeq(s.pending, 1, n)) \in Seq(Int)
  BY <1>1, <1>2, OverlayType DEF TypeOK
<1> QED BY <1>3 DEF Written

LEMMA ReclaimedType ==
    ASSUME NEW bytes \in [Inodes -> Seq(Int)], NEW names, NEW streams
    PROVE  Reclaimed(bytes, names, streams) \in [Inodes -> Seq(Int)]
BY EmptySeq DEF Reclaimed

\* What a call may do to a stream: TypeOK asks this of the new one.
StreamFits(s) ==
    /\ s \in Stream
    /\ s.inode = Directory => s.mode = "r"
    /\ Len(s.pending) <= s.at
    /\ s.pending # <<>> => mode_is_writable(s.mode)

Names(e) ==
    /\ e \in [Paths -> Inodes \cup {None, Directory}]
    /\ \A p, q \in Paths : e[p] = e[q] => p = q \/ e[p] \notin Inodes

LEMMA Sound ==
    FilesAreSound <=> /\ Names(entries)
                      /\ content \in [Inodes -> Seq(Int)]
                      /\ stream \in [Handles -> Stream \cup {Closed}]
                      /\ \A h \in Handles : stream[h] # Closed => StreamFits(stream[h])
                      /\ descriptors = Cardinality(OpenHandles)
                      /\ descriptors \in 0 .. MaxStreams
<1>1. ASSUME stream \in [Handles -> Stream \cup {Closed}]
      PROVE  \A h \in Handles : stream[h] # Closed => stream[h] \in Stream
  BY <1>1
<1> QED
  BY <1>1 DEF FilesAreSound, TypeOK, NoDescriptorLeaks, Names, StreamFits, OpenHandles

LEMMA SoundNext ==
    ASSUME Names(entries'), content' \in [Inodes -> Seq(Int)],
           stream' \in [Handles -> Stream \cup {Closed}],
           \A h \in Handles : stream'[h] # Closed => StreamFits(stream'[h]),
           descriptors' = Cardinality(OpenHandles'), descriptors' \in 0 .. MaxStreams
    PROVE  FilesAreSound'
<1>1. TypeOK'
  <2>1. \A h \in Handles : stream'[h] # Closed =>
           LET s == stream'[h]
           IN  /\ s.inode = Directory => s.mode = "r"
               /\ Len(s.pending) <= s.at
               /\ s.pending # <<>> => mode_is_writable(s.mode)
    BY DEF StreamFits
  <2> QED BY <2>1 DEF TypeOK, Names
<1>2. NoDescriptorLeaks'
  BY DEF NoDescriptorLeaks, OpenHandles
<1> QED BY <1>1, <1>2 DEF FilesAreSound

\* A call that leaves the streams alone.
LEMMA StreamsStay ==
    ASSUME FilesAreSound, Names(entries'), content' \in [Inodes -> Seq(Int)],
           stream' = stream, descriptors' = descriptors
    PROVE  FilesAreSound'
<1>1. OpenHandles' = OpenHandles
  BY DEF OpenHandles
<1>2. \A h \in Handles : stream'[h] # Closed => StreamFits(stream'[h])
  BY Sound
<1> QED BY <1>1, <1>2, Sound, SoundNext

LEMMA RefusalIsSound ==
    ASSUME FilesAreSound, UNCHANGED <<entries, content, stream, descriptors>>
    PROVE  FilesAreSound'
BY Sound, StreamsStay

\* A call that moves one stream.
LEMMA StreamMoves ==
    ASSUME FilesAreSound, NEW h \in Handles, stream[h] # Closed,
           NEW s, StreamFits(s), stream' = [stream EXCEPT ![h] = s],
           content' \in [Inodes -> Seq(Int)],
           entries' = entries, descriptors' = descriptors
    PROVE  FilesAreSound'
<1>1. s \in Stream /\ s # Closed
  BY ClosedAssumption DEF StreamFits
<1>2. stream \in [Handles -> Stream \cup {Closed}]
  BY Sound
<1>3. stream' \in [Handles -> Stream \cup {Closed}]
  BY <1>1, <1>2
<1>4. \A g \in Handles : stream'[g] = IF g = h THEN s ELSE stream[g]
  BY <1>2
<1>5. OpenHandles' = OpenHandles
  BY <1>1, <1>4 DEF OpenHandles
<1>6. \A g \in Handles : stream'[g] # Closed => StreamFits(stream'[g])
  BY <1>4, Sound
<1> QED BY <1>3, <1>5, <1>6, Sound, SoundNext

LEMMA OpenIsSound ==
    ASSUME FilesAreSound, NEW h \in Handles, NEW p \in Paths, NEW mode \in Modes,
           Open(h, p, mode)
    PROVE  FilesAreSound'
<1>1. CASE Refuse("io")
  BY <1>1, RefusalIsSound DEF Refuse
<1>2. CASE ~Refuse("io")
  <2> DEFINE i == Created(p)
             s == [inode |-> i, mode |-> mode, at |-> 0, pending |-> <<>>]
  <2>1. /\ stream[h] = Closed /\ CanOpen
        /\ ~(entries[p] = Directory /\ mode # "r")
        /\ entries' = [entries EXCEPT ![p] = i]
        /\ \/ content' = [content EXCEPT ![i] = <<>>]
           \/ content' = content
        /\ stream' = [stream EXCEPT ![h] = s]
        /\ descriptors' = descriptors + 1
    BY <1>2 DEF Open
  <2>2. Names(entries) /\ content \in [Inodes -> Seq(Int)] /\ TypeOK
    BY Sound DEF FilesAreSound
  <2>3. /\ i \in Inodes \cup {Directory}
        /\ i = Directory => mode = "r"
        /\ i \in Inodes => \A q \in Paths : entries[q] = i => q = p
    <3>1. CASE entries[p] = None
      <4>1. i = Fresh
        BY <3>1 DEF Created
      <4> QED BY <2>2, <3>1, <4>1, FreshIsFree, NamesAssumption
    <3>2. CASE entries[p] # None
      <4>1. i = entries[p]
        BY <3>2 DEF Created
      <4> QED BY <2>1, <2>2, <3>2, <4>1 DEF Names
    <3> QED BY <3>1, <3>2
  <2> HIDE DEF i
  <2>4. Names(entries')
    <3>1. entries' \in [Paths -> Inodes \cup {None, Directory}]
      BY <2>1, <2>2, <2>3 DEF Names
    <3>2. \A q \in Paths : entries'[q] = IF q = p THEN i ELSE entries[q]
      BY <2>1, <2>2 DEF Names
    <3>3. \A q, r \in Paths : entries[q] = entries[r] => q = r \/ entries[q] \notin Inodes
      BY <2>2 DEF Names
    <3>4. \A q, r \in Paths : entries'[q] = entries'[r] => q = r \/ entries'[q] \notin Inodes
      BY <3>2, <3>3, <2>3
    <3> QED BY <3>1, <3>4 DEF Names
  <2>5. content' \in [Inodes -> Seq(Int)]
    BY <2>1, <2>2, EmptySeq
  <2>6. StreamFits(s) /\ s # Closed
    <3>1. /\ s \in Stream
      BY <2>3, EmptySeq DEF Stream
    <3>2. Len(s.pending) <= s.at
      BY EmptySeq
    <3> QED BY <2>3, <3>1, <3>2, ClosedAssumption DEF StreamFits
  <2> HIDE DEF s
  <2>7. stream \in [Handles -> Stream \cup {Closed}]
    BY Sound
  <2>8. stream' \in [Handles -> Stream \cup {Closed}]
    BY <2>1, <2>6, <2>7 DEF StreamFits
  <2>9. \A g \in Handles : stream'[g] = IF g = h THEN s ELSE stream[g]
    BY <2>1, <2>7
  <2>10. OpenHandles' = OpenHandles \cup {h} /\ h \notin OpenHandles
    BY <2>1, <2>6, <2>9 DEF OpenHandles
  <2>11. /\ descriptors' = Cardinality(OpenHandles')
         /\ descriptors' \in 0 .. MaxStreams
    <3>1. IsFiniteSet(OpenHandles)
      BY EnoughInodes, FS_Subset DEF OpenHandles
    <3>2. Cardinality(OpenHandles \cup {h}) = Cardinality(OpenHandles) + 1
      BY <2>10, <3>1, FS_AddElement
    <3>3. descriptors = Cardinality(OpenHandles) /\ descriptors \in 0 .. MaxStreams
      BY Sound
    <3> QED BY <2>1, <2>10, <3>2, <3>3, InputsAssumption DEF CanOpen
  <2>12. \A g \in Handles : stream'[g] # Closed => StreamFits(stream'[g])
    BY <2>6, <2>9, Sound
  <2> QED BY <2>4, <2>5, <2>8, <2>11, <2>12, SoundNext
<1> QED BY <1>1, <1>2

LEMMA FcloseIsSound ==
    ASSUME FilesAreSound, NEW h \in Handles, stream[h] # Closed, NEW response,
           Fclose(h, response)
    PROVE  FilesAreSound'
<1>1. PICK n \in Takes(Len(stream[h].pending)) :
          /\ stream' = [stream EXCEPT ![h] = Closed]
          /\ content' = Reclaimed(Written(stream[h], n), entries, stream')
          /\ descriptors' = descriptors - 1
          /\ UNCHANGED entries
  BY DEF Fclose
<1>2. TypeOK /\ stream \in [Handles -> Stream \cup {Closed}] /\ Names(entries)
  BY Sound DEF FilesAreSound
<1>3. n \in 0 .. Len(stream[h].pending)
  BY <1>2, StreamParts DEF Takes
<1>4. content' \in [Inodes -> Seq(Int)]
  BY <1>1, <1>2, <1>3, StreamParts, WrittenType, ReclaimedType
<1>5. stream' \in [Handles -> Stream \cup {Closed}]
  BY <1>1, <1>2
<1>6. \A g \in Handles : stream'[g] = IF g = h THEN Closed ELSE stream[g]
  BY <1>1, <1>2
<1>7. OpenHandles' = OpenHandles \ {h} /\ h \in OpenHandles
  BY <1>6 DEF OpenHandles
<1>8. descriptors' = Cardinality(OpenHandles') /\ descriptors' \in 0 .. MaxStreams
  <2>1. IsFiniteSet(OpenHandles)
    BY EnoughInodes, FS_Subset DEF OpenHandles
  <2>2. /\ IsFiniteSet(OpenHandles \ {h})
        /\ Cardinality(OpenHandles \ {h}) = Cardinality(OpenHandles) - 1
    BY <1>7, <2>1, FS_RemoveElement
  <2>3. descriptors = Cardinality(OpenHandles) /\ descriptors \in 0 .. MaxStreams
    BY Sound
  <2>4. Cardinality(OpenHandles \ {h}) \in Nat
    BY <2>2, FS_CardinalityType
  <2> QED BY <1>1, <1>7, <2>2, <2>3, <2>4, InputsAssumption
<1>9. \A g \in Handles : stream'[g] # Closed => StreamFits(stream'[g])
  BY <1>6, Sound
<1> QED BY <1>1, <1>2, <1>4, <1>5, <1>8, <1>9, SoundNext

\* What is kept of a stream when its first n pending bytes are written.
LEMMA KeptFits ==
    ASSUME NEW s, StreamFits(s), NEW n \in 0 .. Len(s.pending)
    PROVE  /\ StreamFits(Kept(s, n))
           /\ Kept(s, n).inode = s.inode /\ Kept(s, n).mode = s.mode /\ Kept(s, n).at = s.at
           /\ Kept(s, n).pending = SubSeq(s.pending, n+1, Len(s.pending))
<1>1. s \in Stream /\ s.pending \in Seq(Int)
  BY DEF StreamFits, Stream
<1>2. /\ SubSeq(s.pending, n+1, Len(s.pending)) \in Seq(Int)
      /\ Len(SubSeq(s.pending, n+1, Len(s.pending))) = Len(s.pending) - n
      /\ Len(s.pending) \in Nat /\ s.at \in Nat
  BY <1>1, Cut, LenProperties DEF Stream
<1>3. SubSeq(s.pending, n+1, Len(s.pending)) # <<>> => s.pending # <<>>
  <2>1. s.pending = <<>> => Len(s.pending) = 0
    BY EmptySeq
  <2>2. s.pending = <<>> => Len(SubSeq(s.pending, n+1, Len(s.pending))) = 0
    BY <1>2, <2>1
  <2> QED BY <1>2, <2>2, EmptySeq
<1>4. /\ Kept(s, n) \in Stream
      /\ Kept(s, n).inode = s.inode /\ Kept(s, n).mode = s.mode /\ Kept(s, n).at = s.at
      /\ Kept(s, n).pending = SubSeq(s.pending, n+1, Len(s.pending))
  BY <1>1, <1>2 DEF Kept, Stream
<1> QED BY <1>1, <1>2, <1>3, <1>4 DEF StreamFits

LEMMA MovedFits ==
    ASSUME NEW s, StreamFits(s), NEW at \in Nat
    PROVE  /\ StreamFits(Moved(s, at))
           /\ Moved(s, at).inode = s.inode /\ Moved(s, at).mode = s.mode
           /\ Moved(s, at).at = at /\ Moved(s, at).pending = <<>>
<1>1. s \in Stream /\ Len(<<>>) = 0 /\ <<>> \in Seq(Int)
  BY EmptySeq DEF StreamFits
<1>2. /\ Moved(s, at) \in Stream
      /\ Moved(s, at).inode = s.inode /\ Moved(s, at).mode = s.mode
      /\ Moved(s, at).at = at /\ Moved(s, at).pending = <<>>
  BY <1>1 DEF Moved, Stream
<1> QED BY <1>1, <1>2 DEF StreamFits

LEMMA RestType ==
    ASSUME TypeOK, NEW h \in Handles, stream[h] # Closed
    PROVE  LET s == stream[h]
               all == Overlay(Bytes(s.inode), Start(s), s.pending)
           IN  /\ all \in Seq(Int) /\ Len(all) \in Nat
               /\ Rest(s) \in Seq(Int) /\ Len(Rest(s)) \in Nat
<1> DEFINE s == stream[h]
           all == Overlay(Bytes(s.inode), Start(s), s.pending)
<1>1. s \in Stream /\ s.pending \in Seq(Int) /\ s.at \in Nat /\ Len(s.pending) <= s.at
  BY StreamParts
<1>2. Bytes(s.inode) \in Seq(Int) /\ Start(s) \in Nat
  BY <1>1, BytesType, StartType
<1>3. all \in Seq(Int)
  BY <1>1, <1>2, OverlayType
<1>r. Rest(s) = SubSeq(all, s.at + 1, Len(all))
  BY DEF Rest
<1> HIDE DEF all
<1>4. Rest(s) \in Seq(Int) /\ Len(all) \in Nat /\ Len(Rest(s)) \in Nat
  BY <1>1, <1>3, <1>r, Tails, LenProperties
<1> QED BY <1>3, <1>4 DEF all

\* A call that writes what is pending and moves to an offset.
LEMMA DrainAndMove ==
    ASSUME FilesAreSound, NEW h \in Handles, stream[h] # Closed, Drain(h),
           NEW at \in Nat, stream' = [stream EXCEPT ![h] = Moved(stream[h], at)]
    PROVE  FilesAreSound'
<1>1. StreamFits(stream[h]) /\ TypeOK
  BY Sound DEF FilesAreSound
<1>2. /\ content' = Written(stream[h], Len(stream[h].pending))
      /\ entries' = entries /\ descriptors' = descriptors
  BY DEF Drain
<1>3. content' \in [Inodes -> Seq(Int)]
  <2>1. Len(stream[h].pending) \in 0 .. Len(stream[h].pending)
    BY <1>1, StreamParts
  <2> QED BY <1>1, <1>2, <2>1, StreamParts, WrittenType
<1>4. StreamFits(Moved(stream[h], at))
  BY <1>1, MovedFits
<1> QED BY <1>2, <1>3, <1>4, StreamMoves

LEMMA FlushIsSound ==
    ASSUME FilesAreSound, NEW h \in Handles, stream[h] # Closed, Flush(h)
    PROVE  FilesAreSound'
<1>1. PICK n \in Takes(Len(stream[h].pending)) :
          /\ content' = Written(stream[h], n)
          /\ stream' = [stream EXCEPT ![h] = Kept(stream[h], n)]
          /\ UNCHANGED <<entries, descriptors>>
  BY DEF Flush
<1>2. StreamFits(stream[h]) /\ TypeOK
  BY Sound DEF FilesAreSound
<1>3. n \in 0 .. Len(stream[h].pending)
  BY <1>2, StreamParts DEF Takes
<1>4. content' \in [Inodes -> Seq(Int)]
  BY <1>1, <1>2, <1>3, StreamParts, WrittenType
<1>5. StreamFits(Kept(stream[h], n))
  BY <1>2, <1>3, KeptFits
<1> QED BY <1>1, <1>4, <1>5, StreamMoves

\* The stream when n bytes of a text were accepted, before any is written.
Accepted(s, text, n) ==
    [s EXCEPT !.pending = @ \o SubSeq(text, 1, n), !.at = Start(s) + Len(s.pending) + n]

LEMMA AcceptedFits ==
    ASSUME TypeOK, NEW s, StreamFits(s), mode_is_writable(s.mode),
           NEW text \in Seq(Int), NEW n \in 0 .. Len(text)
    PROVE  /\ StreamFits(Accepted(s, text, n))
           /\ Accepted(s, text, n).inode = s.inode
           /\ Accepted(s, text, n).mode = s.mode
           /\ Accepted(s, text, n).at = Start(s) + Len(s.pending) + n
           /\ Accepted(s, text, n).pending = s.pending \o SubSeq(text, 1, n)
<1> DEFINE part == SubSeq(text, 1, n)
<1>1. part \in Seq(Int) /\ Len(part) = n /\ n \in Nat
  BY Cut, LenProperties
<1>2. s \in Stream /\ s.pending \in Seq(Int) /\ Len(s.pending) \in Nat /\ Start(s) \in Nat
  BY StartType, LenProperties DEF StreamFits, Stream
<1>a. Accepted(s, text, n) =
         [s EXCEPT !.pending = @ \o part, !.at = Start(s) + Len(s.pending) + n]
  BY DEF Accepted
<1> HIDE DEF part
<1>3. s.pending \o part \in Seq(Int) /\ Len(s.pending \o part) = Len(s.pending) + n
  BY <1>1, <1>2, ConcatProperties
<1>4. Start(s) + Len(s.pending) + n \in Nat
  BY <1>1, <1>2
<1>5. /\ Accepted(s, text, n) \in Stream
      /\ Accepted(s, text, n).inode = s.inode
      /\ Accepted(s, text, n).mode = s.mode
      /\ Accepted(s, text, n).at = Start(s) + Len(s.pending) + n
      /\ Accepted(s, text, n).pending = s.pending \o part
  BY <1>2, <1>3, <1>4, <1>a DEF Stream
<1>6. ~mode_is_writable("r")
  BY DEF mode_is_writable
<1>7. StreamFits(Accepted(s, text, n))
  BY <1>1, <1>2, <1>3, <1>5, <1>6 DEF StreamFits
<1> QED BY <1>5, <1>7 DEF part

LEMMA WriteIsSound ==
    ASSUME FilesAreSound, NEW h \in Handles, stream[h] # Closed,
           NEW text \in Texts, Write(h, text)
    PROVE  FilesAreSound'
<1>1. CASE Refuse("mode")
  BY <1>1, RefusalIsSound DEF Refuse
<1>2. CASE ~Refuse("mode")
  <2>1. PICK n \in Takes(Len(text)), flushed \in BOOLEAN :
          LET s == stream[h]
              t == [s EXCEPT !.pending = @ \o SubSeq(text, 1, n),
                             !.at = Start(s) + Len(s.pending) + n]
              m == IF flushed THEN Len(t.pending) ELSE 0
          IN  /\ mode_is_writable(s.mode)
              /\ content' = Written(t, m)
              /\ stream' = [stream EXCEPT ![h] = Kept(t, m)]
              /\ UNCHANGED <<entries, descriptors>>
    BY <1>2 DEF Write
  <2> DEFINE t == Accepted(stream[h], text, n)
             m == IF flushed THEN Len(t.pending) ELSE 0
  <2>2. /\ mode_is_writable(stream[h].mode)
        /\ content' = Written(t, m)
        /\ stream' = [stream EXCEPT ![h] = Kept(t, m)]
        /\ entries' = entries /\ descriptors' = descriptors
    BY <2>1 DEF Accepted
  <2>3. StreamFits(stream[h]) /\ TypeOK
    BY Sound DEF FilesAreSound
  <2>4. n \in 0 .. Len(text) /\ text \in Seq(Int)
    <3>1. text \in Seq(Int)
      BY InputsAssumption
    <3> QED BY <3>1, LenProperties DEF Takes
  <2>5. StreamFits(t)
    BY <2>2, <2>3, <2>4, AcceptedFits
  <2> HIDE DEF t
  <2>6. m \in 0 .. Len(t.pending)
    <3>1. Len(t.pending) \in Nat
      BY <2>5, LenProperties DEF StreamFits, Stream
    <3> QED BY <3>1
  <2> HIDE DEF m
  <2>7. content' \in [Inodes -> Seq(Int)]
    BY <2>2, <2>3, <2>5, <2>6, WrittenType DEF StreamFits
  <2>8. StreamFits(Kept(t, m))
    BY <2>5, <2>6, KeptFits
  <2> QED BY <2>2, <2>7, <2>8, StreamMoves
<1> QED BY <1>1, <1>2

LEMMA CannotReadIsSound ==
    ASSUME FilesAreSound, NEW s, CannotRead(s)
    PROVE  FilesAreSound'
BY RefusalIsSound DEF CannotRead, Refuse

LEMMA ReadIsSound ==
    ASSUME FilesAreSound, NEW h \in Handles, stream[h] # Closed,
           NEW n \in Asked, Read(h, n)
    PROVE  FilesAreSound'
<1> DEFINE s == stream[h]
           got == Fs!Min({n, Len(Rest(s))})
<1>1. CASE Refuse("value") \/ CannotRead(s)
  BY <1>1, RefusalIsSound, CannotReadIsSound DEF Refuse
<1>2. CASE n > 0 /\ Drain(h) /\ stream' = [stream EXCEPT ![h] = Moved(s, s.at + got)]
  <2>1. s.at \in Nat /\ n \in Nat /\ Len(Rest(s)) \in Nat
    BY <1>2, StreamParts, RestType, InputsAssumption DEF FilesAreSound
  <2>2. got \in Nat
    BY <2>1, MinIsLeast
  <2> HIDE DEF got
  <2>3. s.at + got \in Nat
    BY <2>1, <2>2
  <2> QED BY <1>2, <2>3, DrainAndMove
<1> QED BY <1>1, <1>2 DEF Read

LEMMA ReadAllIsSound ==
    ASSUME FilesAreSound, NEW h \in Handles, stream[h] # Closed, ReadAll(h)
    PROVE  FilesAreSound'
<1> DEFINE s == stream[h]
           end == Len(Overlay(Bytes(s.inode), Start(s), s.pending))
<1>1. s.at \in Nat /\ end \in Nat
  BY StreamParts, RestType DEF FilesAreSound
<1>2. \/ CannotRead(s)
      \/ Drain(h) /\ stream' = [stream EXCEPT ![h] = Moved(s, s.at)]
      \/ Drain(h) /\ stream' = [stream EXCEPT ![h] = Moved(s, end)]
      \/ UNCHANGED <<entries, content, stream, descriptors>>
  BY DEF ReadAll
<1> HIDE DEF end
<1> QED BY <1>1, <1>2, CannotReadIsSound, DrainAndMove, RefusalIsSound

\* A line, and what its end takes.
LEMMA UsedType ==
    ASSUME NEW rest \in Seq(Int)
    PROVE  NextLine(rest).used \in Nat
<1> DEFINE Breaks == {i \in DOMAIN rest : rest[i] \in {LF, CR}}
           S == {LineBuffer, Len(rest)} \cup {i - 1 : i \in Breaks}
           count == Fs!Min(S)
<1>1. S \in SUBSET Nat /\ S # {}
  <2>1. Len(rest) \in Nat /\ DOMAIN rest = 1 .. Len(rest)
    BY LenProperties
  <2>2. \A i \in Breaks : i - 1 \in Nat
    BY <2>1
  <2> QED BY <2>1, <2>2, LineBufferAssumption
<1>2. count \in Nat
  <2> HIDE DEF S
  <2> QED BY <1>1, MinIsLeast
<1>3. NextLine(rest).used \in {count, count + 1, count + 2}
  <2> DEFINE Is(i, byte) == i \in DOMAIN rest /\ rest[i] = byte
             breaks == IF count = LineBuffer \/ count = Len(rest) THEN 0
                       ELSE IF Is(count + 1, CR) /\ Is(count + 2, LF) THEN 2 ELSE 1
  <2>1. NextLine(rest).used = count + breaks
    BY DEF NextLine
  <2>2. breaks \in {0, 1, 2}
    OBVIOUS
  <2> HIDE DEF count, breaks
  <2> QED BY <1>2, <2>1, <2>2
<1> QED BY <1>2, <1>3

LEMMA ReadLineIsSound ==
    ASSUME FilesAreSound, NEW h \in Handles, stream[h] # Closed,
           ReadLine(h) \/ ReadLines(h)
    PROVE  FilesAreSound'
<1> DEFINE s == stream[h]
           used == NextLine(Rest(s)).used
<1>1. s.at \in Nat /\ Rest(s) \in Seq(Int) /\ Len(Rest(s)) \in Nat
  BY StreamParts, RestType DEF FilesAreSound
<1>2. used \in Nat
  BY <1>1, UsedType
<1>3. \/ CannotRead(s)
      \/ Drain(h) /\ stream' = [stream EXCEPT ![h] = Moved(s, s.at + used)]
      \/ Drain(h) /\ stream' = [stream EXCEPT ![h] = Moved(s, s.at + Len(Rest(s)))]
  BY DEF ReadLine, ReadLines
<1> HIDE DEF used
<1>4. s.at + used \in Nat /\ s.at + Len(Rest(s)) \in Nat
  BY <1>1, <1>2
<1> QED BY <1>3, <1>4, CannotReadIsSound, DrainAndMove

LEMMA SeekIsSound ==
    ASSUME FilesAreSound, NEW h \in Handles, stream[h] # Closed,
           NEW offset, NEW whence, Seek(h, offset, whence)
    PROVE  FilesAreSound'
<1>1. CASE Refuse("io")
  BY <1>1, RefusalIsSound DEF Refuse
<1>2. CASE ~Refuse("io")
  <2>1. \E at \in 0 .. MaxSize :
           Drain(h) /\ stream' = [stream EXCEPT ![h] = Moved(stream[h], at)]
    BY <1>2 DEF Seek
  <2>2. 0 .. MaxSize \subseteq Nat
    BY InputsAssumption
  <2> QED BY <2>1, <2>2, DrainAndMove
<1> QED BY <1>1, <1>2

LEMMA OnFileIsSound ==
    ASSUME FilesAreSound, NEW h \in Handles, OnFile(h)
    PROVE  FilesAreSound'
<1>1. CASE stream[h] = Closed
  BY <1>1, RefusalIsSound DEF OnFile, Refuse
<1>2. CASE stream[h] # Closed
  <2>1. CASE Close(h) \/ Collect(h)
    BY <1>2, <2>1, FcloseIsSound DEF Close, Collect
  <2>2. CASE Flush(h) \/ ReadAll(h) \/ ReadLine(h) \/ ReadLines(h)
    BY <1>2, <2>2, FlushIsSound, ReadAllIsSound, ReadLineIsSound
  <2>3. CASE Tell(h)
    BY <2>3, RefusalIsSound DEF Tell
  <2>4. CASE \E n \in Asked : Read(h, n)
    BY <1>2, <2>4, ReadIsSound
  <2>5. CASE \E text \in Texts : Write(h, text)
    BY <1>2, <2>5, WriteIsSound
  <2>6. CASE \E o \in Offsets, w \in {"start", "current", "end"} : Seek(h, o, w)
    BY <1>2, <2>6, SeekIsSound
  <2> QED BY <1>2, <2>1, <2>2, <2>3, <2>4, <2>5, <2>6 DEF OnFile
<1> QED BY <1>1, <1>2

\* The inode written for a path is no other path's, and no other stream's if it
\* is new.
LEMMA CreatedIs ==
    ASSUME TypeOK, NEW p \in Paths, entries[p] # Directory
    PROVE  /\ Created(p) \in Inodes
           /\ \A q \in Paths : entries[q] = Created(p) => q = p
           /\ entries[p] # None => Created(p) = entries[p]
<1>1. CASE entries[p] = None
  BY <1>1, FreshIsFree DEF Created
<1>2. CASE entries[p] # None
  <2>1. Created(p) = entries[p]
    BY <1>2 DEF Created
  <2>2. entries[p] \in Inodes
    BY <1>2 DEF TypeOK
  <2>3. \A q \in Paths : entries[q] = entries[p] => q = p
    BY <2>2 DEF TypeOK
  <2> QED BY <2>1, <2>2, <2>3, <1>2
<1> QED BY <1>1, <1>2

\* A path that is given an inode of its own.
LEMMA NamedAnew ==
    ASSUME Names(entries), NEW p \in Paths, NEW i \in Inodes,
           \A q \in Paths : entries[q] = i => q = p
    PROVE  /\ Names([entries EXCEPT ![p] = i])
           /\ \A q \in Paths : [entries EXCEPT ![p] = i][q] = IF q = p THEN i ELSE entries[q]
<1> DEFINE e == [entries EXCEPT ![p] = i]
<1>1. /\ e \in [Paths -> Inodes \cup {None, Directory}]
      /\ \A q \in Paths : e[q] = IF q = p THEN i ELSE entries[q]
  BY DEF Names
<1>2. \A q, r \in Paths : entries[q] = entries[r] => q = r \/ entries[q] \notin Inodes
  BY DEF Names
<1> HIDE DEF e
<1>3. \A q, r \in Paths : e[q] = e[r] => q = r \/ e[q] \notin Inodes
  BY <1>1, <1>2
<1>4. Names(e)
  BY <1>1, <1>3 DEF Names
<1> QED BY <1>1, <1>4 DEF e

\* A path that is given no inode.
LEMMA NamedNoFile ==
    ASSUME Names(entries), NEW p \in Paths, NEW i \in {None, Directory}
    PROVE  Names([entries EXCEPT ![p] = i])
<1> DEFINE e == [entries EXCEPT ![p] = i]
<1>1. /\ e \in [Paths -> Inodes \cup {None, Directory}]
      /\ \A q \in Paths : e[q] = IF q = p THEN i ELSE entries[q]
  BY DEF Names
<1>2. \A q, r \in Paths : entries[q] = entries[r] => q = r \/ entries[q] \notin Inodes
  BY DEF Names
<1> HIDE DEF e
<1>3. \A q, r \in Paths : e[q] = e[r] => q = r \/ e[q] \notin Inodes
  BY <1>1, <1>2, NamesAssumption
<1>4. Names(e)
  BY <1>1, <1>3 DEF Names
<1> QED BY <1>4 DEF e

LEMMA WriteWholeIsSound ==
    ASSUME FilesAreSound, NEW p \in Paths, NEW before \in Seq(Int),
           NEW text \in Seq(Int), NEW response, WriteWhole(p, before, text, response)
    PROVE  FilesAreSound'
<1>1. CASE Refuse("io")
  BY <1>1, RefusalIsSound DEF Refuse
<1>2. CASE ~Refuse("io")
  <2>1. PICK n \in Takes(Len(text)) :
          /\ entries[p] # Directory
          /\ entries' = [entries EXCEPT ![p] = Created(p)]
          /\ content' = [content EXCEPT ![Created(p)] = before \o SubSeq(text, 1, n)]
          /\ UNCHANGED <<stream, descriptors>>
    BY <1>2 DEF WriteWhole
  <2>2. TypeOK /\ Names(entries) /\ content \in [Inodes -> Seq(Int)]
    BY Sound DEF FilesAreSound
  <2>3. /\ Created(p) \in Inodes
        /\ \A q \in Paths : entries[q] = Created(p) => q = p
    BY <2>1, <2>2, CreatedIs
  <2>4. Names(entries')
    BY <2>1, <2>2, <2>3, NamedAnew
  <2>5. before \o SubSeq(text, 1, n) \in Seq(Int)
    <3>1. n \in 0 .. Len(text)
      BY LenProperties DEF Takes
    <3> QED BY <3>1, Cut, ConcatProperties
  <2>6. content' \in [Inodes -> Seq(Int)]
    BY <2>1, <2>2, <2>3, <2>5
  <2> QED BY <2>1, <2>4, <2>6, StreamsStay
<1> QED BY <1>1, <1>2

LEMMA CopyFileIsSound ==
    ASSUME FilesAreSound, NEW from \in Paths, NEW to \in Paths, CopyFile(from, to)
    PROVE  FilesAreSound'
<1> DEFINE dst == Created(to)
           emptied == [content EXCEPT ![dst] = <<>>]
           bytes == IF entries[from] = Directory THEN <<>> ELSE emptied[entries[from]]
<1>1. CASE Refuse("io")
  BY <1>1, RefusalIsSound DEF Refuse
<1>2. CASE ~Refuse("io")
  <2>1. /\ entries[from] # None /\ entries[to] # Directory
        /\ \/ \E n \in Takes(Len(bytes)) :
                 /\ entries[from] # Directory
                 /\ entries' = [entries EXCEPT ![to] = dst]
                 /\ content' = [content EXCEPT ![dst] = SubSeq(bytes, 1, n)]
           \/ /\ entries' = [entries EXCEPT ![to] = None]
              /\ content' = Reclaimed(emptied, entries', stream)
        /\ stream' = stream /\ descriptors' = descriptors
    BY <1>2 DEF CopyFile
  <2>2. TypeOK /\ Names(entries) /\ content \in [Inodes -> Seq(Int)]
    BY Sound DEF FilesAreSound
  <2>3. dst \in Inodes /\ \A q \in Paths : entries[q] = dst => q = to
    BY <2>1, <2>2, CreatedIs
  <2> HIDE DEF dst
  <2>4. emptied \in [Inodes -> Seq(Int)]
    BY <2>2, EmptySeq
  <2>5. CASE \E n \in Takes(Len(bytes)) :
                /\ entries[from] # Directory
                /\ entries' = [entries EXCEPT ![to] = dst]
                /\ content' = [content EXCEPT ![dst] = SubSeq(bytes, 1, n)]
    <3>1. PICK n \in Takes(Len(bytes)) :
             /\ entries[from] # Directory
             /\ entries' = [entries EXCEPT ![to] = dst]
             /\ content' = [content EXCEPT ![dst] = SubSeq(bytes, 1, n)]
      BY <2>5
    <3>2. bytes \in Seq(Int)
      BY <2>1, <2>2, <2>4, <3>1 DEF Names
    <3> HIDE DEF bytes
    <3>3. SubSeq(bytes, 1, n) \in Seq(Int)
      <4>1. n \in 0 .. Len(bytes)
        BY <3>2, LenProperties DEF Takes
      <4> QED BY <3>2, <4>1, Cut
    <3>4. content' \in [Inodes -> Seq(Int)]
      BY <2>2, <3>1, <3>3
    <3>5. Names(entries')
      BY <2>2, <2>3, <3>1, NamedAnew
    <3> QED BY <2>1, <3>4, <3>5, StreamsStay
  <2>6. CASE /\ entries' = [entries EXCEPT ![to] = None]
             /\ content' = Reclaimed(emptied, entries', stream)
    <3>1. Names(entries')
      BY <2>2, <2>6, NamedNoFile
    <3> HIDE DEF emptied
    <3>2. content' \in [Inodes -> Seq(Int)]
      BY <2>4, <2>6, ReclaimedType
    <3> QED BY <2>1, <3>1, <3>2, StreamsStay
  <2> QED BY <2>1, <2>5, <2>6
<1> QED BY <1>1, <1>2

LEMMA RearrangeIsSound ==
    ASSUME FilesAreSound, NEW allowed, NEW names, allowed => Names(names),
           NEW response, Rearrange(allowed, names, response)
    PROVE  FilesAreSound'
<1>1. CASE Refuse("io")
  BY <1>1, RefusalIsSound DEF Refuse
<1>2. CASE ~Refuse("io")
  <2>1. /\ entries' = names /\ content' = Reclaimed(content, names, stream)
        /\ stream' = stream /\ descriptors' = descriptors /\ Names(names)
    BY <1>2 DEF Rearrange
  <2>2. content' \in [Inodes -> Seq(Int)]
    BY <2>1, Sound, ReclaimedType
  <2> QED BY <2>1, <2>2, StreamsStay
<1> QED BY <1>1, <1>2

LEMMA RenamedNames ==
    ASSUME Names(entries), NEW from \in Paths, NEW to \in Paths
    PROVE  Names(IF from = to THEN entries
                 ELSE [entries EXCEPT ![from] = None, ![to] = entries[from]])
<1>1. CASE from = to
  BY <1>1
<1>2. CASE from # to
  <2> DEFINE e == [entries EXCEPT ![from] = None, ![to] = entries[from]]
  <2>1. /\ entries \in [Paths -> Inodes \cup {None, Directory}]
        /\ \A q, r \in Paths : entries[q] = entries[r] => q = r \/ entries[q] \notin Inodes
    BY DEF Names
  <2>2. e \in [Paths -> Inodes \cup {None, Directory}]
    BY <2>1
  <2>3. \A q \in Paths : e[q] = IF q = to THEN entries[from]
                                ELSE IF q = from THEN None ELSE entries[q]
    BY <2>1
  <2>x. (IF from = to THEN entries
         ELSE [entries EXCEPT ![from] = None, ![to] = entries[from]]) = e
    BY <1>2
  <2> HIDE DEF e
  <2>4. \A q, r \in Paths : e[q] = e[r] => q = r \/ e[q] \notin Inodes
    BY <2>1, <2>3, NamesAssumption
  <2> QED BY <2>2, <2>4, <2>x DEF Names
<1> QED BY <1>1, <1>2

LEMMA OnPathIsSound ==
    ASSUME FilesAreSound, NEW p \in Paths, OnPath(p)
    PROVE  FilesAreSound'
<1>0. TypeOK /\ Names(entries)
  BY Sound DEF FilesAreSound
<1>1. CASE ReadFile(p)
  BY <1>1, RefusalIsSound DEF ReadFile, Refuse
<1>2. CASE Remove(p)
  BY <1>0, <1>2, NamedNoFile, RearrangeIsSound DEF Remove
<1>3. CASE MakeDir(p)
  BY <1>0, <1>3, NamedNoFile, RearrangeIsSound DEF MakeDir
<1>4. CASE RemoveDir(p)
  BY <1>0, <1>4, NamedNoFile, RearrangeIsSound DEF RemoveDir
<1>5. CASE \E text \in Texts : WriteFile(p, text) \/ AppendFile(p, text)
  <2>1. PICK text \in Texts : WriteFile(p, text) \/ AppendFile(p, text)
    BY <1>5
  <2>2. text \in Seq(Int) /\ <<>> \in Seq(Int) /\ Bytes(entries[p]) \in Seq(Int)
    BY <1>0, InputsAssumption, BytesType, EmptySeq
  <2>3. CASE WriteFile(p, text)
    BY <2>2, <2>3, WriteWholeIsSound DEF WriteFile
  <2>4. CASE AppendFile(p, text)
    BY <2>2, <2>4, WriteWholeIsSound DEF AppendFile
  <2> QED BY <2>1, <2>3, <2>4
<1>6. CASE \E to \in Paths : CopyFile(p, to) \/ Rename(p, to)
  <2>1. PICK to \in Paths : CopyFile(p, to) \/ Rename(p, to)
    BY <1>6
  <2>2. CASE CopyFile(p, to)
    BY <2>2, CopyFileIsSound
  <2>3. CASE Rename(p, to)
    BY <1>0, <2>3, RenamedNames, RearrangeIsSound DEF Rename
  <2> QED BY <2>1, <2>2, <2>3
<1> QED BY <1>1, <1>2, <1>3, <1>4, <1>5, <1>6 DEF OnPath

LEMMA StartsSound ==
    ASSUME Init
    PROVE  FilesAreSound
<1>1. Names(entries)
  BY NamesAssumption DEF Init, Names
<1>2. content \in [Inodes -> Seq(Int)]
  BY EmptySeq DEF Init
<1>3. stream \in [Handles -> Stream \cup {Closed}] /\ OpenHandles = {}
  BY DEF Init, OpenHandles
<1>4. descriptors = Cardinality(OpenHandles) /\ descriptors \in 0 .. MaxStreams
  BY <1>3, FS_EmptySet, InputsAssumption DEF Init
<1>5. \A h \in Handles : stream[h] = Closed
  BY DEF Init
<1> QED BY <1>1, <1>2, <1>3, <1>4, <1>5, Sound

LEMMA NextIsSound ==
    ASSUME FilesAreSound, [Next]_vars
    PROVE  FilesAreSound'
<1>1. CASE UNCHANGED vars
  BY <1>1, RefusalIsSound DEF vars
<1>2. CASE \E h \in Handles : OnFile(h)
  BY <1>2, OnFileIsSound
<1>3. CASE \E h \in Handles, p \in Paths, mode \in Modes : Open(h, p, mode)
  BY <1>3, OpenIsSound
<1>4. CASE \E p \in Paths : OnPath(p)
  BY <1>4, OnPathIsSound
<1> QED BY <1>1, <1>2, <1>3, <1>4 DEF Next

(***************************************************************************)
(* Every stream that fs.c opens is one that an open File holds, or is      *)
(* closed again when the call returns, whichever way it fails, whether or  *)
(* not the disk fills up; and a path, an inode and a stream keep the types *)
(* that the calls rely on.                                                 *)
(***************************************************************************)
THEOREM NoCallLeaksADescriptor == Spec => []FilesAreSound
BY StartsSound, NextIsSound, PTL DEF Spec

-----------------------------------------------------------------------------
(***************************************************************************)
(* What a call answers to have done is done.  The disk must have room, as  *)
(* close and write_file look at no result of fclose, and copy_file empties *)
(* the destination before it reads the source.                             *)
(***************************************************************************)
Done == /\ \A h \in Handles : stream[h] # Closed => HandleCallsAreDone(h)
        /\ \A p \in Paths : PathCallsAreDone(p)

HandleAnswers == {"wrote", "flushed", "moved", "closed", "collected"}
PathAnswers == {"wrote file", "appended", "copied", "renamed"}

LEMMA First ==
    /\ \A x, a, b : x = <<a, b>> => x[1] = a
    /\ \A x, a, b, c : x = <<a, b, c>> => x[1] = a
OBVIOUS

\* Other answers claim nothing.
LEMMA NothingClaimed ==
    ASSUME answer'[1] \notin HandleAnswers \cup PathAnswers
    PROVE  Done
<1>1. \A h \in Handles, text \in Texts : answer' # <<"wrote", h, text>>
  BY First DEF HandleAnswers
<1>2. \A h \in Handles : /\ answer' # <<"flushed", h>> /\ answer' # <<"moved", h>>
                         /\ answer' # <<"closed", h>> /\ answer' # <<"collected", h>>
  BY First DEF HandleAnswers
<1>3. \A h \in Handles : HandleCallsAreDone(h)
  BY <1>1, <1>2, Zenon DEF HandleCallsAreDone
<1>4. \A p \in Paths, text \in Texts : /\ answer' # <<"wrote file", p, text>>
                                       /\ answer' # <<"appended", p, text>>
  BY First DEF PathAnswers
<1>5. \A p, q \in Paths : answer' # <<"copied", p, q>> /\ answer' # <<"renamed", p, q>>
  BY First DEF PathAnswers
<1>6. \A p \in Paths : PathCallsAreDone(p)
  BY <1>4, <1>5, Zenon DEF PathCallsAreDone
<1> QED BY <1>3, <1>6 DEF Done

LEMMA RefusalClaimsNothing ==
    ASSUME NEW reason, answer' = <<reason>>
    PROVE  Done
<1>1. Len(answer') = 1
  OBVIOUS
<1>2. /\ \A a, b : Len(<<a, b>>) # 1
      /\ \A a, b, c : Len(<<a, b, c>>) # 1
  OBVIOUS
<1>3. /\ \A a, b : answer' # <<a, b>>
      /\ \A a, b, c : answer' # <<a, b, c>>
  BY <1>1, <1>2, Zenon
<1>4. \A h \in Handles : HandleCallsAreDone(h)
  BY <1>3, Zenon DEF HandleCallsAreDone
<1>5. \A p \in Paths : PathCallsAreDone(p)
  BY <1>3, Zenon DEF PathCallsAreDone
<1> QED BY <1>4, <1>5 DEF Done

LEMMA AnswersDiffer ==
    /\ \A c \in PathAnswers : c \notin HandleAnswers
    /\ "wrote" \in HandleAnswers /\ "flushed" \in HandleAnswers /\ "moved" \in HandleAnswers
    /\ "closed" \in HandleAnswers /\ "collected" \in HandleAnswers
    /\ "wrote file" \in PathAnswers /\ "appended" \in PathAnswers
    /\ "copied" \in PathAnswers /\ "renamed" \in PathAnswers
BY DEF HandleAnswers, PathAnswers

\* An answer about a handle claims something of that handle only.
LEMMA NoPathClaimed ==
    ASSUME answer'[1] \in HandleAnswers
    PROVE  \A p \in Paths : PathCallsAreDone(p)
<1>1. \A p, text : answer' # <<"wrote file", p, text>> /\ answer' # <<"appended", p, text>>
  BY First, AnswersDiffer, Zenon
<1>2. \A p, q : answer' # <<"copied", p, q>> /\ answer' # <<"renamed", p, q>>
  BY First, AnswersDiffer, Zenon
<1> QED BY <1>1, <1>2, Zenon DEF PathCallsAreDone

LEMMA NoHandleClaimed ==
    ASSUME answer'[1] \in PathAnswers
    PROVE  \A h \in Handles : HandleCallsAreDone(h)
<1>1. \A h, text : answer' # <<"wrote", h, text>>
  BY First, AnswersDiffer, Zenon
<1>2. \A h : /\ answer' # <<"flushed", h>> /\ answer' # <<"moved", h>>
             /\ answer' # <<"closed", h>> /\ answer' # <<"collected", h>>
  BY First, AnswersDiffer, Zenon
<1> QED BY <1>1, <1>2, Zenon DEF HandleCallsAreDone

LEMMA LandedClaim ==
    ASSUME NEW g \in Handles, NEW call \in {"flushed", "moved", "closed", "collected"},
           answer' = <<call, g>>,
           \A p \in Paths : entries[p] = stream[g].inode => (Bytes(entries[p]))' = Text(g)
    PROVE  Done
<1>1. answer'[1] = call /\ answer'[2] = g
  OBVIOUS
<1>2. \A p \in Paths : PathCallsAreDone(p)
  BY <1>1, NoPathClaimed DEF HandleAnswers
<1>3. ASSUME NEW h \in Handles
      PROVE  HandleCallsAreDone(h)
  <2>1. \A text \in Texts : answer' # <<"wrote", h, text>>
    BY <1>1
  <2>2. answer' \in {<<"flushed", h>>, <<"moved", h>>, <<"closed", h>>, <<"collected", h>>}
           => h = g
    BY <1>1
  <2> QED BY <2>1, <2>2, Zenon DEF HandleCallsAreDone
<1> QED BY <1>2, <1>3 DEF Done

LEMMA WroteClaim ==
    ASSUME NEW g \in Handles, NEW text \in Texts, answer' = <<"wrote", g, text>>,
           (Text(g))' = Overlay(Text(g), stream'[g].at - Len(text), text)
    PROVE  Done
<1>1. answer'[1] = "wrote" /\ answer'[2] = g /\ answer'[3] = text
  OBVIOUS
<1>2. \A p \in Paths : PathCallsAreDone(p)
  BY <1>1, NoPathClaimed DEF HandleAnswers
<1>3. ASSUME NEW h \in Handles
      PROVE  HandleCallsAreDone(h)
  <2>1. \A u \in Texts : answer' = <<"wrote", h, u>> => u = text /\ h = g
    BY <1>1
  <2>2. answer' \notin {<<"flushed", h>>, <<"moved", h>>, <<"closed", h>>, <<"collected", h>>}
    BY <1>1
  <2> QED BY <2>1, <2>2, Zenon DEF HandleCallsAreDone
<1> QED BY <1>2, <1>3 DEF Done

-----------------------------------------------------------------------------
LEMMA TextIs ==
    ASSUME FilesAreSound, NEW h \in Handles, stream[h] # Closed
    PROVE  LET s == stream[h]
           IN  /\ Text(h) \in Seq(Int)
               /\ s.inode \in Inodes =>
                     Written(s, Len(s.pending))[s.inode] = Text(h)
               /\ s.inode = Directory => Text(h) = <<>>
<1> DEFINE s == stream[h]
<1>1. /\ s.inode \in Inodes \cup {Directory} /\ s.pending \in Seq(Int)
      /\ s.inode = Directory => s.pending = <<>>
      /\ Len(s.pending) \in 0 .. Len(s.pending)
  BY StreamParts DEF FilesAreSound
<1>2. Text(h) = Overlay(Bytes(s.inode), Start(s), s.pending)
  BY DEF Text
<1>3. Text(h) \in Seq(Int)
  BY <1>2, RestType DEF FilesAreSound
<1>4. SubSeq(s.pending, 1, Len(s.pending)) = s.pending
  BY <1>1, Cut
<1>5. ASSUME s.inode \in Inodes
      PROVE  Written(s, Len(s.pending))[s.inode] = Text(h)
  BY <1>2, <1>4, <1>5 DEF Written, Bytes
<1>6. s.inode = Directory => Text(h) = <<>>
  BY <1>1, <1>2, NamesAssumption DEF Overlay, Bytes
<1> QED BY <1>3, <1>5, <1>6

\* All that is pending is written, and whoever names the inode finds it.
LEMMA Landed ==
    ASSUME FilesAreSound, NEW h \in Handles, stream[h] # Closed, entries' = entries,
           \A p \in Paths : entries[p] \in Inodes =>
              content'[entries[p]] = Written(stream[h], Len(stream[h].pending))[entries[p]]
    PROVE  \A p \in Paths : entries[p] = stream[h].inode => (Bytes(entries[p]))' = Text(h)
<1> SUFFICES ASSUME NEW p \in Paths, entries[p] = stream[h].inode
             PROVE  (Bytes(entries[p]))' = Text(h)
  OBVIOUS
<1>1. stream[h].inode \in Inodes \cup {Directory}
  BY StreamParts DEF FilesAreSound
<1>2. (Bytes(entries[p]))' = IF entries[p] \in Inodes THEN content'[entries[p]] ELSE <<>>
  BY DEF Bytes
<1>3. CASE entries[p] \in Inodes
  BY <1>2, <1>3, TextIs
<1>4. CASE entries[p] \notin Inodes
  BY <1>1, <1>2, <1>4, TextIs
<1> QED BY <1>3, <1>4

LEMMA TextNext ==
    ASSUME NEW h \in Handles, NEW s, stream'[h] = s,
           NEW b, b = IF s.inode \in Inodes THEN content'[s.inode] ELSE <<>>
    PROVE  (Text(h))' =
              Overlay(b, IF Appends(s.mode) THEN Len(b) ELSE s.at - Len(s.pending), s.pending)
BY DEF Text, Bytes, Start

LEMMA FlushIsDone ==
    ASSUME FilesAreSound, Full = FALSE, NEW h \in Handles, stream[h] # Closed, Flush(h)
    PROVE  Done
<1> DEFINE n == Len(stream[h].pending)
<1>1. /\ content' = Written(stream[h], n) /\ answer' = <<"flushed", h>>
      /\ entries' = entries
  BY DEF Flush, Takes
<1>2. \A p \in Paths : entries[p] = stream[h].inode => (Bytes(entries[p]))' = Text(h)
  BY <1>1, Landed
<1> QED BY <1>1, <1>2, LandedClaim

LEMMA FcloseIsDone ==
    ASSUME FilesAreSound, Full = FALSE, NEW h \in Handles, stream[h] # Closed,
           NEW call \in {"closed", "collected"}, Fclose(h, <<call, h>>)
    PROVE  Done
<1> DEFINE n == Len(stream[h].pending)
<1>1. /\ content' = Reclaimed(Written(stream[h], n), entries, stream')
      /\ answer' = <<call, h>> /\ entries' = entries
  BY DEF Fclose, Takes
<1>2. \A p \in Paths : entries[p] \in Inodes =>
         content'[entries[p]] = Written(stream[h], n)[entries[p]]
  BY <1>1 DEF Reclaimed
<1>3. \A p \in Paths : entries[p] = stream[h].inode => (Bytes(entries[p]))' = Text(h)
  BY <1>1, <1>2, Landed
<1> QED BY <1>1, <1>3, LandedClaim

LEMMA SeekIsDone ==
    ASSUME FilesAreSound, NEW h \in Handles, stream[h] # Closed,
           NEW offset, NEW whence, Seek(h, offset, whence)
    PROVE  Done
<1>1. CASE Refuse("io")
  BY <1>1, RefusalClaimsNothing DEF Refuse
<1>2. CASE ~Refuse("io")
  <2>1. Drain(h) /\ answer' = <<"moved", h>>
    BY <1>2 DEF Seek
  <2>2. /\ entries' = entries
        /\ content' = Written(stream[h], Len(stream[h].pending))
    BY <2>1 DEF Drain
  <2>3. \A p \in Paths : entries[p] = stream[h].inode => (Bytes(entries[p]))' = Text(h)
    BY <2>2, Landed
  <2> QED BY <2>1, <2>3, LandedClaim
<1> QED BY <1>1, <1>2

\* What is written follows what was pending, whether or not it is written on.
LEMMA WriteIsDone ==
    ASSUME FilesAreSound, Full = FALSE, NEW h \in Handles, stream[h] # Closed,
           NEW text \in Texts, Write(h, text)
    PROVE  Done
<1>1. CASE Refuse("mode")
  BY <1>1, RefusalClaimsNothing DEF Refuse
<1>2. CASE ~Refuse("mode")
  <2> DEFINE s == stream[h]
             t == Accepted(s, text, Len(text))
             unwritten == s.pending \o text
             b == Bytes(s.inode)
  <2>1. PICK flushed \in BOOLEAN :
          LET m == IF flushed THEN Len(t.pending) ELSE 0
          IN  /\ mode_is_writable(s.mode)
              /\ content' = Written(t, m)
              /\ stream' = [stream EXCEPT ![h] = Kept(t, m)]
              /\ answer' = <<"wrote", h, text>>
    BY <1>2 DEF Write, Takes, Accepted
  <2>2. TypeOK /\ StreamFits(s) /\ stream \in [Handles -> Stream \cup {Closed}]
    BY Sound DEF FilesAreSound
  <2>3. text \in Seq(Int) /\ Len(text) \in Nat /\ Len(text) \in 0 .. Len(text)
    <3>1. text \in Seq(Int)
      BY InputsAssumption
    <3> QED BY <3>1, LenProperties
  <2>4. SubSeq(text, 1, Len(text)) = text
    BY <2>3, Cut
  <2>5. /\ StreamFits(t) /\ t.inode = s.inode /\ t.mode = s.mode
        /\ t.at = Start(s) + Len(s.pending) + Len(text)
        /\ t.pending = unwritten
    BY <2>1, <2>2, <2>3, <2>4, AcceptedFits
  <2>6. /\ s.pending \in Seq(Int) /\ Len(s.pending) \in Nat /\ Start(s) \in Nat
        /\ b \in Seq(Int) /\ Len(b) \in Nat
    BY <2>2, StreamParts, StartType, BytesType
  <2>7. unwritten \in Seq(Int) /\ Len(unwritten) = Len(s.pending) + Len(text)
    BY <2>3, <2>6, ConcatProperties
  <2>8. s.inode \in Inodes /\ b = content[s.inode]
    <3>1. s.inode \in Inodes
      <4>1. ~mode_is_writable("r")
        BY DEF mode_is_writable
      <4> QED BY <2>1, <2>2, <4>1, StreamParts
    <3> QED BY <3>1 DEF Bytes
  <2>9. Start(t) = Start(s)
    <3>1. t.at - Len(t.pending) = Start(s)
      BY <2>3, <2>5, <2>6, <2>7
    <3>2. CASE Appends(s.mode)
      BY <2>5, <3>2 DEF Start
    <3>3. CASE ~Appends(s.mode)
      <4>1. Start(t) = t.at - Len(t.pending)
        BY <2>5, <3>3 DEF Start
      <4> QED BY <3>1, <4>1
    <3> QED BY <3>2, <3>3
  <2> HIDE DEF t
  <2> DEFINE m == IF flushed THEN Len(t.pending) ELSE 0
             k == Kept(t, m)
             c == content'[s.inode]
  <2>10. m \in 0 .. Len(t.pending) /\ Len(t.pending) \in Nat /\ t.pending \in Seq(Int)
    BY <2>5, <2>7, LenProperties
  <2>11. /\ k.inode = s.inode /\ k.mode = s.mode /\ k.at = t.at
         /\ k.pending = SubSeq(t.pending, m+1, Len(t.pending))
    BY <2>5, <2>10, KeptFits
  <2>12. stream'[h] = k
    BY <2>1, <2>2
  <2>13. c = Overlay(b, Start(s), SubSeq(t.pending, 1, m))
    BY <2>1, <2>5, <2>8, <2>9 DEF Written
  <2>14. (Text(h))' = Overlay(c, IF Appends(k.mode) THEN Len(c) ELSE k.at - Len(k.pending),
                              k.pending)
    <3> HIDE DEF k
    <3>1. c = IF k.inode \in Inodes THEN content'[k.inode] ELSE <<>>
      BY <2>8, <2>11
    <3> HIDE DEF c
    <3> QED BY <2>12, <3>1, TextNext
  <2>15. (Text(h))' = Overlay(b, Start(s), unwritten)
    <3>1. CASE flushed
      <4>1. m = Len(t.pending)
        BY <3>1
      <4>2. k.pending = <<>> /\ SubSeq(t.pending, 1, m) = unwritten
        BY <2>5, <2>10, <2>11, <4>1, Cut
      <4> HIDE DEF k, c, m
      <4>3. (Text(h))' = c
        BY <2>14, <4>2 DEF Overlay
      <4> QED BY <2>13, <4>2, <4>3
    <3>2. CASE ~flushed
      <4>1. m = 0
        BY <3>2
      <4>2. k.pending = unwritten /\ SubSeq(t.pending, 1, m) = <<>>
        BY <2>5, <2>10, <2>11, <4>1, Cut
      <4> HIDE DEF k, c, m
      <4>3. c = b
        BY <2>13, <4>2 DEF Overlay
      <4>4. (IF Appends(k.mode) THEN Len(c) ELSE k.at - Len(k.pending)) = Start(s)
        <5>1. (IF Appends(t.mode) THEN Len(Bytes(t.inode)) ELSE t.at - Len(t.pending)) = Start(s)
          BY <2>9 DEF Start
        <5>2. Bytes(t.inode) = b
          BY <2>5
        <5> HIDE DEF b
        <5> QED BY <2>5, <2>11, <4>2, <4>3, <5>1, <5>2
      <4> HIDE DEF b, unwritten
      <4> QED BY <2>14, <4>2, <4>3, <4>4
    <3> QED BY <3>1, <3>2
  <2>16. Text(h) = Overlay(b, Start(s), s.pending)
    BY DEF Text
  <2>17. stream'[h].at - Len(text) = Start(s) + Len(s.pending)
    BY <2>3, <2>5, <2>6, <2>11, <2>12
  <2>18. (Text(h))' = Overlay(Text(h), stream'[h].at - Len(text), text)
    <3> HIDE DEF b
    <3>1. Overlay(b, Start(s), s.pending \o text) =
             Overlay(Overlay(b, Start(s), s.pending), Start(s) + Len(s.pending), text)
      BY ZenonT(40), <2>3, <2>6, OverlayTwice
    <3> QED BY <2>15, <2>16, <2>17, <3>1
  <2> QED BY <2>1, <2>18, WroteClaim
<1> QED BY <1>1, <1>2

-----------------------------------------------------------------------------
\* The other paths name what they named, and find the bytes they found.
OthersStay(ps) ==
    \A r \in Paths \ ps : entries'[r] = entries[r] /\ (Bytes(entries[r]))' = Bytes(entries[r])

LEMMA SameCall ==
    ASSUME NEW call, NEW p, NEW about, answer' = <<call, p, about>>
    PROVE  \A q, x :
             /\ answer' = <<"wrote file", q, x>> => call = "wrote file" /\ q = p /\ x = about
             /\ answer' = <<"appended", q, x>> => call = "appended" /\ q = p /\ x = about
             /\ answer' = <<"copied", q, x>> => call = "copied" /\ q = p /\ x = about
             /\ answer' = <<"renamed", q, x>> => call = "renamed" /\ q = p /\ x = about
OBVIOUS

LEMMA PathClaim ==
    ASSUME NEW call \in PathAnswers, NEW p \in Paths, NEW about, answer' = <<call, p, about>>,
           call = "wrote file" => (Bytes(entries[p]))' = about /\ OthersStay({p}),
           call = "appended" =>
              /\ OthersStay({p})
              /\ (Bytes(entries[p]))' =
                    (IF entries[p] = None THEN <<>> ELSE Bytes(entries[p])) \o about,
           call = "copied" /\ about \in Paths =>
              (Bytes(entries[about]))' = Bytes(entries[p]) /\ OthersStay({about}),
           call = "renamed" /\ about \in Paths =>
              entries'[about] = entries[p] /\ OthersStay({p, about})
    PROVE  Done
<1>1. answer'[1] = call /\ answer'[2] = p /\ answer'[3] = about
  OBVIOUS
<1>2. \A h \in Handles : HandleCallsAreDone(h)
  BY <1>1, NoHandleClaimed
<1>3. ASSUME NEW q \in Paths
      PROVE  PathCallsAreDone(q)
  <2> DEFINE At(r) == Bytes(entries[r])
             OnlyChanges(ps) == \A r \in Paths \ ps : entries'[r] = entries[r] /\ At(r)' = At(r)
  <2>c. \A x : answer' = <<"copied", q, x>> => call = "copied" /\ q = p /\ x = about
    BY SameCall
  <2>r. \A x : answer' = <<"renamed", q, x>> => call = "renamed" /\ q = p /\ x = about
    BY SameCall
  <2>w. \A x : answer' = <<"wrote file", q, x>> => call = "wrote file" /\ q = p /\ x = about
    BY SameCall
  <2>a. \A x : answer' = <<"appended", q, x>> => call = "appended" /\ q = p /\ x = about
    BY SameCall
  <2>2. \A ps : OthersStay(ps) <=> OnlyChanges(ps)
    BY DEF OthersStay
  <2>3. \A text \in Texts :
           /\ answer' = <<"wrote file", q, text>> => At(q)' = text /\ OnlyChanges({q})
           /\ answer' = <<"appended", q, text>> =>
                 /\ OnlyChanges({q})
                 /\ At(q)' = (IF entries[q] = None THEN <<>> ELSE At(q)) \o text
    <3> TAKE text \in Texts
    <3>1. ASSUME answer' = <<"wrote file", q, text>>
          PROVE  At(q)' = text /\ OnlyChanges({q})
      <4>1. call = "wrote file" /\ q = p /\ text = about
        BY <3>1, <2>w, Zenon
      <4> QED BY <2>2, <4>1
    <3>2. ASSUME answer' = <<"appended", q, text>>
          PROVE  /\ OnlyChanges({q})
                 /\ At(q)' = (IF entries[q] = None THEN <<>> ELSE At(q)) \o text
      <4>1. call = "appended" /\ q = p /\ text = about
        BY <3>2, <2>a, Zenon
      <4> QED BY <2>2, <4>1
    <3> QED BY <3>1, <3>2
  <2>4. \A r \in Paths :
           /\ answer' = <<"copied", q, r>> => At(r)' = At(q) /\ OnlyChanges({r})
           /\ answer' = <<"renamed", q, r>> =>
                 entries'[r] = entries[q] /\ OnlyChanges({q, r})
    <3> TAKE r \in Paths
    <3>1. ASSUME answer' = <<"copied", q, r>>
          PROVE  At(r)' = At(q) /\ OnlyChanges({r})
      <4>1. call = "copied" /\ q = p /\ r = about
        BY <3>1, <2>c, Zenon
      <4> QED BY <2>2, <4>1
    <3>2. ASSUME answer' = <<"renamed", q, r>>
          PROVE  entries'[r] = entries[q] /\ OnlyChanges({q, r})
      <4>1. call = "renamed" /\ q = p /\ r = about
        BY <3>2, <2>r, Zenon
      <4> QED BY <2>2, <4>1
    <3> QED BY <3>1, <3>2
  <2> QED BY <2>3, <2>4, Zenon DEF PathCallsAreDone
<1> QED BY <1>2, <1>3 DEF Done

\* When one path is given the bytes of an inode that no other names.
LEMMA OneWritten ==
    ASSUME FilesAreSound, NEW p \in Paths, NEW i \in Inodes,
           \A q \in Paths : entries[q] = i => q = p,
           NEW text, entries' = [entries EXCEPT ![p] = i],
           content' = [content EXCEPT ![i] = text]
    PROVE  (Bytes(entries[p]))' = text /\ OthersStay({p})
<1>1. /\ \A q \in Paths : entries'[q] = IF q = p THEN i ELSE entries[q]
      /\ \A j \in Inodes : content'[j] = IF j = i THEN text ELSE content[j]
  BY Sound DEF Names
<1>2. (Bytes(entries[p]))' = text
  BY <1>1 DEF Bytes
<1>3. ASSUME NEW r \in Paths \ {p}
      PROVE  entries'[r] = entries[r] /\ (Bytes(entries[r]))' = Bytes(entries[r])
  <2>1. entries'[r] = entries[r] /\ entries[r] # i
    BY <1>1
  <2> QED BY <1>1, <2>1 DEF Bytes
<1> QED BY <1>2, <1>3 DEF OthersStay

LEMMA WriteWholeDoes ==
    ASSUME FilesAreSound, Full = FALSE, NEW p \in Paths, NEW before \in Seq(Int),
           NEW text \in Texts, NEW response, WriteWhole(p, before, text, response)
    PROVE  \/ Refuse("io")
           \/ /\ answer' = response /\ entries[p] # Directory
              /\ (Bytes(entries[p]))' = before \o text /\ OthersStay({p})
<1> SUFFICES ASSUME ~Refuse("io")
             PROVE  /\ answer' = response /\ entries[p] # Directory
                    /\ (Bytes(entries[p]))' = before \o text /\ OthersStay({p})
  OBVIOUS
<1>1. text \in Seq(Int) /\ Len(text) \in Nat
  BY InputsAssumption, LenProperties
<1>2. /\ entries[p] # Directory /\ answer' = response
      /\ entries' = [entries EXCEPT ![p] = Created(p)]
      /\ content' = [content EXCEPT ![Created(p)] = before \o SubSeq(text, 1, Len(text))]
  BY <1>1 DEF WriteWhole, Takes
<1>3. SubSeq(text, 1, Len(text)) = text
  BY <1>1, Cut
<1>4. Created(p) \in Inodes /\ \A q \in Paths : entries[q] = Created(p) => q = p
  BY <1>2, CreatedIs DEF FilesAreSound
<1> QED BY <1>2, <1>3, <1>4, OneWritten

LEMMA WriteFileIsDone ==
    ASSUME FilesAreSound, Full = FALSE, NEW p \in Paths, NEW text \in Texts,
           WriteFile(p, text)
    PROVE  Done
<1>1. text \in Seq(Int) /\ <<>> \in Seq(Int)
  BY InputsAssumption, EmptySeq
<1>2. \/ Refuse("io")
      \/ /\ answer' = <<"wrote file", p, text>>
         /\ (Bytes(entries[p]))' = <<>> \o text /\ OthersStay({p})
  BY <1>1, WriteWholeDoes DEF WriteFile
<1>3. <<>> \o text = text
  BY <1>1, ConcatEmptySeq
<1>4. CASE Refuse("io")
  BY <1>4, RefusalClaimsNothing DEF Refuse
<1>5. CASE /\ answer' = <<"wrote file", p, text>>
           /\ (Bytes(entries[p]))' = text /\ OthersStay({p})
  BY <1>5, AnswersDiffer, PathClaim
<1> QED BY <1>2, <1>3, <1>4, <1>5

LEMMA AppendFileIsDone ==
    ASSUME FilesAreSound, Full = FALSE, NEW p \in Paths, NEW text \in Texts,
           AppendFile(p, text)
    PROVE  Done
<1> DEFINE before == IF entries[p] \in Inodes THEN Bytes(entries[p]) ELSE <<>>
<1>1. before \in Seq(Int)
  BY BytesType, EmptySeq DEF FilesAreSound
<1>2. \/ Refuse("io")
      \/ /\ answer' = <<"appended", p, text>> /\ entries[p] # Directory
         /\ (Bytes(entries[p]))' = before \o text /\ OthersStay({p})
  <2>1. WriteWhole(p, before, text, <<"appended", p, text>>)
    BY DEF AppendFile
  <2> HIDE DEF before
  <2> QED BY <1>1, <2>1, WriteWholeDoes
<1>3. CASE Refuse("io")
  BY <1>3, RefusalClaimsNothing DEF Refuse
<1>4. CASE /\ answer' = <<"appended", p, text>> /\ entries[p] # Directory
           /\ (Bytes(entries[p]))' = before \o text /\ OthersStay({p})
  <2>1. before = IF entries[p] = None THEN <<>> ELSE Bytes(entries[p])
    <3>1. entries[p] \in Inodes \cup {None, Directory}
      BY Sound DEF Names
    <3> QED BY <1>4, <3>1, NamesAssumption
  <2> HIDE DEF before
  <2> QED BY <1>4, <2>1, AnswersDiffer, PathClaim
<1> QED BY <1>2, <1>3, <1>4

LEMMA CopyFileIsDone ==
    ASSUME FilesAreSound, Full = FALSE, SameFile = FALSE,
           NEW from \in Paths, NEW to \in Paths, CopyFile(from, to)
    PROVE  Done
<1> DEFINE dst == Created(to)
           emptied == [content EXCEPT ![dst] = <<>>]
           bytes == emptied[entries[from]]
<1>1. CASE answer' = <<"io">>
  BY <1>1, RefusalClaimsNothing
<1>2. CASE answer' # <<"io">>
  <2>1. /\ entries[from] # None /\ entries[to] # Directory /\ entries[from] # Directory
        /\ from # to
        /\ entries' = [entries EXCEPT ![to] = dst]
        /\ content' = [content EXCEPT ![dst] = SubSeq(bytes, 1, Len(bytes))]
        /\ answer' = <<"copied", from, to>>
    BY <1>2 DEF CopyFile, Refuse, Takes
  <2>2. dst \in Inodes /\ \A q \in Paths : entries[q] = dst => q = to
    BY <2>1, CreatedIs DEF FilesAreSound
  <2>3. entries[from] \in Inodes /\ entries[from] # dst
    BY <2>1, <2>2, Sound DEF Names
  <2> HIDE DEF dst
  <2>4. bytes = Bytes(entries[from])
    BY <2>2, <2>3, Sound DEF Bytes
  <2>5. SubSeq(bytes, 1, Len(bytes)) = Bytes(entries[from])
    <3>1. Bytes(entries[from]) \in Seq(Int) /\ Len(Bytes(entries[from])) \in 0 .. Len(Bytes(entries[from]))
      BY BytesType DEF FilesAreSound
    <3> HIDE DEF bytes
    <3> QED BY <2>4, <3>1, Cut
  <2> HIDE DEF bytes
  <2>6. (Bytes(entries[to]))' = Bytes(entries[from]) /\ OthersStay({to})
    BY <2>1, <2>2, <2>5, OneWritten
  <2> QED BY <2>1, <2>6, AnswersDiffer, PathClaim
<1> QED BY <1>1, <1>2

\* Whatever a path names goes on existing.
LEMMA NamedAreKept ==
    ASSUME Names(entries), NEW names,
           content' = Reclaimed(content, names, stream), entries' = names,
           NEW r \in Paths, names[r] = entries[r]
    PROVE  entries'[r] = entries[r] /\ (Bytes(entries[r]))' = Bytes(entries[r])
<1>1. entries[r] \in Inodes => content'[entries[r]] = content[entries[r]]
  BY DEF Reclaimed
<1> QED BY <1>1 DEF Bytes

LEMMA RenameIsDone ==
    ASSUME FilesAreSound, NEW from \in Paths, NEW to \in Paths, Rename(from, to)
    PROVE  Done
<1> DEFINE names == IF from = to THEN entries
                    ELSE [entries EXCEPT ![from] = None, ![to] = entries[from]]
<1>1. CASE Refuse("io")
  BY <1>1, RefusalClaimsNothing DEF Refuse
<1>2. CASE ~Refuse("io")
  <2>1. /\ entries' = names /\ content' = Reclaimed(content, names, stream)
        /\ answer' = <<"renamed", from, to>>
    BY <1>2 DEF Rename, Rearrange
  <2>2. /\ names[to] = entries[from]
        /\ \A r \in Paths \ {from, to} : names[r] = entries[r]
    BY Sound DEF Names
  <2>3. OthersStay({from, to})
    <3> HIDE DEF names
    <3> QED BY <2>1, <2>2, Sound, NamedAreKept DEF OthersStay
  <2> QED BY <2>1, <2>2, <2>3, AnswersDiffer, PathClaim
<1> QED BY <1>1, <1>2

-----------------------------------------------------------------------------
LEMMA OnFileIsDone ==
    ASSUME FilesAreSound, Full = FALSE, NEW h \in Handles, OnFile(h)
    PROVE  Done
<1>1. CASE stream[h] = Closed
  BY <1>1, RefusalClaimsNothing DEF OnFile, Refuse
<1>2. CASE stream[h] # Closed
  <2>1. CASE Close(h) \/ Collect(h)
    BY <1>2, <2>1, FcloseIsDone DEF Close, Collect
  <2>2. CASE Flush(h)
    BY <1>2, <2>2, FlushIsDone
  <2>3. CASE Tell(h) \/ ReadAll(h) \/ ReadLine(h) \/ ReadLines(h) \/ \E n \in Asked : Read(h, n)
    <3> DEFINE Harmless == \/ \E reason : answer' = <<reason>>
                           \/ answer'[1] \in {"at", "all", "line", "lines", "read"}
    <3>t. ASSUME Tell(h) PROVE Harmless
      BY <3>t, First DEF Tell
    <3>c. ASSUME \E s : CannotRead(s) PROVE Harmless
      BY <3>c DEF CannotRead, Refuse
    <3>a. ASSUME ReadAll(h) PROVE Harmless
      <4>1. ASSUME answer' = <<"io">> PROVE Harmless
        BY <4>1
      <4>2. ASSUME \E text : answer' = <<"all", h, text>> PROVE Harmless
        BY <4>2, First
      <4> QED BY <3>a, <3>c, <4>1, <4>2 DEF ReadAll
    <3>l. ASSUME ReadLine(h) \/ ReadLines(h) PROVE Harmless
      <4>1. ASSUME \E text : answer' = <<"line", h, text>> \/ answer' = <<"lines", h, text>> PROVE Harmless
        BY <4>1, First
      <4> QED BY <3>l, <3>c, <4>1 DEF ReadLine, ReadLines
    <3>r. ASSUME \E n \in Asked : Read(h, n) PROVE Harmless
      <4>1. ASSUME answer' = <<"value">> PROVE Harmless
        BY <4>1
      <4>2. ASSUME \E text : answer' = <<"read", h, text>> PROVE Harmless
        BY <4>2, First
      <4> QED BY <3>r, <3>c, <4>1, <4>2 DEF Read, Refuse
    <3>1. Harmless
      BY <2>3, <3>t, <3>a, <3>l, <3>r
    <3>2. \A c \in {"at", "all", "line", "lines", "read"} :
             c \notin HandleAnswers \cup PathAnswers
      BY DEF HandleAnswers, PathAnswers
    <3> QED BY <3>1, <3>2, NothingClaimed, RefusalClaimsNothing
  <2>4. CASE \E text \in Texts : Write(h, text)
    BY <1>2, <2>4, WriteIsDone
  <2>5. CASE \E o \in Offsets, w \in {"start", "current", "end"} : Seek(h, o, w)
    BY <1>2, <2>5, SeekIsDone
  <2> QED BY <1>2, <2>1, <2>2, <2>3, <2>4, <2>5 DEF OnFile
<1> QED BY <1>1, <1>2

LEMMA OnPathIsDone ==
    ASSUME FilesAreSound, Full = FALSE, SameFile = FALSE, NEW p \in Paths, OnPath(p)
    PROVE  Done
<1>1. CASE ReadFile(p) \/ Remove(p) \/ MakeDir(p) \/ RemoveDir(p)
  <2>1. \/ \E reason : answer' = <<reason>>
        \/ answer'[1] \in {"file", "removed", "made"}
    BY <1>1, First DEF ReadFile, Remove, MakeDir, RemoveDir, Rearrange, Refuse
  <2>2. \A c \in {"file", "removed", "made"} : c \notin HandleAnswers \cup PathAnswers
    BY DEF HandleAnswers, PathAnswers
  <2> QED BY <2>1, <2>2, NothingClaimed, RefusalClaimsNothing
<1>2. CASE \E text \in Texts : WriteFile(p, text) \/ AppendFile(p, text)
  BY <1>2, WriteFileIsDone, AppendFileIsDone
<1>3. CASE \E to \in Paths : CopyFile(p, to) \/ Rename(p, to)
  BY <1>3, CopyFileIsDone, RenameIsDone
<1> QED BY <1>1, <1>2, <1>3 DEF OnPath

LEMMA NextIsDone ==
    ASSUME FilesAreSound, Full = FALSE, SameFile = FALSE, [Next]_vars
    PROVE  [Done]_vars
<1>1. CASE UNCHANGED vars
  BY <1>1
<1>2. CASE \E h \in Handles : OnFile(h)
  BY <1>2, OnFileIsDone
<1>3. CASE \E h \in Handles, p \in Paths, mode \in Modes : Open(h, p, mode)
  <2>1. \/ \E reason : answer' = <<reason>>
        \/ answer'[1] \in {"opened"}
    BY <1>3, First DEF Open, Refuse
  <2>2. "opened" \notin HandleAnswers \cup PathAnswers
    BY DEF HandleAnswers, PathAnswers
  <2>3. Done
    BY <2>1, <2>2, NothingClaimed, RefusalClaimsNothing
  <2> QED BY <2>3
<1>4. CASE \E p \in Paths : OnPath(p)
  BY <1>4, OnPathIsDone
<1> QED BY <1>1, <1>2, <1>3, <1>4 DEF Next

(***************************************************************************)
(* What a call answers to have done is done, as long as the disk takes     *)
(* what is written and no file is copied onto itself: what was written is  *)
(* at the offset, what was flushed or closed is what the path reads, a     *)
(* copy is a copy, and every other path reads what it read.                *)
(***************************************************************************)
THEOREM AnswersAreTrue ==
    ASSUME Full = FALSE, SameFile = FALSE
    PROVE  Spec => AcknowledgedIsDone
<1>1. FilesAreSound /\ [Next]_vars => [Done]_vars
  BY NextIsDone
<1>2. Spec => [][Done]_vars
  BY <1>1, NoCallLeaksADescriptor, PTL DEF Spec
<1> QED BY <1>2 DEF AcknowledgedIsDone, Done

-----------------------------------------------------------------------------
(***************************************************************************)
(* sort puts an array in order and keeps its elements, for arrays of every *)
(* size and of any elements (Sorting).                                     *)
(*                                                                         *)
(* The parts quick_sort has still to sort, pending, are disjoint and go up *)
(* the array, and whatever two positions do not share a part are in order. *)
(* An exchange within the first part keeps that: nothing outside the part  *)
(* can tell its elements apart by position.  When partition ends, the      *)
(* pivot parts the first part in two, because what compares less than or   *)
(* equal to the pivot compares so with what is greater than it, Floats     *)
(* that are not numbers and elements of different types included.          *)
(***************************************************************************)

Pairs == Int \X Int

Within(part, p) == part[1] <= p /\ p <= part[2]

\* p and q are in one of the parts.
Beside(parts, p, q) ==
    \E k \in 1 .. Len(parts) : Within(parts[k], p) /\ Within(parts[k], q)

\* The parts of an array of n elements follow each other; one may be empty.
Follow(parts, n) ==
    /\ \A k \in 1 .. Len(parts) : /\ 1 <= parts[k][1]
                                  /\ parts[k][1] <= parts[k][2] + 1
                                  /\ parts[k][2] <= n
    /\ \A k, l \in 1 .. Len(parts) : k < l => parts[k][2] < parts[l][1]

\* What is not in one part is in order.
Ordered(array, parts, n) ==
    \A p, q \in 1 .. n : p < q => Beside(parts, p, q) \/ Compare(array[p], array[q]) <= 0

-----------------------------------------------------------------------------
N == Len(original)

SortTypes ==
    /\ original \in SortableArrays
    /\ sorted \in [1 .. N -> Sortables]
    /\ pending \in Seq(Pairs)
    /\ scan \in [low : Int, high : Int, i : Int, j : Int] \cup {NoScan}
    /\ verdict \in {"none", "ok", "unsortable"}

\* The partition that goes on is of the first part.
Scanning ==
    scan # NoScan =>
        /\ pending # <<>> /\ scan.low = pending[1][1] /\ scan.high = pending[1][2]
        /\ scan.low < scan.high
        /\ scan.low - 1 <= scan.i /\ scan.i < scan.j /\ scan.j <= scan.high

Partitioned ==
    scan # NoScan =>
        /\ \A p \in scan.low .. scan.i : Compare(sorted[p], sorted[scan.high]) <= 0
        /\ \A p \in scan.i + 1 .. scan.j - 1 : Compare(sorted[p], sorted[scan.high]) > 0

SortAnswers ==
    /\ pending # <<>> => verdict = "none" /\ original # <<>> /\ all_elements_sortable(original)
    /\ verdict = "ok" => /\ \A p, q \in 1 .. N : p < q => Compare(sorted[p], sorted[q]) <= 0
                         /\ original = <<>> \/ all_elements_sortable(original)
    /\ verdict = "unsortable" => original # <<>> /\ ~all_elements_sortable(original)

SortInvariant ==
    /\ SortTypes
    /\ StaysAPermutation
    /\ Follow(pending, N)
    /\ Scanning
    /\ Partitioned
    /\ pending # <<>> => Ordered(sorted, pending, N)
    /\ SortAnswers

\* Where there are no parts, nothing is in one.
LEMMA NoneBeside == \A p, q : ~Beside(<<>>, p, q)
<1>1. Len(<<>>) = 0
  BY EmptySeq
<1>2. 1 .. 0 = {}
  OBVIOUS
<1> QED BY <1>1, <1>2 DEF Beside

-----------------------------------------------------------------------------
(***************************************************************************)
(* compare_values: equality is not transitive, but what partition needs    *)
(* is: what is not greater than the pivot is not greater than what is.     *)
(***************************************************************************)
LEMMA PivotPart ==
    ASSUME NEW y \in Sortables, NEW pivot \in Sortables,
           Compare(y, pivot) > 0
    PROVE  /\ Comparable(y, pivot) /\ y.rank # NaN /\ pivot.rank # NaN
           /\ y.rank > pivot.rank
           /\ Compare(pivot, y) <= 0
<1>1. y.rank \in Int /\ pivot.rank \in Int
  BY SortingAssumption
<1>2. Comparable(y, pivot) /\ y.rank # NaN /\ pivot.rank # NaN /\ y.rank > pivot.rank
  BY <1>1 DEF Compare
<1>3. Comparable(pivot, y)
  BY <1>2 DEF Comparable
<1>4. Compare(pivot, y) <= 0
  BY <1>1, <1>2, <1>3 DEF Compare
<1> QED BY <1>2, <1>4

LEMMA PivotParts ==
    ASSUME NEW x \in Sortables, NEW y \in Sortables, NEW pivot \in Sortables,
           Compare(x, pivot) <= 0, Compare(y, pivot) > 0
    PROVE  Compare(x, y) <= 0
<1>1. x.rank \in Int /\ y.rank \in Int /\ pivot.rank \in Int
  BY SortingAssumption
<1>2. Comparable(y, pivot) /\ y.rank # NaN /\ pivot.rank # NaN /\ y.rank > pivot.rank
  BY PivotPart
<1>3. CASE ~Comparable(x, y) \/ x.rank = NaN
  BY <1>3 DEF Compare
<1>4. CASE Comparable(x, y) /\ x.rank # NaN
  <2>1. Comparable(x, pivot)
    BY <1>2, <1>4 DEF Comparable, IsNumber
  <2>2. x.rank <= pivot.rank
    BY <1>1, <1>2, <1>4, <2>1 DEF Compare
  <2>3. Compare(x, y) = x.rank - y.rank
    BY <1>2, <1>4 DEF Compare
  <2> QED BY <1>1, <1>2, <2>2, <2>3
<1> QED BY <1>3, <1>4

\* all_elements_sortable says that every two elements can be compared.
LEMMA SortableIsComparable ==
    ASSUME NEW array, NEW n \in Nat \ {0}, DOMAIN array = 1 .. n
    PROVE  all_elements_sortable(array)
              <=> \A p, q \in 1 .. n : Comparable(array[p], array[q])
<1>1. ASSUME all_elements_sortable(array), NEW p \in 1 .. n, NEW q \in 1 .. n
      PROVE  Comparable(array[p], array[q])
  BY <1>1 DEF all_elements_sortable, Comparable
<1>2. ASSUME \A p, q \in 1 .. n : Comparable(array[p], array[q])
      PROVE  all_elements_sortable(array)
  <2>1. \A p \in 1 .. n : Comparable(array[p], array[p])
    BY <1>2
  <2>2. \A p \in 1 .. n : array[p].type \in {"Int", "Float", "String"}
    BY <2>1 DEF Comparable, IsNumber
  <2>3. 1 \in 1 .. n
    OBVIOUS
  <2>4. \A p \in 1 .. n : Comparable(array[1], array[p])
    BY <1>2, <2>3
  <2>5. CASE array[1].type = "String"
    <3>1. \A p \in 1 .. n : array[p].type = "String"
      BY <2>4, <2>5 DEF Comparable, IsNumber
    <3> QED BY <2>2, <3>1 DEF all_elements_sortable
  <2>6. CASE array[1].type # "String"
    <3>1. \A p \in 1 .. n : IsNumber(array[p])
      BY <2>4, <2>6 DEF Comparable
    <3> QED BY <2>2, <3>1 DEF all_elements_sortable
  <2> QED BY <2>5, <2>6
<1> QED BY <1>1, <1>2

-----------------------------------------------------------------------------
(***************************************************************************)
(* An exchange.                                                            *)
(***************************************************************************)
LEMMA Exchange ==
    ASSUME NEW n \in Nat, NEW array \in [1 .. n -> Sortables],
           NEW a \in 1 .. n, NEW b \in 1 .. n
    PROVE  /\ Swapped(array, a, b) \in [1 .. n -> Sortables]
           /\ \A p \in 1 .. n : Swapped(array, a, b)[p] =
                 array[IF p = a THEN b ELSE IF p = b THEN a ELSE p]
BY DEF Swapped

\* It keeps how often an element is there: it is a bijection of positions.
LEMMA ExchangeKeepsCounts ==
    ASSUME NEW n \in Nat, NEW array \in [1 .. n -> Sortables],
           NEW a \in 1 .. n, NEW b \in 1 .. n, NEW e
    PROVE  CountOf(Swapped(array, a, b), e) = CountOf(array, e)
<1> DEFINE after == Swapped(array, a, b)
           S == {p \in 1 .. n : array[p] = e}
           T == {p \in 1 .. n : after[p] = e}
           Other(p) == IF p = a THEN b ELSE IF p = b THEN a ELSE p
           f == [p \in S |-> Other(p)]
<1>1. after \in [1 .. n -> Sortables] /\ \A p \in 1 .. n : after[p] = array[Other(p)]
  BY Exchange
<1> HIDE DEF after
<1>2. \A p \in 1 .. n : Other(p) \in 1 .. n /\ Other(Other(p)) = p
  OBVIOUS
<1> HIDE DEF Other
<1>3. \A p \in S : Other(p) \in T
  BY <1>1, <1>2
<1>4. \A p \in T : Other(p) \in S
  BY <1>1, <1>2
<1>5. f \in [S -> T]
  BY <1>3
<1>6. \A p, q \in S : f[p] = f[q] => p = q
  BY <1>2
<1>7. \A q \in T : \E p \in S : f[p] = q
  BY <1>2, <1>4
<1>8. f \in Bijection(S, T)
  BY <1>5, <1>6, <1>7, Zenon DEF Bijection, Injection, Surjection, IsInjective
<1>9. ExistsBijection(S, T)
  BY <1>8 DEF ExistsBijection
<1>10. IsFiniteSet(S)
  <2>1. 1 \in Int /\ n \in Int /\ S \in SUBSET (1 .. n)
    OBVIOUS
  <2>2. IsFiniteSet(1 .. n)
    BY <2>1, FS_Interval
  <2> HIDE DEF S
  <2> QED BY <2>1, <2>2, FS_Subset
<1>11. Cardinality(T) = Cardinality(S)
  <2> HIDE DEF S, T
  <2> QED BY <1>9, <1>10, FS_Bijection
<1>12. CountOf(array, e) = Cardinality(S)
  BY DEF CountOf
<1>13. CountOf(after, e) = Cardinality(T)
  BY <1>1 DEF CountOf
<1> QED BY <1>11, <1>12, <1>13 DEF after

\* Parts that follow each other have no position in common.
LEMMA PartsAreDisjoint ==
    ASSUME NEW n \in Nat, NEW parts \in Seq(Pairs), Follow(parts, n),
           NEW k \in 1 .. Len(parts), NEW l \in 1 .. Len(parts), NEW p \in Int,
           Within(parts[k], p), Within(parts[l], p)
    PROVE  k = l
<1>1. parts[k] \in Pairs /\ parts[l] \in Pairs
  BY ElementOfSeq
<1>2. /\ parts[k][1] \in Int /\ parts[k][2] \in Int
      /\ parts[l][1] \in Int /\ parts[l][2] \in Int
  BY <1>1 DEF Pairs
<1>3. ~ (parts[k][2] < parts[l][1]) /\ ~ (parts[l][2] < parts[k][1])
  BY <1>2 DEF Within
<1>4. k \in Int /\ l \in Int
  BY LenProperties
<1>5. ~ (k < l) /\ ~ (l < k)
  BY <1>3 DEF Follow
<1> QED BY <1>4, <1>5

\* An exchange in the first part leaves in order what was.
LEMMA ExchangeKeepsOrder ==
    ASSUME NEW n \in Nat, NEW array \in [1 .. n -> Sortables],
           NEW parts \in Seq(Pairs), parts # <<>>, Follow(parts, n),
           Ordered(array, parts, n),
           NEW a \in 1 .. n, NEW b \in 1 .. n, Within(parts[1], a), Within(parts[1], b)
    PROVE  Ordered(Swapped(array, a, b), parts, n)
<1> SUFFICES ASSUME NEW p \in 1 .. n, NEW q \in 1 .. n, p < q, ~Beside(parts, p, q)
             PROVE  Compare(Swapped(array, a, b)[p], Swapped(array, a, b)[q]) <= 0
  BY DEF Ordered
<1> DEFINE Other(x) == IF x = a THEN b ELSE IF x = b THEN a ELSE x
<1>1. /\ Swapped(array, a, b)[p] = array[Other(p)]
      /\ Swapped(array, a, b)[q] = array[Other(q)]
  BY Exchange
<1>2. Other(p) \in 1 .. n /\ Other(q) \in 1 .. n
  OBVIOUS
<1>3. 1 \in 1 .. Len(parts) /\ parts[1] \in Pairs
  <2>1. 1 \in 1 .. Len(parts)
    BY EmptySeq
  <2> QED BY <2>1, ElementOfSeq
<1>4. parts[1][1] \in Int /\ parts[1][2] \in Int
  BY <1>3 DEF Pairs
<1>5. ~ (Within(parts[1], p) /\ Within(parts[1], q))
  BY <1>3 DEF Beside
\* what an exchange moves stays in the part
<1>6. ASSUME NEW x \in 1 .. n
      PROVE  /\ Within(parts[1], Other(x)) <=> Within(parts[1], x)
             /\ ~Within(parts[1], x) => Other(x) = x
  OBVIOUS
<1>7. Other(p) < Other(q)
  <2>1. CASE ~Within(parts[1], p) /\ ~Within(parts[1], q)
    BY <1>6, <2>1
  <2>2. CASE Within(parts[1], p) /\ ~Within(parts[1], q)
    <3>1. Other(q) = q /\ Within(parts[1], Other(p))
      BY <1>6, <2>2
    <3> HIDE DEF Other
    <3> QED BY <1>2, <1>4, <2>2, <3>1 DEF Within
  <2>3. CASE ~Within(parts[1], p) /\ Within(parts[1], q)
    <3>1. Other(p) = p /\ Within(parts[1], Other(q))
      BY <1>6, <2>3
    <3> HIDE DEF Other
    <3> QED BY <1>2, <1>4, <2>3, <3>1 DEF Within
  <2> QED BY <1>5, <2>1, <2>2, <2>3
<1>8. ~Beside(parts, Other(p), Other(q))
  <2> SUFFICES ASSUME NEW k \in 1 .. Len(parts),
                      Within(parts[k], Other(p)), Within(parts[k], Other(q))
               PROVE  FALSE
    BY DEF Beside
  <2>1. CASE k = 1
    BY <1>5, <1>6, <2>1
  <2>2. CASE k # 1
    <3>1. ~Within(parts[1], Other(p)) /\ ~Within(parts[1], Other(q))
      <4>1. Other(p) \in Int /\ Other(q) \in Int
        BY <1>2
      <4> HIDE DEF Other
      <4> QED BY <1>3, <2>2, <4>1, PartsAreDisjoint
    <3>2. Other(p) = p /\ Other(q) = q
      BY <1>6, <3>1
    <3>3. Beside(parts, p, q)
      BY <3>2 DEF Beside
    <3> QED BY <3>3
  <2> QED BY <2>1, <2>2
<1> HIDE DEF Other
<1>9. Compare(array[Other(p)], array[Other(q)]) <= 0
  BY <1>2, <1>7, <1>8 DEF Ordered
<1> QED BY <1>1, <1>9

-----------------------------------------------------------------------------
(***************************************************************************)
(* The first part is dropped when it has at most one element.              *)
(***************************************************************************)
LEMMA DropPart ==
    ASSUME NEW n \in Nat, NEW array \in [1 .. n -> Sortables],
           NEW parts \in Seq(Pairs), parts # <<>>, Follow(parts, n),
           Ordered(array, parts, n), ~ (parts[1][1] < parts[1][2])
    PROVE  /\ Tail(parts) \in Seq(Pairs)
           /\ Follow(Tail(parts), n)
           /\ Ordered(array, Tail(parts), n)
<1> DEFINE rest == Tail(parts)
<1>1. /\ rest \in Seq(Pairs) /\ Len(rest) = Len(parts) - 1
      /\ \A k \in 1 .. Len(rest) : rest[k] = parts[k + 1]
  BY HeadTailProperties
<1>2. Len(parts) \in Nat \ {0} /\ 1 \in 1 .. Len(parts)
  BY EmptySeq
<1> HIDE DEF rest
<1>3. \A k \in 1 .. Len(rest) : k + 1 \in 1 .. Len(parts)
  BY <1>1, <1>2
<1>4. Follow(rest, n)
  <2>1. \A k, l \in 1 .. Len(rest) : k < l => k + 1 < l + 1
    BY <1>1, <1>2
  <2> QED BY <1>1, <1>3, <2>1 DEF Follow
<1>5. Ordered(array, rest, n)
  <2> SUFFICES ASSUME NEW p \in 1 .. n, NEW q \in 1 .. n, p < q, Beside(parts, p, q)
               PROVE  Beside(rest, p, q)
    BY DEF Ordered
  <2>1. PICK k \in 1 .. Len(parts) : Within(parts[k], p) /\ Within(parts[k], q)
    BY DEF Beside
  <2>2. k # 1
    <3>1. parts[1] \in Pairs
      BY <1>2, ElementOfSeq
    <3>2. parts[1][1] \in Int /\ parts[1][2] \in Int
      BY <3>1 DEF Pairs
    <3> QED BY <2>1, <3>2 DEF Within
  <2>3. k - 1 \in 1 .. Len(rest) /\ rest[k - 1] = parts[k]
    <3>1. k - 1 \in 1 .. Len(rest) /\ (k - 1) + 1 = k
      BY <1>1, <1>2, <2>2
    <3> QED BY <1>1, <3>1
  <2> QED BY <2>1, <2>3 DEF Beside
<1> QED BY <1>1, <1>4, <1>5 DEF rest

(***************************************************************************)
(* The first part is split where partition puts the pivot.                 *)
(***************************************************************************)
LEMMA SplitPart ==
    ASSUME NEW n \in Nat, NEW array \in [1 .. n -> Sortables],
           NEW parts \in Seq(Pairs), parts # <<>>, Follow(parts, n),
           Ordered(array, parts, n),
           NEW low \in Int, NEW high \in Int, parts[1][1] = low, parts[1][2] = high,
           low < high, NEW i \in low - 1 .. high - 1,
           \A p \in low .. i : Compare(array[p], array[high]) <= 0,
           \A p \in i + 1 .. high - 1 : Compare(array[p], array[high]) > 0
    PROVE  LET split == <<<<low, i>>, <<i + 2, high>>>> \o Tail(parts)
           IN  /\ split \in Seq(Pairs) /\ split # <<>>
               /\ Follow(split, n)
               /\ Ordered(Swapped(array, i + 1, high), split, n)
<1> DEFINE first == <<low, i>>
           second == <<i + 2, high>>
           two == <<first, second>>
           rest == Tail(parts)
           split == two \o rest
           after == Swapped(array, i + 1, high)
<1>1. /\ rest \in Seq(Pairs) /\ Len(rest) = Len(parts) - 1
      /\ \A k \in 1 .. Len(rest) : rest[k] = parts[k + 1]
  BY HeadTailProperties
<1>2. Len(parts) \in Nat \ {0} /\ 1 \in 1 .. Len(parts)
  BY EmptySeq
<1>3. i \in Int /\ low - 1 <= i /\ i < high
  OBVIOUS
<1>4. first \in Pairs /\ second \in Pairs
  BY <1>3 DEF Pairs
<1>5. first[1] = low /\ first[2] = i /\ second[1] = i + 2 /\ second[2] = high
  OBVIOUS
<1> HIDE DEF first, second
<1>6. two \in Seq(Pairs) /\ Len(two) = 2 /\ two[1] = first /\ two[2] = second
  BY <1>4
<1> HIDE DEF two, rest
<1>7. /\ split \in Seq(Pairs) /\ Len(split) = Len(two) + Len(rest)
      /\ \A k \in 1 .. Len(two) + Len(rest) :
            split[k] = IF k <= Len(two) THEN two[k] ELSE rest[k - Len(two)]
  BY <1>1, <1>6, ConcatProperties
<1> HIDE DEF split
<1>8. Len(split) = Len(parts) + 1
  BY <1>1, <1>2, <1>6, <1>7
<1>9. split[1] = first /\ split[2] = second
  BY <1>2, <1>6, <1>7, <1>8
<1>10. \A k \in 3 .. Len(split) : k - 1 \in 2 .. Len(parts) /\ split[k] = parts[k - 1]
  <2> SUFFICES ASSUME NEW k \in 3 .. Len(split)
               PROVE  k - 1 \in 2 .. Len(parts) /\ split[k] = parts[k - 1]
    OBVIOUS
  <2>1. k - 1 \in 2 .. Len(parts)
    BY <1>2, <1>8
  <2>2. split[k] = rest[k - 2]
    BY <1>2, <1>6, <1>7, <1>8
  <2>3. k - 2 \in 1 .. Len(rest) /\ (k - 2) + 1 = k - 1
    BY <1>1, <1>2, <1>8
  <2> QED BY <1>1, <2>1, <2>2, <2>3
<1>11. split # <<>>
  <2>1. Len(split) # 0
    BY <1>2, <1>8
  <2> QED BY <2>1, EmptySeq
<1>12. 1 <= low /\ high <= n
  BY <1>2 DEF Follow
<1>13. Follow(split, n)
  <2>1. ASSUME NEW k \in 1 .. Len(split)
        PROVE  1 <= split[k][1] /\ split[k][1] <= split[k][2] + 1 /\ split[k][2] <= n
    <3>1. CASE k = 1
      BY SMTT(30), <1>3, <1>5, <1>9, <1>12, <3>1
    <3>2. CASE k = 2
      BY <1>3, <1>5, <1>9, <1>12, <3>2
    <3>3. CASE k \in 3 .. Len(split)
      <4>1. k - 1 \in 1 .. Len(parts) /\ split[k] = parts[k - 1]
        BY <1>10, <3>3
      <4> QED BY <4>1 DEF Follow
    <3> QED BY <1>2, <1>8, <3>1, <3>2, <3>3
  <2>2. ASSUME NEW k \in 1 .. Len(split), NEW l \in 1 .. Len(split), k < l
        PROVE  split[k][2] < split[l][1]
    <3>1. CASE k = 1 /\ l = 2
      BY <1>3, <1>5, <1>9, <3>1
    <3>2. CASE k \in 1 .. 2 /\ l \in 3 .. Len(split)
      <4>1. l - 1 \in 1 .. Len(parts) /\ 1 < l - 1 /\ split[l] = parts[l - 1]
        BY <1>10, <3>2
      <4>2. high < parts[l - 1][1]
        BY <1>2, <4>1 DEF Follow
      <4>3. parts[l - 1] \in Pairs
        BY <4>1, ElementOfSeq
      <4>4. parts[l - 1][1] \in Int
        BY <4>3 DEF Pairs
      <4>5. split[k][2] = i \/ split[k][2] = high
        BY SMTT(30), <1>5, <1>9, <3>2
      <4> QED BY <1>3, <4>1, <4>2, <4>4, <4>5
    <3>3. CASE k \in 3 .. Len(split)
      <4>1. l \in 3 .. Len(split)
        BY <1>2, <1>8, <2>2, <3>3
      <4>2. /\ k - 1 \in 1 .. Len(parts) /\ split[k] = parts[k - 1]
            /\ l - 1 \in 1 .. Len(parts) /\ split[l] = parts[l - 1]
        BY SMTT(30), <1>10, <3>3, <4>1
      <4>3. k - 1 < l - 1
        BY <1>2, <1>8, <2>2
      <4> QED BY <4>2, <4>3 DEF Follow
    <3> QED BY <1>2, <1>8, <2>2, <3>1, <3>2, <3>3
  <2> QED BY <2>1, <2>2 DEF Follow
<1>14. Ordered(after, split, n)
  <2>1. i + 1 \in 1 .. n /\ high \in 1 .. n
    BY <1>3, <1>12
  <2>2. Within(parts[1], i + 1) /\ Within(parts[1], high)
    BY <1>3 DEF Within
  <2>3. Ordered(after, parts, n)
    BY <2>1, <2>2, ExchangeKeepsOrder
  <2>4. \A p \in 1 .. n : after[p] =
           array[IF p = i + 1 THEN high ELSE IF p = high THEN i + 1 ELSE p]
    BY <2>1, Exchange
  <2>5. \A p \in 1 .. n : after[p] \in Sortables /\ array[p] \in Sortables
    BY <2>1, Exchange
  <2> HIDE DEF after
  <2>6. after[i + 1] = array[high]
    BY <2>1, <2>4
  <2>7. \A p \in low .. i : after[p] = array[p]
    <3> SUFFICES ASSUME NEW p \in low .. i
                 PROVE  after[p] = array[p]
      OBVIOUS
    <3>1. p \in 1 .. n /\ p # i + 1 /\ p # high
      BY <1>3, <1>12
    <3> QED BY <2>4, <3>1
  \* right of the pivot everything is greater
  <2>8. \A p \in i + 2 .. high : p \in 1 .. n /\ Compare(after[p], array[high]) > 0
    <3> SUFFICES ASSUME NEW p \in i + 2 .. high
                 PROVE  p \in 1 .. n /\ Compare(after[p], array[high]) > 0
      OBVIOUS
    <3>1. p \in 1 .. n /\ p # i + 1
      BY <1>3, <1>12
    <3>2. CASE p = high
      <4>1. after[p] = array[i + 1] /\ i + 1 \in i + 1 .. high - 1
        BY <1>3, <2>4, <3>1, <3>2
      <4> QED BY <3>1, <4>1
    <3>3. CASE p # high
      <4>1. after[p] = array[p] /\ p \in i + 1 .. high - 1
        BY <1>3, <2>4, <3>1, <3>3
      <4> QED BY <3>1, <4>1
    <3> QED BY <3>2, <3>3
  <2> SUFFICES ASSUME NEW p \in 1 .. n, NEW q \in 1 .. n, p < q, ~Beside(split, p, q)
               PROVE  Compare(after[p], after[q]) <= 0
    BY DEF Ordered
  <2>9. CASE ~Beside(parts, p, q)
    BY <2>3, <2>9 DEF Ordered
  <2>10. CASE Beside(parts, p, q)
    <3>1. PICK k \in 1 .. Len(parts) : Within(parts[k], p) /\ Within(parts[k], q)
      BY <2>10 DEF Beside
    <3>2. k = 1
      <4> SUFFICES ASSUME k # 1
                   PROVE  FALSE
        OBVIOUS
      <4>1. k + 1 \in 3 .. Len(split) /\ (k + 1) - 1 = k
        BY <1>2, <1>8
      <4>2. k + 1 \in 1 .. Len(split) /\ split[k + 1] = parts[k]
        BY <1>10, <4>1
      <4> QED BY <3>1, <4>2 DEF Beside
    <3>3. low <= p /\ q <= high
      BY <3>1, <3>2 DEF Within
    <3>4. ~ (q <= i)
      <4> SUFFICES ASSUME q <= i
                   PROVE  FALSE
        OBVIOUS
      <4>1. Within(split[1], p) /\ Within(split[1], q)
        BY <1>3, <1>5, <1>9, <3>3 DEF Within
      <4> QED BY <1>2, <1>8, <4>1 DEF Beside
    <3>5. ~ (i + 2 <= p)
      <4> SUFFICES ASSUME i + 2 <= p
                   PROVE  FALSE
        OBVIOUS
      <4>1. Within(split[2], p) /\ Within(split[2], q)
        BY <1>3, <1>5, <1>9, <3>3 DEF Within
      <4> QED BY SMTT(30), <1>2, <1>8, <4>1 DEF Beside
    <3>6. CASE p = i + 1
      <4>1. q \in i + 2 .. high
        BY <1>3, <3>3, <3>6
      <4>2. Compare(after[q], array[high]) > 0
        BY <2>8, <4>1
      <4> QED BY <2>1, <2>5, <2>6, <3>6, <4>2, PivotPart
    <3>7. CASE p # i + 1
      <4>1. p \in low .. i
        BY <1>3, <3>3, <3>5, <3>7
      <4>2. after[p] = array[p] /\ Compare(array[p], array[high]) <= 0
        BY <2>7, <4>1
      <4>3. CASE q = i + 1
        BY <2>6, <4>2, <4>3
      <4>4. CASE q # i + 1
        <5>1. q \in i + 2 .. high
          BY <1>3, <3>3, <3>4, <4>4
        <5>2. Compare(after[q], array[high]) > 0
          BY <2>8, <5>1
        <5> QED BY <2>1, <2>5, <4>2, <5>2, PivotParts
      <4> QED BY <4>3, <4>4
    <3> QED BY <3>6, <3>7
  <2> QED BY <2>9, <2>10
<1> QED BY <1>7, <1>11, <1>13, <1>14 DEF split, after, two, first, second, rest

-----------------------------------------------------------------------------
\* The array has a size.
LEMMA SizeOfOriginal ==
    ASSUME SortTypes
    PROVE  /\ N \in Nat /\ original \in [1 .. N -> Sortables]
           /\ original # <<>> => N # 0
<1>1. PICK n \in 0 .. MaxLength : original \in [1 .. n -> Sortables]
  BY DEF SortTypes, SortableArrays
<1>2. original \in Seq(Sortables)
  BY <1>1, SeqDef
<1> QED BY <1>2, LenProperties, EmptySeq DEF N

\* What the invariant says of the partition that goes on.
LEMMA ScanIsInside ==
    ASSUME SortTypes, Scanning, Follow(pending, N), scan # NoScan
    PROVE  /\ N \in Nat /\ pending # <<>>
           /\ scan.low \in Int /\ scan.high \in Int /\ scan.i \in Int /\ scan.j \in Int
           /\ pending[1][1] = scan.low /\ pending[1][2] = scan.high
           /\ 1 <= scan.low /\ scan.low < scan.high /\ scan.high <= N
           /\ scan.low - 1 <= scan.i /\ scan.i < scan.j /\ scan.j <= scan.high
<1>1. N \in Nat
  BY SizeOfOriginal
<1>2. pending # <<>> /\ pending \in Seq(Pairs)
  BY DEF Scanning, SortTypes
<1>3. 1 \in 1 .. Len(pending)
  BY <1>2, EmptySeq
<1>4. 1 <= pending[1][1] /\ pending[1][2] <= N
  BY <1>3 DEF Follow
<1>5. scan.low \in Int /\ scan.high \in Int /\ scan.i \in Int /\ scan.j \in Int
  BY DEF SortTypes
<1> QED BY <1>1, <1>2, <1>4, <1>5 DEF Scanning

-----------------------------------------------------------------------------
LEMMA SortingInit ==
    ASSUME SortInit
    PROVE  SortInvariant
<1>1. PICK n \in 0 .. MaxLength : original \in [1 .. n -> Sortables]
  BY DEF SortInit, SortableArrays
<1>2. original \in Seq(Sortables)
  BY <1>1, SeqDef
<1>3. sorted \in [1 .. N -> Sortables]
  BY <1>2, LenProperties DEF SortInit, N
<1>4. pending \in Seq(Pairs) /\ Len(pending) = 0
  BY EmptySeq DEF SortInit
<1>5. SortTypes
  BY <1>3, <1>4 DEF SortTypes, SortInit
<1>6. Follow(pending, N)
  BY <1>4 DEF Follow
<1>7. StaysAPermutation /\ Scanning /\ Partitioned /\ SortAnswers
  BY DEF SortInit, StaysAPermutation, Scanning, Partitioned, SortAnswers
<1> QED BY <1>5, <1>6, <1>7 DEF SortInvariant, SortInit

LEMMA SortingNext ==
    ASSUME SortInvariant, [SortNext]_sortVars
    PROVE  SortInvariant'
<1> USE DEF SortInvariant
<1>n. N \in Nat /\ original \in [1 .. N -> Sortables] /\ (original # <<>> => N # 0)
  BY SizeOfOriginal
<1>1. CASE CallSort
  <2> USE <1>1 DEF CallSort
  <2>1. /\ sorted' = sorted /\ scan' = scan /\ original' = original /\ N' = N
        /\ scan = NoScan /\ verdict = "none" /\ pending = <<>>
    BY DEF N
  <2>2. StaysAPermutation' /\ Scanning' /\ Partitioned'
    BY <2>1 DEF StaysAPermutation, Scanning, Partitioned
  <2>3. CASE original = <<>>
    <3>1. verdict' = "ok" /\ pending' = pending
      BY <2>3
    <3>2. SortTypes' /\ Follow(pending, N)'
      BY <2>1, <3>1 DEF SortTypes
    <3>3. N = 0
      BY <2>3, EmptySeq DEF N
    <3>4. SortAnswers'
      BY <2>1, <2>3, <3>1, <3>3 DEF SortAnswers
    <3> QED BY <2>1, <2>2, <3>1, <3>2, <3>4
  <2>4. CASE original # <<>> /\ ~all_elements_sortable(original)
    <3>1. verdict' = "unsortable" /\ pending' = pending
      BY <2>4
    <3>2. SortTypes' /\ Follow(pending, N)'
      BY <2>1, <3>1 DEF SortTypes
    <3>3. SortAnswers'
      BY <2>1, <2>4, <3>1 DEF SortAnswers
    <3> QED BY <2>1, <2>2, <3>1, <3>2, <3>3
  <2>5. CASE original # <<>> /\ all_elements_sortable(original)
    <3> DEFINE whole == <<1, N>>
    <3>1. verdict' = verdict /\ pending' = <<whole>>
      BY <2>5 DEF N
    <3>2. whole \in Pairs /\ whole[1] = 1 /\ whole[2] = N
      BY <1>n DEF Pairs
    <3> HIDE DEF whole
    <3>3. /\ pending' \in Seq(Pairs) /\ Len(pending') = 1 /\ pending'[1] = whole
          /\ pending' # <<>>
      BY <3>1, <3>2
    <3>4. SortTypes'
      BY <2>1, <3>1, <3>3 DEF SortTypes
    <3>5. Follow(pending, N)'
      BY <1>n, <2>1, <2>5, <3>2, <3>3 DEF Follow
    <3>6. Ordered(sorted, pending, N)'
      <4>1. \A p \in 1 .. N : Within(pending'[1], p)
        BY <1>n, <3>2, <3>3 DEF Within
      <4>2. 1 \in 1 .. Len(pending')
        BY <3>3
      <4>3. \A p, q \in 1 .. N : Beside(pending', p, q)
        BY <4>1, <4>2 DEF Beside
      <4> QED BY <2>1, <4>3 DEF Ordered
    <3>7. SortAnswers'
      BY <2>1, <2>5, <3>1 DEF SortAnswers
    <3> QED BY <2>2, <3>4, <3>5, <3>6, <3>7
  <2> QED BY <2>3, <2>4, <2>5
<1>2. CASE QuickSort
  <2> USE <1>2
  <2>1. /\ sorted' = sorted /\ original' = original /\ N' = N
        /\ scan = NoScan /\ pending # <<>> /\ pending \in Seq(Pairs)
    BY DEF N, QuickSort, SortTypes
  <2>2. StaysAPermutation'
    BY <2>1 DEF StaysAPermutation
  <2>3. 1 \in 1 .. Len(pending) /\ Head(pending) = pending[1] /\ pending[1] \in Pairs
    <3>1. 1 \in 1 .. Len(pending)
      BY <2>1, EmptySeq
    <3> QED BY <2>1, <3>1, ElementOfSeq
  <2> DEFINE low == pending[1][1]
             high == pending[1][2]
  <2>4. low \in Int /\ high \in Int
    BY <2>3 DEF Pairs
  <2>5. CASE low < high
    <3>1. /\ scan' = [low |-> low, high |-> high, i |-> low - 1, j |-> low]
          /\ pending' = pending /\ verdict' = verdict
      BY <2>3, <2>5 DEF QuickSort
    <3> HIDE DEF low, high
    <3>2. /\ scan' \in [low : Int, high : Int, i : Int, j : Int]
          /\ scan'.low = low /\ scan'.high = high /\ scan'.i = low - 1 /\ scan'.j = low
      BY <2>4, <3>1
    <3>3. SortTypes'
      BY <2>1, <3>1, <3>2 DEF SortTypes
    <3>4. Scanning'
      <4>1. /\ low - 1 <= low - 1 /\ low - 1 < low /\ low <= high
        BY <2>4, <2>5
      <4> QED BY <2>1, <2>5, <3>1, <3>2, <4>1 DEF Scanning, low, high
    <3>5. Partitioned'
      <4>1. low .. low - 1 = {} /\ (low - 1) + 1 .. low - 1 = {}
        BY <2>4
      <4> QED BY <3>2, <4>1 DEF Partitioned
    <3> QED BY <2>1, <2>2, <3>1, <3>3, <3>4, <3>5 DEF SortAnswers
  <2>6. CASE ~ (low < high)
    <3>1. /\ scan' = NoScan /\ pending' = Tail(pending)
          /\ verdict' = IF Tail(pending) = <<>> THEN "ok" ELSE verdict
      BY <2>1, <2>3, <2>6 DEF QuickSort
    <3>2. /\ Tail(pending) \in Seq(Pairs)
          /\ Follow(Tail(pending), N)
          /\ Ordered(sorted, Tail(pending), N)
      BY <1>n, <2>1, <2>6, DropPart DEF SortTypes
    <3>3. SortTypes'
      BY <2>1, <3>1, <3>2 DEF SortTypes
    <3>4. Scanning' /\ Partitioned'
      BY <3>1 DEF Scanning, Partitioned
    <3>5. verdict = "none" /\ original # <<>> /\ all_elements_sortable(original)
      BY <2>1 DEF SortAnswers
    <3>6. CASE Tail(pending) = <<>>
      <4>2. \A p, q \in 1 .. N : ~Beside(Tail(pending), p, q)
        BY <3>6, NoneBeside
      <4>3. \A p, q \in 1 .. N : p < q => Compare(sorted[p], sorted[q]) <= 0
        BY <3>2, <4>2 DEF Ordered
      <4>4. SortAnswers'
        BY <2>1, <3>1, <3>5, <3>6, <4>3 DEF SortAnswers
      <4> QED BY <2>1, <2>2, <3>1, <3>2, <3>3, <3>4, <3>6, <4>4
    <3>7. CASE Tail(pending) # <<>>
      <4>1. SortAnswers'
        BY <2>1, <3>1, <3>5, <3>7 DEF SortAnswers
      <4> QED BY <2>1, <2>2, <3>1, <3>2, <3>3, <3>4, <4>1
    <3> QED BY <3>6, <3>7
  <2> QED BY <2>5, <2>6
<1>3. CASE Scan
  <2> USE <1>3
  <2>1. /\ original' = original /\ N' = N /\ pending' = pending /\ verdict' = verdict
        /\ scan # NoScan /\ scan.j <= scan.high - 1
        /\ sorted \in [1 .. N -> Sortables] /\ pending \in Seq(Pairs)
    BY DEF N, Scan, SortTypes
  <2>2. /\ pending # <<>>
        /\ scan.low \in Int /\ scan.high \in Int /\ scan.i \in Int /\ scan.j \in Int
        /\ pending[1][1] = scan.low /\ pending[1][2] = scan.high
        /\ 1 <= scan.low /\ scan.low < scan.high /\ scan.high <= N
        /\ scan.low - 1 <= scan.i /\ scan.i < scan.j /\ scan.j <= scan.high
    BY <2>1, ScanIsInside
  <2> DEFINE i == scan.i
             j == scan.j
             low == scan.low
             high == scan.high
  <2>3. i \in Int /\ j \in Int /\ low \in Int /\ high \in Int
    BY <2>2
  <2>4. /\ scan \in [low : Int, high : Int, i : Int, j : Int]
        /\ \A p \in low .. i : Compare(sorted[p], sorted[high]) <= 0
        /\ \A p \in i + 1 .. j - 1 : Compare(sorted[p], sorted[high]) > 0
    BY <2>1 DEF SortTypes, Partitioned
  <2>5. verdict = "none" /\ original # <<>> /\ all_elements_sortable(original)
    BY <2>2 DEF SortAnswers
  <2>6. SortAnswers' /\ Follow(pending, N)'
    BY <2>1, <2>5 DEF SortAnswers
  <2>7. CASE Compare(sorted[j], sorted[high]) <= 0
    <3>1. /\ sorted' = Swapped(sorted, i + 1, j)
          /\ scan' = [scan EXCEPT !.i = i + 1, !.j = j + 1]
      BY <2>7 DEF Scan
    <3>2. /\ scan' \in [low : Int, high : Int, i : Int, j : Int]
          /\ scan'.low = low /\ scan'.high = high /\ scan'.i = i + 1 /\ scan'.j = j + 1
      <4>1. scan' = [low |-> low, high |-> high, i |-> i + 1, j |-> j + 1]
        BY <2>4, <3>1
      <4> HIDE DEF i, j, low, high
      <4> QED BY <2>3, <4>1
    <3> HIDE DEF i, j, low, high
    <3>3. /\ low - 1 <= i /\ i < j /\ j < high /\ 1 <= low /\ high <= N
      BY <2>1, <2>2 DEF i, j, low, high
    <3>4. i + 1 \in 1 .. N /\ j \in 1 .. N
      BY <1>n, <2>3, <3>3
    <3>5. /\ sorted' \in [1 .. N -> Sortables]
          /\ \A p \in 1 .. N : sorted'[p] =
                sorted[IF p = i + 1 THEN j ELSE IF p = j THEN i + 1 ELSE p]
      BY <1>n, <2>1, <3>1, <3>4, Exchange
    <3>6. SortTypes'
      BY <2>1, <3>2, <3>5 DEF SortTypes
    <3>7. StaysAPermutation'
      BY <1>n, <2>1, <3>1, <3>4, ExchangeKeepsCounts DEF StaysAPermutation
    <3>8. Scanning'
      <4>1. low - 1 <= i + 1 /\ i + 1 < j + 1 /\ j + 1 <= high /\ low < high
        BY <2>3, <3>3
      <4> QED BY <2>1, <2>2, <3>2, <4>1 DEF Scanning, low, high
    <3>9. sorted'[high] = sorted[high]
      <4>1. high \in 1 .. N /\ high # i + 1 /\ high # j
        BY <1>n, <2>3, <3>3
      <4> QED BY <3>5, <4>1
    <3>10. ASSUME NEW p \in low .. i + 1
           PROVE  Compare(sorted'[p], sorted[high]) <= 0
      <4>1. p \in 1 .. N /\ p # high
        BY <1>n, <2>3, <3>3
      <4>2. CASE p = i + 1
        BY <2>7, <3>5, <4>1, <4>2
      <4>3. CASE p # i + 1
        <5>1. p # j /\ p \in low .. i
          BY <2>3, <3>3, <4>3
        <5>2. sorted'[p] = sorted[p]
          BY <3>5, <4>1, <4>3, <5>1
        <5> QED BY <2>4, <5>1, <5>2
      <4> QED BY <4>2, <4>3
    <3>11. ASSUME NEW p \in (i + 1) + 1 .. (j + 1) - 1
           PROVE  Compare(sorted'[p], sorted[high]) > 0
      <4>1. p \in 1 .. N /\ p # i + 1
        BY <1>n, <2>3, <3>3
      <4>2. CASE p = j
        <5>1. i + 1 \in i + 1 .. j - 1
          BY <2>3, <3>3, <4>2
        <5>2. sorted'[p] = sorted[i + 1]
          BY <3>5, <4>1, <4>2
        <5> QED BY <2>4, <5>1, <5>2
      <4>3. CASE p # j
        <5>1. p \in i + 1 .. j - 1
          BY <2>3, <3>3, <4>3
        <5>2. sorted'[p] = sorted[p]
          BY <3>5, <4>1, <4>3
        <5> QED BY <2>4, <5>1, <5>2
      <4> QED BY <4>2, <4>3
    <3>12. Partitioned'
      BY <3>2, <3>9, <3>10, <3>11 DEF Partitioned
    <3>13. Ordered(sorted, pending, N)'
      <4>1. Within(pending[1], i + 1) /\ Within(pending[1], j)
        BY <2>2, <2>3, <3>3 DEF Within, low, high
      <4>2. Ordered(Swapped(sorted, i + 1, j), pending, N)
        BY <1>n, <2>1, <2>2, <3>4, <4>1, ExchangeKeepsOrder
      <4> QED BY <2>1, <3>1, <4>2
    <3> QED BY <2>6, <3>6, <3>7, <3>8, <3>12, <3>13
  <2>8. CASE ~ (Compare(sorted[j], sorted[high]) <= 0)
    <3>1. /\ sorted' = sorted
          /\ scan' = [scan EXCEPT !.j = j + 1]
      BY <2>8 DEF Scan
    <3>2. /\ scan' \in [low : Int, high : Int, i : Int, j : Int]
          /\ scan'.low = low /\ scan'.high = high /\ scan'.i = i /\ scan'.j = j + 1
      BY <2>3, <2>4, <3>1
    <3> HIDE DEF i, j, low, high
    <3>3. /\ low - 1 <= i /\ i < j /\ j < high /\ 1 <= low /\ high <= N
      BY <2>1, <2>2 DEF i, j, low, high
    <3>4. SortTypes' /\ StaysAPermutation'
      BY <2>1, <3>1, <3>2 DEF SortTypes, StaysAPermutation
    <3>5. Scanning'
      <4>1. i < j + 1 /\ j + 1 <= high /\ low < high
        BY <2>3, <3>3
      <4> QED BY <2>1, <2>2, <3>2, <3>3, <4>1 DEF Scanning, low, high
    <3>6. ASSUME NEW p \in i + 1 .. (j + 1) - 1
          PROVE  Compare(sorted[p], sorted[high]) > 0
      <4>1. CASE p = j
        <5>1. j \in 1 .. N /\ high \in 1 .. N
          BY <1>n, <2>3, <3>3
        <5>2. sorted[j] \in Sortables /\ sorted[high] \in Sortables
          BY <2>1, <5>1
        <5>3. Compare(sorted[j], sorted[high]) \in Int
          BY <5>2, SortingAssumption DEF Compare
        <5> QED BY <2>8, <4>1, <5>3
      <4>2. CASE p # j
        <5>1. p \in i + 1 .. j - 1
          BY <2>3, <3>3, <4>2
        <5> QED BY <2>4, <5>1
      <4> QED BY <4>1, <4>2
    <3>7. Partitioned'
      BY <2>4, <3>1, <3>2, <3>6 DEF Partitioned
    <3> QED BY <2>1, <2>2, <2>6, <3>1, <3>4, <3>5, <3>7
  <2> QED BY <2>7, <2>8
<1>4. CASE Place
  <2> USE <1>4
  <2>1. /\ original' = original /\ N' = N /\ verdict' = verdict
        /\ scan # NoScan /\ scan.j > scan.high - 1 /\ scan' = NoScan
        /\ sorted \in [1 .. N -> Sortables] /\ pending \in Seq(Pairs)
    BY DEF N, Place, SortTypes
  <2>2. /\ pending # <<>>
        /\ scan.low \in Int /\ scan.high \in Int /\ scan.i \in Int /\ scan.j \in Int
        /\ pending[1][1] = scan.low /\ pending[1][2] = scan.high
        /\ 1 <= scan.low /\ scan.low < scan.high /\ scan.high <= N
        /\ scan.low - 1 <= scan.i /\ scan.i < scan.j /\ scan.j <= scan.high
    BY <2>1, ScanIsInside
  <2> DEFINE i == scan.i
             low == scan.low
             high == scan.high
             split == <<<<low, i>>, <<i + 2, high>>>> \o Tail(pending)
  <2>3. sorted' = Swapped(sorted, i + 1, high) /\ pending' = split
    BY DEF Place
  <2>4. scan.j = high
    BY <2>1, <2>2
  <2>5. /\ \A p \in low .. i : Compare(sorted[p], sorted[high]) <= 0
        /\ \A p \in i + 1 .. high - 1 : Compare(sorted[p], sorted[high]) > 0
    BY <2>1, <2>4 DEF Partitioned
  <2>6. verdict = "none" /\ original # <<>> /\ all_elements_sortable(original)
    BY <2>2 DEF SortAnswers
  <2>7. /\ low \in Int /\ high \in Int /\ i \in low - 1 .. high - 1 /\ low < high
        /\ i + 1 \in 1 .. N /\ high \in 1 .. N
    BY <1>n, <2>2
  <2>8. pending[1][1] = low /\ pending[1][2] = high
    BY <2>2
  <2> HIDE DEF i, low, high
  <2>9. /\ split \in Seq(Pairs) /\ split # <<>>
        /\ Follow(split, N)
        /\ Ordered(Swapped(sorted, i + 1, high), split, N)
    BY ZenonT(40), <1>n, <2>1, <2>2, <2>5, <2>7, <2>8, SplitPart
  <2> HIDE DEF split
  <2>10. sorted' \in [1 .. N -> Sortables]
    BY <1>n, <2>1, <2>3, <2>7, Exchange
  <2>11. SortTypes'
    BY <2>1, <2>3, <2>9, <2>10 DEF SortTypes
  <2>12. StaysAPermutation'
    BY <1>n, <2>1, <2>3, <2>7, ExchangeKeepsCounts DEF StaysAPermutation
  <2>13. Scanning' /\ Partitioned'
    BY <2>1 DEF Scanning, Partitioned
  <2>14. SortAnswers'
    BY <2>1, <2>6 DEF SortAnswers
  <2> QED BY <2>1, <2>3, <2>9, <2>11, <2>12, <2>13, <2>14
<1>5. CASE UNCHANGED sortVars
  BY <1>5 DEF sortVars, SortTypes, StaysAPermutation, Scanning, Partitioned, SortAnswers, N
<1> QED BY <1>1, <1>2, <1>3, <1>4, <1>5 DEF SortNext

-----------------------------------------------------------------------------
\* The invariant is what the run checks and more.
LEMMA SortedWhenInvariant ==
    ASSUME SortInvariant
    PROVE  SortSorts
<1> USE DEF SortInvariant
<1>1. N \in Nat /\ original \in [1 .. N -> Sortables] /\ (original # <<>> => N # 0)
  BY SizeOfOriginal
<1>2. sorted \in [1 .. N -> Sortables] /\ pending \in Seq(Pairs)
  BY DEF SortTypes
<1>3. DOMAIN pending = 1 .. Len(pending)
  BY <1>2, LenProperties
<1>4. Indexes = 1 .. N /\ DOMAIN original = 1 .. N
  BY <1>1 DEF Indexes, N
<1>5. SortTypeOK
  <2>1. Len(sorted) = N
    BY <1>1, <1>2, FunSeq
  <2>2. ASSUME NEW k \in DOMAIN pending
        PROVE  pending[k] \in (Indexes \cup {N + 1}) \X (Indexes \cup {0})
    <3>1. k \in 1 .. Len(pending)
      BY <1>3
    <3>2. pending[k] \in Pairs
      BY <1>2, <3>1, ElementOfSeq
    <3>3. PICK u \in Int, v \in Int : pending[k] = <<u, v>>
      BY <3>2 DEF Pairs
    <3>4. 1 <= u /\ u <= v + 1 /\ v <= N
      BY <3>1, <3>3 DEF Follow
    <3>5. u \in (1 .. N) \cup {N + 1} /\ v \in (1 .. N) \cup {0}
      BY <1>1, <3>4
    <3> QED BY <1>4, <3>3, <3>5
  <2>3. ASSUME scan # NoScan
        PROVE  /\ scan.low \in Indexes /\ scan.high \in Indexes
               /\ scan.i \in scan.low - 1 .. scan.high - 1
               /\ scan.j \in scan.low .. scan.high
    BY <1>1, <1>4, <2>3, ScanIsInside
  <2> QED BY <1>2, <1>4, <2>1, <2>2, <2>3 DEF SortTypeOK, SortTypes, N
<1>6. PartsAreApart
  <2>1. ASSUME pending # <<>>, NEW p \in Indexes, NEW q \in p + 1 .. Len(original)
        PROVE  Settled(p, q) \/ Compare(sorted[p], sorted[q]) <= 0
    <3>1. p \in 1 .. N /\ q \in 1 .. N /\ p < q
      BY <1>1, <1>4, <2>1 DEF N
    <3>2. Beside(pending, p, q) \/ Compare(sorted[p], sorted[q]) <= 0
      BY <2>1, <3>1 DEF Ordered
    <3>3. ASSUME Beside(pending, p, q)
          PROVE  Settled(p, q)
      <4>1. PICK k \in 1 .. Len(pending) : Within(pending[k], p) /\ Within(pending[k], q)
        BY <3>3 DEF Beside
      <4>2. pending[k] \in Pairs
        BY <1>2, ElementOfSeq
      <4>3. pending[k][1] \in Int /\ pending[k][2] \in Int
        BY <4>2 DEF Pairs
      <4>4. /\ p \in pending[k][1] .. pending[k][2]
            /\ q \in pending[k][1] .. pending[k][2]
        BY <3>1, <4>1, <4>3 DEF Within
      <4> QED BY <1>3, <4>4 DEF Settled
    <3> QED BY <3>2, <3>3
  <2> QED BY <2>1 DEF PartsAreApart, Partitioned
<1>7. SortedInTheEnd
  <2>1. ASSUME verdict = "ok", NEW p \in Indexes, NEW q \in p + 1 .. Len(original)
        PROVE  Compare(sorted[p], sorted[q]) <= 0
    <3>1. p \in 1 .. N /\ q \in 1 .. N /\ p < q
      BY <1>1, <1>4 DEF N
    <3> QED BY <2>1, <3>1 DEF SortAnswers
  <2>2. ASSUME original # <<>>
        PROVE  all_elements_sortable(original)
                  <=> \A p, q \in Indexes : Comparable(original[p], original[q])
    <3>1. N \in Nat \ {0}
      BY <1>1, <2>2
    <3> QED BY <1>4, <3>1, SortableIsComparable
  <2>3. CASE verdict = "ok"
    <3>1. CASE original = <<>>
      <4>1. N = 0
        BY <3>1, EmptySeq DEF N
      <4>2. Indexes = {}
        BY <1>4, <4>1
      <4> QED BY <2>3, <4>2 DEF SortedInTheEnd
    <3>2. CASE original # <<>>
      BY <2>1, <2>2, <2>3, <3>2 DEF SortedInTheEnd, SortAnswers
    <3> QED BY <3>1, <3>2
  <2>4. CASE verdict = "unsortable"
    BY <2>2, <2>4 DEF SortedInTheEnd, SortAnswers
  <2>5. CASE verdict # "ok" /\ verdict # "unsortable"
    BY <2>5 DEF SortedInTheEnd
  <2> QED BY <2>3, <2>4, <2>5
<1> QED BY <1>5, <1>6, <1>7 DEF SortSorts

(***************************************************************************)
(* array.sort, for arrays of every size and of any elements: the array it  *)
(* answers with is in order and has the elements of the array it was given,*)
(* as often, and so has every array quick_sort has in between; it refuses  *)
(* exactly the arrays that hold elements that cannot be compared.          *)
(***************************************************************************)
THEOREM EveryArrayIsSorted ==
    SortSpec => []SortSorts
<1>1. SortInit => SortInvariant
  BY SortingInit
<1>2. SortInvariant /\ [SortNext]_sortVars => SortInvariant'
  BY SortingNext
<1>3. SortInvariant => SortSorts
  BY SortedWhenInvariant
<1> QED BY <1>1, <1>2, <1>3, PTL DEF SortSpec

-----------------------------------------------------------------------------
(***************************************************************************)
(* An array is a list and stays within its memory (Arrays, List).          *)
(*                                                                         *)
(* Capacities are powers of two times a capacity that was asked for, and   *)
(* between two of them that follow one another no number is missed.  What  *)
(* a call does to the memory is, on the first size values of it, what the  *)
(* list's call does; two walks over the same elements take the same one.   *)
(***************************************************************************)

-----------------------------------------------------------------------------
(***************************************************************************)
(* Capacities.                                                             *)
(***************************************************************************)
LEMMA PowersOfTwoAreNats ==
    /\ PowersOfTwo \subseteq Nat \ {0} /\ 1 \in PowersOfTwo /\ LargestPower \in PowersOfTwo
    /\ LargestPower \in Nat
BY SMT DEF PowersOfTwo, LargestPower

\* A power of two is one or twice another.
LEMMA HalfOfAPower ==
    ASSUME NEW p \in PowersOfTwo, p # 1
    PROVE  \E q \in PowersOfTwo : p = q + q
BY SMT DEF PowersOfTwo, LargestPower

\* A number has a power of two that reaches it and is less than twice as large.
LEMMA PowerAbove ==
    ASSUME NEW n \in 1 .. LargestPower
    PROVE  \E p \in PowersOfTwo : n <= p /\ p <= 2 * n
<1> DEFINE T == {p \in PowersOfTwo : n <= p}
<1>1. T \in SUBSET Nat /\ T # {}
  <2>1. LargestPower \in T
    BY PowersOfTwoAreNats
  <2> QED BY <2>1, PowersOfTwoAreNats
<1>2. PICK p \in T : \A y \in T : p <= y
  BY <1>1, LeastNat
<1>3. CASE p = 1
  BY <1>2, <1>3, PowersOfTwoAreNats
<1>4. CASE p # 1
  <2>1. PICK q \in PowersOfTwo : p = q + q
    BY <1>2, <1>4, HalfOfAPower
  <2>2. q \in Nat \ {0} /\ p \in Nat
    BY PowersOfTwoAreNats, <1>2
  <2>3. ~ (n <= q)
    BY <1>2, <2>1, <2>2
  <2> QED BY <1>2, <2>1, <2>2, <2>3
<1> QED BY <1>3, <1>4

LEMMA TimesGrows ==
    ASSUME NEW a \in Nat \ {0}, NEW p \in Nat \ {0}
    PROVE  a * p \in Nat \ {0} /\ a * p >= p
<1>1. (a - 1) * p \in Nat /\ (a - 1) * p = a * p - p
  OBVIOUS
<1> QED BY <1>1

\* Doubling reaches what is needed.
LEMMA DoublingReaches ==
    ASSUME NEW from \in Nat \ {0}, NEW n \in 1 .. LargestPower
    PROVE  Doublings(from, n) \in Nat /\ Doublings(from, n) >= n
<1> DEFINE P == {q \in PowersOfTwo : q <= 2 * n}
           C == {from * p : p \in P}
           S == {c \in C : c >= n}
           Suits(c) == c >= n /\ (c = from \/ c \div 2 < n)
<1>1. \A p \in P : p \in Nat \ {0} /\ from * p \in Nat \ {0} /\ from * p >= p
  BY PowersOfTwoAreNats, TimesGrows
<1>2. S \in SUBSET Nat /\ S # {}
  <2>1. PICK p \in PowersOfTwo : n <= p /\ p <= 2 * n
    BY PowerAbove
  <2>2. p \in P /\ from * p \in C
    BY <2>1
  <2>3. from * p >= n
    BY <1>1, <2>1, <2>2, PowersOfTwoAreNats
  <2>4. \A c \in C : c \in Nat
    BY <1>1
  <2> QED BY <2>2, <2>3, <2>4
<1>3. PICK c \in S : \A d \in S : c <= d
  BY <1>2, LeastNat
<1>4. PICK p \in P : c = from * p
  BY <1>3
<1>5. c \in Nat \ {0} /\ c >= n
  BY <1>1, <1>3, <1>4
<1>6. Suits(c)
  <2>1. CASE p = 1
    <3>1. from * 1 = from
      OBVIOUS
    <3> QED BY <1>4, <1>5, <2>1, <3>1
  <2>2. CASE p # 1
    <3>1. PICK q \in PowersOfTwo : p = q + q
      BY <2>2, <1>4, HalfOfAPower
    <3>2. q \in Nat \ {0} /\ p \in Nat \ {0} /\ p <= 2 * n
      BY PowersOfTwoAreNats, <1>1
    <3>3. q \in P
      BY <3>1, <3>2
    <3>4. from * q \in Nat \ {0} /\ from * q \in C
      BY <1>1, <3>3
    <3>5. from * (q + q) = from * q + from * q
      BY <3>2
    <3>6. c = from * q + from * q
      BY <1>4, <3>1, <3>5
    <3> DEFINE h == from * q
    <3>7. h \in Nat \ {0} /\ h \in C /\ c = h + h
      BY <3>4, <3>6
    <3> HIDE DEF h
    <3>8. c \div 2 = h
      BY <3>7
    <3>9. ~ (h >= n)
      BY <1>3, <3>7
    <3> QED BY <1>5, <3>7, <3>8, <3>9
  <2> QED BY <2>1, <2>2
<1>7. c \in C
  BY <1>3
<1>8. Doublings(from, n) = CHOOSE d \in C : Suits(d)
  BY DEF Doublings
<1> DEFINE e == CHOOSE d \in C : Suits(d)
<1>9. e \in C /\ Suits(e)
  BY <1>6, <1>7
<1> QED BY <1>1, <1>8, <1>9

\* A new array has memory for what it is made for, unless that is too much.
LEMMA CapacityFits ==
    ASSUME NEW n \in Nat
    PROVE  /\ CapacityFor(n) \in Nat \ {0}
           /\ n <= MaxCapacity => n <= CapacityFor(n)
<1>1. /\ MinCapacity \in Nat \ {0} /\ MaxCapacity \in Nat /\ LargestPower \in Nat
      /\ MinCapacity <= MaxCapacity /\ MaxCapacity <= LargestPower
  BY ArraysAssumption, PowersOfTwoAreNats
<1>2. CASE n >= MaxCapacity \/ n < MinCapacity
  BY <1>1, <1>2 DEF CapacityFor
<1>3. CASE n < MaxCapacity /\ ~ (n < MinCapacity)
  <2>1. n \in 1 .. LargestPower
    BY <1>1, <1>3
  <2>2. Doublings(1, n) \in Nat /\ Doublings(1, n) >= n
    BY <2>1, DoublingReaches
  <2>3. CapacityFor(n) = Doublings(1, n)
    BY <1>1, <1>3 DEF CapacityFor
  <2> QED BY <2>1, <2>2, <2>3
<1> QED BY <1>1, <1>2, <1>3

-----------------------------------------------------------------------------
(***************************************************************************)
(* The invariant.  The array has memory, so that doubling it gets          *)
(* somewhere; what map and filter make fits in the memory they have for it *)
(* before they add to it.                                                  *)
(***************************************************************************)
Memory ==
    /\ values \in Seq(Elements)
    /\ Len(values) \in Nat \ {0}
    /\ size \in 0 .. Len(values)

WalkRecords ==
    [kind : Walks, at : Nat, current : Seq(Elements), made : Seq(Values), acc : Values]

Steps ==
    walk # NoWalk =>
        /\ walk \in WalkRecords
        /\ walk.current # <<>> => \E e \in Elements : walk.current = <<e>>

Rooms ==
    /\ room \in Nat
    /\ walk # NoWalk =>
          IF walk.kind \in {"map", "filter"} THEN room # 0 /\ Len(walk.made) <= room
          ELSE walk.made = <<>>

Copied == fresh \in [capacity : Nat, written : Nat]

ArrayInvariant == Memory /\ Steps /\ Rooms /\ Copied /\ WritesFitTheArray

LEMMA NilsAreNil ==
    ASSUME NEW n \in Nat
    PROVE  Nils(n) \in Seq(Elements) /\ Len(Nils(n)) = n
<1>1. Nils(n) \in [1 .. n -> Elements]
  BY ArraysAssumption DEF Nils
<1> QED BY <1>1, FunSeq

\* More memory at the end.
LEMMA Extended ==
    ASSUME NEW s \in Seq(Elements), NEW n \in Nat
    PROVE  LET t == s \o Nils(n)
           IN  /\ t \in Seq(Elements) /\ Len(t) = Len(s) + n
               /\ \A i \in 1 .. Len(s) : t[i] = s[i]
<1>1. Nils(n) \in Seq(Elements) /\ Len(Nils(n)) = n
  BY NilsAreNil
<1>2. PICK more \in Seq(Elements) : more = Nils(n) /\ Len(more) = n
  BY <1>1
<1>3. /\ s \o more \in Seq(Elements) /\ Len(s \o more) = Len(s) + n
      /\ \A i \in 1 .. Len(s) : (s \o more)[i] = s[i]
  BY <1>2, ConcatProperties, LenProperties
<1> QED BY <1>2, <1>3

LEMMA EnsuredFits ==
    ASSUME Memory, NEW needed \in 1 .. LargestPower
    PROVE  LET e == Ensured(needed)
           IN  /\ e \in Seq(Elements) /\ Len(e) \in Nat
               /\ Len(e) >= needed /\ Len(e) >= Len(values)
               /\ \A i \in 1 .. Len(values) : e[i] = values[i]
<1>1. values \in Seq(Elements) /\ Len(values) \in Nat \ {0}
  BY DEF Memory
<1>2. needed \in Nat
  BY PowersOfTwoAreNats
<1>3. CASE needed <= Len(values)
  BY <1>1, <1>2, <1>3 DEF Ensured
<1>4. CASE ~ (needed <= Len(values))
  <2> DEFINE d == Doublings(Len(values), needed)
  <2>1. d \in Nat /\ d >= needed
    BY <1>1, DoublingReaches
  <2> HIDE DEF d
  <2>2. d - Len(values) \in Nat
    BY <2>1, <1>1, <1>2, <1>4
  <2>3. PICK n \in Nat : n = d - Len(values)
    BY <2>2
  <2>4. Ensured(needed) = values \o Nils(n)
    BY <1>4, <2>3 DEF Ensured, d
  <2>5. Len(values) + n = d
    BY <2>1, <2>3, <1>1
  <2> DEFINE t == values \o Nils(n)
  <2>6. /\ t \in Seq(Elements) /\ Len(t) = Len(values) + n
        /\ \A i \in 1 .. Len(values) : t[i] = values[i]
    BY <1>1, <2>3, Extended
  <2> HIDE DEF t
  <2>7. Ensured(needed) = t
    BY <2>4 DEF t
  <2> QED BY <1>1, <1>2, <1>4, <2>1, <2>5, <2>6, <2>7
<1> QED BY <1>3, <1>4

\* What the array shows of its memory.
LEMMA Shown ==
    ASSUME Memory
    PROVE  /\ Array \in Seq(Elements) /\ Len(Array) = size /\ size \in Nat
           /\ \A i \in 1 .. size : Array[i] = values[i] /\ values[i] \in Elements
<1>1. values \in Seq(Elements) /\ Len(values) \in Nat /\ size \in 0 .. Len(values)
  BY DEF Memory
<1>2. \A i \in 1 .. Len(values) : values[i] \in Elements
  BY <1>1, ElementOfSeq
<1> QED BY <1>1, <1>2, Prefix DEF Array

LEMMA ShownNext ==
    ASSUME Memory'
    PROVE  /\ Array' \in Seq(Elements) /\ Len(Array') = size' /\ size' \in Nat
           /\ \A i \in 1 .. size' : Array'[i] = values'[i]
<1>1. values' \in Seq(Elements) /\ Len(values') \in Nat /\ size' \in 0 .. Len(values')
  BY DEF Memory
<1>2. PICK v, n : v = values' /\ n = size'
  OBVIOUS
<1>3. Array' = SubSeq(v, 1, n)
  BY <1>2 DEF Array
<1>4. v \in Seq(Elements) /\ n \in 0 .. Len(v) /\ n \in Nat
  BY <1>1, <1>2
<1>5. /\ SubSeq(v, 1, n) \in Seq(Elements) /\ Len(SubSeq(v, 1, n)) = n
      /\ \A i \in 1 .. n : SubSeq(v, 1, n)[i] = v[i]
  BY <1>4, Prefix
<1> QED BY <1>2, <1>3, <1>4, <1>5

LEMMA SameList ==
    ASSUME NEW S, NEW s \in Seq(S), NEW t \in Seq(S), Len(s) = Len(t),
           \A i \in 1 .. Len(s) : s[i] = t[i]
    PROVE  s = t
BY LenProperties

\* Memory whose slots are rewritten.
LEMMA Rewritten ==
    ASSUME Memory, NEW f \in [DOMAIN values -> Elements]
    PROVE  f \in Seq(Elements) /\ Len(f) = Len(values)
<1>1. values \in Seq(Elements) /\ Len(values) \in Nat /\ DOMAIN values = 1 .. Len(values)
  BY LenProperties DEF Memory
<1> QED BY <1>1, FunSeq

-----------------------------------------------------------------------------
(***************************************************************************)
(* The list sees the walk as the array does.                               *)
(***************************************************************************)
LEMMA SameWalk ==
    /\ Lists!NoWalk = NoWalk /\ Lists!Values = Values /\ Lists!Walks = Walks
    /\ Lists!Walking <=> Walking
    /\ Lists!InFunction <=> InFunction
    /\ Lists!ScriptRuns <=> ScriptRuns
    /\ \A kind, acc : Lists!Walk(kind, acc) = Walk(kind, acc)
BY DEF Lists!NoWalk, NoWalk, Lists!Values, Values, Lists!Walks, Walks, Lists!Walking, Walking,
       Lists!InFunction, InFunction, Lists!ScriptRuns, ScriptRuns, Lists!Walk, Walk

LEMMA Asks ==
    ASSUME NEW a, Ask(a)
    PROVE  Lists!Ask(a)
BY SameWalk DEF Ask, Lists!Ask

LEMMA Keeps ==
    ASSUME NEW a, Keep(a)
    PROVE  Lists!Keep(a)
BY Asks DEF Keep, Lists!Keep, Array

-----------------------------------------------------------------------------
(***************************************************************************)
(* The calls that change the array.                                        *)
(***************************************************************************)
\* array_add, at any position up to the size.
LEMMA AddFits ==
    ASSUME Memory, NEW v \in Elements, NEW p \in 0 .. size, size < SizeBound, Add(v, p)
    PROVE  /\ Memory' /\ size' = size + 1
           /\ values'[p + 1] = v
           /\ \A i \in 1 .. size : i # p + 1 => values'[i] = values[i]
<1>1. /\ size \in Nat /\ size + 1 \in 1 .. LargestPower
      /\ Len(values) \in Nat /\ size <= Len(values) /\ p \in Nat
  BY ArraysAssumption, PowersOfTwoAreNats DEF Memory
<1>2. PICK e : e = Ensured(size + 1)
  OBVIOUS
<1>3. /\ e \in Seq(Elements) /\ Len(e) \in Nat
      /\ Len(e) >= size + 1 /\ Len(e) >= Len(values)
      /\ \A i \in 1 .. Len(values) : e[i] = values[i]
  BY <1>1, <1>2, EnsuredFits
<1>4. values' = [e EXCEPT ![p + 1] = v] /\ size' = size + 1
  BY <1>2 DEF Add
<1>5. DOMAIN e = 1 .. Len(e) /\ \A i \in 1 .. Len(e) : e[i] \in Elements
  BY <1>3, LenProperties, ElementOfSeq
<1>6. values' \in [1 .. Len(e) -> Elements]
  BY <1>3, <1>4, <1>5
<1>7. values' \in Seq(Elements) /\ Len(values') = Len(e)
  BY <1>3, <1>6, FunSeq
<1>8. Memory'
  BY <1>1, <1>3, <1>4, <1>7 DEF Memory
<1>9. \A i \in 1 .. size : i \in 1 .. Len(values) /\ i \in 1 .. Len(e)
  BY <1>1, <1>3
<1>10. p + 1 \in 1 .. Len(e)
  BY <1>1, <1>3
<1> QED BY <1>3, <1>4, <1>5, <1>8, <1>9, <1>10

\* After the end, it appends.
LEMMA AddAtEnd ==
    ASSUME Memory, NEW v \in Elements, size < SizeBound, Add(v, size)
    PROVE  Memory' /\ size' = size + 1 /\ Array' = Append(Array, v)
<1>1. size \in Nat /\ size \in 0 .. size
  BY DEF Memory
<1>2. /\ Memory' /\ size' = size + 1 /\ values'[size + 1] = v
      /\ \A i \in 1 .. size : i # size + 1 => values'[i] = values[i]
  BY <1>1, AddFits
<1>3. /\ Array \in Seq(Elements) /\ Len(Array) = size
      /\ \A i \in 1 .. size : Array[i] = values[i]
  BY Shown
<1>4. /\ Array' \in Seq(Elements) /\ Len(Array') = size + 1
      /\ \A i \in 1 .. size + 1 : Array'[i] = values'[i]
  BY <1>2, ShownNext
<1>5. PICK t : t = Append(Array, v)
  OBVIOUS
<1>6. /\ t \in Seq(Elements) /\ Len(t) = size + 1 /\ t[size + 1] = v
      /\ \A i \in 1 .. size : t[i] = Array[i]
  BY <1>3, <1>5, AppendProperties
<1>7. ASSUME NEW i \in 1 .. size + 1
      PROVE  Array'[i] = t[i]
  <2>1. CASE i = size + 1
    BY <1>2, <1>4, <1>6, <2>1
  <2>2. CASE i # size + 1
    <3>1. i \in 1 .. size
      BY <1>1, <2>2
    <3> QED BY <1>2, <1>3, <1>4, <1>6, <2>2, <3>1
  <2> QED BY <2>1, <2>2
<1>8. Array' = t
  BY <1>4, <1>6, <1>7, SameList
<1> QED BY <1>2, <1>5, <1>8

LEMMA PushStep ==
    ASSUME Memory, NEW v \in Elements, Push(v)
    PROVE  Memory' /\ Lists!Push(v)
BY AddAtEnd, Asks DEF Push, Lists!Push

LEMMA PopStep ==
    ASSUME Memory, Pop
    PROVE  Memory' /\ Lists!Pop
<1>1. /\ Array \in Seq(Elements) /\ Len(Array) = size /\ size \in Nat
      /\ \A i \in 1 .. size : Array[i] = values[i] /\ values[i] \in Elements
  BY Shown
<1>2. CASE size = 0 /\ Reply(<<"empty">>)
  <2>1. Array = <<>>
    BY <1>1, <1>2, EmptySeq
  <2> QED BY <1>2, <2>1, Keeps DEF Reply, Keep, Lists!Pop, Memory
<1>3. CASE /\ size > 0
           /\ Ask(<<"pop", values[size]>>)
           /\ values' = [values EXCEPT ![size] = Nil]
           /\ size' = size - 1
  <2>1. /\ values' \in Seq(Elements) /\ Len(values') = Len(values)
        /\ \A i \in 1 .. size - 1 : values'[i] = values[i]
    <3>1. /\ values \in Seq(Elements) /\ Len(values) \in Nat /\ size \in 1 .. Len(values)
          /\ DOMAIN values = 1 .. Len(values)
          /\ \A i \in 1 .. Len(values) : values[i] \in Elements
      BY <1>3, LenProperties, ElementOfSeq DEF Memory
    <3>2. values' \in [DOMAIN values -> Elements]
      BY <1>3, <3>1, ArraysAssumption
    <3> QED BY <1>3, <3>1, <3>2, Rewritten
  <2>2. Memory'
    BY <1>1, <1>3, <2>1 DEF Memory
  <2>3. /\ Array' \in Seq(Elements) /\ Len(Array') = size - 1
        /\ \A i \in 1 .. size - 1 : Array'[i] = values'[i]
    BY <1>3, <2>2, ShownNext
  <2>4. Array # <<>> /\ Lists!Sq!Last(Array) = values[size]
    BY <1>1, <1>3, EmptySeq DEF Lists!Sq!Last
  <2>5. PICK t : t = SubSeq(Array, 1, Len(Array) - 1)
    OBVIOUS
  <2>6. /\ t \in Seq(Elements) /\ Len(t) = size - 1
        /\ \A i \in 1 .. size - 1 : t[i] = Array[i]
    BY <1>1, <2>4, <2>5, StackPop
  <2>7. \A i \in 1 .. size - 1 : Array'[i] = t[i]
    BY <1>1, <2>1, <2>3, <2>6
  <2>8. Array' = t
    BY <2>3, <2>6, <2>7, SameList
  <2>9. Array' = Lists!Sq!Front(Array)
    BY <2>5, <2>8 DEF Lists!Sq!Front
  <2> QED BY <1>3, <2>2, <2>4, <2>9, Asks DEF Lists!Pop
<1> QED BY <1>2, <1>3 DEF Pop

\* What is inserted at the end is appended.
LEMMA InsertedAtEnd ==
    ASSUME NEW s \in Seq(Elements), NEW v \in Elements
    PROVE  Lists!Sq!InsertAt(s, Len(s) + 1, v) = Append(s, v)
<1>1. Len(s) \in Nat /\ <<v>> \in Seq(Elements) /\ Len(<<v>>) = 1 /\ <<v>>[1] = v
  BY LenProperties
<1>2. PICK h : h = SubSeq(s, 1, (Len(s) + 1) - 1)
  OBVIOUS
<1>3. h = s
  <2>1. (Len(s) + 1) - 1 = Len(s)
    BY <1>1
  <2>2. /\ h \in Seq(Elements) /\ Len(h) = Len(s)
        /\ \A i \in 1 .. Len(s) : h[i] = s[i]
    BY <1>1, <1>2, <2>1, Prefix
  <2> QED BY <2>2, SameList
<1>4. PICK e : e = SubSeq(s, Len(s) + 1, Len(s))
  OBVIOUS
<1>5. e = <<>>
  BY <1>1, <1>4
<1>6. PICK t : t = s \o <<v>>
  OBVIOUS
<1>7. /\ t \in Seq(Elements) /\ Len(t) = Len(s) + 1
      /\ \A i \in 1 .. Len(s) : t[i] = s[i] /\ t[Len(s) + 1] = v
  BY <1>1, <1>6, ConcatProperties
<1>8. t = Append(s, v)
  BY <1>6
<1>9. t \o <<>> = t
  BY <1>7
<1> QED BY <1>2, <1>3, <1>4, <1>5, <1>6, <1>8, <1>9 DEF Lists!Sq!InsertAt

LEMMA InsertStep ==
    ASSUME Memory, NEW p \in Positions, NEW v \in Elements, Insert(p, v)
    PROVE  Memory' /\ (~Middle => Lists!Insert(p, v))
<1>1. Array \in Seq(Elements) /\ Len(Array) = size /\ size \in Nat /\ p \in Int
  BY Shown, ArraysAssumption
<1>2. CASE (p < 0 \/ p > size) /\ Reply(<<"out of bounds", p>>)
  <2>1. p < 0 \/ p > size
    BY <1>2
  <2>2. p \notin 0 .. Len(Array)
    BY <1>1, <2>1
  <2> QED BY <1>2, <2>2, Keeps DEF Reply, Keep, Lists!Insert, Memory
<1>3. CASE /\ p >= 0 /\ (IF Middle THEN p <= size ELSE p = size)
           /\ size < SizeBound /\ Ask(<<"insert", p, v>>) /\ Add(v, p)
  <2>1. p \in 0 .. Len(Array)
    BY <1>1, <1>3
  <2>2. Memory'
    BY <1>1, <1>3, <2>1, AddFits
  <2>3. ASSUME ~Middle
        PROVE  Lists!Insert(p, v)
    <3>1. p = size /\ Array' = Append(Array, v)
      BY <1>3, <2>3, AddAtEnd
    <3>2. Lists!Sq!InsertAt(Array, p + 1, v) = Append(Array, v)
      BY <1>1, <3>1, InsertedAtEnd
    <3> QED BY <1>3, <2>1, <3>1, <3>2, Asks DEF Lists!Insert
  <2> QED BY <2>2, <2>3
<1> QED BY <1>2, <1>3 DEF Insert

\* What is left when position p is taken out.
LEMMA Removed ==
    ASSUME NEW s \in Seq(Elements), NEW k \in 1 .. Len(s)
    PROVE  LET t == Lists!Sq!RemoveAt(s, k)
           IN  /\ t \in Seq(Elements) /\ Len(t) = Len(s) - 1
               /\ \A i \in 1 .. Len(s) - 1 : t[i] = IF i < k THEN s[i] ELSE s[i + 1]
<1>1. Len(s) \in Nat /\ k \in Nat \ {0} /\ \A i \in 1 .. Len(s) : s[i] \in Elements
  BY LenProperties, ElementOfSeq
<1>2. PICK h : h = SubSeq(s, 1, k - 1)
  OBVIOUS
<1>3. /\ h \in Seq(Elements) /\ Len(h) = k - 1
      /\ \A i \in 1 .. k - 1 : h[i] = s[i]
  <2>1. k - 1 \in 0 .. Len(s)
    BY <1>1
  <2> QED BY <1>2, <2>1, Prefix
<1>4. PICK e : e = SubSeq(s, k + 1, Len(s))
  OBVIOUS
<1>5. /\ e \in Seq(Elements) /\ Len(e) = Len(s) - k
      /\ \A i \in 1 .. Len(s) - k : e[i] = s[k + i]
  <2>1. \A i \in (k + 1) .. Len(s) : s[i] \in Elements
    BY <1>1
  <2>2. k + 1 \in Int /\ Len(s) \in Int
    BY <1>1
  <2> QED BY <1>1, <1>4, <2>1, <2>2, SubSeqProperties
<1>6. PICK t : t = h \o e
  OBVIOUS
<1>7. /\ t \in Seq(Elements) /\ Len(t) = Len(h) + Len(e)
      /\ \A i \in 1 .. Len(h) + Len(e) : t[i] = IF i <= Len(h) THEN h[i] ELSE e[i - Len(h)]
  BY <1>3, <1>5, <1>6, ConcatProperties
<1>8. Len(t) = Len(s) - 1
  BY <1>1, <1>3, <1>5, <1>7
<1>9. ASSUME NEW i \in 1 .. Len(s) - 1
      PROVE  t[i] = IF i < k THEN s[i] ELSE s[i + 1]
  <2>1. t[i] = IF i <= k - 1 THEN h[i] ELSE e[i - (k - 1)]
    BY <1>1, <1>3, <1>5, <1>7
  <2>2. CASE i < k
    BY <1>1, <1>3, <2>1, <2>2
  <2>3. CASE ~ (i < k)
    <3>1. i - (k - 1) \in 1 .. Len(s) - k /\ k + (i - (k - 1)) = i + 1
      BY <1>1, <2>3
    <3> QED BY <1>1, <1>5, <2>1, <2>3, <3>1
  <2> QED BY <2>2, <2>3
<1>10. Lists!Sq!RemoveAt(s, k) = t
  BY <1>2, <1>4, <1>6 DEF Lists!Sq!RemoveAt
<1> QED BY <1>7, <1>8, <1>9, <1>10

\* The calls that leave the array alone.
LEMMA KeepAnswers ==
    ASSUME Memory, NEW a, Reply(a)
    PROVE  Memory' /\ Lists!Keep(a)
BY Keeps DEF Reply, Keep, Memory

LEMMA PositionsInBounds ==
    ASSUME Memory, NEW p \in Positions
    PROVE  /\ p \in Int
           /\ InBounds(p) <=> p \in 0 .. Len(Array) - 1
           /\ InBounds(p) => p + 1 \in 1 .. size /\ Array[p + 1] = values[p + 1]
<1>1. /\ Len(Array) = size /\ size \in Nat /\ p \in Int
      /\ \A i \in 1 .. size : Array[i] = values[i]
  BY Shown, ArraysAssumption
<1>2. InBounds(p) <=> p \in 0 .. size - 1
  BY <1>1 DEF InBounds
<1>3. InBounds(p) => p + 1 \in 1 .. size
  BY <1>1 DEF InBounds
<1> QED BY <1>1, <1>2, <1>3

LEMMA RemoveAtStep ==
    ASSUME Memory, NEW p \in Positions, RemoveAt(p)
    PROVE  Memory' /\ Lists!RemoveAt(p)
<1>1. /\ Array \in Seq(Elements) /\ Len(Array) = size /\ size \in Nat /\ p \in Int
      /\ \A i \in 1 .. size : Array[i] = values[i]
      /\ InBounds(p) <=> p \in 0 .. Len(Array) - 1
  BY Shown, PositionsInBounds
<1>2. CASE ~InBounds(p) /\ Reply(<<"out of bounds", p>>)
  BY <1>1, <1>2, KeepAnswers DEF Lists!RemoveAt
<1>3. CASE /\ InBounds(p)
           /\ Ask(<<"remove", p, values[p + 1]>>)
           /\ values' = [i \in DOMAIN values |->
                            IF i > p /\ i < size THEN values[i + 1] ELSE values[i]]
           /\ size' = size - 1
  <2>1. p + 1 \in 1 .. size /\ Array[p + 1] = values[p + 1] /\ p >= 0 /\ p < size
    BY <1>1, <1>3, PositionsInBounds DEF InBounds
  <2>2. /\ values \in Seq(Elements) /\ Len(values) \in Nat /\ size \in 1 .. Len(values)
        /\ DOMAIN values = 1 .. Len(values)
        /\ \A i \in 1 .. Len(values) : values[i] \in Elements
    BY <2>1, LenProperties, ElementOfSeq DEF Memory
  <2>3. values' \in [DOMAIN values -> Elements]
    BY <1>3, <2>2
  <2>4. values' \in Seq(Elements) /\ Len(values') = Len(values)
    BY <2>3, Rewritten
  <2>5. Memory'
    BY <1>3, <2>2, <2>4 DEF Memory
  <2>6. /\ Array' \in Seq(Elements) /\ Len(Array') = size - 1
        /\ \A i \in 1 .. size - 1 : Array'[i] = values'[i]
    BY <1>3, <2>5, ShownNext
  <2>7. PICK t : t = Lists!Sq!RemoveAt(Array, p + 1)
    OBVIOUS
  <2>8. /\ t \in Seq(Elements) /\ Len(t) = size - 1
        /\ \A i \in 1 .. size - 1 : t[i] = IF i < p + 1 THEN Array[i] ELSE Array[i + 1]
    BY <1>1, <2>1, <2>7, Removed
  <2>9. ASSUME NEW i \in 1 .. size - 1
        PROVE  Array'[i] = t[i]
    <3>1. i \in 1 .. size /\ i + 1 \in 1 .. size /\ i \in DOMAIN values /\ i < size
      BY <1>1, <2>2
    <3>2. values'[i] = IF i > p THEN values[i + 1] ELSE values[i]
      BY <1>3, <3>1
    <3>3. i > p <=> ~ (i < p + 1)
      BY <1>1
    <3> QED BY <1>1, <2>6, <2>8, <3>1, <3>2, <3>3
  <2>10. Array' = t
    BY <2>6, <2>8, <2>9, SameList
  <2>11. Ask(<<"remove", p, Array[p + 1]>>)
    BY <1>3, <2>1
  <2> QED BY <1>1, <1>3, <2>5, <2>7, <2>10, <2>11, Asks DEF Lists!RemoveAt
<1> QED BY <1>2, <1>3 DEF RemoveAt

LEMMA GetStep ==
    ASSUME Memory, NEW p \in Positions, Get(p)
    PROVE  Memory' /\ Lists!Get(p)
<1>1. p \in 0 .. Len(Array) - 1 /\ Array[p + 1] = values[p + 1]
  BY PositionsInBounds DEF Get
<1>2. Reply(<<"get", p, Array[p + 1]>>)
  BY <1>1 DEF Get
<1> QED BY <1>1, <1>2, KeepAnswers DEF Lists!Get

LEMMA SetStep ==
    ASSUME Memory, NEW p \in Positions, NEW v \in Elements, Set(p, v)
    PROVE  Memory' /\ Lists!Set(p, v)
<1>1. /\ Array \in Seq(Elements) /\ Len(Array) = size /\ size \in Nat /\ p \in Int
      /\ \A i \in 1 .. size : Array[i] = values[i]
      /\ p \in 0 .. Len(Array) - 1 /\ p + 1 \in 1 .. size
  BY Shown, PositionsInBounds DEF Set
<1>2. /\ Ask(<<"set", p, v>>) /\ size' = size
      /\ values' = [values EXCEPT ![p + 1] = v]
  BY DEF Set
<1>3. /\ values \in Seq(Elements) /\ Len(values) \in Nat /\ size \in 1 .. Len(values)
      /\ DOMAIN values = 1 .. Len(values)
      /\ \A i \in 1 .. Len(values) : values[i] \in Elements
  BY <1>1, LenProperties, ElementOfSeq DEF Memory
<1>4. values' \in [DOMAIN values -> Elements]
  BY <1>2, <1>3
<1>5. values' \in Seq(Elements) /\ Len(values') = Len(values)
  BY <1>4, Rewritten
<1>6. Memory'
  BY <1>2, <1>3, <1>5 DEF Memory
<1>7. /\ Array' \in Seq(Elements) /\ Len(Array') = size
      /\ \A i \in 1 .. size : Array'[i] = values'[i]
  BY <1>2, <1>6, ShownNext
<1>8. PICK t : t = [Array EXCEPT ![p + 1] = v]
  OBVIOUS
<1>9. DOMAIN Array = 1 .. size
  BY <1>1, LenProperties
<1>10. t \in [1 .. size -> Elements] /\ \A i \in 1 .. size : t[i] = IF i = p + 1 THEN v ELSE Array[i]
  <2>1. \A i \in 1 .. size : Array[i] \in Elements
    BY <1>1, ElementOfSeq
  <2> QED BY <1>8, <1>9, <2>1
<1>11. t \in Seq(Elements) /\ Len(t) = size
  BY <1>1, <1>10, FunSeq
<1>12. \A i \in 1 .. size : Array'[i] = t[i]
  BY <1>1, <1>2, <1>3, <1>7, <1>10
<1>13. Array' = t
  BY <1>7, <1>11, <1>12, SameList
<1> QED BY <1>1, <1>2, <1>6, <1>8, <1>13, Asks DEF Lists!Set

LEMMA ReverseStep ==
    ASSUME Memory, Reverse
    PROVE  Memory' /\ Lists!Reverse
<1>1. /\ Array \in Seq(Elements) /\ Len(Array) = size /\ size \in Nat
      /\ \A i \in 1 .. size : Array[i] = values[i]
  BY Shown
<1>2. /\ Ask(<<"reverse">>) /\ size' = size
      /\ values' = [i \in DOMAIN values |->
                       IF i <= size THEN values[size + 1 - i] ELSE values[i]]
  BY DEF Reverse
<1>3. /\ values \in Seq(Elements) /\ Len(values) \in Nat /\ size \in 0 .. Len(values)
      /\ DOMAIN values = 1 .. Len(values)
      /\ \A i \in 1 .. Len(values) : values[i] \in Elements
  BY LenProperties, ElementOfSeq DEF Memory
<1>4. values' \in [DOMAIN values -> Elements]
  <2>1. \A i \in 1 .. Len(values) : i <= size => size + 1 - i \in 1 .. Len(values)
    BY <1>3
  <2> QED BY <1>2, <1>3, <2>1
<1>5. values' \in Seq(Elements) /\ Len(values') = Len(values)
  BY <1>4, Rewritten
<1>6. Memory'
  BY <1>2, <1>3, <1>5 DEF Memory
<1>7. /\ Array' \in Seq(Elements) /\ Len(Array') = size
      /\ \A i \in 1 .. size : Array'[i] = values'[i]
  BY <1>2, <1>6, ShownNext
<1>8. PICK t : t = Lists!Sq!Reverse(Array)
  OBVIOUS
<1>9. t = [i \in 1 .. size |-> Array[(size - i) + 1]]
  BY <1>1, <1>8 DEF Lists!Sq!Reverse
<1>10. \A i \in 1 .. size : /\ (size - i) + 1 \in 1 .. size /\ (size - i) + 1 = size + 1 - i
                             /\ i \in DOMAIN values /\ i <= size
  BY <1>1, <1>3
<1>11. t \in [1 .. size -> Elements] /\ \A i \in 1 .. size : t[i] = Array[(size - i) + 1]
  <2>1. \A i \in 1 .. size : Array[i] \in Elements
    BY <1>1, ElementOfSeq
  <2> QED BY <1>9, <1>10, <2>1
<1>12. t \in Seq(Elements) /\ Len(t) = size
  BY <1>1, <1>11, FunSeq
<1>13. \A i \in 1 .. size : Array'[i] = t[i]
  BY <1>1, <1>2, <1>7, <1>10, <1>11
<1>14. Array' = t
  BY <1>7, <1>12, <1>13, SameList
<1> QED BY <1>2, <1>6, <1>8, <1>14, Asks DEF Lists!Reverse

LEMMA ClearStep ==
    ASSUME Memory, Clear
    PROVE  Memory' /\ Lists!Clear
<1>1. /\ Ask(<<"clear">>) /\ size' = 0
      /\ values' = [i \in DOMAIN values |-> IF i <= size THEN Nil ELSE values[i]]
  BY DEF Clear
<1>2. /\ values \in Seq(Elements) /\ Len(values) \in Nat \ {0}
      /\ DOMAIN values = 1 .. Len(values)
      /\ \A i \in 1 .. Len(values) : values[i] \in Elements
  BY LenProperties, ElementOfSeq DEF Memory
<1>3. values' \in [DOMAIN values -> Elements]
  BY <1>1, <1>2, ArraysAssumption
<1>4. values' \in Seq(Elements) /\ Len(values') = Len(values)
  BY <1>3, Rewritten
<1>5. Memory'
  BY <1>1, <1>2, <1>4 DEF Memory
<1>6. Array' = <<>>
  BY <1>1, <1>5, ShownNext, EmptySeq
<1> QED BY <1>1, <1>5, <1>6, Asks DEF Lists!Clear

-----------------------------------------------------------------------------
(***************************************************************************)
(* The calls that make another array, or a fact about this one.            *)
(***************************************************************************)
\* A new array is written no further than it was made, up to MaxCapacity.
LEMMA MadeToFit ==
    ASSUME NEW l, Len(l) \in Nat, NewArray(l)
    PROVE  /\ fresh' \in [capacity : Nat, written : Nat]
           /\ Len(l) <= MaxCapacity => fresh'.written <= fresh'.capacity
<1>1. PICK n \in Nat : n = Len(l)
  OBVIOUS
<1>2. CapacityFor(n) \in Nat /\ (n <= MaxCapacity => n <= CapacityFor(n))
  BY CapacityFits
<1>3. fresh' = [capacity |-> CapacityFor(n), written |-> n]
  BY <1>1 DEF NewArray
<1> QED BY <1>1, <1>2, <1>3

LEMMA NoArrayFits ==
    ASSUME fresh' = NoArray
    PROVE  Copied' /\ WritesFitTheArray'
<1>1. fresh' = [capacity |-> 0, written |-> 0]
  BY DEF NoArray
<1>2. fresh' \in [capacity : Nat, written : Nat] /\ fresh'.written <= fresh'.capacity
  BY <1>1
<1> QED BY <1>2 DEF Copied, WritesFitTheArray

LEMMA NothingMade ==
    ASSUME NEW a, Reply(a)
    PROVE  Copied' /\ WritesFitTheArray'
BY NoArrayFits DEF Reply

LEMMA ConcatStep ==
    ASSUME Memory, NEW other \in Literals, Concat(other)
    PROVE  /\ Memory' /\ Lists!Concat(other)
           /\ Copied' /\ WritesFitTheArray'
<1>1. /\ Array \in Seq(Elements) /\ Len(Array) = size /\ size \in Nat
      /\ \A i \in 1 .. size : Array[i] = values[i] /\ values[i] \in Elements
      /\ MaxCapacity \in Int
  BY Shown, ArraysAssumption, PowersOfTwoAreNats
<1>2. /\ other \in Seq(Elements) /\ Len(other) \in Nat /\ DOMAIN other = 1 .. Len(other)
      /\ \A i \in 1 .. Len(other) : other[i] \in Elements
  BY ArraysAssumption, LenProperties, ElementOfSeq
<1>3. PICK both : both = [i \in 1 .. size + Len(other) |->
                             IF i <= size THEN values[i] ELSE other[i - size]]
  OBVIOUS
<1>4. PICK n \in Nat : n = size + Len(other)
  BY <1>1, <1>2
<1>5. both \in [1 .. n -> Elements]
  <2>1. \A i \in 1 .. n : IF i <= size THEN i \in 1 .. size ELSE i - size \in 1 .. Len(other)
    BY <1>1, <1>2, <1>4
  <2> QED BY <1>1, <1>2, <1>3, <1>4, <2>1
<1>6. both \in Seq(Elements) /\ Len(both) = n
  BY <1>5, FunSeq
<1>7. both = Array \o other
  <2>1. PICK t : t = Array \o other
    OBVIOUS
  <2>2. /\ t \in Seq(Elements) /\ Len(t) = n
        /\ \A i \in 1 .. n : t[i] = IF i <= size THEN Array[i] ELSE other[i - size]
    BY <1>1, <1>2, <1>4, <2>1, ConcatProperties
  <2>3. \A i \in 1 .. n : both[i] = IF i <= size THEN values[i] ELSE other[i - size]
    BY <1>3, <1>4
  <2>4. \A i \in 1 .. n : i <= size => i \in 1 .. size
    BY <1>1, <1>4
  <2>5. \A i \in 1 .. n : both[i] = t[i]
    BY <1>1, <2>2, <2>3, <2>4
  <2> QED BY <1>6, <2>1, <2>2, <2>5, SameList
<1>8. CASE n > MaxCapacity /\ Reply(<<"too long", other>>)
  <2>1. Len(Array) + Len(other) > MaxCapacity
    BY <1>1, <1>4, <1>8
  <2>2. Copied' /\ WritesFitTheArray'
    BY <1>8, NothingMade
  <2> QED BY <1>8, <2>1, <2>2, KeepAnswers DEF Lists!Concat
<1>9. CASE n <= MaxCapacity /\ Keep(<<"concat", both>>) /\ NewArray(both)
  <2>1. Len(Array) + Len(other) <= MaxCapacity
    BY <1>1, <1>4, <1>9
  <2>2. Lists!Keep(<<"concat", Array \o other>>) /\ Memory'
    BY <1>7, <1>9, Keeps DEF Keep, Memory
  <2>3. Copied' /\ WritesFitTheArray'
    <3>1. /\ fresh' \in [capacity : Nat, written : Nat]
          /\ fresh'.written <= fresh'.capacity
      BY <1>6, <1>9, MadeToFit
    <3> QED BY <3>1 DEF Copied, WritesFitTheArray
  <2> QED BY <2>1, <2>2, <2>3 DEF Lists!Concat
<1> QED BY <1>3, <1>6, <1>8, <1>9 DEF Concat

LEMMA SliceStep ==
    ASSUME Memory, NEW p \in Positions, NEW q \in Positions, Slice(p, q)
    PROVE  /\ Memory' /\ Lists!Slice(p, q)
           /\ Copied' /\ WritesFitTheArray'
<1>1. /\ Array \in Seq(Elements) /\ Len(Array) = size /\ size \in Nat
      /\ \A i \in 1 .. size : Array[i] = values[i] /\ values[i] \in Elements
      /\ p \in Int /\ q \in Int /\ MaxCapacity \in Int
  BY Shown, ArraysAssumption, PowersOfTwoAreNats
<1>2. PICK out \in BOOLEAN : out <=> (p < 0 \/ p > size \/ q < 0 \/ q > size \/ q < p)
  OBVIOUS
<1>3. PICK part : part = [i \in 1 .. q - p |-> values[p + i]]
  OBVIOUS
<1>4. \/ out /\ Reply(<<"out of bounds", p, q>>)
      \/ ~out /\ Keep(<<"slice", p, q, part>>) /\ NewArray(part)
  BY <1>2, <1>3 DEF Slice
<1>5. out <=> ~ (p \in 0 .. q /\ q \in 0 .. Len(Array))
  BY <1>1, <1>2
<1>6. CASE out /\ Reply(<<"out of bounds", p, q>>)
  <2>1. Copied' /\ WritesFitTheArray'
    BY <1>6, NothingMade
  <2> QED BY <1>5, <1>6, <2>1, KeepAnswers DEF Lists!Slice
<1>7. CASE ~out /\ Keep(<<"slice", p, q, part>>) /\ NewArray(part)
  <2>1. PICK n \in Nat : n = q - p
    BY <1>1, <1>2, <1>7
  <2>2. n <= size /\ p \in Nat /\ p + n = q /\ q <= size
    BY <1>1, <1>2, <1>7, <2>1
  <2>3. \A i \in 1 .. n : p + i \in 1 .. size
    BY <1>1, <2>1, <2>2
  <2>4. part \in [1 .. n -> Elements] /\ \A i \in 1 .. n : part[i] = values[p + i]
    BY <1>1, <1>3, <2>1, <2>3
  <2>5. part \in Seq(Elements) /\ Len(part) = n
    BY <2>4, FunSeq
  <2>6. PICK t : t = SubSeq(Array, p + 1, q)
    OBVIOUS
  <2>7. /\ t \in Seq(Elements) /\ Len(t) = n
        /\ \A i \in 1 .. n : t[i] = Array[p + i]
    <3>1. p + 1 \in Int /\ q \in Int /\ \A i \in (p + 1) .. q : Array[i] \in Elements
      BY <1>1, <2>2
    <3>2. /\ t \in Seq(Elements) /\ Len(t) = IF p + 1 <= q THEN q - (p + 1) + 1 ELSE 0
          /\ \A i \in 1 .. q - (p + 1) + 1 : t[i] = Array[(p + 1) + i - 1]
      BY <2>6, <3>1, SubSeqProperties
    <3>3. q - (p + 1) + 1 = n /\ \A i \in 1 .. n : (p + 1) + i - 1 = p + i
      BY <1>1, <2>1, <2>2
    <3> QED BY <1>1, <2>1, <2>2, <3>2, <3>3
  <2>8. part = t
    BY <1>1, <2>3, <2>4, <2>5, <2>7, SameList
  <2>9. Lists!Keep(<<"slice", p, q, SubSeq(Array, p + 1, q)>>) /\ Memory'
    BY <1>7, <2>6, <2>8, Keeps DEF Keep, Memory
  <2>10. Copied' /\ WritesFitTheArray'
    <3>1. /\ fresh' \in [capacity : Nat, written : Nat]
          /\ n <= MaxCapacity => fresh'.written <= fresh'.capacity
      BY <1>7, <2>5, MadeToFit
    <3>2. size' = size
      BY <1>7 DEF Keep
    <3>3. size <= MaxCapacity => n <= MaxCapacity
      BY <1>1, <2>1, <2>2
    <3> QED BY <3>1, <3>2, <3>3 DEF Copied, WritesFitTheArray
  <2>11. p \in 0 .. q /\ q \in 0 .. Len(Array)
    BY <1>5, <1>7
  <2> QED BY <2>9, <2>10, <2>11 DEF Lists!Slice
<1> QED BY <1>4, <1>6, <1>7

\* The position that a search from the start finds.
LEMMA FoundIsFirst ==
    ASSUME Memory, NEW v \in Elements
    PROVE  /\ Found(v) # size <=> v \in Lists!Sq!ToSet(Array)
           /\ Found(v) # size => Found(v) = Lists!Sq!SelectInSeq(Array, LAMBDA x : x = v) - 1
<1>1. /\ Array \in Seq(Elements) /\ Len(Array) = size /\ size \in Nat
      /\ DOMAIN Array = 1 .. size
      /\ \A i \in 1 .. size : Array[i] = values[i]
  BY Shown, LenProperties
<1>2. PICK hits : hits = {i \in 1 .. size : values[i] = v}
  OBVIOUS
<1>3. hits = {i \in 1 .. Len(Array) : Array[i] = v}
  BY <1>1, <1>2
<1>4. v \in Lists!Sq!ToSet(Array) <=> hits # {}
  BY <1>1, <1>3 DEF Lists!Sq!ToSet
<1>5. Found(v) = IF hits = {} THEN size ELSE (CHOOSE i \in hits : \A j \in hits : i <= j) - 1
  BY <1>2 DEF Found
<1>6. hits # {} => /\ Found(v) # size
                   /\ Found(v) = (CHOOSE i \in hits : \A j \in hits : i <= j) - 1
  <2>1. hits \in SUBSET Nat
    BY <1>1, <1>2
  <2>2. hits # {} => \E i \in hits : \A j \in hits : i <= j
    BY <2>1, LeastNat
  <2>3. hits # {} => (CHOOSE i \in hits : \A j \in hits : i <= j) \in hits
    BY <2>2
  <2>4. hits # {} => (CHOOSE i \in hits : \A j \in hits : i <= j) \in 1 .. size
    BY <1>2, <2>3
  <2>5. PICK c : c = CHOOSE i \in hits : \A j \in hits : i <= j
    OBVIOUS
  <2>6. hits # {} => c - 1 # size
    BY <1>1, <2>4, <2>5
  <2> QED BY <1>5, <2>5, <2>6
<1>7. hits # {} => Lists!Sq!SelectInSeq(Array, LAMBDA x : x = v)
                     = CHOOSE i \in hits : \A j \in hits : i <= j
  BY <1>3 DEF Lists!Sq!SelectInSeq, Lists!Sq!Min
<1> QED BY <1>4, <1>5, <1>6, <1>7

LEMMA IndexOfStep ==
    ASSUME Memory, NEW v \in Elements, IndexOf(v)
    PROVE  Memory' /\ Lists!IndexOf(v)
<1>1. (IF Found(v) = size THEN -1 ELSE Found(v))
        = IF v \in Lists!Sq!ToSet(Array)
          THEN Lists!Sq!SelectInSeq(Array, LAMBDA x : x = v) - 1 ELSE -1
  BY FoundIsFirst
<1>2. PICK i : i = IF Found(v) = size THEN -1 ELSE Found(v)
  OBVIOUS
<1>3. Reply(<<"index", v, i>>)
  BY <1>2 DEF IndexOf
<1>4. Memory' /\ Lists!Keep(<<"index", v, i>>)
  BY <1>3, KeepAnswers
<1> QED BY <1>1, <1>2, <1>4 DEF Lists!IndexOf

LEMMA ContainsStep ==
    ASSUME Memory, NEW v \in Elements, Contains(v)
    PROVE  Memory' /\ Lists!Contains(v)
<1>1. PICK b \in BOOLEAN : b <=> Found(v) # size
  OBVIOUS
<1>2. Found(v) # size <=> v \in Lists!Sq!ToSet(Array)
  BY FoundIsFirst
<1> DEFINE found == Found(v) # size
           listed == v \in Lists!Sq!ToSet(Array)
<1>3. found \in BOOLEAN /\ listed \in BOOLEAN /\ (b <=> found) /\ (b <=> listed)
  BY <1>1, <1>2
<1>4. Contains(v) <=> Reply(<<"contains", v, found>>)
  BY DEF Contains
<1> HIDE DEF found, listed
<1>5. b = found /\ b = listed
  BY <1>3
<1>6. Reply(<<"contains", v, b>>)
  BY <1>4, <1>5
<1>7. Memory' /\ Lists!Keep(<<"contains", v, b>>)
  BY <1>6, KeepAnswers
<1> QED BY <1>5, <1>7 DEF Lists!Contains, listed

LEMMA EqualsStep ==
    ASSUME Memory, NEW other \in Literals, Equals(other)
    PROVE  Memory' /\ Lists!Equals(other)
<1>1. /\ Array \in Seq(Elements) /\ Len(Array) = size
      /\ \A i \in 1 .. size : Array[i] = values[i]
      /\ other \in Seq(Elements)
  BY Shown, ArraysAssumption
<1>2. (size = Len(other) /\ \A i \in 1 .. size : values[i] = other[i]) <=> Array = other
  <2>1. ASSUME size = Len(other), \A i \in 1 .. size : values[i] = other[i]
        PROVE  Array = other
    BY <1>1, <2>1, SameList
  <2>2. ASSUME Array = other
        PROVE  size = Len(other) /\ \A i \in 1 .. size : values[i] = other[i]
    BY <1>1, <2>2
  <2> QED BY <2>1, <2>2
<1>3. PICK b \in BOOLEAN : b <=> Array = other
  OBVIOUS
<1>4. /\ b = (Array = other)
      /\ b = (size = Len(other) /\ \A i \in 1 .. size : values[i] = other[i])
  BY <1>2, <1>3
<1>5. Reply(<<"equals", other, b>>)
  BY <1>4 DEF Equals
<1>6. Memory' /\ Lists!Keep(<<"equals", other, b>>)
  BY <1>5, KeepAnswers
<1> QED BY <1>4, <1>6 DEF Lists!Equals
-----------------------------------------------------------------------------
(***************************************************************************)
(* Walks.                                                                  *)
(***************************************************************************)
LEMMA SameArray ==
    ASSUME Memory, UNCHANGED <<values, size>>
    PROVE  Memory' /\ Array' = Array
BY DEF Memory, Array

LEMMA StartStep ==
    ASSUME Memory, NEW kind \in Walks, NEW v \in Elements, StartWalk(kind, v)
    PROVE  /\ Memory' /\ Steps' /\ Rooms' /\ Lists!Start(kind, v)
<1>1. Memory' /\ Array' = Array /\ size \in Nat
  BY SameArray, Shown DEF StartWalk
<1>2. walk' = [kind |-> kind, at |-> 0, current |-> <<>>, made |-> <<>>, acc |-> v]
  BY DEF StartWalk, Walk
<1>3. walk' \in WalkRecords /\ walk'.current = <<>> /\ walk'.made = <<>> /\ walk'.kind = kind
  BY <1>2 DEF WalkRecords, Values
<1>4. Steps'
  BY <1>3 DEF Steps
<1>5. Rooms'
  <2>1. PICK n \in Nat : n = size
    BY <1>1
  <2>2. CapacityFor(n) \in Nat \ {0}
    BY CapacityFits
  <2>3. room' = IF kind \in {"map", "filter"} THEN CapacityFor(n) ELSE 0
    BY <2>1 DEF StartWalk
  <2>4. Len(walk'.made) = 0
    BY <1>3
  <2>5. room' \in Nat /\ (kind \in {"map", "filter"} => room' # 0 /\ Len(walk'.made) <= room')
    BY <2>2, <2>3, <2>4
  <2> QED BY <1>3, <2>5 DEF Rooms
<1>6. Lists!Start(kind, v)
  BY <1>1, SameWalk DEF StartWalk, Lists!Start
<1> QED BY <1>1, <1>4, <1>5, <1>6

LEMMA TakeStep ==
    ASSUME Memory, Steps, Rooms, Take
    PROVE  /\ Memory' /\ Steps' /\ Rooms' /\ Lists!Take
<1>1. Memory' /\ Array' = Array /\ size \in Nat /\ Len(Array) = size
      /\ \A i \in 1 .. size : Array[i] = values[i] /\ values[i] \in Elements
  BY SameArray, Shown DEF Take, Call
<1>2. /\ walk # NoWalk /\ ~InFunction /\ walk.at < size
      /\ walk' = [walk EXCEPT !.at = @ + 1, !.current = <<values[walk.at + 1]>>]
      /\ room' = room /\ result' = <<"took">>
  BY DEF Take, Call, Walking
<1>3. walk \in WalkRecords
  BY <1>2 DEF Steps
<1>4. walk.at \in Nat /\ walk.at + 1 \in 1 .. size
  BY <1>1, <1>2, <1>3 DEF WalkRecords
<1>5. PICK e \in Elements : e = values[walk.at + 1] /\ e = Array[walk.at + 1]
  BY <1>1, <1>4
<1>6. <<e>> \in Seq(Elements) /\ <<e>> # <<>>
  OBVIOUS
<1>7. walk' = [walk EXCEPT !.at = @ + 1, !.current = <<e>>]
  BY <1>2, <1>5
<1>8. /\ walk' \in WalkRecords /\ walk'.current = <<e>>
      /\ walk'.made = walk.made /\ walk'.kind = walk.kind
  <2>1. walk' = [kind |-> walk.kind, at |-> walk.at + 1, current |-> <<e>>,
                 made |-> walk.made, acc |-> walk.acc]
    BY <1>3, <1>7 DEF WalkRecords
  <2>2. /\ walk.kind \in Walks /\ walk.at + 1 \in Nat /\ <<e>> \in Seq(Elements)
        /\ walk.made \in Seq(Values) /\ walk.acc \in Values
    BY <1>3, <1>4, <1>6 DEF WalkRecords
  <2> QED BY <2>1, <2>2 DEF WalkRecords
<1>9. Steps'
  BY <1>8 DEF Steps
<1>10. Rooms'
  BY <1>2, <1>8 DEF Rooms
<1>11. Lists!Take
  BY <1>1, <1>2, <1>5, <1>7, SameWalk DEF Lists!Take, Walking
<1> QED BY <1>1, <1>9, <1>10, <1>11

LEMMA EndStep ==
    ASSUME Memory, End
    PROVE  Memory' /\ Steps' /\ Rooms' /\ Lists!End
<1>1. Memory' /\ Array' = Array /\ Len(Array) = size
  BY SameArray, Shown DEF End
<1>2. walk' = NoWalk /\ room' = 0
  BY DEF End
<1> QED BY <1>1, <1>2, SameWalk DEF End, Lists!End, Steps, Rooms

\* What a function's value adds to the array that is made, and how much memory
\* that has then.
LEMMA MadeFits ==
    ASSUME Steps, Rooms, InFunction, NEW v \in Values, NEW kept,
           kept = CASE walk.kind = "map" -> Append(walk.made, v)
                    [] walk.kind = "filter" /\ v \notin Falsy \cup Failures ->
                           Append(walk.made, walk.current[1])
                    [] OTHER -> walk.made,
           NEW grown, grown = IF Len(kept) <= room THEN room ELSE 2 * room
    PROVE  /\ kept \in Seq(Values) /\ grown \in Nat /\ Len(kept) \in Nat /\ Len(kept) <= grown
           /\ IF walk.kind \in {"map", "filter"} THEN grown # 0 ELSE kept = <<>>
           /\ kept = CASE walk.kind = "map" -> Append(walk.made, v)
                       [] walk.kind = "filter" /\ v \notin Falsy \cup Failures ->
                              walk.made \o walk.current
                       [] OTHER -> walk.made
<1>1. walk # NoWalk /\ walk \in WalkRecords /\ walk.current # <<>>
  BY DEF InFunction, Walking, Steps
<1>2. PICK e \in Elements : walk.current = <<e>>
  BY <1>1 DEF Steps
<1>3. PICK made \in Seq(Values) : made = walk.made
  BY <1>1 DEF WalkRecords
<1>4. PICK kind \in Walks : kind = walk.kind
  BY <1>1 DEF WalkRecords
<1>5. walk.current[1] = e /\ e \in Values
  BY <1>2 DEF Values
<1>6. Append(made, e) = made \o <<e>>
  BY <1>3, <1>5
<1>7. kept = CASE kind = "map" -> Append(made, v)
              [] kind = "filter" /\ v \notin Falsy \cup Failures -> Append(made, e)
              [] OTHER -> made
  BY <1>3, <1>4, <1>5
<1>8. \/ /\ kept = made
      \/ /\ kind \in {"map", "filter"}
         /\ \E x \in Values : kept = Append(made, x)
  BY <1>5, <1>7
<1>9. kept \in Seq(Values) /\ Len(kept) \in Nat /\ Len(made) \in Nat /\ Len(kept) <= Len(made) + 1
  <2>1. Len(made) \in Nat
    BY <1>3, LenProperties
  <2>2. ASSUME NEW x \in Values, kept = Append(made, x)
        PROVE  kept \in Seq(Values) /\ Len(kept) = Len(made) + 1
    BY <1>3, <2>2, AppendProperties
  <2>3. CASE kept = made
    BY <1>3, <2>1, <2>3
  <2>4. CASE \E x \in Values : kept = Append(made, x)
    <3>1. kept \in Seq(Values) /\ Len(kept) = Len(made) + 1
      BY <2>2, <2>4
    <3> QED BY <2>1, <3>1
  <2> QED BY <1>8, <2>3, <2>4
<1>10. room \in Nat /\ IF kind \in {"map", "filter"} THEN room # 0 /\ Len(made) <= room
                        ELSE made = <<>>
  BY <1>1, <1>3, <1>4 DEF Rooms
<1>11. CASE kind \in {"map", "filter"}
  <2>1. grown \in Nat /\ Len(kept) <= grown /\ grown # 0
    BY <1>9, <1>10, <1>11
  <2> QED BY <1>2, <1>3, <1>4, <1>6, <1>7, <1>9, <1>11, <2>1
<1>12. CASE kind \notin {"map", "filter"}
  <2>1. kept = <<>> /\ Len(kept) = 0
    BY <1>8, <1>10, <1>12
  <2>2. grown \in Nat /\ Len(kept) <= grown
    BY <1>10, <2>1
  <2> QED BY <1>2, <1>3, <1>4, <1>6, <1>7, <1>9, <1>12, <2>1, <2>2
<1> QED BY <1>11, <1>12

LEMMA FinishStep ==
    ASSUME Memory, Steps, Rooms, NEW v \in Values, Finish(v)
    PROVE  /\ Memory' /\ Steps' /\ Rooms' /\ Copied' /\ WritesFitTheArray'
           /\ Lists!Finish(v)
<1>1. Memory' /\ Array' = Array
  BY SameArray DEF Finish
<1>2. PICK kept : kept = CASE walk.kind = "map" -> Append(walk.made, v)
                           [] walk.kind = "filter" /\ v \notin Falsy \cup Failures ->
                                  Append(walk.made, walk.current[1])
                           [] OTHER -> walk.made
  OBVIOUS
<1>3. PICK grown : grown = IF Len(kept) <= room THEN room ELSE 2 * room
  OBVIOUS
<1>4. /\ InFunction /\ (walk.kind = "loop" => v = Nil)
      /\ \/ /\ walk.kind = "reduce" /\ v \in Failures
            /\ walk' = NoWalk
            /\ result' = <<"failed", v>>
         \/ /\ ~(walk.kind = "reduce" /\ v \in Failures)
            /\ walk' = [walk EXCEPT !.current = <<>>, !.made = kept,
                                    !.acc = IF walk.kind = "reduce" THEN v ELSE @]
            /\ result' = <<"returned">>
      /\ room' = grown
      /\ fresh' = [capacity |-> grown, written |-> Len(kept)]
  BY <1>2, <1>3 DEF Finish
<1>5. /\ kept \in Seq(Values) /\ grown \in Nat /\ Len(kept) \in Nat /\ Len(kept) <= grown
      /\ IF walk.kind \in {"map", "filter"} THEN grown # 0 ELSE kept = <<>>
      /\ kept = CASE walk.kind = "map" -> Append(walk.made, v)
                  [] walk.kind = "filter" /\ v \notin Falsy \cup Failures ->
                         walk.made \o walk.current
                  [] OTHER -> walk.made
  BY <1>2, <1>3, <1>4, MadeFits
<1>6. Copied' /\ WritesFitTheArray'
  BY <1>4, <1>5 DEF Copied, WritesFitTheArray
<1>7. walk \in WalkRecords
  BY <1>4 DEF InFunction, Walking, Steps
<1>8. ASSUME walk' = NoWalk
      PROVE  Steps' /\ Rooms'
  BY <1>4, <1>5, <1>8 DEF Steps, Rooms
<1>9. ASSUME walk' = [walk EXCEPT !.current = <<>>, !.made = kept,
                                  !.acc = IF walk.kind = "reduce" THEN v ELSE @]
      PROVE  Steps' /\ Rooms'
  <2>1. walk' = [kind |-> walk.kind, at |-> walk.at, current |-> <<>>, made |-> kept,
                 acc |-> IF walk.kind = "reduce" THEN v ELSE walk.acc]
    BY <1>7, <1>9 DEF WalkRecords
  <2>2. /\ walk.kind \in Walks /\ walk.at \in Nat /\ walk.acc \in Values
        /\ <<>> \in Seq(Elements)
    BY <1>7 DEF WalkRecords
  <2>3. /\ walk' \in WalkRecords /\ walk'.current = <<>>
        /\ walk'.made = kept /\ walk'.kind = walk.kind
    BY <1>5, <2>1, <2>2 DEF WalkRecords
  <2>4. Steps'
    BY <2>3 DEF Steps
  <2>5. Rooms'
    BY <1>4, <1>5, <2>3 DEF Rooms
  <2> QED BY <2>4, <2>5
<1>10. Steps' /\ Rooms'
  BY <1>4, <1>8, <1>9
<1>11. Lists!Finish(v)
  <2>1. CASE /\ walk.kind = "reduce" /\ v \in Failures
             /\ walk' = NoWalk
             /\ result' = <<"failed", v>>
    BY <1>1, <1>4, <2>1, SameWalk DEF Lists!Finish
  <2>2. CASE /\ ~(walk.kind = "reduce" /\ v \in Failures)
             /\ walk' = [walk EXCEPT !.current = <<>>, !.made = kept,
                                     !.acc = IF walk.kind = "reduce" THEN v ELSE @]
             /\ result' = <<"returned">>
    <3>1. walk' = [walk EXCEPT
                !.current = <<>>,
                !.made = CASE walk.kind = "map" -> Append(@, v)
                           [] walk.kind = "filter" /\ v \notin Falsy \cup Failures ->
                                  @ \o walk.current
                           [] OTHER -> @,
                !.acc = IF walk.kind = "reduce" THEN v ELSE @]
      BY <1>5, <1>7, <2>2 DEF WalkRecords
    <3> QED BY <1>1, <1>4, <2>2, <3>1, SameWalk DEF Lists!Finish
  <2> QED BY <1>4, <2>1, <2>2
<1> QED BY <1>1, <1>6, <1>10, <1>11

-----------------------------------------------------------------------------
(***************************************************************************)
(* The specification.                                                      *)
(***************************************************************************)
LEMMA InitHolds ==
    ASSUME ArrayInit
    PROVE  ArrayInvariant /\ Lists!Init
<1>1. PICK l \in Literals :
          /\ values = l \o Nils(CapacityFor(Len(l)) - Len(l))
          /\ size = Len(l)
          /\ fresh = [capacity |-> CapacityFor(Len(l)), written |-> Len(l)]
  BY DEF ArrayInit
<1>2. room = 0 /\ walk = NoWalk /\ result = <<"made">>
  BY DEF ArrayInit
<1>3. l \in Seq(Elements) /\ Len(l) \in Nat /\ Len(l) <= MaxCapacity
  BY ArraysAssumption, LenProperties
<1>4. PICK n \in Nat : n = Len(l)
  BY <1>3
<1>5. PICK c \in Nat \ {0} : c = CapacityFor(n) /\ n <= c
  BY <1>3, <1>4, CapacityFits
<1>6. PICK t : t = l \o Nils(c - n)
  OBVIOUS
<1>7. /\ t \in Seq(Elements) /\ Len(t) = c
      /\ \A i \in 1 .. n : t[i] = l[i]
  <2>1. c - n \in Nat /\ n + (c - n) = c
    BY <1>5
  <2> QED BY <1>3, <1>4, <1>6, <2>1, Extended
<1>8. values = t /\ size = n /\ fresh = [capacity |-> c, written |-> n]
  BY <1>1, <1>4, <1>5, <1>6
<1>9. Memory
  BY <1>5, <1>7, <1>8 DEF Memory
<1>10. Copied /\ WritesFitTheArray
  BY <1>5, <1>8 DEF Copied, WritesFitTheArray
<1>11. Steps /\ Rooms
  BY <1>2 DEF Steps, Rooms
<1>12. Array = l
  <2>1. /\ Array \in Seq(Elements) /\ Len(Array) = n
        /\ \A i \in 1 .. n : Array[i] = t[i]
    BY <1>8, <1>9, Shown
  <2> QED BY <1>3, <1>4, <1>7, <2>1, SameList
<1> QED BY <1>2, <1>9, <1>10, <1>11, <1>12, SameWalk DEF ArrayInvariant, Lists!Init

\* What a call leaves of the walk: it goes on as it was.
LEMMA AskKeepsWalk ==
    ASSUME Steps, Rooms, NEW a, Ask(a)
    PROVE  Steps' /\ Rooms'
BY DEF Ask, Steps, Rooms

LEMMA StepHolds ==
    ASSUME ArrayInvariant, ArrayNext
    PROVE  ArrayInvariant' /\ (~Middle => Lists!Next)
<1>1. Memory /\ Steps /\ Rooms
  BY DEF ArrayInvariant
<1>2. ASSUME NEW v \in Elements, Push(v)
      PROVE  ArrayInvariant' /\ Lists!Push(v)
  BY <1>1, <1>2, PushStep, AskKeepsWalk, NoArrayFits DEF ArrayInvariant, Push, Add
<1>3. ASSUME NEW v \in Elements, IndexOf(v)
      PROVE  ArrayInvariant' /\ Lists!IndexOf(v)
  <2>1. \E a : Reply(a)
    BY <1>3 DEF IndexOf
  <2> QED BY <1>1, <1>3, <2>1, IndexOfStep, AskKeepsWalk, NothingMade DEF ArrayInvariant, Reply, Keep
<1>4. ASSUME NEW v \in Elements, Contains(v)
      PROVE  ArrayInvariant' /\ Lists!Contains(v)
  <2>1. \E a : Reply(a)
    BY <1>4 DEF Contains
  <2> QED BY <1>1, <1>4, <2>1, ContainsStep, AskKeepsWalk, NothingMade DEF ArrayInvariant, Reply, Keep
<1>5. ASSUME NEW p \in Positions, Get(p)
      PROVE  ArrayInvariant' /\ Lists!Get(p)
  <2>1. \E a : Reply(a)
    BY <1>5 DEF Get
  <2> QED BY <1>1, <1>5, <2>1, GetStep, AskKeepsWalk, NothingMade DEF ArrayInvariant, Reply, Keep
<1>6. ASSUME NEW p \in Positions, RemoveAt(p)
      PROVE  ArrayInvariant' /\ Lists!RemoveAt(p)
  BY <1>1, <1>6, RemoveAtStep, AskKeepsWalk, NoArrayFits DEF ArrayInvariant, RemoveAt, Reply, Keep
<1>7. ASSUME NEW p \in Positions, NEW v \in Elements, Insert(p, v)
      PROVE  ArrayInvariant' /\ (~Middle => Lists!Insert(p, v))
  BY <1>1, <1>7, InsertStep, AskKeepsWalk, NoArrayFits DEF ArrayInvariant, Insert, Add, Reply, Keep
<1>8. ASSUME NEW p \in Positions, NEW v \in Elements, Set(p, v)
      PROVE  ArrayInvariant' /\ Lists!Set(p, v)
  BY <1>1, <1>8, SetStep, AskKeepsWalk, NoArrayFits DEF ArrayInvariant, Set
<1>9. ASSUME Pop
      PROVE  ArrayInvariant' /\ Lists!Pop
  BY <1>1, <1>9, PopStep, AskKeepsWalk, NoArrayFits DEF ArrayInvariant, Pop, Reply, Keep
<1>10. ASSUME Reverse
       PROVE  ArrayInvariant' /\ Lists!Reverse
  BY <1>1, <1>10, ReverseStep, AskKeepsWalk, NoArrayFits DEF ArrayInvariant, Reverse
<1>11. ASSUME Clear
       PROVE  ArrayInvariant' /\ Lists!Clear
  BY <1>1, <1>11, ClearStep, AskKeepsWalk, NoArrayFits DEF ArrayInvariant, Clear
<1>12. ASSUME NEW l \in Literals, Concat(l)
       PROVE  ArrayInvariant' /\ Lists!Concat(l)
  <2>1. \E a : Ask(a)
    BY <1>12 DEF Concat, Reply, Keep
  <2> QED BY <1>1, <1>12, <2>1, ConcatStep, AskKeepsWalk DEF ArrayInvariant
<1>13. ASSUME NEW l \in Literals, Equals(l)
       PROVE  ArrayInvariant' /\ Lists!Equals(l)
  <2>1. \E a : Reply(a)
    BY <1>13 DEF Equals
  <2> QED BY <1>1, <1>13, <2>1, EqualsStep, AskKeepsWalk, NothingMade DEF ArrayInvariant, Reply, Keep
<1>14. ASSUME NEW p \in Positions, NEW q \in Positions, Slice(p, q)
       PROVE  ArrayInvariant' /\ Lists!Slice(p, q)
  <2>1. \E a : Ask(a)
    BY <1>14 DEF Slice, Reply, Keep
  <2> QED BY <1>1, <1>14, <2>1, SliceStep, AskKeepsWalk DEF ArrayInvariant
<1>15. ASSUME NEW kind \in Walks, NEW v \in Elements, StartWalk(kind, v)
       PROVE  ArrayInvariant' /\ Lists!Start(kind, v)
  BY <1>1, <1>15, StartStep, NoArrayFits DEF ArrayInvariant, StartWalk
<1>16. ASSUME Take
       PROVE  ArrayInvariant' /\ Lists!Take
  BY <1>1, <1>16, TakeStep, NoArrayFits DEF ArrayInvariant, Take, Call
<1>17. ASSUME End
       PROVE  ArrayInvariant' /\ Lists!End
  BY <1>1, <1>17, EndStep, NoArrayFits DEF ArrayInvariant, End
<1>18. ASSUME NEW v \in Values, Finish(v)
       PROVE  ArrayInvariant' /\ Lists!Finish(v)
  BY <1>1, <1>18, FinishStep DEF ArrayInvariant
<1> QED BY <1>2, <1>3, <1>4, <1>5, <1>6, <1>7, <1>8, <1>9, <1>10, <1>11, <1>12, <1>13, <1>14,
           <1>15, <1>16, <1>17, <1>18, SameWalk DEF ArrayNext, Lists!Next

LEMMA StutterHolds ==
    ASSUME ArrayInvariant, UNCHANGED arrayVars
    PROVE  ArrayInvariant' /\ UNCHANGED Lists!vars
BY DEF ArrayInvariant, arrayVars, Memory, Steps, Rooms, Copied, WritesFitTheArray, Lists!vars, Array

(***************************************************************************)
(* For arrays, literals and positions of every size and any script: an     *)
(* array of up to MaxCapacity elements is never given more values than it  *)
(* has memory for, whether new_array took the capacity of it from a size   *)
(* or ensure_capacity doubled it, and positions stay within the memory.    *)
(***************************************************************************)
THEOREM ArrayWritesFit == ArraySpec => []ArraysAreSound
<1>1. ArrayInvariant => ArraysAreSound
  <2>1. ASSUME Steps
        PROVE  walk # NoWalk => /\ walk.kind \in Walks
                                /\ walk.at \in Nat
                                /\ walk.current \in Seq(Elements) /\ Len(walk.current) <= 1
                                /\ walk.made \in Seq(Values)
                                /\ walk.acc \in Values
    <3> SUFFICES ASSUME walk # NoWalk
                 PROVE  /\ walk.kind \in Walks
                        /\ walk.at \in Nat
                        /\ walk.current \in Seq(Elements) /\ Len(walk.current) <= 1
                        /\ walk.made \in Seq(Values)
                        /\ walk.acc \in Values
      OBVIOUS
    <3>1. walk \in WalkRecords
      BY <2>1 DEF Steps
    <3>2. /\ walk.kind \in Walks /\ walk.at \in Nat /\ walk.current \in Seq(Elements)
          /\ walk.made \in Seq(Values) /\ walk.acc \in Values
      BY <3>1 DEF WalkRecords
    <3>3. CASE walk.current = <<>>
      BY <3>2, <3>3
    <3>4. CASE walk.current # <<>>
      <4>1. PICK e \in Elements : walk.current = <<e>>
        BY <2>1, <3>4 DEF Steps
      <4>2. Len(walk.current) = 1
        BY <4>1
      <4> QED BY <3>2, <4>2
    <3> QED BY <3>3, <3>4
  <2> QED BY <2>1 DEF ArrayInvariant, ArraysAreSound, ArrayTypeOK, Memory, Rooms, Copied
<1>2. ArrayInit => ArrayInvariant
  BY InitHolds
<1>3. ArrayInvariant /\ [ArrayNext]_arrayVars => ArrayInvariant'
  BY StepHolds, StutterHolds
<1> QED BY <1>1, <1>2, <1>3, PTL DEF ArraySpec

(***************************************************************************)
(* An array is a list, whatever its memory holds after the last element,   *)
(* and also while a loop, map, filter or reduce walks over it and the      *)
(* function it runs changes it; for scripts that do not insert before the  *)
(* end, which overwrites an element (with Middle it is false).             *)
(***************************************************************************)
THEOREM ArraysAreLists ==
    ASSUME ~Middle
    PROVE  ArraySpec => RefinesList
<1>1. ArrayInit => ArrayInvariant /\ Lists!Init
  BY InitHolds
<1>2. ArrayInvariant /\ [ArrayNext]_arrayVars => ArrayInvariant' /\ [Lists!Next]_(Lists!vars)
  BY StepHolds, StutterHolds
<1> QED BY <1>1, <1>2, PTL DEF ArraySpec, RefinesList, Lists!Spec
=============================================================================
