------------------------------ MODULE ProofBasics ------------------------------
(***************************************************************************)
(* Facts of general use in the proofs: the least-number principle, and     *)
(* sequences used as stacks.                                               *)
(***************************************************************************)
EXTENDS Integers, TLAPS, FiniteSetTheorems, SequenceTheorems, WellFoundedInduction

-----------------------------------------------------------------------------
(***************************************************************************)
(* A nonempty set of naturals has a least element: how the first probe     *)
(* that stops is found.  It is derived from the library's theorem that     *)
(* strict inclusion is well founded on finite sets, a number standing for  *)
(* the interval below it.                                                  *)
(***************************************************************************)
Less == {p \in Nat \X Nat : p[1] < p[2]}

LEMMA LessPairs ==
    \A x, y : <<x, y>> \in Less <=> x \in Nat /\ y \in Nat /\ x < y
BY DEF Less

\* The interval below a number is strictly contained in that below a greater.
LEMMA IntervalsGrow ==
    ASSUME NEW a \in Nat, NEW b \in Nat, a < b
    PROVE  /\ 0 .. a-1 \subseteq 0 .. b-1
           /\ 0 .. a-1 # 0 .. b-1
<1>1. a \in 0 .. b-1 /\ a \notin 0 .. a-1
  OBVIOUS
<1>2. \A x \in 0 .. a-1 : x \in 0 .. b-1
  OBVIOUS
<1> QED BY <1>1, <1>2, Zenon

\* A descending chain of numbers would be a descending chain of intervals.
LEMMA LessWellFounded == IsWellFoundedOn(Less, Nat)
<1> SUFFICES ASSUME NEW f \in [Nat -> Nat],
                    \A n \in Nat : <<f[n+1], f[n]>> \in Less
             PROVE  FALSE
  BY DEF IsWellFoundedOn
<1> DEFINE g == [n \in Nat |-> 0 .. f[n]-1]
<1>1. \A n \in Nat : n+1 \in Nat /\ f[n+1] \in Nat /\ f[n] \in Nat /\ f[n+1] < f[n]
  <2> SUFFICES ASSUME NEW n \in Nat
               PROVE  n+1 \in Nat /\ f[n+1] \in Nat /\ f[n] \in Nat /\ f[n+1] < f[n]
    OBVIOUS
  <2>1. <<f[n+1], f[n]>> \in Less
    OBVIOUS
  <2>2. n+1 \in Nat
    OBVIOUS
  <2> QED BY <2>1, <2>2, LessPairs, Zenon
<1>2. \A n \in Nat : g[n] \in FiniteSubsetsOf(Nat)
  <2>1. \A n \in Nat : IsFiniteSet(0 .. f[n]-1) /\ 0 .. f[n]-1 \subseteq Nat
    BY FS_Interval
  <2> QED BY <2>1 DEF FiniteSubsetsOf
<1>3. \A n \in Nat : <<g[n+1], g[n]>> \in StrictSubsetOrdering(Nat)
  <2> SUFFICES ASSUME NEW n \in Nat
               PROVE  <<g[n+1], g[n]>> \in StrictSubsetOrdering(Nat)
    OBVIOUS
  <2>1. g[n+1] \subseteq g[n] /\ g[n+1] # g[n]
    BY <1>1, IntervalsGrow
  <2>2. g[n] \in SUBSET Nat /\ g[n+1] \in SUBSET Nat
    BY <1>1, <1>2 DEF FiniteSubsetsOf
  <2> HIDE DEF g
  <2> QED BY <2>1, <2>2 DEF StrictSubsetOrdering
<1> QED
  BY <1>2, <1>3, FS_StrictSubsetOrderingWellFounded DEF IsWellFoundedOn

LEMMA LeastNat ==
    ASSUME NEW T \in SUBSET Nat, T # {}
    PROVE  \E x \in T : \A y \in T : x <= y
<1>1. \E x \in T : \A y \in T : ~ (<<y, x>> \in Less)
  BY LessWellFounded, WFMin
<1>2. PICK x \in T : \A y \in T : ~ (<<y, x>> \in Less)
  BY <1>1
<1>3. \A y \in T : ~ (y < x)
  BY <1>2, LessPairs, Zenon
<1> QED BY <1>3

\* ... and, if it is bounded, a greatest.
LEMMA GreatestNat ==
    ASSUME NEW n \in Nat, NEW T \in SUBSET (0 .. n), T # {}
    PROVE  \E x \in T : \A y \in T : x >= y
<1> DEFINE D == {n - x : x \in T}
<1>1. D \in SUBSET Nat /\ D # {}
  <2>1. \A x \in T : x \in 0 .. n
    OBVIOUS
  <2>2. \A x \in T : n - x \in Nat
    BY <2>1
  <2>3. PICK x \in T : TRUE
    OBVIOUS
  <2>4. n - x \in D
    OBVIOUS
  <2> QED BY <2>2, <2>4
<1>2. PICK d \in D : \A e \in D : d <= e
  BY <1>1, LeastNat
<1>3. PICK x \in T : d = n - x
  OBVIOUS
<1>4. \A y \in T : n - y \in D
  OBVIOUS
<1>5. \A y \in T : x >= y
  BY <1>2, <1>3, <1>4
<1> QED BY <1>3, <1>5

-----------------------------------------------------------------------------
(***************************************************************************)
(* Division.                                                               *)
(***************************************************************************)
LEMMA Division ==
    ASSUME NEW a \in Nat, NEW c \in Nat \ {0}
    PROVE  /\ a \div c \in Nat /\ a % c \in 0 .. c-1
           /\ a = c * (a \div c) + (a % c)
OBVIOUS

\* No multiple of c but 0 is smaller than c.
LEMMA SmallMultiple ==
    ASSUME NEW c \in Nat \ {0}, NEW q \in Int, NEW r \in Int, -c < r, r < c, r = c * q
    PROVE  q = 0
<1>1. CASE q >= 1
  <2>1. q - 1 \in Nat /\ c * (q - 1) \in Nat
    BY <1>1
  <2>2. c * q = c * (q - 1) + c
    OBVIOUS
  <2> QED BY <2>1, <2>2
<1>2. CASE q <= -1
  <2>1. -1 - q \in Nat /\ c * (-1 - q) \in Nat
    BY <1>2
  <2>2. c * q = -(c * (-1 - q)) - c
    OBVIOUS
  <2> QED BY <2>1, <2>2
<1> QED BY <1>1, <1>2

\* The same for Ints: \div rounds down.
LEMMA Floor ==
    ASSUME NEW a \in Int, NEW c \in Nat \ {0}
    PROVE  /\ a \div c \in Int /\ a % c \in 0 .. c-1
           /\ a = c * (a \div c) + (a % c)
OBVIOUS

LEMMA FloorIs ==
    ASSUME NEW a \in Int, NEW c \in Nat \ {0}, NEW q \in Int, NEW r \in 0 .. c-1, a = c * q + r
    PROVE  a % c = r /\ a \div c = q
<1> DEFINE k == a \div c
           s == a % c
<1>1. k \in Int /\ s \in 0 .. c-1 /\ a = c * k + s
  BY Floor
<1> HIDE DEF k, s
<1>2. s - r = c * (q - k) /\ q - k \in Int /\ s - r \in Int /\ -c < s - r /\ s - r < c
  BY <1>1
<1>3. q - k = 0
  BY <1>2, SmallMultiple
<1>4. s = r /\ q = k
  BY <1>1, <1>2, <1>3
<1> QED BY <1>4 DEF s, k

LEMMA Remainder ==
    ASSUME NEW c \in Nat \ {0}, NEW a \in Nat, NEW q \in Int, NEW r \in 0 .. c-1, a = c * q + r
    PROVE  a % c = r
BY FloorIs

LEMMA MultipleRemainder ==
    ASSUME NEW c \in Nat \ {0}, NEW q \in Int, c * q \in Nat
    PROVE  (c * q) % c = 0
BY Remainder

-----------------------------------------------------------------------------
(***************************************************************************)
(* Sequences used as stacks: the last element is the top.                  *)
(***************************************************************************)
LEMMA StackTop ==
    ASSUME NEW S, NEW s \in Seq(S), s # <<>>
    PROVE  /\ Len(s) \in Nat \ {0} /\ DOMAIN s = 1 .. Len(s)
           /\ s[Len(s)] \in S
<1>1. Len(s) \in Nat \ {0}
  BY EmptySeq
<1>2. DOMAIN s = 1 .. Len(s)
  BY LenProperties
<1>3. Len(s) \in 1 .. Len(s)
  BY <1>1
<1> QED BY <1>1, <1>2, <1>3, ElementOfSeq

\* A stack of one.
LEMMA StackOne ==
    ASSUME NEW S, NEW e \in S
    PROVE  /\ <<>> \in Seq(S) /\ <<e>> \in Seq(S)
           /\ Len(<<e>>) = 1 /\ <<e>>[1] = e /\ <<e>> # <<>>
OBVIOUS

\* What is left when the top is taken off.
LEMMA StackPop ==
    ASSUME NEW S, NEW s \in Seq(S), s # <<>>
    PROVE  LET t == SubSeq(s, 1, Len(s)-1)
           IN  /\ t \in Seq(S) /\ Len(t) = Len(s) - 1
               /\ \A i \in 1 .. Len(s)-1 : t[i] = s[i]
<1> DEFINE n == Len(s) - 1
<1>1. n \in Nat /\ 1 \in Int /\ n \in Int
  BY StackTop
<1>2. \A i \in 1 .. Len(s) : s[i] \in S
  BY ElementOfSeq
<1>3. \A i \in 1 .. n : s[i] \in S
  BY <1>1, <1>2
<1> HIDE DEF n
<1>4. /\ SubSeq(s, 1, n) \in Seq(S)
      /\ Len(SubSeq(s, 1, n)) = IF 1 <= n THEN n - 1 + 1 ELSE 0
      /\ \A i \in 1 .. n - 1 + 1 : SubSeq(s, 1, n)[i] = s[1 + i - 1]
  BY <1>1, <1>3, SubSeqProperties
<1>5. Len(SubSeq(s, 1, n)) = n
  BY <1>1, <1>4
<1>6. \A i \in 1 .. n : SubSeq(s, 1, n)[i] = s[i]
  BY <1>1, <1>4
<1> QED BY <1>4, <1>5, <1>6 DEF n

\* Pushing.
LEMMA StackPush ==
    ASSUME NEW S, NEW s \in Seq(S), NEW e \in S
    PROVE  LET t == Append(s, e)
           IN  /\ t \in Seq(S) /\ Len(t) = Len(s) + 1 /\ t # <<>>
               /\ t[Len(s) + 1] = e
               /\ \A i \in 1 .. Len(s) : t[i] = s[i]
BY AppendProperties

\* Replacing the top.
LEMMA StackReplace ==
    ASSUME NEW S, NEW s \in Seq(S), s # <<>>, NEW e \in S
    PROVE  LET t == Append(SubSeq(s, 1, Len(s)-1), e)
           IN  /\ t \in Seq(S) /\ Len(t) = Len(s) /\ t # <<>>
               /\ t[Len(s)] = e
               /\ \A i \in 1 .. Len(s)-1 : t[i] = s[i]
<1> DEFINE r == SubSeq(s, 1, Len(s)-1)
           t == Append(r, e)
<1>1. Len(s) \in Nat \ {0}
  BY StackTop
<1>2. r \in Seq(S) /\ Len(r) = Len(s) - 1 /\ \A i \in 1 .. Len(s)-1 : r[i] = s[i]
  BY StackPop
<1> HIDE DEF r
<1>3. /\ t \in Seq(S) /\ Len(t) = Len(r) + 1 /\ t # <<>>
      /\ t[Len(r) + 1] = e
      /\ \A i \in 1 .. Len(r) : t[i] = r[i]
  BY <1>2, StackPush
<1> HIDE DEF t
<1>4. Len(t) = Len(s) /\ t[Len(s)] = e /\ \A i \in 1 .. Len(s)-1 : t[i] = s[i]
  BY <1>1, <1>2, <1>3
<1>5. t = Append(SubSeq(s, 1, Len(s)-1), e)
  BY DEF t, r
<1> QED BY <1>3, <1>4, <1>5

\* A tail of two elements: it is two pushes.
LEMMA StackPushTwo ==
    ASSUME NEW S, NEW s \in Seq(S), NEW e \in S, NEW f \in S
    PROVE  LET t == s \o <<e, f>>
           IN  /\ t \in Seq(S) /\ Len(t) = Len(s) + 2 /\ t # <<>>
               /\ t[Len(s) + 1] = e /\ t[Len(s) + 2] = f
               /\ \A i \in 1 .. Len(s) : t[i] = s[i]
<1> DEFINE w == <<e, f>>
           t == s \o w
<1>1. w \in Seq(S) /\ Len(w) = 2 /\ w[1] = e /\ w[2] = f
  OBVIOUS
<1>2. Len(s) \in Nat
  BY LenProperties
<1>e. t = s \o <<e, f>>
  OBVIOUS
<1> HIDE DEF w
<1>3. /\ t \in Seq(S) /\ Len(t) = Len(s) + Len(w)
      /\ \A i \in 1 .. Len(s) + Len(w) :
            t[i] = IF i <= Len(s) THEN s[i] ELSE w[i - Len(s)]
  BY <1>1, ConcatProperties
<1> HIDE DEF t
<1>4. Len(t) = Len(s) + 2 /\ t # <<>>
  BY <1>1, <1>2, <1>3, EmptySeq
<1>5. \A i \in 1 .. Len(s) + 2 : t[i] = IF i <= Len(s) THEN s[i] ELSE w[i - Len(s)]
  BY <1>1, <1>3
<1>6. t[Len(s) + 1] = w[1] /\ t[Len(s) + 2] = w[2]
  BY <1>2, <1>5
<1>7. \A i \in 1 .. Len(s) : t[i] = s[i]
  BY <1>2, <1>5
<1> QED BY <1>1, <1>e, <1>3, <1>4, <1>6, <1>7

\* The bottom of a stack.
LEMMA Prefix ==
    ASSUME NEW S, NEW s \in Seq(S), NEW n \in 0 .. Len(s)
    PROVE  /\ SubSeq(s, 1, n) \in Seq(S) /\ Len(SubSeq(s, 1, n)) = n
           /\ \A i \in 1 .. n : SubSeq(s, 1, n)[i] = s[i]
<1>1. n \in Nat /\ n \in Int /\ 1 \in Int /\ Len(s) \in Nat
  BY LenProperties
<1>2. \A i \in 1 .. Len(s) : s[i] \in S
  BY ElementOfSeq
<1>3. \A i \in 1 .. n : s[i] \in S
  BY <1>1, <1>2
<1>4. /\ SubSeq(s, 1, n) \in Seq(S) /\ Len(SubSeq(s, 1, n)) = IF 1 <= n THEN n - 1 + 1 ELSE 0
      /\ \A i \in 1 .. n - 1 + 1 : SubSeq(s, 1, n)[i] = s[1 + i - 1]
  BY <1>1, <1>3, SubSeqProperties
<1>5. Len(SubSeq(s, 1, n)) = n
  BY <1>1, <1>4
<1>6. \A i \in 1 .. n : SubSeq(s, 1, n)[i] = s[i]
  BY <1>1, <1>4
<1> QED BY <1>4, <1>5, <1>6

\* A function on 1 .. n is a sequence.
LEMMA FunSeq ==
    ASSUME NEW n \in Nat, NEW S, NEW f \in [1 .. n -> S]
    PROVE  f \in Seq(S) /\ Len(f) = n
<1>1. f \in Seq(S)
  BY SeqDef
<1>2. Len(f) \in Nat /\ 1 .. Len(f) = 1 .. n
  BY <1>1, LenProperties
<1> QED BY <1>1, <1>2

-----------------------------------------------------------------------------
\* A function that is defined by its values at arguments of lower rank exists:
\* what is defined recursively is what its definition says.
ByRank(D, C, R, F) ==
    /\ C # {} /\ R \in [D -> Nat] /\ F \in [[D -> C] -> [D -> C]]
    /\ \A f \in [D -> C], g \in [D -> C] : \A x \in D :
           (\A y \in D : R[y] < R[x] => f[y] = g[y]) => F[f][x] = F[g][x]

LEMMA FunctionsByRank ==
    ASSUME NEW D, NEW C, NEW R, NEW F, ByRank(D, C, R, F)
    PROVE  \E f \in [D -> C] : f = F[f]
<1> USE DEF ByRank
<1> DEFINE Good(f, n) == \A x \in D : R[x] < n => f[x] = F[f][x]
<1>1. ASSUME NEW n \in Nat, NEW f \in [D -> C], NEW g \in [D -> C], Good(f, n), Good(g, n)
      PROVE  \A x \in D : R[x] < n => f[x] = g[x]
  <2> DEFINE T == {k \in Nat : k < n /\ \E x \in D : R[x] = k /\ f[x] # g[x]}
  <2>1. SUFFICES ASSUME T # {} PROVE FALSE
    OBVIOUS
  <2>2. PICK k \in T : \A j \in T : k <= j
    <3>1. T \in SUBSET Nat
      OBVIOUS
    <3> HIDE DEF T
    <3> QED BY <2>1, <3>1, LeastNat
  <2>3. PICK x \in D : R[x] = k /\ f[x] # g[x]
    OBVIOUS
  <2>4. \A y \in D : R[y] < R[x] => f[y] = g[y]
    <3> SUFFICES ASSUME NEW y \in D, R[y] < R[x], f[y] # g[y] PROVE FALSE
      OBVIOUS
    <3>1. R[y] \in T
      BY <2>2, <2>3
    <3> QED BY <2>2, <2>3, <3>1
  <2>5. F[f][x] = F[g][x]
    BY <2>4
  <2> QED BY <1>1, <2>2, <2>3, <2>5
<1>2. \A n \in Nat : \E f \in [D -> C] : Good(f, n)
  <2> DEFINE T == {n \in Nat : ~\E f \in [D -> C] : Good(f, n)}
  <2>1. SUFFICES ASSUME T # {} PROVE FALSE
    OBVIOUS
  <2>2. PICK n \in T : \A m \in T : n <= m
    <3>1. T \in SUBSET Nat
      OBVIOUS
    <3> HIDE DEF T
    <3> QED BY <2>1, <3>1, LeastNat
  <2>3. n # 0
    <3>1. PICK c \in C : TRUE
      OBVIOUS
    <3>2. [x \in D |-> c] \in [D -> C] /\ Good([x \in D |-> c], 0)
      OBVIOUS
    <3> QED BY <3>2
  <2>4. n - 1 \in Nat /\ n - 1 \notin T
    BY <2>2, <2>3
  <2>5. PICK f \in [D -> C] : Good(f, n - 1)
    BY <2>4
  <2>6. F[f] \in [D -> C]
    OBVIOUS
  <2>7. ASSUME NEW x \in D, R[x] < n
        PROVE  F[f][x] = F[F[f]][x]
    <3>1. \A y \in D : R[y] < R[x] => f[y] = F[f][y]
      BY <2>5, <2>7
    <3> QED BY <2>6, <3>1
  <2>8. Good(F[f], n)
    BY <2>7
  <2> QED BY <2>6, <2>8
<1> DEFINE h == [n \in Nat |-> CHOOSE f \in [D -> C] : Good(f, n)]
           limit == [x \in D |-> h[R[x] + 1][x]]
<1>3. \A n \in Nat : h[n] \in [D -> C] /\ Good(h[n], n)
  <2> HIDE DEF Good
  <2> QED BY <1>2
<1>r. \A x \in D : R[x] \in Nat /\ R[x] + 1 \in Nat /\ R[x] < R[x] + 1
  OBVIOUS
<1>4. limit \in [D -> C]
  <2> HIDE DEF h, Good
  <2> QED BY <1>3, <1>r
<1>5. ASSUME NEW x \in D
      PROVE  limit[x] = F[limit][x]
  <2> DEFINE n == R[x] + 1
             f == h[n]
  <2>1. n \in Nat /\ f \in [D -> C] /\ Good(f, n) /\ R[x] < n
    <3> HIDE DEF h, Good
    <3> QED BY <1>3, <1>r
  <2>2. ASSUME NEW y \in D, R[y] < R[x]
        PROVE  limit[y] = f[y]
    <3> DEFINE m == R[y] + 1
    <3>1. m \in Nat /\ h[m] \in [D -> C] /\ Good(h[m], m) /\ R[y] < m
      <4> HIDE DEF h, Good
      <4> QED BY <1>3, <1>r
    <3>2. Good(f, m)
      <4>1. R[y] \in Nat /\ R[x] \in Nat
        OBVIOUS
      <4> SUFFICES ASSUME NEW z \in D, R[z] < m PROVE f[z] = F[f][z]
        OBVIOUS
      <4>2. R[z] < n
        BY <2>2, <4>1
      <4> QED BY <2>1, <4>2
    <3>3. h[m][y] = f[y]
      <4> HIDE DEF h, Good
      <4> HIDE DEF f
      <4> QED BY <1>1, <2>1, <3>1, <3>2
    <3> QED BY <3>3
  <2>3. F[limit][x] = F[f][x]
    <3>1. \A y \in D : R[y] < R[x] => limit[y] = f[y]
      BY <2>2
    <3>2. limit \in [D -> C] /\ f \in [D -> C]
      BY <1>4, <2>1
    <3> HIDE DEF limit, f, h, Good
    <3> QED BY <3>1, <3>2
  <2>4. f[x] = F[f][x]
    BY <2>1
  <2>5. limit[x] = f[x]
    OBVIOUS
  <2> QED BY <2>3, <2>4, <2>5
<1>6. limit = F[limit]
  <2>1. F[limit] \in [D -> C]
    BY <1>4
  <2> HIDE DEF limit
  <2> QED BY <1>4, <1>5, <2>1
<1> QED BY <1>4, <1>6
=============================================================================
