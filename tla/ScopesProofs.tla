---------------------------- MODULE ScopesProofs ----------------------------
(***************************************************************************)
(* Theorems about the compiler's scopes and match expressions (Scopes).    *)
(***************************************************************************)
EXTENDS Scopes, ProofBasics

-----------------------------------------------------------------------------
(***************************************************************************)
(* What may be nested in what.  The recursive descent of the parser is an  *)
(* adjacency: the kind of a construct says what its parent is, and what is *)
(* parsed next says what the innermost construct is.  0 stands for the     *)
(* body of the function.                                                   *)
(***************************************************************************)
K(ns, i) == IF i = 0 THEN "root" ELSE ns[i].kind

Bodies == {"root", "block", "loop", "arm", "bound arm"}

Contexts == {"let", "expression", "operand", "give"}
              \cup (IF "bare" \in Idioms THEN {"arm"} ELSE {})

Fits(parent, child) ==
    \/ child \in {"block", "loop", "let", "expression", "give"} /\ parent \in Bodies
    \/ child \in {"operand", "match"} /\ parent \in Contexts
    \/ child \in Arms /\ parent = "match"

ModeFits(kind, m) ==
    \/ m \in {"statement", "given"} /\ kind \in Bodies
    \/ m \in {"expression", "value"} /\ kind \in Contexts
    \/ m = "arm" /\ kind = "match"

Nesting(ns) == \A j \in 1 .. Len(ns) : Fits(K(ns, j-1), K(ns, j))

Matches(ns) == {k \in 1 .. Len(ns) : K(ns, k) = "match"}

IsNest(ns) == \E S : ns \in Seq(S)

\* The first constructs of a nest.
LEMMA CutNest ==
    ASSUME NEW ns, IsNest(ns), Nesting(ns), NEW k \in 0 .. Len(ns)
    PROVE  LET t == SubSeq(ns, 1, k)
           IN  /\ IsNest(t) /\ Len(t) = k /\ Nesting(t)
               /\ \A i \in 1 .. k : t[i] = ns[i]
               /\ \A i \in 0 .. k : K(t, i) = K(ns, i)
               /\ Matches(t) = {i \in Matches(ns) : i <= k}
<1> DEFINE t == SubSeq(ns, 1, k)
<1>1. PICK S : ns \in Seq(S)
  BY DEF IsNest
<1>2. t \in Seq(S) /\ Len(t) = k /\ \A i \in 1 .. k : t[i] = ns[i]
  BY <1>1, Prefix
<1>3. Len(ns) \in Nat
  BY <1>1, LenProperties
<1>e. t = SubSeq(ns, 1, k)
  OBVIOUS
<1> HIDE DEF t
<1>4. \A i \in 0 .. k : K(t, i) = K(ns, i)
  BY <1>2, <1>3 DEF K
<1>5. Nesting(t)
  BY <1>2, <1>3, <1>4 DEF Nesting
<1>6. Matches(t) = {i \in Matches(ns) : i <= k}
  BY <1>2, <1>3, <1>4 DEF Matches
<1>7. IsNest(t)
  BY <1>2 DEF IsNest
<1> QED BY <1>2, <1>4, <1>5, <1>6, <1>7, <1>e

\* One more construct.
LEMMA PushNest ==
    ASSUME NEW ns, IsNest(ns), Nesting(ns), NEW c, Fits(K(ns, Len(ns)), c.kind)
    PROVE  LET t == Append(ns, c)
           IN  /\ IsNest(t) /\ Len(t) = Len(ns) + 1 /\ Nesting(t)
               /\ t[Len(ns) + 1] = c
               /\ \A i \in 1 .. Len(ns) : t[i] = ns[i]
               /\ K(t, Len(ns) + 1) = c.kind
               /\ \A i \in 0 .. Len(ns) : K(t, i) = K(ns, i)
               /\ Matches(t) = Matches(ns) \cup
                    (IF c.kind = "match" THEN {Len(ns) + 1} ELSE {})
<1> DEFINE t == Append(ns, c)
<1>1. PICK S : ns \in Seq(S)
  BY DEF IsNest
<1>2. ns \in Seq(S \cup {c}) /\ c \in S \cup {c}
  BY <1>1, SeqMonotonic
<1>3. /\ t \in Seq(S \cup {c}) /\ Len(t) = Len(ns) + 1 /\ t[Len(ns) + 1] = c
      /\ \A i \in 1 .. Len(ns) : t[i] = ns[i]
  BY <1>2, StackPush
<1>4. Len(ns) \in Nat
  BY <1>1, LenProperties
<1>e. t = Append(ns, c)
  OBVIOUS
<1> HIDE DEF t
<1>5. K(t, Len(ns) + 1) = c.kind /\ \A i \in 0 .. Len(ns) : K(t, i) = K(ns, i)
  BY <1>3, <1>4 DEF K
<1>6. Nesting(t)
  BY <1>3, <1>4, <1>5 DEF Nesting
<1>7. Matches(t) = Matches(ns) \cup (IF c.kind = "match" THEN {Len(ns) + 1} ELSE {})
  BY <1>3, <1>4, <1>5 DEF Matches
<1>8. IsNest(t)
  BY <1>3 DEF IsNest
<1> QED BY <1>3, <1>5, <1>6, <1>7, <1>8, <1>e

-----------------------------------------------------------------------------
(***************************************************************************)
(* The nest, and the handlers: every open match has one of its own, since  *)
(* what leaves a match without its OP_MATCH_END only keeps some too many.  *)
(***************************************************************************)
NestInv ==
    /\ IsNest(nest) /\ Nesting(nest)
    /\ ModeFits(K(nest, Len(nest)), mode)
    /\ handlers >= Cardinality(Matches(nest))
    /\ handlers \in 0 .. MatchNestDepth

\* The matches of a nest can be counted.
LEMMA MatchesAreFew ==
    ASSUME NEW ns, IsNest(ns)
    PROVE  /\ IsFiniteSet(Matches(ns)) /\ Cardinality(Matches(ns)) \in Nat
           /\ Len(ns) + 1 \notin Matches(ns)
           /\ Matches(ns) \subseteq 1 .. Len(ns)
           /\ Len(ns) \in Nat /\ DOMAIN ns = 1 .. Len(ns)
           /\ (ns = <<>> <=> Len(ns) = 0)
<1>1. PICK S : ns \in Seq(S)
  BY DEF IsNest
<1>2. Len(ns) \in Nat /\ DOMAIN ns = 1 .. Len(ns) /\ (ns = <<>> <=> Len(ns) = 0)
  BY <1>1, LenProperties, EmptySeq
<1>3. IsFiniteSet(1 .. Len(ns))
  BY <1>2, FS_Interval
<1>4. Matches(ns) \subseteq 1 .. Len(ns)
  BY DEF Matches
<1>5. IsFiniteSet(Matches(ns)) /\ Cardinality(Matches(ns)) \in Nat
  BY <1>3, <1>4, FS_Subset, FS_CardinalityType
<1> QED BY <1>2, <1>4, <1>5

\* The innermost construct, and what is left when it ends.
LEMMA Innermost ==
    ASSUME NestInv, NEW kind, IsIn(kind)
    PROVE  /\ Len(nest) \in Nat \ {0} /\ K(nest, Len(nest)) = kind
           /\ Len(nest) - 1 \in 0 .. Len(nest)
           /\ Fits(K(nest, Len(nest) - 1), kind)
           /\ Sq!Last(nest) = nest[Len(nest)]
           /\ Sq!Front(nest) = SubSeq(nest, 1, Len(nest) - 1)
<1>1. Len(nest) \in Nat \ {0}
  BY MatchesAreFew DEF NestInv, IsIn
<1>2. K(nest, Len(nest)) = kind
  BY <1>1 DEF K, IsIn, Sq!Last
<1>3. Fits(K(nest, Len(nest) - 1), kind)
  BY <1>1, <1>2 DEF NestInv, Nesting
<1> QED BY <1>1, <1>2, <1>3 DEF Sq!Last, Sq!Front

\* A step that leaves the nest alone.
LEMMA NestStays ==
    ASSUME NestInv, nest' = nest, handlers' = handlers,
           ModeFits(K(nest, Len(nest)), mode')
    PROVE  NestInv'
BY DEF NestInv

\* A step that opens a construct other than a match.
LEMMA NestGrows ==
    ASSUME NestInv, NEW c, nest' = Append(nest, c), handlers' = handlers,
           Fits(K(nest, Len(nest)), c.kind), c.kind # "match",
           ModeFits(c.kind, mode')
    PROVE  NestInv'
<1>1. /\ IsNest(nest') /\ Len(nest') = Len(nest) + 1 /\ Nesting(nest')
      /\ K(nest', Len(nest) + 1) = c.kind
      /\ Matches(nest') = Matches(nest) \cup
                             (IF c.kind = "match" THEN {Len(nest) + 1} ELSE {})
  BY PushNest DEF NestInv
<1>2. Matches(nest') = Matches(nest)
  BY <1>1
<1> QED BY <1>1, <1>2 DEF NestInv

\* A step that closes the innermost constructs, none of them a match.
LEMMA NestShrinks ==
    ASSUME NestInv, NEW k \in 0 .. Len(nest), nest' = SubSeq(nest, 1, k),
           \A i \in k+1 .. Len(nest) : K(nest, i) # "match",
           handlers' = handlers, ModeFits(K(nest, k), mode')
    PROVE  NestInv'
<1>1. /\ IsNest(nest') /\ Len(nest') = k /\ Nesting(nest')
      /\ K(nest', k) = K(nest, k)
      /\ Matches(nest') = {i \in Matches(nest) : i <= k}
  BY CutNest DEF NestInv
<1>2. Len(nest) \in Nat
  BY MatchesAreFew DEF NestInv
<1>3. \A i \in Matches(nest) : i <= k
  BY <1>2 DEF Matches
<1>4. Matches(nest') = Matches(nest)
  BY <1>1, <1>3
<1> QED BY <1>1, <1>4 DEF NestInv

\* The end of the innermost construct.
LEMMA NestPops ==
    ASSUME NestInv, NEW kind, kind # "match", IsIn(kind), nest' = Sq!Front(nest),
           handlers' = handlers,
           \/ kind \in {"block", "loop", "let", "expression", "give"}
                /\ mode' \in {"statement", "given"}
           \/ kind = "operand" /\ mode' = "value"
    PROVE  NestInv'
<1> DEFINE n == Len(nest)
<1>1. /\ n \in Nat \ {0} /\ K(nest, n) = kind /\ n - 1 \in 0 .. n
      /\ Fits(K(nest, n - 1), kind) /\ Sq!Front(nest) = SubSeq(nest, 1, n - 1)
  BY Innermost
<1>2. ModeFits(K(nest, n - 1), mode')
  <2>1. kind \notin Arms
    BY DEF Arms
  <2>2. CASE kind = "operand" /\ mode' = "value"
    BY <1>1, <2>2 DEF Fits, ModeFits, Arms
  <2>3. CASE /\ kind \in {"block", "loop", "let", "expression", "give"}
             /\ mode' \in {"statement", "given"}
    BY <1>1, <2>1, <2>3 DEF Fits, ModeFits
  <2> QED BY <2>2, <2>3
<1>3. \A i \in n-1+1 .. n : K(nest, i) # "match"
  BY <1>1
<1> HIDE DEF n
<1>4. nest' = SubSeq(nest, 1, n - 1)
  BY <1>1
<1> QED BY <1>1, <1>2, <1>3, <1>4, NestShrinks DEF n

\* Among statements that are in no arm, no match is open.
LEMMA NoArmNoMatch ==
    ASSUME NestInv, mode \in {"statement", "given"}, NEW k \in 0 .. Len(nest), ~LeavesArm(k)
    PROVE  \A i \in k+1 .. Len(nest) : K(nest, i) # "match"
<1> SUFFICES ASSUME NEW i \in k+1 .. Len(nest), K(nest, i) = "match"
             PROVE  FALSE
  OBVIOUS
<1>1. Len(nest) \in Nat
  BY MatchesAreFew DEF NestInv
<1>2. CASE i = Len(nest)
  <2>1. ModeFits("match", mode)
    BY <1>2 DEF NestInv
  <2> QED BY <2>1 DEF ModeFits, Bodies, Contexts
<1>3. CASE i # Len(nest)
  <2>1. i + 1 \in k+1 .. Len(nest) /\ i + 1 \in 1 .. Len(nest) /\ i + 1 - 1 = i /\ i + 1 # 0
    BY <1>1, <1>3
  <2>2. Fits("match", K(nest, i + 1))
    BY <2>1 DEF NestInv, Nesting
  <2>3. K(nest, i + 1) \in Arms
    BY <2>2 DEF Fits, Bodies, Contexts, Arms
  <2>4. nest[i + 1].kind \in Arms
    BY <2>1, <2>3 DEF K
  <2> QED BY <2>1, <2>4 DEF LeavesArm
<1> QED BY <1>2, <1>3

\* The nesting of the empty function.
LEMMA NestInvInit == Init => NestInv
<1> SUFFICES ASSUME Init PROVE NestInv
  OBVIOUS
<1> USE DEF Init
<1>1. IsNest(nest) /\ Len(nest) = 0
  <2>1. <<>> \in Seq({}) /\ Len(<<>>) = 0
    OBVIOUS
  <2> QED BY <2>1 DEF IsNest
<1>2. Matches(nest) = {}
  BY <1>1 DEF Matches
<1>3. Nesting(nest) /\ ModeFits(K(nest, Len(nest)), mode)
  BY <1>1 DEF Nesting, ModeFits, K, Bodies
<1> QED BY <1>1, <1>2, <1>3, FS_EmptySet, BoundsAssumption DEF NestInv

\* Every step keeps the nesting.  The cases below are the actions of Next.
LEMMA NestInvNext ==
    ASSUME "exit" \notin Idioms, NestInv, [Next]_vars
    PROVE  NestInv'
<1> USE DEF Parsing, Open, Closable
<1>g. /\ Len(nest) \in Nat /\ ModeFits(K(nest, Len(nest)), mode)
      /\ mode = "statement" => K(nest, Len(nest)) \in Bodies
      /\ mode = "expression" => K(nest, Len(nest)) \in Contexts
  BY MatchesAreFew DEF NestInv, ModeFits
<1>0. ASSUME UNCHANGED vars PROVE NestInv'
  BY <1>0, NestStays DEF vars, NestInv
<1>1. ASSUME BeginBlock PROVE NestInv'
  <2>1. PICK c : c = [kind |-> "block"]
    OBVIOUS
  <2>2. nest' = Append(nest, c) /\ c.kind = "block" /\ handlers' = handlers /\ mode' = "statement"
    BY <1>1, <2>1 DEF BeginBlock
  <2> QED BY <1>1, <1>g, <2>2, NestGrows DEF BeginBlock, Fits, ModeFits, Bodies
<1>2. ASSUME EndBlock PROVE NestInv'
  BY <1>2, NestPops DEF EndBlock
<1>3. ASSUME BeginLet PROVE NestInv'
  <2>1. PICK c : c = [kind |-> "let", id |-> Fresh]
    OBVIOUS
  <2>2. nest' = Append(nest, c) /\ c.kind = "let" /\ handlers' = handlers /\ mode' = "expression"
    BY <1>3, <2>1 DEF BeginLet
  <2> QED BY <1>3, <1>g, <2>2, NestGrows DEF BeginLet, Fits, ModeFits, Contexts
<1>4. ASSUME EndLet PROVE NestInv'
  BY <1>4, NestPops DEF EndLet
<1>5. ASSUME BeginExpressionStatement PROVE NestInv'
  <2>1. PICK c : c = [kind |-> "expression"]
    OBVIOUS
  <2>2. /\ nest' = Append(nest, c) /\ c.kind = "expression" /\ handlers' = handlers
        /\ mode' = "expression"
    BY <1>5, <2>1 DEF BeginExpressionStatement
  <2> QED BY <1>5, <1>g, <2>2, NestGrows DEF BeginExpressionStatement, Fits, ModeFits, Contexts
<1>6. ASSUME EndExpressionStatement PROVE NestInv'
  BY <1>6, NestPops DEF EndExpressionStatement
<1>7. ASSUME NEW n \in 0 .. 2, BeginLoop(n) PROVE NestInv'
  <2>1. PICK c : c = [kind |-> "loop", depth |-> scopeDepth + 1,
                      hidden |-> IF n = 2 THEN FreshId(1) ELSE 0]
    OBVIOUS
  <2>2. nest' = Append(nest, c) /\ c.kind = "loop" /\ handlers' = handlers /\ mode' = "statement"
    BY <1>7, <2>1 DEF BeginLoop
  <2> QED BY <1>7, <1>g, <2>2, NestGrows DEF BeginLoop, Fits, ModeFits, Bodies
<1>8. ASSUME EndLoop PROVE NestInv'
  BY <1>8, NestPops DEF EndLoop
<1>9. ASSUME LeaveToLoop PROVE NestInv'
  <2>1. PICK k \in DOMAIN nest :
           InnermostLoop(k) /\ ~LeavesArm(k) /\ nest' = SubSeq(nest, 1, k)
    BY <1>9 DEF LeaveToLoop
  <2>2. k \in 1 .. Len(nest) /\ k \in 0 .. Len(nest) /\ K(nest, k) = "loop"
    BY <2>1, MatchesAreFew DEF NestInv, InnermostLoop, K
  <2>3. mode = "statement" /\ mode' = "statement" /\ handlers' = handlers
    BY <1>9 DEF LeaveToLoop
  <2> QED BY <2>1, <2>2, <2>3, NoArmNoMatch, NestShrinks DEF ModeFits, Bodies
<1>10. ASSUME Return PROVE NestInv'
  <2>1. nest' = <<>> /\ mode' = "statement" /\ handlers' = handlers /\ Len(nest') = 0
    BY <1>10 DEF Return
  <2>2. IsNest(nest') /\ Nesting(nest') /\ K(nest', 0) = "root" /\ Matches(nest') = {}
    <3>1. <<>> \in Seq({})
      OBVIOUS
    <3> QED BY <2>1, <3>1 DEF IsNest, Nesting, K, Matches
  <2>3. ModeFits(K(nest', Len(nest')), mode')
    BY <2>1, <2>2 DEF ModeFits, Bodies
  <2>4. handlers \in 0 .. MatchNestDepth /\ handlers >= Cardinality(Matches(nest'))
    <3>1. Cardinality(Matches(nest')) = 0
      BY <2>2, FS_EmptySet
    <3> QED BY <3>1, BoundsAssumption DEF NestInv
  <2> QED BY <2>1, <2>2, <2>3, <2>4 DEF NestInv
<1>11. ASSUME Value \/ Capture PROVE NestInv'
  BY <1>11, <1>g, NestStays DEF Value, Capture, ModeFits
<1>12. ASSUME BeginOperand PROVE NestInv'
  <2>1. PICK c : c = [kind |-> "operand"]
    OBVIOUS
  <2>2. /\ nest' = Append(nest, c) /\ c.kind = "operand" /\ handlers' = handlers
        /\ mode' = "expression" /\ mode = "expression"
    BY <1>12, <2>1 DEF BeginOperand
  <2> QED BY <1>g, <2>2, NestGrows DEF Fits, ModeFits, Contexts
<1>13. ASSUME EndOperand PROVE NestInv'
  BY <1>13, NestPops DEF EndOperand
<1>14. ASSUME BeginMatch PROVE NestInv'
  <2>1. PICK c : c = [kind |-> "match"]
    OBVIOUS
  <2>2. /\ nest' = Append(nest, c) /\ c.kind = "match" /\ handlers' = handlers + 1
        /\ handlers < MatchNestDepth /\ mode' = "arm" /\ mode = "expression"
    BY <1>14, <2>1 DEF BeginMatch
  <2>3. Fits(K(nest, Len(nest)), c.kind)
    BY <1>g, <2>2 DEF Fits
  <2>4. /\ IsNest(nest') /\ Len(nest') = Len(nest) + 1 /\ Nesting(nest')
        /\ K(nest', Len(nest) + 1) = c.kind
        /\ Matches(nest') = Matches(nest) \cup
                               (IF c.kind = "match" THEN {Len(nest) + 1} ELSE {})
    BY <2>2, <2>3, PushNest DEF NestInv
  <2>5. handlers + 1 >= Cardinality(Matches(nest'))
    <3>1. Matches(nest') = Matches(nest) \cup {Len(nest) + 1}
      BY <2>2, <2>4
    <3>2. IsFiniteSet(Matches(nest)) /\ Len(nest) + 1 \notin Matches(nest)
      BY MatchesAreFew DEF NestInv
    <3>3. Cardinality(Matches(nest) \cup {Len(nest) + 1}) = Cardinality(Matches(nest)) + 1
      BY <3>2, FS_AddElement
    <3>4. /\ handlers >= Cardinality(Matches(nest)) /\ handlers \in Int
          /\ Cardinality(Matches(nest)) \in Nat
      BY MatchesAreFew DEF NestInv
    <3> QED BY <3>1, <3>3, <3>4
  <2>6. handlers + 1 \in 0 .. MatchNestDepth
    BY <2>2, BoundsAssumption DEF NestInv
  <2> QED BY <2>2, <2>4, <2>5, <2>6 DEF NestInv, ModeFits
<1>15. ASSUME BeginBoundArm PROVE NestInv'
  <2>1. PICK c : c = [kind |-> "bound arm", id |-> Fresh]
    OBVIOUS
  <2>2. /\ nest' = Append(nest, c) /\ c.kind = "bound arm" /\ handlers' = handlers
        /\ mode' = "statement" /\ mode = "arm"
    BY <1>15, <2>1 DEF BeginBoundArm
  <2> QED BY <1>g, <2>2, NestGrows DEF Fits, ModeFits, Bodies, Arms
<1>16. ASSUME EndMatch PROVE NestInv'
  <2>1. /\ IsIn("arm") \/ IsIn("bound arm")
        /\ handlers' = handlers - 1 /\ nest' = SubSeq(nest, 1, Len(nest) - 2)
        /\ mode' = "value"
    BY <1>16 DEF EndMatch
  <2> DEFINE n == Len(nest)
  <2>2. /\ n \in Nat \ {0} /\ K(nest, n) \in Arms /\ K(nest, n - 1) = "match"
    <3>1. PICK kind \in Arms : IsIn(kind)
      BY <2>1 DEF Arms
    <3>2. n \in Nat \ {0} /\ K(nest, n) = kind /\ Fits(K(nest, n - 1), kind)
      BY <3>1, Innermost
    <3> QED BY <3>1, <3>2 DEF Fits, Arms
  <2>3. n - 1 # 0
    BY <2>2 DEF K
  <2>4. n - 2 \in 0 .. n /\ n - 1 \in 1 .. n /\ n - 1 - 1 = n - 2
    <3> HIDE DEF n
    <3> QED BY <2>2, <2>3
  <2>5. Fits(K(nest, n - 2), "match")
    BY <2>2, <2>4 DEF NestInv, Nesting
  <2>6. /\ IsNest(nest') /\ Len(nest') = n - 2 /\ Nesting(nest')
        /\ K(nest', n - 2) = K(nest, n - 2)
        /\ Matches(nest') = {i \in Matches(nest) : i <= n - 2}
    <3> HIDE DEF n
    <3>1. n - 2 \in 0 .. Len(nest) /\ n - 2 \in 0 .. n - 2
      BY <2>4 DEF n
    <3>2. nest' = SubSeq(nest, 1, n - 2)
      BY <2>1 DEF n
    <3>3. IsNest(nest) /\ Nesting(nest)
      BY DEF NestInv
    <3> QED BY <3>1, <3>2, <3>3, CutNest
  <2>7. n - 1 \in Matches(nest)
    BY <2>2, <2>4 DEF Matches
  <2>8. \A i \in Matches(nest) : i <= n - 2 <=> i # n - 1
    <3> SUFFICES ASSUME NEW i \in Matches(nest) PROVE i <= n - 2 <=> i # n - 1
      OBVIOUS
    <3>1. i \in 1 .. n /\ K(nest, i) = "match"
      BY DEF Matches
    <3>2. i # n
      BY <2>2, <3>1 DEF Arms
    <3> QED BY <2>2, <3>1, <3>2
  <2>9. Matches(nest') = Matches(nest) \ {n - 1}
    BY <2>6, <2>8
  <2>10. handlers - 1 >= Cardinality(Matches(nest')) /\ handlers - 1 \in Nat
    <3>1. /\ IsFiniteSet(Matches(nest)) /\ Cardinality(Matches(nest)) \in Nat
          /\ handlers \in Int /\ handlers >= Cardinality(Matches(nest))
      BY MatchesAreFew DEF NestInv
    <3> HIDE DEF n
    <3>2. IsFiniteSet(Matches(nest) \ {n - 1})
      BY <3>1, FS_Subset
    <3>3. Cardinality(Matches(nest) \ {n - 1}) \in Nat
      BY <3>2, FS_CardinalityType
    <3>4. Cardinality(Matches(nest) \ {n - 1}) = Cardinality(Matches(nest)) - 1
      BY <2>7, <3>1, FS_RemoveElement
    <3> QED BY <2>9, <3>1, <3>3, <3>4
  <2>11. ModeFits(K(nest, n - 2), "value")
    BY <2>5 DEF Fits, ModeFits, Arms
  <2>12. handlers - 1 \in 0 .. MatchNestDepth
    BY <2>10, BoundsAssumption DEF NestInv
  <2> QED BY <2>1, <2>6, <2>10, <2>11, <2>12 DEF NestInv
<1>17. ASSUME NEW bare \in BOOLEAN, BeginArm(bare) PROVE NestInv'
  <2>1. PICK c : c = [kind |-> "arm"]
    OBVIOUS
  <2>2. /\ nest' = Append(nest, c) /\ c.kind = "arm" /\ handlers' = handlers
        /\ mode' = (IF bare THEN "expression" ELSE "statement") /\ mode = "arm"
        /\ bare => "bare" \in Idioms
    BY <1>17, <2>1 DEF BeginArm
  <2>3. ModeFits("arm", mode')
    BY <2>2 DEF ModeFits, Bodies, Contexts
  <2> QED BY <1>g, <2>2, <2>3, NestGrows DEF Fits, ModeFits, Arms
<1>18. ASSUME BeginGive PROVE NestInv'
  <2>1. PICK c : c = [kind |-> "give"]
    OBVIOUS
  <2>2. /\ nest' = Append(nest, c) /\ c.kind = "give" /\ handlers' = handlers
        /\ mode' = "expression" /\ mode = "statement"
    BY <1>18, <2>1 DEF BeginGive
  <2> QED BY <1>g, <2>2, NestGrows DEF Fits, ModeFits, Contexts
<1>19. ASSUME EndGive PROVE NestInv'
  BY <1>19, NestPops DEF EndGive
<1> QED
  BY <1>0, <1>1, <1>2, <1>3, <1>4, <1>5, <1>6, <1>7, <1>8, <1>9, <1>10, <1>11,
     <1>12, <1>13, <1>14, <1>15, <1>16, <1>17, <1>18, <1>19 DEF Next

\* The parser's nesting, in every state.
LEMMA NestInvAlways ==
    ASSUME "exit" \notin Idioms
    PROVE  Spec => []NestInv
<1>1. NestInv /\ [Next]_vars => NestInv'
  BY NestInvNext
<1> QED BY NestInvInit, <1>1, PTL DEF Spec

-----------------------------------------------------------------------------
(***************************************************************************)
(* What the compiler knows of the locals and of the stack at each level of *)
(* the nest (level 0 is the body of the function): D[i], the scope depth   *)
(* in the i-th construct; B[i], the locals there were when it was opened,  *)
(* so that it owns those from B[i]+1 to B[i+1]; O[i], the values on the    *)
(* stack beside one for each local.                                        *)
(***************************************************************************)
Scoping == {"block", "loop", "bound arm"}

Deepens(kind) == IF kind \in Scoping THEN 1 ELSE 0

Gains(kind) == IF kind \in {"operand", "match"} THEN 1
               ELSE IF kind \in {"let", "bound arm"} THEN -1 ELSE 0

Owners == {"root", "block", "loop", "let", "bound arm"}
Binders == {"let", "bound arm"}
Plain == {"block", "loop"}
Hosts == {"root", "block"}

\* The levels' numbers, for a nest ns and locals ls.
Numbered(ns, ls, D, B, O) ==
    /\ D \in [Nat -> Nat] /\ B \in [Nat -> Nat] /\ O \in [Nat -> Int]
    /\ D[0] = 1 /\ B[0] = 0 /\ O[0] = 0
    /\ B[Len(ns) + 1] = Len(ls)
    /\ \A j \in 1 .. Len(ns) : /\ D[j] = D[j-1] + Deepens(K(ns, j))
                               /\ O[j] = O[j-1] + Gains(K(ns, j))
    /\ \A i, j \in 0 .. Len(ns) : i <= j => D[i] <= D[j]
    /\ \A i, j \in 0 .. Len(ns) + 1 : i <= j => B[i] <= B[j]

\* The depths of the locals; the uninitialized ones belong to declarations.
Deep(ns, ls, D, B) ==
    /\ \A i \in 0 .. Len(ns), q \in 1 .. Len(ls) :
          /\ q <= B[i+1] => ls[q].depth <= D[i]
          /\ q > B[i] /\ ls[q].depth # NoDepth => ls[q].depth >= D[i]
    /\ \A q \in 1 .. Len(ls) : ls[q].depth = NoDepth =>
          \E j \in 1 .. Len(ns) : K(ns, j) = "let" /\ q = B[j+1]

\* What a level owns, and what it adds to the stack.
Owns(ns, ls, D, B, O, i) ==
    /\ K(ns, i) \notin Owners => B[i+1] = B[i]
    /\ K(ns, i) \in Binders =>
          /\ B[i+1] = B[i] + 1
          /\ ls[B[i] + 1].id = ns[i].id
          /\ ~ls[B[i] + 1].captured
    /\ K(ns, i) = "let" => /\ ls[B[i] + 1].depth = NoDepth
                           /\ O[i] = -1
                           /\ K(ns, i-1) \in Hosts
                           /\ i > 1 => K(ns, i-1) = "block"
    /\ K(ns, i) # "let" => O[i] >= 0
    /\ B[i+1] > B[i] => O[i] <= 0
    /\ K(ns, i) = "loop" => ns[i].depth = D[i]

\* In a block or a loop the captured locals are the last ones, and none is
\* captured while a variable is being declared.
LastCaptured(ns, ls, B, i) ==
    /\ K(ns, i) \in Plain =>
          \A q, r \in 1 .. Len(ls) :
             B[i] < q /\ q < r /\ r <= B[i+1] /\ ls[q].captured => ls[r].captured
    /\ K(ns, i) = "let" /\ i > 1 =>
          \A q \in 1 .. Len(ls) : B[i-1] < q /\ q <= B[i] => ~ls[q].captured

\* From the arm a to level i there are only blocks and loops, without locals.
Bare(ns, ls, B, O, a, i) ==
    /\ K(ns, a) \in Arms
    /\ \A j \in a+1 .. i : K(ns, j) \in Plain
    /\ B[i+1] = B[a+1] /\ O[i] = O[a]

Leveled(ns, ls, D, B, O) ==
    /\ Numbered(ns, ls, D, B, O)
    /\ Deep(ns, ls, D, B)
    /\ \A i \in 0 .. Len(ns) : Owns(ns, ls, D, B, O, i)
    /\ \A i \in 0 .. Len(ns) : LastCaptured(ns, ls, B, i)
    /\ \A g \in 1 .. Len(ns) : K(ns, g) = "give" =>
          \E a \in 1 .. g-1 : Bare(ns, ls, B, O, a, g-1)

\* Locals with the types the proofs need.
AreLocals(ls) ==
    /\ Len(ls) \in Nat
    /\ \A q \in 1 .. Len(ls) : ls[q].depth \in Nat /\ ls[q].captured \in BOOLEAN

\* A declaration owns its local and binds a name.
LEMMA LetFacts ==
    "let" \in Binders /\ "let" \in Owners /\ "let" \notin Plain /\ "let" \notin Hosts
BY DEF Binders, Owners, Plain, Hosts

\* The body of the function owns locals and hosts declarations.
LEMMA RootFacts ==
    /\ "root" \in Hosts /\ "root" \in Owners /\ "root" \notin Plain /\ "root" \notin Binders
    /\ "root" # "let" /\ "root" # "loop"
BY DEF Binders, Owners, Plain, Hosts

\* What hosts a declaration binds nothing itself.
LEMMA HostFacts ==
    \A x \in Hosts : x # "let" /\ x # "loop" /\ x \notin Binders /\ x \in Owners
BY DEF Binders, Owners, Plain, Hosts

\* Levels that agree in what they own.
LEMMA OwnsSame ==
    ASSUME NEW ns, NEW t, NEW ls, NEW us, NEW D, NEW E, NEW B, NEW A, NEW O, NEW P, NEW i \in Nat,
           Owns(ns, ls, D, B, O, i),
           K(t, i) = K(ns, i), A[i] = B[i], A[i+1] = B[i+1], E[i] = D[i], P[i] = O[i],
           i # 0 => t[i] = ns[i] /\ K(t, i-1) = K(ns, i-1),
           B[i+1] = B[i] + 1 => us[B[i] + 1] = ls[B[i] + 1]
    PROVE  Owns(t, us, E, A, P, i)
<1>1. i = 0 => K(t, i) = "root"
  BY DEF K
<1>2. CASE i = 0
  BY <1>1, <1>2, RootFacts DEF Owns
<1>3. CASE i # 0
  <2>1. t[i] = ns[i] /\ K(t, i-1) = K(ns, i-1)
    BY <1>3
  <2>2. K(t, i) \in Binders \/ K(t, i) = "let" => us[A[i] + 1] = ls[B[i] + 1]
    BY LetFacts DEF Owns
  <2> QED BY <2>1, <2>2, LetFacts DEF Owns
<1> QED BY <1>2, <1>3

\* The first k levels, with what they own.
LEMMA CutLevels ==
    ASSUME NEW ns, NEW t, NEW ls, NEW us, NEW D, NEW B, NEW O,
           Leveled(ns, ls, D, B, O), Len(ns) \in Nat, AreLocals(ls),
           NEW k \in 0 .. Len(ns),
           Len(t) = k, \A i \in 1 .. k : t[i] = ns[i],
           Len(us) = B[k+1], \A q \in 1 .. B[k+1] : us[q] = ls[q]
    PROVE  Leveled(t, us, D, B, O)
<1>l. PICK n : n = Len(ns)
  OBVIOUS
<1>0. k \in Nat /\ n \in Nat /\ k <= n /\ k + 1 \in 0 .. n + 1
  BY <1>l
<1>k. \A i \in 0 .. k : K(t, i) = K(ns, i)
  BY <1>0 DEF K
<1>n. /\ D \in [Nat -> Nat] /\ B \in [Nat -> Nat] /\ O \in [Nat -> Int]
      /\ D[0] = 1 /\ B[0] = 0 /\ O[0] = 0
      /\ B[n + 1] = Len(ls)
  BY <1>l DEF Leveled, Numbered
<1>j. \A j \in 1 .. n : D[j] = D[j-1] + Deepens(K(ns, j)) /\ O[j] = O[j-1] + Gains(K(ns, j))
  BY <1>l DEF Leveled, Numbered
<1>d. \A i, j \in 0 .. n : i <= j => D[i] <= D[j]
  BY <1>l DEF Leveled, Numbered
<1>m. \A i, j \in 0 .. n + 1 : i <= j => B[i] <= B[j]
  BY <1>l DEF Leveled, Numbered
<1>b. B[k+1] \in Nat /\ B[k+1] <= Len(ls) /\ Len(ls) \in Nat
  <2>1. n + 1 \in 0 .. n + 1 /\ k + 1 <= n + 1 /\ k + 1 \in Nat
    BY <1>0
  <2>2. B[k+1] <= B[n+1]
    BY <1>0, <1>m, <2>1
  <2> QED BY <1>n, <2>1, <2>2 DEF AreLocals
<1>q. \A q \in 1 .. Len(us) : q \in 1 .. Len(ls) /\ us[q] = ls[q]
  BY <1>b
<1>1. Numbered(t, us, D, B, O)
  <2>1. \A j \in 1 .. k : D[j] = D[j-1] + Deepens(K(t, j)) /\ O[j] = O[j-1] + Gains(K(t, j))
    <3>1. \A j \in 1 .. k : j \in 1 .. n /\ j \in 0 .. k
      BY <1>0
    <3> QED BY <1>j, <1>k, <3>1
  <2>2. \A i, j \in 0 .. k : i <= j => D[i] <= D[j]
    <3>1. \A j \in 0 .. k : j \in 0 .. n
      BY <1>0
    <3> QED BY <1>d, <3>1
  <2>3. \A i, j \in 0 .. k + 1 : i <= j => B[i] <= B[j]
    <3>1. \A j \in 0 .. k + 1 : j \in 0 .. n + 1
      BY <1>0
    <3> QED BY <1>m, <3>1
  <2> QED BY <1>n, <2>1, <2>2, <2>3 DEF Numbered
<1>2. Deep(t, us, D, B)
  <2>1. /\ \A i \in 0 .. n, q \in 1 .. Len(ls) :
             /\ q <= B[i+1] => ls[q].depth <= D[i]
             /\ q > B[i] /\ ls[q].depth # NoDepth => ls[q].depth >= D[i]
        /\ \A q \in 1 .. Len(ls) : ls[q].depth = NoDepth =>
              \E j \in 1 .. n : K(ns, j) = "let" /\ q = B[j+1]
    BY <1>l DEF Leveled, Deep
  <2>2. \A i \in 0 .. k, q \in 1 .. Len(us) :
             /\ q <= B[i+1] => us[q].depth <= D[i]
             /\ q > B[i] /\ us[q].depth # NoDepth => us[q].depth >= D[i]
    <3>1. \A i \in 0 .. k : i \in 0 .. n
      BY <1>0
    <3> QED BY <1>q, <2>1, <3>1
  <2>3. ASSUME NEW q \in 1 .. Len(us), us[q].depth = NoDepth
        PROVE  \E j \in 1 .. k : K(t, j) = "let" /\ q = B[j+1]
    <3>1. PICK j \in 1 .. n : K(ns, j) = "let" /\ q = B[j+1]
      BY <1>q, <2>1, <2>3
    <3>2. Owns(ns, ls, D, B, O, j)
      BY <1>l, <3>1 DEF Leveled
    <3>3. B[j+1] = B[j] + 1 /\ j \in Nat /\ j + 1 \in 0 .. n + 1 /\ B[j] \in Nat
      BY <1>0, <1>n, <3>1, <3>2, LetFacts DEF Owns
    <3>4. j <= k
      <4> SUFFICES ASSUME k + 1 <= j PROVE FALSE
        BY <1>0, <3>3
      <4>1. B[k+1] <= B[j]
        <5>1. j \in 0 .. n + 1
          BY <1>0, <3>1
        <5> QED BY <1>0, <1>m, <5>1
      <4> QED BY <1>b, <3>1, <3>3, <4>1
    <3> QED BY <1>0, <1>k, <3>1, <3>4
  <2> QED BY <2>2, <2>3 DEF Deep
<1>3. ASSUME NEW i \in 0 .. Len(t) PROVE Owns(t, us, D, B, O, i)
  <2>1. i \in 0 .. n /\ K(t, i) = K(ns, i) /\ Owns(ns, ls, D, B, O, i)
    BY <1>0, <1>l, <1>k DEF Leveled
  <2>2. B[i] \in Nat /\ B[i+1] <= B[k+1]
    <3>1. i + 1 \in 0 .. n + 1 /\ i + 1 <= k + 1 /\ i \in Nat
      BY <1>0
    <3> QED BY <1>0, <1>n, <1>m, <3>1
  <2>3. B[i+1] = B[i] + 1 => us[B[i] + 1] = ls[B[i] + 1]
    BY <1>b, <2>2
  <2>4. i # 0 => t[i] = ns[i] /\ K(t, i-1) = K(ns, i-1)
    BY <1>0, <1>k
  <2> QED BY <1>0, <2>1, <2>3, <2>4, OwnsSame
<1>4. ASSUME NEW i \in 0 .. Len(t) PROVE LastCaptured(t, us, B, i)
  <2>1. i \in 0 .. n /\ K(t, i) = K(ns, i) /\ LastCaptured(ns, ls, B, i)
    BY <1>0, <1>l, <1>k DEF Leveled
  <2> QED BY <1>q, <2>1 DEF LastCaptured
<1>5. ASSUME NEW g \in 1 .. Len(t), K(t, g) = "give"
      PROVE  \E a \in 1 .. g-1 : Bare(t, us, B, O, a, g-1)
  <2>1. g \in 1 .. n /\ K(ns, g) = "give"
    BY <1>0, <1>k, <1>5
  <2>2. PICK a \in 1 .. g-1 : Bare(ns, ls, B, O, a, g-1)
    BY <1>l, <2>1 DEF Leveled
  <2>3. \A j \in a .. g-1 : K(t, j) = K(ns, j)
    BY <1>0, <1>k
  <2>4. a \in a .. g-1 /\ \A j \in a+1 .. g-1 : j \in a .. g-1
    OBVIOUS
  <2> QED BY <2>2, <2>3, <2>4 DEF Bare
<1> QED BY <1>1, <1>2, <1>3, <1>4, <1>5 DEF Leveled

\* The numbers of the levels.
LEMMA LevelNumbers ==
    ASSUME NEW ns, NEW ls, NEW D, NEW B, NEW O,
           Leveled(ns, ls, D, B, O), Len(ns) \in Nat
    PROVE  \A i \in 0 .. Len(ns) :
              /\ D[i] \in Nat /\ B[i] \in Nat /\ B[i+1] \in Nat /\ O[i] \in Int
              /\ D[i] >= 1 /\ B[i] <= B[i+1] /\ B[i+1] <= Len(ls)
<1>l. PICK n : n = Len(ns)
  OBVIOUS
<1>1. /\ D \in [Nat -> Nat] /\ B \in [Nat -> Nat] /\ O \in [Nat -> Int]
      /\ D[0] = 1 /\ B[n + 1] = Len(ls)
  BY <1>l DEF Leveled, Numbered
<1>2. \A i, j \in 0 .. n : i <= j => D[i] <= D[j]
  BY <1>l DEF Leveled, Numbered
<1>3. \A i, j \in 0 .. n + 1 : i <= j => B[i] <= B[j]
  BY <1>l DEF Leveled, Numbered
<1>5. ASSUME NEW i \in 0 .. n
      PROVE  /\ D[i] \in Nat /\ B[i] \in Nat /\ B[i+1] \in Nat /\ O[i] \in Int
             /\ D[i] >= 1 /\ B[i] <= B[i+1] /\ B[i+1] <= Len(ls)
  <2>1. /\ i \in Nat /\ 0 \in 0 .. n /\ i + 1 \in 0 .. n + 1 /\ i \in 0 .. n + 1
        /\ n + 1 \in 0 .. n + 1 /\ 0 <= i /\ i <= i + 1 /\ i + 1 <= n + 1 /\ i + 1 \in Nat
    BY <1>l
  <2>2. D[0] <= D[i]
    BY <1>2, <2>1
  <2>3. B[i] <= B[i+1] /\ B[i+1] <= B[n+1]
    BY <1>3, <2>1
  <2>4. D[i] \in Nat
    BY <1>1, <2>1
  <2>5. B[i] \in Nat
    BY <1>1, <2>1
  <2>6. B[i+1] \in Nat
    BY <1>1, <2>1
  <2>7. O[i] \in Int
    BY <1>1, <2>1
  <2> QED BY <1>1, <2>2, <2>3, <2>4, <2>5, <2>6, <2>7
<1> QED BY <1>5, <1>l

\* A variable becomes initialized: it is the innermost level's parent's.
LEMMA EndLetLevels ==
    ASSUME NEW ns, NEW t, NEW ls, NEW us, NEW D, NEW B, NEW O, NEW n,
           Leveled(ns, ls, D, B, O), n = Len(ns), n \in Nat, n # 0, AreLocals(ls),
           K(ns, n) = "let",
           Len(t) = n - 1, \A i \in 1 .. n - 1 : t[i] = ns[i],
           Len(us) = Len(ls), \A q \in 1 .. Len(ls) - 1 : us[q] = ls[q],
           us[Len(ls)].depth = D[n]
    PROVE  Leveled(t, us, D, [B EXCEPT ![n] = Len(ls)], O)
<1> DEFINE A == [B EXCEPT ![n] = Len(ls)]
           m == Len(ls)
<1>0. /\ n - 1 \in Nat /\ n - 1 + 1 = n /\ n \in 1 .. n /\ n \in 0 .. n /\ n - 1 \in 0 .. n
      /\ n \in 0 .. n + 1 /\ n + 1 \in 0 .. n + 1
  OBVIOUS
<1>k. \A i \in 0 .. n - 1 : K(t, i) = K(ns, i)
  BY <1>0 DEF K
<1>n. /\ D \in [Nat -> Nat] /\ B \in [Nat -> Nat] /\ O \in [Nat -> Int]
      /\ D[0] = 1 /\ B[0] = 0 /\ O[0] = 0
      /\ B[n + 1] = Len(ls)
  BY DEF Leveled, Numbered
<1>j. \A j \in 1 .. n : D[j] = D[j-1] + Deepens(K(ns, j)) /\ O[j] = O[j-1] + Gains(K(ns, j))
  BY DEF Leveled, Numbered
<1>d. \A i, j \in 0 .. n : i <= j => D[i] <= D[j]
  BY DEF Leveled, Numbered
<1>m. \A i, j \in 0 .. n + 1 : i <= j => B[i] <= B[j]
  BY DEF Leveled, Numbered
<1>t. \A i \in 0 .. n : D[i] \in Nat /\ B[i] \in Nat /\ O[i] \in Int /\ D[i] >= 1
  BY LevelNumbers
<1>w. \A i \in 0 .. n : Owns(ns, ls, D, B, O, i) /\ LastCaptured(ns, ls, B, i)
  BY DEF Leveled
<1>o. /\ B[n] + 1 = m /\ ~ls[m].captured /\ O[n-1] = 0 /\ D[n-1] = D[n]
      /\ K(ns, n-1) \in Hosts /\ m \in Nat /\ m # 0 /\ D[n] >= 1
  <2>1. /\ B[n+1] = B[n] + 1 /\ ~ls[B[n] + 1].captured /\ O[n] = -1
        /\ K(ns, n-1) \in Hosts
    BY <1>0, <1>w, LetFacts DEF Owns
  <2>2. /\ B[n] \in Nat /\ D[n] \in Nat /\ D[n-1] \in Nat /\ O[n-1] \in Int
        /\ D[n] >= 1
    BY <1>0, <1>t
  <2>3. D[n] = D[n-1] + Deepens("let") /\ O[n] = O[n-1] + Gains("let")
    BY <1>0, <1>j
  <2>4. Deepens("let") = 0 /\ Gains("let") = -1
    BY DEF Deepens, Gains, Scoping
  <2>5. D[n-1] = D[n] /\ O[n-1] = 0
    BY <2>1, <2>2, <2>3, <2>4
  <2> QED BY <1>n, <2>1, <2>2, <2>5
<1>a. /\ A \in [Nat -> Nat] /\ A[n] = m /\ \A i \in Nat : i # n => A[i] = B[i]
  BY <1>n, <1>o
<1> HIDE DEF A, m
<1>b. \A i \in 0 .. n - 1 : A[i] = B[i] /\ B[i] <= B[n] /\ B[i] < m /\ B[i] \in Nat
  <2> SUFFICES ASSUME NEW i \in 0 .. n - 1
               PROVE  A[i] = B[i] /\ B[i] <= B[n] /\ B[i] < m /\ B[i] \in Nat
    OBVIOUS
  <2>1. i \in 0 .. n + 1 /\ i # n /\ i \in Nat /\ i <= n
    BY <1>0
  <2>2. B[i] <= B[n]
    BY <1>0, <1>m, <2>1
  <2>3. B[i] \in Nat /\ B[n] \in Nat
    BY <1>0, <1>t
  <2>4. A[i] = B[i]
    BY <1>a, <2>1
  <2> QED BY <1>o, <2>2, <2>3, <2>4
<1>q. \A q \in 1 .. m : q # m => us[q] = ls[q]
  BY <1>o DEF m
<1>1. Numbered(t, us, D, A, O)
  <2>1. \A j \in 1 .. n - 1 : D[j] = D[j-1] + Deepens(K(t, j)) /\ O[j] = O[j-1] + Gains(K(t, j))
    <3>1. \A j \in 1 .. n - 1 : j \in 1 .. n /\ j \in 0 .. n - 1
      BY <1>0
    <3> QED BY <1>j, <1>k, <3>1
  <2>2. \A i, j \in 0 .. n - 1 : i <= j => D[i] <= D[j]
    <3>1. \A j \in 0 .. n - 1 : j \in 0 .. n
      BY <1>0
    <3> QED BY <1>d, <3>1
  <2>3. \A i, j \in 0 .. n : i <= j => A[i] <= A[j]
    <3> SUFFICES ASSUME NEW i \in 0 .. n, NEW j \in 0 .. n, i <= j PROVE A[i] <= A[j]
      OBVIOUS
    <3>1. CASE j = n
      <4>1. A[j] = m
        BY <1>a, <3>1
      <4>2. i # n => A[i] = B[i] /\ B[i] < m /\ B[i] \in Nat
        <5>1. i # n => i \in 0 .. n - 1
          BY <1>0
        <5> QED BY <1>b, <5>1
      <4>3. CASE i = n
        BY <1>o, <3>1, <4>1, <4>3
      <4>4. CASE i # n
        BY <1>o, <4>1, <4>2, <4>4
      <4> QED BY <4>3, <4>4
    <3>2. CASE j # n
      <4>1. j \in 0 .. n - 1 /\ i \in 0 .. n - 1 /\ i \in 0 .. n + 1 /\ j \in 0 .. n + 1
        BY <1>0, <3>2
      <4> QED BY <1>b, <1>m, <4>1
    <3> QED BY <3>1, <3>2
  <2>4. A[0] = 0 /\ A[n - 1 + 1] = Len(us)
    BY <1>0, <1>a, <1>n DEF m
  <2> QED BY <1>0, <1>n, <1>a, <2>1, <2>2, <2>3, <2>4 DEF Numbered
<1>2. Deep(t, us, D, A)
  <2>1. /\ \A i \in 0 .. n, q \in 1 .. m : q <= B[i+1] => ls[q].depth <= D[i]
        /\ \A i \in 0 .. n, q \in 1 .. m :
             q > B[i] /\ ls[q].depth # NoDepth => ls[q].depth >= D[i]
        /\ \A q \in 1 .. m : ls[q].depth = NoDepth =>
              \E j \in 1 .. n : K(ns, j) = "let" /\ q = B[j+1]
    BY DEF Leveled, Deep, m
  <2>2. ASSUME NEW i \in 0 .. n - 1, NEW q \in 1 .. m
        PROVE  /\ q <= A[i+1] => us[q].depth <= D[i]
               /\ q > A[i] /\ us[q].depth # NoDepth => us[q].depth >= D[i]
    <3>a. i \in 0 .. n /\ i \in Nat /\ i <= n - 1
      BY <1>0
    <3>b. D[i] \in Nat /\ D[n-1] \in Nat /\ D[i] <= D[n-1]
      BY <1>0, <1>d, <1>t, <3>a
    <3>0. i \in 0 .. n /\ i \in Nat /\ i <= n - 1 /\ D[i] \in Nat /\ D[n-1] \in Nat /\ D[i] <= D[n-1]
      BY <3>a, <3>b
    <3>1. CASE q = m
      <4>1. us[q].depth = D[n-1]
        BY <1>o, <3>1 DEF m
      <4>2. q <= A[i+1] => i = n - 1
        <5> SUFFICES ASSUME q <= A[i+1], i # n - 1 PROVE FALSE
          OBVIOUS
        <5>1. i + 1 \in 0 .. n - 1
          BY <3>0
        <5> QED BY <1>b, <3>1, <5>1
      <4> QED BY <3>0, <4>1, <4>2
    <3>2. CASE q # m
      <4>1. us[q] = ls[q] /\ A[i] = B[i]
        BY <1>b, <1>q, <3>2
      <4>2. q <= A[i+1] => q <= B[i+1]
        <5>1. CASE i = n - 1
          <6>1. i + 1 = n /\ B[n] \in Nat
            BY <1>0, <1>t, <5>1
          <6> QED BY <1>o, <3>2, <6>1
        <5>2. CASE i # n - 1
          <6>1. i + 1 \in 0 .. n - 1
            BY <3>0, <5>2
          <6> QED BY <1>b, <6>1
        <5> QED BY <5>1, <5>2
      <4> QED BY <2>1, <3>0, <4>1, <4>2
    <3> QED BY <3>1, <3>2
  <2>3. ASSUME NEW q \in 1 .. m, us[q].depth = NoDepth
        PROVE  \E j \in 1 .. n - 1 : K(t, j) = "let" /\ q = A[j+1]
    <3>1. q # m
      BY <1>o, <2>3 DEF NoDepth, m
    <3>2. PICK j \in 1 .. n : K(ns, j) = "let" /\ q = B[j+1]
      BY <1>q, <2>1, <2>3, <3>1
    <3>3. j # n /\ j # n - 1
      BY <1>0, <1>n, <1>o, <3>1, <3>2, HostFacts DEF m
    <3>4. j \in 1 .. n - 1 /\ j + 1 \in 0 .. n - 1
      BY <3>3
    <3> QED BY <1>b, <1>k, <3>2, <3>4
  <2> QED BY <2>2, <2>3 DEF Deep, m
<1>i. \A i \in 0 .. n - 1 : i # n - 1 => i \in 0 .. n /\ i + 1 \in 0 .. n - 1 /\ i # n /\ i - 1 # n
  BY <1>0
<1>3. ASSUME NEW i \in 0 .. n - 1 PROVE Owns(t, us, D, A, O, i)
  <2>1. i \in 0 .. n /\ K(t, i) = K(ns, i) /\ Owns(ns, ls, D, B, O, i)
    <3>1. i \in 0 .. n
      OBVIOUS
    <3> QED BY <3>1, <1>k, <1>w
  <2>2. i # 0 => t[i] = ns[i] /\ K(t, i-1) = K(ns, i-1)
    BY <1>0, <1>k
  <2>3. CASE i = n - 1
    BY <1>0, <1>o, <2>1, <2>2, <2>3, HostFacts DEF Owns
  <2>4. CASE i # n - 1
    <3>1. A[i] = B[i] /\ A[i+1] = B[i+1] /\ B[i+1] < m /\ B[i] \in Nat
      BY <1>b, <1>i, <2>4
    <3>2. B[i+1] = B[i] + 1 => us[B[i] + 1] = ls[B[i] + 1]
      BY <1>q, <1>o, <3>1
    <3> QED BY SMTT(30), <1>0, <2>1, <2>2, <3>1, <3>2, OwnsSame
  <2> QED BY <2>3, <2>4
<1>4. ASSUME NEW i \in 0 .. n - 1 PROVE LastCaptured(t, us, A, i)
  <2>1. i \in 0 .. n /\ K(t, i) = K(ns, i) /\ LastCaptured(ns, ls, B, i)
    <3>1. i \in 0 .. n
      OBVIOUS
    <3> QED BY <3>1, <1>k, <1>w
  <2>2. CASE i = n - 1
    <3>1. LastCaptured(ns, ls, B, n)
      BY <1>0, <1>w
    <3>2. i > 0 => \A q \in 1 .. m : B[i] < q /\ q <= B[n] => ~ls[q].captured
      BY <1>0, <2>2, <3>1 DEF LastCaptured, m
    <3>3. K(t, i) \in Plain => i > 0
      BY <1>0, <2>2, RootFacts DEF K
    <3>4. K(t, i) # "let"
      BY <1>o, <2>1, <2>2, HostFacts
    <3>5. ASSUME i > 0, NEW q \in 1 .. m, NEW r \in 1 .. m, A[i] < q, q < r
          PROVE  ~us[q].captured
      <4>1. q # m /\ q <= B[n] /\ A[i] = B[i]
        <5>1. B[n] \in Nat
          BY <1>0, <1>t
        <5>2. A[i] = B[i]
          BY <1>b
        <5> QED BY <1>o, <3>5, <5>1, <5>2
      <4> QED BY <1>q, <3>2, <3>5, <4>1
    <3> QED BY <3>3, <3>4, <3>5 DEF LastCaptured, m
  <2>3. CASE i # n - 1
    <3>1. A[i] = B[i] /\ A[i+1] = B[i+1] /\ B[i+1] < m /\ B[i] < m
      BY <1>b, <1>i, <2>3
    <3>2. i > 1 => A[i-1] = B[i-1]
      BY <1>b
    <3>3. \A q \in 1 .. m : q <= B[i+1] \/ q <= B[i] => us[q] = ls[q]
      <4>1. B[i+1] \in Nat /\ B[i] \in Nat
        BY <1>b, <1>i, <2>3
      <4> QED BY <1>q, <1>o, <3>1, <4>1
    <3>4. B[i+1] \in Nat /\ m \in Nat /\ Len(us) = m /\ Len(ls) = m
      BY <1>n, <1>o, <1>b, <1>i, <2>3 DEF m
    <3> QED BY <2>1, <3>1, <3>2, <3>3, <3>4 DEF LastCaptured
  <2> QED BY <2>2, <2>3
<1>5. ASSUME NEW g \in 1 .. n - 1, K(t, g) = "give"
      PROVE  \E a \in 1 .. g-1 : Bare(t, us, A, O, a, g-1)
  <2>1. g \in 1 .. n /\ K(ns, g) = "give" /\ g \in 0 .. n - 1
    BY <1>0, <1>k, <1>5
  <2>2. PICK a \in 1 .. g-1 : Bare(ns, ls, B, O, a, g-1)
    BY <2>1 DEF Leveled
  <2>3. \A j \in a .. g-1 : K(t, j) = K(ns, j)
    BY <1>0, <1>k
  <2>4. a \in a .. g-1 /\ \A j \in a+1 .. g-1 : j \in a .. g-1
    OBVIOUS
  <2>5. A[g - 1 + 1] = B[g - 1 + 1] /\ A[a + 1] = B[a + 1]
    <3>1. a + 1 \in 0 .. n - 1 /\ g - 1 + 1 \in 0 .. n - 1
      OBVIOUS
    <3> QED BY <1>b, <3>1
  <2> QED BY <2>2, <2>3, <2>4, <2>5 DEF Bare
<1> QED BY <1>1, <1>2, <1>3, <1>4, <1>5 DEF Leveled, A, m

\* A numbering changed at one level.
LEMMA ExceptAt ==
    ASSUME NEW S, NEW f \in [Nat -> S], NEW k \in Nat, NEW v \in S
    PROVE  LET g == [f EXCEPT ![k] = v]
           IN  g \in [Nat -> S] /\ g[k] = v /\ \A i \in Nat : i # k => g[i] = f[i]
OBVIOUS

\* A construct c is opened, and declares the locals of us beyond those of ls.
Opens(ns, t, c, ls, us, D, B, O) ==
    LET n == Len(ns)
        m == Len(ls)
        w == Len(us)
        kind == c.kind
    IN  /\ Len(t) = n + 1
        /\ t[n+1] = c
        /\ \A i \in 1 .. n : t[i] = ns[i]
        /\ w \in Nat /\ m <= w
        /\ \A q \in 1 .. m : us[q] = ls[q]
        /\ \A q \in m+1 .. w :
              /\ us[q].depth = IF kind = "let" THEN NoDepth ELSE D[n] + Deepens(kind)
              /\ ~us[q].captured
        /\ kind \notin {"loop", "let", "bound arm"} => w = m
        /\ kind \in Binders => w = m + 1 /\ us[w].id = c.id
        /\ kind = "loop" => c.depth = D[n] + 1
        /\ kind = "let" => /\ O[n] = 0
                           /\ K(ns, n) \in Hosts
                           /\ n > 0 => K(ns, n) = "block"
                           /\ n > 0 => \A q \in 1 .. m : B[n] < q => ~ls[q].captured
        /\ kind # "let" => /\ O[n] + Gains(kind) >= 0
                           /\ w > m => O[n] + Gains(kind) <= 0
        /\ kind = "give" => \E a \in 1 .. n : Bare(ns, ls, B, O, a, n)

Sizes(ns, ls, us, n, m, w) ==
    n = Len(ns) /\ n \in Nat /\ m = Len(ls) /\ w = Len(us)

\* One more construct: the levels below keep their numbers.
LEMMA PushLevel ==
    ASSUME NEW ns, NEW t, NEW c, NEW ls, NEW us, NEW D, NEW B, NEW O, 
           NEW n, NEW m, NEW w, NEW kind, Sizes(ns, ls, us, n, m, w), kind = c.kind,
           Leveled(ns, ls, D, B, O), AreLocals(ls),
           Opens(ns, t, c, ls, us, D, B, O)
    PROVE  Leveled(t, us, [D EXCEPT ![n+1] = D[n] + Deepens(kind)],
                          [B EXCEPT ![n+2] = w],
                          [O EXCEPT ![n+1] = O[n] + Gains(kind)])
<1>l. n = Len(ns) /\ n \in Nat /\ m = Len(ls) /\ w = Len(us)
  BY DEF Sizes
<1>s. n \in Nat
  BY <1>l
<1>h. Len(t) = n + 1 /\ t[n+1] = c /\ \A i \in 1 .. n : t[i] = ns[i]
  BY <1>l DEF Opens
<1>u. w \in Nat /\ m <= w /\ m \in Nat /\ \A q \in 1 .. m : us[q] = ls[q]
  BY <1>l DEF Opens, AreLocals
<1>x. \A q \in m+1 .. w :
              /\ us[q].depth = IF kind = "let" THEN NoDepth ELSE D[n] + Deepens(kind)
              /\ ~us[q].captured
  BY <1>l DEF Opens
<1>y. /\ kind \notin {"loop", "let", "bound arm"} => w = m
      /\ kind \in Binders => w = m + 1 /\ us[w].id = c.id
      /\ kind = "loop" => c.depth = D[n] + 1
  BY <1>l DEF Opens
<1>z. kind = "let" => /\ O[n] = 0
                      /\ K(ns, n) \in Hosts
                      /\ n > 0 => K(ns, n) = "block"
                      /\ n > 0 => \A q \in 1 .. m : B[n] < q => ~ls[q].captured
  BY <1>l DEF Opens
<1>v. /\ kind # "let" => /\ O[n] + Gains(kind) >= 0
                         /\ w > m => O[n] + Gains(kind) <= 0
      /\ kind = "give" => \E a \in 1 .. n : Bare(ns, ls, B, O, a, n)
  BY <1>l DEF Opens
<1> DEFINE E == [D EXCEPT ![n+1] = D[n] + Deepens(kind)]
           A == [B EXCEPT ![n+2] = w]
           P == [O EXCEPT ![n+1] = O[n] + Gains(kind)]
<1>0. /\ n \in 0 .. n /\ n \in 0 .. n + 1 /\ n + 1 \in 0 .. n + 1 /\ n + 1 - 1 = n
      /\ n + 1 \in Nat /\ n + 2 \in Nat /\ n + 1 + 1 = n + 2 /\ n + 1 \notin 0 .. n
      /\ \A i \in 0 .. n : i \in Nat /\ i + 1 \in 0 .. n + 1 /\ i \in 0 .. n + 1
      /\ \A i \in 0 .. n + 1 : i # n + 1 => i \in 0 .. n
      /\ \A i \in 1 .. n : i \in 0 .. n /\ i - 1 \in 0 .. n /\ i # 0
      /\ \A i \in 1 .. n + 1 : i # n + 1 => i \in 1 .. n
  BY <1>s
<1>n. /\ D \in [Nat -> Nat] /\ B \in [Nat -> Nat] /\ O \in [Nat -> Int]
      /\ D[0] = 1 /\ B[0] = 0 /\ O[0] = 0
      /\ B[n + 1] = m
  BY <1>l DEF Leveled, Numbered
<1>j. \A j \in 1 .. n : D[j] = D[j-1] + Deepens(K(ns, j)) /\ O[j] = O[j-1] + Gains(K(ns, j))
  BY <1>l DEF Leveled, Numbered
<1>d. \A i, j \in 0 .. n : i <= j => D[i] <= D[j]
  BY <1>l DEF Leveled, Numbered
<1>m. \A i, j \in 0 .. n + 1 : i <= j => B[i] <= B[j]
  BY <1>l DEF Leveled, Numbered
<1>t. \A i \in 0 .. n : /\ D[i] \in Nat /\ B[i] \in Nat /\ B[i+1] \in Nat /\ O[i] \in Int
                        /\ D[i] >= 1 /\ B[i] <= B[i+1] /\ B[i+1] <= m
  BY <1>l, LevelNumbers
<1>w. \A i \in 0 .. n : Owns(ns, ls, D, B, O, i) /\ LastCaptured(ns, ls, B, i)
  BY <1>l DEF Leveled
<1>g. /\ Deepens(kind) \in {0, 1} /\ Gains(kind) \in {-1, 0, 1} /\ m \in Nat
      /\ D[n] + Deepens(kind) \in Nat /\ O[n] + Gains(kind) \in Int
  <2>1. Deepens(kind) \in {0, 1} /\ Gains(kind) \in {-1, 0, 1}
    BY DEF Deepens, Gains
  <2>2. D[n] \in Nat /\ O[n] \in Int
    BY <1>0, <1>t
  <2> QED BY <1>u, <2>1, <2>2
<1>e. /\ E \in [Nat -> Nat] /\ A \in [Nat -> Nat] /\ P \in [Nat -> Int]
      /\ E[n+1] = D[n] + Deepens(kind) /\ A[n+2] = w /\ P[n+1] = O[n] + Gains(kind)
      /\ \A i \in 0 .. n : E[i] = D[i] /\ P[i] = O[i]
      /\ \A i \in 0 .. n + 1 : A[i] = B[i]
  <2>1. /\ E \in [Nat -> Nat] /\ E[n+1] = D[n] + Deepens(kind)
        /\ \A i \in Nat : i # n + 1 => E[i] = D[i]
    BY <1>0, <1>n, <1>g, ExceptAt
  <2>2. /\ P \in [Nat -> Int] /\ P[n+1] = O[n] + Gains(kind)
        /\ \A i \in Nat : i # n + 1 => P[i] = O[i]
    BY <1>0, <1>n, <1>g, ExceptAt
  <2>3. /\ A \in [Nat -> Nat] /\ A[n+2] = w
        /\ \A i \in Nat : i # n + 2 => A[i] = B[i]
    BY <1>0, <1>n, <1>u, ExceptAt
  <2> HIDE DEF E, A, P
  <2>4. /\ \A i \in 0 .. n : i \in Nat /\ i # n + 1
        /\ \A i \in 0 .. n + 1 : i \in Nat /\ i # n + 2
    BY <1>s
  <2> QED BY <2>1, <2>2, <2>3, <2>4
<1> HIDE DEF E, A, P
<1>k. K(t, n+1) = kind /\ \A i \in 0 .. n : K(t, i) = K(ns, i)
  <2>1. n + 1 # 0 /\ K(t, n+1) = kind
    BY <1>0, <1>h DEF K
  <2>2. \A i \in 0 .. n : i # 0 => t[i] = ns[i]
    BY <1>h
  <2> QED BY <2>1, <2>2 DEF K
<1>i. ASSUME NEW i \in 0 .. n
      PROVE  /\ K(t, i) = K(ns, i) /\ A[i] = B[i] /\ A[i+1] = B[i+1] /\ E[i] = D[i] /\ P[i] = O[i]
             /\ i # 0 => t[i] = ns[i] /\ K(t, i-1) = K(ns, i-1) /\ A[i-1] = B[i-1]
  <2>1. i \in 0 .. n + 1 /\ i + 1 \in 0 .. n + 1
    BY <1>0
  <2>2. i # 0 => i \in 1 .. n /\ i - 1 \in 0 .. n /\ i - 1 \in 0 .. n + 1
    BY <1>0
  <2> QED BY <1>h, <1>e, <1>k, <2>1, <2>2
<1>t1. /\ K(t, n+1) = kind /\ t[n+1] = c /\ K(t, n+1-1) = K(ns, n)
       /\ A[n+1] = m /\ A[n+1+1] = w /\ A[n+1-1] = B[n]
       /\ P[n+1] = O[n] + Gains(kind) /\ E[n+1] = D[n] + Deepens(kind)
  BY <1>0, <1>h, <1>e, <1>k, <1>n
<1>1. Numbered(t, us, E, A, P)
  <2>1. \A j \in 1 .. n + 1 : E[j] = E[j-1] + Deepens(K(t, j)) /\ P[j] = P[j-1] + Gains(K(t, j))
    <3> SUFFICES ASSUME NEW j \in 1 .. n + 1
                 PROVE  E[j] = E[j-1] + Deepens(K(t, j)) /\ P[j] = P[j-1] + Gains(K(t, j))
      OBVIOUS
    <3>1. CASE j = n + 1
      <4>1. E[n+1-1] = D[n] /\ P[n+1-1] = O[n]
        BY <1>0, <1>e
      <4>2. /\ E[n+1] = E[n+1-1] + Deepens(K(t, n+1))
            /\ P[n+1] = P[n+1-1] + Gains(K(t, n+1))
        BY <1>t1, <4>1
      <4> QED BY <1>s, <3>1, <4>2
    <3>2. CASE j # n + 1
      <4>1. j \in 1 .. n /\ j \in 0 .. n /\ j - 1 \in 0 .. n
        BY <1>s, <3>2
      <4>2. D[j] = D[j-1] + Deepens(K(ns, j)) /\ O[j] = O[j-1] + Gains(K(ns, j))
        BY <1>j, <4>1
      <4>3. E[j] = D[j] /\ P[j] = O[j] /\ E[j-1] = D[j-1] /\ P[j-1] = O[j-1] /\ K(t, j) = K(ns, j)
        BY <1>e, <1>k, <4>1
      <4> QED BY <4>2, <4>3
    <3> QED BY <3>1, <3>2
  <2>2. \A i, j \in 0 .. n + 1 : i <= j => E[i] <= E[j]
    <3> SUFFICES ASSUME NEW i \in 0 .. n + 1, NEW j \in 0 .. n + 1, i <= j PROVE E[i] <= E[j]
      OBVIOUS
    <3>1. CASE j = n + 1
      <4>1. i # n + 1 => E[i] = D[i] /\ D[i] <= D[n] /\ D[i] \in Nat
        <5>1. i # n + 1 => i \in 0 .. n /\ i <= n
          BY <1>0
        <5>2. i # n + 1 => D[i] <= D[n]
          BY <1>0, <1>d, <5>1
        <5> QED BY <1>e, <1>t, <5>1, <5>2
      <4>2. D[n] \in Nat /\ E[j] = D[n] + Deepens(kind)
        BY <1>0, <1>t, <1>e, <3>1
      <4>3. CASE i = n + 1
        BY <1>g, <3>1, <4>2, <4>3
      <4>4. CASE i # n + 1
        BY <1>g, <4>1, <4>2, <4>4
      <4> QED BY <4>3, <4>4
    <3>2. CASE j # n + 1
      <4>1. i \in 0 .. n /\ j \in 0 .. n
        BY <1>0, <3>2
      <4> QED BY <1>d, <1>e, <4>1
    <3> QED BY <3>1, <3>2
  <2>3. \A i, j \in 0 .. n + 2 : i <= j => A[i] <= A[j]
    <3> SUFFICES ASSUME NEW i \in 0 .. n + 2, NEW j \in 0 .. n + 2, i <= j PROVE A[i] <= A[j]
      OBVIOUS
    <3>1. CASE j = n + 2
      <4>1. i # n + 2 => A[i] = B[i] /\ B[i] <= B[n+1] /\ B[i] \in Nat
        <5>1. i # n + 2 => i \in 0 .. n + 1 /\ i <= n + 1 /\ i \in Nat
          BY <1>0
        <5>2. i # n + 2 => B[i] <= B[n+1]
          BY <1>0, <1>m, <5>1
        <5>3. i # n + 2 => A[i] = B[i]
          BY <1>e, <5>1
        <5>4. i # n + 2 => B[i] \in Nat
          BY <1>n, <5>1
        <5> QED BY <5>2, <5>3, <5>4
      <4>2. A[j] = w /\ B[n+1] = m
        BY <1>e, <1>n, <3>1
      <4>3. CASE i = n + 2
        BY <1>u, <3>1, <4>2, <4>3
      <4>4. CASE i # n + 2
        BY <1>u, <4>1, <4>2, <4>4
      <4> QED BY <4>3, <4>4
    <3>2. CASE j # n + 2
      <4>1. i \in 0 .. n + 1 /\ j \in 0 .. n + 1
        BY <1>0, <3>2
      <4> QED BY <1>m, <1>e, <4>1
    <3> QED BY <3>1, <3>2
  <2>4. E[0] = 1 /\ A[0] = 0 /\ P[0] = 0 /\ A[n + 1 + 1] = Len(us)
    BY <1>0, <1>e, <1>l, <1>n
  <2> QED BY <1>0, <1>h, <1>e, <2>1, <2>2, <2>3, <2>4 DEF Numbered
<1>2. Deep(t, us, E, A)
  <2>1. /\ \A i \in 0 .. n, q \in 1 .. m : q <= B[i+1] => ls[q].depth <= D[i]
        /\ \A i \in 0 .. n, q \in 1 .. m :
             q > B[i] /\ ls[q].depth # NoDepth => ls[q].depth >= D[i]
        /\ \A q \in 1 .. m : ls[q].depth = NoDepth =>
              \E j \in 1 .. n : K(ns, j) = "let" /\ q = B[j+1]
    BY <1>l DEF Leveled, Deep
  <2>2. ASSUME NEW i \in 0 .. n + 1, NEW q \in 1 .. w
        PROVE  /\ q <= A[i+1] => us[q].depth <= E[i]
               /\ q > A[i] /\ us[q].depth # NoDepth => us[q].depth >= E[i]
    <3>1. CASE q \in m+1 .. w
      <4>1. us[q].depth = IF kind = "let" THEN NoDepth ELSE E[n+1]
        BY <1>e, <1>x, <3>1
      <4>2. E[i] <= E[n+1] /\ E[i] \in Nat /\ E[n+1] \in Nat
        <5>1. \A i1, j1 \in 0 .. n + 1 : i1 <= j1 => E[i1] <= E[j1]
          BY <1>1, <1>h DEF Numbered
        <5>2. i <= n + 1 /\ i \in Nat
          BY <1>0
        <5> QED BY <1>0, <1>e, <5>1, <5>2
      <4>3. q <= A[i+1] => i = n + 1
        <5> SUFFICES ASSUME q <= A[i+1], i # n + 1 PROVE FALSE
          OBVIOUS
        <5>1. A[i+1] = B[i+1] /\ B[i+1] <= m /\ B[i+1] \in Nat
          BY <1>0, <1>e, <1>t
        <5> QED BY <1>g, <1>u, <3>1, <5>1
      <4> QED BY <4>1, <4>2, <4>3 DEF NoDepth
    <3>2. CASE q \in 1 .. m
      <4>1. us[q] = ls[q] /\ ls[q].depth \in Nat
        BY <1>l, <1>u, <3>2 DEF AreLocals
      <4>2. CASE i = n + 1
        <5>1. q <= B[n+1] => ls[q].depth <= D[n]
          BY <1>0, <2>1, <3>2
        <5>2. E[i] = D[n] + Deepens(kind) /\ A[i] = m /\ D[n] \in Nat
          BY <1>0, <1>e, <1>n, <1>t, <4>2
        <5>3. q <= m /\ m = B[n+1]
          BY <1>n, <3>2
        <5> QED BY <1>g, <1>u, <3>2, <4>1, <5>1, <5>2, <5>3
      <4>3. CASE i # n + 1
        <5>1. i \in 0 .. n /\ A[i] = B[i] /\ A[i+1] = B[i+1] /\ E[i] = D[i]
          BY <1>0, <1>e, <4>3
        <5> QED BY <2>1, <3>2, <4>1, <5>1
      <4> QED BY <4>2, <4>3
    <3> QED BY <1>u, <3>1, <3>2
  <2>3. ASSUME NEW q \in 1 .. w, us[q].depth = NoDepth
        PROVE  \E j \in 1 .. n + 1 : K(t, j) = "let" /\ q = A[j+1]
    <3>1. CASE q \in m+1 .. w
      <4>1. kind = "let"
        <5>1. D[n] \in Nat /\ D[n] >= 1
          BY <1>0, <1>t
        <5> QED BY <1>g, <1>x, <2>3, <3>1, <5>1 DEF NoDepth
      <4>2. q = w
        BY <1>u, <1>y, <3>1, <4>1, LetFacts
      <4> QED BY <1>0, <1>e, <1>k, <4>1, <4>2
    <3>2. CASE q \in 1 .. m
      <4>1. PICK j \in 1 .. n : K(ns, j) = "let" /\ q = B[j+1]
        <5>1. ls[q].depth = NoDepth
          BY <1>u, <2>3, <3>2
        <5> QED BY <2>1, <3>2, <5>1
      <4>2. j \in 1 .. n + 1 /\ K(t, j) = "let" /\ A[j+1] = B[j+1]
        <5>1. j \in 0 .. n /\ j + 1 \in 0 .. n + 1 /\ j \in 1 .. n + 1
          BY <1>0
        <5> QED BY <1>e, <1>k, <4>1, <5>1
      <4> QED BY <4>1, <4>2
    <3> QED BY <1>u, <3>1, <3>2
  <2> QED BY <1>l, <1>h, <2>2, <2>3 DEF Deep
<1>3. ASSUME NEW i \in 0 .. n + 1 PROVE Owns(t, us, E, A, P, i)
  <2>1. CASE i = n + 1
    <3>2. kind = "let" => Gains(kind) = -1
      BY DEF Gains
    <3>3. kind = "loop" => Deepens(kind) = 1
      BY DEF Deepens, Scoping
    <3>4. kind \in Binders =>
             /\ w = m + 1 /\ us[m+1].id = c.id /\ ~us[m+1].captured
             /\ kind = "let" => us[m+1].depth = NoDepth
      <4> SUFFICES ASSUME kind \in Binders
                   PROVE  /\ w = m + 1 /\ us[m+1].id = c.id /\ ~us[m+1].captured
                          /\ kind = "let" => us[m+1].depth = NoDepth
        OBVIOUS
      <4>1. w = m + 1 /\ m + 1 \in m+1 .. w /\ us[m+1].id = c.id
        <5>1. w = m + 1 /\ us[w].id = c.id
          BY <1>y
        <5>2. m + 1 \in m+1 .. w
          BY <1>u, <5>1
        <5>3. us[m+1].id = c.id
          BY <5>1, Zenon
        <5> QED BY <5>1, <5>2, <5>3
      <4> QED BY <1>x, <4>1
    <3>5. /\ kind = "let" => /\ O[n] + Gains(kind) = -1 /\ K(ns, n) \in Hosts
                             /\ n > 0 => K(ns, n) = "block"
          /\ kind # "let" => O[n] + Gains(kind) >= 0
          /\ w > m => O[n] + Gains(kind) <= 0
      BY <1>z, <1>v, <3>2
    <3>6. Owns(t, us, E, A, P, n+1)
      <4>1. kind \notin {"loop", "let", "bound arm"} => w = m
        BY <1>y
      <4>2. K(t, n+1) \notin Owners => A[n+1+1] = A[n+1]
        BY <1>t1, <4>1 DEF Owners
      <4>3. K(t, n+1) \in Binders =>
               /\ A[n+1+1] = A[n+1] + 1 /\ us[A[n+1] + 1].id = t[n+1].id
               /\ ~us[A[n+1] + 1].captured
        BY <1>t1, <3>4
      <4>4. K(t, n+1) = "let" => /\ us[A[n+1] + 1].depth = NoDepth /\ P[n+1] = -1
                            /\ K(t, n+1-1) \in Hosts
        BY <1>s, <1>t1, <3>4, <3>5, LetFacts
      <4>7. K(t, n+1) = "let" => (n+1 > 1 => K(t, n+1-1) = "block")
        BY <1>s, <1>t1, <3>4, <3>5, LetFacts
      <4>5. /\ K(t, n+1) # "let" => P[n+1] >= 0
            /\ A[n+1+1] > A[n+1] => P[n+1] <= 0
        BY <1>t1, <3>5
      <4>6. K(t, n+1) = "loop" => t[n+1].depth = E[n+1]
        BY <1>t1, <1>y, <3>3
      <4> QED BY <4>2, <4>3, <4>4, <4>5, <4>6, <4>7, <1>s DEF Owns
    <3> QED BY <2>1, <3>6
  <2>2. CASE i # n + 1
    <3>0. i \in 0 .. n
      BY <1>0, <2>2
    <3>1. Owns(ns, ls, D, B, O, i)
      BY <1>w, <3>0
    <3>3. B[i+1] = B[i] + 1 => us[B[i] + 1] = ls[B[i] + 1]
      <4>1. B[i] \in Nat /\ B[i+1] <= m
        BY <1>t, <3>0
      <4> QED BY <1>u, <4>1
    <3> QED BY <1>i, <1>0, <3>0, <3>1, <3>3, OwnsSame
  <2> QED BY <2>1, <2>2
<1>4. ASSUME NEW i \in 0 .. n + 1 PROVE LastCaptured(t, us, A, i)
  <2>1. CASE i = n + 1
    <3>2. \A q \in 1 .. w : m < q => ~us[q].captured
      BY <1>u, <1>x
    <3>3. ASSUME kind = "let", n+1 > 1, NEW q \in 1 .. w, B[n] < q, q <= m
          PROVE  ~us[q].captured
      <4>1. n > 0 /\ q \in 1 .. m
        BY <1>0, <1>u, <3>3
      <4> QED BY <1>z, <1>u, <3>3, <4>1
    <3>4. \A q, r \in 1 .. w : A[n+1] < q /\ q < r /\ r <= A[n+1+1] /\ us[q].captured => us[r].captured
      BY <1>t1, <3>2
    <3>5. kind = "let" /\ n+1 > 1 =>
             \A q \in 1 .. w : A[n+1-1] < q /\ q <= A[n+1] => ~us[q].captured
      BY <1>t1, <3>3
    <3>6. LastCaptured(t, us, A, n+1)
      BY <1>l, <1>t1, <3>4, <3>5, <1>s DEF LastCaptured
    <3> QED BY <2>1, <3>6
  <2>2. CASE i # n + 1
    <3>0. i \in 0 .. n
      BY <1>0, <2>2
    <3>1. LastCaptured(ns, ls, B, i)
      BY <1>w, <3>0
    <3>2. B[i] \in Nat /\ B[i+1] \in Nat /\ B[i] <= B[i+1] /\ B[i+1] <= m
      BY <1>t, <3>0
    <3>3. \A q \in 1 .. w : q <= B[i+1] => q \in 1 .. m /\ us[q] = ls[q]
      BY <1>u, <3>2
    <3>4. i > 1 => i # 0
      BY <3>0
    <3>5. K(t, i) \in Plain =>
             \A q, r \in 1 .. w : A[i] < q /\ q < r /\ r <= A[i+1] /\ us[q].captured => us[r].captured
      <4> SUFFICES ASSUME K(t, i) \in Plain, NEW q \in 1 .. w, NEW r \in 1 .. w,
                          A[i] < q, q < r, r <= A[i+1], us[q].captured
                   PROVE  us[r].captured
        OBVIOUS
      <4>1. B[i] < q /\ r <= B[i+1] /\ q <= B[i+1]
        BY <1>i, <3>0, <3>2
      <4>2. q \in 1 .. Len(ls) /\ r \in 1 .. Len(ls) /\ us[q] = ls[q] /\ us[r] = ls[r]
        BY <1>l, <3>3, <4>1
      <4>3. K(ns, i) \in Plain
        BY <1>i, <3>0
      <4> QED BY <3>1, <4>1, <4>2, <4>3 DEF LastCaptured
    <3>6. K(t, i) = "let" /\ i > 1 =>
             \A q \in 1 .. w : A[i-1] < q /\ q <= A[i] => ~us[q].captured
      <4> SUFFICES ASSUME K(t, i) = "let", i > 1, NEW q \in 1 .. w, A[i-1] < q, q <= A[i]
                   PROVE  ~us[q].captured
        OBVIOUS
      <4>1. B[i-1] < q /\ q <= B[i] /\ q <= B[i+1] /\ K(ns, i) = "let"
        BY <1>i, <3>0, <3>2, <3>4
      <4>2. q \in 1 .. Len(ls) /\ us[q] = ls[q]
        BY <1>l, <3>3, <4>1
      <4> QED BY <3>1, <4>1, <4>2 DEF LastCaptured
    <3> QED BY <1>l, <1>h, <3>5, <3>6 DEF LastCaptured
  <2> QED BY <2>1, <2>2
<1>5. ASSUME NEW g \in 1 .. n + 1, K(t, g) = "give"
      PROVE  \E a \in 1 .. g-1 : Bare(t, us, A, P, a, g-1)
  <2>1. \E a \in 1 .. g-1 : Bare(ns, ls, B, O, a, g-1)
    <3>1. CASE g = n + 1
      <4>1. g - 1 = n /\ kind = "give"
        BY <1>0, <1>k, <1>5, <3>1
      <4> QED BY <1>v, <4>1
    <3>2. CASE g # n + 1
      <4>1. g \in 1 .. n /\ g \in 0 .. n
        BY <1>0, <3>2
      <4>2. K(ns, g) = "give"
        BY <1>k, <1>5, <4>1
      <4> QED BY <1>l, <4>1, <4>2 DEF Leveled
    <3> QED BY <3>1, <3>2
  <2>2. PICK a \in 1 .. g-1 : Bare(ns, ls, B, O, a, g-1)
    BY <2>1
  <2>3. \A j \in a .. g-1 : K(t, j) = K(ns, j) /\ A[j+1] = B[j+1] /\ P[j] = O[j]
    <3>1. \A j \in a .. g-1 : j \in 0 .. n
      BY <1>s
    <3> QED BY <1>i, <3>1
  <2>4. a \in a .. g-1 /\ g-1 \in a .. g-1 /\ \A j \in a+1 .. g-1 : j \in a .. g-1
    OBVIOUS
  <2> QED BY <2>2, <2>3, <2>4 DEF Bare
<1>6. /\ Numbered(t, us, E, A, P) /\ Deep(t, us, E, A)
      /\ \A i \in 0 .. Len(t) : Owns(t, us, E, A, P, i) /\ LastCaptured(t, us, A, i)
      /\ \A g \in 1 .. Len(t) : K(t, g) = "give" => \E a \in 1 .. g-1 : Bare(t, us, A, P, a, g-1)
  BY <1>1, <1>2, <1>3, <1>4, <1>5, <1>h
<1> QED BY <1>6 DEF Leveled, E, A, P

\* A closure captures the local at place c.
Captures(ns, ls, us, c) ==
    /\ c \in 1 .. Len(ls) /\ Len(us) = Len(ls)
    /\ \A q \in 1 .. Len(ls) : /\ us[q].depth = ls[q].depth /\ us[q].id = ls[q].id
                               /\ q # c => us[q].captured = ls[q].captured
    /\ us[c].captured
    /\ ls[c].depth # NoDepth
    /\ \A k \in 1 .. Len(ns) : K(ns, k) = "bound arm" => ns[k].id # ls[c].id
    /\ \/ ls[c].depth = 1
       \/ \A j \in c+1 .. Len(ls) :
             ls[j].depth = ls[c].depth \/ ls[j].depth = NoDepth => ls[j].captured

\* The capture of a local that Capture allows.
LEMMA CaptureLevels ==
    ASSUME NEW ns, NEW ls, NEW us, NEW D, NEW B, NEW O, NEW n, NEW m, NEW w, NEW c,
           Sizes(ns, ls, us, n, m, w), Leveled(ns, ls, D, B, O), AreLocals(ls),
           Captures(ns, ls, us, c)
    PROVE  Leveled(ns, us, D, B, O)
<1>l. n = Len(ns) /\ n \in Nat /\ m = Len(ls) /\ w = Len(us)
  BY DEF Sizes
<1>s. n \in Nat /\ m \in Nat /\ w = m /\ c \in 1 .. m /\ c \in Nat
  <2>1. n \in Nat /\ m \in Nat /\ w = m /\ c \in 1 .. m
    BY <1>l DEF AreLocals, Captures
  <2> QED BY <2>1
<1>u. \A q \in 1 .. m : us[q].depth = ls[q].depth /\ us[q].id = ls[q].id
  BY <1>l DEF Captures
<1>v. us[c].captured /\ \A q \in 1 .. m : q # c => us[q].captured = ls[q].captured
  BY <1>l DEF Captures
<1>x. ls[c].depth # NoDepth
  BY <1>l DEF Captures
<1>b. \A k \in 1 .. n : K(ns, k) = "bound arm" => ns[k].id # ls[c].id
  BY <1>l DEF Captures
<1>y. ls[c].depth = 1 \/ \A j \in 1 .. m :
          j > c /\ (ls[j].depth = ls[c].depth \/ ls[j].depth = NoDepth) => ls[j].captured
  <2>1. ls[c].depth = 1 \/ \A j \in c+1 .. m :
          (ls[j].depth = ls[c].depth \/ ls[j].depth = NoDepth) => ls[j].captured
    BY <1>l DEF Captures
  <2>2. \A j \in 1 .. m : j > c => j \in c+1 .. m
    BY <1>s
  <2> QED BY <2>1, <2>2
<1>n. B[n + 1] = m
  BY <1>l DEF Leveled, Numbered
<1>d. \A i \in 0 .. n : i # 0 => D[i] = D[i-1] + Deepens(K(ns, i))
  <2>1. \A j \in 1 .. n : D[j] = D[j-1] + Deepens(K(ns, j))
    BY <1>l DEF Leveled, Numbered
  <2> QED BY <1>s, <2>1
<1>t. \A i \in 0 .. n : /\ D[i] \in Nat /\ B[i] \in Nat /\ B[i+1] \in Nat /\ O[i] \in Int
                        /\ D[i] >= 1 /\ B[i] <= B[i+1] /\ B[i+1] <= m
  BY <1>l, LevelNumbers
<1>w. \A i \in 0 .. n : Owns(ns, ls, D, B, O, i) /\ LastCaptured(ns, ls, B, i)
  BY <1>l DEF Leveled
<1>e. /\ \A i \in 0 .. n, q \in 1 .. m : q <= B[i+1] => ls[q].depth <= D[i]
      /\ \A i \in 0 .. n, q \in 1 .. m :
           q > B[i] /\ ls[q].depth # NoDepth => ls[q].depth >= D[i]
      /\ \A q \in 1 .. m : ls[q].depth = NoDepth =>
            \E j \in 1 .. n : K(ns, j) = "let" /\ q = B[j+1]
  BY <1>l DEF Leveled, Deep
<1>p. \A q \in 1 .. m : ls[q].depth \in Nat
  BY <1>l DEF AreLocals
<1>1. Numbered(ns, us, D, B, O)
  BY <1>l, <1>s DEF Leveled, Numbered
<1>2. Deep(ns, us, D, B)
  BY <1>l, <1>s, <1>u, <1>e DEF Deep
\* a block's own locals are deep
<1>h. ASSUME NEW i \in 0 .. n, K(ns, i) \in Plain, i # 0
      PROVE  D[i] >= 2
  <2>1. D[i-1] \in Nat /\ D[i-1] >= 1
    BY <1>s, <1>t, <1>h
  <2>2. Deepens(K(ns, i)) = 1
    BY <1>h DEF Deepens, Scoping, Plain
  <2> QED BY <1>d, <1>h, <2>1, <2>2
<1>3. ASSUME NEW i \in 0 .. n PROVE Owns(ns, us, D, B, O, i)
  <2>0. i \in Nat /\ Owns(ns, ls, D, B, O, i)
    BY <1>w
  <2>1. K(ns, i) \in Binders => B[i] + 1 # c /\ B[i] + 1 \in 1 .. m
    <3> SUFFICES ASSUME K(ns, i) \in Binders PROVE B[i] + 1 # c /\ B[i] + 1 \in 1 .. m
      OBVIOUS
    <3>1. B[i+1] = B[i] + 1 /\ ls[B[i] + 1].id = ns[i].id
      BY <2>0 DEF Owns
    <3>2. i # 0 /\ i \in 1 .. n
      <4>1. i # 0
        BY RootFacts DEF K
      <4> QED BY <1>s, <4>1
    <3>3. K(ns, i) = "let" => ls[B[i] + 1].depth = NoDepth
      BY <2>0 DEF Owns
    <3>4. K(ns, i) = "let" \/ K(ns, i) = "bound arm"
      BY DEF Binders
    <3>5. B[i] + 1 # c
      BY <1>x, <1>b, <3>1, <3>2, <3>3, <3>4
    <3>6. B[i] \in Nat /\ B[i] + 1 <= m
      BY <1>t, <3>1
    <3>7. B[i] + 1 \in 1 .. m
      BY <1>s, <3>6
    <3> QED BY <3>5, <3>7
  <2>2. K(ns, i) \in Binders => /\ us[B[i] + 1].id = ls[B[i] + 1].id
                               /\ us[B[i] + 1].depth = ls[B[i] + 1].depth
                               /\ us[B[i] + 1].captured = ls[B[i] + 1].captured
    BY <1>u, <1>v, <2>1
  <2> QED BY <2>0, <2>2, LetFacts DEF Owns
<1>4. ASSUME NEW i \in 0 .. n PROVE LastCaptured(ns, us, B, i)
  <2>0. i \in Nat /\ LastCaptured(ns, ls, B, i) /\ B[i] \in Nat /\ B[i+1] \in Nat
    BY <1>t, <1>w
  <2>1. ASSUME K(ns, i) \in Plain, NEW q \in 1 .. m, NEW r \in 1 .. m,
               B[i] < q, q < r, r <= B[i+1], us[q].captured
        PROVE  us[r].captured
    <3>0. i # 0
      BY <2>1, RootFacts DEF K
    <3>1. CASE r = c
      BY <1>v, <3>1
    <3>2. CASE r # c /\ q # c
      <4>1. ls[q].captured
        BY <1>v, <2>1, <3>2
      <4>2. ls[r].captured
        BY <1>l, <2>0, <2>1, <4>1 DEF LastCaptured
      <4> QED BY <1>v, <3>2, <4>2
    <3>3. CASE r # c /\ q = c
      <4>1. D[i] >= 2 /\ D[i] \in Nat
        BY <1>h, <1>t, <2>1, <3>0
      <4>2. q <= B[i+1] /\ r > B[i]
        BY <2>0, <2>1
      <4>3. ls[q].depth <= D[i] /\ ls[q].depth >= D[i] /\ ls[q].depth \in Nat
        BY <1>e, <1>p, <1>x, <2>1, <3>3, <4>2
      <4>4. ls[r].depth <= D[i] /\ (ls[r].depth # NoDepth => ls[r].depth >= D[i]) /\ ls[r].depth \in Nat
        BY <1>e, <1>p, <2>1, <4>2
      <4>5. ls[r].depth = ls[c].depth \/ ls[r].depth = NoDepth
        BY <3>3, <4>1, <4>3, <4>4
      <4>6. ls[c].depth # 1
        BY <3>3, <4>1, <4>3
      <4>7. ls[r].captured
        BY <1>y, <2>1, <3>3, <4>5, <4>6
      <4> QED BY <1>v, <3>3, <4>7
    <3> QED BY <3>1, <3>2, <3>3
  <2>2. ASSUME K(ns, i) = "let", i > 1, NEW q \in 1 .. m, B[i-1] < q, q <= B[i]
        PROVE  ~us[q].captured
    <3>0. i - 1 \in 0 .. n /\ i - 1 # 0 /\ i - 1 + 1 = i
      BY <1>s, <2>0, <2>2
    <3>1. ~ls[q].captured
      BY <1>l, <2>0, <2>2 DEF LastCaptured
    <3>2. q # c
      <4> SUFFICES ASSUME q = c PROVE FALSE
        OBVIOUS
      <4>1. Owns(ns, ls, D, B, O, i)
        BY <1>w
      <4>2. /\ B[i+1] = B[i] + 1 /\ ls[B[i] + 1].depth = NoDepth /\ ~ls[B[i] + 1].captured
            /\ K(ns, i-1) = "block"
        BY <2>2, <4>1, LetFacts DEF Owns
      <4>3. K(ns, i-1) \in Plain
        BY <4>2 DEF Plain
      <4>4. D[i-1] >= 2 /\ D[i-1] \in Nat
        BY <1>h, <1>t, <3>0, <4>3
      <4>5. ls[c].depth >= D[i-1] /\ ls[c].depth \in Nat
        BY <1>e, <1>p, <1>x, <2>2, <3>0
      <4>6. B[i] + 1 \in 1 .. m /\ B[i] + 1 > c
        BY <1>s, <1>t, <2>0, <2>2, <4>2
      <4> QED BY <1>y, <4>2, <4>4, <4>5, <4>6
    <3> QED BY <1>v, <3>1, <3>2
  <2> QED BY <1>l, <1>s, <2>1, <2>2 DEF LastCaptured
<1>5. \A g \in 1 .. n : K(ns, g) = "give" => \E a \in 1 .. g-1 : Bare(ns, us, B, O, a, g-1)
  BY <1>l DEF Leveled, Bare
<1> QED BY <1>l, <1>1, <1>2, <1>3, <1>4, <1>5 DEF Leveled

-----------------------------------------------------------------------------
(***************************************************************************)
(* The code that removes locals.                                           *)
(***************************************************************************)
LEMMA KeptIs ==
    ASSUME NEW ls, AreLocals(ls), NEW depth \in Int, NEW p \in 0 .. Len(ls),
           \A q \in p+1 .. Len(ls) : ls[q].depth > depth,
           p > 0 => ls[p].depth <= depth
    PROVE  Kept(ls, depth) = p
<1> DEFINE P(x) == /\ \A i \in x+1 .. Len(ls) : ls[i].depth > depth
                   /\ x > 0 => ls[x].depth <= depth
<1>1. Len(ls) \in Nat /\ \A q \in 1 .. Len(ls) : ls[q].depth \in Nat
  BY DEF AreLocals
<1>2. \A x \in 0 .. Len(ls) : P(x) => x = p
  <2> SUFFICES ASSUME NEW x \in 0 .. Len(ls), P(x), x # p PROVE FALSE
    OBVIOUS
  <2>1. CASE x < p
    <3>1. p \in x+1 .. Len(ls) /\ p \in 1 .. Len(ls) /\ p > 0
      BY <1>1, <2>1
    <3>2. ls[p].depth > depth /\ ls[p].depth <= depth /\ ls[p].depth \in Nat
      BY <1>1, <3>1
    <3> QED BY <3>2
  <2>2. CASE p < x
    <3>1. x \in p+1 .. Len(ls) /\ x \in 1 .. Len(ls) /\ x > 0
      BY <1>1, <2>2
    <3>2. ls[x].depth > depth /\ ls[x].depth <= depth /\ ls[x].depth \in Nat
      BY <1>1, <3>1
    <3> QED BY <3>2
  <2> QED BY <1>1, <2>1, <2>2
<1>3. P(p)
  OBVIOUS
<1>4. Kept(ls, depth) = CHOOSE x \in 0 .. Len(ls) : P(x)
  BY DEF Kept
<1> HIDE DEF P
<1> QED BY <1>2, <1>3, <1>4

\* The code for the locals of ls above the p-th: one instruction for each,
\* from the top, which closes the captured ones.
Removes(code, ls, p) ==
    /\ Len(code) = Len(ls) - p /\ DOMAIN code = 1 .. Len(ls) - p
    /\ \A i \in 1 .. Len(ls) - p : code[i] = "close" <=> FromTop(ls, i).captured

\* emit_cleanup_for_jump: one pop or close for each local, none pending.
LEMMA JumpCode ==
    ASSUME NEW ls, AreLocals(ls), NEW depth, NEW p \in 0 .. Len(ls), Kept(ls, depth) = p
    PROVE  Removes(JumpCleanup(ls, depth), ls, p)
<1> DEFINE x == Len(ls) - p
           code == [i \in 1 .. x |-> IF FromTop(ls, i).captured THEN "close" ELSE "pop"]
<1>1. x \in Nat
  BY DEF AreLocals
<1>2. JumpCleanup(ls, depth) = code
  BY DEF JumpCleanup
<1>3. code \in [1 .. x -> {"close", "pop"}] /\ DOMAIN code = 1 .. x
  OBVIOUS
<1>4. \A i \in 1 .. x : code[i] = "close" <=> FromTop(ls, i).captured
  OBVIOUS
<1> HIDE DEF code
<1>5. Len(code) = x
  <2> HIDE DEF x
  <2> QED BY <1>1, <1>3, FunSeq
<1> QED BY <1>2, <1>3, <1>4, <1>5 DEF Removes

\* A run of pops.
LEMMA PopsAre ==
    ASSUME NEW n \in Nat
    PROVE  /\ Pops(n) \in Seq({"close", "pop"}) /\ Len(Pops(n)) = n
           /\ \A i \in 1 .. n : Pops(n)[i] = "pop"
<1>1. Pops(n) \in [1 .. n -> {"close", "pop"}] /\ \A i \in 1 .. n : Pops(n)[i] = "pop"
  BY DEF Pops
<1> QED BY <1>1, FunSeq

Closes(n) == [i \in 1 .. n |-> "close"]

\* The closes of n locals.
LEMMA ClosesAre ==
    ASSUME NEW n \in Nat
    PROVE  /\ Closes(n) \in Seq({"close", "pop"}) /\ Len(Closes(n)) = n
           /\ \A i \in 1 .. n : Closes(n)[i] = "close"
<1>1. Closes(n) \in [1 .. n -> {"close", "pop"}] /\ \A i \in 1 .. n : Closes(n)[i] = "close"
  BY DEF Closes
<1> QED BY <1>1, FunSeq

\* A close is appended while no pop is pending.
LEMMA OneMoreClose ==
    ASSUME NEW n \in Nat
    PROVE  Closes(n) \o Pops(0) \o <<"close">> = Closes(n + 1)
<1> DEFINE S == {"close", "pop"}
           a == Closes(n) \o Pops(0)
           b == a \o <<"close">>
<1>1. Closes(n) \in Seq(S) /\ Len(Closes(n)) = n /\ \A i \in 1 .. n : Closes(n)[i] = "close"
  BY ClosesAre
<1>2. Pops(0) \in Seq(S) /\ Len(Pops(0)) = 0
  BY PopsAre
<1>3. <<"close">> \in Seq(S) /\ Len(<<"close">>) = 1 /\ <<"close">>[1] = "close"
  OBVIOUS
<1>4. /\ a \in Seq(S) /\ Len(a) = n /\ \A i \in 1 .. n : a[i] = "close"
  <2>1. /\ a \in Seq(S) /\ Len(a) = Len(Closes(n)) + Len(Pops(0))
        /\ \A i \in 1 .. Len(Closes(n)) + Len(Pops(0)) :
              a[i] = IF i <= Len(Closes(n)) THEN Closes(n)[i] ELSE Pops(0)[i - Len(Closes(n))]
    BY <1>1, <1>2, ConcatProperties
  <2> HIDE DEF a
  <2> QED BY <1>1, <1>2, <2>1
<1> HIDE DEF a
<1>5. /\ b \in Seq(S) /\ Len(b) = n + 1 /\ \A i \in 1 .. n + 1 : b[i] = "close"
  <2> DEFINE w == <<"close">>
  <2>1. /\ b \in Seq(S) /\ Len(b) = Len(a) + Len(w)
        /\ \A i \in 1 .. Len(a) + Len(w) :
              b[i] = IF i <= Len(a) THEN a[i] ELSE w[i - Len(a)]
    BY <1>3, <1>4, ConcatProperties
  <2>2. Len(w) = 1 /\ w[1] = "close"
    BY <1>3
  <2> HIDE DEF b, w
  <2>3. Len(b) = n + 1
    BY <1>4, <2>1, <2>2
  <2>4. ASSUME NEW i \in 1 .. n + 1 PROVE b[i] = "close"
    <3>1. b[i] = IF i <= n THEN a[i] ELSE w[i - n]
      BY <1>4, <2>1, <2>2
    <3>2. CASE i <= n
      BY <1>4, <3>1, <3>2
    <3>3. CASE i = n + 1
      <4>1. b[i] = w[i - n] /\ i - n = 1
        BY <3>1, <3>3
      <4> QED BY <2>2, <4>1
    <3> QED BY <3>2, <3>3
  <2> QED BY <2>1, <2>3, <2>4
<1>6. n + 1 \in Nat
  OBVIOUS
<1>7. /\ Closes(n + 1) \in Seq(S) /\ Len(Closes(n + 1)) = n + 1
      /\ \A i \in 1 .. n + 1 : Closes(n + 1)[i] = "close"
  BY <1>6, ClosesAre
<1> HIDE DEF b
<1>8. b = Closes(n + 1)
  <2>1. \A i \in 1 .. Len(b) : b[i] = Closes(n + 1)[i]
    BY <1>5, <1>7
  <2>2. Len(b) = Len(Closes(n + 1))
    BY <1>5, <1>7
  <2> QED BY <1>5, <1>7, <2>1, <2>2, SeqEqual
<1> QED BY <1>8 DEF a, b

\* What has been emitted after the i topmost locals when the c topmost are the
\* captured ones: nothing is pending when one is closed, nothing popped twice.
Emitted(c, i) ==
    IF i <= c THEN [code |-> Closes(i), pending |-> 0]
    ELSE [code |-> Closes(c), pending |-> i - c]

EmitStep(ls, acc, i) ==
    IF FromTop(ls, i).captured
    THEN [acc EXCEPT !.code = @ \o Pops(acc.pending) \o <<"close">>]
    ELSE [acc EXCEPT !.pending = @ + 1]

\* The fields of what has been emitted.
LEMMA EmittedWith ==
    ASSUME NEW x, NEW y, NEW z
    PROVE  /\ [[code |-> x, pending |-> y] EXCEPT !.code = z] = [code |-> z, pending |-> y]
           /\ [[code |-> x, pending |-> y] EXCEPT !.pending = z] = [code |-> x, pending |-> z]
OBVIOUS

\* One more local of the scope.
LEMMA EmittedStep ==
    ASSUME NEW ls, NEW n \in Nat, NEW c \in 0 .. n, NEW i \in 1 .. n,
           \A j \in 1 .. n : FromTop(ls, j).captured <=> j <= c
    PROVE  EmitStep(ls, Emitted(c, i - 1), i) = Emitted(c, i)
<1>0. i - 1 \in Nat /\ c \in Nat /\ i \in Nat /\ i - 1 + 1 = i
  OBVIOUS
<1>1. CASE i <= c
  <2>1. FromTop(ls, i).captured /\ Emitted(c, i - 1) = [code |-> Closes(i - 1), pending |-> 0]
    BY <1>1, <1>0 DEF Emitted
  <2>2. Closes(i - 1) \o Pops(0) \o <<"close">> = Closes(i)
    BY <1>0, OneMoreClose
  <2>3. EmitStep(ls, Emitted(c, i - 1), i) =
           [code |-> Closes(i - 1) \o Pops(0) \o <<"close">>, pending |-> 0]
    <3> DEFINE x == Closes(i - 1)
               acc == [code |-> x, pending |-> 0]
               z == x \o Pops(0) \o <<"close">>
    <3>1. acc.code = x /\ acc.pending = 0
      OBVIOUS
    <3>2. EmitStep(ls, acc, i) = [acc EXCEPT !.code = acc.code \o Pops(acc.pending) \o <<"close">>]
      BY <2>1 DEF EmitStep
    <3>3. EmitStep(ls, acc, i) = [acc EXCEPT !.code = z]
      <4> HIDE DEF acc
      <4> QED BY <3>1, <3>2
    <3> HIDE DEF x, z
    <3>4. [acc EXCEPT !.code = z] = [code |-> z, pending |-> 0]
      BY EmittedWith
    <3> QED BY <2>1, <3>3, <3>4 DEF x, z
  <2> QED BY <1>1, <2>2, <2>3 DEF Emitted
<1>2. CASE i > c
  <2>1. ~FromTop(ls, i).captured
    BY <1>2, <1>0
  <2>2. Emitted(c, i - 1) = [code |-> Closes(c), pending |-> i - 1 - c]
    <3>1. CASE i - 1 = c
      BY <1>0, <3>1 DEF Emitted
    <3>2. CASE i - 1 # c
      BY <1>0, <1>2, <3>2 DEF Emitted
    <3> QED BY <3>1, <3>2
  <2>3. EmitStep(ls, Emitted(c, i - 1), i) = [code |-> Closes(c), pending |-> i - 1 - c + 1]
    BY <2>1, <2>2 DEF EmitStep
  <2>4. i - 1 - c + 1 = i - c
    BY <1>0
  <2> QED BY <1>0, <1>2, <2>3, <2>4 DEF Emitted
<1> QED BY <1>0, <1>1, <1>2

\* cleanupLocalsToDepth emits the pops once if the captured locals of the
\* scope are its last: the hypothesis on the idiom "capture".
LEMMA ScopeCode ==
    ASSUME NEW ls, AreLocals(ls), NEW depth, NEW p \in 0 .. Len(ls), Kept(ls, depth) = p,
           \A q, r \in 1 .. Len(ls) : p < q /\ q < r /\ ls[q].captured => ls[r].captured
    PROVE  Removes(ScopeCleanup(ls, depth), ls, p)
<1> DEFINE n == Len(ls) - p
           Body(f, i) == IF i = 0 THEN [code |-> <<>>, pending |-> 0]
                         ELSE EmitStep(ls, f[i - 1], i)
           f == CHOOSE f : f = [i \in 0 .. n |-> Body(f, i)]
<1>0. n \in Nat /\ Len(ls) \in Nat
  BY DEF AreLocals
<1>1. ScopeCleanup(ls, depth) = f[n].code \o Pops(f[n].pending)
  BY DEF ScopeCleanup, EmitStep
<1> HIDE DEF f
<1>2. \E c \in 0 .. n : \A j \in 1 .. n : FromTop(ls, j).captured <=> j <= c
  <2> DEFINE T == {j \in 0 .. n : j = n \/ ~FromTop(ls, j + 1).captured}
  <2>1. n \in T /\ T \in SUBSET Nat
    BY <1>0
  <2>2. PICK c \in T : \A j \in T : c <= j
    BY <2>1, LeastNat, Zenon
  <2>3. c \in 0 .. n
    OBVIOUS
  <2>4. ASSUME NEW j \in 1 .. n, j <= c PROVE FromTop(ls, j).captured
    <3>1. j - 1 \in 0 .. n /\ j - 1 # n /\ ~(c <= j - 1) /\ j - 1 + 1 = j
      BY <1>0, <2>3, <2>4
    <3>2. j - 1 \notin T
      BY <2>2, <3>1
    <3> QED BY <3>1, <3>2
  <2>5. ASSUME NEW j \in 1 .. n, ~(j <= c), FromTop(ls, j).captured PROVE FALSE
    <3> DEFINE q == Len(ls) + 1 - j
               r == Len(ls) + 1 - (c + 1)
    <3>1. q \in 1 .. Len(ls) /\ r \in 1 .. Len(ls) /\ p < q /\ q <= r /\ c # n
      BY <1>0, <2>3, <2>5
    <3>2. ls[q].captured
      BY <2>5 DEF FromTop
    <3>3. ls[r].captured
      BY <3>1, <3>2
    <3>4. ~FromTop(ls, c + 1).captured
      BY <3>1
    <3> QED BY <3>3, <3>4 DEF FromTop
  <2>6. \A j \in 1 .. n : FromTop(ls, j).captured <=> j <= c
    BY <2>4, <2>5
  <2> HIDE DEF n
  <2> QED BY <2>3, <2>6
<1>3. PICK c \in 0 .. n : \A j \in 1 .. n : FromTop(ls, j).captured <=> j <= c
  BY <1>2
<1> DEFINE h == [i \in 0 .. n |-> Emitted(c, i)]
<1> HIDE DEF n
<1>4. \A i \in 0 .. n : h[i] = Body(h, i)
  <2> SUFFICES ASSUME NEW i \in 0 .. n PROVE h[i] = Body(h, i)
    OBVIOUS
  <2>1. CASE i = 0
    <3>1. Closes(0) = <<>>
      BY DEF Closes
    <3> QED BY <1>0, <2>1, <3>1 DEF Emitted
  <2>2. CASE i # 0
    <3>1. i \in 1 .. n /\ i - 1 \in 0 .. n
      BY <1>0, <2>2
    <3>2. EmitStep(ls, Emitted(c, i - 1), i) = Emitted(c, i)
      BY <1>0, <1>3, <3>1, EmittedStep
    <3>3. h[i - 1] = Emitted(c, i - 1) /\ h[i] = Emitted(c, i)
      BY <3>1
    <3> HIDE DEF h
    <3> QED BY <2>2, <3>2, <3>3
  <2> QED BY <2>1, <2>2
<1>5. h = [i \in 0 .. n |-> Body(h, i)]
  <2>1. h = [i \in 0 .. n |-> h[i]]
    OBVIOUS
  <2> HIDE DEF h, Body
  <2> QED BY <1>4, <2>1
<1>6. f = [i \in 0 .. n |-> Body(f, i)]
  <2>1. \E g : g = [i \in 0 .. n |-> Body(g, i)]
    <3> HIDE DEF h
    <3> QED BY <1>5
  <2> HIDE DEF h, Body
  <2> QED BY <2>1 DEF f
<1>7. \A i \in 0 .. n : f[i] = h[i]
  <2> DEFINE T == {i \in 0 .. n : f[i] # h[i]}
  <2> SUFFICES ASSUME T # {} PROVE FALSE
    OBVIOUS
  <2>1. T \in SUBSET Nat
    OBVIOUS
  <2>2. PICK i \in T : \A j \in T : i <= j
    <3> HIDE DEF T
    <3> QED BY <2>1, LeastNat
  <2>3. i \in 0 .. n /\ f[i] # h[i]
    OBVIOUS
  <2>4. f[i] = Body(f, i) /\ h[i] = Body(h, i)
    <3> HIDE DEF h, Body
    <3> QED BY <1>4, <1>6, <2>3
  <2>5. i # 0
    <3> HIDE DEF h
    <3> QED BY <2>3, <2>4
  <2>6. i - 1 \in 0 .. n /\ ~(i <= i - 1)
    BY <1>0, <2>3, <2>5
  <2>7. i - 1 \notin T
    BY <2>2, <2>6
  <2>8. f[i - 1] = h[i - 1]
    <3> HIDE DEF h
    <3> QED BY <2>6, <2>7
  <2> HIDE DEF h
  <2> QED BY <2>3, <2>4, <2>5, <2>8
<1>8. f[n] = Emitted(c, n)
  <2>1. n \in 0 .. n
    BY <1>0
  <2> QED BY <1>7, <2>1
<1>9. f[n].code = Closes(c) /\ f[n].pending = n - c /\ n - c \in Nat /\ c \in Nat
  <2>1. CASE n <= c
    BY <1>0, <1>8, <2>1 DEF Emitted
  <2>2. CASE n > c
    BY <1>0, <1>8, <2>2 DEF Emitted
  <2> QED BY <1>0, <2>1, <2>2
<1> DEFINE w == Closes(c) \o Pops(n - c)
<1>10. /\ Len(w) = n /\ DOMAIN w = 1 .. n
       /\ \A i \in 1 .. n : w[i] = IF i <= c THEN "close" ELSE "pop"
  <2>1. /\ Closes(c) \in Seq({"close", "pop"}) /\ Len(Closes(c)) = c
        /\ \A i \in 1 .. c : Closes(c)[i] = "close"
    BY <1>9, ClosesAre
  <2>2. /\ Pops(n - c) \in Seq({"close", "pop"}) /\ Len(Pops(n - c)) = n - c
        /\ \A i \in 1 .. n - c : Pops(n - c)[i] = "pop"
    BY <1>9, PopsAre
  <2>3. /\ w \in Seq({"close", "pop"}) /\ Len(w) = Len(Closes(c)) + Len(Pops(n - c))
        /\ \A i \in 1 .. Len(Closes(c)) + Len(Pops(n - c)) :
              w[i] = IF i <= Len(Closes(c)) THEN Closes(c)[i] ELSE Pops(n - c)[i - Len(Closes(c))]
    BY <2>1, <2>2, ConcatProperties
  <2> HIDE DEF w
  <2>4. c + (n - c) = n
    BY <1>0, <1>9
  <2>5. Len(w) = n
    BY <2>1, <2>2, <2>3, <2>4
  <2>6. DOMAIN w = 1 .. n
    BY <2>3, <2>5, LenProperties
  <2>7. ASSUME NEW i \in 1 .. n PROVE w[i] = IF i <= c THEN "close" ELSE "pop"
    <3>1. w[i] = IF i <= c THEN Closes(c)[i] ELSE Pops(n - c)[i - c]
      BY <2>1, <2>2, <2>3, <2>4
    <3>2. CASE i <= c
      <4>1. i \in 1 .. c
        BY <1>0, <3>2
      <4> QED BY <2>1, <3>1, <3>2, <4>1
    <3>3. CASE ~(i <= c)
      <4>1. i - c \in 1 .. n - c
        BY <1>0, <3>3
      <4> QED BY <2>2, <3>1, <3>3, <4>1
    <3> QED BY <3>2, <3>3
  <2> QED BY <2>5, <2>6, <2>7
<1>11. \A i \in 1 .. n : w[i] = "close" <=> FromTop(ls, i).captured
  <2> SUFFICES ASSUME NEW i \in 1 .. n PROVE w[i] = "close" <=> FromTop(ls, i).captured
    OBVIOUS
  <2>1. w[i] = IF i <= c THEN "close" ELSE "pop"
    BY <1>10
  <2>2. FromTop(ls, i).captured <=> i <= c
    BY <1>3
  <2> HIDE DEF w
  <2> QED BY <2>1, <2>2
<1>12. ScopeCleanup(ls, depth) = w
  BY <1>1, <1>9
<1> HIDE DEF w
<1> QED BY <1>10, <1>11, <1>12 DEF Removes, n

-----------------------------------------------------------------------------
(***************************************************************************)
(* Levels of which only blocks and loops are left.                         *)
(***************************************************************************)
Straight(ns, k) == \A i \in k+1 .. Len(ns) : K(ns, i) \in Plain

StraightLevels(ns, ls, D, B, O, n, k) ==
    /\ Leveled(ns, ls, D, B, O) /\ AreLocals(ls)
    /\ n = Len(ns) /\ n \in Nat /\ k \in 0 .. n
    /\ Straight(ns, k)

\* Between a loop and a statement in it there are blocks and loops only, or an
\* arm.
LEMMA StraightDown ==
    ASSUME NEW ns, Nesting(ns), NEW n, n = Len(ns), n \in Nat, NEW k \in 0 .. n,
           K(ns, n) \in Bodies, \A i \in k+1 .. n : K(ns, i) \notin Arms
    PROVE  Straight(ns, k)
<1> DEFINE T == {i \in k+1 .. n : K(ns, i) \notin Plain}
<1> SUFFICES ASSUME T # {} PROVE FALSE
  BY DEF Straight
<1>1. T \in SUBSET (0 .. n)
  OBVIOUS
<1>2. PICK i \in T : \A j \in T : i >= j
  <2> HIDE DEF T
  <2> QED BY <1>1, GreatestNat
<1>3. i \in k+1 .. n /\ i \in Nat /\ K(ns, i) \notin Plain /\ K(ns, i) \notin Arms
  OBVIOUS
<1>4. K(ns, i) \in Bodies
  <2>1. CASE i = n
    BY <2>1
  <2>2. CASE i # n
    <3>1. i + 1 \in k+1 .. n /\ ~(i >= i + 1) /\ i + 1 \in 1 .. n /\ i + 1 - 1 = i
      BY <1>3, <2>2
    <3>2. i + 1 \notin T
      BY <1>2, <3>1
    <3>3. K(ns, i + 1) \in Plain
      BY <3>1, <3>2
    <3>4. Fits(K(ns, i), K(ns, i + 1))
      BY <3>1 DEF Nesting
    <3> QED BY <3>3, <3>4 DEF Fits, Plain, Arms
  <2> QED BY <2>1, <2>2
<1>5. K(ns, i) # "root"
  <2>2. K(ns, i) = ns[i].kind /\ i \in 1 .. n
    BY <1>3 DEF K
  <2>3. Fits(K(ns, i-1), K(ns, i))
    BY <2>2 DEF Nesting
  <2> QED BY <2>3 DEF Fits, Arms
<1> QED BY <1>3, <1>4, <1>5 DEF Bodies, Plain, Arms

\* Blocks and loops add scopes, and nothing to the stack but their locals.
LEMMA StraightNumbers ==
    ASSUME NEW ns, NEW ls, NEW D, NEW B, NEW O, NEW n, NEW k,
           StraightLevels(ns, ls, D, B, O, n, k)
    PROVE  \A j \in k .. n : /\ D[j] = D[k] + (j - k) /\ O[j] = O[k]
                             /\ B[j+1] > B[k+1] => O[k] = 0
<1>0. n \in Nat /\ k \in 0 .. n
  BY DEF StraightLevels
<1>l. Leveled(ns, ls, D, B, O) /\ n = Len(ns) /\ Straight(ns, k)
  BY DEF StraightLevels
<1>n. \A i \in 0 .. n : /\ D[i] \in Nat /\ B[i] \in Nat /\ B[i+1] \in Nat /\ O[i] \in Int
                        /\ B[i] <= B[i+1]
  BY <1>0, <1>l, LevelNumbers
<1>j. \A j \in 1 .. n : D[j] = D[j-1] + Deepens(K(ns, j)) /\ O[j] = O[j-1] + Gains(K(ns, j))
  BY <1>l DEF Leveled, Numbered
<1>w. \A i \in 0 .. n : Owns(ns, ls, D, B, O, i)
  BY <1>l DEF Leveled
<1> DEFINE Ok(j) == /\ D[j] = D[k] + (j - k) /\ O[j] = O[k]
                    /\ B[j+1] > B[k+1] => O[k] = 0
           T == {j \in k .. n : ~Ok(j)}
<1> SUFFICES ASSUME T # {} PROVE FALSE
  OBVIOUS
<1>1. T \in SUBSET Nat
  BY <1>0
<1>2. PICK j \in T : \A i \in T : j <= i
  <2> HIDE DEF T
  <2> QED BY <1>1, LeastNat
<1>3. j \in k .. n /\ ~Ok(j) /\ j \in Nat /\ k \in Nat /\ k \in 0 .. n /\ j \in 0 .. n
  BY <1>0
<1>4. j # k
  <2>1. Ok(k)
    BY <1>n, <1>3
  <2> QED BY <1>3, <2>1
<1>5. j - 1 \in k .. n /\ ~(j <= j - 1) /\ j \in 1 .. n /\ j - 1 + 1 = j /\ j \in k+1 .. n /\ j - 1 \in 0 .. n
  BY <1>0, <1>3, <1>4
<1>6. Ok(j-1)
  <2>1. j - 1 \notin T
    BY <1>2, <1>5
  <2> HIDE DEF Ok
  <2> QED BY <1>5, <2>1
<1>7. K(ns, j) \in Plain
  BY <1>l, <1>5 DEF Straight
<1>8. Deepens(K(ns, j)) = 1 /\ Gains(K(ns, j)) = 0 /\ K(ns, j) # "let"
  BY <1>7 DEF Plain, Deepens, Gains, Scoping
<1>9. D[j] = D[j-1] + 1 /\ O[j] = O[j-1] + 0
  BY <1>5, <1>8, <1>j
<1>10. /\ D[j-1] \in Nat /\ O[j-1] \in Int /\ B[j] \in Nat /\ B[j+1] \in Nat /\ D[k] \in Nat
       /\ O[k] \in Int /\ O[j] \in Int /\ D[j] \in Nat /\ B[k+1] \in Nat
  BY <1>n, <1>3, <1>5
<1>11. (B[j+1] > B[j] => O[j] <= 0) /\ O[j] >= 0
  <2>1. Owns(ns, ls, D, B, O, j)
    BY <1>w, <1>3
  <2> QED BY <1>8, <2>1 DEF Owns
<1>12. D[j-1] = D[k] + (j - 1 - k) /\ O[j-1] = O[k] /\ (B[j] > B[k+1] => O[k] = 0)
  BY <1>5, <1>6
<1>13. Ok(j)
  <2>1. O[j] = O[k]
    BY <1>9, <1>10, <1>12
  <2>2. D[j] = D[k] + (j - k)
    BY <1>3, <1>9, <1>10, <1>12
  <2>3. B[j+1] > B[k+1] => O[k] = 0
    <3> SUFFICES ASSUME B[j+1] > B[k+1] PROVE O[k] = 0
      OBVIOUS
    <3>1. CASE B[j] > B[k+1]
      BY <1>12, <3>1
    <3>2. CASE ~(B[j] > B[k+1])
      <4>1. B[j+1] > B[j]
        BY <1>10, <3>2
      <4> QED BY <1>10, <1>11, <2>1, <4>1
    <3> QED BY <3>1, <3>2
  <2> QED BY <2>1, <2>2, <2>3
<1> QED BY <1>3, <1>13

\* ... whose locals are the ones above a level's depth.
FirstLevels(ls, us, B, n, k, j) ==
    j \in k .. n /\ Len(us) = B[j+1] /\ \A q \in 1 .. Len(us) : us[q] = ls[q]

\* What Trim keeps when the scope of level k is the one that is left.
LEMMA KeptAt ==
    ASSUME NEW ns, NEW ls, NEW us, NEW D, NEW B, NEW O, NEW n, NEW k, NEW j,
           StraightLevels(ns, ls, D, B, O, n, k), FirstLevels(ls, us, B, n, k, j)
    PROVE  /\ Kept(us, D[k]) = B[k+1] /\ B[k+1] \in 0 .. Len(us)
           /\ \A q \in B[k+1]+1 .. Len(ls) : ls[q].depth # NoDepth
           /\ \A q \in B[k+1]+1 .. Len(us) : us[q].depth > D[k]
<1>s. \A i \in k .. n : /\ D[i] = D[k] + (i - k) /\ O[i] = O[k]
                        /\ B[i+1] > B[k+1] => O[k] = 0
  BY StraightNumbers
<1>p. Leveled(ns, ls, D, B, O) /\ AreLocals(ls) /\ n = Len(ns) /\ n \in Nat /\ Straight(ns, k)
  BY DEF StraightLevels
<1>0. k \in Nat /\ j \in Nat /\ j \in 0 .. n /\ k \in 0 .. n /\ n \in 0 .. n /\ n \in Nat
  BY DEF StraightLevels, FirstLevels
<1>u. j \in k .. n /\ Len(us) = B[j+1] /\ \A q \in 1 .. Len(us) : us[q] = ls[q]
  BY DEF FirstLevels
<1>n. \A i \in 0 .. n : /\ D[i] \in Nat /\ B[i] \in Nat /\ B[i+1] \in Nat
                        /\ B[i] <= B[i+1] /\ B[i+1] <= Len(ls)
  BY <1>0, <1>p, LevelNumbers
<1>m. \A a, b \in 0 .. n + 1 : a <= b => B[a] <= B[b]
  BY <1>p DEF Leveled, Numbered
<1>t. /\ \A i \in 0 .. n, q \in 1 .. Len(ls) : q <= B[i+1] => ls[q].depth <= D[i]
      /\ \A i \in 0 .. n, q \in 1 .. Len(ls) :
           q > B[i] /\ ls[q].depth # NoDepth => ls[q].depth >= D[i]
      /\ \A q \in 1 .. Len(ls) : ls[q].depth = NoDepth =>
            \E i \in 1 .. n : K(ns, i) = "let" /\ q = B[i+1]
  BY <1>p DEF Leveled, Deep
<1>l. Len(ls) \in Nat /\ B[n+1] = Len(ls) /\ \A q \in 1 .. Len(ls) : ls[q].depth \in Nat /\ ls[q].captured \in BOOLEAN
  BY <1>p DEF AreLocals, Leveled, Numbered
<1>1. B[k+1] <= Len(us) /\ Len(us) \in Nat /\ B[k+1] \in Nat /\ Len(us) <= Len(ls)
  <2>1. k + 1 \in 0 .. n + 1 /\ j + 1 \in 0 .. n + 1 /\ k + 1 <= j + 1
    BY <1>0, <1>u
  <2> QED BY <1>0, <1>u, <1>n, <1>m, <2>1
<1>2. ASSUME NEW q \in B[k+1]+1 .. Len(ls) PROVE ls[q].depth # NoDepth /\ q \in 1 .. Len(ls)
  <2>0. q \in 1 .. Len(ls) /\ q > B[k+1]
    BY <1>l, <1>1
  <2> SUFFICES ASSUME ls[q].depth = NoDepth PROVE FALSE
    BY <2>0
  <2>1. PICK i \in 1 .. n : K(ns, i) = "let" /\ q = B[i+1]
    BY <1>t, <2>0
  <2>2. CASE i <= k
    <3>1. i + 1 \in 0 .. n + 1 /\ k + 1 \in 0 .. n + 1 /\ i + 1 <= k + 1
      BY <1>0, <2>2
    <3>2. B[i+1] <= B[k+1]
      BY <1>m, <3>1
    <3> QED BY <1>1, <1>l, <2>0, <2>1, <3>2
  <2>3. CASE i > k
    <3>1. i \in k+1 .. n
      BY <1>0, <2>3
    <3>2. "let" \in Plain
      BY <1>p, <2>1, <3>1 DEF Straight
    <3> QED BY <3>2, LetFacts
  <2> QED BY <1>0, <2>2, <2>3
<1>3. ASSUME NEW q \in B[k+1]+1 .. Len(us) PROVE us[q].depth > D[k]
  <2>1. q \in B[k+1]+1 .. Len(ls) /\ q \in 1 .. Len(us)
    BY <1>1, <1>l
  <2>2. ls[q].depth # NoDepth /\ q \in 1 .. Len(ls)
    BY <1>2, <2>1
  <2>3. k # n
    BY <1>1, <1>l, <2>1
  <2>4. k + 1 \in 0 .. n /\ k + 1 \in k .. n
    BY <1>0, <2>3
  <2>5. ls[q].depth >= D[k+1]
    <3>1. q > B[k+1]
      BY <1>1, <1>l
    <3> QED BY <1>t, <2>2, <2>4, <3>1
  <2>6. D[k+1] = D[k] + (k + 1 - k)
    BY <1>0, <1>s, <2>4
  <2>7. D[k] \in Nat /\ D[k+1] \in Nat /\ ls[q].depth \in Nat /\ k + 1 - k = 1
    BY <1>0, <1>n, <1>l, <2>2, <2>4
  <2> QED BY <1>u, <2>1, <2>5, <2>6, <2>7
<1>4. B[k+1] > 0 => us[B[k+1]].depth <= D[k]
  <2> SUFFICES ASSUME B[k+1] > 0 PROVE us[B[k+1]].depth <= D[k]
    OBVIOUS
  <2>1. B[k+1] \in 1 .. Len(us) /\ B[k+1] \in 1 .. Len(ls) /\ B[k+1] <= B[k+1]
    BY <1>1, <1>l
  <2>2. ls[B[k+1]].depth <= D[k]
    BY <1>0, <1>t, <2>1
  <2> QED BY <1>u, <2>1, <2>2
<1>5. AreLocals(us)
  <2>1. \A q \in 1 .. Len(us) : q \in 1 .. Len(ls)
    BY <1>1, <1>l
  <2> QED BY <1>1, <1>l, <1>u, <2>1 DEF AreLocals
<1>6. B[k+1] \in 0 .. Len(us) /\ D[k] \in Int
  BY <1>0, <1>1, <1>n
<1>7. Kept(us, D[k]) = B[k+1]
  <2> HIDE DEF K
  <2> QED BY <1>3, <1>4, <1>5, <1>6, KeptIs
<1> QED BY <1>2, <1>3, <1>6, <1>7

-----------------------------------------------------------------------------
\* A prefix of a prefix, and all of a sequence.
LEMMA PrefixOfPrefix ==
    ASSUME NEW S, NEW s \in Seq(S), NEW a \in 0 .. Len(s), NEW b \in 0 .. a
    PROVE  SubSeq(SubSeq(s, 1, a), 1, b) = SubSeq(s, 1, b)
<1> DEFINE u == SubSeq(s, 1, a)
           v == SubSeq(u, 1, b)
           w == SubSeq(s, 1, b)
<1>0. Len(s) \in Nat
  BY LenProperties
<1>1. u \in Seq(S) /\ Len(u) = a /\ \A i \in 1 .. a : u[i] = s[i]
  BY Prefix
<1> HIDE DEF u
<1>2. b \in 0 .. Len(s) /\ b \in 0 .. Len(u)
  BY <1>0, <1>1
<1>3. v \in Seq(S) /\ Len(v) = b /\ \A i \in 1 .. b : v[i] = u[i]
  BY <1>1, <1>2, Prefix
<1>4. w \in Seq(S) /\ Len(w) = b /\ \A i \in 1 .. b : w[i] = s[i]
  BY <1>2, Prefix
<1> HIDE DEF v, w
<1>5. \A i \in 1 .. b : i \in 1 .. a
  BY <1>0
<1>6. \A i \in 1 .. Len(v) : v[i] = w[i]
  BY <1>1, <1>3, <1>4, <1>5
<1>7. v = w
  BY <1>3, <1>4, <1>6, SeqEqual
<1> QED BY <1>7 DEF u, v, w

\* All of a sequence.
LEMMA WholePrefix ==
    ASSUME NEW S, NEW s \in Seq(S)
    PROVE  SubSeq(s, 1, Len(s)) = s
<1> DEFINE w == SubSeq(s, 1, Len(s))
<1>0. Len(s) \in 0 .. Len(s)
  BY LenProperties
<1>1. w \in Seq(S) /\ Len(w) = Len(s) /\ \A i \in 1 .. Len(s) : w[i] = s[i]
  BY <1>0, Prefix
<1> HIDE DEF w
<1>2. w = s
  BY <1>1, SeqEqual
<1> QED BY <1>2 DEF w

\* The end of a block or a loop.
LEMMA ClosingPlain ==
    ASSUME NEW c, c.kind \in Plain, NEW d, NEW us
    PROVE  Closing(c, [depth |-> d, locals |-> us]) = [depth |-> d - 1, locals |-> Trim(us, d - 1)]
<1>1. c.kind \in {"block", "loop", "bound arm"}
  BY DEF Plain
<1>2. PICK st : st = [depth |-> d, locals |-> us]
  OBVIOUS
<1>3. st.depth = d /\ st.locals = us
  BY <1>2
<1>4. Closing(c, st) = [depth |-> st.depth - 1, locals |-> Trim(st.locals, st.depth - 1)]
  BY <1>1 DEF Closing
<1>5. Closing(c, st) = [depth |-> d - 1, locals |-> Trim(us, d - 1)]
  BY <1>3, <1>4
<1> QED BY <1>2, <1>5

\* One of several that end, the level j, as its parent is still straight.
LEMMA ClosingLevel ==
    ASSUME NEW ns, NEW ls, NEW D, NEW B, NEW O, NEW n, NEW k, NEW S,
           StraightLevels(ns, ls, D, B, O, n, k), ls \in Seq(S), NEW j \in k+1 .. n
    PROVE  Closing(ns[j], [depth |-> D[j], locals |-> SubSeq(ls, 1, B[j+1])])
             = [depth |-> D[j-1], locals |-> SubSeq(ls, 1, B[j])]
<1>p. Leveled(ns, ls, D, B, O) /\ AreLocals(ls) /\ n = Len(ns) /\ n \in Nat /\ Straight(ns, k)
  BY DEF StraightLevels
<1>0. k \in Nat /\ j \in Nat /\ j - 1 \in 0 .. n /\ j \in 0 .. n /\ j - 1 + 1 = j /\ j \in 1 .. n /\ j - 1 \in Nat
  BY DEF StraightLevels
<1>n. \A i \in 0 .. n : /\ D[i] \in Nat /\ B[i] \in Nat /\ B[i+1] \in Nat
                        /\ B[i] <= B[i+1] /\ B[i+1] <= Len(ls)
  BY <1>p, LevelNumbers
<1>1. K(ns, j) \in Plain /\ ns[j].kind \in Plain
  BY <1>0, <1>p DEF Straight, K
<1>2. D[j] - 1 = D[j-1]
  <2>1. D[j] = D[j-1] + Deepens(K(ns, j))
    BY <1>p, <1>0 DEF Leveled, Numbered
  <2>2. Deepens(K(ns, j)) = 1 /\ D[j-1] \in Nat
    BY <1>0, <1>1, <1>n DEF Deepens, Scoping, Plain
  <2> QED BY <2>1, <2>2
<1> DEFINE us == SubSeq(ls, 1, B[j+1])
<1>b. B[j+1] \in 0 .. Len(ls) /\ B[j] \in 0 .. B[j+1]
  <2>1. B[j] \in Nat /\ B[j+1] \in Nat /\ B[j] <= B[j+1] /\ B[j+1] <= Len(ls)
    BY <1>0, <1>n
  <2> QED BY <1>p, <2>1 DEF AreLocals
<1>3. us \in Seq(S) /\ Len(us) = B[j+1] /\ \A q \in 1 .. Len(us) : us[q] = ls[q]
  BY <1>b, Prefix
<1>4. SubSeq(us, 1, B[j]) = SubSeq(ls, 1, B[j])
  BY <1>b, PrefixOfPrefix
<1> HIDE DEF us
<1>5. Kept(us, D[j-1]) = B[j]
  <2>1. PICK i : i = j - 1
    OBVIOUS
  <2>2. i \in 0 .. n /\ i \in Nat /\ j \in i .. n /\ i + 1 = j
    BY <1>0, <2>1
  <2>3. \A x \in i+1 .. n : x \in k+1 .. n
    BY <1>0, <2>2
  <2>4. StraightLevels(ns, ls, D, B, O, n, i)
    BY <1>p, <2>2, <2>3 DEF StraightLevels, Straight
  <2>6. FirstLevels(ls, us, B, n, i, j)
    BY <1>3, <2>2 DEF FirstLevels
  <2>5. Kept(us, D[i]) = B[i+1]
    BY <2>4, <2>6, KeptAt
  <2> QED BY <2>1, <2>2, <2>5
<1>6. Trim(us, D[j-1]) = SubSeq(ls, 1, B[j])
  BY <1>4, <1>5 DEF Trim
<1>7. Closing(ns[j], [depth |-> D[j], locals |-> us]) = [depth |-> D[j] - 1, locals |-> Trim(us, D[j] - 1)]
  BY <1>1, ClosingPlain
<1> QED BY <1>2, <1>6, <1>7 DEF us

\* The compiler's state at the end of a construct.
LEMMA StateParts ==
    ASSUME NEW r, NEW x, NEW y, r = [depth |-> x, locals |-> y]
    PROVE  r.depth = x /\ r.locals = y
OBVIOUS

\* All constructs inside the k-th end.
LEMMA ClosedDown ==
    ASSUME NEW D, NEW B, NEW O, NEW n, NEW k, NEW S,
           StraightLevels(nest, locals, D, B, O, n, k), locals \in Seq(S), scopeDepth = D[n],
           CloseDownTo(k)
    PROVE  scopeDepth' = D[k] /\ locals' = SubSeq(locals, 1, B[k+1])
<1>p. Leveled(nest, locals, D, B, O) /\ AreLocals(locals) /\ n = Len(nest) /\ n \in Nat
  BY DEF StraightLevels
<1>0. k \in Nat /\ n \in Nat /\ n - k \in Nat /\ k \in 0 .. n
  BY DEF StraightLevels
<1>w. B[n+1] = Len(locals) /\ SubSeq(locals, 1, B[n+1]) = locals
  <2>1. B[n+1] = Len(locals)
    BY <1>p DEF Leveled, Numbered
  <2> QED BY <2>1, WholePrefix
<1> DEFINE d == n - k
           Body(f, i) == IF i = 0 THEN [depth |-> scopeDepth, locals |-> locals]
                         ELSE Closing(nest[n + 1 - i], f[i - 1])
           f == CHOOSE f : f = [i \in 0 .. d |-> Body(f, i)]
           At(i) == [depth |-> D[n - i], locals |-> SubSeq(locals, 1, B[n - i + 1])]
           h == [i \in 0 .. d |-> At(i)]
<1>1. scopeDepth' = f[d].depth /\ locals' = f[d].locals
  BY <1>p DEF CloseDownTo
<1> HIDE DEF f
<1>4. \A i \in 0 .. d : h[i] = Body(h, i)
  <2> SUFFICES ASSUME NEW i \in 0 .. d PROVE h[i] = Body(h, i)
    OBVIOUS
  <2>1. CASE i = 0
    <3>1. n - i = n /\ n - i + 1 = n + 1
      BY <1>0, <2>1
    <3>2. At(i) = [depth |-> scopeDepth, locals |-> locals]
      BY <1>w, <3>1
    <3> HIDE DEF At
    <3> QED BY <2>1, <3>2
  <2>2. CASE i # 0
    <3>1. /\ i - 1 \in 0 .. d /\ n + 1 - i \in k+1 .. n /\ n - (i - 1) = n + 1 - i
          /\ n + 1 - i - 1 = n - i /\ n - i + 1 = n + 1 - i
      BY <1>0, <2>2
    <3>2. PICK j : j = n + 1 - i
      OBVIOUS
    <3>3. Closing(nest[j], [depth |-> D[j], locals |-> SubSeq(locals, 1, B[j+1])])
             = [depth |-> D[j-1], locals |-> SubSeq(locals, 1, B[j])]
      BY <3>1, <3>2, ClosingLevel
    <3>8. n - i = j - 1 /\ n - i + 1 = j
      BY <1>0, <3>1, <3>2
    <3>4. At(i - 1) = [depth |-> D[j], locals |-> SubSeq(locals, 1, B[j+1])]
      BY <3>1, <3>2
    <3>5. At(i) = [depth |-> D[j-1], locals |-> SubSeq(locals, 1, B[j])]
      BY <3>8
    <3>6. h[i - 1] = At(i - 1) /\ h[i] = At(i)
      BY <3>1
    <3> HIDE DEF At, h
    <3>7. Body(h, i) = Closing(nest[j], At(i - 1))
      BY <2>2, <3>2, <3>6
    <3> QED BY <3>3, <3>4, <3>5, <3>6, <3>7
  <2> QED BY <2>1, <2>2
<1>5. h = [i \in 0 .. d |-> Body(h, i)]
  <2>1. h = [i \in 0 .. d |-> h[i]]
    OBVIOUS
  <2> HIDE DEF h, Body
  <2> QED BY <1>4, <2>1
<1>6. f = [i \in 0 .. d |-> Body(f, i)]
  <2>1. \E g : g = [i \in 0 .. d |-> Body(g, i)]
    <3> HIDE DEF h
    <3> QED BY <1>5
  <2> HIDE DEF h, Body
  <2> QED BY <2>1 DEF f
<1>7. \A i \in 0 .. d : f[i] = h[i]
  <2> DEFINE T == {i \in 0 .. d : f[i] # h[i]}
  <2> SUFFICES ASSUME T # {} PROVE FALSE
    OBVIOUS
  <2>1. T \in SUBSET Nat
    OBVIOUS
  <2>2. PICK i \in T : \A j \in T : i <= j
    <3> HIDE DEF T
    <3> QED BY <2>1, LeastNat
  <2>3. i \in 0 .. d /\ f[i] # h[i]
    OBVIOUS
  <2>4. f[i] = Body(f, i) /\ h[i] = Body(h, i)
    <3> HIDE DEF h, Body
    <3> QED BY <1>4, <1>6, <2>3
  <2>5. i # 0
    <3> HIDE DEF h
    <3> QED BY <2>3, <2>4
  <2>6. i - 1 \in 0 .. d /\ ~(i <= i - 1)
    BY <1>0, <2>3, <2>5
  <2>7. i - 1 \notin T
    BY <2>2, <2>6
  <2>8. f[i - 1] = h[i - 1]
    <3> HIDE DEF h
    <3> QED BY <2>6, <2>7
  <2> HIDE DEF h
  <2> QED BY <2>3, <2>4, <2>5, <2>8
<1>8. f[d] = At(d)
  <2>1. d \in 0 .. d
    BY <1>0
  <2> QED BY <1>7, <2>1
<1>9. n - d = k
  BY <1>0
<1>10. f[d].depth = D[k] /\ f[d].locals = SubSeq(locals, 1, B[k+1])
  <2>0. PICK w : w = SubSeq(locals, 1, B[k+1])
    OBVIOUS
  <2>1. At(d) = [depth |-> D[k], locals |-> w]
    BY <1>9, <2>0
  <2> HIDE DEF At, d
  <2>2. f[d] = [depth |-> D[k], locals |-> w]
    BY <1>8, <2>1
  <2>3. f[d].depth = D[k] /\ f[d].locals = w
    BY <2>2, StateParts
  <2> QED BY <2>0, <2>3
<1> QED BY <1>1, <1>10

-----------------------------------------------------------------------------
(***************************************************************************)
(* The compiler's idea of the stack and the stack.                         *)
(***************************************************************************)
Valued(m) == IF m = "value" THEN 1 ELSE 0

InItsSlot(ls, st, m, q) ==
    ls[q].depth # NoDepth /\ (m # "given" \/ q < Len(st)) =>
       q \in 1 .. Len(st) /\ st[q] = ls[q].id

Balanced(ns, ls, st, m, dep, D, B, O) ==
    /\ Leveled(ns, ls, D, B, O)
    /\ dep = D[Len(ns)]
    /\ Len(st) = Len(ls) + O[Len(ns)] + Valued(m)
    /\ \A q \in 1 .. Len(ls) : InItsSlot(ls, st, m, q)
    /\ m = "given" => \E a \in 1 .. Len(ns) : Bare(ns, ls, B, O, a, Len(ns))

\* What there is at one level of the nest ns.
Sound(ns, ls, n) == Nesting(ns) /\ AreLocals(ls) /\ n = Len(ns) /\ n \in Nat

\* What is on top of the stack in an arm without locals of its own is the
\* target of the match, what was bound to it, or the variable it initializes.
LEMMA BareTop ==
    ASSUME NEW ns, NEW ls, NEW D, NEW B, NEW O, NEW n, NEW i, NEW a,
           Sound(ns, ls, n), Leveled(ns, ls, D, B, O),
           i \in 0 .. n, a \in 1 .. i, Bare(ns, ls, B, O, a, i)
    PROVE  /\ O[i] = O[a] /\ O[i] \in Int /\ O[i] >= 0 /\ B[i+1] \in Nat
           /\ O[i] = 0 => B[i+1] >= 1 /\ ~ls[B[i+1]].captured
<1>p. n = Len(ns) /\ n \in Nat /\ Nesting(ns)
  BY DEF Sound
<1>0. a \in 1 .. n /\ a \in 0 .. n /\ a - 1 \in 0 .. n /\ a \in Nat /\ i \in 0 .. n /\ a - 1 + 1 = a
  BY <1>p
<1>b. K(ns, a) \in Arms /\ B[i+1] = B[a+1] /\ O[i] = O[a]
  BY DEF Bare
<1>n. \A j \in 0 .. n : B[j] \in Nat /\ B[j+1] \in Nat /\ O[j] \in Int
  BY <1>p, LevelNumbers
<1>j. \A j \in 1 .. n : O[j] = O[j-1] + Gains(K(ns, j))
  BY <1>p DEF Leveled, Numbered
<1>w. \A j \in 0 .. n : Owns(ns, ls, D, B, O, j)
  BY <1>p DEF Leveled
<1>1. K(ns, a-1) = "match" /\ a - 1 # 0 /\ K(ns, a) # "let"
  <2>1. Fits(K(ns, a-1), K(ns, a))
    BY <1>0, <1>p DEF Nesting
  <2>2. K(ns, a-1) = "match"
    BY <1>b, <2>1 DEF Fits, Arms
  <2>3. a - 1 # 0
    BY <2>2 DEF K
  <2> QED BY <1>b, <2>2, <2>3 DEF Arms
<1>2. O[a] >= 0
  BY <1>0, <1>1, <1>w DEF Owns
<1>3. ASSUME O[a] = 0 PROVE B[a+1] >= 1 /\ ~ls[B[a+1]].captured
  <2>1. CASE K(ns, a) = "bound arm"
    <3>1. K(ns, a) \in Binders
      BY <2>1 DEF Binders
    <3>2. B[a+1] = B[a] + 1 /\ ~ls[B[a] + 1].captured
      BY <1>0, <1>w, <3>1 DEF Owns
    <3>3. B[a] \in Nat
      BY <1>0, <1>n
    <3> QED BY <3>2, <3>3
  <2>2. CASE K(ns, a) = "arm"
    <3>0. a - 1 \in 1 .. n /\ a - 2 \in 0 .. n /\ a - 1 - 1 = a - 2 /\ a - 2 + 1 = a - 1
      BY <1>p, <1>0, <1>1
    <3>1. O[a] = O[a-1] + 0 /\ O[a-1] = O[a-2] + 1
      <4>1. Gains("arm") = 0 /\ Gains("match") = 1
        BY DEF Gains
      <4> QED BY <1>0, <1>1, <1>j, <2>2, <3>0, <4>1
    <3>2. O[a-2] = -1 /\ O[a-2] \in Int
      <4>1. O[a] \in Int /\ O[a-1] \in Int /\ O[a-2] \in Int
        BY <1>0, <1>n, <3>0
      <4> QED BY <1>3, <3>1, <4>1
    <3>3. K(ns, a-2) = "let"
      BY <1>w, <3>0, <3>2 DEF Owns
    <3>4. B[a-1] = B[a-2] + 1 /\ ~ls[B[a-2] + 1].captured
      <4>1. Owns(ns, ls, D, B, O, a-2)
        BY <1>w, <3>0
      <4> QED BY <3>0, <3>3, <4>1, LetFacts DEF Owns
    <3>5. "match" \notin Owners /\ "arm" \notin Owners
      BY DEF Owners
    <3>6. B[a] = B[a-1]
      <4>1. Owns(ns, ls, D, B, O, a-1)
        BY <1>0, <1>w
      <4> QED BY <1>0, <1>1, <3>5, <4>1 DEF Owns
    <3>7. B[a+1] = B[a]
      BY <1>0, <1>w, <2>2, <3>5 DEF Owns
    <3>8. B[a-2] \in Nat
      BY <1>n, <3>0
    <3> QED BY <3>4, <3>6, <3>7, <3>8
  <2> QED BY <1>b, <2>1, <2>2 DEF Arms
<1>4. O[i] \in Int /\ B[i+1] \in Nat
  BY <1>0, <1>n
<1> QED BY <1>b, <1>2, <1>3, <1>4

\* A captured local is in its slot.
LEMMA CapturedAt ==
    ASSUME NEW ns, NEW ls, NEW st, NEW m, NEW dep, NEW D, NEW B, NEW O, NEW n,
           Sound(ns, ls, n), Balanced(ns, ls, st, m, dep, D, B, O),
           NEW q \in 1 .. Len(ls), ls[q].captured
    PROVE  /\ ls[q].depth # NoDepth /\ q \in 1 .. Len(st) /\ st[q] = ls[q].id
           /\ m = "given" => q < Len(st)
<1>p. n = Len(ns) /\ n \in Nat /\ Nesting(ns) /\ Len(ls) \in Nat
  BY DEF Sound, AreLocals
<1>b. /\ Leveled(ns, ls, D, B, O) /\ InItsSlot(ls, st, m, q)
      /\ Len(st) = Len(ls) + O[n] + Valued(m)
      /\ m = "given" => \E a \in 1 .. n : Bare(ns, ls, B, O, a, n)
  BY <1>p DEF Balanced
<1>1. ls[q].depth # NoDepth
  <2> SUFFICES ASSUME ls[q].depth = NoDepth PROVE FALSE
    OBVIOUS
  <2>1. PICK j \in 1 .. n : K(ns, j) = "let" /\ q = B[j+1]
    BY <1>p, <1>b DEF Leveled, Deep
  <2>2. Owns(ns, ls, D, B, O, j)
    BY <1>p, <1>b DEF Leveled
  <2> QED BY <2>1, <2>2, LetFacts DEF Owns
<1>2. ASSUME m = "given" PROVE q < Len(st)
  <2>1. PICK a \in 1 .. n : Bare(ns, ls, B, O, a, n)
    BY <1>b, <1>2
  <2>2. n \in 0 .. n
    BY <1>p
  <2>3. /\ O[n] \in Int /\ O[n] >= 0
        /\ O[n] = 0 => ~ls[B[n+1]].captured
    BY <1>b, <2>1, <2>2, BareTop
  <2>4. B[n+1] = Len(ls)
    BY <1>p, <1>b DEF Leveled, Numbered
  <2>5. Valued(m) = 0
    BY <1>2 DEF Valued
  <2>6. O[n] = 0 => q # Len(ls)
    BY <2>3, <2>4
  <2> QED BY <1>p, <1>b, <2>3, <2>5, <2>6
<1> QED BY <1>b, <1>1, <1>2 DEF InItsSlot

-----------------------------------------------------------------------------
(***************************************************************************)
(* The moves: a construct is opened, the innermost ones are closed, a      *)
(* variable gets its value.                                                *)
(***************************************************************************)
Same(m) == m # "value" /\ m # "given"

\* What the stack gets when a construct of a kind is opened.
Pushes(ls, us, st, su, kind) ==
    /\ Len(su) = Len(st) + (Len(us) - Len(ls)) + Gains(kind)
    /\ Len(st) \in Nat
    /\ \A q \in 1 .. Len(ls) : q <= Len(st) => q \in 1 .. Len(su) /\ su[q] = st[q]
    /\ \A q \in Len(ls)+1 .. Len(us) : us[q].depth # NoDepth =>
                                          q \in 1 .. Len(su) /\ su[q] = us[q].id

\* A construct is opened.
LEMMA PushBalanced ==
    ASSUME NEW ns, NEW t, NEW c, NEW ls, NEW us, NEW st, NEW su, NEW m, NEW m2,
           NEW dep, NEW dep2, NEW D, NEW B, NEW O, NEW n, NEW kind,
           Sound(ns, ls, n), Balanced(ns, ls, st, m, dep, D, B, O), kind = c.kind,
           Opens(ns, t, c, ls, us, D, B, O), Pushes(ls, us, st, su, kind),
           dep2 = dep + Deepens(kind), Same(m), Same(m2)
    PROVE  \E E, A, P : Balanced(t, us, su, m2, dep2, E, A, P)
<1> DEFINE w == Len(us)
           E == [D EXCEPT ![n+1] = D[n] + Deepens(kind)]
           A == [B EXCEPT ![n+2] = w]
           P == [O EXCEPT ![n+1] = O[n] + Gains(kind)]
<1>p. n = Len(ns) /\ n \in Nat /\ Nesting(ns) /\ Len(ls) \in Nat /\ AreLocals(ls)
  BY DEF Sound, AreLocals
<1>b. /\ Leveled(ns, ls, D, B, O) /\ dep = D[n]
      /\ Len(st) = Len(ls) + O[n] + Valued(m)
      /\ \A q \in 1 .. Len(ls) : InItsSlot(ls, st, m, q)
  BY <1>p DEF Balanced
<1>v. Valued(m) = 0 /\ Valued(m2) = 0 /\ m # "given" /\ m2 # "given"
  BY DEF Valued, Same
<1>s. Sizes(ns, ls, us, n, Len(ls), w)
  BY <1>p DEF Sizes
<1>1. Leveled(t, us, E, A, P)
  BY <1>p, <1>b, <1>s, PushLevel
<1>u. /\ Len(t) = n + 1 /\ w \in Nat /\ Len(ls) <= w
      /\ \A q \in 1 .. Len(ls) : us[q] = ls[q]
  BY <1>p DEF Opens
<1>g. /\ D \in [Nat -> Nat] /\ O \in [Nat -> Int] /\ O[n] \in Int
      /\ Deepens(kind) \in Nat /\ Gains(kind) \in Int /\ n + 1 \in Nat /\ D[n] \in Nat
  <2>1. D \in [Nat -> Nat] /\ O \in [Nat -> Int]
    BY <1>b DEF Leveled, Numbered
  <2>2. Deepens(kind) \in {0, 1} /\ Gains(kind) \in {-1, 0, 1}
    BY DEF Deepens, Gains
  <2>3. Deepens(kind) \in Nat /\ Gains(kind) \in Int
    BY <2>2
  <2>4. n \in Nat /\ n + 1 \in Nat
    BY <1>p
  <2>5. D[n] \in Nat /\ O[n] \in Int
    BY <2>1, <2>4
  <2> QED BY <2>1, <2>3, <2>4, <2>5
<1>2. E[n+1] = D[n] + Deepens(kind) /\ P[n+1] = O[n] + Gains(kind)
  BY <1>g
<1> HIDE DEF E, A, P
<1>3. dep2 = E[Len(t)]
  BY <1>b, <1>2, <1>u
<1>4. Len(su) = w + P[n+1] + Valued(m2)
  <2>1. Len(su) = Len(st) + (w - Len(ls)) + Gains(kind)
    BY DEF Pushes
  <2>2. Len(st) = Len(ls) + O[n]
    BY <1>p, <1>b, <1>v, <1>g
  <2>3. Len(ls) \in Nat /\ w \in Nat /\ n \in Nat
    BY <1>p, <1>u
  <2> HIDE DEF w
  <2>4. O[n] \in Int /\ Gains(kind) \in Int
    BY <1>g
  <2>5. Len(su) = w + (O[n] + Gains(kind))
    BY SMTT(30), <2>1, <2>2, <2>3, <2>4
  <2> QED BY SMTT(30), <2>5, <1>2, <1>v
<1>5. ASSUME NEW q \in 1 .. w PROVE InItsSlot(us, su, m2, q)
  <2>1. CASE q \in 1 .. Len(ls)
    <3>1. us[q] = ls[q] /\ InItsSlot(ls, st, m, q)
      BY <1>b, <1>u, <2>1
    <3>2. q <= Len(st) => q \in 1 .. Len(su) /\ su[q] = st[q]
      BY <2>1 DEF Pushes
    <3> QED BY <1>v, <3>1, <3>2 DEF InItsSlot, Pushes
  <2>2. CASE q \in Len(ls)+1 .. w
    BY <2>2 DEF InItsSlot, Pushes
  <2> QED BY <1>p, <1>u, <2>1, <2>2
<1>6. Balanced(t, us, su, m2, dep2, E, A, P)
  BY <1>1, <1>3, <1>4, <1>5, <1>u, <1>v DEF Balanced
<1> QED BY <1>6

\* The first k levels of a nest, and the stack that goes with them.
Cuts(ns, t, ls, us, su, m2, B, O, k) ==
    /\ k \in 0 .. Len(ns)
    /\ Len(t) = k /\ \A i \in 1 .. k : t[i] = ns[i]
    /\ Len(us) = B[k+1] /\ \A q \in 1 .. B[k+1] : us[q] = ls[q]
    /\ Len(su) = B[k+1] + O[k] + Valued(m2)
    /\ \A q \in 1 .. B[k+1] : InItsSlot(ls, su, m2, q)
    /\ m2 = "given" => \E a \in 1 .. k : Bare(ns, ls, B, O, a, k)

\* The innermost constructs are closed.
LEMMA CutBalanced ==
    ASSUME NEW ns, NEW t, NEW ls, NEW us, NEW su, NEW m2,
           NEW dep2, NEW D, NEW B, NEW O, NEW n, NEW k,
           Sound(ns, ls, n), Leveled(ns, ls, D, B, O),
           Cuts(ns, t, ls, us, su, m2, B, O, k), dep2 = D[k]
    PROVE  Balanced(t, us, su, m2, dep2, D, B, O)
<1>p. n = Len(ns) /\ n \in Nat /\ Nesting(ns) /\ AreLocals(ls)
  BY DEF Sound
<1>c. /\ k \in 0 .. n /\ Len(t) = k /\ \A i \in 1 .. k : t[i] = ns[i]
      /\ Len(us) = B[k+1] /\ \A q \in 1 .. B[k+1] : us[q] = ls[q]
  BY <1>p DEF Cuts
<1>d. /\ Len(su) = B[k+1] + O[k] + Valued(m2)
      /\ \A q \in 1 .. B[k+1] : InItsSlot(ls, su, m2, q)
      /\ m2 = "given" => \E a \in 1 .. k : Bare(ns, ls, B, O, a, k)
  BY <1>p DEF Cuts
<1>1. Leveled(t, us, D, B, O)
  BY <1>p, <1>c, CutLevels
<1>2. \A q \in 1 .. Len(us) : InItsSlot(us, su, m2, q)
  BY <1>c, <1>d DEF InItsSlot
<1>3. m2 = "given" => \E a \in 1 .. k : Bare(t, us, B, O, a, k)
  <2> SUFFICES ASSUME m2 = "given" PROVE \E a \in 1 .. k : Bare(t, us, B, O, a, k)
    OBVIOUS
  <2>1. PICK a \in 1 .. k : Bare(ns, ls, B, O, a, k)
    BY <1>d
  <2>2. \A i \in a .. k : K(t, i) = K(ns, i)
    BY <1>c DEF K
  <2>3. a \in a .. k /\ \A i \in a+1 .. k : i \in a .. k
    BY <1>p, <1>c
  <2> QED BY <2>1, <2>2, <2>3 DEF Bare
<1> QED BY <1>1, <1>2, <1>3, <1>c, <1>d DEF Balanced

\* A variable gets its value.
Initializes(ns, t, ls, us, st, su, dep, n) ==
    /\ n # 0 /\ K(ns, n) = "let"
    /\ Len(t) = n - 1 /\ \A i \in 1 .. n - 1 : t[i] = ns[i]
    /\ Len(us) = Len(ls) /\ \A q \in 1 .. Len(ls) - 1 : us[q] = ls[q]
    /\ us[Len(ls)].depth = dep /\ us[Len(ls)].id = ls[Len(ls)].id
    /\ Len(su) = Len(st) /\ \A q \in 1 .. Len(st) - 1 : su[q] = st[q]
    /\ su[Len(st)] = ns[n].id

\* A variable gets its value.
LEMMA EndLetBalanced ==
    ASSUME NEW ns, NEW t, NEW ls, NEW us, NEW st, NEW su, NEW dep, NEW D, NEW B, NEW O, NEW n,
           Sound(ns, ls, n), Balanced(ns, ls, st, "value", dep, D, B, O),
           Initializes(ns, t, ls, us, st, su, dep, n)
    PROVE  Balanced(t, us, su, "statement", dep, D, [B EXCEPT ![n] = Len(ls)], O)
<1> DEFINE A == [B EXCEPT ![n] = Len(ls)]
           m == Len(ls)
<1>p. n = Len(ns) /\ n \in Nat /\ Nesting(ns) /\ m \in Nat /\ AreLocals(ls)
  BY DEF Sound, AreLocals
<1>b. /\ Leveled(ns, ls, D, B, O) /\ dep = D[n]
      /\ Len(st) = m + O[n] + Valued("value")
      /\ \A q \in 1 .. m : InItsSlot(ls, st, "value", q)
  BY <1>p DEF Balanced
<1>c. /\ n # 0 /\ K(ns, n) = "let"
      /\ Len(t) = n - 1 /\ \A i \in 1 .. n - 1 : t[i] = ns[i]
      /\ Len(us) = m /\ \A q \in 1 .. m - 1 : us[q] = ls[q]
      /\ us[m].depth = D[n] /\ us[m].id = ls[m].id
  BY <1>b DEF Initializes
<1>d. Len(su) = Len(st) /\ (\A q \in 1 .. Len(st) - 1 : su[q] = st[q]) /\ su[Len(st)] = ns[n].id
  BY DEF Initializes
<1>1. Leveled(t, us, D, A, O)
  BY <1>p, <1>b, <1>c, EndLetLevels
<1> HIDE DEF A
<1>n. n \in 0 .. n /\ n \in 1 .. n /\ n - 1 \in 0 .. n
  BY <1>p, <1>c
<1>2. B[n+1] = B[n] + 1 /\ ls[B[n] + 1].id = ns[n].id /\ O[n] = -1 /\ B[n] \in Nat
  <2>1. Owns(ns, ls, D, B, O, n)
    BY <1>p, <1>b, <1>n DEF Leveled
  <2>2. B[n] \in Nat
    BY <1>p, <1>b, <1>n, LevelNumbers
  <2> QED BY <1>c, <2>1, <2>2, LetFacts DEF Owns
<1>3. B[n+1] = m
  BY <1>p, <1>b DEF Leveled, Numbered
<1>4. D[n-1] = D[n] /\ O[n-1] = 0
  <2>1. D[n] = D[n-1] + Deepens("let") /\ O[n] = O[n-1] + Gains("let")
    BY <1>p, <1>b, <1>c, <1>n DEF Leveled, Numbered
  <2>2. Deepens("let") = 0 /\ Gains("let") = -1
    BY DEF Deepens, Gains, Scoping
  <2>3. D[n-1] \in Nat /\ O[n-1] \in Int
    BY <1>p, <1>b, <1>n, LevelNumbers
  <2> QED BY <1>2, <2>1, <2>2, <2>3
<1>5. Len(st) = m /\ m >= 1
  BY <1>b, <1>2, <1>3 DEF Valued
<1>6. ASSUME NEW q \in 1 .. m PROVE InItsSlot(us, su, "statement", q)
  <2>1. CASE q = m
    <3>1. us[m].id = su[m]
      BY <1>c, <1>d, <1>2, <1>3, <1>5
    <3> QED BY <1>d, <1>5, <2>1, <3>1 DEF InItsSlot
  <2>2. CASE q # m
    <3>1. q \in 1 .. m - 1
      BY <1>p, <2>2
    <3>2. us[q] = ls[q] /\ su[q] = st[q] /\ InItsSlot(ls, st, "value", q)
      BY <1>b, <1>c, <1>d, <1>5, <3>1
    <3> QED BY <1>d, <3>2 DEF InItsSlot
  <2> QED BY <2>1, <2>2
<1>7. Valued("statement") = 0
  BY DEF Valued
<1>8. Len(su) = Len(us) + O[n-1] + Valued("statement")
  BY <1>c, <1>d, <1>4, <1>5, <1>7
<1>9. Balanced(t, us, su, "statement", dep, D, A, O)
  BY <1>1, <1>4, <1>6, <1>8, <1>b, <1>c DEF Balanced
<1> QED BY <1>9 DEF A

\* The body of a function.
LEMMA RootBalanced ==
    ASSUME NEW ns, NEW ls, NEW st, Len(ns) = 0, Len(ls) = 0, Len(st) = 0
    PROVE  \E D, B, O : Balanced(ns, ls, st, "statement", 1, D, B, O)
<1> DEFINE D == [i \in Nat |-> 1]
           B == [i \in Nat |-> 0]
           O == [i \in Nat |-> 0]
<1>1. /\ D \in [Nat -> Nat] /\ B \in [Nat -> Nat] /\ O \in [Nat -> Int]
      /\ D[0] = 1 /\ B[0] = 0 /\ O[0] = 0 /\ B[1] = 0
  OBVIOUS
<1> HIDE DEF D, B, O
<1>k. K(ns, 0) = "root"
  BY DEF K
<1>2. Numbered(ns, ls, D, B, O)
  <2>1. \A i, j \in 0 .. 1 : i <= j => B[i] <= B[j]
    <3>1. \A i \in 0 .. 1 : i = 0 \/ i = 1
      OBVIOUS
    <3>2. \A i \in 0 .. 1 : B[i] = 0
      BY <1>1, <3>1
    <3> QED BY <3>2
  <2>2. \A i, j \in 0 .. 0 : i <= j => D[i] <= D[j]
    <3>1. \A i \in 0 .. 0 : D[i] = 1
      BY <1>1
    <3> QED BY <3>1
  <2>3. /\ B[Len(ns) + 1] = Len(ls)
        /\ \A i, j \in 0 .. Len(ns) + 1 : i <= j => B[i] <= B[j]
        /\ \A i, j \in 0 .. Len(ns) : i <= j => D[i] <= D[j]
        /\ \A j \in 1 .. Len(ns) : FALSE
    BY <1>1, <2>1, <2>2
  <2> QED BY <1>1, <2>3 DEF Numbered
<1>3. Deep(ns, ls, D, B)
  BY DEF Deep
<1>4. \A i \in 0 .. 0 : Owns(ns, ls, D, B, O, i)
  <2>1. Owns(ns, ls, D, B, O, 0)
    <3>1. O[0] >= 0 /\ O[0] <= 0 /\ B[0+1] = B[0] /\ "root" \notin Binders /\ "root" # "let" /\ "root" # "loop"
      BY <1>1, RootFacts
    <3> QED BY <1>k, <3>1 DEF Owns
  <2> QED BY <2>1
<1>5. \A i \in 0 .. 0 : LastCaptured(ns, ls, B, i)
  BY DEF LastCaptured
<1>6. Leveled(ns, ls, D, B, O)
  BY <1>2, <1>3, <1>4, <1>5 DEF Leveled
<1>7. Valued("statement") = 0
  BY DEF Valued
<1>8. Balanced(ns, ls, st, "statement", 1, D, B, O)
  BY <1>1, <1>6, <1>7 DEF Balanced
<1> QED BY <1>8

-----------------------------------------------------------------------------
(***************************************************************************)
(* The invariant.                                                          *)
(***************************************************************************)
AnyConstruct ==
    [kind : {"block", "expression", "operand", "match", "arm", "give"}]
      \cup [kind : {"let", "bound arm"}, id : Ids]
      \cup [kind : {"loop"}, depth : Nat, hidden : Ids \cup {0}]

LocalRecords == [id : Ids, depth : Nat, captured : BOOLEAN]

Typed ==
    /\ nest \in Seq(AnyConstruct)
    /\ locals \in Seq(LocalRecords)
    /\ stack \in Seq(Ids \cup {0})
    /\ Len(stack) <= MaxStack
    /\ closed \subseteq Ids \cup {0}

LevelsInv == \E D, B, O : Balanced(nest, locals, stack, mode, scopeDepth, D, B, O)

ScopesInv == NestInv /\ Typed /\ LevelsInv

\* What a step must do with the captured locals.
Keeps ==
    \A q \in 1 .. Len(locals) :
       locals[q].captured /\ (\E k \in 1 .. Len(stack) : stack[k] = locals[q].id) =>
       \/ q \in 1 .. Len(stack') /\ stack'[q] = locals[q].id
       \/ locals[q].id \in closed'

\* The records of locals.
LEMMA TypedLocals ==
    ASSUME NEW ls \in Seq(LocalRecords)
    PROVE  /\ AreLocals(ls) /\ Len(ls) \in Nat /\ DOMAIN ls = 1 .. Len(ls)
           /\ \A q \in 1 .. Len(ls) : ls[q] \in LocalRecords /\ ls[q].id \in Ids
<1>1. Len(ls) \in Nat /\ DOMAIN ls = 1 .. Len(ls)
  BY LenProperties
<1>2. \A q \in 1 .. Len(ls) : ls[q] \in LocalRecords
  BY ElementOfSeq
<1>3. \A r \in LocalRecords : r.depth \in Nat /\ r.captured \in BOOLEAN /\ r.id \in Ids
  <2> HIDE DEF Ids
  <2> QED BY DEF LocalRecords
<1> QED BY <1>1, <1>2, <1>3 DEF AreLocals

\* Code of d pops takes the d topmost values.
LEMMA Executed ==
    ASSUME NEW S, stack \in Seq(S), NEW code, NEW d \in 0 .. Len(stack),
           Len(code) = d, DOMAIN code = 1 .. d, Execute(code)
    PROVE  /\ stack' \in Seq(S) /\ Len(stack') = Len(stack) - d
           /\ \A q \in 1 .. Len(stack) - d : stack'[q] = stack[q]
           /\ closed' = {stack[Len(stack) + 1 - i] : i \in {i \in 1 .. d : code[i] = "close"}}
<1> DEFINE h == Len(stack)
<1>1. h \in Nat /\ DOMAIN stack = 1 .. h
  BY LenProperties
<1>2. stack' = SubSeq(stack, 1, h - d)
  <2>1. stack' = SubSeq(stack, 1, IF d < h THEN h - d ELSE 0)
    BY DEF Execute
  <2>2. d \in 0 .. h /\ h \in Nat
    BY <1>1
  <2> HIDE DEF h
  <2>3. (IF d < h THEN h - d ELSE 0) = h - d
    BY <2>2
  <2> QED BY <2>1, <2>3
<1>3. h - d \in 0 .. h
  BY <1>1
<1>4. DOMAIN code \cap DOMAIN stack = 1 .. d
  BY <1>1
<1>5. closed' = {stack[h + 1 - i] : i \in {i \in 1 .. d : code[i] = "close"}}
  BY <1>4 DEF Execute
<1>6. /\ SubSeq(stack, 1, h - d) \in Seq(S) /\ Len(SubSeq(stack, 1, h - d)) = h - d
      /\ \A q \in 1 .. h - d : SubSeq(stack, 1, h - d)[q] = stack[q]
  BY <1>3, Prefix
<1> HIDE DEF h
<1>7. stack' \in Seq(S) /\ Len(stack') = h - d /\ \A q \in 1 .. h - d : stack'[q] = stack[q]
  BY <1>2, <1>6
<1> QED BY <1>5, <1>7 DEF h

\* Blocks and loops are left, down to level k.
Leaves(k, B, D, n) ==
    /\ k \in 0 .. n /\ Straight(nest, k) /\ K(nest, k) # "let"
    /\ locals' = SubSeq(locals, 1, B[k+1])
    /\ nest' = SubSeq(nest, 1, k)
    /\ scopeDepth' = D[k]
    /\ mode \in {"statement", "given"} /\ mode' = mode

\* A way out of blocks and loops: what is left of the stack is what the
\* compiler thinks, and the captured locals were closed.
LEMMA Left ==
    ASSUME NEW D, NEW B, NEW O, NEW n, NEW k, NEW code,
           Typed, Sound(nest, locals, n),
           Balanced(nest, locals, stack, mode, scopeDepth, D, B, O),
           Leaves(k, B, D, n),
           mode = "given" => \E a \in 1 .. k : Bare(nest, locals, B, O, a, k),
           Removes(code, locals, B[k+1]), Execute(code)
    PROVE  Typed' /\ LevelsInv' /\ Keeps
<1> DEFINE m == Len(locals)
           h == Len(stack)
           b == B[k+1]
           T == Ids \cup {0}
<1>p. n = Len(nest) /\ n \in Nat /\ Nesting(nest) /\ m \in Nat /\ AreLocals(locals)
  BY DEF Sound, AreLocals
<1>q. k \in 0 .. n /\ k \in Nat /\ Straight(nest, k) /\ K(nest, k) # "let"
  BY <1>p DEF Leaves
<1>r. locals' = SubSeq(locals, 1, b) /\ nest' = SubSeq(nest, 1, k) /\ scopeDepth' = D[k]
  BY DEF Leaves
<1>v. mode' = mode /\ Valued(mode) = 0 /\ Valued(mode') = 0 /\ mode # "value"
  BY DEF Leaves, Valued
<1>b. /\ Leveled(nest, locals, D, B, O) /\ h = m + O[n] + Valued(mode)
      /\ \A q \in 1 .. m : InItsSlot(locals, stack, mode, q)
      /\ mode = "given" => \E a \in 1 .. n : Bare(nest, locals, B, O, a, n)
  BY <1>p DEF Balanced
<1>s. StraightLevels(nest, locals, D, B, O, n, k)
  BY <1>p, <1>q, <1>b DEF StraightLevels
<1>n. /\ b \in Nat /\ b <= m /\ O[k] \in Int /\ O[n] \in Int /\ O[k] >= 0 /\ B[n+1] = m
  <2>1. B[k+1] \in Nat /\ B[k+1] <= Len(locals) /\ O[k] \in Int
    BY <1>p, <1>q, <1>b, LevelNumbers
  <2>2. O[n] \in Int
    <3>1. n \in 0 .. n
      BY <1>p
    <3> QED BY <1>p, <1>b, <3>1, LevelNumbers
  <2>3. O[k] >= 0
    BY <1>p, <1>q, <1>b DEF Leveled, Owns
  <2>4. B[n+1] = Len(locals)
    BY <1>p, <1>b DEF Leveled, Numbered
  <2> QED BY <2>1, <2>2, <2>3, <2>4
<1>1. O[n] = O[k] /\ (m > b => O[k] = 0)
  <2>1. \A j \in k .. n : O[j] = O[k] /\ (B[j+1] > B[k+1] => O[k] = 0)
    BY <1>s, StraightNumbers
  <2>2. n \in k .. n
    BY <1>p, <1>q
  <2> QED BY <1>n, <2>1, <2>2
<1>2. h = m + O[k]
  BY <1>b, <1>v, <1>n, <1>1, <1>p
<1> DEFINE d == m - b
<1>3. d \in 0 .. h /\ d \in Nat /\ h - d = b + O[k] /\ h \in Nat /\ (d > 0 => h = m /\ O[k] = 0)
  BY SMTT(30), <1>p, <1>n, <1>1, <1>2
<1>4. Len(code) = d /\ DOMAIN code = 1 .. d /\ \A i \in 1 .. d : code[i] = "close" <=> FromTop(locals, i).captured
  BY DEF Removes
<1>t. stack \in Seq(T) /\ locals \in Seq(LocalRecords) /\ nest \in Seq(AnyConstruct) /\ h <= MaxStack
  BY DEF Typed
<1>5. /\ stack' \in Seq(T) /\ Len(stack') = h - d
      /\ \A q \in 1 .. h - d : stack'[q] = stack[q]
      /\ closed' = {stack[h + 1 - i] : i \in {i \in 1 .. d : code[i] = "close"}}
  <2> HIDE DEF T, d
  <2> QED BY <1>3, <1>4, <1>t, Executed
<1>6. /\ locals' \in Seq(LocalRecords) /\ Len(locals') = b
      /\ \A q \in 1 .. b : locals'[q] = locals[q]
  <2>1. b \in 0 .. Len(locals)
    BY <1>p, <1>n
  <2>2. /\ SubSeq(locals, 1, b) \in Seq(LocalRecords) /\ Len(SubSeq(locals, 1, b)) = b
        /\ \A q \in 1 .. b : SubSeq(locals, 1, b)[q] = locals[q]
    BY <2>1, <1>t, Prefix
  <2> QED BY <1>r, <2>2
<1>7. nest' \in Seq(AnyConstruct) /\ Len(nest') = k /\ \A i \in 1 .. k : nest'[i] = nest[i]
  <2>2. /\ SubSeq(nest, 1, k) \in Seq(AnyConstruct) /\ Len(SubSeq(nest, 1, k)) = k
        /\ \A q \in 1 .. k : SubSeq(nest, 1, k)[q] = nest[q]
    BY <1>p, <1>q, <1>t, Prefix
  <2> QED BY <1>r, <2>2
<1>c. \A q \in 1 .. m : locals[q].captured => q \in 1 .. h /\ stack[q] = locals[q].id
  BY CapturedAt
<1>8. closed' \subseteq Ids
  <2> SUFFICES ASSUME NEW i \in 1 .. d, code[i] = "close" PROVE stack[h + 1 - i] \in Ids
    BY <1>5
  <2>1. FromTop(locals, i).captured
    BY <1>4
  <2>2. h = m /\ m + 1 - i \in 1 .. m
    BY SMTT(30), <1>3, <1>p, <1>n
  <2>3. locals[m + 1 - i].captured
    BY <2>1 DEF FromTop
  <2>4. stack[m + 1 - i] = locals[m + 1 - i].id
    BY <1>c, <2>2, <2>3
  <2>5. locals[m + 1 - i].id \in Ids
    BY <1>t, <2>2, TypedLocals
  <2> QED BY <2>2, <2>4, <2>5
<1>9. Keeps
  <2> SUFFICES ASSUME NEW q \in 1 .. m, locals[q].captured,
                      ~(q \in 1 .. Len(stack') /\ stack'[q] = locals[q].id)
               PROVE  locals[q].id \in closed'
    BY DEF Keeps
  <2>1. q \in 1 .. h /\ stack[q] = locals[q].id
    BY <1>c
  <2>2. q > b
    <3> SUFFICES ASSUME q <= b PROVE FALSE
      BY <1>n
    <3>1. q \in 1 .. h - d
      BY <1>3, <1>n
    <3> QED BY <1>5, <2>1, <3>1
  <2> DEFINE i == m + 1 - q
  <2>3. i \in 1 .. d /\ m + 1 - i = q /\ d > 0
    BY <1>p, <1>n, <2>2
  <2>4. FromTop(locals, i).captured
    BY <2>3 DEF FromTop
  <2>5. code[i] = "close"
    BY <1>4, <2>3, <2>4
  <2>6. h + 1 - i = q
    BY <1>3, <2>3
  <2> HIDE DEF i, d
  <2>7. stack[h + 1 - i] \in closed'
    BY <1>5, <2>3, <2>5
  <2> QED BY <2>1, <2>6, <2>7
<1>10. Cuts(nest, nest', locals, locals', stack', mode', B, O, k)
  <2>1. Len(stack') = B[k+1] + O[k] + Valued(mode')
    BY <1>3, <1>5, <1>v, <1>n
  <2>2. ASSUME NEW q \in 1 .. B[k+1] PROVE InItsSlot(locals, stack', mode', q)
    <3>1. q \in 1 .. h - d /\ h - d <= h /\ q \in 1 .. m
      <4>1. /\ b \in Nat /\ b <= m /\ m \in Nat /\ O[k] \in Int /\ O[k] >= 0
            /\ d \in Nat /\ h \in Nat /\ h - d = b + O[k] /\ q \in 1 .. b
        BY <1>3, <1>n, <1>p
      <4> HIDE DEF b, d, h, m
      <4> QED BY <4>1
    <3>2. InItsSlot(locals, stack, mode, q) /\ stack'[q] = stack[q] /\ Len(stack') = h - d
      BY <1>b, <1>5, <3>1
    <3> HIDE DEF d
    <3>3. q < Len(stack') => q < h
      BY <1>3, <3>1, <3>2
    <3>4. q \in 1 .. Len(stack')
      BY <3>1, <3>2
    <3> QED BY <1>v, <3>2, <3>3, <3>4 DEF InItsSlot
  <2>3. mode' = "given" => \E a \in 1 .. k : Bare(nest, locals, B, O, a, k)
    BY <1>v
  <2> QED BY <1>p, <1>q, <1>6, <1>7, <2>1, <2>2, <2>3 DEF Cuts
<1>11. Balanced(nest', locals', stack', mode', scopeDepth', D, B, O)
  BY <1>b, <1>r, <1>10, CutBalanced
<1>12. Len(stack') <= MaxStack
  BY <1>3, <1>5, <1>t, <1>n, BoundsAssumption
<1> QED BY <1>5, <1>6, <1>7, <1>8, <1>9, <1>11, <1>12 DEF Typed, LevelsInv

-----------------------------------------------------------------------------
(***************************************************************************)
(* There are always enough ids for the names that are declared.            *)
(***************************************************************************)
LEMMA ImageIsSmall ==
    ASSUME NEW S, NEW T, NEW f, f \in Surjection(S, T), IsFiniteSet(S)
    PROVE  IsFiniteSet(T) /\ Cardinality(T) <= Cardinality(S)
BY FS_Surjection

\* Another id than those in use, and than x if e = 1.
LEMMA SomeId ==
    ASSUME Typed, NEW e \in 0 .. 1, NEW x, Len(stack) + Len(locals) + e < 2 * MaxStack
    PROVE  \E id \in Unused : e = 1 => id # x
<1> DEFINE h == Len(stack)
           m == Len(locals)
           N == h + m + e
           g == [i \in 1 .. N |-> IF i <= h THEN stack[i]
                                  ELSE IF i <= h + m THEN locals[i - h].id ELSE x]
           R == {g[i] : i \in 1 .. N}
<1>1. h \in Nat /\ m \in Nat /\ DOMAIN stack = 1 .. h /\ DOMAIN locals = 1 .. m /\ N \in Nat
  BY LenProperties DEF Typed
<1> SUFFICES ASSUME \A id \in Unused : e = 1 /\ id = x
             PROVE  FALSE
  OBVIOUS
<1>2. IsFiniteSet(1 .. N) /\ Cardinality(1 .. N) <= N
  <2> HIDE DEF N
  <2>1. 1 \in Int /\ N \in Int
    BY <1>1
  <2>2. IsFiniteSet(1 .. N) /\ Cardinality(1 .. N) = IF 1 > N THEN 0 ELSE N - 1 + 1
    BY <2>1, FS_Interval
  <2> QED BY <1>1, <2>2
<1>3. IsFiniteSet(R) /\ Cardinality(R) <= Cardinality(1 .. N)
  <2> HIDE DEF N
  <2>1. g \in Surjection(1 .. N, R)
    <3>1. g \in [1 .. N -> R] /\ \A r \in R : \E i \in 1 .. N : g[i] = r
      OBVIOUS
    <3> HIDE DEF g
    <3> QED BY <3>1 DEF Surjection
  <2> HIDE DEF g, R
  <2> QED BY <1>2, <2>1, ImageIsSmall
<1>4. Ids \subseteq R
  <2> SUFFICES ASSUME NEW id \in Ids PROVE \E i \in 1 .. N : g[i] = id
    OBVIOUS
  <2>1. CASE id \in Unused
    <3>1. N \in 1 .. N /\ ~(N <= h) /\ ~(N <= h + m) /\ e = 1 /\ id = x
      BY <1>1, <2>1
    <3> QED BY <3>1
  <2>2. CASE id \notin Unused
    <3>1. (\E i \in 1 .. h : stack[i] = id) \/ (\E i \in 1 .. m : locals[i].id = id)
      BY <1>1, <2>2 DEF Unused
    <3>2. ASSUME NEW i \in 1 .. h, stack[i] = id PROVE \E j \in 1 .. N : g[j] = id
      <4>1. i \in 1 .. N /\ i <= h
        BY <1>1
      <4> QED BY <3>2, <4>1
    <3>3. ASSUME NEW i \in 1 .. m, locals[i].id = id PROVE \E j \in 1 .. N : g[j] = id
      <4>1. h + i \in 1 .. N /\ ~(h + i <= h) /\ h + i <= h + m /\ h + i - h = i
        BY <1>1
      <4> QED BY <3>3, <4>1
    <3> QED BY <3>1, <3>2, <3>3
  <2> QED BY <2>1, <2>2
<1>5. Cardinality(Ids) = 2 * MaxStack
  <2>1. 1 \in Int /\ 2 * MaxStack \in Int /\ 2 * MaxStack >= 0
    BY BoundsAssumption
  <2>2. Cardinality(Ids) = IF 1 > 2 * MaxStack THEN 0 ELSE 2 * MaxStack - 1 + 1
    BY <2>1, FS_Interval DEF Ids
  <2> QED BY <2>1, <2>2
<1>6. Cardinality(Ids) <= Cardinality(R) /\ Cardinality(R) \in Nat /\ Cardinality(1 .. N) \in Nat
  BY <1>2, <1>3, <1>4, FS_Subset, FS_CardinalityType
<1> HIDE DEF R
<1> QED BY <1>1, <1>2, <1>3, <1>5, <1>6, BoundsAssumption

\* The first and the second unused id.
LEMMA FreshIsUnused ==
    ASSUME Typed
    PROVE  /\ Len(stack) + Len(locals) < 2 * MaxStack => FreshId(1) \in Unused
           /\ Len(stack) + Len(locals) + 1 < 2 * MaxStack => FreshId(2) \in Unused
           /\ Unused \subseteq Ids
<1>1. Unused \subseteq Ids /\ Unused \in SUBSET Nat
  <2>1. Unused \subseteq Ids
    BY DEF Unused
  <2>2. Ids \subseteq Nat
    BY DEF Ids
  <2> QED BY <2>1, <2>2
<1>l. Len(stack) \in Nat /\ Len(locals) \in Nat
  BY LenProperties DEF Typed
<1>2. ASSUME Len(stack) + Len(locals) < 2 * MaxStack
      PROVE  \E a \in Unused : /\ \A b \in Unused : a <= b
                               /\ Unused \cap (1 .. a) = {a}
  <2>1. 0 \in 0 .. 1 /\ Len(stack) + Len(locals) + 0 < 2 * MaxStack
    BY <1>2, <1>l
  <2>2. Unused # {}
    BY <2>1, SomeId
  <2>3. PICK a \in Unused : \A b \in Unused : a <= b
    BY <1>1, <2>2, LeastNat
  <2>4. a \in 1 .. a /\ a \in Nat
    BY <1>1 DEF Ids
  <2>5. \A b \in Unused \cap (1 .. a) : b = a
    BY <1>1, <2>3
  <2> QED BY <2>3, <2>4, <2>5
<1>3. ASSUME Len(stack) + Len(locals) < 2 * MaxStack PROVE FreshId(1) \in Unused
  <2>1. PICK a \in Unused : Unused \cap (1 .. a) = {a}
    BY <1>2, <1>3
  <2>2. Cardinality(Unused \cap (1 .. a)) = 1
    BY <2>1, FS_Singleton
  <2> QED BY <2>2 DEF FreshId
<1>4. ASSUME Len(stack) + Len(locals) + 1 < 2 * MaxStack PROVE FreshId(2) \in Unused
  <2>1. PICK a \in Unused : (\A b \in Unused : a <= b) /\ Unused \cap (1 .. a) = {a}
    BY <1>2, <1>4, <1>l, BoundsAssumption
  <2>2. \E b \in Unused : b # a
    <3>1. 1 \in 0 .. 1
      OBVIOUS
    <3> QED BY <1>4, <3>1, SomeId
  <2> DEFINE T == Unused \ {a}
  <2>3. T # {} /\ T \in SUBSET Nat
    BY <1>1, <2>2
  <2>4. PICK b \in T : \A c \in T : b <= c
    <3> HIDE DEF T
    <3> QED BY <2>3, LeastNat
  <2>5. b \in Unused /\ b # a /\ a \in Nat /\ b \in Nat /\ a <= b /\ a \in Ids /\ b \in Ids
    BY <1>1, <2>1
  <2>6. Unused \cap (1 .. b) = {a} \cup {b}
    <3>1. a \in 1 .. b /\ b \in 1 .. b
      BY <2>5 DEF Ids
    <3>2. ASSUME NEW c \in Unused \cap (1 .. b) PROVE c = a \/ c = b
      <4> SUFFICES ASSUME c # a PROVE c = b
        OBVIOUS
      <4>1. c \in T /\ c <= b /\ c \in Nat
        BY <1>1, <2>5
      <4> QED BY <2>4, <2>5, <4>1
    <3> QED BY <2>1, <2>5, <3>1, <3>2
  <2>7. Cardinality({a} \cup {b}) = 2
    <3>1. IsFiniteSet({a}) /\ Cardinality({a}) = 1 /\ b \notin {a}
      BY <2>5, FS_Singleton
    <3> QED BY <3>1, FS_AddElement
  <2> QED BY <2>5, <2>6, <2>7 DEF FreshId
<1> QED BY <1>1, <1>3, <1>4

-----------------------------------------------------------------------------
(***************************************************************************)
(* The steps.                                                              *)
(***************************************************************************)
Now(D, B, O, n) ==
    /\ NestInv /\ Typed
    /\ Balanced(nest, locals, stack, mode, scopeDepth, D, B, O)
    /\ n = Len(nest)

Slots == Ids \cup {0}

\* The invariant gives the numbers of the levels.
LEMMA NowExists ==
    ASSUME ScopesInv
    PROVE  \E D, B, O, n : Now(D, B, O, n)
BY DEF ScopesInv, LevelsInv, Now

\* What is known before a step.
LEMMA NowFacts ==
    ASSUME NEW D, NEW B, NEW O, NEW n, Now(D, B, O, n)
    PROVE  /\ n = Len(nest) /\ n \in Nat /\ n \in 0 .. n
           /\ Sound(nest, locals, n) /\ Leveled(nest, locals, D, B, O)
           /\ scopeDepth = D[n] /\ D[n] \in Nat /\ D[n] >= 1
           /\ O[n] \in Int /\ O[n] >= -1 /\ B[n+1] = Len(locals)
           /\ (O[n] < 0 => K(nest, n) = "let")
           /\ Len(locals) \in Nat /\ Len(stack) \in Nat /\ Len(stack) <= MaxStack
           /\ Len(stack) = Len(locals) + O[n] + Valued(mode)
           /\ stack \in Seq(Slots) /\ locals \in Seq(LocalRecords) /\ nest \in Seq(AnyConstruct)
           /\ \A q \in 1 .. Len(locals) : InItsSlot(locals, stack, mode, q)
           /\ \A q \in 1 .. Len(locals) : locals[q].captured =>
                 q \in 1 .. Len(stack) /\ stack[q] = locals[q].id
<1>t. /\ stack \in Seq(Slots) /\ locals \in Seq(LocalRecords) /\ nest \in Seq(AnyConstruct)
      /\ Len(stack) <= MaxStack
  BY DEF Now, Typed, Slots
<1>1. n = Len(nest) /\ n \in Nat /\ n \in 0 .. n /\ Len(stack) \in Nat
  BY <1>t, LenProperties DEF Now
<1>2. AreLocals(locals) /\ Len(locals) \in Nat
  BY <1>t, TypedLocals
<1>3. Sound(nest, locals, n)
  BY <1>1, <1>2 DEF Now, NestInv, Sound
<1>4. /\ Leveled(nest, locals, D, B, O) /\ scopeDepth = D[n]
      /\ Len(stack) = Len(locals) + O[n] + Valued(mode)
      /\ \A q \in 1 .. Len(locals) : InItsSlot(locals, stack, mode, q)
  BY <1>1 DEF Now, Balanced
<1>5. D[n] \in Nat /\ D[n] >= 1 /\ O[n] \in Int
  BY <1>1, <1>4, LevelNumbers
<1>6. O[n] >= -1 /\ (O[n] < 0 => K(nest, n) = "let")
  <2>1. Owns(nest, locals, D, B, O, n)
    BY <1>1, <1>4 DEF Leveled
  <2>2. (K(nest, n) # "let" => O[n] >= 0) /\ (K(nest, n) = "let" => O[n] = -1)
    BY <2>1 DEF Owns
  <2> QED BY <1>5, <2>2
<1>7. B[n+1] = Len(locals)
  BY <1>1, <1>4 DEF Leveled, Numbered
<1>8. \A q \in 1 .. Len(locals) : locals[q].captured =>
                 q \in 1 .. Len(stack) /\ stack[q] = locals[q].id
  <2>1. Balanced(nest, locals, stack, mode, scopeDepth, D, B, O)
    BY DEF Now
  <2> QED BY <1>3, <2>1, CapturedAt
<1> QED BY <1>t, <1>1, <1>2, <1>3, <1>4, <1>5, <1>6, <1>7, <1>8

\* A construct c is opened; x: what is declared, and put on the stack, is right.
Opened(c, D, B, O, n) ==
    /\ c \in AnyConstruct
    /\ nest' = Append(nest, c)
    /\ scopeDepth' = scopeDepth + Deepens(c.kind)
    /\ Same(mode) /\ Same(mode')
    /\ closed' = {}
    /\ locals' \in Seq(LocalRecords) /\ stack' \in Seq(Slots) /\ Len(stack') <= MaxStack
    /\ Pushes(locals, locals', stack, stack', c.kind)

\* A step that opens a construct.
LEMMA PushStep ==
    ASSUME NEW c, NEW D, NEW B, NEW O, NEW n, Now(D, B, O, n), Opened(c, D, B, O, n),
           Opens(nest, nest', c, locals, locals', D, B, O)
    PROVE  Typed' /\ LevelsInv' /\ Keeps
<1>1. /\ Sound(nest, locals, n)
      /\ \A q \in 1 .. Len(locals) : locals[q].captured =>
            q \in 1 .. Len(stack) /\ stack[q] = locals[q].id
      /\ nest \in Seq(AnyConstruct)
  BY NowFacts
<1>2. Balanced(nest, locals, stack, mode, scopeDepth, D, B, O)
  BY DEF Now
<1>3. PICK kind : kind = c.kind
  OBVIOUS
<1>4. /\ Pushes(locals, locals', stack, stack', kind)
      /\ scopeDepth' = scopeDepth + Deepens(kind) /\ Same(mode) /\ Same(mode')
  BY <1>3 DEF Opened
<1>5. \E E, A, P : Balanced(nest', locals', stack', mode', scopeDepth', E, A, P)
  BY <1>1, <1>2, <1>3, <1>4, PushBalanced
<1>6. Typed'
  <2>1. nest' \in Seq(AnyConstruct)
    BY <1>1, AppendProperties DEF Opened
  <2> QED BY <2>1 DEF Opened, Typed, Slots
<1>7. Keeps
  <2> SUFFICES ASSUME NEW q \in 1 .. Len(locals), locals[q].captured
               PROVE  q \in 1 .. Len(stack') /\ stack'[q] = locals[q].id
    BY DEF Keeps
  <2>1. q \in 1 .. Len(stack) /\ stack[q] = locals[q].id /\ Len(stack) \in Nat
    BY <1>1 DEF Opened, Pushes
  <2> QED BY <1>4, <2>1 DEF Pushes
<1> QED BY <1>5, <1>6, <1>7 DEF LevelsInv

Simple == {"block", "expression", "operand", "match", "arm", "give"}

\* One that declares nothing.
LEMMA SimpleStep ==
    ASSUME NEW c, NEW D, NEW B, NEW O, NEW n, NEW kind, Now(D, B, O, n),
           c = [kind |-> kind], kind \in Simple,
           nest' = Append(nest, c), scopeDepth' = scopeDepth + Deepens(kind), locals' = locals,
           Same(mode), Same(mode'), closed' = {},
           \/ Gains(kind) = 0 /\ O[n] >= 0 /\ stack' = stack
           \/ Gains(kind) = 1 /\ stack' = Append(stack, 0) /\ Len(stack) < MaxStack,
           kind = "give" => \E a \in 1 .. n : Bare(nest, locals, B, O, a, n)
    PROVE  Typed' /\ LevelsInv' /\ Keeps
<1>1. /\ n = Len(nest) /\ n \in Nat /\ O[n] \in Int /\ O[n] >= -1
      /\ Len(locals) \in Nat /\ Len(stack) \in Nat /\ Len(stack) <= MaxStack
      /\ stack \in Seq(Slots) /\ locals \in Seq(LocalRecords) /\ nest \in Seq(AnyConstruct)
  BY NowFacts
<1>2. c.kind = kind /\ c \in AnyConstruct
  <2>1. kind \in {"block", "expression", "operand", "match", "arm", "give"}
    BY DEF Simple
  <2>2. c \in [kind : {"block", "expression", "operand", "match", "arm", "give"}]
    BY <2>1
  <2> QED BY <2>2 DEF AnyConstruct
<1>k. kind \notin {"loop", "let", "bound arm"} /\ kind \notin Binders /\ kind # "loop" /\ kind # "let"
  BY DEF Simple, Binders
<1>3. /\ Len(nest') = n + 1 /\ nest'[n+1] = c /\ \A i \in 1 .. n : nest'[i] = nest[i]
  BY <1>1, <1>2, StackPush
<1>4. O[n] + Gains(kind) >= 0
  BY <1>1
<1>5. Opens(nest, nest', c, locals, locals', D, B, O)
  <2>1. \A q \in Len(locals)+1 .. Len(locals) : FALSE
    BY <1>1
  <2>2. ~(Len(locals) > Len(locals)) /\ Len(locals) <= Len(locals)
    BY <1>1
  <2> QED BY <1>1, <1>2, <1>k, <1>3, <1>4, <2>1, <2>2 DEF Opens
<1>6. /\ stack' \in Seq(Slots) /\ Len(stack') <= MaxStack /\ Len(stack') = Len(stack) + Gains(kind)
      /\ \A q \in 1 .. Len(stack) : q \in 1 .. Len(stack') /\ stack'[q] = stack[q]
  <2>1. CASE Gains(kind) = 0 /\ O[n] >= 0 /\ stack' = stack
    BY <1>1, <2>1
  <2>2. CASE Gains(kind) = 1 /\ stack' = Append(stack, 0) /\ Len(stack) < MaxStack
    <3>1. 0 \in Slots
      BY DEF Slots
    <3>2. /\ stack' \in Seq(Slots) /\ Len(stack') = Len(stack) + 1
          /\ \A q \in 1 .. Len(stack) : stack'[q] = stack[q]
      BY <1>1, <2>2, <3>1, StackPush
    <3> QED BY <1>1, <2>2, <3>2, BoundsAssumption
  <2> QED BY <2>1, <2>2
<1>7. Pushes(locals, locals', stack, stack', kind)
  <2>1. \A q \in 1 .. Len(locals) : q <= Len(stack) => q \in 1 .. Len(stack') /\ stack'[q] = stack[q]
    <3>1. \A q \in 1 .. Len(locals) : q <= Len(stack) => q \in 1 .. Len(stack)
      BY <1>1
    <3> QED BY <1>6, <3>1
  <2>2. \A q \in Len(locals)+1 .. Len(locals) : FALSE
    BY <1>1
  <2>3. Len(stack') = Len(stack) + (Len(locals) - Len(locals)) + Gains(kind)
    BY <1>1, <1>6
  <2> QED BY <1>1, <2>1, <2>2, <2>3 DEF Pushes
<1>8. Opened(c, D, B, O, n)
  BY <1>1, <1>2, <1>6, <1>7 DEF Opened
<1> QED BY <1>5, <1>8, PushStep

-----------------------------------------------------------------------------
\* Among statements the innermost construct is no declaration.
LEMMA InBody ==
    ASSUME NEW D, NEW B, NEW O, NEW n, Now(D, B, O, n), mode \in {"statement", "given"}
    PROVE  /\ K(nest, n) \in Bodies /\ K(nest, n) # "let" /\ O[n] >= 0
           /\ Valued(mode) = 0 /\ mode # "value"
           /\ Len(stack) = Len(locals) + O[n]
<1>1. n = Len(nest) /\ O[n] \in Int /\ (O[n] < 0 => K(nest, n) = "let")
      /\ Len(stack) = Len(locals) + O[n] + Valued(mode) /\ Len(locals) \in Nat
  BY NowFacts
<1>2. K(nest, n) \in Bodies
  BY <1>1 DEF Now, NestInv, ModeFits
<1>3. K(nest, n) # "let"
  BY <1>2 DEF Bodies
<1>4. Valued(mode) = 0 /\ mode # "value"
  BY DEF Valued
<1> QED BY <1>1, <1>2, <1>3, <1>4

\* A local's record.
LEMMA LocalIs ==
    ASSUME NEW id \in Ids, NEW depth \in Nat
    PROVE  /\ Local(id, depth) \in LocalRecords /\ Local(id, depth).id = id
           /\ Local(id, depth).depth = depth /\ Local(id, depth).captured = FALSE
<1> HIDE DEF Ids
<1> QED BY DEF Local, LocalRecords

\* Locals are declared one after the other, from the ids g.
Declared(g, x, depth) ==
    /\ locals' \in Seq(LocalRecords) /\ Len(locals') = Len(locals) + x
    /\ \A q \in 1 .. Len(locals) : locals'[q] = locals[q]
    /\ \A i \in 1 .. x : /\ locals'[Len(locals) + i].id = g[i]
                         /\ locals'[Len(locals) + i].depth = depth
                         /\ locals'[Len(locals) + i].captured = FALSE

\* One more local.
LEMMA DeclareOne ==
    ASSUME locals \in Seq(LocalRecords), NEW id \in Ids, NEW depth \in Nat,
           locals' = Append(locals, Local(id, depth))
    PROVE  /\ locals' \in Seq(LocalRecords) /\ Len(locals') = Len(locals) + 1
           /\ \A q \in 1 .. Len(locals) : locals'[q] = locals[q]
           /\ locals'[Len(locals) + 1].id = id
           /\ locals'[Len(locals) + 1].depth = depth
           /\ locals'[Len(locals) + 1].captured = FALSE
<1>1. PICK r : r = Local(id, depth)
  OBVIOUS
<1>2. r \in LocalRecords /\ r.id = id /\ r.depth = depth /\ r.captured = FALSE
  BY <1>1, LocalIs
<1>3. /\ locals' \in Seq(LocalRecords) /\ Len(locals') = Len(locals) + 1
      /\ locals'[Len(locals) + 1] = r
      /\ \A q \in 1 .. Len(locals) : locals'[q] = locals[q]
  BY <1>1, <1>2, StackPush
<1> QED BY <1>2, <1>3

\* var_declaration
LEMMA LetStep ==
    ASSUME Idioms = {}, NEW D, NEW B, NEW O, NEW n, Now(D, B, O, n), BeginLet
    PROVE  Typed' /\ LevelsInv' /\ Keeps
<1> DEFINE m == Len(locals)
           h == Len(stack)
<1>f. /\ n = Len(nest) /\ n \in Nat /\ n \in 0 .. n /\ Sound(nest, locals, n)
      /\ scopeDepth = D[n] /\ D[n] \in Nat /\ O[n] \in Int /\ B[n+1] = m
      /\ m \in Nat /\ h \in Nat /\ h <= MaxStack
      /\ stack \in Seq(Slots) /\ locals \in Seq(LocalRecords) /\ nest \in Seq(AnyConstruct)
      /\ Leveled(nest, locals, D, B, O)
  BY NowFacts
<1>a. /\ mode = "statement" /\ ~IsIn("loop") /\ ~IsIn("arm") /\ ~IsIn("bound arm")
      /\ h = m /\ h < MaxStack
      /\ ~\E i \in DOMAIN locals : /\ locals[i].captured
                                   /\ locals[i].depth = scopeDepth
                                   /\ scopeDepth > 1
      /\ locals' = Append(locals, Local(Fresh, NoDepth))
      /\ nest' = Append(nest, [kind |-> "let", id |-> Fresh])
      /\ mode' = "expression" /\ closed' = {} /\ scopeDepth' = scopeDepth /\ stack' = stack
  BY DEF BeginLet, Parsing, NoTemporary, Open
<1>b. K(nest, n) \in Bodies /\ O[n] = 0 /\ h = m + O[n]
  <2>1. mode \in {"statement", "given"}
    BY <1>a
  <2>2. K(nest, n) \in Bodies /\ Len(stack) = Len(locals) + O[n]
    BY <2>1, InBody
  <2>3. O[n] \in Int /\ m \in Nat /\ h = m
    BY <1>a, <1>f
  <2> QED BY <2>2, <2>3
<1>c. K(nest, n) \in Hosts /\ (n > 0 => K(nest, n) = "block")
  <2>1. CASE n = 0
    BY <2>1 DEF K, Hosts
  <2>2. CASE n # 0
    <3>1. nest # <<>>
      BY <1>f, <2>2, MatchesAreFew DEF Now, NestInv
    <3>2. Sq!Last(nest) = nest[n] /\ K(nest, n) = nest[n].kind
      BY <1>f, <2>2 DEF Sq!Last, K
    <3>3. K(nest, n) \notin {"loop", "arm", "bound arm"}
      BY <1>a, <3>1, <3>2 DEF IsIn
    <3>4. K(nest, n) # "root"
      <4>1. Fits(K(nest, n-1), K(nest, n))
        BY <1>f, <2>2 DEF Sound, Nesting
      <4> QED BY <4>1 DEF Fits, Arms
    <3> QED BY <1>b, <3>3, <3>4 DEF Bodies, Hosts
  <2> QED BY <2>1, <2>2
<1>d. Fresh \in Ids
  <2>1. Typed
    BY DEF Now
  <2>2. h < MaxStack /\ m = h /\ h \in Nat /\ MaxStack \in Nat
    BY <1>a, <1>f, BoundsAssumption
  <2>3. Len(stack) + Len(locals) < 2 * MaxStack
    BY <2>2
  <2> QED BY <2>1, <2>3, FreshIsUnused DEF Fresh
<1>1. PICK c : c = [kind |-> "let", id |-> Fresh]
  OBVIOUS
<1>2. c.kind = "let" /\ c.id = Fresh /\ c \in AnyConstruct /\ nest' = Append(nest, c)
  <2>1. c \in [kind : {"let", "bound arm"}, id : Ids]
    BY <1>1, <1>d
  <2> QED BY <1>1, <1>a, <2>1 DEF AnyConstruct
<1>3. /\ Len(nest') = n + 1 /\ nest'[n+1] = c /\ \A i \in 1 .. n : nest'[i] = nest[i]
  BY <1>f, <1>2, StackPush
<1>4. /\ locals' \in Seq(LocalRecords) /\ Len(locals') = m + 1
      /\ \A q \in 1 .. m : locals'[q] = locals[q]
      /\ locals'[m+1].id = Fresh /\ locals'[m+1].depth = NoDepth /\ locals'[m+1].captured = FALSE
  <2>1. NoDepth \in Nat
    BY DEF NoDepth
  <2> QED BY <1>a, <1>d, <1>f, <2>1, DeclareOne
<1>g. Gains("let") = -1 /\ Deepens("let") = 0
  BY DEF Gains, Deepens, Scoping
<1>5. n > 0 => \A q \in 1 .. m : B[n] < q => ~locals[q].captured
  <2> SUFFICES ASSUME n > 0, NEW q \in 1 .. m, B[n] < q, locals[q].captured PROVE FALSE
    OBVIOUS
  <2>1. locals[q].depth # NoDepth
    <3>1. Balanced(nest, locals, stack, mode, scopeDepth, D, B, O)
      BY DEF Now
    <3> QED BY <1>f, <3>1, CapturedAt
  <2>2. locals[q].depth <= D[n] /\ locals[q].depth >= D[n] /\ locals[q].depth \in Nat
    <3>1. Deep(nest, locals, D, B) /\ q <= B[n+1] /\ q > B[n] /\ q \in 1 .. Len(locals) /\ n \in 0 .. Len(nest)
      <4>1. B[n] \in Nat
        BY <1>f, LevelNumbers
      <4> QED BY <1>f, <4>1 DEF Leveled
    <3>2. locals[q].depth \in Nat
      BY <1>f, TypedLocals DEF AreLocals
    <3> QED BY <2>1, <3>1, <3>2 DEF Deep
  <2>3. D[n] > 1
    <3>1. n \in 1 .. n /\ n - 1 \in 0 .. n
      BY <1>f
    <3>2. D[n] = D[n-1] + Deepens(K(nest, n))
      BY <1>f, <3>1 DEF Leveled, Numbered
    <3>3. Deepens(K(nest, n)) = 1
      BY <1>c DEF Deepens, Scoping
    <3>4. D[n-1] \in Nat /\ D[n-1] >= 1
      BY <1>f, <3>1, LevelNumbers
    <3> QED BY <3>2, <3>3, <3>4
  <2>4. q \in DOMAIN locals
    BY <1>f, TypedLocals
  <2>5. locals[q].depth = scopeDepth /\ scopeDepth > 1
    <3>1. scopeDepth = D[n] /\ D[n] \in Nat
      BY <1>f
    <3> QED BY <2>2, <2>3, <3>1
  <2>6. ~\E i \in DOMAIN locals : /\ locals[i].captured
                                   /\ locals[i].depth = scopeDepth
                                   /\ scopeDepth > 1
    BY <1>a
  <2> QED BY <2>4, <2>5, <2>6
<1>6. Opens(nest, nest', c, locals, locals', D, B, O)
  <2>1. \A q \in m+1 .. m+1 : q = m + 1
    BY <1>f
  <2>2. \A q \in m+1 .. m+1 : locals'[q].depth = NoDepth /\ ~locals'[q].captured
    BY <1>4, <2>1
  <2>3. /\ "let" \notin {"loop", "bound arm"} /\ "let" # "loop" /\ "let" # "give"
    OBVIOUS
  <2>4. m + 1 \in Nat /\ m <= m + 1
    BY <1>f
  <2> HIDE DEF m
  <2> QED BY <1>b, <1>c, <1>2, <1>3, <1>4, <1>5, <1>f, <2>2, <2>3, <2>4 DEF Opens, m
<1>7. Pushes(locals, locals', stack, stack', "let")
  <2>1. \A q \in m+1 .. m+1 : q = m + 1
    BY <1>f
  <2>2. h = h + (m + 1 - m) + (-1) /\ h \in Nat
    BY <1>f
  <2>3. stack' = stack
    BY <1>a
  <2>4. \A q \in m+1 .. m+1 : locals'[q].depth = NoDepth
    BY <1>4, <2>1
  <2>5. \A q \in 1 .. m : q <= h => q \in 1 .. h
    BY <1>f
  <2> QED BY <1>4, <1>g, <2>2, <2>3, <2>4, <2>5 DEF Pushes
<1>8. Opened(c, D, B, O, n)
  <2>1. Same(mode) /\ Same(mode')
    BY <1>a DEF Same
  <2>2. scopeDepth' = scopeDepth + Deepens("let")
    <3>1. scopeDepth \in Nat /\ scopeDepth' = scopeDepth
      BY <1>a, <1>f
    <3> QED BY <1>g, <3>1
  <2>3. stack' \in Seq(Slots) /\ Len(stack') <= MaxStack /\ closed' = {}
    BY <1>a, <1>f
  <2> QED BY <1>2, <1>4, <1>7, <2>1, <2>2, <2>3 DEF Opened
<1> QED BY <1>6, <1>8, PushStep

-----------------------------------------------------------------------------
\* A sequence with the values of f appended.
LEMMA StackPushAll ==
    ASSUME NEW S, NEW s \in Seq(S), NEW x \in Nat, NEW f \in [1 .. x -> S]
    PROVE  LET t == s \o f
           IN  /\ t \in Seq(S) /\ Len(t) = Len(s) + x
               /\ \A i \in 1 .. Len(s) : t[i] = s[i]
               /\ \A i \in 1 .. x : t[Len(s) + i] = f[i]
<1>1. f \in Seq(S) /\ Len(f) = x
  BY FunSeq
<1> DEFINE t == s \o f
<1>2. /\ t \in Seq(S) /\ Len(t) = Len(s) + Len(f)
      /\ \A i \in 1 .. Len(s) + Len(f) :
            t[i] = IF i <= Len(s) THEN s[i] ELSE f[i - Len(s)]
  BY <1>1, ConcatProperties
<1>e. t = s \o f
  OBVIOUS
<1> HIDE DEF t
<1>3. Len(s) \in Nat
  BY LenProperties
<1>4. \A i \in 1 .. Len(s) + x : t[i] = IF i <= Len(s) THEN s[i] ELSE f[i - Len(s)]
  BY <1>1, <1>2
<1>5. ASSUME NEW i \in 1 .. Len(s) PROVE t[i] = s[i]
  <2>1. i \in 1 .. Len(s) + x /\ i <= Len(s)
    BY <1>3
  <2> QED BY <1>4, <2>1
<1>6. ASSUME NEW i \in 1 .. x PROVE t[Len(s) + i] = f[i]
  <2>1. /\ Len(s) + i \in 1 .. Len(s) + x /\ ~(Len(s) + i <= Len(s))
        /\ Len(s) + i - Len(s) = i
    BY <1>3
  <2> QED BY <1>4, <2>1
<1>7. t \in Seq(S) /\ Len(t) = Len(s) + x
  BY <1>1, <1>2
<1> QED BY <1>5, <1>6, <1>7, <1>e

\* while_statement, for_statement
LEMMA LoopStep ==
    ASSUME Idioms = {}, NEW D, NEW B, NEW O, NEW n, Now(D, B, O, n),
           NEW x \in 0 .. 2, BeginLoop(x)
    PROVE  Typed' /\ LevelsInv' /\ Keeps
<1> DEFINE m == Len(locals)
           h == Len(stack)
           d == scopeDepth + 1
           lf == [i \in 1 .. x |-> Local(FreshId(i), d)]
           sf == [i \in 1 .. x |-> FreshId(i)]
<1>f. /\ n = Len(nest) /\ n \in Nat /\ n \in 0 .. n /\ Sound(nest, locals, n)
      /\ scopeDepth = D[n] /\ D[n] \in Nat /\ O[n] \in Int /\ B[n+1] = m
      /\ m \in Nat /\ h \in Nat /\ h <= MaxStack
      /\ stack \in Seq(Slots) /\ locals \in Seq(LocalRecords) /\ nest \in Seq(AnyConstruct)
      /\ Leveled(nest, locals, D, B, O)
  BY NowFacts
<1>a. /\ mode = "statement" /\ mode' = "statement"
      /\ x > 0 => h = m
      /\ h + x <= MaxStack
      /\ scopeDepth' = d
      /\ locals' = locals \o lf
      /\ stack' = stack \o sf
      /\ nest' = Append(nest, [kind |-> "loop", depth |-> d,
                               hidden |-> IF x = 2 THEN FreshId(1) ELSE 0])
      /\ closed' = {}
  BY DEF BeginLoop, Parsing, NoTemporary, Open
<1>b. O[n] >= 0 /\ h = m + O[n]
  <2>1. mode \in {"statement", "given"}
    BY <1>a
  <2> QED BY <2>1, InBody
<1>c. \A i \in 1 .. x : FreshId(i) \in Ids
  <2>1. Typed
    BY DEF Now
  <2>2. m \in Nat /\ h \in Nat /\ MaxStack \in Nat /\ h + x <= MaxStack /\ (x > 0 => h = m)
    BY <1>a, <1>f, BoundsAssumption
  <2>3. x > 0 => Len(stack) + Len(locals) < 2 * MaxStack
    <3> HIDE DEF m, h
    <3>1. x > 0 => h + m < 2 * MaxStack
      BY <2>2
    <3> QED BY <3>1 DEF m, h
  <2>4. x > 1 => Len(stack) + Len(locals) + 1 < 2 * MaxStack
    <3> HIDE DEF m, h
    <3>1. x > 1 => h + m + 1 < 2 * MaxStack
      BY <2>2
    <3> QED BY <3>1 DEF m, h
  <2>5. (x > 0 => FreshId(1) \in Ids) /\ (x > 1 => FreshId(2) \in Ids)
    BY <2>1, <2>3, <2>4, FreshIsUnused
  <2>6. \A i \in 1 .. x : i = 1 \/ (i = 2 /\ x > 1)
    OBVIOUS
  <2> QED BY <2>5, <2>6
<1>d. d \in Nat /\ d = D[n] + 1
  BY <1>f
<1>1. PICK c : c = [kind |-> "loop", depth |-> d, hidden |-> IF x = 2 THEN FreshId(1) ELSE 0]
  OBVIOUS
<1>2. c.kind = "loop" /\ c.depth = d /\ c \in AnyConstruct /\ nest' = Append(nest, c)
  <2>1. (IF x = 2 THEN FreshId(1) ELSE 0) \in Ids \cup {0}
    BY <1>c
  <2>2. c \in [kind : {"loop"}, depth : Nat, hidden : Ids \cup {0}]
    <3> HIDE DEF Ids, d
    <3> QED BY <1>1, <1>d, <2>1
  <2> QED BY <1>1, <1>a, <2>2 DEF AnyConstruct
<1>3. /\ Len(nest') = n + 1 /\ nest'[n+1] = c /\ \A i \in 1 .. n : nest'[i] = nest[i]
  BY <1>f, <1>2, StackPush
<1>l. \A i \in 1 .. x : Local(FreshId(i), d) \in LocalRecords
                        /\ Local(FreshId(i), d).id = FreshId(i)
                        /\ Local(FreshId(i), d).depth = d /\ Local(FreshId(i), d).captured = FALSE
  <2> HIDE DEF d
  <2> QED BY <1>c, <1>d, LocalIs
<1>4. /\ locals' \in Seq(LocalRecords) /\ Len(locals') = m + x
      /\ \A q \in 1 .. m : locals'[q] = locals[q]
      /\ \A i \in 1 .. x : /\ locals'[m+i].id = FreshId(i) /\ locals'[m+i].depth = d
                           /\ locals'[m+i].captured = FALSE
  <2>1. lf \in [1 .. x -> LocalRecords] /\ \A i \in 1 .. x : lf[i] = Local(FreshId(i), d)
    BY <1>l
  <2>2. x \in Nat
    OBVIOUS
  <2> HIDE DEF lf, d
  <2>3. /\ locals' \in Seq(LocalRecords) /\ Len(locals') = m + x
        /\ \A q \in 1 .. m : locals'[q] = locals[q]
        /\ \A i \in 1 .. x : locals'[m+i] = lf[i]
    BY <1>a, <1>f, <2>1, <2>2, StackPushAll
  <2> QED BY <1>l, <2>1, <2>3
<1>5. /\ stack' \in Seq(Slots) /\ Len(stack') = h + x
      /\ \A q \in 1 .. h : stack'[q] = stack[q]
      /\ \A i \in 1 .. x : stack'[h+i] = FreshId(i)
  <2>1. sf \in [1 .. x -> Slots] /\ \A i \in 1 .. x : sf[i] = FreshId(i)
    BY <1>c DEF Slots
  <2>2. x \in Nat
    OBVIOUS
  <2> HIDE DEF sf
  <2>3. /\ stack' \in Seq(Slots) /\ Len(stack') = h + x
        /\ \A q \in 1 .. h : stack'[q] = stack[q]
        /\ \A i \in 1 .. x : stack'[h+i] = sf[i]
    BY <1>a, <1>f, <2>1, <2>2, StackPushAll
  <2> QED BY <2>1, <2>3
<1>g. Gains("loop") = 0 /\ Deepens("loop") = 1 /\ "loop" \notin Binders
  BY DEF Gains, Deepens, Scoping, Binders
<1>q. \A q \in m+1 .. m+x : q - m \in 1 .. x /\ m + (q - m) = q /\ x > 0
  BY <1>f
<1>u. \A q \in m+1 .. m+x : locals'[q].id = FreshId(q - m) /\ locals'[q].depth = d
                            /\ locals'[q].captured = FALSE
  BY <1>4, <1>q
<1>6. Opens(nest, nest', c, locals, locals', D, B, O)
  <2>1. \A q \in m+1 .. m+x : locals'[q].depth = D[n] + Deepens("loop") /\ ~locals'[q].captured
    BY <1>u, <1>d, <1>g
  <2>2. m + x \in Nat /\ m <= m + x
    BY <1>f
  <2>3. O[n] + Gains("loop") >= 0
    BY <1>b, <1>f, <1>g
  <2>4. m + x > m => O[n] + Gains("loop") <= 0
    <3> SUFFICES ASSUME m + x > m PROVE O[n] + 0 <= 0
      BY <1>g
    <3>1. x > 0
      BY <1>f
    <3>2. h = m /\ h = m + O[n] /\ O[n] \in Int /\ m \in Nat
      BY <1>a, <1>b, <1>f, <3>1
    <3> HIDE DEF h, m
    <3> QED BY <3>2
  <2>5. c.depth = D[n] + 1
    BY <1>2, <1>d
  <2> HIDE DEF m, d
  <2>6. "loop" # "let" /\ "loop" # "give" /\ "loop" \in {"loop", "let", "bound arm"}
    OBVIOUS
  <2> QED BY <1>2, <1>3, <1>4, <1>f, <1>g, <2>1, <2>2, <2>3, <2>4, <2>5, <2>6 DEF Opens, m
<1>7. Pushes(locals, locals', stack, stack', "loop")
  <2>1. h + x = h + (m + x - m) + 0 /\ h \in Nat
    BY <1>f
  <2>2. \A q \in 1 .. m : q <= h => q \in 1 .. h /\ q \in 1 .. h + x
    BY <1>f
  <2>3. ASSUME NEW q \in m+1 .. m+x PROVE q \in 1 .. h + x /\ stack'[q] = locals'[q].id
    <3>1. h = m
      BY <1>a, <1>q, <2>3
    <3>2. q \in 1 .. h + x
      BY <1>f, <3>1
    <3>3. stack'[h + (q - m)] = FreshId(q - m)
      BY <1>5, <1>q, <2>3
    <3>4. h + (q - m) = q
      BY <1>q, <2>3, <3>1
    <3>5. locals'[q].id = FreshId(q - m)
      BY <1>u, <2>3
    <3> QED BY <3>2, <3>3, <3>4, <3>5
  <2>4. Len(stack') = h + (Len(locals') - m) + Gains("loop")
    BY <1>4, <1>5, <1>g, <2>1
  <2>5. \A q \in 1 .. m : q <= h => q \in 1 .. Len(stack') /\ stack'[q] = stack[q]
    BY <1>5, <2>2
  <2>6. \A q \in m+1 .. Len(locals') : q \in 1 .. Len(stack') /\ stack'[q] = locals'[q].id
    BY <1>4, <1>5, <2>3
  <2>7. h \in Nat
    BY <2>1
  <2> QED BY <2>4, <2>5, <2>6, <2>7 DEF Pushes
<1>8. Opened(c, D, B, O, n)
  <2>1. Same(mode) /\ Same(mode')
    BY <1>a DEF Same
  <2>2. scopeDepth' = scopeDepth + Deepens("loop")
    BY <1>a, <1>g
  <2>3. Len(stack') <= MaxStack /\ closed' = {}
    BY <1>a, <1>5
  <2> QED BY <1>2, <1>4, <1>5, <1>7, <2>1, <2>2, <2>3 DEF Opened
<1> QED BY <1>6, <1>8, PushStep
\* Some, Ok, Err: a name is bound
LEMMA BoundArmStep ==
    ASSUME Idioms = {}, NEW D, NEW B, NEW O, NEW n, Now(D, B, O, n), BeginBoundArm
    PROVE  Typed' /\ LevelsInv' /\ Keeps
<1> DEFINE m == Len(locals)
           h == Len(stack)
           d == scopeDepth + 1
<1>f. /\ n = Len(nest) /\ n \in Nat /\ n \in 0 .. n
      /\ scopeDepth = D[n] /\ D[n] \in Nat /\ O[n] \in Int
      /\ m \in Nat /\ h \in Nat /\ h <= MaxStack
      /\ stack \in Seq(Slots) /\ locals \in Seq(LocalRecords) /\ nest \in Seq(AnyConstruct)
      /\ h = m + O[n] + Valued(mode)
  BY NowFacts
<1>a. /\ mode = "arm" /\ mode' = "statement"
      /\ h = m + 1
      /\ scopeDepth' = d
      /\ locals' = Append(locals, Local(Fresh, d))
      /\ stack' = [k \in DOMAIN stack |-> IF k \in {m + 1, h} THEN Fresh ELSE stack[k]]
      /\ nest' = Append(nest, [kind |-> "bound arm", id |-> Fresh])
      /\ closed' = {}
  BY DEF BeginBoundArm, Parsing, Open
<1>b. O[n] = 1
  <2>1. Valued(mode) = 0
    BY <1>a DEF Valued
  <2>2. h = m + O[n] + 0 /\ h = m + 1 /\ O[n] \in Int /\ m \in Nat
    BY <1>a, <1>f, <2>1
  <2> HIDE DEF h, m
  <2> QED BY <2>2
<1>d. Fresh \in Ids
  <2>1. Typed
    BY DEF Now
  <2>2. h <= MaxStack /\ h = m + 1 /\ m \in Nat /\ MaxStack \in Nat
    BY <1>a, <1>f, BoundsAssumption
  <2>3. h + m < 2 * MaxStack
    <3> HIDE DEF h, m
    <3> QED BY <2>2
  <2> QED BY <2>1, <2>3, FreshIsUnused DEF Fresh
<1>h. h = m + 1 /\ m \in Nat /\ h \in Nat
  BY <1>a, <1>f
<1>e. d \in Nat /\ d = D[n] + 1
  BY <1>f
<1>1. PICK c : c = [kind |-> "bound arm", id |-> Fresh]
  OBVIOUS
<1>2. c.kind = "bound arm" /\ c.id = Fresh /\ c \in AnyConstruct /\ nest' = Append(nest, c)
  <2>1. c \in [kind : {"let", "bound arm"}, id : Ids]
    BY <1>1, <1>d
  <2> QED BY <1>1, <1>a, <2>1 DEF AnyConstruct
<1>3. /\ Len(nest') = n + 1 /\ nest'[n+1] = c /\ \A i \in 1 .. n : nest'[i] = nest[i]
  <2>1. nest \in Seq(AnyConstruct) /\ n = Len(nest)
    BY <1>f
  <2>2. c \in AnyConstruct /\ nest' = Append(nest, c)
    BY <1>2
  <2> QED BY <2>1, <2>2, StackPush
<1>4. /\ locals' \in Seq(LocalRecords) /\ Len(locals') = m + 1
      /\ \A q \in 1 .. m : locals'[q] = locals[q]
      /\ locals'[m+1].id = Fresh /\ locals'[m+1].depth = d /\ locals'[m+1].captured = FALSE
  <2> HIDE DEF d
  <2> QED BY <1>a, <1>d, <1>e, <1>f, DeclareOne
<1>5. /\ stack' \in Seq(Slots) /\ Len(stack') = h
      /\ \A q \in 1 .. m : stack'[q] = stack[q]
      /\ stack'[m+1] = Fresh
  <2>1. DOMAIN stack = 1 .. h /\ \A q \in 1 .. h : stack[q] \in Slots
    BY <1>f, LenProperties, ElementOfSeq
  <2>2. Fresh \in Slots
    BY <1>d DEF Slots
  <2>3. /\ stack' \in [1 .. h -> Slots]
        /\ \A q \in 1 .. h : stack'[q] = IF q = m + 1 THEN Fresh ELSE stack[q]
    BY <1>a, <2>1, <2>2
  <2>4. m + 1 \in 1 .. h /\ \A q \in 1 .. m : q \in 1 .. h /\ q # m + 1
    BY <1>h
  <2>5. stack' \in Seq(Slots) /\ Len(stack') = h
    BY <1>f, <2>3, FunSeq
  <2> QED BY <2>3, <2>4, <2>5
<1>g. Gains("bound arm") = -1 /\ Deepens("bound arm") = 1 /\ "bound arm" \in Binders
  BY DEF Gains, Deepens, Scoping, Binders
<1>q. \A q \in m+1 .. m+1 : q = m + 1
  BY <1>f
<1>6. Opens(nest, nest', c, locals, locals', D, B, O)
  <2>1. \A q \in m+1 .. m+1 : locals'[q].depth = D[n] + Deepens("bound arm") /\ ~locals'[q].captured
    BY <1>4, <1>q, <1>e, <1>g
  <2>2. m + 1 \in Nat /\ m <= m + 1
    BY <1>f
  <2>3. O[n] + Gains("bound arm") >= 0 /\ O[n] + Gains("bound arm") <= 0
    <3>1. PICK g : g = Gains("bound arm")
      OBVIOUS
    <3>2. g = -1 /\ O[n] = 1
      BY <1>b, <1>g, <3>1
    <3>3. O[n] + g >= 0 /\ O[n] + g <= 0
      BY <3>2
    <3> QED BY <3>1, <3>3
  <2> HIDE DEF m, d
  <2>6. "bound arm" # "let" /\ "bound arm" # "give" /\ "bound arm" # "loop"
        /\ "bound arm" \in {"loop", "let", "bound arm"}
    OBVIOUS
  <2> QED BY <1>2, <1>3, <1>4, <1>f, <1>g, <2>1, <2>2, <2>3, <2>6 DEF Opens, m
<1>7. Pushes(locals, locals', stack, stack', "bound arm")
  <2>4. h = h + (m + 1 - m) + (-1) /\ h \in Nat /\ m + 1 \in 1 .. h
    <3> HIDE DEF h, m
    <3> QED BY <1>h
  <2>1. Len(stack') = h + (Len(locals') - m) + Gains("bound arm")
    <3>1. PICK g : g = Gains("bound arm")
      OBVIOUS
    <3>2. g = -1 /\ Len(stack') = h /\ Len(locals') = m + 1
      BY <1>4, <1>5, <1>g, <3>1
    <3>3. Len(stack') = h + (Len(locals') - m) + g
      <4>1. PICK a, b : a = Len(stack') /\ b = Len(locals')
        OBVIOUS
      <4>2. a = h /\ b = m + 1 /\ g = -1 /\ m \in Nat /\ h \in Nat
        BY <1>h, <3>2, <4>1
      <4>3. a = h + (b - m) + g
        <5> HIDE DEF h, m
        <5> QED BY <4>2
      <4> QED BY <4>1, <4>3
    <3> QED BY <3>1, <3>3
  <2>2. \A q \in 1 .. m : q <= h => q \in 1 .. Len(stack') /\ stack'[q] = stack[q]
    <3>1. \A q \in 1 .. m : q <= h => q \in 1 .. h
      BY <1>f
    <3> QED BY <1>5, <3>1
  <2>3. \A q \in m+1 .. Len(locals') : q \in 1 .. Len(stack') /\ stack'[q] = locals'[q].id
    BY <1>4, <1>5, <1>q, <2>4
  <2> QED BY <2>1, <2>2, <2>3, <2>4 DEF Pushes
<1>8. Opened(c, D, B, O, n)
  <2>1. Same(mode) /\ Same(mode')
    BY <1>a DEF Same
  <2>2. scopeDepth' = scopeDepth + Deepens("bound arm")
    BY <1>a, <1>g
  <2>3. Len(stack') <= MaxStack /\ closed' = {}
    BY <1>a, <1>f, <1>5
  <2> QED BY <1>2, <1>4, <1>5, <1>7, <2>1, <2>2, <2>3 DEF Opened
<1> QED BY <1>6, <1>8, PushStep

-----------------------------------------------------------------------------
\* block, expression_statement
LEMMA StatementStep ==
    ASSUME NEW D, NEW B, NEW O, NEW n, Now(D, B, O, n),
           BeginBlock \/ BeginExpressionStatement
    PROVE  Typed' /\ LevelsInv' /\ Keeps
<1>1. mode = "statement"
  BY DEF BeginBlock, BeginExpressionStatement, Parsing
<1>2. O[n] >= 0
  <2>1. mode \in {"statement", "given"}
    BY <1>1
  <2> QED BY <2>1, InBody
<1>3. scopeDepth \in Nat
  BY NowFacts
<1>4. CASE BeginBlock
  <2>1. PICK c : c = [kind |-> "block"]
    OBVIOUS
  <2>2. /\ nest' = Append(nest, c) /\ scopeDepth' = scopeDepth + 1 /\ locals' = locals
        /\ mode' = mode /\ stack' = stack /\ closed' = {}
    BY <1>4, <2>1 DEF BeginBlock, Open
  <2>3. Gains("block") = 0 /\ Deepens("block") = 1 /\ "block" \in Simple /\ "block" # "give"
    BY DEF Gains, Deepens, Scoping, Simple
  <2>4. Same(mode) /\ Same(mode')
    BY <1>1, <2>2 DEF Same
  <2> QED BY <1>2, <2>1, <2>2, <2>3, <2>4, SimpleStep
<1>5. CASE BeginExpressionStatement
  <2>1. PICK c : c = [kind |-> "expression"]
    OBVIOUS
  <2>2. /\ nest' = Append(nest, c) /\ scopeDepth' = scopeDepth + 0 /\ locals' = locals
        /\ mode' = "expression" /\ stack' = stack /\ closed' = {}
    BY <1>3, <1>5, <2>1 DEF BeginExpressionStatement, Open
  <2>3. /\ Gains("expression") = 0 /\ Deepens("expression") = 0 /\ "expression" \in Simple
        /\ "expression" # "give"
    BY DEF Gains, Deepens, Scoping, Simple
  <2>4. Same(mode) /\ Same(mode')
    BY <1>1, <2>2 DEF Same
  <2> QED BY <1>2, <2>1, <2>2, <2>3, <2>4, SimpleStep
<1> QED BY <1>4, <1>5

\* binary, match_expression
LEMMA OperandStep ==
    ASSUME NEW D, NEW B, NEW O, NEW n, Now(D, B, O, n), BeginOperand \/ BeginMatch
    PROVE  Typed' /\ LevelsInv' /\ Keeps
<1>1. mode = "expression" /\ Len(stack) < MaxStack
  BY DEF BeginOperand, BeginMatch, Parsing
<1>3. scopeDepth \in Nat
  BY NowFacts
<1>4. CASE BeginOperand
  <2>1. PICK c : c = [kind |-> "operand"]
    OBVIOUS
  <2>2. /\ nest' = Append(nest, c) /\ scopeDepth' = scopeDepth + 0 /\ locals' = locals
        /\ mode' = mode /\ stack' = Append(stack, 0) /\ closed' = {}
    BY <1>3, <1>4, <2>1 DEF BeginOperand, Open, Push
  <2>3. Gains("operand") = 1 /\ Deepens("operand") = 0 /\ "operand" \in Simple /\ "operand" # "give"
    BY DEF Gains, Deepens, Scoping, Simple
  <2>4. Same(mode) /\ Same(mode')
    BY <1>1, <2>2 DEF Same
  <2> QED BY <1>1, <2>1, <2>2, <2>3, <2>4, SimpleStep
<1>5. CASE BeginMatch
  <2>1. PICK c : c = [kind |-> "match"]
    OBVIOUS
  <2>2. /\ nest' = Append(nest, c) /\ scopeDepth' = scopeDepth + 0 /\ locals' = locals
        /\ mode' = "arm" /\ stack' = Append(stack, 0) /\ closed' = {}
    BY <1>3, <1>5, <2>1 DEF BeginMatch, Open, Push
  <2>3. Gains("match") = 1 /\ Deepens("match") = 0 /\ "match" \in Simple /\ "match" # "give"
    BY DEF Gains, Deepens, Scoping, Simple
  <2>4. Same(mode) /\ Same(mode')
    BY <1>1, <2>2 DEF Same
  <2> QED BY <1>1, <2>1, <2>2, <2>3, <2>4, SimpleStep
<1> QED BY <1>4, <1>5

\* an arm that binds nothing
LEMMA ArmStep ==
    ASSUME Idioms = {}, NEW D, NEW B, NEW O, NEW n, Now(D, B, O, n),
           NEW bare \in BOOLEAN, BeginArm(bare)
    PROVE  Typed' /\ LevelsInv' /\ Keeps
<1>1. mode = "arm" /\ mode' = "statement"
  BY DEF BeginArm, Parsing
<1>2. O[n] >= 0
  <2>1. K(nest, n) = "match"
    <3>1. ModeFits(K(nest, n), "arm")
      BY <1>1 DEF Now, NestInv
    <3> QED BY <3>1 DEF ModeFits
  <2>2. O[n] \in Int /\ (O[n] < 0 => K(nest, n) = "let")
    BY NowFacts
  <2> QED BY <2>1, <2>2
<1>3. scopeDepth \in Nat
  BY NowFacts
<1>4. PICK c : c = [kind |-> "arm"]
  OBVIOUS
<1>5. /\ nest' = Append(nest, c) /\ scopeDepth' = scopeDepth + 0 /\ locals' = locals
      /\ stack' = stack /\ closed' = {}
  BY <1>3, <1>4 DEF BeginArm, Open
<1>6. Gains("arm") = 0 /\ Deepens("arm") = 0 /\ "arm" \in Simple /\ "arm" # "give"
  BY DEF Gains, Deepens, Scoping, Simple
<1>7. Same(mode) /\ Same(mode')
  BY <1>1 DEF Same
<1> QED BY <1>2, <1>4, <1>5, <1>6, <1>7, SimpleStep

-----------------------------------------------------------------------------
\* give_statement: no local of the arm is in scope
LEMMA GiveBare ==
    ASSUME Idioms = {}, NEW D, NEW B, NEW O, NEW n, Now(D, B, O, n), BeginGive
    PROVE  \E a \in 1 .. n : Bare(nest, locals, B, O, a, n)
<1> DEFINE m == Len(locals)
<1>f. /\ n = Len(nest) /\ n \in Nat /\ n \in 0 .. n /\ Sound(nest, locals, n)
      /\ scopeDepth = D[n] /\ D[n] \in Nat /\ B[n+1] = m /\ m \in Nat
      /\ locals \in Seq(LocalRecords) /\ Leveled(nest, locals, D, B, O)
  BY NowFacts
<1>1. PICK a \in DOMAIN nest :
          /\ nest[a].kind \in Arms
          /\ \A j \in a+1 .. Len(nest) : nest[j].kind \in {"block", "loop"}
          /\ \A k \in DOMAIN locals : locals[k].depth <= scopeDepth - (Len(nest) - a)
  BY DEF BeginGive
<1>2. a \in 1 .. n /\ a \in Nat /\ a \in 0 .. n /\ n \in a .. n /\ a # 0
  <2>1. DOMAIN nest = 1 .. n
    BY MatchesAreFew DEF Now, NestInv
  <2> QED BY <1>f, <2>1
<1>3. K(nest, a) \in Arms /\ \A j \in a+1 .. n : K(nest, j) \in Plain
  <2>1. \A j \in a+1 .. n : j # 0 /\ j \in a+1 .. Len(nest)
    BY <1>f, <1>2
  <2>2. \A j \in a .. n : j # 0 => K(nest, j) = nest[j].kind
    BY DEF K
  <2>3. a \in a .. n /\ \A j \in a+1 .. n : j \in a .. n
    BY <1>2
  <2> QED BY <1>1, <1>2, <2>1, <2>2, <2>3 DEF Plain
<1>4. StraightLevels(nest, locals, D, B, O, n, a)
  <2>1. Straight(nest, a)
    BY <1>f, <1>3 DEF Straight
  <2>2. AreLocals(locals)
    BY <1>f, TypedLocals
  <2> QED BY <1>f, <1>2, <2>1, <2>2 DEF StraightLevels
<1>5. D[n] = D[a] + (n - a) /\ O[n] = O[a]
  BY <1>2, <1>4, StraightNumbers
<1>6. B[a+1] \in 0 .. m /\ \A q \in B[a+1]+1 .. m : locals[q].depth > D[a]
  <2>1. FirstLevels(locals, locals, B, n, a, n)
    BY <1>f, <1>2 DEF FirstLevels
  <2> QED BY <1>4, <2>1, KeptAt
<1>7. B[a+1] = m
  <2> SUFFICES ASSUME B[a+1] # m PROVE FALSE
    OBVIOUS
  <2>1. m \in B[a+1]+1 .. m /\ m \in 1 .. m
    BY <1>f, <1>6
  <2>2. m \in DOMAIN locals /\ locals[m].depth \in Nat
    <3>1. DOMAIN locals = 1 .. m /\ AreLocals(locals)
      BY <1>f, TypedLocals
    <3> QED BY <2>1, <3>1 DEF AreLocals
  <2>3. locals[m].depth > D[a]
    BY <1>6, <2>1
  <2>4. locals[m].depth <= D[n] - (n - a)
    BY <1>1, <1>f, <2>2
  <2>5. D[a] \in Nat
    BY <1>f, <1>2, LevelNumbers
  <2>6. D[n] - (n - a) = D[a]
    BY <1>2, <1>5, <1>f, <2>5
  <2> QED BY <2>2, <2>3, <2>4, <2>5, <2>6
<1>8. Bare(nest, locals, B, O, a, n)
  BY <1>3, <1>5, <1>7, <1>f DEF Bare
<1> QED BY <1>2, <1>8

\* give_statement
LEMMA GiveStep ==
    ASSUME Idioms = {}, NEW D, NEW B, NEW O, NEW n, Now(D, B, O, n), BeginGive
    PROVE  Typed' /\ LevelsInv' /\ Keeps
<1>1. mode = "statement" /\ mode' = "expression"
  BY DEF BeginGive, Parsing
<1>2. O[n] >= 0
  <2>1. mode \in {"statement", "given"}
    BY <1>1
  <2> QED BY <2>1, InBody
<1>3. scopeDepth \in Nat
  BY NowFacts
<1>4. PICK c : c = [kind |-> "give"]
  OBVIOUS
<1>5. /\ nest' = Append(nest, c) /\ scopeDepth' = scopeDepth + 0 /\ locals' = locals
      /\ stack' = stack /\ closed' = {}
  BY <1>3, <1>4 DEF BeginGive, Open
<1>6. Gains("give") = 0 /\ Deepens("give") = 0 /\ "give" \in Simple
  BY DEF Gains, Deepens, Scoping, Simple
<1>7. Same(mode) /\ Same(mode')
  BY <1>1 DEF Same
<1>8. \E a \in 1 .. n : Bare(nest, locals, B, O, a, n)
  BY GiveBare
<1> QED BY <1>2, <1>4, <1>5, <1>6, <1>7, <1>8, SimpleStep

-----------------------------------------------------------------------------
\* What a value on top does.
LEMMA ValuePushed ==
    ASSUME NEW D, NEW B, NEW O, NEW n, Now(D, B, O, n), NEW us, us \in Seq(LocalRecords),
           Leveled(nest, us, D, B, O), Len(us) = Len(locals),
           \A q \in 1 .. Len(locals) : us[q].depth = locals[q].depth /\ us[q].id = locals[q].id,
           mode = "expression", mode' = "value", nest' = nest, scopeDepth' = scopeDepth,
           locals' = us, Len(stack) < MaxStack, Push(0)
    PROVE  Typed' /\ LevelsInv' /\ Keeps
<1> DEFINE m == Len(locals)
           h == Len(stack)
<1>f. /\ n = Len(nest) /\ scopeDepth = D[n] /\ O[n] \in Int
      /\ m \in Nat /\ h \in Nat /\ h = m + O[n] + Valued(mode)
      /\ stack \in Seq(Slots) /\ nest \in Seq(AnyConstruct)
      /\ \A q \in 1 .. m : InItsSlot(locals, stack, mode, q)
      /\ \A q \in 1 .. m : locals[q].captured => q \in 1 .. h /\ stack[q] = locals[q].id
  BY NowFacts
<1>1. stack' = Append(stack, 0) /\ closed' = {}
  BY DEF Push
<1>2. /\ stack' \in Seq(Slots) /\ Len(stack') = h + 1
      /\ \A q \in 1 .. h : stack'[q] = stack[q]
  <2>1. 0 \in Slots
    BY DEF Slots
  <2> QED BY <1>f, <1>1, <2>1, StackPush
<1>3. \A q \in 1 .. h : q \in 1 .. h + 1
  BY <1>f
<1>4. Typed'
  <2>1. Len(stack') <= MaxStack
    BY <1>2, <1>f, BoundsAssumption
  <2> QED BY <1>1, <1>2, <1>f, <2>1 DEF Typed, Slots
<1>5. Keeps
  BY <1>2, <1>3, <1>f DEF Keeps
<1>6. Balanced(nest, us, stack', "value", D[n], D, B, O)
  <2>1. Valued(mode) = 0 /\ Valued("value") = 1
    BY DEF Valued
  <2>2. Len(stack') = Len(us) + O[n] + 1
    <3>1. h = m + O[n] + 0
      BY <1>f, <2>1
    <3>2. h + 1 = m + O[n] + 1
      <4> HIDE DEF h, m
      <4> QED BY <1>f, <3>1
    <3> QED BY <1>2, <3>2
  <2>3. ASSUME NEW q \in 1 .. m PROVE InItsSlot(us, stack', "value", q)
    <3>1. InItsSlot(locals, stack, mode, q) /\ mode # "given"
      BY <1>f
    <3>2. us[q].depth = locals[q].depth /\ us[q].id = locals[q].id
      OBVIOUS
    <3> QED BY <1>2, <1>3, <3>1, <3>2 DEF InItsSlot
  <2>4. "value" # "given"
    OBVIOUS
  <2> QED BY <1>f, <2>1, <2>2, <2>3, <2>4 DEF Balanced
<1>7. LevelsInv'
  BY <1>6, <1>f DEF LevelsInv
<1> QED BY <1>4, <1>5, <1>7

\* An expression without an operator.
LEMMA ValueStep ==
    ASSUME NEW D, NEW B, NEW O, NEW n, Now(D, B, O, n), Value
    PROVE  Typed' /\ LevelsInv' /\ Keeps
<1>1. /\ mode = "expression" /\ mode' = "value" /\ nest' = nest /\ scopeDepth' = scopeDepth
      /\ locals' = locals /\ Len(stack) < MaxStack /\ Push(0)
  BY DEF Value, Parsing
<1>2. locals \in Seq(LocalRecords) /\ Leveled(nest, locals, D, B, O)
  BY NowFacts
<1> QED BY <1>1, <1>2, ValuePushed

\* resolve_upvalue
LEMMA CaptureStep ==
    ASSUME Idioms = {}, NEW D, NEW B, NEW O, NEW n, Now(D, B, O, n), Capture
    PROVE  Typed' /\ LevelsInv' /\ Keeps
<1> DEFINE m == Len(locals)
<1>f. /\ n = Len(nest) /\ n \in Nat /\ m \in Nat
      /\ locals \in Seq(LocalRecords) /\ Leveled(nest, locals, D, B, O)
  BY NowFacts
<1>d. DOMAIN locals = 1 .. m /\ AreLocals(locals) /\ \A q \in 1 .. m : locals[q] \in LocalRecords
  BY <1>f, TypedLocals
<1>1. /\ mode = "expression" /\ mode' = "value" /\ nest' = nest /\ scopeDepth' = scopeDepth
      /\ Len(stack) < MaxStack /\ Push(0)
  BY DEF Capture, Parsing
<1>2. PICK c \in DOMAIN locals :
          /\ Capturable(locals[c])
          /\ locals[c].depth = 1 \/
               \A j \in c+1 .. Len(locals) :
                  locals[j].depth \in {locals[c].depth, NoDepth} => locals[j].captured
          /\ locals' = [locals EXCEPT ![c].captured = TRUE]
  BY DEF Capture
<1>3. c \in 1 .. m
  BY <1>d
<1>4. PICK us : us = locals'
  OBVIOUS
<1>5. /\ us \in Seq(LocalRecords) /\ Len(us) = m
      /\ \A q \in 1 .. m : /\ us[q].depth = locals[q].depth /\ us[q].id = locals[q].id
                           /\ q # c => us[q].captured = locals[q].captured
      /\ us[c].captured
  <2>1. PICK r : r = [locals[c] EXCEPT !.captured = TRUE]
    OBVIOUS
  <2>2. locals[c] \in LocalRecords
    BY <1>d, <1>3
  <2>3. r \in LocalRecords /\ r.depth = locals[c].depth /\ r.id = locals[c].id /\ r.captured = TRUE
    <3> HIDE DEF Ids
    <3> QED BY <2>1, <2>2 DEF LocalRecords
  <2>4. us = [locals EXCEPT ![c] = r]
    BY <1>2, <1>4, <2>1
  <2>5. us \in Seq(LocalRecords) /\ Len(us) = m
    BY <1>3, <1>f, <2>3, <2>4, ExceptSeq
  <2>6. us[c] = r /\ \A q \in 1 .. m : q # c => us[q] = locals[q]
    BY <1>d, <1>3, <2>4
  <2> QED BY <2>3, <2>5, <2>6
<1>6. Captures(nest, locals, us, c)
  <2>1. locals[c].depth # NoDepth
        /\ \A k \in DOMAIN nest : nest[k].kind = "bound arm" => nest[k].id # locals[c].id
    BY <1>2 DEF Capturable
  <2>2. \A k \in 1 .. Len(nest) : K(nest, k) = "bound arm" => nest[k].id # locals[c].id
    <3>1. DOMAIN nest = 1 .. Len(nest)
      BY MatchesAreFew DEF Now, NestInv
    <3>2. \A k \in 1 .. Len(nest) : k # 0
      OBVIOUS
    <3> QED BY <2>1, <3>1, <3>2 DEF K
  <2>3. \/ locals[c].depth = 1
        \/ \A j \in c+1 .. Len(locals) :
             locals[j].depth = locals[c].depth \/ locals[j].depth = NoDepth => locals[j].captured
    BY <1>2
  <2> QED BY <1>3, <1>5, <2>1, <2>2, <2>3 DEF Captures
<1>7. Leveled(nest, us, D, B, O)
  <2>1. PICK l, w : l = Len(locals) /\ w = Len(us)
    OBVIOUS
  <2>2. Sizes(nest, locals, us, n, l, w)
    BY <1>f, <2>1 DEF Sizes
  <2> QED BY <1>6, <1>d, <1>f, <2>2, CaptureLevels
<1>8. \A q \in 1 .. Len(locals) : us[q].depth = locals[q].depth /\ us[q].id = locals[q].id
  BY <1>5
<1> QED BY <1>1, <1>4, <1>5, <1>7, <1>8, ValuePushed

-----------------------------------------------------------------------------
\* The innermost construct ends.
LEMMA PoppedNest ==
    ASSUME NEW D, NEW B, NEW O, NEW n, Now(D, B, O, n), NEW kind, IsIn(kind)
    PROVE  /\ n \in Nat /\ n # 0 /\ n - 1 \in Nat /\ n - 1 \in 0 .. n /\ n - 1 + 1 = n
           /\ n \in 0 .. n /\ n \in 1 .. n /\ n = Len(nest)
           /\ K(nest, n) = kind /\ Fits(K(nest, n - 1), kind)
           /\ Sq!Last(nest) = nest[n] /\ nest[n].kind = kind
           /\ Sq!Front(nest) \in Seq(AnyConstruct) /\ Len(Sq!Front(nest)) = n - 1
           /\ \A i \in 1 .. n - 1 : Sq!Front(nest)[i] = nest[i]
<1>1. n = Len(nest) /\ nest \in Seq(AnyConstruct) /\ n \in Nat /\ NestInv
  BY NowFacts DEF Now
<1>2. /\ n # 0 /\ K(nest, n) = kind /\ Fits(K(nest, n - 1), kind) /\ n - 1 \in 0 .. n
      /\ Sq!Last(nest) = nest[n] /\ Sq!Front(nest) = SubSeq(nest, 1, n - 1)
  BY <1>1, Innermost
<1>3. n - 1 \in Nat /\ n - 1 + 1 = n /\ n \in 0 .. n /\ n \in 1 .. n
  BY <1>1, <1>2
<1>4. /\ SubSeq(nest, 1, n - 1) \in Seq(AnyConstruct) /\ Len(SubSeq(nest, 1, n - 1)) = n - 1
      /\ \A i \in 1 .. n - 1 : SubSeq(nest, 1, n - 1)[i] = nest[i]
  BY <1>1, <1>2, Prefix
<1>5. nest[n].kind = kind
  BY <1>2 DEF K
<1> QED BY <1>1, <1>2, <1>3, <1>4, <1>5

\* The variable that is being declared is the last local of its level.
LEMMA TopLet ==
    ASSUME NEW D, NEW B, NEW O, NEW n, Now(D, B, O, n), NEW j \in 0 .. n, O[j] < 0
    PROVE  /\ O[j] = -1 /\ K(nest, j) = "let" /\ B[j] \in Nat /\ B[j+1] = B[j] + 1
           /\ locals[B[j+1]].depth = NoDepth /\ ~locals[B[j+1]].captured
<1>1. n = Len(nest) /\ n \in Nat /\ Leveled(nest, locals, D, B, O)
  BY NowFacts
<1>2. Owns(nest, locals, D, B, O, j)
  BY <1>1 DEF Leveled
<1>3. O[j] \in Int /\ B[j] \in Nat
  BY <1>1, LevelNumbers
<1>4. K(nest, j) = "let"
  <2> SUFFICES ASSUME K(nest, j) # "let" PROVE FALSE
    OBVIOUS
  <2>1. O[j] >= 0
    BY <1>2 DEF Owns
  <2> QED BY <1>3, <2>1
<1> QED BY <1>2, <1>3, <1>4, LetFacts DEF Owns

\* Only the first k levels are left.
LEMMA CutStep ==
    ASSUME NEW D, NEW B, NEW O, NEW n, NEW k, Now(D, B, O, n),
           Cuts(nest, nest', locals, locals', stack', mode', B, O, k), scopeDepth' = D[k],
           nest' \in Seq(AnyConstruct), locals' \in Seq(LocalRecords),
           stack' \in Seq(Slots), Len(stack') <= MaxStack, closed' \subseteq Ids
    PROVE  Typed' /\ LevelsInv'
<1>1. Sound(nest, locals, n) /\ Leveled(nest, locals, D, B, O)
  BY NowFacts
<1>2. Balanced(nest', locals', stack', mode', scopeDepth', D, B, O)
  BY <1>1, CutBalanced
<1> QED BY <1>2 DEF LevelsInv, Typed, Slots

\* A construct that has no locals.
LEMMA NoOwner ==
    ASSUME NEW D, NEW B, NEW O, NEW n, Now(D, B, O, n), NEW j \in 1 .. n,
           K(nest, j) \notin Owners
    PROVE  /\ B[j+1] = B[j] /\ D[j] = D[j-1] /\ O[j] = O[j-1] + Gains(K(nest, j))
           /\ D[j] \in Nat /\ O[j-1] \in Int /\ O[j] \in Int /\ O[j] >= 0 /\ B[j] \in Nat
           /\ O[j-1] >= -1
<1>1. n = Len(nest) /\ n \in Nat /\ Leveled(nest, locals, D, B, O)
  BY NowFacts
<1>0. j \in 0 .. n /\ j - 1 \in 0 .. n
  BY <1>1
<1>2. Owns(nest, locals, D, B, O, j) /\ Owns(nest, locals, D, B, O, j-1)
  BY <1>0, <1>1 DEF Leveled
<1>3. D[j] \in Nat /\ D[j-1] \in Nat /\ O[j-1] \in Int /\ O[j] \in Int /\ B[j] \in Nat
  BY <1>0, <1>1, LevelNumbers
<1>4. D[j] = D[j-1] + Deepens(K(nest, j)) /\ O[j] = O[j-1] + Gains(K(nest, j))
  BY <1>1 DEF Leveled, Numbered
<1>5. K(nest, j) # "let" /\ K(nest, j) \notin Scoping
  BY DEF Owners, Scoping
<1>6. Deepens(K(nest, j)) = 0
  BY <1>5 DEF Deepens
<1>7. B[j+1] = B[j] /\ O[j] >= 0
  BY <1>2, <1>5 DEF Owns
<1>8. O[j-1] >= -1
  <2>1. (K(nest, j-1) # "let" => O[j-1] >= 0) /\ (K(nest, j-1) = "let" => O[j-1] = -1)
    BY <1>2 DEF Owns
  <2> QED BY <1>3, <2>1
<1> QED BY <1>3, <1>4, <1>6, <1>7, <1>8

-----------------------------------------------------------------------------
\* var_declaration, at its end
LEMMA EndLetStep ==
    ASSUME NEW D, NEW B, NEW O, NEW n, Now(D, B, O, n), EndLet
    PROVE  Typed' /\ LevelsInv' /\ Keeps
<1> DEFINE m == Len(locals)
           h == Len(stack)
<1>f. /\ Sound(nest, locals, n) /\ Leveled(nest, locals, D, B, O)
      /\ scopeDepth = D[n] /\ D[n] \in Nat /\ B[n+1] = m
      /\ m \in Nat /\ h \in Nat /\ h <= MaxStack /\ h = m + O[n] + Valued(mode)
      /\ stack \in Seq(Slots) /\ locals \in Seq(LocalRecords)
      /\ \A q \in 1 .. m : locals[q].captured => q \in 1 .. h /\ stack[q] = locals[q].id
  BY NowFacts
<1>a. /\ mode = "value" /\ mode' = "statement" /\ IsIn("let") /\ CloseLast
      /\ stack' = [stack EXCEPT ![Len(stack)] = Sq!Last(nest).id]
      /\ nest' = Sq!Front(nest) /\ closed' = {}
  BY DEF EndLet, Parsing
<1>1. /\ n \in Nat /\ n # 0 /\ n \in 0 .. n /\ K(nest, n) = "let" /\ nest[n].kind = "let"
      /\ Sq!Last(nest) = nest[n]
      /\ nest' \in Seq(AnyConstruct) /\ Len(nest') = n - 1
      /\ \A i \in 1 .. n - 1 : nest'[i] = nest[i]
  BY <1>a, PoppedNest
<1>2. /\ O[n] = -1 /\ m >= 1 /\ ~locals[m].captured /\ locals[m].id = nest[n].id
  <2>1. Owns(nest, locals, D, B, O, n)
    BY <1>1, <1>f DEF Leveled, Sound
  <2>2. O[n] = -1 /\ B[n+1] = B[n] + 1 /\ ~locals[B[n]+1].captured /\ locals[B[n]+1].id = nest[n].id
    BY <1>1, <2>1, LetFacts DEF Owns
  <2>3. B[n] \in Nat
    BY <1>1, <1>f, LevelNumbers DEF Sound
  <2> QED BY <1>f, <2>2, <2>3
<1>3. h = m
  <2>1. Valued(mode) = 1
    BY <1>a DEF Valued
  <2>2. h = m + (-1) + 1 /\ m \in Nat
    BY <1>f, <1>2, <2>1
  <2> HIDE DEF h, m
  <2> QED BY <2>2
<1>d. DOMAIN locals = 1 .. m /\ \A q \in 1 .. m : locals[q] \in LocalRecords /\ locals[q].id \in Ids
  BY <1>f, TypedLocals
<1>m. m \in 1 .. m
  BY <1>2, <1>f
<1>4. scopeDepth' = scopeDepth /\ locals' = [locals EXCEPT ![m].depth = scopeDepth]
  <2>1. PICK st : st = [depth |-> scopeDepth, locals |-> locals]
    OBVIOUS
  <2>2. st.depth = scopeDepth /\ st.locals = locals
    BY <2>1
  <2>3. Closing(nest[n], st) = [st EXCEPT !.locals = MarkInitialized(st.locals, st.depth)]
    BY <1>1 DEF Closing
  <2>4. PICK w : w = MarkInitialized(locals, scopeDepth)
    OBVIOUS
  <2>5. Closing(nest[n], st) = [depth |-> scopeDepth, locals |-> w]
    BY <2>1, <2>2, <2>3, <2>4
  <2>6. scopeDepth' = Closing(nest[n], st).depth /\ locals' = Closing(nest[n], st).locals
    BY <1>a, <1>1, <2>1 DEF CloseLast
  <2>7. scopeDepth' = scopeDepth /\ locals' = w
    BY <2>5, <2>6
  <2>8. locals # <<>>
    BY <1>2, <1>f, EmptySeq
  <2> QED BY <2>4, <2>7, <2>8 DEF MarkInitialized
<1>5. /\ locals' \in Seq(LocalRecords) /\ Len(locals') = m
      /\ \A q \in 1 .. m - 1 : locals'[q] = locals[q]
      /\ locals'[m].depth = scopeDepth /\ locals'[m].id = locals[m].id
  <2>1. PICK r : r = [locals[m] EXCEPT !.depth = scopeDepth]
    OBVIOUS
  <2>2. locals[m] \in LocalRecords /\ scopeDepth \in Nat
    BY <1>d, <1>m, <1>f
  <2>3. r \in LocalRecords /\ r.depth = scopeDepth /\ r.id = locals[m].id
    <3> HIDE DEF Ids
    <3> QED BY <2>1, <2>2 DEF LocalRecords
  <2>4. locals' = [locals EXCEPT ![m] = r]
    BY <1>4, <2>1
  <2>5. locals' \in Seq(LocalRecords) /\ Len(locals') = m
    BY <1>m, <1>f, <2>3, <2>4, ExceptSeq
  <2>6. locals'[m] = r /\ \A q \in 1 .. m : q # m => locals'[q] = locals[q]
    BY <1>d, <1>m, <2>4
  <2>7. \A q \in 1 .. m - 1 : q \in 1 .. m /\ q # m
    BY <1>f
  <2> QED BY <2>3, <2>5, <2>6, <2>7
<1>6. /\ stack' \in Seq(Slots) /\ Len(stack') = h
      /\ \A q \in 1 .. h - 1 : stack'[q] = stack[q]
      /\ stack'[h] = nest[n].id
  <2>1. PICK e : e = nest[n].id
    OBVIOUS
  <2>2. stack' = [stack EXCEPT ![h] = e]
    BY <1>a, <1>1, <2>1
  <2>3. e \in Slots
    <3>1. e = locals[m].id
      BY <1>2, <2>1
    <3> QED BY <1>d, <1>m, <3>1 DEF Slots
  <2>4. h \in 1 .. h /\ DOMAIN stack = 1 .. h
    <3>1. h \in 1 .. h
      BY <1>3, <1>m
    <3> QED BY <3>1, <1>f, LenProperties
  <2>5. stack' \in Seq(Slots) /\ Len(stack') = h
    BY <1>f, <2>2, <2>3, <2>4, ExceptSeq
  <2>6. stack'[h] = e /\ \A q \in 1 .. h : q # h => stack'[q] = stack[q]
    BY <2>2, <2>4
  <2>7. \A q \in 1 .. h - 1 : q \in 1 .. h /\ q # h
    BY <1>f
  <2> QED BY <2>1, <2>5, <2>6, <2>7
<1>7. Initializes(nest, nest', locals, locals', stack, stack', scopeDepth, n)
  BY <1>1, <1>5, <1>6 DEF Initializes
<1>8. Balanced(nest', locals', stack', "statement", scopeDepth, D, [B EXCEPT ![n] = Len(locals)], O)
  <2>1. Balanced(nest, locals, stack, "value", scopeDepth, D, B, O)
    BY <1>a DEF Now
  <2> QED BY <1>7, <1>f, <2>1, EndLetBalanced
<1>9. Keeps
  <2> SUFFICES ASSUME NEW q \in 1 .. m, locals[q].captured
               PROVE  q \in 1 .. Len(stack') /\ stack'[q] = locals[q].id
    BY DEF Keeps
  <2>1. q \in 1 .. h /\ stack[q] = locals[q].id /\ q # m
    BY <1>f, <1>2
  <2>2. q \in 1 .. h - 1
    <3> HIDE DEF h, m
    <3> QED BY <1>3, <1>f, <2>1
  <2> QED BY <1>6, <2>1, <2>2
<1>10. Typed'
  BY <1>1, <1>5, <1>6, <1>a, <1>f DEF Typed, Slots
<1>11. LevelsInv'
  BY <1>8, <1>a, <1>4 DEF LevelsInv
<1> QED BY <1>9, <1>10, <1>11

\* expression_statement, at its end
LEMMA EndExpressionStep ==
    ASSUME NEW D, NEW B, NEW O, NEW n, Now(D, B, O, n), EndExpressionStatement
    PROVE  Typed' /\ LevelsInv' /\ Keeps
<1> DEFINE m == Len(locals)
           h == Len(stack)
<1>f. /\ scopeDepth = D[n] /\ B[n+1] = m
      /\ m \in Nat /\ h \in Nat /\ h <= MaxStack /\ h = m + O[n] + Valued(mode)
      /\ stack \in Seq(Slots) /\ locals \in Seq(LocalRecords)
      /\ \A q \in 1 .. m : InItsSlot(locals, stack, mode, q)
      /\ \A q \in 1 .. m : locals[q].captured => q \in 1 .. h /\ stack[q] = locals[q].id
  BY NowFacts
<1>a. /\ mode = "value" /\ mode' = "statement" /\ IsIn("expression")
      /\ Execute(Pops(1)) /\ nest' = Sq!Front(nest)
      /\ scopeDepth' = scopeDepth /\ locals' = locals
  BY DEF EndExpressionStatement, Parsing
<1>1. /\ n \in Nat /\ n # 0 /\ n \in 1 .. n /\ n - 1 \in 0 .. n /\ n - 1 + 1 = n /\ n = Len(nest)
      /\ K(nest, n) = "expression"
      /\ nest' \in Seq(AnyConstruct) /\ Len(nest') = n - 1
      /\ \A i \in 1 .. n - 1 : nest'[i] = nest[i]
  BY <1>a, PoppedNest
<1>2. B[n] = m /\ D[n-1] = D[n] /\ O[n-1] = O[n] /\ O[n] \in Int /\ O[n] >= 0
  <2>1. "expression" \notin Owners /\ Gains("expression") = 0
    BY DEF Owners, Gains
  <2>2. /\ B[n+1] = B[n] /\ D[n] = D[n-1] /\ O[n] = O[n-1] + 0
        /\ O[n-1] \in Int /\ O[n] \in Int /\ O[n] >= 0
    BY <1>1, <2>1, NoOwner
  <2> QED BY <1>f, <2>2
<1>3. h = m + O[n] + 1
  <2>1. Valued(mode) = 1
    BY <1>a DEF Valued
  <2> QED BY <1>f, <2>1
<1>4. 1 \in 0 .. h /\ h - 1 = m + O[n] /\ \A q \in 1 .. m : q \in 1 .. h - 1
  <2> HIDE DEF h, m
  <2> QED BY <1>3, <1>2, <1>f
<1>5. /\ stack' \in Seq(Slots) /\ Len(stack') = h - 1
      /\ \A q \in 1 .. h - 1 : stack'[q] = stack[q]
      /\ closed' = {}
  <2>1. Pops(1) \in Seq({"close", "pop"}) /\ Len(Pops(1)) = 1 /\ \A i \in 1 .. 1 : Pops(1)[i] = "pop"
    BY PopsAre
  <2>2. PICK code : code = Pops(1)
    OBVIOUS
  <2>3. Len(code) = 1 /\ DOMAIN code = 1 .. 1 /\ (\A i \in 1 .. 1 : code[i] = "pop") /\ Execute(code)
    BY <1>a, <2>1, <2>2, LenProperties
  <2>4. /\ stack' \in Seq(Slots) /\ Len(stack') = h - 1
        /\ \A q \in 1 .. h - 1 : stack'[q] = stack[q]
        /\ closed' = {stack[h + 1 - i] : i \in {i \in 1 .. 1 : code[i] = "close"}}
    BY <1>4, <1>f, <2>3, Executed
  <2>5. {i \in 1 .. 1 : code[i] = "close"} = {}
    BY <2>3
  <2> QED BY <2>4, <2>5
<1>v. Valued(mode') = 0 /\ mode' # "given" /\ mode # "given"
  BY <1>a DEF Valued
<1>6. Cuts(nest, nest', locals, locals', stack', mode', B, O, n-1)
  <2>1. Len(locals') = B[n] /\ \A q \in 1 .. B[n] : locals'[q] = locals[q]
    BY <1>a, <1>2
  <2>2. Len(stack') = B[n] + O[n-1] + Valued(mode')
    <3>1. Len(stack') = m + O[n] /\ m + O[n] \in Int
      BY <1>4, <1>5, <1>2, <1>f
    <3>2. m + O[n] = m + O[n] + 0
      BY <1>2, <1>f
    <3> QED BY <3>1, <3>2, <1>v, <1>2
  <2>3. ASSUME NEW q \in 1 .. B[n] PROVE InItsSlot(locals, stack', mode', q)
    <3>1. q \in 1 .. m /\ q \in 1 .. h - 1 /\ InItsSlot(locals, stack, mode, q)
      BY <1>2, <1>4, <1>f
    <3> QED BY <1>5, <1>v, <3>1 DEF InItsSlot
  <2> QED BY <1>1, <1>v, <2>1, <2>2, <2>3 DEF Cuts
<1>7. Keeps
  <2> SUFFICES ASSUME NEW q \in 1 .. m, locals[q].captured
               PROVE  q \in 1 .. Len(stack') /\ stack'[q] = locals[q].id
    BY DEF Keeps
  <2> QED BY <1>4, <1>5, <1>f
<1>8. scopeDepth' = D[n-1] /\ locals' \in Seq(LocalRecords) /\ closed' \subseteq Ids
  BY <1>a, <1>f, <1>2, <1>5
<1>9. Len(stack') <= MaxStack
  BY <1>5, <1>f, BoundsAssumption
<1> QED BY <1>1, <1>5, <1>6, <1>7, <1>8, <1>9, CutStep

-----------------------------------------------------------------------------
\* Two values are replaced by one.
LEMMA TwoToOne ==
    ASSUME NEW S, NEW s \in Seq(S), NEW e \in S, Len(s) >= 2
    PROVE  LET t == Append(SubSeq(s, 1, Len(s) - 2), e)
           IN  /\ t \in Seq(S) /\ Len(t) = Len(s) - 1
               /\ \A i \in 1 .. Len(s) - 2 : t[i] = s[i]
<1>0. Len(s) \in Nat
  BY LenProperties
<1>1. Len(s) - 2 \in 0 .. Len(s) /\ Len(s) - 2 + 1 = Len(s) - 1
  BY <1>0
<1> DEFINE r == SubSeq(s, 1, Len(s) - 2)
           t == Append(r, e)
<1>2. r \in Seq(S) /\ Len(r) = Len(s) - 2 /\ \A i \in 1 .. Len(s) - 2 : r[i] = s[i]
  BY <1>1, Prefix
<1>e. t = Append(SubSeq(s, 1, Len(s) - 2), e)
  OBVIOUS
<1> HIDE DEF r
<1>3. t \in Seq(S) /\ Len(t) = Len(r) + 1 /\ \A i \in 1 .. Len(r) : t[i] = r[i]
  BY <1>2, StackPush
<1> HIDE DEF t
<1>4. Len(t) = Len(s) - 1 /\ \A i \in 1 .. Len(s) - 2 : t[i] = s[i]
  BY <1>1, <1>2, <1>3
<1> QED BY <1>3, <1>4, <1>e

\* The second operand is combined with the first.
LEMMA EndOperandStep ==
    ASSUME NEW D, NEW B, NEW O, NEW n, Now(D, B, O, n), EndOperand
    PROVE  Typed' /\ LevelsInv' /\ Keeps
<1> DEFINE m == Len(locals)
           h == Len(stack)
<1>f. /\ scopeDepth = D[n] /\ B[n+1] = m
      /\ m \in Nat /\ h \in Nat /\ h <= MaxStack /\ h = m + O[n] + Valued(mode)
      /\ stack \in Seq(Slots) /\ locals \in Seq(LocalRecords)
      /\ \A q \in 1 .. m : InItsSlot(locals, stack, mode, q)
      /\ \A q \in 1 .. m : locals[q].captured => q \in 1 .. h /\ stack[q] = locals[q].id
  BY NowFacts
<1>a. /\ mode = "value" /\ mode' = "value" /\ IsIn("operand")
      /\ stack' = Append(SubSeq(stack, 1, Len(stack) - 2), 0) /\ nest' = Sq!Front(nest)
      /\ closed' = {} /\ scopeDepth' = scopeDepth /\ locals' = locals
  BY DEF EndOperand, Parsing
<1>1. /\ n \in Nat /\ n # 0 /\ n \in 1 .. n /\ n - 1 \in 0 .. n /\ n - 1 + 1 = n /\ n = Len(nest)
      /\ K(nest, n) = "operand"
      /\ nest' \in Seq(AnyConstruct) /\ Len(nest') = n - 1
      /\ \A i \in 1 .. n - 1 : nest'[i] = nest[i]
  BY <1>a, PoppedNest
<1>2. B[n] = m /\ D[n-1] = D[n] /\ O[n] = O[n-1] + 1 /\ O[n-1] \in Int /\ O[n-1] >= -1
  <2>1. "operand" \notin Owners /\ Gains("operand") = 1
    BY DEF Owners, Gains
  <2>2. /\ B[n+1] = B[n] /\ D[n] = D[n-1] /\ O[n] = O[n-1] + 1
        /\ O[n-1] \in Int /\ O[n-1] >= -1
    BY <1>1, <2>1, NoOwner
  <2> QED BY <1>f, <2>2
<1>3. h = m + O[n-1] + 2
  <2>1. Valued(mode) = 1
    BY <1>a DEF Valued
  <2>2. h = m + (O[n-1] + 1) + 1
    BY <1>f, <1>2, <2>1
  <2> HIDE DEF h, m
  <2> QED BY <2>2, <1>2, <1>f
<1>4. O[n-1] < 0 => O[n-1] = -1 /\ m >= 1 /\ locals[m].depth = NoDepth /\ ~locals[m].captured
  <2> SUFFICES ASSUME O[n-1] < 0
               PROVE  O[n-1] = -1 /\ m >= 1 /\ locals[m].depth = NoDepth /\ ~locals[m].captured
    OBVIOUS
  <2>1. /\ O[n-1] = -1 /\ B[n-1] \in Nat /\ B[n-1+1] = B[n-1] + 1
        /\ locals[B[n-1+1]].depth = NoDepth /\ ~locals[B[n-1+1]].captured
    BY <1>1, TopLet
  <2> QED BY <1>1, <1>2, <2>1
<1>5. h >= 2 /\ h - 1 = m + O[n-1] + 1
      /\ \A q \in 1 .. m : q \in 1 .. h - 2 \/ (q = m /\ O[n-1] < 0)
  <2> HIDE DEF h, m
  <2>1. m + O[n-1] >= 0
    BY <1>2, <1>4, <1>f
  <2> QED BY SMTT(30), <1>2, <1>3, <1>f, <2>1
<1>6. /\ stack' \in Seq(Slots) /\ Len(stack') = h - 1
      /\ \A q \in 1 .. h - 2 : stack'[q] = stack[q]
  <2>1. 0 \in Slots
    BY DEF Slots
  <2> QED BY <1>a, <1>5, <1>f, <2>1, TwoToOne
<1>7. \A q \in 1 .. h - 2 : q \in 1 .. h - 1
  BY <1>f
<1>8. Cuts(nest, nest', locals, locals', stack', mode', B, O, n-1)
  <2>1. Len(locals') = B[n] /\ \A q \in 1 .. B[n] : locals'[q] = locals[q]
    BY <1>a, <1>2
  <2>2. Len(stack') = B[n] + O[n-1] + Valued(mode')
    <3>1. Valued(mode') = 1
      BY <1>a DEF Valued
    <3> QED BY <1>2, <1>5, <1>6, <3>1
  <2>3. ASSUME NEW q \in 1 .. B[n] PROVE InItsSlot(locals, stack', mode', q)
    <3>1. q \in 1 .. m /\ InItsSlot(locals, stack, mode, q)
      BY <1>2, <1>f
    <3>2. q \in 1 .. h - 2 \/ locals[q].depth = NoDepth
      BY <1>4, <1>5, <3>1
    <3> QED BY <1>6, <1>7, <1>a, <3>1, <3>2 DEF InItsSlot
  <2> QED BY <1>1, <1>a, <2>1, <2>2, <2>3 DEF Cuts
<1>9. Keeps
  <2> SUFFICES ASSUME NEW q \in 1 .. m, locals[q].captured
               PROVE  q \in 1 .. Len(stack') /\ stack'[q] = locals[q].id
    BY DEF Keeps
  <2>1. q \in 1 .. h - 2 /\ stack[q] = locals[q].id
    BY <1>4, <1>5, <1>f
  <2> QED BY <1>6, <1>7, <2>1
<1>10. scopeDepth' = D[n-1] /\ locals' \in Seq(LocalRecords) /\ closed' \subseteq Ids
  BY <1>a, <1>f, <1>2
<1>11. Len(stack') <= MaxStack
  BY <1>6, <1>f, BoundsAssumption
<1> QED BY <1>1, <1>6, <1>8, <1>9, <1>10, <1>11, CutStep

\* give_statement, at its end: OP_GIVE
LEMMA EndGiveStep ==
    ASSUME Idioms = {}, NEW D, NEW B, NEW O, NEW n, Now(D, B, O, n), EndGive
    PROVE  Typed' /\ LevelsInv' /\ Keeps
<1> DEFINE m == Len(locals)
           h == Len(stack)
<1>f. /\ Sound(nest, locals, n) /\ Leveled(nest, locals, D, B, O)
      /\ scopeDepth = D[n] /\ B[n+1] = m
      /\ m \in Nat /\ h \in Nat /\ h <= MaxStack /\ h = m + O[n] + Valued(mode)
      /\ stack \in Seq(Slots) /\ locals \in Seq(LocalRecords)
      /\ \A q \in 1 .. m : InItsSlot(locals, stack, mode, q)
      /\ \A q \in 1 .. m : locals[q].captured => q \in 1 .. h /\ stack[q] = locals[q].id
  BY NowFacts
<1>a. /\ mode = "value" /\ mode' = "given" /\ IsIn("give")
      /\ stack' = Append(SubSeq(stack, 1, Len(stack) - 2), 0) /\ nest' = Sq!Front(nest)
      /\ closed' = {} /\ scopeDepth' = scopeDepth /\ locals' = locals
  BY DEF EndGive, Parsing
<1>1. /\ n \in Nat /\ n # 0 /\ n \in 1 .. n /\ n - 1 \in 0 .. n /\ n - 1 + 1 = n /\ n = Len(nest)
      /\ K(nest, n) = "give"
      /\ nest' \in Seq(AnyConstruct) /\ Len(nest') = n - 1
      /\ \A i \in 1 .. n - 1 : nest'[i] = nest[i]
  BY <1>a, PoppedNest
<1>2. B[n] = m /\ D[n-1] = D[n] /\ O[n] = O[n-1] /\ O[n-1] \in Int
  <2>1. "give" \notin Owners /\ Gains("give") = 0
    BY DEF Owners, Gains
  <2>2. /\ B[n+1] = B[n] /\ D[n] = D[n-1] /\ O[n] = O[n-1] + 0 /\ O[n-1] \in Int
    BY <1>1, <2>1, NoOwner
  <2> QED BY <1>f, <2>2
<1>3. h = m + O[n-1] + 1
  <2>1. Valued(mode) = 1
    BY <1>a DEF Valued
  <2> QED BY <1>f, <1>2, <2>1
<1>b. PICK a \in 1 .. n-1 : Bare(nest, locals, B, O, a, n-1)
  BY <1>1, <1>f DEF Leveled
<1>4. O[n-1] >= 0 /\ (O[n-1] = 0 => m >= 1 /\ ~locals[m].captured)
  <2>1. PICK i : i = n - 1
    OBVIOUS
  <2>2. i \in 0 .. n /\ a \in 1 .. i /\ Bare(nest, locals, B, O, a, i)
    BY <1>1, <1>b, <2>1
  <2>3. O[i] >= 0 /\ (O[i] = 0 => B[i+1] >= 1 /\ ~locals[B[i+1]].captured)
    BY <1>f, <2>2, BareTop
  <2>4. B[i+1] = m
    BY <1>1, <1>2, <2>1
  <2> QED BY <2>1, <2>3, <2>4
<1>5. h >= 2 /\ h - 1 = m + O[n-1]
      /\ \A q \in 1 .. m : q \in 1 .. h - 2 \/ (q = m /\ O[n-1] = 0)
  <2> HIDE DEF h, m
  <2>1. m + O[n-1] >= 1
    BY <1>2, <1>4, <1>f
  <2> QED BY SMTT(30), <1>2, <1>3, <1>4, <1>f, <2>1
<1>6. /\ stack' \in Seq(Slots) /\ Len(stack') = h - 1
      /\ \A q \in 1 .. h - 2 : stack'[q] = stack[q]
  <2>1. 0 \in Slots
    BY DEF Slots
  <2> QED BY <1>a, <1>5, <1>f, <2>1, TwoToOne
<1>7. \A q \in 1 .. h - 2 : q \in 1 .. h - 1
  BY <1>f
<1>8. Cuts(nest, nest', locals, locals', stack', mode', B, O, n-1)
  <2>1. Len(locals') = B[n] /\ \A q \in 1 .. B[n] : locals'[q] = locals[q]
    BY <1>a, <1>2
  <2>2. Len(stack') = B[n] + O[n-1] + Valued(mode')
    <3>1. Valued(mode') = 0
      BY <1>a DEF Valued
    <3>2. Len(stack') = m + O[n-1] /\ m + O[n-1] = m + O[n-1] + 0
      BY <1>2, <1>5, <1>6, <1>f
    <3> QED BY <1>2, <3>1, <3>2
  <2>3. ASSUME NEW q \in 1 .. B[n] PROVE InItsSlot(locals, stack', mode', q)
    <3>1. q \in 1 .. m /\ InItsSlot(locals, stack, mode, q) /\ mode # "given"
      BY <1>2, <1>a, <1>f
    <3>2. q < Len(stack') => q \in 1 .. h - 2
      BY <1>5, <1>6, <1>f, <3>1
    <3> QED BY <1>6, <1>7, <1>a, <3>1, <3>2 DEF InItsSlot
  <2> QED BY <1>1, <1>b, <2>1, <2>2, <2>3 DEF Cuts
<1>9. Keeps
  <2> SUFFICES ASSUME NEW q \in 1 .. m, locals[q].captured
               PROVE  q \in 1 .. Len(stack') /\ stack'[q] = locals[q].id
    BY DEF Keeps
  <2>1. q \in 1 .. h - 2 /\ stack[q] = locals[q].id
    BY <1>4, <1>5, <1>f
  <2> QED BY <1>6, <1>7, <2>1
<1>10. scopeDepth' = D[n-1] /\ locals' \in Seq(LocalRecords) /\ closed' \subseteq Ids
  BY <1>a, <1>f, <1>2
<1>11. Len(stack') <= MaxStack
  BY <1>6, <1>f, BoundsAssumption
<1> QED BY <1>1, <1>6, <1>8, <1>9, <1>10, <1>11, CutStep

-----------------------------------------------------------------------------
\* The end of an arm: its name, if it has one, goes out of scope.
LEMMA ArmEnds ==
    ASSUME NEW D, NEW B, NEW O, NEW n, Now(D, B, O, n), n # 0, K(nest, n) \in Arms, CloseLast
    PROVE  /\ B[n] \in 0 .. Len(locals) /\ locals' = SubSeq(locals, 1, B[n])
           /\ scopeDepth' = D[n-1]
           /\ B[n+1] + O[n] = B[n] + O[n-1]
<1> DEFINE m == Len(locals)
<1>f. /\ Leveled(nest, locals, D, B, O) /\ n = Len(nest) /\ n \in Nat
      /\ scopeDepth = D[n] /\ B[n+1] = m /\ m \in Nat /\ locals \in Seq(LocalRecords)
  BY NowFacts
<1>0. n \in 1 .. n /\ n \in 0 .. n /\ n - 1 \in 0 .. n /\ n - 1 + 1 = n /\ n \in 0 .. n + 1
  BY <1>f
<1>n. D[n] \in Nat /\ D[n-1] \in Nat /\ B[n] \in Nat /\ B[n] <= B[n+1] /\ O[n] \in Int /\ O[n-1] \in Int
  BY <1>0, <1>f, LevelNumbers
<1>j. D[n] = D[n-1] + Deepens(K(nest, n)) /\ O[n] = O[n-1] + Gains(K(nest, n))
  BY <1>0, <1>f DEF Leveled, Numbered
<1>o. Owns(nest, locals, D, B, O, n)
  BY <1>0, <1>f DEF Leveled
<1>b. B[n] \in 0 .. m
  BY <1>f, <1>n
<1>l. Sq!Last(nest) = nest[n] /\ nest[n].kind = K(nest, n)
  BY <1>f DEF Sq!Last, K
<1>st. PICK st : st = [depth |-> scopeDepth, locals |-> locals]
  OBVIOUS
<1>sp. st.depth = scopeDepth /\ st.locals = locals
  BY <1>st
<1>c. scopeDepth' = Closing(nest[n], st).depth /\ locals' = Closing(nest[n], st).locals
  BY <1>l, <1>st DEF CloseLast
<1>1. CASE K(nest, n) = "arm"
  <2>1. "arm" \notin Owners /\ Deepens("arm") = 0 /\ Gains("arm") = 0
    BY DEF Owners, Deepens, Gains, Scoping
  <2>2. B[n+1] = B[n] /\ D[n] = D[n-1] /\ O[n] = O[n-1]
    BY <1>1, <1>j, <1>n, <1>o, <2>1 DEF Owns
  <2>3. Closing(nest[n], st) = st
    BY <1>1, <1>l DEF Closing
  <2>4. scopeDepth' = scopeDepth /\ locals' = locals
    BY <1>c, <1>sp, <2>3
  <2>5. SubSeq(locals, 1, m) = locals
    BY <1>f, WholePrefix
  <2> QED BY <1>b, <1>f, <2>2, <2>4, <2>5
<1>2. CASE K(nest, n) = "bound arm"
  <2>1. "bound arm" \in Binders /\ Deepens("bound arm") = 1 /\ Gains("bound arm") = -1
    BY DEF Binders, Deepens, Gains, Scoping
  <2>2. B[n+1] = B[n] + 1 /\ D[n] = D[n-1] + 1 /\ O[n] = O[n-1] + (-1)
    BY <1>2, <1>j, <1>o, <2>1 DEF Owns
  <2>3. D[n] - 1 = D[n-1] /\ m = B[n] + 1
    BY <1>f, <1>n, <2>2
  <2>4. locals[m].depth # NoDepth
    <3> SUFFICES ASSUME locals[m].depth = NoDepth PROVE FALSE
      OBVIOUS
    <3>1. m \in 1 .. m
      BY <1>n, <2>3
    <3>2. PICK i \in 1 .. n : K(nest, i) = "let" /\ m = B[i+1]
      BY <1>f, <3>1 DEF Leveled, Deep
    <3>3. i # n
      BY <1>2, <3>2
    <3>4. i + 1 \in 0 .. n + 1 /\ i + 1 <= n
      BY <1>f, <3>3
    <3>5. B[i+1] <= B[n]
      BY <1>0, <1>f, <3>4 DEF Leveled, Numbered
    <3> QED BY <1>n, <2>3, <3>2, <3>5
  <2>5. locals[m].depth > D[n-1] /\ (B[n] > 0 => locals[B[n]].depth <= D[n-1])
    <3>1. /\ \A i \in 0 .. n, q \in 1 .. m :
               /\ q <= B[i+1] => locals[q].depth <= D[i]
               /\ q > B[i] /\ locals[q].depth # NoDepth => locals[q].depth >= D[i]
      BY <1>f DEF Leveled, Deep
    <3>2. m \in 1 .. m /\ m > B[n]
      BY <1>n, <2>3
    <3>3. locals[m].depth >= D[n]
      BY <1>0, <2>4, <3>1, <3>2
    <3>4. locals[m].depth \in Nat
      <4>1. AreLocals(locals)
        BY <1>f, TypedLocals
      <4> QED BY <3>2, <4>1 DEF AreLocals
    <3>5. locals[m].depth > D[n-1]
      BY <1>n, <2>3, <3>3, <3>4
    <3>6. B[n] > 0 => locals[B[n]].depth <= D[n-1]
      <4>1. B[n] > 0 => B[n] \in 1 .. m /\ B[n] <= B[n-1+1]
        BY <1>0, <1>n, <1>b
      <4> QED BY <1>0, <3>1, <4>1
    <3> QED BY <3>5, <3>6
  <2>6. Kept(locals, D[n-1]) = B[n]
    <3>1. AreLocals(locals)
      BY <1>f, TypedLocals
    <3>2. \A q \in B[n]+1 .. m : q = m
      BY <1>n, <2>3
    <3>3. \A q \in B[n]+1 .. m : locals[q].depth > D[n-1]
      BY <2>5, <3>2
    <3>4. D[n-1] \in Int
      BY <1>n
    <3> QED BY <1>b, <2>5, <3>1, <3>3, <3>4, KeptIs
  <2>7. Closing(nest[n], st) = [depth |-> st.depth - 1, locals |-> Trim(st.locals, st.depth - 1)]
    BY <1>2, <1>l DEF Closing
  <2>8. PICK w : w = SubSeq(locals, 1, B[n])
    OBVIOUS
  <2>9. Trim(locals, D[n-1]) = w
    BY <2>6, <2>8 DEF Trim
  <2>10. Closing(nest[n], st) = [depth |-> D[n-1], locals |-> w]
    BY <1>f, <1>sp, <2>3, <2>7, <2>9
  <2>11. scopeDepth' = D[n-1] /\ locals' = w
    BY <1>c, <2>10
  <2>12. B[n+1] + O[n] = B[n] + O[n-1]
    BY <1>n, <2>2
  <2> QED BY <1>b, <2>8, <2>11, <2>12
<1> QED BY <1>1, <1>2 DEF Arms

-----------------------------------------------------------------------------
\* The end of a match.
LEMMA EndMatchStep ==
    ASSUME Idioms = {}, NEW D, NEW B, NEW O, NEW n, Now(D, B, O, n), EndMatch
    PROVE  Typed' /\ LevelsInv' /\ Keeps
<1> DEFINE m == Len(locals)
           h == Len(stack)
<1>f. /\ Sound(nest, locals, n) /\ Leveled(nest, locals, D, B, O)
      /\ n = Len(nest) /\ n \in Nat
      /\ scopeDepth = D[n] /\ B[n+1] = m
      /\ m \in Nat /\ h \in Nat /\ h <= MaxStack /\ h = m + O[n] + Valued(mode)
      /\ stack \in Seq(Slots) /\ locals \in Seq(LocalRecords) /\ nest \in Seq(AnyConstruct)
      /\ \A q \in 1 .. m : InItsSlot(locals, stack, mode, q)
      /\ \A q \in 1 .. m : locals[q].captured => q \in 1 .. h /\ stack[q] = locals[q].id
  BY NowFacts
<1>a. /\ mode' = "value" /\ CloseLast /\ nest' = SubSeq(nest, 1, Len(nest) - 2)
      /\ closed' = {} /\ stack' = stack
  BY DEF EndMatch
<1>k. /\ K(nest, n) \in Arms /\ n # 0 /\ Fits(K(nest, n-1), K(nest, n))
      /\ mode \in {"statement", "given"}
  <2>1. PICK kind \in Arms : IsIn(kind)
    BY DEF EndMatch, Arms
  <2>2. K(nest, n) = kind /\ n # 0 /\ Fits(K(nest, n-1), kind)
    BY <2>1, PoppedNest
  <2>3. mode \in {"statement", "given"} \/ mode = "value"
    BY DEF EndMatch, Closable, Parsing
  <2>4. mode # "value"
    <3> SUFFICES ASSUME mode = "value" PROVE FALSE
      OBVIOUS
    <3>1. ModeFits(K(nest, n), "value")
      BY DEF Now, NestInv
    <3>2. K(nest, n) \in Contexts
      BY <3>1 DEF ModeFits
    <3> QED BY <2>1, <2>2, <3>2 DEF Contexts, Arms
  <2> QED BY <2>1, <2>2, <2>3, <2>4
<1>m. K(nest, n-1) = "match" /\ n - 1 # 0
  <2>1. K(nest, n-1) = "match"
    BY <1>k DEF Fits, Arms
  <2> QED BY <2>1 DEF K
<1>0. n - 1 \in 1 .. n /\ n - 2 \in 0 .. n /\ n - 1 - 1 = n - 2 /\ n - 2 + 1 = n - 1 /\ n - 1 + 1 = n
  BY <1>f, <1>k, <1>m
<1>1. /\ B[n] \in 0 .. m /\ locals' = SubSeq(locals, 1, B[n]) /\ scopeDepth' = D[n-1]
      /\ m + O[n] = B[n] + O[n-1]
  BY <1>a, <1>f, <1>k, ArmEnds
<1>2. B[n] = B[n-1] /\ D[n-1] = D[n-2] /\ O[n-1] = O[n-2] + 1 /\ O[n-2] \in Int /\ O[n-2] >= -1
  <2>1. "match" \notin Owners /\ Gains("match") = 1
    BY DEF Owners, Gains
  <2>2. PICK j : j = n - 1
    OBVIOUS
  <2>3. j \in 1 .. n /\ K(nest, j) = "match" /\ j + 1 = n /\ j - 1 = n - 2
    BY <1>0, <1>m, <2>2
  <2>4. /\ B[j+1] = B[j] /\ D[j] = D[j-1] /\ O[j] = O[j-1] + 1
        /\ O[j-1] \in Int /\ O[j-1] >= -1
    BY <2>1, <2>3, NoOwner
  <2> QED BY <2>2, <2>3, <2>4
<1> DEFINE b == B[n]
<1>3. h = b + O[n-2] + 1
  <2>1. Valued(mode) = 0
    BY <1>k DEF Valued
  <2>2. h = m + O[n] + 0
    BY <1>f, <2>1
  <2>3. O[n] \in Int
    BY NowFacts
  <2>4. m + O[n] = b + (O[n-2] + 1) /\ b \in Nat
    BY <1>1, <1>2
  <2> HIDE DEF h, m, b
  <2> QED BY <1>2, <1>f, <2>2, <2>3, <2>4
<1>4. O[n-2] < 0 => O[n-2] = -1 /\ b >= 1 /\ locals[b].depth = NoDepth
  <2> SUFFICES ASSUME O[n-2] < 0 PROVE O[n-2] = -1 /\ b >= 1 /\ locals[b].depth = NoDepth
    OBVIOUS
  <2>1. PICK j : j = n - 2
    OBVIOUS
  <2>2. j \in 0 .. n /\ O[j] < 0 /\ j + 1 = n - 1
    BY <1>0, <2>1
  <2>3. O[j] = -1 /\ B[j] \in Nat /\ B[j+1] = B[j] + 1 /\ locals[B[j+1]].depth = NoDepth
    BY <2>2, TopLet
  <2>4. b = B[j+1]
    BY <1>2, <2>2
  <2> QED BY <2>1, <2>3, <2>4
<1>5. \A q \in 1 .. b : q \in 1 .. m /\ (q < h \/ (q = b /\ O[n-2] < 0))
  <2>1. b \in Nat /\ b <= m
    BY <1>1, <1>f
  <2> HIDE DEF h, m, b
  <2> QED BY SMTT(30), <1>2, <1>3, <1>f, <2>1
<1>6. /\ locals' \in Seq(LocalRecords) /\ Len(locals') = b
      /\ \A q \in 1 .. b : locals'[q] = locals[q]
  BY <1>1, <1>f, Prefix
<1>7. /\ nest' \in Seq(AnyConstruct) /\ Len(nest') = n - 2
      /\ \A i \in 1 .. n - 2 : nest'[i] = nest[i]
  <2>1. /\ SubSeq(nest, 1, n-2) \in Seq(AnyConstruct) /\ Len(SubSeq(nest, 1, n-2)) = n - 2
        /\ \A i \in 1 .. n-2 : SubSeq(nest, 1, n-2)[i] = nest[i]
    BY <1>0, <1>f, Prefix
  <2> QED BY <1>a, <1>f, <2>1
<1>8. Cuts(nest, nest', locals, locals', stack', mode', B, O, n-2)
  <2>1. B[n-2+1] = b
    BY <1>0, <1>2
  <2>2. Len(stack') = b + O[n-2] + Valued(mode')
    <3>1. Valued(mode') = 1
      BY <1>a DEF Valued
    <3> QED BY <1>3, <1>a, <3>1
  <2>3. ASSUME NEW q \in 1 .. b PROVE InItsSlot(locals, stack', mode', q)
    <3>1. q \in 1 .. m /\ InItsSlot(locals, stack, mode, q) /\ (q < h \/ locals[q].depth = NoDepth)
      BY <1>4, <1>5, <1>f
    <3> QED BY <1>a, <3>1 DEF InItsSlot
  <2>4. n - 2 \in 0 .. Len(nest) /\ mode' # "given"
    BY <1>0, <1>f, <1>a
  <2> HIDE DEF b
  <2> QED BY <1>6, <1>7, <2>1, <2>2, <2>3, <2>4 DEF Cuts
<1>9. Keeps
  BY <1>a, <1>f DEF Keeps
<1>10. scopeDepth' = D[n-2] /\ closed' \subseteq Ids /\ stack' \in Seq(Slots) /\ Len(stack') <= MaxStack
  BY <1>a, <1>f, <1>1, <1>2
<1>11. PICK k : k = n - 2
  OBVIOUS
<1>12. Cuts(nest, nest', locals, locals', stack', mode', B, O, k) /\ scopeDepth' = D[k]
  BY <1>8, <1>10, <1>11
<1> QED BY <1>6, <1>7, <1>9, <1>10, <1>12, CutStep

-----------------------------------------------------------------------------
\* The end of a block or a loop: cleanupLocalsToDepth
LEMMA EndScopeStep ==
    ASSUME NEW D, NEW B, NEW O, NEW n, Now(D, B, O, n), EndBlock \/ EndLoop
    PROVE  Typed' /\ LevelsInv' /\ Keeps
<1> DEFINE m == Len(locals)
<1>f. /\ Sound(nest, locals, n) /\ Leveled(nest, locals, D, B, O)
      /\ scopeDepth = D[n] /\ B[n+1] = m /\ m \in Nat
      /\ locals \in Seq(LocalRecords) /\ nest \in Seq(AnyConstruct) /\ AreLocals(locals)
  BY NowFacts, TypedLocals
<1>t. Typed /\ Balanced(nest, locals, stack, mode, scopeDepth, D, B, O)
  BY DEF Now
<1>a. /\ mode \in {"statement", "given"} /\ mode' = mode /\ (IsIn("block") \/ IsIn("loop"))
      /\ CloseLast /\ Execute(ScopeCleanup(locals, scopeDepth - 1)) /\ nest' = Sq!Front(nest)
  BY DEF EndBlock, EndLoop, Closable, Parsing
<1>p. PICK kind \in Plain : IsIn(kind)
  BY <1>a DEF Plain
<1>1. /\ n \in Nat /\ n # 0 /\ n - 1 \in 0 .. n /\ n - 1 + 1 = n /\ n \in 1 .. n /\ n \in 0 .. n
      /\ n = Len(nest) /\ K(nest, n) = kind /\ Fits(K(nest, n-1), kind)
      /\ Sq!Last(nest) = nest[n]
  BY <1>p, PoppedNest
<1>2. K(nest, n) \in Plain /\ K(nest, n-1) # "let" /\ K(nest, n) \notin Arms /\ Gains(K(nest, n)) = 0
      /\ Deepens(K(nest, n)) = 1
  <2>1. K(nest, n-1) \in Bodies
    BY <1>p, <1>1 DEF Fits, Plain, Arms
  <2> QED BY <1>p, <1>1, <2>1 DEF Bodies, Plain, Arms, Gains, Deepens, Scoping
<1>3. PICK k : k = n - 1
  OBVIOUS
<1>4. k \in 0 .. n /\ k \in Nat /\ k + 1 = n /\ n \in k .. n /\ n \in k+1 .. n /\ \A i \in k+1 .. n : i = n
  BY <1>1, <1>3
<1>5. Straight(nest, k) /\ K(nest, k) # "let"
  BY <1>1, <1>2, <1>3, <1>4 DEF Straight
<1>6. StraightLevels(nest, locals, D, B, O, n, k)
  BY <1>1, <1>4, <1>5, <1>f DEF StraightLevels
<1>n. D[n] \in Nat /\ D[k] \in Nat /\ D[n] - 1 = D[k] /\ O[n] = O[k] /\ B[n] \in Nat /\ B[n] <= m
  <2>1. D[n] = D[n-1] + Deepens(K(nest, n)) /\ O[n] = O[n-1] + Gains(K(nest, n))
    BY <1>1, <1>f DEF Leveled, Numbered
  <2>2. D[n] \in Nat /\ D[k] \in Nat /\ O[k] \in Int /\ B[n] \in Nat /\ B[n] <= B[n+1]
    BY <1>1, <1>3, <1>f, LevelNumbers
  <2> QED BY <1>2, <1>3, <1>f, <2>1, <2>2
<1>7. locals' = SubSeq(locals, 1, B[n]) /\ scopeDepth' = D[k]
  <2>1. SubSeq(locals, 1, B[n+1]) = locals
    BY <1>f, WholePrefix
  <2>2. Closing(nest[n], [depth |-> D[n], locals |-> SubSeq(locals, 1, B[n+1])])
           = [depth |-> D[n-1], locals |-> SubSeq(locals, 1, B[n])]
    <3>1. PICK j : j = n
      OBVIOUS
    <3>2. j \in k+1 .. n
      BY <1>4, <3>1
    <3>3. Closing(nest[j], [depth |-> D[j], locals |-> SubSeq(locals, 1, B[j+1])])
            = [depth |-> D[j-1], locals |-> SubSeq(locals, 1, B[j])]
      <4>1. PICK R : locals \in Seq(R)
        BY <1>f
      <4> QED BY <1>6, <3>2, <4>1, ClosingLevel
    <3> QED BY <3>1, <3>3
  <2>3. PICK w : w = SubSeq(locals, 1, B[n])
    OBVIOUS
  <2>4. Closing(nest[n], [depth |-> scopeDepth, locals |-> locals]) = [depth |-> D[k], locals |-> w]
    BY <1>3, <1>f, <2>1, <2>2, <2>3
  <2>5. PICK st : st = Closing(nest[n], [depth |-> scopeDepth, locals |-> locals])
    OBVIOUS
  <2>6. scopeDepth' = st.depth /\ locals' = st.locals
    BY <1>a, <1>1, <2>5 DEF CloseLast
  <2>7. st.depth = D[k] /\ st.locals = w
    BY <2>4, <2>5
  <2> QED BY <2>3, <2>6, <2>7
<1>8. Kept(locals, D[k]) = B[n] /\ B[n] \in 0 .. m
  <2>1. FirstLevels(locals, locals, B, n, k, n)
    BY <1>4, <1>f DEF FirstLevels
  <2> QED BY <1>4, <1>6, <2>1, KeptAt
<1>9. Removes(ScopeCleanup(locals, D[k]), locals, B[n])
  <2>1. \A q, r \in 1 .. m : B[n] < q /\ q < r /\ locals[q].captured => locals[r].captured
    <3>1. LastCaptured(nest, locals, B, n)
      BY <1>1, <1>f DEF Leveled
    <3>2. \A q, r \in 1 .. m : B[n] < q /\ q < r /\ r <= m /\ locals[q].captured => locals[r].captured
      BY <1>2, <1>f, <3>1 DEF LastCaptured
    <3>3. \A r \in 1 .. m : r <= m
      BY <1>f
    <3> QED BY <3>2, <3>3
  <2> HIDE DEF m
  <2>2. AreLocals(locals) /\ B[n] \in 0 .. Len(locals) /\ Kept(locals, D[k]) = B[n]
    BY <1>8, <1>f DEF m
  <2>3. \A q, r \in 1 .. Len(locals) : B[n] < q /\ q < r /\ locals[q].captured => locals[r].captured
    BY <2>1 DEF m
  <2> QED BY <2>2, <2>3, ScopeCode
<1>10. PICK code : code = ScopeCleanup(locals, D[k])
  OBVIOUS
<1>11. Removes(code, locals, B[k+1]) /\ Execute(code)
  <2>1. scopeDepth - 1 = D[k]
    BY <1>f, <1>n
  <2> QED BY <1>4, <1>9, <1>10, <1>a, <2>1
<1>12. mode = "given" => \E a \in 1 .. k : Bare(nest, locals, B, O, a, k)
  <2> SUFFICES ASSUME mode = "given" PROVE \E a \in 1 .. k : Bare(nest, locals, B, O, a, k)
    OBVIOUS
  <2>1. PICK a \in 1 .. n : Bare(nest, locals, B, O, a, n)
    BY <1>1, <1>t DEF Balanced
  <2>2. K(nest, a) \in Arms /\ B[n+1] = B[a+1] /\ O[n] = O[a] /\ \A j \in a+1 .. n : K(nest, j) \in Plain
    BY <2>1 DEF Bare
  <2>3. a # n
    BY <1>2, <2>2
  <2>4. a \in 1 .. k /\ a + 1 \in 0 .. n + 1 /\ a + 1 <= n /\ n \in 0 .. n + 1
    <3>1. a \in 1 .. n /\ n \in Nat /\ k = n - 1
      BY <1>1, <1>3
    <3> QED BY <2>3, <3>1
  <2>5. B[a+1] <= B[n]
    BY <1>f, <1>1, <2>4 DEF Leveled, Numbered
  <2>6. B[n] = B[a+1]
    BY <1>f, <1>n, <2>2, <2>5
  <2>7. \A j \in a+1 .. k : j \in a+1 .. n
    BY <1>4
  <2>8. Bare(nest, locals, B, O, a, k)
    BY <1>4, <1>n, <2>2, <2>6, <2>7 DEF Bare
  <2> QED BY <2>4, <2>8
<1>13. Leaves(k, B, D, n)
  <2>1. nest' = SubSeq(nest, 1, k)
    <3>1. Sq!Front(nest) = SubSeq(nest, 1, Len(nest) - 1)
      BY DEF Sq!Front
    <3> QED BY <1>1, <1>3, <1>a, <3>1
  <2> QED BY <1>4, <1>5, <1>7, <1>a, <2>1 DEF Leaves
<1> QED BY <1>11, <1>12, <1>13, <1>f, <1>t, Left

\* break_statement, continue_statement: emit_cleanup_for_jump
LEMMA LeaveToLoopStep ==
    ASSUME Idioms = {}, NEW D, NEW B, NEW O, NEW n, Now(D, B, O, n), LeaveToLoop
    PROVE  Typed' /\ LevelsInv' /\ Keeps
<1> DEFINE m == Len(locals)
<1>f. /\ Sound(nest, locals, n) /\ Leveled(nest, locals, D, B, O) /\ n = Len(nest) /\ n \in Nat
      /\ scopeDepth = D[n] /\ B[n+1] = m /\ m \in Nat
      /\ locals \in Seq(LocalRecords) /\ AreLocals(locals) /\ Nesting(nest)
  BY NowFacts, TypedLocals DEF Sound
<1>t. Typed /\ Balanced(nest, locals, stack, mode, scopeDepth, D, B, O)
  BY DEF Now
<1>a. mode = "statement" /\ mode' = mode
  BY DEF LeaveToLoop, Parsing
<1>1. PICK k \in DOMAIN nest :
          /\ InnermostLoop(k) /\ ~LeavesArm(k)
          /\ Execute(JumpCleanup(locals, nest[k].depth))
          /\ CloseDownTo(k) /\ nest' = SubSeq(nest, 1, k)
  BY DEF LeaveToLoop
<1>2. k \in 1 .. n /\ k \in 0 .. n /\ k # 0 /\ n \in k .. n /\ k \in Nat
  <2>1. DOMAIN nest = 1 .. Len(nest)
    BY MatchesAreFew DEF Now, NestInv
  <2> QED BY <1>f, <2>1
<1>3. K(nest, k) = "loop" /\ nest[k].depth = D[k]
  <2>1. K(nest, k) = "loop"
    BY <1>1, <1>2 DEF InnermostLoop, K
  <2>2. Owns(nest, locals, D, B, O, k)
    BY <1>2, <1>f DEF Leveled
  <2> QED BY <2>1, <2>2 DEF Owns
<1>4. Straight(nest, k)
  <2>1. K(nest, n) \in Bodies
    <3>1. mode \in {"statement", "given"}
      BY <1>a
    <3> QED BY <3>1, InBody
  <2>2. \A i \in k+1 .. n : K(nest, i) \notin Arms
    <3>1. \A i \in k+1 .. n : i # 0 /\ i \in k+1 .. Len(nest)
      BY <1>2, <1>f
    <3>2. \A i \in k+1 .. n : K(nest, i) = nest[i].kind
      BY <3>1 DEF K
    <3> QED BY <1>1, <3>1, <3>2 DEF LeavesArm
  <2> QED BY <1>2, <1>f, <2>1, <2>2, StraightDown
<1>5. StraightLevels(nest, locals, D, B, O, n, k)
  BY <1>2, <1>4, <1>f DEF StraightLevels
<1>6. scopeDepth' = D[k] /\ locals' = SubSeq(locals, 1, B[k+1])
  BY <1>1, <1>5, <1>f, ClosedDown
<1>7. Kept(locals, D[k]) = B[k+1] /\ B[k+1] \in 0 .. m
  <2>1. FirstLevels(locals, locals, B, n, k, n)
    BY <1>2, <1>f DEF FirstLevels
  <2> QED BY <1>5, <2>1, KeptAt
<1>8. PICK code : code = JumpCleanup(locals, D[k])
  OBVIOUS
<1>9. Removes(code, locals, B[k+1]) /\ Execute(code)
  <2>1. Removes(JumpCleanup(locals, D[k]), locals, B[k+1])
    BY <1>7, <1>f, JumpCode
  <2> QED BY <1>1, <1>3, <1>8, <2>1
<1>10. Leaves(k, B, D, n)
  <2>1. mode \in {"statement", "given"} /\ K(nest, k) # "let"
    BY <1>a, <1>3
  <2> QED BY <1>1, <1>2, <1>4, <1>6, <1>a, <2>1 DEF Leaves
<1>11. mode = "given" => \E a \in 1 .. k : Bare(nest, locals, B, O, a, k)
  BY <1>a
<1> QED BY <1>9, <1>10, <1>11, <1>f, <1>t, Left

\* return_statement, and the end of the body: OP_RETURN closes all there is
LEMMA ReturnStep ==
    ASSUME Idioms = {}, NEW D, NEW B, NEW O, NEW n, Now(D, B, O, n), Return
    PROVE  Typed' /\ LevelsInv' /\ Keeps
<1> DEFINE h == Len(stack)
<1>f. stack \in Seq(Slots) /\ h \in Nat /\ \A i \in 1 .. h : stack[i] \in Slots
  BY NowFacts, LenProperties, ElementOfSeq
<1>a. /\ mode = "statement" /\ mode' = mode
      /\ Execute([i \in DOMAIN stack |-> "close"])
      /\ scopeDepth' = 1 /\ locals' = <<>> /\ nest' = <<>>
  BY DEF Return, Parsing
<1>1. /\ stack' \in Seq(Slots) /\ Len(stack') = 0
      /\ closed' = {stack[h + 1 - i] : i \in 1 .. h}
  <2>1. DOMAIN stack = 1 .. h
    BY <1>f, LenProperties
  <2>2. PICK code : code = Closes(h)
    OBVIOUS
  <2>3. [i \in DOMAIN stack |-> "close"] = code
    BY <2>1, <2>2 DEF Closes
  <2>4. code \in Seq({"close", "pop"}) /\ Len(code) = h /\ \A i \in 1 .. h : code[i] = "close"
    BY <1>f, <2>2, ClosesAre
  <2>5. DOMAIN code = 1 .. h
    BY <2>4, LenProperties
  <2>6. h \in 0 .. Len(stack) /\ Len(stack) - h = 0
    BY <1>f
  <2>7. Execute(code)
    BY <1>a, <2>3
  <2>8. /\ stack' \in Seq(Slots) /\ Len(stack') = Len(stack) - h
        /\ closed' = {stack[Len(stack) + 1 - i] : i \in {i \in 1 .. h : code[i] = "close"}}
    BY <1>f, <2>4, <2>5, <2>6, <2>7, Executed
  <2>9. {i \in 1 .. h : code[i] = "close"} = 1 .. h
    BY <2>4
  <2> QED BY <2>6, <2>8, <2>9
<1> HIDE DEF h
<1>2. \A i \in 1 .. h : h + 1 - i \in 1 .. h /\ h + 1 - (h + 1 - i) = i
  BY <1>f
<1>3. closed' \subseteq Slots
  BY <1>f, <1>1, <1>2
<1>4. \A i \in 1 .. h : stack[i] \in closed'
  <2> SUFFICES ASSUME NEW i \in 1 .. h PROVE stack[i] \in closed'
    OBVIOUS
  <2>1. stack[h + 1 - (h + 1 - i)] \in closed'
    BY <1>1, <1>2
  <2> QED BY <1>2, <2>1
<1>5. Keeps
  BY <1>4 DEF Keeps, h
<1>6. /\ locals' \in Seq(LocalRecords) /\ nest' \in Seq(AnyConstruct)
      /\ Len(locals') = 0 /\ Len(nest') = 0
  BY <1>a
<1>7. Typed'
  BY <1>1, <1>3, <1>6, BoundsAssumption DEF Typed, Slots
<1>8. LevelsInv'
  <2>1. \E E, A, P : Balanced(nest', locals', stack', "statement", 1, E, A, P)
    BY <1>1, <1>6, RootBalanced
  <2> QED BY <1>a, <2>1 DEF LevelsInv
<1> QED BY <1>5, <1>7, <1>8

-----------------------------------------------------------------------------
(***************************************************************************)
(* The invariant holds.                                                    *)
(***************************************************************************)
LEMMA ScopesInvInit == Init => ScopesInv
<1> SUFFICES ASSUME Init PROVE ScopesInv
  OBVIOUS
<1>1. NestInv
  BY NestInvInit
<1>2. nest = <<>> /\ locals = <<>> /\ stack = <<>> /\ closed = {} /\ mode = "statement" /\ scopeDepth = 1
  BY DEF Init
<1>3. Len(nest) = 0 /\ Len(locals) = 0 /\ Len(stack) = 0
  BY <1>2
<1>4. Typed
  <2>1. /\ nest \in Seq(AnyConstruct) /\ locals \in Seq(LocalRecords)
        /\ stack \in Seq(Ids \cup {0})
    BY <1>2
  <2> QED BY <1>2, <1>3, <2>1, BoundsAssumption DEF Typed
<1>5. LevelsInv
  BY <1>2, <1>3, RootBalanced DEF LevelsInv
<1> QED BY <1>1, <1>4, <1>5 DEF ScopesInv

\* Every step, action by action.
LEMMA ScopesStep ==
    ASSUME Idioms = {}, ScopesInv, Next
    PROVE  Typed' /\ LevelsInv' /\ Keeps
<1>1. PICK D, B, O, n : Now(D, B, O, n)
  BY NowExists
<1>2. CASE BeginBlock \/ BeginExpressionStatement
  BY <1>1, <1>2, StatementStep
<1>3. CASE EndBlock \/ EndLoop
  BY <1>1, <1>3, EndScopeStep
<1>4. CASE BeginLet
  BY <1>1, <1>4, LetStep
<1>5. CASE EndLet
  BY <1>1, <1>5, EndLetStep
<1>6. CASE EndExpressionStatement
  BY <1>1, <1>6, EndExpressionStep
<1>7. CASE \E x \in 0 .. 2 : BeginLoop(x)
  BY <1>1, <1>7, LoopStep
<1>8. CASE LeaveToLoop
  BY <1>1, <1>8, LeaveToLoopStep
<1>9. CASE Return
  BY <1>1, <1>9, ReturnStep
<1>10. CASE Value
  BY <1>1, <1>10, ValueStep
<1>11. CASE Capture
  BY <1>1, <1>11, CaptureStep
<1>12. CASE BeginOperand \/ BeginMatch
  BY <1>1, <1>12, OperandStep
<1>13. CASE EndOperand
  BY <1>1, <1>13, EndOperandStep
<1>14. CASE BeginBoundArm
  BY <1>1, <1>14, BoundArmStep
<1>15. CASE EndMatch
  BY <1>1, <1>15, EndMatchStep
<1>16. CASE \E bare \in BOOLEAN : BeginArm(bare)
  BY <1>1, <1>16, ArmStep
<1>17. CASE BeginGive
  BY <1>1, <1>17, GiveStep
<1>18. CASE EndGive
  BY <1>1, <1>18, EndGiveStep
<1> QED
  BY <1>2, <1>3, <1>4, <1>5, <1>6, <1>7, <1>8, <1>9, <1>10, <1>11, <1>12, <1>13,
     <1>14, <1>15, <1>16, <1>17, <1>18 DEF Next

\* ScopesInv is inductive.
LEMMA ScopesInvNext ==
    ASSUME Idioms = {}, ScopesInv, [Next]_vars
    PROVE  ScopesInv'
<1>1. NestInv'
  <2>1. "exit" \notin Idioms /\ NestInv
    BY DEF ScopesInv
  <2> QED BY <2>1, NestInvNext
<1>2. CASE Next
  BY <1>1, <1>2, ScopesStep DEF ScopesInv
<1>3. CASE UNCHANGED vars
  <2>1. Typed' /\ LevelsInv'
    BY <1>3 DEF ScopesInv, vars, Typed, LevelsInv
  <2> QED BY <1>1, <2>1 DEF ScopesInv
<1> QED BY <1>2, <1>3

\* The invariant, in every state.
LEMMA ScopesInvAlways ==
    ASSUME Idioms = {}
    PROVE  Spec => []ScopesInv
<1>1. ScopesInv /\ [Next]_vars => ScopesInv'
  BY ScopesInvNext
<1> QED BY ScopesInvInit, <1>1, PTL DEF Spec

\* A captured local leaves the stack only when its upvalue is closed: whatever
\* ends a scope or leaves it (cleanupLocalsToDepth, emit_cleanup_for_jump,
\* OP_RETURN, OP_MATCH_END), no closure keeps a pointer to a slot that is
\* reused.  For every MatchNestDepth and bound, and programs without the idioms
\* (with any of them TLC shows a property of Scopes violated).
THEOREM NoClosureDangles ==
    ASSUME Idioms = {}
    PROVE  Spec => CapturedLocalsAreClosed
<1> DEFINE ClosesOrKeeps == \A i \in DOMAIN locals :
                      /\ locals[i].captured
                      /\ \E k \in DOMAIN stack : stack[k] = locals[i].id
                      /\ \A k \in DOMAIN stack' : stack'[k] # locals[i].id
                      => locals[i].id \in closed'
<1>1. ASSUME ScopesInv, [Next]_vars, ScopesInv' PROVE [ClosesOrKeeps]_vars
  <2>1. CASE UNCHANGED vars
    BY <2>1
  <2>2. CASE Next
    <3>1. Keeps
      BY <1>1, <2>2, ScopesStep
    <3>2. /\ DOMAIN locals = 1 .. Len(locals) /\ DOMAIN stack' = 1 .. Len(stack')
          /\ DOMAIN stack = 1 .. Len(stack)
      <4>1. /\ locals \in Seq(LocalRecords) /\ stack \in Seq(Ids \cup {0})
            /\ (stack \in Seq(Ids \cup {0}))'
        BY <1>1 DEF ScopesInv, Typed
      <4> QED BY <4>1, LenProperties
    <3>3. ClosesOrKeeps
      BY <3>1, <3>2 DEF Keeps
    <3> QED BY <3>3
  <2> QED BY <1>1, <2>1, <2>2
<1> QED BY ScopesInvAlways, <1>1, PTL DEF Spec, CapturedLocalsAreClosed

\* A sequence is one over any set its elements are in.
LEMMA SeqNarrows ==
    ASSUME NEW S, NEW s \in Seq(S), NEW T, \A i \in 1 .. Len(s) : s[i] \in T
    PROVE  s \in Seq(T)
<1>1. Len(s) \in Nat /\ s \in [1 .. Len(s) -> S]
  BY LenProperties
<1>2. s \in [1 .. Len(s) -> T]
  BY <1>1
<1> QED BY <1>1, <1>2, FunSeq

\* The types, and the slots of the locals.
LEMMA InvIsSound ==
    ASSUME ScopesInv
    PROVE  ScopesAreSound
<1>1. PICK D, B, O, n : Now(D, B, O, n)
  BY NowExists
<1> DEFINE m == Len(locals)
<1>2. /\ n = Len(nest) /\ n \in Nat
      /\ Leveled(nest, locals, D, B, O)
      /\ scopeDepth = D[n] /\ D[n] \in Nat /\ D[n] >= 1 /\ B[n+1] = m
      /\ m \in Nat
      /\ stack \in Seq(Slots) /\ locals \in Seq(LocalRecords) /\ nest \in Seq(AnyConstruct)
      /\ \A q \in 1 .. m : InItsSlot(locals, stack, mode, q)
  BY <1>1, NowFacts
<1>3. scopeDepth \in Nat \ {0}
  BY <1>2
<1>4. locals \in Seq([id : Ids, depth : 0 .. scopeDepth, captured : BOOLEAN])
  <2>1. \A q \in 1 .. m : locals[q] \in LocalRecords
    BY <1>2, TypedLocals
  <2>2. \A q \in 1 .. m : locals[q].depth <= scopeDepth
    <3>1. n \in 0 .. n /\ \A q \in 1 .. m : q <= B[n+1]
      BY <1>2
    <3>2. \A i \in 0 .. n, q \in 1 .. m : q <= B[i+1] => locals[q].depth <= D[i]
      BY <1>2 DEF Leveled, Deep
    <3> QED BY <1>2, <3>1, <3>2
  <2>3. \A r \in LocalRecords : r.depth <= scopeDepth =>
           r \in [id : Ids, depth : 0 .. scopeDepth, captured : BOOLEAN]
    <3> HIDE DEF Ids
    <3> QED BY <1>3 DEF LocalRecords
  <2>4. \A q \in 1 .. m : locals[q] \in [id : Ids, depth : 0 .. scopeDepth, captured : BOOLEAN]
    BY <2>1, <2>2, <2>3
  <2> HIDE DEF Ids
  <2> QED BY <1>2, <2>4, SeqNarrows
<1>5. nest \in Seq(Constructs)
  <2>1. ASSUME NEW i \in 1 .. n PROVE nest[i] \in Constructs
    <3>1. nest[i] \in AnyConstruct
      BY <1>2, ElementOfSeq
    <3>2. nest[i].kind = "loop" => nest[i].depth \in 1 .. scopeDepth
      <4>1. i \in 0 .. n /\ n \in 0 .. n /\ i <= n /\ i # 0
        BY <1>2
      <4>2. Owns(nest, locals, D, B, O, i)
        BY <1>2, <4>1 DEF Leveled
      <4>3. D[i] \in Nat /\ D[i] >= 1
        BY <1>2, <4>1, LevelNumbers
      <4>4. D[i] <= D[n]
        BY <1>2, <4>1 DEF Leveled, Numbered
      <4>5. nest[i].kind = "loop" => nest[i].depth = D[i]
        BY <4>1, <4>2 DEF Owns, K
      <4> QED BY <1>2, <4>3, <4>4, <4>5
    <3>3. CASE nest[i] \in [kind : {"loop"}, depth : Nat, hidden : Ids \cup {0}]
      <4> HIDE DEF Ids
      <4>1. nest[i].kind = "loop"
        BY <3>3
      <4>2. nest[i] \in [kind : {"loop"}, depth : 1 .. scopeDepth, hidden : Ids \cup {0}]
        BY <3>2, <3>3, <4>1
      <4> QED BY <4>2 DEF Constructs
    <3>4. CASE nest[i] \notin [kind : {"loop"}, depth : Nat, hidden : Ids \cup {0}]
      BY <3>1, <3>4 DEF AnyConstruct, Constructs
    <3> QED BY <3>3, <3>4
  <2> QED BY <1>2, <2>1, SeqNarrows
<1>6. mode \in {"statement", "given", "expression", "value", "arm"}
  BY <1>1 DEF Now, NestInv, ModeFits
<1>7. TypeOK
  BY <1>1, <1>2, <1>3, <1>4, <1>5, <1>6 DEF TypeOK, Now, NestInv, Typed
<1>8. LocalsInTheirSlots
  <2>1. DOMAIN locals = 1 .. m /\ DOMAIN stack = 1 .. Len(stack)
    BY <1>2, LenProperties
  <2> QED BY <1>2, <2>1 DEF LocalsInTheirSlots, InItsSlot
<1> QED BY <1>7, <1>8 DEF ScopesAreSound

\* OP_GET_LOCAL i finds in slot i the i-th local of the compiler's array, in
\* every state of every program without the idioms: the array is never out of
\* step with the stack, though it is trimmed while parsing and the stack by the
\* code emitted for it.
THEOREM LocalsAreWhereTheCompilerThinks ==
    ASSUME Idioms = {}
    PROVE  Spec => []ScopesAreSound
<1>1. ScopesInv => ScopesAreSound
  BY InvIsSound
<1> QED BY ScopesInvAlways, <1>1, PTL

-----------------------------------------------------------------------------
(***************************************************************************)
(* The height of the stack, counted from the open constructs.              *)
(***************************************************************************)
OfKind(ns, i, kinds) == {j \in 1 .. i : K(ns, j) \in kinds}

Number(ns, i, kinds) == Cardinality(OfKind(ns, i, kinds))

\* The constructs of some kinds up to the i-th.
LEMMA OneMoreKind ==
    ASSUME NEW ns, NEW i \in Nat, i # 0, NEW kinds
    PROVE  /\ Number(ns, i, kinds) \in Nat /\ Number(ns, i-1, kinds) \in Nat
           /\ K(ns, i) \in kinds => Number(ns, i, kinds) = Number(ns, i-1, kinds) + 1
           /\ K(ns, i) \notin kinds => Number(ns, i, kinds) = Number(ns, i-1, kinds)
<1> DEFINE S == OfKind(ns, i, kinds)
           T == OfKind(ns, i-1, kinds)
<1>1. IsFiniteSet(1 .. i)
  BY FS_Interval
<1>2. S \subseteq 1 .. i /\ T \subseteq 1 .. i
  BY DEF OfKind
<1>3. IsFiniteSet(S) /\ IsFiniteSet(T) /\ i \notin T
  BY <1>1, <1>2, FS_Subset DEF OfKind
<1>4. K(ns, i) \in kinds => S = T \cup {i}
  BY DEF OfKind
<1>5. K(ns, i) \notin kinds => S = T
  BY DEF OfKind
<1> HIDE DEF S, T
<1>6. Cardinality(S) \in Nat /\ Cardinality(T) \in Nat
  BY <1>3, FS_CardinalityType
<1>7. K(ns, i) \in kinds => Cardinality(S) = Cardinality(T) + 1
  BY <1>3, <1>4, FS_AddElement
<1>8. K(ns, i) \notin kinds => Cardinality(S) = Cardinality(T)
  BY <1>5
<1> QED BY <1>6, <1>7, <1>8 DEF S, T, Number

Adders == {"operand", "match"}

Balance(ns, i) == Number(ns, i, Adders) - Number(ns, i, {"let"}) - Number(ns, i, {"bound arm"})

\* The body of the function adds nothing to the stack.
LEMMA NoneYet ==
    ASSUME NEW ns
    PROVE  Balance(ns, 0) = 0
<1>1. \A kinds : OfKind(ns, 0, kinds) = {}
  BY DEF OfKind
<1>2. \A kinds : Number(ns, 0, kinds) = 0
  BY <1>1, FS_EmptySet DEF Number
<1>3. 0 - 0 - 0 = 0
  OBVIOUS
<1> QED BY <1>2, <1>3 DEF Balance

\* One level more.
LEMMA BalanceStep ==
    ASSUME NEW ns, NEW i \in Nat, i # 0
    PROVE  Balance(ns, i) = Balance(ns, i-1) + Gains(K(ns, i)) /\ Balance(ns, i-1) \in Int
<1> DEFINE a == Number(ns, i, Adders)
           b == Number(ns, i, {"let"})
           c == Number(ns, i, {"bound arm"})
           x == Number(ns, i-1, Adders)
           y == Number(ns, i-1, {"let"})
           z == Number(ns, i-1, {"bound arm"})
<1>k. PICK k : k = K(ns, i)
  OBVIOUS
<1>a. /\ a \in Nat /\ x \in Nat
      /\ k \in Adders => a = x + 1
      /\ k \notin Adders => a = x
  BY <1>k, OneMoreKind
<1>b. /\ b \in Nat /\ y \in Nat
      /\ k = "let" => b = y + 1
      /\ k # "let" => b = y
  <2>1. PICK S : S = {"let"}
    OBVIOUS
  <2>2. /\ Number(ns, i, S) \in Nat /\ Number(ns, i-1, S) \in Nat
        /\ k \in S => Number(ns, i, S) = Number(ns, i-1, S) + 1
        /\ k \notin S => Number(ns, i, S) = Number(ns, i-1, S)
    BY <1>k, OneMoreKind
  <2>3. k \in S <=> k = "let"
    BY <2>1
  <2> QED BY <2>1, <2>2, <2>3
<1>c. /\ c \in Nat /\ z \in Nat
      /\ k = "bound arm" => c = z + 1
      /\ k # "bound arm" => c = z
  <2>1. PICK S : S = {"bound arm"}
    OBVIOUS
  <2>2. /\ Number(ns, i, S) \in Nat /\ Number(ns, i-1, S) \in Nat
        /\ k \in S => Number(ns, i, S) = Number(ns, i-1, S) + 1
        /\ k \notin S => Number(ns, i, S) = Number(ns, i-1, S)
    BY <1>k, OneMoreKind
  <2>3. k \in S <=> k = "bound arm"
    BY <2>1
  <2> QED BY <2>1, <2>2, <2>3
<1>e. Balance(ns, i) = a - b - c /\ Balance(ns, i-1) = x - y - z
  BY DEF Balance
<1> HIDE DEF a, b, c, x, y, z
<1>g. /\ k \in Adders => Gains(k) = 1 /\ k # "let" /\ k # "bound arm"
      /\ k = "let" => Gains(k) = -1 /\ k \notin Adders /\ k # "bound arm"
      /\ k = "bound arm" => Gains(k) = -1 /\ k \notin Adders /\ k # "let"
      /\ k \notin Adders /\ k # "let" /\ k # "bound arm" => Gains(k) = 0
  BY DEF Gains, Adders
<1>n. x \in Nat /\ y \in Nat /\ z \in Nat
  BY <1>a, <1>b, <1>c
<1>1. a - b - c = (x - y - z) + Gains(k)
  <2>1. CASE k \in Adders
    <3>1. a = x + 1 /\ b = y /\ c = z /\ Gains(k) = 1
      BY <2>1, <1>a, <1>b, <1>c, <1>g
    <3> QED BY <3>1, <1>n
  <2>2. CASE k = "let"
    <3>1. a = x /\ b = y + 1 /\ c = z /\ Gains(k) = -1
      BY <2>2, <1>a, <1>b, <1>c, <1>g
    <3> QED BY <3>1, <1>n
  <2>3. CASE k = "bound arm"
    <3>1. a = x /\ b = y /\ c = z + 1 /\ Gains(k) = -1
      BY <2>3, <1>a, <1>b, <1>c, <1>g
    <3> QED BY <3>1, <1>n
  <2>4. CASE k \notin Adders /\ k # "let" /\ k # "bound arm"
    <3>1. a = x /\ b = y /\ c = z /\ Gains(k) = 0
      BY <2>4, <1>a, <1>b, <1>c, <1>g
    <3> QED BY <3>1, <1>n
  <2> QED BY <2>1, <2>2, <2>3, <2>4
<1>2. x - y - z \in Int
  BY <1>n
<1> QED BY <1>1, <1>2, <1>e, <1>k

\* The values on the stack beside the locals are those of the open operands
\* and matches, less the declarations and bindings.
LEMMA OffsetIsBalance ==
    ASSUME NEW ns, NEW ls, NEW D, NEW B, NEW O, NEW n,
           Leveled(ns, ls, D, B, O), n = Len(ns), n \in Nat
    PROVE  O[n] = Balance(ns, n)
<1> DEFINE T == {i \in 0 .. n : O[i] # Balance(ns, i)}
<1>1. O[0] = 0 /\ \A j \in 1 .. n : O[j] = O[j-1] + Gains(K(ns, j))
  BY DEF Leveled, Numbered
<1>2. T = {}
  <2> SUFFICES ASSUME T # {} PROVE FALSE
    OBVIOUS
  <2>1. T \in SUBSET Nat
    OBVIOUS
  <2>2. PICK i \in T : \A j \in T : i <= j
    <3> HIDE DEF T
    <3> QED BY <2>1, LeastNat
  <2>3. i \in 0 .. n /\ i \in Nat /\ O[i] # Balance(ns, i)
    OBVIOUS
  <2>4. i # 0
    BY <1>1, <2>3, NoneYet
  <2>5. i \in 1 .. n /\ i - 1 \in 0 .. n /\ ~(i <= i - 1)
    BY <2>3, <2>4
  <2>6. O[i-1] = Balance(ns, i-1)
    BY <2>2, <2>5
  <2>7. Balance(ns, i) = Balance(ns, i-1) + Gains(K(ns, i))
    BY <2>3, <2>4, BalanceStep
  <2> QED BY <1>1, <2>3, <2>5, <2>6, <2>7
<1> QED BY <1>2

\* Each declaration has one local without a value.
LEMMA Uninitialized ==
    ASSUME NEW ns, NEW ls, NEW D, NEW B, NEW O, NEW n,
           Leveled(ns, ls, D, B, O), n = Len(ns), n \in Nat, AreLocals(ls)
    PROVE  LET U == {q \in 1 .. Len(ls) : ls[q].depth = NoDepth}
           IN  Cardinality(U) = Number(ns, n, {"let"}) /\ IsFiniteSet(U)
<1> DEFINE m == Len(ls)
           L == {j \in 1 .. n : K(ns, j) = "let"}
           U == {q \in 1 .. m : ls[q].depth = NoDepth}
           f == [j \in L |-> B[j+1]]
<1>1. IsFiniteSet(L) /\ IsFiniteSet(U)
  <2>1. IsFiniteSet(1 .. n) /\ IsFiniteSet(1 .. m)
    BY FS_Interval DEF AreLocals
  <2> QED BY <2>1, FS_Subset
<1>2. ASSUME NEW j \in L
      PROVE  /\ j \in 1 .. n /\ j \in 0 .. n /\ B[j] \in Nat /\ B[j+1] = B[j] + 1
             /\ B[j+1] \in 1 .. m /\ ls[B[j+1]].depth = NoDepth
  <2>1. j \in 1 .. n /\ j \in 0 .. n
    OBVIOUS
  <2>2. Owns(ns, ls, D, B, O, j) /\ K(ns, j) = "let"
    BY <2>1 DEF Leveled
  <2>3. B[j+1] = B[j] + 1 /\ ls[B[j] + 1].depth = NoDepth
    BY <2>2, LetFacts DEF Owns
  <2>4. B[j] \in Nat /\ B[j+1] \in Nat /\ B[j+1] <= m
    BY <2>1, LevelNumbers
  <2>5. m \in Nat
    BY DEF AreLocals
  <2> HIDE DEF m, L
  <2> QED BY <2>1, <2>3, <2>4, <2>5
<1>3. f \in [L -> U]
  BY <1>2
<1>4. ASSUME NEW j \in L, NEW k \in L, j < k PROVE B[j+1] < B[k+1]
  <2>1. j \in 1 .. n /\ k \in 1 .. n /\ B[k] \in Nat /\ B[k+1] = B[k] + 1 /\ B[j+1] \in 1 .. m
    BY <1>2
  <2>2. j + 1 \in 0 .. n + 1 /\ k \in 0 .. n + 1 /\ j + 1 <= k
    BY <1>4, <2>1
  <2>3. B[j+1] <= B[k]
    BY <2>2 DEF Leveled, Numbered
  <2>4. m \in Nat
    BY DEF AreLocals
  <2> HIDE DEF m, L
  <2> QED BY <2>1, <2>3, <2>4
<1>5. \A j, k \in L : f[j] = f[k] => j = k
  <2> SUFFICES ASSUME NEW j \in L, NEW k \in L, f[j] = f[k], j # k PROVE FALSE
    OBVIOUS
  <2>1. B[j+1] = B[k+1] /\ j \in 1 .. n /\ k \in 1 .. n /\ B[j+1] \in 1 .. m /\ m \in Nat
    BY <1>2 DEF AreLocals
  <2>2. j < k \/ k < j
    BY <2>1
  <2>3. B[j+1] < B[k+1] \/ B[k+1] < B[j+1]
    BY <1>4, <2>2
  <2> HIDE DEF m, L
  <2> QED BY <2>1, <2>3
<1>6. \A q \in U : \E j \in L : f[j] = q
  <2> SUFFICES ASSUME NEW q \in U PROVE \E j \in L : f[j] = q
    OBVIOUS
  <2>1. PICK j \in 1 .. n : K(ns, j) = "let" /\ q = B[j+1]
    BY DEF Leveled, Deep
  <2> QED BY <2>1
<1> HIDE DEF L, U, f
<1>7. f \in Bijection(L, U)
  BY <1>3, <1>5, <1>6 DEF Bijection, Injection, Surjection, IsInjective
<1>8. Cardinality(L) = Cardinality(U)
  <2>1. ExistsBijection(L, U)
    BY <1>7 DEF ExistsBijection
  <2> QED BY <1>1, <2>1, FS_Bijection
<1>9. L = OfKind(ns, n, {"let"})
  BY DEF L, OfKind
<1> QED BY <1>1, <1>8, <1>9 DEF Number, U

\* The height of the stack from the numbers of the innermost level.
LEMMA InvKnowsHeight ==
    ASSUME ScopesInv
    PROVE  StackHeightIsKnown
<1>1. PICK D, B, O, n : Now(D, B, O, n)
  BY NowExists
<1> DEFINE m == Len(locals)
           U == {q \in 1 .. m : locals[q].depth = NoDepth}
           I == {i \in DOMAIN locals : locals[i].depth # NoDepth}
<1>2. /\ n = Len(nest) /\ n \in Nat
      /\ Leveled(nest, locals, D, B, O) /\ O[n] \in Int
      /\ m \in Nat /\ Len(stack) = m + O[n] + Valued(mode)
      /\ locals \in Seq(LocalRecords) /\ nest \in Seq(AnyConstruct)
  BY <1>1, NowFacts
<1>3. DOMAIN locals = 1 .. m /\ DOMAIN nest = 1 .. n /\ AreLocals(locals)
  BY <1>2, LenProperties, TypedLocals
<1>4. Cardinality(U) = Number(nest, n, {"let"}) /\ IsFiniteSet(U)
  BY <1>2, <1>3, Uninitialized
<1>5. Cardinality(I) = m - Cardinality(U)
  <2>1. I = (1 .. m) \ U /\ (1 .. m) \cap U = U
    BY <1>3
  <2>2. IsFiniteSet(1 .. m) /\ Cardinality(1 .. m) = m
    <3>1. m \in Nat /\ m \in Int /\ 1 \in Int
      BY <1>2
    <3> HIDE DEF m
    <3>2. IsFiniteSet(1 .. m) /\ Cardinality(1 .. m) = (IF 1 > m THEN 0 ELSE m - 1 + 1)
      BY <3>1, FS_Interval
    <3> QED BY <3>1, <3>2
  <2> HIDE DEF U, I, m
  <2>3. Cardinality((1 .. m) \ U) = Cardinality(1 .. m) - Cardinality((1 .. m) \cap U)
    BY <1>4, <2>2, FS_Difference
  <2> QED BY <2>1, <2>2, <2>3
<1>6. O[n] = Balance(nest, n)
  <2>1. n = Len(nest) /\ n \in Nat /\ Leveled(nest, locals, D, B, O)
    BY <1>2
  <2> QED BY SMTT(30), <2>1, OffsetIsBalance
<1>7. \A kinds : OfKind(nest, n, kinds) = {k \in DOMAIN nest : nest[k].kind \in kinds}
  BY <1>2, <1>3 DEF OfKind, K
<1>8. /\ {k \in DOMAIN nest : nest[k].kind \in {"operand", "match"}} = OfKind(nest, n, Adders)
      /\ {k \in DOMAIN nest : nest[k].kind = "bound arm"} = OfKind(nest, n, {"bound arm"})
  <2>1. OfKind(nest, n, {"operand", "match"}) = {k \in DOMAIN nest : nest[k].kind \in {"operand", "match"}}
    BY <1>7
  <2>2. OfKind(nest, n, {"bound arm"}) = {k \in DOMAIN nest : nest[k].kind \in {"bound arm"}}
    BY <1>7
  <2>3. Adders = {"operand", "match"}
    BY DEF Adders
  <2>4. \A x : x \in {"bound arm"} <=> x = "bound arm"
    OBVIOUS
  <2>5. {k \in DOMAIN nest : nest[k].kind \in {"bound arm"}} = {k \in DOMAIN nest : nest[k].kind = "bound arm"}
    BY <2>4
  <2> QED BY <2>1, <2>2, <2>3, <2>5
<1>9. \A kinds : Number(nest, n, kinds) \in Nat
  <2> SUFFICES ASSUME NEW kinds PROVE Number(nest, n, kinds) \in Nat
    OBVIOUS
  <2>1. IsFiniteSet(1 .. n) /\ OfKind(nest, n, kinds) \subseteq 1 .. n
    BY <1>2, FS_Interval DEF OfKind
  <2> QED BY <2>1, FS_Subset, FS_CardinalityType DEF Number
<1> DEFINE a == Number(nest, n, Adders)
           b == Number(nest, n, {"bound arm"})
           c == Number(nest, n, {"let"})
           v == IF mode = "value" THEN 1 ELSE 0
<1>10. a \in Nat /\ b \in Nat /\ c \in Nat /\ v \in Nat
  BY <1>9
<1>11. Len(stack) = m + (a - c - b) + v /\ Cardinality(I) = m - c
  BY <1>2, <1>4, <1>5, <1>6 DEF Balance, Valued
<1>12. Len(stack) = Cardinality(I) + a - b + v
  <2> HIDE DEF a, b, c, v, m, I
  <2> QED BY <1>2, <1>10, <1>11
<1> QED BY <1>8, <1>12 DEF StackHeightIsKnown, Count, Number

\* No way out of a scope leaves a value behind or takes one too many: the
\* height of the stack is always the initialized locals and the values of the
\* open operands and matches.  For programs without the idioms: with "capture"
\* the run MCScopeExit finds cleanupLocalsToDepth pop too much.
THEOREM StackIsAsHighAsTheCompilerThinks ==
    ASSUME Idioms = {}
    PROVE  Spec => []StackHeightIsKnown
<1>1. ScopesInv => StackHeightIsKnown
  BY InvKnowsHeight
<1> QED BY ScopesInvAlways, <1>1, PTL
=============================================================================
