--------------------------- MODULE UpvaluesProofs ---------------------------
(***************************************************************************)
(* Upvalues, for any numbers of slots, frames, closures and variables: the *)
(* open ones keep pointing to their variables, nested runs of the          *)
(* interpreter end with their frames, and upvalues implement variables.    *)
(*                                                                         *)
(* The invariant: the list of open upvalues is sorted and complete, which  *)
(* is what the two walks over it need; no variable has two slots or two    *)
(* upvalues; and an upvalue of a variable that has a slot points to it.    *)
(***************************************************************************)
EXTENDS Upvalues, ProofBasics

-----------------------------------------------------------------------------
\* Frames are nested in the stack and natives in the frames: any two of them, not
\* only neighbours as in TypeOK.
Nested ==
    /\ \A i, j \in 1 .. Len(frames) : i < j => frames[i].base <= frames[j].base
    /\ \A i, j \in 1 .. Len(natives) : i < j => natives[i].frames < natives[j].frames

\* The slot that a native took is below the frame of the function it called, and
\* no two natives have the same: each puts back what was there.
SlotsTaken ==
    /\ \A i \in 1 .. Len(natives) :
          /\ natives[i].slot <= Len(stack)
          /\ natives[i].frames < Len(frames) =>
                natives[i].slot <= frames[natives[i].frames + 1].base
          /\ natives[i].slot # 0 => natives[i].original \in Value
    /\ \A i, j \in 1 .. Len(natives) :
          natives[i].slot = natives[j].slot /\ natives[i].slot # 0 => i = j

TypeInv == TypeOK /\ Nested /\ SlotsTaken

\* The open upvalues are in the order of their slots, highest first, and of
\* distinct slots: what lets both walks stop at the first that fails.
Sorted == \A i, j \in 1 .. Len(open) : i < j => location[open[i]] > location[open[j]]

\* The list holds exactly the upvalues that point to a slot.
Listed == \A u \in Upvalue : location[u] # 0 <=> InSeq(u, open)

\* None points to a slot that a native has taken.
TakenApart ==
    \A u \in Upvalue : \A i \in 1 .. Len(natives) :
       natives[i].slot # 0 => location[u] # natives[i].slot

ListInv == TypeInv /\ Sorted /\ Listed /\ TakenApart

\* No variable has two slots, none two upvalues: capture_upvalue finds the one
\* there is.
OneSlotEach == \A i, j \in 1 .. Len(owner) : owner[i] = owner[j] => i = j

OneUpvalueEach ==
    \A u, v \in Upvalue : meaning[u] = meaning[v] /\ meaning[u] # Dead => u = v

\* An upvalue was made for a variable exactly when some closure has it.
Referred ==
    \A u \in Upvalue : meaning[u] # Dead <=> \E c \in Closure : InSeq(u, upvalues[c])

\* The inductive invariant.
VariableInv ==
    ListInv /\ UpvaluesKeepTheirVariable /\ OneSlotEach /\ OneUpvalueEach /\ Referred

-----------------------------------------------------------------------------
(***************************************************************************)
(* The two walks over the list of open upvalues.                           *)
(***************************************************************************)
\* A walk stops somewhere: at the first open upvalue not in P, or at the end.
LEMMA WalkStops ==
    ASSUME TypeOK, NEW P
    PROVE  \E n \in 0 .. Len(open) :
              /\ \A i \in 1 .. n : open[i] \in P
              /\ n < Len(open) => open[n + 1] \notin P
<1> DEFINE T == {n \in 0 .. Len(open) : n < Len(open) => open[n + 1] \notin P}
<1>0. Len(open) \in Nat
  BY LenProperties DEF TypeOK
<1>1. T \in SUBSET Nat /\ Len(open) \in T
  BY <1>0
<1>2. PICK n \in T : \A m \in T : n <= m
  BY <1>1, LeastNat
<1>3. ASSUME NEW i \in 1 .. n, open[i] \notin P PROVE FALSE
  <2>1. i - 1 \in 0 .. Len(open) /\ i - 1 + 1 = i /\ i - 1 < n
    BY <1>0, <1>2
  <2>2. i - 1 \in T
    BY <1>3, <2>1
  <2> HIDE DEF T
  <2>3. n \in Nat /\ n <= i - 1 /\ i \in Int
    BY <1>1, <1>2, <2>2
  <2> QED BY <2>1, <2>3
<1> QED BY <1>2, <1>3

\* Where the walk of capture_upvalue stops.
LEMMA AboveWalk ==
    ASSUME ListInv, NEW slot \in Nat
    PROVE  LET Above(v) == location[v] > slot
               n == Walk(Above)
           IN  /\ n \in 0 .. Len(open)
               /\ \A i \in 1 .. n : location[open[i]] > slot
               /\ n < Len(open) => location[open[n + 1]] <= slot
<1> DEFINE Above(v) == location[v] > slot
           n == Walk(Above)
           P == {v \in Upvalue : location[v] > slot}
<1>1. \A i \in 1 .. Len(open) : open[i] \in Upvalue /\ location[open[i]] \in Nat
  BY ElementOfSeq DEF ListInv, TypeInv, TypeOK
<1>2. PICK m \in 0 .. Len(open) : /\ \A i \in 1 .. m : open[i] \in P
                                  /\ m < Len(open) => open[m + 1] \notin P
  BY WalkStops DEF ListInv, TypeInv
<1>3. m < Len(open) => m + 1 \in 1 .. Len(open)
  BY LenProperties DEF ListInv, TypeInv, TypeOK
<1>4. /\ \A i \in 1 .. m : Above(open[i])
      /\ m < Len(open) => ~ Above(open[m + 1])
  BY <1>1, <1>2, <1>3
<1>5. /\ n \in 0 .. Len(open)
      /\ \A i \in 1 .. n : Above(open[i])
      /\ n < Len(open) => ~ Above(open[n + 1])
  BY <1>4 DEF Walk
<1>6. n < Len(open) => n + 1 \in 1 .. Len(open)
  BY <1>5, LenProperties DEF ListInv, TypeInv, TypeOK
<1>7. /\ \A i \in 1 .. n : location[open[i]] > slot
      /\ n < Len(open) => location[open[n + 1]] <= slot
  <2> HIDE DEF n
  <2>1. Len(open) \in Nat
    BY LenProperties DEF ListInv, TypeInv, TypeOK
  <2> QED BY <1>1, <1>5, <1>6, <2>1
<1> QED BY <1>5, <1>7 DEF Walk

\* Where the walk of close_upvalues stops.
LEMMA ReachesWalk ==
    ASSUME ListInv, NEW last \in Nat
    PROVE  LET Reaches(v) == location[v] >= last
               n == Walk(Reaches)
           IN  /\ n \in 0 .. Len(open)
               /\ \A i \in 1 .. n : location[open[i]] >= last
               /\ n < Len(open) => location[open[n + 1]] < last
<1> DEFINE Reaches(v) == location[v] >= last
           n == Walk(Reaches)
           P == {v \in Upvalue : location[v] >= last}
<1>1. \A i \in 1 .. Len(open) : open[i] \in Upvalue /\ location[open[i]] \in Nat
  BY ElementOfSeq DEF ListInv, TypeInv, TypeOK
<1>2. PICK m \in 0 .. Len(open) : /\ \A i \in 1 .. m : open[i] \in P
                                  /\ m < Len(open) => open[m + 1] \notin P
  BY WalkStops DEF ListInv, TypeInv
<1>3. m < Len(open) => m + 1 \in 1 .. Len(open)
  BY LenProperties DEF ListInv, TypeInv, TypeOK
<1>4. /\ \A i \in 1 .. m : Reaches(open[i])
      /\ m < Len(open) => ~ Reaches(open[m + 1])
  BY <1>1, <1>2, <1>3
<1>5. /\ n \in 0 .. Len(open)
      /\ \A i \in 1 .. n : Reaches(open[i])
      /\ n < Len(open) => ~ Reaches(open[n + 1])
  BY <1>4 DEF Walk
<1>6. n < Len(open) => n + 1 \in 1 .. Len(open)
  BY <1>5, LenProperties DEF ListInv, TypeInv, TypeOK
<1>7. /\ \A i \in 1 .. n : location[open[i]] >= last
      /\ n < Len(open) => location[open[n + 1]] < last
  <2> HIDE DEF n
  <2>1. Len(open) \in Nat
    BY LenProperties DEF ListInv, TypeInv, TypeOK
  <2> QED BY <1>1, <1>5, <1>6, <2>1
<1> QED BY <1>5, <1>7 DEF Walk

\* close_upvalues closes every upvalue at slot last and above, and no other: the
\* list being sorted, those it leaves in the list are all below.
LEMMA CloseShape ==
    ASSUME ListInv, NEW last \in Nat \ {0}, CloseUpvalues(last)
    PROVE  /\ open' \in Seq(Upvalue)
           /\ location' = [u \in Upvalue |-> IF location[u] >= last THEN 0 ELSE location[u]]
           /\ closed' = [u \in Upvalue |->
                           IF location[u] >= last THEN stack[location[u]] ELSE closed[u]]
           /\ meaning' = meaning
           /\ Sorted' /\ Listed'
<1> DEFINE Reaches(u) == location[u] >= last
           n == Walk(Reaches)
           closing == {open[i] : i \in 1 .. n}
<1>1. /\ open' = SubSeq(open, n + 1, Len(open))
      /\ closed' = [u \in Upvalue |-> IF u \in closing THEN stack[location[u]]
                                                       ELSE closed[u]]
      /\ location' = [u \in Upvalue |-> IF u \in closing THEN 0 ELSE location[u]]
      /\ meaning' = meaning
  BY DEF CloseUpvalues
<1>2. /\ n \in 0 .. Len(open)
      /\ \A i \in 1 .. n : location[open[i]] >= last
      /\ n < Len(open) => location[open[n + 1]] < last
  BY ReachesWalk
<1> HIDE DEF n
<1>3. /\ open \in Seq(Upvalue) /\ Len(open) \in Nat /\ DOMAIN open = 1 .. Len(open)
      /\ \A i \in 1 .. Len(open) : open[i] \in Upvalue /\ location[open[i]] \in Nat
  BY LenProperties, ElementOfSeq DEF ListInv, TypeInv, TypeOK
<1>4. \A i \in 1 .. Len(open) : i > n => location[open[i]] < last
  <2> SUFFICES ASSUME NEW i \in 1 .. Len(open), i > n PROVE location[open[i]] < last
    OBVIOUS
  <2>1. n + 1 \in 1 .. Len(open) /\ location[open[n + 1]] < last /\ n + 1 <= i
    BY <1>2, <1>3
  <2>2. CASE i = n + 1
    BY <2>1, <2>2
  <2>3. CASE n + 1 < i
    <3>1. location[open[n + 1]] > location[open[i]]
      BY <2>1, <2>3 DEF ListInv, Sorted
    <3> QED BY <1>3, <2>1, <3>1
  <2> QED BY <1>2, <2>1, <2>2, <2>3
<1>5. \A u \in Upvalue : u \in closing <=> location[u] >= last
  <2> SUFFICES ASSUME NEW u \in Upvalue PROVE u \in closing <=> location[u] >= last
    OBVIOUS
  <2>1. ASSUME location[u] >= last PROVE u \in closing
    <3>1. location[u] # 0
      BY <2>1 DEF ListInv, TypeInv, TypeOK
    <3>2. PICK i \in 1 .. Len(open) : open[i] = u
      BY <1>3, <3>1 DEF ListInv, Listed, InSeq
    <3>3. i <= n
      BY <1>2, <1>3, <1>4, <2>1, <3>2
    <3> QED BY <1>2, <3>2, <3>3
  <2> QED BY <1>2, <2>1
<1>6. /\ location' = [u \in Upvalue |-> IF location[u] >= last THEN 0 ELSE location[u]]
      /\ closed' = [u \in Upvalue |->
                      IF location[u] >= last THEN stack[location[u]] ELSE closed[u]]
  BY <1>1, <1>5
<1> DEFINE m == Len(open) - n
<1>7. m \in Nat /\ n + 1 \in Int /\ Len(open) \in Int /\ n \in Nat
  BY <1>2, <1>3
<1>8. /\ open' \in Seq(Upvalue) /\ Len(open') = m
      /\ \A i \in 1 .. m : open'[i] = open[n + i]
  <2>1. \A i \in n + 1 .. Len(open) : open[i] \in Upvalue
    BY <1>2, <1>3
  <2>2. /\ SubSeq(open, n + 1, Len(open)) \in Seq(Upvalue)
        /\ Len(SubSeq(open, n + 1, Len(open))) =
             IF n + 1 <= Len(open) THEN Len(open) - (n + 1) + 1 ELSE 0
        /\ \A i \in 1 .. Len(open) - (n + 1) + 1 :
              SubSeq(open, n + 1, Len(open))[i] = open[n + 1 + i - 1]
    BY <1>7, <2>1, SubSeqProperties
  <2>3. Len(open) - (n + 1) + 1 = m /\ (n + 1 <= Len(open) \/ m = 0)
    <3> DEFINE k == Len(open)
    <3>1. k \in Nat /\ n \in 0 .. k
      BY <1>2, <1>3
    <3> HIDE DEF k
    <3>2. k - (n + 1) + 1 = k - n /\ (n + 1 <= k \/ k - n = 0)
      BY <3>1
    <3> QED BY <3>2 DEF k
  <2>4. \A i \in 1 .. m : n + 1 + i - 1 = n + i
    BY <1>7
  <2> HIDE DEF m
  <2> QED BY <1>1, <1>2, <1>3, <2>2, <2>3, <2>4
<1>9. \A i \in 1 .. m : n + i \in 1 .. Len(open) /\ n + i > n
  BY <1>2, <1>3
<1>10. \A i \in 1 .. m : location'[open'[i]] = location[open[n + i]]
  BY <1>3, <1>4, <1>6, <1>8, <1>9
<1>11. Sorted'
  <2> SUFFICES ASSUME NEW i \in 1 .. m, NEW j \in 1 .. m, i < j
               PROVE  location[open[n + i]] > location[open[n + j]]
    BY <1>8, <1>10 DEF Sorted
  <2>1. n + i < n + j
    BY <1>7
  <2> QED BY <1>9, <2>1 DEF ListInv, Sorted
<1>12. ASSUME NEW u \in Upvalue PROVE location'[u] # 0 <=> InSeq(u, open')
  <2>1. ASSUME location'[u] # 0 PROVE InSeq(u, open')
    <3>1. location[u] # 0 /\ ~ (location[u] >= last)
      BY <1>6, <2>1
    <3>2. PICK i \in 1 .. Len(open) : open[i] = u
      BY <1>3, <3>1 DEF ListInv, Listed, InSeq
    <3>3. ~ (i <= n)
      BY <1>2, <3>1, <3>2
    <3>4. i - n \in 1 .. m /\ n + (i - n) = i
      BY <1>2, <1>3, <3>3
    <3>5. open'[i - n] = u
      BY <1>8, <3>2, <3>4
    <3>6. DOMAIN open' = 1 .. m
      BY <1>8, LenProperties
    <3> QED BY <3>4, <3>5, <3>6 DEF InSeq
  <2>2. ASSUME InSeq(u, open') PROVE location'[u] # 0
    <3>1. DOMAIN open' = 1 .. m
      BY <1>8, LenProperties
    <3>2. PICK i \in 1 .. m : open'[i] = u
      BY <2>2, <3>1 DEF InSeq
    <3>3. location'[u] = location[u] /\ InSeq(u, open)
      BY <1>3, <1>8, <1>9, <1>10, <3>2 DEF InSeq
    <3> QED BY <3>3 DEF ListInv, Listed
  <2> QED BY <2>1, <2>2
<1> QED BY <1>1, <1>6, <1>8, <1>11, <1>12 DEF Listed

-----------------------------------------------------------------------------
(***************************************************************************)
(* Making an upvalue.                                                      *)
(***************************************************************************)
\* r is s with e inserted at p.
Inserted(r, s, p, e, S) ==
    /\ r \in Seq(S) /\ Len(r) = Len(s) + 1
    /\ \A i \in 1 .. Len(s) + 1 : i < p => r[i] = s[i]
    /\ r[p] = e
    /\ \A i \in 1 .. Len(s) + 1 : i > p => r[i] = s[i - 1]

\* That is what InsertAt returns.
LEMMA InsertShape ==
    ASSUME NEW S, NEW s \in Seq(S), NEW p \in 1 .. Len(s) + 1, NEW e \in S, NEW r,
           r = Sq!InsertAt(s, p, e)
    PROVE  Inserted(r, s, p, e, S)
<1> DEFINE k == Len(s)
           n == p - 1
           front == SubSeq(s, 1, n)
           back == SubSeq(s, n + 1, k)
           t == front \o <<e>>
<1>1. k \in Nat /\ n \in 0 .. k /\ n \in Nat /\ n + 1 \in Int /\ n + 1 = p
  BY LenProperties
<1>2. \A i \in 1 .. k : s[i] \in S
  BY ElementOfSeq
<1>3. r = t \o back
  <2>1. p - 1 = n
    OBVIOUS
  <2>2. back = SubSeq(s, p, Len(s))
    OBVIOUS
  <2> HIDE DEF back, n
  <2>3. r = SubSeq(s, 1, p - 1) \o <<e>> \o SubSeq(s, p, Len(s))
    BY DEF Sq!InsertAt
  <2> QED BY <2>1, <2>2, <2>3
<1> HIDE DEF k, n
<1>4. /\ front \in Seq(S) /\ Len(front) = n
      /\ \A i \in 1 .. n : front[i] = s[i]
  <2>1. \A i \in 1 .. n : s[i] \in S
    BY <1>1, <1>2
  <2>2. /\ front \in Seq(S) /\ Len(front) = IF 1 <= n THEN n - 1 + 1 ELSE 0
        /\ \A i \in 1 .. n - 1 + 1 : front[i] = s[1 + i - 1]
    BY <1>1, <2>1, SubSeqProperties
  <2>3. \A i \in 1 .. n : 1 + i - 1 = i
    OBVIOUS
  <2> HIDE DEF front
  <2> QED BY <1>1, <2>2, <2>3
<1>5. /\ back \in Seq(S) /\ Len(back) = k - n
      /\ \A i \in 1 .. k - n : back[i] = s[n + i]
  <2>1. \A i \in n + 1 .. k : s[i] \in S
    BY <1>1, <1>2
  <2>2. /\ back \in Seq(S) /\ Len(back) = IF n + 1 <= k THEN k - (n + 1) + 1 ELSE 0
        /\ \A i \in 1 .. k - (n + 1) + 1 : back[i] = s[n + 1 + i - 1]
    BY <1>1, <2>1, SubSeqProperties
  <2>3. k - (n + 1) + 1 = k - n /\ (n + 1 <= k \/ k - n = 0)
    BY <1>1
  <2>4. \A i \in 1 .. k - n : n + 1 + i - 1 = n + i
    BY <1>1
  <2> HIDE DEF back
  <2> QED BY <1>1, <2>2, <2>3, <2>4
<1> HIDE DEF front, back
<1>6. /\ t \in Seq(S) /\ Len(t) = n + 1
      /\ \A i \in 1 .. n + 1 : t[i] = IF i <= n THEN front[i] ELSE e
  <2>1. <<e>> \in Seq(S) /\ Len(<<e>>) = 1 /\ <<e>>[1] = e
    BY StackOne
  <2> DEFINE w == <<e>>
  <2>2. w \in Seq(S) /\ Len(w) = 1 /\ w[1] = e
    BY <2>1
  <2>3. t = front \o w
    OBVIOUS
  <2> HIDE DEF w, t
  <2>4. /\ t \in Seq(S) /\ Len(t) = Len(front) + Len(w)
        /\ \A i \in 1 .. Len(front) + Len(w) :
              t[i] = IF i <= Len(front) THEN front[i] ELSE w[i - Len(front)]
    BY <1>4, <2>2, <2>3, ConcatProperties
  <2>5. \A i \in 1 .. n + 1 : ~ (i <= n) => i - n = 1
    BY <1>1
  <2> QED BY <1>1, <1>4, <2>2, <2>4, <2>5
<1> HIDE DEF t
<1>7. /\ t \o back \in Seq(S) /\ Len(t \o back) = Len(t) + Len(back)
      /\ \A i \in 1 .. Len(t) + Len(back) :
            (t \o back)[i] = IF i <= Len(t) THEN t[i] ELSE back[i - Len(t)]
  BY <1>5, <1>6, ConcatProperties
<1>8. Len(t) + Len(back) = k + 1
  BY <1>1, <1>5, <1>6
<1>9. ASSUME NEW i \in 1 .. k + 1
      PROVE  /\ i <= n => (t \o back)[i] = s[i]
             /\ i = n + 1 => (t \o back)[i] = e
             /\ i > n + 1 => (t \o back)[i] = s[i - 1]
  <2>1. (t \o back)[i] = IF i <= n + 1 THEN t[i] ELSE back[i - (n + 1)]
    BY <1>6, <1>7, <1>8
  <2>2. CASE i <= n
    <3>1. i \in 1 .. n /\ i \in 1 .. n + 1 /\ i <= n + 1
      BY <1>1, <2>2
    <3> QED BY <1>4, <1>6, <2>1, <2>2, <3>1
  <2>3. CASE i = n + 1
    <3>1. i \in 1 .. n + 1 /\ i <= n + 1 /\ ~ (i <= n)
      BY <1>1, <2>3
    <3> QED BY <1>6, <2>1, <2>3, <3>1
  <2>4. CASE i > n + 1
    <3>1. ~ (i <= n + 1) /\ ~ (i <= n) /\ i # n + 1
          /\ i - (n + 1) \in 1 .. k - n /\ n + (i - (n + 1)) = i - 1
      BY <1>1, <2>4
    <3>2. back[i - (n + 1)] = s[i - 1]
      BY <1>5, <3>1
    <3> QED BY <2>1, <3>1, <3>2
  <2>5. i <= n \/ i = n + 1 \/ i > n + 1
    BY <1>1
  <2> QED BY <2>2, <2>3, <2>4, <2>5
<1>10. p \in 1 .. k + 1 /\ p = n + 1
  BY <1>1
<1>11. ASSUME NEW i \in 1 .. k + 1, i < p PROVE r[i] = s[i]
  <2>1. i <= n
    BY <1>1, <1>11
  <2> QED BY <1>3, <1>9, <2>1
<1>12. r[p] = e
  BY <1>3, <1>9, <1>10
<1>13. ASSUME NEW i \in 1 .. k + 1, i > p PROVE r[i] = s[i - 1]
  BY <1>3, <1>9, <1>10, <1>13
<1> QED BY <1>3, <1>7, <1>8, <1>11, <1>12, <1>13 DEF k, Inserted

\* What capture_upvalue does when it makes an upvalue.
Captures(slot, u) ==
    /\ ~ InSeq(u, open) /\ meaning[u] = Dead
    /\ \A v \in Upvalue : location[v] # slot
    /\ open' \in Seq(Upvalue)
    /\ location' = [location EXCEPT ![u] = slot]
    /\ meaning' = [meaning EXCEPT ![u] = owner[slot]]
    /\ closed' = closed
    /\ Sorted' /\ Listed'

\* capture_upvalue returns the upvalue of the slot if it has one, for the walk
\* has passed all those above; else it makes one, and the list stays sorted.
LEMMA CaptureShape ==
    ASSUME ListInv, NEW slot \in Nat \ {0}, NEW u \in Upvalue, CaptureUpvalue(slot, u)
    PROVE  \/ location[u] = slot /\ UNCHANGED upvalueVars
           \/ Captures(slot, u)
<1> DEFINE Above(v) == location[v] > slot
           n == Walk(Above)
<1>1. IF n < Len(open) /\ location[open[n + 1]] = slot
      THEN u = open[n + 1] /\ UNCHANGED upvalueVars
      ELSE /\ ~InSeq(u, open) /\ meaning[u] = Dead
           /\ open' = Sq!InsertAt(open, n + 1, u)
           /\ location' = [location EXCEPT ![u] = slot]
           /\ meaning' = [meaning EXCEPT ![u] = owner[slot]]
           /\ UNCHANGED closed
  BY DEF CaptureUpvalue
<1>2. /\ n \in 0 .. Len(open)
      /\ \A i \in 1 .. n : location[open[i]] > slot
      /\ n < Len(open) => location[open[n + 1]] <= slot
  BY AboveWalk
<1> HIDE DEF n
<1>3. /\ open \in Seq(Upvalue) /\ Len(open) \in Nat /\ DOMAIN open = 1 .. Len(open)
      /\ \A i \in 1 .. Len(open) : open[i] \in Upvalue /\ location[open[i]] \in Nat
      /\ location \in [Upvalue -> Nat]
  BY LenProperties, ElementOfSeq DEF ListInv, TypeInv, TypeOK
<1>4. CASE n < Len(open) /\ location[open[n + 1]] = slot
  BY <1>1, <1>4
<1>5. CASE ~ (n < Len(open) /\ location[open[n + 1]] = slot)
  <2>1. /\ ~InSeq(u, open) /\ meaning[u] = Dead
        /\ open' = Sq!InsertAt(open, n + 1, u)
        /\ location' = [location EXCEPT ![u] = slot]
        /\ meaning' = [meaning EXCEPT ![u] = owner[slot]]
        /\ closed' = closed
    BY <1>1, <1>5
  <2>2. ASSUME NEW i \in 1 .. Len(open), i > n PROVE location[open[i]] < slot
    <3>1. n + 1 \in 1 .. Len(open) /\ n + 1 <= i /\ location[open[n + 1]] < slot
      BY <1>2, <1>3, <1>5, <2>2
    <3>2. CASE i = n + 1
      BY <3>1, <3>2
    <3>3. CASE n + 1 < i
      <4>1. location[open[n + 1]] > location[open[i]]
        BY <3>1, <3>3 DEF ListInv, Sorted
      <4> QED BY <1>3, <3>1, <4>1
    <3> QED BY <1>2, <3>1, <3>2, <3>3
  <2>3. ASSUME NEW v \in Upvalue, location[v] = slot PROVE FALSE
    <3>1. PICK i \in 1 .. Len(open) : open[i] = v
      BY <1>3, <2>3 DEF ListInv, Listed, InSeq
    <3>2. i > n \/ i \in 1 .. n
      BY <1>2, <1>3
    <3> QED BY <1>2, <1>3, <2>2, <2>3, <3>1, <3>2
  <2>4. /\ open' \in Seq(Upvalue) /\ Len(open') = Len(open) + 1
        /\ \A i \in 1 .. Len(open) + 1 : i < n + 1 => open'[i] = open[i]
        /\ open'[n + 1] = u
        /\ \A i \in 1 .. Len(open) + 1 : i > n + 1 => open'[i] = open[i - 1]
    <3> DEFINE p == n + 1
    <3>1. p = n + 1 /\ open' = Sq!InsertAt(open, p, u)
      BY <2>1
    <3> HIDE DEF p
    <3>2. open \in Seq(Upvalue) /\ p \in 1 .. Len(open) + 1
      BY <1>2, <1>3, <3>1
    <3>3. Inserted(open', open, p, u, Upvalue)
      BY <3>1, <3>2, InsertShape
    <3> QED BY <3>3 DEF p, Inserted
  <2>5. \A i \in 1 .. Len(open) : open[i] # u
    BY <1>3, <2>1 DEF InSeq
  <2>6. ASSUME NEW i \in 1 .. Len(open) + 1
        PROVE  \/ i <= n /\ i \in 1 .. Len(open) /\ location'[open'[i]] = location[open[i]]
                  /\ location'[open'[i]] > slot
               \/ i = n + 1 /\ open'[i] = u /\ location'[open'[i]] = slot
               \/ i > n + 1 /\ i - 1 \in 1 .. Len(open) /\ open'[i] = open[i - 1]
                  /\ location'[open'[i]] = location[open[i - 1]]
                  /\ location'[open'[i]] < slot
    <3>1. CASE i <= n
      <4>1. i \in 1 .. n /\ i \in 1 .. Len(open) /\ i < n + 1
        BY <1>2, <1>3, <3>1
      <4>2. open'[i] = open[i] /\ open[i] # u /\ location[open[i]] > slot
        BY <1>2, <2>4, <2>5, <4>1
      <4>3. location'[open[i]] = location[open[i]]
        BY <1>3, <2>1, <4>1, <4>2
      <4> QED BY <3>1, <4>1, <4>2, <4>3
    <3>2. CASE i = n + 1
      <4>1. ~ (i <= n)
        BY <1>2, <3>2
      <4> QED BY <1>3, <2>1, <2>4, <3>2, <4>1
    <3>3. CASE i > n + 1
      <4>1. ~ (i <= n) /\ i # n + 1 /\ i - 1 \in 1 .. Len(open) /\ i - 1 > n
        BY <1>2, <1>3, <3>3
      <4> QED BY <1>3, <2>1, <2>2, <2>4, <2>5, <3>3, <4>1
    <3> QED BY <1>2, <3>1, <3>2, <3>3
  <2>7. Sorted'
    <3> SUFFICES ASSUME NEW i \in 1 .. Len(open) + 1, NEW j \in 1 .. Len(open) + 1, i < j
                 PROVE  location'[open'[i]] > location'[open'[j]]
      BY <2>4 DEF Sorted
    <3>1. n \in Nat
      BY <1>2
    <3>2. CASE j <= n
      BY <2>6, <3>1, <3>2 DEF ListInv, Sorted
    <3>3. CASE i > n + 1
      <4>1. i - 1 < j - 1 /\ j > n + 1
        BY <3>1, <3>3
      <4> QED BY <2>6, <3>1, <3>3, <4>1 DEF ListInv, Sorted
    <3>4. CASE i <= n + 1 /\ j > n
      <4> DEFINE p == location'[open'[i]]
                 q == location'[open'[j]]
      <4>1. /\ i = n + 1 => p = slot
            /\ i <= n => p > slot /\ p \in Nat
            /\ j = n + 1 => q = slot
            /\ j > n + 1 => q < slot /\ q \in Nat
        BY <1>3, <2>6, <3>1
      <4> HIDE DEF p, q
      <4>2. p > q
        BY <3>1, <3>4, <4>1
      <4> QED BY <4>2 DEF p, q
    <3> QED BY <3>1, <3>2, <3>3, <3>4
  <2>8. ASSUME NEW v \in Upvalue PROVE location'[v] # 0 <=> InSeq(v, open')
    <3>1. DOMAIN open' = 1 .. Len(open) + 1
      BY <2>4, LenProperties
    <3>2. CASE v = u
      <4>1. n + 1 \in 1 .. Len(open) + 1 
        BY <1>2, <1>3
      <4>2. open'[n + 1] = u
        BY <2>4, <4>1
      <4> QED BY <1>3, <2>1, <3>1, <3>2, <4>1, <4>2 DEF InSeq
    <3>3. CASE v # u
      <4>1. location'[v] = location[v]
        BY <1>3, <2>1, <3>3
      <4>2. ASSUME NEW i \in 1 .. Len(open), open[i] = v PROVE InSeq(v, open')
        <5>1. CASE i <= n
          <6>1. i \in 1 .. Len(open) + 1 /\ i < n + 1
            BY <1>2, <1>3, <5>1
          <6>2. open'[i] = v
            BY <2>4, <4>2, <5>1, <6>1
          <6> QED BY <3>1, <6>1, <6>2 DEF InSeq
        <5>2. CASE i > n
          <6>1. i + 1 \in 1 .. Len(open) + 1 /\ i + 1 > n + 1
                /\ i + 1 - 1 = i
            BY <1>2, <1>3, <5>2
          <6>2. open'[i + 1] = v
            BY <2>4, <4>2, <6>1
          <6> QED BY <3>1, <6>1, <6>2 DEF InSeq
        <5> QED BY <1>2, <5>1, <5>2
      <4>3. ASSUME NEW i \in 1 .. Len(open) + 1, open'[i] = v PROVE InSeq(v, open)
        <5>1. i # n + 1
          BY <2>4, <3>3, <4>3
        <5>2. \E j \in 1 .. Len(open) : open[j] = v
          <6>1. CASE i < n + 1
            BY <1>2, <1>3, <2>4, <4>3, <6>1
          <6>2. CASE i > n + 1
            <7>1. i - 1 \in 1 .. Len(open)
              BY <1>2, <1>3, <6>2
            <7>2. open[i - 1] = v
              BY <2>4, <4>3, <6>2
            <7> QED BY <7>1, <7>2
          <6> QED BY <1>2, <5>1, <6>1, <6>2
        <5> QED BY <1>3, <5>2 DEF InSeq
      <4> QED BY <1>3, <3>1, <4>1, <4>2, <4>3 DEF InSeq, ListInv, Listed
    <3> QED BY <3>2, <3>3
  <2> QED BY <2>1, <2>3, <2>4, <2>7, <2>8 DEF Captures, Listed
<1> QED BY <1>4, <1>5

-----------------------------------------------------------------------------
(***************************************************************************)
(* Types, frames and natives.                                              *)
(***************************************************************************)
\* The running function is one of the closures, and its frame is in the stack.
LEMMA BaseIs ==
    ASSUME TypeInv
    PROVE  /\ Base \in 0 .. Len(stack) /\ Len(stack) \in Nat
           /\ frames # <<>> => /\ Len(frames) \in Nat \ {0} /\ Base = frames[Len(frames)].base
                               /\ Running = frames[Len(frames)].closure
                               /\ Running \in Closure
           /\ \A i \in 1 .. Len(frames) : frames[i].base <= Base /\ frames[i].base \in Nat
<1>1. Len(stack) \in Nat /\ Len(frames) \in Nat /\ DOMAIN frames = 1 .. Len(frames)
  BY LenProperties DEF TypeInv, TypeOK
<1>2. \A i \in 1 .. Len(frames) : /\ frames[i].base \in Nat /\ frames[i].closure \in Closure
                                  /\ frames[i].base <= Len(stack)
  <2>1. \A i \in 1 .. Len(frames) : frames[i] \in [base : Nat, closure : Closure]
    BY ElementOfSeq DEF TypeInv, TypeOK
  <2> QED BY <1>1, <2>1 DEF TypeInv, TypeOK
<1>3. CASE frames = <<>>
  <2>1. Len(frames) = 0
    BY <1>3
  <2> QED BY <1>1, <1>3, <2>1 DEF Base
<1>4. CASE frames # <<>>
  <2>1. Len(frames) \in Nat \ {0} /\ Len(frames) \in 1 .. Len(frames)
    BY <1>4, StackTop DEF TypeInv, TypeOK
  <2>2. Base = frames[Len(frames)].base /\ Running = frames[Len(frames)].closure
    BY <1>4 DEF Base, Running, Sq!Last
  <2>3. \A i \in 1 .. Len(frames) : frames[i].base <= frames[Len(frames)].base
    <3> SUFFICES ASSUME NEW i \in 1 .. Len(frames)
                 PROVE  frames[i].base <= frames[Len(frames)].base
      OBVIOUS
    <3>1. CASE i = Len(frames)
      BY <1>2, <3>1
    <3>2. CASE i < Len(frames)
      BY <2>1, <3>2 DEF TypeInv, Nested
    <3> QED BY <2>1, <3>1, <3>2
  <2> QED BY <1>1, <1>2, <2>1, <2>2, <2>3
<1> QED BY <1>3, <1>4

\* TypeInv in four parts: the stack, frames, natives and upvalues.
StackTyped ==
    /\ stack \in Seq(Value) /\ owner \in Seq(Variable)
    /\ Len(stack) \in Nat /\ Len(owner) = Len(stack)
FramesTyped ==
    /\ frames \in Seq([base : Nat, closure : Closure]) /\ Len(frames) <= MaxFrames
    /\ \A i \in 1 .. Len(frames) : frames[i].base <= Len(stack)
    /\ \A i, j \in 1 .. Len(frames) : i < j => frames[i].base <= frames[j].base
NativeCall == [frames : Nat, slot : Nat, original : Value \cup {Dead}]
NativesTyped ==
    /\ natives \in Seq(NativeCall)
    /\ \A i \in 1 .. Len(natives) : natives[i].frames <= Len(frames)
    /\ \A i, j \in 1 .. Len(natives) : i < j => natives[i].frames < natives[j].frames
    /\ SlotsTaken
UpvaluesTyped ==
    /\ upvalues \in [Closure -> Seq(Upvalue)]
    /\ making \in Closure \cup {Dead}
    /\ open \in Seq(Upvalue)
    /\ location \in [Upvalue -> Nat]
    /\ closed \in [Upvalue -> Value \cup {Dead}]
    /\ seen \in Value \cup {Dead}
    /\ meaning \in [Upvalue -> Variable \cup {Dead}]

\* They follow from TypeInv, and it from them.
LEMMA TypeParts ==
    ASSUME TypeInv
    PROVE  StackTyped /\ FramesTyped /\ NativesTyped /\ UpvaluesTyped
<1>1. DOMAIN frames = 1 .. Len(frames) /\ DOMAIN natives = 1 .. Len(natives) /\ Len(stack) \in Nat
  BY LenProperties DEF TypeInv, TypeOK
<1> QED BY <1>1 DEF TypeInv, TypeOK, Nested, StackTyped, FramesTyped, NativesTyped, NativeCall,
                    UpvaluesTyped

\* Back, after a step.
LEMMA TypePartsNext ==
    ASSUME StackTyped', FramesTyped', NativesTyped', UpvaluesTyped'
    PROVE  TypeInv'
<1>1. /\ DOMAIN frames' = 1 .. Len(frames') /\ DOMAIN natives' = 1 .. Len(natives')
      /\ Len(frames') \in Nat /\ Len(natives') \in Nat
  BY LenProperties DEF FramesTyped, NativesTyped
<1>2. \A i \in 2 .. Len(frames') : frames'[i - 1].base <= frames'[i].base
  <2>1. \A i \in 2 .. Len(frames') : /\ i - 1 \in 1 .. Len(frames') /\ i \in 1 .. Len(frames')
                                     /\ i - 1 < i
    BY <1>1
  <2> QED BY <2>1 DEF FramesTyped
<1>3. \A i \in 2 .. Len(natives') : natives'[i - 1].frames < natives'[i].frames
  <2>1. \A i \in 2 .. Len(natives') :
           i - 1 \in 1 .. Len(natives') /\ i \in 1 .. Len(natives') /\ i - 1 < i
    BY <1>1
  <2> QED BY <2>1 DEF NativesTyped
<1>4. Nested' /\ SlotsTaken'
  BY DEF Nested, FramesTyped, NativesTyped
<1>5. TypeOK'
  BY <1>1, <1>2, <1>3 DEF TypeOK, StackTyped, FramesTyped, NativesTyped, NativeCall, UpvaluesTyped
<1> QED BY <1>4, <1>5 DEF TypeInv

\* And forth.
LEMMA TypePartsThen ==
    ASSUME TypeInv'
    PROVE  StackTyped' /\ UpvaluesTyped'
BY LenProperties DEF TypeInv, TypeOK, StackTyped, UpvaluesTyped

\* The natives in progress.
LEMMA NativeIs ==
    ASSUME TypeInv
    PROVE  /\ natives \in Seq(NativeCall) /\ Len(natives) \in Nat
           /\ DOMAIN natives = 1 .. Len(natives) /\ Len(frames) \in Nat
           /\ \A i \in 1 .. Len(natives) : /\ natives[i].frames \in 0 .. Len(frames)
                                           /\ natives[i].slot \in 0 .. Len(stack)
           /\ natives # <<>> => Len(natives) \in 1 .. Len(natives)
           /\ InNative <=> natives # <<>> /\ natives[Len(natives)].frames = Len(frames)
<1>1. /\ natives \in Seq(NativeCall) /\ Len(natives) \in Nat
      /\ DOMAIN natives = 1 .. Len(natives) /\ Len(frames) \in Nat /\ Len(stack) \in Nat
  BY TypeParts, LenProperties DEF NativesTyped, FramesTyped, StackTyped
<1>2. \A i \in 1 .. Len(natives) : natives[i] \in NativeCall
  BY <1>1, ElementOfSeq
<1>3. \A i \in 1 .. Len(natives) : /\ natives[i].frames \in Nat /\ natives[i].slot \in Nat
                                   /\ natives[i].frames <= Len(frames)
                                   /\ natives[i].slot <= Len(stack)
  BY <1>2, TypeParts DEF NativeCall, NativesTyped, SlotsTaken
<1>4. natives # <<>> => Len(natives) \in 1 .. Len(natives)
  BY <1>1, StackTop
<1> QED BY <1>1, <1>3, <1>4 DEF InNative, Sq!Last

\* While a function runs, what natives have taken is not among its slots.
LEMMA TakenBelow ==
    ASSUME TypeInv, ~ InNative
    PROVE  \A i \in 1 .. Len(natives) : /\ natives[i].frames < Len(frames)
                                        /\ natives[i].slot <= Base /\ natives[i].slot \in Nat
<1> SUFFICES ASSUME NEW i \in 1 .. Len(natives)
             PROVE  /\ natives[i].frames < Len(frames)
                    /\ natives[i].slot <= Base /\ natives[i].slot \in Nat
  OBVIOUS
<1> DEFINE n == Len(natives)
           m == natives[i].frames
<1>1. /\ n \in Nat /\ i \in 1 .. n /\ n \in 1 .. n /\ Len(frames) \in Nat
      /\ m \in 0 .. Len(frames) /\ natives[n].frames \in 0 .. Len(frames)
      /\ natives[i].slot \in Nat
      /\ natives # <<>> /\ natives[n].frames # Len(frames)
  <2>1. natives # <<>>
    BY NativeIs
  <2> QED BY <2>1, NativeIs
<1>2. m <= natives[n].frames
  <2>1. CASE i = n
    BY <1>1, <2>1
  <2>2. CASE i < n
    BY <1>1, <2>2 DEF TypeInv, Nested
  <2> QED BY <1>1, <2>1, <2>2
<1>3. m < Len(frames) /\ m + 1 \in 1 .. Len(frames)
  BY <1>1, <1>2
<1>4. natives[i].slot <= frames[m + 1].base
  BY <1>3 DEF TypeInv, SlotsTaken
<1>5. frames[m + 1].base <= Base /\ frames[m + 1].base \in Nat /\ Base \in Nat
  BY <1>3, BaseIs
<1> QED BY <1>1, <1>3, <1>4, <1>5

\* While a function runs and the stack does not get shorter than its frame.
LEMMA FramesStay ==
    ASSUME TypeInv, ~ InNative, frames' = frames, natives' = natives,
           Len(stack') \in Nat, Len(stack') >= Base
    PROVE  FramesTyped' /\ NativesTyped'
<1>1. \A i \in 1 .. Len(frames) : frames[i].base <= Len(stack')
  <2> SUFFICES ASSUME NEW i \in 1 .. Len(frames) PROVE frames[i].base <= Len(stack')
    OBVIOUS
  <2>1. frames[i].base <= Base /\ frames[i].base \in Nat /\ Base \in Nat
    BY BaseIs
  <2> QED BY <2>1
<1>2. \A i \in 1 .. Len(natives) : natives[i].slot <= Len(stack')
  <2> SUFFICES ASSUME NEW i \in 1 .. Len(natives) PROVE natives[i].slot <= Len(stack')
    OBVIOUS
  <2>1. natives[i].slot <= Base /\ natives[i].slot \in Nat /\ Base \in Nat
    BY TakenBelow, BaseIs
  <2> QED BY <2>1
<1> QED BY <1>1, <1>2, TypeParts DEF FramesTyped, NativesTyped, SlotsTaken

-----------------------------------------------------------------------------
(***************************************************************************)
(* Variables leave the stack.                                              *)
(***************************************************************************)
\* The variables after the n-th leave, the upvalues of theirs are closed.
Leaves(n) ==
    /\ n \in 0 .. Len(stack)
    /\ stack' = SubSeq(stack, 1, n)
    /\ owner' = SubSeq(owner, 1, n)
    /\ location' = [u \in Upvalue |-> IF location[u] > n THEN 0 ELSE location[u]]
    /\ closed' = [u \in Upvalue |-> IF location[u] > n THEN stack[location[u]] ELSE closed[u]]
    /\ meaning' = meaning /\ upvalues' = upvalues /\ seen' = seen
    /\ natives' = natives \/ (n = 0 /\ natives' = <<>>)
    /\ open' \in Seq(Upvalue) /\ Sorted' /\ Listed'

\* The three ways for variables to leave: the end of a scope, a return, a panic.
LEMMA ClosingLeaves ==
    ASSUME ListInv, NEW n \in 0 .. Len(stack), CloseUpvalues(n + 1), CutStack(n),
           upvalues' = upvalues, seen' = seen, natives' = natives
    PROVE  Leaves(n)
<1>1. n \in Nat /\ n + 1 \in Nat \ {0}
  BY TypeParts DEF ListInv, StackTyped
<1>2. location \in [Upvalue -> Nat]
  BY TypeParts DEF ListInv, UpvaluesTyped
<1>3. \A u \in Upvalue : location[u] >= n + 1 <=> location[u] > n
  BY <1>1, <1>2
<1>4. /\ open' \in Seq(Upvalue)
      /\ location' = [u \in Upvalue |-> IF location[u] >= n + 1 THEN 0 ELSE location[u]]
      /\ closed' = [u \in Upvalue |->
                      IF location[u] >= n + 1 THEN stack[location[u]] ELSE closed[u]]
      /\ meaning' = meaning
      /\ Sorted' /\ Listed'
  <2> DEFINE last == n + 1
  <2>1. last \in Nat \ {0} /\ CloseUpvalues(last)
    BY <1>1
  <2>e. last = n + 1
    OBVIOUS
  <2> HIDE DEF last
  <2>2. /\ open' \in Seq(Upvalue)
        /\ location' = [u \in Upvalue |-> IF location[u] >= last THEN 0 ELSE location[u]]
        /\ closed' = [u \in Upvalue |->
                        IF location[u] >= last THEN stack[location[u]] ELSE closed[u]]
        /\ meaning' = meaning
        /\ Sorted' /\ Listed'
    BY <2>1, CloseShape
  <2> QED BY <2>2, <2>e
<1>5. /\ location' = [u \in Upvalue |-> IF location[u] > n THEN 0 ELSE location[u]]
      /\ closed' = [u \in Upvalue |-> IF location[u] > n THEN stack[location[u]] ELSE closed[u]]
  BY <1>3, <1>4
<1> QED BY <1>4, <1>5 DEF Leaves, CutStack

\* A scope ends: the innermost variable leaves.
LEMMA EndOfScopeLeaves ==
    ASSUME ListInv, EndOfScope
    PROVE  /\ Len(stack) > Base /\ Leaves(Len(stack) - 1)
           /\ frames' = frames /\ natives' = natives
<1> DEFINE n == Len(stack) - 1
<1>1. Len(stack) > Base /\ Base \in Nat /\ Len(stack) \in Nat
  BY BaseIs DEF EndOfScope, ListInv
<1>2. n \in 0 .. Len(stack) /\ n + 1 = Len(stack)
  BY <1>1
<1>3. CloseUpvalues(n + 1) /\ CutStack(n) /\ upvalues' = upvalues /\ seen' = seen
      /\ frames' = frames /\ natives' = natives
  BY <1>2 DEF EndOfScope
<1> HIDE DEF n
<1>4. Leaves(n)
  BY <1>2, <1>3, ClosingLeaves
<1> QED BY <1>1, <1>3, <1>4 DEF n

\* A return: those of the frame leave.
LEMMA ReturnLeaves ==
    ASSUME ListInv, Return
    PROVE  /\ frames # <<>> /\ Leaves(Base)
           /\ frames' = IF natives = <<>> THEN SubSeq(frames, 1, Len(frames) - 1)
                        ELSE SubSeq(frames, 1, natives[Len(natives)].frames)
           /\ natives' = natives
<1>1. Base \in 0 .. Len(stack)
  BY BaseIs DEF ListInv
<1>2. /\ CloseUpvalues(Base + 1) /\ CutStack(Base) /\ upvalues' = upvalues /\ seen' = seen
      /\ natives' = natives
  BY DEF Return
<1>3. Leaves(Base)
  BY <1>1, <1>2, ClosingLeaves
<1>4. /\ frames # <<>>
      /\ frames' = IF natives = <<>> THEN Sq!Front(frames)
                   ELSE SubSeq(frames, 1, Sq!Last(natives).frames)
  BY DEF Return
<1> QED BY <1>2, <1>3, <1>4 DEF Sq!Front, Sq!Last

\* A panic closes nothing; that is the same where no upvalue is open.
LEMMA PanicLeaves ==
    ASSUME ListInv, ~ OpenAtPanic, Panic
    PROVE  Leaves(0) /\ frames' = <<>> /\ natives' = <<>>
<1>1. /\ open = <<>> /\ CutStack(0) /\ open' = <<>> /\ frames' = <<>> /\ natives' = <<>>
      /\ UNCHANGED <<upvalues, location, closed, meaning, seen>>
  BY DEF Panic
<1>2. /\ location \in [Upvalue -> Nat] /\ 0 \in 0 .. Len(stack)
      /\ closed = [u \in Upvalue |-> closed[u]]
  BY TypeParts DEF ListInv, UpvaluesTyped, StackTyped
<1>3. DOMAIN open = {}
  BY <1>1
<1>4. \A u \in Upvalue : ~ InSeq(u, open) /\ location[u] = 0
  BY <1>3 DEF ListInv, Listed, InSeq
<1>5. /\ location' = [u \in Upvalue |-> IF location[u] > 0 THEN 0 ELSE location[u]]
      /\ closed' = [u \in Upvalue |-> IF location[u] > 0 THEN stack[location[u]] ELSE closed[u]]
  BY <1>1, <1>2, <1>4
<1>6. open' \in Seq(Upvalue) /\ Sorted' /\ Listed'
  BY <1>1 DEF ListInv, Sorted, Listed, TypeInv, TypeOK, InSeq
<1> QED BY <1>1, <1>2, <1>5, <1>6 DEF Leaves, CutStack

-----------------------------------------------------------------------------
(***************************************************************************)
(* What a step does to the variables.                                      *)
(***************************************************************************)
\* The steps, as what they do to the variables.  A closure takes a local:
TakesLocal(c, slot, u) ==
    /\ slot > Base
    /\ upvalues' = [upvalues EXCEPT ![c] = Append(@, u)]
    /\ UNCHANGED <<stackVars, frames, natives, seen>>
    /\ \/ location[u] = slot /\ UNCHANGED upvalueVars
       \/ Captures(slot, u)

\* A native has taken the slot.
IsTaken(i) == \E n \in 1 .. Len(natives) : natives[n].slot = i

\* The variables that the running function can name.
Names(x) ==
    \/ \E i \in Base + 1 .. Len(owner) : owner[i] = x
    \/ frames # <<>> /\ \E i \in 1 .. Len(upvalues[Running]) : meaning[upvalues[Running][i]] = x

\* A variable in scope is written, by its function or through an upvalue:
WritesSlot(i, v) ==
    /\ Names(owner[i]) /\ ~ IsTaken(i)
    /\ stack' = [stack EXCEPT ![i] = v]
    /\ UNCHANGED <<owner, frames, natives, upvalues, upvalueVars, seen>>

\* A variable that has left is written:
WritesClosed(u, v) ==
    /\ Names(meaning[u]) /\ meaning[u] # Dead
    /\ location[u] = 0 /\ closed' = [closed EXCEPT ![u] = v]
    /\ UNCHANGED <<stackVars, frames, natives, upvalues, open, location, meaning, seen>>

\* A variable is read (or nothing happens):
Reads(w) ==
    /\ \/ w = seen
       \/ \E i \in 1 .. Len(stack) : Names(owner[i]) /\ ~ IsTaken(i) /\ w = stack[i]
       \/ \E u \in Upvalue : /\ Names(meaning[u]) /\ meaning[u] # Dead
                             /\ location[u] = 0 /\ w = closed[u]
    /\ seen' = w
    /\ UNCHANGED <<stackVars, frames, natives, upvalues, upvalueVars>>

\* The upvalues of the running closure.
LEMMA RunningUpvalue ==
    ASSUME VariableInv, frames # <<>>, NEW index \in DOMAIN upvalues[Running]
    PROVE  LET u == upvalues[Running][index]
           IN  /\ Running \in Closure /\ index \in 1 .. Len(upvalues[Running])
               /\ u \in Upvalue /\ location[u] \in 0 .. Len(stack)
               /\ meaning[u] # Dead /\ Names(meaning[u])
               /\ location[u] # 0 => owner[location[u]] = meaning[u] /\ ~ IsTaken(location[u])
<1> DEFINE u == upvalues[Running][index]
<1>1. Running \in Closure
  BY BaseIs DEF VariableInv, ListInv
<1>2. upvalues[Running] \in Seq(Upvalue) /\ location \in [Upvalue -> Nat]
  BY <1>1, TypeParts DEF VariableInv, ListInv, UpvaluesTyped
<1>3. index \in 1 .. Len(upvalues[Running])
  BY <1>2, LenProperties
<1>4. u \in Upvalue
  BY <1>2, <1>3, ElementOfSeq
<1>5. InSeq(u, upvalues[Running])
  BY DEF InSeq
<1> HIDE DEF u
<1>6. meaning[u] # Dead
  BY <1>1, <1>4, <1>5 DEF VariableInv, Referred
<1>7. location[u] \in 0 .. Len(stack)
  <2>1. location[u] # 0 => location[u] \in 1 .. Len(owner)
    <3>1. DOMAIN owner = 1 .. Len(owner)
      BY LenProperties, TypeParts DEF VariableInv, ListInv, StackTyped
    <3> QED BY <1>4, <3>1 DEF VariableInv, UpvaluesKeepTheirVariable
  <2>2. Len(owner) = Len(stack) /\ Len(stack) \in Nat /\ location[u] \in Nat
    BY <1>2, <1>4, TypeParts DEF VariableInv, ListInv, StackTyped
  <2> QED BY <2>1, <2>2
<1>8. location[u] # 0 => owner[location[u]] = meaning[u] /\ ~ IsTaken(location[u])
  BY <1>4 DEF VariableInv, UpvaluesKeepTheirVariable, ListInv, TakenApart, IsTaken
<1>9. Names(meaning[u])
  BY <1>3 DEF u, Names
<1> QED BY <1>1, <1>3, <1>4, <1>6, <1>7, <1>8, <1>9 DEF u

\* A native is called, and takes the slot (0: none):
Takes(slot) ==
    /\ slot # 0 => /\ slot = Len(stack) /\ slot > Base
                   /\ \A u \in Upvalue : location[u] # slot
    /\ natives' \in Seq(NativeCall) /\ Len(natives') = Len(natives) + 1
    /\ \A i \in 1 .. Len(natives) : natives'[i] = natives[i]
    /\ natives'[Len(natives) + 1].frames = Len(frames)
    /\ natives'[Len(natives) + 1].slot = slot
    /\ slot # 0 => natives'[Len(natives) + 1].original = stack[slot]
    /\ stack' \in Seq(Value) /\ Len(stack') = Len(stack)
    /\ \A i \in 1 .. Len(stack) : i # slot => stack'[i] = stack[i]
    /\ UNCHANGED <<owner, frames, upvalues, upvalueVars, seen>>

\* The native called last returns, and gives it back:
Gives ==
    LET n == Len(natives)
        slot == natives[n].slot
    IN  /\ natives # <<>>
        /\ natives' \in Seq(NativeCall) /\ Len(natives') = n - 1
        /\ \A i \in 1 .. n - 1 : natives'[i] = natives[i]
        /\ stack' \in Seq(Value) /\ Len(stack') = Len(stack)
        /\ \A i \in 1 .. Len(stack) :
              stack'[i] = IF i = slot THEN natives[n].original ELSE stack[i]
        /\ UNCHANGED <<owner, frames, upvalues, upvalueVars, seen>>

\* The two kinds of calls of natives.
LEMMA InvokeTakes ==
    ASSUME TypeInv, ~ OpenBelow, InvokeOver \/ Invoke
    PROVE  \E slot \in 0 .. Len(stack) : Takes(slot)
<1>t. /\ natives \in Seq(NativeCall) /\ Len(natives) \in Nat /\ Len(frames) \in Nat
      /\ stack \in Seq(Value) /\ Len(stack) \in Nat /\ Base \in 0 .. Len(stack)
  BY NativeIs, BaseIs, TypeParts DEF StackTyped
<1>1. CASE InvokeOver
  <2> DEFINE L == Len(stack)
             call == [frames |-> Len(frames), slot |-> L, original |-> stack[L]]
  <2>1. /\ L > Base /\ natives' = Append(natives, call)
        /\ stack' = [stack EXCEPT ![L] = Method]
        /\ \A u \in Upvalue : location[u] # L
        /\ UNCHANGED <<owner, frames, upvalues, upvalueVars, seen>>
    BY <1>1 DEF InvokeOver, Sq!Last
  <2>2. L \in 1 .. Len(stack)
    BY <1>t, <2>1
  <2>3. /\ call \in NativeCall /\ call.frames = Len(frames) /\ call.slot = L
        /\ call.original = stack[L]
    BY <1>t, <2>2, ElementOfSeq DEF NativeCall
  <2>l. L = Len(stack)
    OBVIOUS
  <2> HIDE DEF call, L
  <2>4. /\ natives' \in Seq(NativeCall) /\ Len(natives') = Len(natives) + 1
        /\ natives'[Len(natives) + 1] = call
        /\ \A i \in 1 .. Len(natives) : natives'[i] = natives[i]
    BY <1>t, <2>1, <2>3, StackPush
  <2>5. /\ stack' \in Seq(Value) /\ Len(stack') = Len(stack)
        /\ \A i \in 1 .. Len(stack) : stack'[i] = IF i = L THEN Method ELSE stack[i]
    <3>1. Method \in Value
      BY MethodAssumption
    <3> QED BY <1>t, <2>1, <2>2, <3>1, ExceptSeq
  <2>6. Takes(L)
    BY <2>1, <2>3, <2>4, <2>5, <2>l DEF Takes
  <2> QED BY <1>t, <2>2, <2>6
<1>2. CASE Invoke
  <2> DEFINE call == [frames |-> Len(frames), slot |-> 0, original |-> Dead]
  <2>1. /\ natives' = Append(natives, call)
        /\ UNCHANGED <<stack, owner, frames, upvalues, upvalueVars, seen>>
    BY <1>2 DEF Invoke, stackVars
  <2>2. call \in NativeCall /\ call.frames = Len(frames) /\ call.slot = 0
    BY <1>t DEF NativeCall
  <2> HIDE DEF call
  <2>3. /\ natives' \in Seq(NativeCall) /\ Len(natives') = Len(natives) + 1
        /\ natives'[Len(natives) + 1] = call
        /\ \A i \in 1 .. Len(natives) : natives'[i] = natives[i]
    BY <1>t, <2>1, <2>2, StackPush
  <2>4. Takes(0)
    BY <1>t, <2>1, <2>2, <2>3 DEF Takes
  <2> QED BY <1>t, <2>4
<1> QED BY <1>1, <1>2

LEMMA NativeReturnsGives ==
    ASSUME TypeInv, InNative, NativeReturns
    PROVE  Gives
<1> DEFINE n == Len(natives)
           slot == natives[n].slot
           v == natives[n].original
<1>t. /\ natives \in Seq(NativeCall) /\ natives # <<>> /\ n \in 1 .. Len(natives)
      /\ stack \in Seq(Value) /\ Len(stack) \in Nat /\ slot \in 0 .. Len(stack)
      /\ slot # 0 => v \in Value
  BY NativeIs, TypeParts DEF StackTyped, NativesTyped, SlotsTaken
<1>1. /\ natives' = SubSeq(natives, 1, n - 1)
      /\ stack' = IF slot = 0 THEN stack ELSE [stack EXCEPT ![slot] = v]
      /\ UNCHANGED <<owner, frames, upvalues, upvalueVars, seen>>
  BY DEF NativeReturns, Sq!Front, Sq!Last
<1>2. /\ natives' \in Seq(NativeCall) /\ Len(natives') = n - 1
      /\ \A i \in 1 .. n - 1 : natives'[i] = natives[i]
  BY <1>t, <1>1, StackPop
<1> HIDE DEF slot, v
<1>3. /\ stack' \in Seq(Value) /\ Len(stack') = Len(stack)
      /\ \A i \in 1 .. Len(stack) : stack'[i] = IF i = slot THEN v ELSE stack[i]
  <2>1. CASE slot = 0
    BY <1>t, <1>1, <2>1
  <2>2. CASE slot # 0
    <3>1. slot \in 1 .. Len(stack)
      BY <1>t, <2>2
    <3> QED BY <1>t, <1>1, <2>2, <3>1, ExceptSeq
  <2> QED BY <2>1, <2>2
<1> QED BY <1>t, <1>1, <1>2, <1>3 DEF Gives, slot, v

\* Every step is one of these.
Step ==
    \/ /\ ~ InNative
       /\ \/ \E c \in Closure, slot \in 1 .. Len(stack), u \in Upvalue : TakesLocal(c, slot, u)
          \/ \E c \in Closure : /\ frames # <<>>
                                /\ \E index \in DOMAIN upvalues[Running] : CaptureOuter(c, index)
          \/ \E x \in Variable, v \in Value : Declare(x, v)
          \/ EndOfScope \/ Return
          \/ \E i \in 1 .. Len(stack), v \in Value : WritesSlot(i, v)
          \/ \E u \in Upvalue, v \in Value : WritesClosed(u, v)
          \/ \E slot \in 0 .. Len(stack) : Takes(slot)
    \/ InNative /\ Gives
    \/ (InNative \/ natives = <<>> \/ CallbacksCall) /\ \E c \in Closure : Call(c)
    \/ \E w \in Value \cup {Dead} : Reads(w)
    \/ Panic

LEMMA StepShape ==
    ASSUME VariableInv, ~ OpenAtPanic, ~ OpenBelow, [Next]_vars
    PROVE  Step
<1>t. /\ StackTyped /\ UpvaluesTyped /\ DOMAIN stack = 1 .. Len(stack)
      /\ \A i \in 1 .. Len(stack) : stack[i] \in Value
  BY TypeParts, LenProperties, ElementOfSeq DEF VariableInv, ListInv, StackTyped
<1>1. ASSUME NEW c \in Closure, NEW slot \in DOMAIN stack, ~ InNative, CaptureLocal(c, slot) PROVE Step
  <2>1. slot \in 1 .. Len(stack) /\ slot \in Nat \ {0}
    BY <1>t
  <2>2. PICK u \in Upvalue : /\ CaptureUpvalue(slot, u)
                             /\ upvalues' = [upvalues EXCEPT ![c] = Append(@, u)]
    BY <1>1 DEF CaptureLocal
  <2>3. (location[u] = slot /\ UNCHANGED upvalueVars) \/ Captures(slot, u)
    BY <2>1, <2>2, CaptureShape DEF VariableInv
  <2>4. slot > Base /\ UNCHANGED <<stackVars, frames, natives, seen>>
    BY <1>1 DEF CaptureLocal
  <2>5. TakesLocal(c, slot, u)
    BY <2>2, <2>3, <2>4 DEF TakesLocal
  <2> QED BY <1>1, <2>1, <2>5 DEF Step
<1>own. ASSUME NEW slot \in 1 .. Len(stack), slot > Base, ~ InNative
        PROVE  Names(owner[slot]) /\ ~ IsTaken(slot)
  <2>1. Base \in Nat /\ Len(stack) \in Nat /\ Len(owner) = Len(stack)
    BY <1>t, BaseIs DEF VariableInv, ListInv, StackTyped
  <2>2. slot \in Base + 1 .. Len(owner)
    BY <1>own, <2>1
  <2>3. ~ IsTaken(slot)
    <3> SUFFICES ASSUME NEW n \in 1 .. Len(natives), natives[n].slot = slot PROVE FALSE
      BY DEF IsTaken
    <3>1. natives[n].slot <= Base
      BY <1>own, TakenBelow DEF VariableInv, ListInv
    <3> QED BY <1>own, <2>1, <3>1
  <2> QED BY <2>2, <2>3 DEF Names
<1>2. ASSUME NEW slot \in DOMAIN stack, ~ InNative, GetLocal(slot) PROVE Step
  <2>1. /\ stack[slot] \in Value /\ slot \in 1 .. Len(stack)
        /\ Names(owner[slot]) /\ ~ IsTaken(slot)
    BY <1>t, <1>own, <1>2 DEF GetLocal
  <2>2. Reads(stack[slot])
    BY <1>2, <2>1 DEF GetLocal, Reads
  <2> QED BY <2>1, <2>2 DEF Step
<1>3. ASSUME NEW slot \in DOMAIN stack, NEW v \in Value, ~ InNative, SetLocal(slot, v)
      PROVE  Step
  <2>1. slot \in 1 .. Len(stack) /\ Names(owner[slot]) /\ ~ IsTaken(slot)
    BY <1>t, <1>own, <1>3 DEF SetLocal
  <2>2. WritesSlot(slot, v)
    BY <1>3, <2>1 DEF SetLocal, WritesSlot
  <2> QED BY <1>3, <2>1, <2>2 DEF Step
<1>4. ASSUME frames # <<>>, NEW index \in DOMAIN upvalues[Running], GetUpvalue(index) PROVE Step
  <2> DEFINE u == upvalues[Running][index]
  <2>1. /\ u \in Upvalue /\ location[u] \in 0 .. Len(stack)
        /\ meaning[u] # Dead /\ Names(meaning[u])
        /\ location[u] # 0 => owner[location[u]] = meaning[u] /\ ~ IsTaken(location[u])
    BY <1>4, RunningUpvalue
  <2>2. seen' = Deref(u) /\ UNCHANGED <<stackVars, frames, natives, upvalues, upvalueVars>>
    BY <1>4 DEF GetUpvalue
  <2> HIDE DEF u
  <2>3. Deref(u) \in Value \cup {Dead}
    BY <1>t, <2>1 DEF Deref, UpvaluesTyped, StackTyped
  <2>4. Reads(Deref(u))
    <3>1. CASE location[u] = 0
      BY <2>1, <2>2, <3>1 DEF Reads, Deref
    <3>2. CASE location[u] # 0
      <4>1. /\ location[u] \in 1 .. Len(stack) /\ Names(owner[location[u]])
            /\ ~ IsTaken(location[u])
        BY <1>t, <2>1, <3>2 DEF StackTyped
      <4>2. Deref(u) = stack[location[u]]
        BY <3>2 DEF Deref
      <4> QED BY <2>2, <4>1, <4>2 DEF Reads
    <3> QED BY <3>1, <3>2
  <2> QED BY <2>3, <2>4 DEF Step
<1>5. ASSUME frames # <<>>, NEW index \in DOMAIN upvalues[Running], NEW v \in Value,
             ~ InNative, SetUpvalue(index, v)
      PROVE  Step
  <2> DEFINE u == upvalues[Running][index]
  <2>1. /\ u \in Upvalue /\ location[u] \in 0 .. Len(stack)
        /\ meaning[u] # Dead /\ Names(meaning[u])
        /\ location[u] # 0 => owner[location[u]] = meaning[u] /\ ~ IsTaken(location[u])
    BY <1>5, RunningUpvalue
  <2>2. /\ IF location[u] = 0
           THEN closed' = [closed EXCEPT ![u] = v] /\ stack' = stack
           ELSE stack' = [stack EXCEPT ![location[u]] = v] /\ closed' = closed
        /\ UNCHANGED <<owner, frames, natives, upvalues, open, location, meaning, seen>>
    BY <1>5 DEF SetUpvalue
  <2> HIDE DEF u
  <2>3. CASE location[u] = 0
    <3>1. WritesClosed(u, v)
      BY <2>1, <2>2, <2>3 DEF WritesClosed, stackVars
    <3> QED BY <1>5, <2>1, <3>1 DEF Step
  <2>4. CASE location[u] # 0
    <3>1. /\ location[u] \in 1 .. Len(stack) /\ Names(owner[location[u]])
          /\ ~ IsTaken(location[u])
      BY <1>t, <2>1, <2>4 DEF StackTyped
    <3>2. WritesSlot(location[u], v)
      BY <2>2, <2>4, <3>1 DEF WritesSlot, upvalueVars
    <3> QED BY <1>5, <3>1, <3>2 DEF Step
  <2> QED BY <2>3, <2>4
<1>6. CASE UNCHANGED vars
  <2>1. Reads(seen) /\ seen \in Value \cup {Dead}
    BY <1>t, <1>6 DEF vars, Reads, UpvaluesTyped, stackVars, upvalueVars
  <2> QED BY <2>1 DEF Step
<1>7. ASSUME ~ InNative, InvokeOver \/ Invoke PROVE Step
  BY <1>7, InvokeTakes DEF VariableInv, ListInv, Step
<1>8. ASSUME InNative, NativeReturns PROVE Step
  BY <1>8, NativeReturnsGives DEF VariableInv, ListInv, Step
<1>9. ASSUME ~ InNative, Capture PROVE Step
  BY <1>1, <1>9 DEF Capture, Step
<1>10. ASSUME ~ InNative, Instruction PROVE Step
  <2>1. ASSUME NEW slot \in DOMAIN stack, GetLocal(slot) \/ \E v \in Value : SetLocal(slot, v)
        PROVE  Step
    BY <1>2, <1>3, <1>10, <2>1
  <2>2. ASSUME frames # <<>>, NEW index \in DOMAIN upvalues[Running],
               GetUpvalue(index) \/ \E v \in Value : SetUpvalue(index, v)
        PROVE  Step
    BY <1>4, <1>5, <1>10, <2>2
  <2>3. ASSUME natives = <<>> \/ CallbacksCall, NEW c \in Closure, Call(c) PROVE Step
    BY <2>3 DEF Step
  <2>4. ASSUME (\E x \in Variable, v \in Value : Declare(x, v)) \/ EndOfScope \/ Return
        PROVE  Step
    BY <1>10, <2>4 DEF Step
  <2> QED BY <1>7, <1>10, <2>1, <2>2, <2>3, <2>4 DEF Instruction
<1>11. ASSUME InNative, Native PROVE Step
  BY <1>8, <1>11 DEF Native, Step
<1>12. CASE Next
  BY <1>9, <1>10, <1>11, <1>12 DEF Next, Step
<1> QED BY <1>6, <1>12

-----------------------------------------------------------------------------
(***************************************************************************)
(* Types and the list are kept.                                            *)
(***************************************************************************)
\* The slots that stay keep their value and variable.
LEMMA LeavingShape ==
    ASSUME TypeInv, NEW n, Leaves(n)
    PROVE  /\ n \in 0 .. Len(stack) /\ n \in Nat
           /\ StackTyped' /\ Len(stack') = n /\ Len(owner') = n
           /\ \A i \in 1 .. n : stack'[i] = stack[i] /\ owner'[i] = owner[i]
<1>1. n \in 0 .. Len(stack) /\ Len(stack) \in Nat /\ Len(owner) = Len(stack)
      /\ stack \in Seq(Value) /\ owner \in Seq(Variable)
  BY TypeParts DEF Leaves, StackTyped
<1>2. /\ SubSeq(stack, 1, n) \in Seq(Value) /\ Len(SubSeq(stack, 1, n)) = n
      /\ \A i \in 1 .. n : SubSeq(stack, 1, n)[i] = stack[i]
  BY <1>1, Prefix
<1>3. /\ SubSeq(owner, 1, n) \in Seq(Variable) /\ Len(SubSeq(owner, 1, n)) = n
      /\ \A i \in 1 .. n : SubSeq(owner, 1, n)[i] = owner[i]
  BY <1>1, Prefix
<1>4. stack' = SubSeq(stack, 1, n) /\ owner' = SubSeq(owner, 1, n)
  BY DEF Leaves
<1> QED BY <1>1, <1>2, <1>3, <1>4 DEF StackTyped

\* A new variable is neither in a slot nor in an upvalue.
LEMMA DeclareShape ==
    ASSUME TypeInv, NEW x \in Variable, NEW v \in Value, Declare(x, v)
    PROVE  /\ StackTyped' /\ Len(stack') = Len(stack) + 1 /\ Len(owner') = Len(stack) + 1
           /\ stack'[Len(stack) + 1] = v /\ owner'[Len(stack) + 1] = x
           /\ \A i \in 1 .. Len(stack) : stack'[i] = stack[i] /\ owner'[i] = owner[i]
           /\ \A i \in 1 .. Len(stack) : owner[i] # x
           /\ \A u \in Upvalue : meaning[u] # x
           /\ UNCHANGED <<frames, natives, upvalues, upvalueVars, seen>>
<1>1. stack \in Seq(Value) /\ owner \in Seq(Variable) /\ Len(owner) = Len(stack)
      /\ Len(stack) \in Nat /\ DOMAIN owner = 1 .. Len(stack)
  BY TypeParts, LenProperties DEF StackTyped
<1>2. /\ Append(stack, v) \in Seq(Value) /\ Len(Append(stack, v)) = Len(stack) + 1
      /\ Append(stack, v)[Len(stack) + 1] = v
      /\ \A i \in 1 .. Len(stack) : Append(stack, v)[i] = stack[i]
  BY <1>1, StackPush
<1>3. /\ Append(owner, x) \in Seq(Variable) /\ Len(Append(owner, x)) = Len(owner) + 1
      /\ Append(owner, x)[Len(owner) + 1] = x
      /\ \A i \in 1 .. Len(owner) : Append(owner, x)[i] = owner[i]
  BY <1>1, StackPush
<1>4. stack' = Append(stack, v) /\ owner' = Append(owner, x)
  BY DEF Declare
<1>5. StackTyped'
  BY <1>1, <1>2, <1>3, <1>4 DEF StackTyped
<1>6. \A i \in 1 .. Len(stack) : owner[i] # x
  BY <1>1 DEF Declare, InSeq
<1>7. (\A u \in Upvalue : meaning[u] # x) /\ UNCHANGED <<frames, natives, upvalues, upvalueVars, seen>>
  BY DEF Declare
<1> QED BY <1>1, <1>2, <1>3, <1>4, <1>5, <1>6, <1>7

\* A write changes one slot.
LEMMA WriteShape ==
    ASSUME TypeInv, NEW i \in 1 .. Len(stack), NEW v \in Value, WritesSlot(i, v)
    PROVE  /\ StackTyped' /\ Len(stack') = Len(stack) /\ owner' = owner
           /\ \A j \in 1 .. Len(stack) : stack'[j] = IF j = i THEN v ELSE stack[j]
<1>1. stack \in Seq(Value)
  BY TypeParts DEF StackTyped
<1>2. /\ [stack EXCEPT ![i] = v] \in Seq(Value)
      /\ Len([stack EXCEPT ![i] = v]) = Len(stack)
      /\ \A j \in 1 .. Len(stack) : [stack EXCEPT ![i] = v][j] = IF j = i THEN v ELSE stack[j]
  BY <1>1, ExceptSeq
<1>3. stack' = [stack EXCEPT ![i] = v] /\ owner' = owner
  BY DEF WritesSlot
<1> QED BY <1>2, <1>3, TypeParts DEF StackTyped

\* Calls and returns keep the nesting of frames and natives.
LEMMA CallTyped ==
    ASSUME TypeInv, NEW c \in Closure, Call(c)
    PROVE  /\ FramesTyped' /\ NativesTyped'
           /\ Len(frames') = Len(frames) + 1 /\ Len(frames) \in Nat
<1> DEFINE f == [base |-> Len(stack), closure |-> c]
<1>1. /\ frames \in Seq([base : Nat, closure : Closure])
      /\ Len(frames) \in Nat /\ Len(stack) \in Nat
      /\ \A i \in 1 .. Len(frames) : frames[i].base <= Len(stack)
      /\ \A i, j \in 1 .. Len(frames) : i < j => frames[i].base <= frames[j].base
  BY TypeParts, LenProperties DEF StackTyped, FramesTyped
<1>2. f \in [base : Nat, closure : Closure] /\ f.base = Len(stack)
  BY <1>1
<1>3. frames' = Append(frames, f) /\ stack' = stack /\ Len(frames) < MaxFrames
  BY DEF Call, stackVars
<1> HIDE DEF f
<1>4. /\ frames' \in Seq([base : Nat, closure : Closure]) /\ Len(frames') = Len(frames) + 1
      /\ frames'[Len(frames) + 1] = f
      /\ \A i \in 1 .. Len(frames) : frames'[i] = frames[i]
  BY <1>1, <1>2, <1>3, StackPush
<1>5. FramesTyped'
  <2>1. Len(frames') <= MaxFrames
    BY <1>1, <1>3, <1>4, BoundsAssumption
  <2>2. ASSUME NEW i \in 1 .. Len(frames) + 1 PROVE frames'[i].base <= Len(stack)
    <3>1. CASE i \in 1 .. Len(frames)
      BY <1>1, <1>4, <3>1
    <3>2. CASE i = Len(frames) + 1
      BY <1>1, <1>2, <1>4, <3>2
    <3> QED BY <1>1, <3>1, <3>2
  <2>3. ASSUME NEW i \in 1 .. Len(frames) + 1, NEW j \in 1 .. Len(frames) + 1, i < j
        PROVE  frames'[i].base <= frames'[j].base
    <3>1. i \in 1 .. Len(frames)
      BY <1>1, <2>3
    <3>2. CASE j \in 1 .. Len(frames)
      BY <1>1, <1>4, <2>3, <3>1, <3>2
    <3>3. CASE j = Len(frames) + 1
      BY <1>1, <1>2, <1>4, <3>1, <3>3
    <3> QED BY <1>1, <3>2, <3>3
  <2> QED BY <1>3, <1>4, <2>1, <2>2, <2>3 DEF FramesTyped
<1>6. NativesTyped'
  <2>1. natives' = natives /\ stack' = stack
    BY DEF Call, stackVars
  <2>2. ASSUME NEW i \in 1 .. Len(natives)
        PROVE  /\ natives[i].frames <= Len(frames')
               /\ natives[i].slot <= frames'[natives[i].frames + 1].base
    <3> DEFINE m == natives[i].frames
    <3>1. m \in 0 .. Len(frames) /\ natives[i].slot \in 0 .. Len(stack)
      BY NativeIs
    <3>2. CASE m = Len(frames)
      BY <1>1, <1>2, <1>4, <3>1, <3>2
    <3>3. CASE m < Len(frames)
      <4>1. m + 1 \in 1 .. Len(frames) /\ natives[i].slot <= frames[m + 1].base
        BY <1>1, <3>1, <3>3 DEF TypeInv, SlotsTaken
      <4> QED BY SMTT(30), <1>1, <1>4, <3>1, <4>1
    <3> QED BY <1>1, <3>1, <3>2, <3>3
  <2> QED BY <2>1, <2>2, TypeParts DEF NativesTyped, SlotsTaken
<1> QED BY <1>1, <1>4, <1>5, <1>6

\* A return ends the calls above some number of them; those that natives wait
\* for are not among them.
LEMMA ReturnTyped ==
    ASSUME ListInv, ~ InNative, Return
    PROVE  FramesTyped' /\ NativesTyped'
<1>1. /\ frames \in Seq([base : Nat, closure : Closure])
      /\ Len(frames) \in Nat \ {0}
      /\ Len(frames) <= MaxFrames
      /\ \A i, j \in 1 .. Len(frames) : i < j => frames[i].base <= frames[j].base
  BY TypeParts, ReturnLeaves, StackTop DEF ListInv, FramesTyped
<1>2. /\ Len(stack') = Base /\ Base \in Nat
      /\ \A i \in 1 .. Len(frames) : frames[i].base <= Base
  BY ReturnLeaves, LeavingShape, BaseIs DEF ListInv
<1>n. /\ natives' = natives
      /\ \A i \in 1 .. Len(natives) : /\ natives[i].frames \in 0 .. Len(frames)
                                      /\ natives[i].frames < Len(frames)
                                      /\ natives[i].slot <= Base
      /\ natives # <<>> => Len(natives) \in 1 .. Len(natives)
  BY ReturnLeaves, NativeIs, TakenBelow DEF ListInv
<1>3. PICK k \in 0 .. Len(frames) - 1 :
        /\ frames' = SubSeq(frames, 1, k)
        /\ natives # <<>> => k = natives[Len(natives)].frames
  <2>1. CASE natives = <<>>
    <3>1. frames' = SubSeq(frames, 1, Len(frames) - 1)
      BY <2>1, ReturnLeaves
    <3>2. Len(frames) - 1 \in 0 .. Len(frames) - 1
      BY <1>1
    <3> QED BY <2>1, <3>1, <3>2
  <2>2. CASE natives # <<>>
    <3>1. natives[Len(natives)].frames \in 0 .. Len(frames) - 1
      BY <1>1, <1>n, <2>2
    <3> QED BY <2>2, <3>1, ReturnLeaves
  <2> QED BY <2>1, <2>2
<1>4. /\ frames' \in Seq([base : Nat, closure : Closure]) /\ Len(frames') = k
      /\ \A i \in 1 .. k : frames'[i] = frames[i]
  <2>1. k \in 0 .. Len(frames)
    BY <1>1, <1>3
  <2>2. frames \in Seq([base : Nat, closure : Closure]) /\ frames' = SubSeq(frames, 1, k)
    BY <1>1, <1>3
  <2>3. /\ SubSeq(frames, 1, k) \in Seq([base : Nat, closure : Closure])
        /\ Len(SubSeq(frames, 1, k)) = k
    BY <2>1, <2>2, Prefix
  <2>4. \A i \in 1 .. k : SubSeq(frames, 1, k)[i] = frames[i]
    BY <2>1, <2>2, Prefix
  <2> QED BY <2>2, <2>3, <2>4
<1>5. FramesTyped'
  <2>1. \A i \in 1 .. k : i \in 1 .. Len(frames)
    BY <1>1, <1>3
  <2>2. k <= MaxFrames
    BY <1>1, <1>3, BoundsAssumption
  <2> QED BY <1>1, <1>2, <1>4, <2>1, <2>2 DEF FramesTyped
<1>6. NativesTyped'
  <2>1. ASSUME NEW i \in 1 .. Len(natives) PROVE natives[i].frames <= k
    <3>1. /\ Len(natives) \in Nat /\ k = natives[Len(natives)].frames
          /\ Len(natives) \in 1 .. Len(natives)
      <4>1. natives # <<>>
        BY NativeIs DEF ListInv
      <4> QED BY <1>3, <1>n, <4>1, NativeIs DEF ListInv
    <3>2. CASE i = Len(natives)
      BY <1>3, <3>1, <3>2
    <3>3. CASE i < Len(natives)
      BY <1>n, <3>1, <3>3 DEF ListInv, TypeInv, Nested
    <3> QED BY <3>1, <3>2, <3>3
  <2>2. ASSUME NEW i \in 1 .. Len(natives), natives[i].frames < k
        PROVE  natives[i].slot <= frames'[natives[i].frames + 1].base
    <3> DEFINE m == natives[i].frames
    <3>1. m \in Nat /\ m < Len(frames) /\ m + 1 \in 1 .. k
      BY <1>1, <1>3, <1>n, <2>2
    <3>2. natives[i].slot <= frames[m + 1].base
      BY <3>1 DEF ListInv, TypeInv, SlotsTaken
    <3> QED BY <1>4, <3>1, <3>2
  <2>3. /\ \A i, j \in 1 .. Len(natives) : i < j => natives[i].frames < natives[j].frames
        /\ natives \in Seq(NativeCall)
        /\ SlotsTaken
    BY TypeParts DEF ListInv, NativesTyped
  <2>4. SlotsTaken'
    BY <1>2, <1>4, <1>n, <2>2, <2>3 DEF SlotsTaken
  <2> QED BY <1>4, <1>n, <2>1, <2>3, <2>4 DEF NativesTyped
<1> QED BY <1>5, <1>6

\* A native that is called takes a slot that no other has.
LEMMA TakesTyped ==
    ASSUME TypeInv, ~ InNative, NEW slot \in 0 .. Len(stack), Takes(slot)
    PROVE  StackTyped' /\ FramesTyped' /\ NativesTyped'
<1> DEFINE m == Len(natives)
<1>t. /\ m \in Nat /\ Len(frames) \in Nat /\ Len(stack) \in Nat /\ Base \in Nat
      /\ stack \in Seq(Value)
      /\ \A i \in 1 .. m : /\ natives[i].frames \in 0 .. Len(frames)
                           /\ natives[i].slot \in 0 .. Len(stack)
                           /\ natives[i].frames < Len(frames) /\ natives[i].slot <= Base
  BY NativeIs, TakenBelow, BaseIs, TypeParts DEF StackTyped
<1>1. /\ StackTyped' /\ FramesTyped' /\ Len(stack') = Len(stack) /\ frames' = frames
  BY TypeParts DEF Takes, StackTyped, FramesTyped
<1>2. /\ natives' \in Seq(NativeCall) /\ Len(natives') = m + 1
      /\ \A i \in 1 .. m : natives'[i] = natives[i]
      /\ natives'[m + 1].frames = Len(frames) /\ natives'[m + 1].slot = slot
      /\ slot # 0 => natives'[m + 1].original = stack[slot] /\ slot > Base
  BY DEF Takes
<1>m. m = Len(natives)
  OBVIOUS
<1> HIDE DEF m
<1>s. \A i \in 1 .. m + 1 : i \in 1 .. m \/ i = m + 1
  BY <1>t
<1>3. ASSUME NEW i \in 1 .. m + 1
      PROVE  /\ natives'[i].frames <= Len(frames) /\ natives'[i].slot <= Len(stack)
             /\ natives'[i].frames < Len(frames) =>
                  natives'[i].slot <= frames[natives'[i].frames + 1].base
             /\ natives'[i].slot # 0 => natives'[i].original \in Value
  <2>1. CASE i \in 1 .. m
    BY <1>t, <1>2, <1>m, <2>1 DEF TypeInv, SlotsTaken
  <2>2. CASE i = m + 1
    <3>1. slot # 0 => stack[slot] \in Value
      BY <1>t, ElementOfSeq
    <3> QED BY <1>t, <1>2, <2>2, <3>1
  <2> QED BY <1>s, <2>1, <2>2
<1>4. ASSUME NEW i \in 1 .. m + 1, NEW j \in 1 .. m + 1, i < j
      PROVE  natives'[i].frames < natives'[j].frames
  <2>1. i \in 1 .. m
    BY <1>t, <1>4
  <2>2. CASE j \in 1 .. m
    BY <1>2, <1>m, <1>4, <2>1, <2>2 DEF TypeInv, Nested
  <2>3. CASE j = m + 1
    BY <1>t, <1>2, <2>1, <2>3
  <2> QED BY <1>s, <2>2, <2>3
<1>5. ASSUME NEW i \in 1 .. m + 1, NEW j \in 1 .. m + 1,
             natives'[i].slot = natives'[j].slot, natives'[i].slot # 0
      PROVE  i = j
  <2>1. ASSUME NEW a \in 1 .. m, NEW b \in {m + 1}, natives'[a].slot = natives'[b].slot,
               natives'[a].slot # 0
        PROVE  FALSE
    BY <1>t, <1>2, <2>1
  <2>2. CASE i \in 1 .. m /\ j \in 1 .. m
    BY <1>2, <1>m, <1>5, <2>2 DEF TypeInv, SlotsTaken
  <2> QED BY <1>s, <1>5, <2>1, <2>2
<1>6. SlotsTaken'
  BY <1>1, <1>2, <1>3, <1>5 DEF SlotsTaken
<1> QED BY <1>1, <1>2, <1>3, <1>4, <1>6 DEF NativesTyped

\* One that returns gives it back.
LEMMA GivesTyped ==
    ASSUME TypeInv, Gives
    PROVE  StackTyped' /\ FramesTyped' /\ NativesTyped'
<1>1. /\ StackTyped' /\ FramesTyped' /\ Len(stack') = Len(stack) /\ frames' = frames
  BY TypeParts DEF Gives, StackTyped, FramesTyped
<1>2. /\ natives' \in Seq(NativeCall) /\ Len(natives') = Len(natives) - 1
      /\ \A i \in 1 .. Len(natives) - 1 : /\ natives'[i] = natives[i]
                                          /\ i \in 1 .. Len(natives)
  BY NativeIs DEF Gives
<1>3. SlotsTaken'
  BY <1>1, <1>2 DEF TypeInv, SlotsTaken
<1> QED BY <1>1, <1>2, <1>3, TypeParts DEF NativesTyped

-----------------------------------------------------------------------------
\* A step keeps TypeInv.
LEMMA TypeStep ==
    ASSUME VariableInv, ~ OpenAtPanic, ~ OpenBelow, [Next]_vars
    PROVE  TypeInv'
<1>t. TypeInv /\ ListInv /\ StackTyped /\ FramesTyped /\ NativesTyped /\ UpvaluesTyped
  BY TypeParts DEF VariableInv, ListInv
<1>m. making' \in Closure \cup {Dead}
  BY <1>t DEF Next, Capture, vars, UpvaluesTyped
<1>b. Base \in 0 .. Len(stack) /\ Len(stack) \in Nat
  BY <1>t, BaseIs
<1>1. ASSUME NEW c \in Closure, NEW slot \in 1 .. Len(stack), NEW u \in Upvalue,
             TakesLocal(c, slot, u)
      PROVE  TypeInv'
  <2>1. /\ StackTyped' /\ FramesTyped' /\ NativesTyped' /\ seen' = seen
    BY <1>t, <1>1 DEF TakesLocal, StackTyped, FramesTyped, NativesTyped, SlotsTaken, stackVars
  <2>2. upvalues' \in [Closure -> Seq(Upvalue)]
    <3>1. Append(upvalues[c], u) \in Seq(Upvalue)
      BY <1>t, StackPush DEF UpvaluesTyped
    <3> QED BY <1>t, <1>1, <3>1 DEF TakesLocal, UpvaluesTyped
  <2>3. CASE UNCHANGED upvalueVars
    <3>1. UpvaluesTyped'
      BY <1>t, <1>m, <2>1, <2>2, <2>3 DEF upvalueVars, UpvaluesTyped
    <3> QED BY <2>1, <3>1, TypePartsNext
  <2>4. CASE Captures(slot, u)
    <3>1. owner[slot] \in Variable /\ slot \in Nat
      BY <1>t, <1>b, ElementOfSeq DEF StackTyped
    <3>2. UpvaluesTyped'
      BY <1>t, <1>m, <2>1, <2>2, <2>4, <3>1 DEF Captures, UpvaluesTyped
    <3> QED BY <2>1, <3>2, TypePartsNext
  <2> QED BY <1>1, <2>3, <2>4 DEF TakesLocal
<1>2. ASSUME NEW c \in Closure, frames # <<>>, NEW index \in DOMAIN upvalues[Running],
             CaptureOuter(c, index)
      PROVE  TypeInv'
  <2> DEFINE u == upvalues[Running][index]
  <2>1. /\ StackTyped' /\ FramesTyped' /\ NativesTyped'
    BY <1>t, <1>2 DEF CaptureOuter, StackTyped, FramesTyped, NativesTyped, SlotsTaken, stackVars
  <2>2. u \in Upvalue
    BY <1>2, RunningUpvalue
  <2>3. upvalues' = [upvalues EXCEPT ![c] = Append(@, u)] /\ UNCHANGED <<upvalueVars, seen>>
    BY <1>2 DEF CaptureOuter
  <2> HIDE DEF u
  <2>4. Append(upvalues[c], u) \in Seq(Upvalue)
    BY <1>t, <2>2, StackPush DEF UpvaluesTyped
  <2>5. UpvaluesTyped'
    BY <1>t, <1>m, <2>3, <2>4 DEF upvalueVars, UpvaluesTyped
  <2> QED BY <2>1, <2>5, TypePartsNext
<1>3. ASSUME ~ InNative, NEW x \in Variable, NEW v \in Value, Declare(x, v) PROVE TypeInv'
  <2>1. /\ StackTyped' /\ Len(stack') = Len(stack) + 1
        /\ UNCHANGED <<frames, natives, upvalues, upvalueVars, seen>>
    BY <1>t, <1>3, DeclareShape
  <2>2. FramesTyped' /\ NativesTyped'
    BY <1>t, <1>b, <1>3, <2>1, FramesStay
  <2>3. UpvaluesTyped'
    BY <1>t, <1>m, <2>1 DEF upvalueVars, UpvaluesTyped
  <2> QED BY <2>1, <2>2, <2>3, TypePartsNext
<1>4. ASSUME NEW n, Leaves(n) PROVE StackTyped' /\ UpvaluesTyped' /\ Len(stack') = n
  <2>1. StackTyped' /\ Len(stack') = n /\ n \in Nat
    BY <1>t, <1>4, LeavingShape
  <2>2. \A u \in Upvalue : location[u] \in 0 .. Len(stack)
    <3> SUFFICES ASSUME NEW u \in Upvalue PROVE location[u] \in 0 .. Len(stack)
      OBVIOUS
    <3>1. DOMAIN owner = 1 .. Len(stack)
      BY <1>t, LenProperties DEF StackTyped
    <3>2. location[u] # 0 => location[u] \in 1 .. Len(stack)
      BY <3>1 DEF VariableInv, UpvaluesKeepTheirVariable
    <3> QED BY <1>b, <3>2
  <2>3. \A u \in Upvalue : location[u] > n => stack[location[u]] \in Value
    <3> SUFFICES ASSUME NEW u \in Upvalue, location[u] > n PROVE stack[location[u]] \in Value
      OBVIOUS
    <3>1. location[u] \in 1 .. Len(stack)
      BY <1>b, <2>1, <2>2
    <3> QED BY <1>t, <3>1, ElementOfSeq DEF StackTyped
  <2>4. location' \in [Upvalue -> Nat] /\ closed' \in [Upvalue -> Value \cup {Dead}]
    BY <1>t, <1>4, <2>3 DEF Leaves, UpvaluesTyped
  <2>5. UpvaluesTyped'
    BY <1>t, <1>m, <1>4, <2>4 DEF Leaves, UpvaluesTyped
  <2> QED BY <2>1, <2>5
<1>5. CASE ~ InNative /\ EndOfScope
  <2>1. /\ Len(stack) > Base /\ Leaves(Len(stack) - 1) /\ frames' = frames
        /\ natives' = natives
    BY <1>t, <1>5, EndOfScopeLeaves
  <2>2. StackTyped' /\ UpvaluesTyped' /\ Len(stack') = Len(stack) - 1
    BY <1>4, <2>1
  <2>3. FramesTyped' /\ NativesTyped'
    <3>1. Len(stack') \in Nat /\ Len(stack') >= Base
      BY <1>b, <2>1, <2>2
    <3> QED BY <1>t, <1>5, <2>1, <3>1, FramesStay
  <2> QED BY <2>2, <2>3, TypePartsNext
<1>6. CASE ~ InNative /\ Return
  <2>1. StackTyped' /\ UpvaluesTyped'
    BY <1>t, <1>4, <1>6, ReturnLeaves
  <2> QED BY <1>t, <1>6, <2>1, ReturnTyped, TypePartsNext
<1>7. CASE Panic
  <2>1. StackTyped' /\ UpvaluesTyped' /\ frames' = <<>> /\ natives' = <<>>
    BY <1>t, <1>4, <1>7, PanicLeaves
  <2>2. Len(frames') = 0 /\ Len(natives') = 0
        /\ frames' \in Seq([base : Nat, closure : Closure]) /\ natives' \in Seq(NativeCall)
    BY <2>1
  <2>3. FramesTyped' /\ NativesTyped'
    BY <2>2, BoundsAssumption DEF FramesTyped, NativesTyped, SlotsTaken
  <2> QED BY <2>1, <2>3, TypePartsNext
<1>8. ASSUME ~ InNative, NEW i \in 1 .. Len(stack), NEW v \in Value, WritesSlot(i, v)
      PROVE  TypeInv'
  <2>1. /\ StackTyped' /\ Len(stack') = Len(stack)
        /\ UNCHANGED <<frames, natives, upvalues, upvalueVars, seen>>
    BY <1>t, <1>8, WriteShape DEF WritesSlot
  <2>2. FramesTyped' /\ NativesTyped'
    BY <1>t, <1>b, <1>8, <2>1, FramesStay
  <2>3. UpvaluesTyped'
    BY <1>t, <1>m, <2>1 DEF upvalueVars, UpvaluesTyped
  <2> QED BY <2>1, <2>2, <2>3, TypePartsNext
<1>9. ASSUME NEW u \in Upvalue, NEW v \in Value, WritesClosed(u, v) PROVE TypeInv'
  <2>1. StackTyped' /\ FramesTyped' /\ NativesTyped'
    BY <1>t, <1>9 DEF WritesClosed, StackTyped, FramesTyped, NativesTyped, SlotsTaken, stackVars
  <2>2. UpvaluesTyped'
    BY <1>t, <1>m, <1>9 DEF WritesClosed, UpvaluesTyped
  <2> QED BY <2>1, <2>2, TypePartsNext
<1>10. ASSUME NEW w \in Value \cup {Dead}, Reads(w) PROVE TypeInv'
  <2>1. StackTyped' /\ FramesTyped' /\ NativesTyped'
    BY <1>t, <1>10 DEF Reads, StackTyped, FramesTyped, NativesTyped, SlotsTaken, stackVars
  <2>2. UpvaluesTyped'
    BY <1>t, <1>m, <1>10 DEF Reads, UpvaluesTyped, upvalueVars
  <2> QED BY <2>1, <2>2, TypePartsNext
<1>11. ASSUME NEW c \in Closure, Call(c) PROVE TypeInv'
  <2>1. FramesTyped' /\ NativesTyped'
    BY <1>t, <1>11, CallTyped
  <2>2. StackTyped' /\ UpvaluesTyped'
    BY <1>t, <1>m, <1>11 DEF Call, StackTyped, UpvaluesTyped, stackVars, upvalueVars
  <2> QED BY <2>1, <2>2, TypePartsNext
<1>12. ASSUME ~ InNative, NEW slot \in 0 .. Len(stack), Takes(slot) PROVE TypeInv'
  <2>1. StackTyped' /\ FramesTyped' /\ NativesTyped'
    BY <1>t, <1>12, TakesTyped
  <2>2. UpvaluesTyped'
    BY <1>t, <1>m, <1>12 DEF Takes, UpvaluesTyped, upvalueVars
  <2> QED BY <2>1, <2>2, TypePartsNext
<1>13. CASE Gives
  <2>1. StackTyped' /\ FramesTyped' /\ NativesTyped'
    BY <1>t, <1>13, GivesTyped
  <2>2. UpvaluesTyped'
    BY <1>t, <1>m, <1>13 DEF Gives, UpvaluesTyped, upvalueVars
  <2> QED BY <2>1, <2>2, TypePartsNext
<1> QED BY <1>1, <1>2, <1>3, <1>5, <1>6, <1>7, <1>8, <1>9, <1>10, <1>11, <1>12, <1>13,
           StepShape DEF Step

\* A step keeps the list sorted and complete.
LEMMA ListStep ==
    ASSUME VariableInv, ~ OpenAtPanic, ~ OpenBelow, [Next]_vars
    PROVE  ListInv'
<1>1. ListInv /\ TypeInv
  BY DEF VariableInv, ListInv
<1>2. ASSUME open' = open, location' = location PROVE Sorted' /\ Listed'
  BY <1>1, <1>2 DEF ListInv, Sorted, Listed
<1>n. ASSUME location' = location, natives' = natives PROVE TakenApart'
  BY <1>1, <1>n DEF ListInv, TakenApart
<1>3. ASSUME NEW n, Leaves(n) PROVE Sorted' /\ Listed' /\ TakenApart'
  <2>1. Sorted' /\ Listed'
    BY <1>3 DEF Leaves
  <2>2. natives' = natives \/ Len(natives') = 0
    BY <1>3 DEF Leaves
  <2>3. \A u \in Upvalue : location'[u] \in {0, location[u]}
    BY <1>3 DEF Leaves
  <2> QED BY <1>1, <2>1, <2>2, <2>3 DEF ListInv, TakenApart
<1>4. ASSUME ~ InNative, NEW c \in Closure, NEW slot \in 1 .. Len(stack), NEW u \in Upvalue,
             TakesLocal(c, slot, u)
      PROVE  Sorted' /\ Listed' /\ TakenApart'
  <2>1. slot > Base /\ natives' = natives
    BY <1>4 DEF TakesLocal
  <2>2. CASE UNCHANGED upvalueVars
    BY <1>2, <1>n, <2>1, <2>2 DEF upvalueVars
  <2>3. CASE Captures(slot, u)
    <3>1. Sorted' /\ Listed' /\ location' = [location EXCEPT ![u] = slot]
      BY <2>3 DEF Captures
    <3>2. \A v \in Upvalue : location'[v] = IF v = u THEN slot ELSE location[v]
      BY <1>1, <3>1, TypeParts DEF UpvaluesTyped
    <3>3. \A i \in 1 .. Len(natives) : natives[i].slot # slot
      <4> SUFFICES ASSUME NEW i \in 1 .. Len(natives), natives[i].slot = slot PROVE FALSE
        OBVIOUS
      <4>1. natives[i].slot <= Base /\ Base \in Nat /\ Len(stack) \in Nat
        BY <1>1, <1>4, TakenBelow, BaseIs
      <4> QED BY <2>1, <4>1
    <3> QED BY <1>1, <2>1, <3>1, <3>2, <3>3 DEF ListInv, TakenApart
  <2> QED BY <1>4, <2>2, <2>3 DEF TakesLocal
<1>5. ASSUME NEW slot, Takes(slot) PROVE Sorted' /\ Listed' /\ TakenApart'
  <2>1. /\ open' = open /\ location' = location /\ Len(natives') = Len(natives) + 1
        /\ \A i \in 1 .. Len(natives) : natives'[i] = natives[i]
        /\ natives'[Len(natives) + 1].slot = slot
        /\ slot # 0 => \A u \in Upvalue : location[u] # slot
    BY <1>5 DEF Takes, upvalueVars
  <2>2. \A i \in 1 .. Len(natives) + 1 : i \in 1 .. Len(natives) \/ i = Len(natives) + 1
    BY <1>1, NativeIs
  <2>3. TakenApart'
    BY <1>1, <2>1, <2>2 DEF ListInv, TakenApart
  <2> QED BY <1>2, <2>1, <2>3
<1>6. ASSUME Gives PROVE Sorted' /\ Listed' /\ TakenApart'
  <2>1. open' = open /\ location' = location
    BY <1>6 DEF Gives, upvalueVars
  <2>2. Len(natives') = Len(natives) - 1 /\ \A i \in 1 .. Len(natives) - 1 : natives'[i] = natives[i]
    BY <1>6 DEF Gives
  <2>3. \A i \in 1 .. Len(natives) - 1 : i \in 1 .. Len(natives)
    BY <1>1, NativeIs
  <2>4. TakenApart'
    BY <1>1, <2>1, <2>2, <2>3 DEF ListInv, TakenApart
  <2> QED BY <1>2, <2>1, <2>4
<1>7. ASSUME EndOfScope \/ Return \/ Panic PROVE Sorted' /\ Listed' /\ TakenApart'
  BY <1>1, <1>3, <1>7, EndOfScopeLeaves, ReturnLeaves, PanicLeaves
<1>8. ASSUME open' = open, location' = location, natives' = natives
      PROVE  Sorted' /\ Listed' /\ TakenApart'
  BY <1>2, <1>8, <1>n
<1>9. Sorted' /\ Listed' /\ TakenApart'
  BY <1>4, <1>5, <1>6, <1>7, <1>8, StepShape
     DEF Step, CaptureOuter, Declare, WritesSlot, WritesClosed, Reads, Call, upvalueVars
<1> QED BY <1>9, TypeStep DEF ListInv

-----------------------------------------------------------------------------
(***************************************************************************)
(* Every variable has one place.                                           *)
(***************************************************************************)
\* UpvaluesKeepTheirVariable, over the positions of slots.
Kept ==
    /\ \A u \in Upvalue : location[u] # 0 => /\ location[u] \in 1 .. Len(owner)
                                             /\ owner[location[u]] = meaning[u]
    /\ \A u \in Upvalue : \A i \in 1 .. Len(owner) : owner[i] = meaning[u] => location[u] # 0

\* It follows from the invariant ...
LEMMA KeptIs ==
    ASSUME VariableInv
    PROVE  Kept
<1>1. DOMAIN owner = 1 .. Len(owner) /\ \A i \in 1 .. Len(owner) : owner[i] \in Variable
  BY TypeParts, LenProperties, ElementOfSeq DEF VariableInv, ListInv, StackTyped
<1>2. ASSUME NEW u \in Upvalue, NEW i \in 1 .. Len(owner), owner[i] = meaning[u]
      PROVE  location[u] # 0
  <2>1. meaning[u] # Dead /\ InSeq(meaning[u], owner)
    BY <1>1, <1>2, DeadAssumption DEF InSeq
  <2> QED BY <2>1 DEF VariableInv, UpvaluesKeepTheirVariable
<1> QED BY <1>1, <1>2 DEF Kept, VariableInv, UpvaluesKeepTheirVariable

\* ... and gives the property back.
LEMMA KeptNext ==
    ASSUME TypeInv', Kept'
    PROVE  UpvaluesKeepTheirVariable'
<1>1. DOMAIN owner' = 1 .. Len(owner')
  BY LenProperties DEF TypeInv, TypeOK
<1>2. ASSUME NEW u \in Upvalue, InSeq(meaning[u], owner)' PROVE location'[u] # 0
  <2>1. PICK i \in 1 .. Len(owner') : owner'[i] = meaning'[u]
    BY <1>1, <1>2 DEF InSeq
  <2> QED BY <2>1 DEF Kept
<1> QED BY <1>1, <1>2 DEF Kept, UpvaluesKeepTheirVariable

\* What the list and the history say of each variable.
VariablesApart == OneSlotEach /\ OneUpvalueEach /\ Referred /\ Kept

\* An open upvalue's slot is its variable's, and an upvalue whose variable has left is closed.
LEMMA TypedMeaning ==
    ASSUME VariableInv
    PROVE  /\ TypeInv /\ ListInv /\ StackTyped /\ UpvaluesTyped /\ VariablesApart
           /\ \A i \in 1 .. Len(owner) : owner[i] \in Variable
           /\ \A u \in Upvalue : location[u] \in Nat
BY KeptIs, TypeParts, ElementOfSeq
   DEF VariableInv, ListInv, VariablesApart, StackTyped, UpvaluesTyped

\* What is captured once more is captured already.
LEMMA ReferredMore ==
    ASSUME UpvaluesTyped, Referred, NEW c \in Closure, NEW u \in Upvalue,
           upvalues' = [upvalues EXCEPT ![c] = Append(@, u)],
           \A w \in Upvalue \ {u} : meaning'[w] = meaning[w],
           meaning'[u] # Dead
    PROVE  Referred'
<1>1. upvalues[c] \in Seq(Upvalue)
  BY DEF UpvaluesTyped
<1>2. /\ Append(upvalues[c], u) \in Seq(Upvalue)
      /\ Len(Append(upvalues[c], u)) = Len(upvalues[c]) + 1
      /\ Append(upvalues[c], u)[Len(upvalues[c]) + 1] = u
      /\ \A i \in 1 .. Len(upvalues[c]) : Append(upvalues[c], u)[i] = upvalues[c][i]
      /\ Len(upvalues[c]) \in Nat
  BY <1>1, StackPush, LenProperties
<1>3. ASSUME NEW w \in Upvalue
      PROVE  InSeq(w, upvalues'[c]) <=> w = u \/ InSeq(w, upvalues[c])
  <2> DEFINE s == upvalues[c]
             t == Append(s, u)
  <2>1. upvalues'[c] = t
    BY DEF UpvaluesTyped
  <2>2. /\ Len(t) = Len(s) + 1 /\ t[Len(s) + 1] = u /\ Len(s) \in Nat
        /\ \A i \in 1 .. Len(s) : t[i] = s[i]
        /\ DOMAIN s = 1 .. Len(s) /\ DOMAIN t = 1 .. Len(t)
    BY <1>1, <1>2, LenProperties
  <2> HIDE DEF s, t
  <2>3. InSeq(w, t) <=> w = u \/ InSeq(w, s)
    <3>1. \A i \in 1 .. Len(t) : i \in 1 .. Len(s) \/ i = Len(s) + 1
      BY <2>2
    <3>2. Len(s) + 1 \in 1 .. Len(t) /\ \A i \in 1 .. Len(s) : i \in 1 .. Len(t)
      BY <2>2
    <3> QED BY <2>2, <3>1, <3>2 DEF InSeq
  <2> QED BY <2>1, <2>3 DEF s
<1>4. \A d \in Closure \ {c} : upvalues'[d] = upvalues[d]
  BY DEF UpvaluesTyped
<1>5. ASSUME NEW w \in Upvalue
      PROVE  meaning'[w] # Dead <=> \E d \in Closure : InSeq(w, upvalues'[d])
  <2>1. CASE w = u
    BY <1>3, <2>1
  <2>2. CASE w # u
    <3>1. \A d \in Closure : InSeq(w, upvalues'[d]) <=> InSeq(w, upvalues[d])
      BY <1>3, <1>4, <2>2
    <3> QED BY <2>2, <3>1 DEF Referred
  <2> QED BY <2>1, <2>2
<1>6. Referred' <=> \A w \in Upvalue : meaning'[w] # Dead <=>
                       \E d \in Closure : InSeq(w, upvalues'[d])
  BY DEF Referred, InSeq
<1> QED BY <1>5, <1>6

\* A step keeps variables apart.
LEMMA ApartStep ==
    ASSUME VariableInv, ~ OpenAtPanic, ~ OpenBelow, [Next]_vars
    PROVE  VariablesApart'
<1>t. /\ TypeInv /\ ListInv /\ StackTyped /\ UpvaluesTyped /\ VariablesApart
      /\ \A i \in 1 .. Len(owner) : owner[i] \in Variable
      /\ \A u \in Upvalue : location[u] \in Nat
  BY TypedMeaning
<1>s. ASSUME owner' = owner, location' = location, meaning' = meaning, upvalues' = upvalues
      PROVE  VariablesApart'
  BY <1>t, <1>s DEF VariablesApart, OneSlotEach, OneUpvalueEach, Referred, Kept, InSeq
<1>1. ASSUME NEW c \in Closure, NEW slot \in 1 .. Len(stack), NEW u \in Upvalue,
             TakesLocal(c, slot, u)
      PROVE  VariablesApart'
  <2>1. /\ upvalues' = [upvalues EXCEPT ![c] = Append(@, u)] /\ owner' = owner
        /\ slot \in 1 .. Len(owner) /\ slot # 0
    BY <1>t, <1>1 DEF TakesLocal, stackVars, StackTyped
  <2>2. CASE location[u] = slot /\ UNCHANGED upvalueVars
    <3>1. location' = location /\ meaning' = meaning
      BY <2>2 DEF upvalueVars
    <3>2. meaning'[u] # Dead
      BY <1>t, <2>1, <2>2, <3>1, DeadAssumption DEF VariablesApart, Kept
    <3>3. Referred'
      BY <1>t, <2>1, <3>1, <3>2, ReferredMore DEF VariablesApart
    <3> QED BY <1>t, <2>1, <3>1, <3>3 DEF VariablesApart, OneSlotEach, OneUpvalueEach, Kept
  <2>3. CASE Captures(slot, u)
    <3>1. /\ meaning[u] = Dead /\ \A v \in Upvalue : location[v] # slot
          /\ location'[u] = slot /\ \A v \in Upvalue \ {u} : location'[v] = location[v]
          /\ meaning'[u] = owner[slot] /\ \A v \in Upvalue \ {u} : meaning'[v] = meaning[v]
      BY <1>t, <2>3 DEF Captures, UpvaluesTyped
    <3>2. ASSUME NEW v \in Upvalue, meaning[v] = owner[slot] PROVE FALSE
      <4>1. location[v] # 0
        BY <1>t, <2>1, <3>2 DEF VariablesApart, Kept
      <4>2. location[v] \in 1 .. Len(owner) /\ owner[location[v]] = owner[slot]
        BY <1>t, <3>2, <4>1 DEF VariablesApart, Kept
      <4>3. location[v] = slot
        BY <1>t, <2>1, <4>2 DEF VariablesApart, OneSlotEach
      <4> QED BY <3>1, <4>3
    <3>3. owner[slot] # Dead
      BY <1>t, <2>1, DeadAssumption
    <3>4. OneSlotEach'
      BY <1>t, <2>1 DEF VariablesApart, OneSlotEach
    <3>5. OneUpvalueEach'
      <4>1. \A v, w \in Upvalue : meaning'[v] = meaning'[w] /\ meaning'[v] # Dead => v = w
        BY <1>t, <3>1, <3>2 DEF VariablesApart, OneUpvalueEach
      <4> QED BY <4>1 DEF OneUpvalueEach
    <3>6. Referred'
      BY <1>t, <2>1, <3>1, <3>3, ReferredMore DEF VariablesApart
    <3>7. Kept'
      <4>1. \A v \in Upvalue : location'[v] # 0 => /\ location'[v] \in 1 .. Len(owner)
                                                   /\ owner[location'[v]] = meaning'[v]
        BY <1>t, <2>1, <3>1 DEF VariablesApart, Kept
      <4>2. \A v \in Upvalue : \A i \in 1 .. Len(owner) :
               owner[i] = meaning'[v] => location'[v] # 0
        BY <1>t, <2>1, <3>1 DEF VariablesApart, Kept
      <4> QED BY <2>1, <4>1, <4>2 DEF Kept
    <3> QED BY <3>4, <3>5, <3>6, <3>7 DEF VariablesApart
  <2> QED BY <1>1, <2>2, <2>3 DEF TakesLocal
<1>2. ASSUME NEW c \in Closure, frames # <<>>, NEW index \in DOMAIN upvalues[Running],
             CaptureOuter(c, index)
      PROVE  VariablesApart'
  <2> DEFINE u == upvalues[Running][index]
  <2>1. /\ upvalues' = [upvalues EXCEPT ![c] = Append(@, u)]
        /\ owner' = owner /\ location' = location /\ meaning' = meaning
    BY <1>2 DEF CaptureOuter, stackVars, upvalueVars
  <2>2. u \in Upvalue /\ meaning[u] # Dead
    BY <1>2, RunningUpvalue
  <2> HIDE DEF u
  <2>3. Referred'
    BY <1>t, <2>1, <2>2, ReferredMore DEF VariablesApart
  <2> QED BY <1>t, <2>1, <2>3 DEF VariablesApart, OneSlotEach, OneUpvalueEach, Kept
<1>3. ASSUME NEW x \in Variable, NEW v \in Value, Declare(x, v) PROVE VariablesApart'
  <2> DEFINE n == Len(owner)
  <2>1. /\ Len(owner') = n + 1 /\ owner'[n + 1] = x /\ n \in Nat
        /\ \A i \in 1 .. n : owner'[i] = owner[i] /\ owner[i] # x
        /\ \A u \in Upvalue : meaning[u] # x
        /\ location' = location /\ meaning' = meaning /\ upvalues' = upvalues
    BY <1>t, <1>3, DeclareShape DEF StackTyped, upvalueVars
  <2>n. n = Len(owner)
    OBVIOUS
  <2> HIDE DEF n
  <2>2. \A i \in 1 .. n + 1 : i \in 1 .. n \/ i = n + 1
    BY <2>1
  <2>3. OneSlotEach'
    <3>1. \A i, j \in 1 .. n + 1 : owner'[i] = owner'[j] => i = j
      BY <1>t, <2>1, <2>2, <2>n DEF VariablesApart, OneSlotEach
    <3> QED BY <2>1, <3>1 DEF OneSlotEach
  <2>4. Kept'
    <3>1. \A u \in Upvalue : location'[u] # 0 => /\ location'[u] \in 1 .. n + 1
                                                 /\ owner'[location'[u]] = meaning'[u]
      <4> SUFFICES ASSUME NEW u \in Upvalue, location[u] # 0
                   PROVE  location[u] \in 1 .. n + 1 /\ owner'[location[u]] = meaning[u]
        BY <2>1
      <4>1. location[u] \in 1 .. n /\ owner[location[u]] = meaning[u]
        BY <1>t, <2>n DEF VariablesApart, Kept
      <4> QED BY <2>1, <4>1
    <3>2. \A u \in Upvalue : \A i \in 1 .. n + 1 : owner'[i] = meaning'[u] => location'[u] # 0
      BY <1>t, <2>1, <2>2, <2>n DEF VariablesApart, Kept
    <3> QED BY <2>1, <3>1, <3>2 DEF Kept
  <2>5. OneUpvalueEach' /\ Referred'
    BY <1>t, <2>1 DEF VariablesApart, OneUpvalueEach, Referred, InSeq
  <2> QED BY <2>3, <2>4, <2>5 DEF VariablesApart
<1>4. ASSUME NEW n, Leaves(n) PROVE VariablesApart'
  <2>1. /\ n \in Nat /\ n <= Len(owner) /\ Len(owner) \in Nat /\ Len(owner') = n
        /\ \A i \in 1 .. n : owner'[i] = owner[i] /\ i \in 1 .. Len(owner)
    BY <1>t, <1>4, LeavingShape DEF StackTyped
  <2>2. /\ \A u \in Upvalue : location'[u] = IF location[u] > n THEN 0 ELSE location[u]
        /\ meaning' = meaning /\ upvalues' = upvalues
    BY <1>4 DEF Leaves
  <2>3. OneSlotEach'
    BY <1>t, <2>1 DEF VariablesApart, OneSlotEach
  <2>4. OneUpvalueEach' /\ Referred'
    BY <1>t, <2>2 DEF VariablesApart, OneUpvalueEach, Referred, InSeq
  <2>5. \A u \in Upvalue : location'[u] # 0 => /\ location'[u] \in 1 .. n
                                               /\ owner'[location'[u]] = meaning'[u]
    <3> SUFFICES ASSUME NEW u \in Upvalue, location'[u] # 0
                 PROVE  location'[u] \in 1 .. n /\ owner'[location'[u]] = meaning'[u]
      OBVIOUS
    <3>1. location'[u] = location[u] /\ location[u] # 0 /\ ~ (location[u] > n)
      BY <2>2
    <3>2. location[u] \in 1 .. Len(owner) /\ owner[location[u]] = meaning[u]
      BY <1>t, <3>1 DEF VariablesApart, Kept
    <3>3. location[u] \in 1 .. n
      BY <2>1, <3>1, <3>2
    <3> QED BY <2>1, <2>2, <3>1, <3>2, <3>3
  <2>6. \A u \in Upvalue : \A i \in 1 .. n : owner'[i] = meaning'[u] => location'[u] # 0
    <3> SUFFICES ASSUME NEW u \in Upvalue, NEW i \in 1 .. n, owner[i] = meaning[u]
                 PROVE  location'[u] # 0
      BY <2>1, <2>2
    <3>1. location[u] # 0 /\ i \in 1 .. Len(owner)
      BY <1>t, <2>1 DEF VariablesApart, Kept
    <3>2. location[u] \in 1 .. Len(owner) /\ owner[location[u]] = owner[i]
      BY <1>t, <3>1 DEF VariablesApart, Kept
    <3>3. location[u] = i
      BY <1>t, <3>1, <3>2 DEF VariablesApart, OneSlotEach
    <3> QED BY <2>1, <2>2, <3>1, <3>3
  <2>7. Kept'
    BY <2>1, <2>5, <2>6 DEF Kept
  <2> QED BY <2>3, <2>4, <2>7 DEF VariablesApart
<1>5. CASE EndOfScope \/ Return \/ Panic
  BY <1>t, <1>4, <1>5, EndOfScopeLeaves, ReturnLeaves, PanicLeaves
<1>6. ASSUME NEW i \in 1 .. Len(stack), NEW v \in Value, WritesSlot(i, v) PROVE VariablesApart'
  BY <1>s, <1>6 DEF WritesSlot, upvalueVars
<1>7. ASSUME NEW u \in Upvalue, NEW v \in Value, WritesClosed(u, v) PROVE VariablesApart'
  BY <1>s, <1>7 DEF WritesClosed, stackVars
<1>8. ASSUME NEW w, Reads(w) PROVE VariablesApart'
  BY <1>s, <1>8 DEF Reads, stackVars, upvalueVars
<1>9. ASSUME (\E c : Call(c)) \/ (\E slot : Takes(slot)) \/ Gives PROVE VariablesApart'
  BY <1>s, <1>9 DEF Call, Takes, Gives, stackVars, upvalueVars
<1> QED BY <1>1, <1>2, <1>3, <1>5, <1>6, <1>7, <1>8, <1>9, StepShape DEF Step

\* The invariant is inductive ...
LEMMA VariableInvInductive ==
    ASSUME VariableInv, ~ OpenAtPanic, ~ OpenBelow, [Next]_vars
    PROVE  VariableInv'
BY ListStep, ApartStep, KeptNext DEF VariableInv, ListInv, VariablesApart

\* ... and holds at first.
LEMMA VariableInvInitial ==
    ASSUME Init
    PROVE  VariableInv
<1>1. /\ Len(stack) = 0 /\ Len(frames) = 0 /\ Len(natives) = 0 /\ Len(open) = 0 /\ Len(owner) = 0
      /\ DOMAIN owner = {} /\ DOMAIN open = {} /\ \A c \in Closure : DOMAIN upvalues[c] = {}
  BY DEF Init
<1>2. TypeOK
  BY <1>1, BoundsAssumption DEF Init, TypeOK
<1>3. TypeInv
  BY <1>1, <1>2 DEF TypeInv, Nested, SlotsTaken
<1>4. Sorted /\ Listed /\ TakenApart
  BY <1>1 DEF Init, Sorted, Listed, TakenApart, InSeq
<1>5. UpvaluesKeepTheirVariable /\ OneSlotEach /\ OneUpvalueEach /\ Referred
  BY <1>1 DEF Init, UpvaluesKeepTheirVariable, OneSlotEach, OneUpvalueEach, Referred, InSeq
<1> QED BY <1>3, <1>4, <1>5 DEF VariableInv, ListInv

\* The inductive invariant holds in every execution in which no panic comes while
\* an upvalue is open and no method takes the slot of one (TLC shows both fail).
THEOREM VariableInvHolds ==
    ASSUME ~ OpenAtPanic, ~ OpenBelow
    PROVE  Spec => []VariableInv
BY VariableInvInitial, VariableInvInductive, PTL DEF Spec

\* Whatever is called, captured and returned, an open upvalue points to the slot
\* of the variable it was made for, and once the variable has left the stack its
\* upvalue is closed (capture_upvalue and close_upvalues, vm_helpers.c).
THEOREM ClosuresKeepTheirVariables ==
    ASSUME ~ OpenAtPanic, ~ OpenBelow
    PROVE  Spec => []UpvaluesAreSound
<1>1. VariableInv => UpvaluesAreSound
  BY DEF VariableInv, ListInv, TypeInv, UpvaluesAreSound
<1> QED BY <1>1, VariableInvHolds, PTL

-----------------------------------------------------------------------------
(***************************************************************************)
(* Runs of the interpreter end with their frames.                          *)
(***************************************************************************)
\* Between two natives, and above the last, is one frame at most: that of the
\* function the native called.
OneFrameEach ==
    /\ natives # <<>> => Len(frames) <= natives[Len(natives)].frames + 1
    /\ \A i \in 2 .. Len(natives) : natives[i].frames <= natives[i - 1].frames + 1

\* It takes CallbacksCall to be false: a frame called by a callback would have no
\* native of its own.
LEMMA OneFrameEachInductive ==
    ASSUME VariableInv, OneFrameEach, ~ OpenAtPanic, ~ OpenBelow, ~ CallbacksCall, [Next]_vars
    PROVE  OneFrameEach'
<1>t. /\ TypeInv /\ ListInv /\ Len(frames) \in Nat /\ Len(natives) \in Nat
      /\ frames \in Seq([base : Nat, closure : Closure])
      /\ \A i \in 1 .. Len(natives) : natives[i].frames \in 0 .. Len(frames)
      /\ natives # <<>> => Len(natives) \in 1 .. Len(natives)
      /\ InNative <=> natives # <<>> /\ natives[Len(natives)].frames = Len(frames)
  BY NativeIs, TypeParts DEF VariableInv, ListInv, FramesTyped
<1>s. CASE frames' = frames /\ natives' = natives
  BY <1>s DEF OneFrameEach
<1>1. ASSUME InNative \/ natives = <<>>, NEW c \in Closure, Call(c) PROVE OneFrameEach'
  <2>1. Len(frames') = Len(frames) + 1 /\ natives' = natives
    BY <1>t, <1>1, CallTyped DEF Call
  <2> QED BY <1>t, <1>1, <2>1 DEF OneFrameEach
<1>2. CASE ~ InNative /\ Return
  <2>1. natives' = natives
    BY <1>t, <1>2, ReturnLeaves
  <2>2. CASE natives = <<>>
    BY <1>t, <2>1, <2>2 DEF OneFrameEach
  <2>3. CASE natives # <<>>
    <3>1. frames' = SubSeq(frames, 1, natives[Len(natives)].frames)
      BY <1>t, <1>2, <2>3, ReturnLeaves
    <3>2. Len(frames') = natives[Len(natives)].frames /\ natives[Len(natives)].frames \in Nat
      BY <1>t, <2>3, <3>1, Prefix
    <3> QED BY <2>1, <3>2 DEF OneFrameEach
  <2> QED BY <2>2, <2>3
<1>3. CASE Panic
  <2>1. natives' = <<>> /\ Len(natives') = 0
    BY <1>t, <1>3, PanicLeaves
  <2> QED BY <2>1 DEF OneFrameEach
<1>4. CASE EndOfScope
  BY <1>s, <1>t, <1>4, EndOfScopeLeaves
<1>5. ASSUME NEW slot, Takes(slot) PROVE OneFrameEach'
  <2> DEFINE m == Len(natives)
             l == Len(natives')
  <2>1. /\ l = m + 1 /\ frames' = frames
        /\ \A i \in 1 .. m : natives'[i] = natives[i]
        /\ natives'[m + 1].frames = Len(frames)
    BY <1>5 DEF Takes
  <2>2. Len(frames') <= natives'[l].frames + 1
    BY <1>t, <2>1
  <2>3. ASSUME NEW i \in 2 .. m + 1 PROVE natives'[i].frames <= natives'[i - 1].frames + 1
    <3>1. i - 1 \in 1 .. m /\ (i \in 2 .. m \/ i = m + 1)
      BY <1>t
    <3>2. CASE i \in 2 .. m
      <4>1. i \in 1 .. m
        BY <3>2
      <4> QED BY <2>1, <3>1, <3>2, <4>1 DEF OneFrameEach
    <3>3. CASE i = m + 1
      <4>1. natives # <<>> /\ i - 1 = m
        BY <1>t, <3>1, <3>3
      <4> QED BY <2>1, <3>1, <3>3, <4>1 DEF OneFrameEach
    <3> QED BY <3>1, <3>2, <3>3
  <2> QED BY <2>1, <2>2, <2>3 DEF OneFrameEach
<1>6. CASE InNative /\ Gives
  <2> DEFINE m == Len(natives)
  <2>1. /\ Len(natives') = m - 1 /\ frames' = frames /\ m \in 1 .. m
        /\ natives[m].frames = Len(frames)
        /\ natives' \in Seq(NativeCall)
        /\ \A i \in 1 .. m - 1 : natives'[i] = natives[i]
    BY <1>t, <1>6 DEF Gives
  <2>2. ASSUME natives' # <<>> PROVE Len(frames') <= natives'[m - 1].frames + 1
    <3>1. m - 1 \in 1 .. m - 1 /\ m \in 2 .. m
      BY <1>t, <2>1, <2>2, StackTop
    <3> QED BY <2>1, <3>1 DEF OneFrameEach
  <2>3. ASSUME NEW i \in 2 .. m - 1 PROVE natives'[i].frames <= natives'[i - 1].frames + 1
    <3>1. i \in 1 .. m - 1 /\ i - 1 \in 1 .. m - 1 /\ i \in 2 .. m
      BY <1>t
    <3> QED BY <2>1, <3>1 DEF OneFrameEach
  <2> QED BY <2>1, <2>2, <2>3 DEF OneFrameEach
<1> QED BY <1>s, <1>1, <1>2, <1>3, <1>4, <1>5, <1>6, StepShape
        DEF Step, TakesLocal, CaptureOuter, Declare, WritesSlot, WritesClosed, Reads

\* At first there are no natives.
LEMMA OneFrameEachInitial ==
    ASSUME Init
    PROVE  OneFrameEach
<1>1. natives = <<>> /\ Len(natives) = 0
  BY DEF Init
<1> QED BY <1>1 DEF OneFrameEach

\* While callbacks call nothing, every native that waits for a function waits for
\* the one frame above it.
THEOREM OneFrameEachHolds ==
    ASSUME ~ OpenAtPanic, ~ OpenBelow, ~ CallbacksCall
    PROVE  Spec => [](VariableInv /\ OneFrameEach)
BY OneFrameEachInitial, OneFrameEachInductive, VariableInvInitial, VariableInvInductive,
   PTL DEF Spec

\* A nested run that ends at a return ends with the frame the native called, and
\* its locals go (run and execute_callable, vm_run.c).
THEOREM NestedRunsEndWithTheirFrame ==
    ASSUME ~ OpenAtPanic, ~ OpenBelow, ~ CallbacksCall
    PROVE  Spec => RunsEndWithTheirFrame
<1> DEFINE n == Sq!Last(natives).frames
           Ends == natives' = natives /\ InNative' /\ ~ InNative =>
                      Len(frames) = n + 1 /\ Len(stack') = frames[n + 1].base
<1>1. ASSUME VariableInv, OneFrameEach, [Next]_vars, natives' = natives, InNative', ~ InNative
      PROVE  Len(frames) = n + 1 /\ Len(stack') = frames[n + 1].base
  <2>t. /\ TypeInv /\ ListInv /\ Len(frames) \in Nat /\ Len(natives) \in Nat
    BY <1>1, NativeIs DEF VariableInv, ListInv
  <2>2. /\ natives # <<>> /\ n = natives[Len(natives)].frames /\ n < Len(frames)
        /\ Len(frames') = n /\ n \in Nat
    <3>1. natives # <<>> /\ Len(frames') = n
      BY <1>1 DEF InNative
    <3>2. n = natives[Len(natives)].frames
      BY DEF Sq!Last
    <3> HIDE DEF n
    <3>3. n \in 0 .. Len(frames) /\ n < Len(frames)
      BY <1>1, <2>t, <3>1, <3>2, NativeIs, TakenBelow
    <3> QED BY <2>t, <3>1, <3>2, <3>3
  <2> HIDE DEF n
  <2>1. Return
    <3>1. frames' # frames
      BY <2>2
    <3>2. ASSUME NEW c \in Closure, Call(c) PROVE FALSE
      <4>1. Len(frames') = Len(frames) + 1
        BY <2>t, <3>2, CallTyped
      <4> QED BY <2>t, <2>2, <4>1
    <3>3. ASSUME Panic PROVE FALSE
      BY <1>1, <2>t, <2>2, <3>3, PanicLeaves
    <3>4. ASSUME EndOfScope PROVE FALSE
      BY <2>t, <3>1, <3>4, EndOfScopeLeaves
    <3> QED BY <1>1, <3>1, <3>2, <3>3, <3>4, StepShape
            DEF Step, TakesLocal, CaptureOuter, Declare, WritesSlot, WritesClosed, Reads,
                Takes, Gives
  <2>3. Len(frames) = n + 1
    BY <1>1, <2>t, <2>2 DEF OneFrameEach
  <2>5. frames # <<>> /\ Leaves(Base)
    BY <2>t, <2>1, ReturnLeaves
  <2>6. Len(stack') = Base
    BY <2>t, <2>5, LeavingShape
  <2>7. Base = frames[Len(frames)].base
    BY <2>t, <2>5, BaseIs
  <2> QED BY <2>3, <2>6, <2>7
<1>2. VariableInv /\ OneFrameEach /\ [Next]_vars => [Ends]_vars
  BY <1>1
<1> QED BY <1>2, OneFrameEachHolds, PTL DEF RunsEndWithTheirFrame, Spec

-----------------------------------------------------------------------------
(***************************************************************************)
(* The refinement of Variables: the slots, the store and what closures     *)
(* refer to.                                                               *)
(***************************************************************************)
\* The values of the slots, as a function of the stack and the natives.
OriginalOf(st, nat) ==
    LET Takers(i) == {n \in DOMAIN nat : nat[n].slot = i}
    IN  [i \in DOMAIN st |->
           IF Takers(i) = {} THEN st[i] ELSE nat[CHOOSE n \in Takers(i) : TRUE].original]

\* A slot that no native took has its own value, one that a native took has the
\* value that it saved.
GivenBack(o, st, nat) ==
    /\ \A i \in 1 .. Len(st) : (\A n \in 1 .. Len(nat) : nat[n].slot # i) => o[i] = st[i]
    /\ \A n \in 1 .. Len(nat) :
          nat[n].slot \in 1 .. Len(st) => o[nat[n].slot] = nat[n].original

LEMMA OriginalHolds ==
    ASSUME NEW S, NEW st \in Seq(S), NEW nat \in Seq(NativeCall),
           \A i, j \in 1 .. Len(nat) : nat[i].slot = nat[j].slot /\ nat[i].slot # 0 => i = j
    PROVE  GivenBack(OriginalOf(st, nat), st, nat)
<1> DEFINE Takers(i) == {n \in 1 .. Len(nat) : nat[n].slot = i}
<1>1. DOMAIN st = 1 .. Len(st) /\ DOMAIN nat = 1 .. Len(nat)
  BY LenProperties
<1>2. \A i \in 1 .. Len(st) :
         OriginalOf(st, nat)[i] = IF Takers(i) = {} THEN st[i]
                                  ELSE nat[CHOOSE n \in Takers(i) : TRUE].original
  BY <1>1 DEF OriginalOf
<1>3. ASSUME NEW n \in 1 .. Len(nat), nat[n].slot \in 1 .. Len(st)
      PROVE  OriginalOf(st, nat)[nat[n].slot] = nat[n].original
  <2> DEFINE slot == nat[n].slot
             m == CHOOSE k \in Takers(slot) : TRUE
  <2>1. n \in Takers(slot) /\ slot # 0
    BY <1>3
  <2>2. m \in Takers(slot)
    BY <2>1
  <2> HIDE DEF m
  <2>3. m = n
    BY <2>1, <2>2
  <2>4. OriginalOf(st, nat)[slot] = nat[m].original
    BY <1>2, <1>3, <2>1 DEF m
  <2> QED BY <2>3, <2>4
<1>4. \A i \in 1 .. Len(st) :
         (\A n \in 1 .. Len(nat) : nat[n].slot # i) => OriginalOf(st, nat)[i] = st[i]
  BY <1>2
<1> QED BY <1>3, <1>4 DEF GivenBack

\* Before and after a step.
LEMMA OriginalNow ==
    ASSUME TypeInv
    PROVE  GivenBack(Original, stack, natives)
<1>1. stack \in Seq(Value) /\ natives \in Seq(NativeCall) /\ SlotsTaken
  BY TypeParts DEF StackTyped, NativesTyped
<1>2. GivenBack(OriginalOf(stack, natives), stack, natives)
  BY <1>1, OriginalHolds DEF SlotsTaken
<1> QED BY <1>2 DEF Original, OriginalOf

LEMMA OriginalThen ==
    ASSUME TypeInv'
    PROVE  GivenBack(Original', stack', natives')
<1>1. stack' \in Seq(Value) /\ natives' \in Seq(NativeCall) /\ SlotsTaken'
  BY DEF TypeInv, TypeOK, NativeCall
<1>2. GivenBack(OriginalOf(stack', natives'), stack', natives')
  BY <1>1, OriginalHolds DEF SlotsTaken
<1>3. Original' = OriginalOf(stack', natives')
  BY DEF Original, OriginalOf
<1> QED BY <1>2, <1>3

\* A slot that is left alone keeps its value.
LEMMA OriginalStays ==
    ASSUME NEW i \in DOMAIN stack, i \in DOMAIN stack', stack'[i] = stack[i],
           natives' = natives
    PROVE  Original'[i] = Original[i]
<1> DEFINE Takers == {n \in DOMAIN natives : natives[n].slot = i}
<1>1. Original[i] = IF Takers = {} THEN stack[i]
                    ELSE natives[CHOOSE n \in Takers : TRUE].original
  BY DEF Original
<1>2. Original'[i] = IF Takers' = {} THEN stack'[i]
                     ELSE natives'[CHOOSE n \in Takers' : TRUE].original
  BY DEF Original
<1>3. Takers' = Takers
  OBVIOUS
<1> QED BY <1>1, <1>2, <1>3

\* Nothing moves where the stack and the natives are the same.
LEMMA OriginalUnchanged ==
    ASSUME stack' = stack, natives' = natives
    PROVE  Original' = Original
BY DEF Original

\* A native that is called, and one that returns, changes no variable's value.
LEMMA NativesKeepOriginal ==
    ASSUME TypeInv, TypeInv',
           \/ InNative /\ Gives
           \/ ~ InNative /\ \E slot \in 0 .. Len(stack) : Takes(slot)
    PROVE  Original' = Original
<1>n. GivenBack(Original, stack, natives)
  BY OriginalNow
<1>m. GivenBack(Original', stack', natives')
  BY OriginalThen
<1>t. /\ natives \in Seq(NativeCall) /\ Len(natives) \in Nat /\ Len(stack) \in Nat
      /\ DOMAIN stack = 1 .. Len(stack)
      /\ \A i \in 1 .. Len(natives) : natives[i].slot \in 0 .. Len(stack)
  BY NativeIs, TypeParts, LenProperties DEF StackTyped
<1>1. Len(stack') = Len(stack) /\ stack' \in Seq(Value)
  BY DEF Takes, Gives
<1>2. DOMAIN stack' = 1 .. Len(stack)
  BY <1>1, LenProperties
<1>3. ASSUME NEW i \in 1 .. Len(stack) PROVE Original'[i] = Original[i]
  <2>1. CASE ~ InNative /\ \E slot \in 0 .. Len(stack) : Takes(slot)
    <3> DEFINE k == Len(natives) + 1
    <3>1. PICK slot \in 0 .. Len(stack) : Takes(slot)
      BY <2>1
    <3>2. /\ Len(natives') = k /\ k \in 1 .. k /\ k \in Nat
          /\ \A n \in 1 .. k : n \in 1 .. Len(natives) \/ n = k
          /\ \A n \in 1 .. Len(natives) : n \in 1 .. k /\ natives'[n] = natives[n]
          /\ natives'[k].slot = slot
          /\ slot # 0 => natives'[k].original = stack[slot] /\ slot > Base
          /\ \A j \in 1 .. Len(stack) : j # slot => stack'[j] = stack[j]
      <4>1. /\ k \in 1 .. k /\ k \in Nat
            /\ \A n \in 1 .. k : n \in 1 .. Len(natives) \/ n = k
            /\ \A n \in 1 .. Len(natives) : n \in 1 .. k
        BY SMTT(30), <1>t
      <4>2. /\ Len(natives') = k /\ natives'[k].slot = slot
            /\ \A n \in 1 .. Len(natives) : natives'[n] = natives[n]
            /\ slot # 0 => natives'[k].original = stack[slot] /\ slot > Base
            /\ \A j \in 1 .. Len(stack) : j # slot => stack'[j] = stack[j]
        BY <3>1 DEF Takes
      <4> HIDE DEF k
      <4> QED BY <4>1, <4>2
    <3> HIDE DEF k
    <3>3. CASE \E n \in 1 .. Len(natives) : natives[n].slot = i
      <4>1. PICK n \in 1 .. Len(natives) : natives[n].slot = i
        BY <3>3
      <4>2. Original[i] = natives[n].original
        BY <1>n, <4>1 DEF GivenBack
      <4>3. Original'[i] = natives'[n].original
        BY <1>m, <1>1, <3>2, <4>1 DEF GivenBack
      <4> QED BY <3>2, <4>2, <4>3
    <3>4. CASE i = slot
      <4>1. \A n \in 1 .. Len(natives) : natives[n].slot # i
        <5>1. Base \in Nat
          BY BaseIs
        <5> QED BY <1>t, <2>1, <3>2, <3>4, <5>1, TakenBelow
      <4>2. Original[i] = stack[i]
        BY <1>n, <4>1 DEF GivenBack
      <4>3. Original'[i] = natives'[k].original
        BY <1>m, <1>1, <3>2, <3>4 DEF GivenBack
      <4> QED BY <3>2, <3>4, <4>2, <4>3
    <3>5. CASE i # slot /\ ~ \E n \in 1 .. Len(natives) : natives[n].slot = i
      <4>1. Original[i] = stack[i]
        BY <1>n, <3>5 DEF GivenBack
      <4>2. \A n \in 1 .. k : natives'[n].slot # i
        BY <3>2, <3>5
      <4>3. Original'[i] = stack'[i]
        BY <1>m, <1>1, <3>2, <4>2 DEF GivenBack
      <4> QED BY <3>2, <3>5, <4>1, <4>3
    <3> QED BY <3>3, <3>4, <3>5
  <2>2. CASE InNative /\ Gives
    <3> DEFINE k == Len(natives)
               slot == natives[k].slot
    <3>1. /\ k \in 1 .. k /\ k \in Nat /\ Len(natives') = k - 1
          /\ \A n \in 1 .. k : n \in 1 .. k - 1 \/ n = k
          /\ \A n \in 1 .. k - 1 : n \in 1 .. k /\ natives'[n] = natives[n] /\ n # k
          /\ \A j \in 1 .. Len(stack) : stack'[j] = IF j = slot THEN natives[k].original
                                                             ELSE stack[j]
      BY <1>t, <2>2, NativeIs DEF Gives
    <3>2. \A n \in 1 .. k : natives[n].slot = i /\ natives[k].slot = i => n = k
      BY <3>1 DEF TypeInv, SlotsTaken
    <3> HIDE DEF k, slot
    <3>k. k = Len(natives) /\ slot = natives[k].slot
      BY DEF k, slot
    <3>3. CASE i = slot
      <4>1. Original[i] = natives[k].original
        BY <1>n, <3>1, <3>3, <3>k DEF GivenBack
      <4>2. \A n \in 1 .. k - 1 : natives'[n].slot # i
        BY <3>1, <3>2, <3>3, <3>k
      <4>3. Original'[i] = stack'[i]
        BY <1>m, <1>1, <3>1, <4>2 DEF GivenBack
      <4> QED BY <3>1, <3>3, <4>1, <4>3
    <3>4. CASE i # slot /\ \E n \in 1 .. k - 1 : natives[n].slot = i
      <4>1. PICK n \in 1 .. k - 1 : natives[n].slot = i
        BY <3>4
      <4>2. Original[i] = natives[n].original
        BY <1>n, <3>1, <3>k, <4>1 DEF GivenBack
      <4>3. Original'[i] = natives'[n].original
        BY <1>m, <1>1, <3>1, <4>1 DEF GivenBack
      <4> QED BY <3>1, <4>2, <4>3
    <3>5. CASE i # slot /\ ~ \E n \in 1 .. k - 1 : natives[n].slot = i
      <4>1. \A n \in 1 .. k : natives[n].slot # i
        BY <3>1, <3>5, <3>k
      <4>2. Original[i] = stack[i]
        BY <1>n, <3>k, <4>1 DEF GivenBack
      <4>3. \A n \in 1 .. k - 1 : natives'[n].slot # i
        BY <3>1, <3>5
      <4>4. Original'[i] = stack'[i]
        BY <1>m, <1>1, <3>1, <4>3 DEF GivenBack
      <4> QED BY <3>1, <3>5, <4>2, <4>4
    <3> QED BY <3>3, <3>4, <3>5
  <2> QED BY <2>1, <2>2
<1>4. /\ Original = [i \in 1 .. Len(stack) |-> Original[i]]
      /\ Original' = [i \in 1 .. Len(stack) |-> Original'[i]]
  BY <1>t, <1>2 DEF Original
<1> QED BY <1>3, <1>4

\* The state of Variables, as a function of the parts of ours.
StoreOf(own, st, mean, cl) ==
    [x \in Variable |->
       IF InSeq(x, own)
       THEN st[CHOOSE i \in DOMAIN own : own[i] = x]
       ELSE IF \E u \in Upvalue : mean[u] = x
       THEN cl[CHOOSE u \in Upvalue : mean[u] = x]
       ELSE Dead]

CapturedOf(ups, mean) ==
    [c \in Closure |-> [i \in DOMAIN ups[c] |-> mean[ups[c][i]]]]

\* The store that Upvalues defines is that one, before and after a step.
LEMMA TheirState ==
    /\ Store = StoreOf(owner, Original, meaning, closed)
    /\ Store' = StoreOf(owner', Original', meaning', closed')
BY DEF Store, StoreOf, InSeq

\* A variable is in scope, or an upvalue of it is closed, or it is not born.
InScope(x, own) == \E i \in 1 .. Len(own) : own[i] = x
IsClosed(x, mean, loc) == \E u \in Upvalue : mean[u] = x /\ loc[u] = 0
IsUnborn(x, own, mean) == ~ InScope(x, own) /\ \A u \in Upvalue : mean[u] # x

\* The store gives a variable in scope the value of its slot, a closed one the
\* value of its upvalue, and one that is not born none.
Valued(s, own, st, mean, cl, loc) ==
    /\ s = [x \in Variable |-> s[x]]
    /\ \A i \in 1 .. Len(own) : own[i] \in Variable /\ s[own[i]] = st[i]
    /\ \A u \in Upvalue : mean[u] # Dead => mean[u] \in Variable
    /\ \A u \in Upvalue : mean[u] # Dead /\ loc[u] = 0 => s[mean[u]] = cl[u]
    /\ \A x \in Variable : IsUnborn(x, own, mean) => s[x] = Dead
    /\ \A x \in Variable :
          InScope(x, own) \/ IsClosed(x, mean, loc) \/ IsUnborn(x, own, mean)

\* It does where variables are apart: what is chosen in Store is determined.
LEMMA StoreHolds ==
    ASSUME NEW own \in Seq(Variable), NEW st, NEW mean \in [Upvalue -> Variable \cup {Dead}],
           NEW cl, NEW loc,
           \A i, j \in 1 .. Len(own) : own[i] = own[j] => i = j,
           \A u, v \in Upvalue : mean[u] = mean[v] /\ mean[u] # Dead => u = v,
           \A u \in Upvalue : loc[u] # 0 => /\ loc[u] \in 1 .. Len(own)
                                            /\ own[loc[u]] = mean[u],
           \A u \in Upvalue : \A i \in 1 .. Len(own) : own[i] = mean[u] => loc[u] # 0
    PROVE  Valued(StoreOf(own, st, mean, cl), own, st, mean, cl, loc)
<1> DEFINE s == StoreOf(own, st, mean, cl)
<1>1. DOMAIN own = 1 .. Len(own) /\ \A i \in 1 .. Len(own) : own[i] \in Variable
  BY LenProperties, ElementOfSeq
<1>2. s = [x \in Variable |-> s[x]]
  BY DEF StoreOf
<1>3. ASSUME NEW i \in 1 .. Len(own) PROVE s[own[i]] = st[i]
  <2>1. own[i] \in Variable /\ InSeq(own[i], own)
    BY <1>1 DEF InSeq
  <2>2. (CHOOSE j \in DOMAIN own : own[j] = own[i]) = i
    <3>1. \E j \in DOMAIN own : own[j] = own[i]
      BY <1>1
    <3> DEFINE j == CHOOSE k \in DOMAIN own : own[k] = own[i]
    <3>2. j \in DOMAIN own /\ own[j] = own[i]
      BY <3>1
    <3> HIDE DEF j
    <3>3. j = i
      BY <1>1, <3>2
    <3> QED BY <3>3 DEF j
  <2> QED BY <2>1, <2>2 DEF StoreOf
<1>4. ASSUME NEW u \in Upvalue, mean[u] # Dead, loc[u] = 0 PROVE s[mean[u]] = cl[u]
  <2>1. mean[u] \in Variable /\ ~ InSeq(mean[u], own)
    BY <1>1, <1>4 DEF InSeq
  <2>2. (CHOOSE v \in Upvalue : mean[v] = mean[u]) = u
    <3> DEFINE w == CHOOSE v \in Upvalue : mean[v] = mean[u]
    <3>1. w \in Upvalue /\ mean[w] = mean[u]
      OBVIOUS
    <3> HIDE DEF w
    <3>2. w = u
      BY <1>4, <3>1
    <3> QED BY <3>2 DEF w
  <2>3. \E v \in Upvalue : mean[v] = mean[u]
    OBVIOUS
  <2> QED BY <2>1, <2>2, <2>3 DEF StoreOf
<1>5. ASSUME NEW x \in Variable, IsUnborn(x, own, mean) PROVE s[x] = Dead
  BY <1>1, <1>5 DEF IsUnborn, InScope, StoreOf, InSeq
<1>6. ASSUME NEW x \in Variable
      PROVE  InScope(x, own) \/ IsClosed(x, mean, loc) \/ IsUnborn(x, own, mean)
  <2>1. ASSUME NEW u \in Upvalue, mean[u] = x, loc[u] # 0 PROVE InScope(x, own)
    BY <2>1 DEF InScope
  <2> QED BY <2>1 DEF IsUnborn, IsClosed
<1> QED BY <1>1, <1>2, <1>3, <1>4, <1>5, <1>6 DEF Valued

\* Before a step ...
LEMMA StoreNow ==
    ASSUME VariableInv
    PROVE  Valued(Store, owner, Original, meaning, closed, location)
<1>1. StackTyped /\ UpvaluesTyped /\ VariablesApart
  BY TypedMeaning
<1>2. Valued(StoreOf(owner, Original, meaning, closed), owner, Original, meaning, closed, location)
  BY <1>1, StoreHolds
     DEF StackTyped, UpvaluesTyped, VariablesApart, OneSlotEach, OneUpvalueEach, Kept
<1> QED BY <1>2, TheirState

\* ... and after it.
LEMMA StoreThen ==
    ASSUME VariableInv, ~ OpenAtPanic, ~ OpenBelow, [Next]_vars
    PROVE  Valued(Store', owner', Original', meaning', closed', location')
<1>1. StackTyped' /\ UpvaluesTyped'
  BY ListStep, TypePartsThen DEF ListInv
<1>2. VariablesApart'
  BY ApartStep
<1>3. Valued(StoreOf(owner', Original', meaning', closed'),
             owner', Original', meaning', closed', location')
  BY <1>1, <1>2, StoreHolds
     DEF StackTyped, UpvaluesTyped, VariablesApart, OneSlotEach, OneUpvalueEach, Kept
<1> QED BY <1>3, TheirState

\* A closure that gets one more upvalue refers to one more variable.
LEMMA CaptureMore ==
    ASSUME UpvaluesTyped, UpvaluesTyped', NEW c \in Closure, NEW u \in Upvalue,
           upvalues' = [upvalues EXCEPT ![c] = Append(@, u)],
           \A d \in Closure : \A i \in 1 .. Len(upvalues[d]) :
              meaning'[upvalues[d][i]] = meaning[upvalues[d][i]]
    PROVE  CapturedOf(upvalues', meaning')
           = [CapturedOf(upvalues, meaning) EXCEPT ![c] = Append(@, meaning'[u])]
<1> DEFINE S == Variable \cup {Dead}
           m == meaning'
           s == upvalues[c]
           t == Append(s, u)
           f == [i \in DOMAIN s |-> m[s[i]]]
           g == [i \in DOMAIN t |-> m[t[i]]]
<1>1. \A d \in Closure : /\ upvalues[d] \in Seq(Upvalue)
                         /\ DOMAIN upvalues[d] = 1 .. Len(upvalues[d])
  BY LenProperties DEF UpvaluesTyped
<1>2. m \in [Upvalue -> S]
  BY DEF UpvaluesTyped
<1>3. /\ s \in Seq(Upvalue) /\ Len(s) \in Nat /\ DOMAIN s = 1 .. Len(s)
      /\ \A i \in 1 .. Len(s) : s[i] \in Upvalue
  BY <1>1, LenProperties, ElementOfSeq
<1>4. /\ t \in Seq(Upvalue) /\ Len(t) = Len(s) + 1 /\ t[Len(s) + 1] = u
      /\ \A i \in 1 .. Len(s) : t[i] = s[i]
  BY <1>3, StackPush
<1>5. DOMAIN t = 1 .. Len(t) /\ \A i \in 1 .. Len(t) : t[i] \in Upvalue
  BY <1>4, LenProperties, ElementOfSeq
<1>6. g = Append(f, m[u])
  <2> DEFINE n == Len(s)
             h == Append(f, m[u])
  <2>n. n \in Nat /\ n + 1 \in Nat /\ DOMAIN s = 1 .. n /\ DOMAIN t = 1 .. n + 1
    BY <1>3, <1>4, <1>5
  <2>1. f \in [1 .. n -> S] /\ g \in [1 .. n + 1 -> S] /\ m[u] \in S
    BY <1>2, <1>3, <1>4, <1>5
  <2>2. \A i \in 1 .. n : f[i] = m[s[i]]
    BY <1>3
  <2>3. \A i \in 1 .. n + 1 : g[i] = m[t[i]]
    BY <2>n
  <2>e. \A i \in 1 .. n : t[i] = s[i]
    BY <1>4
  <2>u. t[n + 1] = u
    BY <1>4
  <2> HIDE DEF f, g, n, s, t, S, m
  <2>4. f \in Seq(S) /\ Len(f) = n
    BY <2>n, <2>1, FunSeq
  <2>5. g \in Seq(S) /\ Len(g) = n + 1
    <3> DEFINE p == n + 1
    <3>1. p \in Nat /\ g \in [1 .. p -> S]
      BY <2>n, <2>1
    <3> HIDE DEF p
    <3>2. g \in Seq(S) /\ Len(g) = p
      BY <3>1, FunSeq
    <3> QED BY <3>2 DEF p
  <2>6. /\ h \in Seq(S) /\ Len(h) = n + 1 /\ h[n + 1] = m[u]
        /\ \A i \in 1 .. n : h[i] = f[i]
    BY <2>1, <2>4, StackPush
  <2> HIDE DEF h
  <2>7. \A i \in 1 .. n + 1 : i \in 1 .. n \/ i = n + 1
    BY <2>n
  <2>8. \A i \in 1 .. n + 1 : g[i] = h[i]
    BY <2>2, <2>3, <2>e, <2>u, <2>6, <2>7
  <2>9. g = h
    BY <2>5, <2>6, <2>8, SeqEqual
  <2> QED BY <2>9 DEF h
<1>7. upvalues' = [upvalues EXCEPT ![c] = t]
  OBVIOUS
<1>8. upvalues \in [Closure -> Seq(Upvalue)] /\ upvalues' \in [Closure -> Seq(Upvalue)]
  BY DEF UpvaluesTyped
<1> DEFINE A == CapturedOf(upvalues, meaning)
           B == CapturedOf(upvalues', m)
<1>9. A[c] = f
  <2>1. \A i \in DOMAIN s : meaning[s[i]] = m[s[i]]
    BY <1>1
  <2> QED BY <2>1 DEF CapturedOf
<1>10. B[c] = g
  BY <1>7, <1>8 DEF CapturedOf
<1>11. \A d \in Closure \ {c} : B[d] = A[d]
  <2> SUFFICES ASSUME NEW d \in Closure \ {c} PROVE B[d] = A[d]
    OBVIOUS
  <2>1. upvalues'[d] = upvalues[d]
    BY <1>8
  <2>2. \A i \in DOMAIN upvalues[d] : m[upvalues[d][i]] = meaning[upvalues[d][i]]
    BY <1>1
  <2> QED BY <2>1, <2>2 DEF CapturedOf
<1>12. A = [d \in Closure |-> A[d]] /\ B = [d \in Closure |-> B[d]]
  BY DEF CapturedOf
<1> HIDE DEF A, B, f, g
<1>13. B = [A EXCEPT ![c] = Append(@, m[u])]
  BY <1>6, <1>9, <1>10, <1>11, <1>12
<1> QED BY <1>13 DEF A, B

\* The frames are the calls.
LEMMA TheirBase ==
    ASSUME TypeInv
    PROVE  V!Base = Base
BY BaseIs DEF V!Base, Base

\* What the running function can name here it can name there.
LEMMA CanName ==
    ASSUME VariableInv, NEW x, Names(x)
    PROVE  V!Own(x) \/ V!Captured(x)
<1>1. TypeInv /\ UpvaluesTyped
  BY TypedMeaning
<1>2. CASE \E i \in Base + 1 .. Len(owner) : owner[i] = x
  BY <1>1, <1>2, TheirBase DEF V!Own
<1>3. CASE frames # <<>> /\ \E i \in 1 .. Len(upvalues[Running]) : meaning[upvalues[Running][i]] = x
  <2>1. Running = frames[Len(frames)].closure /\ Running \in Closure
    BY <1>1, <1>3, BaseIs
  <2>2. PICK i \in 1 .. Len(upvalues[Running]) : meaning[upvalues[Running][i]] = x
    BY <1>3
  <2>3. DOMAIN upvalues[Running] = 1 .. Len(upvalues[Running])
    BY <1>1, <2>1, LenProperties DEF UpvaluesTyped
  <2> DEFINE s == [i0 \in DOMAIN upvalues[Running] |-> meaning[upvalues[Running][i0]]]
  <2>4. V!InSeq(x, s)
    BY <2>2, <2>3 DEF V!InSeq
  <2>5. CapturedOf(upvalues, meaning)[Running] = s
    BY <2>1 DEF CapturedOf
  <2> HIDE DEF s
  <2>6. V!InSeq(x, CapturedOf(upvalues, meaning)[frames[Len(frames)].closure])
    BY <2>1, <2>4, <2>5
  <2> QED BY <1>3, <2>6 DEF V!Captured, CapturedOf
<1> QED BY <1>2, <1>3 DEF Names

\* A closure refers to a variable exactly when there is an upvalue of it.
LEMMA ReferredIs ==
    ASSUME VariableInv, NEW x \in Variable
    PROVE  (\E c \in Closure : V!InSeq(x, CapturedOf(upvalues, meaning)[c]))
           <=> \E u \in Upvalue : meaning[u] = x
<1>1. UpvaluesTyped /\ Referred
  BY TypedMeaning DEF VariablesApart
<1>2. x # Dead
  BY DeadAssumption
<1>3. \A c \in Closure : /\ DOMAIN upvalues[c] = 1 .. Len(upvalues[c])
                         /\ \A i \in DOMAIN upvalues[c] : upvalues[c][i] \in Upvalue
  BY <1>1, LenProperties, ElementOfSeq DEF UpvaluesTyped
<1>4. \A c \in Closure : V!InSeq(x, CapturedOf(upvalues, meaning)[c])
                         <=> \E i \in DOMAIN upvalues[c] : meaning[upvalues[c][i]] = x
  BY DEF V!InSeq, CapturedOf
<1>5. ASSUME NEW c \in Closure, NEW i \in DOMAIN upvalues[c], meaning[upvalues[c][i]] = x
      PROVE  \E u \in Upvalue : meaning[u] = x
  BY <1>3, <1>5
<1>6. ASSUME NEW u \in Upvalue, meaning[u] = x
      PROVE  \E c \in Closure : \E i \in DOMAIN upvalues[c] : meaning[upvalues[c][i]] = x
  <2>1. \E c \in Closure : InSeq(u, upvalues[c])
    BY <1>1, <1>2, <1>6 DEF Referred
  <2> QED BY <1>6, <2>1 DEF InSeq
<1> QED BY <1>4, <1>5, <1>6

-----------------------------------------------------------------------------
(***************************************************************************)
(* The steps.                                                              *)
(***************************************************************************)
\* OP_CLOSURE with a local of the running function captures its variable: that
\* it is now in an upvalue too changes no value.
LEMMA TakesLocalRefines ==
    ASSUME VariableInv, ~ OpenAtPanic, ~ OpenBelow, [Next]_vars,
           NEW c \in Closure, NEW slot \in 1 .. Len(stack), NEW u \in Upvalue,
           TakesLocal(c, slot, u)
    PROVE  \E x \in Variable : V!Capture(c, x)
<1>t. /\ TypeInv /\ ListInv /\ StackTyped /\ UpvaluesTyped /\ VariablesApart
      /\ \A i \in 1 .. Len(owner) : owner[i] \in Variable
  BY TypedMeaning
<1>n. Valued(Store, owner, Original, meaning, closed, location)
  BY StoreNow
<1>m. Valued(Store', owner', Original', meaning', closed', location')
  BY StoreThen
<1>1. /\ slot > Base /\ upvalues' = [upvalues EXCEPT ![c] = Append(@, u)]
      /\ owner' = owner /\ Original' = Original /\ frames' = frames /\ seen' = seen
      /\ slot \in 1 .. Len(owner) /\ owner[slot] \in Variable
  BY <1>t, OriginalUnchanged DEF TakesLocal, stackVars, StackTyped
<1>2. /\ closed' = closed /\ meaning'[u] = owner[slot] /\ location'[u] = slot
      /\ \A v \in Upvalue : v # u \/ meaning[u] # Dead =>
            meaning'[v] = meaning[v] /\ location'[v] = location[v]
  <2>1. CASE location[u] = slot /\ UNCHANGED upvalueVars
    BY <1>t, <1>1, <2>1 DEF upvalueVars, VariablesApart, Kept
  <2>2. CASE Captures(slot, u)
    BY <1>t, <2>2 DEF Captures, UpvaluesTyped
  <2> QED BY <2>1, <2>2 DEF TakesLocal
<1>3. Names(owner[slot])
  <2>1. slot \in Base + 1 .. Len(owner)
    BY <1>t, <1>1, BaseIs
  <2> QED BY <2>1 DEF Names
<1>4. ASSUME NEW x \in Variable PROVE Store'[x] = Store[x]
  <2>1. CASE InScope(x, owner)
    BY <1>1, <1>n, <1>m, <1>t, <2>1 DEF InScope, Valued, StackTyped
  <2>2. CASE IsClosed(x, meaning, location)
    <3>1. PICK v \in Upvalue : meaning[v] = x /\ location[v] = 0
      BY <2>2 DEF IsClosed
    <3>2. x # Dead
      BY DeadAssumption
    <3>3. meaning'[v] = x /\ location'[v] = 0
      BY <1>2, <3>1, <3>2
    <3>4. Store'[x] = closed'[v] /\ Store[x] = closed[v]
      BY <1>n, <1>m, <3>1, <3>2, <3>3 DEF Valued
    <3> QED BY <1>2, <3>4
  <2>3. CASE IsUnborn(x, owner, meaning)
    <3>1. owner[slot] # x
      BY <1>1, <2>3 DEF IsUnborn, InScope
    <3>2. IsUnborn(x, owner', meaning')
      BY <1>1, <1>2, <2>3, <3>1 DEF IsUnborn, InScope
    <3> QED BY <1>n, <1>m, <2>3, <3>2 DEF Valued
  <2> QED BY <1>n, <2>1, <2>2, <2>3 DEF Valued
<1>5. Store' = Store
  BY <1>n, <1>m, <1>4 DEF Valued
<1>6. CapturedOf(upvalues', meaning')
      = [CapturedOf(upvalues, meaning) EXCEPT ![c] = Append(@, owner[slot])]
  <2>1. ASSUME NEW d \in Closure, NEW i \in 1 .. Len(upvalues[d])
        PROVE  meaning'[upvalues[d][i]] = meaning[upvalues[d][i]]
    <3>1. /\ upvalues[d][i] \in Upvalue /\ i \in DOMAIN upvalues[d]
      BY <1>t, LenProperties, ElementOfSeq DEF UpvaluesTyped
    <3>2. meaning[upvalues[d][i]] # Dead
      BY <1>t, <3>1 DEF VariablesApart, Referred, InSeq
    <3> QED BY <1>2, <3>1, <3>2
  <2>2. UpvaluesTyped'
    BY ListStep, TypePartsThen DEF ListInv
  <2>3. meaning'[u] = owner[slot]
    BY <1>2
  <2> QED BY <1>t, <1>1, <2>1, <2>2, <2>3, CaptureMore
<1>7. PICK x \in Variable : x = owner[slot]
  BY <1>1
<1>8. V!Own(x) \/ V!Captured(x)
  BY <1>3, <1>7, CanName
<1>9. V!Capture(c, x)
  BY <1>1, <1>5, <1>6, <1>7, <1>8 DEF V!Capture, CapturedOf
<1> QED BY <1>9

\* OP_CLOSURE with an upvalue of the running closure captures the same variable.
LEMMA CaptureOuterRefines ==
    ASSUME VariableInv, ~ OpenAtPanic, ~ OpenBelow, [Next]_vars, frames # <<>>,
           NEW c \in Closure, NEW index \in DOMAIN upvalues[Running], CaptureOuter(c, index)
    PROVE  \E x \in Variable : V!Capture(c, x)
<1> DEFINE u == upvalues[Running][index]
<1>t. /\ TypeInv /\ ListInv /\ StackTyped /\ UpvaluesTyped /\ VariablesApart
  BY TypedMeaning
<1>1. /\ upvalues' = [upvalues EXCEPT ![c] = Append(@, u)]
      /\ owner' = owner /\ Original' = Original /\ frames' = frames /\ seen' = seen
      /\ meaning' = meaning /\ closed' = closed
  BY OriginalUnchanged DEF CaptureOuter, stackVars, upvalueVars
<1>2. u \in Upvalue /\ meaning[u] # Dead /\ Names(meaning[u])
  BY RunningUpvalue
<1> HIDE DEF u
<1>3. meaning[u] \in Variable
  BY <1>t, <1>2 DEF UpvaluesTyped
<1>4. Store' = Store
  BY <1>1, TheirState
<1>5. CapturedOf(upvalues', meaning')
      = [CapturedOf(upvalues, meaning) EXCEPT ![c] = Append(@, meaning[u])]
  <2>1. UpvaluesTyped'
    BY ListStep, TypePartsThen DEF ListInv
  <2> QED BY <1>t, <1>1, <1>2, <2>1, CaptureMore
<1>6. PICK x \in Variable : x = meaning[u]
  BY <1>3
<1>7. V!Own(x) \/ V!Captured(x)
  BY <1>2, <1>6, CanName
<1>8. V!Capture(c, x)
  BY <1>1, <1>4, <1>5, <1>6, <1>7 DEF V!Capture, CapturedOf
<1> QED BY <1>8

\* A let gives a value to a variable that had none.
LEMMA DeclareRefines ==
    ASSUME VariableInv, ~ OpenAtPanic, ~ OpenBelow, [Next]_vars,
           NEW x \in Variable, NEW v \in Value, Declare(x, v)
    PROVE  V!Declare(x, v)
<1>t. /\ TypeInv /\ StackTyped /\ UpvaluesTyped /\ VariablesApart
  BY TypedMeaning
<1>n. Valued(Store, owner, Original, meaning, closed, location)
  BY StoreNow
<1>m. Valued(Store', owner', Original', meaning', closed', location')
  BY StoreThen
<1> DEFINE n == Len(owner)
<1>1. /\ Len(owner') = n + 1 /\ owner'[n + 1] = x /\ n \in Nat
      /\ \A i \in 1 .. n : owner'[i] = owner[i] /\ owner[i] # x
      /\ \A u \in Upvalue : meaning[u] # x
      /\ UNCHANGED <<frames, natives, upvalues, meaning, closed, location, seen>>
  BY <1>t, DeclareShape DEF StackTyped, upvalueVars, Declare
<1>o. /\ Original'[n + 1] = v
      /\ \A i \in 1 .. n : Original'[i] = Original[i]
  <2>1. /\ n = Len(stack) /\ Len(stack') = n + 1 /\ stack'[n + 1] = v
        /\ \A i \in 1 .. n : stack'[i] = stack[i]
        /\ stack' \in Seq(Value) /\ stack \in Seq(Value)
    BY <1>t, DeclareShape, TypePartsThen, ListStep DEF StackTyped, ListInv
  <2>2. GivenBack(Original', stack', natives')
    BY ListStep, OriginalThen DEF ListInv
  <2>3. \A i \in 1 .. Len(natives') : natives'[i].slot # n + 1
    BY <1>t, <1>1, <2>1, NativeIs
  <2>4. DOMAIN stack = 1 .. n /\ DOMAIN stack' = 1 .. n + 1
    BY <2>1, LenProperties
  <2>5. n + 1 \in 1 .. Len(stack') /\ \A i \in 1 .. n : i \in 1 .. n + 1
    BY <1>1, <2>1
  <2> HIDE DEF n
  <2>6. \A i \in 1 .. n : Original'[i] = Original[i]
    BY <1>1, <2>1, <2>4, <2>5, OriginalStays
  <2>7. Original'[n + 1] = v
    BY <2>1, <2>2, <2>3, <2>5 DEF GivenBack
  <2> QED BY <2>6, <2>7
<1>e. n = Len(owner)
  OBVIOUS
<1> HIDE DEF n
<1>s. \A i \in 1 .. n + 1 : i \in 1 .. n \/ i = n + 1
  BY <1>1
<1>b. n + 1 \in 1 .. n + 1 /\ \A i \in 1 .. n : i \in 1 .. n + 1
  BY <1>1
<1>2. Store[x] = Dead
  BY <1>1, <1>n, <1>e DEF Valued, IsUnborn, InScope
<1>3. Store'[x] = v
  BY <1>1, <1>o, <1>m, <1>b DEF Valued
<1>4. ASSUME NEW y \in Variable \ {x} PROVE Store'[y] = Store[y]
  <2>1. CASE InScope(y, owner)
    BY <1>1, <1>o, <1>n, <1>m, <1>e, <1>b, <2>1 DEF InScope, Valued
  <2>2. CASE IsClosed(y, meaning, location)
    <3>1. PICK u \in Upvalue : meaning[u] = y /\ location[u] = 0
      BY <2>2 DEF IsClosed
    <3>2. y # Dead
      BY DeadAssumption
    <3>3. Store'[y] = closed'[u] /\ Store[y] = closed[u]
      BY <1>1, <1>n, <1>m, <3>1, <3>2 DEF Valued
    <3> QED BY <1>1, <3>3
  <2>3. CASE IsUnborn(y, owner, meaning)
    <3>1. IsUnborn(y, owner', meaning')
      BY <1>1, <1>e, <1>s, <2>3 DEF IsUnborn, InScope
    <3> QED BY <1>n, <1>m, <2>3, <3>1 DEF Valued
  <2> QED BY <1>n, <2>1, <2>2, <2>3 DEF Valued
<1>5. Store' = [Store EXCEPT ![x] = v]
  BY <1>n, <1>m, <1>3, <1>4 DEF Valued
<1>6. owner' = Append(owner, x)
  BY DEF Declare
<1> QED BY <1>1, <1>2, <1>5, <1>6 DEF V!Declare

\* Where slots are cut, the variables that some closure refers to live on with
\* the value they had, now in their upvalues; the others end.
LEMMA LeavesRefines ==
    ASSUME VariableInv, ~ OpenAtPanic, ~ OpenBelow, [Next]_vars, NEW n, Leaves(n)
    PROVE  V!Shorten(n)
<1>t. /\ TypeInv /\ ListInv /\ StackTyped /\ UpvaluesTyped /\ VariablesApart
      /\ \A u \in Upvalue : location[u] \in Nat
  BY TypedMeaning
<1>n. Valued(Store, owner, Original, meaning, closed, location)
  BY StoreNow
<1>m. Valued(Store', owner', Original', meaning', closed', location')
  BY StoreThen
<1>1. /\ n \in Nat /\ n <= Len(owner) /\ Len(owner) \in Nat /\ Len(owner') = n
      /\ \A i \in 1 .. n : owner'[i] = owner[i] /\ i \in 1 .. Len(owner)
  BY <1>t, LeavingShape DEF StackTyped
<1>o. \A i \in 1 .. n : Original'[i] = Original[i]
  <2>1. /\ Len(stack') = n /\ \A i \in 1 .. n : stack'[i] = stack[i]
        /\ stack' \in Seq(Value) /\ stack \in Seq(Value) /\ Len(stack) = Len(owner)
    BY <1>t, LeavingShape, TypePartsThen, ListStep DEF StackTyped, ListInv
  <2>2. DOMAIN stack = 1 .. Len(owner) /\ DOMAIN stack' = 1 .. n
    BY <2>1, LenProperties
  <2>3. natives' = natives \/ n = 0
    BY DEF Leaves
  <2> QED BY <1>1, <2>1, <2>2, <2>3, OriginalStays
<1>2. /\ \A u \in Upvalue : location'[u] = IF location[u] > n THEN 0 ELSE location[u]
      /\ \A u \in Upvalue :
            closed'[u] = IF location[u] > n THEN stack[location[u]] ELSE closed[u]
      /\ meaning' = meaning /\ upvalues' = upvalues /\ owner' = SubSeq(owner, 1, n)
  BY DEF Leaves
<1>3. DOMAIN owner' = 1 .. n
  BY <1>t, <1>1, TypePartsThen, ListStep, LenProperties DEF ListInv, StackTyped
<1> DEFINE Lives(x) == V!InSeq(x, owner') \/ \E u \in Upvalue : meaning[u] = x
<1>4. ASSUME NEW x \in Variable PROVE Store'[x] = IF Lives(x) THEN Store[x] ELSE Dead
  <2>d. x # Dead
    BY DeadAssumption
  <2>1. CASE InScope(x, owner')
    <3>1. PICK i \in 1 .. n : owner'[i] = x
      BY <1>1, <2>1 DEF InScope
    <3>2. Store'[x] = Original'[i]
      BY <1>m, <1>1, <3>1 DEF Valued
    <3>3. Store[x] = Original[i] /\ Original'[i] = Original[i]
      BY <1>n, <1>1, <1>o, <3>1 DEF Valued
    <3>4. Lives(x)
      BY <1>3, <3>1 DEF V!InSeq
    <3> QED BY <3>2, <3>3, <3>4
  <2>2. CASE ~ InScope(x, owner') /\ \E u \in Upvalue : meaning[u] = x
    <3>1. PICK u \in Upvalue : meaning[u] = x
      BY <2>2
    <3>2. location[u] = 0 \/ location[u] > n
      <4>1. SUFFICES ASSUME location[u] # 0, ~ (location[u] > n) PROVE FALSE
        OBVIOUS
      <4>2. location[u] \in 1 .. Len(owner) /\ owner[location[u]] = x
        BY <1>t, <3>1, <4>1 DEF VariablesApart, Kept
      <4>3. location[u] \in 1 .. n
        BY <1>1, <4>1, <4>2
      <4> QED BY <1>1, <2>2, <4>2, <4>3 DEF InScope
    <3>3. location'[u] = 0 /\ meaning'[u] = x
      BY <1>2, <3>1, <3>2
    <3>4. Store'[x] = closed'[u]
      BY <1>m, <2>d, <3>3 DEF Valued
    <3>5. CASE location[u] = 0
      <4>1. Store[x] = closed[u]
        BY <1>n, <2>d, <3>1, <3>5 DEF Valued
      <4>2. closed'[u] = closed[u]
        BY <1>1, <1>2, <3>5
      <4> QED BY <3>1, <3>4, <4>1, <4>2
    <3>6. CASE location[u] > n
      <4>1. location[u] \in 1 .. Len(owner) /\ owner[location[u]] = x
        <5>1. location[u] # 0
          BY <1>t, <1>1, <3>6
        <5> QED BY <1>t, <3>1, <5>1 DEF VariablesApart, Kept
      <4>2. Store[x] = stack[location[u]]
        <5>1. \A i \in 1 .. Len(natives) : natives[i].slot # location[u]
          BY <1>t, <4>1, NativeIs DEF ListInv, TakenApart
        <5>2. Original[location[u]] = stack[location[u]]
          BY <1>t, <4>1, <5>1, OriginalNow DEF GivenBack, StackTyped
        <5> QED BY <1>n, <4>1, <5>2 DEF Valued
      <4>3. closed'[u] = stack[location[u]]
        BY <1>2, <3>6
      <4> QED BY <3>1, <3>4, <4>2, <4>3
    <3> QED BY <3>2, <3>5, <3>6
  <2>3. CASE ~ InScope(x, owner') /\ ~ \E u \in Upvalue : meaning[u] = x
    <3>1. IsUnborn(x, owner', meaning')
      BY <1>2, <2>3 DEF IsUnborn
    <3>2. Store'[x] = Dead
      BY <1>m, <3>1 DEF Valued
    <3>3. ~ Lives(x)
      BY <1>1, <1>3, <2>3 DEF V!InSeq, InScope
    <3> QED BY <3>2, <3>3
  <2> QED BY <2>1, <2>2, <2>3
<1> HIDE DEF Lives
<1>5. Store' = [x \in Variable |-> IF Lives(x) THEN Store[x] ELSE Dead]
  BY <1>m, <1>4 DEF Valued
<1>6. \A x \in Variable :
         Lives(x) <=> \/ V!InSeq(x, owner')
                      \/ \E c \in Closure : V!InSeq(x, CapturedOf(upvalues, meaning)[c])
  BY ReferredIs DEF Lives
<1>7. Store' = [x \in Variable |->
                  IF \/ V!InSeq(x, owner')
                     \/ \E c \in Closure : V!InSeq(x, CapturedOf(upvalues, meaning)[c])
                  THEN Store[x] ELSE Dead]
  BY <1>5, <1>6
<1> QED BY <1>2, <1>7 DEF V!Shorten, CapturedOf

\* A write to a slot or to a closed upvalue writes one variable.
LEMMA WritesSlotRefines ==
    ASSUME VariableInv, ~ OpenAtPanic, ~ OpenBelow, [Next]_vars,
           NEW i \in 1 .. Len(stack), NEW v \in Value, WritesSlot(i, v)
    PROVE  owner[i] \in Variable /\ V!Write(owner[i], v)
<1>t. /\ TypeInv /\ StackTyped /\ UpvaluesTyped /\ VariablesApart
  BY TypedMeaning
<1>n. Valued(Store, owner, Original, meaning, closed, location)
  BY StoreNow
<1>m. Valued(Store', owner', Original', meaning', closed', location')
  BY StoreThen
<1>1. /\ Names(owner[i]) /\ i \in 1 .. Len(owner)
      /\ UNCHANGED <<owner, frames, natives, upvalues, meaning, closed, location, seen>>
      /\ \A j \in 1 .. Len(owner) : stack'[j] = IF j = i THEN v ELSE stack[j]
  BY <1>t, WriteShape DEF WritesSlot, upvalueVars, StackTyped
<1>o. \A j \in 1 .. Len(owner) : Original'[j] = IF j = i THEN v ELSE Original[j]
  <2>1. /\ stack' \in Seq(Value) /\ stack \in Seq(Value)
        /\ Len(stack) = Len(owner) /\ Len(stack') = Len(owner)
    BY <1>t, <1>1, TypePartsThen, ListStep DEF StackTyped, ListInv
  <2>2. DOMAIN stack = 1 .. Len(owner) /\ DOMAIN stack' = 1 .. Len(owner)
    BY <2>1, LenProperties
  <2>3. GivenBack(Original', stack', natives')
    BY ListStep, OriginalThen DEF ListInv
  <2>4. \A n \in 1 .. Len(natives') : natives'[n].slot # i
    BY <1>1 DEF WritesSlot, IsTaken
  <2>5. Original'[i] = v
    BY <1>1, <2>1, <2>3, <2>4 DEF GivenBack
  <2>6. ASSUME NEW j \in 1 .. Len(owner), j # i PROVE Original'[j] = Original[j]
    BY <1>1, <2>2, <2>6, OriginalStays
  <2> QED BY <2>5, <2>6
<1>2. Store'[owner[i]] = v
  BY <1>1, <1>o, <1>m DEF Valued
<1>3. ASSUME NEW y \in Variable, y # owner[i] PROVE Store'[y] = Store[y]
  <2>1. CASE InScope(y, owner)
    <3>1. PICK j \in 1 .. Len(owner) : owner[j] = y
      BY <2>1 DEF InScope
    <3>2. Store'[y] = Original'[j] /\ Store[y] = Original[j]
      BY <1>1, <1>n, <1>m, <3>1 DEF Valued
    <3> QED BY <1>1, <1>o, <1>3, <3>1, <3>2
  <2>2. CASE IsClosed(y, meaning, location)
    <3>1. PICK u \in Upvalue : meaning[u] = y /\ location[u] = 0
      BY <2>2 DEF IsClosed
    <3>2. y # Dead
      BY DeadAssumption
    <3>3. Store'[y] = closed'[u] /\ Store[y] = closed[u]
      BY <1>1, <1>n, <1>m, <3>1, <3>2 DEF Valued
    <3> QED BY <1>1, <3>3
  <2>3. CASE IsUnborn(y, owner, meaning)
    BY <1>1, <1>n, <1>m, <2>3 DEF Valued
  <2> QED BY <1>n, <2>1, <2>2, <2>3 DEF Valued
<1>4. owner[i] \in Variable
  BY <1>1, <1>n DEF Valued
<1>5. Store' = [Store EXCEPT ![owner[i]] = v]
  BY <1>n, <1>m, <1>2, <1>3, <1>4 DEF Valued
<1>6. V!Own(owner[i]) \/ V!Captured(owner[i])
  BY <1>1, CanName
<1> QED BY <1>1, <1>4, <1>5, <1>6 DEF V!Write, CapturedOf

\* So does one to a closed upvalue.
LEMMA WritesClosedRefines ==
    ASSUME VariableInv, ~ OpenAtPanic, ~ OpenBelow, [Next]_vars,
           NEW u \in Upvalue, NEW v \in Value, WritesClosed(u, v)
    PROVE  meaning[u] \in Variable /\ V!Write(meaning[u], v)
<1>t. /\ TypeInv /\ StackTyped /\ UpvaluesTyped /\ VariablesApart
  BY TypedMeaning
<1>n. Valued(Store, owner, Original, meaning, closed, location)
  BY StoreNow
<1>m. Valued(Store', owner', Original', meaning', closed', location')
  BY StoreThen
<1>1. /\ Names(meaning[u]) /\ meaning[u] # Dead /\ location[u] = 0
      /\ UNCHANGED <<owner, frames, upvalues, meaning, location, seen>>
      /\ Original' = Original
      /\ \A w \in Upvalue : closed'[w] = IF w = u THEN v ELSE closed[w]
  BY <1>t, OriginalUnchanged DEF WritesClosed, stackVars, UpvaluesTyped
<1>2. Store'[meaning[u]] = v
  BY <1>1, <1>m DEF Valued
<1>3. ASSUME NEW y \in Variable, y # meaning[u] PROVE Store'[y] = Store[y]
  <2>1. CASE InScope(y, owner)
    <3>1. PICK j \in 1 .. Len(owner) : owner[j] = y
      BY <2>1 DEF InScope
    <3>2. Store'[y] = Original'[j] /\ Store[y] = Original[j]
      BY <1>1, <1>n, <1>m, <3>1 DEF Valued
    <3> QED BY <1>1, <3>2
  <2>2. CASE IsClosed(y, meaning, location)
    <3>1. PICK w \in Upvalue : meaning[w] = y /\ location[w] = 0
      BY <2>2 DEF IsClosed
    <3>2. y # Dead
      BY DeadAssumption
    <3>3. Store'[y] = closed'[w] /\ Store[y] = closed[w]
      BY <1>1, <1>n, <1>m, <3>1, <3>2 DEF Valued
    <3> QED BY <1>1, <1>3, <3>1, <3>3
  <2>3. CASE IsUnborn(y, owner, meaning)
    BY <1>1, <1>n, <1>m, <2>3 DEF Valued
  <2> QED BY <1>n, <2>1, <2>2, <2>3 DEF Valued
<1>4. meaning[u] \in Variable
  BY <1>1, <1>n DEF Valued
<1>5. Store' = [Store EXCEPT ![meaning[u]] = v]
  BY <1>n, <1>m, <1>2, <1>3, <1>4 DEF Valued
<1>6. V!Own(meaning[u]) \/ V!Captured(meaning[u])
  BY <1>1, CanName
<1> QED BY <1>1, <1>4, <1>5, <1>6 DEF V!Write, CapturedOf

\* What is read, from a slot or through an upvalue, is the value of a variable.
LEMMA ReadsRefines ==
    ASSUME VariableInv, NEW w, Reads(w)
    PROVE  (\E x \in Variable : V!Read(x)) \/ UNCHANGED V!vars
<1>n. Valued(Store, owner, Original, meaning, closed, location)
  BY StoreNow
<1>l. Len(owner) = Len(stack)
  BY TypedMeaning DEF StackTyped
<1>1. /\ UNCHANGED <<owner, frames, upvalues, meaning, closed>>
      /\ Original' = Original /\ seen' = w
  BY OriginalUnchanged DEF Reads, stackVars, upvalueVars
<1>2. Store' = Store
  BY <1>1, TheirState
<1>3. ASSUME NEW x \in Variable, Names(x), w = Store[x] PROVE V!Read(x)
  <2>1. V!Own(x) \/ V!Captured(x)
    BY <1>3, CanName
  <2> QED BY <1>1, <1>2, <1>3, <2>1 DEF V!Read
<1>4. CASE w = seen
  BY <1>1, <1>2, <1>4 DEF V!vars
<1>5. ASSUME NEW i \in 1 .. Len(stack), Names(owner[i]), ~ IsTaken(i), w = stack[i]
      PROVE  \E x \in Variable : V!Read(x)
  <2>0. w = Original[i]
    BY <1>5, TypedMeaning, OriginalNow DEF GivenBack, IsTaken
  <2>1. owner[i] \in Variable /\ w = Store[owner[i]]
    BY <1>n, <1>l, <1>5, <2>0 DEF Valued
  <2> QED BY <1>3, <1>5, <2>1
<1>6. ASSUME NEW u \in Upvalue, Names(meaning[u]), meaning[u] # Dead, location[u] = 0,
             w = closed[u]
      PROVE  \E x \in Variable : V!Read(x)
  <2>1. meaning[u] \in Variable /\ w = Store[meaning[u]]
    BY <1>n, <1>6 DEF Valued
  <2> QED BY <1>3, <1>6, <2>1
<1> QED BY <1>4, <1>5, <1>6 DEF Reads

\* A call is a call, and a return ends the innermost one.
LEMMA CallRefines ==
    ASSUME VariableInv, NEW c \in Closure, Call(c)
    PROVE  V!Call(c)
<1>1. /\ frames' = Append(frames, [base |-> Len(owner), closure |-> c])
      /\ UNCHANGED <<owner, upvalues, meaning, closed, seen>> /\ Original' = Original
  BY TypedMeaning, OriginalUnchanged DEF Call, StackTyped, stackVars, upvalueVars
<1>2. Store' = Store
  BY <1>1, TheirState
<1> QED BY <1>1, <1>2 DEF V!Call

\* The frame that a return removes is the innermost, also where a nested run ends.
LEMMA ReturnRefines ==
    ASSUME VariableInv, OneFrameEach, ~ OpenAtPanic, ~ OpenBelow, ~ InNative,
           [Next]_vars, Return
    PROVE  V!Return
<1>t. TypeInv /\ ListInv
  BY TypedMeaning
<1>1. /\ frames # <<>> /\ Leaves(Base)
      /\ frames' = IF natives = <<>> THEN SubSeq(frames, 1, Len(frames) - 1)
                   ELSE SubSeq(frames, 1, natives[Len(natives)].frames)
  BY <1>t, ReturnLeaves
<1>2. V!Shorten(Base) /\ V!Base = Base
  BY <1>t, <1>1, LeavesRefines, TheirBase
<1>3. ASSUME natives # <<>> PROVE natives[Len(natives)].frames = Len(frames) - 1
  <2> DEFINE k == Len(natives)
             m == Len(frames)
             f == natives[k].frames
  <2>1. k \in 1 .. Len(natives) /\ f \in 0 .. m /\ m \in Nat
    BY <1>t, <1>3, NativeIs
  <2>2. f < m
    BY <1>t, <2>1, TakenBelow
  <2>3. m <= f + 1
    BY <1>3 DEF OneFrameEach
  <2> HIDE DEF k, m, f
  <2>4. f = m - 1
    BY <2>1, <2>2, <2>3
  <2> QED BY <2>4 DEF k, m, f
<1>4. frames' = SubSeq(frames, 1, Len(frames) - 1)
  BY <1>1, <1>3
<1>5. upvalues' = upvalues /\ meaning' = meaning /\ seen' = seen
  BY <1>1 DEF Leaves
<1> QED BY <1>1, <1>2, <1>4, <1>5 DEF V!Return

\* Every step is one of Variables, or changes nothing there.
LEMMA StepRefines ==
    ASSUME VariableInv, OneFrameEach, ~ OpenAtPanic, ~ OpenBelow, [Next]_vars
    PROVE  [V!Next]_(V!vars)
<1>l. ListInv /\ TypeInv
  BY TypedMeaning
<1>c. ASSUME NEW c \in Closure, NEW x \in Variable, V!Capture(c, x) PROVE V!Next
  BY <1>c DEF V!Next
<1>1. CASE \E c \in Closure, slot \in 1 .. Len(stack), u \in Upvalue : TakesLocal(c, slot, u)
  <2>1. PICK c \in Closure, slot \in 1 .. Len(stack), u \in Upvalue : TakesLocal(c, slot, u)
    BY <1>1
  <2>2. \E x \in Variable : V!Capture(c, x)
    BY <2>1, TakesLocalRefines
  <2> QED BY <1>c, <2>2
<1>2. CASE \E c \in Closure :
              frames # <<>> /\ \E index \in DOMAIN upvalues[Running] : CaptureOuter(c, index)
  <2>1. PICK c \in Closure :
              frames # <<>> /\ \E index \in DOMAIN upvalues[Running] : CaptureOuter(c, index)
    BY <1>2
  <2>2. PICK index \in DOMAIN upvalues[Running] : CaptureOuter(c, index)
    BY <2>1
  <2>3. \E x \in Variable : V!Capture(c, x)
    BY <2>1, <2>2, CaptureOuterRefines
  <2> QED BY <1>c, <2>3
<1>3. CASE \E x \in Variable, v \in Value : Declare(x, v)
  BY <1>3, DeclareRefines DEF V!Next
<1>4. CASE EndOfScope
  <2>1. /\ Len(stack) > Base /\ Leaves(Len(stack) - 1) /\ frames' = frames
        /\ Len(owner) = Len(stack) /\ V!Base = Base
    BY <1>l, <1>4, EndOfScopeLeaves, TheirBase, TypedMeaning DEF StackTyped
  <2> DEFINE n == Len(stack) - 1
  <2>2. V!Shorten(n)
    <3> HIDE DEF n
    <3>1. Leaves(n)
      BY <2>1 DEF n
    <3> QED BY <3>1, LeavesRefines
  <2>3. upvalues' = upvalues /\ meaning' = meaning /\ seen' = seen
    BY <2>1 DEF Leaves
  <2>4. V!LeaveScope
    BY <2>1, <2>2, <2>3 DEF V!LeaveScope
  <2> QED BY <2>4 DEF V!Next
<1>5. CASE ~ InNative /\ Return
  BY <1>5, ReturnRefines DEF V!Next
<1>6. CASE Panic
  <2>1. Leaves(0) /\ frames' = <<>>
    BY <1>l, <1>6, PanicLeaves
  <2>2. upvalues' = upvalues /\ meaning' = meaning /\ seen' = seen
    BY <2>1 DEF Leaves
  <2>3. V!Shorten(0)
    BY <2>1, LeavesRefines
  <2>4. V!Abandon
    BY <2>1, <2>2, <2>3 DEF V!Abandon
  <2> QED BY <2>4 DEF V!Next
<1>7. CASE \E i \in 1 .. Len(stack), v \in Value : WritesSlot(i, v)
  BY <1>7, WritesSlotRefines DEF V!Next
<1>8. CASE \E u \in Upvalue, v \in Value : WritesClosed(u, v)
  BY <1>8, WritesClosedRefines DEF V!Next
<1>9. CASE \E w \in Value \cup {Dead} : Reads(w)
  BY <1>9, ReadsRefines DEF V!Next
<1>10. CASE \E c \in Closure : Call(c)
  BY <1>10, CallRefines DEF V!Next
<1>11. CASE \/ InNative /\ Gives
            \/ ~ InNative /\ \E slot \in 0 .. Len(stack) : Takes(slot)
  <2>1. Original' = Original
    <3>1. TypeInv'
      BY ListStep DEF ListInv
    <3> QED BY <1>l, <1>11, <3>1, NativesKeepOriginal
  <2>2. UNCHANGED <<owner, frames, upvalues, meaning, closed, seen>>
    BY <1>11 DEF Takes, Gives, upvalueVars
  <2>3. Store' = Store
    BY <2>1, <2>2, TheirState
  <2> QED BY <2>2, <2>3 DEF V!vars
<1> QED BY <1>1, <1>2, <1>3, <1>4, <1>5, <1>6, <1>7, <1>8, <1>9, <1>10, <1>11, StepShape
        DEF Step

\* At first no variable has a value.
LEMMA InitRefines ==
    ASSUME Init
    PROVE  V!Init
<1>1. /\ owner = <<>> /\ DOMAIN owner = {} /\ frames = <<>> /\ seen = Dead
      /\ \A u \in Upvalue : meaning[u] = Dead
      /\ \A c \in Closure : upvalues[c] = <<>> /\ DOMAIN upvalues[c] = {}
  BY DEF Init
<1>2. Store = [x \in Variable |-> Dead]
  BY <1>1, DeadAssumption DEF Store, InSeq
<1>3. CapturedOf(upvalues, meaning) = [c \in Closure |-> <<>>]
  <2>1. \A c \in Closure : [i \in DOMAIN upvalues[c] |-> meaning[upvalues[c][i]]] = <<>>
    <3> SUFFICES ASSUME NEW c \in Closure
                 PROVE  [i \in DOMAIN upvalues[c] |-> meaning[upvalues[c][i]]] = <<>>
      OBVIOUS
    <3> DEFINE f == [i \in DOMAIN upvalues[c] |-> meaning[upvalues[c][i]]]
    <3>1. f \in [1 .. 0 -> Variable] /\ 0 \in Nat
      BY <1>1
    <3> HIDE DEF f
    <3>2. f \in Seq(Variable) /\ Len(f) = 0
      BY <3>1, FunSeq
    <3>3. f = <<>>
      BY <3>2, EmptySeq
    <3> QED BY <3>3 DEF f
  <2> QED BY <2>1 DEF CapturedOf
<1> QED BY <1>1, <1>2, <1>3 DEF V!Init, CapturedOf

\* Upvalues implement variables: what functions read and write through slots, open
\* and closed upvalues is what they would with one place for every variable, while
\* methods have slots too (OP_SET_UPVALUE, vm_run.c; handle_invoke, vm_helpers.c).
THEOREM UpvaluesImplementVariables ==
    ASSUME ~ OpenAtPanic, ~ OpenBelow, ~ CallbacksCall
    PROVE  Spec => ImplementsVariables
<1>1. VariableInv /\ OneFrameEach /\ [Next]_vars => [V!Next]_(V!vars)
  BY StepRefines
<1> QED BY <1>1, InitRefines, OneFrameEachHolds, PTL DEF Spec, ImplementsVariables, V!Spec
=============================================================================
