---------------------------- MODULE RuntimeProofs ----------------------------
(***************************************************************************)
(* Of the values of the runtime: the heap that holds them, ranges,         *)
(* buffers, and numbers.  The four share no state; each has its part       *)
(* below.                                                                  *)
(*                                                                         *)
(* The heap: nothing the script can reach is freed, at every step of a     *)
(* collection too; a slot is on the free list exactly when it holds no     *)
(* object; and a collection keeps what the roots lead to and nothing else. *)
(*                                                                         *)
(* The scripts are those that create no sets ("set" is not in Kinds): with *)
(* sets the first of these is false, which run heap_sets shows, for the    *)
(* collector does not mark the table a set keeps its elements in.          *)
(***************************************************************************)
EXTENDS Heap, Ranges, Buffer, Numbers, ProofBasics

-----------------------------------------------------------------------------
(***************************************************************************)
(* The inductive invariant. What the script can reach is a subset of the   *)
(* objects that will survive the collection under way, and those are       *)
(* closed under references: that, and not reachability itself, is what     *)
(* each step preserves.                                                    *)
(***************************************************************************)
\* No element occurs twice.
Unique(s) == \A i, j \in 1 .. Len(s) : s[i] = s[j] => i = j

\* The objects the sweep will free when it gets to them; outside a sweep, none.
Doomed == toSweep \ (marked \cup immortal)

\* The others.
Survivors == Allocated \ Doomed

\* What a script that creates no sets never sees.
NoSets == building = NULL /\ phase # "crashed" /\ \A a \in Addr : kind[a] # "set"

\* The free list holds each carved slot without an object, once.
Slots ==
    /\ Unique(freeList)
    /\ Pointers(freeList) = (1 .. slabEnd) \ Allocated
    /\ Allocated \subseteq 1 .. slabEnd

\* The list the sweep walks holds the objects, except for some immortal ones:
\* the first sweep unlinks those, which it neither marks nor frees.
Linked == objects \subseteq Allocated /\ Allocated \ immortal \subseteq objects

\* Strings, the immortal ones among them, and free slots refer to nothing.
Plain ==
    /\ \A a \in Addr : kind[a] \in {"none", "string"} => refs[a] = {}
    /\ \A a \in immortal : kind[a] = "string"

\* Stack and pool lead to survivors, and so do the survivors.
Safe ==
    /\ Pointers(stack) \subseteq Survivors
    /\ \A t \in Texts : pool[t] # NULL => pool[t] \in Survivors
    /\ \A a \in Survivors : refs[a] \subseteq Survivors

\* ReachableFrom, with the references as a parameter.
ReachIn(r, ptrs) ==
    {a \in Addr : \A S \in SUBSET Addr :
                     ptrs \subseteq S /\ (\A b \in S : r[b] \subseteq S) => a \in S}

\* The tricolour invariant: while the collector traces, an object that is
\* marked and no longer gray refers to none that is unmarked.  And what is
\* marked is reachable, so that nothing is kept without a reason.
Coloured ==
    /\ marked \subseteq Allocated \ immortal
    /\ phase = "run" => marked = gray /\ toSweep = {}
    /\ phase = "trace" =>
          /\ toSweep = {}
          /\ Roots \subseteq marked \cup immortal
          /\ \A a \in marked \ gray : refs[a] \subseteq marked \cup immortal
          /\ greyed \subseteq marked
          /\ marked \subseteq ReachIn(refs, Roots \cup greyed)
    /\ phase = "sweep" => gray = {} /\ marked \subseteq toSweep

\* A string of the script that survives is the one the pool has for its text.
Interned ==
    /\ MortalStringsAreUnique
    /\ \A a \in Survivors \ immortal :
          kind[a] = "string" => text[a] \in Texts /\ pool[text[a]] = a

\* free_vm leaves the slots as they are: nothing is said of them afterwards.
HeapInv ==
    /\ TypeOK /\ NoSets /\ Unique(freeList) /\ MortalStringsAreUnique
    /\ phase # "down" => Slots /\ Linked /\ Plain /\ Safe /\ Coloured /\ Interned

-----------------------------------------------------------------------------
(***************************************************************************)
(* Reachability is the least set closed under references: it holds what it *)
(* starts from and what its members refer to, and it is inside every other *)
(* such set.                                                               *)
(***************************************************************************)
LEMMA ReachableIs ==
    ASSUME NEW ptrs
    PROVE  ReachableFrom(ptrs) = ReachIn(refs, ptrs)
BY DEF ReachableFrom, ReachIn, ClosedUnderRefs

\* It holds what it starts from,
LEMMA ReachStart ==
    ASSUME NEW r, NEW ptrs \in SUBSET Addr
    PROVE  ptrs \subseteq ReachIn(r, ptrs)
BY DEF ReachIn

\* what an object of it refers to,
LEMMA ReachStep ==
    ASSUME NEW r \in [Addr -> SUBSET Addr], NEW ptrs, NEW a \in ReachIn(r, ptrs)
    PROVE  r[a] \subseteq ReachIn(r, ptrs)
<1>1. a \in Addr /\ r[a] \subseteq Addr
  BY DEF ReachIn
<1>2. ASSUME NEW b \in r[a], NEW S \in SUBSET Addr,
             ptrs \subseteq S, \A c \in S : r[c] \subseteq S
      PROVE  b \in S
  BY <1>2 DEF ReachIn
<1> QED BY <1>1, <1>2 DEF ReachIn

\* and no more than it must.
LEMMA ReachLeast ==
    ASSUME NEW r, NEW ptrs, NEW S \in SUBSET Addr,
           ptrs \subseteq S, \A b \in S : r[b] \subseteq S
    PROVE  ReachIn(r, ptrs) \subseteq S
BY DEF ReachIn

-----------------------------------------------------------------------------
(***************************************************************************)
(* The free list and the stack as sequences: what they hold after a step.  *)
(***************************************************************************)
\* allocate_from_slab takes the first of the list,
LEMMA TakeFirst ==
    ASSUME NEW S, NEW s \in Seq(S), s # <<>>, Unique(s)
    PROVE  /\ Head(s) \in S /\ Tail(s) \in Seq(S) /\ Unique(Tail(s))
           /\ Head(s) \in Pointers(s)
           /\ Pointers(Tail(s)) = Pointers(s) \ {Head(s)}
<1> DEFINE t == Tail(s)
           n == Len(s)
<1>1. /\ t \in Seq(S) /\ Len(t) = n - 1 /\ n \in Nat \ {0}
      /\ \A i \in 1 .. n - 1 : t[i] = s[i + 1]
      /\ Head(s) \in S
  BY HeadTailProperties, EmptySeq
<1>2. Head(s) = s[1]
  OBVIOUS
<1>3. DOMAIN s = 1 .. n /\ DOMAIN t = 1 .. n - 1
  BY <1>1, LenProperties
<1>u. \A i, j \in 1 .. n : s[i] = s[j] => i = j
  BY DEF Unique
<1>l. Len(t) = n - 1
  BY <1>1
<1> HIDE DEF t, n
<1>4. \A i \in 1 .. n - 1 : i + 1 \in 1 .. n /\ i + 1 # 1
  BY <1>1
<1>5. Unique(t)
  <2> SUFFICES ASSUME NEW i \in 1 .. n - 1, NEW j \in 1 .. n - 1, t[i] = t[j] PROVE i = j
    BY <1>l DEF Unique
  <2>1. s[i + 1] = s[j + 1]
    BY <1>1
  <2>2. i + 1 = j + 1
    BY <1>4, <1>u, <2>1
  <2> QED BY <2>2
<1>6. Pointers(t) = Pointers(s) \ {Head(s)}
  <2>1. ASSUME NEW i \in 1 .. n - 1 PROVE t[i] \in Pointers(s) /\ t[i] # Head(s)
    <3>1. t[i] = s[i + 1] /\ i + 1 \in 1 .. n /\ 1 \in 1 .. n /\ i + 1 # 1
      BY <1>1, <1>4
    <3> QED BY <1>2, <1>3, <1>u, <3>1 DEF Pointers
  <2>2. ASSUME NEW i \in 1 .. n, s[i] # Head(s) PROVE s[i] \in Pointers(t)
    <3>1. i - 1 \in 1 .. n - 1 /\ i - 1 + 1 = i
      BY <1>1, <1>2, <2>2
    <3>2. t[i - 1] = s[i]
      BY <1>1, <3>1
    <3> QED BY <1>3, <3>1, <3>2 DEF Pointers
  <2> QED BY <1>3, <2>1, <2>2 DEF Pointers
<1>7. Head(s) \in Pointers(s)
  BY <1>1, <1>2, <1>3 DEF Pointers
<1> QED BY <1>1, <1>5, <1>6, <1>7 DEF t

\* and free_from_slab puts a slot in front.
LEMMA PutFirst ==
    ASSUME NEW S, NEW s \in Seq(S), NEW e \in S, e \notin Pointers(s), Unique(s)
    PROVE  /\ <<e>> \o s \in Seq(S) /\ Unique(<<e>> \o s)
           /\ Pointers(<<e>> \o s) = Pointers(s) \cup {e}
<1> DEFINE w == <<e>>
           t == w \o s
           n == Len(s)
<1>1. w \in Seq(S) /\ Len(w) = 1 /\ w[1] = e
  BY StackOne
<1>2. n \in Nat /\ DOMAIN s = 1 .. n
  BY LenProperties
<1>u. \A i, j \in 1 .. n : s[i] = s[j] => i = j
  BY DEF Unique
<1>e. t = <<e>> \o s
  OBVIOUS
<1> HIDE DEF w
<1>3. /\ t \in Seq(S) /\ Len(t) = Len(w) + Len(s)
      /\ \A i \in 1 .. Len(w) + Len(s) : t[i] = IF i <= Len(w) THEN w[i] ELSE s[i - Len(w)]
  BY <1>1, ConcatProperties
<1>n. n = Len(s)
  OBVIOUS
<1> HIDE DEF t, n
<1>4. Len(t) = n + 1 /\ DOMAIN t = 1 .. n + 1
  <2>1. DOMAIN t = 1 .. Len(t)
    BY <1>3, LenProperties
  <2> QED BY <1>1, <1>2, <1>3, <1>n, <2>1
<1>5. t[1] = e
  BY <1>1, <1>2, <1>3, <1>n
<1>6. \A i \in 1 .. n + 1 : i # 1 => i - 1 \in 1 .. n /\ t[i] = s[i - 1]
  BY <1>1, <1>2, <1>3, <1>n
<1>7. \A i \in 1 .. n : s[i] # e
  BY <1>2 DEF Pointers
<1>8. Unique(t)
  <2> SUFFICES ASSUME NEW i \in 1 .. n + 1, NEW j \in 1 .. n + 1, t[i] = t[j] PROVE i = j
    BY <1>4 DEF Unique
  <2>1. CASE i = 1 /\ j # 1
    BY <1>5, <1>6, <1>7, <2>1
  <2>2. CASE i # 1 /\ j = 1
    BY <1>5, <1>6, <1>7, <2>2
  <2>3. CASE i # 1 /\ j # 1
    <3>1. i - 1 = j - 1
      BY <1>6, <1>u, <2>3
    <3> QED BY <3>1
  <2> QED BY <2>1, <2>2, <2>3
<1>9. Pointers(t) = Pointers(s) \cup {e}
  <2>1. ASSUME NEW i \in 1 .. n + 1 PROVE t[i] \in Pointers(s) \cup {e}
    BY <1>2, <1>5, <1>6 DEF Pointers
  <2>2. ASSUME NEW i \in 1 .. n PROVE s[i] \in Pointers(t)
    <3> DEFINE p == i + 1
    <3>1. p \in 1 .. n + 1 /\ p # 1 /\ p - 1 = i
      BY <1>2
    <3> HIDE DEF p
    <3>2. t[p] = s[i]
      BY <1>6, <3>1
    <3> QED BY <1>4, <3>1, <3>2 DEF Pointers
  <2>3. e \in Pointers(t)
    <3>1. 1 \in 1 .. n + 1
      BY <1>2
    <3> QED BY <1>4, <1>5, <3>1 DEF Pointers
  <2> QED BY <1>2, <1>4, <2>1, <2>2, <2>3 DEF Pointers
<1> QED BY <1>3, <1>8, <1>9, <1>e

\* The objects on the stack after a push,
LEMMA PointersOfPush ==
    ASSUME NEW S, NEW s \in Seq(S), NEW e \in S
    PROVE  Append(s, e) \in Seq(S) /\ Pointers(Append(s, e)) = Pointers(s) \cup {e}
<1> DEFINE t == Append(s, e)
           n == Len(s)
<1>1. /\ t \in Seq(S) /\ Len(t) = n + 1 /\ t[n + 1] = e /\ n \in Nat
      /\ \A i \in 1 .. n : t[i] = s[i]
  BY StackPush, LenProperties
<1>2. DOMAIN s = 1 .. n /\ DOMAIN t = 1 .. n + 1
  BY <1>1, LenProperties
<1> HIDE DEF t, n
<1>3. \A i \in 1 .. n + 1 : i \in 1 .. n \/ i = n + 1
  BY <1>1
<1>4. n + 1 \in 1 .. n + 1 /\ \A i \in 1 .. n : i \in 1 .. n + 1
  BY <1>1
<1>5. Pointers(t) = Pointers(s) \cup {e}
  BY <1>1, <1>2, <1>3, <1>4 DEF Pointers
<1> QED BY <1>1, <1>5 DEF t

\* after a pop,
LEMMA PointersOfPop ==
    ASSUME NEW S, NEW s \in Seq(S), s # <<>>
    PROVE  /\ SubSeq(s, 1, Len(s) - 1) \in Seq(S)
           /\ Pointers(SubSeq(s, 1, Len(s) - 1)) \subseteq Pointers(s)
<1> DEFINE t == SubSeq(s, 1, Len(s) - 1)
           n == Len(s)
<1>1. /\ t \in Seq(S) /\ Len(t) = n - 1 /\ n \in Nat \ {0}
      /\ \A i \in 1 .. n - 1 : t[i] = s[i]
  BY StackPop, StackTop
<1>2. DOMAIN s = 1 .. n /\ DOMAIN t = 1 .. n - 1
  BY <1>1, LenProperties
<1> HIDE DEF t, n
<1>3. \A i \in 1 .. n - 1 : i \in 1 .. n
  BY <1>1
<1>4. Pointers(t) \subseteq Pointers(s)
  BY <1>1, <1>2, <1>3 DEF Pointers
<1> QED BY <1>1, <1>4 DEF t

\* and at any position.
LEMMA PointersIn ==
    ASSUME NEW S, NEW s \in Seq(S)
    PROVE  /\ Pointers(s) \subseteq S
           /\ \A i \in 1 .. Len(s) : s[i] \in Pointers(s)
BY LenProperties, ElementOfSeq DEF Pointers

-----------------------------------------------------------------------------
(***************************************************************************)
(* The script runs: no collection is under way, and every allocated object *)
(* survives. What HeapInv comes to then, in the state a step starts from   *)
(* and in the one it leads to.                                             *)
(***************************************************************************)
LEMMA RunFacts ==
    ASSUME HeapInv, phase = "run"
    PROVE  /\ TypeOK /\ NoSets /\ Slots /\ Linked /\ Plain /\ Safe /\ Coloured /\ Interned
           /\ Survivors = Allocated /\ toSweep = {} /\ marked = gray
           /\ marked \subseteq Allocated \ immortal
           /\ Allocated \subseteq Addr /\ immortal \subseteq Allocated
<1>1. TypeOK /\ NoSets /\ Slots /\ Linked /\ Plain /\ Safe /\ Coloured /\ Interned
  BY DEF HeapInv
<1>2. toSweep = {} /\ marked = gray /\ marked \subseteq Allocated \ immortal
  BY <1>1 DEF Coloured
<1>3. Allocated \subseteq Addr /\ Survivors = Allocated
  BY <1>2 DEF Allocated, Survivors, Doomed
<1>4. immortal \subseteq Allocated
  BY <1>1 DEF Plain, Allocated, TypeOK
<1> QED BY <1>1, <1>2, <1>3, <1>4

\* To restore HeapInv while the script runs it is enough that the stack, the
\* pool and the references of allocated objects lead to allocated ones.
LEMMA RunNext ==
    ASSUME TypeOK', NoSets', Slots', Linked', Plain', phase' = "run", toSweep' = {},
           marked' = gray', marked' \subseteq Allocated' \ immortal',
           Pointers(stack') \subseteq Allocated',
           \A t \in Texts : pool'[t] # NULL => pool'[t] \in Allocated',
           \A a \in Allocated' : refs'[a] \subseteq Allocated',
           MortalStringsAreUnique',
           \A a \in Allocated' \ immortal' :
              kind'[a] = "string" => text'[a] \in Texts /\ pool'[text'[a]] = a
    PROVE  HeapInv'
<1>1. Survivors' = Allocated'
  BY DEF Survivors, Doomed
<1>2. Safe'
  BY <1>1 DEF Safe, Pointers
<1>3. Coloured'
  BY DEF Coloured
<1>4. Interned'
  BY <1>1 DEF Interned
<1>5. Unique(freeList)'
  BY DEF Slots
<1> QED BY <1>2, <1>3, <1>4, <1>5 DEF HeapInv

\* Steps that change the stack only.
LEMMA StackStep ==
    ASSUME HeapInv, phase = "run", stack' \in Seq(Addr), Pointers(stack') \subseteq Allocated,
           paused' \in BOOLEAN,
           UNCHANGED <<heapVars, markVars, gcVars, slabVars, pool, building>>
    PROVE  HeapInv'
<1>1. /\ UNCHANGED <<objects, kind, text, refs, immortal, marked, gray, phase, toSweep, greyed,
                     freeList, slabEnd, pool, building>>
  BY DEF heapVars, contents, markVars, gcVars, slabVars
<1>2. Allocated' = Allocated
  BY <1>1 DEF Allocated
<1>3. TypeOK' /\ NoSets'
  BY <1>1, RunFacts DEF TypeOK, NoSets
<1>4. Slots' /\ Linked' /\ Plain'
  BY <1>1, <1>2, RunFacts DEF Slots, Linked, Plain, Unique, Pointers
<1>5. MortalStringsAreUnique'
  BY <1>1, <1>2, RunFacts DEF Interned, MortalStringsAreUnique
<1>6. /\ \A t \in Texts : pool'[t] # NULL => pool'[t] \in Allocated'
      /\ \A a \in Allocated' : refs'[a] \subseteq Allocated'
      /\ \A a \in Allocated' \ immortal' :
            kind'[a] = "string" => text'[a] \in Texts /\ pool'[text'[a]] = a
  BY <1>1, <1>2, RunFacts DEF Safe, Interned
<1> QED BY <1>1, <1>2, <1>3, <1>4, <1>5, <1>6, RunFacts, RunNext

\* Steps that change what one container refers to, and may mark.
LEMMA RefsStep ==
    ASSUME HeapInv, phase = "run", NEW h \in Allocated, kind[h] # "string",
           NEW R \in SUBSET Allocated, refs' = [refs EXCEPT ![h] = R],
           NEW found \in SUBSET (Allocated \ immortal),
           marked' = marked \cup found, gray' = gray \cup found,
           stack' \in Seq(Addr), Pointers(stack') \subseteq Allocated,
           UNCHANGED <<objects, kind, text, immortal, gcVars, slabVars, pool, building, paused>>
    PROVE  HeapInv'
<1>1. UNCHANGED <<objects, kind, text, immortal, phase, toSweep, greyed, freeList, slabEnd>>
  BY DEF gcVars, slabVars
<1>2. Allocated' = Allocated /\ Allocated \subseteq Addr
  BY <1>1 DEF Allocated
<1>r. refs \in [Addr -> SUBSET Addr] /\ \A b \in Addr : refs'[b] = IF b = h THEN R ELSE refs[b]
  BY RunFacts DEF TypeOK
<1>3. TypeOK'
  <2>1. refs' \in [Addr -> SUBSET Addr]
    BY <1>2, <1>r
  <2>2. marked' \subseteq Addr /\ gray' \subseteq marked'
    BY <1>2, RunFacts DEF TypeOK
  <2> QED BY <1>1, <2>1, <2>2, RunFacts DEF TypeOK
<1>4. NoSets'
  BY <1>1, RunFacts DEF NoSets
<1>5. Slots' /\ Linked'
  BY <1>1, <1>2, RunFacts DEF Slots, Linked, Unique, Pointers
<1>6. Plain'
  BY <1>1, <1>2, <1>r, RunFacts DEF Plain, Allocated
<1>7. MortalStringsAreUnique'
  BY <1>1, <1>2, RunFacts DEF Interned, MortalStringsAreUnique
<1>8. \A a \in Allocated' : refs'[a] \subseteq Allocated'
  BY <1>2, <1>r, RunFacts DEF Safe
<1>9. /\ \A t \in Texts : pool'[t] # NULL => pool'[t] \in Allocated'
      /\ \A a \in Allocated' \ immortal' :
            kind'[a] = "string" => text'[a] \in Texts /\ pool'[text'[a]] = a
  BY <1>1, <1>2, RunFacts DEF Safe, Interned
<1>10. marked' = gray' /\ marked' \subseteq Allocated' \ immortal' /\ toSweep' = {}
  BY <1>1, <1>2, RunFacts
<1> QED BY <1>1, <1>2, <1>3, <1>4, <1>5, <1>6, <1>7, <1>8, <1>9, <1>10, RunNext

\* An allocation, from the free list or from a new slab, lands on a slot
\* without an object.
LEMMA AllocShape ==
    ASSUME HeapInv, phase = "run", NEW a \in Addr, AllocateFromSlab(a)
    PROVE  /\ a \notin Allocated /\ a \in 1 .. slabEnd' /\ slabEnd' \in 0 .. MaxSlots
           /\ slabEnd <= slabEnd'
           /\ freeList' \in Seq(Addr) /\ Unique(freeList')
           /\ Pointers(freeList') = (1 .. slabEnd') \ (Allocated \cup {a})
<1>t. /\ freeList \in Seq(Addr) /\ slabEnd \in 0 .. MaxSlots /\ slabEnd \in Nat
      /\ MaxSlots \in Nat /\ SlabCapacity \in Nat \ {0}
      /\ Slots
  BY RunFacts, SlabAssumption DEF TypeOK
<1>1. CASE freeList # <<>>
  <2>1. a = Head(freeList) /\ freeList' = Tail(freeList) /\ slabEnd' = slabEnd
    BY <1>1 DEF AllocateFromSlab
  <2>2. /\ Head(freeList) \in Pointers(freeList) /\ Tail(freeList) \in Seq(Addr)
        /\ Unique(Tail(freeList))
        /\ Pointers(Tail(freeList)) = Pointers(freeList) \ {Head(freeList)}
    BY <1>t, <1>1, TakeFirst DEF Slots
  <2>3. a \in 1 .. slabEnd /\ a \notin Allocated
    BY <1>t, <2>1, <2>2 DEF Slots
  <2>4. Pointers(freeList') = (1 .. slabEnd') \ (Allocated \cup {a})
    BY <1>t, <2>1, <2>2 DEF Slots
  <2> QED BY <1>t, <2>1, <2>2, <2>3, <2>4
<1>2. CASE freeList = <<>>
  <2>1. /\ slabEnd + SlabCapacity <= MaxSlots /\ a = Head(NewSlab)
        /\ freeList' = Tail(NewSlab) /\ slabEnd' = slabEnd + SlabCapacity
    BY <1>2 DEF AllocateFromSlab
  <2>2. 1 .. slabEnd \subseteq Allocated
    <3>1. Pointers(freeList) = {}
      BY <1>2 DEF Pointers
    <3> QED BY <1>t, <3>1 DEF Slots
  <2> DEFINE f == NewSlab
             c == SlabCapacity
  <2>3. \A i \in 1 .. c : f[i] = slabEnd + i /\ slabEnd + i \in Addr
    BY <1>t, <2>1 DEF NewSlab, Addr
  <2>4. f \in [1 .. c -> Addr]
    BY <1>t, <2>1 DEF NewSlab, Addr
  <2>5. f \in Seq(Addr) /\ Len(f) = c
    <3> HIDE DEF f
    <3> QED BY <1>t, <2>4, FunSeq
  <2>d. DOMAIN f = 1 .. c
    BY DEF NewSlab
  <2> HIDE DEF f, c
  <2>c. c = SlabCapacity /\ c \in Nat \ {0}
    BY <1>t DEF c
  <2>6. Unique(f)
    BY <1>t, <2>3, <2>5, <2>c DEF Unique
  <2>7. Pointers(f) = slabEnd + 1 .. slabEnd + c
    <3>1. \A i \in 1 .. c : f[i] \in slabEnd + 1 .. slabEnd + c
      BY <1>t, <2>3, <2>c
    <3>2. ASSUME NEW b \in slabEnd + 1 .. slabEnd + c PROVE b \in Pointers(f)
      <4> DEFINE i == b - slabEnd
      <4>1. i \in 1 .. c /\ slabEnd + i = b
        BY <1>t, <2>c
      <4> HIDE DEF i
      <4> QED BY <2>3, <2>d, <4>1 DEF Pointers
    <3> QED BY <2>d, <3>1, <3>2 DEF Pointers
  <2>8. f # <<>>
    BY <2>5, <2>c
  <2>9. /\ Head(f) \in Pointers(f) /\ Tail(f) \in Seq(Addr) /\ Unique(Tail(f))
        /\ Pointers(Tail(f)) = Pointers(f) \ {Head(f)}
    BY <2>5, <2>6, <2>8, TakeFirst
  <2>10. a = Head(f) /\ freeList' = Tail(f) /\ slabEnd' = slabEnd + c
    BY <2>1, <2>c DEF f
  <2>11. Allocated \subseteq 1 .. slabEnd
    BY <1>t DEF Slots
  <2>12. a \in slabEnd + 1 .. slabEnd + c
    BY <2>7, <2>9, <2>10
  <2>13. a \notin Allocated /\ a \in 1 .. slabEnd'
    BY <1>t, <2>c, <2>10, <2>11, <2>12
  <2>14. slabEnd' \in 0 .. MaxSlots /\ slabEnd <= slabEnd'
    BY <1>t, <2>1, <2>c, <2>10
  <2>15. Pointers(freeList') = (1 .. slabEnd') \ (Allocated \cup {a})
    <3>1. Pointers(freeList') = (slabEnd + 1 .. slabEnd + c) \ {a}
      BY <2>7, <2>9, <2>10
    <3>2. (1 .. slabEnd + c) \ Allocated = slabEnd + 1 .. slabEnd + c
      BY <1>t, <2>2, <2>c, <2>11
    <3> QED BY <2>10, <3>1, <3>2
  <2> QED BY <2>9, <2>10, <2>13, <2>14, <2>15
<1> QED BY <1>1, <1>2

\* A new object, on top of the stack; if it is a string, its text was not in
\* the pool before, so that no other string of the script has that text.
LEMMA PlaceStep ==
    ASSUME HeapInv, phase = "run", NEW a \in Addr, NEW k, NEW t, PlaceObject(a, k, t),
           k \in (Containers \ {"set"}) \cup {"string"}, t \in Texts \cup {NULL},
           refs' = [b \in Addr |-> IF b = a THEN {} ELSE refs[b]],
           stack' = Append(stack, a), building' = NULL, UNCHANGED <<gcVars, paused>>,
           \/ k # "string" /\ pool' = pool
           \/ k = "string" /\ t \in Texts /\ pool[t] = NULL /\ pool' = [pool EXCEPT ![t] = a]
    PROVE  HeapInv'
<1>f. /\ TypeOK /\ NoSets /\ Slots /\ Linked /\ Plain /\ Safe /\ Coloured /\ Interned
      /\ Survivors = Allocated /\ toSweep = {} /\ marked = gray
      /\ marked \subseteq Allocated \ immortal
      /\ Allocated \subseteq Addr /\ immortal \subseteq Allocated
  BY RunFacts
<1>1. /\ a \notin Allocated /\ a \in 1 .. slabEnd' /\ slabEnd' \in 0 .. MaxSlots
      /\ slabEnd <= slabEnd'
      /\ freeList' \in Seq(Addr) /\ Unique(freeList')
      /\ Pointers(freeList') = (1 .. slabEnd') \ (Allocated \cup {a})
  BY AllocShape DEF PlaceObject
<1>2. /\ objects' = objects \cup {a} /\ kind' = [kind EXCEPT ![a] = k]
      /\ text' = [text EXCEPT ![a] = t] /\ immortal' = immortal \ {a}
      /\ marked' = marked \ {a} /\ gray' = gray
      /\ phase' = phase /\ toSweep' = toSweep /\ greyed' = greyed /\ paused' = paused
  BY DEF PlaceObject, gcVars
<1>3. a \notin immortal /\ a \notin marked /\ immortal' = immortal /\ marked' = marked
  BY <1>f, <1>1, <1>2
<1>k. /\ k # "none" /\ k # "set" /\ kind' \in [Addr -> {"none", "string"} \cup Containers]
      /\ \A b \in Addr : kind'[b] = IF b = a THEN k ELSE kind[b]
      /\ \A b \in Addr : text'[b] = IF b = a THEN t ELSE text[b]
      /\ text' \in [Addr -> Texts \cup {NULL}]
  BY <1>f, <1>2 DEF TypeOK, Containers
<1>4. Allocated' = Allocated \cup {a}
  BY <1>k DEF Allocated
<1>5. stack' \in Seq(Addr) /\ Pointers(stack') = Pointers(stack) \cup {a}
  BY <1>f, PointersOfPush DEF TypeOK
<1>r. refs' \in [Addr -> SUBSET Addr] /\ \A b \in Addr : refs'[b] = IF b = a THEN {} ELSE refs[b]
  BY <1>f DEF TypeOK
<1>p. /\ pool' \in [Texts -> Addr \cup {NULL}]
      /\ \A s \in Texts : pool'[s] = pool[s] \/ (s = t /\ pool'[s] = a /\ pool[s] = NULL)
  BY <1>f DEF TypeOK
<1>6. TypeOK'
  <2>1. objects' \subseteq Addr /\ immortal' \subseteq Addr /\ marked' \subseteq Addr
        /\ gray' \subseteq marked' /\ toSweep' \subseteq objects' /\ greyed' \subseteq Addr
        /\ paused' \in BOOLEAN /\ building' \in Addr \cup {NULL}
        /\ phase' \in {"run", "trace", "sweep", "down", "crashed"}
    BY <1>f, <1>2, <1>3 DEF TypeOK
  <2> QED BY <1>1, <1>k, <1>5, <1>r, <1>p, <2>1 DEF TypeOK
<1>7. NoSets'
  BY <1>f, <1>2, <1>k DEF NoSets
<1>8. Slots'
  <2>1. Allocated' \subseteq 1 .. slabEnd'
    <3>1. 1 .. slabEnd \subseteq 1 .. slabEnd'
      BY <1>f, <1>1 DEF TypeOK
    <3> QED BY <1>f, <1>1, <1>4, <3>1 DEF Slots
  <2> QED BY <1>1, <1>4, <2>1 DEF Slots, Unique, Pointers
<1>9. Linked'
  BY <1>f, <1>2, <1>3, <1>4 DEF Linked
<1>10. Plain'
  BY <1>f, <1>1, <1>3, <1>k, <1>r DEF Plain, Allocated
<1>11. MortalStringsAreUnique'
  <2> SUFFICES ASSUME NEW b \in Allocated' \ immortal', NEW d \in Allocated' \ immortal',
                      kind'[b] = "string", kind'[d] = "string", text'[b] = text'[d]
               PROVE  b = d
    BY DEF MortalStringsAreUnique
  <2>1. ASSUME NEW e \in Allocated \ immortal, kind[e] = "string", text[e] = t, k = "string"
        PROVE  FALSE
    <3>1. pool[t] = e /\ pool[t] = NULL
      BY <1>f, <2>1 DEF Interned
    <3> QED BY <1>f, <3>1, NullAssumption
  <2>2. CASE b = a /\ d # a
    BY <1>3, <1>4, <1>k, <1>f, <2>1, <2>2
  <2>3. CASE b # a /\ d = a
    BY <1>3, <1>4, <1>k, <1>f, <2>1, <2>3
  <2>4. CASE b # a /\ d # a
    BY <1>3, <1>4, <1>k, <1>f, <2>4 DEF Interned, MortalStringsAreUnique
  <2> QED BY <2>2, <2>3, <2>4
<1>12. \A s \in Texts : pool'[s] # NULL => pool'[s] \in Allocated'
  BY <1>f, <1>4, <1>p DEF Safe
<1>13. \A b \in Allocated' : refs'[b] \subseteq Allocated'
  BY <1>f, <1>4, <1>r DEF Safe
<1>14. ASSUME NEW b \in Allocated' \ immortal', kind'[b] = "string"
       PROVE  text'[b] \in Texts /\ pool'[text'[b]] = b
  <2>1. CASE b = a
    BY <1>f, <1>k, <1>14, <2>1 DEF TypeOK
  <2>2. CASE b # a
    <3>1. text[b] \in Texts /\ pool[text[b]] = b /\ text'[b] = text[b]
      BY <1>f, <1>3, <1>4, <1>k, <1>14, <2>2 DEF Interned
    <3>2. b # NULL
      BY <1>f, <1>4, <2>2, NullAssumption
    <3> QED BY <1>p, <3>1, <3>2
  <2> QED BY <2>1, <2>2
<1>15. Pointers(stack') \subseteq Allocated'
  BY <1>f, <1>4, <1>5 DEF Safe
<1>16. /\ phase' = "run" /\ toSweep' = {} /\ marked' = gray'
       /\ marked' \subseteq Allocated' \ immortal'
  BY <1>f, <1>2, <1>3, <1>4
<1> QED BY <1>6, <1>7, <1>8, <1>9, <1>10, <1>11, <1>12, <1>13, <1>14, <1>15, <1>16, RunNext

-----------------------------------------------------------------------------
(***************************************************************************)
(* What the script does preserves HeapInv.                                 *)
(***************************************************************************)
\* new_array, new_object_table.
LEMMA NewObjectKeeps ==
    ASSUME HeapInv, "set" \notin Kinds, NEW k \in Containers, NewObject(k)
    PROVE  HeapInv'
<1>1. phase = "run" /\ building = NULL
  BY RunFacts DEF NewObject, Running, NoSets
<1>2. k \in Kinds /\ k # "set" /\ k # "string" /\ UNCHANGED <<pool, paused, gcVars>>
  BY <1>1 DEF NewObject, Containers
<1>3. PICK a \in Addr :
        /\ PlaceObject(a, k, NULL)
        /\ refs' = [b \in Addr |-> CASE b = a -> {}
                                     [] b = building -> {a}
                                     [] OTHER -> refs[b]]
        /\ stack' = Append(stack, a)
        /\ building' = NULL
  BY <1>1, <1>2 DEF NewObject
<1>4. refs' = [b \in Addr |-> IF b = a THEN {} ELSE refs[b]]
  BY <1>1, <1>3, NullAssumption
<1> QED BY <1>1, <1>2, <1>3, <1>4, PlaceStep

\* A string that is interned already is pushed, another is made.
LEMMA CopyStringKeeps ==
    ASSUME HeapInv, NEW t \in Texts, CopyString(t)
    PROVE  HeapInv'
<1>1. phase = "run" /\ building = NULL /\ building' = building /\ UNCHANGED <<paused, gcVars>>
  BY DEF CopyString, Idle, Running
<1>f. TypeOK /\ Safe /\ Survivors = Allocated /\ Allocated \subseteq Addr
  BY <1>1, RunFacts
<1>2. CASE pool[t] # NULL
  <2>1. stack' = Append(stack, pool[t]) /\ UNCHANGED <<heapVars, markVars, slabVars, pool>>
    BY <1>2 DEF CopyString
  <2>2. pool[t] \in Allocated
    BY <1>f, <1>2 DEF Safe
  <2>3. stack' \in Seq(Addr) /\ Pointers(stack') = Pointers(stack) \cup {pool[t]}
    BY <1>f, <2>1, <2>2, PointersOfPush DEF TypeOK
  <2>4. Pointers(stack') \subseteq Allocated
    BY <1>f, <2>2, <2>3 DEF Safe
  <2>5. paused' \in BOOLEAN
    BY <1>f, <1>1 DEF TypeOK
  <2> QED BY <1>1, <2>1, <2>3, <2>4, <2>5, StackStep
<1>3. CASE pool[t] = NULL
  <2>1. PICK a \in Addr :
          /\ PlaceObject(a, "string", t)
          /\ refs' = [refs EXCEPT ![a] = {}]
          /\ pool' = [pool EXCEPT ![t] = a]
          /\ stack' = Append(stack, a)
    BY <1>3 DEF CopyString
  <2>2. refs' = [b \in Addr |-> IF b = a THEN {} ELSE refs[b]]
    BY <1>f, <2>1 DEF TypeOK
  <2> QED BY <1>1, <1>3, <2>1, <2>2, PlaceStep
<1> QED BY <1>2, <1>3

\* What leaves the stack need not be reachable any more.
LEMMA PopKeeps ==
    ASSUME HeapInv, Pop
    PROVE  HeapInv'
<1>1. /\ phase = "run" /\ stack # <<>> /\ stack' = SubSeq(stack, 1, Len(stack) - 1)
      /\ UNCHANGED <<heapVars, markVars, gcVars, slabVars, pool, building, paused>>
  BY DEF Pop, Idle, Running
<1>2. stack \in Seq(Addr) /\ Pointers(stack) \subseteq Allocated /\ paused \in BOOLEAN
  BY <1>1, RunFacts DEF TypeOK, Safe
<1>3. stack' \in Seq(Addr) /\ Pointers(stack') \subseteq Allocated
  BY <1>1, <1>2, PointersOfPop
<1> QED BY <1>1, <1>2, <1>3, StackStep

\* What is on top of the stack, and below it.
LEMMA TopIs ==
    ASSUME HeapInv, phase = "run", stack # <<>>
    PROVE  /\ Top \in Allocated /\ Top \in Addr /\ Holder(Top) = Top
           /\ Len(stack) >= 2 =>
                 /\ stack[Len(stack) - 1] \in Allocated
                 /\ Holder(stack[Len(stack) - 1]) = stack[Len(stack) - 1]
<1>1. /\ stack \in Seq(Addr) /\ Pointers(stack) \subseteq Allocated /\ Allocated \subseteq Addr
      /\ NoSets
  BY RunFacts DEF TypeOK, Safe
<1>2. Len(stack) \in Nat \ {0} /\ \A i \in 1 .. Len(stack) : stack[i] \in Allocated
  BY <1>1, StackTop, PointersIn
<1>3. Len(stack) \in 1 .. Len(stack) /\ (Len(stack) >= 2 => Len(stack) - 1 \in 1 .. Len(stack))
  BY <1>2
<1>4. \A a \in Allocated : Holder(a) = a
  BY <1>1 DEF Holder, NoSets
<1> QED BY <1>1, <1>2, <1>3, <1>4 DEF Top

\* What is loaded was reachable before.
LEMMA LoadKeeps ==
    ASSUME HeapInv, Load
    PROVE  HeapInv'
<1>1. /\ phase = "run" /\ stack # <<>>
      /\ UNCHANGED <<heapVars, markVars, gcVars, slabVars, pool, building, paused>>
  BY DEF Load, Idle, Running
<1>2. PICK v \in Pointers(stack) \cup (IF IsContainer(Top) THEN refs[Holder(Top)] ELSE {}) :
         stack' = Append(stack, v)
  BY DEF Load
<1>3. /\ stack \in Seq(Addr) /\ Pointers(stack) \subseteq Allocated /\ paused \in BOOLEAN
      /\ Allocated \subseteq Addr /\ \A a \in Allocated : refs[a] \subseteq Allocated
  BY <1>1, RunFacts DEF TypeOK, Safe
<1>4. v \in Allocated
  BY <1>1, <1>2, <1>3, TopIs
<1>5. stack' \in Seq(Addr) /\ Pointers(stack') = Pointers(stack) \cup {v}
  BY <1>2, <1>3, <1>4, PointersOfPush
<1>6. Pointers(stack') \subseteq Allocated
  BY <1>3, <1>4, <1>5
<1> QED BY <1>1, <1>3, <1>5, <1>6, StackStep

\* What is stored was on the stack; with the barrier it is marked and gray.
LEMMA StoreKeeps ==
    ASSUME HeapInv, NEW barrier \in BOOLEAN, Store(barrier)
    PROVE  HeapInv'
<1> DEFINE h == stack[Len(stack) - 1]
           found == IF barrier THEN Unmarked({Top}) ELSE {}
           R == refs[h] \cup {Top}
<1>1. /\ phase = "run" /\ Len(stack) >= 2 /\ IsContainer(h)
      /\ refs' = [refs EXCEPT ![Holder(h)] = @ \cup {Top}]
      /\ marked' = marked \cup found /\ gray' = gray \cup found
      /\ stack' = SubSeq(stack, 1, Len(stack) - 1)
      /\ UNCHANGED <<objects, kind, text, immortal, gcVars, slabVars, pool, building, paused>>
  BY DEF Store, Idle, Running
<1>2. stack # <<>>
  BY <1>1, EmptySeq
<1>3. /\ stack \in Seq(Addr) /\ Pointers(stack) \subseteq Allocated
      /\ \A a \in Allocated : refs[a] \subseteq Allocated
  BY <1>1, RunFacts DEF TypeOK, Safe
<1>4. Top \in Allocated /\ h \in Allocated /\ Holder(h) = h
  BY <1>1, <1>2, TopIs
<1>5. kind[h] # "string" /\ refs' = [refs EXCEPT ![h] = R] /\ R \in SUBSET Allocated
  BY <1>1, <1>3, <1>4 DEF IsContainer, Containers
<1>6. found \in SUBSET (Allocated \ immortal)
  BY <1>4 DEF Unmarked
<1>7. stack' \in Seq(Addr) /\ Pointers(stack') \subseteq Allocated
  BY <1>1, <1>2, <1>3, PointersOfPop
<1> HIDE DEF h, found, R
<1> QED BY <1>1, <1>4, <1>5, <1>6, <1>7, RefsStep

\* A container refers to less than before.
LEMMA UnstoreKeeps ==
    ASSUME HeapInv, Unstore
    PROVE  HeapInv'
<1>1. /\ phase = "run" /\ stack # <<>> /\ IsContainer(Top)
      /\ UNCHANGED <<objects, kind, text, immortal, markVars, gcVars, slabVars, scriptVars>>
  BY DEF Unstore, Idle, Running
<1>2. Top \in Allocated /\ Holder(Top) = Top
  BY <1>1, TopIs
<1>3. PICK v \in refs[Top] : refs' = [refs EXCEPT ![Top] = @ \ {v}]
  BY <1>2 DEF Unstore
<1>4. /\ stack \in Seq(Addr) /\ Pointers(stack) \subseteq Allocated
      /\ \A a \in Allocated : refs[a] \subseteq Allocated
  BY <1>1, RunFacts DEF TypeOK, Safe
<1> DEFINE R == refs[Top] \ {v}
           found == {}
           h == Top
<1>5. /\ kind[h] # "string" /\ refs' = [refs EXCEPT ![h] = R] /\ R \in SUBSET Allocated
      /\ h \in Allocated
  BY <1>1, <1>2, <1>3, <1>4 DEF IsContainer, Containers
<1>6. /\ found \in SUBSET (Allocated \ immortal)
      /\ marked' = marked \cup found /\ gray' = gray \cup found
      /\ UNCHANGED <<objects, kind, text, immortal, gcVars, slabVars, pool, building, paused>>
      /\ stack' \in Seq(Addr) /\ Pointers(stack') \subseteq Allocated
  BY <1>1, <1>4 DEF markVars, scriptVars
<1> HIDE DEF R, found, h
<1> QED BY <1>1, <1>5, <1>6, RefsStep

\* gc.gc_off and gc.gc_on change no object.
LEMMA PauseKeeps ==
    ASSUME HeapInv, NEW b \in BOOLEAN, Pause(b)
    PROVE  HeapInv'
<1>1. /\ phase = "run" /\ paused' \in BOOLEAN /\ stack' = stack
      /\ UNCHANGED <<heapVars, markVars, gcVars, slabVars, pool, building>>
  BY DEF Pause, Idle, Running
<1>2. stack \in Seq(Addr) /\ Pointers(stack) \subseteq Allocated
  BY <1>1, RunFacts DEF TypeOK, Safe
<1> QED BY <1>1, <1>2, StackStep

\* After free_vm no object of the script is left.
LEMMA ShutdownKeeps ==
    ASSUME HeapInv, Shutdown
    PROVE  HeapInv'
<1>1. /\ phase = "run" /\ phase' = "down" /\ objects' = {}
      /\ kind' = [a \in Addr |-> IF a \in objects THEN "none" ELSE kind[a]]
      /\ UNCHANGED <<text, refs, immortal, marked, gray, freeList, slabEnd, stack, pool,
                     building, paused, toSweep, greyed>>
  BY DEF Shutdown, Idle, Running, markVars, slabVars, scriptVars
<1>f. /\ TypeOK /\ NoSets /\ Linked /\ Slots /\ toSweep = {} /\ Allocated \subseteq Addr
  BY <1>1, RunFacts
<1>2. kind' \in [Addr -> {"none", "string"} \cup Containers]
  BY <1>1, <1>f DEF TypeOK
<1>3. TypeOK'
  BY <1>1, <1>2, <1>f DEF TypeOK
<1>4. NoSets'
  BY <1>1, <1>f DEF NoSets
<1>5. Unique(freeList)'
  BY <1>1, <1>f DEF Slots, Unique
<1>6. Allocated' \ immortal' = {}
  BY <1>1, <1>f DEF Linked, Allocated
<1>7. MortalStringsAreUnique'
  BY <1>6 DEF MortalStringsAreUnique
<1> QED BY <1>1, <1>3, <1>4, <1>5, <1>7 DEF HeapInv

-----------------------------------------------------------------------------
(***************************************************************************)
(* Marking and tracing: the objects do not change, and marked objects are  *)
(* allocated and reachable.                                                *)
(***************************************************************************)
LEMMA TraceFacts ==
    ASSUME HeapInv, phase \in {"run", "trace"}
    PROVE  /\ TypeOK /\ NoSets /\ Slots /\ Linked /\ Plain /\ Safe /\ Coloured /\ Interned
           /\ Survivors = Allocated /\ toSweep = {}
           /\ marked \subseteq Allocated \ immortal
           /\ Allocated \subseteq Addr /\ immortal \subseteq Allocated
           /\ Roots \subseteq Allocated
<1>1. TypeOK /\ NoSets /\ Slots /\ Linked /\ Plain /\ Safe /\ Coloured /\ Interned
  BY DEF HeapInv
<1>2. toSweep = {} /\ marked \subseteq Allocated \ immortal
  BY <1>1 DEF Coloured
<1>3. Allocated \subseteq Addr /\ Survivors = Allocated
  BY <1>2 DEF Allocated, Survivors, Doomed
<1>4. immortal \subseteq Allocated
  BY <1>1 DEF Plain, Allocated, TypeOK
<1>5. Roots \subseteq Allocated
  BY <1>1, <1>3 DEF Roots, Safe
<1> QED BY <1>1, <1>2, <1>3, <1>4, <1>5

\* To restore HeapInv while the collector traces it is enough that the
\* colours are right.
LEMMA TraceStep ==
    ASSUME HeapInv, phase \in {"run", "trace"}, phase' = "trace",
           UNCHANGED <<heapVars, slabVars, scriptVars, toSweep>>,
           marked' \subseteq Allocated \ immortal, gray' \subseteq marked',
           greyed' \subseteq marked', Roots \subseteq marked' \cup immortal,
           \A a \in marked' \ gray' : refs[a] \subseteq marked' \cup immortal,
           marked' \subseteq ReachIn(refs, Roots \cup greyed')
    PROVE  HeapInv'
<1>1. UNCHANGED <<objects, kind, text, refs, immortal, freeList, slabEnd, stack, pool,
                  building, paused, toSweep>>
  BY DEF heapVars, contents, slabVars, scriptVars
<1>f. /\ TypeOK /\ NoSets /\ Slots /\ Linked /\ Plain /\ Safe /\ Interned
      /\ Survivors = Allocated /\ toSweep = {} /\ Allocated \subseteq Addr
  BY TraceFacts
<1>2. Allocated' = Allocated /\ Roots' = Roots
  BY <1>1 DEF Allocated, Roots, Pointers
<1>3. Survivors' = Survivors
  BY <1>1, <1>2, <1>f DEF Survivors, Doomed
<1>4. TypeOK'
  BY <1>1, <1>f DEF TypeOK
<1>5. NoSets'
  BY <1>1, <1>f DEF NoSets
<1>6. Slots' /\ Linked' /\ Plain'
  BY <1>1, <1>2, <1>f DEF Slots, Linked, Plain, Unique, Pointers
<1>7. Safe'
  BY <1>1, <1>3, <1>f DEF Safe, Pointers
<1>8. Coloured'
  BY <1>1, <1>2, <1>f DEF Coloured
<1>9. Interned'
  BY <1>1, <1>2, <1>3, <1>f DEF Interned, MortalStringsAreUnique
<1>10. Unique(freeList)'
  BY <1>6 DEF Slots
<1>11. MortalStringsAreUnique'
  BY <1>9 DEF Interned
<1> QED BY <1>4, <1>5, <1>6, <1>7, <1>8, <1>9, <1>10, <1>11 DEF HeapInv

\* After mark_roots every marked object is gray: at its start, by HeapInv, the
\* marked objects were those the stores had greyed.
LEMMA MarkRootsKeeps ==
    ASSUME HeapInv, MarkRoots
    PROVE  HeapInv'
<1>1. /\ phase = "run" /\ phase' = "trace" /\ greyed' = gray
      /\ marked' = marked \cup Unmarked(Roots) /\ gray' = gray \cup Unmarked(Roots)
      /\ UNCHANGED <<heapVars, slabVars, scriptVars, toSweep>>
  BY DEF MarkRoots, Running
<1>2. /\ Roots \subseteq Allocated /\ Allocated \subseteq Addr /\ marked = gray
      /\ marked \subseteq Allocated \ immortal
  BY <1>1, TraceFacts, RunFacts
<1>3. /\ marked' \subseteq Allocated \ immortal /\ gray' \subseteq marked'
      /\ greyed' \subseteq marked' /\ Roots \subseteq marked' \cup immortal
      /\ marked' \ gray' = {} /\ marked' \subseteq Roots \cup greyed'
  BY <1>1, <1>2 DEF Unmarked
<1>4. Roots \cup greyed' \subseteq ReachIn(refs, Roots \cup greyed')
  BY <1>1, <1>2, ReachStart
<1>5. marked' \subseteq ReachIn(refs, Roots \cup greyed')
  BY <1>3, <1>4
<1> QED BY <1>1, <1>3, <1>5, TraceStep

\* Before an object stops being gray all it refers to is marked.
LEMMA BlackenKeeps ==
    ASSUME HeapInv, NEW a \in Addr, BlackenObject(a)
    PROVE  HeapInv'
<1> DEFINE found == Unmarked(refs[a])
<1>f. /\ phase = "trace" /\ TypeOK /\ NoSets /\ Safe /\ Coloured
      /\ Survivors = Allocated /\ Allocated \subseteq Addr
      /\ marked \subseteq Allocated \ immortal
  BY TraceFacts DEF BlackenObject
<1>1. /\ a \in gray /\ phase' = "trace" /\ greyed' = greyed
      /\ marked' = marked \cup found /\ gray' = (gray \ {a}) \cup found
      /\ UNCHANGED <<heapVars, slabVars, scriptVars, toSweep>>
  <2>1. Children(a) = refs[a] /\ a # building
    BY <1>f, NullAssumption DEF Children, NoSets
  <2> QED BY <2>1 DEF BlackenObject
<1>2. /\ a \in marked /\ a \in Allocated /\ refs[a] \subseteq Allocated
      /\ gray \subseteq marked
      /\ Roots \subseteq marked \cup immortal
      /\ \A b \in marked \ gray : refs[b] \subseteq marked \cup immortal
      /\ greyed \subseteq marked
      /\ marked \subseteq ReachIn(refs, Roots \cup greyed)
      /\ refs \in [Addr -> SUBSET Addr]
  BY <1>1, <1>f DEF TypeOK, Safe, Coloured
<1>3. refs[a] \subseteq ReachIn(refs, Roots \cup greyed)
  BY <1>2, ReachStep
<1>4. found \subseteq refs[a] /\ found \cap immortal = {} /\ refs[a] \subseteq marked' \cup immortal
  BY <1>1 DEF Unmarked
<1> HIDE DEF found
<1>5. /\ marked' \subseteq Allocated \ immortal /\ gray' \subseteq marked'
      /\ greyed' \subseteq marked' /\ Roots \subseteq marked' \cup immortal
      /\ marked' \subseteq ReachIn(refs, Roots \cup greyed')
  BY <1>f, <1>1, <1>2, <1>3, <1>4
<1>6. ASSUME NEW b \in marked' \ gray' PROVE refs[b] \subseteq marked' \cup immortal
  BY <1>1, <1>2, <1>4, <1>6
<1> QED BY <1>f, <1>1, <1>5, <1>6, TraceStep

-----------------------------------------------------------------------------
(***************************************************************************)
(* The sweep. When it starts the marked and immortal objects are closed    *)
(* under references, and hold all the stack refers to; they survive. Each  *)
(* object it comes to loses its mark, leaves the list, or is freed; the    *)
(* survivors stay the same.                                                *)
(***************************************************************************)
\* The pool loses the strings that are about to be freed.
LEMMA RemoveWhiteKeeps ==
    ASSUME HeapInv, RemoveWhite
    PROVE  HeapInv'
<1>1. /\ phase = "trace" /\ gray = {} /\ phase' = "sweep" /\ toSweep' = objects
      /\ pool' = [t \in Texts |-> IF pool[t] \in marked THEN pool[t] ELSE NULL]
      /\ UNCHANGED <<objects, kind, text, refs, immortal, marked, gray, freeList, slabEnd,
                     stack, building, paused, greyed>>
  BY DEF RemoveWhite, heapVars, contents, markVars, slabVars
<1>f. /\ TypeOK /\ NoSets /\ Slots /\ Linked /\ Plain /\ Safe /\ Coloured /\ Interned
      /\ Survivors = Allocated /\ Allocated \subseteq Addr /\ immortal \subseteq Allocated
      /\ marked \subseteq Allocated \ immortal
  BY <1>1, TraceFacts
<1>2. Allocated' = Allocated
  BY <1>1 DEF Allocated
<1>3. Survivors' = marked \cup immortal
  BY <1>1, <1>2, <1>f DEF Survivors, Doomed, Linked
<1>p. /\ pool' \in [Texts -> Addr \cup {NULL}]
      /\ \A t \in Texts : pool'[t] # NULL => pool'[t] \in marked
  BY <1>1, <1>f DEF TypeOK
<1>4. TypeOK'
  BY <1>1, <1>p, <1>f DEF TypeOK
<1>5. NoSets'
  BY <1>1, <1>f DEF NoSets
<1>6. Slots' /\ Linked' /\ Plain'
  BY <1>1, <1>2, <1>f DEF Slots, Linked, Plain, Unique, Pointers
<1>7. Safe'
  <2>1. Pointers(stack) \subseteq marked \cup immortal
    BY <1>1, <1>f DEF Coloured, Roots
  <2>2. \A a \in marked : refs[a] \subseteq marked \cup immortal
    BY <1>1, <1>f DEF Coloured
  <2>3. \A a \in immortal : refs[a] = {}
    BY <1>f DEF Plain
  <2> QED BY <1>1, <1>3, <1>p, <2>1, <2>2, <2>3 DEF Safe, Pointers
<1>8. Coloured'
  BY <1>1, <1>2, <1>f DEF Coloured, Linked
<1>9. MortalStringsAreUnique'
  BY <1>1, <1>2, <1>f DEF Interned, MortalStringsAreUnique
<1>10. Interned'
  <2>1. ASSUME NEW a \in Survivors' \ immortal', kind'[a] = "string"
        PROVE  text'[a] \in Texts /\ pool'[text'[a]] = a
    <3>1. a \in marked /\ text[a] \in Texts /\ pool[text[a]] = a
      BY <1>1, <1>3, <1>f, <2>1 DEF Interned
    <3> QED BY <1>1, <3>1
  <2> QED BY <1>9, <2>1 DEF Interned
<1>11. Unique(freeList)'
  BY <1>6 DEF Slots
<1> QED BY <1>1, <1>4, <1>5, <1>6, <1>7, <1>8, <1>9, <1>10, <1>11 DEF HeapInv

\* What HeapInv comes to during a sweep.
LEMMA SweepFacts ==
    ASSUME HeapInv, phase = "sweep"
    PROVE  /\ TypeOK /\ NoSets /\ Slots /\ Linked /\ Plain /\ Safe /\ Interned
           /\ gray = {} /\ marked \subseteq toSweep /\ toSweep \subseteq Allocated
           /\ marked \subseteq Allocated \ immortal
           /\ Allocated \subseteq Addr /\ immortal \subseteq Allocated
<1>1. TypeOK /\ NoSets /\ Slots /\ Linked /\ Plain /\ Safe /\ Coloured /\ Interned
  BY DEF HeapInv
<1>2. gray = {} /\ marked \subseteq toSweep /\ marked \subseteq Allocated \ immortal
  BY <1>1 DEF Coloured
<1>3. toSweep \subseteq Allocated
  BY <1>1 DEF TypeOK, Linked
<1>4. Allocated \subseteq Addr /\ immortal \subseteq Allocated
  BY <1>1 DEF Plain, Allocated, TypeOK
<1> QED BY <1>1, <1>2, <1>3, <1>4

\* To restore HeapInv while sweeping it is enough that the survivors stay, as
\* they are.
LEMMA SweepStep ==
    ASSUME HeapInv, phase = "sweep", phase' = "sweep",
           TypeOK', Slots', Linked', Survivors' = Survivors, Allocated' \subseteq Allocated,
           gray' = {}, marked' \subseteq toSweep', marked' \subseteq Allocated' \ immortal,
           UNCHANGED <<immortal, stack, pool, building>>,
           \A b \in Addr : \/ /\ kind'[b] = kind[b] /\ text'[b] = text[b]
                             /\ refs'[b] = refs[b]
                          \/ /\ kind'[b] = "none" /\ refs'[b] = {}
                             /\ b \notin immortal
    PROVE  HeapInv'
<1>f. TypeOK /\ NoSets /\ Plain /\ Safe /\ Interned /\ Allocated \subseteq Addr
  BY SweepFacts
<1>1. Survivors \subseteq Allocated'
  BY DEF Survivors
<1>2. \A b \in Allocated' : kind'[b] = kind[b] /\ text'[b] = text[b] /\ refs'[b] = refs[b]
  BY DEF Allocated
<1>3. NoSets'
  BY <1>f DEF NoSets
<1>4. Plain'
  BY <1>f DEF Plain, TypeOK
<1>5. Safe'
  BY <1>f, <1>1, <1>2 DEF Safe, Pointers
<1>6. Coloured'
  BY DEF Coloured
<1>7. MortalStringsAreUnique'
  BY <1>f, <1>2 DEF Interned, MortalStringsAreUnique
<1>8. Interned'
  BY <1>f, <1>1, <1>2, <1>7 DEF Interned
<1>9. Unique(freeList)'
  BY DEF Slots
<1> QED BY <1>3, <1>4, <1>5, <1>6, <1>7, <1>8, <1>9 DEF HeapInv

\* A marked object, an immortal one and garbage.
LEMMA SweepKeeps ==
    ASSUME HeapInv, NEW a \in Addr, SweepObject(a)
    PROVE  HeapInv'
<1>1. /\ phase = "sweep" /\ phase' = "sweep" /\ a \in toSweep /\ toSweep' = toSweep \ {a}
      /\ UNCHANGED <<immortal, stack, pool, building, paused, greyed>>
  BY DEF SweepObject, scriptVars
<1>f. /\ TypeOK /\ NoSets /\ Slots /\ Linked /\ Plain
      /\ gray = {} /\ marked \subseteq toSweep /\ toSweep \subseteq Allocated
      /\ marked \subseteq Allocated \ immortal /\ Allocated \subseteq Addr
  BY <1>1, SweepFacts
<1>2. CASE a \in marked
  <2>1. /\ marked' = marked \ {a}
        /\ UNCHANGED <<gray, objects, kind, text, refs, freeList, slabEnd>>
    BY <1>2 DEF SweepObject, contents, slabVars
  <2>2. Allocated' = Allocated
    BY <2>1 DEF Allocated
  <2>3. Survivors' = Survivors
    BY <1>1, <1>2, <2>1, <2>2 DEF Survivors, Doomed
  <2>4. TypeOK'
    BY <1>1, <1>f, <2>1 DEF TypeOK
  <2>5. Slots' /\ Linked'
    BY <1>1, <1>f, <2>1, <2>2 DEF Slots, Linked, Unique, Pointers
  <2>6. /\ gray' = {} /\ marked' \subseteq toSweep' /\ marked' \subseteq Allocated' \ immortal
    BY <1>1, <1>f, <2>1, <2>2
  <2> QED BY <1>1, <2>1, <2>2, <2>3, <2>4, <2>5, <2>6, SweepStep
<1>3. CASE a \notin marked /\ a \in immortal
  <2>1. /\ objects' = objects \ {a}
        /\ UNCHANGED <<marked, gray, kind, text, refs, freeList, slabEnd>>
    BY <1>3 DEF SweepObject, contents, slabVars, markVars
  <2>2. Allocated' = Allocated
    BY <2>1 DEF Allocated
  <2>3. Survivors' = Survivors
    BY <1>1, <1>3, <2>1, <2>2 DEF Survivors, Doomed
  <2>4. TypeOK'
    BY <1>1, <1>f, <2>1 DEF TypeOK
  <2>5. Slots' /\ Linked'
    BY <1>1, <1>3, <1>f, <2>1, <2>2 DEF Slots, Linked, Unique, Pointers
  <2>6. /\ gray' = {} /\ marked' \subseteq toSweep' /\ marked' \subseteq Allocated' \ immortal
    BY <1>1, <1>3, <1>f, <2>1, <2>2
  <2> QED BY <1>1, <2>1, <2>2, <2>3, <2>4, <2>5, <2>6, SweepStep
<1>4. CASE a \notin marked /\ a \notin immortal
  <2>1. objects' = objects \ {a} /\ FreeSlots(Freed(a)) /\ UNCHANGED <<marked, gray>>
    BY <1>4 DEF SweepObject, markVars
  <2>2. Freed(a) = <<a>>
    BY <1>f DEF Freed, NoSets
  <2>3. Pointers(<<a>>) = {a}
    BY DEF Pointers
  <2>4. /\ FreeToSlab(<<a>>)
        /\ kind' = [b \in Addr |-> IF b = a THEN "none" ELSE kind[b]]
        /\ text' = [b \in Addr |-> IF b = a THEN NULL ELSE text[b]]
        /\ refs' = [b \in Addr |-> IF b = a THEN {} ELSE refs[b]]
    BY <2>1, <2>2, <2>3 DEF FreeSlots
  <2>5. freeList' = <<a>> \o freeList /\ slabEnd' = slabEnd
    BY <2>4 DEF FreeToSlab
  <2>6. a \in Allocated
    BY <1>1, <1>f
  <2>7. Allocated' = Allocated \ {a}
    BY <2>4 DEF Allocated
  <2>8. /\ freeList' \in Seq(Addr) /\ Unique(freeList')
        /\ Pointers(freeList') = Pointers(freeList) \cup {a}
    <3>1. freeList \in Seq(Addr) /\ Unique(freeList) /\ a \notin Pointers(freeList)
      BY <1>f, <2>6 DEF TypeOK, Slots
    <3> QED BY <2>5, <3>1, PutFirst
  <2>9. Survivors' = Survivors
    BY <1>1, <1>4, <2>1, <2>7 DEF Survivors, Doomed
  <2>10. TypeOK'
    <3>1. /\ kind' \in [Addr -> {"none", "string"} \cup Containers]
          /\ text' \in [Addr -> Texts \cup {NULL}] /\ refs' \in [Addr -> SUBSET Addr]
      BY <1>f, <2>4 DEF TypeOK
    <3> QED BY <1>1, <1>f, <2>1, <2>5, <2>8, <3>1 DEF TypeOK
  <2>11. Slots'
    <3>1. a \in 1 .. slabEnd
      BY <1>f, <2>6 DEF Slots
    <3>2. Pointers(freeList') = (1 .. slabEnd') \ Allocated'
      BY <1>f, <2>5, <2>7, <2>8, <3>1 DEF Slots
    <3>3. Allocated' \subseteq 1 .. slabEnd'
      BY <1>f, <2>5, <2>7 DEF Slots
    <3>4. Unique(freeList)' /\ Pointers(freeList)' = (1 .. slabEnd') \ Allocated'
      BY <2>8, <3>2 DEF Unique, Pointers
    <3> QED BY <3>3, <3>4 DEF Slots
  <2>12. Linked'
    BY <1>1, <1>f, <2>1, <2>7 DEF Linked
  <2>13. /\ gray' = {} /\ marked' \subseteq toSweep' /\ marked' \subseteq Allocated' \ immortal
    BY <1>1, <1>4, <1>f, <2>1, <2>7
  <2>14. \A b \in Addr : \/ kind'[b] = kind[b] /\ text'[b] = text[b] /\ refs'[b] = refs[b]
                         \/ kind'[b] = "none" /\ refs'[b] = {} /\ b \notin immortal
    BY <1>4, <2>4
  <2> QED BY <1>1, <2>7, <2>9, <2>10, <2>11, <2>12, <2>13, <2>14, SweepStep
<1> QED BY <1>2, <1>3, <1>4

\* When the list has been walked no mark is left.
LEMMA EndSweepKeeps ==
    ASSUME HeapInv, EndSweep
    PROVE  HeapInv'
<1>1. /\ phase = "sweep" /\ toSweep = {} /\ phase' = "run" /\ greyed' = {}
      /\ UNCHANGED <<objects, kind, text, refs, immortal, marked, gray, freeList, slabEnd,
                     stack, pool, building, paused, toSweep>>
  BY DEF EndSweep, heapVars, contents, markVars, slabVars, scriptVars
<1>f. /\ TypeOK /\ NoSets /\ Slots /\ Linked /\ Plain /\ Safe /\ Interned
      /\ gray = {} /\ marked = {} /\ Survivors = Allocated
  <2>1. Survivors = Allocated
    BY <1>1 DEF Survivors, Doomed
  <2> QED BY <1>1, <2>1, SweepFacts
<1>2. Allocated' = Allocated
  BY <1>1 DEF Allocated
<1>3. TypeOK' /\ NoSets'
  BY <1>1, <1>f DEF TypeOK, NoSets
<1>4. Slots' /\ Linked' /\ Plain'
  BY <1>1, <1>2, <1>f DEF Slots, Linked, Plain, Unique, Pointers
<1>5. MortalStringsAreUnique'
  BY <1>1, <1>2, <1>f DEF Interned, MortalStringsAreUnique
<1>6. /\ Pointers(stack') \subseteq Allocated'
      /\ \A t \in Texts : pool'[t] # NULL => pool'[t] \in Allocated'
      /\ \A a \in Allocated' : refs'[a] \subseteq Allocated'
  BY <1>1, <1>2, <1>f DEF Safe
<1>7. \A a \in Allocated' \ immortal' :
         kind'[a] = "string" => text'[a] \in Texts /\ pool'[text'[a]] = a
  BY <1>1, <1>2, <1>f DEF Interned
<1>8. phase' = "run" /\ toSweep' = {} /\ marked' = gray' /\ marked' \subseteq Allocated' \ immortal'
  BY <1>1, <1>f
<1> QED BY <1>3, <1>4, <1>5, <1>6, <1>7, <1>8, RunNext

-----------------------------------------------------------------------------
(***************************************************************************)
(* HeapInv is inductive.                                                   *)
(***************************************************************************)
\* Every step preserves it,
LEMMA HeapStep ==
    ASSUME HeapInv, "set" \notin Kinds, [Next]_vars
    PROVE  HeapInv'
<1>1. ASSUME NEW k \in Containers, NewObject(k) PROVE HeapInv'
  BY <1>1, NewObjectKeeps
<1>2. ASSUME NEW t \in Texts, CopyString(t) PROVE HeapInv'
  BY <1>2, CopyStringKeeps
<1>3. CASE Pop
  BY <1>3, PopKeeps
<1>4. CASE Load
  BY <1>4, LoadKeeps
<1>5. CASE Unstore
  BY <1>5, UnstoreKeeps
<1>6. ASSUME NEW b \in BOOLEAN, Store(b) PROVE HeapInv'
  BY <1>6, StoreKeeps
<1>7. ASSUME NEW b \in BOOLEAN, Pause(b) PROVE HeapInv'
  BY <1>7, PauseKeeps
<1>8. CASE Shutdown
  BY <1>8, ShutdownKeeps
<1>9. CASE MarkRoots
  BY <1>9, MarkRootsKeeps
<1>10. ASSUME NEW a \in Addr, BlackenObject(a) PROVE HeapInv'
  BY <1>10, BlackenKeeps
<1>11. ASSUME NEW a \in Addr, SweepObject(a) PROVE HeapInv'
  BY <1>11, SweepKeeps
<1>12. CASE RemoveWhite
  BY <1>12, RemoveWhiteKeeps
<1>13. CASE EndSweep
  BY <1>13, EndSweepKeeps
<1>14. CASE UNCHANGED vars
  <2>1. UNCHANGED <<objects, kind, text, refs, immortal, marked, gray, phase, toSweep, greyed,
                    stack, pool, building, paused, freeList, slabEnd>>
    BY <1>14 DEF vars, heapVars, contents, markVars, gcVars, scriptVars, slabVars
  <2>2. Allocated' = Allocated /\ Doomed' = Doomed /\ Roots' = Roots
    BY <2>1 DEF Allocated, Doomed, Roots, Pointers
  <2>3. Survivors' = Survivors
    BY <2>2 DEF Survivors
  <2>4. TypeOK' = TypeOK /\ NoSets' = NoSets /\ Unique(freeList)' = Unique(freeList)
    BY <2>1 DEF TypeOK, NoSets, Unique
  <2>5. MortalStringsAreUnique' = MortalStringsAreUnique
    BY <2>1, <2>2 DEF MortalStringsAreUnique
  <2>6. Slots' = Slots /\ Linked' = Linked /\ Plain' = Plain
    BY <2>1, <2>2, <2>4 DEF Slots, Linked, Plain, Pointers
  <2>7. Safe' = Safe
    BY <2>1, <2>3 DEF Safe, Pointers
  <2>8. Coloured' = Coloured
    BY <2>1, <2>2 DEF Coloured
  <2>9. Interned' = Interned
    BY <2>1, <2>3, <2>5 DEF Interned
  <2> QED BY <2>1, <2>4, <2>5, <2>6, <2>7, <2>8, <2>9 DEF HeapInv
<1> QED
  BY <1>1, <1>2, <1>3, <1>4, <1>5, <1>6, <1>7, <1>8, <1>9, <1>10, <1>11, <1>12, <1>13, <1>14
  DEF Next, Mutator, Collector

\* The slabs of init_vm have a slot for each name of the library.
LEMMA SlabsHoldTheLibrary ==
    LibraryEnd \in Nat /\ Len(LibraryNames) \in Nat /\ Len(LibraryNames) <= LibraryEnd
<1> DEFINE n == Len(LibraryNames)
           c == SlabCapacity
           m == n + c - 1
           q == m \div c
           p == q * c
<1>1. n \in Nat /\ c \in Nat \ {0}
  BY SlabAssumption, LibraryAssumption, LenProperties
<1>2. LibraryEnd = p
  BY DEF LibraryEnd
<1> HIDE DEF n, c
<1>3. m \in Nat /\ m = n + c - 1
  BY <1>1
<1> HIDE DEF m
<1>4. q \in Nat /\ q * c <= m /\ m < q * c + c
  BY <1>1, <1>3
<1> HIDE DEF q
<1>5. p \in Nat /\ m < p + c
  BY <1>1, <1>4
<1> HIDE DEF p
<1>6. n <= p
  BY <1>1, <1>3, <1>5
<1> QED BY <1>1, <1>2, <1>5, <1>6 DEF n

\* and it holds when init_vm and initialize_std_lib are done.
LEMMA HeapStart ==
    ASSUME Init
    PROVE  HeapInv
<1> DEFINE n == Len(LibraryNames)
           e == LibraryEnd
<1>1. n \in Nat /\ e \in Nat /\ n <= e /\ e <= MaxSlots /\ MaxSlots \in Nat
  BY SlabsHoldTheLibrary, LibraryAssumption, SlabAssumption
<1>2. Library = 1 .. n /\ \A a \in Library : LibraryNames[a] \in Texts
  BY LibraryAssumption, LenProperties, ElementOfSeq DEF Library
<1>3. /\ slabEnd = e /\ freeList = [i \in 1 .. e - n |-> n + i]
      /\ objects = Library /\ immortal = Library
      /\ kind = [a \in Addr |-> IF a \in Library THEN "string" ELSE "none"]
      /\ text = [a \in Addr |-> IF a \in Library THEN LibraryNames[a] ELSE NULL]
      /\ refs = [a \in Addr |-> {}]
      /\ marked = {} /\ gray = {} /\ stack = <<>> /\ building = NULL /\ paused = FALSE
      /\ phase = "run" /\ toSweep = {} /\ greyed = {}
      /\ pool = [t \in Texts |-> IF \E a \in Library : LibraryNames[a] = t
                                 THEN CHOOSE a \in Library : LibraryNames[a] = t
                                 ELSE NULL]
  BY DEF Init
<1> HIDE DEF n, e
<1>4. Library \subseteq Addr
  BY <1>1, <1>2 DEF Addr
<1>5. freeList \in Seq(Addr) /\ Len(freeList) = e - n
  <2>1. e - n \in Nat
    BY <1>1
  <2>2. freeList \in [1 .. e - n -> Addr]
    BY <1>1, <1>3 DEF Addr
  <2> QED BY <2>1, <2>2, FunSeq
<1>6. \A i \in 1 .. e - n : freeList[i] = n + i
  BY <1>3
<1>7. Unique(freeList)
  BY <1>1, <1>5, <1>6 DEF Unique
<1>8. Allocated = Library
  BY <1>3, <1>4 DEF Allocated
<1>9. Pointers(freeList) = (1 .. slabEnd) \ Allocated
  <2>1. DOMAIN freeList = 1 .. e - n
    BY <1>3
  <2>2. ASSUME NEW i \in 1 .. e - n PROVE freeList[i] \in (1 .. e) \ (1 .. n)
    BY <1>1, <1>6
  <2>3. ASSUME NEW a \in (1 .. e) \ (1 .. n) PROVE a \in Pointers(freeList)
    <3> DEFINE i == a - n
    <3>1. i \in 1 .. e - n /\ n + i = a
      BY <1>1
    <3> HIDE DEF i
    <3> QED BY <1>6, <2>1, <3>1 DEF Pointers
  <2> QED BY <1>2, <1>3, <1>8, <2>1, <2>2, <2>3 DEF Pointers
<1>10. Slots
  BY <1>1, <1>2, <1>3, <1>7, <1>8, <1>9 DEF Slots
<1>11. /\ pool \in [Texts -> Addr \cup {NULL}]
       /\ \A t \in Texts : pool[t] # NULL => pool[t] \in Library
  BY <1>3, <1>4
<1>12. TypeOK
  <2>1. slabEnd \in 0 .. MaxSlots
    BY <1>1, <1>3
  <2>2. kind \in [Addr -> {"none", "string"} \cup Containers]
    BY <1>3
  <2>3. text \in [Addr -> Texts \cup {NULL}]
    BY <1>2, <1>3
  <2>4. refs \in [Addr -> SUBSET Addr]
    BY <1>3
  <2>5. stack \in Seq(Addr)
    BY <1>3
  <2>6. /\ objects \subseteq Addr /\ immortal \subseteq Addr /\ marked \subseteq Addr
        /\ gray \subseteq marked /\ building \in Addr \cup {NULL} /\ paused \in BOOLEAN
        /\ phase \in {"run", "trace", "sweep", "down", "crashed"}
        /\ toSweep \subseteq objects /\ greyed \subseteq Addr
    BY <1>3, <1>4
  <2> QED BY <1>5, <1>11, <2>1, <2>2, <2>3, <2>4, <2>5, <2>6 DEF TypeOK
<1>13. NoSets
  BY <1>3 DEF NoSets
<1>14. Linked /\ Plain
  BY <1>3, <1>4, <1>8 DEF Linked, Plain
<1>15. Survivors = Allocated
  BY <1>3 DEF Survivors, Doomed
<1>16. Safe
  <2>1. Pointers(stack) = {}
    BY <1>3 DEF Pointers
  <2> QED BY <1>3, <1>4, <1>8, <1>11, <1>15, <2>1 DEF Safe
<1>17. Coloured
  BY <1>3 DEF Coloured
<1>18. MortalStringsAreUnique /\ Interned
  BY <1>3, <1>8, <1>15 DEF MortalStringsAreUnique, Interned
<1> QED BY <1>7, <1>10, <1>12, <1>13, <1>14, <1>16, <1>17, <1>18 DEF HeapInv

-----------------------------------------------------------------------------
(***************************************************************************)
(* The theorems.                                                           *)
(***************************************************************************)
\* The inductive invariant holds in every state.
THEOREM HeapInvHolds ==
    ASSUME "set" \notin Kinds
    PROVE  Spec => []HeapInv
<1>1. Init => HeapInv
  BY HeapStart
<1>2. HeapInv /\ [Next]_vars => HeapInv'
  BY HeapStep
<1> QED BY <1>1, <1>2, PTL DEF Spec

\* What the stack leads to is inside the survivors, and those are allocated.
LEMMA SoundBecause ==
    ASSUME HeapInv
    PROVE  HeapIsSound
<1>1. ReachableIsAllocated
  <2> SUFFICES ASSUME phase # "down"
               PROVE  ReachableFrom(Pointers(stack)) \subseteq Allocated
    BY DEF ReachableIsAllocated
  <2>1. /\ Survivors \in SUBSET Addr /\ Survivors \subseteq Allocated
        /\ Pointers(stack) \subseteq Survivors
        /\ \A a \in Survivors : refs[a] \subseteq Survivors
    BY DEF HeapInv, Safe, Survivors, Allocated
  <2>2. ReachIn(refs, Pointers(stack)) \subseteq Survivors
    BY <2>1, ReachLeast
  <2> QED BY <2>1, <2>2, ReachableIs
<1>2. FreeListSound
  <2>1. DOMAIN freeList = 1 .. Len(freeList) /\ Unique(freeList)
    BY LenProperties DEF HeapInv, TypeOK
  <2> QED BY <2>1 DEF FreeListSound, Unique, HeapInv, Slots
<1>3. MarksAreGray
  BY DEF MarksAreGray, HeapInv, Coloured
<1> QED BY <1>1, <1>2, <1>3 DEF HeapIsSound, HeapInv

(***************************************************************************)
(* No use after free: at every step, of a collection too, every object the *)
(* script can follow pointers to is still allocated; a slot on the free    *)
(* list holds no object; no mark is left over from one collection for the  *)
(* next; and there is one string of the script per text.                   *)
(***************************************************************************)
THEOREM ReachableObjectsAreKept ==
    ASSUME "set" \notin Kinds
    PROVE  Spec => []HeapIsSound
<1>1. HeapInv => HeapIsSound
  BY SoundBecause
<1> QED BY <1>1, HeapInvHolds, PTL

\* When nothing is gray the marked and immortal objects are closed under
\* references, so they hold all that is reachable; and all that is marked is.
LEMMA TracedIsReached ==
    ASSUME HeapInv, phase = "trace", gray = {}
    PROVE  marked = ReachableFrom(Roots \cup greyed) \ immortal
<1>f. /\ TypeOK /\ Plain /\ Coloured /\ Allocated \subseteq Addr
      /\ marked \subseteq Allocated \ immortal /\ immortal \subseteq Allocated
  BY TraceFacts
<1> DEFINE S == marked \cup immortal
<1>1. /\ Roots \cup greyed \subseteq S /\ \A a \in marked : refs[a] \subseteq S
      /\ marked \subseteq ReachIn(refs, Roots \cup greyed)
  BY <1>f DEF Coloured
<1>2. \A a \in immortal : refs[a] = {}
  BY <1>f DEF Plain, TypeOK
<1>3. S \in SUBSET Addr /\ \A a \in S : refs[a] \subseteq S
  BY <1>f, <1>1, <1>2
<1> HIDE DEF S
<1>4. ReachIn(refs, Roots \cup greyed) \subseteq S
  BY <1>1, <1>3, ReachLeast
<1>5. ReachableFrom(Roots \cup greyed) = ReachIn(refs, Roots \cup greyed)
  BY ReachableIs
<1> QED BY <1>f, <1>1, <1>4, <1>5 DEF S

(***************************************************************************)
(* A collection keeps exactly what the roots, and what stores greyed       *)
(* before it, lead to: no garbage survives it for any other reason.        *)
(***************************************************************************)
THEOREM CollectionsAreExact ==
    ASSUME "set" \notin Kinds
    PROVE  Spec => CollectionIsExact
<1>1. ASSUME HeapInv, [Next]_vars
      PROVE  [phase = "trace" /\ phase' = "sweep" =>
                 marked = ReachableFrom(Roots \cup greyed) \ immortal]_vars
  <2> SUFFICES ASSUME Next, phase = "trace", phase' = "sweep"
               PROVE  marked = ReachableFrom(Roots \cup greyed) \ immortal
    BY <1>1
  <2>1. RemoveWhite
    BY DEF Next, Mutator, Collector, NewObject, CopyString, Pop, Load, Unstore, Store, Pause,
           Shutdown, Idle, Running, MarkRoots, BlackenObject, SweepObject, EndSweep
  <2> QED BY <1>1, <2>1, TracedIsReached DEF RemoveWhite
<1> QED BY <1>1, HeapInvHolds, PTL DEF Spec, CollectionIsExact

-----------------------------------------------------------------------------
(***************************************************************************)
(* Ints.                                                                   *)
(***************************************************************************)
LEMMA Halves == Half \in Nat \ {0} /\ Span = 2 * Half
BY RangesAssumption DEF Half

LEMMA WrapInt ==
    ASSUME NEW x \in Int32
    PROVE  Wrap(x) = x
<1>1. x + Half \in 0 .. Span - 1 /\ Span \in Nat \ {0} /\ x \in Int /\ Half \in Nat
  BY Halves DEF Int32
<1>2. x + Half = Span * 0 + (x + Half) /\ x + Half \in Nat
  BY <1>1
<1>3. (x + Half) % Span = x + Half
  BY <1>1, <1>2, Remainder
<1> QED BY <1>1, <1>3 DEF Wrap

LEMMA WrapRange ==
    ASSUME NEW x \in Int
    PROVE  Wrap(x) \in Int32
<1>1. Half \in Nat /\ Span \in Nat \ {0} /\ Span = 2 * Half
  BY Halves
<1>2. (x + Half) % Span \in 0 .. Span - 1
  BY <1>1
<1> QED BY <1>1, <1>2 DEF Wrap, Int32

\* -MinInt is no Int.
LEMMA WrapHalf == Wrap(Half) = -Half
<1>1. Half \in Nat \ {0} /\ Span \in Nat \ {0} /\ Half + Half = Span * 1 + 0 /\ Half + Half \in Nat
  BY Halves
<1>2. 0 \in 0 .. Span - 1
  BY <1>1
<1>3. (Half + Half) % Span = 0
  BY <1>1, <1>2, Remainder
<1> QED BY <1>1, <1>3 DEF Wrap

LEMMA AsUnsignedSmall ==
    ASSUME NEW n \in 0 .. Span - 1
    PROVE  AsUnsigned(n) = n
<1>1. Span \in Nat \ {0} /\ n = Span * 0 + n /\ n \in Nat
  BY RangesAssumption
<1> QED BY <1>1, Remainder DEF AsUnsigned

LEMMA QuotientNat ==
    ASSUME NEW a \in Nat, NEW b \in Nat \ {0}
    PROVE  Quotient(a, b) = a \div b
BY DEF Quotient

-----------------------------------------------------------------------------
(***************************************************************************)
(* The members of a range, counted.                                        *)
(***************************************************************************)
Distance(r) == IF r.step > 0 THEN r.end - r.start ELSE r.start - r.end
Stride(r) == IF r.step > 0 THEN r.step ELSE -r.step
Count(r) == (Distance(r) + Stride(r) - 1) \div Stride(r)
Member(r, i) == r.start + i * r.step

\* A range whose distances are Ints.
Fine(r) ==
    /\ r \in [start : Int32, step : Int32, end : Int32]
    /\ validate_range_values(r.start, r.step, r.end)
    /\ Narrow(r)

LEMMA FineRange ==
    ASSUME NEW r, Fine(r)
    PROVE  /\ Distance(r) \in Nat /\ Stride(r) \in Nat \ {0}
           /\ Distance(r) + Stride(r) - 1 \in 0 .. Half - 1
           /\ r.start \in Int /\ r.step \in Int /\ r.end \in Int
           /\ r.start \in Int32 /\ r.step \in Int32 /\ r.end \in Int32 /\ r.step # 0
<1>1. Half \in Nat /\ Int32 \subseteq Int
  BY Halves DEF Int32
<1>2. r.start \in Int32 /\ r.step \in Int32 /\ r.end \in Int32
  BY DEF Fine
<1>3. r.start \in Int /\ r.step \in Int /\ r.end \in Int /\ r.step # 0
  BY <1>1, <1>2 DEF Fine, validate_range_values
<1>4. Distance(r) \in Nat /\ Stride(r) \in Nat \ {0}
  BY <1>3 DEF Fine, validate_range_values, Distance, Stride
<1>5. Distance(r) + Stride(r) - 1 \in Int32
  BY <1>3 DEF Fine, Narrow, Distance, Stride
<1> QED BY <1>1, <1>2, <1>3, <1>4, <1>5 DEF Int32

\* Rounding up: the multiples of s below d are as many as the quotient says.
LEMMA Ceiling ==
    ASSUME NEW d \in Nat, NEW s \in Nat \ {0}, NEW k \in Nat
    PROVE  k * s < d <=> k < (d + s - 1) \div s
<1> DEFINE a == d + s - 1
           q == a \div s
           m == a % s
<1>1. q \in Nat /\ m \in 0 .. s-1 /\ a = s * q + m /\ a = d + s - 1
  <2>1. a \in Nat
    OBVIOUS
  <2> HIDE DEF a
  <2>2. q \in Nat /\ m \in 0 .. s-1 /\ a = s * q + m
    BY <2>1, Division
  <2> QED BY <2>2 DEF a
<1> HIDE DEF a, q, m
<1>2. CASE k < q
  <2>1. q - 1 - k \in Nat /\ s * (q - 1 - k) \in Nat
    BY <1>1, <1>2
  <2>2. s * q = s * (q - 1 - k) + s + k * s
    BY <1>1
  <2>3. k * s < d
    BY <1>1, <2>1, <2>2
  <2> QED BY <1>2, <2>3 DEF q, a
<1>3. CASE k >= q
  <2>1. k - q \in Nat /\ s * (k - q) \in Nat
    BY <1>1, <1>3
  <2>2. k * s = s * q + s * (k - q)
    BY <1>1
  <2>3. ~(k * s < d)
    BY <1>1, <2>1, <2>2
  <2>4. ~(k < q)
    BY <1>1, <1>3
  <2> QED BY <2>3, <2>4 DEF q, a
<1> QED BY <1>1, <1>2, <1>3

LEMMA CountType ==
    ASSUME NEW r, Fine(r)
    PROVE  Count(r) \in Nat /\ Count(r) <= Distance(r)
<1>1. Distance(r) \in Nat /\ Stride(r) \in Nat \ {0}
  BY FineRange
<1> DEFINE d == Distance(r)
           s == Stride(r)
<1>2. d + s - 1 \in Nat
  BY <1>1
<1>3. Count(r) \in Nat
  <2> HIDE DEF d, s
  <2>1. (d + s - 1) \div s \in Nat
    BY <1>1, <1>2, Division DEF d, s
  <2> QED BY <2>1 DEF Count, d, s
<1>4. d * s >= d
  <2>1. s - 1 \in Nat /\ d \in Nat
    BY <1>1
  <2> HIDE DEF d, s
  <2>2. d * (s - 1) \in Nat
    BY <2>1
  <2>3. d * s = d * (s - 1) + d
    BY <2>1, <1>1 DEF s
  <2> QED BY <2>1, <2>2, <2>3
<1>5. ~(d < Count(r))
  <2>1. d * s < d <=> d < Count(r)
    BY <1>1, Ceiling DEF Count
  <2> QED BY <1>1, <1>4, <2>1
<1> QED BY <1>1, <1>3, <1>5

LEMMA MembersFit ==
    ASSUME NEW r, Fine(r), NEW i \in Nat
    PROVE  /\ Before(r, Member(r, i)) <=> i < Count(r)
           /\ i < Count(r) => Member(r, i) \in Int32
<1>1. /\ Distance(r) \in Nat /\ Stride(r) \in Nat \ {0}
      /\ r.start \in Int /\ r.step \in Int /\ r.end \in Int
      /\ r.start \in Int32 /\ r.end \in Int32
  BY FineRange
<1>2. i * Stride(r) < Distance(r) <=> i < Count(r)
  BY <1>1, Ceiling DEF Count
<1>3. i * Stride(r) \in Nat
  BY <1>1
<1>4. CASE r.step > 0
  <2>1. Stride(r) = r.step /\ Distance(r) = r.end - r.start
    BY <1>4 DEF Stride, Distance
  <2>2. Member(r, i) = r.start + i * Stride(r)
    BY <2>1 DEF Member
  <2> QED BY <1>1, <1>2, <1>3, <1>4, <2>1, <2>2, Halves DEF Before, Int32
<1>5. CASE ~(r.step > 0)
  <2>1. Stride(r) = -r.step /\ Distance(r) = r.start - r.end
    BY <1>5 DEF Stride, Distance
  <2>2. Member(r, i) = r.start - i * Stride(r)
    BY <1>1, <2>1 DEF Member
  <2> QED BY <1>1, <1>2, <1>3, <1>5, <2>1, <2>2, Halves DEF Before, Int32
<1> QED BY <1>4, <1>5

LEMMA ValuesAreMembers ==
    ASSUME NEW r, Fine(r), NEW i \in Nat, i < Count(r)
    PROVE  ValueAt(r, i) = Member(r, i)
BY MembersFit, WrapInt DEF ValueAt, Member

LEMMA LengthIsCount ==
    ASSUME NEW r, Fine(r)
    PROVE  range_len(r) = Count(r)
<1> DEFINE d == Distance(r)
           s == Stride(r)
<1>1. /\ d \in Nat /\ s \in Nat \ {0} /\ d + s - 1 \in 0 .. Half - 1
      /\ r.start \in Int /\ r.step \in Int /\ r.end \in Int /\ r.step \in Int32 /\ r.step # 0
  BY FineRange
<1>2. Wrap(d + s - 1) = d + s - 1
  <2>1. d + s - 1 \in Int32
    BY <1>1, Halves DEF Int32
  <2> QED BY <2>1, WrapInt
<1>3. Count(r) \in 0 .. Span - 1
  BY <1>1, Halves, CountType
<1>4. CASE r.step > 0
  <2>1. s = r.step /\ d + s - 1 = r.end - r.start + r.step - 1
    BY <1>1, <1>4 DEF Stride, Distance
  <2>2. d + s - 1 \in Nat
    BY <1>1
  <2>3. Quotient(d + s - 1, s) = Count(r)
    BY <1>1, <2>2, QuotientNat DEF Count
  <2>4. range_len(r) = AsUnsigned(Quotient(Wrap(d + s - 1), s))
    BY <1>4, <2>1 DEF range_len
  <2> QED BY <1>2, <1>3, <2>3, <2>4, AsUnsignedSmall
<1>5. CASE ~(r.step > 0) /\ r.step # -Half
  <2>1. s = -r.step /\ d + s - 1 = r.start - r.end - r.step - 1
    BY <1>1, <1>5 DEF Stride, Distance
  <2>2. Wrap(-r.step) = s
    <3>1. -r.step \in Int32
      BY <1>1, <1>5, Halves DEF Int32
    <3> QED BY <2>1, <3>1, WrapInt
  <2>3. d + s - 1 \in Nat
    BY <1>1
  <2>4. Quotient(d + s - 1, s) = Count(r)
    BY <1>1, <2>3, QuotientNat DEF Count
  <2>5. range_len(r) = AsUnsigned(Quotient(Wrap(d + s - 1), s))
    BY <1>5, <2>1, <2>2 DEF range_len
  <2> QED BY <1>2, <1>3, <2>4, <2>5, AsUnsignedSmall
<1>6. CASE r.step = -Half
  <2>1. ~(r.step > 0) /\ s = Half /\ d = 0 /\ d + s - 1 = r.start - r.end - r.step - 1
    BY <1>1, <1>6, Halves DEF Stride, Distance
  <2>2. Wrap(-r.step) = -Half
    BY <1>6, WrapHalf, Halves
  <2>3. Half - 1 \in Nat /\ (Half - 1) \div Half = 0
    BY Halves
  <2>4. Quotient(Half - 1, -Half) = 0
    BY <2>3, Halves DEF Quotient
  <2>5. Count(r) = 0
    BY <2>1, <2>3, Halves DEF Count
  <2>6. d + s - 1 = Half - 1
    BY <2>1, Halves
  <2>7. range_len(r) = AsUnsigned(Quotient(Wrap(d + s - 1), -Half))
    BY <2>1, <2>2 DEF range_len
  <2> QED BY <1>2, <1>3, <2>4, <2>5, <2>6, <2>7, AsUnsignedSmall
<1> QED BY <1>4, <1>5, <1>6

-----------------------------------------------------------------------------
LEMMA MembersAreCounted ==
    ASSUME NEW r, Fine(r)
    PROVE  /\ Members(r) = {Member(r, i) : i \in 0 .. Count(r) - 1}
           /\ Cardinality(Members(r)) = Count(r)
<1>1. Count(r) \in Nat /\ Count(r) <= Span /\ Span \in Nat
  BY CountType, FineRange, Halves
<1>2. r.start \in Int /\ r.step \in Int /\ r.step # 0
  BY FineRange
<1> DEFINE n == Count(r)
           M(i) == Member(r, i)
<1>3. \A i \in Nat : Before(r, M(i)) <=> i < n
  BY MembersFit
<1>4. Members(r) = {M(i) : i \in 0 .. n - 1}
  <2>1. Members(r) = {x \in {M(k) : k \in 0 .. Span} : Before(r, x)}
    BY DEF Members, Member
  <2> HIDE DEF M, n
  <2>2. 0 .. Span \subseteq Nat /\ 0 .. n - 1 \subseteq 0 .. Span
    BY <1>1 DEF n
  <2>3. \A k \in 0 .. Span : k \in 0 .. n - 1 <=> k < n
    BY <1>1 DEF n
  <2> QED BY <1>3, <2>1, <2>2, <2>3
<1>5. ASSUME NEW i \in 0 .. n - 1, NEW j \in 0 .. n - 1, M(i) = M(j) PROVE i = j
  <2>1. i \in Int /\ j \in Int /\ r.start + i * r.step = r.start + j * r.step
    BY <1>1, <1>5 DEF Member
  <2> DEFINE a == r.start
             s == r.step
  <2>2. a \in Int /\ s \in Int /\ s # 0 /\ a + i * s = a + j * s
    BY <1>2, <2>1
  <2> HIDE DEF a, s
  <2>3. s * (i - j) = 0
    BY <2>1, <2>2
  <2>4. i - j = 0
    <3> DEFINE z == i - j
    <3>1. z \in Int /\ s * z = 0
      BY <2>1, <2>3
    <3> HIDE DEF z
    <3>2. CASE s > 0
      <4>1. s \in Nat \ {0} /\ 0 = s * z
        BY <2>2, <3>1, <3>2
      <4>2. z = 0
        BY <3>1, <4>1, SmallMultiple
      <4> QED BY <4>2 DEF z
    <3>3. CASE s < 0
      <4>1. -s \in Nat \ {0} /\ 0 = (-s) * z
        BY <2>2, <3>1, <3>3
      <4> DEFINE t == -s
      <4>2. t \in Nat \ {0} /\ 0 = t * z
        BY <4>1
      <4> HIDE DEF t
      <4>3. z = 0
        BY <3>1, <4>2, SmallMultiple
      <4> QED BY <4>3 DEF z
    <3> QED BY <2>2, <3>2, <3>3
  <2> QED BY <2>1, <2>4
<1>6. Cardinality(Members(r)) = n
  <2> DEFINE D == 0 .. n - 1
             f == [i \in D |-> M(i)]
  <2>1. IsFiniteSet(D) /\ Cardinality(D) = n
    <3>1. 0 \in Int /\ n - 1 \in Int
      BY <1>1
    <3>2. Cardinality(D) = IF 0 > n - 1 THEN 0 ELSE (n - 1) - 0 + 1
      BY SMTT(30), <3>1, FS_Interval
    <3> QED BY <1>1, <3>1, <3>2, FS_Interval
  <2>2. f \in Bijection(D, Members(r))
    <3> HIDE DEF M, n
    <3>1. f \in [D -> Members(r)] /\ \A x \in Members(r) : \E i \in D : f[i] = x
      BY <1>4
    <3>2. \A i \in D, j \in D : f[i] = f[j] => i = j
      BY <1>5
    <3> HIDE DEF f, D
    <3>3. f \in Injection(D, Members(r))
      BY <3>1, <3>2 DEF Injection, IsInjective
    <3>4. f \in Surjection(D, Members(r))
      BY <3>1 DEF Surjection
    <3> QED BY <3>3, <3>4 DEF Bijection
  <2>3. Cardinality(D) = Cardinality(Members(r))
    <3> HIDE DEF D, f
    <3> QED BY <2>1, <2>2, FS_Bijection DEF ExistsBijection
  <2> QED BY <2>1, <2>3
<1> QED BY <1>4, <1>6

LEMMA InOrderIs ==
    ASSUME NEW r, Fine(r)
    PROVE  /\ InOrder(r) = [i \in 1 .. Count(r) |-> Member(r, i - 1)]
           /\ InOrder(r) \in Seq(Int32) /\ Len(InOrder(r)) = Count(r)
<1>1. Count(r) \in Nat
  BY CountType
<1>2. InOrder(r) = [i \in 1 .. Count(r) |-> Member(r, i - 1)]
  BY MembersAreCounted DEF InOrder, Member
<1>3. ASSUME NEW i \in 1 .. Count(r) PROVE Member(r, i - 1) \in Int32
  BY <1>1, MembersFit
<1> HIDE DEF InOrder
<1>4. InOrder(r) \in [1 .. Count(r) -> Int32]
  BY <1>2, <1>3
<1> QED BY <1>1, <1>2, <1>4, FunSeq

\* What the slice and the array are made of.
LEMMA ValuesInOrder ==
    ASSUME NEW r, Fine(r)
    PROVE  [i \in 1 .. Count(r) |-> ValueAt(r, i - 1)] = InOrder(r)
<1>1. Count(r) \in Nat
  BY CountType
<1>2. ASSUME NEW i \in 1 .. Count(r) PROVE ValueAt(r, i - 1) = Member(r, i - 1)
  BY <1>1, ValuesAreMembers
<1> QED BY <1>2, InOrderIs

-----------------------------------------------------------------------------
(***************************************************************************)
(* What is asked of a range.                                               *)
(***************************************************************************)
LEMMA DividesNat ==
    ASSUME NEW a \in Nat, NEW b \in Nat \ {0}
    PROVE  Divides(b, a) <=> \E k \in Nat : a = k * b
<1> DEFINE q == a \div b
           m == a % b
<1>1. q \in Nat /\ m \in 0 .. b-1 /\ a = b * q + m
  BY Division
<1>2. Quotient(a, b) = q
  BY QuotientNat
<1>3. Divides(b, a) <=> q * b = a
  BY <1>2 DEF Divides
<1> HIDE DEF q, m
<1>4. ASSUME NEW k \in Nat, a = k * b PROVE q * b = a
  <2>1. m = b * (k - q) /\ k - q \in Int
    BY <1>1, <1>4
  <2>2. m \in Int /\ -b < m /\ m < b
    BY <1>1
  <2>3. k - q = 0
    BY <2>1, <2>2, SmallMultiple
  <2>4. m = 0
    BY <1>1, <2>1, <2>3
  <2> QED BY <1>1, <2>4
<1> QED BY <1>1, <1>3, <1>4

LEMMA ContainsMembers ==
    ASSUME NEW r, Fine(r), NEW x \in Int32
    PROVE  range_contains(r, x) <=> x \in Members(r)
<1> DEFINE d == Distance(r)
           s == Stride(r)
           a == IF r.step > 0 THEN x - r.start ELSE r.start - x
<1>1. /\ d \in Nat /\ s \in Nat \ {0} /\ d + s - 1 \in 0 .. Half - 1
      /\ r.start \in Int /\ r.step \in Int /\ r.end \in Int /\ r.step \in Int32 /\ r.step # 0
  BY FineRange
<1>2. x \in Int /\ a \in Int
  BY <1>1, Halves DEF Int32
<1>3. range_contains(r, x) <=> a \in 0 .. d - 1 /\ \E k \in Nat : a = k * s
  <2>1. CASE a \in 0 .. d - 1
    <3>1. a \in Nat /\ a \in Int32
      BY <1>1, <2>1, Halves DEF Int32
    <3>2. Wrap(a) = a
      BY <3>1, WrapInt
    <3>3. Divides(s, a) <=> \E k \in Nat : a = k * s
      BY <1>1, <3>1, DividesNat
    <3>4. CASE r.step > 0
      <4>1. s = r.step /\ a = x - r.start /\ d = r.end - r.start
        BY <3>4 DEF Stride, Distance
      <4>2. range_contains(r, x) <=> Divides(s, a)
        BY <1>1, <1>2, <2>1, <3>2, <3>4, <4>1 DEF range_contains
      <4> QED BY <2>1, <3>3, <4>2
    <3>5. CASE ~(r.step > 0)
      <4>1. s = -r.step /\ a = r.start - x /\ d = r.start - r.end /\ r.step < 0
        BY <1>1, <3>5 DEF Stride, Distance
      <4>2. r.step # -Half
        BY <1>1, <2>1, <4>1, Halves
      <4>3. Wrap(-r.step) = s
        <5>1. -r.step \in Int32
          BY <1>1, <4>1, <4>2, Halves DEF Int32
        <5> QED BY <4>1, <5>1, WrapInt
      <4>4. range_contains(r, x) <=> Divides(s, a)
        BY <1>1, <1>2, <2>1, <3>2, <3>5, <4>1, <4>3 DEF range_contains
      <4> QED BY <2>1, <3>3, <4>4
    <3> QED BY <3>4, <3>5
  <2>2. CASE a \notin 0 .. d - 1
    BY <1>1, <1>2, <2>2 DEF range_contains, Distance
  <2> QED BY <2>1, <2>2
<1>4. x \in Members(r) <=> \E k \in 0 .. Count(r) - 1 : x = Member(r, k)
  BY MembersAreCounted
<1>5. Count(r) \in Nat
  BY CountType
<1>6. ASSUME NEW k \in Nat
      PROVE  /\ x = Member(r, k) <=> a = k * s
             /\ k * s \in Nat
             /\ k * s < d <=> k < Count(r)
  <2>1. k * s \in Nat
    BY <1>1
  <2>2. k * s < d <=> k < Count(r)
    BY <1>1, Ceiling DEF Count
  <2>3. Member(r, k) = IF r.step > 0 THEN r.start + k * s ELSE r.start - k * s
    BY <1>1 DEF Member, Stride
  <2> HIDE DEF d, s
  <2>4. x = Member(r, k) <=> a = k * s
    BY <1>1, <1>2, <2>1, <2>3
  <2> QED BY <2>1, <2>2, <2>4
<1> HIDE DEF d, s, a
<1>7. ASSUME range_contains(r, x) PROVE x \in Members(r)
  <2>1. PICK k \in Nat : a = k * s
    BY <1>3, <1>7
  <2>2. k < Count(r) /\ x = Member(r, k)
    BY <1>1, <1>3, <1>6, <1>7, <2>1
  <2>3. k \in 0 .. Count(r) - 1
    BY <1>5, <2>2
  <2> QED BY <1>4, <2>2, <2>3
<1>8. ASSUME x \in Members(r) PROVE range_contains(r, x)
  <2>1. PICK k \in 0 .. Count(r) - 1 : x = Member(r, k)
    BY <1>4, <1>8
  <2>2. k \in Nat /\ k < Count(r)
    BY <1>5
  <2>3. a = k * s /\ a \in 0 .. d - 1
    BY <1>1, <1>6, <2>1, <2>2
  <2> QED BY <1>3, <2>2, <2>3
<1> QED BY <1>7, <1>8

LEMMA BoundsAreOfMembers ==
    ASSUME NEW r, Fine(r), NEW n \in Nat
    PROVE  range_indices_in_bounds(r, n) <=> Members(r) \subseteq 0 .. n - 1
<1>1. Count(r) \in Nat /\ range_len(r) = Count(r)
  BY CountType, LengthIsCount
<1>2. Members(r) = {Member(r, i) : i \in 0 .. Count(r) - 1}
  BY MembersAreCounted
<1>3. ASSUME NEW i \in 0 .. Count(r) - 1
      PROVE  ValueAt(r, i) = Member(r, i) /\ Member(r, i) \in Int
  <2>1. i \in Nat /\ i < Count(r)
    BY <1>1
  <2>2. Member(r, i) \in Int32
    BY <2>1, MembersFit
  <2> QED BY <2>1, <2>2, ValuesAreMembers, Halves DEF Int32
<1>4. range_indices_in_bounds(r, n) <=>
        \A i \in 0 .. Count(r) - 1 : Member(r, i) \in 0 .. n - 1
  BY <1>1, <1>3 DEF range_indices_in_bounds
<1> QED BY <1>2, <1>4

-----------------------------------------------------------------------------
(***************************************************************************)
(* Reversing.                                                              *)
(***************************************************************************)
\* A range that ends on a multiple of its step.
LEMMA ExactCount ==
    ASSUME NEW r, Fine(r), Exact(r)
    PROVE  Distance(r) = Count(r) * Stride(r)
<1> DEFINE d == Distance(r)
           s == Stride(r)
<1>1. /\ d \in Nat /\ s \in Nat \ {0}
      /\ r.start \in Int /\ r.step \in Int /\ r.end \in Int /\ r.step # 0
  BY FineRange
<1>2. \E k \in Nat : d = k * s
  <2>1. CASE r.step > 0
    <3>1. s = r.step /\ d = r.end - r.start
      BY <2>1 DEF Stride, Distance
    <3>2. Divides(s, d)
      BY <3>1 DEF Exact
    <3> HIDE DEF d, s
    <3> QED BY <1>1, <3>2, DividesNat
  <2>2. CASE ~(r.step > 0)
    <3>1. r.step = -s /\ r.end - r.start = -d
      BY <1>1, <2>2 DEF Stride, Distance
    <3>2. Quotient(-d, -s) * (-s) = -d
      BY <3>1 DEF Exact, Divides
    <3> DEFINE q == d \div s
    <3>3. q \in Nat
      BY <1>1, Division
    <3>4. CASE d > 0
      <4>1. Quotient(-d, -s) = q
        <5> HIDE DEF d, s
        <5>1. -d < 0 /\ -s < 0 /\ -(-d) = d /\ -(-s) = s
          BY <1>1, <3>4
        <5> QED BY <5>1 DEF Quotient
      <4> HIDE DEF d, s, q
      <4>2. q * s = d
        BY <1>1, <3>2, <3>3, <4>1
      <4> QED BY <3>3, <4>2
    <3>5. CASE d = 0
      <4> HIDE DEF d, s
      <4>1. d = 0 * s /\ 0 \in Nat
        BY <1>1, <3>5
      <4> QED BY <4>1
    <3> QED BY <1>1, <3>4, <3>5
  <2> QED BY <2>1, <2>2
<1>3. PICK k \in Nat : d = k * s
  BY <1>2
<1> DEFINE n == Count(r)
<1>4. n \in Nat
  BY CountType
<1>5. \A j \in Nat : j * s < d <=> j < n
  BY <1>1, Ceiling DEF Count
<1> HIDE DEF d, s, n
<1>6. ~(k < n)
  BY <1>1, <1>3, <1>5
<1>7. k = 0 \/ k - 1 < n
  <2>1. CASE k # 0
    <3>1. k - 1 \in Nat /\ (k - 1) * s = k * s - s
      BY <1>1, <2>1
    <3> QED BY <1>1, <1>3, <1>5, <3>1
  <2> QED BY <2>1
<1>8. k = n
  BY <1>4, <1>6, <1>7
<1> QED BY <1>3, <1>8 DEF d, s, n

LEMMA ReversedIsBackwards ==
    ASSUME NEW r, Fine(r), Exact(r), Narrow(Reversed(r)),
           r.end - r.step \in Int32, r.start - r.step \in Int32
    PROVE  /\ Fine(Reversed(r))
           /\ InOrder(Reversed(r)) = Backwards(InOrder(r))
<1> DEFINE p == Reversed(r)
           n == Count(r)
<1>1. /\ Distance(r) \in Nat /\ Stride(r) \in Nat \ {0}
      /\ Distance(r) + Stride(r) - 1 \in 0 .. Half - 1
      /\ r.start \in Int /\ r.step \in Int /\ r.end \in Int /\ r.step \in Int32 /\ r.step # 0
  BY FineRange
<1>2. p.start = r.end - r.step /\ p.end = r.start - r.step /\ p.step = Wrap(-r.step)
  BY WrapInt DEF Reversed
<1>3. p \in [start : Int32, step : Int32, end : Int32]
  BY <1>1, WrapRange DEF Reversed
<1>4. n \in Nat
  BY CountType
<1>i. InOrder(r) = [i \in 1 .. n |-> Member(r, i - 1)] /\ Len(InOrder(r)) = n
  BY InOrderIs
<1>5. CASE r.step # -Half
  <2>1. p.step = -r.step
    <3>1. -r.step \in Int32
      BY <1>1, <1>5, Halves DEF Int32
    <3> QED BY <1>2, <3>1, WrapInt
  <2>2. Distance(p) = Distance(r) /\ Stride(p) = Stride(r)
    BY <1>1, <1>2, <2>1 DEF Distance, Stride
  <2>3. Fine(p)
    <3>1. validate_range_values(p.start, p.step, p.end)
      BY <1>1, <1>2, <2>1 DEF Distance, validate_range_values
    <3> QED BY <1>3, <3>1 DEF Fine
  <2>4. Count(p) = n
    BY <2>2 DEF Count
  <2>5. r.end = r.start + n * r.step
    <3>1. Distance(r) = n * Stride(r)
      BY ExactCount
    <3>2. CASE r.step > 0
      BY <1>1, <3>1, <3>2 DEF Distance, Stride
    <3>3. CASE ~(r.step > 0)
      <4>1. r.start - r.end = n * (-r.step)
        BY <3>1, <3>3 DEF Distance, Stride
      <4> HIDE DEF n
      <4>2. n * (-r.step) = -(n * r.step)
        BY <1>1, <1>4
      <4>3. n * r.step \in Int
        BY <1>1, <1>4
      <4> QED BY <1>1, <4>1, <4>2, <4>3
    <3> QED BY <3>2, <3>3
  <2>6. ASSUME NEW i \in 1 .. n PROVE Member(p, i - 1) = Member(r, n + 1 - i - 1)
    <3>1. Member(p, i - 1) = (r.end - r.step) + (i - 1) * (-r.step)
      BY <1>2, <2>1 DEF Member
    <3>2. Member(r, n + 1 - i - 1) = r.start + (n + 1 - i - 1) * r.step
      BY DEF Member
    <3> DEFINE a == r.start
               s == r.step
               b == r.end
    <3>3. a \in Int /\ s \in Int /\ b = a + n * s /\ i \in Int
      BY <1>1, <2>5
    <3> HIDE DEF a, s, b, n
    <3>4. (b - s) + (i - 1) * (-s) = a + (n + 1 - i - 1) * s
      BY <1>4, <3>3
    <3> QED BY <3>1, <3>2, <3>4 DEF a, s, b
  <2>7. InOrder(p) = [i \in 1 .. n |-> Member(p, i - 1)]
    BY <2>3, <2>4, InOrderIs
  <2> HIDE DEF p, n
  <2>8. Backwards(InOrder(r)) = [i \in 1 .. n |-> Member(r, n + 1 - i - 1)]
    <3>1. ASSUME NEW i \in 1 .. n PROVE n + 1 - i \in 1 .. n
      BY <1>4
    <3> QED BY <1>4, <1>i, <3>1 DEF Backwards
  <2>9. InOrder(p) = Backwards(InOrder(r))
    BY <2>6, <2>7, <2>8
  <2> QED BY <2>3, <2>9 DEF p
<1>6. CASE r.step = -Half
  <2>1. Stride(r) = Half /\ Distance(r) = 0 /\ r.start = r.end
    BY <1>1, <1>6, Halves DEF Distance, Stride
  <2>2. p.step = -Half
    BY <1>2, <1>6, WrapHalf, Halves
  <2>3. Distance(p) = 0 /\ p.start = p.end
    BY <1>1, <1>2, <2>1, <2>2, Halves DEF Distance
  <2>4. Fine(p)
    <3>1. validate_range_values(p.start, p.step, p.end)
      BY <1>1, <1>2, <2>1, <2>2, Halves DEF validate_range_values
    <3> QED BY <1>3, <3>1 DEF Fine
  <2>5. n = 0
    BY <1>4, <2>1, CountType
  <2>6. Count(p) = 0
    <3>1. Count(p) \in Nat /\ Count(p) <= 0
      BY <2>3, <2>4, CountType
    <3> QED BY <3>1
  <2>7. InOrder(p) = [i \in 1 .. 0 |-> Member(p, i - 1)]
    BY <2>4, <2>6, InOrderIs
  <2>8. Backwards(InOrder(r)) = [i \in 1 .. 0 |-> InOrder(r)[0 + 1 - i]]
    BY <1>i, <2>5 DEF Backwards
  <2> QED BY <2>4, <2>7, <2>8
<1> QED BY <1>5, <1>6

-----------------------------------------------------------------------------
(***************************************************************************)
(* The invariant: what the iterator has given and where a slice was taken  *)
(* are of the members of the range.                                        *)
(***************************************************************************)
SliceFits == slice = NoSlice
    \/ \E n \in Sizes : slice = <<n, IF Members(range) \subseteq 0 .. n - 1 THEN InOrder(range)
                                                                          ELSE OutOfBounds>>

RangeInv ==
    /\ Fine(range) /\ Fine(origin)
    /\ index \in 0 .. Count(range)
    /\ seen = SubSeq(InOrder(range), 1, index)
    /\ done \in BOOLEAN /\ (done => index = Count(range))
    /\ ReversedPreservesElements
    /\ SliceFits

LEMMA SeenAll ==
    ASSUME NEW r, Fine(r)
    PROVE  /\ SubSeq(InOrder(r), 1, 0) = <<>>
           /\ SubSeq(InOrder(r), 1, Count(r)) = InOrder(r)
<1>1. /\ InOrder(r) \in Seq(Int32) /\ Len(InOrder(r)) = Count(r) /\ Count(r) \in Nat
  BY InOrderIs, CountType
<1> HIDE DEF InOrder
<1>2. SubSeq(InOrder(r), 1, 0) = <<>>
  BY <1>1
<1>3. SubSeq(InOrder(r), 1, Len(InOrder(r))) = InOrder(r)
  BY <1>1
<1> QED BY <1>1, <1>2, <1>3

LEMMA SeenNext ==
    ASSUME NEW r, Fine(r), NEW i \in 0 .. Count(r) - 1
    PROVE  Append(SubSeq(InOrder(r), 1, i), ValueAt(r, i)) = SubSeq(InOrder(r), 1, i + 1)
<1> DEFINE o == InOrder(r)
           n == Count(r)
<1>1. /\ o = [k \in 1 .. n |-> Member(r, k - 1)]
      /\ o \in Seq(Int32) /\ Len(o) = n /\ n \in Nat
  BY InOrderIs, CountType
<1>2. i \in Nat /\ i < n
  BY <1>1
<1>3. ValueAt(r, i) = Member(r, i)
  BY <1>2, ValuesAreMembers
<1>4. o[i + 1] = Member(r, i)
  BY <1>1, <1>2
<1> HIDE DEF o, n
<1>5. SubSeq(o, 1, i + 1) = Append(SubSeq(o, 1, i), o[i + 1])
  <2>1. SubSeq(o, 1, i + 1) = [k \in 1 .. i + 1 |-> o[k]]
    BY <1>1, <1>2
  <2>2. SubSeq(o, 1, i) = [k \in 1 .. i |-> o[k]] /\ SubSeq(o, 1, i) \in Seq(Int32)
    BY <1>1, <1>2
  <2>3. Len(SubSeq(o, 1, i)) = i
    BY <1>1, <1>2
  <2>4. o[i + 1] \in Int32
    <3>1. i + 1 \in 1 .. Len(o)
      BY <1>1, <1>2
    <3> QED BY <1>1, <3>1, ElementOfSeq
  <2> QED BY <1>2, <2>1, <2>2, <2>3, <2>4
<1> QED BY <1>3, <1>4, <1>5 DEF o

LEMMA RangeInitial ==
    ASSUME ~Wide, RangeInit
    PROVE  RangeInv
<1>1. Fine(range) /\ origin = range
  BY DEF RangeInit, WrittenRanges, Fine
<1>2. Count(range) \in Nat
  BY <1>1, CountType
<1>3. index = 0 /\ index \in 0 .. Count(range) /\ done = FALSE
  BY <1>2 DEF RangeInit
<1>4. seen = SubSeq(InOrder(range), 1, index)
  BY <1>1, <1>3, SeenAll DEF RangeInit
<1>5. SliceFits
  BY DEF RangeInit, SliceFits
<1> QED BY <1>1, <1>3, <1>4, <1>5 DEF RangeInv, ReversedPreservesElements

LEMMA RangeInductive ==
    ASSUME ~Wide, ~Remainders, RangeInv, [RangeNext]_rangeVars
    PROVE  RangeInv'
<1>i. /\ Fine(range) /\ Fine(origin) /\ Count(range) \in Nat
      /\ index \in 0 .. Count(range)
      /\ seen = SubSeq(InOrder(range), 1, index)
      /\ done \in BOOLEAN
  BY CountType DEF RangeInv
<1>1. CASE iterate_next
  <2>1. range_len(range) = Count(range)
    BY <1>i, LengthIsCount
  <2>2. UNCHANGED <<range, origin, slice>>
    BY <1>1 DEF iterate_next
  <2>3. CASE index >= Count(range)
    BY <1>1, <1>i, <2>1, <2>2, <2>3
       DEF RangeInv, ReversedPreservesElements, SliceFits, iterate_next
  <2>4. CASE ~(index >= Count(range))
    <3>1. index \in 0 .. Count(range) - 1 /\ index + 1 \in 0 .. Count(range)
      BY <1>i, <2>4
    <3>2. index' = index + 1 /\ done' = done /\ ~done /\ seen' = Append(seen, ValueAt(range, index))
      BY <1>1, <1>i, <2>1, <2>4 DEF iterate_next
    <3>3. seen' = SubSeq(InOrder(range'), 1, index')
      BY <1>i, <2>2, <3>1, <3>2, SeenNext
    <3>4. index' \in 0 .. Count(range')
      BY <2>2, <3>1, <3>2
    <3>5. SliceFits' /\ ReversedPreservesElements'
      BY <2>2 DEF RangeInv, SliceFits, ReversedPreservesElements
    <3> QED BY <1>i, <2>2, <3>2, <3>3, <3>4, <3>5 DEF RangeInv
  <2> QED BY <2>3, <2>4
<1>2. CASE ReverseRange
  <2> DEFINE p == Reversed(range)
  <2>1. /\ Exact(range) /\ Narrow(p) /\ range = origin
        /\ range.end - range.step \in Int32 /\ range.start - range.step \in Int32
        /\ range' = p /\ index' = 0 /\ seen' = <<>> /\ done' = FALSE /\ slice' = NoSlice
        /\ origin' = origin
    BY <1>2 DEF ReverseRange, Held
  <2>2. Fine(p) /\ InOrder(p) = Backwards(InOrder(range))
    BY <1>i, <2>1, ReversedIsBackwards
  <2>3. Count(p) \in Nat /\ SubSeq(InOrder(p), 1, 0) = <<>>
    BY <2>2, CountType, SeenAll
  <2> HIDE DEF p
  <2>4. seen' = SubSeq(InOrder(range'), 1, index')
    BY <2>1, <2>3
  <2>5. index' \in 0 .. Count(range')
    BY <2>1, <2>3
  <2>6. ReversedPreservesElements'
    BY <2>1, <2>2 DEF ReversedPreservesElements
  <2>7. SliceFits'
    BY <2>1 DEF SliceFits
  <2>8. Fine(range') /\ Fine(origin') /\ done' = FALSE
    BY <1>i, <2>1, <2>2
  <2> QED BY <2>4, <2>5, <2>6, <2>7, <2>8 DEF RangeInv
<1>3. ASSUME NEW n \in Sizes, SliceBy(n) PROVE RangeInv'
  <2>1. UNCHANGED <<range, origin, index, seen, done>>
    BY <1>3 DEF SliceBy
  <2>2. n \in Nat
    BY RangesAssumption
  <2>3. range_len(range) = Count(range)
    BY <1>i, LengthIsCount
  <2>4. range_indices_in_bounds(range, n) <=> Members(range) \subseteq 0 .. n - 1
    BY <1>i, <2>2, BoundsAreOfMembers
  <2>5. [i \in 1 .. Count(range) |-> ValueAt(range, i - 1)] = InOrder(range)
    BY <1>i, ValuesInOrder
  <2>6. slice' = <<n, IF Members(range) \subseteq 0 .. n - 1 THEN InOrder(range) ELSE OutOfBounds>>
    BY <1>3, <2>3, <2>4, <2>5 DEF SliceBy
  <2>7. SliceFits'
    BY <2>1, <2>6 DEF SliceFits
  <2> QED BY <2>1, <2>7 DEF RangeInv, ReversedPreservesElements
<1>4. CASE UNCHANGED rangeVars
  BY <1>4 DEF rangeVars, RangeInv, ReversedPreservesElements, SliceFits
<1> QED BY <1>1, <1>2, <1>3, <1>4 DEF RangeNext

LEMMA RangesSound ==
    ASSUME RangeInv
    PROVE  RangesAreTheirElements
<1>i. /\ Fine(range) /\ Fine(origin) /\ Count(range) \in Nat /\ Count(range) <= Span
      /\ Count(range) \in Int32
      /\ InOrder(range) \in Seq(Int32) /\ Len(InOrder(range)) = Count(range)
      /\ index \in 0 .. Count(range)
      /\ seen = SubSeq(InOrder(range), 1, index)
  <2>1. Fine(range)
    BY DEF RangeInv
  <2>2. Count(range) \in Nat /\ Count(range) <= Distance(range)
    BY <2>1, CountType
  <2>3. Distance(range) \in 0 .. Half - 1
    BY <2>1, FineRange, Halves
  <2> QED BY <2>1, <2>2, <2>3, InOrderIs, Halves DEF RangeInv, Int32
<1>1. RangeTypeOK
  <2>1. \A r : Fine(r) => r \in [start : Int32, step : Int32 \ {0}, end : Int32]
    BY DEF Fine, validate_range_values
  <2>2. seen \in Seq(Int32)
    <3> HIDE DEF InOrder
    <3> QED BY <1>i
  <2>3. index \in 0 .. Span
    BY <1>i, Halves
  <2>4. slice = NoSlice \/ slice \in Sizes \X Seq(Int32)
    <3>1. OutOfBounds \in Seq(Int32)
      BY Halves DEF OutOfBounds, Int32
    <3> QED BY <1>i, <3>1 DEF RangeInv, SliceFits
  <2> QED BY <1>i, <2>1, <2>2, <2>3, <2>4 DEF RangeTypeOK, RangeInv
<1>2. IteratorYieldsTheRange
  BY <1>i, SeenAll DEF IteratorYieldsTheRange, RangeInv
<1>3. QueriesAgree
  <2>1. {x \in Int32 : range_contains(range, x)} = Members(range)
    <3>1. ASSUME NEW x \in Members(range) PROVE x \in Int32
      <4>1. PICK i \in 0 .. Count(range) - 1 : x = Member(range, i)
        BY <1>i, MembersAreCounted
      <4>2. i \in Nat /\ i < Count(range)
        BY <1>i
      <4> QED BY <1>i, <4>1, <4>2, MembersFit
    <3> QED BY <1>i, <3>1, ContainsMembers
  <2>2. range_len(range) = Cardinality(Members(range))
    BY <1>i, LengthIsCount, MembersAreCounted
  <2>3. to_array(range) = InOrder(range)
    <3>1. Wrap(range_len(range)) = Count(range)
      BY <1>i, LengthIsCount, WrapInt
    <3> QED BY <1>i, <3>1, ValuesInOrder DEF to_array
  <2> QED BY <2>1, <2>2, <2>3 DEF QueriesAgree
<1>4. SlicesAreInBounds
  BY DEF RangeInv, SliceFits, SlicesAreInBounds, NoSlice
<1> QED BY <1>1, <1>2, <1>3, <1>4 DEF RangesAreTheirElements, RangeInv

(***************************************************************************)
(* For Ints of any width: the iterator, len, contains, to_array, reversed  *)
(* and slices speak of the same elements, if the distances of the range    *)
(* are Ints and a range that is reversed ends on a multiple of its step.   *)
(***************************************************************************)
THEOREM RangesAgree ==
    ASSUME ~Wide, ~Remainders
    PROVE  RangeSpec => []RangesAreTheirElements
<1>1. RangeInit => RangeInv
  BY RangeInitial
<1>2. RangeInv /\ [RangeNext]_rangeVars => RangeInv'
  BY RangeInductive
<1>3. RangeInv => RangesAreTheirElements
  BY RangesSound
<1> QED BY <1>1, <1>2, <1>3, PTL DEF RangeSpec

-----------------------------------------------------------------------------
(***************************************************************************)
(* Powers of the base.                                                     *)
(***************************************************************************)
LEMMA BaseType == Base \in Nat \ {0, 1} /\ Base % 2 = 0
BY BaseAssumption

LEMMA PowerSteps ==
    /\ Power[0] = 1
    /\ \A n \in Nat : Power[n] \in Nat \ {0} /\ Power[n+1] = Base * Power[n]
<1> DEFINE F == [f \in [Nat -> Nat] |-> [n \in Nat |-> IF n = 0 THEN 1 ELSE Base * f[n-1]]]
           R == [n \in Nat |-> n]
           Follows(f) == f = [n \in Nat |-> IF n = 0 THEN 1 ELSE Base * f[n-1]]
<1>b. Base \in Nat \ {0}
  BY BaseType
<1>1. F \in [[Nat -> Nat] -> [Nat -> Nat]]
  BY <1>b
<1>2. ASSUME NEW f \in [Nat -> Nat], NEW g \in [Nat -> Nat], NEW x \in Nat,
             \A y \in Nat : R[y] < R[x] => f[y] = g[y]
      PROVE  F[f][x] = F[g][x]
  <2>1. CASE x = 0
    BY <2>1
  <2>2. CASE x # 0
    <3>1. x-1 \in Nat /\ x-1 < x
      BY <2>2
    <3>2. f[x-1] = g[x-1]
      BY <1>2, <3>1
    <3> QED BY <2>2, <3>2
  <2> QED BY <2>1, <2>2
<1>3. \E f \in [Nat -> Nat] : f = F[f]
  <2> DEFINE D == Nat
             C == Nat
  <2>1. R \in [D -> Nat] /\ C # {}
    OBVIOUS
  <2>2. ByRank(D, C, R, F)
    <3> HIDE DEF F, R
    <3> QED BY <1>1, <1>2, <2>1 DEF ByRank
  <2> HIDE DEF D, C, F, R
  <2>3. \E f \in [D -> C] : f = F[f]
    BY <2>2, FunctionsByRank
  <2> QED BY <2>3 DEF D, C
<1>4. \E f : Follows(f)
  BY <1>3
<1>5. Power = CHOOSE f : Follows(f)
  BY DEF Power
<1>6. Follows(Power)
  <2> HIDE DEF Follows
  <2> QED BY <1>4, <1>5
<1>7. Power[0] = 1 /\ \A n \in Nat : Power[n+1] = Base * Power[n]
  <2>1. \A n \in Nat : n+1 \in Nat /\ n+1 # 0 /\ (n+1)-1 = n
    OBVIOUS
  <2> QED BY <1>6, <2>1
<1>8. \A n \in Nat : Power[n] \in Nat \ {0}
  <2> DEFINE T == {n \in Nat : Power[n] \notin Nat \ {0}}
  <2>1. SUFFICES ASSUME T # {} PROVE FALSE
    OBVIOUS
  <2>2. PICK n \in T : \A j \in T : n <= j
    <3>1. T \in SUBSET Nat
      OBVIOUS
    <3> HIDE DEF T
    <3> QED BY <2>1, <3>1, LeastNat
  <2>3. n # 0
    BY <1>7
  <2>4. n-1 \in Nat /\ n-1 \notin T /\ n = (n-1)+1
    BY <2>2, <2>3
  <2>5. Power[n-1] \in Nat \ {0} /\ Power[n] = Base * Power[n-1]
    BY <1>7, <2>4
  <2> QED BY <1>b, <2>5
<1> QED BY <1>7, <1>8

LEMMA PowerEven ==
    ASSUME NEW n \in Nat \ {0}
    PROVE  Power[n] \div 2 \in Nat /\ Power[n] = 2 * (Power[n] \div 2)
<1>1. n-1 \in Nat /\ n = (n-1)+1
  OBVIOUS
<1>2. Power[n-1] \in Nat \ {0} /\ Power[n] = Base * Power[n-1]
  BY <1>1, PowerSteps
<1>3. PICK h \in Nat : Base = 2 * h
  BY BaseType
<1> DEFINE p == Power[n-1]
           m == h * p
<1>4. m \in Nat /\ Power[n] = 2 * m
  <2>1. p \in Nat /\ Power[n] = (2 * h) * p
    BY <1>2, <1>3
  <2> HIDE DEF p
  <2> QED BY <2>1
<1> HIDE DEF m
<1> QED BY <1>4

-----------------------------------------------------------------------------
(***************************************************************************)
(* What grow_buffer answers has room for what is required.                 *)
(***************************************************************************)
LEMMA Grown ==
    ASSUME NEW required \in Nat, capacity \in Nat \ {0}
    PROVE  /\ GrownCapacity(required) \in Nat
           /\ GrownCapacity(required) >= required
           /\ GrownCapacity(required) >= capacity
<1> DEFINE D == Nat \ {0}
           F == [f \in [D -> D] |-> [c \in D |-> IF c >= required THEN c ELSE f[2 * c]]]
           R == [c \in D |-> IF c >= required THEN 0 ELSE required - c]
           Follows(f) == f = [c \in D |-> IF c >= required THEN c ELSE f[2 * c]]
           first == IF capacity < MinGrowth THEN MinGrowth ELSE capacity
           g == CHOOSE f : Follows(f)
<1>f. first \in D /\ first >= capacity
  BY BufferSizesAssumption
<1>r. R \in [D -> Nat] /\ D # {}
  OBVIOUS
<1>1. F \in [[D -> D] -> [D -> D]]
  <2>1. \A c \in D : 2 * c \in D
    OBVIOUS
  <2> HIDE DEF D
  <2> QED BY <2>1
<1>2. ASSUME NEW f \in [D -> D], NEW h \in [D -> D], NEW x \in D,
             \A y \in D : R[y] < R[x] => f[y] = h[y]
      PROVE  F[f][x] = F[h][x]
  <2>1. CASE x >= required
    BY <2>1
  <2>2. CASE ~(x >= required)
    <3>1. 2 * x \in D /\ R[2 * x] < R[x]
      BY <2>2
    <3>2. f[2 * x] = h[2 * x]
      BY <1>2, <3>1
    <3> QED BY <2>2, <3>2
  <2> QED BY <2>1, <2>2
<1>3. \E f \in [D -> D] : f = F[f]
  <2> HIDE DEF D, F, R
  <2>1. ByRank(D, D, R, F)
    BY <1>r, <1>1, <1>2 DEF ByRank
  <2> QED BY <2>1, FunctionsByRank
<1>4. \E f : Follows(f)
  BY <1>3
<1>5. Follows(g)
  <2> HIDE DEF Follows
  <2> QED BY <1>4
<1>6. GrownCapacity(required) = g[first]
  BY DEF GrownCapacity
<1> DEFINE Good(c) == g[c] \in Nat /\ g[c] >= required /\ g[c] >= c
           T == {k \in Nat : \E c \in D : R[c] = k /\ ~Good(c)}
<1>7. T = {}
  <2>1. SUFFICES ASSUME T # {} PROVE FALSE
    OBVIOUS
  <2>2. PICK k \in T : \A j \in T : k <= j
    <3>1. T \in SUBSET Nat
      OBVIOUS
    <3> HIDE DEF T
    <3> QED BY <2>1, <3>1, LeastNat
  <2>3. PICK c \in D : R[c] = k /\ ~Good(c)
    BY <2>2
  <2>g. \A x \in D : g[x] = IF x >= required THEN x ELSE g[2 * x]
    BY <1>5
  <2> HIDE DEF g
  <2>4. ~(c >= required)
    BY <2>3, <2>g
  <2>5. 2 * c \in D /\ R[2 * c] < R[c] /\ R[2 * c] \in Nat
    BY <2>4
  <2>6. Good(2 * c)
    <3> DEFINE e == 2 * c
    <3>1. e \in D /\ R[e] \in Nat /\ R[e] < k
      BY <2>3, <2>5
    <3> HIDE DEF e
    <3>2. SUFFICES ASSUME ~Good(e) PROVE FALSE
      BY DEF e
    <3>3. R[e] \in T
      BY <3>1, <3>2
    <3> QED BY <2>2, <3>1, <3>3
  <2>7. g[c] = g[2 * c]
    BY <2>4, <2>g
  <2>8. Good(c)
    BY <2>6, <2>7
  <2> QED BY <2>3, <2>8
<1>8. Good(first)
  <2> HIDE DEF g, first
  <2>1. R[first] \in Nat
    BY <1>f, <1>r
  <2> QED BY <1>f, <1>7, <2>1
<1> HIDE DEF g
<1> QED BY <1>f, <1>6, <1>8, BufferSizesAssumption

-----------------------------------------------------------------------------
(***************************************************************************)
(* The numbers of bytes.                                                   *)
(***************************************************************************)
LEMMA QueueBytes == Queue!Byte = Byte /\ Queue!Power = Power
BY DEF Queue!Byte, Byte, Queue!Power, Power

LEMMA ByteType == Byte \subseteq Nat
BY BaseType DEF Byte

LEMMA BytesType ==
    ASSUME NEW v \in Int, NEW n \in Nat, NEW big \in BOOLEAN
    PROVE  BytesOf(v, n, big) \in [1 .. n -> Byte]
<1>1. ASSUME NEW i \in 1 .. n
      PROVE  (v \div Power[IF big THEN n - i ELSE i - 1]) % Base \in Byte
  <2> DEFINE k == IF big THEN n - i ELSE i - 1
  <2>1. k \in Nat
    OBVIOUS
  <2> HIDE DEF k
  <2>2. v \div Power[k] \in Int
    BY <2>1, PowerSteps, Floor
  <2>3. (v \div Power[k]) % Base \in 0 .. Base - 1
    BY <2>2, BaseType, Floor
  <2> QED BY <2>3 DEF k, Byte
<1> QED BY <1>1 DEF BytesOf

\* Number, by the last digit and those before.
Front(s) == SubSeq(s, 1, Len(s) - 1)

LEMMA FrontType ==
    ASSUME NEW S, NEW s \in Seq(S), s # <<>>
    PROVE  /\ Front(s) \in Seq(S) /\ Len(Front(s)) = Len(s) - 1 /\ Len(s) - 1 \in Nat
           /\ s[Len(s)] \in S
           /\ \A i \in 1 .. Len(s) - 1 : Front(s)[i] = s[i]
BY StackTop, StackPop DEF Front

LEMMA NumberSteps ==
    /\ Queue!Number[<<>>] = 0
    /\ \A d \in Seq(Byte) : Queue!Number[d] \in Nat
    /\ \A d \in Seq(Byte) : d # <<>> => Queue!Number[d] = d[Len(d)] + Base * Queue!Number[Front(d)]
<1> DEFINE D == Seq(Byte)
           F == [f \in [D -> Nat] |-> [d \in D |-> IF d = <<>> THEN 0
                                                   ELSE d[Len(d)] + Base * f[Front(d)]]]
           R == [d \in D |-> Len(d)]
           Follows(f) == f = [d \in D |-> IF d = <<>> THEN 0 ELSE d[Len(d)] + Base * f[Front(d)]]
           num == Queue!Number
<1>b. Base \in Nat /\ Byte \subseteq Nat
  BY BaseType, ByteType
<1>d. \A d \in D : d # <<>> => /\ Front(d) \in D /\ d[Len(d)] \in Nat
                               /\ Len(Front(d)) < Len(d)
  <2> TAKE d \in D
  <2> HAVE d # <<>>
  <2>1. d \in Seq(Byte)
    OBVIOUS
  <2>2. /\ Front(d) \in Seq(Byte) /\ Len(Front(d)) = Len(d) - 1 /\ Len(d) - 1 \in Nat
        /\ d[Len(d)] \in Byte
    BY <2>1, FrontType
  <2>3. Len(d) \in Nat
    BY <2>1
  <2>4. Front(d) \in D
    BY <2>2
  <2>5. d[Len(d)] \in Nat
    BY <1>b, <2>2
  <2> HIDE DEF D
  <2> QED BY <2>2, <2>3, <2>4, <2>5
<1>e. \A d \in D : Len(d) \in Nat
  OBVIOUS
<1>r. R \in [D -> Nat] /\ Nat # {}
  BY <1>e
<1>1. F \in [[D -> Nat] -> [D -> Nat]]
  <2>1. ASSUME NEW f \in [D -> Nat], NEW d \in D
        PROVE  (IF d = <<>> THEN 0 ELSE d[Len(d)] + Base * f[Front(d)]) \in Nat
    <3>1. CASE d # <<>>
      <4>1. f[Front(d)] \in Nat /\ d[Len(d)] \in Nat
        BY <1>d, <3>1
      <4>2. Base * f[Front(d)] \in Nat
        BY <1>b, <4>1
      <4> QED BY <4>1, <4>2
    <3> QED BY <3>1
  <2> HIDE DEF D
  <2> QED BY <2>1
<1>2. ASSUME NEW f \in [D -> Nat], NEW g \in [D -> Nat], NEW x \in D,
             \A y \in D : R[y] < R[x] => f[y] = g[y]
      PROVE  F[f][x] = F[g][x]
  <2>1. CASE x = <<>>
    BY <2>1
  <2>2. CASE x # <<>>
    <3>1. Front(x) \in D /\ R[Front(x)] < R[x]
      BY <1>d, <2>2
    <3>2. f[Front(x)] = g[Front(x)]
      BY <1>2, <3>1
    <3> QED BY <2>2, <3>2
  <2> QED BY <2>1, <2>2
<1>3. \E f \in [D -> Nat] : f = F[f]
  <2> DEFINE C == Nat
  <2> HIDE DEF D, F, R
  <2>1. C # {} /\ F \in [[D -> C] -> [D -> C]] /\ R \in [D -> Nat]
    BY <1>r, <1>1
  <2>2. ByRank(D, C, R, F)
    BY <1>2, <2>1 DEF ByRank
  <2> HIDE DEF C
  <2>3. \E f \in [D -> C] : f = F[f]
    BY <2>2, FunctionsByRank
  <2> QED BY <2>3 DEF C
<1>4. \E f : Follows(f)
  BY <1>3
<1>5. num = CHOOSE f : Follows(f)
  BY QueueBytes DEF Queue!Number, Front
<1>6. Follows(num)
  <2> HIDE DEF Follows, num
  <2> QED BY <1>4, <1>5
<1> HIDE DEF num
<1>s. \A d \in D : num[d] = IF d = <<>> THEN 0 ELSE d[Len(d)] + Base * num[Front(d)]
  <2> HIDE DEF D
  <2> QED BY <1>6
<1>7. \A d \in D : num[d] \in Nat
  <2> DEFINE T == {k \in Nat : \E d \in D : Len(d) = k /\ num[d] \notin Nat}
  <2>1. SUFFICES ASSUME T # {} PROVE FALSE
    BY <1>e
  <2>2. PICK k \in T : \A j \in T : k <= j
    <3>1. T \in SUBSET Nat
      OBVIOUS
    <3> HIDE DEF T
    <3> QED BY <2>1, <3>1, LeastNat
  <2>3. PICK d \in D : Len(d) = k /\ num[d] \notin Nat
    BY <2>2
  <2>4. d # <<>>
    BY <1>s, <2>3
  <2> DEFINE e == Front(d)
  <2>5. e \in D /\ Len(e) \in Nat /\ Len(e) < k /\ d[Len(d)] \in Nat
    BY <1>d, <1>e, <2>3, <2>4
  <2>6. num[d] = d[Len(d)] + Base * num[e]
    BY <1>s, <2>4
  <2> HIDE DEF e
  <2>7. num[e] \in Nat
    <3> SUFFICES ASSUME num[e] \notin Nat PROVE FALSE
      OBVIOUS
    <3>1. Len(e) \in T
      BY <2>5
    <3> QED BY <2>2, <2>5, <3>1
  <2>8. Base * num[e] \in Nat
    BY <1>b, <2>7
  <2> QED BY <2>3, <2>5, <2>6, <2>8
<1>8. <<>> \in D
  OBVIOUS
<1> QED BY <1>s, <1>7, <1>8 DEF num

-----------------------------------------------------------------------------
(***************************************************************************)
(* A number is what is read from the bytes it is written in.               *)
(***************************************************************************)
\* The digits of v are its last and those of v \div Base.
LEMMA DigitsSplit ==
    ASSUME NEW v \in Int, NEW p \in Nat \ {0}
    PROVE  /\ v \div (Base * p) = (v \div Base) \div p
           /\ v % (Base * p) = (v % Base) + Base * ((v \div Base) % p)
           /\ Base * p \in Nat \ {0}
<1>b. Base \in Nat \ {0}
  BY BaseType
<1> DEFINE q == v \div Base
           r == v % Base
           x == q \div p
           y == q % p
<1>1. q \in Int /\ r \in 0 .. Base - 1 /\ v = Base * q + r
  BY <1>b, Floor
<1>2. x \in Int /\ y \in 0 .. p - 1 /\ q = p * x + y
  <2> HIDE DEF q
  <2> QED BY <1>1, Floor
<1> HIDE DEF q, r, x, y
<1> DEFINE c == Base * p
           s == r + Base * y
<1>3. c \in Nat \ {0}
  BY <1>b
<1>4. v = c * x + s
  BY <1>b, <1>1, <1>2
<1>5. s \in 0 .. c - 1
  <2>1. Base * y \in Nat /\ Base * (p - 1 - y) \in Nat
    BY <1>b, <1>2
  <2>2. c = Base * y + Base * (p - 1 - y) + Base
    BY <1>b, <1>2
  <2>3. s \in Nat
    BY <1>1, <2>1
  <2>4. (c - 1) - s = Base * (p - 1 - y) + (Base - 1 - r)
    BY <1>b, <1>1, <1>2, <2>1, <2>2
  <2>5. (c - 1) - s \in Nat
    BY <1>b, <1>1, <2>1, <2>4
  <2> HIDE DEF c, s
  <2> QED BY <1>3, <2>3, <2>5
<1>6. v % c = s /\ v \div c = x
  <2> HIDE DEF c, s
  <2> QED BY <1>2, <1>3, <1>4, <1>5, FloorIs
<1> QED BY <1>3, <1>6 DEF q, r, x, y

LEMMA FrontOfBytes ==
    ASSUME NEW v \in Int, NEW n \in Nat
    PROVE  /\ BytesOf(v, n+1, TRUE) \in Seq(Byte) /\ Len(BytesOf(v, n+1, TRUE)) = n+1
           /\ BytesOf(v, n+1, TRUE)[n+1] = v % Base
           /\ Front(BytesOf(v, n+1, TRUE)) = BytesOf(v \div Base, n, TRUE)
<1> DEFINE b == BytesOf(v, n+1, TRUE)
           c == BytesOf(v \div Base, n, TRUE)
<1>b. Base \in Nat \ {0}
  BY BaseType
<1>q. v \div Base \in Int
  BY <1>b, Floor
<1>1. b \in [1 .. n+1 -> Byte] /\ c \in [1 .. n -> Byte]
  <2>1. n+1 \in Nat /\ TRUE \in BOOLEAN
    OBVIOUS
  <2> QED BY <1>q, <2>1, BytesType
<1>2. b \in Seq(Byte) /\ Len(b) = n+1 /\ c \in Seq(Byte) /\ Len(c) = n
  <2> HIDE DEF b, c
  <2> QED BY <1>1, FunSeq
<1>3. b[n+1] = v % Base
  <2>1. n+1 \in 1 .. n+1 /\ (n+1) - (n+1) = 0
    OBVIOUS
  <2>2. b[n+1] = (v \div Power[0]) % Base
    BY <2>1 DEF BytesOf
  <2>3. v \div 1 = v
    OBVIOUS
  <2> QED BY <2>2, <2>3, PowerSteps
<1>4. ASSUME NEW i \in 1 .. n PROVE b[i] = c[i]
  <2> DEFINE k == n - i
  <2>1. k \in Nat /\ (n+1) - i = k+1
    OBVIOUS
  <2>2. b[i] = (v \div Power[k+1]) % Base
    BY <2>1 DEF BytesOf
  <2>3. c[i] = ((v \div Base) \div Power[k]) % Base
    BY DEF BytesOf
  <2>4. Power[k] \in Nat \ {0} /\ Power[k+1] = Base * Power[k]
    BY <2>1, PowerSteps
  <2>5. v \div (Base * Power[k]) = (v \div Base) \div Power[k]
    BY <2>4, DigitsSplit
  <2> QED BY <2>2, <2>3, <2>4, <2>5
<1>5. Front(b) = c
  <2> HIDE DEF b, c
  <2>1. b # <<>>
    BY <1>2
  <2>l. Len(b) - 1 = n
    BY <1>2
  <2>2. /\ Front(b) \in Seq(Byte) /\ Len(Front(b)) = n
        /\ \A i \in 1 .. n : Front(b)[i] = b[i]
    BY <1>2, <2>1, <2>l, FrontType
  <2>3. Front(b) = [i \in 1 .. n |-> Front(b)[i]] /\ c = [i \in 1 .. n |-> c[i]]
    BY <1>1, <2>2
  <2> QED BY <1>4, <2>2, <2>3
<1> QED BY <1>2, <1>3, <1>5

LEMMA BigBytes ==
    ASSUME NEW n \in Nat
    PROVE  \A v \in Int : Queue!Number[BytesOf(v, n, TRUE)] = v % Power[n]
<1> DEFINE Good(k) == \A v \in Int : Queue!Number[BytesOf(v, k, TRUE)] = v % Power[k]
           T == {k \in Nat : ~Good(k)}
<1>1. SUFFICES ASSUME T # {} PROVE FALSE
  OBVIOUS
<1>2. PICK k \in T : \A j \in T : k <= j
  <2>1. T \in SUBSET Nat
    OBVIOUS
  <2> HIDE DEF T
  <2> QED BY <1>1, <2>1, LeastNat
<1>3. k # 0
  <2>1. ASSUME NEW v \in Int PROVE Queue!Number[BytesOf(v, 0, TRUE)] = v % Power[0]
    <3>1. BytesOf(v, 0, TRUE) = <<>>
      BY DEF BytesOf
    <3>2. v % 1 = 0
      OBVIOUS
    <3> QED BY <3>1, <3>2, NumberSteps, PowerSteps
  <2> QED BY <2>1
<1> DEFINE h == k - 1
<1>4. h \in Nat /\ k = h+1 /\ h \notin T
  <2>1. k \in Nat
    BY <1>2
  <2>2. h \in Nat /\ k = h+1 /\ h < k
    BY <1>3, <2>1
  <2> HIDE DEF T, h
  <2> QED BY <1>2, <2>1, <2>2
<1>5. Good(h)
  BY <1>4
<1>6. ASSUME NEW v \in Int PROVE Queue!Number[BytesOf(v, k, TRUE)] = v % Power[k]
  <2> DEFINE b == BytesOf(v, k, TRUE)
             q == v \div Base
  <2>1. q \in Int
    BY BaseType, Floor
  <2>2. b \in Seq(Byte) /\ Len(b) = k /\ b[k] = v % Base /\ Front(b) = BytesOf(q, h, TRUE)
    BY <1>4, FrontOfBytes
  <2>3. b # <<>>
    BY <1>3, <2>2
  <2>4. Queue!Number[b] = b[k] + Base * Queue!Number[Front(b)]
    <3> HIDE DEF b
    <3> QED BY <2>2, <2>3, NumberSteps
  <2>5. Queue!Number[Front(b)] = q % Power[h]
    BY <1>5, <2>1, <2>2
  <2>6. Power[h] \in Nat \ {0} /\ Power[k] = Base * Power[h]
    BY <1>4, PowerSteps
  <2>7. v % (Base * Power[h]) = (v % Base) + Base * (q % Power[h])
    BY <2>6, DigitsSplit
  <2> QED BY <2>2, <2>4, <2>5, <2>6, <2>7
<1> QED BY <1>2, <1>6

\* In which order the bytes are: of a sequence of bytes, the digits.
Digits(bytes, big) ==
    IF big THEN bytes ELSE [i \in 1 .. Len(bytes) |-> bytes[Len(bytes) + 1 - i]]

LEMMA DigitsType ==
    ASSUME NEW bytes \in Seq(Byte), NEW big \in BOOLEAN
    PROVE  /\ Digits(bytes, big) \in Seq(Byte) /\ Len(Digits(bytes, big)) = Len(bytes)
           /\ \A k \in 1 .. Len(bytes) :
                 bytes[IF big THEN Len(bytes) + 1 - k ELSE k] = Digits(bytes, big)[Len(bytes) + 1 - k]
<1>1. Len(bytes) \in Nat /\ \A i \in 1 .. Len(bytes) : bytes[i] \in Byte
  BY ElementOfSeq
<1> DEFINE n == Len(bytes)
<1>2. CASE big
  BY <1>1, <1>2 DEF Digits
<1>3. CASE ~big
  <2> DEFINE d == [i \in 1 .. n |-> bytes[n + 1 - i]]
  <2>1. d \in [1 .. n -> Byte]
    BY <1>1
  <2>2. d \in Seq(Byte) /\ Len(d) = n
    <3> HIDE DEF d, n
    <3>1. n \in Nat
      BY <1>1 DEF n
    <3> QED BY <2>1, <3>1, FunSeq
  <2>3. \A k \in 1 .. n : d[n + 1 - k] = bytes[k]
    BY <1>1
  <2>4. Digits(bytes, big) = d
    BY <1>3 DEF Digits
  <2> HIDE DEF d
  <2> QED BY <1>3, <2>2, <2>3, <2>4
<1> QED BY <1>2, <1>3

LEMMA AreBytes ==
    ASSUME NEW bytes \in Seq(Byte), NEW big \in BOOLEAN, NEW v
    PROVE  Queue!AreBytesOf(bytes, v, big)
             <=> Queue!Number[Digits(bytes, big)] = v % Power[Len(bytes)]
BY QueueBytes DEF Queue!AreBytesOf, Digits

LEMMA WrittenBytes ==
    ASSUME NEW v \in Int, NEW n \in Nat, NEW big \in BOOLEAN
    PROVE  /\ BytesOf(v, n, big) \in [1 .. n -> Byte]
           /\ BytesOf(v, n, big) \in Seq(Byte) /\ Len(BytesOf(v, n, big)) = n
           /\ Queue!AreBytesOf(BytesOf(v, n, big), v, big)
<1> DEFINE b == BytesOf(v, n, big)
           c == BytesOf(v, n, TRUE)
<1>1. b \in [1 .. n -> Byte] /\ c \in [1 .. n -> Byte]
  BY BytesType
<1>2. b \in Seq(Byte) /\ Len(b) = n
  <2> HIDE DEF b
  <2> QED BY <1>1, FunSeq
<1>3. Digits(b, big) = c
  <2>1. CASE big
    BY <2>1 DEF Digits
  <2>2. CASE ~big
    <3>1. \A i \in 1 .. n : b[n + 1 - i] = (v \div Power[n - i]) % Base
      <4> TAKE i \in 1 .. n
      <4>1. n + 1 - i \in 1 .. n /\ (n + 1 - i) - 1 = n - i
        OBVIOUS
      <4> QED BY <2>2, <4>1 DEF BytesOf
    <3>2. \A i \in 1 .. n : c[i] = (v \div Power[n - i]) % Base
      BY DEF BytesOf
    <3>3. c = [i \in 1 .. n |-> c[i]]
      BY <1>1
    <3> HIDE DEF b, c
    <3> QED BY <1>2, <2>2, <3>1, <3>2, <3>3 DEF Digits
  <2> QED BY <2>1, <2>2
<1>4. Queue!Number[c] = v % Power[n]
  BY BigBytes
<1> HIDE DEF b, c
<1>5. Queue!AreBytesOf(b, v, big)
  BY <1>2, <1>3, <1>4, AreBytes
<1> QED BY <1>1, <1>2, <1>5 DEF b

-----------------------------------------------------------------------------
(***************************************************************************)
(* A number is read as what its digits are.                                *)
(***************************************************************************)
LEMMA NumberBound ==
    \A d \in Seq(Byte) : Queue!Number[d] \in 0 .. Power[Len(d)] - 1
<1> DEFINE D == Seq(Byte)
           num == Queue!Number
           Good(d) == num[d] < Power[Len(d)]
           T == {k \in Nat : \E d \in D : Len(d) = k /\ ~Good(d)}
<1>e. \A d \in D : Len(d) \in Nat
  OBVIOUS
<1>p. \A d \in D : Power[Len(d)] \in Nat \ {0} /\ num[d] \in Nat
  BY <1>e, PowerSteps, NumberSteps
<1>1. SUFFICES ASSUME T # {} PROVE FALSE
  <2>1. \A d \in D : Good(d) => num[d] \in 0 .. Power[Len(d)] - 1
    BY <1>p
  <2> HIDE DEF Good
  <2> QED BY <1>e, <2>1
<1>2. PICK k \in T : \A j \in T : k <= j
  <2>1. T \in SUBSET Nat
    OBVIOUS
  <2> HIDE DEF T
  <2> QED BY <1>1, <2>1, LeastNat
<1>3. PICK d \in D : Len(d) = k /\ ~Good(d)
  BY <1>2
<1>4. d # <<>>
  BY <1>3, PowerSteps, NumberSteps
<1> DEFINE e == Front(d)
<1>5. e \in D /\ Len(e) = k - 1 /\ k - 1 \in Nat /\ d[Len(d)] \in 0 .. Base - 1
  <2>1. d \in Seq(Byte)
    OBVIOUS
  <2> QED BY <1>3, <1>4, <2>1, FrontType DEF Byte
<1>6. num[d] = d[Len(d)] + Base * num[e]
  BY <1>4, NumberSteps
<1> HIDE DEF e
<1>7. Good(e)
  <2> SUFFICES ASSUME ~Good(e) PROVE FALSE
    OBVIOUS
  <2>1. Len(e) \in T
    BY <1>5
  <2>2. Len(e) < k
    BY <1>2, <1>5
  <2> QED BY <1>2, <1>5, <2>1, <2>2
<1>8. Power[k] = Base * Power[k-1]
  <2>1. k = (k-1) + 1
    BY <1>5
  <2> QED BY <1>5, <2>1, PowerSteps
<1> DEFINE x == num[e]
           y == Power[k-1]
           w == d[Len(d)]
<1>9. x \in Nat /\ y \in Nat /\ x <= y - 1 /\ w \in 0 .. Base - 1 /\ Base \in Nat
  <2>1. x \in Nat /\ y \in Nat
    BY <1>p, <1>5, PowerSteps
  <2>2. x < y
    BY <1>5, <1>7
  <2>3. Base \in Nat /\ w \in 0 .. Base - 1
    BY <1>5, BaseType
  <2> HIDE DEF x, y, w
  <2> QED BY <2>1, <2>2, <2>3
<1>10. num[d] = w + Base * x /\ Power[Len(d)] = Base * y
  BY <1>3, <1>6, <1>8
<1> HIDE DEF x, y, w
<1>11. Base * (y - 1 - x) \in Nat
  BY <1>9
<1>12. Base * y = Base * x + Base * (y - 1 - x) + Base
  BY <1>9
<1>13. Base * x \in Nat
  BY <1>9
<1>14. w + Base * x < Base * y
  <2> DEFINE u == Base * x
             z == Base * (y - 1 - x)
             q == Base * y
  <2>1. u \in Nat /\ z \in Nat /\ q = u + z + Base
    BY <1>11, <1>12, <1>13
  <2> HIDE DEF u, z, q
  <2>2. w + u < q
    BY <1>9, <2>1
  <2> QED BY <2>2 DEF u, q
<1>15. Good(d)
  BY <1>10, <1>14
<1> QED BY <1>3, <1>15

LEMMA ReadBytes ==
    ASSUME NEW bytes \in Seq(Byte), NEW big \in BOOLEAN
    PROVE  Unsigned(bytes, big) = Queue!Number[Digits(bytes, big)]
<1> DEFINE n == Len(bytes)
           d == Digits(bytes, big)
           at(k) == bytes[IF big THEN n + 1 - k ELSE k]
           D == 0 .. n
           F == [f \in [D -> Nat] |-> [k \in D |-> IF k = 0 THEN 0 ELSE f[k-1] + at(k) * Power[k-1]]]
           R == [k \in D |-> k]
           Follows(f) == f = [k \in D |-> IF k = 0 THEN 0 ELSE f[k-1] + at(k) * Power[k-1]]
           total == CHOOSE f : Follows(f)
<1>n. n \in Nat
  OBVIOUS
<1>d. d \in Seq(Byte) /\ Len(d) = n /\ \A k \in 1 .. n : at(k) = d[n + 1 - k]
  BY DigitsType
<1>u. Unsigned(bytes, big) = total[n]
  BY DEF Unsigned
<1> HIDE DEF d, at, n
<1>a. \A k \in 1 .. n : at(k) \in Nat
  <2> TAKE k \in 1 .. n
  <2>1. n + 1 - k \in 1 .. Len(d)
    BY <1>n, <1>d
  <2>2. d[n + 1 - k] \in Byte
    BY <1>d, <2>1, ElementOfSeq
  <2> QED BY <1>d, <2>2, ByteType
<1>t. \A k \in D : k # 0 => k-1 \in D /\ k-1 \in Nat /\ k \in 1 .. n /\ k-1 < k
  BY <1>n
<1>v. \A k \in D : k # 0 => at(k) * Power[k-1] \in Nat
  <2> TAKE k \in D
  <2> HAVE k # 0
  <2>1. at(k) \in Nat /\ Power[k-1] \in Nat
    BY <1>a, <1>t, PowerSteps
  <2> QED BY <2>1
<1>1. F \in [[D -> Nat] -> [D -> Nat]]
  <2>1. ASSUME NEW f \in [D -> Nat], NEW k \in D
        PROVE  (IF k = 0 THEN 0 ELSE f[k-1] + at(k) * Power[k-1]) \in Nat
    <3>1. CASE k # 0
      <4>1. f[k-1] \in Nat /\ at(k) * Power[k-1] \in Nat
        BY <1>t, <1>v, <3>1
      <4> QED BY <3>1, <4>1
    <3> QED BY <3>1
  <2> HIDE DEF D
  <2> QED BY <2>1
<1>2. ASSUME NEW f \in [D -> Nat], NEW h \in [D -> Nat], NEW x \in D,
             \A y \in D : R[y] < R[x] => f[y] = h[y]
      PROVE  F[f][x] = F[h][x]
  <2>1. CASE x = 0
    BY <2>1
  <2>2. CASE x # 0
    <3>1. x-1 \in D /\ R[x-1] < R[x]
      BY <1>t, <2>2
    <3>2. f[x-1] = h[x-1]
      BY <1>2, <3>1
    <3> QED BY <2>2, <3>2
  <2> QED BY <2>1, <2>2
<1>3. \E f \in [D -> Nat] : f = F[f]
  <2> DEFINE C == Nat
  <2>r. R \in [D -> Nat]
    BY <1>n
  <2> HIDE DEF D, F, R
  <2>1. C # {} /\ R \in [D -> Nat] /\ F \in [[D -> C] -> [D -> C]]
    BY <1>1, <2>r
  <2> HIDE DEF C
  <2>2. ByRank(D, C, R, F)
    BY <1>2, <2>1 DEF ByRank, C
  <2>3. \E f \in [D -> C] : f = F[f]
    BY <2>2, FunctionsByRank
  <2> QED BY <2>3 DEF C
<1>4. \E f \in [D -> Nat] : Follows(f)
  BY <1>3
<1>5. Follows(total)
  <2> HIDE DEF Follows
  <2> QED BY <1>4
<1> HIDE DEF total
<1>6. total[0] = 0 /\ \A k \in D : k # 0 => total[k] = total[k-1] + at(k) * Power[k-1]
  BY <1>n, <1>5
<1> HIDE DEF Follows, F, R
<1> DEFINE rest(m) == Queue!Number[SubSeq(d, 1, n - m)]
           Good(m) == total[m] \in Nat /\ rest(m) * Power[m] + total[m] = Queue!Number[d]
           T == {m \in D : ~Good(m)}
<1>7. SUFFICES Good(n)
  <2>1. SubSeq(d, 1, n - n) = <<>>
    BY <1>n, <1>d
  <2>2. rest(n) = 0 /\ Power[n] \in Nat
    BY <1>n, <2>1, NumberSteps, PowerSteps
  <2>3. rest(n) * Power[n] = 0
    BY <2>2
  <2> HIDE DEF rest
  <2>4. total[n] = Queue!Number[d]
    BY <1>7, <2>3
  <2> QED BY <1>u, <2>4 DEF d
<1>8. SUFFICES ASSUME T # {} PROVE FALSE
  BY <1>n
<1>9. PICK m \in T : \A j \in T : m <= j
  <2>1. T \in SUBSET Nat
    OBVIOUS
  <2> HIDE DEF T
  <2> QED BY <1>8, <2>1, LeastNat
<1>10. m # 0
  <2> SUFFICES ASSUME m = 0 PROVE FALSE
    OBVIOUS
  <2>1. SubSeq(d, 1, n - 0) = d
    <3>1. SubSeq(d, 1, n) \in Seq(Byte) /\ Len(SubSeq(d, 1, n)) = n
          /\ \A i \in 1 .. n : SubSeq(d, 1, n)[i] = d[i]
      BY <1>n, <1>d, Prefix
    <3>2. n - 0 = n
      BY <1>n
    <3> QED BY <1>d, <3>1, <3>2, SeqEqual
  <2>2. rest(0) = Queue!Number[d] /\ Queue!Number[d] \in Nat
    BY <1>d, <2>1, NumberSteps
  <2>3. Good(0)
    BY <1>6, <2>2, PowerSteps
  <2> QED BY <1>9, <2>3
<1> DEFINE h == m - 1
<1>11. m \in 1 .. n /\ h \in D /\ h \in Nat /\ m = h + 1 /\ h < m
  BY <1>n, <1>9, <1>10
<1>12. Good(h)
  <2>1. h \notin T
    <3> HIDE DEF T, h
    <3> QED BY <1>9, <1>11
  <2> QED BY <1>11, <2>1
<1> DEFINE s == SubSeq(d, 1, n - h)
           r == SubSeq(d, 1, n - m)
           w == at(m)
           p == Power[h]
<1>13. Queue!Number[s] = w + Base * Queue!Number[r]
  <2>1. n - h \in 0 .. n /\ n - h \in 1 .. n - h /\ n - m = (n - h) - 1 /\ n - h \in Nat \ {0}
    BY <1>n, <1>11
  <2>2. s \in Seq(Byte) /\ Len(s) = n - h /\ \A i \in 1 .. n - h : s[i] = d[i]
    <3> DEFINE g == n - h
    <3>1. g \in 0 .. Len(d)
      BY <1>d, <2>1
    <3> HIDE DEF g
    <3>2. /\ SubSeq(d, 1, g) \in Seq(Byte) /\ Len(SubSeq(d, 1, g)) = g
          /\ \A i \in 1 .. g : SubSeq(d, 1, g)[i] = d[i]
      BY <1>d, <3>1, Prefix
    <3> QED BY <3>2 DEF g
  <2>3. r \in Seq(Byte) /\ Len(r) = n - m /\ \A i \in 1 .. n - m : r[i] = d[i]
    <3> DEFINE g == n - m
    <3>1. g \in 0 .. Len(d)
      BY <1>n, <1>d, <1>11
    <3> HIDE DEF g
    <3>2. /\ SubSeq(d, 1, g) \in Seq(Byte) /\ Len(SubSeq(d, 1, g)) = g
          /\ \A i \in 1 .. g : SubSeq(d, 1, g)[i] = d[i]
      BY <1>d, <3>1, Prefix
    <3> QED BY <3>2 DEF g
  <2> HIDE DEF s, r, h
  <2>4. s # <<>>
    BY <2>1, <2>2
  <2>5. /\ Front(s) \in Seq(Byte) /\ Len(Front(s)) = n - m
        /\ \A i \in 1 .. n - m : Front(s)[i] = d[i]
    <3>1. Len(s) - 1 = n - m
      BY <2>1, <2>2
    <3>2. /\ Front(s) \in Seq(Byte) /\ Len(Front(s)) = Len(s) - 1
          /\ \A i \in 1 .. Len(s) - 1 : Front(s)[i] = s[i]
      BY <2>2, <2>4, FrontType
    <3>3. \A i \in 1 .. n - m : i \in 1 .. n - h
      BY <2>1
    <3> QED BY <2>2, <3>1, <3>2, <3>3
  <2>6. Front(s) = r
    BY <2>3, <2>5, SeqEqual
  <2>7. s[Len(s)] = w
    <3>1. n + 1 - m = n - h
      BY <1>n, <1>11
    <3>2. w = d[n - h]
      BY <1>d, <1>11, <3>1
    <3> QED BY <2>1, <2>2, <3>2
  <2> QED BY <2>2, <2>4, <2>6, <2>7, NumberSteps
<1>14. total[m] = total[h] + w * p /\ Power[m] = Base * p /\ w \in Nat /\ p \in Nat
  <2>1. m \in D
    BY <1>n, <1>11
  <2>2. total[m] = total[m-1] + at(m) * Power[m-1]
    BY <1>6, <1>10, <2>1
  <2>3. Power[h+1] = Base * Power[h] /\ Power[h] \in Nat
    BY <1>11, PowerSteps
  <2> QED BY <1>a, <1>11, <2>2, <2>3
<1>15. Queue!Number[r] \in Nat /\ Base \in Nat
  <2>1. r \in Seq(Byte)
    <3> DEFINE g == n - m
    <3>1. g \in 0 .. Len(d)
      BY <1>n, <1>d, <1>11
    <3> HIDE DEF g
    <3> QED BY <1>d, <3>1, Prefix DEF g
  <2> QED BY <2>1, NumberSteps, BaseType
<1> DEFINE x == Queue!Number[r]
           y == Queue!Number[s]
           z == total[h]
           all == Queue!Number[d]
<1>16. y = w + Base * x /\ z \in Nat /\ y * p + z = all /\ x \in Nat
  BY <1>12, <1>13, <1>15
<1>17. total[m] = z + w * p /\ rest(m) * Power[m] = x * (Base * p)
  BY <1>14
<1> HIDE DEF x, y, z, all, w, p
<1>18. y * p = w * p + x * (Base * p)
  BY <1>14, <1>15, <1>16
<1>19. w * p \in Nat /\ x * (Base * p) \in Nat
  BY <1>14, <1>15, <1>16
<1>20. total[m] \in Nat /\ rest(m) * Power[m] + total[m] = all
  BY <1>16, <1>17, <1>18, <1>19
<1>21. Good(m)
  BY <1>20 DEF all
<1> QED BY <1>9, <1>21

LEMMA NumbersRead ==
    ASSUME NEW bytes \in Seq(Byte), NEW big \in BOOLEAN
    PROVE  /\ Unsigned(bytes, big) \in Words(Len(bytes))
           /\ Queue!AreBytesOf(bytes, Unsigned(bytes, big), big)
           /\ Len(bytes) # 0 => /\ Signed(bytes, big) \in Ints(Len(bytes))
                                /\ Queue!AreBytesOf(bytes, Signed(bytes, big), big)
<1> DEFINE n == Len(bytes)
           v == Unsigned(bytes, big)
           s == Signed(bytes, big)
           all == Power[n]
           num == Queue!Number[Digits(bytes, big)]
<1>1. n \in Nat /\ all \in Nat \ {0}
  BY PowerSteps
<1>2. num \in 0 .. all - 1
  BY DigitsType, NumberBound
<1>3. v = num
  BY ReadBytes
<1>4. v \in Words(n)
  BY <1>2, <1>3 DEF Words
<1>5. v % all = num
  <2> HIDE DEF v, all, num
  <2> QED BY <1>1, <1>2, <1>3, FloorIs
<1>6. ASSUME n # 0
      PROVE  s \in Ints(n) /\ s % all = num
  <2> DEFINE half == all \div 2
  <2>1. half \in Nat /\ all = 2 * half
    <3> HIDE DEF n
    <3>1. n \in Nat \ {0}
      BY <1>1, <1>6
    <3> QED BY <3>1, PowerEven
  <2>2. s = IF v < half THEN v ELSE v - all
    BY DEF Signed
  <2>3. s \in -half .. half - 1
    <3> HIDE DEF half, all, v, s, num
    <3> QED BY <1>1, <1>2, <1>3, <2>1, <2>2
  <2>4. s % all = num
    <3> HIDE DEF half, all, v, s, num
    <3>1. CASE v < half
      BY <1>3, <1>5, <2>2, <3>1
    <3>2. CASE ~(v < half)
      <4>1. s \in Int /\ -1 \in Int /\ s = all * (-1) + num
        BY <1>1, <1>2, <1>3, <2>2, <3>2
      <4> QED BY <1>1, <1>2, <4>1, FloorIs
    <3> QED BY <3>1, <3>2
  <2> QED BY <2>3, <2>4 DEF Ints
<1> HIDE DEF v, s, num
<1>7. Queue!AreBytesOf(bytes, v, big) /\ (n # 0 => Queue!AreBytesOf(bytes, s, big))
  BY <1>5, <1>6, AreBytes DEF num
<1> QED BY <1>4, <1>6, <1>7 DEF v, s

-----------------------------------------------------------------------------
(***************************************************************************)
(* The bytes below the write position have been written.                   *)
(***************************************************************************)
BufferInv == BufferIsSound /\ \A i \in 0 .. writePos - 1 : data[i] \in Byte

LEMMA BufferPositions ==
    ASSUME BufferInv
    PROVE  /\ capacity \in Nat \ {0} /\ capacity < Word /\ readPos \in Nat /\ writePos \in Nat
           /\ readPos <= writePos /\ writePos <= capacity /\ Readable \in Nat
           /\ Readable = writePos - readPos
BY BufferSizesAssumption DEF BufferInv, BufferIsSound, Readable

LEMMA AheadIs ==
    ASSUME BufferInv, NEW n \in 0 .. Readable
    PROVE  /\ n \in Nat /\ Ahead(n) \in Seq(Byte) /\ Len(Ahead(n)) = n /\ DOMAIN Ahead(n) = 1 .. n
           /\ \A i \in 1 .. n : Ahead(n)[i] = data[readPos + i - 1] /\ data[readPos + i - 1] \in Byte
<1>1. n \in Nat
  BY BufferPositions
<1>2. \A i \in 1 .. n : readPos + i - 1 \in 0 .. writePos - 1
  BY BufferPositions
<1>3. \A i \in 1 .. n : data[readPos + i - 1] \in Byte
  BY <1>2 DEF BufferInv
<1>4. Ahead(n) \in [1 .. n -> Byte]
  BY <1>3 DEF Ahead
<1>5. Ahead(n) \in Seq(Byte) /\ Len(Ahead(n)) = n
  BY <1>1, <1>4, FunSeq
<1>6. \A i \in 1 .. n : Ahead(n)[i] = data[readPos + i - 1]
  BY DEF Ahead
<1> QED BY <1>1, <1>3, <1>4, <1>5, <1>6

LEMMA AheadAll ==
    ASSUME BufferInv
    PROVE  /\ Ahead(Readable) \in Seq(Byte) /\ Len(Ahead(Readable)) = Readable
           /\ DOMAIN Ahead(Readable) = 1 .. Readable
           /\ Readable = 0 <=> Ahead(Readable) = <<>>
           /\ \A i \in 1 .. Readable : Ahead(Readable)[i] = data[readPos + i - 1]
<1>1. Readable \in 0 .. Readable
  BY BufferPositions
<1>2. /\ Ahead(Readable) \in Seq(Byte) /\ Len(Ahead(Readable)) = Readable
      /\ DOMAIN Ahead(Readable) = 1 .. Readable
      /\ \A i \in 1 .. Readable : Ahead(Readable)[i] = data[readPos + i - 1]
  BY <1>1, AheadIs
<1>3. Readable = 0 <=> Ahead(Readable) = <<>>
  BY <1>2, EmptySeq
<1> QED BY <1>2, <1>3

\* A call that is refused leaves the queue alone.
LEMMA Refuses ==
    ASSUME BufferInv, NEW reason, RefuseCall(reason)
    PROVE  BufferInv' /\ Queue!Refuse(reason)
<1>1. UNCHANGED <<data, capacity, readPos, writePos>> /\ reply' = reason
  BY DEF RefuseCall
<1>2. BufferInv'
  BY <1>1 DEF BufferInv, BufferIsSound
<1>3. Ahead(Readable)' = Ahead(Readable)
  BY <1>1 DEF Ahead, Readable
<1> QED BY <1>1, <1>2, <1>3 DEF Queue!Refuse

LEMMA FirstIs ==
    ASSUME BufferInv, NEW n \in 0 .. Readable
    PROVE  Queue!First(n) = Ahead(n)
<1> DEFINE q == Ahead(Readable)
<1>1. n \in Nat /\ n <= Readable
  BY BufferPositions
<1>2. /\ q \in Seq(Byte) /\ Len(q) = Readable
      /\ \A i \in 1 .. Readable : q[i] = data[readPos + i - 1]
  BY AheadAll
<1>3. Queue!First(n) = SubSeq(q, 1, n)
  BY DEF Queue!First
<1> HIDE DEF q
<1>4. n \in 0 .. Len(q)
  BY <1>1, <1>2, BufferPositions
<1>5. /\ SubSeq(q, 1, n) \in Seq(Byte) /\ Len(SubSeq(q, 1, n)) = n
      /\ \A i \in 1 .. n : SubSeq(q, 1, n)[i] = q[i]
  BY <1>2, <1>4, Prefix
<1>6. \A i \in 1 .. n : SubSeq(q, 1, n)[i] = Ahead(n)[i]
  <2>1. \A i \in 1 .. n : i \in 1 .. Readable
    BY <1>1, BufferPositions
  <2> QED BY <1>2, <1>5, <2>1, AheadIs
<1>7. Ahead(n) \in Seq(Byte) /\ Len(Ahead(n)) = n
  BY AheadIs
<1> QED BY <1>3, <1>5, <1>6, <1>7, SeqEqual

\* Reading takes from the front.
LEMMA Advances ==
    ASSUME BufferInv, NEW n \in 0 .. Readable, Advance(n)
    PROVE  BufferInv' /\ Queue!First(n) = Ahead(n) /\ Queue!Consume(n)
<1>1. readPos' = readPos + n /\ UNCHANGED <<data, capacity, writePos>>
  BY DEF Advance
<1>2. n \in Nat /\ n <= Readable
  BY BufferPositions
<1>3. BufferInv'
  <2>1. readPos' \in 0 .. writePos
    BY <1>1, <1>2, BufferPositions
  <2> QED BY <1>1, <2>1 DEF BufferInv, BufferIsSound
<1> DEFINE q == Ahead(Readable)
<1>4. /\ q \in Seq(Byte) /\ Len(q) = Readable
      /\ \A i \in 1 .. Readable : q[i] = data[readPos + i - 1]
  BY AheadAll
<1>5. Queue!First(n) = Ahead(n)
  BY FirstIs
<1>6. Queue!Consume(n)
  <2> DEFINE r == Ahead(Readable)'
             m == Readable - n
  <2>1. Readable' = m /\ m \in Nat
    BY <1>1, <1>2, BufferPositions DEF Readable
  <2>2. r = [i \in 1 .. m |-> data[readPos + n + i - 1]]
    <3>1. r = [i \in 1 .. m |-> data[(readPos + n) + i - 1]]
      BY <1>1, <2>1 DEF Ahead
    <3> QED BY <3>1
  <2> HIDE DEF q
  <2>3. SubSeq(q, n+1, Readable) = [i \in 1 .. m |-> q[n + i]]
    <3>1. \A i \in 1 .. m : i + (n + 1) - 1 = n + i
      BY <1>2
    <3>2. Readable - (n+1) + 1 = m
      BY <1>2, BufferPositions
    <3>3. n+1 \in 1 .. Len(q) + 1 /\ Readable \in 0 .. Len(q)
      BY <1>2, <1>4, BufferPositions
    <3> QED BY <1>2, <1>4, <3>1, <3>2, <3>3, BufferPositions
  <2>4. ASSUME NEW i \in 1 .. m PROVE q[n + i] = data[readPos + n + i - 1]
    <3>1. n + i \in 1 .. Readable /\ readPos + (n + i) - 1 = readPos + n + i - 1
      BY <1>2, BufferPositions
    <3> QED BY <1>4, <3>1
  <2>5. r = SubSeq(q, n+1, Readable)
    BY <2>2, <2>3, <2>4
  <2> QED BY <1>4, <2>5 DEF Queue!Consume, q
<1> QED BY <1>3, <1>5, <1>6

\* Writing adds at the end.
LEMMA Writes ==
    ASSUME ~Huge, BufferInv, NEW bytes \in Seq(Byte), NEW call, WriteBytes(bytes, call)
    PROVE  /\ BufferInv'
           /\ \/ Queue!Refuse(<<"full">>)
              \/ Ahead(Readable)' = Ahead(Readable) \o bytes /\ reply' = call
<1> DEFINE n == Len(bytes)
           cap == CapacityForBytes(n)
           at(i) == i - writePos + 1
<1>n. n \in Nat /\ \A i \in 1 .. n : bytes[i] \in Byte
  BY ElementOfSeq
<1>b. /\ writePos + n < Word
      /\ \/ cap >= Word /\ RefuseCall(<<"full">>)
         \/ /\ cap < Word
            /\ capacity' = cap
            /\ data' = [i \in 0 .. cap-1 |->
                          IF at(i) \in 1 .. n THEN bytes[at(i)] ELSE MovedBytes(cap)[i]]
            /\ writePos' = (writePos + n) % Word
            /\ reply' = call
            /\ UNCHANGED readPos
  BY DEF WriteBytes
<1> HIDE DEF n
<1>w. (writePos + n) % Word = writePos + n
  <2> DEFINE a == writePos + n
  <2>1. a \in Nat /\ a < Word /\ Word \in Nat \ {0}
    BY <1>n, <1>b, BufferPositions, BufferSizesAssumption
  <2>2. a \in 0 .. Word - 1 /\ a = Word * 0 + a /\ 0 \in Int
    BY <2>1
  <2> HIDE DEF a
  <2>3. a % Word = a
    BY <2>1, <2>2, FloorIs
  <2> QED BY <2>3 DEF a
<1>c. cap \in Nat /\ cap >= capacity /\ cap >= writePos + n
  <2> DEFINE required == writePos + n
  <2>1. required \in Nat /\ capacity \in Nat \ {0}
    BY <1>n, BufferPositions
  <2>2. cap = IF required <= capacity THEN capacity ELSE GrownCapacity(required)
    BY <1>w DEF CapacityForBytes
  <2> HIDE DEF cap, required
  <2>3. GrownCapacity(required) \in Nat /\ GrownCapacity(required) >= required
        /\ GrownCapacity(required) >= capacity
    BY <2>1, Grown
  <2>4. cap \in Nat /\ cap >= capacity /\ cap >= required
    BY <2>1, <2>2, <2>3
  <2> QED BY <2>4 DEF required
<1> HIDE DEF cap
<1>1. CASE cap >= Word
  <2>1. RefuseCall(<<"full">>)
    BY <1>b, <1>c, <1>1, BufferSizesAssumption
  <2> QED BY <2>1, Refuses
<1>2. CASE cap < Word
  <2>1. /\ capacity' = cap /\ writePos' = writePos + n /\ reply' = call /\ readPos' = readPos
        /\ data' = [i \in 0 .. cap-1 |->
                      IF at(i) \in 1 .. n THEN bytes[at(i)] ELSE MovedBytes(cap)[i]]
    BY <1>b, <1>c, <1>w, <1>2, BufferSizesAssumption
  <2>2. ASSUME NEW i \in 0 .. writePos - 1
        PROVE  i \in 0 .. cap - 1 /\ data'[i] = data[i] /\ data[i] \in Byte
    <3>1. i \in 0 .. cap - 1 /\ i < capacity /\ at(i) \notin 1 .. n
      BY <1>c, BufferPositions
    <3>2. MovedBytes(cap)[i] = data[i]
      BY <3>1 DEF MovedBytes
    <3> HIDE DEF at
    <3> QED BY <2>1, <3>1, <3>2 DEF BufferInv
  <2>3. ASSUME NEW j \in 1 .. n
        PROVE  data'[writePos + j - 1] = bytes[j]
    <3> DEFINE i == writePos + j - 1
    <3>1. i \in 0 .. cap - 1 /\ at(i) = j
      BY <1>n, <1>c, BufferPositions
    <3> HIDE DEF i, at
    <3> QED BY <2>1, <3>1 DEF i
  <2>4. data' \in [0 .. cap-1 -> Byte \cup {Junk}]
    <3>1. data \in [0 .. capacity-1 -> Byte \cup {Junk}]
      BY DEF BufferInv, BufferIsSound
    <3>2. ASSUME NEW i \in 0 .. cap-1 PROVE MovedBytes(cap)[i] \in Byte \cup {Junk}
      <4>1. i < capacity => i \in 0 .. capacity - 1
        BY BufferPositions
      <4> QED BY <3>1, <4>1 DEF MovedBytes
    <3> HIDE DEF at
    <3> QED BY <1>n, <2>1, <3>2
  <2>5. BufferIsSound'
    <3>1. /\ capacity' \in 1 .. Word-1 /\ readPos' \in 0 .. writePos'
          /\ writePos' \in 0 .. capacity'
      BY <1>n, <1>c, <1>2, <2>1, BufferPositions, BufferSizesAssumption
    <3> QED BY <2>1, <2>4, <3>1 DEF BufferIsSound
  <2>6. ASSUME NEW i \in 0 .. writePos' - 1 PROVE data'[i] \in Byte
    <3>1. CASE i < writePos
      BY <2>2, <3>1, BufferPositions
    <3>2. CASE ~(i < writePos)
      <4> DEFINE j == i - writePos + 1
      <4>1. j \in 1 .. n /\ writePos + j - 1 = i
        BY <1>n, <2>1, <3>2, BufferPositions
      <4> HIDE DEF j
      <4> QED BY <1>n, <2>3, <4>1
    <3> QED BY <3>1, <3>2
  <2>7. BufferInv'
    BY <2>5, <2>6 DEF BufferInv
  <2> DEFINE q == Ahead(Readable)
             r == Ahead(Readable)'
             m == Readable + n
  <2>8. Readable' = m /\ m \in Nat
    BY <1>n, <2>1, BufferPositions DEF Readable
  <2>9. r = [i \in 1 .. m |-> data'[readPos + i - 1]]
    BY <2>1, <2>8 DEF Ahead
  <2>10. /\ q \in Seq(Byte) /\ Len(q) = Readable
         /\ \A i \in 1 .. Readable : q[i] = data[readPos + i - 1]
    BY AheadAll
  <2> HIDE DEF q
  <2>11. q \o bytes = [i \in 1 .. m |-> IF i <= Readable THEN q[i] ELSE bytes[i - Readable]]
    <3> DEFINE y == q \o bytes
    <3>1. /\ y \in Seq(Byte) /\ Len(y) = m
          /\ \A i \in 1 .. m : y[i] = IF i <= Readable THEN q[i] ELSE bytes[i - Readable]
      BY <2>10, ConcatProperties DEF n
    <3> HIDE DEF y
    <3>2. y = [i \in 1 .. m |-> y[i]]
      <4>1. y \in [1 .. Len(y) -> Byte]
        BY <3>1, LenProperties
      <4> HIDE DEF m
      <4> QED BY <3>1, <4>1
    <3>3. y = [i \in 1 .. m |-> IF i <= Readable THEN q[i] ELSE bytes[i - Readable]]
      BY <3>1, <3>2
    <3> QED BY <3>3 DEF y
  <2>12. ASSUME NEW i \in 1 .. m
         PROVE  data'[readPos + i - 1] = IF i <= Readable THEN q[i] ELSE bytes[i - Readable]
    <3>1. CASE i <= Readable
      <4>1. i \in 1 .. Readable /\ readPos + i - 1 \in 0 .. writePos - 1
        BY <3>1, BufferPositions
      <4> QED BY <2>2, <2>10, <3>1, <4>1
    <3>2. CASE ~(i <= Readable)
      <4>1. i - Readable \in 1 .. n /\ writePos + (i - Readable) - 1 = readPos + i - 1
        BY <1>n, <3>2, BufferPositions
      <4> QED BY <2>3, <3>2, <4>1
    <3> QED BY <3>1, <3>2
  <2>13. r = q \o bytes
    BY <2>9, <2>11, <2>12
  <2> QED BY <2>1, <2>7, <2>13 DEF q
<1> QED BY <1>1, <1>2, <1>c, BufferSizesAssumption

-----------------------------------------------------------------------------
(***************************************************************************)
(* Every call is a call of the queue.                                      *)
(***************************************************************************)
CallAgrees == BufferInv' /\ Queue!Next

\* Whatever is refused is refused for one of the queue's reasons.
LEMMA RefusedForAReason ==
    ASSUME BufferInv, NEW reason, RefuseCall(reason),
           \/ reason \in {<<"full">>, <<"negative">>}
           \/ \E n \in BytesAsked \cup IntWidths \cup FloatWidths \cup {1} :
                 n > Readable /\ reason = <<"short", n>>
    PROVE  CallAgrees
<1>1. BufferInv' /\ Queue!Refuse(reason)
  BY Refuses
<1>2. CASE reason \in {<<"full">>, <<"negative">>}
  BY <1>1, <1>2 DEF CallAgrees, Queue!Next
<1>3. CASE \E n \in BytesAsked \cup IntWidths \cup FloatWidths \cup {1} :
              n > Readable /\ reason = <<"short", n>>
  <2>1. Len(Ahead(Readable)) = Readable
    BY AheadAll
  <2> QED BY <1>1, <1>3, <2>1 DEF CallAgrees, Queue!Next
<1> QED BY <1>2, <1>3

\* Texts, and the readable bytes themselves.
LEMMA PutsAgree ==
    ASSUME ~Huge, BufferInv, NEW bytes \in BufferTexts \cup {Ahead(Readable)},
           WriteBytes(bytes, <<"put", bytes>>)
    PROVE  CallAgrees
<1>1. bytes \in Seq(Byte)
  BY AheadAll, BufferSizesAssumption
<1>2. /\ BufferInv'
      /\ \/ Queue!Refuse(<<"full">>)
         \/ Ahead(Readable)' = Ahead(Readable) \o bytes /\ reply' = <<"put", bytes>>
  BY <1>1, Writes
<1>3. CASE Queue!Refuse(<<"full">>)
  BY <1>2, <1>3 DEF CallAgrees, Queue!Next
<1>4. CASE Ahead(Readable)' = Ahead(Readable) \o bytes /\ reply' = <<"put", bytes>>
  <2>1. Queue!Put(bytes)
    BY <1>4 DEF Queue!Put
  <2> QED BY <1>2, <2>1 DEF CallAgrees, Queue!Next
<1> QED BY <1>2, <1>3, <1>4

LEMMA PutNumbersAgree ==
    ASSUME ~Huge, BufferInv, NEW n \in Nat, NEW v \in Int, NEW big \in BOOLEAN,
           WriteBytes(BytesOf(v, n, big), <<"put number", v, n, big>>),
           \/ n \in IntWidths \cup {1} /\ v \in Ints(IntSize)
           \/ n \in FloatWidths /\ v \in Words(n)
    PROVE  CallAgrees
<1> DEFINE b == BytesOf(v, n, big)
<1>1. b \in [1 .. n -> Byte] /\ b \in Seq(Byte) /\ Queue!AreBytesOf(b, v, big)
  BY WrittenBytes
<1> HIDE DEF b
<1>2. /\ BufferInv'
      /\ \/ Queue!Refuse(<<"full">>)
         \/ Ahead(Readable)' = Ahead(Readable) \o b /\ reply' = <<"put number", v, n, big>>
  BY <1>1, Writes DEF b
<1>3. CASE Queue!Refuse(<<"full">>)
  BY <1>2, <1>3 DEF CallAgrees, Queue!Next
<1>4. CASE Ahead(Readable)' = Ahead(Readable) \o b /\ reply' = <<"put number", v, n, big>>
  <2>1. Queue!PutNumber(v, n, big)
    BY <1>1, <1>4, QueueBytes DEF Queue!PutNumber
  <2>2. Queue!Ints(IntSize) = Ints(IntSize) /\ Queue!Words(n) = Words(n)
    BY QueueBytes DEF Queue!Ints, Ints, Queue!Words, Words
  <2> QED BY <1>2, <2>1, <2>2 DEF CallAgrees, Queue!Next
<1> QED BY <1>2, <1>3, <1>4

LEMMA TakeNumbersAgree ==
    ASSUME BufferInv, NEW n \in Nat, NEW big \in BOOLEAN, NEW value,
           ReadNumber(n, big, value),
           \/ n \in IntWidths /\ value = Signed(Ahead(n), big)
           \/ n \in FloatWidths \cup {1} /\ value = Unsigned(Ahead(n), big)
    PROVE  CallAgrees
<1>1. CASE Readable < n /\ RefuseCall(<<"short", n>>)
  <2>1. n > Readable
    BY <1>1, BufferPositions
  <2> QED BY <1>1, <2>1, RefusedForAReason
<1>2. CASE Readable >= n /\ reply' = <<"number", value, n, big>> /\ Advance(n)
  <2>1. n \in 0 .. Readable
    BY <1>2, BufferPositions
  <2>2. BufferInv' /\ Queue!First(n) = Ahead(n) /\ Queue!Consume(n)
    BY <1>2, <2>1, Advances
  <2>3. Ahead(n) \in Seq(Byte) /\ Len(Ahead(n)) = n /\ n <= Len(Ahead(Readable))
    BY <2>1, AheadIs, AheadAll, BufferPositions
  <2>4. Queue!Ints(n) = Ints(n) /\ Queue!Words(n) = Words(n)
    BY QueueBytes DEF Queue!Ints, Ints, Queue!Words, Words
  <2>5. CASE n \in IntWidths /\ value = Signed(Ahead(n), big)
    <3>1. n # 0
      BY <2>5, BufferSizesAssumption
    <3>2. value \in Ints(n) /\ Queue!AreBytesOf(Ahead(n), value, big)
      BY <2>3, <2>5, <3>1, NumbersRead
    <3>3. Queue!TakeNumber(value, n, big)
      BY <1>2, <2>2, <2>3, <3>2 DEF Queue!TakeNumber
    <3> QED BY <2>2, <2>4, <2>5, <3>2, <3>3 DEF CallAgrees, Queue!Next
  <2>6. CASE n \in FloatWidths \cup {1} /\ value = Unsigned(Ahead(n), big)
    <3>1. value \in Words(n) /\ Queue!AreBytesOf(Ahead(n), value, big)
      BY <2>3, <2>6, NumbersRead
    <3>2. Queue!TakeNumber(value, n, big)
      BY <1>2, <2>2, <2>3, <3>1 DEF Queue!TakeNumber
    <3> QED BY <2>2, <2>4, <2>6, <3>1, <3>2 DEF CallAgrees, Queue!Next
  <2> QED BY <2>5, <2>6
<1> QED BY <1>1, <1>2 DEF ReadNumber

LEMMA ReadStringAgrees ==
    ASSUME BufferInv, NEW n \in BytesAsked, ReadString(n) PROVE CallAgrees
<1>1. CASE n < 0 /\ RefuseCall(<<"negative">>)
  BY <1>1, RefusedForAReason
<1>2. CASE n > Readable /\ RefuseCall(<<"short", n>>)
  BY <1>2, RefusedForAReason
<1>3. CASE n \in 0 .. Readable /\ reply' = <<"string", Ahead(n)>> /\ Advance(n)
  <2>1. BufferInv' /\ Queue!First(n) = Ahead(n) /\ Queue!Consume(n)
    BY <1>3, Advances
  <2>2. Queue!Take(n, "string")
    BY <1>3, <2>1 DEF Queue!Take
  <2>3. n \in 0 .. Len(Ahead(Readable))
    BY <1>3, AheadAll
  <2> QED BY <2>1, <2>2, <2>3 DEF CallAgrees, Queue!Next
<1> QED BY <1>1, <1>2, <1>3 DEF ReadString

LEMMA SkipAgrees ==
    ASSUME BufferInv, NEW n \in BytesAsked, SkipBytes(n) PROVE CallAgrees
<1>1. CASE n < 0 /\ RefuseCall(<<"negative">>)
  BY <1>1, RefusedForAReason
<1>2. CASE n > Readable /\ RefuseCall(<<"short", n>>)
  BY <1>2, RefusedForAReason
<1>3. CASE n \in 0 .. Readable /\ reply' = <<"skipped", n>> /\ Advance(n)
  <2>1. BufferInv' /\ Queue!Consume(n)
    BY <1>3, Advances
  <2>2. Queue!Skip(n)
    BY <1>3, <2>1 DEF Queue!Skip
  <2>3. n \in 0 .. Len(Ahead(Readable))
    BY <1>3, AheadAll
  <2> QED BY <2>1, <2>2, <2>3 DEF CallAgrees, Queue!Next
<1> QED BY <1>1, <1>2, <1>3 DEF SkipBytes

LEMMA EmptyIsShort ==
    ASSUME BufferInv, Readable = 0, RefuseCall(<<"short", 1>>) PROVE CallAgrees
BY RefusedForAReason

LEMMA TakeAll ==
    ASSUME BufferInv, NEW call, Readable > 0, reply' = <<call, Ahead(Readable)>>, Advance(Readable)
    PROVE  /\ BufferInv' /\ Ahead(Readable) # <<>>
           /\ Queue!Take(Len(Ahead(Readable)), call)
<1>1. Readable \in 0 .. Readable
  BY BufferPositions
<1>2. BufferInv' /\ Queue!First(Readable) = Ahead(Readable) /\ Queue!Consume(Readable)
  BY <1>1, Advances
<1>3. Len(Ahead(Readable)) = Readable /\ Ahead(Readable) # <<>>
  BY AheadAll, BufferPositions
<1> QED BY <1>2, <1>3 DEF Queue!Take

LEMMA ReadAllAgrees == ASSUME BufferInv, ReadAllBytes PROVE CallAgrees
<1>1. CASE Readable = 0 /\ RefuseCall(<<"short", 1>>)
  BY <1>1, EmptyIsShort
<1>2. CASE Readable > 0 /\ reply' = <<"all", Ahead(Readable)>> /\ Advance(Readable)
  <2>1. /\ BufferInv' /\ Ahead(Readable) # <<>>
        /\ Queue!Take(Len(Ahead(Readable)), "all")
    BY <1>2, TakeAll
  <2> QED BY <2>1 DEF CallAgrees, Queue!Next
<1> QED BY <1>1, <1>2 DEF ReadAllBytes

LEMMA ReadLineAgrees == ASSUME BufferInv, ReadTextLine PROVE CallAgrees
<1> DEFINE Breaks == {i \in readPos .. writePos - 1 : data[i] = Newline}
           q == Ahead(Readable)
           Ends == {i \in DOMAIN q : q[i] = Newline}
<1>q. /\ Len(q) = Readable /\ DOMAIN q = 1 .. Readable
      /\ \A i \in 1 .. Readable : q[i] = data[readPos + i - 1]
  BY AheadAll
<1>l. Queue!TakeLine <=>
        \/ Ends = {} /\ q # <<>> /\ Queue!Take(Len(q), "line")
        \/ \E i \in Ends : /\ \A j \in Ends : i <= j
                           /\ reply' = <<"line", Queue!First(i-1)>>
                           /\ Queue!Consume(i)
  BY DEF Queue!TakeLine
<1> HIDE DEF q
<1>e. \A i \in Ends : /\ readPos + i - 1 \in Breaks
  <2> TAKE i \in Ends
  <2>1. i \in 1 .. Readable /\ q[i] = Newline
    BY <1>q
  <2>2. readPos + i - 1 \in readPos .. writePos - 1
    BY <2>1, BufferPositions
  <2> QED BY <1>q, <2>1, <2>2
<1>b. \A i \in Breaks : /\ i - readPos + 1 \in Ends /\ i - readPos + 1 \in 1 .. Readable
  <2> TAKE i \in Breaks
  <2> DEFINE k == i - readPos + 1
  <2>1. k \in 1 .. Readable /\ readPos + k - 1 = i
    BY BufferPositions
  <2> HIDE DEF k
  <2>2. q[k] = Newline
    BY <1>q, <2>1
  <2>3. k \in Ends
    BY <1>q, <2>1, <2>2
  <2> QED BY <2>1, <2>3 DEF k
<1>1. CASE Readable = 0 /\ RefuseCall(<<"short", 1>>)
  BY <1>1, EmptyIsShort
<1>2. CASE Readable > 0 /\ Breaks = {} /\ reply' = <<"line", Ahead(Readable)>> /\ Advance(Readable)
  <2>1. BufferInv' /\ q # <<>> /\ Queue!Take(Len(q), "line")
    BY <1>2, TakeAll DEF q
  <2>2. Ends = {}
    BY <1>2, <1>e
  <2> QED BY <1>l, <2>1, <2>2 DEF CallAgrees, Queue!Next
<1>3. ASSUME NEW end \in Breaks, \A i \in Breaks : end <= i,
             reply' = <<"line", Ahead(end - readPos)>>, Advance(end + 1 - readPos)
      PROVE  CallAgrees
  <2> DEFINE k == end - readPos + 1
  <2>1. k \in Ends /\ k \in 1 .. Readable
    BY <1>b
  <2>2. k - 1 = end - readPos /\ k = end + 1 - readPos /\ k \in 0 .. Readable /\ k - 1 \in 0 .. Readable
    BY <2>1, BufferPositions
  <2>3. BufferInv' /\ Queue!Consume(k)
    <3>1. Advance(k)
      BY <1>3, <2>2
    <3> HIDE DEF k
    <3> QED BY <2>2, <3>1, Advances
  <2>4. Queue!First(k - 1) = Ahead(k - 1)
    <3> HIDE DEF k
    <3> QED BY <2>2, FirstIs
  <2>5. \A j \in Ends : k <= j
    <3> TAKE j \in Ends
    <3>1. end <= readPos + j - 1 /\ j \in 1 .. Readable
      BY <1>3, <1>e, <1>q
    <3> QED BY <3>1, BufferPositions
  <2>6. reply' = <<"line", Queue!First(k - 1)>>
    BY <1>3, <2>2, <2>4
  <2> HIDE DEF k, Ends
  <2>7. Queue!TakeLine
    BY <1>l, <2>1, <2>3, <2>5, <2>6
  <2> QED BY <2>3, <2>7 DEF CallAgrees, Queue!Next
<1> QED BY <1>1, <1>2, <1>3 DEF ReadTextLine

LEMMA PeekAgrees == ASSUME BufferInv, PeekByte PROVE CallAgrees
<1> DEFINE byte == IF Readable = 0 THEN -1 ELSE data[readPos]
           q == Ahead(Readable)
<1>1. BufferInv' /\ Queue!Refuse(<<"next", byte>>)
  BY Refuses DEF PeekByte
<1>2. byte = IF q = <<>> THEN -1 ELSE Head(q)
  <2>1. CASE Readable = 0
    BY <2>1, AheadAll
  <2>2. CASE Readable # 0
    <3>1. q # <<>> /\ 1 \in 1 .. Readable /\ q[1] = data[readPos + 1 - 1] /\ readPos + 1 - 1 = readPos
      BY <2>2, AheadAll, BufferPositions
    <3>2. q \in Seq(Byte)
      BY AheadAll
    <3> HIDE DEF q
    <3>3. Head(q) = q[1]
      BY <3>1, <3>2
    <3> QED BY <2>2, <3>1, <3>3
  <2> QED BY <2>1, <2>2
<1>3. Queue!Peek
  BY <1>1, <1>2 DEF Queue!Peek, Queue!Refuse
<1> QED BY <1>1, <1>3 DEF CallAgrees, Queue!Next

LEMMA ClearAgrees == ASSUME BufferInv, ClearBuffer PROVE CallAgrees
<1>1. readPos' = 0 /\ writePos' = 0 /\ reply' = <<"cleared">> /\ UNCHANGED <<data, capacity>>
  BY DEF ClearBuffer
<1>2. BufferInv'
  BY <1>1, BufferPositions DEF BufferInv, BufferIsSound
<1>3. Ahead(Readable)' = <<>>
  BY <1>1 DEF Ahead, Readable
<1>4. Queue!Empty
  BY <1>1, <1>3 DEF Queue!Empty
<1> QED BY <1>2, <1>4 DEF CallAgrees, Queue!Next

LEMMA CloneAgrees == ASSUME BufferInv, Clone PROVE CallAgrees
<1>1. /\ data' = [i \in 0 .. capacity-1 |-> IF i < writePos THEN data[i] ELSE Junk]
      /\ reply' = <<"kept">> /\ UNCHANGED <<capacity, readPos, writePos>>
  BY DEF Clone
<1>2. \A i \in 0 .. writePos - 1 : i \in 0 .. capacity-1 /\ i < writePos
  BY BufferPositions
<1>3. \A i \in 0 .. writePos - 1 : data'[i] = data[i] /\ data[i] \in Byte
  BY <1>1, <1>2 DEF BufferInv
<1>4. BufferInv'
  <2>1. ASSUME NEW i \in 0 .. capacity-1
        PROVE  (IF i < writePos THEN data[i] ELSE Junk) \in Byte \cup {Junk}
    BY DEF BufferInv, BufferIsSound
  <2>2. data' \in [0 .. capacity-1 -> Byte \cup {Junk}]
    BY <1>1, <2>1
  <2> QED BY <1>1, <1>3, <2>2 DEF BufferInv, BufferIsSound
<1>5. Ahead(Readable)' = Ahead(Readable)
  <2>1. Readable' = Readable
    BY <1>1 DEF Readable
  <2>2. Ahead(Readable)' = [i \in 1 .. Readable |-> data'[readPos + i - 1]]
    BY <1>1, <2>1 DEF Ahead
  <2>3. \A i \in 1 .. Readable : readPos + i - 1 \in 0 .. writePos - 1
    BY BufferPositions
  <2> QED BY <1>3, <2>2, <2>3 DEF Ahead
<1> QED BY <1>1, <1>4, <1>5 DEF CallAgrees, Queue!Next, Queue!Keep

LEMMA CompactAgrees == ASSUME BufferInv, Compact PROVE CallAgrees
<1>1. /\ data' = [i \in 0 .. capacity-1 |-> IF i < Readable THEN data[readPos + i] ELSE data[i]]
      /\ readPos' = 0 /\ writePos' = Readable /\ reply' = <<"kept">> /\ capacity' = capacity
  BY DEF Compact
<1>2. \A i \in 0 .. Readable - 1 : /\ i \in 0 .. capacity-1 /\ i < Readable
                                   /\ readPos + i \in 0 .. writePos - 1
                                   /\ readPos + i \in 0 .. capacity - 1
  BY BufferPositions
<1>3. \A i \in 0 .. Readable - 1 : data'[i] = data[readPos + i] /\ data[readPos + i] \in Byte
  BY <1>1, <1>2 DEF BufferInv
<1>4. BufferInv'
  <2>1. ASSUME NEW i \in 0 .. capacity-1
        PROVE  (IF i < Readable THEN data[readPos + i] ELSE data[i]) \in Byte \cup {Junk}
    <3>1. CASE i < Readable
      <4>1. i \in 0 .. Readable - 1
        BY <3>1, BufferPositions
      <4> QED BY <1>3, <3>1, <4>1
    <3>2. CASE ~(i < Readable)
      BY <3>2 DEF BufferInv, BufferIsSound
    <3> QED BY <3>1, <3>2
  <2>2. data' \in [0 .. capacity-1 -> Byte \cup {Junk}]
    BY <1>1, <2>1
  <2>3. BufferIsSound'
    <3>1. readPos' \in 0 .. writePos' /\ writePos' \in 0 .. capacity'
      BY <1>1, BufferPositions
    <3> QED BY <1>1, <2>2, <3>1 DEF BufferInv, BufferIsSound
  <2> QED BY <1>1, <1>3, <2>3 DEF BufferInv
<1>5. Ahead(Readable)' = Ahead(Readable)
  <2>1. Readable' = Readable
    BY <1>1, BufferPositions DEF Readable
  <2>2. Ahead(Readable)' = [i \in 1 .. Readable |-> data'[0 + i - 1]]
    BY <1>1, <2>1 DEF Ahead
  <2>3. ASSUME NEW i \in 1 .. Readable PROVE data'[0 + i - 1] = data[readPos + i - 1]
    <3> DEFINE k == i - 1
    <3>1. k \in 0 .. Readable - 1 /\ 0 + i - 1 = k /\ readPos + i - 1 = readPos + k
      BY BufferPositions
    <3> HIDE DEF k
    <3> QED BY <1>3, <3>1
  <2> QED BY <2>2, <2>3 DEF Ahead
<1> QED BY <1>1, <1>4, <1>5 DEF CallAgrees, Queue!Next, Queue!Keep

LEMMA BufferCallsAgree == ASSUME ~Huge, BufferInv, BufferNext PROVE CallAgrees
<1>i. /\ IntWidths \subseteq Nat /\ FloatWidths \subseteq Nat /\ 1 \in Nat
      /\ TRUE \in BOOLEAN /\ FALSE \in BOOLEAN
  BY BufferSizesAssumption
<1>v. ASSUME NEW n \in Nat
      PROVE  Ints(n) \subseteq Int /\ Words(n) \subseteq Int
  BY PowerSteps, Floor DEF Ints, Words
<1>1. ASSUME NEW v \in Ints(IntSize), WriteByte(v)
      PROVE  CallAgrees
  <2>1. v \in Int
    BY <1>v, BufferSizesAssumption
  <2> QED BY <1>i, <1>1, <2>1, PutNumbersAgree DEF WriteByte, WriteInt
<1>2. ASSUME NEW n \in IntWidths, NEW v \in Ints(IntSize), NEW big \in BOOLEAN, WriteInt(v, n, big)
      PROVE  CallAgrees
  <2>1. v \in Int /\ n \in Nat
    BY <1>i, <1>v, BufferSizesAssumption
  <2> QED BY <1>2, <2>1, PutNumbersAgree DEF WriteInt
<1>3. ASSUME NEW n \in FloatWidths, NEW bits \in Words(n), NEW big \in BOOLEAN, WriteFloat(bits, n, big)
      PROVE  CallAgrees
  <2>1. bits \in Int /\ n \in Nat
    BY <1>i, <1>v
  <2> QED BY <1>3, <2>1, PutNumbersAgree DEF WriteFloat
<1>4. ASSUME NEW t \in BufferTexts, WriteString(t)
      PROVE  CallAgrees
  BY <1>4, PutsAgree DEF WriteString
<1>5. CASE WriteBuffer
  BY <1>5, PutsAgree DEF WriteBuffer
<1>6. ASSUME NEW n \in IntWidths, NEW big \in BOOLEAN, ReadInt(n, big)
      PROVE  CallAgrees
  <2>1. n \in Nat
    BY <1>i
  <2> QED BY <1>6, <2>1, TakeNumbersAgree DEF ReadInt
<1>7. ASSUME NEW n \in FloatWidths \cup {1}, NEW big \in BOOLEAN, ReadFloat(n, big)
      PROVE  CallAgrees
  <2>1. n \in Nat
    BY <1>i
  <2> QED BY <1>7, <2>1, TakeNumbersAgree DEF ReadFloat
<1>8. CASE ReadByte
  <2>1. ReadFloat(1, FALSE)
    BY <1>8 DEF ReadByte
  <2> QED BY <1>i, <1>7, <2>1
<1> QED BY <1>1, <1>2, <1>3, <1>4, <1>5, <1>6, <1>7, <1>8, ReadStringAgrees, SkipAgrees,
           ReadAllAgrees, ReadLineAgrees, PeekAgrees, ClearAgrees, CloneAgrees, CompactAgrees
        DEF BufferNext

LEMMA BufferStart == ASSUME BufferInit PROVE BufferInv /\ Queue!Init
<1>1. /\ data = [i \in 0 .. InitialCapacity-1 |-> Junk] /\ capacity = InitialCapacity
      /\ readPos = 0 /\ writePos = 0 /\ reply = <<"ok">>
  BY DEF BufferInit
<1>2. BufferInv
  <2>1. data \in [0 .. capacity-1 -> Byte \cup {Junk}]
    BY <1>1
  <2> QED BY <1>1, <2>1, BufferSizesAssumption DEF BufferInv, BufferIsSound
<1>3. Ahead(Readable) = <<>>
  BY <1>1 DEF Ahead, Readable
<1> QED BY <1>1, <1>2, <1>3 DEF Queue!Init

LEMMA BufferStutters ==
    ASSUME BufferInv, UNCHANGED bufferVars PROVE BufferInv' /\ UNCHANGED Queue!vars
BY DEF BufferInv, BufferIsSound, bufferVars, Queue!vars, Ahead, Readable

\* A buffer never reads or writes outside its memory, however it grows, as long
\* as no position comes to 2^32: ensure_write_capacity, grow_buffer and every
\* native that reads.
THEOREM BufferStaysSound ==
    ASSUME ~Huge PROVE BufferSpec => []BufferIsSound
<1>1. BufferInit => BufferInv
  BY BufferStart
<1>2. BufferInv /\ [BufferNext]_bufferVars => BufferInv'
  BY BufferCallsAgree, BufferStutters DEF CallAgrees
<1>3. BufferInv => BufferIsSound
  BY DEF BufferInv
<1> QED BY <1>1, <1>2, <1>3, PTL DEF BufferSpec

\* A buffer is a queue of bytes, for any number of bytes: what is written is
\* read in the order it was written, whatever grew, was cloned or compacted in
\* between, and a number is read as the number of the bytes it was written as,
\* in either order.
THEOREM BuffersImplementQueues ==
    ASSUME ~Huge PROVE BufferSpec => BuffersAreQueues
<1>1. BufferInit => BufferInv /\ Queue!Init
  BY BufferStart
<1>2. BufferInv /\ [BufferNext]_bufferVars => BufferInv' /\ [Queue!Next]_Queue!vars
  BY BufferCallsAgree, BufferStutters DEF CallAgrees
<1> QED BY <1>1, <1>2, PTL DEF BufferSpec, BuffersAreQueues, Queue!Spec

-----------------------------------------------------------------------------
(***************************************************************************)
(* Powers and fractions.                                                   *)
(***************************************************************************)
LEMMA RaisedSteps ==
    ASSUME NEW n \in Int
    PROVE  /\ Raised(n, 0) = 1
           /\ \A k \in Nat : Raised(n, k) \in Int /\ Raised(n, k+1) = n * Raised(n, k)
<1> DEFINE Body(f, k) == IF k = 0 THEN 1 ELSE n * f[k-1]
           F == [f \in [Nat -> Int] |-> [k \in Nat |-> Body(f, k)]]
           R == [k \in Nat |-> k]
           Follows(f) == f = [k \in Nat |-> Body(f, k)]
<1>d. \A k \in Nat : k # 0 => k-1 \in Nat /\ k-1 < k
  OBVIOUS
<1>1. F \in [[Nat -> Int] -> [Nat -> Int]]
  <2> SUFFICES ASSUME NEW f \in [Nat -> Int], NEW k \in Nat PROVE Body(f, k) \in Int
    OBVIOUS
  <2>1. CASE k = 0
    BY <2>1
  <2>2. CASE k # 0
    <3>1. f[k-1] \in Int
      BY <1>d, <2>2
    <3> QED BY <2>2, <3>1
  <2> QED BY <2>1, <2>2
<1>2. ASSUME NEW f \in [Nat -> Int], NEW g \in [Nat -> Int], NEW k \in Nat,
             \A j \in Nat : R[j] < R[k] => f[j] = g[j]
      PROVE  F[f][k] = F[g][k]
  <2>1. CASE k = 0
    BY <2>1
  <2>2. CASE k # 0
    <3>1. f[k-1] = g[k-1]
      BY <1>2, <1>d, <2>2
    <3> QED BY <2>2, <3>1
  <2> QED BY <2>1, <2>2
<1>3. \E f \in [Nat -> Int] : f = F[f]
  <2> DEFINE D == Nat
  <2>1. R \in [D -> Nat] /\ Int # {}
    OBVIOUS
  <2>2. ByRank(D, Int, R, F)
    <3> HIDE DEF F, R
    <3> QED BY <1>1, <1>2, <2>1 DEF ByRank
  <2> HIDE DEF D, F, R
  <2>3. \E f \in [D -> Int] : f = F[f]
    BY <2>2, FunctionsByRank
  <2> QED BY <2>3 DEF D
<1>4. \E f : Follows(f)
  BY <1>3
<1> DEFINE power == CHOOSE f : Follows(f)
<1>5. \A k : Raised(n, k) = power[k]
  BY DEF Raised
<1>6. Follows(power)
  <2> HIDE DEF Follows
  <2> QED BY <1>4
<1> HIDE DEF power
<1>7. Raised(n, 0) = 1 /\ \A k \in Nat : Raised(n, k+1) = n * Raised(n, k)
  <2>1. \A k \in Nat : k+1 \in Nat /\ k+1 # 0 /\ (k+1)-1 = k
    OBVIOUS
  <2>2. power[0] = 1 /\ \A k \in Nat : power[k+1] = n * power[k]
    BY <1>6, <2>1
  <2>3. Raised(n, 0) = power[0] /\ \A k \in Nat : Raised(n, k+1) = power[k+1] /\ Raised(n, k) = power[k]
    BY <1>5
  <2> QED BY <2>2, <2>3
<1>8. \A k \in Nat : Raised(n, k) \in Int
  <2> DEFINE T == {k \in Nat : Raised(n, k) \notin Int}
  <2>1. SUFFICES ASSUME T # {} PROVE FALSE
    OBVIOUS
  <2>2. PICK k \in T : \A j \in T : k <= j
    <3>1. T \in SUBSET Nat
      OBVIOUS
    <3> HIDE DEF T
    <3> QED BY <2>1, <3>1, LeastNat
  <2>3. k # 0
    BY <1>7
  <2>4. k-1 \in Nat /\ k-1 \notin T /\ k = (k-1)+1
    BY <2>2, <2>3
  <2>5. Raised(n, k-1) \in Int /\ Raised(n, k) = n * Raised(n, k-1)
    BY <1>7, <2>4
  <2> QED BY <2>5
<1> QED BY <1>7, <1>8

LEMMA RaisedPositive ==
    ASSUME NEW n \in Nat \ {0}, NEW k \in Nat
    PROVE  Raised(n, k) \in Nat \ {0}
<1> DEFINE T == {j \in Nat : Raised(n, j) \notin Nat \ {0}}
<1>1. SUFFICES ASSUME T # {} PROVE FALSE
  OBVIOUS
<1>2. PICK j \in T : \A i \in T : j <= i
  <2>1. T \in SUBSET Nat
    OBVIOUS
  <2> HIDE DEF T
  <2> QED BY <1>1, <2>1, LeastNat
<1>3. j # 0
  BY RaisedSteps
<1>4. j-1 \in Nat /\ j-1 \notin T /\ j = (j-1)+1
  BY <1>2, <1>3
<1>5. Raised(n, j-1) \in Nat \ {0} /\ Raised(n, j) = n * Raised(n, j-1)
  BY <1>4, RaisedSteps
<1> QED BY <1>5

LEMMA DivisorSteps ==
    ASSUME NEW n \in Nat, NEW d \in Nat
    PROVE  divisor[<<n, d>>] = IF d = 0 THEN n ELSE divisor[<<d, n % d>>]
<1> DEFINE D == Nat \X Nat
           Body(f, p) == IF p[2] = 0 THEN p[1] ELSE f[<<p[2], p[1] % p[2]>>]
           F == [f \in [D -> Nat] |-> [p \in D |-> Body(f, p)]]
           R == [p \in D |-> p[2]]
           Follows(f) == f = [p \in Nat \X Nat |-> Body(f, p)]
<1>d. \A p \in D : p[1] \in Nat /\ p[2] \in Nat /\ R[p] = p[2]
                   /\ (p[2] # 0 => <<p[2], p[1] % p[2]>> \in D /\ p[1] % p[2] < p[2])
  OBVIOUS
<1>1. F \in [[D -> Nat] -> [D -> Nat]]
  <2> SUFFICES ASSUME NEW f \in [D -> Nat], NEW p \in D PROVE Body(f, p) \in Nat
    OBVIOUS
  <2> HIDE DEF D
  <2> QED BY <1>d
<1>2. ASSUME NEW f \in [D -> Nat], NEW g \in [D -> Nat], NEW x \in D,
             \A y \in D : R[y] < R[x] => f[y] = g[y]
      PROVE  F[f][x] = F[g][x]
  <2>1. F[f][x] = Body(f, x) /\ F[g][x] = Body(g, x)
    <3> HIDE DEF D, Body
    <3> QED OBVIOUS
  <2>2. CASE x[2] = 0
    BY <2>1, <2>2
  <2>3. CASE x[2] # 0
    <3> DEFINE y == <<x[2], x[1] % x[2]>>
    <3>1. y \in D /\ y[2] < x[2]
      BY <1>d, <2>3
    <3>2. R[y] < R[x]
      <4> HIDE DEF R, y, D
      <4> QED BY <1>d, <3>1
    <3>3. f[y] = g[y]
      <4> HIDE DEF R, y, D
      <4> QED BY <1>2, <3>1, <3>2
    <3> QED BY <2>1, <2>3, <3>3
  <2> QED BY <2>2, <2>3
<1>3. \E f \in [D -> Nat] : f = F[f]
  <2>1. R \in [D -> Nat] /\ Nat # {}
    OBVIOUS
  <2>2. ByRank(D, Nat, R, F)
    <3> HIDE DEF D, F, R
    <3> QED BY <1>1, <1>2, <2>1 DEF ByRank
  <2> HIDE DEF D, F, R
  <2> QED BY <2>2, FunctionsByRank
<1>4. \E f : Follows(f)
  <2>1. PICK f \in [D -> Nat] : f = F[f]
    BY <1>3
  <2>2. f = [p \in D |-> Body(f, p)]
    <3> HIDE DEF D, Body
    <3> QED BY <2>1
  <2>3. Follows(f)
    BY <2>2
  <2> QED BY <2>3
<1>5. divisor = CHOOSE f : Follows(f)
  BY DEF divisor
<1>6. Follows(divisor)
  <2> HIDE DEF Follows
  <2> QED BY <1>4, <1>5
<1> QED BY <1>6

\* It divides both.
Divided(n, d, g) ==
    /\ g \in Nat
    /\ n # 0 \/ d # 0 => g # 0
    /\ \E p, q \in Nat : n = p * g /\ d = q * g

LEMMA DivisorDivides ==
    ASSUME NEW n \in Nat, NEW d \in Nat
    PROVE  Divided(n, d, divisor[<<n, d>>])
<1> DEFINE T == {c \in Nat : \E m \in Nat : ~Divided(m, c, divisor[<<m, c>>])}
<1>1. SUFFICES ASSUME T # {} PROVE FALSE
  OBVIOUS
<1>2. PICK c \in T : \A j \in T : c <= j
  <2>1. T \in SUBSET Nat
    OBVIOUS
  <2> HIDE DEF T
  <2> QED BY <1>1, <2>1, LeastNat
<1>3. PICK m \in Nat : ~Divided(m, c, divisor[<<m, c>>])
  OBVIOUS
<1>4. CASE c = 0
  <2>1. divisor[<<m, c>>] = m
    BY <1>4, DivisorSteps
  <2>2. m = 1 * m /\ c = 0 * m
    BY <1>4
  <2> QED BY <1>3, <1>4, <2>1, <2>2 DEF Divided
<1>5. CASE c # 0
  <2> DEFINE r == m % c
             k == m \div c
             g == divisor[<<c, r>>]
  <2>1. c \in Nat \ {0} /\ k \in Nat /\ r \in 0 .. c-1 /\ m = c * k + r
    BY <1>5, Division
  <2>2. divisor[<<m, c>>] = g
    BY <1>5, DivisorSteps
  <2> HIDE DEF r, k
  <2>3. r \in Nat /\ r \notin T
    BY <1>2, <2>1
  <2>4. Divided(c, r, g)
    BY <2>1, <2>3
  <2> HIDE DEF g, T
  <2>5. PICK p \in Nat, q \in Nat : c = p * g /\ r = q * g
    BY <2>4 DEF Divided
  <2>6. g \in Nat \ {0}
    BY <1>5, <2>4 DEF Divided
  <2>7. p * k + q \in Nat /\ m = (p * k + q) * g
    <3>1. m = (p * g) * k + q * g
      BY <2>1, <2>5
    <3>2. (p * g) * k = (p * k) * g
      BY <2>1, <2>6
    <3>3. p * k \in Nat
      BY <2>1
    <3> HIDE DEF Divided
    <3> QED BY <2>6, <3>1, <3>2, <3>3
  <2>8. Divided(m, c, g)
    BY <2>5, <2>6, <2>7 DEF Divided
  <2> QED BY <1>3, <2>2, <2>8
<1> QED BY <1>4, <1>5

LEMMA AbsNat ==
    ASSUME NEW n \in Int
    PROVE  Abs(n) \in Nat /\ (Abs(n) = n \/ Abs(n) = -n)
BY DEF Abs

LEMMA ReducedIs ==
    ASSUME NEW n \in Int, NEW d \in Int \ {0}
    PROVE  \E a \in Int, b \in Nat \ {0} :
              Reduced(n, d) = [type |-> "Float", num |-> a, den |-> b] /\ a * d = n * b
<1> DEFINE s == IF d < 0 THEN -1 ELSE 1
           c == s * d
           g == divisor[<<Abs(n), c>>]
<1>1. s \in {1, -1} /\ c \in Nat \ {0} /\ s * s = 1
  OBVIOUS
<1>2. Reduced(n, d) = [type |-> "Float", num |-> (s * n) \div g, den |-> c \div g]
  BY DEF Reduced
<1> HIDE DEF s, c
<1>3. Divided(Abs(n), c, g)
  BY <1>1, AbsNat, DivisorDivides
<1>4. g \in Nat \ {0}
  BY <1>1, <1>3 DEF Divided
<1> HIDE DEF g
<1>5. PICK p \in Nat, q \in Nat : Abs(n) = p * g /\ c = q * g
  BY <1>3 DEF Divided
<1>6. PICK a \in Int : s * n = a * g
  <2>1. s * n = p * g \/ s * n = -(p * g)
    BY <1>1, <1>5, AbsNat
  <2>2. -(p * g) = (-p) * g
    BY <1>4
  <2> QED BY <2>1, <2>2
<1>7. (s * n) \div g = a
  BY <1>4, <1>6, FloorIs
<1>8. c \div g = q
  BY <1>4, <1>5, FloorIs
<1>9. q # 0
  BY <1>1, <1>4, <1>5
<1>10. a * d = n * q
  <2>1. (a * g) * c = (s * n) * (q * g)
    BY <1>5, <1>6
  <2>2. a * c = s * (n * q)
    <3>1. g * (a * c) = g * (s * (n * q))
      BY <1>1, <1>4, <2>1
    <3> DEFINE x == a * c
               y == s * (n * q)
    <3>2. x \in Int /\ y \in Int /\ g * x = g * y
      BY <1>1, <3>1
    <3> HIDE DEF x, y
    <3>3. g * (x - y) = 0
      BY <1>4, <3>2
    <3>4. x - y = 0
      BY <1>4, <3>2, <3>3, SmallMultiple
    <3> QED BY <3>2, <3>4 DEF x, y
  <2>3. c = s * d
    BY DEF c
  <2>4. s = 1 \/ s = -1
    BY <1>1
  <2> QED BY <2>2, <2>3, <2>4
<1> QED BY <1>2, <1>7, <1>8, <1>9, <1>10

-----------------------------------------------------------------------------
(***************************************************************************)
(* What every way to compute gives: a number, or none.                     *)
(***************************************************************************)
LEMMA TwoToSteps ==
    /\ TwoTo(0) = 1
    /\ \A k \in Nat : TwoTo(k) \in Nat \ {0} /\ TwoTo(k+1) = 2 * TwoTo(k)
BY RaisedSteps, RaisedPositive DEF TwoTo

LEMMA Widths ==
    /\ Width - 1 \in Nat /\ Width \in Nat
    /\ TwoTo(Width - 1) \in Nat \ {0} /\ TwoTo(Width) = 2 * TwoTo(Width - 1)
    /\ MinInt = -TwoTo(Width - 1) /\ MinInt \in Int
    /\ MaxInt = TwoTo(Width - 1) - 1 /\ MaxInt \in Int
<1>1. Width - 1 \in Nat /\ Width \in Nat /\ (Width - 1) + 1 = Width
  BY NumbersAssumption
<1>2. TwoTo(Width - 1) \in Nat \ {0} /\ TwoTo((Width - 1) + 1) = 2 * TwoTo(Width - 1)
  BY <1>1, TwoToSteps
<1> QED BY <1>1, <1>2 DEF MinInt, MaxInt

\* The numbers the script may hold.
Proper == {v \in Numeric : IsInt(v) => Fits(v.num) /\ v.den = 1}

Answer(r) == r = Panic \/ r \in Proper

LEMMA NumberKinds ==
    /\ \A n \in Int : /\ IsInt(IntVal(n)) /\ IntVal(n).num = n /\ IntVal(n).den = 1
                      /\ IntVal(n) \in Numeric /\ IntVal(n) # Panic
                      /\ Fits(n) => IntVal(n) \in Proper
    /\ \A n \in Int : /\ ~IsInt(Whole(n)) /\ Whole(n).num = n /\ Whole(n).den = 1
                      /\ Whole(n) \in Proper /\ Whole(n) # Panic
    /\ ~IsInt(Panic) /\ Panic \notin Numeric
    /\ \A v \in Numeric : IsInt(v) /\ v.den = 1 => v = IntVal(v.num)
BY DEF IsInt, IntVal, Whole, Numeric, Proper, Panic

LEMMA ReducedProper ==
    ASSUME NEW n \in Int, NEW d \in Int \ {0}
    PROVE  /\ Reduced(n, d) \in Proper /\ ~IsInt(Reduced(n, d))
           /\ SameNumber(Reduced(n, d), n, d)
<1>1. PICK a \in Int, b \in Nat \ {0} :
          Reduced(n, d) = [type |-> "Float", num |-> a, den |-> b] /\ a * d = n * b
  BY ReducedIs
<1> QED BY <1>1 DEF Proper, Numeric, IsInt, SameNumber

LEMMA FractionsOfNumbers ==
    ASSUME NEW a \in Numeric, NEW b \in Numeric
    PROVE  /\ Plus(a, b) = Reduced(a.num * b.den + b.num * a.den, a.den * b.den)
           /\ Minus(a, b) = Reduced(a.num * b.den - b.num * a.den, a.den * b.den)
           /\ Times(a, b) = Reduced(a.num * b.num, a.den * b.den)
           /\ Over(a, b) = Reduced(a.num * b.den, a.den * b.num)
           /\ a.num \in Int /\ b.num \in Int /\ a.den \in Nat \ {0} /\ b.den \in Nat \ {0}
           /\ a.den * b.den \in Nat \ {0}
           /\ a.num * b.den \in Int /\ b.num * a.den \in Int /\ a.num * b.num \in Int
           /\ a.den * b.num \in Int /\ (b.num # 0 => a.den * b.num # 0)
<1>1. a.num \in Int /\ b.num \in Int /\ a.den \in Nat \ {0} /\ b.den \in Nat \ {0}
  BY DEF Numeric
<1>2. <<a, b>> \in TwoNumbers /\ <<a, Negative(b)>> \in TwoNumbers
  BY <1>1 DEF TwoNumbers, Numeric, Negative
<1>3. Negative(b).num = -b.num /\ Negative(b).den = b.den
  BY DEF Negative, Numeric
<1>4. Plus(a, b) = Reduced(a.num * b.den + b.num * a.den, a.den * b.den)
  BY <1>2 DEF Plus, sum
<1>5. Minus(a, b) = Reduced(a.num * b.den - b.num * a.den, a.den * b.den)
  <2>1. Minus(a, b) = Reduced(a.num * b.den + (-b.num) * a.den, a.den * b.den)
    BY <1>2, <1>3 DEF Minus, sum
  <2>2. a.num * b.den + (-b.num) * a.den = a.num * b.den - b.num * a.den
    BY <1>1
  <2> QED BY <2>1, <2>2
<1>6. Times(a, b) = Reduced(a.num * b.num, a.den * b.den)
  BY <1>2 DEF Times, product
<1>7. Over(a, b) = Reduced(a.num * b.den, a.den * b.num)
  BY <1>2 DEF Over, quotient
<1>8. /\ a.den * b.den \in Nat \ {0}
      /\ a.num * b.den \in Int /\ b.num * a.den \in Int /\ a.num * b.num \in Int
      /\ a.den * b.num \in Int
  BY <1>1
<1>9. b.num # 0 => a.den * b.num # 0
  BY <1>1, SmallMultiple
<1> QED BY <1>1, <1>4, <1>5, <1>6, <1>7, <1>8, <1>9

\* A Float: of the result of an operation on two numbers that are not both Ints.
LEMMA FloatsAreExact ==
    ASSUME NEW a \in Proper, NEW b \in Proper
    PROVE  /\ Plus(a, b) \in Proper /\ Minus(a, b) \in Proper /\ Times(a, b) \in Proper
           /\ b.num # 0 => Over(a, b) \in Proper
           /\ ~(IsInt(a) /\ IsInt(b)) => /\ ExactResult("+", a, b, Plus(a, b))
                                         /\ ExactResult("-", a, b, Minus(a, b))
                                         /\ ExactResult("*", a, b, Times(a, b))
           /\ b.num # 0 => ExactResult("/", a, b, Over(a, b))
<1>1. a \in Numeric /\ b \in Numeric /\ Panic \notin Proper
  BY NumberKinds DEF Proper
<1> DEFINE n1 == a.num * b.den + b.num * a.den
           n2 == a.num * b.den - b.num * a.den
           n3 == a.num * b.num
           n4 == a.num * b.den
           d1 == a.den * b.den
           d2 == a.den * b.num
<1>2. /\ n1 \in Int /\ n2 \in Int /\ n3 \in Int /\ n4 \in Int /\ d1 \in Int \ {0} /\ d2 \in Int
      /\ Plus(a, b) = Reduced(n1, d1) /\ Minus(a, b) = Reduced(n2, d1)
      /\ Times(a, b) = Reduced(n3, d1) /\ Over(a, b) = Reduced(n4, d2)
  BY <1>1, FractionsOfNumbers
<1>3. b.num # 0 => d2 # 0
  BY <1>1, FractionsOfNumbers
<1> HIDE DEF n1, n2, n3, n4, d1, d2
<1>4. /\ Plus(a, b) \in Proper /\ SameNumber(Plus(a, b), n1, d1)
      /\ Minus(a, b) \in Proper /\ SameNumber(Minus(a, b), n2, d1)
      /\ Times(a, b) \in Proper /\ SameNumber(Times(a, b), n3, d1)
  BY <1>2, ReducedProper
<1>5. b.num # 0 => Over(a, b) \in Proper /\ SameNumber(Over(a, b), n4, d2)
  BY <1>2, <1>3, ReducedProper
<1>6. b.num # 0 => ExactResult("/", a, b, Over(a, b))
  <2> SUFFICES ASSUME b.num # 0 PROVE ExactResult("/", a, b, Over(a, b))
    OBVIOUS
  <2> DEFINE r == Over(a, b)
  <2>1. r \in Proper /\ r.num * d2 = n4 * r.den /\ r.num \in Int
    BY <1>5 DEF SameNumber, Proper, Numeric
  <2>2. r.num * a.den * b.num = a.num * b.den * r.den
    <3>1. r.num * d2 = r.num * a.den * b.num
      BY <1>1, <2>1, FractionsOfNumbers DEF d2
    <3> QED BY <2>1, <3>1 DEF n4
  <2> QED BY <1>1, <2>1, <2>2 DEF ExactResult
<1>7. ASSUME ~(IsInt(a) /\ IsInt(b))
      PROVE  /\ ExactResult("+", a, b, Plus(a, b))
             /\ ExactResult("-", a, b, Minus(a, b))
             /\ ExactResult("*", a, b, Times(a, b))
  BY <1>1, <1>4, <1>7 DEF ExactResult, n1, n2, n3, d1
<1> QED BY <1>4, <1>5, <1>6, <1>7

LEMMA PromotedProper ==
    ASSUME NEW n \in Int
    PROVE  /\ Promoted(n) \in Proper /\ Promoted(n) # Panic
           /\ Promoted(n).num = n /\ Promoted(n).den = 1
           /\ IsInt(Promoted(n)) <=> Fits(n)
BY NumberKinds DEF Promoted

LEMMA IntsAreExact ==
    ASSUME NEW a \in Proper, NEW b \in Proper, IsInt(a), IsInt(b)
    PROVE  /\ a.num \in Int /\ b.num \in Int
           /\ a = IntVal(a.num) /\ b = IntVal(b.num)
           /\ ExactResult("+", a, b, Promoted(a.num + b.num))
           /\ ExactResult("-", a, b, Promoted(a.num - b.num))
           /\ ExactResult("*", a, b, Promoted(a.num * b.num))
<1>1. /\ a.num \in Int /\ b.num \in Int /\ a.den = 1 /\ b.den = 1
      /\ a \in Numeric /\ b \in Numeric
  BY DEF Proper, Numeric
<1>2. a = IntVal(a.num) /\ b = IntVal(b.num)
  BY <1>1, NumberKinds
<1> DEFINE n3 == a.num * b.num
<1>3. a.num + b.num \in Int /\ a.num - b.num \in Int /\ n3 \in Int
  BY <1>1
<1>4. ExactResult("+", a, b, Promoted(a.num + b.num))
  BY <1>1, <1>3, PromotedProper DEF ExactResult, SameNumber
<1>5. ExactResult("-", a, b, Promoted(a.num - b.num))
  BY <1>1, <1>3, PromotedProper DEF ExactResult, SameNumber
<1>6. ExactResult("*", a, b, Promoted(n3))
  BY <1>1, <1>3, PromotedProper DEF ExactResult, SameNumber
<1> QED BY <1>1, <1>2, <1>4, <1>5, <1>6

-----------------------------------------------------------------------------
(***************************************************************************)
(* Division of Ints.                                                       *)
(***************************************************************************)
LEMMA Products ==
    ASSUME NEW m \in Int, NEW n \in Int
    PROVE  /\ m * n \in Int
           /\ (-m) * n = -(m * n) /\ m * (-n) = -(m * n) /\ (-m) * (-n) = m * n
OBVIOUS

LEMMA QuotientIs ==
    ASSUME NEW a \in Int, NEW b \in Int \ {0}
    PROVE  /\ IntQuotient(a, b) \in Int /\ IntRemainder(a, b) \in Int
           /\ IntQuotient(a, b) * b + IntRemainder(a, b) = a
           /\ Abs(IntRemainder(a, b)) < Abs(b) /\ Abs(IntRemainder(a, b)) <= Abs(a)
           /\ Abs(IntQuotient(a, b)) <= Abs(a)
           /\ IntRemainder(a, b) # 0 => (IntRemainder(a, b) < 0 <=> a < 0)
           /\ IntQuotient(a, b) > 0 => (a < 0 <=> b < 0)
           /\ Abs(b) # 1 /\ a # 0 => Abs(IntQuotient(a, b)) < Abs(a)
<1> DEFINE m == Abs(a)
           n == Abs(b)
           k == m \div n
           r == m % n
           q == IntQuotient(a, b)
           s == IntRemainder(a, b)
           t == n * k
<1>1. m \in Nat /\ n \in Nat \ {0}
  BY DEF Abs
<1>2. k \in Nat /\ r \in 0 .. n-1 /\ m = t + r
  BY <1>1, Division
<1>3. q = IF (a < 0) = (b < 0) THEN k ELSE -k
  BY DEF IntQuotient
<1>4. s = a - b * q
  BY DEF IntRemainder
<1> HIDE DEF k, r
<1>5. q \in Int /\ t \in Nat /\ k <= t
  <2>1. n - 1 \in Nat /\ k * (n - 1) \in Nat
    BY <1>1, <1>2
  <2>2. t = k * (n - 1) + k
    BY <1>1, <1>2
  <2>3. k \in Int /\ -k \in Int
    BY <1>2
  <2> HIDE DEF m, n, t, q
  <2>4. q \in Int
    BY <1>3, <2>3
  <2> QED BY <1>2, <2>1, <2>2, <2>4
<1>6. n # 1 /\ m # 0 => k < m
  <2> SUFFICES ASSUME n # 1, m # 0, k = m PROVE FALSE
    BY <1>1, <1>2, <1>5
  <2>1. n - 2 \in Nat /\ k * (n - 2) \in Nat
    BY SMTT(30), <1>1, <1>2
  <2>2. t = k * (n - 2) + 2 * k
    BY <1>1, <1>2
  <2> HIDE DEF m, n, t
  <2> QED BY <1>1, <1>2, <2>1, <2>2
<1>7. b * q = IF a < 0 THEN -t ELSE t
  <2>1. b = IF b < 0 THEN -n ELSE n
    BY DEF Abs
  <2>2. (-n) * k = -t /\ n * (-k) = -t /\ (-n) * (-k) = t
    BY <1>1, <1>2, Products
  <2>3. CASE a < 0 /\ b < 0
    BY <1>3, <2>1, <2>2, <2>3
  <2>4. CASE a < 0 /\ ~(b < 0)
    BY <1>3, <2>1, <2>2, <2>4
  <2>5. CASE ~(a < 0) /\ b < 0
    BY <1>3, <2>1, <2>2, <2>5
  <2>6. CASE ~(a < 0) /\ ~(b < 0)
    BY <1>3, <2>1, <2>2, <2>6
  <2> QED BY <2>3, <2>4, <2>5, <2>6
<1>8. q * b = b * q
  BY <1>5
<1> DEFINE x == b * q
<1>9. x \in Int /\ q * b = x /\ s = a - x /\ x = IF a < 0 THEN -t ELSE t
  BY <1>4, <1>5, <1>7, <1>8
<1>10. m = IF a < 0 THEN -a ELSE a
  BY DEF Abs
<1>11. s = IF a < 0 THEN -r ELSE r
  <2> HIDE DEF m, n, t, s, q, x
  <2> QED BY <1>1, <1>2, <1>5, <1>9, <1>10
<1>12. q * b + s = a
  <2> HIDE DEF m, n, t, s, q, x
  <2> QED BY <1>9
<1>13. Abs(s) = r /\ Abs(q) = k
  <2> HIDE DEF m, n, t, s, q, x
  <2> QED BY <1>1, <1>2, <1>3, <1>11 DEF Abs
<1>14. s \in Int /\ (s # 0 => (s < 0 <=> a < 0)) /\ (q > 0 => (a < 0 <=> b < 0))
  <2> HIDE DEF m, n, t, s, q, x
  <2> QED BY <1>1, <1>2, <1>3, <1>11
<1>15. m = 0 <=> a = 0
  BY DEF Abs
<1> HIDE DEF t, q, s, x
<1>16. r < n /\ r <= m /\ k <= m
  <2> HIDE DEF m, n
  <2> QED BY <1>1, <1>2, <1>5
<1> QED BY <1>5, <1>6, <1>12, <1>13, <1>14, <1>15, <1>16 DEF q, s

LEMMA DivisionFits ==
    ASSUME NEW a \in Int, NEW b \in Int, Fits(a), Fits(b)
    PROVE  /\ Answer(IntDivide(a, b)) /\ Answer(Modulus(a, b))
           /\ b = 0 => IntDivide(a, b) = Panic /\ Modulus(a, b) = Panic
           /\ b # 0 => /\ IntDivide(a, b).den = 1 /\ IsInt(Modulus(a, b))
                       /\ IntDivide(a, b).num * b + Modulus(a, b).num = a
                       /\ Abs(Modulus(a, b).num) < Abs(b)
                       /\ Modulus(a, b).num # 0 => (Modulus(a, b).num < 0 <=> a < 0)
<1> DEFINE P == TwoTo(Width - 1)
<1>1. P \in Nat \ {0} /\ MinInt = -P /\ MaxInt = P - 1
  BY Widths
<1> HIDE DEF P
<1>2. Fits(0) /\ -MinInt \in Int
  BY <1>1 DEF Fits
<1>3. CASE b = 0
  BY <1>3 DEF IntDivide, Modulus, Answer
<1>4. CASE b # 0 /\ a = MinInt /\ b = -1
  <2>1. IntDivide(a, b) = Whole(-MinInt) /\ Modulus(a, b) = IntVal(0)
    BY <1>4 DEF IntDivide, Modulus
  <2>2. Whole(-MinInt) \in Proper /\ IntVal(0) \in Proper
    BY <1>2, NumberKinds
  <2>3. Whole(-MinInt).num = -MinInt /\ Whole(-MinInt).den = 1
    BY <1>2, NumberKinds
  <2>4. IsInt(IntVal(0)) /\ IntVal(0).num = 0
    BY NumberKinds
  <2>5. (-MinInt) * b + 0 = a /\ Abs(0) < Abs(b)
    BY <1>1, <1>4 DEF Abs
  <2> QED BY <1>4, <2>1, <2>2, <2>3, <2>4, <2>5 DEF Answer
<1>5. CASE b # 0 /\ ~(a = MinInt /\ b = -1)
  <2> DEFINE q == IntQuotient(a, b)
             r == IntRemainder(a, b)
  <2>1. IntDivide(a, b) = IntVal(q) /\ Modulus(a, b) = IntVal(r)
    BY <1>5 DEF IntDivide, Modulus
  <2>2. /\ q \in Int /\ r \in Int /\ q * b + r = a
        /\ Abs(r) < Abs(b) /\ Abs(r) <= Abs(a) /\ Abs(q) <= Abs(a)
        /\ r # 0 => (r < 0 <=> a < 0)
        /\ q > 0 => (a < 0 <=> b < 0)
        /\ Abs(b) # 1 /\ a # 0 => Abs(q) < Abs(a)
    BY <1>5, QuotientIs
  <2> HIDE DEF q, r
  <2>3. -P <= a /\ a < P /\ -P <= b /\ b < P
    BY <1>1 DEF Fits
  <2>4. -P <= r /\ r < P
    BY <1>1, <2>2, <2>3 DEF Abs
  <2>5. -P <= q /\ q < P
    <3>1. -P <= q /\ q <= P
      BY <1>1, <2>2, <2>3 DEF Abs
    <3>2. ASSUME q = P PROVE FALSE
      <4>1. Abs(q) = P /\ Abs(a) = P /\ a = -P /\ q > 0
        BY <1>1, <2>2, <2>3, <3>2 DEF Abs
      <4>2. b < 0
        BY <1>1, <2>2, <4>1
      <4>3. Abs(b) = 1
        BY <1>1, <2>2, <4>1
      <4> QED BY <1>1, <1>5, <4>1, <4>2, <4>3 DEF Abs
    <3> QED BY <1>1, <2>2, <3>1, <3>2
  <2>6. Fits(q) /\ Fits(r)
    BY <1>1, <2>2, <2>4, <2>5 DEF Fits
  <2>7. IntVal(q) \in Proper /\ IntVal(r) \in Proper
    BY <2>2, <2>6, NumberKinds
  <2>8. IntVal(q).num = q /\ IntVal(q).den = 1 /\ IsInt(IntVal(r)) /\ IntVal(r).num = r
    BY <2>2, NumberKinds
  <2> QED BY <1>5, <2>1, <2>2, <2>7, <2>8 DEF Answer
<1> QED BY <1>3, <1>4, <1>5

-----------------------------------------------------------------------------
(***************************************************************************)
(* Bits: the number whose lowest k bits are those in S.                    *)
(***************************************************************************)
WeightIn(S, i) == IF i \in S THEN TwoTo(i) ELSE 0

BitSum(S, k) ==
    LET below[i \in Nat] == IF i = 0 THEN 0 ELSE below[i-1] + WeightIn(S, i-1) IN below[k]

LEMMA BitSumSteps ==
    ASSUME NEW S
    PROVE  /\ BitSum(S, 0) = 0
           /\ \A k \in Nat : /\ BitSum(S, k) \in 0 .. TwoTo(k) - 1
                             /\ WeightIn(S, k) \in Nat
                             /\ BitSum(S, k+1) = BitSum(S, k) + WeightIn(S, k)
<1> DEFINE Body(f, k) == IF k = 0 THEN 0 ELSE f[k-1] + WeightIn(S, k-1)
           F == [f \in [Nat -> Nat] |-> [k \in Nat |-> Body(f, k)]]
           R == [k \in Nat |-> k]
           Follows(f) == f = [k \in Nat |-> Body(f, k)]
<1>d. \A k \in Nat : k # 0 => k-1 \in Nat /\ k-1 < k
  OBVIOUS
<1>w. \A k \in Nat : WeightIn(S, k) \in Nat
  BY TwoToSteps DEF WeightIn
<1>1. F \in [[Nat -> Nat] -> [Nat -> Nat]]
  <2> SUFFICES ASSUME NEW f \in [Nat -> Nat], NEW k \in Nat PROVE Body(f, k) \in Nat
    OBVIOUS
  <2>1. CASE k = 0
    BY <2>1
  <2>2. CASE k # 0
    <3>1. f[k-1] \in Nat /\ WeightIn(S, k-1) \in Nat
      BY <1>d, <1>w, <2>2
    <3> QED BY <2>2, <3>1
  <2> QED BY <2>1, <2>2
<1>2. ASSUME NEW f \in [Nat -> Nat], NEW g \in [Nat -> Nat], NEW k \in Nat,
             \A j \in Nat : R[j] < R[k] => f[j] = g[j]
      PROVE  F[f][k] = F[g][k]
  <2>1. CASE k = 0
    BY <2>1
  <2>2. CASE k # 0
    <3>1. f[k-1] = g[k-1]
      BY <1>2, <1>d, <2>2
    <3> QED BY <2>2, <3>1
  <2> QED BY <2>1, <2>2
<1>3. \E f \in [Nat -> Nat] : f = F[f]
  <2> DEFINE D == Nat
             C == Nat
  <2>1. R \in [D -> Nat] /\ C # {}
    OBVIOUS
  <2>2. ByRank(D, C, R, F)
    <3> HIDE DEF F, R
    <3> QED BY <1>1, <1>2, <2>1 DEF ByRank
  <2> HIDE DEF D, C, F, R
  <2>3. \E f \in [D -> C] : f = F[f]
    BY <2>2, FunctionsByRank
  <2> QED BY <2>3 DEF D, C
<1>4. \E f : Follows(f)
  BY <1>3
<1> DEFINE below == CHOOSE f : Follows(f)
<1>5. \A k : BitSum(S, k) = below[k]
  BY DEF BitSum
<1>6. Follows(below)
  <2> HIDE DEF Follows
  <2> QED BY <1>4
<1> HIDE DEF below
<1>7. BitSum(S, 0) = 0 /\ \A k \in Nat : BitSum(S, k+1) = BitSum(S, k) + WeightIn(S, k)
  <2>1. \A k \in Nat : k+1 \in Nat /\ k+1 # 0 /\ (k+1)-1 = k
    OBVIOUS
  <2>2. below[0] = 0 /\ \A k \in Nat : below[k+1] = below[k] + WeightIn(S, k)
    BY <1>6, <2>1
  <2>3. BitSum(S, 0) = below[0] /\ \A k \in Nat : BitSum(S, k+1) = below[k+1] /\ BitSum(S, k) = below[k]
    BY <1>5
  <2> QED BY <2>2, <2>3
<1>8. \A k \in Nat : BitSum(S, k) \in 0 .. TwoTo(k) - 1
  <2> DEFINE T == {k \in Nat : BitSum(S, k) \notin 0 .. TwoTo(k) - 1}
  <2>1. SUFFICES ASSUME T # {} PROVE FALSE
    OBVIOUS
  <2>2. PICK k \in T : \A j \in T : k <= j
    <3>1. T \in SUBSET Nat
      OBVIOUS
    <3> HIDE DEF T
    <3> QED BY <2>1, <3>1, LeastNat
  <2>3. k # 0
    BY <1>7, TwoToSteps
  <2>4. k-1 \in Nat /\ k-1 \notin T /\ k = (k-1)+1
    BY <2>2, <2>3
  <2>5. BitSum(S, k-1) \in 0 .. TwoTo(k-1) - 1 /\ BitSum(S, k) = BitSum(S, k-1) + WeightIn(S, k-1)
    BY <1>7, <2>4
  <2>6. TwoTo(k-1) \in Nat \ {0} /\ TwoTo(k) = 2 * TwoTo(k-1)
    BY <2>4, TwoToSteps
  <2>7. WeightIn(S, k-1) \in {0, TwoTo(k-1)}
    BY DEF WeightIn
  <2>8. BitSum(S, k) \in 0 .. TwoTo(k) - 1
    BY <2>5, <2>6, <2>7
  <2> QED BY <2>8
<1> QED BY <1>7, <1>8, <1>w

\* Sets of bits that give the same number are the same.
LEMMA BitSumsDiffer ==
    ASSUME NEW S, NEW T, NEW n \in Nat, BitSum(S, n) = BitSum(T, n)
    PROVE  \A i \in 0 .. n-1 : i \in S <=> i \in T
<1> DEFINE Alike(k) == BitSum(S, k) = BitSum(T, k) => \A i \in 0 .. k-1 : i \in S <=> i \in T
           U == {k \in Nat : ~Alike(k)}
<1>1. SUFFICES ASSUME U # {} PROVE FALSE
  <2> n \in Nat /\ ~(n \in U)
    OBVIOUS
  <2> QED OBVIOUS
<1>2. PICK k \in U : \A j \in U : k <= j
  <2>1. U \in SUBSET Nat
    OBVIOUS
  <2> HIDE DEF U
  <2> QED BY <1>1, <2>1, LeastNat
<1>3. k # 0
  OBVIOUS
<1> DEFINE h == k-1
<1>4. h \in Nat /\ h \notin U /\ k = h+1
  BY <1>2, <1>3
<1>5. /\ BitSum(S, h) \in 0 .. TwoTo(h) - 1 /\ BitSum(T, h) \in 0 .. TwoTo(h) - 1
      /\ BitSum(S, k) = BitSum(S, h) + WeightIn(S, h)
      /\ BitSum(T, k) = BitSum(T, h) + WeightIn(T, h)
  BY <1>4, BitSumSteps
<1>6. TwoTo(h) \in Nat \ {0}
  BY <1>4, TwoToSteps
<1>7. BitSum(S, k) = BitSum(T, k) /\ ~(\A i \in 0 .. k-1 : i \in S <=> i \in T)
  OBVIOUS
<1> HIDE DEF h
<1>8. (h \in S <=> h \in T) /\ BitSum(S, h) = BitSum(T, h)
  BY <1>5, <1>6, <1>7 DEF WeightIn
<1>9. \A i \in 0 .. h-1 : i \in S <=> i \in T
  BY <1>4, <1>8
<1>10. \A i \in 0 .. k-1 : i = h \/ i \in 0 .. h-1
  BY <1>4
<1> QED BY <1>7, <1>8, <1>9, <1>10

\* The binary digits of a number.
LEMMA BitSumOfDigits ==
    ASSUME NEW m \in Nat, NEW S, NEW n \in Nat,
           \A i \in 0 .. n-1 : i \in S <=> (m \div TwoTo(i)) % 2 = 1
    PROVE  BitSum(S, n) = m % TwoTo(n)
<1> DEFINE U == {k \in 0 .. n : BitSum(S, k) # m % TwoTo(k)}
<1>1. SUFFICES ASSUME U # {} PROVE FALSE
  OBVIOUS
<1>2. PICK k \in U : \A j \in U : k <= j
  <2>1. U \in SUBSET Nat
    OBVIOUS
  <2> HIDE DEF U
  <2> QED BY <1>1, <2>1, LeastNat
<1>3. k # 0
  BY TwoToSteps, BitSumSteps
<1> DEFINE h == k-1
           p == TwoTo(h)
           q == m \div p
<1>4. h \in Nat /\ h \in 0 .. n-1 /\ h \notin U /\ k = h+1
  BY <1>2, <1>3
<1>5. BitSum(S, k) = BitSum(S, h) + WeightIn(S, h) /\ TwoTo(k) = 2 * p /\ p \in Nat \ {0}
  BY <1>4, BitSumSteps, TwoToSteps
<1>6. BitSum(S, h) = m % p
  BY <1>4
<1>7. h \in S <=> q % 2 = 1
  BY <1>4
<1>8. BitSum(S, k) # m % TwoTo(k)
  OBVIOUS
<1> HIDE DEF h, p
<1>9. q \in Nat /\ m % p \in 0 .. p-1 /\ m = p * q + (m % p)
  BY <1>5, Division
<1> HIDE DEF q
<1> DEFINE c == q \div 2
           b == q % 2
           r == m % p
<1>10. c \in Nat /\ b \in 0 .. 1 /\ q = 2 * c + b
  BY <1>9, Division
<1> HIDE DEF c, b, r
<1>11. BitSum(S, k) = r + p * b
  <2>1. CASE b = 1
    <3>1. WeightIn(S, h) = p
      BY <1>7, <2>1 DEF WeightIn, p, b
    <3> QED BY <1>5, <1>6, <2>1, <3>1 DEF r
  <2>2. CASE b = 0
    <3>1. WeightIn(S, h) = 0
      BY <1>7, <2>2 DEF WeightIn, b
    <3>2. r \in Nat /\ p * b = 0
      BY <1>5, <1>9, <2>2 DEF r
    <3> QED BY <1>5, <1>6, <3>1, <3>2 DEF r
  <2> QED BY <1>10, <2>1, <2>2
<1>12. m = (2 * p) * c + (r + p * b)
  <2>1. p * q = (2 * p) * c + p * b
    BY <1>5, <1>10
  <2>2. p * b \in Nat /\ (2 * p) * c \in Nat
    BY <1>5, <1>10
  <2>3. r \in Nat /\ m = p * q + r
    BY <1>9 DEF r
  <2> QED BY <2>1, <2>2, <2>3
<1>13. r + p * b \in 0 .. 2 * p - 1
  <2>1. r \in 0 .. p-1
    BY <1>9 DEF r
  <2>2. p * b = 0 \/ p * b = p
    BY <1>5, <1>10
  <2> QED BY <1>5, <2>1, <2>2
<1>14. m % (2 * p) = r + p * b
  <2> DEFINE x == r + p * b
             z == 2 * p
  <2>1. z \in Nat \ {0} /\ x \in 0 .. z-1 /\ m = z * c + x
    BY <1>5, <1>12, <1>13
  <2> HIDE DEF x, z
  <2>2. m % z = x
    BY <1>10, <2>1, Remainder
  <2> QED BY <2>2 DEF x, z
<1> QED BY <1>5, <1>8, <1>11, <1>14

SumsMeet(X, Y, n) ==
    /\ BitSum(X \intersect Y, n) + BitSum(X \union Y, n) = BitSum(X, n) + BitSum(Y, n)
    /\ BitSum((X \union Y) \ (X \intersect Y), n) = BitSum(X \union Y, n) - BitSum(X \intersect Y, n)

LEMMA BitSumsMeet ==
    ASSUME NEW X, NEW Y, NEW n \in Nat
    PROVE  SumsMeet(X, Y, n)
<1> USE DEF SumsMeet
<1> DEFINE M == X \intersect Y
           J == X \union Y
           E == J \ M
           U == {k \in Nat : ~(/\ BitSum(M, k) + BitSum(J, k) = BitSum(X, k) + BitSum(Y, k)
                               /\ BitSum(E, k) = BitSum(J, k) - BitSum(M, k))}
<1>1. SUFFICES ASSUME U # {} PROVE FALSE
  <2> n \in Nat /\ ~(n \in U)
    OBVIOUS
  <2> QED OBVIOUS
<1>2. PICK k \in U : \A j \in U : k <= j
  <2>1. U \in SUBSET Nat
    OBVIOUS
  <2> HIDE DEF U
  <2> QED BY <1>1, <2>1, LeastNat
<1>3. k # 0
  <2> HIDE DEF M, J, E
  <2> QED BY BitSumSteps
<1> DEFINE h == k-1
<1>4. h \in Nat /\ h \notin U /\ k = h+1
  BY <1>2, <1>3
<1>5. /\ WeightIn(M, h) + WeightIn(J, h) = WeightIn(X, h) + WeightIn(Y, h)
      /\ WeightIn(E, h) = WeightIn(J, h) - WeightIn(M, h)
  <2>1. TwoTo(h) \in Nat
    BY <1>4, TwoToSteps
  <2>2. /\ h \in M <=> h \in X /\ h \in Y
        /\ h \in J <=> h \in X \/ h \in Y
        /\ h \in E <=> h \in J /\ h \notin M
    OBVIOUS
  <2> HIDE DEF h, M, J, E
  <2> QED BY <2>1, <2>2 DEF WeightIn
<1> HIDE DEF M, J, E
<1>6. \A S : /\ BitSum(S, h) \in Nat /\ WeightIn(S, h) \in Nat
             /\ BitSum(S, k) = BitSum(S, h) + WeightIn(S, h)
  <2> SUFFICES ASSUME NEW S
      PROVE  /\ BitSum(S, h) \in Nat /\ WeightIn(S, h) \in Nat
             /\ BitSum(S, k) = BitSum(S, h) + WeightIn(S, h)
    OBVIOUS
  <2>1. BitSum(S, h) \in 0 .. TwoTo(h) - 1 /\ WeightIn(S, h) \in Nat
    BY <1>4, BitSumSteps
  <2>2. BitSum(S, k) = BitSum(S, h) + WeightIn(S, h)
    BY <1>4, BitSumSteps
  <2> QED BY <2>1, <2>2
<1>7. /\ BitSum(M, h) + BitSum(J, h) = BitSum(X, h) + BitSum(Y, h)
      /\ BitSum(E, h) = BitSum(J, h) - BitSum(M, h)
  BY <1>4
<1>8. ~(/\ BitSum(M, k) + BitSum(J, k) = BitSum(X, k) + BitSum(Y, k)
        /\ BitSum(E, k) = BitSum(J, k) - BitSum(M, k))
  OBVIOUS
<1> HIDE DEF h
<1> QED BY <1>5, <1>6, <1>7, <1>8

LEMMA BitSumOfTheOthers ==
    ASSUME NEW X, NEW n \in Nat, NEW m \in 0 .. n
    PROVE  BitSum((0 .. n-1) \ X, m) + BitSum(X, m) = TwoTo(m) - 1
<1> DEFINE C == (0 .. n-1) \ X
           U == {k \in 0 .. n : BitSum(C, k) + BitSum(X, k) # TwoTo(k) - 1}
<1>1. SUFFICES ASSUME U # {} PROVE FALSE
  <2> m \in 0 .. n /\ ~(m \in U)
    OBVIOUS
  <2> QED OBVIOUS
<1>2. PICK k \in U : \A j \in U : k <= j
  <2>1. U \in SUBSET Nat
    OBVIOUS
  <2> HIDE DEF U
  <2> QED BY <1>1, <2>1, LeastNat
<1>3. k # 0
  <2> HIDE DEF C
  <2> QED BY BitSumSteps, TwoToSteps
<1> DEFINE h == k-1
<1>4. h \in Nat /\ h \notin U /\ k = h+1 /\ h \in 0 .. n-1
  BY <1>2, <1>3
<1>5. h \in C <=> h \notin X
  BY <1>4
<1>6. BitSum(C, h) + BitSum(X, h) = TwoTo(h) - 1
  BY <1>4
<1>7. BitSum(C, k) + BitSum(X, k) # TwoTo(k) - 1
  OBVIOUS
<1> HIDE DEF C, h
<1>8. TwoTo(h) \in Nat \ {0} /\ TwoTo(k) = 2 * TwoTo(h)
  BY <1>4, TwoToSteps
<1>9. /\ BitSum(C, h) \in 0 .. TwoTo(h) - 1 /\ BitSum(X, h) \in 0 .. TwoTo(h) - 1
      /\ BitSum(C, k) = BitSum(C, h) + WeightIn(C, h)
      /\ BitSum(X, k) = BitSum(X, h) + WeightIn(X, h)
  BY <1>4, BitSumSteps
<1>10. WeightIn(C, h) + WeightIn(X, h) = TwoTo(h)
  BY <1>5, <1>8 DEF WeightIn
<1>11. WeightIn(C, h) \in Nat /\ WeightIn(X, h) \in Nat
  BY <1>4, BitSumSteps
<1> QED BY <1>6, <1>7, <1>8, <1>9, <1>10, <1>11

-----------------------------------------------------------------------------
(***************************************************************************)
(* An Int is the sum of its bits, the greatest of which counts against it. *)
(***************************************************************************)
LEMMA SameInt ==
    ASSUME NEW a \in Int, NEW b \in Int, Fits(a), Fits(b), a % TwoTo(Width) = b % TwoTo(Width)
    PROVE  a = b
<1> DEFINE P == TwoTo(Width - 1)
           c == 2 * P
           j == a \div c
           k == b \div c
           r == a % c
           s == b % c
<1>1. P \in Nat \ {0} /\ MinInt = -P /\ MaxInt = P - 1 /\ TwoTo(Width) = c
  BY Widths
<1> HIDE DEF P
<1>2. c \in Nat \ {0} /\ -P <= a /\ a < P /\ -P <= b /\ b < P
  BY <1>1 DEF Fits
<1>3. /\ j \in Int /\ r \in 0 .. c-1 /\ a = c * j + r
      /\ k \in Int /\ s \in 0 .. c-1 /\ b = c * k + s
  BY <1>2, Floor
<1>4. r = s
  BY <1>1
<1>5. -c < a - b /\ a - b < c
  BY <1>1, <1>2
<1> HIDE DEF c, j, k, r, s
<1>6. a - b = c * (j - k) /\ j - k \in Int /\ a - b \in Int
  BY <1>2, <1>3, <1>4
<1>7. j - k = 0
  BY <1>2, <1>5, <1>6, SmallMultiple
<1> QED BY <1>2, <1>6, <1>7

SignedSum(S) == BitSum(S, Width - 1) - WeightIn(S, Width - 1)

LEMMA SignedIs ==
    ASSUME NEW S
    PROVE  /\ SignedSum(S) \in Int /\ Fits(SignedSum(S))
           /\ SignedSum(S) % TwoTo(Width) = BitSum(S, Width)
<1> DEFINE P == TwoTo(Width - 1)
           b == BitSum(S, Width - 1)
           w == WeightIn(S, Width - 1)
           c == 2 * P
<1>1. P \in Nat \ {0} /\ MinInt = -P /\ MaxInt = P - 1 /\ TwoTo(Width) = c
  BY Widths
<1>2. Width - 1 \in Nat /\ (Width - 1) + 1 = Width
  BY Widths
<1>3. b \in 0 .. P-1 /\ BitSum(S, Width) = b + w
  BY <1>2, BitSumSteps
<1>4. w = 0 \/ w = P
  BY DEF WeightIn
<1>5. SignedSum(S) = b - w
  BY DEF SignedSum
<1> HIDE DEF P, b, w
<1>6. b - w \in Int /\ Fits(b - w)
  BY <1>1, <1>3, <1>4 DEF Fits
<1>7. (b - w) % c = b + w
  <2> DEFINE x == b - w
             y == b + w
  <2>1. c \in Nat \ {0} /\ y \in 0 .. c-1 /\ x \in Int
    BY <1>1, <1>3, <1>4
  <2>2. PICK q \in Int : x = c * q + y
    <3>1. CASE w = 0
      <4>1. x = c * 0 + y
        BY <1>1, <1>3, <3>1
      <4> QED BY <4>1
    <3>2. CASE w = P
      <4>1. x = c * (-1) + y
        BY <1>1, <1>3, <3>2
      <4> QED BY <4>1
    <3> QED BY <1>4, <3>1, <3>2
  <2> HIDE DEF c, x, y
  <2>3. x % c = y
    BY <2>1, <2>2, FloorIs
  <2> QED BY <2>3 DEF x, y
<1> QED BY <1>1, <1>3, <1>5, <1>6, <1>7

LEMMA BitsOfInt ==
    ASSUME NEW n \in Int
    PROVE  /\ Bits(n) \in SUBSET (0 .. Width - 1)
           /\ BitSum(Bits(n), Width) = n % TwoTo(Width)
           /\ Fits(n) => n = SignedSum(Bits(n))
<1> DEFINE c == TwoTo(Width)
           m == n % c
<1>1. Width \in Nat /\ c \in Nat \ {0}
  BY Widths
<1>2. m \in 0 .. c-1
  BY <1>1, Floor
<1>3. Bits(n) = {i \in 0 .. Width - 1 : (m \div TwoTo(i)) % 2 = 1}
  BY DEF Bits
<1>4. BitSum(Bits(n), Width) = m % c
  <2> DEFINE S == Bits(n)
  <2>1. \A i \in 0 .. Width - 1 : i \in S <=> (m \div TwoTo(i)) % 2 = 1
    BY <1>3
  <2>2. m \in Nat
    BY <1>2
  <2> HIDE DEF m, S
  <2> QED BY <1>1, <2>1, <2>2, BitSumOfDigits DEF c, S
<1>5. m % c = m
  <2> HIDE DEF c, m
  <2>1. m \in Int /\ m = c * 0 + m
    BY <1>1, <1>2
  <2> QED BY <1>1, <1>2, <2>1, FloorIs
<1>6. ASSUME Fits(n) PROVE n = SignedSum(Bits(n))
  <2>1. SignedSum(Bits(n)) % c = n % c
    BY <1>4, <1>5, SignedIs
  <2> QED BY <1>6, <2>1, SignedIs, SameInt
<1> QED BY <1>3, <1>4, <1>5, <1>6

LEMMA FromBitsIs ==
    ASSUME NEW S \in SUBSET (0 .. Width - 1)
    PROVE  FromBits(S) = SignedSum(S)
<1> DEFINE v == SignedSum(S)
           I == MinInt .. MaxInt
<1>1. Width \in Nat /\ MinInt \in Int /\ MaxInt \in Int
  BY Widths
<1>2. v \in Int /\ Fits(v) /\ v % TwoTo(Width) = BitSum(S, Width)
  BY SignedIs
<1> HIDE DEF v
<1>3. v \in I
  BY <1>1, <1>2 DEF Fits
<1>4. Bits(v) = S
  <2>1. Bits(v) \in SUBSET (0 .. Width - 1) /\ BitSum(Bits(v), Width) = BitSum(S, Width)
    BY <1>2, BitsOfInt
  <2>2. \A i \in 0 .. Width - 1 : i \in Bits(v) <=> i \in S
    BY <1>1, <2>1, BitSumsDiffer
  <2> QED BY <2>1, <2>2
<1>5. ASSUME NEW n \in I, Bits(n) = S
      PROVE  n = v
  <2>1. n \in Int /\ Fits(n)
    BY <1>1 DEF Fits
  <2>2. n % TwoTo(Width) = BitSum(S, Width)
    BY <1>5, <2>1, BitsOfInt
  <2> QED BY <1>2, <2>1, <2>2, SameInt
<1> DEFINE r == FromBits(S)
<1>6. r \in I /\ Bits(r) = S
  <2>1. \E n \in I : Bits(n) = S
    BY <1>3, <1>4
  <2> QED BY <2>1 DEF FromBits
<1> HIDE DEF r, I
<1>7. r = v
  BY <1>5, <1>6
<1> QED BY <1>7 DEF r, v

LEMMA BitwiseIs ==
    ASSUME NEW a \in Int, NEW b \in Int, Fits(a), Fits(b)
    PROVE  /\ \A op \in {"&", "|", "^"} : Bitwise(op, a, b) \in Proper
           /\ Bitwise("&", a, b).num + Bitwise("|", a, b).num = a + b
           /\ Bitwise("^", a, b).num = Bitwise("|", a, b).num - Bitwise("&", a, b).num
<1> DEFINE X == Bits(a)
           Y == Bits(b)
           M == X \intersect Y
           J == X \union Y
           E == J \ M
<1>1. /\ X \in SUBSET (0 .. Width - 1) /\ Y \in SUBSET (0 .. Width - 1)
      /\ a = SignedSum(X) /\ b = SignedSum(Y)
  BY BitsOfInt
<1>2. /\ Bitwise("&", a, b) = IntVal(FromBits(M))
      /\ Bitwise("|", a, b) = IntVal(FromBits(J))
      /\ Bitwise("^", a, b) = IntVal(FromBits(E))
  BY DEF Bitwise
<1> HIDE DEF X, Y
<1>3. /\ M \in SUBSET (0 .. Width - 1) /\ J \in SUBSET (0 .. Width - 1)
      /\ E \in SUBSET (0 .. Width - 1)
  BY <1>1
<1> DEFINE h == Width - 1
<1>4. h \in Nat
  BY Widths
<1>5. /\ BitSum(M, h) + BitSum(J, h) = BitSum(X, h) + BitSum(Y, h)
      /\ BitSum(E, h) = BitSum(J, h) - BitSum(M, h)
  <2> HIDE DEF h
  <2>1. SumsMeet(X, Y, h)
    BY <1>4, BitSumsMeet
  <2> QED BY <2>1 DEF SumsMeet
<1>6. /\ WeightIn(M, h) + WeightIn(J, h) = WeightIn(X, h) + WeightIn(Y, h)
      /\ WeightIn(E, h) = WeightIn(J, h) - WeightIn(M, h)
  <2>1. TwoTo(h) \in Nat
    BY <1>4, TwoToSteps
  <2>2. /\ h \in M <=> h \in X /\ h \in Y
        /\ h \in J <=> h \in X \/ h \in Y
        /\ h \in E <=> h \in J /\ h \notin M
    OBVIOUS
  <2> HIDE DEF h, M, J, E
  <2> QED BY <2>1, <2>2 DEF WeightIn
<1> HIDE DEF M, J, E
<1>7. \A S : /\ BitSum(S, h) \in Int /\ WeightIn(S, h) \in Int
             /\ SignedSum(S) = BitSum(S, h) - WeightIn(S, h)
  <2> SUFFICES ASSUME NEW S
      PROVE  /\ BitSum(S, h) \in Int /\ WeightIn(S, h) \in Int
             /\ SignedSum(S) = BitSum(S, h) - WeightIn(S, h)
    OBVIOUS
  <2>1. BitSum(S, h) \in 0 .. TwoTo(h) - 1 /\ WeightIn(S, h) \in Nat
    BY <1>4, BitSumSteps
  <2> QED BY <2>1 DEF SignedSum
<1> HIDE DEF h
<1>8. SignedSum(M) + SignedSum(J) = a + b /\ SignedSum(E) = SignedSum(J) - SignedSum(M)
  BY <1>1, <1>5, <1>6, <1>7
<1>9. FromBits(M) = SignedSum(M) /\ FromBits(J) = SignedSum(J) /\ FromBits(E) = SignedSum(E)
  BY <1>3, FromBitsIs
<1>10. \A S : /\ IntVal(SignedSum(S)) \in Proper
              /\ IntVal(SignedSum(S)).num = SignedSum(S)
  BY SignedIs, NumberKinds
<1> QED BY <1>2, <1>8, <1>9, <1>10

LEMMA InvertedIs ==
    ASSUME NEW a \in Proper, IsInt(a)
    PROVE  Inverted(a) \in Proper /\ Inverted(a).num = -a.num - 1
<1> DEFINE n == a.num
           X == Bits(n)
           C == (0 .. Width - 1) \ X
           h == Width - 1
<1>1. n \in Int /\ Fits(n)
  BY DEF Proper, Numeric
<1>2. n = SignedSum(X)
  BY <1>1, BitsOfInt
<1>3. Inverted(a) = IntVal(FromBits(C))
  BY DEF Inverted
<1>4. FromBits(C) = SignedSum(C)
  BY FromBitsIs
<1>5. h \in Nat /\ Width \in Nat /\ h \in 0 .. Width
  BY Widths
<1> HIDE DEF X, n
<1>6. BitSum(C, h) + BitSum(X, h) = TwoTo(h) - 1
  BY <1>5, BitSumOfTheOthers
<1>7. TwoTo(h) \in Nat \ {0} /\ (h \in C <=> h \notin X)
  BY <1>5, TwoToSteps
<1> HIDE DEF C
<1>8. BitSum(C, h) \in 0 .. TwoTo(h) - 1 /\ BitSum(X, h) \in 0 .. TwoTo(h) - 1
  BY <1>5, BitSumSteps
<1>9. SignedSum(C) = BitSum(C, h) - WeightIn(C, h) /\ n = BitSum(X, h) - WeightIn(X, h)
  BY <1>2 DEF SignedSum
<1> HIDE DEF h
<1>10. SignedSum(C) = -n - 1
  BY <1>6, <1>7, <1>8, <1>9 DEF WeightIn
<1>11. IntVal(SignedSum(C)) \in Proper /\ IntVal(SignedSum(C)).num = SignedSum(C)
  BY SignedIs, NumberKinds
<1> QED BY <1>3, <1>4, <1>10, <1>11 DEF n

LEMMA WrappedIs ==
    ASSUME NEW n \in Int
    PROVE  /\ Wrapped(n) \in Int /\ Fits(Wrapped(n))
           /\ Fits(n) => Wrapped(n) = n
<1> DEFINE P == TwoTo(Width - 1)
           c == 2 * P
           m == n + P
           r == m % c
<1>1. P \in Nat \ {0} /\ MinInt = -P /\ MaxInt = P - 1 /\ TwoTo(Width) = c
  BY Widths
<1>2. Wrapped(n) = r - P
  <2>1. n - MinInt = m /\ r \in Int
    BY <1>1
  <2> QED BY <1>1, <2>1 DEF Wrapped
<1> HIDE DEF P
<1>3. c \in Nat \ {0} /\ m \in Int
  BY <1>1
<1>4. r \in 0 .. c-1
  <2> HIDE DEF c, m
  <2> QED BY <1>3, Floor
<1>5. ASSUME Fits(n) PROVE r = m
  <2>1. m \in 0 .. c-1
    BY <1>1, <1>5 DEF Fits
  <2> HIDE DEF c, m
  <2>2. m = c * 0 + m
    BY <1>3
  <2> QED BY <1>3, <2>1, <2>2, FloorIs
<1> HIDE DEF r
<1>6. r - P \in Int /\ Fits(r - P)
  BY <1>1, <1>4 DEF Fits
<1> QED BY <1>1, <1>2, <1>5, <1>6

LEMMA ShiftIs ==
    ASSUME NEW a \in Int, NEW b \in Int, Fits(a), Fits(b), NEW op \in {"<<", ">>"}
    PROVE  /\ Answer(Shift(op, a, b))
           /\ Shift(op, a, b) = Panic <=> b \notin 0 .. Width - 1
           /\ Shift(op, a, b) # Panic => IsInt(Shift(op, a, b)) /\ Fits(Shift(op, a, b).num)
           /\ b \in 0 .. Width - 1 /\ Fits(a * TwoTo(b)) =>
                 Shift(">>", Shift("<<", a, b).num, b) = IntVal(a)
<1>1. Width \in Nat
  BY Widths
<1>2. CASE b \notin 0 .. Width - 1
  <2>1. b < 0 \/ b >= Width
    BY <1>1, <1>2
  <2>2. Shift(op, a, b) = Panic
    BY <2>1 DEF Shift
  <2> QED BY <1>2, <2>2 DEF Answer
<1>3. CASE b \in 0 .. Width - 1
  <2> DEFINE p == TwoTo(b)
             t == a * p
             q == a \div p
  <2>1. ~(b < 0 \/ b >= Width) /\ b \in Nat
    BY <1>1, <1>3
  <2>2. p \in Nat \ {0}
    BY <2>1, TwoToSteps
  <2>3. /\ Shift("<<", a, b) = IntVal(Wrapped(t)) /\ Shift(">>", a, b) = IntVal(q)
        /\ Shift(">>", Wrapped(t), b) = IntVal(Wrapped(t) \div p)
    BY <2>1 DEF Shift
  <2>4. t \in Int
    BY <2>2
  <2> HIDE DEF p
  <2>5. Wrapped(t) \in Int /\ Fits(Wrapped(t)) /\ (Fits(t) => Wrapped(t) = t)
    <3> HIDE DEF t
    <3> QED BY <2>4, WrappedIs
  <2>6. q \in Int /\ Fits(q)
    <3> DEFINE P == TwoTo(Width - 1)
               r == a % p
    <3>1. P \in Nat \ {0} /\ MinInt = -P /\ MaxInt = P - 1
      BY Widths
    <3> HIDE DEF P
    <3>2. q \in Int /\ r \in 0 .. p-1 /\ a = p * q + r
      BY <2>2, Floor
    <3>3. -P <= a /\ a < P
      BY <3>1 DEF Fits
    <3> HIDE DEF q, r
    <3>4. CASE q >= 0
      <4>1. p - 1 \in Nat /\ q \in Nat /\ (p - 1) * q \in Nat
        BY <2>2, <3>2, <3>4
      <4>2. p * q = (p - 1) * q + q
        BY <2>2, <3>2
      <4>3. q <= a
        BY <3>2, <4>1, <4>2
      <4> QED BY <3>1, <3>2, <3>3, <3>4, <4>3 DEF Fits
    <3>5. CASE q < 0
      <4> DEFINE k == -1 - q
      <4>1. p - 1 \in Nat /\ k \in Nat /\ (p - 1) * k \in Nat
        BY <2>2, <3>2, <3>5
      <4>2. p * q = -((p - 1) * k) - k - p
        BY <2>2, <3>2
      <4>3. a < -k
        BY <2>2, <3>2, <4>1, <4>2
      <4> QED BY <3>1, <3>2, <3>3, <3>5, <4>3 DEF Fits
    <3> QED BY <3>2, <3>4, <3>5
  <2>7. t \div p = a
    <3>1. t = p * a + 0 /\ 0 \in 0 .. p-1
      BY <2>2
    <3> HIDE DEF t
    <3> QED BY <2>2, <2>4, <3>1, FloorIs
  <2> HIDE DEF t, q
  <2>8. /\ IntVal(Wrapped(t)) \in Proper /\ IntVal(Wrapped(t)).num = Wrapped(t)
        /\ IsInt(IntVal(Wrapped(t))) /\ IntVal(Wrapped(t)) # Panic
        /\ IntVal(q) \in Proper /\ IntVal(q).num = q
        /\ IsInt(IntVal(q)) /\ IntVal(q) # Panic
    BY <2>5, <2>6, NumberKinds
  <2>9. Shift(op, a, b) = IntVal(Wrapped(t)) \/ Shift(op, a, b) = IntVal(q)
    BY <2>3
  <2>10. /\ Answer(Shift(op, a, b)) /\ Shift(op, a, b) # Panic
         /\ IsInt(Shift(op, a, b)) /\ Fits(Shift(op, a, b).num)
    BY <2>5, <2>6, <2>8, <2>9 DEF Answer
  <2>11. Fits(t) => Shift(">>", Shift("<<", a, b).num, b) = IntVal(a)
    BY <2>3, <2>5, <2>7, <2>8
  <2> QED BY <1>3, <2>10, <2>11 DEF t, p
<1> QED BY <1>2, <1>3

-----------------------------------------------------------------------------
(***************************************************************************)
(* The ways of the source to compute an operation.                         *)
(***************************************************************************)
Exactly(op, a, b, r) == op \in {"+", "-", "*", "/"} => ExactResult(op, a, b, r)

LEMMA ProperParts ==
    ASSUME NEW v \in Proper
    PROVE  /\ v \in Numeric /\ v # Panic /\ v.num \in Int /\ v.den \in Nat \ {0}
           /\ IsInt(v) => Fits(v.num) /\ v.den = 1 /\ v = IntVal(v.num)
           /\ AsInt(v) \in Int /\ Fits(AsInt(v))
           /\ IsInt(v) => AsInt(v) = v.num
<1>1. v \in Numeric /\ v.num \in Int /\ v.den \in Nat \ {0} /\ v # Panic
  BY NumberKinds DEF Proper, Numeric
<1>2. IsInt(v) => Fits(v.num) /\ v.den = 1
  BY DEF Proper
<1>3. Fits(0)
  BY Widths DEF Fits
<1> QED BY <1>1, <1>2, <1>3, NumberKinds DEF AsInt

LEMMA NegatedIs ==
    ASSUME NEW a \in Proper
    PROVE  Negated(a) \in Proper /\ ExactResult("negate", a, a, Negated(a))
<1> DEFINE n == a.num
           r == Negated(a)
<1>1. n \in Int /\ a.den \in Nat \ {0} /\ (IsInt(a) => Fits(n) /\ a.den = 1)
  BY ProperParts
<1>2. CASE ~IsInt(a)
  <2>1. r = Reduced(-n, a.den)
    BY <1>2 DEF Negated
  <2>2. r \in Proper /\ SameNumber(r, -n, a.den)
    BY <1>1, <2>1, ReducedProper
  <2> QED BY <1>2, <2>2, ProperParts DEF ExactResult
<1>3. CASE IsInt(a)
  <2> DEFINE P == TwoTo(Width - 1)
  <2>1. P \in Nat \ {0} /\ MinInt = -P /\ MaxInt = P - 1
    BY Widths
  <2> HIDE DEF P
  <2>2. r = IF n = MinInt THEN Whole(-MinInt) ELSE IntVal(-n)
    BY <1>3 DEF Negated
  <2>3. CASE n = MinInt
    <3>1. r \in Proper /\ r # Panic /\ ~IsInt(r) /\ r.num = P /\ r.den = 1 /\ -n = P /\ ~Fits(P)
      BY <2>1, <2>2, <2>3, NumberKinds DEF Fits
    <3> HIDE DEF r
    <3> QED BY <1>1, <1>3, <2>1, <3>1 DEF ExactResult, SameNumber, r
  <2>4. CASE n # MinInt
    <3>1. -n \in Int /\ Fits(-n)
      BY <1>1, <1>3, <2>1, <2>4 DEF Fits
    <3>2. r = IntVal(-n)
      BY <2>2, <2>4
    <3> HIDE DEF n, r
    <3>3. r \in Proper /\ r # Panic /\ IsInt(r) /\ r.num = -n /\ r.den = 1
      BY <1>1, <3>1, <3>2, NumberKinds
    <3> QED BY <1>1, <1>3, <3>1, <3>3 DEF ExactResult, SameNumber, n, r
  <2> QED BY <2>3, <2>4
<1> QED BY <1>2, <1>3

LEMMA OperandsAreProper == Operands \subseteq Proper
<1>1. \A n \in WrittenInts : number(n) \in Proper
  BY NumbersAssumption, NumberKinds DEF number
<1>2. \A n \in WrittenInts : hex_number(n) \in Proper
  <2> SUFFICES ASSUME NEW n \in WrittenInts PROVE hex_number(n) \in Proper
    OBVIOUS
  <2>1. n \in Int
    BY NumbersAssumption
  <2>2. Wrapped(n) \in Int /\ Fits(Wrapped(n))
    BY <2>1, WrappedIs
  <2> QED BY <2>2, NumberKinds DEF hex_number
<1>3. \A f \in Fractions : Reduced(f[1], f[2]) \in Proper
  <2> SUFFICES ASSUME NEW f \in Fractions PROVE Reduced(f[1], f[2]) \in Proper
    OBVIOUS
  <2>1. f[1] \in Int /\ f[2] \in Int \ {0}
    BY NumbersAssumption
  <2> QED BY <2>1, ReducedProper
<1>4. Literals \subseteq Proper
  BY <1>1, <1>2, <1>3 DEF Literals
<1> QED BY <1>4, NegatedIs DEF Operands

LEMMA PowProper ==
    ASSUME NEW a \in Numeric, NEW b, b.num \in Nat
    PROVE  Pow(a, b) \in Proper
<1>1. a.num \in Int /\ a.den \in Nat \ {0}
  BY DEF Numeric
<1>2. Raised(a.num, b.num) \in Int
  BY <1>1, RaisedSteps
<1>3. Raised(a.den, b.num) \in Nat \ {0}
  BY <1>1, RaisedPositive
<1>4. Raised(a.den, b.num) \in Int \ {0}
  BY <1>3
<1> QED BY <1>2, <1>4, ReducedProper DEF Pow

\* a / b of Ints or Floats
LEMMA SlashAnswers ==
    ASSUME NEW a \in Proper, NEW b \in Proper, NEW r,
           r = IF b.num = 0 THEN Panic ELSE Over(a, b)
    PROVE  Answer(r) /\ ExactResult("/", a, b, r)
<1>1. CASE b.num = 0
  BY <1>1 DEF Answer, ExactResult
<1>2. CASE b.num # 0
  BY <1>2, FloatsAreExact DEF Answer
<1> QED BY <1>1, <1>2

LEMMA FloatAnswers ==
    ASSUME NEW a \in Proper, NEW b \in Proper, NEW op, op = "**" => b.num \in Nat
    PROVE  /\ Answer(FloatBinary(op, a, b))
           /\ op # "**" => Answer(FloatCompound(op, a, b))
           /\ op \in Arithmetic \ {"\\", "%"} => Answer(NumTyped(op, a, b))
           /\ op = "/" \/ ~(IsInt(a) /\ IsInt(b)) =>
                 /\ Exactly(op, a, b, FloatBinary(op, a, b))
                 /\ Exactly(op, a, b, NumTyped(op, a, b))
                 /\ Exactly(op, a, b, FloatCompound(op, a, b))
<1> DEFINE r == IF b.num = 0 THEN Panic ELSE Over(a, b)
<1>1. Answer(r) /\ ExactResult("/", a, b, r)
  BY SlashAnswers
<1> HIDE DEF r
<1>2. Answer(Plus(a, b)) /\ Answer(Minus(a, b)) /\ Answer(Times(a, b)) /\ Answer(Panic)
  BY FloatsAreExact DEF Answer
<1>3. CASE op = "+"
  <2>1. FloatBinary(op, a, b) = Plus(a, b) /\ NumTyped(op, a, b) = Plus(a, b)
        /\ FloatCompound(op, a, b) = Plus(a, b)
    BY <1>3 DEF FloatBinary, NumTyped, FloatCompound
  <2> QED BY <1>2, <1>3, <2>1, FloatsAreExact DEF Exactly
<1>4. CASE op = "-"
  <2>1. FloatBinary(op, a, b) = Minus(a, b) /\ NumTyped(op, a, b) = Minus(a, b)
        /\ FloatCompound(op, a, b) = Minus(a, b)
    BY <1>4 DEF FloatBinary, NumTyped, FloatCompound
  <2> QED BY <1>2, <1>4, <2>1, FloatsAreExact DEF Exactly
<1>5. CASE op = "*"
  <2>1. FloatBinary(op, a, b) = Times(a, b) /\ NumTyped(op, a, b) = Times(a, b)
        /\ FloatCompound(op, a, b) = Times(a, b)
    BY <1>5 DEF FloatBinary, NumTyped, FloatCompound
  <2> QED BY <1>2, <1>5, <2>1, FloatsAreExact DEF Exactly
<1>6. CASE op = "/"
  <2>1. FloatBinary(op, a, b) = r /\ NumTyped(op, a, b) = r /\ FloatCompound(op, a, b) = r
    BY <1>6 DEF FloatBinary, NumTyped, FloatCompound, r
  <2> QED BY <1>1, <1>6, <2>1 DEF Exactly
<1>7. CASE op = "**"
  <2>1. FloatBinary(op, a, b) = Pow(a, b) /\ NumTyped(op, a, b) = Pow(a, b)
    BY <1>7 DEF FloatBinary, NumTyped
  <2>2. Answer(Pow(a, b))
    BY <1>7, ProperParts, PowProper DEF Answer
  <2> QED BY <1>7, <2>1, <2>2 DEF Exactly
<1>8. CASE op \notin {"+", "-", "*", "/", "**"}
  <2>1. FloatBinary(op, a, b) = Panic /\ FloatCompound(op, a, b) = Panic
    BY <1>8 DEF FloatBinary, FloatCompound
  <2> QED BY <1>2, <1>8, <2>1 DEF Exactly, Arithmetic
<1> QED BY <1>3, <1>4, <1>5, <1>6, <1>7, <1>8

LEMMA IntAnswers ==
    ASSUME NEW a \in Proper, NEW b \in Proper, IsInt(a), IsInt(b), NEW op,
           op = "**" => b.num \in Nat
    PROVE  /\ op \in Ops => Answer(IntBinary(op, a.num, b.num))
           /\ op \in Arithmetic \ {"/"} => Answer(IntTyped(op, a, b))
           /\ op \in Compounds => /\ Answer(IntCompound(op, a.num, b.num))
                                  /\ Answer(handle_compound_assignment(op, a, b))
           /\ Exactly(op, a, b, IntBinary(op, a.num, b.num))
           /\ op # "/" => Exactly(op, a, b, IntTyped(op, a, b))
           /\ Exactly(op, a, b, IntCompound(op, a.num, b.num))
           /\ Exactly(op, a, b, handle_compound_assignment(op, a, b))
<1> DEFINE m == a.num
           n == b.num
           r == IF n = 0 THEN Panic ELSE Over(a, b)
           p == m * n
<1>1. /\ m \in Int /\ n \in Int /\ Fits(m) /\ Fits(n) /\ a = IntVal(m) /\ b = IntVal(n)
      /\ AsInt(a) = m /\ AsInt(b) = n
  BY ProperParts
<1>2. Answer(r) /\ ExactResult("/", a, b, r)
  BY SlashAnswers
<1>3. /\ Answer(Promoted(m + n)) /\ ExactResult("+", a, b, Promoted(m + n))
      /\ Answer(Promoted(m - n)) /\ ExactResult("-", a, b, Promoted(m - n))
      /\ Answer(Promoted(p)) /\ ExactResult("*", a, b, Promoted(p))
  <2>1. m + n \in Int /\ m - n \in Int /\ p \in Int
    BY <1>1
  <2>2. Promoted(m + n) \in Proper /\ Promoted(m - n) \in Proper /\ Promoted(p) \in Proper
    <3> HIDE DEF m, n, p
    <3> QED BY <2>1, PromotedProper
  <2> QED BY <2>2, IntsAreExact DEF Answer
<1> HIDE DEF r
<1>4. CASE op = "+"
  <2>1. /\ IntBinary(op, m, n) = Promoted(m + n) /\ IntTyped(op, a, b) = Promoted(m + n)
        /\ IntCompound(op, m, n) = Promoted(m + n)
        /\ handle_compound_assignment(op, a, b) = Promoted(m + n)
    BY <1>1, <1>4 DEF IntBinary, IntTyped, IntCompound, handle_compound_assignment
  <2> QED BY <1>3, <1>4, <2>1 DEF Exactly
<1>5. CASE op = "-"
  <2>1. /\ IntBinary(op, m, n) = Promoted(m - n) /\ IntTyped(op, a, b) = Promoted(m - n)
        /\ IntCompound(op, m, n) = Promoted(m - n)
        /\ handle_compound_assignment(op, a, b) = Promoted(m - n)
    BY <1>1, <1>5 DEF IntBinary, IntTyped, IntCompound, handle_compound_assignment
  <2> QED BY <1>3, <1>5, <2>1 DEF Exactly
<1>6. CASE op = "*"
  <2>1. /\ IntBinary(op, m, n) = Promoted(p) /\ IntTyped(op, a, b) = Promoted(p)
        /\ IntCompound(op, m, n) = Promoted(p)
        /\ handle_compound_assignment(op, a, b) = Promoted(p)
    BY <1>1, <1>6 DEF IntBinary, IntTyped, IntCompound, handle_compound_assignment
  <2> QED BY <1>3, <1>6, <2>1 DEF Exactly
<1>7. CASE op = "/"
  <2>1. /\ IntBinary(op, m, n) = r /\ IntCompound(op, m, n) = r
        /\ handle_compound_assignment(op, a, b) = r
    BY <1>1, <1>7 DEF IntBinary, IntCompound, handle_compound_assignment, r
  <2> QED BY <1>2, <1>7, <2>1 DEF Exactly
<1>8. CASE op = "\\"
  <2>1. /\ IntBinary(op, m, n) = IntDivide(m, n) /\ IntTyped(op, a, b) = IntDivide(m, n)
        /\ IntCompound(op, m, n) = IntDivide(m, n)
        /\ handle_compound_assignment(op, a, b) = IntDivide(m, n)
    BY <1>1, <1>8 DEF IntBinary, IntTyped, IntCompound, handle_compound_assignment
  <2>2. Answer(IntDivide(m, n))
    BY <1>1, DivisionFits
  <2> QED BY <1>8, <2>1, <2>2 DEF Exactly
<1>9. CASE op = "%"
  <2>1. /\ IntBinary(op, m, n) = Modulus(m, n) /\ IntTyped(op, a, b) = Modulus(m, n)
        /\ IntCompound(op, m, n) = Modulus(m, n)
        /\ handle_compound_assignment(op, a, b) = Modulus(m, n)
    BY <1>1, <1>9 DEF IntBinary, IntTyped, IntCompound, handle_compound_assignment
  <2>2. Answer(Modulus(m, n))
    BY <1>1, DivisionFits
  <2> QED BY <1>9, <2>1, <2>2 DEF Exactly
<1>10. CASE op = "**"
  <2>1. IntBinary(op, m, n) = Pow(a, b) /\ IntTyped(op, a, b) = Pow(a, b)
    BY <1>1, <1>10 DEF IntBinary, IntTyped
  <2>2. Answer(Pow(a, b))
    BY <1>10, ProperParts, PowProper DEF Answer
  <2> QED BY <1>10, <2>1, <2>2 DEF Exactly, Compounds
<1>11. CASE op \in {"<<", ">>"}
  <2>1. IntBinary(op, m, n) = Shift(op, m, n)
    BY <1>11 DEF IntBinary
  <2>2. Answer(Shift(op, m, n))
    BY <1>1, <1>11, ShiftIs
  <2> QED BY <1>11, <2>1, <2>2 DEF Exactly, Compounds, Arithmetic
<1>12. CASE op \in {"&", "|", "^"}
  <2>1. IntBinary(op, m, n) = Bitwise(op, m, n)
    BY <1>12 DEF IntBinary
  <2>2. Answer(Bitwise(op, m, n))
    BY <1>1, <1>12, BitwiseIs DEF Answer
  <2> QED BY <1>12, <2>1, <2>2 DEF Exactly, Compounds, Arithmetic
<1>13. CASE op \notin Ops
  BY <1>13 DEF Exactly, Ops, Arithmetic, Compounds
<1> QED BY <1>4, <1>5, <1>6, <1>7, <1>8, <1>9, <1>10, <1>11, <1>12, <1>13
        DEF Ops, Arithmetic, BitOps

LEMMA GenericAnswers ==
    ASSUME NEW a \in Proper, NEW b \in Proper, NEW op \in Ops, op = "**" => b.num \in Nat
    PROVE  /\ Answer(binary_operation(op, a, b))
           /\ Exactly(op, a, b, binary_operation(op, a, b))
<1>1. CASE IsInt(a) /\ IsInt(b)
  <2>1. binary_operation(op, a, b) = IntBinary(op, a.num, b.num)
    BY <1>1 DEF binary_operation
  <2> QED BY <1>1, <2>1, IntAnswers
<1>2. CASE ~(IsInt(a) /\ IsInt(b))
  <2>1. binary_operation(op, a, b) = FloatBinary(op, a, b)
    BY <1>2 DEF binary_operation
  <2> QED BY <1>2, <2>1, FloatAnswers
<1> QED BY <1>1, <1>2

LEMMA CompoundAnswers ==
    ASSUME NEW a \in Proper, NEW b \in Proper, NEW op \in Compounds, NEW place \in Places
    PROVE  /\ Answer(Compound(place, op, a, b))
           /\ Exactly(op, a, b, Compound(place, op, a, b))
<1>0. op # "**"
  BY DEF Compounds
<1>1. CASE place = "local" /\ op = "/"
  <2>1. Compound(place, op, a, b) = IF b.num = 0 THEN Panic ELSE Over(a, b)
    BY <1>1 DEF Compound, SetLocalSlash
  <2> QED BY <1>1, <2>1, SlashAnswers DEF Exactly
<1>2. CASE place = "local" /\ op = "*"
  <2>1. Compound(place, op, a, b) =
            IF IsInt(a) /\ IsInt(b) THEN Promoted(a.num * b.num) ELSE Times(a, b)
    BY <1>2 DEF Compound, SetLocalStar
  <2>2. CASE IsInt(a) /\ IsInt(b)
    <3> DEFINE p == a.num * b.num
    <3>1. p \in Int
      BY ProperParts
    <3>2. Promoted(p) \in Proper
      <4> HIDE DEF p
      <4> QED BY <3>1, PromotedProper
    <3> QED BY <1>2, <2>1, <2>2, <3>2, IntsAreExact DEF Exactly, Answer
  <2>3. CASE ~(IsInt(a) /\ IsInt(b))
    BY <1>2, <2>1, <2>3, FloatsAreExact DEF Exactly, Answer
  <2> QED BY <2>2, <2>3
<1>3. CASE place = "global"
  <2>1. Compound(place, op, a, b) =
            IF IsInt(a) /\ IsInt(b) THEN IntCompound(op, a.num, b.num) ELSE FloatCompound(op, a, b)
    BY <1>3 DEF Compound, global_compound_operation
  <2>2. CASE IsInt(a) /\ IsInt(b)
    BY <1>0, <2>1, <2>2, IntAnswers
  <2>3. CASE ~(IsInt(a) /\ IsInt(b))
    BY <1>0, <2>1, <2>3, FloatAnswers
  <2> QED BY <2>2, <2>3
<1>4. CASE place # "global" /\ ~(place = "local" /\ op \in {"/", "*"})
  <2>1. Compound(place, op, a, b) = handle_compound_assignment(op, a, b)
    BY <1>4 DEF Compound
  <2>2. CASE IsInt(a) /\ IsInt(b)
    BY <1>0, <2>1, <2>2, IntAnswers
  <2>3. CASE ~(IsInt(a) /\ IsInt(b))
    <3>1. handle_compound_assignment(op, a, b) = FloatBinary(op, a, b)
      BY <2>3 DEF handle_compound_assignment
    <3> QED BY <1>0, <2>1, <2>3, <3>1, FloatAnswers
  <2> QED BY <2>2, <2>3
<1> QED BY <1>1, <1>2, <1>3, <1>4

LEMMA TypedAnswers ==
    ASSUME NEW a \in Proper, NEW b \in Proper, IsInt(b), NEW op \in Arithmetic \ {"/"},
           op = "**" => b.num \in Nat
    PROVE  /\ Answer(IntTyped(op, a, b))
           /\ IsInt(a) => Exactly(op, a, b, IntTyped(op, a, b))
<1> DEFINE c == IntVal(AsInt(a))
<1>1. c \in Proper /\ IsInt(c) /\ AsInt(c) = AsInt(a)
  <2>1. AsInt(a) \in Int /\ Fits(AsInt(a))
    BY ProperParts
  <2> QED BY <2>1, NumberKinds DEF AsInt
<1>2. IntTyped(op, a, b) = IntTyped(op, c, b)
  <2> HIDE DEF c
  <2> QED BY <1>1 DEF IntTyped
<1> HIDE DEF c
<1>3. Answer(IntTyped(op, c, b))
  BY <1>1, IntAnswers
<1>4. IsInt(a) => Exactly(op, a, b, IntTyped(op, a, b))
  BY IntAnswers
<1> QED BY <1>2, <1>3, <1>4

-----------------------------------------------------------------------------
(***************************************************************************)
(* The theorems.                                                           *)
(***************************************************************************)
LEMMA HeldIsProper ==
    ASSUME NumberTypeOK, Usable
    PROVE  held \in Proper
BY DEF NumberTypeOK, Usable, Proper

LEMMA TypeKept ==
    ASSUME Answer(held'), known' \in {"Any", "Int", "Float"},
           last'.op \in Ops \union {"negate", "~"}, last'.result = held'
    PROVE  NumberTypeOK'
BY DEF Answer, Proper, NumberTypeOK

LEMMA NumberStart == NumberInit => NumberTypeOK
<1> SUFFICES ASSUME NumberInit PROVE NumberTypeOK
  OBVIOUS
<1>1. held \in Proper /\ known \in {"Any", held.type} /\ last = NoOperation
  BY OperandsAreProper DEF NumberInit, Operands
<1> QED BY <1>1 DEF Proper, Numeric, NumberTypeOK

LEMMA NumberStep ==
    ASSUME NumberTypeOK, NumberNext
    PROVE  /\ NumberTypeOK'
           /\ ~Promotions /\ last'.op \in {"+", "-", "*", "/", "negate"} =>
                 ExactResult(last'.op, last'.left, last'.right, last'.result)
<1> DEFINE Goal == /\ NumberTypeOK'
                   /\ ~Promotions /\ last'.op \in {"+", "-", "*", "/", "negate"} =>
                         ExactResult(last'.op, last'.left, last'.right, last'.result)
<1>1. ASSUME Usable, NEW b \in Proper, NEW op \in Ops \union {"negate", "~"}, NEW way, NEW r,
             Answers(op, b, way, r), Answer(r), known' \in {"Any", "Int", "Float"},
             ~Promotions /\ op \in {"+", "-", "*", "/", "negate"} => ExactResult(op, held, b, r)
      PROVE  Goal
  <2>1. /\ last' = [op |-> op, left |-> held, right |-> b, way |-> way, result |-> r]
        /\ held' = r
    BY <1>1 DEF Answers
  <2>2. last'.op = op /\ last'.left = held /\ last'.right = b /\ last'.result = r
    BY <2>1
  <2>3. NumberTypeOK'
    BY <1>1, <2>1, <2>2, TypeKept
  <2> QED BY <1>1, <2>2, <2>3
<1> HIDE DEF Goal
<1>2. ASSUME NEW b \in Operands, NEW op \in Ops, Generic(op, b)
      PROVE  Goal
  <2>1. Usable /\ Raises(op, b) /\ Answers(op, b, "generic", binary_operation(op, held, b))
    BY <1>2 DEF Generic
  <2>2. known' \in {"Any", "Int", "Float"}
    BY <1>2 DEF Generic
  <2>3. held \in Proper /\ b \in Proper /\ (op = "**" => b.num \in Nat)
    <3>1. op = "**" => b.num \in Nat
      BY <2>1, NumbersAssumption DEF Raises
    <3> QED BY <2>1, <3>1, HeldIsProper, OperandsAreProper
  <2> DEFINE r == binary_operation(op, held, b)
  <2>4. Answer(r) /\ Exactly(op, held, b, r)
    BY <2>3, GenericAnswers
  <2>5. op # "negate"
    BY DEF Ops, Arithmetic, BitOps
  <2>6. Answers(op, b, "generic", r)
    BY <2>1
  <2> HIDE DEF r
  <2> QED BY <1>1, <2>1, <2>2, <2>3, <2>4, <2>5, <2>6 DEF Exactly
<1>3. ASSUME NEW b \in Operands, NEW op \in Ops, TypedInt(op, b)
      PROVE  Goal
  <2> DEFINE r == IF op = "/" THEN NumTyped(op, held, b) ELSE IntTyped(op, held, b)
  <2>1. /\ Usable /\ Raises(op, b) /\ known = "Int" /\ IsInt(b) /\ op \in Arithmetic
        /\ Answers(op, b, "typed", r)
    BY <1>3 DEF TypedInt
  <2>2. known' \in {"Any", "Int", "Float"}
    BY <1>3 DEF TypedInt
  <2>3. held \in Proper /\ b \in Proper /\ (op = "**" => b.num \in Nat)
    <3>1. op = "**" => b.num \in Nat
      BY <2>1, NumbersAssumption DEF Raises
    <3> QED BY <2>1, <3>1, HeldIsProper, OperandsAreProper
  <2>4. ~Promotions => IsInt(held)
    BY <2>1 DEF Usable, IsInt
  <2>5. Answer(r) /\ (~Promotions => Exactly(op, held, b, r))
    <3>1. CASE op = "/"
      <4>1. Answer(NumTyped(op, held, b)) /\ Exactly(op, held, b, NumTyped(op, held, b))
        BY <2>1, <2>3, <3>1, FloatAnswers
      <4> QED BY <3>1, <4>1
    <3>2. CASE op # "/"
      <4>1. /\ Answer(IntTyped(op, held, b))
            /\ IsInt(held) => Exactly(op, held, b, IntTyped(op, held, b))
        BY <2>1, <2>3, <3>2, TypedAnswers
      <4> QED BY <2>4, <3>2, <4>1
    <3> QED BY <3>1, <3>2
  <2>6. op # "negate"
    BY DEF Ops, Arithmetic, BitOps
  <2> HIDE DEF r
  <2> QED BY <1>1, <2>1, <2>2, <2>3, <2>5, <2>6 DEF Exactly
<1>4. ASSUME NEW b \in Operands, NEW op \in Ops, TypedNum(op, b)
      PROVE  Goal
  <2> DEFINE r == NumTyped(op, held, b)
  <2>1. /\ Usable /\ Raises(op, b) /\ (known = "Float" \/ ~IsInt(b))
        /\ op \in {"+", "-", "*", "/", "**"} /\ Answers(op, b, "typed", r) /\ known' = "Float"
    BY <1>4 DEF TypedNum
  <2>3. held \in Proper /\ b \in Proper /\ (op = "**" => b.num \in Nat)
    <3>1. op = "**" => b.num \in Nat
      BY <2>1, NumbersAssumption DEF Raises
    <3> QED BY <2>1, <3>1, HeldIsProper, OperandsAreProper
  <2>4. ~Promotions => ~(IsInt(held) /\ IsInt(b))
    BY <2>1 DEF Usable, IsInt
  <2>5. Answer(r) /\ (~Promotions => Exactly(op, held, b, r))
    <3>1. op \in Arithmetic \ {"\\", "%"}
      BY <2>1 DEF Arithmetic
    <3> QED BY <2>3, <2>4, <3>1, FloatAnswers
  <2>6. op # "negate"
    BY DEF Ops, Arithmetic, BitOps
  <2> HIDE DEF r
  <2> QED BY <1>1, <2>1, <2>3, <2>5, <2>6 DEF Exactly
<1>5. ASSUME NEW b \in Operands, NEW op \in Compounds, NEW place \in Places, Assign(place, op, b)
      PROVE  Goal
  <2> DEFINE r == Compound(place, op, held, b)
  <2>1. Usable /\ Answers(op, b, place, r) /\ known' = "Any"
    BY <1>5 DEF Assign
  <2>2. held \in Proper /\ b \in Proper
    BY <2>1, HeldIsProper, OperandsAreProper
  <2>3. Answer(r) /\ Exactly(op, held, b, r)
    BY <2>2, CompoundAnswers
  <2>4. op # "negate" /\ op \in Ops
    BY DEF Compounds, Ops, Arithmetic
  <2> HIDE DEF r
  <2> QED BY <1>1, <2>1, <2>2, <2>3, <2>4 DEF Exactly
<1>6. ASSUME Negate PROVE Goal
  <2> DEFINE r == Negated(held)
  <2>1. Usable /\ Answers("negate", held, "generic", r) /\ known' = known
    BY <1>6 DEF Negate
  <2>2. held \in Proper /\ known' \in {"Any", "Int", "Float"}
    BY <2>1, HeldIsProper DEF NumberTypeOK
  <2>3. Answer(r) /\ ExactResult("negate", held, held, r)
    BY <2>2, NegatedIs DEF Answer
  <2> HIDE DEF r
  <2> QED BY <1>1, <2>1, <2>2, <2>3
<1>7. ASSUME BitwiseNot PROVE Goal
  <2> DEFINE r == Inverted(held)
  <2>1. Usable /\ Answers("~", held, "generic", r) /\ known' = known
    BY <1>7 DEF BitwiseNot
  <2>2. held \in Proper /\ known' \in {"Any", "Int", "Float"}
    BY <2>1, HeldIsProper DEF NumberTypeOK
  <2>3. Answer(r)
    <3>1. CASE IsInt(held)
      BY <2>2, <3>1, InvertedIs DEF Answer
    <3>2. CASE ~IsInt(held)
      BY <3>2 DEF Answer, Inverted
    <3> QED BY <3>1, <3>2
  <2> HIDE DEF r
  <2> QED BY <1>1, <2>1, <2>2, <2>3
<1>8. Goal
  BY <1>2, <1>3, <1>4, <1>5, <1>6, <1>7 DEF NumberNext
<1> QED BY <1>8 DEF Goal

LEMMA LawsHold ==
    ASSUME NumberTypeOK
    PROVE  IntegerLaws
<1>1. ASSUME IsInt(held), NEW b \in Operands, IsInt(b)
      PROVE  /\ held \in Proper /\ b \in Proper
             /\ held.num \in Int /\ b.num \in Int /\ Fits(held.num) /\ Fits(b.num)
             /\ held = IntVal(held.num)
  <2>1. held # Panic
    BY <1>1, NumberKinds
  <2>2. held \in Proper /\ b \in Proper
    BY <2>1, OperandsAreProper DEF NumberTypeOK, Proper
  <2> QED BY <1>1, <2>2, ProperParts
<1>2. DivisionLaw
  <2> SUFFICES ASSUME IsInt(held), NEW b \in Operands, IsInt(b)
      PROVE  LET q == binary_operation("\\", held, b)
                 r == binary_operation("%", held, b)
             IN  IF b.num = 0 THEN q = Panic /\ r = Panic
                 ELSE /\ q.den = 1 /\ IsInt(r)
                      /\ q.num * b.num + r.num = held.num
                      /\ Abs(r.num) < Abs(b.num)
                      /\ r.num # 0 => (r.num < 0 <=> held.num < 0)
    BY DEF DivisionLaw
  <2>1. /\ binary_operation("\\", held, b) = IntDivide(held.num, b.num)
        /\ binary_operation("%", held, b) = Modulus(held.num, b.num)
    BY DEF binary_operation, IntBinary
  <2> QED BY <1>1, <2>1, DivisionFits
<1>3. BitwiseLaws
  <2> SUFFICES ASSUME IsInt(held), NEW b \in Operands, IsInt(b)
      PROVE  LET and == Bitwise("&", held.num, b.num).num
                 or  == Bitwise("|", held.num, b.num).num
                 xor == Bitwise("^", held.num, b.num).num
                 left == Shift("<<", held.num, b.num)
             IN  /\ and + or = held.num + b.num
                 /\ xor = or - and
                 /\ Inverted(held).num = -held.num - 1
                 /\ left = Panic <=> b.num \notin 0 .. Width - 1
                 /\ left # Panic =>
                       /\ IsInt(left) /\ Fits(left.num)
                       /\ Fits(held.num * TwoTo(b.num)) =>
                             Shift(">>", left.num, b.num) = held
    BY DEF BitwiseLaws
  <2>1. /\ Bitwise("&", held.num, b.num).num + Bitwise("|", held.num, b.num).num = held.num + b.num
        /\ Bitwise("^", held.num, b.num).num
             = Bitwise("|", held.num, b.num).num - Bitwise("&", held.num, b.num).num
    BY <1>1, BitwiseIs
  <2>2. Inverted(held).num = -held.num - 1
    BY <1>1, InvertedIs
  <2> DEFINE left == Shift("<<", held.num, b.num)
  <2>3. /\ left = Panic <=> b.num \notin 0 .. Width - 1
        /\ left # Panic => IsInt(left) /\ Fits(left.num)
        /\ b.num \in 0 .. Width - 1 /\ Fits(held.num * TwoTo(b.num)) =>
              Shift(">>", left.num, b.num) = IntVal(held.num)
    BY <1>1, ShiftIs
  <2>4. IntVal(held.num) = held
    BY <1>1
  <2> QED BY <2>1, <2>2, <2>3, <2>4
<1> QED BY <1>2, <1>3 DEF IntegerLaws

(***************************************************************************)
(* For Ints of any width: \ and % answer quotient and remainder, and the   *)
(* bitwise operators what they are to sums, differences and shifts, with   *)
(* whatever operands, for the smallest Int as for the others.              *)
(***************************************************************************)
THEOREM IntegersFollowTheirLaws == NumberSpec => []IntegerLaws
<1>1. NumberInit => NumberTypeOK
  BY NumberStart
<1>2. NumberTypeOK /\ [NumberNext]_numberVars => NumberTypeOK'
  <2>1. ASSUME NumberTypeOK, UNCHANGED numberVars PROVE NumberTypeOK'
    BY <2>1 DEF NumberTypeOK, numberVars
  <2> QED BY <2>1, NumberStep
<1>3. NumberTypeOK => IntegerLaws
  BY LawsHold
<1> QED BY <1>1, <1>2, <1>3, PTL DEF NumberSpec

(***************************************************************************)
(* For Ints of any width: as long as the compiler is right about the type  *)
(* of what an expression holds, every way that the source has to add,      *)
(* subtract, multiply, divide and negate gives what arithmetic gives, an   *)
(* Int where both operands are and it fits, and only division by zero      *)
(* stops the script.                                                       *)
(***************************************************************************)
THEOREM ArithmeticIsExact ==
    ASSUME ~Promotions
    PROVE  NumberSpec => ResultsAreExact
<1>1. NumberInit => NumberTypeOK
  BY NumberStart
<1>2. NumberTypeOK /\ [NumberNext]_numberVars => NumberTypeOK'
  <2>1. ASSUME NumberTypeOK, UNCHANGED numberVars PROVE NumberTypeOK'
    BY <2>1 DEF NumberTypeOK, numberVars
  <2> QED BY <2>1, NumberStep
<1>3. NumberTypeOK /\ [NumberNext]_numberVars =>
          [last'.op \in {"+", "-", "*", "/", "negate"} =>
               ExactResult(last'.op, last'.left, last'.right, last'.result)]_numberVars
  BY NumberStep
<1> QED BY <1>1, <1>2, <1>3, PTL DEF NumberSpec, ResultsAreExact
=============================================================================
