---------------------------- MODULE TableProofs ----------------------------
(***************************************************************************)
(* For every set of keys, every hash function and every capacity bound:    *)
(* the string table keeps its type, its probes end, every entry stays      *)
(* where find_entry looks for it, and the table is a dictionary.           *)
(*                                                                         *)
(* Probes end because an empty slot is always left (Room), and that is so  *)
(* because `count' bounds the used slots, tombstones included (Counted),   *)
(* in the array being filled as well (Filling).                            *)
(*                                                                         *)
(* The object table, of every power-of-two capacity: only tombstones keep  *)
(* a call from returning, and the table is a map as long as calls return.  *)
(* Its probes go by index * 5 + 1; that they visit every entry is the      *)
(* number theory at the start of its part (PowersSeparate, OrbitCovers).   *)
(***************************************************************************)
EXTENDS StringTable, ObjectTable, ProofBasics

-----------------------------------------------------------------------------
(***************************************************************************)
(* Slots and probe sequences.                                              *)
(***************************************************************************)
LEMMA ModRange ==
    ASSUME NEW a \in Nat, NEW b \in Nat, b > 0
    PROVE  a % b \in 0 .. b-1
OBVIOUS

LEMMA HomeRange ==
    ASSUME NEW t \in Texts, NEW cap \in Nat, cap > 0
    PROVE  Home(t, cap) \in Slots(cap)
<1>1. HashOf[t] \in Nat
  BY HashOfAssumption
<1> QED BY <1>1, ModRange DEF Home, Slots

\* A probe stays inside the array.
LEMMA ProbeRange ==
    ASSUME NEW t \in Texts, NEW cap \in Nat, NEW n \in Slots(cap)
    PROVE  Probe(t, cap, n) \in Slots(cap)
<1>1. cap > 0
  BY DEF Slots
<1>2. Home(t, cap) \in Slots(cap)
  BY <1>1, HomeRange
<1> QED BY <1>2 DEF Probe, Slots

\* No slot is probed twice in the first cap probes ...
LEMMA ProbeInjective ==
    ASSUME NEW t \in Texts, NEW cap \in Nat,
           NEW m \in Slots(cap), NEW n \in Slots(cap),
           Probe(t, cap, m) = Probe(t, cap, n)
    PROVE  m = n
<1>1. cap > 0
  BY DEF Slots
<1>2. Home(t, cap) \in Slots(cap)
  BY <1>1, HomeRange
<1> QED BY <1>2 DEF Probe, Slots

\* ... and every slot is.
LEMMA ProbeSurjective ==
    ASSUME NEW t \in Texts, NEW cap \in Nat, NEW s \in Slots(cap)
    PROVE  \E n \in Slots(cap) : Probe(t, cap, n) = s
<1>1. cap > 0
  BY DEF Slots
<1>2. Home(t, cap) \in Slots(cap)
  BY <1>1, HomeRange
<1> DEFINE n == IF s >= Home(t, cap) THEN s - Home(t, cap)
                                     ELSE s - Home(t, cap) + cap
<1>3. n \in Slots(cap)
  BY <1>2 DEF Slots
<1>4. Probe(t, cap, n) = s
  BY <1>2 DEF Probe, Slots
<1> QED BY <1>3, <1>4

-----------------------------------------------------------------------------
(***************************************************************************)
(* Type correctness.                                                       *)
(***************************************************************************)
LEMMA SlotTypes == Empty \in Slot /\ Tombstone \in Slot
BY ValuesAssumption DEF Empty, Tombstone, Slot

LEMMA GrownType ==
    ASSUME NEW cap \in Nat
    PROVE  /\ GrownCapacity(cap) \in Nat
           /\ GrownCapacity(cap) >= 4
           /\ cap < GrownCapacity(cap)
BY DEF GrownCapacity

LEMMA StoreType ==
    ASSUME NEW cap \in Nat, cap = 0 \/ cap >= 4, NEW es \in [Slots(cap) -> Slot],
           NEW n \in Nat, NEW k \in Keys, NEW v \in Values,
           Store(es, cap, n, k, v)
    PROVE  /\ capacity' \in Nat /\ (capacity' = 0 \/ capacity' >= 4)
           /\ entries' \in [Slots(capacity') -> Slot]
           /\ count' \in Nat
           /\ ok' \in BOOLEAN
           /\ out' = NULL
<1>1. [key |-> k, value |-> v] \in Slot
  BY DEF Slot
<1> QED BY <1>1 DEF Store, IsLive

LEMMA TypeInductive == TypeOK /\ [Next]_vars => TypeOK'
<1> SUFFICES ASSUME TypeOK, [Next]_vars PROVE TypeOK'
  OBVIOUS
<1> USE DEF TypeOK
<1>1. ASSUME NEW k \in Keys, NEW v \in Values, SetInPlace(k, v) PROVE TypeOK'
  <2>1. Store(entries, capacity, count, k, v) /\ UNCHANGED growing /\ pc = "idle"
    BY <1>1 DEF SetInPlace
  <2>2. /\ capacity' \in Nat /\ (capacity' = 0 \/ capacity' >= 4)
        /\ entries' \in [Slots(capacity') -> Slot]
        /\ count' \in Nat /\ ok' \in BOOLEAN /\ out' = NULL /\ capacity' = capacity
    BY <2>1, StoreType DEF Store
  <2> QED BY <2>1, <2>2 DEF growing
<1>2. ASSUME NEW k \in Keys, NEW v \in Values, SetGrows(k, v) PROVE TypeOK'
  BY <1>2 DEF SetGrows
<1>3. ASSUME FreshArray PROVE TypeOK'
  BY <1>3, SlotTypes, GrownType DEF FreshArray
<1>4. ASSUME RehashSlot PROVE TypeOK'
  <2>1. entries[scan] \in Slot
    BY <1>4 DEF RehashSlot, Slots
  <2>2. dest' \in [Slots(GrownCapacity(capacity)) -> Slot]
    BY <1>4, <2>1 DEF RehashSlot
  <2>3. count' \in Nat /\ scan' \in 0 .. capacity
    BY <1>4 DEF RehashSlot
  <2> QED BY <1>4, <2>2, <2>3 DEF RehashSlot
<1>5. ASSUME FinishSet PROVE TypeOK'
  <2>1. GrownCapacity(capacity) \in Nat /\ GrownCapacity(capacity) >= 4
    BY GrownType
  <2>2. pending[1] \in Keys /\ pending[2] \in Values
    BY <1>5 DEF FinishSet
  <2>3. Store(dest, GrownCapacity(capacity), count, pending[1], pending[2])
    BY <1>5 DEF FinishSet
  <2>4. /\ capacity' \in Nat /\ (capacity' = 0 \/ capacity' >= 4)
        /\ entries' \in [Slots(capacity') -> Slot]
        /\ count' \in Nat /\ ok' \in BOOLEAN /\ out' = NULL
    BY <1>5, <2>1, <2>2, <2>3, StoreType DEF FinishSet
  <2> QED BY <1>5, <2>4 DEF FinishSet
<1>6. ASSUME NEW t \in Texts, Delete(t) PROVE TypeOK'
  BY <1>6, SlotTypes DEF Delete, growing, IsLive
<1>7. ASSUME NEW t \in Texts, Get(t) PROVE TypeOK'
  <2>1. out' \in Keys \cup Values \cup {NULL} /\ ok' \in BOOLEAN
    BY <1>7 DEF Get, IsLive, Slot
  <2> QED BY <1>7, <2>1 DEF Get, growing
<1>8. ASSUME NEW t \in Texts, FindString(t) PROVE TypeOK'
  <2>1. \A n \in Slots(capacity) : entries[Probe(t, capacity, n)].key \in Keys \cup {NULL}
    BY ProbeRange DEF Slot
  <2>2. out' \in Keys \cup Values \cup {NULL} /\ ok' \in BOOLEAN
    BY <1>8, <2>1 DEF FindString
  <2> QED BY <1>8, <2>2 DEF FindString, growing
<1>9. ASSUME NEW white \in SUBSET Keys, RemoveWhite(white) PROVE TypeOK'
  <2>1. entries' \in [Slots(capacity) -> Slot]
    BY <1>9, SlotTypes DEF RemoveWhite
  <2> QED BY <1>9, <2>1 DEF RemoveWhite, growing
<1>10. CASE UNCHANGED vars
  BY <1>10 DEF vars
<1> QED BY <1>1, <1>2, <1>3, <1>4, <1>5, <1>6, <1>7, <1>8, <1>9, <1>10 DEF Next

LEMMA TypeInitial == Init => TypeOK
<1> SUFFICES ASSUME Init PROVE TypeOK
  OBVIOUS
<1>1. Slots(0) = {}
  BY DEF Slots
<1>2. entries \in [{} -> Slot]
  BY SlotTypes DEF Init
<1>3. entries \in [Slots(0) -> Slot]
  BY <1>1, <1>2, Zenon
<1>4. /\ capacity = 0 /\ count = 0 /\ pc = "idle" /\ scan = 0
      /\ ok = FALSE /\ out = NULL
  BY DEF Init
<1>5. entries \in [Slots(capacity) -> Slot]
  BY <1>3, <1>4, Zenon
<1>6. scan \in 0 .. capacity /\ capacity \in Nat /\ count \in Nat
  BY <1>4
<1>7. pc # "rehash" /\ ok \in BOOLEAN
  BY <1>4
<1> QED BY <1>4, <1>5, <1>6, <1>7 DEF TypeOK

(***************************************************************************)
(* The table's fields always have the values their types in table.h        *)
(* promise, whatever the keys, the hash function and the bound.            *)
(***************************************************************************)
THEOREM TypeCorrect == Spec => []TypeOK
BY TypeInitial, TypeInductive, PTL DEF Spec

-----------------------------------------------------------------------------
(***************************************************************************)
(* Probing ends.                                                           *)
(***************************************************************************)
Used(es, cap) == {s \in Slots(cap) : ~IsEmpty(es[s])}

HasRoom(es, cap) == cap > 0 => Cardinality(Used(es, cap)) < cap

Room == HasRoom(entries, capacity)

Counted == pc # "rehash" => Cardinality(Used(entries, capacity)) <= count

Filling == pc = "rehash" =>
              /\ Cardinality(Used(dest, GrownCapacity(capacity))) <= count
              /\ count <= scan

RoomInv == TypeOK /\ Room /\ Counted /\ Filling

LEMMA UsedFinite ==
    ASSUME NEW cap \in Nat, NEW es
    PROVE  /\ IsFiniteSet(Slots(cap)) /\ Cardinality(Slots(cap)) = cap
           /\ IsFiniteSet(Used(es, cap)) /\ Cardinality(Used(es, cap)) \in Nat
<1>1. IsFiniteSet(Slots(cap)) /\ Cardinality(Slots(cap)) = cap
  BY FS_Interval DEF Slots
<1>2. Used(es, cap) \subseteq Slots(cap)
  BY DEF Used
<1> QED BY <1>1, <1>2, FS_Subset, FS_CardinalityType

\* An array with room has an empty slot.
LEMMA RoomEmpty ==
    ASSUME NEW cap \in Nat, cap > 0, NEW es, HasRoom(es, cap)
    PROVE  \E s \in Slots(cap) : IsEmpty(es[s])
<1> SUFFICES ASSUME \A s \in Slots(cap) : ~IsEmpty(es[s]) PROVE FALSE
  OBVIOUS
<1>1. Used(es, cap) = Slots(cap)
  BY DEF Used
<1> QED BY <1>1, UsedFinite DEF HasRoom

\* From a slot where a probe would stop, the first such slot is reached, and
\* find_entry returns.
LEMMA StopFinds ==
    ASSUME NEW t \in Texts, NEW cap \in Nat, NEW es,
           NEW m \in Slots(cap), StopsAt(es, cap, t, m)
    PROVE  \E s \in Slots(cap) : FindsAt(es, cap, t, s)
<1> DEFINE Stops == {i \in Slots(cap) : StopsAt(es, cap, t, i)}
<1>1. Stops \in SUBSET Nat /\ Stops # {}
  BY DEF Slots
<1>2. PICK n \in Stops : \A i \in Stops : n <= i
  BY <1>1, LeastNat
<1>3. n \in 0 .. cap-1 /\ n \in Slots(cap)
  BY DEF Slots
<1>4. StopsFirstAt(es, cap, t, n)
  <2>1. \A i \in 0 .. n-1 : i \in Slots(cap) /\ ~(n <= i)
    BY <1>3 DEF Slots
  <2> QED BY <1>2, <2>1 DEF StopsFirstAt
<1> DEFINE Passed == {i \in 0 .. n-1 : IsTombstone(es[Probe(t, cap, i)])}
<1> HIDE DEF Stops
<1>5. CASE IsEmpty(es[Probe(t, cap, n)]) /\ Passed # {}
  <2>1. Passed \in SUBSET Nat
    BY <1>3
  <2>2. PICK i \in Passed : \A j \in Passed : i <= j
    BY <1>5, <2>1, LeastNat
  <2>3. i \in Slots(cap)
    BY <1>3 DEF Slots
  <2>4. FindsAt(es, cap, t, Probe(t, cap, i))
    BY <1>3, <1>4, <1>5, <2>2 DEF FindsAt
  <2> QED BY <2>3, <2>4, ProbeRange
<1>6. CASE ~(IsEmpty(es[Probe(t, cap, n)]) /\ Passed # {})
  <2>1. FindsAt(es, cap, t, Probe(t, cap, n))
    BY <1>3, <1>4, <1>6 DEF FindsAt
  <2> QED BY <1>3, <2>1, ProbeRange
<1> QED BY <1>5, <1>6

LEMMA RoomFinds ==
    ASSUME NEW cap \in Nat, cap > 0, NEW es, HasRoom(es, cap)
    PROVE  AllFind(es, cap)
<1> SUFFICES ASSUME NEW t \in Texts
             PROVE  \E s \in Slots(cap) : FindsAt(es, cap, t, s)
  BY DEF AllFind
<1>1. PICK e \in Slots(cap) : IsEmpty(es[e])
  BY RoomEmpty
<1>2. PICK m \in Slots(cap) : Probe(t, cap, m) = e
  BY ProbeSurjective
<1>3. StopsAt(es, cap, t, m)
  BY <1>1, <1>2 DEF StopsAt
<1> QED BY <1>3, StopFinds

\* Filling a slot uses at most one more, and none if it was used already.
LEMMA UsedAfterStore ==
    ASSUME NEW cap \in Nat, NEW es \in [Slots(cap) -> Slot], NEW s \in Slots(cap),
           NEW e
    PROVE  LET after == Cardinality(Used([es EXCEPT ![s] = e], cap))
               before == Cardinality(Used(es, cap))
           IN  /\ after <= before + 1
               /\ ~IsEmpty(es[s]) => after <= before
<1> DEFINE U == Used(es, cap)
           V == Used([es EXCEPT ![s] = e], cap)
<1>1. V \subseteq U \cup {s} /\ (~IsEmpty(es[s]) => s \in U)
  BY DEF Used
<1>2. IsFiniteSet(U) /\ Cardinality(U) \in Nat /\ Cardinality(V) \in Nat
  BY UsedFinite
<1>3. /\ IsFiniteSet(U \cup {s})
      /\ Cardinality(U \cup {s}) = IF s \in U THEN Cardinality(U) ELSE Cardinality(U) + 1
  BY <1>2, FS_AddElement
<1>4. Cardinality(V) <= Cardinality(U \cup {s})
  BY <1>1, <1>3, FS_Subset
<1> HIDE DEF U, V
<1>5. Cardinality(V) <= Cardinality(U) + 1 /\ (s \in U => Cardinality(V) <= Cardinality(U))
  BY <1>2, <1>3, <1>4
<1> QED BY <1>1, <1>5 DEF U, V

\* The store at the end of table_set.
LEMMA StoreCounts ==
    ASSUME NEW cap \in Nat, NEW es \in [Slots(cap) -> Slot],
           NEW n \in Nat, NEW k \in Keys, NEW v \in Values,
           Store(es, cap, n, k, v), Cardinality(Used(es, cap)) <= n
    PROVE  /\ capacity' = cap
           /\ Cardinality(Used(entries', cap)) <= count'
           /\ Cardinality(Used(entries', cap)) <= n + 1
<1>1. PICK s \in Slots(cap) :
        /\ entries' = [es EXCEPT ![s] = [key |-> k, value |-> v]]
        /\ capacity' = cap
        /\ count' = IF IsEmpty(es[s]) THEN n + 1 ELSE n
  BY DEF Store
<1>2. /\ Cardinality(Used(entries', cap)) <= Cardinality(Used(es, cap)) + 1
      /\ ~IsEmpty(es[s]) => Cardinality(Used(entries', cap)) <= Cardinality(Used(es, cap))
  BY <1>1, UsedAfterStore
<1>3. Cardinality(Used(es, cap)) \in Nat /\ Cardinality(Used(entries', cap)) \in Nat
  BY UsedFinite
<1> QED BY <1>1, <1>2, <1>3

\* Deletions leave the used slots what they were.
LEMMA UsedAfterDelete ==
    ASSUME NEW cap \in Nat, NEW es, NEW fs,
           \A s \in Slots(cap) : fs[s] = es[s] \/ (IsLive(es[s]) /\ fs[s] = Tombstone)
    PROVE  Used(fs, cap) = Used(es, cap)
BY ValuesAssumption DEF Used, IsEmpty, IsLive, Tombstone

LEMMA RoomInitial == Init => RoomInv
<1> SUFFICES ASSUME Init PROVE Room /\ Counted /\ Filling
  BY TypeInitial DEF RoomInv
<1>1. capacity = 0 /\ count = 0 /\ pc = "idle"
  BY DEF Init
<1>2. Cardinality(Used(entries, capacity)) = 0
  <2>1. Used(entries, capacity) = {}
    BY <1>1 DEF Used, Slots
  <2> QED BY <2>1, FS_EmptySet
<1> QED BY <1>1, <1>2 DEF Room, Counted, Filling, HasRoom

LEMMA RoomInductive == RoomInv /\ [Next]_vars => RoomInv'
<1> SUFFICES ASSUME RoomInv, [Next]_vars PROVE Room' /\ Counted' /\ Filling'
  BY TypeInductive DEF RoomInv
<1> DEFINE G == GrownCapacity(capacity)
<1>t. TypeOK /\ Room /\ Counted /\ Filling /\ TypeOK'
  BY TypeInductive DEF RoomInv
<1>g. G \in Nat /\ G >= 4 /\ capacity < G /\ (capacity >= 4 => capacity + 1 < G)
  BY <1>t, GrownType DEF TypeOK, GrownCapacity
<1> USE DEF Room, Counted, Filling
<1>1. ASSUME NEW k \in Keys, NEW v \in Values, SetInPlace(k, v)
      PROVE  Room' /\ Counted' /\ Filling'
  <2>1. /\ pc = "idle" /\ pc' = "idle" /\ ~NeedsGrowth
        /\ Store(entries, capacity, count, k, v)
    BY <1>1 DEF SetInPlace, growing
  <2>2. /\ capacity' = capacity
        /\ Cardinality(Used(entries', capacity)) <= count'
        /\ Cardinality(Used(entries', capacity)) <= count + 1
    BY <1>t, <2>1, StoreCounts DEF TypeOK
  <2>3. Cardinality(Used(entries', capacity)) \in Nat
    BY <1>t, UsedFinite DEF TypeOK
  <2>4. capacity > 0 => count + 1 < capacity
    BY <1>t, <2>1 DEF NeedsGrowth, TypeOK
  <2>5. HasRoom(entries', capacity)
    BY <1>t, <2>2, <2>3, <2>4 DEF HasRoom, TypeOK
  <2> QED BY <2>1, <2>2, <2>5
<1>2. ASSUME NEW k \in Keys, NEW v \in Values, SetGrows(k, v)
      PROVE  Room' /\ Counted' /\ Filling'
  BY <1>t, <1>2 DEF SetGrows, TypeOK
<1>3. ASSUME FreshArray PROVE Room' /\ Counted' /\ Filling'
  <2>1. Used(dest', G) = {}
    BY <1>3 DEF FreshArray, Used, IsEmpty, Empty
  <2>2. Cardinality(Used(dest', G)) = 0
    BY <2>1, FS_EmptySet
  <2> QED BY <1>t, <1>3, <2>2 DEF FreshArray
<1>4. ASSUME RehashSlot PROVE Room' /\ Counted' /\ Filling'
  <2>1. /\ pc = "rehash" /\ pc' = "rehash" /\ scan' = scan + 1
        /\ UNCHANGED <<entries, capacity>>
    BY <1>4 DEF RehashSlot
  <2>2. count \in Nat /\ scan \in Nat /\ dest \in [Slots(G) -> Slot]
    BY <1>t, <2>1 DEF TypeOK
  <2>3. Cardinality(Used(dest, G)) \in Nat /\ Cardinality(Used(dest', G)) \in Nat
    BY <1>g, UsedFinite
  <2>4. CASE IsLive(entries[scan])
    <3>1. PICK s \in Slots(G) : dest' = [dest EXCEPT ![s] = entries[scan]]
      BY <1>4, <2>4 DEF RehashSlot
    <3>2. count' = count + 1
      BY <1>4, <2>4 DEF RehashSlot
    <3>3. Cardinality(Used(dest', G)) <= Cardinality(Used(dest, G)) + 1
      BY <1>g, <2>2, <3>1, UsedAfterStore
    <3>4. Cardinality(Used(dest', G)) <= count' /\ count' <= scan'
      BY <1>t, <2>1, <2>2, <2>3, <3>2, <3>3
    <3> QED BY <1>t, <2>1, <3>4
  <2>5. CASE ~IsLive(entries[scan])
    <3>1. UNCHANGED <<dest, count>>
      BY <1>4, <2>5 DEF RehashSlot
    <3>2. count' <= scan'
      BY <1>t, <2>1, <2>2, <3>1
    <3> QED BY <1>t, <2>1, <3>1, <3>2
  <2> QED BY <2>4, <2>5
<1>5. ASSUME FinishSet PROVE Room' /\ Counted' /\ Filling'
  <2>1. /\ pc = "rehash" /\ pc' = "idle" /\ scan = capacity
        /\ Store(dest, G, count, pending[1], pending[2])
    BY <1>5 DEF FinishSet
  <2>2. /\ count \in Nat /\ dest \in [Slots(G) -> Slot]
        /\ pending[1] \in Keys /\ pending[2] \in Values
    BY <1>t, <2>1 DEF TypeOK
  <2>3. /\ capacity' = G
        /\ Cardinality(Used(entries', G)) <= count'
        /\ Cardinality(Used(entries', G)) <= count + 1
    BY <1>t, <1>g, <2>1, <2>2, StoreCounts
  <2>4. Cardinality(Used(entries', G)) \in Nat
    BY <1>g, UsedFinite
  <2>5. count + 1 < G
    BY <1>t, <1>g, <2>1, <2>2 DEF TypeOK
  <2>6. HasRoom(entries', G)
    BY <1>g, <2>2, <2>3, <2>4, <2>5 DEF HasRoom
  <2> QED BY <2>1, <2>3, <2>6
<1>6. ASSUME NEW t \in Texts, Delete(t) PROVE Room' /\ Counted' /\ Filling'
  <2>1. \A s \in Slots(capacity) :
           entries'[s] = entries[s] \/ (IsLive(entries[s]) /\ entries'[s] = Tombstone)
    BY <1>t, <1>6 DEF Delete, TypeOK
  <2>2. Used(entries', capacity) = Used(entries, capacity)
    BY <1>t, <2>1, UsedAfterDelete DEF TypeOK
  <2> QED BY <1>t, <1>6, <2>2 DEF Delete, growing, HasRoom
<1>7. ASSUME NEW t \in Texts, Get(t) PROVE Room' /\ Counted' /\ Filling'
  BY <1>t, <1>7 DEF Get, growing
<1>8. ASSUME NEW t \in Texts, FindString(t) PROVE Room' /\ Counted' /\ Filling'
  BY <1>t, <1>8 DEF FindString, growing
<1>9. ASSUME NEW white \in SUBSET Keys, RemoveWhite(white)
      PROVE  Room' /\ Counted' /\ Filling'
  <2>1. \A s \in Slots(capacity) :
           entries'[s] = entries[s] \/ (IsLive(entries[s]) /\ entries'[s] = Tombstone)
    BY <1>9 DEF RemoveWhite
  <2>2. Used(entries', capacity) = Used(entries, capacity)
    BY <1>t, <2>1, UsedAfterDelete DEF TypeOK
  <2> QED BY <1>t, <1>9, <2>2 DEF RemoveWhite, growing, HasRoom
<1>10. CASE UNCHANGED vars
  BY <1>t, <1>10 DEF vars
<1> QED BY <1>1, <1>2, <1>3, <1>4, <1>5, <1>6, <1>7, <1>8, <1>9, <1>10 DEF Next

LEMMA RoomMeansProbingEnds == RoomInv => ProbingEnds
<1> SUFFICES ASSUME RoomInv PROVE ProbingEnds
  OBVIOUS
<1> DEFINE G == GrownCapacity(capacity)
<1>1. capacity \in Nat /\ G \in Nat /\ G > 0
  BY GrownType DEF RoomInv, TypeOK
<1>2. ASSUME capacity > 0 PROVE AllFind(entries, capacity)
  BY <1>1, <1>2, RoomFinds DEF RoomInv, Room
<1>3. ASSUME pc = "rehash" PROVE AllFind(dest, G)
  <2>1. Cardinality(Used(dest, G)) <= count /\ count <= scan /\ scan <= capacity
    BY <1>3 DEF RoomInv, Filling, TypeOK
  <2>2. capacity < G /\ Cardinality(Used(dest, G)) \in Nat
    BY <1>1, UsedFinite, GrownType
  <2>3. count \in Nat /\ scan \in Nat
    BY DEF RoomInv, TypeOK
  <2>4. HasRoom(dest, G)
    BY <1>1, <2>1, <2>2, <2>3 DEF HasRoom
  <2> QED BY <1>1, <2>4, RoomFinds
<1> QED BY <1>2, <1>3 DEF ProbingEnds

(***************************************************************************)
(* find_entry and table_find_string leave their loops for every text, in   *)
(* the table and in the array a growth is filling, whatever was stored,    *)
(* deleted and swept out before.                                           *)
(***************************************************************************)
THEOREM ProbingAlwaysEnds == Spec => []ProbingEnds
BY RoomInitial, RoomInductive, RoomMeansProbingEnds, PTL DEF Spec

-----------------------------------------------------------------------------
(***************************************************************************)
(* Every entry is found.                                                   *)
(***************************************************************************)
Filled == pc = "rehash" => AllFound(dest, GrownCapacity(capacity))

FoundInv == TypeOK /\ AllFound(entries, capacity) /\ Filled

\* A probe whose first stop holds the text returns that slot, and no other.
LEMMA HeldIsFound ==
    ASSUME NEW t \in Texts, NEW cap \in Nat, NEW es, NEW n \in Slots(cap),
           StopsFirstAt(es, cap, t, n), Holds(es[Probe(t, cap, n)], t)
    PROVE  /\ FindsAt(es, cap, t, Probe(t, cap, n))
           /\ \A s : FindsAt(es, cap, t, s) => s = Probe(t, cap, n)
<1>1. ~IsEmpty(es[Probe(t, cap, n)])
  BY DEF Holds, IsLive, IsEmpty
<1>2. FindsAt(es, cap, t, Probe(t, cap, n))
  BY <1>1 DEF FindsAt, Slots
<1>3. ASSUME NEW s, FindsAt(es, cap, t, s) PROVE s = Probe(t, cap, n)
  <2>1. PICK m \in 0 .. cap-1 :
          /\ StopsFirstAt(es, cap, t, m)
          /\ IsEmpty(es[Probe(t, cap, m)]) \/ s = Probe(t, cap, m)
    BY <1>3 DEF FindsAt
  <2>2. m = n
    <3>1. ~(m < n) /\ ~(n < m)
      BY <2>1 DEF StopsFirstAt, Slots
    <3> QED BY <2>1, <3>1 DEF Slots
  <2> QED BY <1>1, <2>1, <2>2
<1> QED BY <1>2, <1>3

\* Where a store goes: no earlier probe stops.
LEMMA FoundAfterNoStop ==
    ASSUME NEW t \in Texts, NEW cap \in Nat, NEW es, NEW s, FindsAt(es, cap, t, s)
    PROVE  \E m \in Slots(cap) :
              /\ Probe(t, cap, m) = s
              /\ \A i \in 0 .. m-1 : ~StopsAt(es, cap, t, i)
              /\ Holds(es[s], t) => StopsFirstAt(es, cap, t, m)
<1>1. PICK n \in 0 .. cap-1 :
        /\ StopsFirstAt(es, cap, t, n)
        /\ LET Passed == {i \in 0 .. n-1 : IsTombstone(es[Probe(t, cap, i)])}
           IN  IF IsEmpty(es[Probe(t, cap, n)]) /\ Passed # {}
               THEN \E i \in Passed : /\ s = Probe(t, cap, i)
                                      /\ \A j \in Passed : i <= j
               ELSE s = Probe(t, cap, n)
  BY DEF FindsAt
<1>2. CASE s = Probe(t, cap, n)
  BY <1>1, <1>2 DEF StopsFirstAt, Slots
<1>3. CASE s # Probe(t, cap, n)
  <2>1. PICK m \in 0 .. n-1 : IsTombstone(es[Probe(t, cap, m)]) /\ s = Probe(t, cap, m)
    BY <1>1, <1>3
  <2>2. m \in Slots(cap) /\ \A i \in 0 .. m-1 : i \in 0 .. n-1
    BY DEF Slots
  <2>3. ~Holds(es[s], t)
    BY <2>1 DEF Holds, IsLive, IsTombstone
  <2> QED BY <1>1, <2>1, <2>2, <2>3 DEF StopsFirstAt
<1> QED BY <1>2, <1>3

LEMMA KeyText ==
    ASSUME NEW e \in Slot, IsLive(e)
    PROVE  e.key \in Keys /\ TextOf[e.key] \in Texts
BY TextOfAssumption DEF Slot, IsLive

\* A store at the slot found for its text cuts nothing off.
LEMMA FoundAfterStore ==
    ASSUME NEW cap \in Nat, NEW es \in [Slots(cap) -> Slot], AllFound(es, cap),
           NEW e \in Slot, IsLive(e),
           NEW s \in Slots(cap), FindsAt(es, cap, TextOf[e.key], s)
    PROVE  AllFound([es EXCEPT ![s] = e], cap)
<1> DEFINE fs == [es EXCEPT ![s] = e]
           t == TextOf[e.key]
<1>t. t \in Texts
  BY KeyText
<1>f. fs[s] = e /\ \A r \in Slots(cap) : r # s => fs[r] = es[r]
  OBVIOUS
<1>1. FindsAt(fs, cap, t, s)
  <2>1. PICK m \in Slots(cap) :
          Probe(t, cap, m) = s /\ \A i \in 0 .. m-1 : ~StopsAt(es, cap, t, i)
    BY <1>t, FoundAfterNoStop
  <2>2. ASSUME NEW i \in 0 .. m-1 PROVE ~StopsAt(fs, cap, t, i)
    <3>1. i \in Slots(cap) /\ i # m
      BY DEF Slots
    <3>2. Probe(t, cap, i) \in Slots(cap) /\ Probe(t, cap, i) # s
      BY <1>t, <2>1, <3>1, ProbeRange, ProbeInjective
    <3> QED BY <1>f, <2>1, <3>2 DEF StopsAt
  <2>3. Holds(fs[Probe(t, cap, m)], t)
    BY <1>f, <2>1 DEF Holds
  <2>4. StopsFirstAt(fs, cap, t, m)
    BY <2>2, <2>3 DEF StopsFirstAt, StopsAt
  <2> HIDE DEF fs, t
  <2> QED BY <1>t, <2>1, <2>3, <2>4, HeldIsFound
<1>2. ASSUME NEW r \in Slots(cap), r # s, IsLive(es[r])
      PROVE  FindsAt(fs, cap, TextOf[es[r].key], r)
  <2> DEFINE u == TextOf[es[r].key]
  <2>u. u \in Texts
    BY <1>2, KeyText
  <2>1. FindsAt(es, cap, u, r) /\ Holds(es[r], u)
    BY <1>2 DEF AllFound, Holds
  <2>2. PICK n \in Slots(cap) : Probe(u, cap, n) = r /\ StopsFirstAt(es, cap, u, n)
    BY <2>u, <2>1, FoundAfterNoStop
  <2>3. u # t
    <3> SUFFICES ASSUME u = t PROVE FALSE
      OBVIOUS
    <3>1. FindsAt(es, cap, u, s)
      OBVIOUS
    <3> HIDE DEF fs, t, u
    <3>2. s = Probe(u, cap, n)
      BY <2>u, <2>1, <2>2, <3>1, HeldIsFound
    <3> QED BY <1>2, <2>2, <3>2
  <2>4. ~Holds(fs[s], u) /\ ~IsEmpty(fs[s])
    BY <1>f, <2>3 DEF Holds, IsEmpty, IsLive
  <2>5. ASSUME NEW i \in 0 .. n-1 PROVE ~StopsAt(fs, cap, u, i)
    <3>1. i \in Slots(cap)
      BY DEF Slots
    <3>2. Probe(u, cap, i) \in Slots(cap)
      BY <2>u, <3>1, ProbeRange
    <3>3. ~StopsAt(es, cap, u, i)
      BY <2>2 DEF StopsFirstAt
    <3> HIDE DEF fs, u
    <3> QED BY <1>f, <2>4, <3>2, <3>3 DEF StopsAt
  <2>6. fs[r] = es[r]
    BY <1>2, <1>f
  <2> HIDE DEF fs, u
  <2>7. Holds(fs[Probe(u, cap, n)], u)
    BY <2>1, <2>2, <2>6
  <2>8. StopsFirstAt(fs, cap, u, n)
    BY <2>5, <2>7 DEF StopsFirstAt, StopsAt
  <2>9. FindsAt(fs, cap, u, r)
    BY <2>u, <2>2, <2>7, <2>8, HeldIsFound
  <2> QED BY <2>9 DEF u
<1> HIDE DEF fs
<1>3. ASSUME NEW r \in Slots(cap), IsLive(fs[r])
      PROVE  FindsAt(fs, cap, TextOf[fs[r].key], r)
  <2>1. CASE r = s
    BY <1>1, <1>f, <2>1
  <2>2. CASE r # s
    <3>1. fs[r] = es[r]
      BY <1>f, <2>2
    <3> QED BY <1>2, <1>3, <2>2, <3>1
  <2> QED BY <2>1, <2>2
<1> QED BY <1>3 DEF AllFound, fs

\* Deletions cut nothing off: a tombstone stops no probe.
LEMMA FoundAfterDelete ==
    ASSUME NEW cap \in Nat, NEW es \in [Slots(cap) -> Slot], AllFound(es, cap), NEW fs,
           \A s \in Slots(cap) : fs[s] = es[s] \/ (IsLive(es[s]) /\ fs[s] = Tombstone)
    PROVE  AllFound(fs, cap)
<1>d. ~IsLive(Tombstone) /\ ~IsEmpty(Tombstone)
  BY ValuesAssumption DEF IsLive, IsEmpty, Tombstone
<1> SUFFICES ASSUME NEW r \in Slots(cap), IsLive(fs[r])
             PROVE  FindsAt(fs, cap, TextOf[fs[r].key], r)
  BY DEF AllFound
<1>1. fs[r] = es[r]
  BY <1>d
<1> DEFINE u == TextOf[fs[r].key]
<1>u. u \in Texts
  BY <1>1, KeyText
<1>2. FindsAt(es, cap, u, r) /\ Holds(es[r], u)
  BY <1>1 DEF AllFound, Holds
<1> HIDE DEF u
<1>3. PICK n \in Slots(cap) : Probe(u, cap, n) = r /\ StopsFirstAt(es, cap, u, n)
  BY <1>u, <1>2, FoundAfterNoStop
<1>4. ASSUME NEW i \in 0 .. n-1 PROVE ~StopsAt(fs, cap, u, i)
  <2>1. i \in Slots(cap)
    BY DEF Slots
  <2>2. Probe(u, cap, i) \in Slots(cap)
    BY <1>u, <2>1, ProbeRange
  <2>3. ~StopsAt(es, cap, u, i)
    BY <1>3 DEF StopsFirstAt
  <2> QED BY <1>d, <2>2, <2>3 DEF StopsAt, Holds
<1>5. Holds(fs[Probe(u, cap, n)], u)
  BY <1>1, <1>2, <1>3
<1>6. StopsFirstAt(fs, cap, u, n)
  BY <1>4, <1>5 DEF StopsFirstAt, StopsAt
<1>7. FindsAt(fs, cap, u, r)
  BY <1>u, <1>3, <1>5, <1>6, HeldIsFound
<1> QED BY <1>7 DEF u

LEMMA StoreFound ==
    ASSUME NEW cap \in Nat, NEW es \in [Slots(cap) -> Slot], AllFound(es, cap),
           NEW n, NEW k \in Keys, NEW v \in Values, Store(es, cap, n, k, v)
    PROVE  AllFound(entries', cap) /\ capacity' = cap
<1> DEFINE e == [key |-> k, value |-> v]
<1>1. e \in Slot /\ IsLive(e) /\ e.key = k
  BY KeysAssumption DEF Slot, IsLive
<1>2. PICK s \in Slots(cap) : FindsAt(es, cap, TextOf[k], s) /\ entries' = [es EXCEPT ![s] = e]
  BY DEF Store
<1>3. capacity' = cap
  BY DEF Store
<1> HIDE DEF e
<1> QED BY <1>1, <1>2, <1>3, FoundAfterStore

LEMMA FoundInitial == Init => FoundInv
<1> SUFFICES ASSUME Init PROVE AllFound(entries, capacity) /\ Filled
  BY TypeInitial DEF FoundInv
<1>1. capacity = 0 /\ pc = "idle"
  BY DEF Init
<1> QED BY <1>1 DEF AllFound, Filled, Slots

LEMMA FoundInductive == FoundInv /\ [Next]_vars => FoundInv'
<1> SUFFICES ASSUME FoundInv, [Next]_vars PROVE AllFound(entries, capacity)' /\ Filled'
  BY TypeInductive DEF FoundInv
<1> DEFINE G == GrownCapacity(capacity)
<1>t. TypeOK /\ AllFound(entries, capacity) /\ Filled
  BY DEF FoundInv
<1>g. capacity \in Nat /\ G \in Nat /\ entries \in [Slots(capacity) -> Slot]
  BY <1>t, GrownType DEF TypeOK
<1> USE DEF Filled
<1>1. ASSUME NEW k \in Keys, NEW v \in Values, SetInPlace(k, v)
      PROVE  AllFound(entries, capacity)' /\ Filled'
  <2>1. pc = "idle" /\ pc' = "idle" /\ Store(entries, capacity, count, k, v)
    BY <1>1 DEF SetInPlace, growing
  <2>2. AllFound(entries', capacity) /\ capacity' = capacity
    BY <1>t, <1>g, <2>1, StoreFound
  <2> QED BY <2>1, <2>2
<1>2. ASSUME NEW k \in Keys, NEW v \in Values, SetGrows(k, v)
      PROVE  AllFound(entries, capacity)' /\ Filled'
  BY <1>t, <1>2 DEF SetGrows
<1>3. ASSUME FreshArray PROVE AllFound(entries, capacity)' /\ Filled'
  <2>1. dest' = [s \in Slots(G) |-> Empty] /\ UNCHANGED <<entries, capacity>>
    BY <1>3 DEF FreshArray
  <2>2. AllFound(dest', G)
    BY <2>1 DEF AllFound, IsLive, Empty
  <2> QED BY <1>t, <2>1, <2>2
<1>4. ASSUME RehashSlot PROVE AllFound(entries, capacity)' /\ Filled'
  <2>1. /\ pc = "rehash" /\ UNCHANGED <<entries, capacity>>
        /\ scan < capacity /\ AllFound(dest, G)
    BY <1>t, <1>4 DEF RehashSlot
  <2>2. dest \in [Slots(G) -> Slot] /\ entries[scan] \in Slot
    BY <1>t, <1>g, <2>1 DEF TypeOK, Slots
  <2>3. CASE IsLive(entries[scan])
    <3>1. PICK s \in Slots(G) : /\ FindsAt(dest, G, TextOf[entries[scan].key], s)
                                /\ dest' = [dest EXCEPT ![s] = entries[scan]]
      BY <1>4, <2>3 DEF RehashSlot
    <3>2. AllFound(dest', G)
      BY <1>g, <2>1, <2>2, <2>3, <3>1, FoundAfterStore
    <3> QED BY <1>t, <2>1, <3>2
  <2>4. CASE ~IsLive(entries[scan])
    <3>1. UNCHANGED dest
      BY <1>4, <2>4 DEF RehashSlot
    <3> QED BY <1>t, <2>1, <3>1
  <2> QED BY <2>3, <2>4
<1>5. ASSUME FinishSet PROVE AllFound(entries, capacity)' /\ Filled'
  <2>1. /\ pc = "rehash" /\ pc' = "idle" /\ AllFound(dest, G)
        /\ Store(dest, G, count, pending[1], pending[2])
    BY <1>t, <1>5 DEF FinishSet
  <2>2. /\ dest \in [Slots(G) -> Slot]
        /\ pending[1] \in Keys /\ pending[2] \in Values
    BY <1>t, <2>1 DEF TypeOK
  <2>3. AllFound(entries', G) /\ capacity' = G
    BY <1>g, <2>1, <2>2, StoreFound
  <2> QED BY <2>1, <2>3
<1>6. ASSUME NEW t \in Texts, Delete(t) PROVE AllFound(entries, capacity)' /\ Filled'
  <2>1. \A s \in Slots(capacity) :
           entries'[s] = entries[s] \/ (IsLive(entries[s]) /\ entries'[s] = Tombstone)
    BY <1>g, <1>6 DEF Delete
  <2>2. AllFound(entries', capacity)
    BY <1>t, <1>g, <2>1, FoundAfterDelete
  <2> QED BY <1>t, <1>6, <2>2 DEF Delete, growing
<1>7. ASSUME NEW t \in Texts, Get(t) PROVE AllFound(entries, capacity)' /\ Filled'
  BY <1>t, <1>7 DEF Get, growing
<1>8. ASSUME NEW t \in Texts, FindString(t)
      PROVE  AllFound(entries, capacity)' /\ Filled'
  BY <1>t, <1>8 DEF FindString, growing
<1>9. ASSUME NEW white \in SUBSET Keys, RemoveWhite(white)
      PROVE  AllFound(entries, capacity)' /\ Filled'
  <2>1. \A s \in Slots(capacity) :
           entries'[s] = entries[s] \/ (IsLive(entries[s]) /\ entries'[s] = Tombstone)
    BY <1>9 DEF RemoveWhite
  <2>2. AllFound(entries', capacity)
    BY <1>t, <1>g, <2>1, FoundAfterDelete
  <2>3. capacity' = capacity /\ pc' = pc /\ pc # "rehash"
    BY <1>9 DEF RemoveWhite, growing
  <2> QED BY <2>2, <2>3
<1>10. CASE UNCHANGED vars
  BY <1>t, <1>10 DEF vars
<1> QED BY <1>1, <1>2, <1>3, <1>4, <1>5, <1>6, <1>7, <1>8, <1>9, <1>10 DEF Next

(***************************************************************************)
(* find_entry returns every live entry for its own text: deleting, reusing *)
(* tombstones, rehashing and the collector's removals cut none off and     *)
(* store no text twice.                                                    *)
(***************************************************************************)
THEOREM EveryEntryIsAlwaysFound == Spec => []EveryEntryIsFound
<1>1. FoundInv => EveryEntryIsFound
  BY DEF FoundInv, Filled, EveryEntryIsFound
<1> QED BY <1>1, FoundInitial, FoundInductive, PTL DEF Spec

-----------------------------------------------------------------------------
(***************************************************************************)
(* The string table implements the dictionary, for every set of keys, hash *)
(* function and capacity bound.                                            *)
(*                                                                         *)
(* A text is held by at most one slot (EveryEntryIsFound), so the cell of  *)
(* a text is the slot that holds it; and while a growth moves the entries, *)
(* the array being filled holds exactly the entries passed so far (Moved), *)
(* so that the swap at the end changes nothing but the key being set.      *)
(***************************************************************************)

(***************************************************************************)
(* The map an array stands for.                                            *)
(***************************************************************************)
HeldIn(es, cap, t) == \E s \in Slots(cap) : Holds(es[s], t)

CellsOf(es, cap) ==
    [t \in Texts |-> IF \E s \in Slots(cap) : Holds(es[s], t)
                     THEN es[CHOOSE s \in Slots(cap) : Holds(es[s], t)]
                     ELSE NULL]

LEMMA ContentsAreCells == Contents = CellsOf(entries, capacity)
BY DEF Contents, CellsOf

\* No text is held twice.
LEMMA HeldOnce ==
    ASSUME NEW cap \in Nat, NEW es, AllFound(es, cap), NEW t \in Texts,
           NEW a \in Slots(cap), Holds(es[a], t),
           NEW s, FindsAt(es, cap, t, s)
    PROVE  s = a
<1>1. FindsAt(es, cap, t, a)
  BY DEF AllFound, Holds
<1>2. PICK m \in Slots(cap) : Probe(t, cap, m) = a /\ StopsFirstAt(es, cap, t, m)
  BY <1>1, FoundAfterNoStop
<1> QED BY <1>2, HeldIsFound

LEMMA CellOfHeld ==
    ASSUME NEW cap \in Nat, NEW es, AllFound(es, cap), NEW t \in Texts,
           NEW a \in Slots(cap), Holds(es[a], t)
    PROVE  CellsOf(es, cap)[t] = es[a]
<1> DEFINE c == CHOOSE s \in Slots(cap) : Holds(es[s], t)
<1>1. c \in Slots(cap) /\ Holds(es[c], t)
  OBVIOUS
<1>2. FindsAt(es, cap, t, c)
  BY <1>1 DEF AllFound, Holds
<1>3. c = a
  BY <1>2, HeldOnce
<1>4. CellsOf(es, cap)[t] = es[c]
  BY DEF CellsOf
<1> QED BY <1>3, <1>4

LEMMA CellOfAbsent ==
    ASSUME NEW cap, NEW es, NEW t \in Texts,
           \A s \in Slots(cap) : ~Holds(es[s], t)
    PROVE  CellsOf(es, cap)[t] = NULL
BY DEF CellsOf

\* find_entry returns a live slot only if it holds the text.
LEMMA LiveFindHolds ==
    ASSUME NEW cap, NEW es, NEW t, NEW s, FindsAt(es, cap, t, s), IsLive(es[s])
    PROVE  Holds(es[s], t)
BY DEF FindsAt, StopsFirstAt, StopsAt, IsEmpty, IsTombstone, IsLive, Holds

\* What find_entry finds is the cell of the text.
LEMMA FindIsCell ==
    ASSUME NEW cap \in Nat, NEW es, AllFound(es, cap), NEW t \in Texts,
           NEW s \in Slots(cap), FindsAt(es, cap, t, s)
    PROVE  CellsOf(es, cap)[t] = IF IsLive(es[s]) THEN es[s] ELSE NULL
<1>1. CASE IsLive(es[s])
  BY <1>1, LiveFindHolds, CellOfHeld
<1>2. CASE ~IsLive(es[s])
  <2>1. ASSUME NEW a \in Slots(cap), Holds(es[a], t) PROVE FALSE
    <3>1. s = a
      BY <2>1, HeldOnce
    <3> QED BY <1>2, <2>1, <3>1 DEF Holds
  <2> QED BY <1>2, <2>1, CellOfAbsent
<1> QED BY <1>1, <1>2

\* A cell is a slot of the array, or NULL, which is none.
LEMMA CellIsLive ==
    ASSUME NEW cap \in Nat, NEW es \in [Slots(cap) -> Slot], AllFound(es, cap),
           NEW t \in Texts
    PROVE  CellsOf(es, cap)[t] # NULL <=> \E s \in Slots(cap) : Holds(es[s], t)
<1>1. ASSUME NEW s \in Slots(cap), Holds(es[s], t) PROVE CellsOf(es, cap)[t] # NULL
  <2>1. CellsOf(es, cap)[t] = es[s] /\ es[s] \in Slot
    BY <1>1, CellOfHeld
  <2> QED BY <2>1, SlotAssumption DEF Slot
<1> QED BY <1>1, CellOfAbsent

-----------------------------------------------------------------------------
(***************************************************************************)
(* Two arrays with the same live entries stand for the same map.           *)
(***************************************************************************)
LEMMA SameCells ==
    ASSUME NEW cap \in Nat, NEW es, AllFound(es, cap),
           NEW dap \in Nat, NEW ds, AllFound(ds, dap),
           \A s \in Slots(cap) : IsLive(es[s]) => \E r \in Slots(dap) : ds[r] = es[s],
           \A r \in Slots(dap) : IsLive(ds[r]) => \E s \in Slots(cap) : es[s] = ds[r]
    PROVE  CellsOf(es, cap) = CellsOf(ds, dap)
<1>1. ASSUME NEW t \in Texts PROVE CellsOf(es, cap)[t] = CellsOf(ds, dap)[t]
  <2>1. CASE \E s \in Slots(cap) : Holds(es[s], t)
    <3>1. PICK s \in Slots(cap) : Holds(es[s], t)
      BY <2>1
    <3>2. PICK r \in Slots(dap) : ds[r] = es[s]
      BY <3>1 DEF Holds
    <3>3. CellsOf(es, cap)[t] = es[s]
      BY <3>1, CellOfHeld
    <3>4. CellsOf(ds, dap)[t] = ds[r]
      BY <3>1, <3>2, CellOfHeld
    <3> QED BY <3>2, <3>3, <3>4
  <2>2. CASE \A s \in Slots(cap) : ~Holds(es[s], t)
    <3>1. ASSUME NEW r \in Slots(dap), Holds(ds[r], t) PROVE FALSE
      <4>1. PICK s \in Slots(cap) : es[s] = ds[r]
        BY <3>1 DEF Holds
      <4> QED BY <2>2, <3>1, <4>1
    <3>2. CellsOf(es, cap)[t] = NULL
      BY <2>2, CellOfAbsent
    <3>3. CellsOf(ds, dap)[t] = NULL
      BY <3>1, CellOfAbsent
    <3> QED BY <3>2, <3>3
  <2> QED BY <2>1, <2>2
<1> QED BY <1>1 DEF CellsOf

\* Storing a live slot where find_entry finds its text changes the cell of
\* that text and no other.
LEMMA CellsAfterStore ==
    ASSUME NEW cap \in Nat, NEW es \in [Slots(cap) -> Slot], AllFound(es, cap),
           NEW e \in Slot, IsLive(e),
           NEW s \in Slots(cap), FindsAt(es, cap, TextOf[e.key], s)
    PROVE  CellsOf([es EXCEPT ![s] = e], cap)
             = [CellsOf(es, cap) EXCEPT ![TextOf[e.key]] = e]
<1> DEFINE fs == [es EXCEPT ![s] = e]
           t == TextOf[e.key]
<1>t. t \in Texts
  BY KeyText
<1>f. fs[s] = e /\ \A r \in Slots(cap) : r # s => fs[r] = es[r]
  OBVIOUS
<1>a. AllFound(fs, cap)
  BY FoundAfterStore
<1>h. Holds(e, t)
  BY DEF Holds
<1>o. \A u : Holds(e, u) => u = t
  BY DEF Holds
<1>s. IsLive(es[s]) => Holds(es[s], t)
  BY LiveFindHolds
<1>p. FindsAt(es, cap, t, s)
  OBVIOUS
<1> HIDE DEF fs, t
<1>1. CellsOf(fs, cap)[t] = e
  BY <1>t, <1>f, <1>a, <1>h, CellOfHeld
<1>2. ASSUME NEW u \in Texts, u # t PROVE CellsOf(fs, cap)[u] = CellsOf(es, cap)[u]
  <2>s. ~Holds(fs[s], u) /\ ~Holds(es[s], u)
    BY <1>f, <1>o, <1>s, <1>2 DEF Holds
  <2>1. CASE \E r \in Slots(cap) : Holds(es[r], u)
    <3>1. PICK r \in Slots(cap) : Holds(es[r], u)
      BY <2>1
    <3>2. fs[r] = es[r]
      BY <1>f, <2>s, <3>1
    <3>3. CellsOf(es, cap)[u] = es[r]
      BY <3>1, CellOfHeld
    <3>4. CellsOf(fs, cap)[u] = fs[r]
      BY <1>a, <3>1, <3>2, CellOfHeld
    <3> QED BY <3>2, <3>3, <3>4
  <2>2. CASE \A r \in Slots(cap) : ~Holds(es[r], u)
    <3>1. \A r \in Slots(cap) : ~Holds(fs[r], u)
      BY <1>f, <2>s, <2>2
    <3> QED BY <2>2, <3>1, CellOfAbsent
  <2> QED BY <2>1, <2>2
<1>3. CellsOf(fs, cap) = [CellsOf(es, cap) EXCEPT ![t] = e]
  BY <1>1, <1>2, <1>t DEF CellsOf
<1> QED BY <1>3 DEF fs, t

\* Turning slots into tombstones withdraws the cells they held.
LEMMA CellsAfterDelete ==
    ASSUME NEW cap \in Nat, NEW es \in [Slots(cap) -> Slot], AllFound(es, cap),
           NEW fs, NEW gone \in SUBSET Slots(cap),
           \A s \in Slots(cap) : fs[s] = IF s \in gone THEN Tombstone ELSE es[s],
           \A s \in gone : IsLive(es[s])
    PROVE  \A t \in Texts :
             CellsOf(fs, cap)[t] =
               IF \E s \in gone : Holds(es[s], t) THEN NULL ELSE CellsOf(es, cap)[t]
<1>a. AllFound(fs, cap)
  BY FoundAfterDelete
<1>d. \A t : ~Holds(Tombstone, t)
  BY DEF Holds, IsLive, Tombstone
<1> TAKE t \in Texts
<1>1. CASE \E s \in gone : Holds(es[s], t)
  <2>1. PICK s \in gone : Holds(es[s], t)
    BY <1>1
  <2>2. ASSUME NEW r \in Slots(cap), Holds(fs[r], t) PROVE FALSE
    <3>1. r \notin gone /\ fs[r] = es[r]
      BY <1>d, <2>2
    <3>2. FindsAt(es, cap, t, s)
      BY <2>1 DEF AllFound, Holds
    <3>3. s = r
      BY <2>2, <3>1, <3>2, HeldOnce
    <3> QED BY <3>1, <3>3
  <2>3. CellsOf(fs, cap)[t] = NULL
    BY <2>2, CellOfAbsent
  <2> QED BY <1>1, <2>3
<1>2. CASE ~\E s \in gone : Holds(es[s], t)
  <2>1. CASE \E r \in Slots(cap) : Holds(es[r], t)
    <3>1. PICK r \in Slots(cap) : Holds(es[r], t)
      BY <2>1
    <3>2. fs[r] = es[r]
      BY <1>2, <3>1
    <3>3. CellsOf(es, cap)[t] = es[r] /\ CellsOf(fs, cap)[t] = fs[r]
      BY <1>a, <3>1, <3>2, CellOfHeld
    <3> QED BY <1>2, <3>2, <3>3
  <2>2. CASE \A r \in Slots(cap) : ~Holds(es[r], t)
    <3>1. \A r \in Slots(cap) : ~Holds(fs[r], t)
      BY <1>d, <2>2
    <3>2. CellsOf(es, cap)[t] = NULL /\ CellsOf(fs, cap)[t] = NULL
      BY <2>2, <3>1, CellOfAbsent
    <3> QED BY <1>2, <3>2
  <2> QED BY <2>1, <2>2
<1> QED BY <1>1, <1>2

-----------------------------------------------------------------------------
(***************************************************************************)
(* The rehash loop has moved exactly the live entries it has passed.       *)
(***************************************************************************)
Moved == pc = "rehash" =>
    LET G == GrownCapacity(capacity) IN
    /\ \A s \in 0 .. scan-1 : IsLive(entries[s])
         => \E r \in Slots(G) : dest[r] = entries[s]
    /\ \A r \in Slots(G) : IsLive(dest[r]) => \E s \in 0 .. scan-1 : entries[s] = dest[r]

MapInv == RoomInv /\ FoundInv /\ Moved

LEMMA MovedInitial == Init => MapInv
BY RoomInitial, FoundInitial DEF MapInv, Moved, Init

\* An entry the loop has not passed is in no slot of the new array.
LEMMA NextToMove ==
    ASSUME MapInv, pc = "rehash", scan < capacity, IsLive(entries[scan]),
           NEW s \in Slots(GrownCapacity(capacity)),
           FindsAt(dest, GrownCapacity(capacity), TextOf[entries[scan].key], s)
    PROVE  ~IsLive(dest[s])
<1> DEFINE G == GrownCapacity(capacity)
           t == TextOf[entries[scan].key]
<1>1. /\ capacity \in Nat /\ scan \in Slots(capacity) /\ entries[scan] \in Slot
      /\ AllFound(entries, capacity)
  BY DEF MapInv, FoundInv, TypeOK, Slots
<1>t. t \in Texts /\ Holds(entries[scan], t)
  BY <1>1, KeyText DEF Holds
<1> SUFFICES ASSUME IsLive(dest[s]) PROVE FALSE
  OBVIOUS
<1>2. Holds(dest[s], t)
  BY LiveFindHolds
<1>3. PICK q \in 0 .. scan-1 : entries[q] = dest[s]
  BY DEF MapInv, Moved
<1>4. q \in Slots(capacity) /\ Holds(entries[q], t)
  BY <1>1, <1>2, <1>3 DEF Slots
<1>5. FindsAt(entries, capacity, t, scan)
  BY <1>1, <1>t DEF AllFound, Holds
<1>6. scan = q
  BY <1>1, <1>t, <1>4, <1>5, HeldOnce
<1> QED BY <1>1, <1>3, <1>6 DEF Slots

LEMMA MovedInductive == MapInv /\ [Next]_vars => MapInv'
<1> SUFFICES ASSUME MapInv, [Next]_vars PROVE Moved'
  BY RoomInductive, FoundInductive DEF MapInv
<1> DEFINE G == GrownCapacity(capacity)
<1>t. TypeOK /\ Moved
  BY DEF MapInv, FoundInv
<1>1. ASSUME FreshArray PROVE Moved'
  <2>1. /\ dest' = [s \in Slots(G) |-> Empty] /\ scan' = 0
        /\ UNCHANGED <<entries, capacity>>
    BY <1>1 DEF FreshArray
  <2>2. \A r \in Slots(G) : ~IsLive(dest'[r])
    BY <2>1 DEF IsLive, Empty
  <2> QED BY <2>1, <2>2 DEF Moved
<1>2. ASSUME RehashSlot PROVE Moved'
  <2>1. /\ pc = "rehash" /\ scan < capacity /\ scan' = scan + 1
        /\ UNCHANGED <<entries, capacity>>
    BY <1>2 DEF RehashSlot
  <2>2. /\ scan \in Nat /\ dest \in [Slots(G) -> Slot]
        /\ 0 .. scan'-1 = (0 .. scan-1) \cup {scan}
    BY <1>t, <2>1 DEF TypeOK
  <2>m. /\ \A s \in 0 .. scan-1 : IsLive(entries[s])
             => \E r \in Slots(G) : dest[r] = entries[s]
        /\ \A r \in Slots(G) : IsLive(dest[r])
             => \E s \in 0 .. scan-1 : entries[s] = dest[r]
    BY <1>t, <2>1 DEF Moved
  <2>3. CASE IsLive(entries[scan])
    <3>1. PICK s \in Slots(G) : /\ FindsAt(dest, G, TextOf[entries[scan].key], s)
                                /\ dest' = [dest EXCEPT ![s] = entries[scan]]
      BY <1>2, <2>3 DEF RehashSlot
    <3>2. ~IsLive(dest[s])
      BY <2>1, <2>3, <3>1, NextToMove
    <3>f. dest'[s] = entries[scan] /\ \A r \in Slots(G) : r # s => dest'[r] = dest[r]
      BY <2>2, <3>1
    <3> HIDE DEF G
    <3>3. ASSUME NEW q \in 0 .. scan'-1, IsLive(entries[q])
          PROVE  \E r \in Slots(G) : dest'[r] = entries[q]
      <4>1. CASE q = scan
        BY <3>1, <3>f, <4>1
      <4>2. CASE q \in 0 .. scan-1
        <5>1. PICK r \in Slots(G) : dest[r] = entries[q]
          BY <2>m, <3>3, <4>2
        <5>2. r # s
          BY <3>2, <3>3, <5>1
        <5> QED BY <3>f, <5>1, <5>2
      <4> QED BY <2>2, <3>3, <4>1, <4>2
    <3>4. ASSUME NEW r \in Slots(G), IsLive(dest'[r])
          PROVE  \E q \in 0 .. scan'-1 : entries[q] = dest'[r]
      <4>1. CASE r = s
        BY <2>2, <3>f, <4>1
      <4>2. CASE r # s
        BY <2>2, <2>m, <3>f, <3>4, <4>2
      <4> QED BY <4>1, <4>2
    <3> QED BY <2>1, <3>3, <3>4 DEF Moved, G
  <2>4. CASE ~IsLive(entries[scan])
    <3>1. UNCHANGED dest
      BY <1>2, <2>4 DEF RehashSlot
    <3> QED BY <2>1, <2>2, <2>4, <2>m, <3>1 DEF Moved
  <2> QED BY <2>3, <2>4
<1>3. CASE UNCHANGED vars
  BY <1>t, <1>3 DEF vars, Moved
<1>4. CASE Next /\ ~FreshArray /\ ~RehashSlot
  <2>1. pc' # "rehash"
    BY <1>4 DEF Next, SetInPlace, SetGrows, FinishSet, Delete, Get, FindString,
                RemoveWhite, growing
  <2> QED BY <2>1 DEF Moved
<1> QED BY <1>1, <1>2, <1>3, <1>4

-----------------------------------------------------------------------------
(***************************************************************************)
(* Every step of the table is a step of the map, or none.                  *)
(***************************************************************************)
\* The store at the end of table_set is a Put.
LEMMA StoreIsPut ==
    ASSUME NEW cap \in Nat, NEW es \in [Slots(cap) -> Slot], AllFound(es, cap),
           CellsOf(es, cap) = Contents,
           NEW n, NEW k \in Keys, NEW v \in Values, Store(es, cap, n, k, v)
    PROVE  Map!Put(k, v)
<1> DEFINE e == [key |-> k, value |-> v]
<1>1. e \in Slot /\ IsLive(e) /\ e.key = k /\ TextOf[k] \in Texts
  BY KeysAssumption, TextOfAssumption DEF Slot, IsLive
<1>2. PICK s \in Slots(cap) : /\ FindsAt(es, cap, TextOf[k], s)
                              /\ entries' = [es EXCEPT ![s] = e]
                              /\ ok' = ~IsLive(es[s])
  BY DEF Store
<1>3. capacity' = cap /\ out' = NULL
  BY DEF Store
<1>4. Contents' = CellsOf(entries', cap)
  BY <1>3 DEF Contents, CellsOf
<1>5. CellsOf(entries', cap) = [CellsOf(es, cap) EXCEPT ![TextOf[k]] = e]
  <2> HIDE DEF e
  <2>1. FindsAt(es, cap, TextOf[e.key], s)
    BY <1>1, <1>2
  <2>2. CellsOf([es EXCEPT ![s] = e], cap) = [CellsOf(es, cap) EXCEPT ![TextOf[e.key]] = e]
    BY <1>1, <2>1, CellsAfterStore, ZenonT(60)
  <2> QED BY <1>1, <1>2, <2>2
<1>6. Contents[TextOf[k]] = IF IsLive(es[s]) THEN es[s] ELSE NULL
  BY <1>1, <1>2, FindIsCell
<1>7. es[s] # NULL
  BY SlotAssumption DEF Slot
<1> QED BY <1>2, <1>3, <1>4, <1>5, <1>6, <1>7 DEF Map!Put, Map!Has

LEMMA NoneWhenUncounted ==
    ASSUME MapInv, pc = "idle", count = 0, NEW t \in Texts
    PROVE  Contents[t] = NULL
<1>1. capacity \in Nat /\ Cardinality(Used(entries, capacity)) <= 0
  BY DEF MapInv, RoomInv, Counted, TypeOK
<1>2. Used(entries, capacity) = {}
  BY <1>1, UsedFinite, FS_EmptySet
<1>3. \A s \in Slots(capacity) : ~Holds(entries[s], t)
  BY <1>2 DEF Used, IsEmpty, Holds, IsLive
<1> QED BY <1>3, CellOfAbsent, ContentsAreCells

LEMMA StepIsMapStep == MapInv /\ [Next]_vars => [Map!Next]_(Map!vars)
<1> SUFFICES ASSUME MapInv, [Next]_vars PROVE Map!Next \/ UNCHANGED Map!vars
  OBVIOUS
<1> DEFINE G == GrownCapacity(capacity)
<1>t. /\ TypeOK /\ capacity \in Nat /\ entries \in [Slots(capacity) -> Slot]
      /\ AllFound(entries, capacity) /\ G \in Nat
  BY GrownType DEF MapInv, FoundInv, TypeOK
<1>c. Contents = CellsOf(entries, capacity)
  BY ContentsAreCells
<1>k. ASSUME NEW t \in Texts, NEW s \in Slots(capacity), FindsAt(entries, capacity, t, s)
      PROVE  /\ Contents[t] = IF IsLive(entries[s]) THEN entries[s] ELSE NULL
             /\ entries[s] # NULL
  BY <1>t, <1>c, <1>k, FindIsCell, SlotAssumption DEF Slot
<1>1. ASSUME NEW k \in Keys, NEW v \in Values, SetInPlace(k, v) PROVE Map!Next
  <2>1. Store(entries, capacity, count, k, v)
    BY <1>1 DEF SetInPlace
  <2>2. Map!Put(k, v)
    BY <1>t, <1>c, <2>1, StoreIsPut
  <2> QED BY <2>2 DEF Map!Next
<1>2. ASSUME FinishSet PROVE Map!Next
  <2>1. /\ pc = "rehash" /\ scan = capacity
        /\ Store(dest, G, count, pending[1], pending[2])
    BY <1>2 DEF FinishSet
  <2>2. /\ dest \in [Slots(G) -> Slot] /\ AllFound(dest, G)
        /\ pending[1] \in Keys /\ pending[2] \in Values
    BY <1>t, <2>1 DEF TypeOK, MapInv, FoundInv, Filled
  <2>3. CellsOf(entries, capacity) = CellsOf(dest, G)
    <3>1. Slots(capacity) = 0 .. scan-1
      BY <2>1 DEF Slots
    <3>2. /\ \A s \in Slots(capacity) :
                IsLive(entries[s]) => \E r \in Slots(G) : dest[r] = entries[s]
          /\ \A r \in Slots(G) :
                IsLive(dest[r]) => \E s \in Slots(capacity) : entries[s] = dest[r]
      BY <2>1, <3>1 DEF MapInv, Moved
    <3> QED BY <1>t, <2>2, <3>2, SameCells
  <2>4. Map!Put(pending[1], pending[2])
    BY <1>t, <1>c, <2>1, <2>2, <2>3, StoreIsPut
  <2> QED BY <2>2, <2>4 DEF Map!Next
<1>3. ASSUME NEW t \in Texts, Delete(t) PROVE Map!Next
  <2>0. out' = NULL /\ pc = "idle" /\ capacity' = capacity
    BY <1>3 DEF Delete
  <2>1. CASE count = 0
    <3>1. ok' = FALSE /\ UNCHANGED entries /\ Contents[t] = NULL
      BY <1>3, <2>0, <2>1, NoneWhenUncounted DEF Delete
    <3>2. Contents' = Contents
      BY <2>0, <3>1 DEF Contents
    <3>3. Contents = [Contents EXCEPT ![t] = NULL]
      BY <3>1 DEF Contents
    <3>4. Map!Remove(t)
      BY <2>0, <3>1, <3>2, <3>3 DEF Map!Remove, Map!Has
    <3> QED BY <3>4 DEF Map!Next
  <2>2. CASE count # 0
    <3>1. PICK s \in Slots(capacity) :
            /\ FindsAt(entries, capacity, t, s)
            /\ ok' = IsLive(entries[s])
            /\ entries' = IF IsLive(entries[s]) THEN [entries EXCEPT ![s] = Tombstone]
                                                ELSE entries
      BY <1>3, <2>2 DEF Delete
    <3> DEFINE gone == IF IsLive(entries[s]) THEN {s} ELSE {}
    <3>2. /\ gone \in SUBSET Slots(capacity)
          /\ \A r \in Slots(capacity) :
                entries'[r] = IF r \in gone THEN Tombstone ELSE entries[r]
          /\ \A r \in gone : IsLive(entries[r])
      BY <1>t, <3>1
    <3>3. Contents' = CellsOf(entries', capacity)
      BY <2>0 DEF Contents, CellsOf
    <3>h. \A u \in Texts : (\E r \in gone : Holds(entries[r], u))
                              <=> (u = t /\ IsLive(entries[s]))
      BY <3>1, LiveFindHolds DEF Holds
    <3>k. Contents[t] = IF IsLive(entries[s]) THEN entries[s] ELSE NULL
      BY <1>k, <3>1
    <3>n. entries[s] # NULL
      BY <1>k, <3>1
    <3> HIDE DEF gone
    <3>4. \A u \in Texts : CellsOf(entries', capacity)[u] =
             IF \E r \in gone : Holds(entries[r], u) THEN NULL
                                                     ELSE CellsOf(entries, capacity)[u]
      BY <1>t, <3>2, CellsAfterDelete
    <3>5. \A u \in Texts : Contents'[u] = IF u = t THEN NULL ELSE Contents[u]
      BY <1>c, <3>3, <3>4, <3>h, <3>k
    <3>6. Contents' = [Contents EXCEPT ![t] = NULL]
      BY <3>5 DEF Contents
    <3>7. Map!Remove(t)
      BY <2>0, <3>1, <3>6, <3>k, <3>n DEF Map!Remove, Map!Has, IsLive
    <3> QED BY <3>7 DEF Map!Next
  <2> QED BY <2>1, <2>2
<1>4. ASSUME NEW t \in Texts, Get(t) PROVE Map!Next
  <2>0. pc = "idle" /\ UNCHANGED <<entries, capacity>>
    BY <1>4 DEF Get
  <2>1. Contents' = Contents
    BY <2>0 DEF Contents
  <2>2. CASE count = 0
    <3>1. ok' = FALSE /\ out' = NULL /\ Contents[t] = NULL
      BY <1>4, <2>0, <2>2, NoneWhenUncounted DEF Get
    <3> QED BY <2>1, <3>1 DEF Map!Get, Map!Has, Map!Next
  <2>3. CASE count # 0
    <3>1. PICK s \in Slots(capacity) :
            /\ FindsAt(entries, capacity, t, s)
            /\ ok' = IsLive(entries[s])
            /\ out' = IF IsLive(entries[s]) THEN entries[s].value ELSE NULL
      BY <1>4, <2>3 DEF Get
    <3>k. Contents[t] = IF IsLive(entries[s]) THEN entries[s] ELSE NULL
      BY <1>k, <3>1
    <3>n. entries[s] # NULL
      BY <1>k, <3>1
    <3>2. Map!Get(t)
      BY <2>1, <3>1, <3>k, <3>n DEF Map!Get, Map!Has, IsLive
    <3> QED BY <3>2 DEF Map!Next
  <2> QED BY <2>2, <2>3
<1>5. ASSUME NEW t \in Texts, FindString(t) PROVE Map!Next
  <2>0. pc = "idle" /\ UNCHANGED <<entries, capacity>>
    BY <1>5 DEF FindString
  <2>1. Contents' = Contents
    BY <2>0 DEF Contents
  <2>2. CASE count = 0
    <3>1. ok' = FALSE /\ out' = NULL /\ Contents[t] = NULL
      BY <1>5, <2>0, <2>2, NoneWhenUncounted DEF FindString
    <3> QED BY <2>1, <3>1 DEF Map!FindKey, Map!Has, Map!Next
  <2>3. CASE count # 0
    <3>1. PICK n \in Slots(capacity) :
            /\ StopsFirstAt(entries, capacity, t, n)
            /\ out' = entries[Probe(t, capacity, n)].key
            /\ ok' = (out' # NULL)
      BY <1>5, <2>3 DEF FindString
    <3> DEFINE e == entries[Probe(t, capacity, n)]
    <3>p. Probe(t, capacity, n) \in Slots(capacity)
      BY <1>t, ProbeRange
    <3>n. e # NULL
      BY <1>t, <3>p, SlotAssumption DEF Slot
    <3>2. CASE Holds(e, t)
      <4>1. Contents[t] = e
        BY <1>t, <1>c, <3>p, <3>2, CellOfHeld
      <4>2. Map!FindKey(t)
        BY <2>1, <3>1, <3>n, <3>2, <4>1 DEF Map!FindKey, Map!Has, Holds, IsLive
      <4> QED BY <4>2 DEF Map!Next
    <3>3. CASE ~Holds(e, t)
      <4>1. IsEmpty(e)
        BY <3>1, <3>3 DEF StopsFirstAt, StopsAt
      <4>2. ASSUME NEW a \in Slots(capacity), Holds(entries[a], t) PROVE FALSE
        <5>1. FindsAt(entries, capacity, t, a)
          BY <1>t, <4>2 DEF AllFound, Holds
        <5>2. PICK m \in Slots(capacity) :
                Probe(t, capacity, m) = a /\ StopsFirstAt(entries, capacity, t, m)
          BY <1>t, <4>2, <5>1, FoundAfterNoStop
        <5>3. ~(m < n) /\ ~(n < m)
          BY <3>1, <5>2 DEF StopsFirstAt, Slots
        <5>4. m = n
          BY <1>t, <5>3 DEF Slots
        <5> QED BY <3>3, <4>2, <5>2, <5>4
      <4>3. Contents[t] = NULL
        BY <1>c, <4>2, CellOfAbsent
      <4>4. out' = NULL /\ ok' = FALSE
        BY <3>1, <4>1 DEF IsEmpty
      <4> QED BY <2>1, <4>3, <4>4 DEF Map!FindKey, Map!Has, Map!Next
    <3> QED BY <3>2, <3>3
  <2> QED BY <2>2, <2>3
<1>6. ASSUME NEW white \in SUBSET Keys, RemoveWhite(white) PROVE Map!Next
  <2> DEFINE gone == {s \in Slots(capacity) : /\ IsLive(entries[s])
                                              /\ entries[s].key \in white}
  <2>0. capacity' = capacity /\ UNCHANGED <<ok, out>>
    BY <1>6 DEF RemoveWhite
  <2>1. ASSUME NEW s \in Slots(capacity)
        PROVE  entries'[s] = IF s \in gone THEN Tombstone ELSE entries[s]
    <3>1. entries'[s] = IF /\ IsLive(entries[s])
                           /\ \E r \in Slots(capacity) :
                                 /\ entries[r].key \in white
                                 /\ FindsAt(entries, capacity, TextOf[entries[r].key], s)
                        THEN Tombstone ELSE entries[s]
      BY <1>6 DEF RemoveWhite
    <3>2. ASSUME NEW r \in Slots(capacity), entries[r].key \in white,
                 FindsAt(entries, capacity, TextOf[entries[r].key], s)
          PROVE  s = r
      <4>1. entries[r] \in Slot /\ IsLive(entries[r])
        BY <1>t, <3>2, KeysAssumption DEF IsLive
      <4>2. TextOf[entries[r].key] \in Texts /\ Holds(entries[r], TextOf[entries[r].key])
        BY <4>1, KeyText DEF Holds
      <4> QED BY <1>t, <3>2, <4>2, HeldOnce
    <3>3. IsLive(entries[s]) => FindsAt(entries, capacity, TextOf[entries[s].key], s)
      BY <1>t DEF AllFound
    <3> QED BY <3>1, <3>2, <3>3
  <2>2. /\ gone \in SUBSET Slots(capacity)
        /\ \A s \in gone : IsLive(entries[s])
    OBVIOUS
  <2>3. Contents' = CellsOf(entries', capacity)
    BY <2>0 DEF Contents, CellsOf
  <2>4. ASSUME NEW t \in Texts
        PROVE  Contents'[t] = IF Map!Has(t) /\ Contents[t].key \in white
                              THEN NULL ELSE Contents[t]
    <3>1. CellsOf(entries', capacity)[t] =
             IF \E r \in gone : Holds(entries[r], t) THEN NULL ELSE Contents[t]
      <4> HIDE DEF gone
      <4> QED BY <1>t, <1>c, <2>1, <2>2, CellsAfterDelete, ZenonT(60)
    <3>2. CASE \E s \in Slots(capacity) : Holds(entries[s], t)
      <4>1. PICK s \in Slots(capacity) : Holds(entries[s], t)
        BY <3>2
      <4>2. Contents[t] = entries[s] /\ Map!Has(t)
        BY <1>t, <1>c, <4>1, CellOfHeld, SlotAssumption DEF Map!Has, Slot
      <4>3. \A r \in gone : Holds(entries[r], t) => r = s
        <5>1. \A r \in Slots(capacity) :
                 Holds(entries[r], t) => FindsAt(entries, capacity, t, r)
          BY <1>t DEF AllFound, Holds
        <5> QED BY <1>t, <4>1, <5>1, HeldOnce
      <4>4. (\E r \in gone : Holds(entries[r], t)) <=> entries[s].key \in white
        BY <4>1, <4>3 DEF Holds
      <4> QED BY <2>3, <3>1, <4>2, <4>4
    <3>3. CASE \A s \in Slots(capacity) : ~Holds(entries[s], t)
      <4>1. Contents[t] = NULL
        BY <1>c, <3>3, CellOfAbsent
      <4> QED BY <2>3, <3>1, <3>3, <4>1
    <3> QED BY <3>2, <3>3
  <2>5. Contents' = [n \in Texts |-> IF Map!Has(n) /\ Contents[n].key \in white
                                     THEN NULL ELSE Contents[n]]
    BY <2>4 DEF Contents
  <2>6. Map!Withdraw(white)
    BY <2>0, <2>5 DEF Map!Withdraw
  <2> QED BY <2>6 DEF Map!Next
<1>7. ASSUME NEW k \in Keys, NEW v \in Values, SetGrows(k, v) PROVE UNCHANGED Map!vars
  BY <1>7 DEF SetGrows, Contents, Map!vars
<1>8. CASE FreshArray \/ RehashSlot \/ UNCHANGED vars
  BY <1>8 DEF FreshArray, RehashSlot, vars, Contents, Map!vars
<1> QED BY <1>1, <1>2, <1>3, <1>4, <1>5, <1>6, <1>7, <1>8 DEF Next

(***************************************************************************)
(* The string table is a map from texts to cells: slots, tombstones,       *)
(* growth, rehashing and the deletions of a collection that runs inside a  *)
(* growing table_set are invisible, and table_set, table_get, table_delete *)
(* and table_find_string return what that map makes them return.           *)
(***************************************************************************)
THEOREM TableIsADictionary == Spec => RefinesDictionary
<1>1. Init => Map!Init
  <2> SUFFICES ASSUME Init PROVE Map!Init
    OBVIOUS
  <2>1. \A t \in Texts : ~\E s \in Slots(capacity) : Holds(entries[s], t)
    BY DEF Init, Slots
  <2>2. Contents = [t \in Texts |-> NULL]
    BY <2>1 DEF Contents
  <2> QED BY <2>2 DEF Init, Map!Init
<1> QED BY <1>1, MovedInitial, MovedInductive, StepIsMapStep, PTL
        DEF Spec, RefinesDictionary, Map!Spec

-----------------------------------------------------------------------------
(***************************************************************************)
(* The object table.  Powers of two.                                       *)
(***************************************************************************)
LEMMA HalfOfPower ==
    ASSUME NEW c, IsPowerOfTwo(c), c # 1
    PROVE  \E h : IsPowerOfTwo(h) /\ c = 2 * h /\ h < c
<1>1. c \in Nat \ {0}
  BY DEF IsPowerOfTwo
<1>2. c % c = 0
  <2>1. c * 1 = c
    BY <1>1
  <2> QED BY <1>1, <2>1, MultipleRemainder
<1>3. c % 2 = 0
  BY <1>1, <1>2 DEF IsPowerOfTwo
<1> DEFINE h == c \div 2
<1>4. h \in Nat \ {0} /\ c = 2 * h /\ h < c
  BY <1>1, <1>3
<1> HIDE DEF h
<1>5. ASSUME NEW d \in 1 .. h, h % d = 0 PROVE d = 1 \/ d % 2 = 0
  <2> DEFINE q == h \div d
  <2>1. q \in Nat /\ h = d * q
    <3>1. h \in Nat /\ d \in Nat \ {0}
      BY <1>4
    <3>2. q \in Nat /\ h = d * q + (h % d)
      BY <3>1, Division
    <3> QED BY <1>5, <3>1, <3>2
  <2> HIDE DEF q
  <2>2. c = d * (2 * q)
    BY <1>4, <2>1
  <2>3. c % d = 0
    BY <1>4, <2>1, <2>2, MultipleRemainder
  <2>4. d \in 1 .. c
    BY <1>4
  <2> QED BY <2>3, <2>4 DEF IsPowerOfTwo
<1> QED BY <1>4, <1>5 DEF IsPowerOfTwo

LEMMA DoubleOfPower ==
    ASSUME NEW c, IsPowerOfTwo(c)
    PROVE  IsPowerOfTwo(2 * c)
<1>1. c \in Nat \ {0}
  BY DEF IsPowerOfTwo
<1>2. ASSUME NEW d \in 1 .. 2 * c, (2 * c) % d = 0, d % 2 # 0 PROVE d = 1
  <2> DEFINE q == (2 * c) \div d
             e == d \div 2
  <2>1. q \in Nat /\ 2 * c = d * q
    <3>1. 2 * c \in Nat /\ d \in Nat \ {0}
      BY <1>1
    <3>2. q \in Nat /\ 2 * c = d * q + ((2 * c) % d)
      BY <3>1, Division
    <3> QED BY <1>2, <3>1, <3>2
  <2>2. e \in Nat /\ d = 2 * e + 1
    BY <1>1, <1>2
  <2> HIDE DEF q, e
  <2> DEFINE r == c - e * q
  <2>3. q = 2 * r /\ r \in Int
    BY <1>1, <2>1, <2>2
  <2> HIDE DEF r
  <2>4. c = d * r
    <3>1. 2 * c = 2 * (d * r)
      BY <2>1, <2>3
    <3>2. d * r \in Int
      BY <2>3
    <3> QED BY <1>1, <3>1, <3>2
  <2>5. c % d = 0
    BY <1>1, <2>3, <2>4, MultipleRemainder
  <2>6. d <= c
    <3>1. r >= 1
      BY <1>1, <2>1, <2>3
    <3>2. r - 1 \in Nat /\ d * (r - 1) \in Nat /\ d * r = d * (r - 1) + d
      BY <2>3, <3>1
    <3> QED BY <1>1, <2>4, <3>2
  <2> QED BY <1>1, <1>2, <2>5, <2>6 DEF IsPowerOfTwo
<1> QED BY <1>1, <1>2 DEF IsPowerOfTwo

-----------------------------------------------------------------------------
(***************************************************************************)
(* The probe sequence.  2^k steps of index -> 5 * index + 1 together add   *)
(* an odd multiple of 2^k modulo 2^(k+1); so two probes meet modulo a      *)
(* power of two only if they are a multiple of it apart, and the first cap *)
(* probes of an array of cap entries are of different entries: of all.     *)
(***************************************************************************)
\* The indices probed, before they are taken modulo the capacity.
IsRun(y) == y \in [Nat -> Nat] /\ \A i \in Nat : y[i+1] = 5 * y[i] + 1

LEMMA RunExists ==
    ASSUME NEW h \in Nat
    PROVE  \E y : IsRun(y) /\ y[0] = h
<1> DEFINE F == [f \in [Nat -> Nat] |-> [i \in Nat |-> IF i = 0 THEN h ELSE 5 * f[i-1] + 1]]
           R == [i \in Nat |-> i]
<1>1. R \in [Nat -> Nat] /\ Nat # {}
  OBVIOUS
<1>2. F \in [[Nat -> Nat] -> [Nat -> Nat]]
  OBVIOUS
<1>3. ASSUME NEW f \in [Nat -> Nat], NEW g \in [Nat -> Nat], NEW x \in Nat,
             \A y \in Nat : R[y] < R[x] => f[y] = g[y]
      PROVE  F[f][x] = F[g][x]
  <2>1. CASE x = 0
    BY <2>1
  <2>2. CASE x # 0
    <3>1. x-1 \in Nat /\ x-1 < x
      BY <2>2
    <3>2. f[x-1] = g[x-1]
      BY <1>3, <3>1
    <3> QED BY <2>2, <3>2
  <2> QED BY <2>1, <2>2
<1>4. ByRank(Nat, Nat, R, F)
  <2> HIDE DEF F, R
  <2> QED BY <1>1, <1>2, <1>3 DEF ByRank
<1>5. \E y \in [Nat -> Nat] : y = F[y]
  <2> DEFINE D == Nat
             C == Nat
  <2>1. ByRank(D, C, R, F)
    BY <1>4
  <2> HIDE DEF D, C, F, R
  <2>2. \E y \in [D -> C] : y = F[y]
    BY <2>1, FunctionsByRank
  <2> QED BY <2>2 DEF D, C
<1>e. PICK y \in [Nat -> Nat] : y = F[y]
  BY <1>5
<1>6. y = [i \in Nat |-> IF i = 0 THEN h ELSE 5 * y[i-1] + 1]
  BY <1>e
<1>7. y[0] = h
  BY <1>6
<1>8. ASSUME NEW i \in Nat PROVE y[i+1] = 5 * y[i] + 1
  <2>1. i+1 \in Nat /\ i+1 # 0 /\ (i+1)-1 = i
    OBVIOUS
  <2> QED BY <1>6, <2>1
<1> QED BY <1>e, <1>7, <1>8 DEF IsRun

\* m steps of the run at once, for a power of two m.
Jumps(y, m) ==
    \E u \in Nat, w \in Nat :
        \A i \in Nat : y[i+m] = (1 + 4*m*u) * y[i] + m * (1 + 2*w)

LEMMA JumpTwice ==
    ASSUME NEW y, IsRun(y), NEW m \in Nat, Jumps(y, m)
    PROVE  Jumps(y, 2 * m)
<1>1. PICK u \in Nat, w \in Nat :
        \A i \in Nat : y[i+m] = (1 + 4*m*u) * y[i] + m * (1 + 2*w)
  BY DEF Jumps
<1> DEFINE v == u + 2*m*u*u
           z == w + m*u + 2*w*m*u
<1>2. v \in Nat /\ z \in Nat
  OBVIOUS
<1>3. ASSUME NEW i \in Nat
      PROVE  y[i+2*m] = (1 + 4*(2*m)*v) * y[i] + (2*m) * (1 + 2*z)
  <2>1. i+m \in Nat /\ (i+m)+m = i+2*m /\ y[i] \in Nat /\ y[i+m] \in Nat /\ y[i+2*m] \in Nat
    BY DEF IsRun
  <2> DEFINE a == y[i]
             b == y[i+m]
             c == y[i+2*m]
  <2>2. b = (1 + 4*m*u) * a + m * (1 + 2*w) /\ c = (1 + 4*m*u) * b + m * (1 + 2*w)
    BY <1>1, <2>1
  <2>3. a \in Nat /\ b \in Nat /\ c \in Nat
    BY <2>1
  <2> HIDE DEF a, b, c
  <2>4. c = (1 + 4*(2*m)*v) * a + (2*m) * (1 + 2*z)
    BY <2>2, <2>3
  <2> QED BY <2>4 DEF a, c
<1> HIDE DEF v, z
<1> QED BY <1>2, <1>3 DEF Jumps

LEMMA PowersJump ==
    ASSUME NEW y, IsRun(y), NEW m, IsPowerOfTwo(m)
    PROVE  Jumps(y, m)
<1> DEFINE T == {k \in Nat : IsPowerOfTwo(k) /\ ~Jumps(y, k)}
<1>1. SUFFICES ASSUME T # {} PROVE FALSE
  BY DEF IsPowerOfTwo
<1>2. PICK k \in T : \A j \in T : k <= j
  <2>1. T \in SUBSET Nat
    OBVIOUS
  <2> HIDE DEF T
  <2> QED BY <1>1, <2>1, LeastNat
<1>3. k # 1
  <2>1. \A i \in Nat : y[i+1] = (1 + 4*1*1) * y[i] + 1 * (1 + 2*0)
    BY DEF IsRun
  <2>2. Jumps(y, 1)
    BY <2>1 DEF Jumps
  <2> QED BY <2>2
<1>4. PICK h : IsPowerOfTwo(h) /\ k = 2 * h /\ h < k
  BY <1>3, HalfOfPower
<1>5. h \in Nat /\ h \notin T
  BY <1>2, <1>4 DEF IsPowerOfTwo
<1>6. Jumps(y, h)
  BY <1>4, <1>5
<1>7. Jumps(y, k)
  BY <1>4, <1>5, <1>6, JumpTwice
<1> QED BY <1>7

\* Modulo 2 * m, t such jumps add m * t.
Adds(y, m, i, t) == \E q \in Int : y[i+m*t] - y[i] = m*t + (2*m)*q

LEMMA JumpsAdd ==
    ASSUME NEW y, IsRun(y), NEW m \in Nat, Jumps(y, m), NEW i \in Nat, NEW t \in Nat
    PROVE  Adds(y, m, i, t)
<1>1. PICK u \in Nat, w \in Nat :
        \A j \in Nat : y[j+m] = (1 + 4*m*u) * y[j] + m * (1 + 2*w)
  BY DEF Jumps
<1> DEFINE Fine(s) == \E q \in Int : y[i+m*s] - y[i] = m*s + (2*m)*q
           T == {s \in Nat : ~Fine(s)}
<1>2. SUFFICES ASSUME T # {} PROVE FALSE
  BY DEF Adds
<1>3. PICK s \in T : \A j \in T : s <= j
  <2>1. T \in SUBSET Nat
    OBVIOUS
  <2> HIDE DEF T
  <2> QED BY <1>2, <2>1, LeastNat
<1>y. \A j \in Nat : y[j] \in Nat
  BY DEF IsRun
<1>4. s # 0
  <2>1. i + m*0 = i /\ y[i] - y[i] = m*0 + (2*m)*0
    BY <1>y
  <2>2. Fine(0)
    BY <2>1
  <2> QED BY <2>2
<1> DEFINE r == s - 1
<1>5. r \in Nat /\ s = r + 1 /\ r \notin T
  BY <1>3, <1>4
<1>6. PICK q \in Int : y[i+m*r] - y[i] = m*r + (2*m)*q
  BY <1>5
<1> DEFINE j == i + m*r
<1>7. j \in Nat /\ i + m*s = j + m
  BY <1>5
<1>8. y[j+m] = (1 + 4*m*u) * y[j] + m * (1 + 2*w) /\ y[j] \in Nat /\ y[i] \in Nat /\ y[j+m] \in Nat
  BY <1>1, <1>7, <1>y
<1> DEFINE a == y[i]
           b == y[j]
           c == y[j+m]
           p == q + 2*u*b + w
<1>9. b - a = m*r + (2*m)*q /\ c = (1 + 4*m*u) * b + m * (1 + 2*w)
  BY <1>6, <1>8
<1>10. a \in Nat /\ b \in Nat /\ c \in Nat
  BY <1>8
<1>11. c - a = m*(r+1) + (2*m)*p /\ p \in Int
  <2> HIDE DEF a, b, c, r
  <2> QED BY <1>5, <1>9, <1>10
<1>12. Fine(s)
  <2>1. y[i+m*s] - y[i] = m*s + (2*m)*p
    BY <1>5, <1>7, <1>11
  <2> QED BY <1>11, <2>1
<1> QED BY <1>12

\* Two indices of the run differ by a multiple of m only if they are a multiple
\* of m apart.
Separates(y, m) ==
    \A i \in Nat, k \in Nat :
        (\E q \in Int : y[i+k] - y[i] = m * q) => \E t \in Nat : k = m * t

LEMMA SeparatesTwice ==
    ASSUME NEW y, IsRun(y), NEW m \in Nat \ {0}, Jumps(y, m), Separates(y, m)
    PROVE  Separates(y, 2 * m)
<1> DEFINE n == 2 * m
<1>n. n = 2 * m
  OBVIOUS
<1> HIDE DEF n
<1>s. SUFFICES Separates(y, n)
  BY <1>n
<1> SUFFICES ASSUME NEW i \in Nat, NEW k \in Nat,
                    NEW q \in Int, y[i+k] - y[i] = n * q
             PROVE  \E t \in Nat : k = n * t
  BY DEF Separates
<1>1. y[i+k] - y[i] = m * (2*q) /\ 2*q \in Int
  <2>1. n * q = m * (2*q)
    BY <1>n
  <2> QED BY <2>1
<1>2. PICK t \in Nat : k = m * t
  BY <1>1 DEF Separates
<1>3. PICK p \in Int : y[i+m*t] - y[i] = m*t + (2*m)*p
  <2>1. m \in Nat
    OBVIOUS
  <2>2. Adds(y, m, i, t)
    BY <2>1, JumpsAdd
  <2> QED BY <2>2 DEF Adds
<1>4. (2*m) * q = m*t + (2*m)*p
  <2>1. y[i+k] - y[i] = m*t + (2*m)*p
    BY <1>2, <1>3
  <2>2. y[i+k] - y[i] = (2*m) * q
    BY <1>n
  <2> QED BY <2>1, <2>2
<1>5. m * (2*q - 2*p - t) = 0
  BY <1>4
<1>6. 2*q - 2*p - t = 0
  <2> DEFINE z == 2*q - 2*p - t
  <2>1. z \in Int
    OBVIOUS
  <2>2. m * z = 0
    BY <1>5
  <2> HIDE DEF z
  <2>3. 0 = m * z
    BY <2>2
  <2>4. z = 0
    BY <2>1, <2>3, SmallMultiple
  <2> QED BY <2>4 DEF z
<1>7. q - p \in Nat /\ t = 2 * (q - p)
  BY <1>6
<1>8. k = n * (q - p)
  BY <1>2, <1>7, <1>n
<1> QED BY <1>7, <1>8

LEMMA PowersSeparate ==
    ASSUME NEW y, IsRun(y), NEW m, IsPowerOfTwo(m)
    PROVE  Separates(y, m)
<1> DEFINE T == {k \in Nat : IsPowerOfTwo(k) /\ ~Separates(y, k)}
<1>1. SUFFICES ASSUME T # {} PROVE FALSE
  BY DEF IsPowerOfTwo
<1>2. PICK k \in T : \A j \in T : k <= j
  <2>1. T \in SUBSET Nat
    OBVIOUS
  <2> HIDE DEF T
  <2> QED BY <1>1, <2>1, LeastNat
<1>3. k # 1
  <2>1. \A i \in Nat : i = 1 * i
    OBVIOUS
  <2>2. Separates(y, 1)
    BY <2>1 DEF Separates
  <2> QED BY <2>2
<1>4. PICK h : IsPowerOfTwo(h) /\ k = 2 * h /\ h < k
  BY <1>3, HalfOfPower
<1>5. h \in Nat \ {0} /\ h \notin T
  BY <1>2, <1>4 DEF IsPowerOfTwo
<1>6. Separates(y, h) /\ Jumps(y, h)
  BY <1>4, <1>5, PowersJump
<1>7. Separates(y, k)
  BY <1>4, <1>5, <1>6, SeparatesTwice
<1> QED BY <1>7
-----------------------------------------------------------------------------
\* Reducing before a step of the run or after it is the same.
LEMMA StepRemainder ==
    ASSUME NEW c \in Nat \ {0}, NEW a \in Nat
    PROVE  ((a % c) * 5 + 1) % c = (5 * a + 1) % c
<1> DEFINE q == a \div c
           r == a % c
           k == (5 * a + 1) \div c
           s == (5 * a + 1) % c
<1>1. q \in Nat /\ r \in 0 .. c-1 /\ a = c * q + r
  BY Division
<1>2. k \in Nat /\ s \in 0 .. c-1 /\ 5 * a + 1 = c * k + s
  <2>1. 5 * a + 1 \in Nat
    OBVIOUS
  <2> QED BY <2>1, Division
<1> HIDE DEF q, r, k, s
<1>3. r * 5 + 1 = c * (k - 5 * q) + s
  BY <1>1, <1>2
<1>4. (r * 5 + 1) % c = s
  <2>1. r * 5 + 1 \in Nat /\ k - 5 * q \in Int
    BY <1>1, <1>2
  <2> QED BY <1>2, <1>3, <2>1, Remainder
<1> QED BY <1>4 DEF r, s

LEMMA OrbitSteps ==
    ASSUME NEW n \in Names, NEW cap \in Nat \ {0}
    PROVE  /\ Orbit(n, cap) \in [Indices(cap) -> Indices(cap)]
           /\ Orbit(n, cap)[0] = HashValue[n] % cap
           /\ \A i \in Indices(cap) \ {0} :
                  Orbit(n, cap)[i] = (Orbit(n, cap)[i-1] * 5 + 1) % cap
<1> DEFINE D == Indices(cap)
           F == [f \in [D -> D] |-> [i \in D |-> IF i = 0 THEN HashValue[n] % cap
                                                 ELSE (f[i-1] * 5 + 1) % cap]]
           R == [i \in D |-> i]
<1>h. HashValue[n] \in Nat
  BY HashValueAssumption
<1>d. D = 0 .. cap-1
  BY DEF Indices
<1>e. /\ 0 \in D
      /\ \A i \in D : i \in Nat /\ (i # 0 => i-1 \in D /\ i-1 < i)
      /\ \A i \in D : i * 5 + 1 \in Nat
  BY DEF Indices
<1>1. R \in [D -> Nat] /\ D # {}
  <2> HIDE DEF D
  <2> QED BY <1>e
<1>2. F \in [[D -> D] -> [D -> D]]
  <2>1. ASSUME NEW f \in [D -> D], NEW i \in D
        PROVE  (IF i = 0 THEN HashValue[n] % cap ELSE (f[i-1] * 5 + 1) % cap) \in D
    <3>1. CASE i = 0
      BY <1>h, <1>d, <3>1, Division
    <3>2. CASE i # 0
      <4>1. i-1 \in D
        BY <1>e, <3>2
      <4>2. f[i-1] \in D
        BY <4>1
      <4>3. f[i-1] * 5 + 1 \in Nat
        BY <1>e, <4>2
      <4>4. (f[i-1] * 5 + 1) % cap \in 0 .. cap-1
        BY <4>3, Division
      <4> QED BY <1>d, <3>2, <4>4
    <3> QED BY <3>1, <3>2
  <2> HIDE DEF D
  <2> QED BY <2>1
<1>3. ASSUME NEW f \in [D -> D], NEW g \in [D -> D], NEW x \in D,
             \A y \in D : R[y] < R[x] => f[y] = g[y]
      PROVE  F[f][x] = F[g][x]
  <2>1. CASE x = 0
    BY <2>1
  <2>2. CASE x # 0
    <3>1. x-1 \in D /\ x-1 < x
      BY <1>e, <2>2
    <3>2. f[x-1] = g[x-1]
      BY <1>3, <3>1
    <3> QED BY <2>2, <3>2
  <2> QED BY <2>1, <2>2
<1>4. \E f \in [D -> D] : f = F[f]
  <2> HIDE DEF D, F, R
  <2>1. ByRank(D, D, R, F)
    BY <1>1, <1>2, <1>3 DEF ByRank
  <2> QED BY <2>1, FunctionsByRank
<1> DEFINE Follows(f) == f = [i \in D |-> IF i = 0 THEN HashValue[n] % cap
                                          ELSE (f[i-1] * 5 + 1) % cap]
<1>5. \E f : Follows(f)
  BY <1>4
<1>6. Orbit(n, cap) = CHOOSE f : Follows(f)
  BY DEF Orbit
<1>7. Follows(Orbit(n, cap))
  <2> HIDE DEF Follows
  <2> QED BY <1>5, <1>6
<1>8. Orbit(n, cap) \in [D -> D]
  <2>1. PICK f \in [D -> D] : f = F[f]
    BY <1>4
  <2> DEFINE o == Orbit(n, cap)
             T == {i \in D : o[i] \notin D}
  <2>2. o = [i \in D |-> IF i = 0 THEN HashValue[n] % cap ELSE (o[i-1] * 5 + 1) % cap]
    BY <1>7
  <2> HIDE DEF o
  <2>3. SUFFICES ASSUME T # {} PROVE FALSE
    BY <2>2 DEF o
  <2>4. PICK i \in T : \A j \in T : i <= j
    <3>1. T \in SUBSET Nat
      BY <1>e
    <3> HIDE DEF T
    <3> QED BY <2>3, <3>1, LeastNat
  <2>5. i # 0
    <3>1. HashValue[n] % cap \in D
      BY <1>h, <1>d, Division
    <3> QED BY <2>2, <2>4, <3>1
  <2>6. i-1 \in D /\ i-1 \notin T
    BY <1>e, <2>4, <2>5
  <2>7. o[i-1] \in D
    BY <2>6
  <2>8. o[i-1] * 5 + 1 \in Nat
    BY <1>e, <2>7
  <2>9. (o[i-1] * 5 + 1) % cap \in D
    BY <1>d, <2>8, Division
  <2> QED BY <2>2, <2>4, <2>5, <2>9
<1> QED BY <1>e, <1>7, <1>8

LEMMA OrbitIsRun ==
    ASSUME NEW n \in Names, NEW cap \in Nat \ {0}
    PROVE  \E y : IsRun(y) /\ \A i \in Indices(cap) : Orbit(n, cap)[i] = y[i] % cap
<1>h. HashValue[n] \in Nat
  BY HashValueAssumption
<1>1. PICK y : IsRun(y) /\ y[0] = HashValue[n]
  BY <1>h, RunExists
<1> DEFINE o == Orbit(n, cap)
           T == {i \in Indices(cap) : o[i] # y[i] % cap}
<1>2. /\ o[0] = HashValue[n] % cap
      /\ \A i \in Indices(cap) \ {0} : o[i] = (o[i-1] * 5 + 1) % cap
  BY OrbitSteps
<1>3. SUFFICES ASSUME T # {} PROVE FALSE
  BY <1>1
<1>4. PICK i \in T : \A j \in T : i <= j
  <2>1. T \in SUBSET Nat
    BY DEF Indices
  <2> HIDE DEF T
  <2> QED BY <1>3, <2>1, LeastNat
<1>5. i # 0
  BY <1>1, <1>2, <1>4
<1> DEFINE h == i - 1
<1>6. h \in Indices(cap) /\ h \notin T /\ h \in Nat /\ i = h + 1
  BY <1>4, <1>5 DEF Indices
<1>7. o[h] = y[h] % cap /\ y[i] = 5 * y[h] + 1 /\ y[h] \in Nat
  BY <1>1, <1>6 DEF IsRun
<1>8. o[i] = (o[h] * 5 + 1) % cap
  BY <1>2, <1>4, <1>5
<1>9. ((y[h] % cap) * 5 + 1) % cap = (5 * y[h] + 1) % cap
  BY <1>7, StepRemainder
<1> QED BY <1>4, <1>7, <1>8, <1>9

\* No entry is probed twice in the first cap probes ...
LEMMA OrbitInjective ==
    ASSUME NEW n \in Names, NEW cap, IsPowerOfTwo(cap),
           NEW i \in Indices(cap), NEW j \in Indices(cap), i < j
    PROVE  Orbit(n, cap)[i] # Orbit(n, cap)[j]
<1>c. cap \in Nat \ {0} /\ i \in Nat /\ j \in Nat /\ j < cap
  BY DEF IsPowerOfTwo, Indices
<1>1. PICK y : IsRun(y) /\ \A k \in Indices(cap) : Orbit(n, cap)[k] = y[k] % cap
  BY <1>c, OrbitIsRun
<1> SUFFICES ASSUME Orbit(n, cap)[i] = Orbit(n, cap)[j] PROVE FALSE
  OBVIOUS
<1>2. y[i] % cap = y[j] % cap /\ y[i] \in Nat /\ y[j] \in Nat
  BY <1>c, <1>1 DEF IsRun
<1> DEFINE a == y[i] \div cap
           b == y[j] \div cap
           r == y[i] % cap
<1>3. a \in Nat /\ b \in Nat /\ r \in Int /\ y[i] = cap * a + r /\ y[j] = cap * b + r
  <2>1. a \in Nat /\ r \in 0 .. cap-1 /\ y[i] = cap * a + r
    BY <1>c, <1>2, Division
  <2>2. b \in Nat /\ y[j] = cap * b + (y[j] % cap)
    BY <1>c, <1>2, Division
  <2> QED BY <1>2, <2>1, <2>2
<1> HIDE DEF a, b, r
<1> DEFINE k == j - i
<1>4. k \in Nat /\ k > 0 /\ k < cap /\ i + k = j
  BY <1>c
<1>5. y[i+k] - y[i] = cap * (b - a) /\ b - a \in Int
  BY <1>c, <1>3, <1>4
<1> HIDE DEF k
<1>6. \E t \in Nat : k = cap * t
  <2>1. Separates(y, cap)
    BY <1>1, PowersSeparate
  <2>2. i \in Nat /\ \E q \in Int : y[i+k] - y[i] = cap * q
    BY <1>c, <1>5
  <2> QED BY <1>4, <2>1, <2>2 DEF Separates
<1>7. PICK t \in Nat : k = cap * t
  BY <1>6
<1>8. t = 0
  BY <1>c, <1>4, <1>7, SmallMultiple
<1> QED BY <1>c, <1>4, <1>7, <1>8

LEMMA OrbitOnce ==
    ASSUME NEW n \in Names, NEW cap, IsPowerOfTwo(cap),
           NEW i \in Indices(cap), NEW j \in Indices(cap),
           Orbit(n, cap)[i] = Orbit(n, cap)[j]
    PROVE  i = j
<1>1. i \in Nat /\ j \in Nat
  BY DEF IsPowerOfTwo, Indices
<1>2. ~(i < j) /\ ~(j < i)
  BY OrbitInjective
<1> QED BY <1>1, <1>2

LEMMA IndicesFinite ==
    ASSUME NEW cap \in Nat
    PROVE  IsFiniteSet(Indices(cap)) /\ Cardinality(Indices(cap)) = cap
BY FS_Interval DEF Indices

\* ... and every entry is.
LEMMA OrbitCovers ==
    ASSUME NEW n \in Names, NEW cap, IsPowerOfTwo(cap), NEW s \in Indices(cap)
    PROVE  \E i \in Indices(cap) : Orbit(n, cap)[i] = s
<1>c. cap \in Nat \ {0}
  BY DEF IsPowerOfTwo
<1> DEFINE o == Orbit(n, cap)
           D == Indices(cap)
<1>1. o \in [D -> D]
  BY <1>c, OrbitSteps
<1>2. \A i \in D, j \in D : o[i] = o[j] => i = j
  BY OrbitOnce
<1>3. o \in Injection(D, D)
  <2> HIDE DEF o, D
  <2> QED BY <1>1, <1>2 DEF Injection, IsInjective
<1>4. IsFiniteSet(D)
  BY <1>c, IndicesFinite
<1>5. o \in Surjection(D, D)
  <2> HIDE DEF o, D
  <2> QED BY <1>3, <1>4, FS_Injection
<1> QED BY <1>5 DEF Surjection
-----------------------------------------------------------------------------
(***************************************************************************)
(* What find_entry finds in an array of entries.                           *)
(***************************************************************************)
StopsFirst(es, cap, n, i) ==
    /\ StopsHere(es[Orbit(n, cap)[i]], n)
    /\ \A j \in 0 .. i-1 : ~StopsHere(es[Orbit(n, cap)[j]], n)

AllEntriesFound(es, cap) ==
    \A s \in Indices(cap) :
       IsOccupied(es[s]) => FindsEntry(es, cap, NameOf[es[s].key], s)

LEMMA OrbitRange ==
    ASSUME NEW n \in Names, NEW cap, IsPowerOfTwo(cap), NEW i \in Indices(cap)
    PROVE  Orbit(n, cap)[i] \in Indices(cap)
BY OrbitSteps DEF IsPowerOfTwo

LEMMA EntryTypes ==
    /\ EmptyEntry \in Entry /\ TombstoneEntry \in Entry
    /\ ~IsOccupied(EmptyEntry) /\ ~IsOccupied(TombstoneEntry)
    /\ IsEmptyEntry(EmptyEntry) /\ ~IsEmptyEntry(TombstoneEntry)
    /\ EmptyEntry # TombstoneEntry
BY ObjectValuesAssumption DEF EmptyEntry, TombstoneEntry, Entry, IsOccupied, IsEmptyEntry

LEMMA KeyName ==
    ASSUME NEW e \in Entry, IsOccupied(e)
    PROVE  e.key \in KeyValues /\ NameOf[e.key] \in Names
BY NameOfAssumption DEF Entry, IsOccupied

\* While an entry is empty, every call finds an entry.
LEMMA EmptyEntryFinds ==
    ASSUME NEW n \in Names, NEW cap, IsPowerOfTwo(cap), NEW es,
           NEW e \in Indices(cap), IsEmptyEntry(es[e])
    PROVE  \E s \in Indices(cap) : FindsEntry(es, cap, n, s)
<1> DEFINE o == Orbit(n, cap)
<1>c. cap \in Nat \ {0}
  BY DEF IsPowerOfTwo
<1>r. \A i \in Indices(cap) : o[i] \in Indices(cap)
  BY OrbitRange
<1>0. PICK m \in Indices(cap) : o[m] = e
  BY OrbitCovers
<1> DEFINE Stops == {i \in Indices(cap) : StopsHere(es[o[i]], n)}
<1>1. Stops \in SUBSET Nat /\ Stops # {}
  BY <1>0 DEF Indices, StopsHere
<1>2. PICK i \in Stops : \A j \in Stops : i <= j
  <2> HIDE DEF Stops
  <2> QED BY <1>1, LeastNat
<1>3. i \in Indices(cap) /\ i \in Nat /\ StopsHere(es[o[i]], n)
  BY <1>2 DEF Indices
<1>4. ASSUME NEW j \in 0 .. i-1 PROVE j \in Indices(cap) /\ ~StopsHere(es[o[j]], n)
  <2>1. j \in Indices(cap) /\ ~(i <= j)
    BY <1>c, <1>3 DEF Indices
  <2> QED BY <1>2, <2>1
<1> DEFINE Passed == {j \in 0 .. i-1 : ~IsOccupied(es[o[j]])}
<1> HIDE DEF Stops, o
<1>5. CASE IsEmptyEntry(es[o[i]]) /\ Passed # {}
  <2>1. Passed \in SUBSET Nat
    BY <1>3
  <2>2. PICK j \in Passed : \A p \in Passed : j <= p
    <3> HIDE DEF Passed
    <3> QED BY <1>5, <2>1, LeastNat
  <2>3. FindsEntry(es, cap, n, o[j])
    BY <1>3, <1>4, <1>5, <2>2 DEF FindsEntry, o
  <2>4. j \in Indices(cap)
    BY <1>4, <2>2
  <2> QED BY <1>r, <2>3, <2>4
<1>6. CASE ~(IsEmptyEntry(es[o[i]]) /\ Passed # {})
  <2>1. FindsEntry(es, cap, n, o[i])
    BY <1>3, <1>4, <1>6 DEF FindsEntry, o
  <2> QED BY <1>r, <1>3, <2>1
<1> QED BY <1>5, <1>6

\* A probe whose first stop holds the name returns that entry, and no other.
LEMMA HeldEntryFound ==
    ASSUME NEW n \in Names, NEW cap \in Nat, NEW es, NEW i \in Indices(cap),
           StopsFirst(es, cap, n, i), HoldsName(es[Orbit(n, cap)[i]], n)
    PROVE  /\ FindsEntry(es, cap, n, Orbit(n, cap)[i])
           /\ \A s : FindsEntry(es, cap, n, s) => s = Orbit(n, cap)[i]
<1> DEFINE o == Orbit(n, cap)
<1>1. ~IsEmptyEntry(es[o[i]])
  BY DEF HoldsName, IsOccupied, IsEmptyEntry
<1>2. FindsEntry(es, cap, n, o[i])
  BY <1>1 DEF FindsEntry, StopsFirst
<1>3. ASSUME NEW s, FindsEntry(es, cap, n, s) PROVE s = o[i]
  <2>1. PICK j \in Indices(cap) :
          /\ StopsFirst(es, cap, n, j)
          /\ IsEmptyEntry(es[o[j]]) \/ s = o[j]
    BY <1>3 DEF FindsEntry, StopsFirst
  <2>2. j = i
    <3>1. ~(j < i) /\ ~(i < j)
      BY <2>1 DEF StopsFirst, Indices
    <3> QED BY <2>1, <3>1 DEF Indices
  <2> QED BY <1>1, <2>1, <2>2
<1> QED BY <1>2, <1>3

\* Where a store goes: no earlier probe stops.
LEMMA EntryFoundBefore ==
    ASSUME NEW n \in Names, NEW cap \in Nat, NEW es, NEW s, FindsEntry(es, cap, n, s)
    PROVE  \E i \in Indices(cap) :
              /\ Orbit(n, cap)[i] = s
              /\ \A j \in 0 .. i-1 : ~StopsHere(es[Orbit(n, cap)[j]], n)
              /\ HoldsName(es[s], n) => StopsFirst(es, cap, n, i)
<1> DEFINE o == Orbit(n, cap)
<1>1. PICK i \in Indices(cap) :
        /\ StopsFirst(es, cap, n, i)
        /\ LET Passed == {j \in 0 .. i-1 : ~IsOccupied(es[o[j]])}
           IN  IF IsEmptyEntry(es[o[i]]) /\ Passed # {}
               THEN \E j \in Passed : s = o[j] /\ \A p \in Passed : j <= p
               ELSE s = o[i]
  BY DEF FindsEntry, StopsFirst
<1>2. CASE s = o[i]
  BY <1>1, <1>2 DEF StopsFirst
<1>3. CASE s # o[i]
  <2>1. PICK j \in 0 .. i-1 : ~IsOccupied(es[o[j]]) /\ s = o[j]
    BY <1>1, <1>3
  <2>2. j \in Indices(cap) /\ \A p \in 0 .. j-1 : p \in 0 .. i-1
    BY DEF Indices
  <2>3. ~HoldsName(es[s], n)
    BY <2>1 DEF HoldsName
  <2> QED BY <1>1, <2>1, <2>2, <2>3 DEF StopsFirst
<1> QED BY <1>2, <1>3

\* find_entry returns an occupied entry only if it holds the name.
LEMMA OccupiedFindHolds ==
    ASSUME NEW cap, NEW es, NEW n, NEW s, FindsEntry(es, cap, n, s), IsOccupied(es[s])
    PROVE  HoldsName(es[s], n)
BY DEF FindsEntry, StopsHere, IsEmptyEntry, IsOccupied, HoldsName

\* No name is held twice.
LEMMA NameHeldOnce ==
    ASSUME NEW cap \in Nat, NEW es, AllEntriesFound(es, cap), NEW n \in Names,
           NEW a \in Indices(cap), HoldsName(es[a], n),
           NEW s, FindsEntry(es, cap, n, s)
    PROVE  s = a
<1>1. FindsEntry(es, cap, n, a)
  BY DEF AllEntriesFound, HoldsName
<1>2. PICK i \in Indices(cap) : Orbit(n, cap)[i] = a /\ StopsFirst(es, cap, n, i)
  BY <1>1, EntryFoundBefore
<1> QED BY <1>2, HeldEntryFound

\* A store at the entry found for its name cuts nothing off.
LEMMA EntriesFoundAfterStore ==
    ASSUME NEW cap, IsPowerOfTwo(cap), NEW es \in [Indices(cap) -> Entry],
           AllEntriesFound(es, cap), NEW e \in Entry, IsOccupied(e),
           NEW s \in Indices(cap), FindsEntry(es, cap, NameOf[e.key], s)
    PROVE  AllEntriesFound([es EXCEPT ![s] = e], cap)
<1> DEFINE fs == [es EXCEPT ![s] = e]
           t == NameOf[e.key]
<1>c. cap \in Nat
  BY DEF IsPowerOfTwo
<1>t. t \in Names
  BY KeyName
<1>f. fs[s] = e /\ \A r \in Indices(cap) : r # s => fs[r] = es[r]
  OBVIOUS
<1>1. FindsEntry(fs, cap, t, s)
  <2>1. PICK i \in Indices(cap) :
          Orbit(t, cap)[i] = s /\ \A j \in 0 .. i-1 : ~StopsHere(es[Orbit(t, cap)[j]], t)
    BY <1>c, <1>t, EntryFoundBefore
  <2>2. ASSUME NEW j \in 0 .. i-1 PROVE ~StopsHere(fs[Orbit(t, cap)[j]], t)
    <3>1. j \in Indices(cap) /\ j # i
      BY <1>c DEF Indices
    <3>2. Orbit(t, cap)[j] \in Indices(cap) /\ Orbit(t, cap)[j] # s
      BY <1>t, <2>1, <3>1, OrbitRange, OrbitOnce
    <3> QED BY <1>f, <2>1, <3>2
  <2>3. HoldsName(fs[Orbit(t, cap)[i]], t)
    BY <1>f, <2>1 DEF HoldsName
  <2>4. StopsFirst(fs, cap, t, i)
    BY <2>2, <2>3 DEF StopsFirst, StopsHere
  <2> HIDE DEF fs, t
  <2> QED BY <1>c, <1>t, <2>1, <2>3, <2>4, HeldEntryFound
<1>2. ASSUME NEW r \in Indices(cap), r # s, IsOccupied(es[r])
      PROVE  FindsEntry(fs, cap, NameOf[es[r].key], r)
  <2> DEFINE u == NameOf[es[r].key]
  <2>u. u \in Names
    BY <1>2, KeyName
  <2>1. FindsEntry(es, cap, u, r) /\ HoldsName(es[r], u)
    BY <1>2 DEF AllEntriesFound, HoldsName
  <2>2. PICK i \in Indices(cap) : Orbit(u, cap)[i] = r /\ StopsFirst(es, cap, u, i)
    BY <1>c, <2>u, <2>1, EntryFoundBefore
  <2>3. u # t
    <3> SUFFICES ASSUME u = t PROVE FALSE
      OBVIOUS
    <3>1. FindsEntry(es, cap, u, s)
      OBVIOUS
    <3> HIDE DEF fs, t, u
    <3>2. s = r
      BY <1>c, <2>u, <2>1, <3>1, NameHeldOnce
    <3> QED BY <1>2, <3>2
  <2>4. ~HoldsName(fs[s], u) /\ ~IsEmptyEntry(fs[s])
    BY <1>f, <2>3 DEF HoldsName, IsEmptyEntry, IsOccupied
  <2>5. ASSUME NEW j \in 0 .. i-1 PROVE ~StopsHere(fs[Orbit(u, cap)[j]], u)
    <3>1. j \in Indices(cap)
      BY <1>c DEF Indices
    <3>2. Orbit(u, cap)[j] \in Indices(cap)
      BY <2>u, <3>1, OrbitRange
    <3>3. ~StopsHere(es[Orbit(u, cap)[j]], u)
      BY <2>2 DEF StopsFirst
    <3> HIDE DEF fs, u
    <3> QED BY <1>f, <2>4, <3>2, <3>3 DEF StopsHere
  <2>6. fs[r] = es[r]
    BY <1>2, <1>f
  <2> HIDE DEF fs, u
  <2>7. HoldsName(fs[Orbit(u, cap)[i]], u)
    BY <2>1, <2>2, <2>6
  <2>8. StopsFirst(fs, cap, u, i)
    BY <2>5, <2>7 DEF StopsFirst, StopsHere
  <2>9. FindsEntry(fs, cap, u, r)
    BY <1>c, <2>u, <2>2, <2>7, <2>8, HeldEntryFound
  <2> QED BY <2>9 DEF u
<1> HIDE DEF fs
<1>3. ASSUME NEW r \in Indices(cap), IsOccupied(fs[r])
      PROVE  FindsEntry(fs, cap, NameOf[fs[r].key], r)
  <2>1. CASE r = s
    BY <1>1, <1>f, <2>1
  <2>2. CASE r # s
    <3>1. fs[r] = es[r]
      BY <1>f, <2>2
    <3> QED BY <1>2, <1>3, <2>2, <3>1
  <2> QED BY <2>1, <2>2
<1> QED BY <1>3 DEF AllEntriesFound, fs

\* Removing one cuts nothing off: a tombstone stops no probe.
LEMMA EntriesFoundAfterRemove ==
    ASSUME NEW cap, IsPowerOfTwo(cap), NEW es \in [Indices(cap) -> Entry],
           AllEntriesFound(es, cap), NEW s \in Indices(cap), IsOccupied(es[s])
    PROVE  AllEntriesFound([es EXCEPT ![s] = TombstoneEntry], cap)
<1> DEFINE fs == [es EXCEPT ![s] = TombstoneEntry]
<1>c. cap \in Nat
  BY DEF IsPowerOfTwo
<1>f. fs[s] = TombstoneEntry /\ \A r \in Indices(cap) : r # s => fs[r] = es[r]
  OBVIOUS
<1> HIDE DEF fs
<1> SUFFICES ASSUME NEW r \in Indices(cap), IsOccupied(fs[r])
             PROVE  FindsEntry(fs, cap, NameOf[fs[r].key], r)
  BY DEF AllEntriesFound, fs
<1>1. fs[r] = es[r]
  BY <1>f, EntryTypes
<1> DEFINE u == NameOf[fs[r].key]
<1>u. u \in Names
  BY <1>1, KeyName
<1>2. FindsEntry(es, cap, u, r) /\ HoldsName(es[r], u)
  BY <1>1 DEF AllEntriesFound, HoldsName
<1> HIDE DEF u
<1>3. PICK i \in Indices(cap) : Orbit(u, cap)[i] = r /\ StopsFirst(es, cap, u, i)
  BY <1>c, <1>u, <1>2, EntryFoundBefore
<1>4. ASSUME NEW j \in 0 .. i-1 PROVE ~StopsHere(fs[Orbit(u, cap)[j]], u)
  <2>1. j \in Indices(cap)
    BY <1>c DEF Indices
  <2>2. Orbit(u, cap)[j] \in Indices(cap)
    BY <1>u, <2>1, OrbitRange
  <2>3. ~StopsHere(es[Orbit(u, cap)[j]], u)
    BY <1>3 DEF StopsFirst
  <2> QED BY <1>f, <2>2, <2>3, EntryTypes DEF StopsHere, HoldsName
<1>5. HoldsName(fs[Orbit(u, cap)[i]], u)
  BY <1>1, <1>2, <1>3
<1>6. StopsFirst(fs, cap, u, i)
  BY <1>4, <1>5 DEF StopsFirst, StopsHere
<1>7. FindsEntry(fs, cap, u, r)
  BY <1>c, <1>u, <1>3, <1>5, <1>6, HeldEntryFound
<1> QED BY <1>7 DEF u
-----------------------------------------------------------------------------
(***************************************************************************)
(* Counting occupied entries.                                              *)
(***************************************************************************)
LEMMA OccupiedFinite ==
    ASSUME NEW cap \in Nat, NEW es
    PROVE  /\ IsFiniteSet(Occupied(es, cap)) /\ Cardinality(Occupied(es, cap)) \in Nat
           /\ Cardinality(Occupied(es, cap)) <= cap
<1>1. Occupied(es, cap) \subseteq Indices(cap)
  BY DEF Occupied
<1> QED BY <1>1, IndicesFinite, FS_Subset, FS_CardinalityType

LEMMA OccupiedAfterStore ==
    ASSUME NEW cap \in Nat, NEW es \in [Indices(cap) -> Entry],
           NEW s \in Indices(cap), NEW e, IsOccupied(e)
    PROVE  Cardinality(Occupied([es EXCEPT ![s] = e], cap))
             = IF IsOccupied(es[s]) THEN Cardinality(Occupied(es, cap))
                                    ELSE Cardinality(Occupied(es, cap)) + 1
<1> DEFINE U == Occupied(es, cap)
           V == Occupied([es EXCEPT ![s] = e], cap)
<1>1. V = U \cup {s} /\ (s \in U <=> IsOccupied(es[s]))
  BY DEF Occupied
<1>2. IsFiniteSet(U)
  BY OccupiedFinite
<1> HIDE DEF U, V
<1>3. Cardinality(V) = IF s \in U THEN Cardinality(U) ELSE Cardinality(U) + 1
  BY <1>1, <1>2, FS_AddElement
<1> QED BY <1>1, <1>3 DEF U, V

LEMMA OccupiedAfterRemove ==
    ASSUME NEW cap \in Nat, NEW es \in [Indices(cap) -> Entry],
           NEW s \in Indices(cap), IsOccupied(es[s])
    PROVE  Cardinality(Occupied([es EXCEPT ![s] = TombstoneEntry], cap))
             = Cardinality(Occupied(es, cap)) - 1
<1> DEFINE U == Occupied(es, cap)
           V == Occupied([es EXCEPT ![s] = TombstoneEntry], cap)
<1>1. V = U \ {s} /\ s \in U
  BY EntryTypes DEF Occupied
<1>2. IsFiniteSet(U)
  BY OccupiedFinite
<1> HIDE DEF U, V
<1>3. Cardinality(V) = Cardinality(U) - 1
  BY <1>1, <1>2, FS_RemoveElement
<1> QED BY <1>3 DEF U, V

\* The first entries of an array, counted one by one.
LEMMA OccupiedNext ==
    ASSUME NEW i \in Nat, NEW es
    PROVE  Cardinality(Occupied(es, i+1))
             = IF IsOccupied(es[i]) THEN Cardinality(Occupied(es, i)) + 1
                                    ELSE Cardinality(Occupied(es, i))
<1> DEFINE U == Occupied(es, i)
           V == Occupied(es, i+1)
<1>1. i \notin U
  BY DEF Occupied, Indices
<1>2. \A j : j \in Indices(i+1) <=> j \in Indices(i) \/ j = i
  BY DEF Indices
<1>3. V = IF IsOccupied(es[i]) THEN U \cup {i} ELSE U
  BY <1>2 DEF Occupied
<1>4. IsFiniteSet(U)
  BY OccupiedFinite
<1> HIDE DEF U, V
<1>5. Cardinality(U \cup {i}) = Cardinality(U) + 1
  BY <1>1, <1>4, FS_AddElement
<1>6. Cardinality(V) = IF IsOccupied(es[i]) THEN Cardinality(U) + 1 ELSE Cardinality(U)
  BY <1>3, <1>5
<1> QED BY <1>6 DEF U, V

-----------------------------------------------------------------------------
(***************************************************************************)
(* Rehashing keeps the entries, their number and nothing else.             *)
(***************************************************************************)
Unremoved(es, cap) == \A s \in Indices(cap) : ~IsOccupied(es[s]) => es[s] = EmptyEntry

HoldsFirst(new, newCap, es, i) ==
    /\ \A q \in 0 .. i-1 : IsOccupied(es[q]) => \E r \in Indices(newCap) : new[r] = es[q]
    /\ \A r \in Indices(newCap) : IsOccupied(new[r]) => \E q \in 0 .. i-1 : es[q] = new[r]

\* What has been moved after i iterations of adjust_capacity's loop.
MovedFirst(new, newCap, es, i) ==
    /\ new \in [Indices(newCap) -> Entry]
    /\ Unremoved(new, newCap)
    /\ AllEntriesFound(new, newCap)
    /\ HoldsFirst(new, newCap, es, i)
    /\ Cardinality(Occupied(new, newCap)) = Cardinality(Occupied(es, i))

MoveStep(new, newCap, e) ==
    IF IsOccupied(e) THEN [new EXCEPT ![FoundIndex(new, newCap, NameOf[e.key])] = e]
                     ELSE new

LEMMA RehashSteps ==
    ASSUME NEW cap \in Nat, NEW es \in [Indices(cap) -> Entry], NEW newCap \in Nat
    PROVE  \E new : /\ Rehashed(es, cap, newCap) = new[cap]
                    /\ new[0] = [s \in Indices(newCap) |-> EmptyEntry]
                    /\ \A i \in 0 .. cap-1 : new[i+1] = MoveStep(new[i], newCap, es[i])
<1> DEFINE D == 0 .. cap
           C == [Indices(newCap) -> Entry]
           Start == [s \in Indices(newCap) |-> EmptyEntry]
           F == [f \in [D -> C] |-> [i \in D |-> IF i = 0 THEN Start
                                                 ELSE MoveStep(f[i-1], newCap, es[i-1])]]
           R == [i \in D |-> i]
<1>e. /\ 0 \in D /\ cap \in D
      /\ \A i \in D : i \in Nat /\ (i # 0 => i-1 \in D /\ i-1 < i /\ i-1 \in Indices(cap))
  BY DEF Indices
<1>s. Start \in C
  BY EntryTypes
<1>m. ASSUME NEW a \in C, NEW i \in Indices(cap) PROVE MoveStep(a, newCap, es[i]) \in C
  BY DEF MoveStep
<1> HIDE DEF D, C, Start
<1>1. R \in [D -> Nat] /\ C # {}
  BY <1>e, <1>s
<1>2. F \in [[D -> C] -> [D -> C]]
  <2>1. ASSUME NEW f \in [D -> C], NEW i \in D
        PROVE  (IF i = 0 THEN Start ELSE MoveStep(f[i-1], newCap, es[i-1])) \in C
    <3>1. CASE i = 0
      BY <1>s, <3>1
    <3>2. CASE i # 0
      <4>1. f[i-1] \in C /\ i-1 \in Indices(cap)
        BY <1>e, <3>2
      <4> QED BY <1>m, <3>2, <4>1
    <3> QED BY <3>1, <3>2
  <2> QED BY <2>1
<1>3. ASSUME NEW f \in [D -> C], NEW g \in [D -> C], NEW x \in D,
             \A y \in D : R[y] < R[x] => f[y] = g[y]
      PROVE  F[f][x] = F[g][x]
  <2>1. CASE x = 0
    BY <2>1
  <2>2. CASE x # 0
    <3>1. x-1 \in D /\ x-1 < x
      BY <1>e, <2>2
    <3>2. f[x-1] = g[x-1]
      BY <1>3, <3>1
    <3> QED BY <2>2, <3>2
  <2> QED BY <2>1, <2>2
<1>4. \E f \in [D -> C] : f = F[f]
  <2> HIDE DEF F, R
  <2>1. ByRank(D, C, R, F)
    BY <1>1, <1>2, <1>3 DEF ByRank
  <2> QED BY <2>1, FunctionsByRank
<1> DEFINE Follows(f) ==
       f = [i \in 0 .. cap |->
              IF i = 0 THEN [s \in Indices(newCap) |-> EmptyEntry]
              ELSE LET before == f[i-1]
                       e == es[i-1]
                   IN  IF IsOccupied(e)
                       THEN [before EXCEPT ![FoundIndex(before, newCap, NameOf[e.key])] = e]
                       ELSE before]
<1>5. \E f : Follows(f)
  BY <1>4 DEF D, C, Start, MoveStep
<1> DEFINE new == CHOOSE f : Follows(f)
<1>6. Follows(new)
  <2> HIDE DEF Follows
  <2> QED BY <1>5
<1>7. Rehashed(es, cap, newCap) = new[cap]
  BY DEF Rehashed
<1> HIDE DEF new
<1>8. new[0] = [s \in Indices(newCap) |-> EmptyEntry]
  BY <1>6
<1>9. ASSUME NEW i \in 0 .. cap-1 PROVE new[i+1] = MoveStep(new[i], newCap, es[i])
  <2>1. i+1 \in 0 .. cap /\ i+1 # 0 /\ (i+1)-1 = i
    OBVIOUS
  <2> QED BY <1>6, <2>1 DEF MoveStep
<1> QED BY <1>7, <1>8, <1>9

LEMMA OneMoved ==
    ASSUME NEW cap \in Nat, NEW es \in [Indices(cap) -> Entry], AllEntriesFound(es, cap),
           NEW newCap, IsPowerOfTwo(newCap), cap < newCap,
           NEW i \in 0 .. cap-1, NEW new, MovedFirst(new, newCap, es, i)
    PROVE  MovedFirst(MoveStep(new, newCap, es[i]), newCap, es, i+1)
<1> DEFINE e == es[i]
           moved == MoveStep(new, newCap, e)
<1>n. newCap \in Nat \ {0} /\ i \in Nat /\ i \in Indices(cap) /\ e \in Entry
  BY DEF IsPowerOfTwo, Indices
<1>c. Cardinality(Occupied(es, i+1)) = IF IsOccupied(e) THEN Cardinality(Occupied(es, i)) + 1
                                                        ELSE Cardinality(Occupied(es, i))
  BY <1>n, OccupiedNext
<1>q. \A q : q \in 0 .. (i+1)-1 <=> q \in 0 .. i-1 \/ q = i
  BY <1>n
<1>m. /\ new \in [Indices(newCap) -> Entry] /\ Unremoved(new, newCap)
      /\ AllEntriesFound(new, newCap) /\ HoldsFirst(new, newCap, es, i)
      /\ Cardinality(Occupied(new, newCap)) = Cardinality(Occupied(es, i))
  BY DEF MovedFirst
<1>1. CASE ~IsOccupied(e)
  <2>1. moved = new
    BY <1>1 DEF MoveStep
  <2>2. HoldsFirst(new, newCap, es, i+1)
    BY <1>1, <1>m, <1>q DEF HoldsFirst
  <2> HIDE DEF moved
  <2> QED BY <1>1, <1>c, <1>m, <2>1, <2>2 DEF MovedFirst, moved
<1>2. CASE IsOccupied(e)
  <2> DEFINE n == NameOf[e.key]
             s == FoundIndex(new, newCap, n)
  <2>n. n \in Names
    BY <1>n, <1>2, KeyName
  <2>1. \E r \in Indices(newCap) : ~IsOccupied(new[r])
    <3> SUFFICES ASSUME \A r \in Indices(newCap) : IsOccupied(new[r]) PROVE FALSE
      OBVIOUS
    <3>1. Occupied(new, newCap) = Indices(newCap)
      BY DEF Occupied
    <3>2. Cardinality(Occupied(new, newCap)) = newCap
      BY <1>n, <3>1, IndicesFinite
    <3>3. Cardinality(Occupied(es, i)) <= i
      BY <1>n, OccupiedFinite
    <3> QED BY <1>n, <1>m, <3>2, <3>3
  <2>2. PICK r \in Indices(newCap) : IsEmptyEntry(new[r])
    BY <1>m, <2>1, EntryTypes DEF Unremoved
  <2>3. \E r1 \in Indices(newCap) : FindsEntry(new, newCap, n, r1)
    BY <2>n, <2>2, EmptyEntryFinds
  <2> HIDE DEF n
  <2>4. s \in Indices(newCap) /\ FindsEntry(new, newCap, n, s)
    BY <2>3 DEF FoundIndex
  <2> HIDE DEF s
  <2>5. moved = [new EXCEPT ![s] = e]
    BY <1>2 DEF MoveStep, s, n
  <2> HIDE DEF e, moved
  <2>6. ~IsOccupied(new[s])
    <3> SUFFICES ASSUME IsOccupied(new[s]) PROVE FALSE
      OBVIOUS
    <3>1. HoldsName(new[s], n)
      BY <2>4, OccupiedFindHolds
    <3>2. PICK q \in 0 .. i-1 : es[q] = new[s]
      BY <1>m, <2>4 DEF HoldsFirst
    <3>3. q \in Indices(cap) /\ q # i
      BY <1>n, <3>2 DEF Indices
    <3>4. HoldsName(es[q], n) /\ HoldsName(es[i], n)
      BY <1>2, <3>1, <3>2 DEF HoldsName, e, n
    <3>5. FindsEntry(es, cap, n, i)
      BY <1>n, <3>4 DEF AllEntriesFound, HoldsName
    <3>6. i = q
      BY <2>n, <3>3, <3>4, <3>5, NameHeldOnce
    <3> QED BY <3>3, <3>6
  <2>f. moved[s] = e /\ \A r1 \in Indices(newCap) : r1 # s => moved[r1] = new[r1]
    BY <1>m, <2>4, <2>5
  <2>7. moved \in [Indices(newCap) -> Entry]
    BY <1>n, <1>m, <2>5
  <2>8. Unremoved(moved, newCap)
    BY <1>2, <1>m, <2>f DEF Unremoved
  <2>9. AllEntriesFound(moved, newCap)
    <3>1. FindsEntry(new, newCap, NameOf[e.key], s)
      BY <2>4 DEF n
    <3>2. AllEntriesFound([new EXCEPT ![s] = e], newCap)
      BY <1>n, <1>2, <1>m, <2>4, <3>1, EntriesFoundAfterStore
    <3> QED BY <2>5, <3>2
  <2>10. Cardinality(Occupied(moved, newCap)) = Cardinality(Occupied(new, newCap)) + 1
    BY <1>n, <1>2, <1>m, <2>4, <2>5, <2>6, OccupiedAfterStore
  <2>11. HoldsFirst(moved, newCap, es, i+1)
    <3>1. ASSUME NEW q \in 0 .. (i+1)-1, IsOccupied(es[q])
          PROVE  \E r1 \in Indices(newCap) : moved[r1] = es[q]
      <4>1. CASE q = i
        BY <2>4, <2>f, <4>1 DEF e
      <4>2. CASE q # i
        <5>1. q \in 0 .. i-1
          BY <1>q, <4>2
        <5>2. PICK r1 \in Indices(newCap) : new[r1] = es[q]
          BY <1>m, <3>1, <5>1 DEF HoldsFirst
        <5>3. r1 # s
          BY <2>6, <3>1, <5>2
        <5> QED BY <2>f, <5>2, <5>3
      <4> QED BY <4>1, <4>2
    <3>2. ASSUME NEW r1 \in Indices(newCap), IsOccupied(moved[r1])
          PROVE  \E q \in 0 .. (i+1)-1 : es[q] = moved[r1]
      <4>1. CASE r1 = s
        BY <1>q, <2>f, <4>1 DEF e
      <4>2. CASE r1 # s
        BY <1>m, <1>q, <2>f, <3>2, <4>2 DEF HoldsFirst
      <4> QED BY <4>1, <4>2
    <3> QED BY <3>1, <3>2 DEF HoldsFirst
  <2>12. Cardinality(Occupied(moved, newCap)) = Cardinality(Occupied(es, i+1))
    BY <1>2, <1>c, <1>m, <2>10
  <2> QED BY <2>7, <2>8, <2>9, <2>11, <2>12 DEF MovedFirst, moved, e
<1> QED BY <1>1, <1>2

LEMMA RehashKeeps ==
    ASSUME NEW cap \in Nat, NEW es \in [Indices(cap) -> Entry], AllEntriesFound(es, cap),
           NEW newCap, IsPowerOfTwo(newCap), cap < newCap
    PROVE  MovedFirst(Rehashed(es, cap, newCap), newCap, es, cap)
<1>n. newCap \in Nat
  BY DEF IsPowerOfTwo
<1>1. PICK new : /\ Rehashed(es, cap, newCap) = new[cap]
                 /\ new[0] = [s \in Indices(newCap) |-> EmptyEntry]
                 /\ \A i \in 0 .. cap-1 : new[i+1] = MoveStep(new[i], newCap, es[i])
  BY <1>n, RehashSteps
<1> DEFINE T == {i \in 0 .. cap : ~MovedFirst(new[i], newCap, es, i)}
<1>2. SUFFICES ASSUME T # {} PROVE FALSE
  BY <1>1
<1>3. PICK i \in T : \A j \in T : i <= j
  <2>1. T \in SUBSET Nat
    OBVIOUS
  <2> HIDE DEF T
  <2> QED BY <1>2, <2>1, LeastNat
<1>4. i # 0
  <2> DEFINE start == new[0]
  <2>1. start \in [Indices(newCap) -> Entry] /\ \A s \in Indices(newCap) : start[s] = EmptyEntry
    BY <1>1, EntryTypes
  <2> HIDE DEF start
  <2>2. \A s \in Indices(newCap) : ~IsOccupied(start[s])
    BY <2>1, EntryTypes
  <2>3. Occupied(start, newCap) = {} /\ Occupied(es, 0) = {}
    BY <2>2 DEF Occupied, Indices
  <2>4. HoldsFirst(start, newCap, es, 0)
    BY <2>2 DEF HoldsFirst
  <2>5. MovedFirst(start, newCap, es, 0)
    BY <2>1, <2>2, <2>3, <2>4 DEF MovedFirst, Unremoved, AllEntriesFound
  <2> QED BY <1>3, <2>5 DEF start
<1> DEFINE h == i - 1
<1>5. h \in 0 .. cap-1 /\ h \in 0 .. cap /\ h \notin T /\ i = h + 1
  BY <1>3, <1>4
<1>6. MovedFirst(new[h], newCap, es, h)
  BY <1>5
<1>7. MovedFirst(MoveStep(new[h], newCap, es[h]), newCap, es, h+1)
  <2> HIDE DEF h
  <2> QED BY <1>5, <1>6, OneMoved
<1> QED BY <1>1, <1>3, <1>5, <1>7
-----------------------------------------------------------------------------
(***************************************************************************)
(* The invariant: every entry is found under its name, and what is not     *)
(* occupied is empty or a tombstone.                                       *)
(***************************************************************************)
Marked(es, cap) ==
    \A s \in Indices(cap) : ~IsOccupied(es[s]) => es[s] \in {EmptyEntry, TombstoneEntry}

ArrayInv(es, cap) ==
    /\ IsPowerOfTwo(cap) /\ es \in [Indices(cap) -> Entry]
    /\ AllEntriesFound(es, cap) /\ Marked(es, cap)

ObjectInv == ObjectTypeOK /\ ArrayInv(objectEntries, objectCapacity)

LEMMA NextIsPower ==
    ASSUME NEW cap, IsPowerOfTwo(cap)
    PROVE  /\ IsPowerOfTwo(NextCapacity(cap)) /\ cap < NextCapacity(cap)
           /\ \A n \in Nat : 100 * n <= 65 * cap => 100 * (n + 1) <= 65 * NextCapacity(cap)
<1>c. cap \in Nat \ {0}
  BY DEF IsPowerOfTwo
<1>1. IsPowerOfTwo(1)
  BY DEF IsPowerOfTwo
<1>2. IsPowerOfTwo(2 * 1) /\ IsPowerOfTwo(2 * (2 * 1))
  BY <1>1, DoubleOfPower
<1>3. IsPowerOfTwo(4)
  <2>1. 2 * (2 * 1) = 4
    OBVIOUS
  <2> QED BY <1>2, <2>1
<1>4. IsPowerOfTwo(cap * 2)
  <2>1. cap * 2 = 2 * cap
    BY <1>c
  <2> QED BY <2>1, DoubleOfPower
<1>5. IsPowerOfTwo(NextCapacity(cap))
  BY <1>3, <1>4 DEF NextCapacity
<1>6. cap < NextCapacity(cap)
  BY <1>c DEF NextCapacity
<1>7. \A n \in Nat : 100 * n <= 65 * cap => 100 * (n + 1) <= 65 * NextCapacity(cap)
  BY <1>c DEF NextCapacity
<1> QED BY <1>5, <1>6, <1>7

\* The store at the end of object_table_set.
LEMMA StoreEntrySound ==
    ASSUME NEW cap, NEW es, ArrayInv(es, cap), NEW n, n = Cardinality(Occupied(es, cap)),
           100 * (n + 1) <= 65 * cap,
           NEW k \in KeyValues, NEW v \in ObjectValues, StoreEntry(es, cap, n, k, v)
    PROVE  /\ objectCapacity' = cap /\ ArrayInv(objectEntries', cap)
           /\ size' = Cardinality(Occupied(objectEntries', cap)) /\ 100 * size' <= 65 * cap
           /\ objectOk' \in BOOLEAN /\ objectOut' = Absent
<1> DEFINE e == [key |-> k, value |-> v]
<1>c. cap \in Nat \ {0} /\ es \in [Indices(cap) -> Entry] /\ AllEntriesFound(es, cap) /\ IsPowerOfTwo(cap)
  BY DEF ArrayInv, IsPowerOfTwo
<1>e. e \in Entry /\ IsOccupied(e) /\ e.key = k
  BY KeyValuesAssumption DEF Entry, IsOccupied
<1>1. PICK s \in Indices(cap) :
        /\ FindsEntry(es, cap, NameOf[e.key], s)
        /\ objectEntries' = [es EXCEPT ![s] = e]
        /\ size' = IF IsOccupied(es[s]) THEN n ELSE n + 1
        /\ objectOk' = TRUE
  BY <1>e DEF StoreEntry
<1>2. objectCapacity' = cap /\ objectOut' = Absent
  BY DEF StoreEntry
<1> HIDE DEF e
<1>3. AllEntriesFound(objectEntries', cap)
  BY <1>c, <1>e, <1>1, EntriesFoundAfterStore
<1>4. objectEntries' \in [Indices(cap) -> Entry]
  BY <1>c, <1>e, <1>1
<1>5. Marked(objectEntries', cap)
  <2>1. \A r \in Indices(cap) : objectEntries'[r] = IF r = s THEN e ELSE es[r]
    BY <1>c, <1>1
  <2> QED BY <1>e, <2>1 DEF ArrayInv, Marked
<1>6. size' = Cardinality(Occupied(objectEntries', cap))
  BY <1>c, <1>e, <1>1, OccupiedAfterStore
<1>7. 100 * size' <= 65 * cap
  <2>1. n \in Nat
    BY <1>c, OccupiedFinite
  <2> QED BY <1>c, <1>1, <2>1
<1>8. objectOk' \in BOOLEAN
  BY <1>1
<1> QED BY <1>c, <1>2, <1>3, <1>4, <1>5, <1>6, <1>7, <1>8 DEF ArrayInv

\* The array that adjust_capacity fills.
LEMMA RehashSound ==
    ASSUME NEW cap, NEW es, ArrayInv(es, cap)
    PROVE  LET newCap == NextCapacity(cap)
               new == Rehashed(es, cap, newCap)
           IN  /\ ArrayInv(new, newCap) /\ HoldsFirst(new, newCap, es, cap)
               /\ Cardinality(Occupied(new, newCap)) = Cardinality(Occupied(es, cap))
<1> DEFINE newCap == NextCapacity(cap)
           new == Rehashed(es, cap, newCap)
<1>1. IsPowerOfTwo(newCap) /\ cap < newCap /\ cap \in Nat
  BY NextIsPower DEF ArrayInv, IsPowerOfTwo
<1> HIDE DEF newCap
<1>2. MovedFirst(new, newCap, es, cap)
  BY <1>1, RehashKeeps DEF ArrayInv
<1> HIDE DEF new
<1>3. ArrayInv(new, newCap)
  BY <1>1, <1>2 DEF MovedFirst, ArrayInv, Marked, Unremoved
<1>4. HoldsFirst(new, newCap, es, cap) /\ Cardinality(Occupied(new, newCap)) = Cardinality(Occupied(es, cap))
  BY <1>2 DEF MovedFirst
<1> QED BY <1>3, <1>4 DEF new, newCap

\* The two ways a set stores.
LEMMA SetStores ==
    ASSUME ObjectInv, NEW k \in KeyValues, NEW v \in ObjectValues, ObjectSet(k, v)
    PROVE  \/ Hang /\ ~hung /\ (IF SizeNeedsGrowth
                                THEN /\ NextCapacity(objectCapacity) <= MaxObjectCapacity
                                     /\ ~StaysInside(NextCapacity(objectCapacity))
                                ELSE ~FindReturns(objectEntries, objectCapacity, NameOf[k]))
           \/ /\ hung' = FALSE
              /\ \E cap, es :
                    /\ ArrayInv(es, cap) /\ Cardinality(Occupied(es, cap)) = size
                    /\ 100 * (size + 1) <= 65 * cap
                    /\ StoreEntry(es, cap, size, k, v)
                    /\ cap = objectCapacity \/ cap <= MaxObjectCapacity
                    /\ HoldsFirst(es, cap, objectEntries, objectCapacity)
<1>i. ObjectTypeOK /\ ArrayInv(objectEntries, objectCapacity)
  BY DEF ObjectInv
<1>s. /\ size = Cardinality(Occupied(objectEntries, objectCapacity)) /\ size \in Nat
      /\ 100 * size <= 65 * objectCapacity /\ objectCapacity \in Nat \ {0}
      /\ hung \in BOOLEAN
  BY <1>i, OccupiedFinite DEF ObjectTypeOK
<1>h. ~hung
  BY DEF ObjectSet
<1>1. CASE SizeNeedsGrowth
  <2> DEFINE newCap == NextCapacity(objectCapacity)
             new == Rehashed(objectEntries, objectCapacity, newCap)
  <2>0. newCap <= MaxObjectCapacity
    BY <1>1 DEF ObjectSet
  <2>1. CASE StaysInside(newCap)
    <3>1. StoreEntry(new, newCap, size, k, v) /\ hung' = hung
      BY <1>1, <2>1 DEF ObjectSet
    <3>2. /\ ArrayInv(new, newCap) /\ HoldsFirst(new, newCap, objectEntries, objectCapacity)
          /\ Cardinality(Occupied(new, newCap)) = size
      BY <1>i, <1>s, RehashSound
    <3>3. 100 * (size + 1) <= 65 * newCap
      BY <1>i, <1>s, NextIsPower DEF ArrayInv
    <3> HIDE DEF newCap, new
    <3> QED BY <1>s, <1>h, <2>0, <3>1, <3>2, <3>3
  <2>2. CASE ~StaysInside(newCap)
    <3>1. Hang
      BY <1>1, <2>2 DEF ObjectSet
    <3> QED BY <1>1, <1>h, <2>0, <2>2, <3>1
  <2> QED BY <2>1, <2>2
<1>2. CASE ~SizeNeedsGrowth
  <2>1. CASE FindReturns(objectEntries, objectCapacity, NameOf[k])
    <3>1. StoreEntry(objectEntries, objectCapacity, size, k, v) /\ hung' = hung
      BY <1>2, <2>1 DEF ObjectSet
    <3>2. 100 * (size + 1) <= 65 * objectCapacity
      BY <1>s, <1>2 DEF SizeNeedsGrowth
    <3>3. HoldsFirst(objectEntries, objectCapacity, objectEntries, objectCapacity)
      BY DEF HoldsFirst, Indices
    <3> QED BY <1>i, <1>s, <1>h, <3>1, <3>2, <3>3
  <2>2. CASE ~FindReturns(objectEntries, objectCapacity, NameOf[k])
    <3>1. Hang
      BY <1>2, <2>2 DEF ObjectSet
    <3> QED BY <1>2, <1>h, <2>2, <3>1
  <2> QED BY <2>1, <2>2
<1> QED BY <1>1, <1>2

LEMMA ObjectInitial == ObjectInit => ObjectInv
<1> SUFFICES ASSUME ObjectInit PROVE ObjectInv
  OBVIOUS
<1>1. /\ objectEntries = [s \in Indices(objectCapacity) |-> EmptyEntry]
      /\ objectCapacity = InitialCapacity /\ size = 0 /\ hung = FALSE
      /\ objectOk = FALSE /\ objectOut = Absent
  BY DEF ObjectInit
<1>2. objectCapacity \in Nat \ {0} /\ IsPowerOfTwo(objectCapacity)
  BY <1>1, CapacityAssumption DEF IsPowerOfTwo
<1>3. \A s \in Indices(objectCapacity) : objectEntries[s] = EmptyEntry
  BY <1>1
<1>4. Occupied(objectEntries, objectCapacity) = {}
  BY <1>3, EntryTypes DEF Occupied
<1>5. size = Cardinality(Occupied(objectEntries, objectCapacity))
  BY <1>1, <1>4, FS_EmptySet
<1>6. ArrayInv(objectEntries, objectCapacity)
  BY <1>1, <1>2, <1>3, EntryTypes DEF ArrayInv, Marked, AllEntriesFound
<1>7. objectEntries \in [Indices(objectCapacity) -> Entry] /\ 100 * size <= 65 * objectCapacity
  BY <1>1, <1>2, <1>6 DEF ArrayInv
<1> QED BY <1>1, <1>2, <1>5, <1>6, <1>7 DEF ObjectInv, ObjectTypeOK

LEMMA ObjectInductive == ObjectInv /\ [ObjectNext]_objectVars => ObjectInv'
<1> SUFFICES ASSUME ObjectInv, [ObjectNext]_objectVars PROVE ObjectInv'
  OBVIOUS
<1>i. ObjectTypeOK /\ ArrayInv(objectEntries, objectCapacity)
  BY DEF ObjectInv
<1>s. /\ size = Cardinality(Occupied(objectEntries, objectCapacity)) /\ size \in Nat
      /\ 100 * size <= 65 * objectCapacity /\ objectCapacity \in Nat \ {0}
      /\ objectEntries \in [Indices(objectCapacity) -> Entry]
      /\ hung \in BOOLEAN /\ objectOk \in BOOLEAN /\ objectOut \in ObjectValues \cup {Absent}
  BY <1>i, OccupiedFinite DEF ObjectTypeOK
<1>h. Hang => ObjectInv'
  BY <1>i DEF Hang, ObjectInv, ObjectTypeOK
<1>1. ASSUME NEW k \in KeyValues, NEW v \in ObjectValues, ObjectSet(k, v) PROVE ObjectInv'
  <2>1. CASE Hang
    BY <1>h, <2>1
  <2>2. CASE ~Hang
    <3>1. hung' = FALSE /\ \E cap, es :
            /\ ArrayInv(es, cap) /\ Cardinality(Occupied(es, cap)) = size
            /\ 100 * (size + 1) <= 65 * cap
            /\ StoreEntry(es, cap, size, k, v)
      BY <1>1, <2>2, SetStores
    <3>2. PICK cap, es :
            /\ ArrayInv(es, cap) /\ Cardinality(Occupied(es, cap)) = size
            /\ 100 * (size + 1) <= 65 * cap
            /\ StoreEntry(es, cap, size, k, v)
      BY <3>1
    <3>3. /\ objectCapacity' = cap /\ ArrayInv(objectEntries', cap)
          /\ size' = Cardinality(Occupied(objectEntries', cap)) /\ 100 * size' <= 65 * cap
          /\ objectOk' \in BOOLEAN /\ objectOut' = Absent
      BY <3>2, StoreEntrySound
    <3>4. cap \in Nat \ {0} /\ objectEntries' \in [Indices(cap) -> Entry]
      BY <3>3 DEF ArrayInv, IsPowerOfTwo
    <3> QED BY <3>1, <3>3, <3>4 DEF ObjectInv, ObjectTypeOK
  <2> QED BY <2>1, <2>2
<1>2. ASSUME NEW n \in Names, ObjectRemove(n) PROVE ObjectInv'
  <2>1. CASE ~FindReturns(objectEntries, objectCapacity, n)
    BY <1>2, <1>h, <2>1 DEF ObjectRemove
  <2>2. CASE FindReturns(objectEntries, objectCapacity, n)
    <3>1. PICK s \in Indices(objectCapacity) :
            /\ objectOk' = IsOccupied(objectEntries[s])
            /\ objectEntries' = IF IsOccupied(objectEntries[s])
                                THEN [objectEntries EXCEPT ![s] = TombstoneEntry]
                                ELSE objectEntries
            /\ size' = IF IsOccupied(objectEntries[s]) THEN size - 1 ELSE size
      BY <1>2, <2>2 DEF ObjectRemove
    <3>b. objectOk' \in BOOLEAN
      BY <3>1 DEF IsOccupied
    <3>2. objectOut' = Absent /\ objectCapacity' = objectCapacity /\ hung' = hung
      BY <1>2, <2>2 DEF ObjectRemove
    <3>3. CASE ~IsOccupied(objectEntries[s])
      <4>1. UNCHANGED <<objectEntries, size>> /\ objectOk' \in BOOLEAN
        BY <3>1, <3>3, <3>b
      <4> QED BY <1>i, <3>2, <4>1 DEF ObjectInv, ObjectTypeOK
    <3>4. CASE IsOccupied(objectEntries[s])
      <4>1. /\ objectEntries' = [objectEntries EXCEPT ![s] = TombstoneEntry]
            /\ size' = size - 1 /\ objectOk' \in BOOLEAN
        BY <3>1, <3>4, <3>b
      <4>2. AllEntriesFound(objectEntries', objectCapacity)
        BY <1>i, <3>4, <4>1, EntriesFoundAfterRemove DEF ArrayInv
      <4>3. size' = Cardinality(Occupied(objectEntries', objectCapacity))
        BY <1>s, <3>4, <4>1, OccupiedAfterRemove
      <4>4. objectEntries' \in [Indices(objectCapacity) -> Entry]
        BY <1>s, <4>1, EntryTypes
      <4>5. Marked(objectEntries', objectCapacity)
        <5>1. \A r \in Indices(objectCapacity) :
                 objectEntries'[r] = IF r = s THEN TombstoneEntry ELSE objectEntries[r]
          BY <1>s, <4>1
        <5> QED BY <1>i, <5>1 DEF ArrayInv, Marked
      <4>6. 100 * size' <= 65 * objectCapacity
        BY <1>s, <4>1
      <4>7. ArrayInv(objectEntries', objectCapacity)
        BY <1>i, <4>2, <4>4, <4>5 DEF ArrayInv
      <4> QED BY <1>s, <3>2, <4>1, <4>3, <4>4, <4>6, <4>7 DEF ObjectInv, ObjectTypeOK
    <3> QED BY <3>3, <3>4
  <2> QED BY <2>1, <2>2
<1>3. ASSUME NEW n \in Names, ObjectGet(n) PROVE ObjectInv'
  <2>1. CASE Hang
    BY <1>h, <2>1
  <2>2. CASE ~Hang
    <3>1. UNCHANGED <<objectEntries, objectCapacity, size, hung>>
      BY <1>3, <2>2 DEF ObjectGet
    <3>2. objectOk' \in BOOLEAN /\ objectOut' \in ObjectValues \cup {Absent}
      <4>1. CASE size = 0
        BY <1>3, <4>1 DEF ObjectGet
      <4>2. CASE size # 0
        <5>1. PICK s \in Indices(objectCapacity) :
                /\ objectOk' = IsOccupied(objectEntries[s])
                /\ objectOut' = IF IsOccupied(objectEntries[s])
                                THEN objectEntries[s].value ELSE Absent
          BY <1>3, <2>2, <4>2 DEF ObjectGet
        <5>2. objectEntries[s].value \in ObjectValues
          BY <1>s DEF Entry
        <5>3. objectOk' \in BOOLEAN
          BY <5>1 DEF IsOccupied
        <5> QED BY <5>1, <5>2, <5>3
      <4> QED BY <4>1, <4>2
    <3> QED BY <1>i, <3>1, <3>2 DEF ObjectInv, ObjectTypeOK
  <2> QED BY <2>1, <2>2
<1>4. CASE UNCHANGED objectVars
  BY <1>i, <1>4 DEF objectVars, ObjectInv, ObjectTypeOK
<1> QED BY <1>1, <1>2, <1>3, <1>4 DEF ObjectNext

-----------------------------------------------------------------------------
(***************************************************************************)
(* Only tombstones keep a call from returning.                             *)
(***************************************************************************)
\* find_entry is told every capacity the table takes.
CapacitiesFit == \A c \in {InitialCapacity} \cup 1 .. MaxObjectCapacity : StaysInside(c)

LEMMA TombstonesFinite ==
    ASSUME ObjectInv
    PROVE  IsFiniteSet(Tombstones) /\ Cardinality(Tombstones) \in Nat
<1>1. Tombstones \subseteq Indices(objectCapacity) /\ objectCapacity \in Nat
  BY DEF Tombstones, ObjectInv, ObjectTypeOK
<1> QED BY <1>1, IndicesFinite, FS_Subset, FS_CardinalityType

LEMMA FewTombstonesReturn ==
    ASSUME ObjectInv, StaysInside(objectCapacity),
           100 * Cardinality(Tombstones) < 35 * objectCapacity, NEW n \in Names
    PROVE  FindReturns(objectEntries, objectCapacity, n)
<1> DEFINE O == Occupied(objectEntries, objectCapacity)
           D == Indices(objectCapacity)
<1>i. /\ ArrayInv(objectEntries, objectCapacity) /\ objectCapacity \in Nat
      /\ 100 * Cardinality(O) <= 65 * objectCapacity
  BY DEF ObjectInv, ObjectTypeOK
<1>1. \E e \in D : IsEmptyEntry(objectEntries[e])
  <2> SUFFICES ASSUME \A e \in D : ~IsEmptyEntry(objectEntries[e]) PROVE FALSE
    OBVIOUS
  <2>1. D = O \cup Tombstones
    <3>1. \A e \in D : e \in O \/ e \in Tombstones
      BY <1>i, EntryTypes DEF ArrayInv, Marked, Occupied, Tombstones
    <3> QED BY <3>1 DEF Occupied, Tombstones
  <2>2. IsFiniteSet(O) /\ IsFiniteSet(Tombstones) /\ Cardinality(Tombstones) \in Nat
        /\ Cardinality(O) \in Nat
    BY <1>i, OccupiedFinite, TombstonesFinite
  <2>3. O \cap Tombstones = {}
    BY EntryTypes DEF Occupied, Tombstones
  <2>4. Cardinality(D) = Cardinality(O) + Cardinality(Tombstones)
    <3> HIDE DEF D, O
    <3>1. Cardinality(O \cup Tombstones)
            = Cardinality(O) + Cardinality(Tombstones) - Cardinality(O \cap Tombstones)
      BY <2>2, FS_Union
    <3>2. Cardinality(O \cap Tombstones) = 0
      BY <2>3, FS_EmptySet
    <3> QED BY <2>1, <2>2, <3>1, <3>2
  <2>5. Cardinality(D) = objectCapacity
    BY <1>i, IndicesFinite
  <2> HIDE DEF O, D
  <2> QED BY <1>i, <2>2, <2>4, <2>5
<1>2. PICK e \in D : IsEmptyEntry(objectEntries[e])
  BY <1>1
<1>3. \E s \in D : FindsEntry(objectEntries, objectCapacity, n, s)
  BY <1>i, <1>2, EmptyEntryFinds DEF ArrayInv
<1> QED BY <1>3 DEF FindReturns

HungInv == hung => 100 * Cardinality(Tombstones) >= 35 * objectCapacity

LEMMA HungStep ==
    ASSUME CapacitiesFit, ObjectInv, StaysInside(objectCapacity), HungInv,
           [ObjectNext]_objectVars
    PROVE  HungInv' /\ StaysInside(objectCapacity')
<1>i. ObjectTypeOK /\ hung \in BOOLEAN /\ objectCapacity \in Nat
  BY DEF ObjectInv, ObjectTypeOK
<1>t. Cardinality(Tombstones) \in Nat
  BY TombstonesFinite
<1>k. UNCHANGED <<objectEntries, objectCapacity>> => Tombstones' = Tombstones
  BY DEF Tombstones
<1>h. ASSUME Hang, NEW n \in Names, ~FindReturns(objectEntries, objectCapacity, n)
      PROVE  HungInv' /\ StaysInside(objectCapacity')
  <2>1. ~(100 * Cardinality(Tombstones) < 35 * objectCapacity)
    BY <1>h, FewTombstonesReturn
  <2>2. UNCHANGED <<objectEntries, objectCapacity>>
    BY <1>h DEF Hang
  <2> QED BY <1>i, <1>t, <1>k, <2>1, <2>2 DEF HungInv
<1>q. ASSUME UNCHANGED <<objectCapacity, hung>>, ~hung
      PROVE  HungInv' /\ StaysInside(objectCapacity')
  BY <1>q DEF HungInv
<1>1. ASSUME NEW k \in KeyValues, NEW v \in ObjectValues, ObjectSet(k, v)
      PROVE  HungInv' /\ StaysInside(objectCapacity')
  <2>n. NameOf[k] \in Names
    BY NameOfAssumption
  <2>1. CASE Hang
    <3>1. CASE SizeNeedsGrowth
      <4> DEFINE newCap == NextCapacity(objectCapacity)
      <4>0. newCap \in 1 .. MaxObjectCapacity => StaysInside(newCap)
        BY DEF CapacitiesFit
      <4>1. newCap <= MaxObjectCapacity /\ (~StaysInside(newCap) \/ hung' = hung)
        BY <1>1, <3>1 DEF ObjectSet
      <4>2. ~hung /\ hung'
        BY <1>1, <2>1 DEF ObjectSet, Hang
      <4>3. newCap \in Nat \ {0}
        BY NextIsPower DEF ObjectInv, ArrayInv, IsPowerOfTwo
      <4>4. newCap \in 1 .. MaxObjectCapacity
        <5> HIDE DEF newCap
        <5> QED BY <4>1, <4>3, CapacityAssumption
      <4>5. hung' # hung
        BY <4>2
      <4>6. FALSE
        <5> HIDE DEF newCap
        <5> QED BY <4>0, <4>1, <4>4, <4>5
      <4> QED BY <4>6
    <3>2. CASE ~SizeNeedsGrowth
      <4>1. ~FindReturns(objectEntries, objectCapacity, NameOf[k]) \/ hung' = hung
        BY <1>1, <3>2 DEF ObjectSet
      <4>2. ~hung /\ hung'
        BY <1>1, <2>1 DEF ObjectSet, Hang
      <4> QED BY <1>h, <2>1, <2>n, <4>1, <4>2
    <3> QED BY <3>1, <3>2
  <2>2. CASE ~Hang
    <3>1. hung' = FALSE /\ \E cap, es :
            /\ StoreEntry(es, cap, size, k, v)
            /\ ArrayInv(es, cap)
            /\ cap = objectCapacity \/ cap <= MaxObjectCapacity
      BY <1>1, <2>2, SetStores
    <3>2. PICK cap, es : /\ StoreEntry(es, cap, size, k, v)
                         /\ ArrayInv(es, cap)
                         /\ cap = objectCapacity \/ cap <= MaxObjectCapacity
      BY <3>1
    <3>3. objectCapacity' = cap /\ cap \in Nat \ {0}
      BY <3>2 DEF StoreEntry, ArrayInv, IsPowerOfTwo
    <3>4. cap <= MaxObjectCapacity => cap \in 1 .. MaxObjectCapacity
      BY <3>3
    <3>5. StaysInside(cap)
      BY <3>2, <3>4 DEF CapacitiesFit
    <3> QED BY <3>1, <3>3, <3>5 DEF HungInv
  <2> QED BY <2>1, <2>2
<1>2. ASSUME NEW n \in Names, ObjectRemove(n)
      PROVE  HungInv' /\ StaysInside(objectCapacity')
  <2>1. CASE FindReturns(objectEntries, objectCapacity, n)
    BY <1>2, <1>q, <2>1 DEF ObjectRemove
  <2>2. CASE ~FindReturns(objectEntries, objectCapacity, n)
    BY <1>2, <1>h, <2>2 DEF ObjectRemove
  <2> QED BY <2>1, <2>2
<1>3. ASSUME NEW n \in Names, ObjectGet(n)
      PROVE  HungInv' /\ StaysInside(objectCapacity')
  <2>1. CASE size = 0 \/ FindReturns(objectEntries, objectCapacity, n)
    BY <1>3, <1>q, <2>1 DEF ObjectGet
  <2>2. CASE ~(size = 0 \/ FindReturns(objectEntries, objectCapacity, n))
    BY <1>3, <1>h, <2>2 DEF ObjectGet
  <2> QED BY <2>1, <2>2
<1>4. CASE UNCHANGED objectVars
  BY <1>k, <1>4 DEF objectVars, HungInv
<1> QED BY <1>1, <1>2, <1>3, <1>4 DEF ObjectNext

(***************************************************************************)
(* While find_entry is told the capacities the table has, a call fails to  *)
(* return only if removed entries fill what the load leaves free: the      *)
(* probe step index * 5 + 1 visits every entry of a power-of-two array, so *)
(* a single empty entry ends every probe.                                  *)
(***************************************************************************)
THEOREM CallsReturn ==
    ASSUME CapacitiesFit
    PROVE  ObjectSpec => []OnlyTombstonesHang
<1> DEFINE I == ObjectInv /\ HungInv /\ StaysInside(objectCapacity)
<1>1. ObjectInit => I
  <2> SUFFICES ASSUME ObjectInit PROVE HungInv /\ StaysInside(objectCapacity)
    BY ObjectInitial
  <2> QED BY DEF ObjectInit, HungInv, CapacitiesFit
<1>2. I /\ [ObjectNext]_objectVars => I'
  BY ObjectInductive, HungStep
<1>3. I => OnlyTombstonesHang
  BY FewTombstonesReturn DEF OnlyTombstonesHang, ObjectInv, HungInv
<1> QED BY <1>1, <1>2, <1>3, PTL DEF ObjectSpec
-----------------------------------------------------------------------------
(***************************************************************************)
(* The object table implements the dictionary as long as calls return.     *)
(***************************************************************************)
EntriesOf(es, cap) ==
    [n \in Names |-> IF \E s \in Indices(cap) : HoldsName(es[s], n)
                     THEN es[CHOOSE s \in Indices(cap) : HoldsName(es[s], n)]
                     ELSE Absent]

LEMMA ObjectContentsAreEntries == ObjectContents = EntriesOf(objectEntries, objectCapacity)
BY DEF ObjectContents, EntriesOf

LEMMA EntryOfHeld ==
    ASSUME NEW cap \in Nat, NEW es, AllEntriesFound(es, cap), NEW n \in Names,
           NEW a \in Indices(cap), HoldsName(es[a], n)
    PROVE  EntriesOf(es, cap)[n] = es[a]
<1> DEFINE c == CHOOSE s \in Indices(cap) : HoldsName(es[s], n)
<1>1. c \in Indices(cap) /\ HoldsName(es[c], n)
  OBVIOUS
<1>2. FindsEntry(es, cap, n, c)
  BY <1>1 DEF AllEntriesFound, HoldsName
<1>3. c = a
  BY <1>2, NameHeldOnce
<1>4. EntriesOf(es, cap)[n] = es[c]
  BY DEF EntriesOf
<1> QED BY <1>3, <1>4

LEMMA EntryOfAbsent ==
    ASSUME NEW cap, NEW es, NEW n \in Names,
           \A s \in Indices(cap) : ~HoldsName(es[s], n)
    PROVE  EntriesOf(es, cap)[n] = Absent
BY DEF EntriesOf

\* What find_entry finds is the cell of the name.
LEMMA FoundIsCell ==
    ASSUME NEW cap \in Nat, NEW es, AllEntriesFound(es, cap), NEW n \in Names,
           NEW s \in Indices(cap), FindsEntry(es, cap, n, s)
    PROVE  EntriesOf(es, cap)[n] = IF IsOccupied(es[s]) THEN es[s] ELSE Absent
<1>1. CASE IsOccupied(es[s])
  BY <1>1, OccupiedFindHolds, EntryOfHeld
<1>2. CASE ~IsOccupied(es[s])
  <2>1. ASSUME NEW a \in Indices(cap), HoldsName(es[a], n) PROVE FALSE
    <3>1. s = a
      BY <2>1, NameHeldOnce
    <3> QED BY <1>2, <2>1, <3>1 DEF HoldsName
  <2> QED BY <1>2, <2>1, EntryOfAbsent
<1> QED BY <1>1, <1>2

\* An array that holds the entries of another stands for the same map.
LEMMA SameEntries ==
    ASSUME NEW cap \in Nat, NEW es, AllEntriesFound(es, cap),
           NEW newCap \in Nat, NEW new, AllEntriesFound(new, newCap),
           HoldsFirst(new, newCap, es, cap)
    PROVE  EntriesOf(new, newCap) = EntriesOf(es, cap)
<1>1. ASSUME NEW n \in Names PROVE EntriesOf(new, newCap)[n] = EntriesOf(es, cap)[n]
  <2>1. CASE \E s \in Indices(cap) : HoldsName(es[s], n)
    <3>1. PICK s \in Indices(cap) : HoldsName(es[s], n)
      BY <2>1
    <3>2. PICK r \in Indices(newCap) : new[r] = es[s]
      BY <3>1 DEF HoldsName, HoldsFirst, Indices
    <3>3. EntriesOf(es, cap)[n] = es[s]
      BY <3>1, EntryOfHeld
    <3>4. EntriesOf(new, newCap)[n] = new[r]
      BY <3>1, <3>2, EntryOfHeld
    <3> QED BY <3>2, <3>3, <3>4
  <2>2. CASE \A s \in Indices(cap) : ~HoldsName(es[s], n)
    <3>1. ASSUME NEW r \in Indices(newCap), HoldsName(new[r], n) PROVE FALSE
      <4>1. PICK s \in Indices(cap) : es[s] = new[r]
        BY <3>1 DEF HoldsName, HoldsFirst, Indices
      <4> QED BY <2>2, <3>1, <4>1
    <3>2. EntriesOf(es, cap)[n] = Absent
      BY <2>2, EntryOfAbsent
    <3>3. EntriesOf(new, newCap)[n] = Absent
      BY <3>1, EntryOfAbsent
    <3> QED BY <3>2, <3>3
  <2> QED BY <2>1, <2>2
<1> QED BY <1>1 DEF EntriesOf

LEMMA EntriesAfterStore ==
    ASSUME NEW cap, NEW es, ArrayInv(es, cap), NEW e \in Entry, IsOccupied(e),
           NEW s \in Indices(cap), FindsEntry(es, cap, NameOf[e.key], s)
    PROVE  EntriesOf([es EXCEPT ![s] = e], cap)
             = [EntriesOf(es, cap) EXCEPT ![NameOf[e.key]] = e]
<1> DEFINE fs == [es EXCEPT ![s] = e]
           t == NameOf[e.key]
<1>c. cap \in Nat /\ es \in [Indices(cap) -> Entry] /\ AllEntriesFound(es, cap)
  BY DEF ArrayInv, IsPowerOfTwo
<1>t. t \in Names
  BY KeyName
<1>f. fs[s] = e /\ \A r \in Indices(cap) : r # s => fs[r] = es[r]
  BY <1>c
<1>a. AllEntriesFound(fs, cap)
  BY EntriesFoundAfterStore DEF ArrayInv
<1>h. HoldsName(e, t) /\ \A u : HoldsName(e, u) => u = t
  BY DEF HoldsName
<1>s. FindsEntry(es, cap, t, s)
  OBVIOUS
<1> HIDE DEF fs, t
<1>1. EntriesOf(fs, cap)[t] = e
  BY <1>c, <1>t, <1>f, <1>a, <1>h, EntryOfHeld
<1>2. ASSUME NEW u \in Names, u # t PROVE EntriesOf(fs, cap)[u] = EntriesOf(es, cap)[u]
  <2>0. ~HoldsName(fs[s], u)
    BY <1>f, <1>h, <1>2
  <2>1. ~HoldsName(es[s], u)
    <3> SUFFICES ASSUME HoldsName(es[s], u) PROVE FALSE
      OBVIOUS
    <3>1. HoldsName(es[s], t)
      BY <1>s, OccupiedFindHolds DEF HoldsName
    <3> QED BY <1>2, <3>1 DEF HoldsName
  <2>2. CASE \E r \in Indices(cap) : HoldsName(es[r], u)
    <3>1. PICK r \in Indices(cap) : HoldsName(es[r], u)
      BY <2>2
    <3>2. fs[r] = es[r]
      BY <1>f, <2>1, <3>1
    <3>3. EntriesOf(fs, cap)[u] = fs[r]
      BY <1>c, <1>a, <3>1, <3>2, EntryOfHeld
    <3>4. EntriesOf(es, cap)[u] = es[r]
      BY <1>c, <3>1, EntryOfHeld
    <3> QED BY <3>2, <3>3, <3>4
  <2>3. CASE \A r \in Indices(cap) : ~HoldsName(es[r], u)
    <3>1. \A r \in Indices(cap) : ~HoldsName(fs[r], u)
      BY <1>f, <2>0, <2>3
    <3> QED BY <2>3, <3>1, EntryOfAbsent
  <2> QED BY <2>2, <2>3
<1>3. EntriesOf(fs, cap) = [EntriesOf(es, cap) EXCEPT ![t] = e]
  BY <1>1, <1>2 DEF EntriesOf
<1> QED BY <1>3 DEF fs, t

LEMMA EntriesAfterRemove ==
    ASSUME NEW cap, NEW es, ArrayInv(es, cap), NEW n \in Names,
           NEW s \in Indices(cap), HoldsName(es[s], n)
    PROVE  EntriesOf([es EXCEPT ![s] = TombstoneEntry], cap)
             = [EntriesOf(es, cap) EXCEPT ![n] = Absent]
<1> DEFINE fs == [es EXCEPT ![s] = TombstoneEntry]
<1>c. cap \in Nat /\ es \in [Indices(cap) -> Entry] /\ AllEntriesFound(es, cap)
  BY DEF ArrayInv, IsPowerOfTwo
<1>f. fs[s] = TombstoneEntry /\ \A r \in Indices(cap) : r # s => fs[r] = es[r]
  BY <1>c
<1>a. AllEntriesFound(fs, cap)
  BY EntriesFoundAfterRemove DEF ArrayInv, HoldsName
<1>s. \A u : ~HoldsName(fs[s], u)
  BY <1>f, EntryTypes DEF HoldsName
<1> HIDE DEF fs
<1>1. EntriesOf(fs, cap)[n] = Absent
  <2>1. ASSUME NEW r \in Indices(cap), HoldsName(fs[r], n) PROVE FALSE
    <3>1. r # s /\ HoldsName(es[r], n)
      BY <1>f, <1>s, <2>1
    <3>2. FindsEntry(es, cap, n, r)
      BY <1>c, <3>1 DEF AllEntriesFound, HoldsName
    <3> QED BY <1>c, <3>1, <3>2, NameHeldOnce
  <2> QED BY <2>1, EntryOfAbsent
<1>2. ASSUME NEW u \in Names, u # n PROVE EntriesOf(fs, cap)[u] = EntriesOf(es, cap)[u]
  <2>1. ~HoldsName(es[s], u)
    BY <1>2 DEF HoldsName
  <2>2. CASE \E r \in Indices(cap) : HoldsName(es[r], u)
    <3>1. PICK r \in Indices(cap) : HoldsName(es[r], u)
      BY <2>2
    <3>2. fs[r] = es[r]
      BY <1>f, <2>1, <3>1
    <3>3. EntriesOf(fs, cap)[u] = fs[r]
      BY <1>c, <1>a, <3>1, <3>2, EntryOfHeld
    <3>4. EntriesOf(es, cap)[u] = es[r]
      BY <1>c, <3>1, EntryOfHeld
    <3> QED BY <3>2, <3>3, <3>4
  <2>3. CASE \A r \in Indices(cap) : ~HoldsName(es[r], u)
    <3>1. \A r \in Indices(cap) : ~HoldsName(fs[r], u)
      BY <1>f, <1>s, <2>3
    <3> QED BY <2>3, <3>1, EntryOfAbsent
  <2> QED BY <2>2, <2>3
<1>3. EntriesOf(fs, cap) = [EntriesOf(es, cap) EXCEPT ![n] = Absent]
  BY <1>1, <1>2 DEF EntriesOf
<1> QED BY <1>3 DEF fs

-----------------------------------------------------------------------------
\* The store at the end of object_table_set is a Put.
LEMMA StoreEntryIsPut ==
    ASSUME NEW cap, NEW es, ArrayInv(es, cap), EntriesOf(es, cap) = ObjectContents,
           NEW n, NEW k \in KeyValues, NEW v \in ObjectValues, StoreEntry(es, cap, n, k, v)
    PROVE  ObjectMap!Put(k, v)
<1> DEFINE e == [key |-> k, value |-> v]
<1>c. cap \in Nat /\ es \in [Indices(cap) -> Entry] /\ AllEntriesFound(es, cap)
  BY DEF ArrayInv, IsPowerOfTwo
<1>1. e \in Entry /\ IsOccupied(e) /\ e.key = k /\ NameOf[k] \in Names
  BY KeyValuesAssumption, NameOfAssumption DEF Entry, IsOccupied
<1>2. PICK s \in Indices(cap) : /\ FindsEntry(es, cap, NameOf[k], s)
                                /\ objectEntries' = [es EXCEPT ![s] = e]
                                /\ objectOk' = TRUE
  BY DEF StoreEntry
<1>3. objectCapacity' = cap /\ objectOut' = Absent
  BY DEF StoreEntry
<1>4. ObjectContents' = EntriesOf(objectEntries', cap)
  BY <1>3 DEF ObjectContents, EntriesOf
<1>5. EntriesOf(objectEntries', cap) = [EntriesOf(es, cap) EXCEPT ![NameOf[k]] = e]
  <2> HIDE DEF e
  <2>1. FindsEntry(es, cap, NameOf[e.key], s)
    BY <1>1, <1>2
  <2>2. EntriesOf([es EXCEPT ![s] = e], cap) = [EntriesOf(es, cap) EXCEPT ![NameOf[e.key]] = e]
    BY <1>1, <2>1, EntriesAfterStore, ZenonT(60)
  <2> QED BY <1>1, <1>2, <2>2
<1> QED BY <1>2, <1>3, <1>4, <1>5 DEF ObjectMap!Put

LEMMA ObjectStepIsMapStep ==
    ObjectInv /\ [ObjectNext]_objectVars => [ObjectMap!Next]_(ObjectMap!vars)
<1> SUFFICES ASSUME ObjectInv, [ObjectNext]_objectVars
             PROVE  ObjectMap!Next \/ UNCHANGED ObjectMap!vars
  OBVIOUS
<1>i. /\ ArrayInv(objectEntries, objectCapacity) /\ objectCapacity \in Nat
      /\ objectEntries \in [Indices(objectCapacity) -> Entry]
      /\ AllEntriesFound(objectEntries, objectCapacity)
      /\ size = Cardinality(Occupied(objectEntries, objectCapacity))
  BY DEF ObjectInv, ObjectTypeOK, ArrayInv
<1>c. ObjectContents = EntriesOf(objectEntries, objectCapacity)
  BY ObjectContentsAreEntries
<1>k. ASSUME NEW n \in Names, NEW s \in Indices(objectCapacity),
             FindsEntry(objectEntries, objectCapacity, n, s)
      PROVE  /\ ObjectContents[n] = IF IsOccupied(objectEntries[s]) THEN objectEntries[s]
                                                                   ELSE Absent
             /\ objectEntries[s] # Absent
  BY <1>i, <1>c, <1>k, FoundIsCell, EntryAssumption DEF Entry
<1>h. Hang => UNCHANGED ObjectMap!vars
  BY DEF Hang, ObjectContents, ObjectMap!vars
<1>1. ASSUME NEW k \in KeyValues, NEW v \in ObjectValues, ObjectSet(k, v)
      PROVE  ObjectMap!Next \/ UNCHANGED ObjectMap!vars
  <2>1. CASE Hang
    BY <1>h, <2>1
  <2>2. CASE ~Hang
    <3>1. \E cap, es :
            /\ ArrayInv(es, cap) /\ StoreEntry(es, cap, size, k, v)
            /\ HoldsFirst(es, cap, objectEntries, objectCapacity)
      BY <1>1, <2>2, SetStores
    <3>2. PICK cap, es :
            /\ ArrayInv(es, cap) /\ StoreEntry(es, cap, size, k, v)
            /\ HoldsFirst(es, cap, objectEntries, objectCapacity)
      BY <3>1
    <3>3. cap \in Nat /\ AllEntriesFound(es, cap)
      BY <3>2 DEF ArrayInv, IsPowerOfTwo
    <3>4. EntriesOf(es, cap) = ObjectContents
      BY <1>i, <1>c, <3>2, <3>3, SameEntries
    <3>5. ObjectMap!Put(k, v)
      BY <3>2, <3>4, StoreEntryIsPut
    <3> QED BY <3>5 DEF ObjectMap!Next
  <2> QED BY <2>1, <2>2
<1>2. ASSUME NEW n \in Names, ObjectRemove(n)
      PROVE  ObjectMap!Next \/ UNCHANGED ObjectMap!vars
  <2>1. CASE Hang
    BY <1>h, <2>1
  <2>2. CASE ~Hang
    <3>1. PICK s \in Indices(objectCapacity) :
            /\ FindsEntry(objectEntries, objectCapacity, n, s)
            /\ objectOk' = IsOccupied(objectEntries[s])
            /\ objectEntries' = IF IsOccupied(objectEntries[s])
                                THEN [objectEntries EXCEPT ![s] = TombstoneEntry]
                                ELSE objectEntries
      BY <1>2, <2>2 DEF ObjectRemove
    <3>2. objectOut' = Absent /\ objectCapacity' = objectCapacity
      BY <1>2, <2>2 DEF ObjectRemove
    <3>3. ObjectContents' = EntriesOf(objectEntries', objectCapacity)
      BY <3>2 DEF ObjectContents, EntriesOf
    <3>4. /\ ObjectContents[n] = IF IsOccupied(objectEntries[s]) THEN objectEntries[s]
                                                                ELSE Absent
          /\ objectEntries[s] # Absent
      BY <1>k, <3>1
    <3>5. ObjectContents' = [ObjectContents EXCEPT ![n] = Absent]
      <4>1. CASE IsOccupied(objectEntries[s])
        <5>1. HoldsName(objectEntries[s], n)
          BY <3>1, <4>1, OccupiedFindHolds
        <5>2. EntriesOf([objectEntries EXCEPT ![s] = TombstoneEntry], objectCapacity)
                = [EntriesOf(objectEntries, objectCapacity) EXCEPT ![n] = Absent]
          BY <1>i, <5>1, EntriesAfterRemove
        <5> QED BY <1>c, <3>1, <3>3, <4>1, <5>2
      <4>2. CASE ~IsOccupied(objectEntries[s])
        <5>1. ObjectContents' = ObjectContents
          BY <1>c, <3>1, <3>3, <4>2
        <5>2. ObjectContents[n] = Absent
          BY <3>4, <4>2
        <5>3. ObjectContents = [ObjectContents EXCEPT ![n] = Absent]
          BY <5>2 DEF ObjectContents
        <5> QED BY <5>1, <5>3
      <4> QED BY <4>1, <4>2
    <3>6. ObjectMap!Remove(n)
      BY <3>1, <3>2, <3>4, <3>5 DEF ObjectMap!Remove, ObjectMap!Has, IsOccupied
    <3> QED BY <3>6 DEF ObjectMap!Next
  <2> QED BY <2>1, <2>2
<1>3. ASSUME NEW n \in Names, ObjectGet(n)
      PROVE  ObjectMap!Next \/ UNCHANGED ObjectMap!vars
  <2>1. CASE Hang
    BY <1>h, <2>1
  <2>2. CASE ~Hang
    <3>1. UNCHANGED <<objectEntries, objectCapacity>>
      BY <1>3, <2>2 DEF ObjectGet
    <3>2. ObjectContents' = ObjectContents
      BY <3>1 DEF ObjectContents
    <3>3. CASE size = 0
      <4>1. objectOk' = FALSE /\ objectOut' = Absent
        BY <1>3, <3>3 DEF ObjectGet
      <4>2. Occupied(objectEntries, objectCapacity) = {}
        BY <1>i, <3>3, OccupiedFinite, FS_EmptySet
      <4>3. \A s \in Indices(objectCapacity) : ~HoldsName(objectEntries[s], n)
        BY <4>2 DEF Occupied, HoldsName
      <4>4. ObjectContents[n] = Absent
        BY <1>c, <4>3, EntryOfAbsent
      <4>5. ObjectMap!Get(n)
        BY <3>2, <4>1, <4>4 DEF ObjectMap!Get, ObjectMap!Has
      <4> QED BY <4>5 DEF ObjectMap!Next
    <3>4. CASE size # 0
      <4>1. PICK s \in Indices(objectCapacity) :
              /\ FindsEntry(objectEntries, objectCapacity, n, s)
              /\ objectOk' = IsOccupied(objectEntries[s])
              /\ objectOut' = IF IsOccupied(objectEntries[s])
                              THEN objectEntries[s].value ELSE Absent
        BY <1>3, <2>2, <3>4 DEF ObjectGet
      <4>2. /\ ObjectContents[n] = IF IsOccupied(objectEntries[s]) THEN objectEntries[s]
                                                                  ELSE Absent
            /\ objectEntries[s] # Absent
        BY <1>k, <4>1
      <4>3. ObjectMap!Get(n)
        BY <3>2, <4>1, <4>2 DEF ObjectMap!Get, ObjectMap!Has, IsOccupied
      <4> QED BY <4>3 DEF ObjectMap!Next
    <3> QED BY <3>3, <3>4
  <2> QED BY <2>1, <2>2
<1>4. CASE UNCHANGED objectVars
  BY <1>4 DEF objectVars, ObjectContents, ObjectMap!vars
<1> QED BY <1>1, <1>2, <1>3, <1>4 DEF ObjectNext

(***************************************************************************)
(* A Table is a map and a Set a map to nil, at every capacity: tombstones, *)
(* reuse of entries, growth and rehashing are invisible, and each call of  *)
(* object_table_set, object_table_remove and object_table_get that returns *)
(* answers as the map does.                                                *)
(***************************************************************************)
THEOREM ObjectTableIsAMap == ObjectSpec => RefinesMap
<1>1. ObjectInit => ObjectMap!Init
  <2> SUFFICES ASSUME ObjectInit PROVE ObjectMap!Init
    OBVIOUS
  <2>1. \A n \in Names : ~\E s \in Indices(objectCapacity) : HoldsName(objectEntries[s], n)
    BY EntryTypes DEF ObjectInit, HoldsName
  <2>2. ObjectContents = [n \in Names |-> Absent]
    BY <2>1 DEF ObjectContents
  <2> QED BY <2>2 DEF ObjectInit, ObjectMap!Init
<1> QED BY <1>1, ObjectInitial, ObjectInductive, ObjectStepIsMapStep, PTL
        DEF ObjectSpec, RefinesMap, ObjectMap!Spec
=============================================================================
