----------------------------- MODULE ObjectTable -----------------------------
(***************************************************************************)
(* The table behind Crux's Table and Set values (src/src/object.c): open   *)
(* addressing with the probe step index * 5 + 1 over a power-of-two array. *)
(* Unlike the string table its load is measured by `size', the number of   *)
(* occupied entries, so tombstones do not bring a growth nearer; and its   *)
(* find_entry has no exit but an equal key or an empty entry.  A call that *)
(* meets neither never returns: `hung' is then TRUE and nothing follows.   *)
(* find_entry takes the capacity as a uint16_t; if nothing of it is left   *)
(* the probes leave the array, and hung stands for what happens then too.  *)
(* Left out: a table made from 65534 elements or more, whose first         *)
(* capacity, 65534, is not a power of two.                                 *)
(***************************************************************************)
EXTENDS Naturals, FiniteSets

CONSTANTS KeyValues,         \* values used as keys
          Names,             \* what values_equal tells them apart by
          NameOf,            \* [KeyValues -> Names]
          HashValue,         \* [Names -> Nat]: hashValue
          ObjectValues, NilValue, FalseValue,
          Absent,            \* no key, no value
          InitialCapacity,   \* new_object_table: 16, or the next power of two
          CapacityBits,      \* of the capacity that find_entry is told: 16
          MaxObjectCapacity  \* bound: a set that would grow past it is not taken

IsPowerOfTwo(c) == /\ c \in Nat \ {0}
                   /\ \A d \in 1 .. c : c % d = 0 => d = 1 \/ d % 2 = 0

ASSUME KeyValuesAssumption == Absent \notin KeyValues \cup ObjectValues
ASSUME ObjectValuesAssumption == /\ NilValue \in ObjectValues /\ FalseValue \in ObjectValues
                                 /\ NilValue # FalseValue
ASSUME NameOfAssumption == NameOf \in [KeyValues -> Names]
ASSUME HashValueAssumption == HashValue \in [Names -> Nat]
ASSUME CapacityAssumption == IsPowerOfTwo(InitialCapacity) /\ MaxObjectCapacity \in Nat
\* no entry is Absent
ASSUME EntryAssumption == Absent \notin [key : KeyValues \cup {Absent}, value : ObjectValues]

VARIABLES objectEntries,       \* table->entries, indexed from 0
          objectCapacity,      \* table->capacity
          size,                \* table->size: the occupied entries
          hung,                \* a call has not returned
          objectOk, objectOut  \* what the last call returned (see Dictionary)

objectVars == <<objectEntries, objectCapacity, size, hung, objectOk, objectOut>>

\* is_occupied is key # Absent: an unoccupied entry's key is never read
Entry == [key : KeyValues \cup {Absent}, value : ObjectValues]
EmptyEntry == [key |-> Absent, value |-> NilValue]
TombstoneEntry == [key |-> Absent, value |-> FalseValue]

IsOccupied(e) == e.key # Absent
IsEmptyEntry(e) == e.key = Absent /\ e.value = NilValue
HoldsName(e, n) == IsOccupied(e) /\ NameOf[e.key] = n

Indices(cap) == 0 .. cap-1

(***************************************************************************)
(* find_entry.  Orbit(n, cap)[i] is the i-th index probed for name n.  The *)
(* probe sequence is periodic with a period of at most cap: an index that  *)
(* does not stop within the first cap probes never does.                   *)
(***************************************************************************)
Orbit(n, cap) ==
    LET orbit[i \in Indices(cap)] == IF i = 0 THEN HashValue[n] % cap
                                     ELSE (orbit[i-1] * 5 + 1) % cap
    IN  orbit

\* the mask capacity - 1 that find_entry computes keeps its probes in the array
StaysInside(cap) == cap % 2^CapacityBits # 0

StopsHere(e, n) == IsEmptyEntry(e) \/ HoldsName(e, n)

\* the call returns &es[s]
FindsEntry(es, cap, n, s) ==
    LET orbit == Orbit(n, cap) IN
    \E i \in Indices(cap) :
        /\ StopsHere(es[orbit[i]], n)
        /\ \A j \in 0 .. i-1 : ~StopsHere(es[orbit[j]], n)
        /\ LET Passed == {j \in 0 .. i-1 : ~IsOccupied(es[orbit[j]])}
           IN  IF IsEmptyEntry(es[orbit[i]]) /\ Passed # {}
               THEN \E j \in Passed : s = orbit[j] /\ \A p \in Passed : j <= p
               ELSE s = orbit[i]

FindReturns(es, cap, n) == StaysInside(cap) /\ \E s \in Indices(cap) : FindsEntry(es, cap, n, s)

\* For the loop of adjust_capacity, where find_entry works on the new array.
FoundIndex(es, cap, n) == CHOOSE s \in Indices(cap) : FindsEntry(es, cap, n, s)

(***************************************************************************)
(* adjust_capacity: the occupied entries, taken in slot order, are stored  *)
(* into a cleared array.                                                   *)
(***************************************************************************)
\* mutant: entries are copied to the index they had
CopiedInPlace(es, cap, newCap) ==
    [s \in Indices(newCap) |->
       IF s < cap /\ IsOccupied(es[s]) THEN es[s] ELSE EmptyEntry]

Rehashed(es, cap, newCap) ==
    LET new[i \in 0 .. cap] ==
          IF i = 0 THEN [s \in Indices(newCap) |-> EmptyEntry]
          ELSE LET before == new[i-1]
                   e == es[i-1]
               IN  IF IsOccupied(e)
                   THEN [before EXCEPT ![FoundIndex(before, newCap, NameOf[e.key])] = e]
                   ELSE before
    IN  new[cap]

NextCapacity(cap) == IF cap < 4 THEN 4 ELSE cap * 2

\* size + 1 > capacity * TABLE_MAX_LOAD
SizeNeedsGrowth == 100 * (size + 1) > 65 * objectCapacity

ObjectInit ==
    /\ objectEntries = [s \in Indices(InitialCapacity) |-> EmptyEntry]
    /\ objectCapacity = InitialCapacity
    /\ size = 0
    /\ hung = FALSE
    /\ objectOk = FALSE
    /\ objectOut = Absent

\* find_entry never returns
Hang == hung' = TRUE /\ UNCHANGED <<objectEntries, objectCapacity, size, objectOk, objectOut>>

(***************************************************************************)
(* object_table_set (set_add_value, a table or set literal, element        *)
(* assignment): grow first, then store.                                    *)
(***************************************************************************)
\* mutant: storing to a tombstone is taken for an overwrite
StoreReusesUncounted(es, cap, occupied, k, v) ==
    \E s \in Indices(cap) :
        /\ FindsEntry(es, cap, NameOf[k], s)
        /\ objectEntries' = [es EXCEPT ![s] = [key |-> k, value |-> v]]
        /\ objectCapacity' = cap
        /\ size' = IF IsEmptyEntry(es[s]) THEN occupied + 1 ELSE occupied
        /\ objectOk' = TRUE
        /\ objectOut' = Absent

StoreEntry(es, cap, occupied, k, v) ==
    \E s \in Indices(cap) :
        /\ FindsEntry(es, cap, NameOf[k], s)
        /\ objectEntries' = [es EXCEPT ![s] = [key |-> k, value |-> v]]
        /\ objectCapacity' = cap
        /\ size' = IF IsOccupied(es[s]) THEN occupied ELSE occupied + 1
        /\ objectOk' = TRUE
        /\ objectOut' = Absent

ObjectSet(k, v) ==
    /\ ~hung
    /\ IF SizeNeedsGrowth
       THEN /\ NextCapacity(objectCapacity) <= MaxObjectCapacity
            /\ LET newCap == NextCapacity(objectCapacity)
               IN  IF StaysInside(newCap)
                   THEN /\ \E new \in {Rehashed(objectEntries, objectCapacity, newCap)} :
                              StoreEntry(new, newCap, size, k, v)
                        /\ UNCHANGED hung
                   ELSE Hang
       ELSE IF FindReturns(objectEntries, objectCapacity, NameOf[k])
            THEN StoreEntry(objectEntries, objectCapacity, size, k, v) /\ UNCHANGED hung
            ELSE Hang

(***************************************************************************)
(* object_table_remove                                                     *)
(***************************************************************************)
ObjectRemove(n) ==
    /\ ~hung
    /\ IF FindReturns(objectEntries, objectCapacity, n)
       THEN /\ \E s \in Indices(objectCapacity) :
                 /\ FindsEntry(objectEntries, objectCapacity, n, s)
                 /\ objectOk' = IsOccupied(objectEntries[s])
                 /\ objectEntries' = IF objectOk'
                                     THEN [objectEntries EXCEPT ![s] = TombstoneEntry]
                                     ELSE objectEntries
                 /\ size' = IF objectOk' THEN size - 1 ELSE size
            /\ objectOut' = Absent
            /\ UNCHANGED <<objectCapacity, hung>>
       ELSE Hang

(***************************************************************************)
(* object_table_get, object_table_contains_key                             *)
(***************************************************************************)
ObjectGet(n) ==
    /\ ~hung
    /\ IF size = 0
       THEN /\ objectOk' = FALSE /\ objectOut' = Absent
            /\ UNCHANGED <<objectEntries, objectCapacity, size, hung>>
       ELSE IF FindReturns(objectEntries, objectCapacity, n)
       THEN /\ \E s \in Indices(objectCapacity) :
                 /\ FindsEntry(objectEntries, objectCapacity, n, s)
                 /\ objectOk' = IsOccupied(objectEntries[s])
                 /\ objectOut' = IF objectOk' THEN objectEntries[s].value ELSE Absent
            /\ UNCHANGED <<objectEntries, objectCapacity, size, hung>>
       ELSE Hang

ObjectNext == \/ \E k \in KeyValues, v \in ObjectValues : ObjectSet(k, v)
              \/ \E n \in Names : ObjectRemove(n) \/ ObjectGet(n)

ObjectSpec == ObjectInit /\ [][ObjectNext]_objectVars

-----------------------------------------------------------------------------
(***************************************************************************)
(* The type invariant.  size, which the load check before a store reads,   *)
(* is the number of occupied entries, so that a store finds room.          *)
(***************************************************************************)
Occupied(es, cap) == {s \in Indices(cap) : IsOccupied(es[s])}

ObjectTypeOK ==
    /\ objectCapacity \in Nat \ {0}
    /\ objectEntries \in [Indices(objectCapacity) -> Entry]
    /\ size = Cardinality(Occupied(objectEntries, objectCapacity))
    /\ 100 * size <= 65 * objectCapacity
    /\ hung \in BOOLEAN
    /\ objectOk \in BOOLEAN
    /\ objectOut \in ObjectValues \cup {Absent}

(***************************************************************************)
(* A call can fail to return only because of removed entries: while fewer  *)
(* entries are tombstones than a load of 65% leaves free, every call       *)
(* returns, at every capacity a table grows to.                            *)
(***************************************************************************)
Tombstones == {s \in Indices(objectCapacity) : objectEntries[s] = TombstoneEntry}

OnlyTombstonesHang ==
    /\ ObjectTypeOK
    /\ 100 * Cardinality(Tombstones) < 35 * objectCapacity =>
         \A n \in Names : FindReturns(objectEntries, objectCapacity, n)
    /\ hung => 100 * Cardinality(Tombstones) >= 35 * objectCapacity

(***************************************************************************)
(* A Table is a map and a Set is a map to nil: as long as calls return,    *)
(* they answer as the map does.  (A store answers that it was done: it has *)
(* no answer of its own for a new key.)                                    *)
(***************************************************************************)
ObjectContents ==
    [n \in Names |->
       IF \E s \in Indices(objectCapacity) : HoldsName(objectEntries[s], n)
       THEN objectEntries[CHOOSE s \in Indices(objectCapacity) : HoldsName(objectEntries[s], n)]
       ELSE Absent]

ObjectMap == INSTANCE Dictionary WITH
    Keys <- KeyValues, Values <- ObjectValues, PutTellsNew <- FALSE, Nothing <- Absent,
    dict <- ObjectContents, ok <- objectOk, out <- objectOut

RefinesMap == ObjectMap!Spec
=============================================================================
