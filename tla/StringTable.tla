----------------------------- MODULE StringTable -----------------------------
(***************************************************************************)
(* The open-addressing table of src/src/table.c: the string intern pool,   *)
(* the globals, fields, methods and exports of modules and structs are all *)
(* kept in one.  A slot whose key is NULL is empty when its value is nil   *)
(* and a tombstone otherwise; probing is linear and stops at the first     *)
(* empty slot.                                                             *)
(*                                                                         *)
(* Growing the table allocates, an allocation may run a collection, and a  *)
(* collection deletes entries from the intern pool (table_remove_white):   *)
(* a set that grows is therefore three kinds of step, the call up to the   *)
(* allocation, one iteration of the rehash loop, and the rest of the call. *)
(***************************************************************************)
EXTENDS Naturals, FiniteSets

CONSTANTS Keys,         \* string objects (pointers)
          Texts,        \* their contents
          TextOf,       \* [Keys -> Texts]: chars and byte_length
          HashOf,       \* [Texts -> Nat]: the hash cached in the object
          Values, Nil, True,
          NULL,
          MaxCapacity   \* bound: a set that would grow past it is not taken

ASSUME KeysAssumption == NULL \notin Keys \cup Values
ASSUME ValuesAssumption == Nil \in Values /\ True \in Values /\ Nil # True
ASSUME TextOfAssumption == TextOf \in [Keys -> Texts]
ASSUME HashOfAssumption == HashOf \in [Texts -> Nat]
\* no slot is NULL
ASSUME SlotAssumption == NULL \notin [key : Keys \cup {NULL}, value : Values]

VARIABLES entries,   \* table->entries, indexed from 0
          capacity,  \* table->capacity
          count,     \* table->count: live entries and tombstones
          pc,        \* where a growing table_set is: "idle", "alloc", "rehash"
          pending,   \* the key and value of that table_set
          dest,      \* adjust_capacity's new array
          scan,      \* its loop index i
          ok, out    \* what the last call returned (see Dictionary)

vars == <<entries, capacity, count, pc, pending, dest, scan, ok, out>>
growing == <<pc, pending, dest, scan>>

Slot == [key : Keys \cup {NULL}, value : Values]
Empty == [key |-> NULL, value |-> Nil]
\* mutant: table_delete clears the key and leaves the value unset
UnsetTombstone == [key |-> NULL, value |-> NULL]
Tombstone == [key |-> NULL, value |-> True]

IsLive(e) == e.key # NULL
IsEmpty(e) == e.key = NULL /\ e.value = Nil
IsTombstone(e) == e.key = NULL /\ e.value # Nil
Holds(e, t) == IsLive(e) /\ TextOf[e.key] = t

(***************************************************************************)
(* find_entry.  The n-th slot probed for a text, counted from its home     *)
(* slot and wrapping round at the end of the array.                        *)
(***************************************************************************)
Home(t, cap) == HashOf[t] % cap

\* mutant: the probe steps over every other slot
ProbeSkips(t, cap, n) == (Home(t, cap) + 2 * n) % cap

Probe(t, cap, n) == IF Home(t, cap) + n < cap
                    THEN Home(t, cap) + n
                    ELSE Home(t, cap) + n - cap

\* mutant: probing stops at the first slot without a key
StopsAtFreeSlot(es, cap, t, n) == LET e == es[Probe(t, cap, n)]
                                  IN  ~IsLive(e) \/ Holds(e, t)

\* The loop leaves its n-th iteration for good.
StopsAt(es, cap, t, n) == LET e == es[Probe(t, cap, n)]
                          IN  IsEmpty(e) \/ Holds(e, t)

StopsFirstAt(es, cap, t, n) ==
    /\ StopsAt(es, cap, t, n)
    /\ \A i \in 0 .. n-1 : ~StopsAt(es, cap, t, i)

\* The slot find_entry returns a pointer to: the entry of the text, else the
\* first tombstone it passed, else the empty slot.
FindsAt(es, cap, t, s) ==
    \E n \in 0 .. cap-1 :
        /\ StopsFirstAt(es, cap, t, n)
        /\ LET Passed == {i \in 0 .. n-1 : IsTombstone(es[Probe(t, cap, i)])}
           IN  IF IsEmpty(es[Probe(t, cap, n)]) /\ Passed # {}
               THEN \E i \in Passed : /\ s = Probe(t, cap, i)
                                      /\ \A j \in Passed : i <= j
               ELSE s = Probe(t, cap, n)

Slots(cap) == 0 .. cap-1

GrownCapacity(cap) == IF cap < 4 THEN 4 ELSE cap * 2

\* count + 1 > capacity * TABLE_MAX_LOAD
NeedsGrowth == 100 * (count + 1) > 65 * capacity

Init == /\ entries = [s \in {} |-> Empty]
        /\ capacity = 0
        /\ count = 0
        /\ pc = "idle"
        /\ pending = <<>>
        /\ dest = [s \in {} |-> Empty]
        /\ scan = 0
        /\ ok = FALSE
        /\ out = NULL

(***************************************************************************)
(* table_set                                                               *)
(***************************************************************************)
\* The part after the growth, on the array es of capacity cap holding n used
\* slots: store through find_entry and count the slot if it was empty.
Store(es, cap, n, k, v) ==
    \E s \in Slots(cap) :
        /\ FindsAt(es, cap, TextOf[k], s)
        /\ entries' = [es EXCEPT ![s] = [key |-> k, value |-> v]]
        /\ capacity' = cap
        /\ count' = IF IsEmpty(es[s]) THEN n + 1 ELSE n
        /\ ok' = ~IsLive(es[s])
        /\ out' = NULL

SetInPlace(k, v) ==
    /\ pc = "idle"
    /\ ~NeedsGrowth
    /\ Store(entries, capacity, count, k, v)
    /\ UNCHANGED growing

\* adjust_capacity is called and asks for the new array
SetGrows(k, v) ==
    /\ pc = "idle"
    /\ NeedsGrowth
    /\ GrownCapacity(capacity) <= MaxCapacity
    /\ pc' = "alloc"
    /\ pending' = <<k, v>>
    /\ UNCHANGED <<entries, capacity, count, dest, scan, ok, out>>

\* ... which arrives, is cleared, and count restarts from zero
FreshArray ==
    /\ pc = "alloc"
    /\ pc' = "rehash"
    /\ dest' = [s \in Slots(GrownCapacity(capacity)) |-> Empty]
    /\ scan' = 0
    /\ count' = 0
    /\ UNCHANGED <<entries, capacity, pending, ok, out>>

\* mutant: the loop's `continue' skips the increment as well
RehashSlotStalls ==
    LET e == entries[scan] IN
    /\ pc = "rehash"
    /\ scan < capacity
    /\ IsLive(e)
    /\ scan' = scan + 1
    /\ \E s \in Slots(GrownCapacity(capacity)) :
          /\ FindsAt(dest, GrownCapacity(capacity), TextOf[e.key], s)
          /\ dest' = [dest EXCEPT ![s] = e]
    /\ count' = count + 1
    /\ UNCHANGED <<entries, capacity, pc, pending, ok, out>>

\* one iteration of the loop that moves the live entries
RehashSlot ==
    LET e == entries[scan] IN
    /\ pc = "rehash"
    /\ scan < capacity
    /\ scan' = scan + 1
    /\ IF IsLive(e)
       THEN /\ \E s \in Slots(GrownCapacity(capacity)) :
                  /\ FindsAt(dest, GrownCapacity(capacity), TextOf[e.key], s)
                  /\ dest' = [dest EXCEPT ![s] = e]
            /\ count' = count + 1
       ELSE UNCHANGED <<dest, count>>
    /\ UNCHANGED <<entries, capacity, pc, pending, ok, out>>

\* the arrays are swapped and the store goes into the new one
FinishSet ==
    /\ pc = "rehash"
    /\ scan = capacity
    /\ Store(dest, GrownCapacity(capacity), count, pending[1], pending[2])
    /\ pc' = "idle"
    /\ pending' = <<>>
    /\ dest' = [s \in {} |-> Empty]
    /\ scan' = 0

(***************************************************************************)
(* table_delete, table_get, table_find_string                              *)
(***************************************************************************)
\* mutant: deleting empties the slot instead of leaving a tombstone
DeleteEmpties(t) ==
    /\ pc = "idle"
    /\ out' = NULL
    /\ IF count = 0
       THEN ok' = FALSE /\ UNCHANGED entries
       ELSE \E s \in Slots(capacity) :
               /\ FindsAt(entries, capacity, t, s)
               /\ ok' = IsLive(entries[s])
               /\ entries' = IF IsLive(entries[s])
                             THEN [entries EXCEPT ![s] = Empty]
                             ELSE entries
    /\ UNCHANGED <<capacity, count, growing>>

Delete(t) ==
    /\ pc = "idle"
    /\ out' = NULL
    /\ IF count = 0
       THEN ok' = FALSE /\ UNCHANGED entries
       ELSE \E s \in Slots(capacity) :
               /\ FindsAt(entries, capacity, t, s)
               /\ ok' = IsLive(entries[s])
               /\ entries' = IF IsLive(entries[s])
                             THEN [entries EXCEPT ![s] = Tombstone]
                             ELSE entries
    /\ UNCHANGED <<capacity, count, growing>>

Get(t) ==
    /\ pc = "idle"
    /\ IF count = 0
       THEN ok' = FALSE /\ out' = NULL
       ELSE \E s \in Slots(capacity) :
               /\ FindsAt(entries, capacity, t, s)
               /\ ok' = IsLive(entries[s])
               /\ out' = IF IsLive(entries[s]) THEN entries[s].value ELSE NULL
    /\ UNCHANGED <<entries, capacity, count, growing>>

\* Its own loop: tombstones are stepped over, not remembered.
FindString(t) ==
    /\ pc = "idle"
    /\ IF count = 0
       THEN ok' = FALSE /\ out' = NULL
       ELSE \E n \in Slots(capacity) :
               /\ StopsFirstAt(entries, capacity, t, n)
               /\ out' = entries[Probe(t, capacity, n)].key
               /\ ok' = (out' # NULL)
    /\ UNCHANGED <<entries, capacity, count, growing>>

(***************************************************************************)
(* table_remove_white, run by a collection: between two calls, or inside   *)
(* the allocation of adjust_capacity.  `white' are the unmarked strings;   *)
(* the key being set is on the VM stack and marked.  Each entry with a     *)
(* white key is deleted through table_delete, that is where find_entry     *)
(* finds its text; a tombstone stops no probe that a live entry let pass,  *)
(* so the deletions do not disturb each other.                             *)
(***************************************************************************)
RemoveWhite(white) ==
    /\ pc \in {"idle", "alloc"}
    /\ pc = "alloc" => pending[1] \notin white
    /\ entries' =
         [s \in Slots(capacity) |->
            IF /\ IsLive(entries[s])
               /\ \E r \in Slots(capacity) :
                     /\ entries[r].key \in white
                     /\ FindsAt(entries, capacity, TextOf[entries[r].key], s)
            THEN Tombstone ELSE entries[s]]
    /\ UNCHANGED <<capacity, count, growing, ok, out>>

Next == \/ \E k \in Keys, v \in Values : SetInPlace(k, v) \/ SetGrows(k, v)
        \/ FreshArray
        \/ RehashSlot
        \/ FinishSet
        \/ \E t \in Texts : Delete(t) \/ Get(t) \/ FindString(t)
        \/ \E white \in SUBSET Keys : RemoveWhite(white)

\* Nothing pre-empts a call: a set that has begun to grow returns.
Fairness == WF_vars(FreshArray) /\ WF_vars(RehashSlot) /\ WF_vars(FinishSet)

Spec == Init /\ [][Next]_vars
FairSpec == Spec /\ Fairness

-----------------------------------------------------------------------------
(***************************************************************************)
(* The type invariant: every slot of the array and of the one being filled *)
(* holds a key object or NULL with a value; a call that is not growing the *)
(* table keeps nothing pending.                                            *)
(***************************************************************************)
TypeOK ==
    /\ capacity \in Nat
    /\ capacity = 0 \/ capacity >= 4
    /\ entries \in [Slots(capacity) -> Slot]
    /\ count \in Nat
    /\ pc \in {"idle", "alloc", "rehash"}
    /\ pc # "idle" => pending \in Keys \X Values
    /\ pc = "rehash" => dest \in [Slots(GrownCapacity(capacity)) -> Slot]
    /\ scan \in 0 .. capacity
    /\ ok \in BOOLEAN
    /\ out \in Keys \cup Values \cup {NULL}

(***************************************************************************)
(* find_entry and table_find_string loop until they meet the text or an    *)
(* empty slot, with no other exit.  Whatever was inserted, deleted and     *)
(* swept before, a probe for any text ends: tombstones, which count for    *)
(* the load factor until the next growth, never use up the empty slots.    *)
(***************************************************************************)
AllFind(es, cap) ==
    \A t \in Texts : \E s \in Slots(cap) : FindsAt(es, cap, t, s)

ProbingEnds ==
    /\ capacity > 0 => AllFind(entries, capacity)
    /\ pc = "rehash" => AllFind(dest, GrownCapacity(capacity))

(***************************************************************************)
(* No deletion, reuse of a tombstone or rehash cuts an entry off from the  *)
(* probe sequence of its text, and no text is stored twice: find_entry     *)
(* finds every live entry where it is.                                     *)
(***************************************************************************)
AllFound(es, cap) ==
    \A s \in Slots(cap) :
       IsLive(es[s]) => FindsAt(es, cap, TextOf[es[s].key], s)

EveryEntryIsFound ==
    /\ AllFound(entries, capacity)
    /\ pc = "rehash" => AllFound(dest, GrownCapacity(capacity))

(***************************************************************************)
(* The table is a map from texts to cells: the slots, tombstones, growth   *)
(* and rehashing are invisible to its callers, and every call returns what *)
(* that map makes it return: table_set whether the text was new.  That is  *)
(* what the code does; include/table.h:42-43 says it also returns true     *)
(* where an existing key had the value nil, of which table_set knows       *)
(* nothing (src/src/table.c:87).                                           *)
(***************************************************************************)
Contents ==
    [t \in Texts |->
       IF \E s \in Slots(capacity) : Holds(entries[s], t)
       THEN entries[CHOOSE s \in Slots(capacity) : Holds(entries[s], t)]
       ELSE NULL]

Map == INSTANCE Dictionary WITH Names <- Texts, NameOf <- TextOf, PutTellsNew <- TRUE,
                                Nothing <- NULL, dict <- Contents

RefinesDictionary == Map!Spec

(***************************************************************************)
(* A set that has begun to grow the table returns, however many times the  *)
(* allocation runs a collection that deletes entries meanwhile.            *)
(***************************************************************************)
GrowthReturns == pc # "idle" ~> pc = "idle"
=============================================================================
