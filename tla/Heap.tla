-------------------------------- MODULE Heap --------------------------------
(***************************************************************************)
(* The object heap: allocation (src/src/memory/alloc.c), the string intern *)
(* pool as its users see it (copy_string), the mark-and-sweep collector    *)
(* (src/src/memory/garbage_collector.c), and what a running script does to *)
(* the objects between two collections.                                    *)
(*                                                                         *)
(* An object is the slot it lives in.  The collector stops the world; its  *)
(* phases are nevertheless steps of their own, one object at a time, so    *)
(* that the state between them can be spoken of.  A collection may begin   *)
(* whenever the script is between two instructions: the byte counters that *)
(* decide when are not kept.  Only objects in slots are modelled, the      *)
(* buffers they own are part of the object.                                *)
(*                                                                         *)
(* kinds: "string"; "array" and "table", which hold references; "set",     *)
(* whose one reference is the table object holding its elements; and       *)
(* "none", a slot that holds no object.                                    *)
(***************************************************************************)
EXTENDS SlabAllocator, FiniteSets

Containers == {"array", "table", "set"}

CONSTANTS Kinds,       \* the kinds of container the script creates
          Texts,       \* contents of strings
          LibraryNames,\* those the standard library interns, a sequence
          NULL,
          MaxStack     \* bound: a push on a deeper value stack is not taken

ASSUME KindsAssumption == Kinds \subseteq Containers

\* where the slabs that hold the library's names end
LibraryEnd ==
    ((Len(LibraryNames) + SlabCapacity - 1) \div SlabCapacity) * SlabCapacity

ASSUME LibraryAssumption ==
    /\ LibraryNames \in Seq(Texts)
    /\ \A i, j \in DOMAIN LibraryNames :
          LibraryNames[i] = LibraryNames[j] => i = j
    /\ LibraryEnd <= MaxSlots

Addr == 1 .. MaxSlots

ASSUME NullAssumption == NULL \notin Addr

VARIABLES objects,    \* vm->objects, the list the sweep walks
          kind,       \* object->type, by slot
          text,       \* the characters of a string, by slot
          refs,       \* the objects an object refers to, by slot
          immortal,   \* the slots whose object is immortal
          marked,     \* the slots whose object has its mark bit set
          gray,       \* vm->gray_stack
          stack,      \* the module's value stack
          pool,       \* vm->strings: the interned string of a text, or NULL
          building,   \* the set whose table is still to be allocated, or NULL
          paused,     \* vm->gc_status = PAUSED
          phase,      \* "run", or the part of collect_garbage being executed
          toSweep,    \* the part of the list the sweep has not reached
          greyed      \* what was on the gray stack when the collection began

contents == <<kind, text, refs>>
heapVars == <<objects, contents, immortal>>
markVars == <<marked, gray>>
gcVars == <<phase, toSweep, greyed>>
scriptVars == <<stack, pool, building, paused>>
slabVars == <<freeList, slabEnd>>
vars == <<heapVars, markVars, gcVars, scriptVars, slabVars>>

Pointers(s) == {s[i] : i \in DOMAIN s}

Library == DOMAIN LibraryNames

(***************************************************************************)
(* init_vm and initialize_std_lib, with the collector paused: the names of *)
(* the library are interned and made immortal, each in the next slot.      *)
(***************************************************************************)
Init ==
    /\ slabEnd = LibraryEnd
    /\ freeList = [i \in 1 .. LibraryEnd - Len(LibraryNames) |->
                      Len(LibraryNames) + i]
    /\ objects = Library
    /\ kind = [a \in Addr |-> IF a \in Library THEN "string" ELSE "none"]
    /\ text = [a \in Addr |-> IF a \in Library THEN LibraryNames[a] ELSE NULL]
    /\ refs = [a \in Addr |-> {}]
    /\ immortal = Library
    /\ marked = {} /\ gray = {}
    /\ stack = <<>>
    /\ pool = [t \in Texts |->
                 IF \E a \in Library : LibraryNames[a] = t
                 THEN CHOOSE a \in Library : LibraryNames[a] = t
                 ELSE NULL]
    /\ building = NULL
    /\ paused = FALSE
    /\ phase = "run"
    /\ toSweep = {}
    /\ greyed = {}

-----------------------------------------------------------------------------
(***************************************************************************)
(* mark_object on each of a set of pointers: those that are neither marked *)
(* nor immortal are marked and go on the gray stack.                       *)
(***************************************************************************)
Unmarked(ptrs) == {a \in ptrs : a \notin marked /\ a \notin immortal}

\* The script is between two instructions, or (building) inside new_set.
Running == phase = "run"
Idle == Running /\ building = NULL

(***************************************************************************)
(* ALLOCATE_OBJECT: a slot is taken, linked into vm->objects, unmarked.    *)
(***************************************************************************)
PlaceObject(a, k, t) ==
    /\ AllocateFromSlab(a)
    /\ objects' = objects \cup {a}
    /\ kind' = [kind EXCEPT ![a] = k]
    /\ text' = [text EXCEPT ![a] = t]
    /\ immortal' = immortal \ {a}
    /\ marked' = marked \ {a}
    /\ UNCHANGED gray

(***************************************************************************)
(* new_array, new_object_table and new_set keep what they make on the      *)
(* stack while its parts are allocated; the instruction then leaves it     *)
(* there.  new_set allocates the set first and then, with its entries      *)
(* pointer not yet written, the table.                                     *)
(***************************************************************************)
NewObject(k) ==
    /\ Running
    /\ IF building = NULL THEN k \in Kinds /\ Len(stack) < MaxStack
                          ELSE k = "table"
    /\ \E a \in Addr :
          /\ PlaceObject(a, k, NULL)
          /\ refs' = [b \in Addr |-> CASE b = a -> {}
                                       [] b = building -> {a}
                                       [] OTHER -> refs[b]]
          /\ stack' = IF building = NULL THEN Append(stack, a) ELSE stack
          /\ building' = IF building = NULL /\ k = "set" THEN a ELSE NULL
    /\ UNCHANGED <<pool, paused, gcVars>>

(***************************************************************************)
(* copy_string and take_string: the interned string of the text if the     *)
(* pool has one, else a new one, which is entered in the pool.             *)
(***************************************************************************)
CopyString(t) ==
    /\ Idle
    /\ Len(stack) < MaxStack
    /\ IF pool[t] # NULL
       THEN /\ stack' = Append(stack, pool[t])
            /\ UNCHANGED <<heapVars, markVars, slabVars, pool>>
       ELSE \E a \in Addr :
               /\ PlaceObject(a, "string", t)
               /\ refs' = [refs EXCEPT ![a] = {}]
               /\ pool' = [pool EXCEPT ![t] = a]
               /\ stack' = Append(stack, a)
    /\ UNCHANGED <<building, paused, gcVars>>

(***************************************************************************)
(* What instructions do with the objects on the stack.                     *)
(***************************************************************************)
Top == stack[Len(stack)]

IsContainer(a) == kind[a] \in Containers

\* the object whose memory holds the elements of a container
Holder(a) == IF kind[a] = "set" THEN CHOOSE t \in refs[a] : TRUE ELSE a

\* OP_POP
Pop == /\ Idle
       /\ stack # <<>>
       /\ stack' = SubSeq(stack, 1, Len(stack) - 1)
       /\ UNCHANGED <<heapVars, markVars, gcVars, slabVars, pool, building, paused>>

\* OP_GET_LOCAL; OP_GET_COLLECTION: an element of the container on top
Load == /\ Idle
        /\ stack # <<>>
        /\ Len(stack) < MaxStack
        /\ \E v \in Pointers(stack) \cup
                    (IF IsContainer(Top) THEN refs[Holder(Top)] ELSE {}) :
              stack' = Append(stack, v)
        /\ UNCHANGED <<heapVars, markVars, gcVars, slabVars, pool, building, paused>>

(***************************************************************************)
(* An element is stored in a container.  array_set, array_add and          *)
(* object_table_set (barrier) also mark it, in the middle of the program,  *)
(* so that it waits on the gray stack for the next collection;             *)
(* array_add_back does not.                                                *)
(***************************************************************************)
Store(barrier) ==
    LET holder == Holder(stack[Len(stack) - 1])
        found == IF barrier THEN Unmarked({Top}) ELSE {}
    IN  /\ Idle
        /\ Len(stack) >= 2
        /\ IsContainer(stack[Len(stack) - 1])
        /\ refs' = [refs EXCEPT ![holder] = @ \cup {Top}]
        /\ marked' = marked \cup found
        /\ gray' = gray \cup found
        /\ stack' = SubSeq(stack, 1, Len(stack) - 1)
        /\ UNCHANGED <<objects, kind, text, immortal, gcVars, slabVars,
                       pool, building, paused>>

\* object_table_remove, array pop and remove
Unstore == /\ Idle
           /\ stack # <<>>
           /\ IsContainer(Top)
           /\ \E v \in refs[Holder(Top)] :
                 refs' = [refs EXCEPT ![Holder(Top)] = @ \ {v}]
           /\ UNCHANGED <<objects, kind, text, immortal, markVars, gcVars,
                          slabVars, scriptVars>>

\* gc.gc_off, gc.gc_on
Pause(b) == /\ Idle
            /\ paused' = b
            /\ UNCHANGED <<heapVars, markVars, gcVars, slabVars,
                           stack, pool, building>>

-----------------------------------------------------------------------------
(***************************************************************************)
(* collect_garbage                                                         *)
(***************************************************************************)
\* mark_roots: the stack and what else a module refers to, and mark_table on
\* the intern pool.
Roots == Pointers(stack) \cup ({pool[t] : t \in Texts} \ {NULL})

\* mutant: the gray stack is emptied when a collection begins
MarkRootsForgets ==
    /\ Running
    /\ ~paused
    /\ marked' = marked \cup Unmarked(Roots)
    /\ gray' = Unmarked(Roots)
    /\ greyed' = gray
    /\ phase' = "trace"
    /\ UNCHANGED <<heapVars, slabVars, scriptVars, toSweep>>

MarkRoots ==
    /\ Running
    /\ ~paused
    /\ marked' = marked \cup Unmarked(Roots)
    /\ gray' = gray \cup Unmarked(Roots)
    /\ greyed' = gray
    /\ phase' = "trace"
    /\ UNCHANGED <<heapVars, slabVars, scriptVars, toSweep>>

\* blacken_array, blacken_table; blacken_set marks the elements in the set's
\* table but not the table object, and dereferences an entries pointer that
\* may not have been written yet.
Children(a) == IF kind[a] = "set" THEN UNION {refs[t] : t \in refs[a]}
                                  ELSE refs[a]

\* mutant: an array is not traced
BlackenAllButArrays(a) ==
    /\ phase = "trace"
    /\ a \in gray
    /\ LET found == IF kind[a] = "array" THEN {} ELSE Unmarked(Children(a))
       IN  /\ marked' = marked \cup found
           /\ gray' = (gray \ {a}) \cup found
    /\ phase' \in IF a = building THEN {"trace", "crashed"} ELSE {"trace"}
    /\ UNCHANGED <<heapVars, slabVars, scriptVars, toSweep, greyed>>

\* mutant: references are greyed whether they are marked or not
BlackenRegreys(a) ==
    /\ phase = "trace"
    /\ a \in gray
    /\ LET found == Children(a) \ immortal
       IN  /\ marked' = marked \cup found
           /\ gray' = (gray \ {a}) \cup found
    /\ phase' \in IF a = building THEN {"trace", "crashed"} ELSE {"trace"}
    /\ UNCHANGED <<heapVars, slabVars, scriptVars, toSweep, greyed>>

\* trace_references: one object leaves the gray stack
BlackenObject(a) ==
    /\ phase = "trace"
    /\ a \in gray
    /\ LET found == Unmarked(Children(a))
       IN  /\ marked' = marked \cup found
           /\ gray' = (gray \ {a}) \cup found
    /\ phase' \in IF a = building THEN {"trace", "crashed"} ELSE {"trace"}
    /\ UNCHANGED <<heapVars, slabVars, scriptVars, toSweep, greyed>>

\* table_remove_white(&vm->strings), then the sweep starts at vm->objects
RemoveWhite ==
    /\ phase = "trace"
    /\ gray = {}
    /\ pool' = [t \in Texts |-> IF pool[t] \in marked THEN pool[t] ELSE NULL]
    /\ phase' = "sweep"
    /\ toSweep' = objects
    /\ UNCHANGED <<heapVars, markVars, slabVars, stack, building, paused, greyed>>

\* free_dispatch: free_object_set frees the set's table object as well
Freed(a) == IF kind[a] = "set" /\ refs[a] # {} THEN <<Holder(a), a>> ELSE <<a>>

\* the slots go back to the slab, the buffers the objects owned are freed
FreeSlots(ss) ==
    /\ FreeToSlab(ss)
    /\ kind' = [b \in Addr |-> IF b \in Pointers(ss) THEN "none" ELSE kind[b]]
    /\ text' = [b \in Addr |-> IF b \in Pointers(ss) THEN NULL ELSE text[b]]
    /\ refs' = [b \in Addr |-> IF b \in Pointers(ss) THEN {} ELSE refs[b]]

\* sweep, at one object of the list
SweepObject(a) ==
    /\ phase = "sweep"
    /\ a \in toSweep
    /\ toSweep' = toSweep \ {a}
    /\ IF a \in marked
       THEN /\ marked' = marked \ {a}
            /\ UNCHANGED <<gray, objects, contents, slabVars>>
       ELSE /\ objects' = objects \ {a}
            /\ IF a \in immortal
               THEN UNCHANGED <<contents, slabVars>>
               ELSE FreeSlots(Freed(a))
            /\ UNCHANGED markVars
    /\ UNCHANGED <<immortal, scriptVars, phase, greyed>>

EndSweep ==
    /\ phase = "sweep"
    /\ toSweep = {}
    /\ phase' = "run"
    /\ greyed' = {}
    /\ UNCHANGED <<heapVars, markVars, slabVars, scriptVars, toSweep>>

\* free_objects(vm, true) from free_vm: everything still on the list
Shutdown ==
    /\ Idle
    /\ phase' = "down"
    /\ objects' = {}
    /\ kind' = [a \in Addr |-> IF a \in objects THEN "none" ELSE kind[a]]
    /\ UNCHANGED <<text, refs, immortal, markVars, slabVars, scriptVars,
                   toSweep, greyed>>

Mutator == \/ \E k \in Containers : NewObject(k)
           \/ \E t \in Texts : CopyString(t)
           \/ Pop \/ Load \/ Unstore
           \/ \E b \in BOOLEAN : Store(b) \/ Pause(b)
           \/ Shutdown

Collector == \/ \E a \in Addr : BlackenObject(a) \/ SweepObject(a)
             \/ RemoveWhite
             \/ EndSweep

Next == Mutator \/ MarkRoots \/ Collector

\* collect_garbage runs to its end: it is one call
Spec == Init /\ [][Next]_vars
FairSpec == Spec /\ WF_vars(Collector)

-----------------------------------------------------------------------------
(***************************************************************************)
(* What the pointers a program can still follow lead to: the least set     *)
(* that holds the stack and is closed under references.                    *)
(***************************************************************************)
ClosedUnderRefs(S) == \A a \in S : refs[a] \subseteq S

ReachableFrom(ptrs) ==
    {a \in Addr : \A S \in SUBSET Addr :
                     ptrs \subseteq S /\ ClosedUnderRefs(S) => a \in S}

Allocated == {a \in Addr : kind[a] # "none"}

(***************************************************************************)
(* The type invariant.                                                     *)
(***************************************************************************)
TypeOK ==
    /\ freeList \in Seq(Addr)
    /\ slabEnd \in 0 .. MaxSlots
    /\ objects \subseteq Addr
    /\ kind \in [Addr -> {"none", "string"} \cup Containers]
    /\ text \in [Addr -> Texts \cup {NULL}]
    /\ refs \in [Addr -> SUBSET Addr]
    /\ immortal \subseteq Addr
    /\ marked \subseteq Addr /\ gray \subseteq marked
    /\ stack \in Seq(Addr)
    /\ pool \in [Texts -> Addr \cup {NULL}]
    /\ building \in Addr \cup {NULL}
    /\ paused \in BOOLEAN
    /\ phase \in {"run", "trace", "sweep", "down", "crashed"}
    /\ toSweep \subseteq objects
    /\ greyed \subseteq Addr

(***************************************************************************)
(* No use after free: every object the script can reach is still allocated,*)
(* at every step of a collection too, whatever was stored, removed,        *)
(* interned and collected before.                                          *)
(***************************************************************************)
ReachableIsAllocated ==
    phase # "down" => ReachableFrom(Pointers(stack)) \subseteq Allocated

(***************************************************************************)
(* No slot is handed out twice: the free list has no repetition, and what  *)
(* is on it is exactly the carved slots that hold no object, so that an    *)
(* allocation never lands on a live object.                                *)
(***************************************************************************)
FreeListSound ==
    /\ \A i, j \in DOMAIN freeList : freeList[i] = freeList[j] => i = j
    /\ phase # "down" => Pointers(freeList) = (1 .. slabEnd) \ Allocated

(***************************************************************************)
(* Outside a collection an object is marked only if it waits on the gray   *)
(* stack (a store put it there): no collection takes a mark of the last    *)
(* one, or a mark nobody traces, for a reachable object.                   *)
(***************************************************************************)
MarksAreGray == phase = "run" => marked = gray

(***************************************************************************)
(* A collection is exact: what survives it is what the roots and the       *)
(* objects greyed by stores since the last one lead to, nothing else.      *)
(***************************************************************************)
CollectionIsExact ==
    [][phase = "trace" /\ phase' = "sweep" =>
          marked = ReachableFrom(Roots \cup greyed) \ immortal]_vars

(***************************************************************************)
(* Of the strings the script creates there is one per text: values_equal   *)
(* compares strings by address.  Not so the library's own: the first       *)
(* collection takes those, never marked, out of the pool, and a string the *)
(* script creates later with the text of one is another object.            *)
(***************************************************************************)
MortalStringsAreUnique ==
    \A a, b \in Allocated \ immortal :
       kind[a] = "string" /\ kind[b] = "string" /\ text[a] = text[b] => a = b

(***************************************************************************)
(* Every collection ends.                                                  *)
(***************************************************************************)
CollectionEnds == phase \in {"trace", "sweep"} ~> phase = "run"

(***************************************************************************)
(* Between and during collections: no object the script can still reach    *)
(* has been freed, free slots are those without objects, gray objects are  *)
(* the marked ones still to be traced, and of each text there is one       *)
(* string at most.                                                         *)
(***************************************************************************)
HeapIsSound ==
    /\ TypeOK /\ ReachableIsAllocated
    /\ FreeListSound /\ MarksAreGray /\ MortalStringsAreUnique
=============================================================================
