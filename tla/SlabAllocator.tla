---------------------------- MODULE SlabAllocator ----------------------------
(***************************************************************************)
(* The fixed-size slot pool of src/src/memory/slab_allocator.c, which      *)
(* serves every heap object of at most 64 bytes.  Slots are numbered in    *)
(* the order the slabs were carved; the free list, threaded through the    *)
(* free slots themselves, is a stack.                                      *)
(***************************************************************************)
EXTENDS Naturals, Sequences

CONSTANTS SlabCapacity,  \* slots per slab (SLAB_CAPACITY)
          MaxSlots       \* bound: no slab is appended past it

ASSUME SlabAssumption == SlabCapacity \in Nat \ {0} /\ MaxSlots \in Nat

VARIABLES freeList,   \* allocator->free_list, head first
          slabEnd     \* slots carved so far

\* append_new_slab: the slots of the new block, linked in address order, come
\* before what the list held
NewSlab == [i \in 1 .. SlabCapacity |-> slabEnd + i]

\* allocate_from_slab returns slot a
AllocateFromSlab(a) ==
    IF freeList # <<>>
    THEN /\ a = Head(freeList)
         /\ freeList' = Tail(freeList)
         /\ UNCHANGED slabEnd
    ELSE /\ slabEnd + SlabCapacity <= MaxSlots
         /\ a = Head(NewSlab)
         /\ freeList' = Tail(NewSlab)
         /\ slabEnd' = slabEnd + SlabCapacity

\* free_from_slab, of slots pushed one after the other (the first of ss ends
\* up deepest): nothing checks that a slot is in use
FreeToSlab(ss) ==
    /\ freeList' = [i \in 1 .. Len(ss) |-> ss[Len(ss) + 1 - i]] \o freeList
    /\ UNCHANGED slabEnd
=============================================================================
