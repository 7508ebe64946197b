------------------------------- MODULE Arrays -------------------------------
(***************************************************************************)
(* The Array (src/src/object.c, src/src/stdlib/array.c, and what           *)
(* src/src/vm/vm_run.c does with one): memory for capacity values, of      *)
(* which the first size are elements.  The others are Nil, or what was     *)
(* left there by a removal.                                                *)
(*                                                                         *)
(* Loops, map, filter and reduce read the array anew for each element,     *)
(* and the function or body they run may change it; see List for a walk.   *)
(* A position is an Int that C takes for a uint32_t: a negative one is     *)
(* larger than any size.                                                   *)
(***************************************************************************)
EXTENDS Integers, Sequences

CONSTANTS Elements, Falsy, Failures, Positions, Literals,
                        \* see List
          Nil,          \* NIL_VAL, an element
          MinCapacity,  \* 8
          MaxCapacity,  \* UINT16_MAX - 1, also MAX_ARRAY_SIZE
          SizeBound,    \* the script stops pushing there
          Middle        \* does it insert before the end?

LargestPower == 1073741824

ASSUME ArraysAssumption ==
    /\ Nil \in Elements /\ Falsy \subseteq Elements
    /\ MinCapacity \in Nat \ {0}
    /\ MaxCapacity \in MinCapacity .. LargestPower
    /\ Positions \subseteq Int
    /\ Literals \subseteq Seq(Elements) /\ \A l \in Literals : Len(l) <= MaxCapacity
    /\ SizeBound \in 0 .. LargestPower

VARIABLES values,     \* array->values, all capacity of them
          size,
          fresh,      \* of the array made now: its capacity and what is written to it
          room,       \* the capacity of the array that map or filter fills
          args,       \* what the function of reduce is called with
          walk, result

arrayVars == <<values, size, fresh, room, args, walk, result>>

Values == Elements \cup Failures
Walks == {"loop", "map", "filter", "reduce"}
NoWalk == [kind |-> "none"]
Walk(kind, acc) ==
    [kind |-> kind, at |-> 0, current |-> <<>>, made |-> <<>>, acc |-> acc]

Walking == walk # NoWalk
InFunction == Walking /\ walk.current # <<>>
ScriptRuns == Walking => InFunction

Array == SubSeq(values, 1, size)
Nils(n) == [i \in 1 .. n |-> Nil]

InBounds(p) == p >= 0 /\ p < size

-----------------------------------------------------------------------------
(***************************************************************************)
(* Capacities: calculateCollectionCapacity fills the bits below the first  *)
(* bit of n - 1, which gives a power of two; ensure_capacity doubles.  It  *)
(* refuses when half of Int32's range is reached, and SizeBound is below.  *)
(***************************************************************************)
PowersOfTwo ==
    {1, 2, 4, 8, 16, 32, 64, 128, 256, 512, 1024, 2048, 4096, 8192, 16384, 32768,
     65536, 131072, 262144, 524288, 1048576, 2097152, 4194304, 8388608, 16777216,
     33554432, 67108864, 134217728, 268435456, 536870912, LargestPower}

Doublings(from, n) ==
    CHOOSE c \in {from * p : p \in {q \in PowersOfTwo : q <= 2 * n}} :
        c >= n /\ (c = from \/ c \div 2 < n)

CapacityFor(n) ==
    IF n >= MaxCapacity THEN MaxCapacity
    ELSE IF n < MinCapacity THEN MinCapacity
    ELSE Doublings(1, n)

\* mutant: compares with one less than is needed
EnsuredLate(needed) ==
    IF needed <= Len(values) + 1 THEN values
    ELSE values \o Nils(Doublings(Len(values), needed) - Len(values))

Ensured(needed) ==
    IF needed <= Len(values) THEN values
    ELSE values \o Nils(Doublings(Len(values), needed) - Len(values))

\* new_array(Len(l)), and l written to it
NoArray == [capacity |-> 0, written |-> 0]
NewArray(l) == fresh' = [capacity |-> CapacityFor(Len(l)), written |-> Len(l)]
-----------------------------------------------------------------------------
(***************************************************************************)
(* Calls that change the array.                                            *)
(***************************************************************************)
Ask(a) == ScriptRuns /\ result' = a /\ UNCHANGED <<walk, room, args>>
Keep(a) == Ask(a) /\ UNCHANGED <<values, size>>
Reply(a) == Keep(a) /\ fresh' = NoArray

\* array_add
Add(v, p) ==
    /\ values' = [Ensured(size + 1) EXCEPT ![p + 1] = v]
    /\ size' = size + 1
    /\ fresh' = NoArray

Push(v) == size < SizeBound /\ Ask(<<"push", v>>) /\ Add(v, size)

Pop ==
    \/ size = 0 /\ Reply(<<"empty">>)
    \/ /\ size > 0
       /\ Ask(<<"pop", values[size]>>)
       /\ values' = [values EXCEPT ![size] = Nil]
       /\ size' = size - 1
       /\ fresh' = NoArray

Insert(p, v) ==
    \/ (p < 0 \/ p > size) /\ Reply(<<"out of bounds", p>>)
    \/ /\ p >= 0 /\ (IF Middle THEN p <= size ELSE p = size)
       /\ size < SizeBound
       /\ Ask(<<"insert", p, v>>)
       /\ Add(v, p)

\* mutant: the shift stops one element early
RemoveAtShort(p) ==
    \/ ~InBounds(p) /\ Reply(<<"out of bounds", p>>)
    \/ /\ InBounds(p)
       /\ Ask(<<"remove", p, values[p + 1]>>)
       /\ values' = [i \in DOMAIN values |->
                        IF i > p /\ i < size - 1 THEN values[i + 1] ELSE values[i]]
       /\ size' = size - 1
       /\ fresh' = NoArray

\* the last slot keeps its value
RemoveAt(p) ==
    \/ ~InBounds(p) /\ Reply(<<"out of bounds", p>>)
    \/ /\ InBounds(p)
       /\ Ask(<<"remove", p, values[p + 1]>>)
       /\ values' = [i \in DOMAIN values |->
                        IF i > p /\ i < size THEN values[i + 1] ELSE values[i]]
       /\ size' = size - 1
       /\ fresh' = NoArray

\* OP_GET_COLLECTION and OP_SET_COLLECTION; a panic ends the run
Get(p) == InBounds(p) /\ Reply(<<"get", p, values[p + 1]>>)

Set(p, v) ==
    /\ InBounds(p)
    /\ Ask(<<"set", p, v>>)
    /\ values' = [values EXCEPT ![p + 1] = v]
    /\ fresh' = NoArray /\ UNCHANGED size

Reverse ==
    /\ Ask(<<"reverse">>)
    /\ values' = [i \in DOMAIN values |-> IF i <= size THEN values[size + 1 - i] ELSE values[i]]
    /\ fresh' = NoArray /\ UNCHANGED size

Clear ==
    /\ Ask(<<"clear">>)
    /\ values' = [i \in DOMAIN values |-> IF i <= size THEN Nil ELSE values[i]]
    /\ size' = 0
    /\ fresh' = NoArray

-----------------------------------------------------------------------------
(***************************************************************************)
(* Calls that make another array, or a fact about this one.                *)
(***************************************************************************)
Concat(other) ==
    LET both == [i \in 1 .. size + Len(other) |->
                    IF i <= size THEN values[i] ELSE other[i - size]]
    IN  \/ Len(both) > MaxCapacity /\ Reply(<<"too long", other>>)
        \/ Len(both) <= MaxCapacity /\ Keep(<<"concat", both>>) /\ NewArray(both)

Slice(p, q) ==
    LET out == p < 0 \/ p > size \/ q < 0 \/ q > size \/ q < p
        part == [i \in 1 .. q - p |-> values[p + i]]
    IN  \/ out /\ Reply(<<"out of bounds", p, q>>)
        \/ ~out /\ Keep(<<"slice", p, q, part>>) /\ NewArray(part)

\* the position of the first element equal to v, or size
Found(v) ==
    LET hits == {i \in 1 .. size : values[i] = v}
    IN  IF hits = {} THEN size ELSE (CHOOSE i \in hits : \A j \in hits : i <= j) - 1

IndexOf(v) == Reply(<<"index", v, IF Found(v) = size THEN -1 ELSE Found(v)>>)

Contains(v) == Reply(<<"contains", v, Found(v) # size>>)

Equals(other) ==
    Reply(<<"equals", other, size = Len(other) /\ \A i \in 1 .. size : values[i] = other[i]>>)

-----------------------------------------------------------------------------
(***************************************************************************)
(* Walks: OP_ITER_INIT and OP_ITER_NEXT; array_map_method,                 *)
(* array_filter_method and array_reduce_method.                            *)
(***************************************************************************)
StartWalk(kind, initial) ==
    /\ ~Walking
    /\ kind # "reduce" => initial = Nil
    /\ walk' = Walk(kind, initial)
    /\ room' = IF kind \in {"map", "filter"} THEN CapacityFor(size) ELSE 0
    /\ result' = <<"walk", kind>>
    /\ fresh' = NoArray
    /\ UNCHANGED <<values, size, args>>

Call ==
    /\ ~InFunction
    /\ walk' = [walk EXCEPT !.at = @ + 1, !.current = <<values[walk.at + 1]>>]
    /\ args' = IF walk.kind = "reduce" THEN <<values[walk.at + 1], walk.acc>> ELSE <<>>
    /\ result' = <<"took">>
    /\ fresh' = NoArray
    /\ UNCHANGED <<values, size, room>>

Take == Walking /\ walk.at < size /\ Call

\* array_add_back to the array that is made
Finish(v) ==
    LET kept == CASE walk.kind = "map" -> Append(walk.made, v)
                  [] walk.kind = "filter" /\ v \notin Falsy \cup Failures ->
                         Append(walk.made, walk.current[1])
                  [] OTHER -> walk.made
        grown == IF Len(kept) <= room THEN room ELSE 2 * room
    IN  /\ InFunction
        /\ walk.kind = "loop" => v = Nil
        /\ args' = <<>>
        /\ \/ /\ walk.kind = "reduce" /\ v \in Failures
              /\ walk' = NoWalk
              /\ result' = <<"failed", v>>
           \/ /\ ~(walk.kind = "reduce" /\ v \in Failures)
              /\ walk' = [walk EXCEPT !.current = <<>>, !.made = kept,
                                      !.acc = IF walk.kind = "reduce" THEN v ELSE @]
              /\ result' = <<"returned">>
        /\ room' = grown
        /\ fresh' = [capacity |-> grown, written |-> Len(kept)]
        /\ UNCHANGED <<values, size>>

End ==
    /\ Walking /\ ~InFunction
    /\ walk.at >= size
    /\ result' = <<walk.kind, walk.made, walk.acc>>
    /\ walk' = NoWalk
    /\ room' = 0
    /\ fresh' = NoArray
    /\ UNCHANGED <<values, size, args>>

\* OP_ARRAY: an array literal
ArrayInit ==
    /\ \E l \in Literals :
          /\ values = l \o Nils(CapacityFor(Len(l)) - Len(l))
          /\ size = Len(l)
          /\ fresh = [capacity |-> CapacityFor(Len(l)), written |-> Len(l)]
    /\ room = 0
    /\ args = <<>>
    /\ walk = NoWalk
    /\ result = <<"made">>

ArrayNext ==
    \/ \E v \in Elements : Push(v) \/ IndexOf(v) \/ Contains(v)
    \/ \E p \in Positions : Get(p) \/ RemoveAt(p) \/ \E v \in Elements : Insert(p, v) \/ Set(p, v)
    \/ Pop \/ Reverse \/ Clear
    \/ \E l \in Literals : Concat(l) \/ Equals(l)
    \/ \E p, q \in Positions : Slice(p, q)
    \/ \E kind \in Walks, v \in Elements : StartWalk(kind, v)
    \/ Take \/ End
    \/ \E v \in Values : Finish(v)

ArraySpec == ArrayInit /\ [][ArrayNext]_arrayVars
-----------------------------------------------------------------------------
ArrayTypeOK ==
    /\ values \in Seq(Elements)
    /\ size \in 0 .. Len(values)
    /\ fresh \in [capacity : Nat, written : Nat]
    /\ room \in Nat
    /\ walk # NoWalk => /\ walk.kind \in Walks
                        /\ walk.at \in Nat
                        /\ walk.current \in Seq(Elements) /\ Len(walk.current) <= 1
                        /\ walk.made \in Seq(Values)
                        /\ walk.acc \in Values

(***************************************************************************)
(* No array gets more values than it has memory for: the natives that fill *)
(* one themselves asked for enough when they made it.  That is so of       *)
(* arrays up to MAX_ARRAY_SIZE; push and add grow one beyond it, and slice *)
(* and sort then write past the end of the copy.                           *)
(***************************************************************************)
WritesFitTheArray == size <= MaxCapacity => fresh.written <= fresh.capacity

ArraysAreSound == ArrayTypeOK /\ WritesFitTheArray

(***************************************************************************)
(* An array is a list, also while something walks over it: memory beyond   *)
(* the size does not show, not when it was grown and not when it holds     *)
(* what a removal left.                                                    *)
(***************************************************************************)
Lists == INSTANCE List WITH list <- Array, answer <- result,
                            MaxLength <- MaxCapacity, None <- Nil

RefinesList == Lists!Spec

(***************************************************************************)
(* reduce calls its function with the accumulator and the element.         *)
(***************************************************************************)
ReduceArgumentsInOrder ==
    InFunction /\ walk.kind = "reduce" => args = <<walk.acc>> \o walk.current
=============================================================================
