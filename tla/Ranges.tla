------------------------------- MODULE Ranges -------------------------------
(***************************************************************************)
(* The Range of the language (src/src/object.c, src/src/stdlib/range.c)    *)
(* and what is done with one: a literal or a call makes it, an iterator    *)
(* walks it, contains and in ask for a member, reversed makes another, and *)
(* arrays, tuples and strings are sliced by it (src/src/vm/vm_run.c).      *)
(*                                                                         *)
(* start, step and end are int32_t: here, one of Span Ints, and sums wrap  *)
(* as the build makes them.  Division truncates; the length is an unsigned *)
(* number.                                                                 *)
(***************************************************************************)
EXTENDS Integers, Sequences, FiniteSets

CONSTANTS Span,         \* 2^32: how many Ints there are
          Wide,         \* may the distance from start to end be no Int?
          Remainders,   \* may a range be reversed whose step does not divide it?
          Sizes         \* the sizes of the arrays that are sliced

Half == Span \div 2

Int32 == -Half .. Half - 1

ASSUME RangesAssumption ==
    /\ Span \in Nat \ {0} /\ Span % 2 = 0
    /\ Wide \in BOOLEAN /\ Remainders \in BOOLEAN
    /\ Sizes \subseteq Nat

VARIABLES range,    \* the range the script holds
          origin,   \* the range it was reversed from, or range itself
          index,    \* of the iterator over range
          seen,     \* what the iterator has given so far
          done,     \* it has said that there is no more
          slice     \* of what size a collection was sliced, and the positions
                    \* it gave, or OutOfBounds; or NoSlice

rangeVars == <<range, origin, index, seen, done, slice>>

NoSlice == <<>>
OutOfBounds == <<-1>>

Wrap(x) == ((x + Half) % Span) - Half
AsUnsigned(x) == x % Span

\* C's division, which rounds towards zero
Quotient(a, b) ==
    LET q == (IF a < 0 THEN -a ELSE a) \div (IF b < 0 THEN -b ELSE b)
    IN  IF (a < 0) = (b < 0) THEN q ELSE -q

Divides(b, a) == Quotient(a, b) * b = a

validate_range_values(start, step, end) ==
    /\ step # 0
    /\ step > 0 => start <= end
    /\ step < 0 => start >= end

range_len(r) ==
    AsUnsigned(IF r.step > 0 THEN Quotient(Wrap(r.end - r.start + r.step - 1), r.step)
                             ELSE Quotient(Wrap(r.start - r.end - r.step - 1), Wrap(-r.step)))

range_contains(r, value) ==
    IF r.step > 0
    THEN value >= r.start /\ value < r.end /\ Divides(r.step, Wrap(value - r.start))
    ELSE value <= r.start /\ value > r.end /\ Divides(Wrap(-r.step), Wrap(r.start - value))

\* the value iterate_next gives at an index, and the position a slice takes there
ValueAt(r, i) == Wrap(r.start + i * r.step)

\* to_array counts with an int
to_array(r) == [i \in 1 .. Wrap(range_len(r)) |-> ValueAt(r, i - 1)]

\* mutant: only the first and the exclusive end are compared with the size
range_ends_in_bounds(r, n) == r.start \in 0 .. n /\ r.end \in 0 .. n

range_indices_in_bounds(r, n) ==
    \A i \in 0 .. range_len(r) - 1 : ValueAt(r, i) >= 0 /\ ValueAt(r, i) < n

Reversed(r) ==
    [start |-> Wrap(r.end - r.step), step |-> Wrap(-r.step), end |-> Wrap(r.start - r.step)]
-----------------------------------------------------------------------------
(***************************************************************************)
(* What the passing run keeps to: the distances range_len computes with    *)
(* are Ints, and a range that is reversed ends on a multiple of its step.  *)
(***************************************************************************)
Narrow(r) ==
    IF r.step > 0 THEN r.end - r.start + r.step - 1 \in Int32
                  ELSE r.start - r.end - r.step - 1 \in Int32

Exact(r) == Divides(r.step, r.end - r.start)

Held(r) == /\ range' = r
           /\ index' = 0
           /\ seen' = <<>>
           /\ done' = FALSE
           /\ slice' = NoSlice

\* OP_RANGE and the function Range, which differ in how they refuse
WrittenRanges ==
    {r \in [start : Int32, step : Int32, end : Int32] :
        /\ validate_range_values(r.start, r.step, r.end)
        /\ Wide \/ Narrow(r)}

RangeInit ==
    /\ range \in WrittenRanges
    /\ origin = range
    /\ index = 0
    /\ seen = <<>>
    /\ done = FALSE
    /\ slice = NoSlice

\* OP_ITER_NEXT or next
iterate_next ==
    /\ ~done
    /\ IF index >= range_len(range)
       THEN /\ done' = TRUE
            /\ UNCHANGED <<index, seen>>
       ELSE /\ seen' = Append(seen, ValueAt(range, index))
            /\ index' = index + 1
            /\ UNCHANGED done
    /\ UNCHANGED <<range, origin, slice>>

\* reversed, of a literal; the script goes on with the new range
ReverseRange ==
    /\ range = origin /\ index = 0 /\ slice = NoSlice
    /\ Remainders \/ Exact(range)
    /\ LET r == Reversed(range) IN
          /\ \/ Wide
             \/ /\ Narrow(r)
                /\ range.end - range.step \in Int32
                /\ range.start - range.step \in Int32
          /\ Held(r)
    /\ UNCHANGED origin

\* OP_GET_SLICE of a collection of this size
SliceBy(n) ==
    /\ index = 0 /\ ~done /\ slice = NoSlice
    /\ slice' = <<n, IF range_indices_in_bounds(range, n)
                    THEN [i \in 1 .. range_len(range) |-> ValueAt(range, i - 1)]
                    ELSE OutOfBounds>>
    /\ UNCHANGED <<range, origin, index, seen, done>>

RangeNext == iterate_next \/ ReverseRange \/ \E n \in Sizes : SliceBy(n)

RangeSpec == RangeInit /\ [][RangeNext]_rangeVars
-----------------------------------------------------------------------------
(***************************************************************************)
(* The range as its literal reads: from start, by step, up to end, which   *)
(* is not in it.                                                           *)
(***************************************************************************)
Before(r, x) == IF r.step > 0 THEN x < r.end ELSE x > r.end

Members(r) ==
    {x \in {r.start + k * r.step : k \in 0 .. Span} : Before(r, x)}

InOrder(r) == [i \in 1 .. Cardinality(Members(r)) |-> r.start + (i - 1) * r.step]

RangeTypeOK ==
    /\ range \in [start : Int32, step : Int32 \ {0}, end : Int32]
    /\ origin \in [start : Int32, step : Int32 \ {0}, end : Int32]
    /\ index \in 0 .. Span
    /\ seen \in Seq(Int32)
    /\ done \in BOOLEAN
    /\ slice = NoSlice \/ slice \in Sizes \X Seq(Int32)

(***************************************************************************)
(* The iterator gives the members in their order and stops after the last. *)
(***************************************************************************)
IteratorYieldsTheRange ==
    /\ seen = SubSeq(InOrder(range), 1, index)
    /\ done => seen = InOrder(range)

(***************************************************************************)
(* contains, in, len and to_array speak of the same members as iteration.  *)
(***************************************************************************)
QueriesAgree ==
    index = 0 /\ slice = NoSlice =>
        /\ {x \in Int32 : range_contains(range, x)} = Members(range)
        /\ range_len(range) = Cardinality(Members(range))
        /\ to_array(range) = InOrder(range)

(***************************************************************************)
(* A reversed range has the elements of the range it came from, from the   *)
(* last to the first.                                                      *)
(***************************************************************************)
Backwards(s) == [i \in 1 .. Len(s) |-> s[Len(s) + 1 - i]]

ReversedPreservesElements == range # origin => InOrder(range) = Backwards(InOrder(origin))

(***************************************************************************)
(* A slice takes the positions of its range's members; it is refused when  *)
(* one of them is not a position of the collection, and only then.         *)
(***************************************************************************)
SlicesAreInBounds ==
    slice # NoSlice =>
        LET n == slice[1]
            taken == slice[2]
        IN  IF Members(range) \subseteq 0 .. n - 1 THEN taken = InOrder(range)
                                                   ELSE taken = OutOfBounds

(***************************************************************************)
(* The iterator, the queries, reversed and slices, each of which computes  *)
(* them on its own, speak of the same elements of a range.                 *)
(***************************************************************************)
RangesAreTheirElements ==
    /\ RangeTypeOK
    /\ IteratorYieldsTheRange
    /\ QueriesAgree
    /\ ReversedPreservesElements
    /\ SlicesAreInBounds
=============================================================================
