--------------------------- MODULE MCCollections ---------------------------
(***************************************************************************)
(* The collections a script works with.  They share no state: a behaviour  *)
(* is one of one of them, which part names, and the variables of the       *)
(* others stay as they were.                                               *)
(***************************************************************************)
EXTENDS Sorting, Arrays, Ranges, Buffer, TLC

-----------------------------------------------------------------------------
\* sort: elements that are equal and yet different (an Int and a Float), and
\* elements that cannot be compared
Element(type, rank) == [type |-> type, rank |-> rank]
NotANumber == 99
MCSortables ==
    {Element("Int", 1), Element("Int", 3), Element("Float", 1), Element("Float", 2),
     Element("Float", NotANumber), Element("String", 1), Element("String", 2), Element("Nil", 0)}

-----------------------------------------------------------------------------
\* Array: an element that is nil and one that is not; an array may grow beyond
\* MaxCapacity
CONSTANTS a, error

MCElements == {Nil, a}
MCFalsy == {Nil}
MCPositions == -1 .. SizeBound
MCLiterals == {<<>>, <<a>>, <<a, Nil>>}

-----------------------------------------------------------------------------
\* Range: Ints of four bits, every range there is
MCSizes == 0 .. 7

-----------------------------------------------------------------------------
\* Buffer: bytes of one bit
MCTexts == {<<>>, <<0>>, <<1, 0, 0>>}
MCAsked == {-1, 0, 1, 3}
MCIntWidths == {2, 3}
MCFloatWidths == {2}

-----------------------------------------------------------------------------
VARIABLE part

collectionVars == <<part, arrayVars, rangeVars, sortVars, bufferVars>>

CollectionsInit ==
    /\ part \in {"array", "range", "sort", "buffer"}
    /\ part = "array" \/ size = 0
    /\ part = "range" \/ range = [start |-> 0, step |-> 1, end |-> 0]
    /\ part = "sort" \/ original = <<>>
    /\ ArrayInit /\ SortInit /\ RangeInit /\ BufferInit

ArrayStep == part = "array" /\ ArrayNext /\ UNCHANGED <<part, rangeVars, sortVars, bufferVars>>
RangeStep == part = "range" /\ RangeNext /\ UNCHANGED <<part, arrayVars, sortVars, bufferVars>>
SortStep == part = "sort" /\ SortNext /\ UNCHANGED <<part, arrayVars, rangeVars, bufferVars>>
BufferStep == part = "buffer" /\ BufferNext /\ UNCHANGED <<part, arrayVars, rangeVars, sortVars>>

CollectionsSpec ==
    CollectionsInit /\ [][ArrayStep \/ RangeStep \/ SortStep \/ BufferStep]_collectionVars

\* What a call of an array answered has no part in what follows.
Read == <<part, values, size, fresh, room, args, walk, rangeVars, sortVars, bufferVars>>
=============================================================================
