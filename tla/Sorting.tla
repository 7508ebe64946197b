------------------------------ MODULE Sorting ------------------------------
(***************************************************************************)
(* array_sort_method of src/src/stdlib/array.c: a copy of the array is     *)
(* sorted in place by quick_sort, whose partition goes through it from low *)
(* to high and exchanges elements as it compares them.                     *)
(*                                                                         *)
(* An element has a type and a rank by which those of comparable types are *)
(* ordered.  What cannot be compared (compare_values answers 0 for it) is  *)
(* taken for equal; so is a Float that is not a number.                    *)
(***************************************************************************)
EXTENDS Integers, Sequences, FiniteSets

CONSTANTS Sortables,  \* records with type and rank
          NaN,       \* the rank of a Float that is not a number
          MaxLength    \* of an array

ASSUME SortingAssumption ==
    /\ \A e \in Sortables : e.type \in {"Int", "Float", "String", "Nil"} /\ e.rank \in Int
    /\ MaxLength \in Nat

VARIABLES original,  \* the array sort is called on
          sorted,    \* the copy
          pending,   \* the calls of quick_sort that are to be made, <<low, high>>
          scan,      \* the partition that goes on, or NoScan
          verdict     \* "none", "ok", "unsortable"

sortVars == <<original, sorted, pending, scan, verdict>>

NoScan == <<>>

SortableArrays == UNION {[1 .. n -> Sortables] : n \in 0 .. MaxLength}

IsNumber(e) == e.type \in {"Int", "Float"}
Comparable(a, b) == (IsNumber(a) /\ IsNumber(b)) \/ (a.type = "String" /\ b.type = "String")

\* compare_values
Compare(a, b) ==
    IF Comparable(a, b) /\ a.rank # NaN /\ b.rank # NaN THEN a.rank - b.rank ELSE 0

all_elements_sortable(array) ==
    /\ \A i \in DOMAIN array : array[i].type \in {"Int", "Float", "String"}
    /\ \/ \A i \in DOMAIN array : array[i].type = "String"
       \/ \A i \in DOMAIN array : IsNumber(array[i])

Swapped(array, i, j) == [array EXCEPT ![i] = array[j], ![j] = array[i]]

-----------------------------------------------------------------------------
SortInit ==
    /\ original \in SortableArrays
    /\ sorted = original
    /\ pending = <<>>
    /\ scan = NoScan
    /\ verdict = "none"

\* array_sort_method up to its call of quick_sort
CallSort ==
    /\ verdict = "none" /\ pending = <<>> /\ scan = NoScan
    /\ IF original = <<>> THEN verdict' = "ok" /\ UNCHANGED pending
       ELSE IF ~all_elements_sortable(original)
            THEN verdict' = "unsortable" /\ UNCHANGED pending
       ELSE pending' = <<<<1, Len(original)>>>> /\ UNCHANGED verdict
    /\ UNCHANGED <<original, sorted, scan>>

\* quick_sort(low, high): partition begins, unless there is nothing to sort.
\* Positions are counted from 1.
QuickSort ==
    /\ pending # <<>> /\ scan = NoScan
    /\ LET low == Head(pending)[1]
           high == Head(pending)[2]
       IN  IF low < high
           THEN /\ scan' = [low |-> low, high |-> high, i |-> low - 1, j |-> low]
                /\ UNCHANGED <<pending, verdict>>
           ELSE /\ pending' = Tail(pending)
                /\ verdict' = IF Tail(pending) = <<>> THEN "ok" ELSE verdict
                /\ UNCHANGED scan
    /\ UNCHANGED <<original, sorted>>

\* one round of the loop of partition
Scan ==
    /\ scan # NoScan
    /\ scan.j <= scan.high - 1
    /\ IF Compare(sorted[scan.j], sorted[scan.high]) <= 0
       THEN /\ sorted' = Swapped(sorted, scan.i + 1, scan.j)
            /\ scan' = [scan EXCEPT !.i = @ + 1, !.j = @ + 1]
       ELSE /\ scan' = [scan EXCEPT !.j = @ + 1]
            /\ UNCHANGED sorted
    /\ UNCHANGED <<original, pending, verdict>>

\* mutant: the pivot is put where the left part ends
PlaceBefore ==
    /\ scan # NoScan
    /\ scan.j > scan.high - 1
    /\ sorted' = Swapped(sorted, scan.i, scan.high)
    /\ pending' = <<<<scan.low, scan.i - 1>>, <<scan.i + 1, scan.high>>>> \o Tail(pending)
    /\ scan' = NoScan
    /\ UNCHANGED <<original, verdict>>

\* the pivot goes between the parts, and quick_sort to the left one first
Place ==
    /\ scan # NoScan
    /\ scan.j > scan.high - 1
    /\ sorted' = Swapped(sorted, scan.i + 1, scan.high)
    /\ pending' = <<<<scan.low, scan.i>>, <<scan.i + 2, scan.high>>>> \o Tail(pending)
    /\ scan' = NoScan
    /\ UNCHANGED <<original, verdict>>

SortNext == CallSort \/ QuickSort \/ Scan \/ Place

SortSpec == SortInit /\ [][SortNext]_sortVars
-----------------------------------------------------------------------------
Indexes == 1 .. Len(original)

SortTypeOK ==
    /\ original \in SortableArrays
    /\ Len(sorted) = Len(original) /\ \A p \in Indexes : sorted[p] \in Sortables
    /\ \A k \in DOMAIN pending : pending[k] \in (Indexes \cup {Len(original) + 1}) \X
                                                (Indexes \cup {0})
    /\ scan # NoScan => /\ scan.low \in Indexes /\ scan.high \in Indexes
                        /\ scan.i \in scan.low - 1 .. scan.high - 1
                        /\ scan.j \in scan.low .. scan.high
    /\ verdict \in {"none", "ok", "unsortable"}

(***************************************************************************)
(* Nothing is lost and nothing doubled, at any moment of the sort.         *)
(***************************************************************************)
CountOf(array, e) == Cardinality({p \in DOMAIN array : array[p] = e})

StaysAPermutation == \A e \in Sortables : CountOf(sorted, e) = CountOf(original, e)

(***************************************************************************)
(* What partition knows in the middle: up to i nothing is greater than the *)
(* pivot, from there to j everything is; and what quick_sort has done: the *)
(* calls that remain cover all that may be out of order.                   *)
(***************************************************************************)
Settled(p, q) ==
    \E k \in DOMAIN pending : p \in pending[k][1] .. pending[k][2]
                              /\ q \in pending[k][1] .. pending[k][2]

PartsAreApart ==
    /\ scan # NoScan =>
          LET pivot == sorted[scan.high]
          IN  /\ \A p \in scan.low .. scan.i : Compare(sorted[p], pivot) <= 0
              /\ \A p \in scan.i + 1 .. scan.j - 1 : Compare(sorted[p], pivot) > 0
    /\ pending # <<>> =>
          \A p \in Indexes : \A q \in p + 1 .. Len(original) :
              Settled(p, q) \/ Compare(sorted[p], sorted[q]) <= 0

(***************************************************************************)
(* sort answers with the array in ascending order, whatever the Floats     *)
(* that are not numbers do in between.  It refuses when two elements       *)
(* cannot be compared, or one with itself, and only then.                  *)
(***************************************************************************)
SortedInTheEnd ==
    /\ verdict = "ok" => \A p \in Indexes : \A q \in p + 1 .. Len(original) :
                            Compare(sorted[p], sorted[q]) <= 0
    /\ (verdict = "unsortable" \/ verdict = "ok") =>
          (verdict = "ok" <=> \A p, q \in Indexes : Comparable(original[p], original[q]))

(***************************************************************************)
(* A sort ends with the array in order, and never has anything but its     *)
(* elements.  src/tests/modules/array.crux:81-84 skips sort: "currently    *)
(* not working correctly", of which it says that it "modifies in place".   *)
(* It does not: array_sort_method (src/src/stdlib/array.c:532-543) sorts a *)
(* copy, which it returns, and leaves the array as it was, so that a test  *)
(* of the array would fail.  This is about the answer, which is right.     *)
(***************************************************************************)
SortSorts == SortTypeOK /\ StaysAPermutation /\ PartsAreApart /\ SortedInTheEnd
=============================================================================
