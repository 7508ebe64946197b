-------------------------------- MODULE List --------------------------------
(***************************************************************************)
(* What an Array of the language promises: it is a list.  A walk is a      *)
(* loop, or a call of map, filter or reduce, over the list: it takes the   *)
(* elements one after another, by position, and the script it runs for     *)
(* each may change the list in the meantime.                               *)
(***************************************************************************)
EXTENDS Integers, Sequences

Sq == INSTANCE SequencesExt

CONSTANTS Elements,   \* what the script stores in the list and returns
          None,       \* one of them, for no value
          Falsy,      \* those of them that a condition takes for false
          Failures,   \* the error values a function may return
          Positions,  \* the Ints the script uses as positions
          Literals,   \* the lists it writes down
          MaxLength   \* of a list that is made of two others

VARIABLES list,
          walk,       \* the walk that is going on, or NoWalk
          answer      \* of the last call, and what it was asked to do

vars == <<list, walk, answer>>

Values == Elements \cup Failures

\* at: how many elements were taken; current: the one the function has now, as
\* a sequence of at most one; made: the new list; acc: the accumulator
Walks == {"loop", "map", "filter", "reduce"}
NoWalk == [kind |-> "none"]
Walk(kind, acc) ==
    [kind |-> kind, at |-> 0, current |-> <<>>, made |-> <<>>, acc |-> acc]

Walking == walk # NoWalk
InFunction == Walking /\ walk.current # <<>>

\* no walk, or one whose function or body is running
ScriptRuns == Walking => InFunction

Init == list \in Literals /\ walk = NoWalk /\ answer = <<"made">>

Ask(a) == ScriptRuns /\ answer' = a /\ UNCHANGED walk
Keep(a) == Ask(a) /\ UNCHANGED list

Push(v) == Ask(<<"push", v>>) /\ list' = Append(list, v)

Pop == \/ list = <<>> /\ Keep(<<"empty">>)
       \/ list # <<>> /\ Ask(<<"pop", Sq!Last(list)>>) /\ list' = Sq!Front(list)

Insert(p, v) ==
    \/ p \notin 0 .. Len(list) /\ Keep(<<"out of bounds", p>>)
    \/ p \in 0 .. Len(list) /\ Ask(<<"insert", p, v>>) /\ list' = Sq!InsertAt(list, p + 1, v)

RemoveAt(p) ==
    \/ p \notin 0 .. Len(list) - 1 /\ Keep(<<"out of bounds", p>>)
    \/ p \in 0 .. Len(list) - 1 /\ Ask(<<"remove", p, list[p + 1]>>)
                                /\ list' = Sq!RemoveAt(list, p + 1)

\* a[p] and a[p] = v, which stop the program when there is no such position
Get(p) == p \in 0 .. Len(list) - 1 /\ Keep(<<"get", p, list[p + 1]>>)

Set(p, v) == /\ p \in 0 .. Len(list) - 1
             /\ Ask(<<"set", p, v>>)
             /\ list' = [list EXCEPT ![p + 1] = v]

Reverse == Ask(<<"reverse">>) /\ list' = Sq!Reverse(list)

Clear == Ask(<<"clear">>) /\ list' = <<>>

Concat(other) ==
    \/ Len(list) + Len(other) > MaxLength /\ Keep(<<"too long", other>>)
    \/ Len(list) + Len(other) <= MaxLength /\ Keep(<<"concat", list \o other>>)

Slice(p, q) ==
    \/ p \in 0 .. q /\ q \in 0 .. Len(list) /\ Keep(<<"slice", p, q, SubSeq(list, p + 1, q)>>)
    \/ ~(p \in 0 .. q /\ q \in 0 .. Len(list)) /\ Keep(<<"out of bounds", p, q>>)

IndexOf(v) ==
    Keep(<<"index", v, IF v \in Sq!ToSet(list)
                       THEN Sq!SelectInSeq(list, LAMBDA x : x = v) - 1 ELSE -1>>)

Contains(v) == Keep(<<"contains", v, v \in Sq!ToSet(list)>>)

Equals(other) == Keep(<<"equals", other, list = other>>)

-----------------------------------------------------------------------------
\* only reduce begins with a value

Start(kind, initial) ==
    /\ ~Walking
    /\ kind # "reduce" => initial = None
    /\ walk' = Walk(kind, initial)
    /\ answer' = <<"walk", kind>>
    /\ UNCHANGED list

Take ==
    /\ Walking /\ ~InFunction
    /\ walk.at < Len(list)
    /\ walk' = [walk EXCEPT !.at = @ + 1, !.current = <<list[walk.at + 1]>>]
    /\ answer' = <<"took">>
    /\ UNCHANGED list

\* the function returns v
Finish(v) ==
    /\ InFunction
    /\ walk.kind = "loop" => v = None
    /\ \/ /\ walk.kind = "reduce" /\ v \in Failures
          /\ walk' = NoWalk
          /\ answer' = <<"failed", v>>
       \/ /\ ~(walk.kind = "reduce" /\ v \in Failures)
          /\ walk' = [walk EXCEPT
                 !.current = <<>>,
                 !.made = CASE walk.kind = "map" -> Append(@, v)
                            [] walk.kind = "filter" /\ v \notin Falsy \cup Failures ->
                                   @ \o walk.current
                            [] OTHER -> @,
                 !.acc = IF walk.kind = "reduce" THEN v ELSE @]
          /\ answer' = <<"returned">>
    /\ UNCHANGED list

End ==
    /\ Walking /\ ~InFunction
    /\ walk.at >= Len(list)
    /\ answer' = <<walk.kind, walk.made, walk.acc>>
    /\ walk' = NoWalk
    /\ UNCHANGED list

Next ==
    \/ \E v \in Elements : Push(v) \/ IndexOf(v) \/ Contains(v)
    \/ \E p \in Positions : Get(p) \/ RemoveAt(p) \/ \E v \in Elements : Insert(p, v) \/ Set(p, v)
    \/ Pop \/ Reverse \/ Clear
    \/ \E l \in Literals : Concat(l) \/ Equals(l)
    \/ \E p, q \in Positions : Slice(p, q)
    \/ \E kind \in Walks, v \in Elements : Start(kind, v)
    \/ Take \/ End
    \/ \E v \in Values : Finish(v)

Spec == Init /\ [][Next]_vars
=============================================================================
