------------------------------ MODULE Variables ------------------------------
(***************************************************************************)
(* What closures promise.  Every execution of a declaration makes a        *)
(* variable of its own; a closure refers to variables, not to values, and  *)
(* what is written through it is what every other function that captured   *)
(* the variable, and the function that declared it, read afterwards.  A    *)
(* variable lives as long as it is in scope or some closure refers to it.  *)
(***************************************************************************)
EXTENDS Naturals, Sequences

CONSTANTS Variable, Value, Closure,
          Dead   \* the value of no variable

VARIABLES scope,     \* the variables of the calls in progress, innermost last
          calls,     \* the calls in progress: the length of scope when it
                     \* began, and the closure called
          captured,  \* the variables each closure refers to
          store,     \* the value of each variable
          seen       \* the value read last

vars == <<scope, calls, captured, store, seen>>

InSeq(x, s) == \E i \in DOMAIN s : s[i] = x

Init == /\ scope = <<>>
        /\ calls = <<>>
        /\ captured = [c \in Closure |-> <<>>]
        /\ store = [x \in Variable |-> Dead]
        /\ seen = Dead

Base == IF calls = <<>> THEN 0 ELSE calls[Len(calls)].base

\* the variables the running function can name
Own(x) == \E i \in Base + 1 .. Len(scope) : scope[i] = x
Captured(x) == calls # <<>> /\ InSeq(x, captured[calls[Len(calls)].closure])

Declare(x, v) ==
    /\ store[x] = Dead
    /\ scope' = Append(scope, x)
    /\ store' = [store EXCEPT ![x] = v]
    /\ UNCHANGED <<calls, captured, seen>>

\* the variables after the n-th go out of scope
Shorten(n) ==
    /\ scope' = SubSeq(scope, 1, n)
    /\ store' = [x \in Variable |->
                   IF InSeq(x, scope') \/ \E c \in Closure : InSeq(x, captured[c])
                   THEN store[x] ELSE Dead]

LeaveScope ==
    /\ Len(scope) > Base
    /\ Shorten(Len(scope) - 1)
    /\ UNCHANGED <<calls, captured, seen>>

Call(c) ==
    /\ calls' = Append(calls, [base |-> Len(scope), closure |-> c])
    /\ UNCHANGED <<scope, captured, store, seen>>

Return ==
    /\ calls # <<>>
    /\ Shorten(Base)
    /\ calls' = SubSeq(calls, 1, Len(calls) - 1)
    /\ UNCHANGED <<captured, seen>>

\* all calls end
Abandon ==
    /\ Shorten(0)
    /\ calls' = <<>>
    /\ UNCHANGED <<captured, seen>>

Capture(c, x) ==
    /\ Own(x) \/ Captured(x)
    /\ captured' = [captured EXCEPT ![c] = Append(@, x)]
    /\ UNCHANGED <<scope, calls, store, seen>>

Write(x, v) ==
    /\ Own(x) \/ Captured(x)
    /\ store' = [store EXCEPT ![x] = v]
    /\ UNCHANGED <<scope, calls, captured, seen>>

Read(x) ==
    /\ Own(x) \/ Captured(x)
    /\ seen' = store[x]
    /\ UNCHANGED <<scope, calls, captured, store>>

Next == \/ LeaveScope \/ Return \/ Abandon
        \/ \E c \in Closure : Call(c)
        \/ \E x \in Variable :
              \/ Read(x)
              \/ \E v \in Value : Declare(x, v) \/ Write(x, v)
              \/ \E c \in Closure : Capture(c, x)

Spec == Init /\ [][Next]_vars
=============================================================================
