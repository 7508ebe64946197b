------------------------------ MODULE Upvalues ------------------------------
(***************************************************************************)
(* Calls, closures and upvalues: the frames and the value stack of a       *)
(* module record, the list of open upvalues, and the nested runs of the    *)
(* interpreter loop by which natives (array.map, filter, reduce, user      *)
(* iterators) call back (src/src/vm/vm_run.c, src/src/vm/vm_helpers.c).    *)
(*                                                                         *)
(* Of the stack only the slots of variables are kept: temporaries, callees *)
(* and results are pushed and popped between two steps.  A native that is  *)
(* a method takes the slot below its receiver for the time of the call:    *)
(* that of the topmost variable, if no temporary is there.  Closures are   *)
(* values that escape anywhere: one that was made can be called from then  *)
(* on.  The variables owner, captures of and fresh names are history: they *)
(* say which execution of a declaration a slot or an upvalue stands for.   *)
(***************************************************************************)
EXTENDS Naturals, Sequences

Sq == INSTANCE SequencesExt

CONSTANTS Value, Closure, Upvalue, Variable,
          Dead,           \* see Variables
          Method,         \* the value of a native method
          CallbacksCall,  \* do functions called by natives call functions?
          OpenAtPanic,    \* does a panic come while an upvalue is open?
          OpenBelow,      \* does a method take the slot of an open upvalue?
          MaxStack,       \* bounds: values on the stack, frames,
          MaxFrames,
          MaxUpvalues     \* upvalues of one closure

ASSUME SwitchesAssumption == {CallbacksCall, OpenAtPanic, OpenBelow} \subseteq BOOLEAN
ASSUME DeadAssumption == Dead \notin Value \cup Variable
ASSUME MethodAssumption == Method \in Value
ASSUME BoundsAssumption == {MaxStack, MaxFrames, MaxUpvalues} \subseteq Nat

VARIABLES stack,     \* the values of the variables in scope, slot by slot
          frames,    \* the call frames: slots (how many are below) and closure
          natives,   \* the natives in progress: the number of frames when
                     \* they were called, and the slot they took with the
                     \* value that was there (0: none)
          upvalues,  \* the upvalues of each closure
          making,    \* the closure OP_CLOSURE is working on
          open,      \* module_record->open_upvalues
          location,  \* the slot an upvalue points to; 0: to its own closed field
          closed,    \* its closed field
          seen,      \* the value read last
          owner,     \* history: the variable in each slot
          meaning    \* history: the variable an upvalue was made for

stackVars == <<stack, owner>>
upvalueVars == <<open, location, closed, meaning>>
vars == <<stackVars, frames, natives, upvalues, making, upvalueVars, seen>>

InSeq(x, s) == \E i \in DOMAIN s : s[i] = x

Init == /\ stack = <<>>
        /\ frames = <<>>
        /\ natives = <<>>
        /\ upvalues = [c \in Closure |-> <<>>]
        /\ making = Dead
        /\ open = <<>>
        /\ location = [u \in Upvalue |-> 0]
        /\ closed = [u \in Upvalue |-> Dead]
        /\ seen = Dead
        /\ owner = <<>>
        /\ meaning = [u \in Upvalue |-> Dead]

\* frame->slots of the running function; 0 for the script
Base == IF frames = <<>> THEN 0 ELSE Sq!Last(frames).base

Running == Sq!Last(frames).closure

\* The native called last is at work, no function of its own is: it has not
\* called one yet, or its nested run has ended.
InNative == natives # <<>> /\ Sq!Last(natives).frames = Len(frames)

\* *upvalue->location
Deref(u) == IF location[u] = 0 THEN closed[u] ELSE stack[location[u]]

-----------------------------------------------------------------------------
(***************************************************************************)
(* The list of open upvalues is kept in the order of their slots, highest  *)
(* first; both walks stop at the first one that fails the loop's test.     *)
(***************************************************************************)
Walk(Passes(_)) ==
    CHOOSE n \in 0 .. Len(open) :
       /\ \A i \in 1 .. n : Passes(open[i])
       /\ n < Len(open) => ~Passes(open[n + 1])

\* mutant: the new upvalue goes to the head of the list
CaptureUpvalueAtHead(slot, u) ==
    LET Above(v) == location[v] > slot
        n == Walk(Above)
    IN  IF n < Len(open) /\ location[open[n + 1]] = slot
        THEN u = open[n + 1] /\ UNCHANGED upvalueVars
        ELSE /\ ~InSeq(u, open) /\ meaning[u] = Dead
             /\ open' = <<u>> \o open
             /\ location' = [location EXCEPT ![u] = slot]
             /\ meaning' = [meaning EXCEPT ![u] = owner[slot]]
             /\ UNCHANGED closed

\* capture_upvalue returns u: the open upvalue of the slot, else a new one
CaptureUpvalue(slot, u) ==
    LET Above(v) == location[v] > slot
        n == Walk(Above)
    IN  IF n < Len(open) /\ location[open[n + 1]] = slot
        THEN u = open[n + 1] /\ UNCHANGED upvalueVars
        ELSE /\ ~InSeq(u, open) /\ meaning[u] = Dead
             /\ open' = Sq!InsertAt(open, n + 1, u)
             /\ location' = [location EXCEPT ![u] = slot]
             /\ meaning' = [meaning EXCEPT ![u] = owner[slot]]
             /\ UNCHANGED closed

\* close_upvalues: those at slot last and above
CloseUpvalues(last) ==
    LET Reaches(u) == location[u] >= last
        n == Walk(Reaches)
        closing == {open[i] : i \in 1 .. n}
    IN  /\ open' = SubSeq(open, n + 1, Len(open))
        /\ closed' = [u \in Upvalue |-> IF u \in closing THEN stack[location[u]]
                                                         ELSE closed[u]]
        /\ location' = [u \in Upvalue |-> IF u \in closing THEN 0 ELSE location[u]]
        /\ UNCHANGED meaning

\* stack_top = the end of slot n
CutStack(n) ==
    /\ stack' = SubSeq(stack, 1, n)
    /\ owner' = SubSeq(owner, 1, n)

-----------------------------------------------------------------------------
(***************************************************************************)
(* Instructions                                                            *)
(***************************************************************************)
\* a let, an argument: the value stays on the stack as a local's.  The name x
\* is any that no slot and no upvalue has.
Declare(x, v) ==
    /\ Len(stack) < MaxStack
    /\ ~InSeq(x, owner)
    /\ \A u \in Upvalue : meaning[u] # x
    /\ stack' = Append(stack, v)
    /\ owner' = Append(owner, x)
    /\ UNCHANGED <<frames, natives, upvalues, upvalueVars, seen>>

\* OP_CLOSE_UPVALUE; OP_POP of a local that is not captured is the same with
\* nothing to close
EndOfScope ==
    /\ Len(stack) > Base
    /\ CloseUpvalues(Len(stack))
    /\ CutStack(Len(stack) - 1)
    /\ UNCHANGED <<frames, natives, upvalues, seen>>

(***************************************************************************)
(* OP_CLOSURE, one iteration of its loop: the next upvalue of the closure  *)
(* being made is a local of the running function, or an upvalue of its own *)
(* closure.                                                                *)
(***************************************************************************)
InTheMaking(c) ==
    /\ upvalues[c] = <<>> \/ making = c
    /\ Len(upvalues[c]) < MaxUpvalues

CaptureLocal(c, slot) ==
    /\ slot > Base
    /\ InTheMaking(c)
    /\ \E u \in Upvalue : /\ CaptureUpvalue(slot, u)
                          /\ upvalues' = [upvalues EXCEPT ![c] = Append(@, u)]
    /\ UNCHANGED <<stackVars, frames, natives, seen>>

CaptureOuter(c, index) ==
    /\ InTheMaking(c)
    /\ upvalues' = [upvalues EXCEPT ![c] = Append(@, upvalues[Running][index])]
    /\ UNCHANGED <<stackVars, frames, natives, upvalueVars, seen>>

\* OP_SET_LOCAL, OP_GET_LOCAL
SetLocal(slot, v) ==
    /\ slot > Base
    /\ stack' = [stack EXCEPT ![slot] = v]
    /\ UNCHANGED <<owner, frames, natives, upvalues, upvalueVars, seen>>

GetLocal(slot) ==
    /\ slot > Base
    /\ seen' = stack[slot]
    /\ UNCHANGED <<stackVars, frames, natives, upvalues, upvalueVars>>

\* OP_SET_UPVALUE, OP_GET_UPVALUE
SetUpvalue(index, v) ==
    LET u == upvalues[Running][index]
    IN  /\ IF location[u] = 0
           THEN closed' = [closed EXCEPT ![u] = v] /\ UNCHANGED stack
           ELSE stack' = [stack EXCEPT ![location[u]] = v] /\ UNCHANGED closed
        /\ UNCHANGED <<owner, frames, natives, upvalues, open, location, meaning, seen>>

GetUpvalue(index) ==
    /\ seen' = Deref(upvalues[Running][index])
    /\ UNCHANGED <<stackVars, frames, natives, upvalues, upvalueVars>>

\* call
Call(c) ==
    /\ Len(frames) < MaxFrames
    /\ frames' = Append(frames, [base |-> Len(stack), closure |-> c])
    /\ UNCHANGED <<stackVars, natives, upvalues, upvalueVars, seen>>

(***************************************************************************)
(* A native is called.  OP_INVOKE (handle_invoke) and OP_INVOKE_STDLIB     *)
(* save the value below the receiver, put the method there, and put the    *)
(* value back when the native has returned; nobody is told of the slot.    *)
(***************************************************************************)
InvokeOver ==
    /\ Len(stack) > Base
    /\ OpenBelow \/ \A u \in Upvalue : location[u] # Len(stack)
    /\ natives' = Append(natives, [frames |-> Len(frames), slot |-> Len(stack),
                                   original |-> Sq!Last(stack)])
    /\ stack' = [stack EXCEPT ![Len(stack)] = Method]
    /\ UNCHANGED <<owner, frames, upvalues, upvalueVars, seen>>

\* below the receiver is a temporary or the callee; or the native is no method
Invoke ==
    /\ natives' = Append(natives, [frames |-> Len(frames), slot |-> 0, original |-> Dead])
    /\ UNCHANGED <<stackVars, frames, upvalues, upvalueVars, seen>>

NativeReturns ==
    LET native == Sq!Last(natives)
    IN  /\ natives' = Sq!Front(natives)
        /\ stack' = IF native.slot = 0 THEN stack
                    ELSE [stack EXCEPT ![native.slot] = native.original]
        /\ UNCHANGED <<owner, frames, upvalues, upvalueVars, seen>>

\* mutant: the upvalues of the frame are not closed
ReturnUnclosed ==
    /\ frames # <<>>
    /\ CutStack(Base)
    /\ frames' = IF natives = <<>> THEN Sq!Front(frames)
                 ELSE SubSeq(frames, 1, Sq!Last(natives).frames)
    /\ UNCHANGED <<natives, upvalues, upvalueVars, seen>>

(***************************************************************************)
(* OP_RETURN, OP_NIL_RETURN.  A nested run returns to the native at any    *)
(* return, whichever frame it ends, and execute_callable sets the frame    *)
(* count back to what it was.                                              *)
(***************************************************************************)
Return ==
    /\ frames # <<>>
    /\ CloseUpvalues(Base + 1)
    /\ CutStack(Base)
    /\ frames' = IF natives = <<>> THEN Sq!Front(frames)
                 ELSE SubSeq(frames, 1, Sq!Last(natives).frames)
    /\ UNCHANGED <<natives, upvalues, seen>>

(***************************************************************************)
(* runtime_panic: reset_stack, and a jump over all the runs to interpret,  *)
(* which the next line of a session calls again.  The closures that are in *)
(* globals are still there; their open upvalues are not closed.            *)
(***************************************************************************)
Panic ==
    /\ OpenAtPanic \/ open = <<>>
    /\ CutStack(0)
    /\ frames' = <<>>
    /\ natives' = <<>>
    /\ open' = <<>>
    /\ UNCHANGED <<upvalues, location, closed, meaning, seen>>

\* OP_CLOSURE, and the other instructions
Capture ==
    \E c \in Closure :
       /\ making' = c
       /\ \/ \E slot \in DOMAIN stack : CaptureLocal(c, slot)
          \/ /\ frames # <<>>
             /\ \E index \in DOMAIN upvalues[Running] : CaptureOuter(c, index)

Instruction ==
    \/ \E x \in Variable, v \in Value : Declare(x, v)
    \/ EndOfScope
    \/ \E slot \in DOMAIN stack :
          \/ GetLocal(slot)
          \/ \E v \in Value : SetLocal(slot, v)
    \/ /\ frames # <<>>
       /\ \E index \in DOMAIN upvalues[Running] :
             \/ GetUpvalue(index)
             \/ \E v \in Value : SetUpvalue(index, v)
    \/ /\ natives = <<>> \/ CallbacksCall
       /\ \E c \in Closure : Call(c)
    \/ InvokeOver
    \/ Invoke
    \/ Return

\* What a native does: execute_callable, which calls and enters run(vm, true).
Native ==
    \/ \E c \in Closure : Call(c)
    \/ NativeReturns

Next ==
    \/ ~InNative /\ Capture
    \/ /\ making' = Dead
       /\ \/ ~InNative /\ Instruction
          \/ InNative /\ Native
          \/ Panic

Spec == Init /\ [][Next]_vars

-----------------------------------------------------------------------------
(***************************************************************************)
(* The type invariant.  Frames are nested in the stack, natives in the     *)
(* frames.                                                                 *)
(***************************************************************************)
TypeOK ==
    /\ stack \in Seq(Value)
    /\ frames \in Seq([base : Nat, closure : Closure])
    /\ Len(frames) <= MaxFrames
    /\ \A i \in DOMAIN frames : frames[i].base <= Len(stack)
    /\ \A i \in 2 .. Len(frames) : frames[i-1].base <= frames[i].base
    /\ natives \in Seq([frames : Nat, slot : Nat, original : Value \cup {Dead}])
    /\ \A i \in DOMAIN natives : natives[i].frames <= Len(frames)
    /\ \A i \in 2 .. Len(natives) : natives[i-1].frames < natives[i].frames
    /\ upvalues \in [Closure -> Seq(Upvalue)]
    /\ making \in Closure \cup {Dead}
    /\ open \in Seq(Upvalue)
    /\ location \in [Upvalue -> Nat]
    /\ closed \in [Upvalue -> Value \cup {Dead}]
    /\ seen \in Value \cup {Dead}
    /\ owner \in Seq(Variable)
    /\ Len(owner) = Len(stack)
    /\ meaning \in [Upvalue -> Variable \cup {Dead}]

(***************************************************************************)
(* An open upvalue points to the slot of the variable it was made for, and *)
(* once that variable has left the stack no upvalue of it is open: a slot  *)
(* that is used again is not read through an old closure.                  *)
(***************************************************************************)
UpvaluesKeepTheirVariable ==
    \A u \in Upvalue :
       /\ location[u] # 0 => /\ location[u] \in DOMAIN owner
                             /\ owner[location[u]] = meaning[u]
       /\ meaning[u] # Dead /\ InSeq(meaning[u], owner) => location[u] # 0

(***************************************************************************)
(* "Is this frame anonymous? (should this frame return from run() at       *)
(* OP_RETURN?)" (src/src/vm/vm_run.c:35-36): a native gets control back    *)
(* when the function it called returns, no other, and the locals of that   *)
(* function are gone.                                                      *)
(***************************************************************************)
RunsEndWithTheirFrame ==
    [][natives' = natives /\ InNative' /\ ~InNative =>
          /\ Len(frames) = Sq!Last(natives).frames + 1
          /\ Len(stack') = frames[Sq!Last(natives).frames + 1].base]_vars

(***************************************************************************)
(* Upvalues implement variables: a variable's value is in its slot while   *)
(* it is in scope (with the native that took the slot, if one did) and in  *)
(* its upvalue afterwards.                                                 *)
(***************************************************************************)
Original ==
    LET Takers(i) == {n \in DOMAIN natives : natives[n].slot = i}
    IN  [i \in DOMAIN stack |->
           IF Takers(i) = {} THEN stack[i]
           ELSE natives[CHOOSE n \in Takers(i) : TRUE].original]

Store ==
    [x \in Variable |->
       IF InSeq(x, owner)
       THEN Original[CHOOSE i \in DOMAIN owner : owner[i] = x]
       ELSE IF \E u \in Upvalue : meaning[u] = x
       THEN closed[CHOOSE u \in Upvalue : meaning[u] = x]
       ELSE Dead]

V == INSTANCE Variables
       WITH scope <- owner, calls <- frames, store <- Store,
            captured <- [c \in Closure |->
                           [i \in DOMAIN upvalues[c] |-> meaning[upvalues[c][i]]]]

ImplementsVariables == V!Spec

(***************************************************************************)
(* Open upvalues are sorted, of distinct slots, and each points to the     *)
(* slot of the variable it was made for, as long as that variable is       *)
(* there: a slot that is used again is not read through an old closure.    *)
(***************************************************************************)
UpvaluesAreSound == TypeOK /\ UpvaluesKeepTheirVariable
=============================================================================
