------------------------------- MODULE Scopes -------------------------------
(***************************************************************************)
(* Locals, scopes, loops and match expressions of one function: what the   *)
(* compiler (src/src/compiler) believes about the value stack, beside the  *)
(* value stack the instructions it emits produce (src/src/vm/vm_run.c).    *)
(*                                                                         *)
(* The compiler is single-pass: it emits code while it parses.  A step     *)
(* here parses one more construct of some program and runs the code that   *)
(* was just emitted for it.  The branches the run does not take are not    *)
(* followed; they declare nothing that outlives them.  A break, continue   *)
(* or return leaves what it jumps over as dead code, of which nothing but  *)
(* the closing of the open constructs is parsed.                           *)
(*                                                                         *)
(* On the stack 0 stands for a temporary value, a number for the value of  *)
(* the local of that id; slot 0 of the frame, the closure, is not shown.   *)
(***************************************************************************)
EXTENDS Naturals, Sequences, FiniteSets

Sq == INSTANCE SequencesExt

CONSTANTS MatchNestDepth, \* MATCH_NEST_DEPTH
          Idioms,         \* which of the idioms below programs use
          MaxNest,        \* bound: open constructs
          MaxStack        \* bound: values on the stack

\* What the compiler turns into code that does not do what it says:
\*   "capture"    a closure captures a local below an uncaptured one of a block
\*   "exit"       break or continue leaves a match arm
\*   "temporary"  a name is declared while a temporary is on the stack: in an
\*                arm that binds nothing, or (by the arm) in a match that is an
\*                operand or an initializer
\*   "arm"        a declaration directly in the block of an arm
\*   "bare"       an arm is an expression without give
\*   "give"       give from a block in which locals are declared, or followed
\*                by further statements
ASSUME IdiomsAssumption ==
    Idioms \subseteq {"capture", "exit", "temporary", "arm", "bare", "give"}
ASSUME BoundsAssumption ==
    MatchNestDepth \in Nat /\ MaxNest \in Nat /\ MaxStack \in Nat

VARIABLES scopeDepth,  \* compiler->scope_depth
          locals,      \* compiler->locals[0 .. local_count-1]
          nest,        \* the constructs being parsed: the recursive calls of
                       \* the compiler, with what each keeps in C locals
          mode,        \* what is parsed next, see TypeOK
          stack,       \* the frame's slots up to stack_top
          handlers,    \* vm->match_handler_stack.count
          closed       \* the values close_upvalues saved in the last step

vars == <<scopeDepth, locals, nest, mode, stack, handlers, closed>>

Ids == 1 .. 2 * MaxStack

\* depth is NoDepth (-1) while the initializer is parsed
NoDepth == 0

Local(id, depth) == [id |-> id, depth |-> depth, captured |-> FALSE]

IsIn(kind) == nest # <<>> /\ Sq!Last(nest).kind = kind

Open(construct) == nest' = Append(nest, construct)

\* the n-th id that is not in use
Unused == {id \in Ids : /\ \A i \in DOMAIN stack : stack[i] # id
                        /\ \A i \in DOMAIN locals : locals[i].id # id}

FreshId(n) == CHOOSE id \in Unused : Cardinality(Unused \cap (1 .. id)) = n

Fresh == FreshId(1)

Init == /\ scopeDepth = 1      \* the body of a function
        /\ locals = <<>>
        /\ nest = <<>>
        /\ mode = "statement"
        /\ stack = <<>>
        /\ handlers = 0
        /\ closed = {}

-----------------------------------------------------------------------------
(***************************************************************************)
(* The code that removes locals from the stack when a scope ends or is     *)
(* left: OP_POP or OP_POP_N for a run of locals, OP_CLOSE_UPVALUE, which   *)
(* closes the upvalues at the top of the stack and pops it, for a captured *)
(* one.  The code is given as the pops it makes, top first.                *)
(***************************************************************************)
Pops(n) == [i \in 1 .. n |-> "pop"]

\* the locals at the end of the array that are deeper than a depth
Kept(ls, depth) == CHOOSE n \in 0 .. Len(ls) :
                      /\ \A i \in n+1 .. Len(ls) : ls[i].depth > depth
                      /\ n > 0 => ls[n].depth <= depth

Trim(ls, depth) == SubSeq(ls, 1, Kept(ls, depth))

\* the i-th local from the end of the array
FromTop(ls, i) == ls[Len(ls) + 1 - i]

\* mutant: a captured local is popped without being closed
PlainCleanup(ls, depth) == Pops(Len(ls) - Kept(ls, depth))

\* cleanupLocalsToDepth, for end_scope: the pops emitted before a captured
\* local stay pending and are emitted again
ScopeCleanup(ls, depth) ==
    LET n == Len(ls) - Kept(ls, depth)
        emit[i \in 0 .. n] ==
          IF i = 0 THEN [code |-> <<>>, pending |-> 0]
          ELSE LET acc == emit[i - 1]
               IN  IF FromTop(ls, i).captured
                   THEN [acc EXCEPT !.code = @ \o Pops(acc.pending) \o <<"close">>]
                   ELSE [acc EXCEPT !.pending = @ + 1]
    IN  emit[n].code \o Pops(emit[n].pending)

\* mutant: the innermost scope of the loop body is not cleaned up
JumpCleanupShort(ls, depth) ==
    [i \in 1 .. Len(ls) - Kept(ls, depth + 1) |->
        IF FromTop(ls, i).captured THEN "close" ELSE "pop"]

\* emit_cleanup_for_jump, for break and continue: none stays pending
JumpCleanup(ls, depth) ==
    [i \in 1 .. Len(ls) - Kept(ls, depth) |->
        IF FromTop(ls, i).captured THEN "close" ELSE "pop"]

\* The stack may hold fewer values than the code pops.
Execute(code) ==
    /\ stack' = SubSeq(stack, 1, IF Len(code) < Len(stack)
                                 THEN Len(stack) - Len(code) ELSE 0)
    /\ closed' = {stack[Len(stack) + 1 - k] :
                    k \in {i \in DOMAIN code \cap DOMAIN stack : code[i] = "close"}}

Push(value) == stack' = Append(stack, value) /\ closed' = {}

-----------------------------------------------------------------------------
(***************************************************************************)
(* What the compiler does at the end of a construct, to its own state.     *)
(***************************************************************************)
\* mark_initialized: the last local, whichever it is
MarkInitialized(ls, depth) ==
    IF ls = <<>> THEN ls ELSE [ls EXCEPT ![Len(ls)].depth = depth]

\* end_scope; end_match_binding_scope; an arm that binds nothing has no scope
Closing(construct, st) ==
    CASE construct.kind \in {"block", "loop", "bound arm"} ->
           [depth |-> st.depth - 1, locals |-> Trim(st.locals, st.depth - 1)]
      [] construct.kind = "let" ->
           [st EXCEPT !.locals = MarkInitialized(@, st.depth)]
      [] OTHER -> st

CloseLast ==
    LET st == Closing(Sq!Last(nest), [depth |-> scopeDepth, locals |-> locals])
    IN  scopeDepth' = st.depth /\ locals' = st.locals

\* ... and of all constructs inside the k-th, which contain dead code
CloseDownTo(k) ==
    LET n == Len(nest) - k
        after[i \in 0 .. n] ==
          IF i = 0 THEN [depth |-> scopeDepth, locals |-> locals]
          ELSE Closing(nest[Len(nest) + 1 - i], after[i - 1])
    IN  scopeDepth' = after[n].depth /\ locals' = after[n].locals

Arms == {"arm", "bound arm"}

InnermostLoop(k) == /\ nest[k].kind = "loop"
                    /\ \A i \in k+1 .. Len(nest) : nest[i].kind # "loop"

LeavesArm(k) == \E i \in k+1 .. Len(nest) : nest[i].kind \in Arms

-----------------------------------------------------------------------------
(***************************************************************************)
(* Statements                                                              *)
(***************************************************************************)
Parsing(m) == mode = m

\* after a give the constructs up to the arm may only be closed (but see the
\* idiom)
Closable == mode \in {"statement", "given"}

CanNest == Len(nest) < MaxNest

NoTemporary == "temporary" \in Idioms \/ Len(stack) = Len(locals)

\* block statement: begin_scope, end_scope
BeginBlock ==
    /\ Parsing("statement")
    /\ CanNest
    /\ scopeDepth' = scopeDepth + 1
    /\ Open([kind |-> "block"])
    /\ closed' = {}
    /\ UNCHANGED <<locals, mode, stack, handlers>>

EndBlock ==
    /\ Closable
    /\ IsIn("block")
    /\ CloseLast
    /\ Execute(ScopeCleanup(locals, scopeDepth - 1))
    /\ nest' = Sq!Front(nest)
    /\ UNCHANGED <<mode, handlers>>

\* var_declaration, up to the initializer; not the body of a loop by itself
BeginLet ==
    /\ Parsing("statement")
    /\ ~IsIn("loop")
    /\ IsIn("arm") \/ IsIn("bound arm") => "arm" \in Idioms
    /\ NoTemporary
    /\ "capture" \in Idioms \/
         ~\E i \in DOMAIN locals : /\ locals[i].captured
                                   /\ locals[i].depth = scopeDepth
                                   /\ scopeDepth > 1
    /\ CanNest /\ Len(stack) < MaxStack
    /\ locals' = Append(locals, Local(Fresh, NoDepth))
    /\ Open([kind |-> "let", id |-> Fresh])
    /\ mode' = "expression"
    /\ closed' = {}
    /\ UNCHANGED <<scopeDepth, stack, handlers>>

\* the value on top of the stack becomes the local's
EndLet ==
    /\ Parsing("value")
    /\ IsIn("let")
    /\ CloseLast
    /\ stack' = [stack EXCEPT ![Len(stack)] = Sq!Last(nest).id]
    /\ nest' = Sq!Front(nest)
    /\ mode' = "statement"
    /\ closed' = {}
    /\ UNCHANGED handlers

\* expression_statement
BeginExpressionStatement ==
    /\ Parsing("statement")
    /\ CanNest
    /\ Open([kind |-> "expression"])
    /\ mode' = "expression"
    /\ closed' = {}
    /\ UNCHANGED <<scopeDepth, locals, stack, handlers>>

EndExpressionStatement ==
    /\ Parsing("value")
    /\ IsIn("expression")
    /\ Execute(Pops(1))
    /\ nest' = Sq!Front(nest)
    /\ mode' = "statement"
    /\ UNCHANGED <<scopeDepth, locals, handlers>>

(***************************************************************************)
(* while_statement; for_statement, which declares n locals in the scope of *)
(* the loop: the variable of a C-style loop, or the hidden iterator and    *)
(* the variable of for-in.  Conditions, increments and OP_ITER_NEXT leave  *)
(* the stack as they find it.  At the loop's head the body may run (again) *)
(* or the loop end.                                                        *)
(***************************************************************************)
BeginLoop(n) ==
    /\ Parsing("statement")
    /\ n > 0 => NoTemporary
    /\ CanNest /\ Len(stack) + n <= MaxStack
    /\ scopeDepth' = scopeDepth + 1
    /\ locals' = locals \o [i \in 1 .. n |-> Local(FreshId(i), scopeDepth + 1)]
    /\ stack' = stack \o [i \in 1 .. n |-> FreshId(i)]
    /\ Open([kind |-> "loop", depth |-> scopeDepth + 1,
             hidden |-> IF n = 2 THEN FreshId(1) ELSE 0])
    /\ closed' = {}
    /\ UNCHANGED <<mode, handlers>>

EndLoop ==
    /\ Closable
    /\ IsIn("loop")
    /\ CloseLast
    /\ Execute(ScopeCleanup(locals, scopeDepth - 1))
    /\ nest' = Sq!Front(nest)
    /\ UNCHANGED <<mode, handlers>>

\* break_statement, continue_statement: to the end or the head of the loop
LeaveToLoop ==
    /\ Parsing("statement")
    /\ \E k \in DOMAIN nest :
          /\ InnermostLoop(k)
          /\ LeavesArm(k) => "exit" \in Idioms
          /\ Execute(JumpCleanup(locals, nest[k].depth))
          /\ CloseDownTo(k)
          /\ nest' = SubSeq(nest, 1, k)
    /\ UNCHANGED <<mode, handlers>>

\* return_statement, also from a match arm, and the end of the body: OP_RETURN
\* closes every upvalue of the frame and drops its slots, but gives no handler
\* back.  Then the function is called again.
Return ==
    /\ Parsing("statement")
    /\ Execute([i \in DOMAIN stack |-> "close"])
    /\ scopeDepth' = 1
    /\ locals' = <<>>
    /\ nest' = <<>>
    /\ UNCHANGED <<mode, handlers>>

-----------------------------------------------------------------------------
(***************************************************************************)
(* Expressions: a value, a closure, an operator with its left operand on   *)
(* the stack, a match.                                                     *)
(***************************************************************************)
Value ==
    /\ Parsing("expression")
    /\ Len(stack) < MaxStack
    /\ Push(0)
    /\ mode' = "value"
    /\ UNCHANGED <<scopeDepth, locals, nest, handlers>>

\* OP_CLOSURE: resolve_upvalue sets is_captured.  The names an arm binds
\* cannot be captured (end_match_binding_scope), the hidden iterator has none.
Capturable(local) ==
    /\ local.depth # NoDepth
    /\ \A k \in DOMAIN nest :
          /\ nest[k].kind = "bound arm" => nest[k].id # local.id
          /\ nest[k].kind = "loop" => nest[k].hidden # local.id

Capture ==
    /\ Parsing("expression")
    /\ Len(stack) < MaxStack
    /\ \E i \in DOMAIN locals :
          /\ Capturable(locals[i])
          /\ "capture" \in Idioms \/ locals[i].depth = 1 \/
               \A j \in i+1 .. Len(locals) :
                  locals[j].depth \in {locals[i].depth, NoDepth} => locals[j].captured
          /\ locals' = [locals EXCEPT ![i].captured = TRUE]
    /\ Push(0)
    /\ mode' = "value"
    /\ UNCHANGED <<scopeDepth, nest, handlers>>

BeginOperand ==
    /\ Parsing("expression")
    /\ CanNest /\ Len(stack) < MaxStack
    /\ Push(0)
    /\ Open([kind |-> "operand"])
    /\ UNCHANGED <<scopeDepth, locals, mode, handlers>>

EndOperand ==
    /\ Parsing("value")
    /\ IsIn("operand")
    /\ stack' = Append(SubSeq(stack, 1, Len(stack) - 2), 0)
    /\ nest' = Sq!Front(nest)
    /\ closed' = {}
    /\ UNCHANGED <<scopeDepth, locals, mode, handlers>>

\* The match target is evaluated; OP_MATCH takes a handler.
BeginMatch ==
    /\ Parsing("expression")
    /\ CanNest /\ Len(stack) < MaxStack
    /\ Cardinality({i \in DOMAIN nest : nest[i].kind = "match"}) + 1 < MatchNestDepth
    /\ handlers < MatchNestDepth
    /\ Push(0)
    /\ handlers' = handlers + 1
    /\ Open([kind |-> "match"])
    /\ mode' = "arm"
    /\ UNCHANGED <<scopeDepth, locals>>

\* an arm whose pattern binds nothing: a literal, a type, None, default; its
\* body is a block, or (bare) an expression
BeginArm(bare) ==
    /\ Parsing("arm")
    /\ bare => "bare" \in Idioms
    /\ CanNest
    /\ Open([kind |-> "arm"])
    /\ mode' = IF bare THEN "expression" ELSE "statement"
    /\ closed' = {}
    /\ UNCHANGED <<scopeDepth, locals, stack, handlers>>

\* mutant: the slot of the binding is local_count, not local_count - 1
BeginBoundArmOffByOne ==
    /\ Parsing("arm")
    /\ "temporary" \in Idioms \/ Len(stack) = Len(locals) + 1
    /\ CanNest
    /\ scopeDepth' = scopeDepth + 1
    /\ locals' = Append(locals, Local(Fresh, scopeDepth + 1))
    /\ Open([kind |-> "bound arm", id |-> Fresh])
    /\ stack' = [k \in DOMAIN stack |-> IF k = Len(locals) + 2
                                        THEN Fresh ELSE stack[k]]
    /\ mode' = "statement"
    /\ closed' = {}
    /\ UNCHANGED handlers

(***************************************************************************)
(* Ok(v), Err(e), Some(v): OP_RESULT_MATCH_OK and the like replace the     *)
(* target on top by what it carries, and OP_RESULT_BIND writes that to the *)
(* slot the compiler gave the name, the next one of the locals array.  A   *)
(* slot above the top is not the program's: the write is lost to the next  *)
(* push.                                                                   *)
(***************************************************************************)
BeginBoundArm ==
    /\ Parsing("arm")
    /\ "temporary" \in Idioms \/ Len(stack) = Len(locals) + 1
    /\ CanNest
    /\ scopeDepth' = scopeDepth + 1
    /\ locals' = Append(locals, Local(Fresh, scopeDepth + 1))
    /\ Open([kind |-> "bound arm", id |-> Fresh])
    /\ stack' = [k \in DOMAIN stack |-> IF k \in {Len(locals) + 1, Len(stack)}
                                        THEN Fresh ELSE stack[k]]
    /\ mode' = "statement"
    /\ closed' = {}
    /\ UNCHANGED handlers

\* give_statement: OP_GIVE pops the value, and replaces what is then on top
BeginGive ==
    /\ Parsing("statement")
    /\ \E i \in DOMAIN nest :
          /\ nest[i].kind \in Arms
          /\ \A j \in i+1 .. Len(nest) : nest[j].kind \in {"block", "loop"}
          /\ "give" \in Idioms \/ \A k \in DOMAIN locals :
                                     locals[k].depth <= scopeDepth - (Len(nest) - i)
    /\ CanNest
    /\ Open([kind |-> "give"])
    /\ mode' = "expression"
    /\ closed' = {}
    /\ UNCHANGED <<scopeDepth, locals, stack, handlers>>

EndGive ==
    /\ Parsing("value")
    /\ IsIn("give")
    /\ stack' = Append(SubSeq(stack, 1, Len(stack) - 2), 0)
    /\ nest' = Sq!Front(nest)
    /\ mode' = IF "give" \in Idioms THEN "statement" ELSE "given"
    /\ closed' = {}
    /\ UNCHANGED <<scopeDepth, locals, handlers>>

\* the end of the arm, of which nothing is emitted but a jump to the end of
\* the match; OP_MATCH_END gives the handler back
EndMatch ==
    /\ \/ Closable /\ (IsIn("arm") \/ IsIn("bound arm"))
       \/ Parsing("value") /\ IsIn("arm")
    /\ CloseLast
    /\ handlers' = handlers - 1
    /\ nest' = SubSeq(nest, 1, Len(nest) - 2)
    /\ mode' = "value"
    /\ closed' = {}
    /\ UNCHANGED stack

Next == \/ BeginBlock \/ EndBlock
        \/ BeginLet \/ EndLet
        \/ BeginExpressionStatement \/ EndExpressionStatement
        \/ \E n \in 0 .. 2 : BeginLoop(n)
        \/ EndLoop \/ LeaveToLoop \/ Return
        \/ Value \/ Capture
        \/ BeginOperand \/ EndOperand
        \/ BeginMatch \/ BeginBoundArm \/ EndMatch
        \/ \E bare \in BOOLEAN : BeginArm(bare)
        \/ BeginGive \/ EndGive

Spec == Init /\ [][Next]_vars

-----------------------------------------------------------------------------
(***************************************************************************)
(* The type invariant.                                                     *)
(***************************************************************************)
Constructs ==
    [kind : {"block", "expression", "operand", "match", "arm", "give"}]
      \cup [kind : {"let", "bound arm"}, id : Ids]
      \cup [kind : {"loop"}, depth : 1 .. scopeDepth, hidden : Ids \cup {0}]

TypeOK ==
    /\ scopeDepth \in Nat \ {0}
    /\ locals \in Seq([id : Ids, depth : 0 .. scopeDepth, captured : BOOLEAN])
    /\ nest \in Seq(Constructs)
    /\ mode \in {"statement", "given", "expression", "value", "arm"}
    /\ stack \in Seq(Ids \cup {0})
    /\ handlers \in 0 .. MatchNestDepth
    /\ closed \subseteq Ids \cup {0}

(***************************************************************************)
(* OP_GET_LOCAL i reads slot i: whatever blocks, loops, jumps and matches  *)
(* came before, every local a program can name (resolve_local) is in the   *)
(* slot of its place in the locals array.                                  *)
(***************************************************************************)
LocalsInTheirSlots ==
    \A i \in DOMAIN locals :
       locals[i].depth # NoDepth /\ mode # "given" =>
          i \in DOMAIN stack /\ stack[i] = locals[i].id

\* Types and slots, which are checked together.
ScopesAreSound == TypeOK /\ LocalsInTheirSlots

(***************************************************************************)
(* end_scope "emits OP_POP instructions to remove local variables that go  *)
(* out of scope" (src/include/compiler.h:289-291): no way out of a scope   *)
(* leaves a value behind or takes one too many.  The stack holds the       *)
(* initialized locals, one value for each pending operand and open match,  *)
(* and the value of the expression that was just evaluated.                *)
(***************************************************************************)
Count(P(_)) == Cardinality({k \in DOMAIN nest : P(nest[k].kind)})

StackHeightIsKnown ==
    LET Initialized == {i \in DOMAIN locals : locals[i].depth # NoDepth}
        Operand(kind) == kind \in {"operand", "match"}
        Binding(kind) == kind = "bound arm"
    IN  Len(stack) = Cardinality(Initialized) + Count(Operand) - Count(Binding)
                     + IF mode = "value" THEN 1 ELSE 0

(***************************************************************************)
(* A captured local leaves the stack only through OP_CLOSE_UPVALUE (or a   *)
(* return): no closure is left with a pointer to a slot that is reused.    *)
(***************************************************************************)
CapturedLocalsAreClosed ==
    [][\A i \in DOMAIN locals :
          /\ locals[i].captured
          /\ \E k \in DOMAIN stack : stack[k] = locals[i].id
          /\ \A k \in DOMAIN stack' : stack'[k] # locals[i].id
          => locals[i].id \in closed']_vars
=============================================================================
