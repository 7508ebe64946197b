----------------------------- MODULE FlowTyping -----------------------------
(***************************************************************************)
(* Static types against run-time values: the types the compiler believes   *)
(* variables to have, statement by statement (src/src/compiler/compiler.c) *)
(* beside the values they hold when the code runs (src/src/vm).            *)
(*                                                                         *)
(* Where both operands have known types the compiler emits instructions    *)
(* that do not look at what they are given (OP_ADD_INT and its like), and  *)
(* the condition of an if changes the type of a variable within its        *)
(* branches.  A step compiles one statement of some program and, unless it *)
(* is in a branch not taken, runs it; a statement the compiler refuses is  *)
(* in no program.  Of an Int or a Float only the representation is kept:   *)
(* whether a result overflows or a divisor is zero is left open.           *)
(***************************************************************************)
EXTENDS Types, FiniteSets

Sq == INSTANCE SequencesExt

CONSTANTS Locals, Globals, \* the variables, by where they are
          Texts,           \* names typeof is compared with
          Outer,           \* globals of the script, seen from a function: its
                           \* compiler has a type table of its own
          Annotations,     \* the types programs declare each variable with
          Literals,        \* the values programs write down
          Idioms,          \* which of the idioms below programs use
          MaxNest          \* bound: open ifs, if about one variable of a union

\* Where the static type says more than is so:
\*   "overflow"  an Int operation whose result does not fit becomes a Float
\*   "compound"  x op= y leaves a result in x that its type does not include
\*   "any"       a value of type Any, or of a type with it, is used as a type,
\*               or as an element beside one of a type
\*   "cast"      `as` to a type that has parts, members or dimensions
\*   "not"       the condition is a negated test, or a test of a test
\*   "else"      `and` of tests, with an else
\*   "text"      a variable is compared with a string
\*   "through"   a test of what was computed from a variable
\*   "coarse"    a test for Float of a variable that may hold an Int, or of one
\*               for a type that others are compatible with
\*   "parts"     typeof against the name of a type with parts
\*   "outer"     a test of a variable of the script in a function
\*   "closure"   a function captures a variable while its type is narrowed
\*   "call"      a function assigns a variable while its type is narrowed
ASSUME IdiomsAssumption ==
    Idioms \subseteq {"overflow", "compound", "any", "cast", "not", "else", "text", "through",
                      "coarse", "parts", "outer", "closure", "call"}
Vars == Locals \union Globals
None == "none"                \* no variable, no text
AllAnnotations == UNION {Annotations[x] : x \in Vars}

ASSUME ProgramsAssumption ==
    /\ Annotations \in [Vars -> SUBSET (TypeRecords \ {Unknown})]
    /\ \A v \in Literals : v \in Values /\ v.base \in Scalars /\ v = Plain(v.base)
    /\ \A text \in Texts \union Scalars : FromString(text) \in TypeRecords
    /\ Outer \subseteq Globals /\ Locals \intersect Globals = {} /\ None \notin Vars
    /\ MaxNest \in Nat

VARIABLES declared,  \* the type each variable was declared with
          types,     \* its type now: locals[i].type, or the entry of the
                     \* compiler's type_table (Unknown when there is none)
          vals,      \* its value
          nest,      \* the ifs being compiled, see Opened
          machine    \* "running", or "misread" after an instruction took
                     \* its operand for what it is not

flowVars == <<declared, types, vals, nest, machine>>

\* what is being compiled runs
Taken(branch) == branch.holds # branch.hasElse
Live == \A i \in DOMAIN nest : Taken(nest[i])

\* The type a name is compiled with: named_variable looks in the enclosing
\* compilers for what is not in its own table
TypeOf(x) == IF x \in Outer /\ types[x] = Unknown THEN declared[x] ELSE types[x]

FlowInit ==
    /\ declared \in {d \in [Vars -> AllAnnotations] : \A x \in Vars : d[x] \in Annotations[x]}
    /\ types = [x \in Vars |-> IF x \in Outer THEN Unknown ELSE declared[x]]
    /\ vals \in [Vars -> Values]
    /\ \A x \in Vars : Has[<<vals[x], declared[x]>>]
    /\ nest = <<>>
    /\ machine = "running"

-----------------------------------------------------------------------------
(***************************************************************************)
(* Instructions: what the compiler emits for an operator on operands of    *)
(* types t and u, the type it gives the result, and what running it on     *)
(* values v and w can give.  "+" stands for "-" and "*" too, and "\" for   *)
(* "%".                                                                    *)
(***************************************************************************)
Misread == Plain("misread")
Panic == Plain("panic")

ASSUME ResultsAssumption == {Misread, Panic} \intersect Values = {}

EitherAny(t, u) == {t.base, u.base} \intersect {"Any", "NULL"} # {}
BothIn(bases, a, b) == {a.base, b.base} \subseteq bases
Numbers == {"Int", "Float"}

SizesAgree(t, u) == IsGeneric(t) \/ IsGeneric(u) \/ t.size = u.size

InstructionOfTheLeft(op, t, u) ==  \* mutant: the right operand is not looked at
    IF EitherAny(t, u) THEN "CHECKED"
    ELSE IF op \in {"+", "\\", "**"} /\ t.base = "Int" /\ u.base \in Numbers THEN "INT"
    ELSE IF BothIn(Numbers, t, u) THEN IF op = "<" THEN "CHECKED" ELSE "NUM"
    ELSE "refused"

Instruction(op, t, u) ==
    IF \/ EitherAny(t, u)
       \/ op = "+" /\ BothIn({"String"}, t, u)
       \/ op = "<" /\ IsNumeric[t] /\ IsNumeric[u] THEN "CHECKED"
    ELSE IF op \in {"+", "\\", "**"} /\ BothIn({"Int"}, t, u) THEN "INT"
    ELSE IF op \in {"+", "/", "**"} /\ BothIn(Numbers, t, u) THEN "NUM"
    ELSE IF op \in {"+", "/"} /\ BothIn({"Vector"}, t, u) /\ SizesAgree(t, u) THEN "VECTOR"
    ELSE "refused"

ResultType(op, t, u) ==
    IF op = "<" THEN Plain("Bool")
    ELSE IF op = "\\" THEN Plain("Int")
    ELSE IF op = "**" THEN Plain("Float")
    ELSE IF EitherAny(t, u) THEN IF op = "/" THEN Plain("Float") ELSE Any
    ELSE IF BothIn({"Vector"}, t, u) THEN IF IsGeneric(t) THEN u ELSE t
    ELSE IF BothIn({"String"}, t, u) THEN t
    ELSE IF op = "+" /\ BothIn({"Int"}, t, u) THEN Plain("Int")
    ELSE Plain("Float")

Int32 == {Plain("Int")} \union IF "overflow" \in Idioms THEN {Plain("Float")} ELSE {}

OnInts(op) ==
    CASE op = "+" -> Int32
      [] op = "\\" -> Int32 \union {Panic}
      [] op = "/" -> {Plain("Float"), Panic}
      [] op = "**" -> {Plain("Float")}
      [] op = "<" -> {Plain("Bool")}

OnNumbers(op) ==
    CASE op \in {"+", "**"} -> {Plain("Float")}
      [] op = "/" -> {Plain("Float"), Panic}
      [] op = "<" -> {Plain("Bool")}
      [] op = "\\" -> {Panic}

Checked(op, v, w) ==
    IF op = "+" /\ BothIn({"String"}, v, w) THEN {v}
    ELSE IF BothIn({"Int"}, v, w) THEN OnInts(op)
    ELSE IF BothIn(Numbers, v, w) THEN OnNumbers(op)
    ELSE {Panic}

Outcomes(op, instruction, v, w) ==
    CASE instruction = "CHECKED" -> Checked(op, v, w)
      [] instruction = "INT" -> IF BothIn({"Int"}, v, w) THEN OnInts(op) ELSE {Misread}
      [] instruction = "NUM" -> IF BothIn(Numbers, v, w) THEN OnNumbers(op) ELSE {Misread}
      [] instruction = "VECTOR" ->
             IF ~BothIn({"Vector"}, v, w) THEN {Misread}
             ELSE IF v.size # w.size THEN {Panic} ELSE {v}

\* OP_NEGATE looks at its operand
Negated(v) == CASE v.base = "Int" -> Int32
                [] v.base = "Float" -> {v}
                [] OTHER -> {Panic}

-----------------------------------------------------------------------------
(***************************************************************************)
(* Expressions.  Operands are variables and literals.                      *)
(***************************************************************************)
Read(x) == [op |-> "read", var |-> x]
Literal(v) == [op |-> "literal", value |-> v]
Variables == {Read(x) : x \in Vars}
Operands == Variables \union {Literal(v) : v \in Literals}

OperandType(a) == IF a.op = "read" THEN TypeOf(a.var) ELSE Plain(a.value.base)
OperandValue(a) == IF a.op = "read" THEN vals[a.var] ELSE a.value

\* What a static type does not say is so, unless it is checked
ASSUME ArgumentsAssumption == "any" \in Idioms \/ ArgumentsAreTyped

\* `expected && got && neither ANY_TYPE && !types_compatible` is an error
Accepted(expected, got) == EitherAny(expected, got) \/ Compatible[<<expected, got>>]
Trusted(expected, got) ==
    "any" \in Idioms \/ expected = Any \/ expected = got \/ got \notin Vague

\* array_literal, of two elements
ElementType(t, u) ==
    IF t = Unknown THEN IF u = Unknown THEN Any ELSE u
    ELSE IF EitherAny(t, u) \/ Compatible[<<t, u>>] THEN t
    ELSE IF BothIn(Numbers, t, u) THEN Plain("Float")
    ELSE Any

Expression(op, a, b) == [op |-> op, a |-> a, b |-> b]
Cast(a, t) == [op |-> "as", a |-> a, to |-> t]

Expressions ==
    Operands \union {Expression(op, a, b) : op \in {"+", "/", "\\", "**", "<", "array", "call"},
                                            a \in Variables, b \in Operands}
             \union {Expression(op, a, a) : op \in {"negate", "index", "some"}, a \in Variables}
             \union {Cast(a, t) : a \in Variables, t \in AllAnnotations}

HasStructure(t) == t.parts # <<>> \/ t.size # <<>> \/ t.base \in {"Struct", "Tuple"}

StaticType(e) ==
    LET t == OperandType(e.a)
        u == OperandType(e.b)
    IN CASE e.op \in {"read", "literal"} -> OperandType(e)
         [] e.op = "as" -> e.to
         [] e.op = "negate" -> t
         [] e.op = "array" -> Of("Array", <<ElementType(t, u)>>)
         [] e.op = "some" -> Of("Option", <<t>>)
         [] e.op = "index" -> IF t.base = "Array" THEN t.parts[1] ELSE Any
         [] e.op = "call" -> IF t.base = "Function" THEN Sq!Last(t.parts) ELSE Any
         [] OTHER -> ResultType(e.op, t, u)

\* the compiler's checks of the operands
Compiles(e) ==
    LET t == OperandType(e.a)
        u == OperandType(e.b)
    IN CASE e.op \in {"read", "literal", "some", "index"} -> TRUE
         [] e.op = "array" -> Trusted(ElementType(t, u), u)
         [] e.op = "as" -> /\ Accepted(e.to, t) \/ Accepted(t, e.to)
                           /\ "cast" \in Idioms \/ ~HasStructure(e.to)
         [] e.op = "negate" -> t.base \in {"Any", "Int", "Float"}
         [] e.op = "call" -> IF t.base = "Function"
                             THEN /\ Len(t.parts) = 2
                                  /\ Accepted(t.parts[1], u) /\ Trusted(t.parts[1], u)
                             ELSE "any" \in Idioms  \* not checked
         [] OTHER -> Instruction(e.op, t, u) # "refused"

\* what the body of a function answers for the argument w: it was compiled for
\* arguments of its parameter's type
Answers(f, w) ==
    IF f.base # "Function" \/ Len(f.parts) # 2 THEN {Panic}
    ELSE IF ~Has[<<w, f.parts[1]>>] THEN {Misread}
    ELSE {v \in Values : Has[<<v, f.parts[2]>>]}

Results(e) ==
    LET v == OperandValue(e.a)
        w == OperandValue(e.b)
    IN CASE e.op \in {"read", "literal"} -> {OperandValue(e)}
         [] e.op = "as" -> {IF MaskCompatible(e.to, v) THEN v ELSE Panic}
         [] e.op = "negate" -> Negated(v)
         [] e.op = "array" -> {Of("Array", <<v, w>>)}
         [] e.op = "some" -> {Of("Option", <<v>>)}
         [] e.op = "index" -> IF v.base = "Array" THEN {Panic} \union Sq!ToSet(v.parts) ELSE {Panic}
         [] e.op = "call" -> Answers(v, w)
         [] OTHER -> Outcomes(e.op, Instruction(e.op, OperandType(e.a), OperandType(e.b)), v, w)

-----------------------------------------------------------------------------
(***************************************************************************)
(* Statements.                                                             *)
(***************************************************************************)
\* The result is stored in x.  A panic ends the script: it has no next step
Store(x, result) ==
    \/ /\ result = Misread
       /\ machine' = "misread"
       /\ UNCHANGED vals
    \/ /\ result \in Values  \* bound
       /\ vals' = [vals EXCEPT ![x] = result]
       /\ UNCHANGED machine

\* with what is expected and got
Assignable(t, u) == <<t, u>> \in Pairs /\ Accepted(t, u) /\ Trusted(t, u)

Running == machine = "running" /\ Live

\* let x: annotation = e, in a scope of its own.  Without annotation the type
\* is that of e; a shape is narrowed to the struct that has it
DeclaredType(annotation, got) ==
    CASE annotation = Unknown -> IF got = Unknown THEN Any ELSE got
      [] annotation.base = "Shape" /\ got.base = "Struct" -> got
      [] OTHER -> annotation

DeclareAs(x, type) ==
    /\ type \in Annotations[x]  \* bound
    /\ declared' = [declared EXCEPT ![x] = type]
    /\ types' = [types EXCEPT ![x] = type]

Declare(x) ==
    /\ Running /\ nest = <<>> /\ x \notin Outer
    /\ \E annotation \in {Unknown} \union AllAnnotations, e \in Expressions :
           /\ annotation = Unknown \/ e \in Operands  \* bound
           /\ Compiles(e)
           /\ annotation # Unknown => Assignable(annotation, StaticType(e))
           /\ DeclareAs(x, DeclaredType(annotation, StaticType(e)))
           /\ \E result \in Results(e) : Store(x, result)
    /\ UNCHANGED nest

Assign(x) ==
    /\ Running
    /\ \E e \in Expressions : /\ Compiles(e)
                              /\ Assignable(TypeOf(x), StaticType(e))
                              /\ \E result \in Results(e) : Store(x, result)
    /\ UNCHANGED <<declared, types, nest>>

\* x op= a: check_compound_type_math, handle_compound_assignment
MayCompound(op, t, u) ==
    /\ EitherAny(t, u) \/ BothIn(IF op = "\\" THEN {"Int"} ELSE Numbers, t, u)
    /\ "compound" \in Idioms \/ Compatible[<<t, ResultType(op, t, u)>>]
    /\ Trusted(t, ResultType(op, t, u))

Compound(x) ==
    /\ Running
    /\ \E op \in {"+", "/", "\\"}, a \in Operands :
           /\ MayCompound(op, TypeOf(x), OperandType(a))
           /\ \E result \in IF BothIn({"String"}, vals[x], OperandValue(a)) THEN {Panic}
                            ELSE Checked(op, vals[x], OperandValue(a)) : Store(x, result)
    /\ UNCHANGED <<declared, types, nest>>

-----------------------------------------------------------------------------
(***************************************************************************)
(* Conditions, and what the compiler concludes from them: narrow_state,    *)
(* the variable, its type if the condition holds and its type if not, with *)
(* Unknown for none.                                                       *)
(***************************************************************************)
Narrowing(x, to, rest) == [var |-> x, to |-> to, rest |-> rest]
Nothing == Narrowing(None, Unknown, Unknown)

\* x == nil and typeof(x) == text, or with !=; x == text; f(x) == nil
Test(kind, x, text, op) == [kind |-> kind, var |-> x, text |-> text, op |-> op]
Flag == Test("flag", None, None, "==")
Equalities == {"==", "!="}

HasParts(text) == FromString(text).base \notin Scalars

Tests ==
    {Flag}
    \union {Test("nil", x, None, op) : x \in Vars, op \in Equalities}
    \union {Test("typeof", x, text, op) :
                x \in Vars, op \in Equalities,
                text \in {s \in Texts : HasParts(s) => "parts" \in Idioms}}
    \union {Test("text", x, text, "==") :
                x \in IF "text" \in Idioms THEN Vars ELSE {}, text \in {"Nil", "hello"}}
    \union {Test("through", x, None, op) :
                x \in IF "through" \in Idioms THEN Vars ELSE {}, op \in Equalities}

\* the type a test asks for, if any: the literal is nil, or typeof was used
TestedType(test) ==
    LET literal == IF test.kind \in {"nil", "through"} THEN Plain("Nil") ELSE FromString(test.text)
    IN IF test.kind = "typeof" \/ literal = Plain("Nil") THEN literal ELSE Unknown

Stripped(t, tested) == IF tested = Unknown THEN Unknown ELSE Strip(t, tested)

ConcludesTheSame(test, t) ==  \* mutant: != narrows like ==
    IF test.kind = "flag" THEN Nothing
    ELSE Narrowing(test.var, TestedType(test), Stripped(t[test.var], TestedType(test)))

\* binary, for == and !=, with t the types: what is narrowed is the variable
\* last read
Concludes(test, t) ==
    LET tested == TestedType(test)
        left == Stripped(t[test.var], tested)
    IN  IF test.kind = "flag" THEN Nothing
        ELSE IF test.op = "==" THEN Narrowing(test.var, tested, left)
        ELSE Narrowing(test.var, left, tested)

\* a type that is not r, or that has values typeof does not call r, is stripped with r
Members(t) == IF t.base = "Union" THEN Sq!ToSet(t.parts) ELSE {t}
IsCoarse(t, r) ==
    \E m \in Members(t) :
        /\ Compatible[<<r, m>>]
        /\ IF t.base = "Union" THEN r.base = "Float" \/ ~Equal[<<r, m>>]
                               ELSE r.base = "Float" /\ t # Any

MayTest(test, t) ==
    test.kind # "flag" =>
        /\ "outer" \in Idioms \/ test.var \notin Outer
        /\ "coarse" \in Idioms \/ ~IsCoarse(t[test.var], TestedType(test))

Holds(test) ==
    LET v == vals[test.var]
    IN CASE test.kind = "nil" -> {v.base = "Nil" <=> test.op = "=="}
         [] test.kind = "typeof" -> {TypeName(v) = test.text <=> test.op = "=="}
         [] test.kind = "text" -> IF v.base = "String" THEN BOOLEAN ELSE {FALSE}
         [] OTHER -> BOOLEAN

Condition(kind, a, b) == [kind |-> kind, a |-> a, b |-> b]

Conditions ==
    {Condition("test", a, Flag) : a \in Tests}
    \union {Condition("and", a, b) : a \in Tests, b \in Tests}
    \union {Condition("or", a, Flag) : a \in Tests}  \* nothing is concluded from the right
    \union {Condition("not", a, Flag) : a \in IF "not" \in Idioms THEN Tests ELSE {Flag}}

\* the types t where the narrowing n holds
Narrowed(t, n) == IF n.var = None \/ n.to = Unknown THEN t ELSE [t EXCEPT ![n.var] = n.to]

LastOf(left, right) == IF right.var # None THEN right ELSE left

\* and_: the right side is compiled with what the left side concludes
OnTheRight(a) == Narrowed(types, Concludes(a, types))

Concluded(c) ==
    CASE c.kind = "and" -> LastOf(Concludes(c.a, types), Concludes(c.b, OnTheRight(c.a)))
      [] c.kind = "or" -> Nothing
      [] OTHER -> Concludes(c.a, types)   \* of a `not` too

MayDecide(c) == MayTest(c.a, types) /\ (c.kind = "and" => MayTest(c.b, OnTheRight(c.a)))

Decided(c) ==
    CASE c.kind = "and" -> {p /\ q : p \in Holds(c.a), q \in Holds(c.b)}
      [] c.kind = "or" -> {p \/ q : p \in Holds(c.a), q \in Holds(c.b)}
      [] c.kind = "not" -> {~p : p \in Holds(c.a)}
      [] OTHER -> Holds(c.a)

-----------------------------------------------------------------------------
(***************************************************************************)
(* if_statement.  original is what the C local original_type holds: the    *)
(* type before, if the then branch is narrowed, else NULL.  holds is what  *)
(* the condition gives when the code runs, simple whether the idiom "else" *)
(* does not matter for it.                                                 *)
(***************************************************************************)
Opened(narrowing, original, holds, simple) ==
    [narrowing |-> narrowing, original |-> original, holds |-> holds,
     hasElse |-> FALSE, simple |-> simple]

RestoredLocals(t, x, original) ==  \* mutant: the type of a global stays
    IF x = None \/ x \in Globals THEN t ELSE [t EXCEPT ![x] = original]

\* locals[x].type = original_type; a global is restored if it has one
Restored(t, x, original) ==
    IF x = None \/ (x \in Globals /\ original = Unknown) THEN t
    ELSE [t EXCEPT ![x] = original]

Replaced(t, branch) ==
    IF branch.narrowing.rest # Unknown
    THEN [t EXCEPT ![branch.narrowing.var] = branch.narrowing.rest]
    ELSE Restored(t, branch.narrowing.var, branch.original)

\* the entry of a global is set if it has one
OpenIf(n, simple, outcomes) ==
    /\ nest # <<>> => /\ n.var = nest[1].narrowing.var  \* bound
                      /\ n.var # None /\ declared[n.var].base = "Union"
    /\ types' = IF n.var \in Globals /\ types[n.var] = Unknown THEN types ELSE Narrowed(types, n)
    /\ \E holds \in outcomes :
           nest' = Append(nest, Opened(n, IF n.var = None \/ n.to = Unknown THEN Unknown
                                          ELSE types[n.var], holds, simple \/ n = Nothing))

BeginIf ==
    /\ machine = "running" /\ Len(nest) < MaxNest
    /\ \E c \in Conditions :
           /\ MayDecide(c)
           /\ OpenIf(Concluded(c), c.kind # "and", IF Live THEN Decided(c) ELSE {FALSE})
    /\ UNCHANGED <<declared, vals, machine>>

Else ==
    /\ machine = "running" /\ nest # <<>>
    /\ LET branch == Sq!Last(nest)
       IN /\ ~branch.hasElse
          /\ "else" \in Idioms \/ branch.simple
          /\ types' = Replaced(types, branch)
          /\ nest' = [nest EXCEPT ![Len(nest)].hasElse = TRUE]
    /\ UNCHANGED <<declared, vals, machine>>

\* without else the types of the else branch are set and reset all the same
EndIf ==
    /\ machine = "running" /\ nest # <<>>
    /\ LET branch == Sq!Last(nest)
           before == IF branch.hasElse THEN types ELSE Replaced(types, branch)
       IN types' = Restored(before, branch.narrowing.var, branch.original)
    /\ nest' = Sq!Front(nest)
    /\ UNCHANGED <<declared, vals, machine>>

-----------------------------------------------------------------------------
(***************************************************************************)
(* A function that assigns a value to a variable, or computes x + x.  It   *)
(* is compiled with the type the variable has where it stands              *)
(* (resolve_upvalue copies it) and called anywhere.                        *)
(***************************************************************************)
Uses == Plain("x + x")

\* the types x may have where the function stands
Captured(x) ==
    {declared[x]}
    \union UNION {{TestedType(test), Strip(declared[x], TestedType(test))} :
                     test \in {a \in Tests : "closure" \in Idioms /\ a.var = x}}

Call(x) ==
    /\ Running
    /\ \E t \in Captured(x), value \in Literals \union {Uses} :
           IF value = Uses
           THEN LET add == Instruction("+", t, t)
                IN /\ add # "refused"
                   /\ Misread \in Outcomes("+", add, vals[x], vals[x])
                   /\ Store(x, Misread)
           ELSE /\ Accepted(t, Plain(value.base))
                /\ "call" \in Idioms \/ TypeOf(x) = declared[x]
                /\ Store(x, value)
    /\ UNCHANGED <<declared, types, nest>>

FlowNext == \/ \E x \in Vars : Declare(x) \/ Assign(x) \/ Compound(x) \/ Call(x)
            \/ BeginIf \/ Else \/ EndIf

FlowSpec == FlowInit /\ [][FlowNext]_flowVars

-----------------------------------------------------------------------------
FlowTypeOK ==
    /\ declared \in [Vars -> TypeRecords]
    /\ types \in [Vars -> TypeRecords]
    /\ vals \in [Vars -> Values]
    /\ \A i \in DOMAIN nest :
           /\ nest[i].narrowing.var \in Vars \union {None}
           /\ {nest[i].narrowing.to, nest[i].narrowing.rest, nest[i].original} \subseteq TypeRecords
    /\ machine \in {"running", "misread"}

\* What a variable holds is of the type it was declared with, and, where the
\* code runs, of the type the compiler takes it to have there: assignments
\* through narrowed types, both branches of tests and their compositions,
\* closures and calls cannot make a static type untrue.
ValuesHaveTheirTypes ==
    \A x \in Vars : /\ Has[<<vals[x], declared[x]>>]
                    /\ Live => Has[<<vals[x], TypeOf(x)>>]

\* The instructions that do not check their operands (OP_ADD_INT, OP_ADD_NUM,
\* OP_ADD_VECTOR_VECTOR and the like), and the bodies of functions, are given
\* operands of the representation they were chosen for.
OperandsAreWhatOpcodesRead == machine # "misread"

\* Outside of ifs every variable has the type it was declared with again: a
\* narrowing neither outlives its if nor takes the declared type with it.
NarrowingIsUndone ==
    nest = <<>> => types = [x \in Vars |-> IF x \in Outer THEN Unknown ELSE declared[x]]

\* Narrowings end with the branch they were made for, and the declared types are
\* back then, whichever way the branch is left.
FlowIsSound == FlowTypeOK /\ NarrowingIsUndone
=============================================================================
