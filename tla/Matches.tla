------------------------------ MODULE Matches ------------------------------
(***************************************************************************)
(* A match expression: which arms the compiler lets a program write, the   *)
(* type it gives the whole (new_match_expression,                          *)
(* src/src/compiler/compiler.c), and the value the arms leave when they    *)
(* run (OP_MATCH to OP_GIVE, src/src/vm/vm_run.c).                         *)
(*                                                                         *)
(* A step compiles one arm and, unless an earlier arm was taken, runs its  *)
(* test and its body; an arm that the compiler refuses is in no program.   *)
(* A value is as in Types: Ok(v) and Some(v) have a part, Err and None do  *)
(* not.  Handlers and stack heights are in Scopes.                         *)
(***************************************************************************)
EXTENDS Types, FiniteSets

CONSTANTS Targets,    \* the types of the targets
          Given,      \* the values programs write down, each of the type it looks like
          MatchIdioms \* which of the idioms below programs use

\*   "wide"      an arm for a type whose bit the operand of OP_TYPE_MATCH has not
\*   "untyped"   the target is of type Any
\*   "promoted"  what the target holds has a base that its type does not name:
\*               an Int held by a Float, anything held by a union with Any
\*   "unions"    the target is of a union of more than two, read as A | (B | C)
\*   "any"       an arm gives what it has bound, of a type that is Any or has it
\*   "block"     an arm is a block without give
\*   "branches"  an arm gives in the branches of an if
\*   "widening"  an arm gives what an earlier arm's type does not include

NilT == Plain("Nil")
Never == Plain("Never")

\* The bits of the bases (TypeMask), and which of them no arm can name; the
\* operand of OP_TYPE_MATCH has OperandBits
Bit == [Nil |-> 0, Bool |-> 1, Int |-> 2, Float |-> 3, String |-> 4, Array |-> 5, Table |-> 6,
        Error |-> 7, Result |-> 8, Random |-> 9, File |-> 10, Struct |-> 11, Vector |-> 12,
        Complex |-> 13, Matrix |-> 14, Function |-> 15, Module |-> 16, Set |-> 17, Tuple |-> 18,
        Buffer |-> 19, Range |-> 20, Any |-> 21, Never |-> 22, Iterator |-> 23, Option |-> 24,
        Coroutine |-> 25, Enum |-> 26]
Nameless == {"Function", "Module", "Coroutine", "Enum"}
OperandBits == 16

ASSUME MatchesAssumption ==
    /\ MatchIdioms \subseteq
           {"wide", "untyped", "promoted", "unions", "any", "block", "branches", "widening"}
    /\ Targets \subseteq TypeRecords
    /\ \A v \in Given : v \in Values \intersect TypeRecords /\ v.base \in Scalars /\ v = Plain(v.base)
    /\ {NilT, Plain("Error")} \subseteq Values \intersect TypeRecords
    /\ Never \in TypeRecords
    /\ {v.base : v \in Values} \subseteq DOMAIN Bit
    /\ "any" \in MatchIdioms \/ ArgumentsAreTyped

VARIABLES target,    \* exhaustiveness.target_type
          seen,      \* has_ok, has_err, has_some, has_none, has_type, has_default
          covered,   \* matched_types
          resultant, \* resultant_type
          top,       \* the value on the stack: the target's, then what was given
          taken,     \* an arm was taken
          outcome    \* "open", "done" after OP_MATCH_END, or "left" by break,
                     \* continue, return

matchVars == <<target, seen, covered, resultant, top, taken, outcome>>

-----------------------------------------------------------------------------
MaskIn[p \in TypeRecords \X DOMAIN Bit] ==
    \/ p[1].base = p[2]
    \/ p[1].base = "Union" /\ \E i \in DOMAIN p[1].parts : MaskIn[<<p[1].parts[i], p[2]>>]

Alternatives(t) == IF t.base = "Union" THEN t.parts ELSE <<t>>

\* add_exhaustive_match_type
Recorded(matched, t) == IF \E u \in matched : Equal[<<u, t>>] THEN matched ELSE matched \union {t}

\* the loop of record_type_pattern_coverage: what is matched after i alternatives
Coverage(mask) ==
    LET matched[i \in 0 .. Len(Alternatives(target))] ==
            IF i = 0 THEN covered
            ELSE LET t == Alternatives(target)[i]
                 IN  IF MaskIn[<<t, mask>>] THEN Recorded(matched[i - 1], t) ELSE matched[i - 1]
    IN  matched

\* What runs of an arm are taken with v on the stack: of a literal only its
\* base is kept, nil apart
Matched(arm, v) ==
    CASE arm.kind \in {"Ok", "Some"} -> {v.base = arm.of /\ v.parts # <<>>}
      [] arm.kind \in {"Err", "None"} -> {v.base = arm.of /\ v.parts = <<>>}
      [] arm.kind = "type" -> {Bit[arm.of] < OperandBits /\ v.base = arm.of}
      [] arm.kind = "literal" ->
             IF arm.of = "Nil" THEN {v.base = "Nil"}
             ELSE IF v.base = arm.of \/ {v.base, arm.of} = {"Int", "Float"} THEN BOOLEAN
             ELSE {FALSE}
      [] arm.kind = "default" -> {TRUE}

\* OP_RESULT_MATCH_OK, OP_RESULT_MATCH_ERR and OP_OPTION_MATCH_SOME leave what
\* is bound in the place of the target
Bound(arm, v) == CASE arm.kind \in {"Ok", "Some"} -> v.parts[1]
                   [] arm.kind = "Err" -> Plain("Error")
                   [] OTHER -> v

BoundTypes(arm) ==
    CASE arm.kind = "Err" -> {Plain("Error")}
      [] arm.kind \in {"Ok", "Some"} ->
             {IF target.base = arm.of THEN target.parts[1] ELSE Any} \ (IF "any" \in MatchIdioms THEN {} ELSE Vague)
      [] OTHER -> {}

-----------------------------------------------------------------------------
(***************************************************************************)
(* Bodies: the type an arm is taken to produce, and what it leaves on the  *)
(* stack when it is taken, with v there.  `give e;` and `=> give e;`; a    *)
(* block that returns, breaks or continues, of type Never; a block that    *)
(* does neither leaves what it found; of the gives in one block the last   *)
(* one's type is recorded.                                                 *)
(***************************************************************************)
Body(type, leaves) == [type |-> type, leaves |-> leaves]

BodiesOf(arm, v) ==
    {Body(g, {g}) : g \in Given \union {NilT}}
    \union {Body(Never, {})}
    \union {Body(t, {v}) : t \in BoundTypes(arm)}
    \union (IF "block" \in MatchIdioms THEN {Body(NilT, {v})} ELSE {})
    \union (IF "branches" \in MatchIdioms THEN {Body(g, Given) : g \in Given} ELSE {})

ProducesAnything(type) ==  \* mutant: arms are not held against each other
    IF resultant \in {Unknown, Never} THEN {type} ELSE {resultant}

\* the type of the whole after an arm, if the compiler accepts it
Produces(type) ==
    IF resultant \in {Unknown, Never} THEN {type}
    ELSE IF \/ type = Never \/ Any \in {type, resultant}
            \/ /\ Compatible[<<type, resultant>>]
               /\ "widening" \in MatchIdioms \/ Compatible[<<resultant, type>>] THEN {resultant}
    ELSE {}

\* the arm and its body are compiled; they run unless an arm was taken
Runs(arm) ==
    \E runs \in IF taken THEN {FALSE} ELSE Matched(arm, top) :
        LET v == IF runs THEN Bound(arm, top) ELSE top
        IN  \E body \in BodiesOf(arm, v) :
               /\ resultant' \in Produces(body.type)
               /\ taken' = (taken \/ runs)
               /\ IF runs /\ body.leaves # {} THEN top' \in body.leaves ELSE top' = top
               /\ outcome' = IF runs /\ body.leaves = {} THEN "left" ELSE outcome
               /\ UNCHANGED target

-----------------------------------------------------------------------------
IsNested(t) == t.base = "Union" /\ \E i \in DOMAIN t.parts : t.parts[i].base = "Union"

\* A Float may be held as an Int (TO_DOUBLE)
MatchInit ==
    /\ target \in Targets
    /\ "unions" \in MatchIdioms \/ ~IsNested(target)
    /\ "untyped" \in MatchIdioms \/ target.base # "Any"
    /\ top \in {v \in Values : /\ Has[<<v, target>>]
                               /\ \/ "promoted" \in MatchIdioms \/ target.base = "Any"
                                  \/ MaskIn[<<target, v.base>>]}
    /\ seen = {} /\ covered = {} /\ resultant = Unknown
    /\ taken = FALSE /\ outcome = "open"

Once(kind) == outcome = "open" /\ kind \notin seen /\ seen' = seen \union {kind}

DefaultArm == /\ Once("default")
              /\ Runs([kind |-> "default", of |-> "Any"])
              /\ UNCHANGED covered

\* Ok and Err of a Result, Some and None of an Option, or of anything
PartArm(kind, base) == /\ Once(kind)
                       /\ target.base \in {base, "Any"}
                       /\ Runs([kind |-> kind, of |-> base])
                       /\ UNCHANGED covered

TypeArm(mask) == /\ outcome = "open"
                 /\ MaskIn[<<target, mask>>]
                 /\ "wide" \in MatchIdioms \/ Bit[mask] < OperandBits
                 /\ seen' = seen \union {"type"}
                 /\ covered' = Coverage(mask)[Len(Alternatives(target))]
                 /\ Runs([kind |-> "type", of |-> mask])

LiteralArm(literal) == /\ outcome = "open"
                       /\ Compatible[<<target, literal>>]
                       /\ seen' = seen \union {"literal"}
                       /\ Runs([kind |-> "literal", of |-> literal.base])
                       /\ UNCHANGED covered

AllCovered == IF target.base = "Union" THEN Cardinality(covered) >= Len(target.parts)
                                       ELSE covered # {}

ExhaustiveByOne ==  \* mutant: one of the two arms is enough
    \/ seen \intersect {"default", "Ok", "Err", "Some", "None"} # {}
    \/ "type" \in seen /\ AllCovered

Exhaustive ==
    \/ "default" \in seen
    \/ /\ seen \intersect {"Ok", "Err", "Some", "None", "type"} # {}
       /\ "Ok" \in seen <=> "Err" \in seen
       /\ "Some" \in seen <=> "None" \in seen
       /\ "type" \in seen => AllCovered

EndMatch == /\ outcome = "open"
            /\ Exhaustive
            /\ outcome' = "done"
            /\ UNCHANGED <<target, seen, covered, resultant, top, taken>>

MatchNext ==
    \/ DefaultArm \/ EndMatch
    \/ PartArm("Ok", "Result") \/ PartArm("Err", "Result")
    \/ PartArm("Some", "Option") \/ PartArm("None", "Option")
    \/ \E mask \in DOMAIN Bit \ Nameless : TypeArm(mask)
    \/ \E literal \in Given : LiteralArm(literal)

MatchSpec == MatchInit /\ [][MatchNext]_matchVars

-----------------------------------------------------------------------------
\* The type invariant; the types counted as matched are of the target
\* (record_type_pattern_coverage).
MatchTypeOK ==
    /\ target \in Targets /\ top \in Values /\ resultant \in TypeRecords
    /\ seen \subseteq {"default", "Ok", "Err", "Some", "None", "type", "literal"}
    /\ covered \subseteq {Alternatives(target)[i] : i \in DOMAIN Alternatives(target)}
    /\ taken \in BOOLEAN /\ outcome \in {"open", "done", "left"}

\* What the exhaustiveness checks are for: a match that compiles has an arm
\* for whatever its target holds, so that it never runs through
\* (src/src/compiler/compiler.c:3757: "must cover every target type or include
\* a 'default' arm").  Not so for a target of type Any, where an Ok and an Err
\* arm are enough: nil runs through, which scripts rely on
\* (src/tests/modules/matrix.crux:6-11) and a test remarks upon
\* (src/tests/features/match.crux:27: "if no arm matches then the value you are
\* trying to match against is returned").
SomeArmIsTaken == MatchTypeOK /\ (outcome = "done" => taken)

\* The arms of a match agree, so that the value it leaves has the type that
\* the compiler goes on with (src/src/compiler/compiler.c:3705: "Match arms
\* produce inconsistent types"): of a match all of whose arms leave it, nothing
\* is left.
ResultHasItsType == outcome = "done" => Has[<<top, resultant>>]
=============================================================================
