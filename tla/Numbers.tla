------------------------------ MODULE Numbers ------------------------------
(***************************************************************************)
(* Int and Float at run time.  The same operation is written several times *)
(* in the source: the generic opcodes (binary_operation), those for        *)
(* operands the compiler knows the types of (OP_ADD_INT, OP_ADD_NUM and so *)
(* on), and the compound assignments to locals, upvalues and properties    *)
(* (handle_compound_assignment; *= and /= of a local have code of their    *)
(* own) and to globals (global_compound_operation).                        *)
(*                                                                         *)
(* A Float is an exact fraction here: rounding, infinities and what is not *)
(* a number are left out.                                                  *)
(***************************************************************************)
EXTENDS Floats

CONSTANTS Width,      \* of an Int, in bits: 32
          WrittenInts,\* the integers that are written in the script
          Fractions,  \* the Floats written there, as <<numerator, denominator>>
          Magnitude,  \* numerators and denominators beyond it are not used again
          MaxExponent,\* nor are greater powers taken
          Promotions  \* may an Int expression that became a Float be used again?

ASSUME NumbersAssumption ==
    /\ Width \in Nat \ {0, 1} /\ Magnitude \in Nat /\ MaxExponent \in Nat
    /\ WrittenInts \subseteq Nat /\ Fractions \subseteq Nat \X (Nat \ {0})
    /\ Promotions \in BOOLEAN

VARIABLES held,   \* the number the script has got to
          known,  \* by the compiler, of its type
          last    \* the operation: op, left, right, way, result

numberVars == <<held, known, last>>

TwoTo(k) == Raised(2, k)

MinInt == -TwoTo(Width - 1)
MaxInt == TwoTo(Width - 1) - 1
Fits(n) == MinInt <= n /\ n <= MaxInt

\* the low Width bits of n, as a signed number
Wrapped(n) == ((n - MinInt) % TwoTo(Width)) + MinInt

IntVal(n) == [type |-> "Int", num |-> n, den |-> 1]
Panic == [type |-> "Panic"]
IsInt(v) == v.type = "Int"

Pow(a, b) == Reduced(Raised(a.num, b.num), Raised(a.den, b.num))

\* / and % of C
IntQuotient(a, b)  == LET q == Abs(a) \div Abs(b) IN IF (a < 0) = (b < 0) THEN q ELSE -q
IntRemainder(a, b) == a - b * IntQuotient(a, b)

\* mutant: a result that does not fit is cut off
Truncated(n) == IntVal(Wrapped(n))

\* "Promote on overflow"
Promoted(n) == IF Fits(n) THEN IntVal(n) ELSE Whole(n)

-----------------------------------------------------------------------------
(***************************************************************************)
(* Bits.                                                                   *)
(***************************************************************************)
Bits(n) == {i \in 0 .. Width - 1 : ((n % TwoTo(Width)) \div TwoTo(i)) % 2 = 1}

FromBits(set) == CHOOSE n \in MinInt .. MaxInt : Bits(n) = set

\* OP_BITWISE_AND, OP_BITWISE_OR, OP_BITWISE_XOR of two Ints
Bitwise(op, a, b) ==
    LET x == Bits(a)   y == Bits(b)
    IN  IntVal(FromBits(CASE op = "&" -> x \intersect y
                          [] op = "|" -> x \union y
                          [] op = "^" -> (x \union y) \ (x \intersect y)))

\* int_left_shift, int_right_shift
Shift(op, a, b) ==
    IF b < 0 \/ b >= Width THEN Panic
    ELSE IntVal(IF op = "<<" THEN Wrapped(a * TwoTo(b)) ELSE a \div TwoTo(b))

-----------------------------------------------------------------------------
(***************************************************************************)
(* Integer division: a result that does not fit is possible here too.      *)
(***************************************************************************)
\* mutant: nobody thought of MinInt \ -1
IntDivideWraps(a, b) == IF b = 0 THEN Panic ELSE IntVal(Wrapped(IntQuotient(a, b)))

IntDivide(a, b) ==
    IF b = 0 THEN Panic
    ELSE IF a = MinInt /\ b = -1 THEN Whole(-MinInt) ELSE IntVal(IntQuotient(a, b))

Modulus(a, b) ==
    IF b = 0 THEN Panic
    ELSE IF a = MinInt /\ b = -1 THEN IntVal(0) ELSE IntVal(IntRemainder(a, b))

-----------------------------------------------------------------------------
(***************************************************************************)
(* The generic opcodes: int_binary_ops and float_binary_ops.               *)
(***************************************************************************)
Arithmetic == {"+", "-", "*", "/", "\\", "%", "**"}
BitOps == {"&", "|", "^", "<<", ">>"}
Ops == Arithmetic \union BitOps

IntBinary(op, a, b) ==
    CASE op = "+"  -> Promoted(a + b)
      [] op = "-"  -> Promoted(a - b)
      [] op = "*"  -> Promoted(a * b)
      [] op = "/"  -> IF b = 0 THEN Panic ELSE Over(IntVal(a), IntVal(b))
      [] op = "\\" -> IntDivide(a, b)
      [] op = "%"  -> Modulus(a, b)
      [] op = "**" -> Pow(IntVal(a), IntVal(b))
      [] op \in {"<<", ">>"} -> Shift(op, a, b)
      [] op \in {"&", "|", "^"} -> Bitwise(op, a, b)

FloatBinary(op, a, b) ==
    CASE op = "+"  -> Plus(a, b)
      [] op = "-"  -> Minus(a, b)
      [] op = "*"  -> Times(a, b)
      [] op = "/"  -> IF b.num = 0 THEN Panic ELSE Over(a, b)
      [] op = "**" -> Pow(a, b)
      [] OTHER     -> Panic

binary_operation(op, a, b) ==
    IF IsInt(a) /\ IsInt(b) THEN IntBinary(op, a.num, b.num) ELSE FloatBinary(op, a, b)

(***************************************************************************)
(* The typed opcodes.  AS_INT takes the low word of whatever it is given;  *)
(* that of a Float with few digits is zero.                                *)
(***************************************************************************)
AsInt(v) == IF IsInt(v) THEN v.num ELSE 0

IntTyped(op, a, b) ==
    CASE op = "+"  -> Promoted(AsInt(a) + AsInt(b))
      [] op = "-"  -> Promoted(AsInt(a) - AsInt(b))
      [] op = "*"  -> Promoted(AsInt(a) * AsInt(b))
      [] op = "\\" -> IntDivide(AsInt(a), AsInt(b))
      [] op = "%"  -> Modulus(AsInt(a), AsInt(b))
      [] op = "**" -> Pow(IntVal(AsInt(a)), IntVal(AsInt(b)))

NumTyped(op, a, b) ==
    CASE op = "+"  -> Plus(a, b)
      [] op = "-"  -> Minus(a, b)
      [] op = "*"  -> Times(a, b)
      [] op = "/"  -> IF b.num = 0 THEN Panic ELSE Over(a, b)
      [] op = "**" -> Pow(a, b)

(***************************************************************************)
(* The compound assignments: +=, -=, *=, /=, \=, %=.                       *)
(***************************************************************************)
Compounds == {"+", "-", "*", "/", "\\", "%"}
Places == {"local", "upvalue", "property", "global"}

handle_compound_assignment(op, a, b) ==
    IF IsInt(a) /\ IsInt(b)
    THEN CASE op = "+"  -> Promoted(a.num + b.num)
           [] op = "-"  -> Promoted(a.num - b.num)
           [] op = "*"  -> Promoted(a.num * b.num)
           [] op = "/"  -> IF b.num = 0 THEN Panic ELSE Over(a, b)
           [] op = "\\" -> IntDivide(a.num, b.num)
           [] op = "%"  -> Modulus(a.num, b.num)
    ELSE FloatBinary(op, a, b)

SetLocalSlash(a, b) == IF b.num = 0 THEN Panic ELSE Over(a, b)
SetLocalStar(a, b) == IF IsInt(a) /\ IsInt(b) THEN Promoted(a.num * b.num) ELSE Times(a, b)

\* int_compound_ops and float_compound_ops
IntCompound(op, a, b) ==
    CASE op = "+"  -> Promoted(a + b)
      [] op = "-"  -> Promoted(a - b)
      [] op = "*"  -> Promoted(a * b)
      [] op = "/"  -> IF b = 0 THEN Panic ELSE Over(IntVal(a), IntVal(b))
      [] op = "\\" -> IntDivide(a, b)
      [] op = "%"  -> Modulus(a, b)

FloatCompound(op, a, b) ==
    CASE op = "+" -> Plus(a, b)
      [] op = "-" -> Minus(a, b)
      [] op = "*" -> Times(a, b)
      [] op = "/" -> IF b.num = 0 THEN Panic ELSE Over(a, b)
      [] OTHER    -> Panic

global_compound_operation(op, a, b) ==
    IF IsInt(a) /\ IsInt(b) THEN IntCompound(op, a.num, b.num) ELSE FloatCompound(op, a, b)

Compound(place, op, a, b) ==
    CASE place = "local" /\ op = "/" -> SetLocalSlash(a, b)
      [] place = "local" /\ op = "*" -> SetLocalStar(a, b)
      [] place = "global"            -> global_compound_operation(op, a, b)
      [] OTHER                       -> handle_compound_assignment(op, a, b)

Negated(a) == IF ~IsInt(a) THEN Reduced(-a.num, a.den)
              ELSE IF a.num = MinInt THEN Whole(-MinInt) ELSE IntVal(-a.num)

Inverted(a) == IF IsInt(a) THEN IntVal(FromBits((0 .. Width - 1) \ Bits(a.num))) ELSE Panic

-----------------------------------------------------------------------------
(***************************************************************************)
(* Literals.  One that is written in decimal and does not fit is a Float,  *)
(* one in hexadecimal or binary loses its upper bits.                      *)
(***************************************************************************)
number(n) == IF Fits(n) THEN IntVal(n) ELSE Whole(n)
hex_number(n) == IntVal(Wrapped(n))

Literals == {number(n) : n \in WrittenInts} \union {hex_number(n) : n \in WrittenInts}
                \union {Reduced(f[1], f[2]) : f \in Fractions}

Operands == Literals \union {Negated(l) : l \in Literals}

NoOperation == [op |-> "none"]

NumberInit ==
    /\ held \in Literals
    /\ known \in {"Any", held.type}
    /\ last = NoOperation

\* what the script goes on with
Usable ==
    /\ held # Panic
    /\ Abs(held.num) <= Magnitude /\ held.den <= Magnitude
    /\ known = "Any" \/ known = held.type \/ Promotions

Answers(op, b, way, result) ==
    /\ last' = [op |-> op, left |-> held, right |-> b, way |-> way, result |-> result]
    /\ held' = result

Raises(op, b) == op = "**" => b.num \in 0 .. MaxExponent /\ b.den = 1

\* one of the operands is Any for the compiler
Generic(op, b) ==
    /\ Usable
    /\ Raises(op, b)
    /\ Answers(op, b, "generic", binary_operation(op, held, b))
    /\ known' = CASE op \in {"+", "-", "*"} -> "Any"
                  [] op \in {"/", "**"}    -> "Float"
                  [] OTHER                 -> "Int"

\* it knows both: what it refuses is left out, the bitwise operators have
\* generic opcodes only
TypedInt(op, b) ==
    /\ Usable
    /\ known = "Int" /\ IsInt(b)
    /\ Raises(op, b)
    /\ op \in Arithmetic
    /\ Answers(op, b, "typed", IF op = "/" THEN NumTyped(op, held, b) ELSE IntTyped(op, held, b))
    /\ known' = IF op \in {"/", "**"} THEN "Float" ELSE "Int"

TypedNum(op, b) ==
    /\ Usable
    /\ known = "Float" \/ (known = "Int" /\ ~IsInt(b))
    /\ Raises(op, b)
    /\ op \in {"+", "-", "*", "/", "**"}
    /\ Answers(op, b, "typed", NumTyped(op, held, b))
    /\ known' = "Float"

\* a variable without a type
Assign(place, op, b) ==
    /\ Usable
    /\ known = "Any"
    /\ Answers(op, b, place, Compound(place, op, held, b))
    /\ UNCHANGED known

\* OP_NEGATE and OP_BITWISE_NOT
Negate == Usable /\ Answers("negate", held, "generic", Negated(held)) /\ UNCHANGED known

BitwiseNot ==
    /\ Usable
    /\ known # "Float"
    /\ Answers("~", held, "generic", Inverted(held))
    /\ UNCHANGED known

NumberNext ==
    \/ \E b \in Operands :
          \/ \E op \in Ops : Generic(op, b) \/ TypedInt(op, b) \/ TypedNum(op, b)
          \/ \E place \in Places, op \in Compounds : Assign(place, op, b)
    \/ Negate \/ BitwiseNot

NumberSpec == NumberInit /\ [][NumberNext]_numberVars
-----------------------------------------------------------------------------
NumberTypeOK ==
    /\ held # Panic => held \in Numeric /\ (IsInt(held) => Fits(held.num) /\ held.den = 1)
    /\ known \in {"Any", "Int", "Float"}
    /\ last # NoOperation => /\ last.op \in Ops \union {"negate", "~"}
                            /\ last.result = held

SameNumber(v, n, d) == v.num * d = n * v.den

ExactResult(op, a, b, r) ==
    IF op = "/" /\ b.num = 0 THEN r = Panic
    ELSE /\ r # Panic
         /\ CASE op = "+" -> SameNumber(r, a.num * b.den + b.num * a.den, a.den * b.den)
              [] op = "-" -> SameNumber(r, a.num * b.den - b.num * a.den, a.den * b.den)
              [] op = "*" -> SameNumber(r, a.num * b.num, a.den * b.den)
              [] op = "/" -> r.num * a.den * b.num = a.num * b.den * r.den
              [] op = "negate" -> SameNumber(r, -a.num, a.den)
         /\ op # "/" /\ IsInt(a) /\ IsInt(b) => (IsInt(r) <=> Fits(r.num))

(***************************************************************************)
(* Whatever opcode the compiler chose, the result is the one arithmetic    *)
(* gives: an Int where both operands are and it fits, else a Float, and    *)
(* never a wrapped number.  Division by zero, and nothing else, stops.     *)
(***************************************************************************)
ResultsAreExact ==
    [][last'.op \in {"+", "-", "*", "/", "negate"} =>
          ExactResult(last'.op, last'.left, last'.right, last'.result)]_numberVars

(***************************************************************************)
(* \ and % belong together: what one leaves is what the other answers, it  *)
(* is smaller than the divisor and has the sign of the dividend, for the   *)
(* smallest Int divided by -1 as well.                                     *)
(***************************************************************************)
DivisionLaw ==
    IsInt(held) => \A b \in Operands :
        IsInt(b) =>
            LET q == binary_operation("\\", held, b)
                r == binary_operation("%", held, b)
            IN  IF b.num = 0 THEN q = Panic /\ r = Panic
                ELSE /\ q.den = 1 /\ IsInt(r)
                     /\ q.num * b.num + r.num = held.num
                     /\ Abs(r.num) < Abs(b.num)
                     /\ r.num # 0 => (r.num < 0 <=> held.num < 0)

(***************************************************************************)
(* The bits of Ints: and, or, exclusive or and not are related to sum and  *)
(* difference; a shift to the left and back gives the Int again if nothing *)
(* was shifted out; all of them give Ints.                                 *)
(***************************************************************************)
BitwiseLaws ==
    IsInt(held) => \A b \in Operands :
        IsInt(b) =>
            LET and == Bitwise("&", held.num, b.num).num
                or  == Bitwise("|", held.num, b.num).num
                xor == Bitwise("^", held.num, b.num).num
                left == Shift("<<", held.num, b.num)
            IN  /\ and + or = held.num + b.num
                /\ xor = or - and
                /\ Inverted(held).num = -held.num - 1
                /\ left = Panic <=> b.num \notin 0 .. Width - 1
                /\ left # Panic =>
                      /\ IsInt(left) /\ Fits(left.num)
                      /\ Fits(held.num * TwoTo(b.num)) =>
                            Shift(">>", left.num, b.num) = held

\* Both, whatever the script holds: so for all that the operands may be.
IntegerLaws == NumberTypeOK /\ DivisionLaw /\ BitwiseLaws
=============================================================================
