------------------------------- MODULE Floats -------------------------------
(***************************************************************************)
(* A Float as an exact fraction: rounding, infinities and what is not a    *)
(* number are left out.  An Int is one, too, wherever C converts it to     *)
(* double.                                                                 *)
(***************************************************************************)
EXTENDS Integers

Abs(n) == IF n < 0 THEN -n ELSE n

\* n to the k
Raised(n, k) == LET power[i \in Nat] == IF i = 0 THEN 1 ELSE n * power[i-1] IN power[k]

\* the greatest common one
divisor[p \in Nat \X Nat] == IF p[2] = 0 THEN p[1] ELSE divisor[<<p[2], p[1] % p[2]>>]

Reduced(n, d) == LET s == IF d < 0 THEN -1 ELSE 1
                     g == divisor[<<Abs(n), s * d>>]
                 IN  [type |-> "Float", num |-> (s * n) \div g, den |-> (s * d) \div g]

Whole(n) == [type |-> "Float", num |-> n, den |-> 1]
Zero == Whole(0)
One == Whole(1)

\* (double)a op (double)b: functions, whose arguments are evaluated once.
Numeric == [type : {"Int", "Float"}, num : Int, den : Nat \ {0}]

TwoNumbers == Numeric \X Numeric

sum[p \in TwoNumbers] ==
    Reduced(p[1].num * p[2].den + p[2].num * p[1].den, p[1].den * p[2].den)
product[p \in TwoNumbers] == Reduced(p[1].num * p[2].num, p[1].den * p[2].den)
quotient[p \in TwoNumbers] == Reduced(p[1].num * p[2].den, p[1].den * p[2].num)

Negative(a) == [a EXCEPT !.num = -@]

Plus(a, b)  == sum[<<a, b>>]
Minus(a, b) == sum[<<a, Negative(b)>>]
Times(a, b) == product[<<a, b>>]
Over(a, b)  == quotient[<<a, b>>]

\* fabs(a), a < b
Size(a) == [a EXCEPT !.num = Abs(@)]
Below(a, b) == a.num * b.den < b.num * a.den
=============================================================================
