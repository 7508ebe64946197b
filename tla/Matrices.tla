------------------------------ MODULE Matrices ------------------------------
(***************************************************************************)
(* The Matrix of the language (src/src/stdlib/matrix.c, new_matrix in      *)
(* src/src/object.c, the matrix opcodes of src/src/vm/vm_run.c): its       *)
(* memory row after row, the eliminations that compute determinant,        *)
(* inverse and rank a column at a time on a copy, and what each method     *)
(* answers next to what the compiler is told it answers.                   *)
(*                                                                         *)
(* Rows and columns are counted from 0 as in C, and kept in                *)
(* DimensionBits bits; positions in the memory are counted from 1.         *)
(***************************************************************************)
EXTENDS Floats, Sequences, FiniteSets, Folds

CONSTANTS Given,         \* the matrices the script makes with AMatrix: rows, cols, array
          Others,        \* matrices it has besides
          Vectors,       \* and vectors
          Scalars,       \* the Floats it writes
          Asked,         \* the Ints it writes for rows and columns
          DimensionBits, \* 16
          MaxWrites,     \* bound: calls of set
          Epsilon,       \* EPSILON: what is nearer to 0 counts as 0
          Idioms,        \* which of the idioms below programs use
          Misdeclared    \* the methods that may answer other than is declared

\*   "far"     rows and columns that DimensionBits bits do not hold
\*   "divide"  a matrix / a number
MatricesAssumption ==
    /\ DimensionBits \in Nat /\ MaxWrites \in Nat /\ Asked \subseteq Int /\ Below(Zero, Epsilon)
    /\ \A g \in Given : g.rows \in Nat \ {0} /\ g.cols \in Nat \ {0}
    /\ Idioms \subseteq {"far", "divide"}
    /\ Misdeclared \subseteq {"copy", "equals", "row", "col"}

VARIABLES held,   \* a matrix of the script
          writes, \* the calls of set so far
          job,    \* the elimination that runs
          last,   \* the method that returned and what it answered
          stray   \* memory outside a matrix was read or written

vars == <<held, writes, job, last, stray>>

-----------------------------------------------------------------------------
(***************************************************************************)
(* Matrices and their operations.                                          *)
(***************************************************************************)
Narrow(n) == n % 2^DimensionBits

Matrix(rows, cols, Entry(_, _)) ==
    [rows |-> rows, cols |-> cols,
     data |-> [k \in 1 .. rows * cols |-> Entry((k - 1) \div cols, (k - 1) % cols)]]

Rows(m) == 0 .. m.rows - 1
Columns(m) == 0 .. m.cols - 1
Square(m) == m.rows = m.cols
SameShape(a, b) == a.rows = b.rows /\ a.cols = b.cols

Position(m, i, j) == i * m.cols + j + 1
At(m, i, j) == m.data[Position(m, i, j)]

Negligible(x) == Below(Size(x), Epsilon)

Total(Term(_), S) == MapThenFoldSet(Plus, Zero, Term, LAMBDA T : CHOOSE x \in T : TRUE, S)
Multiplied(Term(_), S) == MapThenFoldSet(Times, One, Term, LAMBDA T : CHOOSE x \in T : TRUE, S)

Entrywise(a, Op(_, _), b) == Matrix(a.rows, a.cols, LAMBDA i, j : Op(At(a, i, j), At(b, i, j)))
WithEach(a, Op(_)) == Matrix(a.rows, a.cols, LAMBDA i, j : Op(At(a, i, j)))

Identity(n) == Matrix(n, n, LAMBDA i, j : IF i = j THEN One ELSE Zero)

Transposed(m) == Matrix(m.cols, m.rows, LAMBDA i, j : At(m, j, i))

Product(a, b) ==
    Matrix(a.rows, b.cols,
           LAMBDA i, j : Total(LAMBDA k : Times(At(a, i, k), At(b, k, j)),
                               {k \in Columns(a) : ~Negligible(At(a, i, k))}))

Same(a, b) == /\ SameShape(a, b)
              /\ \A k \in DOMAIN a.data : Negligible(Minus(a.data[k], b.data[k]))

Trace(m) == Total(LAMBDA i : At(m, i, i), Rows(m))

RowArrays(m) == [i \in 1 .. m.rows |-> [j \in 1 .. m.cols |-> At(m, i - 1, j - 1)]]

Swapped(m, p, q) ==
    Matrix(m.rows, m.cols,
           LAMBDA i, j : At(m, CASE i = p -> q [] i = q -> p [] OTHER -> i, j))

-----------------------------------------------------------------------------
(***************************************************************************)
(* Answers.                                                                *)
(***************************************************************************)
Ok(type, value) == [wrapped |-> TRUE, type |-> type, value |-> value]
Bare(type, value) == [wrapped |-> FALSE, type |-> type, value |-> value]
Error == Ok("Error", <<>>)
Panic == Bare("Panic", <<>>)
OkIf(condition, type, value) == IF condition THEN Ok(type, value) ELSE Error

\* what the compiler is told (init_std_lib)
Declared ==
    LET result(type) == [wrapped |-> TRUE, type |-> type]
        plain(type) == [wrapped |-> FALSE, type |-> type]
    IN  [get |-> result("Float"), set |-> result("Nil"),
         add |-> result("Matrix"), sub |-> result("Matrix"), mul |-> result("Matrix"),
         scale |-> plain("Matrix"), transpose |-> plain("Matrix"),
         determinant |-> result("Float"), inverse |-> result("Matrix"),
         trace |-> result("Float"), rank |-> result("Int"),
         row |-> result("Vector"), col |-> result("Vector"), to_array |-> result("Array"),
         equals |-> result("Bool"), copy |-> result("Matrix"),
         rows |-> plain("Int"), cols |-> plain("Int"), mul_vec |-> result("Vector"),
         Matrix |-> result("Matrix"), IMatrix |-> result("Matrix")]

NoJob == [kind |-> "none"]
Nothing == [op |-> "none", with |-> <<>>, gives |-> Bare("Nil", <<>>)]

Answers(op, with, answer) == last' = [op |-> op, with |-> with, gives |-> answer]

Method(op, with, answer) ==
    /\ job = NoJob
    /\ Answers(op, with, answer)
    /\ UNCHANGED <<held, writes, job, stray>>

-----------------------------------------------------------------------------
(***************************************************************************)
(* Construction.  Memory is of the narrow dimensions, and is filled by the *)
(* wide ones.                                                              *)
(***************************************************************************)
Init == /\ \E g \in Given :
              held = Matrix(g.rows, g.cols,
                            LAMBDA i, j : LET k == i * g.cols + j + 1
                                          IN  IF k <= Len(g.array) THEN g.array[k] ELSE Zero)
        /\ writes = 0 /\ job = NoJob /\ last = Nothing /\ stray = FALSE

InBits(n) == "far" \in Idioms \/ n < 2^DimensionBits

Makes(op, rows, cols, Entry(_, _)) ==
    /\ job = NoJob
    /\ InBits(rows) /\ InBits(cols)
    /\ IF rows <= 0 \/ cols <= 0
       THEN Answers(op, <<rows, cols>>, Error) /\ UNCHANGED <<held, stray>>
       ELSE /\ held' = Matrix(Narrow(rows), Narrow(cols), Entry)
            /\ Answers(op, <<rows, cols>>, Ok("Matrix", held'))
            /\ stray' = (stray \/ rows * cols > Narrow(rows) * Narrow(cols))
    /\ UNCHANGED <<writes, job>>

Construct ==
    \/ \E rows \in Asked, cols \in Asked : Makes("Matrix", rows, cols, LAMBDA i, j : Zero)
    \/ \E n \in Asked : Makes("IMatrix", n, n, LAMBDA i, j : IF i = j THEN One ELSE Zero)

-----------------------------------------------------------------------------
(***************************************************************************)
(* One entry, one row, one column.                                         *)
(***************************************************************************)
OutOfBounds(n, dimension) == n < 0 \/ Narrow(n) >= dimension

Strays == stray' = TRUE /\ UNCHANGED <<held, writes, job, last>>

Reads(op, with, refused, positions, answer) ==
    /\ job = NoJob
    /\ IF refused THEN Method(op, with, Error)
       ELSE IF positions \subseteq DOMAIN held.data THEN Method(op, with, answer)
       ELSE Strays

Get(row, col) ==
    LET k == Position(held, row, col)
    IN  /\ InBits(row) /\ InBits(col)
        /\ Reads("get", <<row, col>>, OutOfBounds(row, held.rows) \/ OutOfBounds(col, held.cols),
                 {k}, Ok("Float", held.data[k]))

Set(row, col, x) ==
    LET k == Position(held, row, col)
    IN  /\ job = NoJob /\ writes < MaxWrites
        /\ InBits(row) /\ InBits(col)
        /\ IF OutOfBounds(row, held.rows) \/ OutOfBounds(col, held.cols)
           THEN Method("set", <<row, col>>, Error)
           ELSE IF k \in DOMAIN held.data
           THEN /\ held' = [held EXCEPT !.data[k] = x] /\ writes' = writes + 1
                /\ Answers("set", <<row, col>>, Ok("Nil", <<>>))
                /\ UNCHANGED <<job, stray>>
           ELSE Strays

\* Row or column n: its entries in order
Line(op, n, dimension, PositionOf(_), length) ==
    /\ InBits(n)
    /\ Reads(op, n, OutOfBounds(n, dimension), {PositionOf(i) : i \in 0 .. length - 1},
             Ok("Array", [i \in 1 .. length |-> held.data[PositionOf(i - 1)]]))

Lines == \E n \in Asked :
    \/ Line("row", n, held.rows, LAMBDA j : Position(held, n, j), held.cols)
    \/ Line("col", n, held.cols, LAMBDA i : Position(held, i, n), held.rows)

-----------------------------------------------------------------------------
(***************************************************************************)
(* Methods that answer at once, and the opcodes that call the same         *)
(* functions: these unwrap a Result or panic.                              *)
(***************************************************************************)
WithOther(o) ==
    \/ Method("add", o, OkIf(SameShape(held, o), "Matrix", Entrywise(held, Plus, o)))
    \/ Method("sub", o, OkIf(SameShape(held, o), "Matrix", Entrywise(held, Minus, o)))
    \/ Method("mul", o, OkIf(held.cols = o.rows, "Matrix", Product(held, o)))
    \/ Method("equals", o, Bare("Bool", Same(held, o)))

Alone ==
    \/ Method("transpose", <<>>, Bare("Matrix", Transposed(held)))
    \/ Method("trace", <<>>, OkIf(Square(held), "Float", Trace(held)))
    \/ Method("rows", <<>>, Bare("Int", held.rows)) \/ Method("cols", <<>>, Bare("Int", held.cols))
    \/ Method("copy", <<>>, Bare("Matrix", held))
    \/ Method("to_array", <<>>, Ok("Array", RowArrays(held)))

MulVec(v) ==
    Method("mul_vec", v,
           OkIf(held.cols = Len(v), "Vector",
                [i \in 1 .. held.rows |->
                    Total(LAMBDA j : Times(At(held, i - 1, j), v[j + 1]), Columns(held))]))

Scale(x) == Method("scale", x, Bare("Matrix", WithEach(held, LAMBDA a : Times(a, x))))

Unwrapped(answer) ==
    IF answer = Error THEN Panic ELSE Bare(answer.type, answer.value)

Operators(o) ==
    \/ Method("+", o, Unwrapped(OkIf(SameShape(held, o), "Matrix", Entrywise(held, Plus, o))))
    \/ Method("-", o, Unwrapped(OkIf(SameShape(held, o), "Matrix", Entrywise(held, Minus, o))))
    \/ Method("*", o, Unwrapped(OkIf(held.cols = o.rows, "Matrix", Product(held, o))))

WithScalar(x) ==
    \/ Method("+x", x, Bare("Matrix", WithEach(held, LAMBDA a : Plus(a, x))))
    \/ Method("-x", x, Bare("Matrix", WithEach(held, LAMBDA a : Minus(a, x))))
    \/ Method("x-", x, Bare("Matrix", WithEach(held, LAMBDA a : Minus(x, a))))
    \/ Method("*x", x, Bare("Matrix", WithEach(held, LAMBDA a : Times(a, x))))

\* OP_DIVIDE_MATRIX_SCALAR takes the matrix it gets for a Result
Divide(x) ==
    /\ job = NoJob
    /\ Negligible(x) \/ "divide" \in Idioms
    /\ IF Negligible(x) THEN Method("/x", x, Panic) ELSE Strays

-----------------------------------------------------------------------------
(***************************************************************************)
(* Eliminations, a column at a time.  Each looks for its pivot in its own  *)
(* way.                                                                    *)
(***************************************************************************)
Begin(kind) ==
    /\ job = NoJob
    /\ last' = Nothing
    /\ job' = [kind |-> kind, tmp |-> held, made |-> Identity(held.rows), sign |-> 1,
               col |-> 0, row |-> 0]
    /\ UNCHANGED <<held, writes, stray>>

Start ==
    \/ Square(held) /\ (Begin("determinant") \/ Begin("inverse"))
    \/ Begin("rank")
    \/ ~Square(held) /\ (Method("determinant", <<>>, Error) \/ Method("inverse", <<>>, Error))

Finish(answer) == /\ Answers(job.kind, <<>>, answer)
                  /\ job' = NoJob
                  /\ UNCHANGED <<held, writes, stray>>

GoesOn(changed) == job' = changed /\ UNCHANGED <<held, writes, last, stray>>

\* the first of the largest entries of the column, on the diagonal or below it
Largest(m, col) ==
    CHOOSE p \in col .. m.rows - 1 :
        /\ \A i \in col .. m.rows - 1 : ~Below(Size(At(m, p, col)), Size(At(m, i, col)))
        /\ \A i \in col .. p - 1 : Below(Size(At(m, i, col)), Size(At(m, p, col)))

\* m without what its column has below the pivot; the factors take its place
Decomposed(m, col) ==
    LET factor(i) == Over(At(m, i, col), At(m, col, col))
    IN  Matrix(m.rows, m.cols,
               LAMBDA i, j : IF i <= col \/ j < col THEN At(m, i, j)
                             ELSE IF j = col THEN factor(i)
                             ELSE Minus(At(m, i, j), Times(factor(i), At(m, col, j))))

\* mutant: a swap does not change the sign
DeterminantUnsigned ==
    /\ job.kind = "determinant" /\ job.col < held.rows
    /\ LET p == Largest(job.tmp, job.col)
       IN  IF Negligible(At(job.tmp, p, job.col)) THEN Finish(Ok("Float", Zero))
           ELSE GoesOn([job EXCEPT !.col = @ + 1,
                                   !.tmp = Decomposed(Swapped(@, job.col, p), job.col)])

\* lu_decompose
DeterminantColumn ==
    /\ job.kind = "determinant" /\ job.col < held.rows
    /\ LET p == Largest(job.tmp, job.col)
       IN  IF Negligible(At(job.tmp, p, job.col)) THEN Finish(Ok("Float", Zero))
           ELSE GoesOn([job EXCEPT !.col = @ + 1, !.sign = IF p = job.col THEN @ ELSE -@,
                                   !.tmp = Decomposed(Swapped(@, job.col, p), job.col)])

DeterminantEnds ==
    /\ job.kind = "determinant" /\ job.col = held.rows
    /\ Finish(Ok("Float", Times(Whole(job.sign),
                                Multiplied(LAMBDA i : At(job.tmp, i, i), Rows(held)))))

\* what Gauss-Jordan does to both matrices, by the column of the first
Cleared(m, by, col) ==
    LET pivot(j) == Over(At(m, col, j), At(by, col, col))
    IN  Matrix(m.rows, m.cols,
               LAMBDA i, j : IF i = col THEN pivot(j)
                             ELSE Minus(At(m, i, j), Times(At(by, i, col), pivot(j))))

InverseColumn ==
    /\ job.kind = "inverse" /\ job.col < held.rows
    /\ LET p == Largest(job.tmp, job.col)
           by == Swapped(job.tmp, job.col, p)
       IN  IF Negligible(At(job.tmp, p, job.col)) THEN Finish(Error)
           ELSE GoesOn([job EXCEPT !.col = @ + 1, !.tmp = Cleared(by, by, job.col),
                                   !.made = Cleared(Swapped(@, job.col, p), by, job.col)])

InverseEnds == /\ job.kind = "inverse" /\ job.col = held.rows
               /\ Finish(Ok("Matrix", job.made))

\* the rows below are cleared from the column on
Echelon(m, row, col) ==
    Matrix(m.rows, m.cols,
           LAMBDA i, j : IF i <= row \/ j < col THEN At(m, i, j)
                         ELSE Minus(At(m, i, j),
                                    Times(Over(At(m, i, col), At(m, row, col)), At(m, row, j))))

RankColumn ==
    /\ job.kind = "rank" /\ job.col < held.cols /\ job.row < held.rows
    /\ LET found == {i \in job.row .. held.rows - 1 : ~Negligible(At(job.tmp, i, job.col))}
       IN  IF found = {} THEN GoesOn([job EXCEPT !.col = @ + 1])
           ELSE \E p \in found :
                   /\ \A i \in found : p <= i
                   /\ GoesOn([job EXCEPT !.col = @ + 1, !.row = @ + 1,
                                         !.tmp = Echelon(Swapped(@, job.row, p), job.row, job.col)])

RankEnds == /\ job.kind = "rank" /\ (job.col = held.cols \/ job.row = held.rows)
            /\ Finish(Ok("Int", job.row))

-----------------------------------------------------------------------------
Next ==
    \/ Construct
    \/ \E row \in Asked, col \in Asked : Get(row, col) \/ \E x \in Scalars : Set(row, col, x)
    \/ Lines
    \/ Alone
    \/ \E o \in Others : WithOther(o) \/ Operators(o)
    \/ \E v \in Vectors : MulVec(v)
    \/ \E x \in Scalars : Scale(x) \/ WithScalar(x) \/ Divide(x)
    \/ Start
    \/ DeterminantColumn \/ DeterminantEnds
    \/ InverseColumn \/ InverseEnds
    \/ RankColumn \/ RankEnds

Spec == Init /\ [][Next]_vars

-----------------------------------------------------------------------------
(***************************************************************************)
(* The references: the determinant as a sum over permutations, the rank as *)
(* the size of the largest minor that is not 0.                            *)
(***************************************************************************)
Orders(n) == {p \in [0 .. n - 1 -> 0 .. n - 1] : \A i, j \in 0 .. n - 1 : p[i] = p[j] => i = j}

Sign(p) == IF Cardinality({q \in (DOMAIN p) \X (DOMAIN p) : q[1] < q[2] /\ p[q[1]] > p[q[2]]}) % 2 = 0
           THEN One ELSE Whole(-1)

Det(m) == Total(LAMBDA p : Times(Sign(p), Multiplied(LAMBDA i : At(m, i, p[i]), Rows(m))),
                Orders(m.rows))

Nth(S, n) == CHOOSE x \in S : Cardinality({y \in S : y < x}) = n
Minor(m, I, J) ==
    Det(Matrix(Cardinality(I), Cardinality(J), LAMBDA i, j : At(m, Nth(I, i), Nth(J, j))))

RankOf(m) ==
    CHOOSE r \in 0 .. m.rows :
        LET Minors(k) == {Minor(m, I, J) : I \in {S \in SUBSET Rows(m) : Cardinality(S) = k},
                                           J \in {S \in SUBSET Columns(m) : Cardinality(S) = k}}
        IN  Minors(r) \ {Zero} # {} /\ \A k \in r + 1 .. m.rows : Minors(k) \subseteq {Zero}

\* The type invariant.  The pivots of a rank are in the columns passed.
TypeOK ==
    /\ DOMAIN held.data = 1 .. held.rows * held.cols
    /\ stray \in BOOLEAN
    /\ job # NoJob => /\ SameShape(job.tmp, held) /\ job.sign \in {1, -1}
                      /\ job.col \in 0 .. held.cols /\ job.row \in 0 .. job.col

(***************************************************************************)
(* Between two columns: with its factors taken for 0, the copy has the     *)
(* determinant of the matrix, but for the sign that is kept; the matrix    *)
(* made so far is the one that takes the matrix to the copy; and the copy  *)
(* has its rank.                                                           *)
(***************************************************************************)
Upper(m, col) == Matrix(m.rows, m.cols, LAMBDA i, j : IF j < col /\ i > j THEN Zero ELSE At(m, i, j))

EliminationKeepsTheMatrix ==
    /\ job.kind = "determinant" =>
           Det(held) = Times(Whole(job.sign), Det(Upper(job.tmp, job.col)))
    /\ job.kind = "inverse" => Product(job.made, held) = job.tmp
    /\ job.kind = "rank" => RankOf(job.tmp) = RankOf(held)

(***************************************************************************)
(* Answers are what linear algebra says, a matrix is refused as singular   *)
(* exactly when its determinant is 0, and only set and the constructors    *)
(* change the matrix the script has.                                       *)
(***************************************************************************)
AnswersAreRight ==
    LET is(op) == last'.op = op /\ last'.gives # Error
        value == last'.gives.value
        other == last'.with
        column(v) == Matrix(Len(v), 1, LAMBDA i, j : v[i + 1])
    IN  /\ held' # held => last'.op \in {"set", "Matrix", "IMatrix"}
        /\ is("determinant") => value = Det(held)
        /\ last'.op = "inverse" =>
               IF ~Square(held) \/ Det(held) = Zero THEN last'.gives = Error
               ELSE Product(value, held) = Identity(held.rows)
        /\ is("rank") => value = RankOf(held)
        /\ is("transpose") => Transposed(value) = held /\ RankOf(value) = RankOf(held)
        /\ is("mul") => /\ Product(Transposed(other), Transposed(held)) = Transposed(value)
                        /\ Square(held) /\ Square(other) => Det(value) = Times(Det(held), Det(other))
        /\ is("mul_vec") => column(value) = Product(held, column(other))
        /\ is("sub") => Entrywise(value, Plus, other) = held
        /\ is("equals") => value = (held = other)

(***************************************************************************)
(* A method answers a value of the type that the compiler is told of       *)
(* (src/src/stdlib/stdlib.c:505-523), in a Result or not, and an operator  *)
(* a matrix.                                                               *)
(***************************************************************************)
AnswersAreAsDeclared ==
    LET op == last'.op
        gives == last'.gives
    IN  IF op \in DOMAIN Declared
        THEN op \in Misdeclared
             \/ /\ gives.wrapped = Declared[op].wrapped
                /\ gives.type = Declared[op].type \/ gives = Error
        ELSE op # "none" => gives.type \in {"Matrix", "Panic"}

(***************************************************************************)
(* What every step of the methods keeps: they answer what is right and     *)
(* declared, and no method or opcode reads or writes outside the memory of *)
(* a matrix, or takes a matrix for something else.                         *)
(***************************************************************************)
MatricesAnswerRight ==
    [][ /\ TypeOK' /\ ~stray'
        /\ EliminationKeepsTheMatrix' /\ AnswersAreRight /\ AnswersAreAsDeclared ]_vars
=============================================================================
