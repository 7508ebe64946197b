------------------------------- MODULE MCTypes -------------------------------
(***************************************************************************)
(* Types as they are written, matched and relied upon, one matter at a     *)
(* time (part says which): the annotations parse_type_record reads, match  *)
(* expressions, the numbers whose opcodes the compiler chose, and matrices *)
(* with the types their methods are declared to answer.                    *)
(***************************************************************************)
EXTENDS TypeTexts, Matches, Numbers

-----------------------------------------------------------------------------
\* Annotations
CONSTANTS Matrices, \* matrices with dimensions too
          Tails     \* Vector[] and Matrix[,] before a '|' too

IntT == Plain("Int")
StringT == Plain("String")
P == Struct("P", <<"a">>, <<IntT>>)

MCNames == [x \in {"P"} |-> P]

Leaves == {IntT, NilT, P, Of("Set", <<Any>>), Sized("Vector", <<-1>>), Sized("Vector", <<3>>),
           Sized("Matrix", <<-1, -1>>)}
          \union (IF Matrices THEN {Sized("Matrix", <<2, 3>>)} ELSE {})

Around(S) ==
    {Of(b, <<t>>) : b \in OfOne \union {"Set", "Tuple"}, t \in S}
    \union {Of("Table", <<k, t>>) : k \in {StringT, Any}, t \in S}
    \union {Of("Tuple", <<t, IntT>>) : t \in S} \union {Of("Tuple", <<>>)}
    \union {Of("Function", <<t>>) : t \in S} \union {Of("Function", <<t, NilT, u>>) : t \in S, u \in S}
    \union {Shape(<<"a", "b">>, <<t, IntT>>) : t \in S}

ReadEarly == {Sized("Vector", <<-1>>), Sized("Matrix", <<-1, -1>>)}
UnionsOf(S) ==
    {Of("Union", <<t, u>>) : t \in {x \in S : x.base # "Function" /\ (Tails \/ x \notin ReadEarly)}, u \in S}

Deeper == UnionsOf(Leaves) \union {Of("Array", <<Of("Union", <<IntT, NilT>>)>>), Of("Function", <<P, IntT>>),
                                  Of("Table", <<IntT, Of("Set", <<P>>)>>)}

MCWritten == Leaves \union Around(Leaves) \union Around(Deeper) \union UnionsOf(Leaves)
             \union {Of("Union", <<t, u>>) : t \in {IntT, Of("Array", <<P>>)}, u \in Deeper}

Alphabet == {"Int", "P", "Set", "Array", "Table", "Vector", "[", "]", "(", ")", "->", ",", "|"}

SourcesOf(n) == UNION {[1 .. k -> Alphabet] : k \in 0 .. n}

CONSTANT MaxTokens \* bound: length of the texts that need not be of a type

MCSources == SourcesOf(MaxTokens) \union WrittenTexts

syntaxVars == <<source, pos, frames, stack, result, status>>

-----------------------------------------------------------------------------
\* Match expressions
FloatT == Plain("Float")
ErrorT == Plain("Error")

MCGiven == {IntT, FloatT, StringT}

Sets == INSTANCE FiniteSetsExt

MCTargets ==
    {IntT, FloatT, NilT, Of("Result", <<IntT>>), Of("Option", <<FloatT>>),
     Of("Union", <<IntT, StringT>>), Of("Union", <<Of("Array", <<IntT>>), Of("Array", <<StringT>>)>>),
     Of("Union", <<FloatT, NilT>>), Of("Union", <<Of("Result", <<IntT>>), IntT>>)}
    \union {Of("Set", <<IntT>>), Of("Tuple", <<IntT, FloatT>>), Of("Option", <<Any>>),
            Union(IntT, Union(StringT, NilT)), Any, Union(IntT, Any)}

MCValues ==
    {NilT, IntT, FloatT, StringT, ErrorT, Of("Result", <<IntT>>), Of("Result", <<>>),
     Of("Option", <<FloatT>>), Of("Option", <<IntT>>), Of("Option", <<>>), Of("Array", <<>>),
     Of("Array", <<StringT>>), Of("Set", <<IntT>>), Of("Tuple", <<IntT, IntT>>)}

PartsOf(S) == UNION {{t.parts[i] : i \in DOMAIN t.parts} : t \in S}

MCTypeRecords == MCTargets \union PartsOf(MCTargets) \union PartsOf(PartsOf(MCTargets))
                 \union MCGiven \union {NilT, ErrorT, Any, Unknown, Plain("Never")}

\* a type without parts has rank 0
MCRank[t \in MCTypeRecords] ==
    IF t.parts = <<>> THEN 0 ELSE 1 + Sets!Max({MCRank[t.parts[i]] : i \in DOMAIN t.parts})

-----------------------------------------------------------------------------
\* Numbers: Ints of four bits, and a few Floats
MCWrittenInts == 0 .. 9 \union {13, 15}
MCFractions == {<<0, 1>>, <<3, 2>>, <<3, 1>>}

-----------------------------------------------------------------------------
\* Matrices: of up to three rows and columns, which are kept in two bits
CONSTANTS MatrixIdioms, Misdeclared

Flat(rows, cols, numbers) ==
    [rows |-> rows, cols |-> cols, array |-> [k \in DOMAIN numbers |-> Whole(numbers[k])]]

Filled(rows, cols, S) == {Flat(rows, cols, a) : a \in [1 .. rows * cols -> S]}

Threes == {<<0, 1, -1>>, <<1, 2, 0>>, <<-2, 1, 1>>}

MatricesGiven ==
    Filled(1, 1, {-2, 0}) \union Filled(2, 2, {-2, 0, 1})
    \union Filled(2, 3, {0, 1}) \union Filled(3, 2, {0, 1})
    \union {Flat(3, 3, a \o b \o c) : a \in Threes, b \in Threes, c \in Threes}
    \union {Flat(2, 2, <<1>>)}

MatricesBesides ==
    {[rows |-> f.rows, cols |-> f.cols, data |-> f.array] :
        f \in {Flat(1, 2, <<1, 2>>), Flat(2, 2, <<0, 1, 2, 0>>), Flat(2, 3, <<1, 0, 2, -1, 1, 0>>),
               Flat(3, 3, <<0, 1, 0, 0, 0, 2, 1, 0, 0>>)}}

VARIABLES matrix, writes, job, answer, stray

matrixVars == <<matrix, writes, job, answer, stray>>

Algebra == INSTANCE Matrices WITH
    held <- matrix, last <- answer,
    Given <- MatricesGiven, Others <- MatricesBesides,
    Vectors <- {Flat(1, 2, <<1, 2>>).array, Flat(1, 3, <<0, 1, -1>>).array},
    Scalars <- {Zero, Reduced(1, 2)}, Asked <- -1 .. 5, DimensionBits <- 2,
    MaxWrites <- 1, Epsilon <- Reduced(1, 1000), Idioms <- MatrixIdioms

ASSUME Algebra!MatricesAssumption

-----------------------------------------------------------------------------
CONSTANT Parts \* the matters that are considered

VARIABLE part

MatrixOfOne == [rows |-> 1, cols |-> 1, data |-> <<Zero>>]

TypesInit ==
    /\ part \in Parts
    /\ part = "match" \/ (target = IntT /\ top = IntT)
    /\ part = "number" \/ (held = Zero /\ known = "Float")
    /\ part = "syntax" \/ source = <<>>
    /\ part = "matrix" \/ matrix = MatrixOfOne
    /\ MatchInit /\ NumberInit /\ Algebra!Init /\ Init

SyntaxStep == part = "syntax" /\ Next /\ UNCHANGED <<part, matchVars, numberVars, matrixVars>>
MatchStep == part = "match" /\ MatchNext /\ UNCHANGED <<part, syntaxVars, numberVars, matrixVars>>
NumberStep == part = "number" /\ NumberNext /\ UNCHANGED <<part, syntaxVars, matchVars, matrixVars>>
MatrixStep == part = "matrix" /\ Algebra!Next /\ UNCHANGED <<part, syntaxVars, matchVars, numberVars>>

TypesSpec ==
    TypesInit /\ [][SyntaxStep \/ MatchStep \/ NumberStep \/ MatrixStep
                  ]_<<part, syntaxVars, matchVars, numberVars, matrixVars>>

-----------------------------------------------------------------------------
\* An annotation that is accepted is read as the type it writes, and all that are
\* written of types are accepted (see TypeTexts).
AnnotationsAreRead == part = "syntax" => TypeOK /\ ReadsWhatIsWritten /\ WrittenTypesAreRead

\* The methods of a matrix answer what linear algebra says, of the type they are
\* declared to answer, and touch no memory but a matrix's (see Matrices).
MatricesAnswerRight == Algebra!MatricesAnswerRight

\* What an operation was done on, and its answer, have no part in what follows.
Read == <<part, syntaxVars, matchVars, held, known, matrix, writes, job, stray>>
=============================================================================
