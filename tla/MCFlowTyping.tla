---------------------------- MODULE MCFlowTyping ----------------------------
EXTENDS FlowTyping

IntT == Plain("Int")
FloatT == Plain("Float")
NilT == Plain("Nil")

P == Struct("P", <<"a">>, <<IntT>>)
IntToFloat == Of("Function", <<IntT, FloatT>>)
FloatToInt == Of("Function", <<FloatT, IntT>>)

\* a union of three members, and every kind of type with parts or a size
MCAnnotations ==
    [x |-> {Any, IntT, FloatT, Union(IntT, NilT), Union(Of("Array", <<FloatT>>), NilT),
            Of("Option", <<FloatT>>), Of("Tuple", <<IntT, FloatT>>), IntToFloat,
            Sized("Vector", <<2>>), Sized("Vector", <<-1>>), P, Shape(<<"a">>, <<FloatT>>)},
     y |-> {Union(IntT, Union(FloatT, NilT))}]

MCLiterals == {IntT, FloatT, NilT, Plain("String")}

MCValues ==
    {NilT, IntT, FloatT, Plain("String"), Of("Array", <<>>), Of("Array", <<IntT, IntT>>),
     Of("Option", <<IntT>>), Of("Tuple", <<IntT, FloatT>>), IntToFloat, FloatToInt,
     Sized("Vector", <<2>>), Sized("Vector", <<3>>), P}

Declarable == MCAnnotations.x \union MCAnnotations.y

PartsOf(S) == UNION {{t.parts[i] : i \in DOMAIN t.parts} : t \in S}

\* their parts, what is left when they are stripped, and what expressions give
MCTypeRecords ==
    Declarable \union PartsOf(Declarable) \union PartsOf(PartsOf(Declarable)) \union MCLiterals
    \union {Plain("Bool"), Any, Unknown, FloatToInt, Sized("Vector", <<3>>)}
    \union {Of(b, <<t>>) : b \in {"Array", "Option"}, t \in {IntT, Any}}

\* a type without parts has rank 0
MCRank[t \in MCTypeRecords] ==
    IF t.parts = <<>> THEN 0 ELSE 1 + Sq!Max({MCRank[t.parts[i]] : i \in DOMAIN t.parts})
=============================================================================
