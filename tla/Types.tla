-------------------------------- MODULE Types --------------------------------
(***************************************************************************)
(* Type records, the relations the compiler decides on them                *)
(* (src/src/type_system.c), and what a value of a type is at run time.     *)
(*                                                                         *)
(* A type record is a base and, as the base calls for it: the types of its *)
(* parts (elements; key and value; members of a union; arguments and then  *)
(* result; fields), the names of the fields, dimensions, and the name of a *)
(* struct.  A value has the same form; its parts are values, but those of  *)
(* a function, which are the types it was compiled with.                   *)
(***************************************************************************)
EXTENDS Integers, Sequences

CONSTANTS TypeRecords, \* the records considered, parts and stripped unions too
          Values,      \* the values considered
          Rank         \* of a type: how deep it is nested, see RankAssumption

Record(base, parts, names, size, name) ==
    [base |-> base, parts |-> parts, names |-> names, size |-> size, name |-> name]

Plain(base) == Record(base, <<>>, <<>>, <<>>, "")
Of(base, parts) == Record(base, parts, <<>>, <<>>, "")
Sized(base, size) == Record(base, <<>>, <<>>, size, "")
Struct(name, fields, types) == Record("Struct", types, fields, <<>>, name)
Shape(fields, types) == Record("Shape", types, fields, <<>>, "")

\* parse_type_record: A | B | C is read as A | (B | C)
Union(first, rest) == Of("Union", <<first, rest>>)

Any == Plain("Any")
Unknown == Plain("NULL")   \* no record

\* Tuple, Vector and Matrix without counts or dimensions: -1
IsGeneric(t) == t.size # <<>> /\ \A i \in DOMAIN t.size : t.size[i] = -1

-----------------------------------------------------------------------------
Containers == {"Array", "Table", "Set", "Iterator", "Result", "Option", "Function"}
Pairs == TypeRecords \X TypeRecords

\* of type records a and b, with f[<<x, y>>] for the parts
SameParts(f, a, b) == /\ Len(a.parts) = Len(b.parts)
                      /\ \A i \in DOMAIN a.parts : f[<<a.parts[i], b.parts[i]>>]

\* every part of a is one of b
Covers(f, a, b) == \A i \in DOMAIN a.parts : \E j \in DOMAIN b.parts : f[<<a.parts[i], b.parts[j]>>]

SameFields(f, a, b) == \A i \in DOMAIN a.parts : \E j \in DOMAIN b.parts :
                          a.names[i] = b.names[j] /\ f[<<a.parts[i], b.parts[j]>>]

EqualBy(f, a, b) ==
    /\ Unknown \notin {a, b}
    /\ a.base = b.base
    /\ CASE a.base \in Containers -> SameParts(f, a, b)
         [] a.base = "Tuple" -> IsGeneric(a) \/ IsGeneric(b) \/ SameParts(f, a, b)
         [] a.base \in {"Vector", "Matrix"} -> a.size = b.size
         [] a.base = "Struct" -> a.name = b.name
         [] a.base = "Shape" -> Len(a.parts) = Len(b.parts) /\ SameFields(f, a, b)
         [] a.base = "Union" -> Len(a.parts) = Len(b.parts) /\ Covers(f, a, b)
         [] OTHER -> TRUE

Equals[p \in Pairs] == EqualBy(Equals, p[1], p[2])

\* contravariant in the arguments
FunctionParts(f, expected, got) ==
    /\ Len(expected.parts) = Len(got.parts)
    /\ \A i \in DOMAIN got.parts :
           f[IF i < Len(got.parts) THEN <<got.parts[i], expected.parts[i]>>
                                  ELSE <<expected.parts[i], got.parts[i]>>]

CompatibleBy(f, expected, got) ==
    /\ Unknown \notin {expected, got}
    /\ \/ expected = got
       \/ expected.base = "Any"
       \/ got.base \in {"Never", "Any"}
       \/ got.base = "Union" /\ \A i \in DOMAIN got.parts : f[<<expected, got.parts[i]>>]
       \/ /\ expected.base = "Union" /\ got.base # "Union"
          /\ \E i \in DOMAIN expected.parts : f[<<expected.parts[i], got>>]
       \/ expected.base = "Float" /\ got.base = "Int"
       \/ /\ expected.base = "Shape" /\ got.base \in {"Struct", "Shape"}
          /\ SameFields(f, expected, got)
       \/ /\ expected.base = got.base
          /\ CASE got.base = "Function" -> FunctionParts(f, expected, got)
               [] got.base \in Containers \ {"Function"} -> SameParts(f, expected, got)
               [] got.base = "Tuple" ->
                      IsGeneric(expected) \/ IsGeneric(got) \/ SameParts(f, expected, got)
               [] got.base \in {"Vector", "Matrix"} ->
                      IsGeneric(expected) \/ IsGeneric(got) \/ expected.size = got.size
               [] got.base = "Struct" -> Equals[<<expected, got>>]
               [] got.base \in {"Shape", "Union"} -> FALSE  \* decided above
               [] OTHER -> TRUE

Accepts[p \in Pairs] == CompatibleBy(Accepts, p[1], p[2])

\* As tables: TLC evaluates a recursive function anew at every application, and
\* keeps a table whose definition has no LET.  The arguments are expected, got
Equal == [p \in Pairs |-> Equals[p]]
Compatible == [p \in Pairs |-> Accepts[p]]

\* a union of what is left of the parts of one
UnionOf(parts) == CASE Len(parts) = 0 -> Any
                    [] Len(parts) = 1 -> parts[1]
                    [] OTHER -> Of("Union", parts)

\* the loop of strip_type: the parts it has kept after i
Kept(parts, r) ==
    LET kept[i \in 0 .. Len(parts)] ==
            IF i = 0 THEN <<>>
            ELSE IF Compatible[<<r, parts[i]>>] THEN kept[i - 1]
            ELSE Append(kept[i - 1], parts[i])
    IN  kept

\* strip_type: what is left of t when it is not the type r
Strip(t, r) ==
    IF Unknown \in {t, r} THEN t
    ELSE IF t.base = "Union" THEN UnionOf(Kept(t.parts, r)[Len(t.parts)])
    ELSE IF Compatible[<<r, t>>] THEN Any ELSE t

IsNumeric[t \in TypeRecords] ==
    \/ t.base \in {"Int", "Float"}
    \/ t.base = "Union" /\ \A i \in DOMAIN t.parts : IsNumeric[t.parts[i]]

-----------------------------------------------------------------------------
\* sprint_type_to: what typeof answers for a value.  Of a container that holds
\* something it is the name with the type of the first element
TypeName(v) ==
    CASE v.base \in {"Array", "Result", "Option"} /\ v.parts # <<>> -> v.base \o "[...]"
      [] v.base = "Option" /\ v.parts = <<>> -> "Option[None]"
      [] v.base = "Result" /\ v.parts = <<>> -> "Result[Error]"
      [] v.base \in {"Vector", "Matrix"} -> v.base \o "[...]"
      [] v.base = "Struct" -> v.name \o " instance"
      [] OTHER -> v.base

\* type_from_string: the record for the text of a string literal.  Names of
\* types with parts are recognized by how they begin, and their parts are Any
FromString(text) ==
    CASE text \in {"Int", "Float", "Bool", "Nil", "String"} -> Plain(text)
      [] text \in {"Array", "Array[...]"} -> Of("Array", <<Any>>)
      [] text \in {"Option[...]", "Option[None]"} -> Of("Option", <<Any>>)
      [] text \in {"Result[...]", "Result[Error]"} -> Of("Result", <<Any>>)
      [] text = "Function" -> Of("Function", <<Any>>)
      [] text = "Tuple" -> Sized("Tuple", <<-1>>)
      [] text = "Vector[...]" -> Sized("Vector", <<-1>>)
      [] OTHER -> Any

\* runtime_types_compatible: all that is looked at of a value at run time
MaskCompatible(t, v) == t.base \in {"Any", "Union", v.base}

-----------------------------------------------------------------------------
(***************************************************************************)
(* The reference: the values of a type, by the representation they have.   *)
(* A Float may be held as an Int (TO_DOUBLE).                              *)
(***************************************************************************)
ValuesOf(f, t) == {v \in Values : f[<<v, t>>]}

HasBy(f, v, t) ==
    CASE t.base \in {"Any", "NULL"} -> TRUE
      [] t.base = "Union" -> \E i \in DOMAIN t.parts : f[<<v, t.parts[i]>>]
      [] t.base = "Float" -> v.base \in {"Float", "Int"}
      [] t.base \in {"Array", "Set", "Option", "Result", "Iterator"} ->
             /\ v.base = t.base
             /\ \A i \in DOMAIN v.parts : f[<<v.parts[i], t.parts[1]>>]
      [] t.base = "Tuple" -> v.base = "Tuple" /\ (IsGeneric(t) \/ SameParts(f, v, t))
      [] t.base \in {"Vector", "Matrix"} -> v.base = t.base /\ (IsGeneric(t) \/ v.size = t.size)
      [] t.base = "Struct" -> /\ v.base = "Struct" /\ v.name = t.name /\ v.names = t.names
                              /\ SameParts(f, v, t)
      [] t.base = "Shape" ->
             /\ v.base = "Struct"
             /\ \A i \in DOMAIN t.parts : \E j \in DOMAIN v.parts :
                    v.names[j] = t.names[i] /\ f[<<v.parts[j], t.parts[i]>>]
      [] t.base = "Function" ->
             /\ v.base = "Function"
             /\ Len(v.parts) = Len(t.parts)
             /\ \A i \in 1 .. Len(t.parts) - 1 :
                    ValuesOf(f, t.parts[i]) \subseteq ValuesOf(f, v.parts[i])
             /\ ValuesOf(f, v.parts[Len(v.parts)]) \subseteq ValuesOf(f, t.parts[Len(t.parts)])
      [] OTHER -> v.base = t.base

IsOf[p \in Values \X TypeRecords] == HasBy(IsOf, p[1], p[2])
Has == [p \in Values \X TypeRecords |-> IsOf[p]]

-----------------------------------------------------------------------------
\* Types that say nothing of some part
MentionsAny[t \in TypeRecords] ==
    t = Any \/ t = Unknown \/ IsGeneric(t) \/ \E i \in DOMAIN t.parts : MentionsAny[t.parts[i]]

Vague == {t \in TypeRecords : MentionsAny[t]}

\* an argument that is declared to be Any gets a value of any type
ArgumentsAreTyped ==
    \A t \in TypeRecords : t.base = "Function" =>
        \A i \in 1 .. Len(t.parts) - 1 : t.parts[i] \notin Vague

-----------------------------------------------------------------------------
Scalars == {"Int", "Float", "Bool", "Nil", "String"}

\* Records have the parts their constructors give them, and what strip_type
\* leaves of a type is a type.  A struct is known by its name.
ASSUME TypesAssumption ==
    /\ {Any, Unknown} \subseteq TypeRecords
    /\ \A t \in TypeRecords :
           /\ t.parts \in Seq(TypeRecords)
           /\ t.base \in {"Array", "Set", "Option", "Result", "Iterator"} => Len(t.parts) = 1
           /\ t.base \in {"Function", "Union"} => t.parts # <<>>
           /\ t.base \in {"Vector", "Matrix"} => t.size # <<>>
           /\ t.base = "Union" => \A i \in DOMAIN t.parts : t.parts[i] # Unknown
           /\ t.base = "Any" => t = Any
           /\ t.base = "NULL" => t = Unknown
           /\ \A r \in TypeRecords : Strip(t, r) \in TypeRecords
    /\ \A t \in TypeRecords, u \in TypeRecords :
           t.base = "Struct" /\ u.base = "Struct" /\ t.name = u.name => t = u

ASSUME ValuesAssumption ==
    \A v \in Values :
        /\ v.base \notin {"Any", "NULL", "Never", "Union", "Shape"}
        /\ IF v.base = "Function" THEN v.parts \in Seq(TypeRecords) \ {<<>>}
                                  ELSE v.parts \in Seq(Values)
        /\ TypeName(v) \in Scalars => v.base = TypeName(v)

\* A type is deeper than its parts.  Which functions a type has is a matter of
\* the values of their arguments: those take and give no functions
ASSUME RankAssumption ==
    /\ Rank \in [TypeRecords -> Nat]
    /\ \A t \in TypeRecords : \A i \in DOMAIN t.parts : Rank[t.parts[i]] < Rank[t]
    /\ \A v \in Values, t \in TypeRecords :
           v.base = "Function" /\ t.base = "Function" =>
               \A i \in DOMAIN v.parts : Rank[v.parts[i]] < Rank[t]
=============================================================================
