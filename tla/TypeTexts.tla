----------------------------- MODULE TypeTexts ------------------------------
(***************************************************************************)
(* What parse_type_record should read: the texts of a type.  A type of     *)
(* functions has no text in the middle of a union, nor has a union but at  *)
(* its end.                                                                *)
(***************************************************************************)
EXTENDS TypeSyntax

CONSTANT Written \* types, whose texts are to be read

RECURSIVE Texts(_), Joined(_, _), Fields(_, _)

Joined(types, separator) ==
    CASE Len(types) = 0 -> {<<>>}
      [] Len(types) = 1 -> Texts(types[1])
      [] OTHER -> {x \o <<separator>> \o y :
                       x \in Texts(types[1]), y \in Joined(Tail(types), separator)}

Fields(names, types) ==
    IF names = <<>> THEN {<<>>}
    ELSE {<<names[1], ":">> \o x \o (IF Len(names) > 1 THEN <<",">> ELSE <<>>) \o y :
              x \in Texts(types[1]), y \in Fields(Tail(names), Tail(types))}

Numeral(n) == CHOOSE d \in DOMAIN Numerals : Numerals[d] = n

Texts(t) ==
    CASE t \in {Names[x] : x \in DOMAIN Names} -> {<<x>> : x \in {y \in DOMAIN Names : Names[y] = t}}
      [] t.base = "Vector" ->
             {<<"Vector", "[">> \o (IF IsGeneric(t) THEN <<>> ELSE <<Numeral(t.size[1])>>) \o <<"]">>}
      [] t.base = "Matrix" ->
             {<<"Matrix", "[">> \o (IF IsGeneric(t) THEN <<",">>
                                   ELSE <<Numeral(t.size[1]), ",", Numeral(t.size[2])>>) \o <<"]">>}
      [] t.base \in OfOne \union {"Table", "Tuple"} ->
             {<<t.base, "[">> \o x \o <<"]">> : x \in Joined(t.parts, ",")}
      [] t.base = "Set" -> {<<"Set", "[">> \o x \o <<"]">> : x \in Texts(t.parts[1])}
                           \union (IF t.parts = <<Any>> THEN {<<"Set">>} ELSE {})
      [] t.base = "Shape" -> {<<"Shape", "{">> \o x \o <<"}">> : x \in Fields(t.names, t.parts)}
      [] t.base = "Function" ->
             {<<"(">> \o x \o <<")", "->">> \o y :
                  x \in Joined(SubSeq(t.parts, 1, Len(t.parts) - 1), ","),
                  y \in Texts(t.parts[Len(t.parts)])}
      [] t.base = "Union" ->
             IF \E i \in 1 .. Len(t.parts) - 1 : t.parts[i].base \in {"Union", "Function"}
             THEN {} ELSE Joined(t.parts, "|")
      [] OTHER -> {<<t.base>>}

WrittenTexts == UNION {Texts(t) : t \in Written}

-----------------------------------------------------------------------------
\* What parse_type_record returns is what the tokens it took say: they are a
\* text of that type (src/src/compiler/compiler.c:264).
ReadsWhatIsWritten == status = "done" => SubSeq(source, 1, pos - 1) \in Texts(result)

\* Every type that can be declared can be written: its text is taken, and
\* taken whole (the pipes after it too, src/src/compiler/compiler.c:586).
WrittenTypesAreRead ==
    /\ status = "refused" => source \notin WrittenTexts
    /\ status = "done" /\ source \in WrittenTexts => pos = Len(source) + 1
=============================================================================
