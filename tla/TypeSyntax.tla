----------------------------- MODULE TypeSyntax -----------------------------
(***************************************************************************)
(* Reading the annotations of a program: parse_type_record                 *)
(* (src/src/compiler/compiler.c), a call of which reads one type and calls *)
(* itself for the types in it.                                             *)
(*                                                                         *)
(* A frame is an open call.  Type records are garbage collected objects,   *)
(* and reading a part allocates: what a call holds has to be on the        *)
(* stack of the virtual machine, or in a record that is, meanwhile.  A     *)
(* text that is refused is in no program.                                  *)
(***************************************************************************)
EXTENDS Types, FiniteSets

CONSTANTS Names,  \* the types that identifiers stand for, by identifier
          Sources \* the texts considered, as sequences of tokens

ASSUME NamesAssumption == DOMAIN Names \subseteq STRING

VARIABLES source, \* the text
          pos,    \* the token parser->current is
          frames, \* the open calls, outermost first
          stack,  \* what they have pushed: <<frame, part>>, part 0 for the record
                  \* of a frame, -1 for the name of a field
          result, \* the type the outermost call returned
          status  \* "reading", "done", or "refused"

vars == <<source, pos, frames, stack, result, status>>

Simple == {"Int", "Float", "Bool", "String", "Nil", "Any", "Buffer", "Error", "Range", "Complex",
           "Random", "File"}
\* with one part, or as many as are written
OfOne == {"Array", "Iterator", "Result", "Option"}
Lists == {"Tuple", "Function"}
Hashable == {"String", "Int", "Float", "Nil", "Bool"}
Numerals == [d \in {"0", "2", "3"} |-> CASE d = "0" -> 0 [] d = "2" -> 2 [] d = "3" -> 3]

Frame == [kind |-> "start", parts |-> <<>>, names |-> <<>>]

TokenAt(i) == IF i <= Len(source) THEN source[i] ELSE "EOF"
Token == TokenAt(pos)
Follow(tokens) == \A i \in DOMAIN tokens : TokenAt(pos + i - 1) = tokens[i]

Level == Len(frames)
Top == frames[Level]

Init == /\ source \in Sources
        /\ pos = 1 /\ frames = <<Frame>> /\ stack = <<>>
        /\ result = Unknown /\ status = "reading"

-----------------------------------------------------------------------------
(***************************************************************************)
(* Calls and returns, and what a call protects while it reads a part.      *)
(***************************************************************************)
\* the record or table that parts are stored in as they are read is pushed
KeepsRecord == {"Array", "Table", "Set", "Shape"}

PushesPartsButResults(f) == f.kind \in {"Tuple", "Union", "Shape"}  \* mutant: param_types holds them

\* parts are pushed as they are read
PushesPart(f) == \/ f.kind \in {"Tuple", "Function", "Union", "Shape"}
                 \/ f.kind = "Table" /\ f.parts = <<>>

\* how many a call pops at its end
Pops(f) == CASE f.kind \in {"Array", "Set"} -> 1
             [] f.kind = "Table" -> 2
             [] f.kind = "Shape" -> 2 * Len(f.parts) + 1
             [] f.kind \in {"Tuple", "Function", "Union"} -> Len(f.parts)
             [] OTHER -> 0

Popped == SubSeq(stack, 1, Len(stack) - Pops(Top))

\* Calls itself for a part, n tokens on, in frame f
ReadPart(f, n, pushed) ==
    /\ frames' = Append([frames EXCEPT ![Level] = f], Frame)
    /\ stack' = stack \o pushed
    /\ pos' = pos + n
    /\ UNCHANGED <<source, result, status>>

\* Returns t to the call before
Returns(t, n) ==
    /\ pos' = pos + n
    /\ IF Level = 1
       THEN frames' = <<>> /\ stack' = Popped /\ result' = t /\ status' = "done"
       ELSE LET caller == frames[Level - 1]
            IN  /\ frames' = [SubSeq(frames, 1, Level - 1) EXCEPT ![Level - 1].parts = Append(@, t)]
                /\ stack' = IF PushesPart(caller)
                            THEN Append(Popped, <<Level - 1, Len(caller.parts) + 1>>) ELSE Popped
                /\ UNCHANGED <<result, status>>
    /\ UNCHANGED source

EndsWithoutFirst(t, n) ==  \* mutant: variants[0] is not stored
    IF TokenAt(pos + n) # "|" THEN Returns(t, n)
    ELSE /\ frames' = Append([frames EXCEPT ![Level] = [Frame EXCEPT !.kind = "Union"]], Frame)
         /\ stack' = Popped
         /\ pos' = pos + n + 1
         /\ UNCHANGED <<source, result, status>>

\* The type is read, n tokens on: a '|' after it begins a union
Ends(t, n) ==
    IF TokenAt(pos + n) # "|" THEN Returns(t, n)
    ELSE /\ frames' = Append([frames EXCEPT ![Level] = [Frame EXCEPT !.kind = "Union", !.parts = <<t>>]],
                             Frame)
         /\ stack' = Append(Popped, <<Level, 1>>)
         /\ pos' = pos + n + 1
         /\ UNCHANGED <<source, result, status>>

-----------------------------------------------------------------------------
Reading == status = "reading"
Starts == Reading /\ Top.kind = "start"
Inside(kinds) == Reading /\ Top.kind \in kinds

\* A type of one token; an identifier; a Set without brackets
ReadSimple == /\ Starts
              /\ \/ Token \in Simple /\ Ends(Plain(Token), 1)
                 \/ Token \in DOMAIN Names /\ Ends(Names[Token], 1)
                 \/ Token = "Set" /\ TokenAt(pos + 1) # "[" /\ Ends(Of("Set", <<Any>>), 1)

\* Vector[n]; Vector[] returns without a look at what follows
ReadVector == /\ Starts
              /\ Follow(<<"Vector", "[">>)
              /\ \/ TokenAt(pos + 2) = "]" /\ Returns(Sized("Vector", <<-1>>), 3)
                 \/ /\ TokenAt(pos + 2) \in DOMAIN Numerals /\ TokenAt(pos + 3) = "]"
                    /\ Ends(Sized("Vector", <<Numerals[TokenAt(pos + 2)]>>), 4)

\* Matrix[,] returns in the same way; after the ',' of Matrix[n, the number of
\* columns is taken from that ',' (strtol: 0), and a ']' is expected
ReadMatrix == /\ Starts
              /\ Follow(<<"Matrix", "[">>)
              /\ \/ /\ TokenAt(pos + 2) = "," /\ TokenAt(pos + 3) = "]"
                    /\ Returns(Sized("Matrix", <<-1, -1>>), 4)
                 \/ /\ TokenAt(pos + 2) \in DOMAIN Numerals
                    /\ TokenAt(pos + 3) = "," /\ TokenAt(pos + 4) = "]"
                    /\ Ends(Sized("Matrix", <<Numerals[TokenAt(pos + 2)], 0>>), 5)

\* What opens a type with parts, and the tokens it has before the first
Opens(kind) == CASE kind = "Function" -> <<"(">>
                 [] kind = "Shape" -> <<"Shape", "{">>
                 [] OTHER -> <<kind, "[">>
Closes(kind) == CASE kind = "Function" -> ")" [] kind = "Shape" -> "}" [] OTHER -> "]"

Name == <<<<Level, -1>>>>

\* In a shape a name and a ':' come before each part
Field(n) == TokenAt(pos + n) \in {"a", "b"} /\ TokenAt(pos + n + 1) = ":"

OpenParts == \E kind \in OfOne \union Lists \union {"Table", "Set", "Shape"} :
    LET n == Len(Opens(kind))
        own == IF kind \in KeepsRecord THEN <<<<Level, 0>>>> ELSE <<>>
        f == [Frame EXCEPT !.kind = kind]
    IN  /\ Starts
        /\ Follow(Opens(kind))
        /\ CASE kind \in Lists /\ TokenAt(pos + n) = Closes(kind) ->
                   IF kind = "Tuple" THEN Ends(Of("Tuple", <<>>), n + 1)
                   ELSE /\ TokenAt(pos + n + 1) = "->"
                        /\ ReadPart([f EXCEPT !.names = <<"->">>], n + 2, own)
             [] kind = "Shape" ->
                   \/ TokenAt(pos + n) = "}" /\ Ends(Shape(<<>>, <<>>), n + 1)
                   \/ Field(n) /\ ReadPart([f EXCEPT !.names = <<TokenAt(pos + n)>>], n + 2, own \o Name)
             [] OTHER -> ReadPart(f, n, own)

\* is_valid_table_key_type
ValidKey(t) == t.base \in Hashable \union {"Any"}

NextPart ==
    \/ /\ Inside({"Table"}) /\ Len(Top.parts) = 1 /\ Token = "," /\ ValidKey(Top.parts[1])
       /\ ReadPart(Top, 1, <<>>)
    \/ /\ Inside({"Tuple"}) /\ Token = "," /\ ReadPart(Top, 1, <<>>)
    \/ /\ Inside({"Function"}) /\ Top.names = <<>>
       /\ \/ Token = "," /\ ReadPart(Top, 1, <<>>)
          \/ /\ Follow(<<")", "->">>)
             /\ ReadPart([Top EXCEPT !.names = <<"->">>], 2, <<>>)
    \/ /\ Inside({"Shape"}) /\ Token = "," /\ Field(1)
       /\ ReadPart([Top EXCEPT !.names = Append(@, TokenAt(pos + 1))], 3, Name)
    \/ /\ Inside({"Union"}) /\ Token = "|" /\ ReadPart(Top, 1, <<>>)

\* All parts are read
CloseParts ==
    \/ /\ Inside(OfOne \union {"Set", "Tuple"}) /\ Top.parts # <<>> /\ Token = "]"
       /\ Ends(Of(Top.kind, Top.parts), 1)
    \/ /\ Inside({"Table"}) /\ Len(Top.parts) = 2 /\ Token = "]"
       /\ Ends(Of("Table", Top.parts), 1)
    \/ /\ Inside({"Shape"}) /\ Top.parts # <<>> /\ Token = "}"
       /\ Ends(Shape(Top.names, Top.parts), 1)
    \/ /\ Inside({"Function"}) /\ Top.names # <<>>
       /\ Ends(Of("Function", Top.parts), 0)
    \/ /\ Inside({"Union"}) /\ Token # "|"
       /\ Returns(Of("Union", Top.parts), 0)

Reads == ReadSimple \/ ReadVector \/ ReadMatrix \/ OpenParts \/ NextPart \/ CloseParts

\* compiler_panic
Refuse == /\ Reading
          /\ ~ ENABLED Reads
          /\ status' = "refused"
          /\ UNCHANGED <<source, pos, frames, stack, result>>

Next == Reads \/ Refuse

Spec == Init /\ [][Next]_vars

-----------------------------------------------------------------------------
\* The type invariant; what is on the stack belongs to open calls.
TypeOK ==
    /\ source \in Sources /\ pos \in 1 .. Len(source) + 1
    /\ \A i \in DOMAIN stack : stack[i][1] \in DOMAIN frames
    /\ status \in {"reading", "done", "refused"}
    /\ status = "done" <=> result # Unknown
    /\ status = "done" <=> frames = <<>>

\* While a call reads a part, which allocates, the parts it has read already
\* are on the stack or in a record that is ("protect inner before array grows",
\* src/src/compiler/compiler.c:501), and what it pushed is popped when it
\* returns: compiling a function leaves the stack of the VM as it was.
PartsAreProtected ==
    /\ \A i \in 1 .. Level - 1 : \A j \in DOMAIN frames[i].parts :
           \E k \in DOMAIN stack :
               \/ stack[k] = <<i, j>>
               \/ stack[k] = <<i, 0>> /\ frames[i].kind \in KeepsRecord
    /\ status = "done" => stack = <<>>
=============================================================================
