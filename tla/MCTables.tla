------------------------------ MODULE MCTables ------------------------------
(***************************************************************************)
(* The two hash tables, one at a time: part says which of them a behaviour *)
(* is about, and the other stays empty.                                    *)
(*                                                                         *)
(* The string table: k1 and k2 are two string objects with the same text,  *)
(* all three texts hash near the end of an 8-slot array so that probes     *)
(* collide and wrap round, and the bound lets the array grow twice (0, 4,  *)
(* 8).  The object table: one and oneFloat are keys it does not tell       *)
(* apart, the hashes of others are equal or collide, and it grows once.    *)
(***************************************************************************)
EXTENDS StringTable, ObjectTable, TLC

CONSTANTS k1, k2, k3, k4, nil, true, null

MCKeys == {k1, k2, k3, k4}
MCTexts == {"a", "b", "c"}
MCTextOf == (k1 :> "a") @@ (k2 :> "a") @@ (k3 :> "b") @@ (k4 :> "c")
MCHashOf == [t \in MCTexts |-> IF t = "c" THEN 6 ELSE 7]
MCValues == {nil, true}

-----------------------------------------------------------------------------
CONSTANTS one, oneFloat, two, abc, xyz, false

MCKeyValues == {one, oneFloat, two, abc, xyz}
MCNames == {"1", "2", "abc", "xyz"}
MCNameOf == (one :> "1") @@ (oneFloat :> "1") @@ (two :> "2") @@ (abc :> "abc") @@ (xyz :> "xyz")
MCHashValue == ("1" :> 0) @@ ("2" :> 0) @@ ("abc" :> 6) @@ ("xyz" :> 7)
MCObjectValues == {nil, false}

CONSTANT Truncated \* does the object table grow to a capacity that find_entry takes for 0?

MCCapacityBits == IF Truncated THEN 3 ELSE 4

-----------------------------------------------------------------------------
VARIABLE part

stringVars == <<entries, capacity, count, pc, pending, dest, scan, ok, out>>

TablesInit == part \in {"string", "object"} /\ Init /\ ObjectInit

StringStep == part = "string" /\ Next /\ UNCHANGED <<part, objectVars>>
ObjectStep == part = "object" /\ ObjectNext /\ UNCHANGED <<part, stringVars>>

TablesSpec == /\ TablesInit
              /\ [][StringStep \/ ObjectStep]_<<part, stringVars, objectVars>>
              /\ Fairness
=============================================================================
