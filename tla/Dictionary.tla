----------------------------- MODULE Dictionary -----------------------------
(***************************************************************************)
(* What a hash table of the interpreter promises, whatever its layout: a   *)
(* partial map from names to cells.  A cell is the key object that was     *)
(* stored last under that name and the value stored with it: two key       *)
(* objects with the same text are the same name, and storing through the   *)
(* second replaces the pointer to the first.                               *)
(*                                                                         *)
(* `ok' is the boolean the last call returned and `out' what it handed     *)
(* back besides (the value of a get, the key object of a find, Nothing     *)
(* when there is none).                                                    *)
(***************************************************************************)
CONSTANTS Keys,      \* the key objects
          Values,    \* what can be stored under a key
          Names,     \* what the table tells keys apart by
          NameOf,    \* [Keys -> Names]
          PutTellsNew, \* does a put answer whether the name was new, or just TRUE?
          Nothing    \* NULL, and the absence of a cell: no key, no value

VARIABLES dict, ok, out

vars == <<dict, ok, out>>

Cell == [key : Keys, value : Values]

Has(n) == dict[n] # Nothing

Init == /\ dict = [n \in Names |-> Nothing]
        /\ ok = FALSE
        /\ out = Nothing

Put(k, v) == /\ dict' = [dict EXCEPT ![NameOf[k]] = [key |-> k, value |-> v]]
             /\ ok' = (PutTellsNew => ~Has(NameOf[k]))
             /\ out' = Nothing

Remove(n) == /\ dict' = [dict EXCEPT ![n] = Nothing]
             /\ ok' = Has(n)
             /\ out' = Nothing

Get(n) == /\ ok' = Has(n)
          /\ out' = IF Has(n) THEN dict[n].value ELSE Nothing
          /\ UNCHANGED dict

FindKey(n) == /\ ok' = Has(n)
              /\ out' = IF Has(n) THEN dict[n].key ELSE Nothing
              /\ UNCHANGED dict

\* the owner of the keys withdraws some of them, answering nobody
Withdraw(ks) ==
    /\ dict' = [n \in Names |-> IF Has(n) /\ dict[n].key \in ks
                                THEN Nothing ELSE dict[n]]
    /\ UNCHANGED <<ok, out>>

Next == \/ \E k \in Keys, v \in Values : Put(k, v)
        \/ \E n \in Names : Remove(n) \/ Get(n) \/ FindKey(n)
        \/ \E ks \in SUBSET Keys : Withdraw(ks)

Spec == Init /\ [][Next]_vars
=============================================================================
