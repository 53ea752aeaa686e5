------------------------------ MODULE CatalogMC ------------------------------
(***************************************************************************)
(* A small catalogue: two keys of one endpoint, two patterns, one bound to *)
(* each key at first.                                                      *)
(***************************************************************************)
EXTENDS Catalog, TLC

Alphabet == {1, 2}
Keys == {"k1", "k2"}
Same == [k \in Keys |-> "endpoint"]
Lists == "endpoint" :> Alphabet
Bound == {[pattern |-> 1, account |-> "k1"], [pattern |-> 2, account |-> "k2"]}
=============================================================================
