------------------------------ MODULE MCCatalog ------------------------------
(* Small instances of Catalog. *)
EXTENDS Catalog, TLC

Symmetry == Permutations(Requests) \union Permutations(Fills) \union Permutations(Titles)
=============================================================================
