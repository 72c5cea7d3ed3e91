----------------------------- MODULE MCCatalog -----------------------------
(* Requests and categories are interchangeable: Next quantifies over them and *)
(* chooses none.                                                             *)
EXTENDS Catalog, TLC

Symmetry == Permutations(Requests) \cup Permutations(Categories)
=============================================================================
