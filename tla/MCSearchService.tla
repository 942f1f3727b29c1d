-------------------------- MODULE MCSearchService --------------------------
(* SearchService on a small instance.                                       *)
EXTENDS SearchService, TLC

Symmetry == Permutations(Requests)
=============================================================================
