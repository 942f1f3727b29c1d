--------------------------- MODULE MCCursorStore ---------------------------
(* CursorStore on a small instance: requests and queries are symmetric.     *)
EXTENDS CursorStore, TLC

Symmetry == Permutations(Requests) \cup Permutations(Queries)


=============================================================================
