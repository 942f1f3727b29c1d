--------------------------- MODULE MCScanExecutor ---------------------------
(* ScanExecutor on a small instance, without symmetry: liveness is checked. *)
EXTENDS ScanExecutor

CONSTANTS c1, c2, c3
=============================================================================
