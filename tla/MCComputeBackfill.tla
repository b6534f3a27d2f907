------------------------- MODULE MCComputeBackfill -------------------------
(* A small instance of ComputeBackfill.                                      *)
EXTENDS ComputeBackfill, TLC

CONSTANTS x, y, z
Interchangeable == Permutations(Rows)
=============================================================================
