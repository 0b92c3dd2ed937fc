------------------------- MODULE MCParallelBackfill -------------------------
(***************************************************************************)
(* Instances of ParallelBackfill for TLC: 4-bit keys instead of 64-bit.    *)
(***************************************************************************)
EXTENDS ParallelBackfill

\* Keys at both ends, around zero, and on both sides of a range's end.
MCKeys == {-8, -2, -1, 0, 1, 5, 6, 7}
=============================================================================
