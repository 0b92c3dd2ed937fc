-------------------------- MODULE MCAdaptiveChunk ---------------------------
(***************************************************************************)
(* Instances of AdaptiveChunk for TLC.                                     *)
(***************************************************************************)
EXTENDS AdaptiveChunk

MCStarts == {0, 7, 60, 400}
MCCosts == {200, 1000, 1700, 12000}
=============================================================================
