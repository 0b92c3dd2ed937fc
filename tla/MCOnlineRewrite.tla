-------------------------- MODULE MCOnlineRewrite ---------------------------
(***************************************************************************)
(* Instances of OnlineRewrite for TLC.                                     *)
(***************************************************************************)
EXTENDS OnlineRewriteProps, TLC

\* Writers are interchangeable, payloads too; keys are ordered and are not.
MCWriters == Permutations(Writers)
MCSymmetry == MCWriters \cup Permutations(Vals)
=============================================================================
