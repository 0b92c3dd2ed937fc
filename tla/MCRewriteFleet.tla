--------------------------- MODULE MCRewriteFleet ---------------------------
(* Instances of RewriteFleet for TLC. *)
EXTENDS RewriteFleetProps, TLC

CONSTANTS m1, m2

MCMigrators == {m1, m2}
MCSymmetry == Permutations(MCMigrators)

\* An attempt's own variables count only while a step or a property reads them
\* before the attempt, or the next one, sets them again.
MCView ==
  <<data, objects, pc, clock, writes, faulted,
    [m \in Migrators |->
       IF pc[m] \in {"backfill", "upsert", "delete", "clear"} THEN todo[m] ELSE {}],
    [m \in Migrators |-> IF pc[m] \in {"delete", "clear"} THEN batch[m] ELSE {}],
    [m \in Migrators |-> IF pc[m] \in Steps THEN raced[m] ELSE {}],
    {m \in overtaken : pc[m] \in Mirroring}>>
=============================================================================
