--------------------------- MODULE AdaptiveChunk ----------------------------
(***************************************************************************)
(* AdaptiveChunk (orsx/src/migrations/online.rs): the size of the catch-up *)
(* chunks, scaled after each batch towards a target time.  The database is *)
(* a cost per row that holds for a spell and then changes.  The catch-up   *)
(* always finds a full chunk.                                              *)
(***************************************************************************)
EXTENDS Integers

CONSTANTS
  Enabled,    \* adaptive_chunk
  MinCfg,     \* online_chunk_size_min
  MaxCfg,     \* online_chunk_size_max
  TargetCfg,  \* online_target_batch_ms
  MaxMsCfg,   \* online_max_batch_ms
  Starts,     \* values of online_chunk_size
  Costs,      \* microseconds per row
  MaxSpells   \* bound: changes of the cost

ASSUME CfgAssumption ==
  /\ Enabled \in BOOLEAN
  /\ MinCfg \in Nat \ {0} /\ MaxCfg \in Nat \ {0}   \* from_cfg refuses others
  /\ TargetCfg \in Nat /\ MaxMsCfg \in Nat
  /\ Starts \subseteq Int /\ Costs \subseteq Nat /\ MaxSpells \in Nat

VARIABLES
  size,   \* chunk_size of catch_up_best_effort
  ms,     \* batch_ms: what the last batch took
  cost,   \* what a row costs now
  spells  \* changes of the cost so far

chunkVars == <<size, ms, cost, spells>>

Least(a, b) == IF a <= b THEN a ELSE b
Most(a, b) == IF a >= b THEN a ELSE b

\* from_cfg: bounds given the wrong way round are exchanged.
minSize == Least(MinCfg, MaxCfg)
maxSize == Most(MinCfg, MaxCfg)
targetMs == Most(TargetCfg, 1)
maxMs == Most(MaxMsCfg, targetMs)

\* MUTANT of Clamp: no lower bound.
ClampTop(n) == Least(maxSize, n)

Clamp(n) == Least(maxSize, Most(minSize, n))

\* The deadband around the target.
Band == (targetMs * 85) \div 100 .. (targetMs * 115) \div 100

\* At most a third less, at most half as much again.
StepLimit(cur, next) ==
  IF next < (cur * 2) \div 3 THEN Most((cur * 2) \div 3, 1)
  ELSE IF next > (cur * 3) \div 2 THEN Most((cur * 3) \div 2, 1)
  ELSE next

\* MUTANT of Adjusted: the proportion upside down.
AdjustedInverse(cur, t) ==
  IF t >= maxMs THEN Clamp(Most(cur \div 2, 1))
  ELSE IF t \in Band THEN cur
  ELSE Clamp(StepLimit(cur, Most((cur * t) \div targetMs, 1)))

\* MUTANT of Adjusted: the doubling and halving its comment warns of.
AdjustedDoubling(cur, t) ==
  IF t \in Band THEN cur
  ELSE IF t > targetMs THEN Clamp(Most(cur \div 2, 1))
  ELSE Clamp(cur * 2)

\* adjust, after a batch of t >= 1 milliseconds.
Adjusted(cur, t) ==
  IF t >= maxMs THEN Clamp(Most(cur \div 2, 1))
  ELSE IF t \in Band THEN cur
  ELSE Clamp(StepLimit(cur, Most((cur * targetMs) \div t, 1)))

\* The time of a batch: as_millis truncates, adjust takes 0 for 1.
BatchMs == Most((size * cost) \div 1000, 1)

ChunkInit ==
  /\ \E start \in Starts : size = Clamp(start)
  /\ ms = 0     \* no batch yet
  /\ cost \in Costs
  /\ spells = 0

Batch ==
  /\ ms' = BatchMs
  /\ size' = IF Enabled THEN Adjusted(Clamp(size), BatchMs) ELSE size
  /\ UNCHANGED <<cost, spells>>

NewSpell ==
  /\ spells < MaxSpells
  /\ cost' \in Costs \ {cost}
  /\ spells' = spells + 1
  /\ UNCHANGED <<size, ms>>

ChunkNext == Batch \/ NewSpell

ChunkSpec == ChunkInit /\ [][ChunkNext]_chunkVars /\ WF_chunkVars(Batch)

-----------------------------------------------------------------------------
(* Properties. *)

ChunkTypeOK ==
  size \in minSize..maxSize /\ ms \in Nat /\ cost \in Costs /\ spells \in 0..MaxSpells

\* Each batch moves the size towards the target or not at all: a batch that
\* was too slow is never followed by a larger one, one that was too fast never
\* by a smaller one.
RightDirection ==
  [][Batch => /\ ms' > targetMs => size' <= size
              /\ ms' < targetMs => size' >= size]_chunkVars

\* The batch took about the target time, or the size is at the bound nearest
\* to the target.
OnTarget == \/ ms \in Band
            \/ size = maxSize /\ ms < targetMs
            \/ size = minSize /\ ms > targetMs

\* "This converges smoothly by scaling towards target_ms"
\* (orsx/src/migrations/online.rs:93): once the cost has stopped changing the
\* batches reach the target, and stay there.  (The Costs of a run are such that
\* one row more does not jump over the whole deadband.)
Settles == <>[]OnTarget
=============================================================================
