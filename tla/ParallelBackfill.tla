-------------------------- MODULE ParallelBackfill --------------------------
(***************************************************************************)
(* parallel_backfill_bigint (orsx/src/migrations/online.rs): the backfill  *)
(* of a BIGINT key split into ranges, one task and one connection each,    *)
(* beside writers whose commits the mirror trigger records.                *)
(*                                                                         *)
(* A 64-bit integer is an element of MinInt..MaxInt with MinInt = -MaxInt  *)
(* - 1: plain `-`, `+` wrap around in a release build and panic when       *)
(* overflow checks are on, saturating_* stop at the ends.                  *)
(***************************************************************************)
EXTENDS RowChanges

CONSTANTS
  MaxInt,         \* i64::MAX
  NumWorkers,     \* parallel_backfill_workers
  ChunkSize,      \* online_chunk_size
  PoolSize,       \* connections of the pool
  OverflowChecks, \* built with overflow checks (the debug profile)
  NoKey,          \* no cursor yet (last = None)
  MaxRows,        \* bound: rows of the table at the start
  MaxWrites       \* bound: commits beside the backfill

MinInt == -MaxInt - 1

ASSUME IntAssumption == MaxInt \in Nat /\ Keys \subseteq MinInt..MaxInt
ASSUME NoKeyAssumption == NoKey \notin Int
ASSUME SizeAssumption == /\ NumWorkers \in Nat /\ ChunkSize \in Int
                         /\ PoolSize \in Nat \ {0} /\ OverflowChecks \in BOOLEAN
                         /\ MaxRows \in Nat /\ MaxWrites \in Nat

VARIABLES
  source,    \* committed rows of the original table
  shadow,    \* committed rows of the shadow table
  changelog, \* keys the trigger has recorded
  pc,        \* where the function is
  minPk,     \* MIN(pk), once measured
  maxPk,     \* MAX(pk), once measured
  lo, hi,    \* per range: its first and last key
  task,      \* per range: what its task does
  last,      \* per range: the task's cursor
  free,      \* idle connections of the pool
  writes     \* commits so far (bounded by MaxWrites)

tables == <<source, shadow, changelog>>
vars == <<tables, pc, minPk, maxPk, lo, hi, task, last, free, writes>>

-----------------------------------------------------------------------------
(* Machine arithmetic. *)

Wrap(n) == ((n - MinInt) % (MaxInt - MinInt + 1)) + MinInt

Sat(n) == IF n > MaxInt THEN MaxInt ELSE IF n < MinInt THEN MinInt ELSE n

Fits(n) == n \in MinInt..MaxInt

\* `/` truncates towards zero.
Quot(a, b) == IF a >= 0 THEN a \div b ELSE -((-a) \div b)

-----------------------------------------------------------------------------
(* The partition of minPk..maxPk. *)

workers == IF NumWorkers < 1 THEN 1 ELSE IF NumWorkers > 64 THEN 64 ELSE NumWorkers

Tasks == 0..(workers - 1)

Span == Sat(Wrap(maxPk - minPk) + 1)

\* MUTANT of Step: rounded down.
StepDown == Quot(Span, workers)

Step == Quot(Wrap(Wrap(Span + workers) - 1), workers)

\* The three plain operations that may overflow.
Overflows == \/ ~Fits(maxPk - minPk)
             \/ ~Fits(Span + workers)
             \/ ~Fits(Span + workers - 1)

\* Tiny tables take the sequential loop, which has no bounds: task 0's range is
\* everything, the others' are empty.
Sequential == workers <= 1 \/ minPk >= maxPk

Lo(i) == IF Sequential THEN (IF i = 0 THEN MinInt ELSE MaxInt) ELSE Sat(minPk + Sat(Step * i))

\* MUTANT of Hi: the next range's first key.
HiNext(i) ==
  IF Sequential THEN (IF i = 0 THEN MaxInt ELSE MinInt)
  ELSE LET end == Sat(Lo(i) + Step) IN IF end > maxPk THEN maxPk ELSE end

Hi(i) ==
  IF Sequential THEN (IF i = 0 THEN MaxInt ELSE MinInt)
  ELSE LET end == Sat(Sat(Lo(i) + Step) - 1)
       IN  IF end > maxPk THEN maxPk ELSE end

Spawned == {i \in Tasks : Lo(i) <= Hi(i)}

InRange(i, k) == lo[i] <= k /\ k <= hi[i]

-----------------------------------------------------------------------------
Init ==
  /\ source \in Table /\ Cardinality(Present(source)) <= MaxRows
  /\ shadow = [k \in Keys |-> NoRow]
  /\ changelog = {}
  /\ pc = "measure"
  /\ minPk = NoKey /\ maxPk = NoKey
  /\ lo = [i \in Tasks |-> 0] /\ hi = [i \in Tasks |-> 0]
  /\ task = [i \in Tasks |-> "none"]
  /\ last = [i \in Tasks |-> NoKey]
  /\ free = PoolSize - 1     \* online_rewrite_table holds one for the phase
  /\ writes = 0

\* The trigger puts the key into the changelog in the writer's transaction.
Commit ==
  /\ writes < MaxWrites
  /\ \E c \in ChangesOn(source) :
        /\ source' = Apply(source, c)
        /\ changelog' = changelog \cup {c.to}
  /\ writes' = writes + 1
  /\ UNCHANGED <<shadow, pc, minPk, maxPk, lo, hi, task, last, free>>

\* SELECT MIN, MAX on a second connection: nothing to do without a row.
MeasureEmpty ==
  /\ pc = "measure"
  /\ free > 0
  /\ Present(source) = {}
  /\ pc' = "joined"
  /\ UNCHANGED <<tables, minPk, maxPk, lo, hi, task, last, free, writes>>

Measure ==
  /\ pc = "measure"
  /\ free > 0
  /\ \E first, end \in Present(source) :
        /\ \A k \in Present(source) : first <= k /\ k <= end
        /\ minPk' = first /\ maxPk' = end
  /\ pc' = "spawn"
  /\ UNCHANGED <<tables, lo, hi, task, last, free, writes>>

Panic == OverflowChecks /\ ~Sequential /\ Overflows

Spawn ==
  /\ pc = "spawn"
  /\ ~Panic
  /\ lo' = [i \in Tasks |-> Lo(i)] /\ hi' = [i \in Tasks |-> Hi(i)]
  /\ task' = [i \in Tasks |-> IF i \in Spawned THEN "acquire" ELSE "done"]
  /\ pc' = "join"
  /\ UNCHANGED <<tables, minPk, maxPk, last, free, writes>>

SpawnPanics ==
  /\ pc = "spawn"
  /\ Panic
  /\ pc' = "failed"
  /\ UNCHANGED <<tables, minPk, maxPk, lo, hi, task, last, free, writes>>

Acquire(i) ==
  /\ pc = "join" /\ task[i] = "acquire"
  /\ free > 0
  /\ free' = free - 1
  /\ task' = [task EXCEPT ![i] = "page"]
  /\ UNCHANGED <<tables, pc, minPk, maxPk, lo, hi, last, writes>>

Unread(i) == {k \in Present(source) :
                 InRange(i, k) /\ (last[i] = NoKey \/ k > last[i])}

chunk == IF ChunkSize < 1 THEN 1 ELSE ChunkSize

\* Copy the next page of the range, ON CONFLICT DO NOTHING.
Page(i) ==
  /\ pc = "join" /\ task[i] = "page"
  /\ LET rest == Unread(i) IN
     \E b \in ChunkEnds(rest, chunk) :
        /\ shadow' = [k \in Keys |-> IF k \in rest /\ k <= b /\ shadow[k] = NoRow
                                     THEN source[k] ELSE shadow[k]]
        /\ last' = [last EXCEPT ![i] = b]
  /\ UNCHANGED <<source, changelog, pc, minPk, maxPk, lo, hi, task, free, writes>>

\* MUTANT of PageEnd: the connection is not given back.
PageEndLeaks(i) ==
  /\ pc = "join" /\ task[i] = "page"
  /\ Unread(i) = {}
  /\ task' = [task EXCEPT ![i] = "done"]
  /\ UNCHANGED <<tables, pc, minPk, maxPk, lo, hi, last, free, writes>>

PageEnd(i) ==
  /\ pc = "join" /\ task[i] = "page"
  /\ Unread(i) = {}
  /\ task' = [task EXCEPT ![i] = "done"]
  /\ free' = free + 1
  /\ UNCHANGED <<tables, pc, minPk, maxPk, lo, hi, last, writes>>

Joined ==
  /\ pc = "join"
  /\ \A i \in Tasks : task[i] = "done"
  /\ pc' = "joined"
  /\ UNCHANGED <<tables, minPk, maxPk, lo, hi, task, last, free, writes>>

\* A failed statement, or a connection that is not had in time.  The first
\* error ends the function; dropping the JoinSet aborts the other tasks.
Fail ==
  /\ \/ pc = "measure"
     \/ pc = "join" /\ \E i \in Tasks : task[i] \in {"acquire", "page"}
  /\ pc' = "failed"
  /\ task' = [i \in Tasks |-> "none"]
  /\ free' = PoolSize - 1
  /\ UNCHANGED <<tables, minPk, maxPk, lo, hi, last, writes>>

Finished ==
  /\ pc \in {"joined", "failed"}
  /\ writes = MaxWrites \/ ChangesOn(source) = {}
  /\ UNCHANGED vars

TaskStep(i) == Acquire(i) \/ Page(i) \/ PageEnd(i)

Next ==
  \/ Commit
  \/ MeasureEmpty \/ Measure \/ Spawn \/ SpawnPanics \/ Joined \/ Fail
  \/ \E i \in Tasks : TaskStep(i)
  \/ Finished

Spec == Init /\ [][Next]_vars

\* The calling task and every spawned one are polled; the pool serves waiting
\* tasks in turn, so none is passed over for ever.
FairSpec ==
  /\ Spec
  /\ WF_vars(MeasureEmpty \/ Measure \/ Spawn \/ SpawnPanics \/ Joined)
  /\ \A i \in Tasks : SF_vars(Acquire(i)) /\ WF_vars(Page(i) \/ PageEnd(i))

-----------------------------------------------------------------------------
(* Properties. *)

\* Types, with the cursor of a task inside the task's range.
TypeOK ==
  /\ source \in Table /\ shadow \in Table /\ changelog \in SUBSET Keys
  /\ pc \in {"measure", "spawn", "join", "joined", "failed"}
  /\ minPk \in Keys \cup {NoKey} /\ maxPk \in Keys \cup {NoKey}
  /\ lo \in [Tasks -> MinInt..MaxInt] /\ hi \in [Tasks -> MinInt..MaxInt]
  /\ task \in [Tasks -> {"none", "acquire", "page", "done"}]
  /\ last \in [Tasks -> Keys \cup {NoKey}]
  /\ \A i \in Tasks : last[i] # NoKey => InRange(i, last[i])
  /\ free \in 0..(PoolSize - 1) /\ writes \in 0..MaxWrites

\* Nothing the arithmetic computes for these extremes leaves the 64 bits, nor
\* does the end of the last range, one past MAX(pk) before the subtraction.
InBounds == /\ ~Overflows
            /\ \A i \in Tasks : Fits(minPk + Step * i + Step)

\* Within those bounds each key between the measured extremes is the business
\* of exactly one task: none is skipped and none is paged twice.
RangesPartition ==
  pc = "join" /\ ~Sequential /\ InBounds =>
    \A k \in minPk..maxPk :
       \E i \in Spawned : /\ InRange(i, k)
                         /\ \A j \in Spawned : InRange(j, k) => j = i

\* When every task has ended, whatever the writers did meanwhile, a row of the
\* shadow that is not the source's row is recorded for the catch-up.
CopiedOrRecorded ==
  pc = "joined" /\ (minPk # NoKey /\ ~Sequential => InBounds) =>
    \A k \in Keys : shadow[k] # source[k] => k \in changelog

\* Between pages too, a key a task has passed is copied or recorded.
PassedRecorded ==
  \A i \in Tasks : pc = "join" /\ task[i] \in {"page", "done"} =>
    \A k \in Keys \ Unread(i) : InRange(i, k) /\ shadow[k] # source[k] =>
       k \in changelog

\* A row of the shadow is the source's, or its key is recorded.
ShadowRecorded ==
  \A k \in Keys : shadow[k] # NoRow /\ shadow[k] # source[k] => k \in changelog

\* A row missing in the shadow is recorded once the cursor of its range has
\* passed it, and in the whole range once the task is done.
MissingRecorded ==
  \A i \in Tasks : \A k \in Keys :
    InRange(i, k) /\ shadow[k] = NoRow /\ source[k] # NoRow /\ pc \in {"join", "joined"} =>
      /\ last[i] # NoKey /\ k <= last[i] => k \in changelog
      /\ task[i] = "done" => k \in changelog

\* Rows that appeared outside the measured extremes are recorded: those before
\* the measurement are all inside.
OutsideRecorded ==
  pc \in {"spawn", "join", "joined"} =>
    \A k \in Keys : /\ source[k] # NoRow
                    /\ minPk # NoKey => k < minPk \/ k > maxPk
                    => k \in changelog

\* The ranges are those of the measured extremes.
RangesMeasured ==
  /\ pc \in {"measure", "spawn"} =>
       /\ \A k \in Keys : shadow[k] = NoRow
       /\ \A i \in Tasks : last[i] = NoKey /\ task[i] = "none"
  /\ pc = "measure" => minPk = NoKey
  /\ pc \in {"spawn", "join"} => minPk # NoKey
  /\ minPk # NoKey <=> maxPk # NoKey
  /\ minPk # NoKey => minPk <= maxPk
  /\ pc \in {"join", "joined"} /\ minPk # NoKey =>
       /\ lo = [i \in Tasks |-> Lo(i)] /\ hi = [i \in Tasks |-> Hi(i)]
       /\ \A i \in Tasks \ Spawned : task[i] = "done"
  /\ pc = "joined" /\ minPk # NoKey => \A i \in Tasks : task[i] = "done"

\* A connection of the pool is idle or with a task.
Paging == {i \in Tasks : task[i] = "page"}
ConnectionsKept == free + Cardinality(Paging) = PoolSize - 1

\* Why the four properties above hold: the inductive invariant.
BackfillInv ==
  TypeOK /\ ConnectionsKept /\ ShadowRecorded /\ MissingRecorded /\ OutsideRecorded /\ RangesMeasured

\* With one connection left for the tasks, they take turns and all end.
Completes == <>(pc \in {"joined", "failed"})
=============================================================================
