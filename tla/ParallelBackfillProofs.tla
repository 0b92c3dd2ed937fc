----------------------- MODULE ParallelBackfillProofs -----------------------
(***************************************************************************)
(* Proofs about ParallelBackfill, for every set of 64-bit keys, every      *)
(* number of workers and every chunk size, beside writers that do not      *)
(* change primary keys: the inductive invariant BackfillInv; that the      *)
(* ranges partition the measured span as long as nothing overflows; and    *)
(* from both that no row is left out.  The arithmetic of segments is also  *)
(* that of the catch-up's chunk sizes, whose proofs are at the end: for    *)
(* every configuration, every start and every cost per row.                *)
(***************************************************************************)
EXTENDS ParallelBackfill, AdaptiveChunk, FiniteSetTheorems, TLAPS

USE IntAssumption, NoKeyAssumption, SizeAssumption

-----------------------------------------------------------------------------
(* Arithmetic. *)

LEMMA Division ==
  ASSUME NEW n \in Nat, NEW d \in Nat, d > 0
  PROVE  /\ n \div d \in Nat
         /\ d * (n \div d) <= n
         /\ n < d * (n \div d) + d
OBVIOUS

LEMMA CancelFactor ==
  ASSUME NEW a \in Nat, a > 0, NEW b \in Int, NEW c \in Int, a * b < a * c
  PROVE  b < c
<1> SUFFICES ASSUME c <= b PROVE FALSE
  OBVIOUS
<1>1. a * c <= a * b
  OBVIOUS
<1> QED
  BY <1>1

LEMMA ProductMonotone ==
  ASSUME NEW a \in Nat, NEW b \in Int, NEW c \in Int, b <= c
  PROVE  a * b \in Int /\ a * c \in Int /\ a * b <= a * c
OBVIOUS

\* A remainder of a number below the divisor is the number.
LEMMA SmallRemainder ==
  ASSUME NEW n \in Nat, NEW d \in Nat, n < d
  PROVE  n % d = n
OBVIOUS

LEMMA WrapType ==
  ASSUME NEW n \in Int
  PROVE  /\ Wrap(n) \in Int
         /\ Fits(n) => Wrap(n) = n
<1> DEFINE d == MaxInt - MinInt + 1
<1>1. d \in Nat /\ d > 0 /\ MinInt \in Int
  BY DEF MinInt
<1>2. (n - MinInt) % d \in Int
  BY <1>1
<1>3. ASSUME Fits(n) PROVE (n - MinInt) % d = n - MinInt
  <2>1. n - MinInt \in Nat /\ n - MinInt < d
    BY <1>1, <1>3 DEF Fits
  <2> HIDE DEF d
  <2> QED
    BY <1>1, <2>1, SmallRemainder
<1> QED
  BY <1>1, <1>2, <1>3 DEF Wrap

LEMMA SatType ==
  ASSUME NEW n \in Int
  PROVE  /\ Sat(n) \in MinInt..MaxInt
         /\ Fits(n) => Sat(n) = n
BY DEF Sat, Fits, MinInt

LEMMA WorkersType == workers \in Nat /\ workers >= 1 /\ workers <= 64
BY DEF workers

LEMMA StepType ==
  ASSUME minPk \in Int, maxPk \in Int
  PROVE  Span \in Int /\ Step \in Int
<1>1. Wrap(maxPk - minPk) \in Int
  BY WrapType
<1>2. Span \in Int
  BY <1>1, SatType DEF Span, MinInt
<1>3. Wrap(Span + workers) \in Int
  BY <1>2, WrapType, WorkersType
<1>4. Wrap(Wrap(Span + workers) - 1) \in Int
  BY <1>3, WrapType
<1> DEFINE a == Wrap(Wrap(Span + workers) - 1)
<1>5. a \div workers \in Int /\ (-a) \div workers \in Int
  <2> HIDE DEF a
  <2>1. a \in Int
    BY <1>4 DEF a
  <2> QED
    BY <2>1, WorkersType
<1> QED
  BY <1>2, <1>5 DEF Step, Quot

LEMMA RangeType ==
  ASSUME minPk \in Keys, maxPk \in Keys, NEW i \in Tasks
  PROVE  Lo(i) \in MinInt..MaxInt /\ Hi(i) \in MinInt..MaxInt
<1>1. minPk \in MinInt..MaxInt /\ maxPk \in MinInt..MaxInt /\ minPk \in Int /\ maxPk \in Int
  BY DEF MinInt
<1>2. Step \in Int /\ i \in Int
  BY <1>1, StepType DEF Tasks
<1>3. Step * i \in Int
  BY <1>2
<1>4. Sat(Step * i) \in Int
  BY <1>3, SatType DEF MinInt
<1>5. Sat(minPk + Sat(Step * i)) \in MinInt..MaxInt
  BY <1>1, <1>4, SatType
<1>6. Lo(i) \in MinInt..MaxInt /\ Lo(i) \in Int
  BY <1>5 DEF Lo, MinInt
<1>7. Sat(Lo(i) + Step) \in Int
  BY <1>2, <1>6, SatType DEF MinInt
<1>8. Sat(Sat(Lo(i) + Step) - 1) \in MinInt..MaxInt
  BY <1>7, SatType
<1> QED
  BY <1>1, <1>6, <1>8 DEF Hi, MinInt

\* Where nothing overflows the steps are those of plain arithmetic.
LEMMA PlainStep ==
  ASSUME minPk \in Keys, maxPk \in Keys, ~Sequential, ~Overflows
  PROVE  /\ Span = maxPk - minPk + 1
         /\ Step \in Nat /\ Step > 0
         /\ Step * workers >= Span
         /\ Step * workers <= Span + workers - 1
         /\ Span + workers - 1 <= MaxInt
<1>1. minPk \in Int /\ maxPk \in Int /\ minPk < maxPk
  BY DEF MinInt, Sequential
<1>2. workers \in Nat /\ workers > 0
  BY WorkersType
<1>3. Fits(maxPk - minPk) /\ Fits(Span + workers) /\ Fits(Span + workers - 1)
  BY DEF Overflows
<1>4. Wrap(maxPk - minPk) = maxPk - minPk
  BY <1>1, <1>3, WrapType
<1>5. Span = Sat(maxPk - minPk + 1)
  BY <1>4 DEF Span
<1>6. Span \in Int
  BY <1>1, StepType
<1>7. Span = maxPk - minPk + 1
  BY <1>1, <1>2, <1>3, <1>5, <1>6 DEF Sat, Fits, MinInt
<1>8. Wrap(Wrap(Span + workers) - 1) = Span + workers - 1
  BY <1>2, <1>3, <1>6, WrapType
<1> DEFINE a == Span + workers - 1
<1>9. a \in Nat /\ a <= MaxInt
  BY <1>1, <1>2, <1>3, <1>7 DEF Fits
<1>10. Step = a \div workers
  BY <1>8, <1>9 DEF Step, Quot
<1>11. Step \in Nat /\ workers * Step <= a /\ a < workers * Step + workers
  BY <1>2, <1>9, <1>10, Division
<1>12. workers * Step = Step * workers /\ Step * workers \in Nat
  BY <1>2, <1>11
<1>13. Step * workers >= Span
  BY <1>2, <1>6, <1>11, <1>12
<1>14. Step > 0
  BY <1>1, <1>2, <1>7, <1>11, <1>13
<1> QED
  BY <1>7, <1>9, <1>11, <1>12, <1>13, <1>14

LEMMA PlainRange ==
  ASSUME minPk \in Keys, maxPk \in Keys, ~Sequential, InBounds, NEW i \in Tasks
  PROVE  /\ Lo(i) = minPk + Step * i /\ Lo(i) \in Int
         /\ Hi(i) = IF Lo(i) + Step - 1 > maxPk THEN maxPk ELSE Lo(i) + Step - 1
<1>1. minPk \in Int /\ maxPk \in Int /\ MinInt <= minPk /\ minPk <= MaxInt /\ MinInt \in Int
  BY DEF MinInt
<1>2. /\ Step \in Nat /\ Step > 0 /\ Step * workers <= Span + workers - 1
      /\ Span + workers - 1 <= MaxInt /\ Span = maxPk - minPk + 1
  BY PlainStep DEF InBounds
<1>3. workers \in Nat /\ i \in Nat /\ i <= workers
  BY WorkersType DEF Tasks
<1>4. Step * i \in Nat /\ Step * workers \in Nat /\ Step * i <= Step * workers
  BY <1>2, <1>3, ProductMonotone
<1>5. Fits(Step * i)
  BY <1>1, <1>2, <1>3, <1>4 DEF Fits, MinInt
<1>6. Sat(Step * i) = Step * i
  BY <1>4, <1>5, SatType
<1>7. Fits(minPk + Step * i + Step)
  BY DEF InBounds
<1>8. Fits(minPk + Step * i)
  BY <1>1, <1>2, <1>4, <1>7 DEF Fits
<1>9. Lo(i) = minPk + Step * i
  BY <1>1, <1>4, <1>6, <1>8, SatType DEF Lo
<1>10. Sat(Lo(i) + Step) = Lo(i) + Step
  BY <1>1, <1>2, <1>4, <1>7, <1>9, SatType
<1>11. Fits(Lo(i) + Step - 1)
  BY <1>1, <1>2, <1>4, <1>7, <1>9 DEF Fits
<1>12. Sat(Sat(Lo(i) + Step) - 1) = Lo(i) + Step - 1
  BY <1>1, <1>2, <1>4, <1>9, <1>10, <1>11, SatType
<1> QED
  BY <1>1, <1>4, <1>9, <1>12 DEF Hi

\* The ranges cover every key of the span, and no key twice.
LEMMA Partition ==
  ASSUME minPk \in Keys, maxPk \in Keys, ~Sequential, InBounds,
         NEW k \in minPk..maxPk
  PROVE  \E i \in Spawned : /\ Lo(i) <= k /\ k <= Hi(i)
                            /\ \A j \in Spawned : Lo(j) <= k /\ k <= Hi(j) => j = i
<1>1. minPk \in Int /\ maxPk \in Int /\ k \in Int /\ minPk <= k /\ k <= maxPk
  BY DEF MinInt
<1>2. /\ Step \in Nat /\ Step > 0 /\ Step * workers >= Span
      /\ Span = maxPk - minPk + 1 /\ workers \in Nat
  BY PlainStep, WorkersType DEF InBounds
<1> DEFINE d == k - minPk
           i == d \div Step
<1>3. d \in Nat /\ d < Span
  BY <1>1, <1>2
<1>4. i \in Nat /\ Step * i <= d /\ d < Step * i + Step
  BY <1>2, <1>3, Division
<1> HIDE DEF i
<1>5. Step * i \in Int /\ Step * workers \in Int
  BY <1>2, <1>4
<1>6. Step * i < Step * workers
  BY <1>2, <1>3, <1>4, <1>5
<1>7. i \in Tasks
  <2>1. i < workers
    BY <1>2, <1>4, <1>6, CancelFactor
  <2> QED
    BY <1>2, <1>4, <2>1 DEF Tasks
<1>8. Lo(i) <= k /\ k <= Hi(i)
  BY <1>1, <1>2, <1>4, <1>5, <1>7, PlainRange
<1>9. i \in Spawned
  <2>1. Lo(i) \in Int /\ Hi(i) \in Int
    BY <1>1, <1>2, <1>7, PlainRange
  <2> QED
    BY <1>1, <1>7, <1>8, <2>1 DEF Spawned
<1>10. ASSUME NEW j \in Spawned, Lo(j) <= k, k <= Hi(j) PROVE j = i
  <2>1. j \in Tasks /\ j \in Nat
    BY DEF Spawned, Tasks
  <2>2. Step * j \in Int /\ Step * (i + 1) = Step * i + Step
        /\ Step * (j + 1) = Step * j + Step
    BY <1>2, <1>4, <2>1
  <2>3. Lo(j) = minPk + Step * j /\ Hi(j) <= Lo(j) + Step - 1
    BY <1>1, <1>2, <2>1, <2>2, PlainRange
  <2>4. Step * j <= d /\ d < Step * j + Step
    BY <1>1, <1>2, <1>10, <2>1, <2>2, <2>3, PlainRange
  <2>5. Step * j < Step * (i + 1) /\ Step * i < Step * (j + 1)
    BY <1>2, <1>3, <1>4, <1>5, <2>2, <2>4
  <2>6. j < i + 1 /\ i < j + 1
    BY <1>2, <1>4, <2>1, <2>5, CancelFactor
  <2> QED
    BY <1>4, <2>1, <2>6
<1> QED
  BY <1>8, <1>9, <1>10

-----------------------------------------------------------------------------
(* The inductive invariant. *)

LEMMA TasksFinite ==
  ASSUME NEW S \in SUBSET Tasks
  PROVE  IsFiniteSet(S) /\ Cardinality(S) \in Nat
<1>1. workers - 1 \in Int
  BY WorkersType
<1>2. IsFiniteSet(0..(workers - 1))
  BY <1>1, FS_Interval
<1>3. IsFiniteSet(S)
  BY <1>2, FS_Subset DEF Tasks
<1> QED
  BY <1>3, FS_CardinalityType

\* A statement that does not change keys changes the row it records.
LEMMA ChangesOneRow ==
  ASSUME "rekey" \notin Ops, NEW t \in Table, NEW c \in ChangesOn(t)
  PROVE  /\ Apply(t, c) \in Table /\ c.to \in Keys
         /\ \A k \in Keys : k # c.to => Apply(t, c)[k] = t[k]
<1>1. c.from = c.to /\ c.to \in Keys /\ c.val \in Vals \cup {NoRow}
  BY DEF ChangesOn, Inserts, Appends, Updates, Deletes, SetRow, Present
<1> QED
  BY <1>1 DEF Apply, Table

LEMMA InitInv == Init => BackfillInv
<1> SUFFICES ASSUME Init PROVE BackfillInv
  OBVIOUS
<1> USE DEF Init
<1>1. TypeOK
  <2>1. /\ lo \in [Tasks -> MinInt..MaxInt] /\ hi \in [Tasks -> MinInt..MaxInt]
        /\ free \in 0..(PoolSize - 1) /\ writes \in 0..MaxWrites
    BY DEF MinInt
  <2>2. shadow \in Table
    BY DEF Table
  <2>3. \A i \in Tasks : last[i] = NoKey
    OBVIOUS
  <2> QED
    BY <2>1, <2>2, <2>3 DEF TypeOK
<1>2. ConnectionsKept
  <2>1. Paging = {}
    BY DEF Paging
  <2> QED
    BY <2>1, FS_EmptySet DEF ConnectionsKept
<1>3. ShadowRecorded /\ MissingRecorded /\ OutsideRecorded
  BY DEF ShadowRecorded, MissingRecorded, OutsideRecorded
<1>4. RangesMeasured
  BY DEF RangesMeasured
<1> QED
  BY <1>1, <1>2, <1>3, <1>4 DEF BackfillInv

LEMMA CommitInv == ASSUME "rekey" \notin Ops, BackfillInv, Commit PROVE BackfillInv'
<1> USE DEF BackfillInv
<1>1. PICK c \in ChangesOn(source) : /\ source' = Apply(source, c)
                                     /\ changelog' = changelog \cup {c.to}
  BY DEF Commit
<1>2. /\ shadow' = shadow /\ pc' = pc /\ minPk' = minPk /\ maxPk' = maxPk
      /\ lo' = lo /\ hi' = hi /\ task' = task /\ last' = last /\ free' = free
  BY DEF Commit
<1>3. writes' \in 0..MaxWrites
  BY DEF Commit, TypeOK
<1>4. /\ source' \in Table /\ changelog' \in SUBSET Keys
      /\ \A k \in Keys : source'[k] # source[k] => k \in changelog'
      /\ changelog \subseteq changelog'
  BY <1>1, ChangesOneRow DEF TypeOK
<1>5. TypeOK'
  BY <1>2, <1>3, <1>4 DEF TypeOK, InRange
<1>6. ConnectionsKept'
  BY <1>2 DEF ConnectionsKept, Paging
<1>7. ShadowRecorded'
  BY <1>2, <1>4 DEF ShadowRecorded
<1>8. MissingRecorded'
  BY <1>2, <1>4 DEF MissingRecorded, InRange
<1>9. OutsideRecorded'
  BY <1>2, <1>4 DEF OutsideRecorded
<1>10. RangesMeasured'
  BY <1>2 DEF RangesMeasured, Lo, Hi, Spawned, Sequential, Step, Span
<1> QED
  BY <1>5, <1>6, <1>7, <1>8, <1>9, <1>10

LEMMA MeasureInv == ASSUME BackfillInv, Measure \/ MeasureEmpty PROVE BackfillInv'
<1> USE DEF BackfillInv
<1>1. /\ source' = source /\ shadow' = shadow /\ changelog' = changelog
      /\ lo' = lo /\ hi' = hi /\ task' = task /\ last' = last /\ free' = free
      /\ writes' = writes /\ pc = "measure"
  BY DEF Measure, MeasureEmpty, tables
<1>2. /\ \A k \in Keys : shadow[k] = NoRow
      /\ \A i \in Tasks : last[i] = NoKey
      /\ minPk = NoKey /\ maxPk = NoKey
  BY <1>1 DEF RangesMeasured
<1>3. ConnectionsKept' /\ ShadowRecorded'
  BY <1>1 DEF ConnectionsKept, Paging, ShadowRecorded
<1>4. CASE MeasureEmpty
  <2>1. /\ pc' = "joined" /\ minPk' = NoKey /\ maxPk' = NoKey
        /\ \A k \in Keys : source[k] = NoRow
    BY <1>2, <1>4 DEF MeasureEmpty, Present
  <2>2. TypeOK'
    BY <1>1, <1>2, <2>1 DEF TypeOK
  <2>3. MissingRecorded' /\ OutsideRecorded'
    BY <1>1, <2>1 DEF MissingRecorded, OutsideRecorded
  <2>4. RangesMeasured'
    BY <1>1, <2>1 DEF RangesMeasured
  <2> QED
    BY <1>3, <2>2, <2>3, <2>4
<1>5. CASE Measure
  <2>1. /\ pc' = "spawn" /\ minPk' \in Keys /\ maxPk' \in Keys
        /\ minPk' <= maxPk'
        /\ \A k \in Keys : source[k] # NoRow => minPk' <= k /\ k <= maxPk'
    BY <1>5 DEF Measure, Present
  <2>2. /\ minPk' \in Int /\ maxPk' \in Int /\ minPk' # NoKey /\ maxPk' # NoKey
        /\ \A k \in Keys : k \in Int
    BY <2>1 DEF MinInt
  <2>3. TypeOK'
    BY <1>1, <1>2, <2>1 DEF TypeOK
  <2>4. MissingRecorded'
    BY <2>1 DEF MissingRecorded
  <2>5. OutsideRecorded'
    BY <1>1, <2>1, <2>2 DEF OutsideRecorded
  <2>6. RangesMeasured'
    BY <1>1, <1>2, <2>1, <2>2 DEF RangesMeasured
  <2> QED
    BY <1>3, <2>3, <2>4, <2>5, <2>6
<1> QED
  BY <1>4, <1>5

LEMMA SpawnInv == ASSUME BackfillInv, Spawn PROVE BackfillInv'
<1> USE DEF BackfillInv
<1>1. /\ source' = source /\ shadow' = shadow /\ changelog' = changelog
      /\ minPk' = minPk /\ maxPk' = maxPk /\ last' = last /\ free' = free
      /\ writes' = writes /\ pc = "spawn" /\ pc' = "join"
      /\ lo' = [i \in Tasks |-> Lo(i)] /\ hi' = [i \in Tasks |-> Hi(i)]
      /\ task' = [i \in Tasks |-> IF i \in Spawned THEN "acquire" ELSE "done"]
  BY DEF Spawn, tables
<1>2. /\ minPk \in Keys /\ maxPk \in Keys /\ minPk # NoKey
      /\ \A i \in Tasks : last[i] = NoKey
  BY <1>1 DEF RangesMeasured, TypeOK
<1>3. \A i \in Tasks : Lo(i) \in MinInt..MaxInt /\ Hi(i) \in MinInt..MaxInt
  BY <1>2, RangeType
<1>4. TypeOK'
  BY <1>1, <1>2, <1>3 DEF TypeOK
<1>5. ConnectionsKept'
  <2>1. Paging' = {}
    BY <1>1 DEF Paging
  <2>2. Paging = {}
    BY <1>1 DEF Paging, RangesMeasured
  <2> QED
    BY <1>1, <2>1, <2>2 DEF ConnectionsKept
<1>6. ShadowRecorded' /\ OutsideRecorded'
  BY <1>1 DEF ShadowRecorded, OutsideRecorded
<1>7. MissingRecorded'
  <2> SUFFICES ASSUME NEW i \in Tasks, NEW k \in Keys, InRange(i, k)', task'[i] = "done"
               PROVE  FALSE
    BY <1>1, <1>2 DEF MissingRecorded
  <2>1. ~(Lo(i) <= Hi(i))
    BY <1>1 DEF Spawned
  <2>2. Lo(i) <= k /\ k <= Hi(i)
    BY <1>1 DEF InRange
  <2> QED
    BY <1>3, <2>1, <2>2 DEF MinInt
<1>8. RangesMeasured'
  <2>1. /\ [i \in Tasks |-> Lo(i)]' = [i \in Tasks |-> Lo(i)]
        /\ [i \in Tasks |-> Hi(i)]' = [i \in Tasks |-> Hi(i)]
        /\ Spawned' = Spawned
    BY <1>1 DEF Lo, Hi, Spawned, Sequential, Step, Span
  <2>2. \A i \in Tasks \ Spawned : task'[i] = "done"
    BY <1>1
  <2> QED
    BY <1>1, <1>2, <2>1, <2>2 DEF RangesMeasured
<1> QED
  BY <1>4, <1>5, <1>6, <1>7, <1>8

\* The ranges do not change once the tasks run.
LEMMA RangesKept ==
  ASSUME BackfillInv, minPk' = minPk, maxPk' = maxPk, lo' = lo, hi' = hi
  PROVE  /\ Spawned' = Spawned /\ [i \in Tasks |-> Lo(i)]' = [i \in Tasks |-> Lo(i)]
         /\ [i \in Tasks |-> Hi(i)]' = [i \in Tasks |-> Hi(i)]
         /\ \A i \in Tasks, k \in Keys : InRange(i, k)' <=> InRange(i, k)
BY DEF Lo, Hi, Spawned, Sequential, Step, Span, InRange

LEMMA AcquireInv == ASSUME BackfillInv, NEW i \in Tasks, Acquire(i) PROVE BackfillInv'
<1> USE DEF BackfillInv
<1>1. /\ source' = source /\ shadow' = shadow /\ changelog' = changelog
      /\ minPk' = minPk /\ maxPk' = maxPk /\ lo' = lo /\ hi' = hi
      /\ last' = last /\ writes' = writes /\ pc' = pc /\ pc = "join"
      /\ task[i] = "acquire" /\ task' = [task EXCEPT ![i] = "page"]
      /\ free' = free - 1 /\ free > 0
  BY DEF Acquire, tables
<1>2. TypeOK'
  BY <1>1 DEF TypeOK, InRange
<1>3. ConnectionsKept'
  <2>1. Paging' = Paging \cup {i} /\ i \notin Paging
    BY <1>1 DEF Paging, TypeOK
  <2>2. IsFiniteSet(Paging) /\ Cardinality(Paging) \in Nat
    BY TasksFinite DEF Paging
  <2>3. Cardinality(Paging') = Cardinality(Paging) + 1
    BY <2>1, <2>2, FS_AddElement
  <2>4. free \in Int /\ free' = free - 1
    BY <1>1 DEF TypeOK
  <2>5. free' + Cardinality(Paging') = free + Cardinality(Paging)
    BY <2>2, <2>3, <2>4
  <2> QED
    BY <2>5 DEF ConnectionsKept
<1>4. ShadowRecorded' /\ OutsideRecorded'
  BY <1>1 DEF ShadowRecorded, OutsideRecorded
<1>5. MissingRecorded'
  BY <1>1 DEF MissingRecorded, InRange, TypeOK
<1>6. RangesMeasured'
  BY <1>1, RangesKept DEF RangesMeasured, TypeOK
<1> QED
  BY <1>2, <1>3, <1>4, <1>5, <1>6

LEMMA PageInv == ASSUME BackfillInv, NEW i \in Tasks, Page(i) PROVE BackfillInv'
<1> USE DEF BackfillInv
<1>1. /\ source' = source /\ changelog' = changelog /\ free' = free
      /\ minPk' = minPk /\ maxPk' = maxPk /\ lo' = lo /\ hi' = hi
      /\ task' = task /\ writes' = writes /\ pc' = pc /\ pc = "join"
      /\ task[i] = "page"
  BY DEF Page
<1>2. PICK b \in Unread(i) :
        /\ shadow' = [k \in Keys |-> IF k \in Unread(i) /\ k <= b /\ shadow[k] = NoRow
                                     THEN source[k] ELSE shadow[k]]
        /\ last' = [last EXCEPT ![i] = b]
  BY DEF Page, ChunkEnds
<1>3. b \in Keys /\ b # NoKey /\ InRange(i, b) /\ \A k \in Keys : k \in Int
  BY DEF Unread, Present, MinInt
<1>4. \A k \in Keys : shadow'[k] # shadow[k] => shadow'[k] = source[k] /\ shadow[k] = NoRow
  BY <1>2
<1>5. TypeOK'
  <2>1. shadow' \in Table
    BY <1>2 DEF TypeOK, Table
  <2>2. /\ last' \in [Tasks -> Keys \cup {NoKey}]
        /\ \A j \in Tasks : last'[j] # NoKey => InRange(j, last'[j])
    BY <1>2, <1>3 DEF TypeOK
  <2>3. \A j \in Tasks : last'[j] # NoKey => InRange(j, last[j])'
    BY <1>1, <2>2 DEF InRange
  <2> QED
    BY <1>1, <2>1, <2>2, <2>3 DEF TypeOK
<1>6. ConnectionsKept'
  BY <1>1 DEF ConnectionsKept, Paging
<1>7. ShadowRecorded' /\ OutsideRecorded'
  BY <1>1, <1>4 DEF ShadowRecorded, OutsideRecorded
<1>8. MissingRecorded'
  <2> SUFFICES ASSUME NEW j \in Tasks, NEW k \in Keys, InRange(j, k)',
                      shadow'[k] = NoRow, source[k] # NoRow
               PROVE  /\ last'[j] # NoKey /\ k <= last'[j] => k \in changelog
                      /\ task[j] = "done" => k \in changelog
    BY <1>1 DEF MissingRecorded
  <2>1. InRange(j, k) /\ shadow[k] = NoRow
    BY <1>1, <1>4 DEF InRange
  <2>2. /\ last[j] # NoKey /\ k <= last[j] => k \in changelog
        /\ task[j] = "done" => k \in changelog
    BY <1>1, <2>1 DEF MissingRecorded
  <2>3. CASE j # i
    BY <1>2, <2>2, <2>3 DEF TypeOK
  <2>4. CASE j = i
    <3>1. last'[i] = b
      BY <1>2 DEF TypeOK
    <3>2. ASSUME k <= b PROVE last[i] # NoKey /\ k <= last[i]
      <4>1. k \notin Unread(i)
        BY <1>2, <2>1, <3>2
      <4>2. last[i] # NoKey /\ ~(k > last[i])
        BY <2>1, <2>4, <4>1 DEF Unread, Present
      <4>3. last[i] \in Int /\ k \in Int
        BY <1>3, <4>2 DEF TypeOK
      <4> QED
        BY <4>2, <4>3
    <3> QED
      BY <2>2, <2>4, <3>1, <3>2
  <2> QED
    BY <2>3, <2>4
<1>9. RangesMeasured'
  BY <1>1, RangesKept DEF RangesMeasured
<1> QED
  BY <1>5, <1>6, <1>7, <1>8, <1>9

LEMMA PageEndInv == ASSUME BackfillInv, NEW i \in Tasks, PageEnd(i) PROVE BackfillInv'
<1> USE DEF BackfillInv
<1>1. /\ source' = source /\ shadow' = shadow /\ changelog' = changelog
      /\ minPk' = minPk /\ maxPk' = maxPk /\ lo' = lo /\ hi' = hi
      /\ last' = last /\ writes' = writes /\ pc' = pc /\ pc = "join"
      /\ task[i] = "page" /\ task' = [task EXCEPT ![i] = "done"]
      /\ free' = free + 1 /\ Unread(i) = {}
  BY DEF PageEnd, tables
<1>2. Cardinality(Paging') \in Nat /\ Cardinality(Paging) = Cardinality(Paging') + 1
  <2>1. Paging' = Paging \ {i} /\ i \in Paging
    BY <1>1 DEF Paging, TypeOK
  <2>2. IsFiniteSet(Paging)
    BY TasksFinite DEF Paging
  <2>3. Paging \ {i} \in SUBSET Tasks
    BY DEF Paging
  <2>4. Cardinality(Paging) \in Nat /\ Cardinality(Paging \ {i}) \in Nat
    BY <2>3, TasksFinite DEF Paging
  <2>5. Cardinality(Paging \ {i}) = Cardinality(Paging) - 1
    BY <2>1, <2>2, FS_RemoveElement
  <2> QED
    BY <2>1, <2>4, <2>5
<1>3. free \in Int /\ free >= 0 /\ free' + Cardinality(Paging') = PoolSize - 1
  <2>1. free \in Int /\ free >= 0 /\ free + Cardinality(Paging) = PoolSize - 1
    BY DEF TypeOK, ConnectionsKept
  <2> QED
    BY <1>1, <1>2, <2>1
<1>4. ConnectionsKept'
  BY <1>3 DEF ConnectionsKept
<1>5. TypeOK'
  <2>1. free' \in 0..(PoolSize - 1)
    BY <1>1, <1>2, <1>3
  <2>2. task' \in [Tasks -> {"none", "acquire", "page", "done"}]
    BY <1>1 DEF TypeOK
  <2> QED
    BY <1>1, <2>1, <2>2 DEF TypeOK, InRange
<1>6. ShadowRecorded' /\ OutsideRecorded'
  BY <1>1 DEF ShadowRecorded, OutsideRecorded
<1>7. MissingRecorded'
  <2> SUFFICES ASSUME NEW j \in Tasks, NEW k \in Keys, InRange(j, k),
                      shadow[k] = NoRow, source[k] # NoRow
               PROVE  /\ last[j] # NoKey /\ k <= last[j] => k \in changelog
                      /\ task'[j] = "done" => k \in changelog
    BY <1>1 DEF MissingRecorded, InRange
  <2>1. /\ last[j] # NoKey /\ k <= last[j] => k \in changelog
        /\ task[j] = "done" => k \in changelog
    BY <1>1 DEF MissingRecorded
  <2>2. CASE j # i
    BY <1>1, <2>1, <2>2 DEF TypeOK
  <2>3. CASE j = i
    <3>1. last[i] # NoKey /\ ~(k > last[i])
      BY <1>1, <2>3 DEF Unread, Present
    <3>2. last[i] \in Keys
      BY <3>1 DEF TypeOK
    <3>3. last[i] \in Int /\ k \in Int
      BY <3>2, KeysAssumption
    <3> QED
      BY <2>1, <2>3, <3>1, <3>3
  <2> QED
    BY <2>2, <2>3
<1>8. RangesMeasured'
  BY <1>1, RangesKept DEF RangesMeasured, TypeOK
<1> QED
  BY <1>4, <1>5, <1>6, <1>7, <1>8

LEMMA JoinedInv == ASSUME BackfillInv, Joined PROVE BackfillInv'
<1> USE DEF BackfillInv
<1>1. /\ source' = source /\ shadow' = shadow /\ changelog' = changelog
      /\ minPk' = minPk /\ maxPk' = maxPk /\ lo' = lo /\ hi' = hi
      /\ task' = task /\ last' = last /\ free' = free /\ writes' = writes
      /\ pc = "join" /\ pc' = "joined" /\ \A i \in Tasks : task[i] = "done"
  BY DEF Joined, tables
<1>2. TypeOK' /\ ConnectionsKept'
  BY <1>1 DEF TypeOK, InRange, ConnectionsKept, Paging
<1>3. ShadowRecorded' /\ OutsideRecorded'
  BY <1>1 DEF ShadowRecorded, OutsideRecorded
<1>4. MissingRecorded'
  BY <1>1 DEF MissingRecorded, InRange
<1>5. RangesMeasured'
  BY <1>1, RangesKept DEF RangesMeasured
<1> QED
  BY <1>2, <1>3, <1>4, <1>5

\* An error leaves no task behind.
LEMMA FailInv == ASSUME BackfillInv, Fail \/ SpawnPanics PROVE BackfillInv'
<1> USE DEF BackfillInv
<1>1. /\ source' = source /\ shadow' = shadow /\ changelog' = changelog
      /\ minPk' = minPk /\ maxPk' = maxPk /\ lo' = lo /\ hi' = hi
      /\ last' = last /\ writes' = writes /\ pc' = "failed"
  BY DEF Fail, SpawnPanics, tables
<1>2. task' \in [Tasks -> {"none", "acquire", "page", "done"}] /\ free' \in 0..(PoolSize - 1)
  BY DEF Fail, SpawnPanics, TypeOK
<1>3. TypeOK'
  BY <1>1, <1>2 DEF TypeOK, InRange
<1>4. ConnectionsKept'
  <2>1. CASE Fail
    <3>1. Paging' = {} /\ free' = PoolSize - 1
      BY <2>1 DEF Fail, Paging
    <3> QED
      BY <3>1, FS_EmptySet DEF ConnectionsKept
  <2>2. CASE SpawnPanics
    BY <2>2 DEF SpawnPanics, ConnectionsKept, Paging
  <2> QED
    BY <2>1, <2>2
<1>5. ShadowRecorded' /\ MissingRecorded' /\ OutsideRecorded'
  BY <1>1 DEF ShadowRecorded, MissingRecorded, OutsideRecorded
<1>6. RangesMeasured'
  BY <1>1 DEF RangesMeasured
<1> QED
  BY <1>3, <1>4, <1>5, <1>6

LEMMA StutterInv == ASSUME BackfillInv, UNCHANGED vars PROVE BackfillInv'
<1> USE DEF BackfillInv
<1>1. /\ source' = source /\ shadow' = shadow /\ changelog' = changelog
      /\ minPk' = minPk /\ maxPk' = maxPk /\ lo' = lo /\ hi' = hi /\ pc' = pc
      /\ task' = task /\ last' = last /\ free' = free /\ writes' = writes
  BY DEF vars, tables
<1>2. TypeOK' /\ ConnectionsKept' /\ ShadowRecorded' /\ OutsideRecorded'
  BY <1>1 DEF TypeOK, InRange, ConnectionsKept, Paging, ShadowRecorded, OutsideRecorded
<1>3. MissingRecorded'
  BY <1>1 DEF MissingRecorded, InRange
<1>4. RangesMeasured'
  BY <1>1, RangesKept DEF RangesMeasured
<1> QED
  BY <1>2, <1>3, <1>4

LEMMA StepInv ==
  ASSUME "rekey" \notin Ops, BackfillInv, [Next]_vars
  PROVE  BackfillInv'
<1>1. CASE Commit
  BY <1>1, CommitInv
<1>2. CASE Measure \/ MeasureEmpty
  BY <1>2, MeasureInv
<1>3. CASE Spawn
  BY <1>3, SpawnInv
<1>4. CASE SpawnPanics \/ Fail
  BY <1>4, FailInv
<1>5. CASE Joined
  BY <1>5, JoinedInv
<1>6. ASSUME NEW i \in Tasks, TaskStep(i) PROVE BackfillInv'
  BY <1>6, AcquireInv, PageInv, PageEndInv DEF TaskStep
<1>7. CASE Finished \/ UNCHANGED vars
  BY <1>7, StutterInv DEF Finished
<1> QED
  BY <1>1, <1>2, <1>3, <1>4, <1>5, <1>6, <1>7 DEF Next

-----------------------------------------------------------------------------
(* What the invariant gives. *)

\* At the start and after every step of the function or of a writer, the
\* ranges are those of the measured extremes, the connections are accounted for,
\* and what the shadow lacks below a cursor is in the changelog.
THEOREM BackfillInvHolds ==
  ASSUME "rekey" \notin Ops
  PROVE  Spec => []BackfillInv
<1>1. Init => BackfillInv
  BY InitInv
<1>2. BackfillInv /\ [Next]_vars => BackfillInv'
  BY StepInv
<1> QED
  BY <1>1, <1>2, PTL DEF Spec

\* Every variable keeps its type, and no task pages outside its range.
THEOREM TypeCorrect ==
  ASSUME "rekey" \notin Ops
  PROVE  Spec => []TypeOK
<1>1. BackfillInv => TypeOK
  BY DEF BackfillInv
<1> QED
  BY <1>1, BackfillInvHolds, PTL

\* The ranges handed to the tasks leave out no key of the measured span and
\* give none to two tasks, as long as no operation leaves the 64 bits.
THEOREM RangesArePartition ==
  ASSUME "rekey" \notin Ops
  PROVE  Spec => []RangesPartition
<1>1. ASSUME BackfillInv PROVE RangesPartition
  <2> SUFFICES ASSUME pc = "join", ~Sequential, InBounds, NEW k \in minPk..maxPk
               PROVE  \E i \in Spawned : /\ InRange(i, k)
                                         /\ \A j \in Spawned : InRange(j, k) => j = i
    BY DEF RangesPartition
  <2>1. minPk \in Keys /\ maxPk \in Keys
    BY <1>1 DEF BackfillInv, RangesMeasured, TypeOK
  <2>2. \A i \in Spawned : lo[i] = Lo(i) /\ hi[i] = Hi(i)
    BY <1>1 DEF BackfillInv, RangesMeasured, Spawned
  <2>3. PICK i \in Spawned : /\ Lo(i) <= k /\ k <= Hi(i)
                             /\ \A j \in Spawned : Lo(j) <= k /\ k <= Hi(j) => j = i
    BY <2>1, Partition
  <2> QED
    BY <2>2, <2>3 DEF InRange
<1> QED
  BY <1>1, BackfillInvHolds, PTL

\* Between two pages, whatever the writers did, a key a task has passed is in
\* the shadow as in the source, or in the changelog.
THEOREM PassedIsRecorded ==
  ASSUME "rekey" \notin Ops
  PROVE  Spec => []PassedRecorded
<1>1. ASSUME BackfillInv PROVE PassedRecorded
  <2> SUFFICES ASSUME NEW i \in Tasks, pc = "join", NEW k \in Keys, k \notin Unread(i),
                      InRange(i, k), shadow[k] # source[k]
               PROVE  k \in changelog
    BY DEF PassedRecorded
  <2>1. CASE shadow[k] # NoRow
    BY <1>1, <2>1 DEF BackfillInv, ShadowRecorded
  <2>2. CASE shadow[k] = NoRow
    <3>1. last[i] # NoKey /\ ~(k > last[i])
      BY <2>2 DEF Unread, Present
    <3>2. last[i] \in Keys
      BY <1>1, <3>1 DEF BackfillInv, TypeOK
    <3>3. last[i] \in Int /\ k \in Int
      BY <3>2, KeysAssumption
    <3>4. last[i] # NoKey /\ k <= last[i]
      BY <3>1, <3>3
    <3> QED
      BY <1>1, <2>2, <3>4 DEF BackfillInv, MissingRecorded
  <2> QED
    BY <2>1, <2>2
<1> QED
  BY <1>1, BackfillInvHolds, PTL

\* When the tasks have been joined, no row is left out: the shadow differs from
\* the source at most where the changelog sends the catch-up.
THEOREM NothingLeftOut ==
  ASSUME "rekey" \notin Ops
  PROVE  Spec => []CopiedOrRecorded
<1>1. ASSUME BackfillInv PROVE CopiedOrRecorded
  <2> SUFFICES ASSUME pc = "joined", minPk # NoKey /\ ~Sequential => InBounds,
                      NEW k \in Keys, shadow[k] # source[k]
               PROVE  k \in changelog
    BY DEF CopiedOrRecorded
  <2>1. CASE shadow[k] # NoRow
    BY <1>1, <2>1 DEF BackfillInv, ShadowRecorded
  <2>2. CASE shadow[k] = NoRow /\ (minPk = NoKey \/ k < minPk \/ k > maxPk)
    BY <1>1, <2>2 DEF BackfillInv, OutsideRecorded
  <2>3. CASE shadow[k] = NoRow /\ minPk # NoKey /\ ~(k < minPk \/ k > maxPk)
    <3>1. minPk \in Keys /\ maxPk \in Keys
      BY <1>1, <2>3 DEF BackfillInv, RangesMeasured, TypeOK
    <3>2. /\ \A i \in Tasks : lo[i] = Lo(i) /\ hi[i] = Hi(i) /\ task[i] = "done"
      BY <1>1, <2>3 DEF BackfillInv, RangesMeasured
    <3>3. \E i \in Tasks : Lo(i) <= k /\ k <= Hi(i)
      <4>1. CASE Sequential
        <5>1. 0 \in Tasks /\ Lo(0) = MinInt /\ Hi(0) = MaxInt
          BY <4>1, WorkersType DEF Tasks, Lo, Hi
        <5>2. MinInt <= k /\ k <= MaxInt
          BY DEF MinInt
        <5> QED
          BY <5>1, <5>2
      <4>2. CASE ~Sequential
        <5>1. k \in minPk..maxPk
          BY <2>3, <3>1, KeysAssumption
        <5> QED
          BY <2>3, <3>1, <4>2, <5>1, Partition DEF Spawned
      <4> QED
        BY <4>1, <4>2
    <3> QED
      BY <1>1, <2>3, <3>2, <3>3 DEF BackfillInv, MissingRecorded, InRange
  <2> QED
    BY <2>1, <2>2, <2>3
<1> QED
  BY <1>1, BackfillInvHolds, PTL

-----------------------------------------------------------------------------
(* AdaptiveChunk: the chunk sizes of the catch-up. *)

LEMMA ChunkBounds ==
  /\ minSize \in Nat \ {0} /\ maxSize \in Nat \ {0} /\ minSize <= maxSize
  /\ targetMs \in Nat \ {0} /\ maxMs \in Nat /\ targetMs <= maxMs
BY CfgAssumption DEF minSize, maxSize, targetMs, maxMs, Least, Most

LEMMA ClampInBounds ==
  ASSUME NEW n \in Int
  PROVE  /\ Clamp(n) \in minSize..maxSize
         /\ n \in minSize..maxSize => Clamp(n) = n
BY ChunkBounds DEF Clamp, Least, Most

\* A clamp moves no value past one that is inside the bounds.
LEMMA ClampMonotone ==
  ASSUME NEW n \in Int, NEW cur \in minSize..maxSize
  PROVE  /\ n <= cur => Clamp(n) <= cur
         /\ n >= cur => Clamp(n) >= cur
BY ChunkBounds DEF Clamp, Least, Most

\* cur * targetMs / t is at most cur after a slow batch, at least cur after a
\* fast one.
LEMMA Proportion ==
  ASSUME NEW cur \in Nat, NEW T \in Nat, NEW t \in Nat, t > 0
  PROVE  /\ (cur * T) \div t \in Nat
         /\ t >= T => (cur * T) \div t <= cur
         /\ t <= T => (cur * T) \div t >= cur
<1> DEFINE q == (cur * T) \div t
<1>1. cur * T \in Nat /\ cur * t \in Nat
  BY ProductMonotone
<1>2. q \in Nat /\ t * q <= cur * T /\ cur * T < t * q + t
  BY <1>1, Division
<1> HIDE DEF q
<1>3. t * (q + 1) = t * q + t /\ t * (cur + 1) = t * cur + t /\ t * cur = cur * t
      /\ t * q \in Nat
  BY <1>2
<1>4. ASSUME t >= T PROVE q <= cur
  <2>1. cur * T <= cur * t
    BY <1>4, ProductMonotone
  <2>2. t * q < t * (cur + 1)
    BY <1>1, <1>2, <1>3, <2>1
  <2>3. q < cur + 1
    BY <1>2, <2>2, CancelFactor
  <2> QED
    BY <1>2, <2>3
<1>5. ASSUME t <= T PROVE q >= cur
  <2>1. cur * t <= cur * T
    BY <1>5, ProductMonotone
  <2>2. t * cur < t * (q + 1)
    BY <1>1, <1>2, <1>3, <2>1
  <2>3. cur < q + 1
    BY <1>2, <2>2, CancelFactor
  <2> QED
    BY <1>2, <2>3
<1> QED
  BY <1>2, <1>4, <1>5 DEF q

\* Limiting a step does not turn it round.
LEMMA StepLimitSide ==
  ASSUME NEW cur \in Nat \ {0}, NEW n \in Nat \ {0}
  PROVE  /\ StepLimit(cur, n) \in Nat \ {0}
         /\ n <= cur => StepLimit(cur, n) <= cur
         /\ n >= cur => StepLimit(cur, n) >= cur
BY DEF StepLimit, Most

LEMMA AdjustedSide ==
  ASSUME NEW cur \in minSize..maxSize, NEW t \in Nat \ {0}
  PROVE  /\ Adjusted(cur, t) \in minSize..maxSize
         /\ t > targetMs => Adjusted(cur, t) <= cur
         /\ t < targetMs => Adjusted(cur, t) >= cur
<1>1. cur \in Nat \ {0} /\ targetMs \in Nat \ {0} /\ maxMs \in Nat /\ targetMs <= maxMs
  BY ChunkBounds
<1>2. CASE t >= maxMs
  <2> DEFINE n == Most(cur \div 2, 1)
  <2>1. n \in Int /\ n <= cur
    BY <1>1 DEF Most
  <2>2. Clamp(n) \in minSize..maxSize /\ Clamp(n) <= cur
    BY <2>1, ClampInBounds, ClampMonotone
  <2>3. Adjusted(cur, t) = Clamp(n)
    BY <1>2 DEF Adjusted
  <2> QED
    BY <1>1, <1>2, <2>2, <2>3
<1>3. CASE t < maxMs /\ t \in Band
  <2>1. Adjusted(cur, t) = cur
    BY <1>1, <1>3 DEF Adjusted
  <2> QED
    BY <1>1, <2>1
<1>4. CASE t < maxMs /\ t \notin Band
  <2> DEFINE q == (cur * targetMs) \div t
             n == Most(q, 1)
             s == StepLimit(cur, n)
  <2>1. Adjusted(cur, t) = Clamp(s)
    BY <1>1, <1>4 DEF Adjusted
  <2>2. /\ q \in Nat
        /\ t > targetMs => q <= cur
        /\ t < targetMs => q >= cur
    BY <1>1, Proportion
  <2> HIDE DEF q
  <2>3. /\ n \in Nat \ {0}
        /\ t > targetMs => n <= cur
        /\ t < targetMs => n >= cur
    BY <1>1, <2>2 DEF Most
  <2> HIDE DEF n
  <2>4. /\ s \in Nat \ {0}
        /\ n <= cur => s <= cur
        /\ n >= cur => s >= cur
    BY <1>1, <2>3, StepLimitSide
  <2> HIDE DEF s
  <2>5. /\ Clamp(s) \in minSize..maxSize
        /\ s <= cur => Clamp(s) <= cur
        /\ s >= cur => Clamp(s) >= cur
    BY <2>4, ClampInBounds, ClampMonotone
  <2> QED
    BY <2>1, <2>3, <2>4, <2>5
<1> QED
  BY <1>1, <1>2, <1>3, <1>4

LEMMA BatchMsType ==
  ASSUME ChunkTypeOK PROVE BatchMs \in Nat \ {0}
<1>1. size \in Nat /\ cost \in Nat
  BY ChunkBounds, CfgAssumption DEF ChunkTypeOK
<1>2. size * cost \in Nat
  BY <1>1, ProductMonotone
<1>3. (size * cost) \div 1000 \in Nat
  BY <1>2
<1> QED
  BY <1>3 DEF BatchMs, Most

LEMMA ChunkInitType == ChunkInit => ChunkTypeOK
BY ClampInBounds, CfgAssumption DEF ChunkInit, ChunkTypeOK

LEMMA StepSide ==
  ASSUME ChunkTypeOK, Batch
  PROVE  /\ size' \in minSize..maxSize /\ ms' \in Nat
         /\ ms' > targetMs => size' <= size
         /\ ms' < targetMs => size' >= size
<1>1. size \in minSize..maxSize /\ Clamp(size) = size
  BY ChunkBounds, ClampInBounds DEF ChunkTypeOK
<1>2. BatchMs \in Nat \ {0} /\ ms' = BatchMs
  BY BatchMsType DEF Batch
<1>3. CASE Enabled
  <2>1. size' = Adjusted(size, BatchMs)
    BY <1>1, <1>3 DEF Batch
  <2> QED
    BY <1>1, <1>2, <2>1, AdjustedSide
<1>4. CASE ~Enabled
  <2>1. size' = size
    BY <1>4 DEF Batch
  <2> QED
    BY <1>1, <1>2, <2>1, ChunkBounds
<1> QED
  BY <1>3, <1>4

LEMMA ChunkTypeNext == ChunkTypeOK /\ [ChunkNext]_chunkVars => ChunkTypeOK'
<1> SUFFICES ASSUME ChunkTypeOK, [ChunkNext]_chunkVars PROVE ChunkTypeOK'
  OBVIOUS
<1>1. CASE Batch
  BY <1>1, StepSide DEF Batch, ChunkTypeOK
<1>2. CASE NewSpell
  BY <1>2, CfgAssumption DEF NewSpell, ChunkTypeOK
<1>3. CASE UNCHANGED chunkVars
  BY <1>3 DEF chunkVars, ChunkTypeOK
<1> QED
  BY <1>1, <1>2, <1>3 DEF ChunkNext

\* The size never leaves the configured bounds.
THEOREM SizeInBounds == ChunkSpec => []ChunkTypeOK
BY ChunkInitType, ChunkTypeNext, PTL DEF ChunkSpec

\* No batch moves the size away from the target.
THEOREM NeverTheWrongWay == ChunkSpec => RightDirection
<1>1. ChunkTypeOK /\ [ChunkNext]_chunkVars =>
        (Batch => /\ ms' > targetMs => size' <= size
                  /\ ms' < targetMs => size' >= size)
  BY StepSide
<1> QED
  BY <1>1, SizeInBounds, PTL DEF ChunkSpec, RightDirection
=============================================================================
