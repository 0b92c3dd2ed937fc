------------------------ MODULE OnlineRewriteProofs -------------------------
(***************************************************************************)
(* Proofs about OnlineRewrite, for every set of keys, payloads and writers *)
(* and every chunk size: type correctness, the inductive invariant         *)
(* RewriteInv, and from it what the swap and the backup guarantee.         *)
(***************************************************************************)
EXTENDS OnlineRewriteProps, TLAPS

\* A statement of the workload is a change of the declared shape.
LEMMA ChangesOnType ==
  ASSUME NEW t \in Table, NEW c \in ChangesOn(t)
  PROVE  c \in Change
BY DEF ChangesOn, Inserts, Appends, Updates, Deletes, Rekeys, SetRow, Present,
       Table, Change

\* Applying a change to a table gives a table, and rows it does not touch stay.
LEMMA ApplyType ==
  ASSUME NEW t \in Table, NEW c \in Change
  PROVE  /\ Apply(t, c) \in Table
         /\ \A k \in Keys : k \notin Touched(c) => Apply(t, c)[k] = t[k]
BY DEF Apply, Touched, Table, Change

LEMMA EmptyType == Empty \in Table
BY DEF Empty, Table

\* A chunk ends at one of the keys it is taken from.
LEMMA ChunkEndsIn ==
  ASSUME NEW S, NEW size, NEW b \in ChunkEnds(S, size)
  PROVE  b \in S
BY DEF ChunkEnds

LEMMA TypeInit == Init => TypeOK
<1> SUFFICES ASSUME Init PROVE TypeOK
  OBVIOUS
<1> USE DEF Init
<1>1. source \in Table /\ shadow \in Table /\ txShadow \in Table
  BY EmptyType
<1>2. /\ change \in [Writers -> Change \cup {Idle}]
      /\ logged \in [Writers -> SUBSET Keys]
  OBVIOUS
<1>3. round \in 0..MaxRounds /\ writes \in 0..MaxWrites
  BY BoundAssumption
<1> QED
  BY <1>1, <1>2, <1>3 DEF TypeOK, Steps

-----------------------------------------------------------------------------
(* Type correctness. *)

LEMMA TypeNext == TypeOK /\ [Next]_vars => TypeOK'
<1> SUFFICES ASSUME TypeOK, [Next]_vars PROVE TypeOK'
  OBVIOUS
<1> USE DEF TypeOK
<1>1. ASSUME NEW w \in Writers, Write(w) PROVE TypeOK'
  <2>1. PICK c \in ChangesOn(live) :
          /\ change' = [change EXCEPT ![w] = c]
          /\ logged' = [logged EXCEPT ![w] = MirrorRow(c)]
          /\ raced' = raced \cup {k \in Touched(c) : InWindow(k)}
          /\ rekeyed' = rekeyed \cup ({c.from} \ {c.to})
    BY <1>1 DEF Write
  <2>2. c \in Change
    BY ChangesOnType DEF live
  <2>3. MirrorRow(c) \in SUBSET Keys /\ Touched(c) \subseteq Keys
    BY <2>2 DEF MirrorRow, Touched, Change
  <2>4. change' \in [Writers -> Change \cup {Idle}] /\ logged' \in [Writers -> SUBSET Keys]
    BY <2>1, <2>2, <2>3
  <2>5. raced' \in SUBSET Keys /\ rekeyed' \in SUBSET Keys
    BY <2>1, <2>2, <2>3 DEF Change
  <2>6. writes' \in 0..MaxWrites
    BY <1>1, BoundAssumption DEF Write
  <2> QED
    BY <1>1, <2>4, <2>5, <2>6 DEF Write, dbVars, cursorVars, txVars
<1>2. ASSUME NEW w \in Writers, Commit(w) PROVE TypeOK'
  <2>1. change[w] \in Change
    BY <1>2 DEF Commit
  <2>2. source' \in Table /\ shadow' \in Table
    BY <1>2, <2>1, ApplyType DEF Commit
  <2> QED
    BY <1>2, <2>2 DEF Commit, cursorVars, txVars, history
<1>3. ASSUME NEW w \in Writers, Abort(w) PROVE TypeOK'
  BY <1>3 DEF Abort, dbVars, cursorVars, txVars, history
<1>4. CASE CreateTables
  BY <1>4, EmptyType DEF CreateTables, Steps, appVars, cursorVars, txVars, history
<1>5. CASE RequestTrigger
  BY <1>5 DEF RequestTrigger, Steps, dbVars, appVars, cursorVars, txVars, history
<1>6. CASE InstallTrigger
  BY <1>6 DEF InstallTrigger, Steps, appVars, cursorVars, txVars, history
<1>7. CASE BackfillBatch
  <2>1. PICK b \in ChunkEnds(Unread, BackfillChunk) :
          /\ shadow' = [k \in Keys |-> IF k \in Unread /\ k <= b /\ shadow[k] = NoRow
                                       THEN source[k] ELSE shadow[k]]
          /\ lastPk' = b
    BY <1>7 DEF BackfillBatch
  <2>2. b \in Keys
    BY ChunkEndsIn DEF Unread, Present
  <2>3. shadow' \in Table
    BY <2>1 DEF Table
  <2> QED
    BY <1>7, <2>1, <2>2, <2>3 DEF BackfillBatch, appVars, txVars, history
<1>8. CASE BackfillEnd
  BY <1>8 DEF BackfillEnd, Steps, dbVars, appVars, txVars, history
<1>9. CASE CatchUpSelect
  <2>1. nextLast' \in Keys
    BY <1>9, ChunkEndsIn DEF CatchUpSelect, Pending
  <2> QED
    BY <1>9, <2>1 DEF CatchUpSelect, Steps, dbVars, appVars, txVars, history
<1>10. CASE CatchUpUpsert
  <2>1. shadow' \in Table
    BY <1>10 DEF CatchUpUpsert, Upserted, Table
  <2> QED
    BY <1>10, <2>1 DEF CatchUpUpsert, Steps, appVars, cursorVars, txVars
<1>11. CASE CatchUpDelete
  <2>1. shadow' \in Table
    BY <1>11 DEF CatchUpDelete, DeletedMissing, Table
  <2> QED
    BY <1>11, <2>1 DEF CatchUpDelete, Steps, appVars, cursorVars, txVars, history
<1>12. CASE CatchUpClear
  BY <1>12, BoundAssumption DEF CatchUpClear, Steps, appVars, txVars, history
<1>13. CASE CatchUpEnd
  BY <1>13, BoundAssumption DEF CatchUpEnd, Steps, dbVars, appVars, txVars, history
<1>14. CASE RequestLock
  BY <1>14 DEF RequestLock, Steps, dbVars, appVars, cursorVars, txVars, history
<1>15. CASE AcquireLock
  BY <1>15 DEF AcquireLock, Steps, dbVars, appVars, cursorVars, history
<1>16. CASE CutoverDrain
  <2>1. txShadow' \in Table /\ txLog' \in SUBSET Keys
    BY <1>16 DEF CutoverDrain, DeletedMissing, Upserted, Table
  <2> QED
    BY <1>16, <2>1, BoundAssumption DEF CutoverDrain, dbVars, appVars, history
<1>17. CASE CutoverCommit
  BY <1>17 DEF CutoverCommit, Steps, appVars, cursorVars, txVars, history
<1>18. CASE CutoverNotConverged
  BY <1>18 DEF CutoverNotConverged, Steps, dbVars, appVars, cursorVars, txVars, history
<1>19. CASE WithinBudget
  BY <1>19 DEF WithinBudget, Steps, dbVars, appVars, cursorVars, txVars, history
<1>20. CASE Fail
  BY <1>20 DEF Fail, Steps, dbVars, appVars, cursorVars, txVars, history
<1>21. CASE UNCHANGED vars
  BY <1>21 DEF vars, dbVars, appVars, cursorVars, txVars, history
<1> QED
  BY <1>1, <1>2, <1>3, <1>4, <1>5, <1>6, <1>7, <1>8, <1>9, <1>10, <1>11, <1>12,
     <1>13, <1>14, <1>15, <1>16, <1>17, <1>18, <1>19, <1>20, <1>21
     DEF Next, Advance, Finished

\* Type correctness: the cursors, tables, changelog and open transactions of
\* online_rewrite_table keep their types through every statement and failure.
THEOREM TypeCorrect == Spec => []TypeOK
BY TypeInit, TypeNext, PTL DEF Spec

-----------------------------------------------------------------------------
(* The inductive invariant. *)

LEMMA InvInit == Init => RewriteInv
<1> SUFFICES ASSUME Init PROVE RewriteInv
  OBVIOUS
<1>1. TypeOK
  BY TypeInit
<1>2. PhaseOK /\ AheadEmpty /\ DrainRecorded
  BY DEF Init, PhaseOK, AheadEmpty, DrainRecorded, Mirroring
<1>3. OpenWritesRecorded /\ DivergenceRecorded
  BY DEF Init, OpenWritesRecorded, DivergenceRecorded
<1>4. WindowSettled
  BY DEF Init, WindowSettled, InWindow
<1> QED
  BY <1>1, <1>2, <1>3, <1>4 DEF RewriteInv

\* A writer's statement changes no table; under a tracked key it leaves a
\* changelog row, and in a window it takes its keys out of the tracked ones.
LEMMA WriteInv ==
  ASSUME RewriteInv, NEW w \in Writers, Write(w), TypeOK'
  PROVE  RewriteInv'
<1> USE DEF RewriteInv
<1>1. PICK c \in ChangesOn(live) :
        /\ \A k \in Touched(c) : Free(k)
        /\ change' = [change EXCEPT ![w] = c]
        /\ logged' = [logged EXCEPT ![w] = MirrorRow(c)]
        /\ raced' = raced \cup {k \in Touched(c) : InWindow(k)}
        /\ rekeyed' = rekeyed \cup ({c.from} \ {c.to})
  BY DEF Write
<1>2. c \in Change
  BY ChangesOnType DEF live, TypeOK
<1>3. UNCHANGED <<source, shadow, swapped, trigger, changelog, pc, lastPk, nextLast,
                  round, txShadow, txLog>>
  BY DEF Write, dbVars, cursorVars, txVars
<1>4. Tracked' \subseteq Tracked /\ Tracked \subseteq Keys
  BY <1>1 DEF Tracked
<1>5. \A k \in Tracked' : k \in Touched(c) => k = c.to /\ ~InWindow(k)
  BY <1>1 DEF Tracked, Touched
<1>6. ~Locked
  BY DEF Write
<1>7. \A k \in Keys : After(k)' = After(k) /\ InBatch(k)' = InBatch(k)
                        /\ InWindow(k)' = InWindow(k)
  BY <1>3 DEF After, InBatch, InWindow
<1>8. PhaseOK'
  <2>1. pc \in {"create", "trigger", "trigwait"} => MirrorRow(c) = {}
    BY DEF MirrorRow, PhaseOK, Mirroring
  <2>2. pc \in {"create", "trigger", "trigwait"} => logged' = [v \in Writers |-> {}]
    BY <1>1, <2>1 DEF PhaseOK
  <2> QED
    BY <1>3, <2>2 DEF PhaseOK
<1>9. AheadEmpty'
  BY <1>3, <1>7 DEF AheadEmpty
<1>10. OpenWritesRecorded'
  <2> SUFFICES ASSUME trigger, NEW v \in Writers, change'[v] # Idle,
                      NEW k \in Touched(change'[v]) \cap Tracked'
               PROVE  k \in changelog \cup logged'[v]
    BY <1>3 DEF OpenWritesRecorded
  <2>1. CASE v = w
    <3>1. change'[v] = c /\ logged'[v] = MirrorRow(c)
      BY <1>1, <2>1 DEF TypeOK
    <3> QED
      BY <3>1, <1>5 DEF MirrorRow
  <2>2. CASE v # w
    <3>1. change'[v] = change[v] /\ logged'[v] = logged[v]
      BY <1>1, <2>2 DEF TypeOK
    <3> QED
      BY <3>1, <1>4 DEF OpenWritesRecorded
  <2> QED
    BY <2>1, <2>2
<1>11. WindowSettled'
  <2>1. ASSUME NEW k \in Tracked', InWindow(k) PROVE Free(k)'
    <3>1. Free(k) /\ k \notin Touched(c)
      BY <2>1, <1>4, <1>5 DEF WindowSettled
    <3>2. \A v \in Writers : change'[v] = c \/ change'[v] = change[v]
      BY <1>1 DEF TypeOK
    <3> QED
      BY <3>1, <3>2 DEF Free
  <2> QED
    BY <2>1, <1>3, <1>4, <1>7 DEF WindowSettled
<1>12. DivergenceRecorded'
  BY <1>3, <1>4, <1>7 DEF DivergenceRecorded, Passed, Tracked
<1>13. DrainRecorded'
  BY <1>3, <1>6 DEF DrainRecorded, Locked
<1> QED
  BY <1>8, <1>9, <1>10, <1>11, <1>12, <1>13

\* A commit changes rows only under keys it touches, and those tracked are in
\* the changelog afterwards; no tracked key of an open window is among them.
LEMMA CommitInv ==
  ASSUME RewriteInv, NEW w \in Writers, Commit(w), TypeOK'
  PROVE  RewriteInv'
<1> USE DEF RewriteInv
<1>1. /\ change[w] # Idle /\ change[w] \in Change
      /\ change' = [change EXCEPT ![w] = Idle]
      /\ logged' = [logged EXCEPT ![w] = {}]
      /\ changelog' = changelog \cup logged[w]
      /\ swapped => source' = source
      /\ ~swapped => source' = Apply(source, change[w]) /\ shadow' = shadow
      /\ UNCHANGED <<swapped, trigger, pc, lastPk, nextLast, round, txShadow,
                     txLog, raced, rekeyed>>
  BY DEF Commit, TypeOK, cursorVars, txVars, history
<1>2. \A k \in Keys : k \notin Touched(change[w]) => source'[k] = source[k]
  BY <1>1, ApplyType DEF TypeOK
<1>3. Tracked' = Tracked /\ Tracked \subseteq Keys
  BY <1>1 DEF Tracked
<1>4. \A k \in Keys : After(k)' = After(k) /\ InBatch(k)' = InBatch(k)
                        /\ InWindow(k)' = InWindow(k)
  BY <1>1 DEF After, InBatch, InWindow
<1>5. \A v \in Writers : change'[v] # Idle => /\ v # w
                                              /\ change'[v] = change[v]
                                              /\ logged'[v] = logged[v]
  BY <1>1 DEF TypeOK
<1>6. pc # "drain"
  BY <1>1 DEF DrainRecorded, Quiet
<1>7. PhaseOK'
  <2>1. pc \in {"create", "trigger", "trigwait"} => logged[w] = {} /\ logged' = logged
    BY <1>1 DEF PhaseOK
  <2>2. pc \in {"trigger", "trigwait"} => ~swapped
    BY DEF PhaseOK
  <2> QED
    BY <1>1, <2>1, <2>2 DEF PhaseOK
<1>8. AheadEmpty'
  <2>1. pc = "backfill" => ~swapped
    BY DEF PhaseOK
  <2> QED
    BY <1>1, <1>4, <2>1 DEF AheadEmpty
<1>9. OpenWritesRecorded'
  BY <1>1, <1>3, <1>5 DEF OpenWritesRecorded
<1>10. WindowSettled'
  <2>1. \A k \in Keys : Free(k) => Free(k)'
    BY <1>5 DEF Free
  <2>2. \A k \in Tracked : InWindow(k) => source'[k] = source[k]
    BY <1>1, <1>2, <1>3 DEF WindowSettled, Free
  <2>3. pc \in {"delete", "clear"} => shadow' = shadow
    BY <1>1 DEF PhaseOK
  <2> QED
    BY <1>1, <1>3, <1>4, <2>1, <2>2, <2>3 DEF WindowSettled, InWindow
<1>11. DivergenceRecorded'
  <2> SUFFICES ASSUME trigger, pc # "failed", NEW k \in Tracked, Passed(k),
                      shadow'[k] # source'[k]
               PROVE  k \in changelog'
    BY <1>1, <1>3, <1>4 DEF DivergenceRecorded, Passed
  <2>1. ~swapped
    BY DEF PhaseOK
  <2>2. CASE k \in Touched(change[w])
    BY <1>1, <2>2 DEF OpenWritesRecorded
  <2>3. CASE k \notin Touched(change[w])
    BY <1>1, <1>2, <1>3, <2>1, <2>3 DEF DivergenceRecorded
  <2> QED
    BY <2>2, <2>3
<1>12. DrainRecorded'
  BY <1>1, <1>6 DEF DrainRecorded
<1> QED
  BY <1>7, <1>8, <1>9, <1>10, <1>11, <1>12

LEMMA AbortInv ==
  ASSUME RewriteInv, NEW w \in Writers, Abort(w), TypeOK'
  PROVE  RewriteInv'
<1> USE DEF RewriteInv
<1>1. /\ change' = [change EXCEPT ![w] = Idle]
      /\ logged' = [logged EXCEPT ![w] = {}]
      /\ UNCHANGED <<source, shadow, swapped, trigger, changelog, pc, lastPk,
                     nextLast, round, txShadow, txLog, raced, rekeyed>>
  BY DEF Abort, dbVars, cursorVars, txVars, history
<1>2. Tracked' = Tracked /\ Tracked \subseteq Keys
  BY <1>1 DEF Tracked
<1>3. \A k \in Keys : After(k)' = After(k) /\ InBatch(k)' = InBatch(k)
                        /\ InWindow(k)' = InWindow(k)
  BY <1>1 DEF After, InBatch, InWindow
<1>4. \A v \in Writers : change'[v] # Idle => change'[v] = change[v] /\ logged'[v] = logged[v]
  BY <1>1 DEF TypeOK
<1>5. PhaseOK'
  BY <1>1 DEF PhaseOK
<1>6. AheadEmpty' /\ DivergenceRecorded'
  BY <1>1, <1>2, <1>3 DEF AheadEmpty, DivergenceRecorded, Passed
<1>7. OpenWritesRecorded'
  BY <1>1, <1>2, <1>4 DEF OpenWritesRecorded
<1>8. WindowSettled'
  <2>1. \A k \in Keys : Free(k) => Free(k)'
    BY <1>4 DEF Free
  <2> QED
    BY <1>1, <1>2, <1>3, <2>1 DEF WindowSettled
<1>9. DrainRecorded'
  BY <1>1, <1>2, <1>4 DEF DrainRecorded, Quiet
<1> QED
  BY <1>5, <1>6, <1>7, <1>8, <1>9

\* Phases 1 to 3.  The trigger goes in while no write is open, so from then on
\* every write leaves its key; the backfill settles what its cursor passes.
LEMMA SetupInv ==
  ASSUME RewriteInv, TypeOK', CreateTables \/ RequestTrigger \/ InstallTrigger
  PROVE  RewriteInv'
<1> USE DEF RewriteInv
<1>1. UNCHANGED <<source, swapped, change, logged, raced, rekeyed>>
  BY DEF CreateTables, RequestTrigger, InstallTrigger, dbVars, appVars, history
<1>2. pc \in {"create", "trigger", "trigwait"} /\ pc' \in {"trigger", "trigwait", "backfill"}
  BY DEF CreateTables, RequestTrigger, InstallTrigger
<1>3. shadow' = Empty /\ changelog' = {}
  BY DEF CreateTables, RequestTrigger, InstallTrigger, PhaseOK, dbVars
<1>4. trigger' <=> pc' = "backfill"
  BY DEF CreateTables, RequestTrigger, InstallTrigger, PhaseOK, Mirroring, dbVars
<1>5. PhaseOK' /\ lastPk' = NoKey
  BY <1>1, <1>2, <1>3, <1>4
  DEF CreateTables, RequestTrigger, InstallTrigger, PhaseOK, Mirroring, cursorVars
<1>6. AheadEmpty'
  BY <1>3 DEF AheadEmpty, Empty
<1>7. trigger' => Quiet
  BY <1>4 DEF CreateTables, RequestTrigger, InstallTrigger
<1>8. OpenWritesRecorded'
  BY <1>1, <1>7 DEF OpenWritesRecorded, Quiet
<1>9. WindowSettled' /\ DrainRecorded'
  BY <1>2 DEF WindowSettled, InWindow, DrainRecorded
<1>10. DivergenceRecorded'
  <2>1. \A k \in Keys : After(k)'
    BY <1>5 DEF After
  <2> QED
    BY <1>2, <1>4, <2>1 DEF DivergenceRecorded, Passed, Tracked
<1> QED
  BY <1>5, <1>6, <1>8, <1>9, <1>10

LEMMA BackfillBatchInv ==
  ASSUME RewriteInv, TypeOK', BackfillBatch
  PROVE  RewriteInv'
<1> USE DEF RewriteInv
<1>1. PICK b \in ChunkEnds(Unread, BackfillChunk) :
        /\ shadow' = [k \in Keys |-> IF k \in Unread /\ k <= b /\ shadow[k] = NoRow
                                     THEN source[k] ELSE shadow[k]]
        /\ lastPk' = b
  BY DEF BackfillBatch
<1>2. b \in Unread /\ b \in Int /\ Keys \subseteq Int
  BY ChunkEndsIn, KeysAssumption DEF Unread, Present
<1>3. /\ pc = "backfill" /\ pc' = "backfill"
      /\ UNCHANGED <<source, swapped, trigger, changelog, change, logged, raced, rekeyed>>
  BY DEF BackfillBatch, appVars, history
<1>4. \A k \in Keys : After(k)' <=> k > b
  BY <1>1, <1>2, NoKeyAssumption DEF After
<1>5. \A k \in Keys : k > b => After(k)
  BY <1>2, NoKeyAssumption DEF After, Unread, TypeOK
<1>6. AheadEmpty'
  BY <1>1, <1>2, <1>3, <1>4, <1>5 DEF AheadEmpty
<1>7. DivergenceRecorded'
  <2> SUFFICES ASSUME NEW k \in Tracked, ~(k > b), shadow'[k] # source[k]
               PROVE  trigger => k \in changelog
    BY <1>3, <1>4 DEF DivergenceRecorded, Passed, Tracked
  <2>1. k \in Keys /\ k <= b
    <3>1. k \in Keys
      BY DEF Tracked
    <3> QED
      BY <3>1, <1>2
  <2>2. ~After(k)
    <3>1. After(k) => shadow[k] = NoRow
      BY <1>3, <2>1 DEF AheadEmpty
    <3>2. After(k) => shadow'[k] = source[k]
      BY <1>1, <2>1, <3>1 DEF Unread, Present
    <3> QED
      BY <3>2
  <2>3. shadow'[k] = shadow[k]
    BY <1>1, <2>1, <2>2 DEF Unread
  <2> QED
    BY <1>3, <2>2, <2>3 DEF DivergenceRecorded, Passed
<1>8. PhaseOK' /\ OpenWritesRecorded' /\ WindowSettled' /\ DrainRecorded'
  BY <1>3 DEF PhaseOK, OpenWritesRecorded, WindowSettled, InWindow, DrainRecorded,
              Tracked, Mirroring
<1> QED
  BY <1>6, <1>7, <1>8

LEMMA BackfillEndInv ==
  ASSUME RewriteInv, TypeOK', BackfillEnd
  PROVE  RewriteInv'
<1> USE DEF RewriteInv
<1>1. /\ pc = "backfill" /\ pc' = "select" /\ Unread = {}
      /\ UNCHANGED <<source, shadow, swapped, trigger, changelog, change, logged,
                     raced, rekeyed>>
  BY DEF BackfillEnd, dbVars, appVars, history
<1>2. \A k \in Keys : After(k) => shadow[k] = source[k]
  BY <1>1 DEF AheadEmpty, Unread, Present
<1>3. DivergenceRecorded'
  BY <1>1, <1>2 DEF DivergenceRecorded, Passed, Tracked
<1>4. PhaseOK' /\ AheadEmpty' /\ OpenWritesRecorded' /\ WindowSettled' /\ DrainRecorded'
  BY <1>1 DEF PhaseOK, AheadEmpty, OpenWritesRecorded, WindowSettled, InWindow,
              DrainRecorded, Tracked, Mirroring
<1> QED
  BY <1>3, <1>4

\* Phase 4.  The upsert of a batch takes the keys with open writes out of the
\* tracked ones; the two statements after it settle the others.
LEMMA CatchUpUpsertInv ==
  ASSUME RewriteInv, TypeOK', CatchUpUpsert
  PROVE  RewriteInv'
<1> USE DEF RewriteInv
<1>1. /\ pc = "upsert" /\ pc' = "delete"
      /\ shadow' = Upserted(shadow, Batch)
      /\ raced' = raced \cup {k \in Keys : ~Free(k) /\ InBatch(k)}
      /\ UNCHANGED <<source, swapped, trigger, changelog, change, logged, lastPk,
                     nextLast, rekeyed>>
  BY DEF CatchUpUpsert, appVars, cursorVars
<1>2. Tracked' \subseteq Tracked /\ Tracked \subseteq Keys
  BY <1>1 DEF Tracked
<1>3. \A k \in Keys : InBatch(k)' = InBatch(k) /\ Free(k)' = Free(k)
  BY <1>1 DEF InBatch, After, Free
<1>4. \A k \in Tracked' : InBatch(k) => Free(k)
  BY <1>1 DEF Tracked
<1>5. ASSUME NEW k \in Tracked', shadow'[k] # source[k]
      PROVE  k \in changelog /\ (InBatch(k) => source[k] = NoRow)
  <2>1. shadow[k] # source[k] /\ (k \in Batch => source[k] = NoRow)
    BY <1>1, <1>2, <1>5 DEF Upserted
  <2>2. k \in changelog
    BY <1>1, <1>2, <2>1 DEF DivergenceRecorded, Passed, PhaseOK, Mirroring
  <2> QED
    BY <2>1, <2>2 DEF Batch
<1>6. WindowSettled'
  BY <1>1, <1>2, <1>3, <1>4, <1>5 DEF WindowSettled, InWindow
<1>7. DivergenceRecorded' /\ AheadEmpty' /\ DrainRecorded'
  BY <1>1, <1>5 DEF DivergenceRecorded, AheadEmpty, DrainRecorded
<1>8. PhaseOK' /\ OpenWritesRecorded'
  BY <1>1, <1>2 DEF PhaseOK, Mirroring, OpenWritesRecorded
<1> QED
  BY <1>6, <1>7, <1>8

LEMMA CatchUpDeleteInv ==
  ASSUME RewriteInv, TypeOK', CatchUpDelete
  PROVE  RewriteInv'
<1> USE DEF RewriteInv
<1>1. /\ pc = "delete" /\ pc' = "clear"
      /\ shadow' = DeletedMissing(shadow, Batch)
      /\ UNCHANGED <<source, swapped, trigger, changelog, change, logged, lastPk,
                     nextLast, raced, rekeyed>>
  BY DEF CatchUpDelete, appVars, cursorVars, history
<1>2. Tracked' = Tracked /\ Tracked \subseteq Keys
  BY <1>1 DEF Tracked
<1>3. \A k \in Keys : InBatch(k)' = InBatch(k) /\ Free(k)' = Free(k)
  BY <1>1 DEF InBatch, After, Free
<1>4. ASSUME NEW k \in Tracked, shadow'[k] # source[k]
      PROVE  k \in changelog /\ ~InBatch(k)
  <2>1. shadow[k] # source[k] /\ (k \in Batch => source[k] # NoRow)
    BY <1>1, <1>2, <1>4 DEF DeletedMissing
  <2>2. k \in changelog
    BY <1>1, <2>1 DEF DivergenceRecorded, Passed, PhaseOK, Mirroring
  <2> QED
    BY <1>1, <2>1, <2>2 DEF WindowSettled, Batch
<1>5. WindowSettled'
  BY <1>1, <1>2, <1>3, <1>4 DEF WindowSettled, InWindow
<1>6. DivergenceRecorded' /\ AheadEmpty' /\ DrainRecorded'
  BY <1>1, <1>2, <1>4 DEF DivergenceRecorded, AheadEmpty, DrainRecorded
<1>7. PhaseOK' /\ OpenWritesRecorded'
  BY <1>1, <1>2 DEF PhaseOK, Mirroring, OpenWritesRecorded
<1> QED
  BY <1>5, <1>6, <1>7

\* What the clear removes belongs to keys that agree and that no one writes.
LEMMA CatchUpClearInv ==
  ASSUME RewriteInv, TypeOK', CatchUpClear
  PROVE  RewriteInv'
<1> USE DEF RewriteInv
<1>1. /\ pc = "clear" /\ pc' = "select"
      /\ changelog' = changelog \ Batch
      /\ UNCHANGED <<source, shadow, swapped, trigger, change, logged, raced, rekeyed>>
  BY DEF CatchUpClear, appVars, history
<1>2. Tracked' = Tracked /\ Tracked \subseteq Keys
  BY <1>1 DEF Tracked
<1>3. \A k \in Tracked : k \in Batch => Free(k) /\ shadow[k] = source[k]
  BY <1>1 DEF WindowSettled, InWindow, Batch
<1>4. OpenWritesRecorded'
  BY <1>1, <1>2, <1>3 DEF OpenWritesRecorded, Free
<1>5. DivergenceRecorded'
  BY <1>1, <1>2, <1>3 DEF DivergenceRecorded, Passed
<1>6. PhaseOK' /\ AheadEmpty' /\ WindowSettled' /\ DrainRecorded'
  BY <1>1 DEF PhaseOK, Mirroring, AheadEmpty, WindowSettled, InWindow, DrainRecorded
<1> QED
  BY <1>4, <1>5, <1>6

\* Statements that only move the migrator on, between two phases or to failure.
LEMMA ControlInv ==
  ASSUME RewriteInv, TypeOK',
         \/ CatchUpSelect \/ CatchUpEnd \/ RequestLock
         \/ CutoverNotConverged \/ WithinBudget \/ Fail
  PROVE  RewriteInv'
<1> USE DEF RewriteInv
<1>1. /\ UNCHANGED <<source, shadow, swapped, trigger, changelog, change, logged,
                     raced, rekeyed, lastPk>>
      /\ pc' \in {"upsert", "lock", "lockwait", "failed", "done"}
      /\ pc # "backfill"  \/ pc' = "failed"
      /\ pc' = "done" => pc = "budget"
      /\ pc' # "done" /\ pc' # "failed" => pc \in {"select", "lock"}
  BY DEF CatchUpSelect, CatchUpEnd, RequestLock, CutoverNotConverged, WithinBudget,
         Fail, dbVars, appVars, history, cursorVars
<1>2. Tracked' = Tracked
  BY <1>1 DEF Tracked
<1>3. PhaseOK'
  BY <1>1 DEF PhaseOK, Mirroring
<1>4. AheadEmpty' /\ WindowSettled' /\ DrainRecorded'
  BY <1>1 DEF AheadEmpty, WindowSettled, InWindow, DrainRecorded
<1>5. OpenWritesRecorded'
  BY <1>1, <1>2 DEF OpenWritesRecorded
<1>6. DivergenceRecorded'
  BY <1>1, <1>2 DEF DivergenceRecorded, Passed, PhaseOK, Mirroring
<1> QED
  BY <1>3, <1>4, <1>5, <1>6

\* Phase 5.  The lock is granted while no write is open and keeps new ones
\* out, so what the transaction has drained stays equal to the source.
LEMMA AcquireLockInv ==
  ASSUME RewriteInv, TypeOK', AcquireLock
  PROVE  RewriteInv'
<1> USE DEF RewriteInv
<1>1. /\ pc = "lockwait" /\ pc' = "drain" /\ Quiet
      /\ txShadow' = shadow /\ txLog' = changelog
      /\ UNCHANGED <<source, shadow, swapped, trigger, changelog, change, logged,
                     raced, rekeyed>>
  BY DEF AcquireLock, dbVars, appVars, history
<1>2. Tracked' = Tracked
  BY <1>1 DEF Tracked
<1>3. \A k \in Tracked : shadow[k] # source[k] => k \in changelog
  BY <1>1 DEF DivergenceRecorded, Passed, PhaseOK, Mirroring
<1>4. DrainRecorded' /\ DivergenceRecorded'
  BY <1>1, <1>2, <1>3 DEF DrainRecorded, Quiet, DivergenceRecorded
<1>5. PhaseOK' /\ AheadEmpty' /\ OpenWritesRecorded' /\ WindowSettled'
  BY <1>1, <1>2 DEF PhaseOK, Mirroring, AheadEmpty, OpenWritesRecorded,
                    WindowSettled, InWindow
<1> QED
  BY <1>4, <1>5

LEMMA CutoverDrainInv ==
  ASSUME RewriteInv, TypeOK', CutoverDrain
  PROVE  RewriteInv'
<1> USE DEF RewriteInv
<1>1. PICK b \in ChunkEnds(txLog, ChunkSize) :
        LET batch == {k \in txLog : k <= b}
        IN  /\ txShadow' = DeletedMissing(Upserted(txShadow, batch), batch)
            /\ txLog' = txLog \ batch
  BY DEF CutoverDrain
<1>2. /\ pc = "drain" /\ pc' = "drain"
      /\ UNCHANGED <<source, shadow, swapped, trigger, changelog, change, logged,
                     raced, rekeyed>>
  BY DEF CutoverDrain, dbVars, appVars, history
<1>3. Tracked' = Tracked /\ Tracked \subseteq Keys
  BY <1>2 DEF Tracked
<1>4. ASSUME NEW k \in Tracked, txShadow'[k] # source[k]
      PROVE  k \in txLog'
  <2> DEFINE batch == {j \in txLog : j <= b}
  <2>1. k \notin batch
    BY <1>1, <1>3, <1>4 DEF DeletedMissing, Upserted
  <2>2. txShadow'[k] = txShadow[k]
    BY <1>1, <1>3, <2>1 DEF DeletedMissing, Upserted
  <2>3. k \in txLog
    BY <1>2, <1>4, <2>2 DEF DrainRecorded
  <2> QED
    BY <1>1, <2>1, <2>3
<1>5. DrainRecorded'
  BY <1>2, <1>3, <1>4 DEF DrainRecorded, Quiet
<1>6. PhaseOK' /\ AheadEmpty' /\ OpenWritesRecorded' /\ WindowSettled' /\ DivergenceRecorded'
  BY <1>2, <1>3 DEF PhaseOK, AheadEmpty, OpenWritesRecorded, WindowSettled,
                    InWindow, DivergenceRecorded, Passed
<1> QED
  BY <1>5, <1>6

LEMMA CutoverCommitInv ==
  ASSUME RewriteInv, TypeOK', CutoverCommit
  PROVE  /\ RewriteInv'
         /\ source' = source /\ Quiet
         /\ \A k \in Tracked : shadow'[k] = source[k]
<1> USE DEF RewriteInv
<1>1. /\ pc = "drain" /\ pc' = "budget" /\ txLog = {} /\ shadow' = txShadow
      /\ swapped' = TRUE /\ trigger' = FALSE
      /\ UNCHANGED <<source, change, logged>>
  BY DEF CutoverCommit, appVars
<1>2. Quiet /\ \A k \in Tracked : shadow'[k] = source[k]
  BY <1>1 DEF DrainRecorded
<1>3. RewriteInv'
  BY <1>1 DEF PhaseOK, Mirroring, AheadEmpty, OpenWritesRecorded, WindowSettled,
              InWindow, DivergenceRecorded, DrainRecorded
<1> QED
  BY <1>1, <1>2, <1>3

LEMMA InvNext == RewriteInv /\ [Next]_vars => RewriteInv'
<1> SUFFICES ASSUME RewriteInv, [Next]_vars PROVE RewriteInv'
  OBVIOUS
<1>1. TypeOK'
  BY TypeNext DEF RewriteInv
<1>2. ASSUME NEW w \in Writers, Write(w) \/ Commit(w) \/ Abort(w) PROVE RewriteInv'
  BY <1>1, <1>2, WriteInv, CommitInv, AbortInv
<1>3. CASE CreateTables \/ RequestTrigger \/ InstallTrigger
  BY <1>1, <1>3, SetupInv
<1>4. CASE BackfillBatch \/ BackfillEnd
  BY <1>1, <1>4, BackfillBatchInv, BackfillEndInv
<1>5. CASE CatchUpUpsert \/ CatchUpDelete \/ CatchUpClear
  BY <1>1, <1>5, CatchUpUpsertInv, CatchUpDeleteInv, CatchUpClearInv
<1>6. CASE \/ CatchUpSelect \/ CatchUpEnd \/ RequestLock
           \/ CutoverNotConverged \/ WithinBudget \/ Fail
  BY <1>1, <1>6, ControlInv
<1>7. CASE AcquireLock \/ CutoverDrain \/ CutoverCommit
  BY <1>1, <1>7, AcquireLockInv, CutoverDrainInv, CutoverCommitInv
<1>8. CASE UNCHANGED vars
  <2>1. UNCHANGED <<source, shadow, swapped, trigger, changelog, change, logged, pc,
                    lastPk, nextLast, round, txShadow, txLog, raced, rekeyed>>
    BY <1>8 DEF vars, dbVars, appVars, cursorVars, txVars, history
  <2> QED
    BY <1>1, <2>1 DEF RewriteInv, PhaseOK, AheadEmpty, OpenWritesRecorded,
       WindowSettled, DivergenceRecorded, DrainRecorded, Tracked, Passed, After,
       InBatch, InWindow, Free, Quiet
<1> QED
  BY <1>2, <1>3, <1>4, <1>5, <1>6, <1>7, <1>8 DEF Next, Advance, Finished

\* The inductive invariant holds in every reachable state.
THEOREM InvariantHolds == Spec => []RewriteInv
BY InvInit, InvNext, PTL DEF Spec

\* From the trigger's installation to the swap, every difference between the
\* tables under a tracked key the backfill has passed is in the changelog, and
\* every open write under such a key is or will be.
THEOREM ChangelogComplete == Spec => [](DivergenceRecorded /\ OpenWritesRecorded)
<1>1. RewriteInv => DivergenceRecorded /\ OpenWritesRecorded
  BY DEF RewriteInv
<1> QED
  BY <1>1, InvariantHolds, PTL

-----------------------------------------------------------------------------
(* What the cutover guarantees. *)

\* The swap is CutoverCommit and nothing else.
LEMMA SwapStep ==
  ASSUME [Next]_vars, swapped' # swapped
  PROVE  CutoverCommit
<1>1. ASSUME NEW w \in Writers, Write(w) \/ Commit(w) \/ Abort(w) PROVE UNCHANGED swapped
  BY <1>1 DEF Write, Commit, Abort, dbVars
<1> QED
  BY <1>1 DEF Next, Advance, Finished, vars, dbVars, CreateTables, RequestTrigger,
     InstallTrigger, BackfillBatch, BackfillEnd, CatchUpSelect, CatchUpUpsert,
     CatchUpDelete, CatchUpClear, CatchUpEnd, RequestLock, AcquireLock,
     CutoverDrain, CutoverNotConverged, WithinBudget, Fail

\* The table the cutover swaps in has, under every key but those whose write
\* overlapped a catch-up window or moved the row, the committed source row.
THEOREM SwapIsFaithful == Spec => SwapFaithful
<1>1. ASSUME RewriteInv, RewriteInv', [Next]_vars
      PROVE  [swapped' # swapped => \A k \in Tracked : shadow'[k] = source[k]]_vars
  BY <1>1, SwapStep, CutoverCommitInv DEF RewriteInv
<1> QED
  BY <1>1, InvariantHolds, PTL DEF Spec, SwapFaithful

\* After the swap no step changes the backup, and none is open at the swap.
LEMMA BackupStep ==
  ASSUME RewriteInv, RewriteInv', [Next]_vars, swapped'
  PROVE  source' = source /\ (swapped \/ Quiet)
<1>1. CASE ~swapped
  <2>1. CutoverCommit
    BY <1>1, SwapStep DEF RewriteInv, TypeOK
  <2> QED
    BY <2>1, CutoverCommitInv DEF RewriteInv
<1>2. CASE swapped
  <2>1. ASSUME NEW w \in Writers, Write(w) \/ Commit(w) \/ Abort(w) PROVE source' = source
    BY <1>2, <2>1 DEF Write, Commit, Abort, dbVars
  <2> QED
    BY <1>2, <2>1 DEF Next, Advance, Finished, vars, dbVars, CreateTables, RequestTrigger,
       InstallTrigger, BackfillBatch, BackfillEnd, CatchUpSelect, CatchUpUpsert,
       CatchUpDelete, CatchUpClear, CatchUpEnd, RequestLock, AcquireLock,
       CutoverDrain, CutoverCommit, CutoverNotConverged, WithinBudget, Fail
<1> QED
  BY <1>1, <1>2

\* The backup keeps the rows committed before the swap for ever.
THEOREM BackupIsFrozen == Spec => BackupFrozen
<1>1. ASSUME RewriteInv, RewriteInv', [Next]_vars
      PROVE  [swapped' => source' = source /\ (swapped \/ Quiet)]_vars
  BY <1>1, BackupStep
<1> QED
  BY <1>1, InvariantHolds, PTL DEF Spec, BackupFrozen

-----------------------------------------------------------------------------
(* The rewrite implements the live table. *)

\* Table and workload mean the same in both modules.
LEMMA SameWorkload ==
  /\ \A t : LT!ChangesOn(t) = ChangesOn(t)
  /\ \A c : LT!Touched(c) = Touched(c)
  /\ \A t, c : LT!Apply(t, c) = Apply(t, c)
  /\ \A k : LT!Free(k) <=> Free(k)
BY DEF LT!ChangesOn, LT!Inserts, LT!Appends, LT!Updates, LT!Deletes, LT!Rekeys,
       LT!SetRow, LT!Present, ChangesOn, Inserts, Appends, Updates, Deletes,
       Rekeys, SetRow, Present, LT!Touched, Touched, LT!Apply, Apply, LT!Free, Free

\* Writers' steps are the same steps; the swap exchanges two equal tables.
LEMMA LiveStep ==
  ASSUME RewriteInv, RewriteInv', [Next]_vars, Tracked' = Keys
  PROVE  [LT!Next]_<<live, change>>
<1>1. ASSUME NEW w \in Writers, Write(w) PROVE LT!Write(w)
  <2>1. live' = live
    BY <1>1 DEF Write, dbVars, live
  <2> QED
    BY <1>1, <2>1, SameWorkload DEF Write, LT!Write
<1>2. ASSUME NEW w \in Writers, Commit(w) PROVE LT!Commit(w)
  BY <1>2, SameWorkload DEF Commit, LT!Commit, live
<1>3. ASSUME NEW w \in Writers, Abort(w) PROVE LT!Abort(w)
  BY <1>3 DEF Abort, LT!Abort, live, dbVars
<1>4. CASE CutoverCommit
  <2>1. Tracked = Keys
    BY <1>4 DEF CutoverCommit, history, Tracked
  <2>2. \A k \in Keys : shadow'[k] = source[k]
    BY <1>4, <2>1, CutoverCommitInv DEF RewriteInv
  <2>3. shadow' = source
    BY <2>2 DEF RewriteInv, TypeOK, Table
  <2>4. live' = live
    BY <1>4, <2>3 DEF CutoverCommit, live, RewriteInv, PhaseOK
  <2> QED
    BY <1>4, <2>4 DEF CutoverCommit, appVars
<1>5. ASSUME ~CutoverCommit, \A w \in Writers : ~Write(w) /\ ~Commit(w) /\ ~Abort(w)
      PROVE  UNCHANGED <<live, change>>
  <2>1. CASE CreateTables \/ BackfillBatch \/ CatchUpUpsert \/ CatchUpDelete
    <3>1. ~swapped /\ ~swapped'
      BY <2>1 DEF CreateTables, BackfillBatch, CatchUpUpsert, CatchUpDelete,
                  RewriteInv, PhaseOK
    <3> QED
      BY <2>1, <3>1 DEF CreateTables, BackfillBatch, CatchUpUpsert, CatchUpDelete,
                        live, appVars
  <2>2. CASE UNCHANGED <<source, shadow, swapped, change>>
    BY <2>2 DEF live
  <2>3. \/ CreateTables \/ BackfillBatch \/ CatchUpUpsert \/ CatchUpDelete
        \/ UNCHANGED <<source, shadow, swapped, change>>
    BY <1>5 DEF Next, Advance, Finished, vars, dbVars, appVars, RequestTrigger,
       InstallTrigger, BackfillEnd, CatchUpSelect, CatchUpClear, CatchUpEnd,
       RequestLock, AcquireLock, CutoverDrain, CutoverNotConverged, WithinBudget, Fail
  <2> QED
    BY <2>1, <2>2, <2>3
<1> QED
  BY <1>1, <1>2, <1>3, <1>4, <1>5 DEF LT!Next

\* Every step is a step of the live table or invisible, if all keys are tracked.
THEOREM StepsImplementLiveTable == Spec => LiveTableStep
<1>1. ASSUME RewriteInv, RewriteInv', [Next]_vars
      PROVE  [Tracked' = Keys => [LT!Next]_<<live, change>>]_vars
  BY <1>1, LiveStep
<1> QED
  BY <1>1, InvariantHolds, PTL DEF Spec, LiveTableStep

\* A behaviour in which no write overlaps a catch-up window and no key is moved
\* implements the live table, whatever the sizes, the writers and the failures.
THEOREM RefinesLiveTable == Spec /\ [](Tracked = Keys) => ImplementsLiveTable
<1>1. Init => LT!Init
  BY EmptyType DEF Init, LT!Init, live, LT!Table, Table
<1>2. ASSUME RewriteInv, RewriteInv', [Next]_vars, (Tracked = Keys)'
      PROVE  [LT!Next]_LT!ltVars
  BY <1>2, LiveStep DEF LT!ltVars
<1> QED
  BY <1>1, <1>2, InvariantHolds, PTL DEF Spec, ImplementsLiveTable, LT!Spec
=============================================================================
