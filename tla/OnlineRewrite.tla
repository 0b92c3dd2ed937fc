--------------------------- MODULE OnlineRewrite ----------------------------
(***************************************************************************)
(* online_rewrite_table (orsx/src/migrations/online.rs): one attempt to    *)
(* replace a table by a shadow table of another schema while application   *)
(* transactions keep writing to it.                                        *)
(*                                                                         *)
(* Every SQL statement of the migrator commits on its own, and is a step,  *)
(* except the cutover, which is one transaction.  A writer's transaction   *)
(* is one statement (Write) and its end (Commit, Abort); the trigger runs  *)
(* inside the statement.  The column expressions of the new schema map     *)
(* each row independently of the others, so a row keeps its payload.       *)
(***************************************************************************)
EXTENDS RowChanges

CONSTANTS
  Writers,    \* application sessions
  Idle,       \* the writer has no open transaction
  NoKey,      \* no cursor yet (last_pk = None)
  ChunkSize,  \* online_chunk_size
  ChunkMin,   \* online_chunk_size_min
  ChunkMax,   \* online_chunk_size_max
  MaxRounds,  \* max_online_catchup_rounds
  MaxWrites   \* bound: statements the writers issue in a behaviour

ASSUME NoKeyAssumption == NoKey \notin Int
ASSUME IdleAssumption == Idle \notin Change
ASSUME ChunkAssumption == /\ ChunkSize \in Nat
                          /\ ChunkMin \in Nat \ {0} /\ ChunkMax \in Nat \ {0}
ASSUME BoundAssumption == MaxRounds \in Nat /\ MaxWrites \in Nat

VARIABLES
  source,    \* committed rows of the original table (the backup, once swapped)
  shadow,    \* committed rows of the shadow table (the live one, once swapped)
  swapped,   \* the cutover has committed its two renames
  trigger,   \* the mirror trigger is installed on the original table
  changelog, \* committed rows of the changelog table
  change,    \* each writer's open change
  logged,    \* changelog rows the trigger inserted in that open transaction
  pc,        \* the statement the migrator runs next
  lastPk,    \* last_pk of the running batch loop
  nextLast,  \* next_last of the running catch-up round
  round,     \* rounds done by the running drain loop
  txShadow,  \* shadow as the open cutover transaction sees it
  txLog,     \* changelog as the open cutover transaction sees it
  writes,    \* statements issued so far (bounded by MaxWrites)
  raced,     \* history: keys whose write overlapped the window of their batch
  rekeyed    \* history: keys that lost their row to an UPDATE of the key

dbVars == <<source, shadow, swapped, trigger, changelog>>
appVars == <<change, logged, writes>>
cursorVars == <<lastPk, nextLast, round>>
txVars == <<txShadow, txLog>>
history == <<raced, rekeyed>>
vars == <<dbVars, appVars, pc, cursorVars, txVars, history>>

Empty == [k \in Keys |-> NoRow]

Steps == {"create", "trigger", "trigwait", "backfill", "select", "upsert",
          "delete", "clear", "lock", "lockwait", "drain", "budget"}

Init ==
  /\ source \in Table
  /\ shadow = Empty
  /\ swapped = FALSE
  /\ trigger = FALSE
  /\ changelog = {}
  /\ change = [w \in Writers |-> Idle]
  /\ logged = [w \in Writers |-> {}]
  /\ pc = "create"
  /\ lastPk = NoKey /\ nextLast = NoKey /\ round = 0
  /\ txShadow = Empty /\ txLog = {}
  /\ writes = 0
  /\ raced = {} /\ rekeyed = {}

-----------------------------------------------------------------------------
(* Key ranges and chunks. *)

After(k) == lastPk = NoKey \/ k > lastPk

InBatch(k) == After(k) /\ k <= nextLast

BackfillChunk == IF ChunkSize < 1 THEN 1 ELSE ChunkSize

\* AdaptiveChunk::from_cfg and clamp_size; the controller itself is off.
CatchUpChunk ==
  LET lo == IF ChunkMin <= ChunkMax THEN ChunkMin ELSE ChunkMax
      hi == IF ChunkMin <= ChunkMax THEN ChunkMax ELSE ChunkMin
  IN  IF ChunkSize < lo THEN lo ELSE IF ChunkSize > hi THEN hi ELSE ChunkSize

-----------------------------------------------------------------------------
(* The application's writers. *)

live == IF swapped THEN shadow ELSE source

Quiet == \A w \in Writers : change[w] = Idle

Free(k) == \A w \in Writers : change[w] # Idle => k \notin Touched(change[w])

\* A granted or queued table lock makes new statements wait.
Locked == pc \in {"trigwait", "lockwait", "drain"}

\* From the upsert of a batch to its clear, a write under a key of the batch
\* finds its changelog row present, adds none, and the clear removes it.
InWindow(k) == pc \in {"delete", "clear"} /\ InBatch(k)

\* create_mirror_trigger: AFTER each row, INSERT the key (OLD's if a DELETE,
\* else NEW's) ON CONFLICT DO NOTHING, in the writer's own transaction.
MirrorRow(c) == IF trigger THEN {c.to} \ changelog ELSE {}

Write(w) ==
  /\ ~Locked
  /\ change[w] = Idle
  /\ writes < MaxWrites
  /\ \E c \in ChangesOn(live) :
        /\ \A k \in Touched(c) : Free(k)
        /\ change' = [change EXCEPT ![w] = c]
        /\ logged' = [logged EXCEPT ![w] = MirrorRow(c)]
        /\ raced' = raced \cup {k \in Touched(c) : InWindow(k)}
        /\ rekeyed' = rekeyed \cup ({c.from} \ {c.to})
  /\ writes' = writes + 1
  /\ UNCHANGED <<dbVars, pc, cursorVars, txVars>>

Commit(w) ==
  /\ change[w] # Idle
  /\ IF swapped THEN /\ shadow' = Apply(shadow, change[w]) /\ UNCHANGED source
                ELSE /\ source' = Apply(source, change[w]) /\ UNCHANGED shadow
  /\ changelog' = changelog \cup logged[w]
  /\ change' = [change EXCEPT ![w] = Idle]
  /\ logged' = [logged EXCEPT ![w] = {}]
  /\ UNCHANGED <<swapped, trigger, writes, pc, cursorVars, txVars, history>>

Abort(w) ==
  /\ change[w] # Idle
  /\ change' = [change EXCEPT ![w] = Idle]
  /\ logged' = [logged EXCEPT ![w] = {}]
  /\ UNCHANGED <<dbVars, writes, pc, cursorVars, txVars, history>>

-----------------------------------------------------------------------------
(* Phases 1 to 3: shadow, changelog, trigger, backfill. *)

\* CREATE TABLE of the shadow, then of the changelog: both start empty.
CreateTables ==
  /\ pc = "create"
  /\ shadow' = Empty /\ changelog' = {}
  /\ pc' = "trigger"
  /\ UNCHANGED <<source, swapped, trigger, appVars, cursorVars, txVars, history>>

\* CREATE TRIGGER asks for a SHARE ROW EXCLUSIVE lock on the table ...
RequestTrigger ==
  /\ pc = "trigger"
  /\ pc' = "trigwait"
  /\ UNCHANGED <<dbVars, appVars, cursorVars, txVars, history>>

\* ... and gets it when the transactions that wrote to the table have ended.
InstallTrigger ==
  /\ pc = "trigwait"
  /\ Quiet
  /\ trigger' = TRUE
  /\ pc' = "backfill"
  /\ UNCHANGED <<source, shadow, swapped, changelog, appVars, cursorVars,
                 txVars, history>>

Unread == {k \in Present(source) : After(k)}

\* MUTANT of BackfillBatch: the page is copied up to, not including, its end.
BackfillBatchShort ==
  /\ pc = "backfill"
  /\ \E b \in ChunkEnds(Unread, BackfillChunk) :
        /\ shadow' = [k \in Keys |-> IF k \in Unread /\ k < b /\ shadow[k] = NoRow
                                     THEN source[k] ELSE shadow[k]]
        /\ lastPk' = b
  /\ UNCHANGED <<source, swapped, trigger, changelog, appVars, pc, nextLast,
                 round, txVars, history>>

\* MUTANT of BackfillBatch: last_pk is not moved.
BackfillBatchStuck ==
  /\ pc = "backfill"
  /\ \E b \in ChunkEnds(Unread, BackfillChunk) :
        shadow' = [k \in Keys |-> IF k \in Unread /\ k <= b /\ shadow[k] = NoRow
                                  THEN source[k] ELSE shadow[k]]
  /\ UNCHANGED <<source, swapped, trigger, changelog, appVars, pc, lastPk, nextLast,
                 round, txVars, history>>

\* One round trip of backfill_sequential: copy the next chunk of committed
\* rows (ON CONFLICT DO NOTHING) and move the cursor to its last key.
BackfillBatch ==
  /\ pc = "backfill"
  /\ \E b \in ChunkEnds(Unread, BackfillChunk) :
        /\ shadow' = [k \in Keys |-> IF k \in Unread /\ k <= b /\ shadow[k] = NoRow
                                     THEN source[k] ELSE shadow[k]]
        /\ lastPk' = b
  /\ UNCHANGED <<source, swapped, trigger, changelog, appVars, pc, nextLast,
                 round, txVars, history>>

BackfillEnd ==
  /\ pc = "backfill"
  /\ Unread = {}
  /\ lastPk' = NoKey
  /\ pc' = "select"
  /\ UNCHANGED <<dbVars, appVars, nextLast, round, txVars, history>>

-----------------------------------------------------------------------------
(* Phase 4: catch_up_best_effort.  Each round is four statements. *)

Pending == {k \in changelog : After(k)}

CatchUpSelect ==
  /\ pc = "select"
  /\ round < MaxRounds
  /\ \E b \in ChunkEnds(Pending, CatchUpChunk) : nextLast' = b
  /\ pc' = "upsert"
  /\ UNCHANGED <<dbVars, appVars, lastPk, round, txVars, history>>

\* No row left above the cursor, or out of rounds: go on to the cutover.
CatchUpEnd ==
  /\ pc = "select"
  /\ round >= MaxRounds \/ Pending = {}
  /\ round' = 0
  /\ pc' = "lock"
  /\ UNCHANGED <<dbVars, appVars, lastPk, nextLast, txVars, history>>

\* The changelog rows of the round's key range.
Batch == {k \in changelog : InBatch(k)}

\* MUTANT of Upserted: ON CONFLICT DO NOTHING.
UpsertedNoUpdate(to, batch) ==
  [k \in Keys |-> IF k \in batch /\ to[k] = NoRow THEN source[k] ELSE to[k]]

\* INSERT .. SELECT the source rows of a batch, ON CONFLICT DO UPDATE.
Upserted(to, batch) ==
  [k \in Keys |-> IF k \in batch /\ source[k] # NoRow THEN source[k] ELSE to[k]]

\* MUTANT of DeletedMissing: deletions are not carried over.
DeletedMissingNone(to, batch) == to

\* DELETE the shadow rows of a batch whose source row is gone.
DeletedMissing(to, batch) ==
  [k \in Keys |-> IF k \in batch /\ source[k] = NoRow THEN NoRow ELSE to[k]]

CatchUpUpsert ==
  /\ pc = "upsert"
  /\ shadow' = Upserted(shadow, Batch)
  /\ raced' = raced \cup {k \in Keys : ~Free(k) /\ InBatch(k)}
  /\ pc' = "delete"
  /\ UNCHANGED <<source, swapped, trigger, changelog, appVars, cursorVars,
                 txVars, rekeyed>>

CatchUpDelete ==
  /\ pc = "delete"
  /\ shadow' = DeletedMissing(shadow, Batch)
  /\ pc' = "clear"
  /\ UNCHANGED <<source, swapped, trigger, changelog, appVars, cursorVars,
                 txVars, history>>

\* MUTANT of CatchUpClear: DELETE FROM changelog without the key range.
CatchUpClearAll ==
  /\ pc = "clear"
  /\ changelog' = {}
  /\ lastPk' = nextLast
  /\ round' = round + 1
  /\ pc' = "select"
  /\ UNCHANGED <<source, shadow, swapped, trigger, appVars, nextLast, txVars,
                 history>>

CatchUpClear ==
  /\ pc = "clear"
  /\ changelog' = changelog \ Batch
  /\ lastPk' = nextLast
  /\ round' = round + 1
  /\ pc' = "select"
  /\ UNCHANGED <<source, shadow, swapped, trigger, appVars, nextLast, txVars,
                 history>>

-----------------------------------------------------------------------------
(* Phase 5: cutover, one transaction. *)

\* BEGIN; LOCK TABLE .. IN ACCESS EXCLUSIVE MODE queues behind open writers
\* and ahead of new ones.
RequestLock ==
  /\ pc = "lock"
  /\ pc' = "lockwait"
  /\ UNCHANGED <<dbVars, appVars, cursorVars, txVars, history>>

\* MUTANT of AcquireLock: a lock mode that does not conflict with writers.
AcquireLockShared ==
  /\ pc = "lockwait"
  /\ txShadow' = shadow /\ txLog' = changelog
  /\ pc' = "drain"
  /\ UNCHANGED <<dbVars, appVars, cursorVars, history>>

AcquireLock ==
  /\ pc = "lockwait"
  /\ Quiet
  /\ txShadow' = shadow /\ txLog' = changelog
  /\ pc' = "drain"
  /\ UNCHANGED <<dbVars, appVars, cursorVars, history>>

\* One round of the final drain: select, upsert, delete, clear.  The table is
\* locked and the transaction commits or rolls back as a whole.
CutoverDrain ==
  /\ pc = "drain"
  /\ round < MaxRounds
  /\ \E b \in ChunkEnds(txLog, ChunkSize) :
        LET batch == {k \in txLog : k <= b}
        IN  /\ txShadow' = DeletedMissing(Upserted(txShadow, batch), batch)
            /\ txLog' = txLog \ batch
  /\ round' = round + 1
  /\ UNCHANGED <<dbVars, appVars, pc, lastPk, nextLast, history>>

\* MUTANT of DrainOver: the drain waits for an empty changelog.
DrainOverEmpty == txLog = {}

DrainOver == round >= MaxRounds \/ ChunkEnds(txLog, ChunkSize) = {}

\* MUTANT of CutoverCommit: the remaining changelog rows are not counted.
CutoverCommitUnchecked ==
  /\ pc = "drain"
  /\ DrainOver
  /\ shadow' = txShadow
  /\ changelog' = {}
  /\ swapped' = TRUE
  /\ trigger' = FALSE
  /\ pc' = "budget"
  /\ UNCHANGED <<source, appVars, cursorVars, txVars, history>>

\* Nothing remains: rename source to backup and shadow to source, drop the
\* trigger and the changelog, COMMIT.
CutoverCommit ==
  /\ pc = "drain"
  /\ DrainOver
  /\ txLog = {}
  /\ shadow' = txShadow
  /\ changelog' = {}
  /\ swapped' = TRUE
  /\ trigger' = FALSE
  /\ pc' = "budget"
  /\ UNCHANGED <<source, appVars, cursorVars, txVars, history>>

\* "cutover drain did not converge": return Err, the transaction rolls back.
CutoverNotConverged ==
  /\ pc = "drain"
  /\ DrainOver
  /\ txLog # {}
  /\ pc' = "failed"
  /\ UNCHANGED <<dbVars, appVars, cursorVars, txVars, history>>

WithinBudget ==
  /\ pc = "budget"
  /\ pc' = "done"
  /\ UNCHANGED <<dbVars, appVars, cursorVars, txVars, history>>

\* Any statement may fail, the process may die, the commit may be late for
\* cutover_lock_budget_ms: `?` returns and nothing already committed is undone.
Fail ==
  /\ pc \in Steps
  /\ pc' = "failed"
  /\ UNCHANGED <<dbVars, appVars, cursorVars, txVars, history>>

-----------------------------------------------------------------------------
Advance ==
  \/ CreateTables \/ RequestTrigger \/ InstallTrigger
  \/ BackfillBatch \/ BackfillEnd
  \/ CatchUpSelect \/ CatchUpUpsert \/ CatchUpDelete \/ CatchUpClear
  \/ CatchUpEnd
  \/ RequestLock \/ AcquireLock \/ CutoverDrain \/ CutoverCommit
  \/ CutoverNotConverged \/ WithinBudget

\* The attempt is over and the workload is exhausted.
Finished ==
  /\ pc \in {"done", "failed"}
  /\ Quiet
  /\ writes = MaxWrites \/ ChangesOn(live) = {}
  /\ UNCHANGED vars

Next ==
  \/ Advance
  \/ Fail
  \/ \E w \in Writers : Write(w) \/ Commit(w) \/ Abort(w)
  \/ Finished

Spec == Init /\ [][Next]_vars

\* The task that runs the migration is polled and the server answers it; a
\* writer ends the transactions it begins.  Nobody has to issue a statement.
FairSpec ==
  /\ Spec
  /\ WF_vars(Advance)
  /\ \A w \in Writers : WF_vars(Commit(w) \/ Abort(w))
=============================================================================
