------------------------- MODULE OnlineRewriteProps -------------------------
(***************************************************************************)
(* What an online rewrite must guarantee, stated over OnlineRewrite.       *)
(***************************************************************************)
EXTENDS OnlineRewrite

\* The state components keep their types.  The cursors are keys only while a
\* loop that compares with them runs, and a round that began may still end.
TypeOK ==
  /\ source \in Table /\ shadow \in Table /\ txShadow \in Table
  /\ swapped \in BOOLEAN /\ trigger \in BOOLEAN
  /\ changelog \in SUBSET Keys /\ txLog \in SUBSET Keys
  /\ change \in [Writers -> Change \cup {Idle}]
  /\ logged \in [Writers -> SUBSET Keys]
  /\ pc \in Steps \cup {"done", "failed"}
  /\ lastPk \in Keys \cup {NoKey} /\ nextLast \in Keys \cup {NoKey}
  /\ pc \in {"upsert", "delete", "clear"} => nextLast \in Keys /\ round < MaxRounds
  /\ round \in 0..MaxRounds /\ writes \in 0..MaxWrites
  /\ raced \in SUBSET Keys /\ rekeyed \in SUBSET Keys

\* Keys whose every write the changelog protocol can see.
Tracked == Keys \ (raced \cup rekeyed)

(***************************************************************************)
(* Divergence is recorded.  From the moment the backfill has passed a key, *)
(* if the shadow row under it differs from the committed source row, the   *)
(* changelog holds the key: nothing but a changelog row can make the       *)
(* catch-up or the final drain look at it again.  (In the middle of a      *)
(* catch-up round the batch's own rows are settled step by step.)          *)
(***************************************************************************)
Passed(k) == pc = "backfill" => ~After(k)

DivergenceRecorded ==
  trigger /\ pc # "failed" =>
    \A k \in Tracked : Passed(k) /\ shadow[k] # source[k] => k \in changelog

\* A writer's uncommitted change under a tracked key will be visible to the
\* drain when it commits: its changelog row exists or commits with it.
OpenWritesRecorded ==
  trigger => \A w \in Writers : change[w] # Idle =>
    \A k \in Touched(change[w]) \cap Tracked : k \in changelog \cup logged[w]

\* The cutover replaces the table by one that holds the same rows, except
\* possibly under a key whose write overlapped a catch-up window or was moved.
SwapFaithful ==
  [][swapped' # swapped => \A k \in Tracked : shadow'[k] = source[k]]_vars

\* "keeps a backup table with the original data": the backup holds exactly
\* the rows committed before the swap, and no later commit reaches it.
BackupFrozen ==
  [][swapped' => source' = source /\ (swapped \/ Quiet)]_vars

\* An exclusive lock the migrator queues for or holds is given up again, so
\* that writers are not blocked for ever.
WritersUnblocked == Locked ~> ~Locked

\* Every attempt ends, with the swap done or an error returned.
AttemptEnds == <>(pc \in {"done", "failed"})

-----------------------------------------------------------------------------
(* Why SwapFaithful and BackupFrozen hold: the inductive invariant.        *)

Mirroring == {"backfill", "select", "upsert", "delete", "clear", "lock",
              "lockwait", "drain"}

\* Which of the committed flags go with which step, and what is still empty.
PhaseOK ==
  /\ swapped => pc \in {"budget", "done", "failed"} /\ ~trigger
  /\ pc # "failed" => (trigger <=> pc \in Mirroring)
  /\ pc \in {"trigger", "trigwait"} => shadow = Empty /\ changelog = {}
  /\ pc \in {"create", "trigger", "trigwait"} =>
       logged = [w \in Writers |-> {}] /\ lastPk = NoKey

\* The backfill has put no row above its cursor yet.
AheadEmpty == pc = "backfill" => \A k \in Keys : After(k) => shadow[k] = NoRow

\* Inside a window no open write touches a tracked key of the batch, and the
\* batch's tracked keys are settled: all but the deleted ones, then all.
WindowSettled ==
  /\ \A k \in Tracked : InWindow(k) => Free(k)
  /\ pc = "delete" =>
       \A k \in Tracked : InBatch(k) /\ shadow[k] # source[k] => source[k] = NoRow
  /\ pc = "clear" =>
       \A k \in Tracked : InBatch(k) => shadow[k] = source[k]

\* Under the lock no write is open, and what the transaction has not yet
\* repaired is still in its view of the changelog.
DrainRecorded ==
  pc = "drain" => /\ Quiet
                  /\ \A k \in Tracked : txShadow[k] # source[k] => k \in txLog

RewriteInv ==
  /\ TypeOK
  /\ PhaseOK
  /\ AheadEmpty
  /\ OpenWritesRecorded
  /\ WindowSettled
  /\ DivergenceRecorded
  /\ DrainRecorded

-----------------------------------------------------------------------------
(* The promise to the application, and two statements of the repository. *)

LT == INSTANCE LiveTable WITH table <- live

\* Reads and writes of the live table are those of one table: no step of the
\* migration, failed or not, changes what the application finds in it.
ImplementsLiveTable == LT!Spec

\* For every workload, as long as all keys are tracked: each step, the swap and
\* any failure included, is one of the live table or is not seen there.
LiveTableStep == [][Tracked' = Keys => [LT!Next]_<<live, change>>]_vars

\* "expected at least {expected_min} rows after deletes"
\* (orsx/tests/migrations_online_big_uuid.rs:619-625): the table swapped in
\* has at least the seeded rows plus those inserted minus those deleted.
RowCountKept ==
  [][swapped' # swapped =>
       Cardinality(Present(shadow')) >= Cardinality(Present(source))]_vars
=============================================================================
