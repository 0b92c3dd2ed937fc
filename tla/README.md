# A TLA+ model of ORSX-2

ORSX-2 is a Rust layer over `sqlx` for PostgreSQL. It does two things with a life of their
own: it changes the schema of live tables (`Migrations::init`), and it moves rows in bulk
between the wire protocol and column buffers (`columnar`). The rest is declarations
(the `#[orsx]` macros produce a `TableSpec`), value codecs and tools.

This directory models what can go wrong in the moving parts, checks it with TLC on small
instances and proves the central facts for all instances with TLAPS.

## 1. Inventory

| component | source (`src/`) | state it keeps | operations | interacts with |
|---|---|---|---|---|
| online rewrite | `orsx/src/migrations/online.rs` | shadow, changelog and backup tables, mirror trigger, cursors of the batch loops, the cutover transaction | create shadow, changelog and trigger; backfill; catch-up round (select, upsert, delete, clear); cutover (lock, drain, rename, clean up) | application writers through the source table, the trigger and the table lock; other migrators through object names |
| adaptive chunk | `online.rs` `AdaptiveChunk` | current chunk size | `from_cfg`, `clamp_size`, `adjust` | catch-up loop |
| parallel backfill | `online.rs` `parallel_backfill_bigint` | key ranges, one task and one cursor per range | partition the key span, spawn, page through a range, join | pool, writers, trigger |
| migration key | `online.rs` `ensure_migration_key` | column `__orsx_mig_id`, its sequence, default, NOT NULL and unique index | add column, fill in batches by `ctid`, set constraints | writers |
| migration driver | `orsx/src/migrations/{mod,planning,introspection}.rs` | none of its own: the catalog (columns, constraints, indexes) | create table; loop of renames and safe alters; rewrite; concurrent indexes; strictness checks | online rewrite, catalog, other migrators |
| configuration | `orsx/src/migrations/config.rs` | `MigrationConfig` | defaults | CONSTANTS of the models |
| columnar reader and batch | `orsx/src/columnar/types.rs` | COPY stream buffer and position, header and trailer flags, column buffers with validity, offsets, inline data and chunks | parse header, tuple and fields; push value or NULL; end of row; clear and reuse of a batch | server's chunks of COPY data |
| ORSXCOL codec | `orsx/src/columnar/orsxcol.rs` | none | encode a batch, decode bytes | columnar batch |
| compressed vectors | `orsx/src/compression.rs`, `compressed.rs` | thread-local workspace | build and parse an envelope, compress, decompress | `cydec` (external) |
| argument visitor | `orsx/src/flatten.rs` | argument buffer | visit one value per column | macros, `sqlx` |
| macros | `orsx-macros/src/lib.rs` | none | generate `TableSpec`, SQL and bind code at compile time | every other part, at compile time |
| declarations | `orsx/src/{schema,types,indexes,error,config,lib}.rs` | none | types | all |
| inventory generator | `bin/generate_global_inventory.rs` | files | writes `inventory.md` | none at run time |

### What is hard, and what makes each part correct

* **Online rewrite.** Writers commit between any two statements of the migrator; a changelog
  row is the only thing that makes it look at a key again; only the cutover is a transaction;
  any statement can fail and leaves what was committed. Correct: the table swapped in holds
  the rows of the one swapped out; the application never notices anything but the new
  schema; the backup is the old table; every attempt ends and gives its locks back.
* **Adaptive chunk.** Integer rounding in a feedback loop. Correct: the size stays between
  its bounds and settles at the target time from any start.
* **Parallel backfill.** 64-bit arithmetic on the extreme keys; tasks that page
  independently while rows appear and vanish. Correct: the ranges cover the span and do not
  overlap; when all tasks are done a row that is not in the shadow is in the changelog.
* **Migration key.** Batches by `ctid` race with updates that move rows; the loop stops on a
  batch that changed nothing. Correct: every row gets a distinct key, also those inserted
  meanwhile, and after a swap inserts still get one.
* **Migration driver.** A loop that reads the catalog, diffs and alters, with names derived
  from table, kind and column and with `IF NOT EXISTS`. Correct: it ends, a success means
  that schema and declared indexes are there, and a second run does nothing.
* **Several attempts.** Nothing keeps the rewrites of two replicas, or a retry and what a failed
  attempt has left, apart but object names made of a second; names are looked up when a
  statement runs, a trigger stays with its table. Correct: an attempt another one has overtaken
  never swaps in its stale shadow; no table with the application's rows loses its name; the
  application's statements never meet a trigger without its function or changelog. Seconds that
  attempts share are where the code does not keep all of it (see Disagreements).
* **Columnar reader.** A tuple may be cut anywhere by the chunk boundaries; buffers move when
  compacted; a batch is reused after an error. Correct: the rows delivered are the rows
  sent, whatever the cuts; all columns of a batch have the same length.
* **ORSXCOL and compressed vectors.** Buffers are reused by every encoding and by thread locals; a
  batch may have been decoded itself, or left by a failed read; bytes come back from a cache or
  the wire, perhaps cut, prolonged or changed. Correct: what was encoded comes back as it
  was or not at all, and a batch that is accepted can be read.

PROJECT.json lists the single hazards with their lines and the properties aimed at them.

## 2. Plan

Order: the most important behaviour first.

1. `RowChanges`, `LiveTable`, `OnlineRewrite` (+ `Props`, `MC`, `Proofs`): the rewrite and its
   abstract specification. *Done.*
2. `ParallelBackfill`: the partition with wrapping arithmetic and the tasks. *Done.*
3. `AdaptiveChunk`: the controller against a table with a constant cost per row. *Done.*
4. `MigrationKey`: `ensure_migration_key` beside writers, and its fate at a swap. *Done.*
5. `SchemaConvergence`: driver, planner and catalog: alters, rewrite, index names and
   validity, idempotence, and its inductive invariant (`SchemaConvergenceProofs`). *Done for one
   migrator.*
6. `RewriteFleet` (+ `Props`, `MC`, `Proofs`): attempts of several migrators and retries, with
   object names made of seconds, on one set of tables, triggers and names. *Done.*
7. *Next.* `RewriteDurability`: `synchronous_commit = off`, a server crash between the phases, the
   setting left on pooled connections. `UniqueColumnRewrite`: a UNIQUE column other than the
   key in the shadow.
8. `RowDelivery`, `ColumnarBatch`, `ColumnarReader`: both readers, chunk cuts, trailer, reuse
   after an error; refines "the rows of the query, in order", also by proof
   (`ColumnarBatchProofs`, `ColumnarReaderProofs`). *Done.*
9. `Orsxcol`, `CompressedVector`, `StoredBytes`: the two formats as functions over `ColumnarBatch`
   and over vectors, and what an application does with their bytes, with the inductive invariant of
   the two (`StoredBytesProofs`). *Done.*

Every safety invariant and every action property of the passing runs has a theorem now. Worth
proving next: what shared seconds still promise beyond `SomeoneSwaps`, more of the driver without
`WellDeclared` where the code allows it, and what the modules of 7 will state. Recursive definitions are written as recursive
functions or avoided.

## 3. The modules and the code

All line numbers are of `src/orsx/src/migrations/online.rs` unless a file is named;
PROJECT.json maps every definition to its lines.

### RowChanges, LiveTable

`RowChanges` is a table with a primary key seen as a function from keys to rows: what INSERT,
UPDATE, DELETE and UPDATE of the key do to it, and keyset paging (`ORDER BY pk LIMIT n`).
Rows are model values: columns, types and SET expressions play no part in the protocol.
`LiveTable` is the abstract specification: one table and writers that open a transaction,
commit or abort. It knows no migration.

### OnlineRewrite, OnlineRewriteProps, OnlineRewriteProofs

`online_rewrite_table` with the sequential backfill, one attempt. The state is what
PostgreSQL holds (`source`, `shadow`, `changelog`, `trigger`, `swapped`, per writer the open
change and the changelog rows its trigger inserted) and what the function holds (`pc`,
`lastPk`, `nextLast`, `round`, the cutover transaction's view `txShadow`, `txLog`).

| action | code |
|---|---|
| `CreateTables` | phase 1, shadow and changelog (118-260, 378-386) |
| `RequestTrigger`, `InstallTrigger` | `create_mirror_trigger` (508-559): the SHARE ROW EXCLUSIVE lock is queued for, then had |
| `BackfillBatch`, `BackfillEnd` | one page of `backfill_sequential` (590-709) |
| `CatchUpSelect`, `CatchUpUpsert`, `CatchUpDelete`, `CatchUpClear`, `CatchUpEnd` | the four autocommitted statements of a round of `catch_up_best_effort` (711-921) |
| `RequestLock`, `AcquireLock`, `CutoverDrain`, `CutoverCommit`, `CutoverNotConverged`, `WithinBudget` | `cutover` (923-1106), a transaction: what it does becomes visible at COMMIT |
| `Fail` | a `?` after any statement, or the death of the process; also the budget check after COMMIT |
| `Write`, `Commit`, `Abort` | the application; the trigger runs in `Write`, its rows commit with the writer |

A statement is one action because it is atomic for other sessions; between two statements
anything may commit. Lock waits are real: a queued or granted lock keeps new writers out
(`Locked`), a lock is had only when no writer is open (`Quiet`).

`raced` and `rekeyed` are history variables. They name the keys for which the code does not
keep its promise: a write that overlapped the window between the upsert and the clear of its
batch, and a row moved to another key. The properties are stated for all other keys
(`Tracked`). Both gaps are real: `rewrite_rowcount` shows the first, and an UPDATE of the key
logs the new key alone (528), so that a copied row survives the swap under the old one.

### RewriteFleet, RewriteFleetProps, RewriteFleetProofs

Any number of attempts of `online_rewrite_table` on one table, of several migrators, at the same
time or one after the other. Every object has a name with the second in which its attempt began
(164-175, 1331-1352), which is all that tells attempts apart, so the state is who has which name:
`live`, `shadowOf[s]`, `backupOf[s]`, the changelogs, functions and triggers of second `s`, and the
rows of every table there has been.

| action | code |
|---|---|
| `Begin` | the names are made (157-175); the driver's schema may be older |
| `CreateShadow`, `CreateChangelog`, `CreateFunction`, `DropTrigger`, `CreateTrigger` | phases 1 and 2, a statement each; IF NOT EXISTS takes what is there |
| `BackfillPage`, `BackfillEnd`, `RoundUpsert`, `RoundDelete`, `RoundClear`, `CatchUpEnd` | the loops, with pages and rounds that end at any key |
| `Cutover` | the transaction under the exclusive lock (936-1093), if it commits |
| `Refused` | a statement whose tables are gone, or whose new name is taken; the cutover also when another table's trigger needs the function (`Blocked`) |
| `Fault` | any other failure, the death of the process, a drain that does not converge: nothing is undone |
| `Write`, `Tick` | the application, one committed statement; the clock |

OnlineRewrite has one attempt in full detail (open transactions, lock queues, chunk limits);
here a statement of the application is one step and the cutover is one, because the subject is
what attempts do to each other. Why an overtaken attempt cannot swap is not in any line that
says so: the trigger of the second migrator follows the table to its backup, the new live table
has none, and `DROP TRIGGER IF EXISTS` (948) finds nothing to drop; but `DROP FUNCTION` (1086)
has no CASCADE, so PostgreSQL refuses it while the trigger on the backup exists, and the whole
cutover is rolled back. `shared` is a history variable: seconds that more than one attempt has
drawn. In those the protection is gone (see Disagreements).

### ParallelBackfill, ParallelBackfillProofs

`parallel_backfill_bigint` (1127-1321): measure MIN and MAX on a second connection, divide the
span with `i64` arithmetic (`Wrap` for plain operators in a release build, `Sat` for
`saturating_*`, `SpawnPanics` for a debug build), one task per non-empty range, each with its
own connection and cursor, first error ends all. The sequential fallback is the case of one
unbounded range. Writers commit beside it and are recorded in the changelog; that an open
transaction's rows are recorded is the part of OnlineRewrite, hence a `Commit` is one step.

### AdaptiveChunk (proofs in ParallelBackfillProofs)

`AdaptiveChunk` (44-116) with its integer arithmetic, after each batch of the catch-up
(909-916). The database is a cost per row which may change (`NewSpell`).

### MigrationKey, MigrationKeyProofs

`ensure_migration_key` (388-498) called by several migrators: column, sequence and default,
the fill loop by `ctid` (`Pick` is the CTE's snapshot, `Apply` the UPDATE, which may skip rows
that have moved since), SET NOT NULL, concurrent unique index; and `Swap`, what
`online_rewrite_table` makes of the column when it rewrites on that key (202-235).

### SchemaConvergence, SchemaConvergenceProofs

`Migrations::init_with_config` (mod.rs 20-130) for one table, with `planning.rs` and
`introspection.rs`. The state is the catalog: `live` (per column name its type, nullability,
key and attribute number, and, as a history value, the column its data came from), `attrs`
(attribute numbers handed out), `gen` (tables so far), `indexes` with names, validity and the
table they are on. A call has a release's spec and a configuration; calls follow one another
and may fail at any statement, so a call finds what others left.

| action | code |
|---|---|
| `CreateTable`, `TableExists`, `EnsureKey` | the branches at the start (mod.rs 29-64) |
| `Iterate`, `Rename`, `RenamesDone`, `Different`, `Alter`, `AltersDone`, `IterationsOver` | the fast path: renames in order, the diff, one statement per alterable diff, at most five times (mod.rs 66-95) |
| `RefuseDrop`, `Equal`, `GiveUp` | `validate_strictness` and the outcome of the three comparisons |
| `Rewrite` | `online_rewrite_table` as one step: shadow in place, the old table with its indexes as backup |
| `ReadIndexes`, `CreateIndex`, `IndexesDone` | `ensure_indexes_concurrently`, after a rewrite and at the end: read once, then create by derived name |
| `Fail`, `BuildFails` | a `?` anywhere; a concurrent build that leaves an invalid index |

`Diff` is `diff_schema` and `filter_ignored_diffs`; `IsUnique` and `Equivalent` differ as the two
queries do: only the second asks for a valid index. A derived name is what it is derived from.
`Follow` is PostgreSQL: an index follows a renamed column and keeps its name.

### RowDelivery, ColumnarBatch, ColumnarReader

Line numbers of `orsx/src/columnar/types.rs`. `RowDelivery` is the abstract specification: rows
in order, in batches that are full except the last, then the end; or an error. `ColumnarBatch`
is the batch as a value: what its columns hold, what `prepare`, `set_validity`, the pushes and
`end_row` do to them, and the rows a reader of it sees (`RowsOf`). `ColumnarReader` is
`next_batch_into` of both readers, a call after the other, on one batch that is reused.

| action | code |
|---|---|
| `Call` | checks, `prepare`, then where to go on (825-841, 1314-1327) |
| `Receive`, `EndOfStream`, `StreamError` | the loop of `ensure_available` (1119-1139) and the other awaits on the stream |
| `ReadSignature`, `ReadFlags`, `ReadExtension`, `Skip` | `parse_header` (886-913), `discard` |
| `ReadCount`, `Drain` | number of fields or trailer (844-862), `drain_copy_out_to_eof` |
| `ReadLength`, `ReadValue` | `read_field_into` (929-1117) |
| `FetchRow`, `RowsEnd`, `StoreCell` | the row-wise reader (1314-1436) and its preflight |
| `Cancel` | the caller drops the future where it awaits |

The rows are encoded as PostgreSQL does (`Stream`) and parsed byte by byte, with two-byte
numbers of a small base, because everything that can go wrong here is about positions: a read
that has its bytes takes them and compacts the buffer as the next read would (`Takes`,
`Compact`). Column types are of four kinds: fixed width; timestamp, which is converted and
may be infinite or overflow; text, which is checked as UTF-8 or not; and JSONB, whose version
byte is stripped.

### Orsxcol, CompressedVector, StoredBytes, StoredBytesProofs

`Orsxcol` is `orsx/src/columnar/orsxcol.rs` over the batch of `ColumnarBatch`: `Encodable` and
`Encode`, `Decodable`, `Decode` and `Loadable` (`decode_orsxcol_v1_into`, which also wants the schema of
the batch it replaces). A stream is a sequence of symbols; an integer of any width is one symbol,
and so are a value and a byte, but validity is packed into bytes of `ByteBits` bits, because the
padding of the last byte matters. `CompressedVector` is the envelope of `Compressed<T>`
(`compression.rs`, `compressed.rs`): header, checksum of the payload, payload. cydec and CRC32 are
external and modelled by what the code relies on: a payload decompresses to what was compressed
and to nothing else of its length, and the checksum notices one changed symbol (a sum modulo a
number above every symbol does: `ChecksumAssumption`). `MagicAssumption` is how the two formats
are told apart: `ORSXCOL1` and `ORSX` begin alike, and where the first goes on with a letter the
second has its version, 1.

`StoredBytes` is the application of README.md 425-428, 528-545 and 585-640, with one batch that is
reused, output buffers that are reused, and the bytes it keeps.

| action | code |
|---|---|
| `BeginRead`, `ReadCell` | `next_batch_into` of either reader, cell by cell; it may end, or fail, after any cell |
| `EncodeBatch`, `EncodeVector` | `encode_orsxcol_v1_into`, `encode_envelope_into` and the thread locals of `Encode for Compressed<T>` |
| `Load` | `decode_orsxcol_v1_into`: the decoded batch replaces the application's, with its row capacity |
| `Damage` | what happens to the bytes elsewhere: cut, one symbol appended, one symbol changed |

`origin` is a history variable: the batch the bytes were encoded from and the column its next cell
would have gone to (another than the first if a failed read has left it), or the vector and its type.

## 4. Runs

| run | bounds | shows |
|---|---|---|
| `rewrite_race` | 3 keys, 2 payloads, 2 writers, 3 statements of any kind, chunks of 1, 2 rounds, failures anywhere | `DivergenceRecorded`, the inductive invariant `RewriteInv` (with type correctness and `OpenWritesRecorded`), `SwapFaithful`, `BackupFrozen`, `LiveTableStep` |
| `rewrite_serial` | 4 keys, 1 writer that inserts increasing keys, FairSpec | refinement of `LiveTable`; every attempt ends; writers are not blocked for ever |
| `rewrite_rowcount` | 2 keys, 2 writers | violation of `RowCountKept`: the catch-up window loses a row |
| `fleet_names` | 2 migrators, 3 attempts, 2 seconds, 2 keys, 2 statements of the application, failures anywhere; `MCView` leaves out an attempt's variables while nobody reads them | the inductive invariant `FleetInv`, `OvertakenNeverSwaps`, `SwapFaithful`, `UsedTablesKept`, `TriggersWork`, and `SomeoneSwaps`: attempts do not all fail because of each other |
| `parallel_tasks` | 4-bit integers, 8 keys of which up to 4 rows exist, 3 tasks, 1 connection for them, 1 commit, overflow checks on, FairSpec | partition, `CopiedOrRecorded`, the inductive invariant `BackfillInv` (with type correctness), all tasks end |
| `adaptive_settle` | bounds 2..300 given in the wrong order, 4 starts, 4 costs, 3 changes | bounds, direction, and that it settles |
| `key_fleet` | 2 migrators, 2 writers, 2 slots, 2 transactions, 1 repeated call, swaps and failures, FairSpec | the inductive invariant `KeyInv` (with type correctness and `KeysDistinct`), stable keys, `NullsShrink`, every call ends |
| `driver_deploys` | 3 calls, each of one of 4 releases under one of 4 configurations; no table, or a foreign one with rows; failures anywhere, FairSpec | Ok means as declared, rewrites settle and are not repeated, renamed and extra columns keep their data, every call returns |
| `driver_indexes` | the same, 2 calls | violation of `IndexesExist`: after a rewrite the index names belong to the backup |
| `columnar_batches` | base 4, 2 columns, batches of 2 rows, results of 0 to 3 rows good and bad, 3 calls, 2 configurations of each reader, any cuts, stream errors and cancellations anywhere, FairSpec | `BatchSound`, `StreamConsumed`, refinement of `RowDelivery`, every call returns |
| `stored_bytes` | a text and a fixed column, batches with room for 1 to 3 rows, 2 bits to a byte of validity, 6 cells, 2 encodings, 2 element types, vectors of 0 and 2 values, one damage of any kind anywhere | `BatchTravels`, `NothingElseLoads`, `DecodedSound`, `VectorTravels` |
| `stored_workflow` | the same, 2 cells | violation of `ReadBatchEncodes`: a batch with room to spare cannot be encoded |

**Why the bounds are enough.** The hazards of the rewrite need one key behind the cursor, one
in the batch and one ahead: three keys with chunks of one. Two writers give overlapping
transactions, three statements a change, its undoing and one more elsewhere; two rounds let a
second round meet what the first left; `MaxRounds` doubles as the drain limit, so a drain that
does not converge occurs as well. Where a property is proved, the bound no longer matters.
`rewrite_serial` uses increasing inserts because exactly those keep every key tracked without
naming history variables. In `parallel_tasks` the keys sit at both ends, around zero and on
both sides of the ranges' ends; three tasks with one connection force them to take turns.
Four bits are wide enough that ranges with and without overflow occur (2^64 is a constant in
the proofs). `key_fleet`'s two slots hold two rows that exchange places in the batches of two
migrators. In `driver_deploys` three calls are a release, a second one (or a failure) and a third that meets
what both left; the releases rename, retype, make unique, reorder and drop the primary key; the
foreign table has an extra column, a gap in its attribute numbers and a partial unique index.
In `columnar_batches` three rows fill a batch and begin another; the inline limit of 1 byte, the
total of 2 and `MinCompact` of 4 make a column change to chunks, exceed its total, and the buffer be
compacted for either reason; three calls are a full batch, a last one and one after the end,
or two after an error or a cancellation, which may parse from the middle of a tuple.
In `fleet_names` the third attempt is a retry of either migrator beside the other, two seconds
give attempts with the same and with different names, and of two statements one can come before an
attempt's trigger and one after another's swap, or one inside a round and one outside. In
`stored_bytes` two bits to a byte make one, two and three rows end inside and at the end of a
byte; six cells are three rows, or a row, a new read and more; two encodings are a batch and its
successor, a vector of another type, or a batch that was loaded before. Bytes are damaged last
(`Undamaged`), and once: what a decoder refuses changes nothing.
`MaxWrites` bounds the writers everywhere: with an unbounded stream of rows above
its cursor the backfill need not end, in the code as little as in the model.

**Fairness.** `WF(Advance)`, `WF(Step(m))` (in the driver `WF(Advance \/ Fail)`: a statement returns,
with or without an error): the task that runs the migration is polled by tokio
and the server answers. `WF(Commit(w) \/ Abort(w))`: applications end their transactions (or the
server's idle timeouts do). No writer has to start one, and nothing has to fail. In the parallel
backfill `SF(Acquire(i))` stands for the pool's first-come first-served queue: a task in it is
not overtaken for ever. The chunk controller needs only that batches go on, the columnar reader that
its future is polled and the server sends or closes.

**Disagreements.** Three runs expect a violation; PROJECT.json's findings quote the statement and
the code. More were seen and are not runs:

* An UPDATE that changes the primary key leaves OLD.pk out of the changelog (528), which README.md:45
  calls "a trigger that records changed primary keys"; the old row survives the swap.
* `online.rs:393` says that after `ensure_migration_key` the key "is fully populated". The fill loop
  ends on the first batch that updates nothing (465): if a writer has updated all its rows since
  the batch's snapshot they are skipped, NULLs remain, and SET NOT NULL fails
  (`SetNotNullFails`).
* The same comment says the key "has a default for new writes". A rewrite on that key creates the
  shadow's column as `BIGINT NOT NULL` (205) without one, so after the swap every INSERT that does
  not name it is refused (`InsertRejected`) until the next init.
* Two attempts that begin in the same second share all names. The second runs DROP TRIGGER and
  CREATE TRIGGER (543-556) on the trigger the first relies on; a write between the two is in no
  changelog, and the first then swaps without it, although the cutover is to "drain remaining changes"
  (README.md:48). The row stays in the backup (`UsedTablesKept`). And if the second has passed CREATE
  TABLE for the changelog when the first swaps, which drops changelog and function (1085-1093), it
  goes on to create the function and the trigger (541, 556) on the new live table, where they insert
  into a changelog that is not there. Its backfill is refused, since the shadow is gone, and its
  attempt fails; the trigger stays, and from then on every statement of the application on the table
  fails. TLC finds this in `fleet_names` when `Exposed` is dropped from `TriggersWork`; with
  it, the property says that nothing else brings a trigger into that state.
* A JSON column is encoded as a variable one, but the decoder reads only `Utf8` and `Bytes` as
  variable (orsxcol.rs:396), so such a batch is never decoded. A batch that a failed read has left
  with more offsets than rows is encoded and refused when decoded. An empty column name comes
  back as no name.
* ORSXCOL has no checksum: a changed value is not noticed, but the batch stays readable
  (`DecodedSound`). That of a vector covers the payload only: a changed element type makes the
  bytes those of another type, and the uncompressed length is never read.

With `online_chunk_size_min = 1` a chunk size of 1 never
grows: half as much again is 1 in integers (`adaptive_settle` keeps the bound above). An index name
that another migrator is still building, or a failed build has left invalid, satisfies IF NOT
EXISTS, so `ensure_migration_key` returns Ok with an index in name only (`IndexExists`). And after a failed cutover drain ("did not
converge") trigger, changelog and shadow stay; the next attempt uses new names and the old
trigger goes on filling a changelog nobody reads. The span of the keys in `parallel_backfill_bigint`
(1174-1175) and the end of its last range (1203) are plain or saturating `i64` arithmetic: with keys
at both extremes a release build leaves rows out, a debug build panics (`Overflows` and the builds are
in the model, the properties assume `InBounds`). `JsonbText` is documented as "JSON/JSONB"
(README.md:254), but the COPY reader refuses a JSON column, which has no version byte
(types.rs:1090), while the row-wise reader takes both. `set_synchronous_commit_off` documents that the setting is restored after the copy phases
(config.rs:25-27), but `SET synchronous_commit TO $1` (36) is a statement PostgreSQL takes no
parameters for; the error is ignored and the pooled connection keeps `off`. And `done` is set before the stream is
drained (types.rs:846): after a drain that was cancelled the next call returns Ok on a connection
that is not ready.

## 5. Proofs

All theorems are of the form "for every value of the constants that satisfies the ASSUMEs": any
set of integer keys, any payloads, any number of writers, migrators, workers, rounds and any
chunk size.

* **OnlineRewriteProofs.** `RewriteInv` is inductive (`InvariantHolds`), and gives
  `ChangelogComplete`, `SwapIsFaithful`, `BackupIsFrozen`, `StepsImplementLiveTable` and, when
  no key is raced or moved, `RefinesLiveTable`. `DivergenceRecorded` alone is not inductive: it
  needs that rows ahead of the backfill's cursor are absent (`AheadEmpty`), that an open write
  will bring its changelog row (`OpenWritesRecorded`), that inside a round the batch's tracked
  keys are settled statement by statement with no open write on them (`WindowSettled`), and the
  same for the cutover's private view (`DrainRecorded`). The main argument: a tracked key in a
  batch was free when the batch was upserted, nobody has written it since, so its changelog row
  may go.
* **ParallelBackfillProofs.** `Partition`: with no overflow `Step * workers >= Span`, so `(k -
  minPk) \div Step` is a task whose range holds `k`, and no other range does
  (`RangesArePartition`). `BackfillInv` is inductive for writers that do not change keys
  (`"rekey" \notin Ops`, the gap named under Disagreements): rows outside the measured extremes
  are recorded (`OutsideRecorded`), rows missing behind a cursor are recorded (`MissingRecorded`),
  rows that differ are recorded (`ShadowRecorded`). Together: `NothingLeftOut`.
* **MigrationKeyProofs.** `KeyInv` is inductive: an open statement's row is as it found it
  (`OpenFaithful`), the sequence is ahead of every key in a row or in an open INSERT
  (`KeysFresh`), and once NOT NULL is set no batch is in flight (`Settled`). From it
  `KeysAreDistinct`, `KeysAreStable`, `NullsOnlyShrink`.
* **RewriteFleetProofs.** `FleetInv` is inductive (`FleetInvariant`), for any number of migrators,
  seconds and attempts, and for application statements that do not move keys. An attempt whose
  second is its own finds exactly what it has created (`OwnObjects`): before its trigger exists
  its shadow and changelog are empty; afterwards either its trigger is on the live table, and
  OnlineRewrite's argument holds (`OwnRecorded`), or another attempt has swapped since, and then its
  trigger is on a table that is not live, which blocks its cutover (`Blocked`). Both need that
  a table has one name at a time (`NamesOK`), that a second nobody has drawn names nothing
  (`SecondsOK`), and that a trigger's function and changelog outlive it (`TriggersComplete`).
  From it `SwapsAreFaithful`, `NoStaleSwap`, `ApplicationUndisturbed`, `NothingUsedIsLost`. The last
  one holds for shared seconds too, and `ApplicationUndisturbed` for those in which no attempt has
  swapped (all but the `Exposed` ones), because only a swap drops a changelog (`LogsReady`).
  `OneOfThemSwaps` is also about shared seconds, from the part that follows them (`Undisturbed`):
  until a swap, or a failure that is not another attempt's doing, the only statement that can be
  refused is CREATE TRIGGER, and then the attempt that has created it is still going on.
* **SchemaConvergenceProofs.** `Inv` is inductive: `TypeOK`; where a call stands says what is still
  different (`SettledWhere`: after a comparison without difference, or a rewrite, nothing is, and
  building declared indexes does not change what the planner sees); renames are pending up to the
  first pass and done after it (`RenamesWhere`); and a repeated call finds at most the internal key
  missing, which is added at the end of the table under an index name that is free
  (`RepeatWhere`). The last part is the one that a reader of the loop would not see: that the
  added key's attribute number keeps the positions of the others. From `Inv`:
  `ReturnsAsDeclared`, `RewriteEnough`, `RenamesKeepData`, `RepeatsRewriteNothing`,
  `ExactLosesNothing`, for any releases, any configurations, any tables to begin with and any
  number of calls. Assumed: `TableAssumption` (the tables have types, indexes on themselves) and
  `WellDeclared`.
* **ColumnarBatchProofs, ColumnarReaderProofs.** Two invariants of `next_batch_into`, for any schema,
  batch size, result, header extension, configuration and any cuts. `Inv` holds whatever fails
  (`Invariant`). `BatchSound` alone is not inductive: it needs that the columns before `col` have
  exactly one cell more than the others (`PlaceInv`), also when a call has ended within a row and
  left it behind, and that the COPY reader never makes chunks (`AllInline`: its append is right only
  then). From it `TypeCorrect`, `BatchIsSound`, `StreamIsConsumed`. `ContentInv` holds until a call
  fails or is cancelled (`ContentInvariant`): the buffer from its position on, followed by the wire
  (`Rest`), is what the server sends after the part that is parsed (`CopyRest`: within the header, at
  a row, within a row, within a field), and every cell in the batch is the result's (`Shows`). The
  position is why compaction is right: a read splits `Rest` at the same place whether the buffer
  has moved or not (`TakesWire`). From it `RowsDelivered`, the refinement of `RowDelivery`. Each push
  is treated once (`Stores`: one cell more in one column, nothing else changed), and FlattenSeq, in
  which the stream and the chunks are written, is unfolded by an induction over a set.
  Assumed: `WireAssumption`, `BatchAssumption`, and that a result has rows of one length whose numbers
  fit the wire (`ResultAssumption`, `ExtensionAssumption`, `ModeAssumption`).
* **StoredBytesProofs.** `StoredInv` is inductive (`AlwaysStored`): while cells are read the columns
  before `col` have one entry more than the others (`Shaped`, `Reading`), and the bytes kept are those
  of `origin`, cut, grown or changed in one symbol (`Kept`, `Became`). The rest is about functions of
  bytes. A decoder that walks the columns of an encoding finds each where it was written (`Met`,
  `MetNext`), which with the round trip of a validity bitmap (`BitsBack`, and `BitmapAgain` for the
  padding of its last byte) gives `BatchesTravel`. Two walks over a stream and its beginning stay
  abreast until the end of the shorter (`Abreast`), so one of them ends before its stream does and the
  bytes are refused; a batch that a failed read has left is refused at the column that
  has an entry too many: `NothingElse`. `AcceptedIsSound` needs nothing of the bytes: what the checks of
  the decoder establish makes every cell readable (only that bytes are numbers is used). For
  vectors: a sum in which one addend changes differs modulo any number above both, and the
  payload's first symbol fixes its length: `VectorsTravel`. Assumed: `OrsxcolAssumption`,
  `VectorAssumption`, `StoredAssumption`, `MagicAssumption`, `ChecksumAssumption`.
* **ParallelBackfillProofs on AdaptiveChunk.** The chunk size stays in its bounds (`SizeInBounds`) and
  never moves the wrong way (`NeverTheWrongWay`), for every configuration and cost.

**Only model-checked:** all liveness (`AttemptEnds`, `WritersUnblocked`, `Completes`, `Settles`,
`Ends`, `Returns`), since fairness and ENABLED are out of the provers' reach; that cydec and CRC32 do
what `CompressedVector` takes from them; and the violations. The decoder of ORSXCOL and the
checksum are recursive functions: what is proved of them is proved by an induction over the set of
positions or columns where the claim fails, which has a least element.

## 6. What is not modelled

* `synchronous_commit = off` and server crashes, UNIQUE columns other than the key: planned (7).
* Columns, generated SQL, renames, defaults and casts of a rewrite: they do not influence the
  protocol; wrong SQL fails and is `Fail`.
* Time: sleeps and timeouts appear as "may fail" or "may be late". The pool's acquire timeout
  makes a wait end with an error (`Fail`), whatever its length.
* Locks of statements: ACCESS EXCLUSIVE and SHARE ROW EXCLUSIVE as "no open writer"; in
  MigrationKey new statements do not queue behind a waiting ALTER, which only adds behaviours
  to the safety properties.
* In AdaptiveChunk the costs of a run are such that one row more does not jump over the whole
  deadband; a cost above that makes no size "on target".
* In ParallelBackfill the properties assume `InBounds` where the arithmetic would leave the 64
  bits.
* In SchemaConvergence: two migrators at once (their rewrites are RewriteFleet), index methods, the texts of types,
  and of an index name the user's label and the hash of what does not fit 63 bytes. That an internal
  key of another type than BIGINT ends the call (online.rs 400-406) is `EnsureKey`'s guard and `Fail`.
  `WellDeclared` leaves out specs with several primary keys, rename chains, and a unique index of
  one column on a column that is not unique: the comparison takes the latter for a difference at
  every start. Rows appear only as "has rows" (`HasRows`), which makes ADD COLUMN
  NOT NULL fail. A table that has just been created gets its internal key at the next call, as in
  the code, hence the exception in `OkAsDeclared`. A declared table has a column (as PostgreSQL's
  shadow must) and its specs number their columns from 0.
* In ColumnarReader: the check that the batch has the reader's schema (types.rs 826-830), which returns
  before anything is touched: the batch has it. Of the preflight only the count of columns (names and types end the call in the
  same place), UTF-8 as the absence of one byte, eight column types as "fixed". After an error or a
  cancelled call `DeliversRows` promises nothing: the reader goes on where it stands.
* In RewriteFleet: UPDATEs of the key, open transactions and lock queues (OnlineRewrite has them), the
  size of chunks and the number of rounds, and the indexes and sequences of the tables.
* In StoredBytes: eight column types as "fixed", `Bytes` as text, widths of integers, and the
  overflow checks of lengths that only a batch of 2^32 bytes would meet. `LengthAt` reads past the
  end as 1, so that a stream cut short is refused where the code refuses it, after fewer steps.
* The parts of the inventory marked *planned* and, for the reasons in PROJECT.json, the macros,
  the argument visitor, the declarations and the inventory generator.

## 7. Running

    tlc -config MCOnlineRewrite_race.cfg MCOnlineRewrite
    tlapm OnlineRewriteProofs.tla

and likewise for the other cfgs and `*Proofs` modules. A run that lists a violation in
PROJECT.json ends with that counterexample.
