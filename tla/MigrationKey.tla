----------------------------- MODULE MigrationKey -----------------------------
(***************************************************************************)
(* ensure_migration_key (orsx/src/migrations/online.rs): giving a live     *)
(* table the internal key column __orsx_mig_id, and what a later rewrite   *)
(* makes of the column.  Several migrators may run it at once, beside the  *)
(* application's one-row transactions.                                     *)
(*                                                                         *)
(* A statement runs on its own and holds ROW EXCLUSIVE or stronger until   *)
(* it ends; ALTER TABLE and the swap need the table for themselves.        *)
(***************************************************************************)
EXTENDS Integers, FiniteSets

CONSTANTS
  Migrators,  \* processes that call Migrations::init
  Writers,    \* application transactions
  Slots,      \* bound: places for rows
  Absent,     \* no row in the slot
  Unkeyed,    \* a row whose __orsx_mig_id is NULL
  Idle,       \* a writer with no open transaction
  ChunkSize,  \* online_chunk_size
  MaxWrites,  \* bound: application transactions
  MaxCalls    \* bound: repeated calls of the function

ASSUME SlotAssumption == Slots \subseteq Int /\ IsFiniteSet(Slots)
ASSUME ValueAssumption == Absent \notin Nat /\ Unkeyed \notin Nat /\ Absent # Unkeyed
ASSUME BoundAssumption == ChunkSize \in Int /\ MaxWrites \in Nat /\ MaxCalls \in Nat

VARIABLES
  rows,       \* slot -> Absent, Unkeyed or the row's key
  hasCol,     \* the column exists
  hasDefault, \* its default is nextval of the sequence
  notNull,    \* it is NOT NULL
  index,      \* its unique index: none, invalid (being built, or left so), valid
  next,       \* next value of the sequence
  pc,         \* migrator -> where it is
  picked,     \* migrator -> rows its UPDATE has found by ctid
  moved,      \* migrator -> those of them rewritten since
  open,       \* writer -> its uncommitted statement, or Idle
  writes,     \* application transactions so far (bounded by MaxWrites)
  calls       \* repeated calls so far (bounded by MaxCalls)

catalog == <<hasCol, hasDefault, notNull, index>>
batch == <<picked, moved>>
app == <<open, writes>>
vars == <<rows, catalog, next, pc, batch, app, calls>>

-----------------------------------------------------------------------------
\* An uncommitted statement, with the key it writes or finds.
Statement == [op : {"insert", "update", "delete"}, slot : Slots,
              key : Nat \cup {Unkeyed}]

Nulls == {s \in Slots : rows[s] = Unkeyed}
Free(s) == \A w \in Writers : open[w] # Idle => open[w].slot # s

\* Nobody holds a lock that conflicts with ACCESS EXCLUSIVE: no transaction
\* with an uncommitted write, no UPDATE of a fill, no index build.
Quiet == /\ \A w \in Writers : open[w] = Idle
         /\ \A m \in Migrators : pc[m] \notin {"apply", "build"}

Go(m, from, to) == pc[m] = from /\ pc' = [pc EXCEPT ![m] = to]

Init ==
  /\ rows \in [Slots -> {Absent, Unkeyed}]
  /\ hasCol = FALSE /\ hasDefault = FALSE /\ notNull = FALSE /\ index = "none"
  /\ next = 1
  /\ pc = [m \in Migrators |-> "addColumn"]
  /\ picked = [m \in Migrators |-> {}] /\ moved = [m \in Migrators |-> {}]
  /\ open = [w \in Writers |-> Idle]
  /\ writes = 0 /\ calls = 0

-----------------------------------------------------------------------------
(* The application.  Its statements do not name the column. *)

\* An INSERT takes the default when its statement runs.
Insert(w, s) ==
  /\ rows[s] = Absent
  /\ ~(notNull /\ ~hasDefault)
  /\ open' = [open EXCEPT ![w] = [op |-> "insert", slot |-> s,
                                  key |-> IF hasDefault THEN next ELSE Unkeyed]]
  /\ next' = IF hasDefault THEN next + 1 ELSE next

\* With the default gone and NOT NULL kept it is refused.
InsertRejected(s) ==
  /\ rows[s] = Absent
  /\ notNull /\ ~hasDefault
  /\ UNCHANGED <<open, next>>

UpdateOrDelete(w, s) ==
  /\ rows[s] # Absent
  /\ \E op \in {"update", "delete"} :
        open' = [open EXCEPT ![w] = [op |-> op, slot |-> s, key |-> rows[s]]]
  /\ UNCHANGED next

Write(w) ==
  /\ open[w] = Idle
  /\ writes < MaxWrites
  /\ writes' = writes + 1
  /\ \E s \in Slots : /\ Free(s)
                      /\ Insert(w, s) \/ InsertRejected(s) \/ UpdateOrDelete(w, s)
  /\ UNCHANGED <<rows, catalog, pc, batch, calls>>

\* An updated row has moved to another ctid, a deleted one is nowhere.
Commit(w) ==
  /\ open[w] # Idle
  /\ LET t == open[w] IN
        /\ rows' = [rows EXCEPT ![t.slot] = IF t.op = "delete" THEN Absent ELSE t.key]
        /\ picked' = [m \in Migrators |->
                        IF t.op = "delete" THEN picked[m] \ {t.slot} ELSE picked[m]]
        /\ moved' = [m \in Migrators |-> (moved[m] \cup {t.slot}) \cap picked'[m]]
  /\ open' = [open EXCEPT ![w] = Idle]
  /\ UNCHANGED <<catalog, next, pc, writes, calls>>

Abort(w) ==
  /\ open[w] # Idle
  /\ open' = [open EXCEPT ![w] = Idle]
  /\ UNCHANGED <<rows, catalog, next, pc, batch, writes, calls>>

-----------------------------------------------------------------------------
(* The function. *)

AddColumn(m) ==
  /\ Go(m, "addColumn", "setDefault")
  /\ hasCol \/ Quiet
  /\ hasCol' = TRUE
  /\ UNCHANGED <<rows, hasDefault, notNull, index, next, batch, app, calls>>

\* MUTANT of SetDefault: does not wait for open transactions.
SetDefaultNow(m) ==
  /\ Go(m, "setDefault", "pick")
  /\ hasDefault' = TRUE
  /\ UNCHANGED <<rows, hasCol, notNull, index, next, batch, app, calls>>

SetDefault(m) ==
  /\ Go(m, "setDefault", "pick")
  /\ Quiet
  /\ hasDefault' = TRUE
  /\ UNCHANGED <<rows, hasCol, notNull, index, next, batch, app, calls>>

chunk == IF ChunkSize < 1 THEN 1 ELSE ChunkSize

\* The UPDATE's CTE: the ctids of at most a chunk of NULL rows.
Pick(m) ==
  /\ Go(m, "pick", "apply")
  /\ \E s \in SUBSET Nulls :
        /\ Cardinality(s) = IF Cardinality(Nulls) < chunk THEN Cardinality(Nulls) ELSE chunk
        /\ picked' = [picked EXCEPT ![m] = s]
  /\ UNCHANGED <<rows, catalog, next, moved, app, calls>>

\* One value of the sequence for each row of s, in the order of the slots.
Numbered(s) ==
  [q \in Slots |-> IF q \in s THEN next + Cardinality({p \in s : p < q}) ELSE rows[q]]

\* MUTANT of Found: the loop is not left when a batch is empty.
FoundAlways(m, s) == pc' = [pc EXCEPT ![m] = "pick"]

\* The loop ends with a batch that changed no row.
Found(m, s) == pc' = [pc EXCEPT ![m] = IF s = {} THEN "setNotNull" ELSE "pick"]

\* The UPDATE itself waits for the rows' locks.  Whether it still changes a row
\* that has moved depends on the plan: a join condition is checked again, a TID
\* scan may not be.  The rows it changes move for the other migrators.
Apply(m) ==
  /\ pc[m] = "apply"
  /\ \A s \in picked[m] : Free(s)
  /\ \E again \in SUBSET moved[m] :
        LET hit == (picked[m] \ moved[m]) \cup again IN
        /\ rows' = Numbered(hit)
        /\ next' = next + Cardinality(hit)
        /\ Found(m, hit)
        /\ picked' = [picked EXCEPT ![m] = {}]
        /\ moved' = [n \in Migrators |->
                       IF n = m THEN {} ELSE moved[n] \cup (hit \cap picked[n])]
  /\ UNCHANGED <<catalog, app, calls>>

\* MUTANT of SetNotNull: does not wait for the other migrators' UPDATEs.
SetNotNullNow(m) ==
  /\ Go(m, "setNotNull", "createIndex")
  /\ \A w \in Writers : open[w] = Idle
  /\ Nulls = {}
  /\ notNull' = TRUE
  /\ UNCHANGED <<rows, hasCol, hasDefault, index, next, batch, app, calls>>

SetNotNull(m) ==
  /\ Go(m, "setNotNull", "createIndex")
  /\ Quiet
  /\ Nulls = {}
  /\ notNull' = TRUE
  /\ UNCHANGED <<rows, hasCol, hasDefault, index, next, batch, app, calls>>

\* "column contains null values"
SetNotNullFails(m) ==
  /\ Go(m, "setNotNull", "failed")
  /\ Quiet
  /\ Nulls # {}
  /\ UNCHANGED <<rows, catalog, next, batch, app, calls>>

\* CREATE UNIQUE INDEX CONCURRENTLY enters the index as invalid and builds it.
CreateIndex(m) ==
  /\ Go(m, "createIndex", "build")
  /\ index = "none"
  /\ index' = "invalid"
  /\ UNCHANGED <<rows, hasCol, hasDefault, notNull, next, batch, app, calls>>

\* IF NOT EXISTS looks for the name only.
IndexExists(m) ==
  /\ Go(m, "createIndex", "done")
  /\ index # "none"
  /\ UNCHANGED <<rows, catalog, next, batch, app, calls>>

BuildEnds(m) ==
  /\ Go(m, "build", "done")
  /\ index' = "valid"
  /\ UNCHANGED <<rows, hasCol, hasDefault, notNull, next, batch, app, calls>>

Ended == {"done", "failed", "swapped"}

\* A statement fails or the process dies.
Fail(m) ==
  /\ pc[m] \notin Ended
  /\ pc' = [pc EXCEPT ![m] = "failed"]
  /\ picked' = [picked EXCEPT ![m] = {}] /\ moved' = [moved EXCEPT ![m] = {}]
  /\ UNCHANGED <<rows, catalog, next, app, calls>>

\* The function runs again: in the rewrite, and in each later init.
Again(m) ==
  /\ pc[m] \in Ended
  /\ calls < MaxCalls
  /\ calls' = calls + 1
  /\ pc' = [pc EXCEPT ![m] = "addColumn"]
  /\ UNCHANGED <<rows, catalog, next, batch, app>>

\* A rewrite on the key swaps in a table that has the column NOT NULL, with a
\* unique index and the same rows, and without a default.
Swap(m) ==
  /\ Go(m, "done", "swapped")
  /\ Quiet
  /\ hasDefault' = FALSE
  /\ index' = "valid"
  /\ UNCHANGED <<rows, hasCol, notNull, next, batch, app, calls>>

Step(m) ==
  \/ AddColumn(m) \/ SetDefault(m)
  \/ Pick(m) \/ Apply(m)
  \/ SetNotNull(m) \/ SetNotNullFails(m)
  \/ CreateIndex(m) \/ IndexExists(m) \/ BuildEnds(m)

\* Nothing left to do within the bounds.
Finished ==
  /\ \A m \in Migrators : pc[m] \in {"failed", "swapped"}
  /\ calls = MaxCalls
  /\ \A w \in Writers : open[w] = Idle
  /\ writes = MaxWrites
  /\ UNCHANGED vars

Next ==
  \/ \E w \in Writers : Write(w) \/ Commit(w) \/ Abort(w)
  \/ \E m \in Migrators : Step(m) \/ Fail(m) \/ Again(m) \/ Swap(m)
  \/ Finished

Spec == Init /\ [][Next]_vars

\* A migrator is polled until it ends; an open transaction ends.
FairSpec ==
  /\ Spec
  /\ \A m \in Migrators : WF_vars(Step(m))
  /\ \A w \in Writers : WF_vars(Commit(w) \/ Abort(w))

-----------------------------------------------------------------------------
(* Properties. *)

\* Types; only an UPDATE under way has picked rows, and a moved row is one of
\* them.
TypeOK ==
  /\ rows \in [Slots -> Nat \cup {Absent, Unkeyed}]
  /\ hasCol \in BOOLEAN /\ hasDefault \in BOOLEAN /\ notNull \in BOOLEAN
  /\ index \in {"none", "invalid", "valid"}
  /\ next \in Nat \ {0}
  /\ pc \in [Migrators -> Ended \cup {"addColumn", "setDefault", "pick", "apply",
                                      "setNotNull", "createIndex", "build"}]
  /\ picked \in [Migrators -> SUBSET Slots]
  /\ moved \in [Migrators -> SUBSET Slots]
  /\ \A m \in Migrators : /\ picked[m] # {} => pc[m] = "apply"
                          /\ moved[m] \subseteq picked[m]
  /\ open \in [Writers -> Statement \cup {Idle}]
  /\ writes \in 0..MaxWrites /\ calls \in 0..MaxCalls

\* No two rows have the same key, though several migrators and the default
\* hand out keys at once.
KeysDistinct ==
  \A s, q \in Slots : s # q /\ rows[s] \in Nat => rows[s] # rows[q]

\* Once the column is NOT NULL a row keeps its key: the rewrite may rely on it
\* while another migrator is still about to fill.
KeyStable ==
  [][notNull => \A s \in Slots : rows[s] # Absent /\ rows'[s] # Absent =>
                                    rows'[s] = rows[s]]_vars

\* While the default is set no row without a key appears, so that the fill
\* works on a shrinking set.
NullsShrink == [][hasDefault => Nulls' \subseteq Nulls]_vars

\* What an open statement will commit: an INSERT fills an empty slot, the others
\* change a row that nobody else can touch before.
OpenFaithful ==
  \A w \in Writers : open[w] # Idle =>
    /\ open[w].op = "insert" => rows[open[w].slot] = Absent
    /\ open[w].op # "insert" => rows[open[w].slot] = open[w].key
    /\ \A v \in Writers \ {w} : open[v] # Idle => open[v].slot # open[w].slot

Inserting(w) == open[w] # Idle /\ open[w].op = "insert"

\* The sequence is ahead of every key, and no key of an INSERT is used twice.
KeysFresh ==
  /\ \A s \in Slots : rows[s] \in Nat => rows[s] < next
  /\ \A w \in Writers : Inserting(w) /\ open[w].key \in Nat =>
        /\ open[w].key < next
        /\ \A s \in Slots : rows[s] # open[w].key
        /\ \A v \in Writers \ {w} : Inserting(v) => open[v].key # open[w].key

\* Once the default is set every INSERT has a key.  Once the column is NOT NULL
\* no row lacks one and no UPDATE under way has a row left to fill.
Settled ==
  /\ hasDefault => \A w \in Writers : Inserting(w) => open[w].key \in Nat
  /\ notNull => /\ Nulls = {}
                /\ \A m \in Migrators : picked[m] = {}
                /\ \A w \in Writers : Inserting(w) => open[w].key \in Nat

\* Why the three properties above hold: the inductive invariant.
KeyInv == TypeOK /\ OpenFaithful /\ KeysFresh /\ KeysDistinct /\ Settled

\* Every call ends, whatever the writers and the other migrators do.
Ends == \A m \in Migrators : []<>(pc[m] \in Ended)
=============================================================================
