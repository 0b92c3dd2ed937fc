-------------------------- MODULE SchemaConvergence --------------------------
(***************************************************************************)
(* Migrations::init_with_config (orsx/src/migrations/mod.rs) with the      *)
(* planner (planning.rs) and the catalog it reads (introspection.rs): how  *)
(* a table comes to have the declared columns and indexes, over the calls  *)
(* of several releases, each of which may fail at any statement.           *)
(*                                                                         *)
(* One migrator at a time.  The online rewrite is one step: it puts the    *)
(* shadow in the table's place and leaves the old one, with its indexes    *)
(* and their names, as a backup.                                           *)
(***************************************************************************)
EXTENDS Integers, Sequences, FiniteSets

CONSTANTS
  Names,     \* column names, in the order of sort()
  MigKey,    \* __orsx_mig_id
  BigInt,    \* the type of MigKey
  Types,     \* column types after normalize_type
  NoCol,     \* the table has no such column
  NoName,    \* rename_from is None
  Fresh,     \* data that comes from no column the table had at the start
  Specs,     \* the releases' TableSpecs
  Cfgs,      \* the MigrationConfigs they are called with
  Tables,    \* what the database may hold at the start
  HasRows,   \* the table has rows
  MaxCalls   \* bound: calls of init_with_config

Column == [ty : Types, nullable : BOOLEAN, key : {"none", "unique", "primary"},
           pos : Nat, data : Names \cup {Fresh}]

\* `on` is the table the index belongs to; one with a predicate or an expression
\* is not plain.  A derived name says what the index was created for.
Index == [name : {"declared", "column", "other"} \X BOOLEAN \X Seq(Names),
          cols : Seq(Names), unique : BOOLEAN, plain : BOOLEAN, on : Nat, valid : BOOLEAN]

ColumnSpec == [pos : Nat, from : Names \cup {NoName}, ty : Types,
               nullable : BOOLEAN, pk : BOOLEAN, unique : BOOLEAN,
               hasDefault : BOOLEAN]

ASSUME NameAssumption == Names \subseteq Nat /\ MigKey \in Names /\ NoName \notin Names
ASSUME ValueAssumption == NoCol \notin Column /\ Fresh \notin Names /\ BigInt \in Types
ASSUME BoundAssumption == HasRows \in BOOLEAN /\ MaxCalls \in Nat

\* No attribute number is past those given out, no key is nullable, and there is
\* no index without a table.
ASSUME TableAssumption ==
  \A t \in Tables :
    /\ t.live \in [Names -> Column \cup {NoCol}] /\ t.attrs \in Nat
    /\ \A i \in t.indexes : i \in Index /\ i.on = 0
    /\ \A n \in Names : t.live[n] # NoCol =>
          t.live[n].pos < t.attrs /\ (t.live[n].key = "primary" => ~t.live[n].nullable)
    /\ t.indexes # {} => \E n \in Names : t.live[n] # NoCol

\* Columns, in their order, at most one of them the primary key; a column is
\* renamed from one that is no longer declared, and from its own; a unique index
\* of one column is declared only for a column that is unique anyway.
WellDeclared(spec) ==
  LET col == spec.col IN
  /\ DOMAIN col \subseteq Names \ {MigKey} /\ IsFiniteSet(DOMAIN col) /\ DOMAIN col # {}
  /\ \A n \in DOMAIN col : col[n] \in ColumnSpec /\ col[n].pos < Cardinality(DOMAIN col)
  /\ \A n, o \in DOMAIN col :
        /\ col[n].pk /\ col[o].pk => n = o
        /\ col[n].from # NoName => col[n].from \notin DOMAIN col \cup {MigKey}
        /\ col[n].from # NoName /\ col[n].from = col[o].from => n = o
        /\ col[n].pos = col[o].pos => n = o
  /\ \A i \in spec.indexes :
        /\ i.cols \in Seq(DOMAIN col) /\ i.unique \in BOOLEAN
        /\ i.unique /\ Len(i.cols) = 1 => col[i.cols[1]].unique \/ col[i.cols[1]].pk

ASSUME SpecAssumption == \A spec \in Specs : WellDeclared(spec)

VARIABLES
  live,     \* the columns of the table; none at all if there is no table
  attrs,    \* attribute numbers given out in the live table
  gen,      \* which table is live; those before are backups
  indexes,  \* every index of the schema
  pc,       \* where the call is
  spec,     \* the declared table of the call
  cfg,      \* its configuration
  todo,     \* what the running loop still has to apply
  iter,     \* iterations of the fast path
  before,   \* history: live at the start of the call
  repeat,   \* history: this call has succeeded before, with none other since
  calls     \* calls so far (bounded by MaxCalls)

catalog == <<live, attrs, gen, indexes>>
call == <<spec, cfg, before, calls>>
vars == <<catalog, pc, call, todo, iter, repeat>>

-----------------------------------------------------------------------------
(* What the call expects, and what it reads. *)

Empty == [n \in Names |-> NoCol]

Have == {n \in Names : live[n] # NoCol}

Declared == DOMAIN spec.col

PrimaryKey == {n \in Declared : spec.col[n].pk}

\* The internal key is part of the expected schema.
Keyed == cfg.migKey /\ PrimaryKey = {}

Want == Declared \cup (IF Keyed THEN {MigKey} ELSE {})

Expected(n) ==
  IF n \in Declared
  THEN LET c == spec.col[n] IN
       [ty |-> c.ty, nullable |-> c.nullable /\ ~c.pk, pos |-> c.pos,
        primary |-> c.pk, unique |-> c.unique \/ c.pk]
  ELSE [ty |-> BigInt, nullable |-> FALSE, pos |-> Cardinality(Declared),
        primary |-> FALSE, unique |-> TRUE]

\* read_table_schema: by constraint, or by any unique index of that column.
IsUnique(n) ==
  \/ live[n].key # "none"
  \/ \E i \in indexes : i.on = gen /\ i.unique /\ i.plain /\ i.cols = <<n>>

Kinds == {"added", "nullability", "unique", "primary", "type", "removed", "position"}

Differs(kind, n) ==
  \/ kind = "added" /\ n \in Want \ Have
  \/ kind = "removed" /\ n \in Have \ Want /\ cfg.exact
  \/ /\ n \in Want \cap Have
     /\ \/ kind = "type" /\ live[n].ty # Expected(n).ty
        \/ kind = "nullability" /\ live[n].nullable # Expected(n).nullable
        \/ kind = "primary" /\ (live[n].key = "primary") # Expected(n).primary
        \/ kind = "unique" /\ IsUnique(n) # Expected(n).unique
        \/ kind = "position" /\ live[n].pos # Expected(n).pos /\ cfg.order

\* diff_schema, then filter_ignored_diffs.
Diff == {d \in [kind : Kinds, col : Names] : Differs(d.kind, d.col)}

\* The diffs apply_safe_alters has a statement for.
Alterable(d) ==
  \/ d.kind = "added" /\ ~cfg.order /\ (Expected(d.col).nullable \/ Expected(d.col).primary)
  \/ d.kind = "nullability" /\ Expected(d.col).nullable
  \/ d.kind = "unique" /\ Expected(d.col).unique

\* MUTANT of Refused: the check is left out.
RefusedNever == FALSE

\* validate_strictness: extra columns, and no permission to drop them.
Refused == cfg.exact /\ ~cfg.drops /\ \E d \in Diff : d.kind = "removed"

-----------------------------------------------------------------------------
Ended == {"idle", "ok", "failed", "differs"}

Init ==
  /\ \E t \in Tables : live = t.live /\ attrs = t.attrs /\ indexes = t.indexes
  /\ gen = 0
  /\ pc = "idle"
  /\ spec \in Specs /\ cfg \in Cfgs   \* of no importance before the first call
  /\ todo = {} /\ iter = 0
  /\ before = Empty /\ repeat = FALSE
  /\ calls = 0

Call ==
  /\ pc \in Ended
  /\ calls < MaxCalls
  /\ calls' = calls + 1
  /\ spec' \in Specs /\ cfg' \in Cfgs
  /\ repeat' = (repeat /\ spec' = spec /\ cfg' = cfg)
  /\ before' = live
  /\ pc' = "start"
  /\ UNCHANGED <<catalog, todo, iter>>

Goto(from, to) == pc = from /\ pc' = to

Same == UNCHANGED <<call, repeat>>

\* MUTANT of Created: only the key is NOT NULL.
CreatedLoose == [n \in Names |->
  IF n \in Declared
  THEN [ty |-> Expected(n).ty, nullable |-> ~Expected(n).primary, pos |-> Expected(n).pos,
        key |-> IF Expected(n).primary THEN "primary"
                ELSE IF Expected(n).unique THEN "unique" ELSE "none",
        data |-> Fresh]
  ELSE NoCol]

\* T::create_table_sql.
Created == [n \in Names |->
  IF n \in Declared
  THEN [ty |-> Expected(n).ty, nullable |-> Expected(n).nullable, pos |-> Expected(n).pos,
        key |-> IF Expected(n).primary THEN "primary"
                ELSE IF Expected(n).unique THEN "unique" ELSE "none",
        data |-> Fresh]
  ELSE NoCol]

CreateTable ==
  /\ Goto("start", "create")
  /\ Have = {}
  /\ live' = Created /\ attrs' = Cardinality(Declared)
  /\ todo' = spec.indexes
  /\ UNCHANGED <<gen, indexes, iter>> /\ Same

UniqueOn(n) == [cols |-> <<n>>, unique |-> TRUE]

\* derive_index_name, derive_unique_column_index_name.
NameFor(kind, i) == <<kind, i.unique, i.cols>>

Entry(kind, i, valid) == [name |-> NameFor(kind, i), cols |-> i.cols, unique |-> i.unique,
                          plain |-> TRUE, on |-> gen, valid |-> valid]

\* IF NOT EXISTS: a relation of that name, whatever table it belongs to.
Taken(kind, i) == \E e \in indexes : e.name = NameFor(kind, i)

With(kind, i, valid) ==
  IF Taken(kind, i) THEN indexes ELSE indexes \cup {Entry(kind, i, valid)}

TableExists ==
  /\ Goto("start", "loop")
  /\ Have # {}
  /\ ~Keyed
  /\ iter' = 0
  /\ UNCHANGED <<catalog, todo>> /\ Same

\* ensure_migration_key_for_table, as a whole.
EnsureKey ==
  /\ Goto("start", "loop")
  /\ Have # {}
  /\ Keyed
  /\ MigKey \in Have => live[MigKey].ty = BigInt   \* if not, an error: Fail
  /\ IF MigKey \in Have THEN UNCHANGED <<live, attrs>>
     ELSE /\ live' = [live EXCEPT ![MigKey] = [ty |-> BigInt, nullable |-> FALSE,
                        key |-> "none", pos |-> attrs, data |-> Fresh]]
          /\ attrs' = attrs + 1
  /\ indexes' = With("declared", UniqueOn(MigKey), TRUE)
  /\ iter' = 0
  /\ UNCHANGED <<gen, todo>> /\ Same

Renames ==
  IF cfg.renames
  THEN {<<spec.col[n].from, n>> : n \in {m \in Declared : spec.col[m].from # NoName}}
  ELSE {}

\* MUTANT of Iterate: the count stays where it is.
IterateForever ==
  /\ Goto("loop", "rename")
  /\ iter' = 0
  /\ todo' = Renames
  /\ UNCHANGED catalog /\ Same

Iterate ==
  /\ Goto("loop", "rename")
  /\ iter < 5
  /\ iter' = iter + 1
  /\ todo' = Renames
  /\ UNCHANGED catalog /\ Same

IterationsOver ==
  /\ Goto("loop", "after")
  /\ iter = 5
  /\ iter' = 6
  /\ UNCHANGED <<catalog, todo>> /\ Same

Follow(i, r) ==
  [i EXCEPT !.cols = [p \in DOMAIN i.cols |->
     IF i.on = gen /\ i.cols[p] = r[1] THEN r[2] ELSE i.cols[p]]]

\* MUTANT of Rename: the old names are not looked for.
RenameNone ==
  /\ pc = "rename"
  /\ \E r \in todo : todo' = todo \ {r}
  /\ UNCHANGED <<catalog, pc, iter>> /\ Same

\* apply_safe_renames: the pairs in order.  Indexes follow the column.
Rename ==
  /\ pc = "rename"
  /\ \E r \in todo :
        /\ \A q \in todo : r[1] <= q[1]
        /\ todo' = todo \ {r}
        /\ IF r[2] \in Have \/ r[1] \notin Have THEN UNCHANGED <<live, indexes>>
           ELSE /\ live' = [live EXCEPT ![r[2]] = live[r[1]], ![r[1]] = NoCol]
                /\ indexes' = {Follow(i, r) : i \in indexes}
  /\ UNCHANGED <<attrs, gen, pc, iter>> /\ Same

RenamesDone ==
  /\ Goto("rename", "compare")
  /\ todo = {}
  /\ UNCHANGED <<catalog, todo, iter>> /\ Same

Comparing == {"compare", "after", "final"}

RefuseDrop ==
  /\ pc \in Comparing
  /\ Refused
  /\ pc' = "failed"
  /\ UNCHANGED <<catalog, todo, iter>> /\ Same

\* MUTANT of Equal: what the loop could not do is not looked at again.
EqualUnchecked ==
  /\ pc \in Comparing
  /\ pc = "after" \/ Diff = {}
  /\ pc' = IF pc = "compare" THEN "after" ELSE "indexes"
  /\ UNCHANGED <<catalog, todo, iter>> /\ Same

\* No diff is left: on to the check after the loop, then to the indexes.
Equal ==
  /\ pc \in Comparing
  /\ Diff = {}
  /\ pc' = IF pc = "compare" THEN "after" ELSE "indexes"
  /\ UNCHANGED <<catalog, todo, iter>> /\ Same

Different ==
  /\ Goto("compare", "alter")
  /\ ~Refused
  /\ Diff # {}
  /\ todo' = {d \in Diff : Alterable(d)}
  /\ UNCHANGED <<catalog, iter>> /\ Same

\* "ADD COLUMN .. NOT NULL" of a key fails if there are rows.
AddColumn(n) ==
  /\ Expected(n).nullable \/ ~HasRows
  /\ live' = [live EXCEPT ![n] = [ty |-> Expected(n).ty, nullable |-> Expected(n).nullable,
                                 key |-> "none", pos |-> attrs, data |-> Fresh]]
  /\ attrs' = attrs + 1
  /\ UNCHANGED indexes

\* DROP NOT NULL is refused for a column of the primary key.
DropNotNull(n) ==
  /\ live[n].key # "primary"
  /\ live' = [live EXCEPT ![n].nullable = TRUE]
  /\ UNCHANGED <<attrs, indexes>>

\* A valid index of the live table with the same method, uniqueness and columns.
\* The indexes of constraints are among them.
Equivalent(i) ==
  \/ \E e \in indexes : e.on = gen /\ e.valid /\ e.plain /\ e.unique = i.unique
                          /\ e.cols = i.cols
  \/ \E n \in Have : i = UniqueOn(n) /\ live[n].key # "none"

\* CREATE UNIQUE INDEX CONCURRENTLY, unless there is one.
AddUnique(n) ==
  /\ indexes' = IF Equivalent(UniqueOn(n)) THEN indexes ELSE With("column", UniqueOn(n), TRUE)
  /\ UNCHANGED <<live, attrs>>

Rank(d) == CASE d.kind = "added" -> 0 [] d.kind = "nullability" -> 1 [] OTHER -> 2

\* The statements of apply_safe_alters, sorted by kind (and by column).
Alter ==
  /\ pc = "alter"
  /\ \E d \in todo :
        /\ \A e \in todo : /\ Rank(d) <= Rank(e)
                          /\ Rank(d) = Rank(e) => d.col <= e.col
        /\ todo' = todo \ {d}
        /\ \/ d.kind = "added" /\ AddColumn(d.col)
           \/ d.kind = "nullability" /\ DropNotNull(d.col)
           \/ d.kind = "unique" /\ AddUnique(d.col)
  /\ UNCHANGED <<gen, pc, iter>> /\ Same

AltersDone ==
  /\ Goto("alter", "loop")
  /\ todo = {}
  /\ UNCHANGED <<catalog, todo, iter>> /\ Same

-----------------------------------------------------------------------------
(* online_rewrite_table, seen from the catalog. *)

\* build_column_exprs: the column a declared column is copied from.
CopiedFrom(n) ==
  IF n \in Have THEN n
  ELSE IF spec.col[n].from \in Have THEN spec.col[n].from ELSE NoName

Rewritable ==
  /\ \A n \in PrimaryKey : n \in Have
  /\ PrimaryKey = {} => cfg.migKey /\ MigKey \in Have
  /\ \A n \in Declared : CopiedFrom(n) = NoName => spec.col[n].hasDefault \/ spec.col[n].nullable

\* No rewrite is possible, or the table "still differs after online rewrite".
GiveUp ==
  /\ pc \in {"after", "final"}
  /\ ~Refused /\ Diff # {}
  /\ pc = "after" => ~Rewritable
  /\ pc' = IF pc = "after" THEN "failed" ELSE "differs"
  /\ UNCHANGED <<catalog, todo, iter>> /\ Same

\* MUTANT of Shadow: the internal key is left behind.
ShadowKeyless == [n \in Names |->
  IF n \in Declared
  THEN [Created[n] EXCEPT !.data = IF CopiedFrom(n) = NoName THEN Fresh
                                   ELSE live[CopiedFrom(n)].data]
  ELSE NoCol]

\* The declared columns with their constraints, and the internal key.
Shadow == [n \in Names |->
  IF n \in Declared
  THEN [Created[n] EXCEPT !.data = IF CopiedFrom(n) = NoName THEN Fresh
                                   ELSE live[CopiedFrom(n)].data]
  ELSE IF Keyed /\ n = MigKey
  THEN [ty |-> BigInt, nullable |-> FALSE, key |-> "none",
        pos |-> Cardinality(Declared), data |-> live[MigKey].data]
  ELSE NoCol]

\* The index of the shadow's key has a name of its own, with the time in it.
ShadowIndex == [name |-> <<"other", TRUE, <<MigKey>>>>, cols |-> <<MigKey>>, unique |-> TRUE,
                plain |-> TRUE, on |-> gen + 1, valid |-> TRUE]

Rewrite ==
  /\ Goto("after", "newIndexes")
  /\ ~Refused /\ Diff # {}
  /\ Rewritable
  /\ live' = Shadow
  /\ attrs' = Cardinality(Want)
  /\ gen' = gen + 1
  /\ indexes' = indexes \cup IF Keyed THEN {ShadowIndex} ELSE {}
  /\ UNCHANGED <<todo, iter>> /\ Same

-----------------------------------------------------------------------------
(* ensure_indexes_concurrently, after a rewrite and at the end. *)

ReadIndexes ==
  /\ pc \in {"newIndexes", "indexes"}
  /\ pc' = IF pc = "newIndexes" THEN "newBuild" ELSE "build"
  /\ todo' = {i \in spec.indexes : ~Equivalent(i)}
  /\ UNCHANGED <<catalog, iter>> /\ Same

Building == {"create", "newBuild", "build"}

CreateIndex ==
  /\ pc \in Building
  /\ \E i \in todo :
        /\ todo' = todo \ {i}
        /\ indexes' = With("declared", i, TRUE)
  /\ UNCHANGED <<live, attrs, gen, pc, iter>> /\ Same

IndexesDone ==
  /\ pc \in Building
  /\ todo = {}
  /\ pc' = IF pc = "newBuild" THEN "final" ELSE "ok"
  /\ repeat' = (pc # "newBuild" \/ repeat)
  /\ UNCHANGED <<catalog, todo, iter, call>>

-----------------------------------------------------------------------------
\* A statement fails or the process dies; what was done stays.
Fail ==
  /\ pc \notin Ended
  /\ pc' = "failed"
  /\ UNCHANGED <<catalog, todo, iter>> /\ Same

\* A concurrent build that fails leaves an invalid index.
BuildFails ==
  /\ \/ /\ pc \in {"newBuild", "build"}
        /\ \E i \in todo : ~Taken("declared", i) /\ indexes' = With("declared", i, FALSE)
     \/ /\ pc = "alter"
        /\ \E d \in todo :
              /\ d.kind = "unique" /\ \A e \in todo : Rank(e) = 2
              /\ ~Taken("column", UniqueOn(d.col))
              /\ indexes' = With("column", UniqueOn(d.col), FALSE)
  /\ pc' = "failed"
  /\ UNCHANGED <<live, attrs, gen, todo, iter>> /\ Same

Advance ==
  \/ CreateTable \/ TableExists \/ EnsureKey
  \/ Iterate \/ IterationsOver \/ Rename \/ RenamesDone
  \/ RefuseDrop \/ Equal \/ Different \/ Alter \/ AltersDone
  \/ GiveUp \/ Rewrite
  \/ ReadIndexes \/ CreateIndex \/ IndexesDone

Finished == pc \in Ended /\ calls = MaxCalls /\ UNCHANGED vars

Next == Call \/ Advance \/ Fail \/ BuildFails \/ Finished

Spec == Init /\ [][Next]_vars

\* The statement under way returns, with or without an error.
FairSpec == Spec /\ WF_vars(Advance \/ Fail)

-----------------------------------------------------------------------------
(* Properties. *)

TypeOK ==
  /\ live \in [Names -> Column \cup {NoCol}] /\ before \in [Names -> Column \cup {NoCol}]
  /\ attrs \in Nat /\ gen \in Nat
  /\ \A i \in indexes : i \in Index /\ i.on <= gen
  /\ pc \in Ended \cup Comparing \cup Building
             \cup {"start", "loop", "rename", "alter", "newIndexes", "indexes"}
  /\ spec \in Specs /\ cfg \in Cfgs
  /\ iter \in 0..6 /\ repeat \in BOOLEAN /\ calls \in 0..MaxCalls
  /\ \A n \in Have : live[n].pos < attrs /\ (live[n].key = "primary" => ~live[n].nullable)

\* A call that returns Ok leaves the table as declared, in all that the planner
\* compares.  (A table that is created gets its internal key at the next call.)
OkAsDeclared == pc = "ok" => Diff \subseteq {[kind |-> "added", col |-> MigKey]}

\* What the shadow is created with is what the planner then expects: a rewrite
\* is never followed by "still differs after online rewrite".
RewriteSettles == pc # "differs"

\* A call repeated after it succeeded, whatever failed in between, does not
\* rewrite the table again.
NoSecondRewrite == [][gen' # gen => ~repeat]_vars

\* Under enforce_exact_columns without allow_destructive_drops no step takes
\* the data of a column out of the live table.
DataIn(t) == {t[n].data : n \in {m \in Names : t[m] # NoCol}} \ {Fresh}
ExactKeepsData == [][cfg.exact /\ ~cfg.drops => DataIn(live) \subseteq DataIn(live')]_vars

\* With allow_column_renames a column declared with rename_from has the data of
\* the column it replaces when the call returns Ok.
RenamedKeepsData ==
  pc = "ok" /\ cfg.renames =>
    \A n \in Declared : LET f == spec.col[n].from IN
       f # NoName /\ before[n] = NoCol /\ before[f] # NoCol =>
         live[n] # NoCol /\ live[n].data = before[f].data

\* Every call returns.
Returns == pc = "start" ~> pc \in Ended

\* "Ensure indexes exist even when there were no schema diffs. This must be done
\* after any rewrite" (orsx/src/migrations/mod.rs:118-119): a call that returns
\* Ok leaves an index, valid or not, for each one declared.
IndexesExist ==
  pc = "ok" => \A i \in spec.indexes :
    \/ \E e \in indexes : e.on = gen /\ e.cols = i.cols /\ e.unique = i.unique /\ e.plain
    \/ Equivalent(i)
=============================================================================
