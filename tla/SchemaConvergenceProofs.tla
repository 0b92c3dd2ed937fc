---------------------- MODULE SchemaConvergenceProofs ----------------------
(***************************************************************************)
(* Proofs about SchemaConvergence, for every series of releases, every     *)
(* configuration and whatever table the database holds at the start: what  *)
(* a call that returns Ok leaves, what no statement takes away, and that   *)
(* no call that succeeded before rewrites the table again.                 *)
(***************************************************************************)
EXTENDS SchemaConvergence, FiniteSetTheorems, TLAPS

-----------------------------------------------------------------------------
(* The inductive invariant. *)

\* Nothing the planner compares differs; or only the missing internal key does.
Settled == \A k \in Kinds, n \in Names : ~Differs(k, n)
SettledButKey == \A k \in Kinds, n \in Names : Differs(k, n) => k = "added" /\ n = MigKey

\* What the running loop still has to apply.
TodoOK ==
  /\ pc = "rename" => todo \subseteq Renames
  /\ pc \in Building => todo \subseteq spec.indexes
  /\ pc = "alter" => \A d \in todo :
        /\ d \in [kind : Kinds, col : Names]
        /\ d.kind = "added" => d.col \in Want \ Have
        /\ d.kind # "added" => d.col \in Want \cap Have
  /\ pc \in {"rename", "compare", "alter"} => iter > 0

\* A call past its start has a table, and there are no indexes without one.
TableThere ==
  /\ Have = {} => indexes = {}
  /\ pc \notin Ended \cup {"start"} => Have # {}

\* After a rewrite, and after a comparison without a difference, nothing differs.
SettledWhere ==
  /\ pc \in {"newIndexes", "newBuild", "final", "indexes", "build"} => Settled
  /\ pc \in {"create", "ok"} => SettledButKey
  /\ pc # "differs"

\* A column to be renamed: in its old place, or in its new one.
Moving(n) == LET f == spec.col[n].from IN
  cfg.renames /\ f # NoName /\ before[n] = NoCol /\ before[f] # NoCol
Pending(n) == LET f == spec.col[n].from IN
  live[n] = NoCol /\ live[f] # NoCol /\ live[f].data = before[f].data
Moved(n) == live[n] # NoCol /\ live[n].data = before[spec.col[n].from].data

\* The renames are pending up to the first pass and done after it.
RenamesWhere ==
  \A n \in Declared : Moving(n) =>
    /\ pc = "start" => Pending(n)
    /\ pc = "loop" => IF iter = 0 THEN Pending(n) ELSE Moved(n)
    /\ pc = "rename" => Moved(n) \/ (Pending(n) /\ <<spec.col[n].from, n>> \in todo)
    /\ pc \notin {"idle", "failed", "differs", "start", "loop", "rename"} => Moved(n)

\* The internal key can be added at the end, and its index under its own name.
KeyFree == attrs = Cardinality(Declared) /\ ~Taken("declared", UniqueOn(MigKey))

\* A call that succeeded before finds nothing to do but to add the internal key.
RepeatWhere ==
  /\ repeat =>
       /\ SettledButKey
       /\ pc \notin Ended \cup {"start"} => Settled
       /\ pc \notin {"create", "alter", "newIndexes", "newBuild", "final"}
       /\ MigKey \in Want \ Have => KeyFree
  /\ pc = "create" => MigKey \notin Have /\ KeyFree

Inv == /\ TypeOK /\ TodoOK /\ TableThere
       /\ SettledWhere /\ RenamesWhere /\ RepeatWhere

-----------------------------------------------------------------------------
(* What the declarations and the types give. *)

LEMMA SpecFacts ==
  ASSUME spec \in Specs
  PROVE  /\ Declared \subseteq Names \ {MigKey} /\ Declared # {}
         /\ IsFiniteSet(Declared) /\ Cardinality(Declared) \in Nat
         /\ \A n \in Declared : /\ spec.col[n] \in ColumnSpec
                                /\ spec.col[n].pos < Cardinality(Declared)
                                /\ spec.col[n].from # NoName =>
                                     spec.col[n].from \in Names \ (Declared \cup {MigKey})
         /\ \A n, o \in Declared :
              spec.col[n].from # NoName /\ spec.col[n].from = spec.col[o].from => n = o
         /\ \A i \in spec.indexes :
              /\ i.cols \in Seq(Declared) /\ i.unique \in BOOLEAN
              /\ i.unique /\ Len(i.cols) = 1 =>
                   spec.col[i.cols[1]].unique \/ spec.col[i.cols[1]].pk
<1>1. WellDeclared(spec)
  BY SpecAssumption
<1>2. IsFiniteSet(Declared) /\ Cardinality(Declared) \in Nat
  BY <1>1, FS_CardinalityType DEF WellDeclared, Declared
<1>3. \A n \in Declared : spec.col[n].from # NoName =>
        spec.col[n].from \in Names \ (Declared \cup {MigKey})
  BY <1>1 DEF WellDeclared, Declared, ColumnSpec
<1> QED
  BY <1>1, <1>2, <1>3 DEF WellDeclared, Declared

\* The internal key comes after the declared columns.
LEMMA WantSize ==
  ASSUME spec \in Specs
  PROVE  /\ Cardinality(Want) \in Nat
         /\ Cardinality(Declared) <= Cardinality(Want)
         /\ Keyed => Cardinality(Want) = Cardinality(Declared) + 1
<1>1. IsFiniteSet(Declared) /\ Cardinality(Declared) \in Nat /\ MigKey \notin Declared
  BY SpecFacts
<1>2. Cardinality(Declared \cup {MigKey}) = Cardinality(Declared) + 1
  BY <1>1, FS_AddElement
<1>3. CASE Keyed
  BY <1>1, <1>2, <1>3 DEF Want
<1>4. CASE ~Keyed
  <2>1. Want = Declared
    BY <1>4 DEF Want
  <2> QED
    BY <1>1, <1>4, <2>1
<1> QED
  BY <1>3, <1>4

LEMMA WantNames ==
  ASSUME spec \in Specs
  PROVE  Declared \subseteq Want /\ Want \subseteq Names
         /\ (MigKey \in Want <=> Keyed)
         /\ Want \ Declared \subseteq {MigKey}
BY SpecFacts, NameAssumption DEF Want

\* What is expected of a declared column, and of the internal key.
LEMMA ExpectedFacts ==
  ASSUME spec \in Specs
  PROVE  /\ \A n \in Declared :
              /\ Expected(n).ty = spec.col[n].ty /\ Expected(n).ty \in Types
              /\ Expected(n).nullable = (spec.col[n].nullable /\ ~spec.col[n].pk)
              /\ Expected(n).nullable \in BOOLEAN
              /\ Expected(n).pos = spec.col[n].pos /\ Expected(n).pos \in Nat
              /\ Expected(n).pos < Cardinality(Declared)
              /\ Expected(n).primary = spec.col[n].pk /\ Expected(n).primary \in BOOLEAN
              /\ Expected(n).unique = (spec.col[n].unique \/ spec.col[n].pk)
              /\ Expected(n).unique \in BOOLEAN
         /\ Expected(MigKey) = [ty |-> BigInt, nullable |-> FALSE,
                                pos |-> Cardinality(Declared),
                                primary |-> FALSE, unique |-> TRUE]
<1>1. ASSUME NEW n \in Declared
      PROVE  Expected(n) = [ty |-> spec.col[n].ty,
                            nullable |-> spec.col[n].nullable /\ ~spec.col[n].pk,
                            pos |-> spec.col[n].pos, primary |-> spec.col[n].pk,
                            unique |-> spec.col[n].unique \/ spec.col[n].pk]
             /\ spec.col[n] \in ColumnSpec /\ spec.col[n].pos < Cardinality(Declared)
  BY <1>1, SpecFacts DEF Expected
<1>2. MigKey \notin Declared
  BY SpecFacts
<1> QED
  BY <1>1, <1>2 DEF Expected, ColumnSpec

LEMMA CreatedFacts ==
  ASSUME spec \in Specs
  PROVE  /\ Created \in [Names -> Column \cup {NoCol}]
         /\ \A n \in Declared :
              /\ Created[n] \in Column
              /\ Created[n].ty = Expected(n).ty
              /\ Created[n].nullable = Expected(n).nullable
              /\ Created[n].pos = Expected(n).pos
              /\ Created[n].pos < Cardinality(Declared)
              /\ Created[n].key = "primary" <=> Expected(n).primary
              /\ Created[n].key # "none" <=> Expected(n).unique
              /\ Created[n].key = "primary" => ~Created[n].nullable
         /\ \A n \in Names \ Declared : Created[n] = NoCol
<1>1. ASSUME NEW n \in Declared
      PROVE  /\ Created[n] \in Column
             /\ Created[n].ty = Expected(n).ty
             /\ Created[n].nullable = Expected(n).nullable
             /\ Created[n].pos = Expected(n).pos
             /\ Created[n].pos < Cardinality(Declared)
             /\ Created[n].key = "primary" <=> Expected(n).primary
             /\ Created[n].key # "none" <=> Expected(n).unique
             /\ Created[n].key = "primary" => ~Created[n].nullable
  <2> DEFINE key == IF Expected(n).primary THEN "primary"
                    ELSE IF Expected(n).unique THEN "unique" ELSE "none"
  <2>1. /\ Expected(n).ty \in Types /\ Expected(n).nullable \in BOOLEAN
        /\ Expected(n).pos \in Nat /\ Expected(n).pos < Cardinality(Declared)
        /\ Expected(n).primary \in BOOLEAN /\ Expected(n).unique \in BOOLEAN
        /\ Expected(n).primary => Expected(n).unique
        /\ Expected(n).primary => ~Expected(n).nullable
    BY ExpectedFacts
  <2>2. /\ key \in {"none", "unique", "primary"}
        /\ key = "primary" <=> Expected(n).primary
        /\ key # "none" <=> Expected(n).unique
    BY <2>1
  <2> HIDE DEF key
  <2>3. Created[n] = [ty |-> Expected(n).ty, nullable |-> Expected(n).nullable,
                      pos |-> Expected(n).pos, key |-> key, data |-> Fresh]
    BY SpecFacts DEF Created, key
  <2>4. Created[n] \in Column
    BY <2>1, <2>2, <2>3 DEF Column
  <2>5. /\ Created[n].ty = Expected(n).ty /\ Created[n].nullable = Expected(n).nullable
        /\ Created[n].pos = Expected(n).pos /\ Created[n].key = key
    BY <2>3
  <2> QED
    BY <2>1, <2>2, <2>4, <2>5
<1>2. \A n \in Names \ Declared : Created[n] = NoCol
  BY DEF Created
<1>3. Created \in [Names -> Column \cup {NoCol}]
  BY <1>1, <1>2, SpecFacts DEF Created
<1> QED
  BY <1>1, <1>2, <1>3

LEMMA LiveFacts ==
  ASSUME TypeOK
  PROVE  /\ \A n \in Names : live[n] \in Column \cup {NoCol}
         /\ \A n \in Have : n \in Names /\ live[n] \in Column /\ live[n] # NoCol
                            /\ live[n].data \in Names \cup {Fresh}
         /\ \A n \in Names \ Have : live[n] = NoCol
         /\ NoCol \notin Column
BY ValueAssumption DEF TypeOK, Have, Column

-----------------------------------------------------------------------------
(* Settled, column by column. *)

\* The planner sees no difference in a column.
Fits(n) ==
  /\ live[n].ty = Expected(n).ty
  /\ live[n].nullable = Expected(n).nullable
  /\ (live[n].key = "primary") = Expected(n).primary
  /\ IsUnique(n) = Expected(n).unique
  /\ cfg.order => live[n].pos = Expected(n).pos

AllFit == \A n \in Want \cap Have : Fits(n)

SettledView ==
  Want \subseteq Have /\ (cfg.exact => Have \subseteq Want) /\ AllFit
ButKeyView ==
  Want \subseteq Have \cup {MigKey} /\ (cfg.exact => Have \subseteq Want) /\ AllFit

LEMMA SettledEq ==
  spec \in Specs => (Settled <=> SettledView) /\ (SettledButKey <=> ButKeyView)
<1> SUFFICES ASSUME spec \in Specs
             PROVE  (Settled <=> SettledView) /\ (SettledButKey <=> ButKeyView)
  OBVIOUS
<1>1. Want \subseteq Names /\ Have \subseteq Names
  BY WantNames DEF Have
<1>2. ASSUME NEW n \in Names
      PROVE  /\ Differs("added", n) <=> n \in Want \ Have
             /\ Differs("removed", n) <=> n \in Have \ Want /\ cfg.exact
             /\ \A k \in Kinds \ {"added", "removed"} : Differs(k, n) => n \in Want \cap Have
             /\ n \in Want \cap Have =>
                  (Fits(n) <=> \A k \in Kinds \ {"added", "removed"} : ~Differs(k, n))
  BY DEF Differs, Kinds, Fits
<1>3. "added" \in Kinds /\ "removed" \in Kinds
  BY DEF Kinds
<1>4. Settled <=> SettledView
  BY <1>1, <1>2, <1>3 DEF Settled, SettledView, AllFit
<1>5. SettledButKey <=> ButKeyView
  BY <1>1, <1>2, <1>3 DEF SettledButKey, ButKeyView, AllFit
<1> QED
  BY <1>4, <1>5

LEMMA SettledEqNext ==
  ASSUME spec' \in Specs
  PROVE  (Settled' <=> SettledView') /\ (SettledButKey' <=> ButKeyView')
<1>1. (spec \in Specs => (Settled <=> SettledView) /\ (SettledButKey <=> ButKeyView))'
  BY SettledEq, PTL
<1> QED
  BY <1>1

LEMMA DiffEq ==
  /\ Diff = {} <=> Settled
  /\ Diff \subseteq {[kind |-> "added", col |-> MigKey]} <=> SettledButKey
<1>1. ASSUME NEW d PROVE d \in Diff <=> d \in [kind : Kinds, col : Names] /\ Differs(d.kind, d.col)
  BY DEF Diff
<1>2. \A k \in Kinds, n \in Names : /\ [kind |-> k, col |-> n] \in [kind : Kinds, col : Names]
                                    /\ [kind |-> k, col |-> n].kind = k
                                    /\ [kind |-> k, col |-> n].col = n
  OBVIOUS
<1>3. \A k \in Kinds, n \in Names : Differs(k, n) <=> [kind |-> k, col |-> n] \in Diff
  BY <1>1, <1>2
<1>4. \A d \in [kind : Kinds, col : Names] :
        /\ d.kind \in Kinds /\ d.col \in Names /\ d = [kind |-> d.kind, col |-> d.col]
  OBVIOUS
<1>5. Diff = {} <=> Settled
  BY <1>1, <1>3, <1>4 DEF Settled
<1>6. ASSUME SettledButKey, NEW d \in Diff
      PROVE  d = [kind |-> "added", col |-> MigKey]
  BY <1>1, <1>4, <1>6 DEF SettledButKey
<1>7. ASSUME Diff \subseteq {[kind |-> "added", col |-> MigKey]},
             NEW k \in Kinds, NEW n \in Names, Differs(k, n)
      PROVE  k = "added" /\ n = MigKey
  <2>1. [kind |-> k, col |-> n] = [kind |-> "added", col |-> MigKey]
    BY <1>3, <1>7
  <2> QED
    BY <2>1
<1> QED
  BY <1>5, <1>6, <1>7 DEF SettledButKey

-----------------------------------------------------------------------------
(* The types. *)

\* The steps that leave the catalog, the call and its record alone.
Quiet ==
  \/ TableExists \/ Iterate \/ IterationsOver \/ RenamesDone \/ RefuseDrop \/ Equal
  \/ Different \/ AltersDone \/ GiveUp \/ ReadIndexes \/ IndexesDone \/ Fail
  \/ UNCHANGED vars

Acting ==
  \/ Call \/ CreateTable \/ EnsureKey \/ Rename \/ Alter \/ Rewrite \/ CreateIndex
  \/ BuildFails

LEMMA Steps == [Next]_vars => Quiet \/ Acting
BY DEF Next, Advance, Finished, Quiet, Acting

LEMMA QuietSame ==
  ASSUME TypeOK, Quiet
  PROVE  UNCHANGED <<live, attrs, gen, indexes, spec, cfg, before, calls>>
BY DEF Quiet, TableExists, Iterate, IterationsOver, RenamesDone, RefuseDrop, Equal,
       Different, AltersDone, GiveUp, ReadIndexes, IndexesDone, Fail, vars, catalog,
       call, Same

LEMMA QuietTypes ==
  ASSUME TypeOK, Quiet
  PROVE  TypeOK'
<1>1. UNCHANGED <<live, attrs, gen, indexes, spec, cfg, before, calls>>
  BY QuietSame
<1>2. /\ pc' \in Ended \cup Comparing \cup Building
                   \cup {"start", "loop", "rename", "alter", "newIndexes", "indexes"}
      /\ iter' \in 0..6
  BY DEF TypeOK, Quiet, TableExists, Iterate, IterationsOver, RenamesDone, RefuseDrop,
         Equal, Different, AltersDone, GiveUp, ReadIndexes, IndexesDone, Fail, vars,
         catalog, call, Same, Goto, Ended, Comparing, Building
<1>3. Have' = Have
  BY <1>1 DEF Have
<1>4. repeat' \in BOOLEAN
  <2>1. CASE IndexesDone
    BY <2>1, Zenon DEF IndexesDone
  <2>2. CASE ~IndexesDone
    BY <2>2 DEF TypeOK, Quiet, TableExists, Iterate, IterationsOver, RenamesDone,
           RefuseDrop, Equal, Different, AltersDone, GiveUp, ReadIndexes, Fail, vars, Same
  <2> QED
    BY <2>1, <2>2
<1> QED
  BY <1>1, <1>2, <1>3, <1>4 DEF TypeOK

\* A step that changes the columns and the indexes to others of their types.
LEMMA CatalogTypes ==
  ASSUME TypeOK, attrs' \in Nat, gen' \in {gen, gen + 1},
         live' \in [Names -> Column \cup {NoCol}],
         \A n \in Names : live'[n] # NoCol =>
            live'[n].pos < attrs' /\ (live'[n].key = "primary" => ~live'[n].nullable),
         \A i \in indexes' : i \in Index /\ i.on <= gen',
         UNCHANGED <<call, repeat>>,
         pc' \in Ended \cup Comparing \cup Building
                   \cup {"start", "loop", "rename", "alter", "newIndexes", "indexes"},
         iter' \in 0..6
  PROVE  TypeOK'
<1>1. \A n \in Have' : live'[n].pos < attrs' /\ (live'[n].key = "primary" => ~live'[n].nullable)
  BY DEF Have
<1> QED
  BY <1>1 DEF TypeOK, call

LEMMA EntryType ==
  ASSUME TypeOK, NEW kind \in {"declared", "column"}, NEW i, i.cols \in Seq(Names),
         i.unique \in BOOLEAN, NEW valid \in BOOLEAN
  PROVE  \A e \in With(kind, i, valid) : e \in Index /\ e.on <= gen
<1>1. NameFor(kind, i) \in {"declared", "column", "other"} \X BOOLEAN \X Seq(Names)
  BY DEF NameFor
<1>2. gen \in Nat /\ \A e \in indexes : e \in Index /\ e.on <= gen
  BY DEF TypeOK
<1>3. Entry(kind, i, valid) \in Index /\ Entry(kind, i, valid).on = gen
  BY <1>1, <1>2 DEF Entry, Index
<1> QED
  BY <1>2, <1>3 DEF With

LEMMA OwnColumns ==
  ASSUME TypeOK, NEW n \in Names
  PROVE  UniqueOn(n).cols \in Seq(Names) /\ UniqueOn(n).unique \in BOOLEAN
         /\ UniqueOn(n).cols = <<n>> /\ UniqueOn(n).unique
BY DEF UniqueOn

LEMMA DeclaredColumns ==
  ASSUME spec \in Specs, NEW i \in spec.indexes
  PROVE  i.cols \in Seq(Names) /\ i.unique \in BOOLEAN
BY SpecFacts

\* The column EnsureKey and AddColumn append.
LEMMA Appended ==
  ASSUME TypeOK, NEW n \in Names, NEW ty \in Types, NEW null \in BOOLEAN,
         live' = [live EXCEPT ![n] = [ty |-> ty, nullable |-> null, key |-> "none",
                                      pos |-> attrs, data |-> Fresh]],
         attrs' = attrs + 1
  PROVE  /\ attrs' \in Nat /\ live' \in [Names -> Column \cup {NoCol}]
         /\ \A m \in Names : live'[m] # NoCol =>
              live'[m].pos < attrs' /\ (live'[m].key = "primary" => ~live'[m].nullable)
         /\ live'[n] # NoCol /\ live'[n].ty = ty /\ live'[n].nullable = null
         /\ live'[n].key = "none" /\ live'[n].pos = attrs
         /\ \A m \in Names \ {n} : live'[m] = live[m]
         /\ Have' = Have \cup {n}
<1> DEFINE c == [ty |-> ty, nullable |-> null, key |-> "none", pos |-> attrs, data |-> Fresh]
<1>1. c \in Column /\ c # NoCol /\ attrs \in Nat
  BY LiveFacts DEF TypeOK, Column
<1>2. c.ty = ty /\ c.nullable = null /\ c.key = "none" /\ c.pos = attrs
  OBVIOUS
<1> HIDE DEF c
<1>3. live' = [live EXCEPT ![n] = c]
  BY DEF c
<1>4. live \in [Names -> Column \cup {NoCol}]
      /\ \A m \in Have : live[m].pos < attrs /\ live[m].pos \in Nat
                         /\ (live[m].key = "primary" => ~live[m].nullable)
  BY LiveFacts DEF TypeOK, Column
<1>5. live'[n] = c /\ \A m \in Names \ {n} : live'[m] = live[m]
  BY <1>3, <1>4
<1>6. live' \in [Names -> Column \cup {NoCol}]
  BY <1>1, <1>3, <1>4
<1>7. ASSUME NEW m \in Names, live'[m] # NoCol
      PROVE  live'[m].pos < attrs' /\ (live'[m].key = "primary" => ~live'[m].nullable)
  <2>1. CASE m = n
    BY <1>1, <1>2, <1>5, <2>1
  <2>2. CASE m # n
    <3>1. m \in Have /\ live'[m] = live[m]
      BY <1>5, <1>7, <2>2 DEF Have
    <3> QED
      BY <1>1, <1>4, <3>1
  <2> QED
    BY <2>1, <2>2
<1>8. Have' = Have \cup {n}
  BY <1>1, <1>5 DEF Have
<1> QED
  BY <1>1, <1>2, <1>5, <1>6, <1>7, <1>8

LEMMA CallTypes ==
  ASSUME TypeOK, Call
  PROVE  TypeOK'
<1>1. UNCHANGED <<live, attrs, gen, indexes, iter>> /\ pc' = "start" /\ before' = live
      /\ spec' \in Specs /\ cfg' \in Cfgs /\ calls' \in 0..MaxCalls
  BY BoundAssumption DEF Call, catalog, TypeOK
<1>2. repeat' \in BOOLEAN
  BY Zenon DEF Call
<1>3. Have' = Have
  BY <1>1 DEF Have
<1> QED
  BY <1>1, <1>2, <1>3 DEF TypeOK

LEMMA CreateTableTypes ==
  ASSUME TypeOK, CreateTable
  PROVE  TypeOK'
<1>1. /\ live' = Created /\ attrs' = Cardinality(Declared) /\ pc' = "create"
      /\ UNCHANGED <<gen, indexes, iter, call, repeat>>
  BY DEF CreateTable, Goto, Same
<1>2. spec \in Specs /\ \A i \in indexes : i \in Index /\ i.on <= gen
  BY DEF TypeOK
<1>3. \A n \in Names : Created[n] # NoCol =>
        Created[n].pos < Cardinality(Declared) /\ (Created[n].key = "primary" => ~Created[n].nullable)
  BY <1>2, CreatedFacts
<1>4. iter \in 0..6 /\ Cardinality(Declared) \in Nat
      /\ Created \in [Names -> Column \cup {NoCol}]
  BY <1>2, CreatedFacts, SpecFacts DEF TypeOK
<1> QED
  BY <1>1, <1>2, <1>3, <1>4, CatalogTypes DEF Building

\* What EnsureKey does to the columns.
LEMMA EnsureKeyLive ==
  ASSUME TypeOK, EnsureKey
  PROVE  /\ attrs' \in Nat /\ live' \in [Names -> Column \cup {NoCol}]
         /\ \A m \in Names : live'[m] # NoCol =>
              live'[m].pos < attrs' /\ (live'[m].key = "primary" => ~live'[m].nullable)
         /\ \A m \in Names \ {MigKey} : live'[m] = live[m]
         /\ Have' = Have \cup {MigKey}
         /\ MigKey \in Have => live' = live /\ attrs' = attrs
         /\ MigKey \notin Have =>
              /\ live'[MigKey].ty = BigInt /\ live'[MigKey].nullable = FALSE
              /\ live'[MigKey].key = "none" /\ live'[MigKey].pos = attrs
<1>1. CASE MigKey \in Have
  <2>1. live' = live /\ attrs' = attrs
    BY <1>1 DEF EnsureKey
  <2>2. Have' = Have
    BY <2>1 DEF Have
  <2> QED
    BY <1>1, <2>1, <2>2 DEF TypeOK, Have
<1>2. CASE MigKey \notin Have
  <2>1. /\ live' = [live EXCEPT ![MigKey] = [ty |-> BigInt, nullable |-> FALSE,
                      key |-> "none", pos |-> attrs, data |-> Fresh]]
        /\ attrs' = attrs + 1
    BY <1>2 DEF EnsureKey
  <2>2. MigKey \in Names /\ BigInt \in Types
    BY NameAssumption, ValueAssumption
  <2> QED
    BY <1>2, <2>1, <2>2, Appended
<1> QED
  BY <1>1, <1>2

LEMMA EnsureKeyTypes ==
  ASSUME TypeOK, EnsureKey
  PROVE  TypeOK'
<1>1. MigKey \in Names
  BY NameAssumption
<1>2. \A e \in With("declared", UniqueOn(MigKey), TRUE) : e \in Index /\ e.on <= gen
  BY <1>1, OwnColumns, EntryType
<1>3. /\ indexes' = With("declared", UniqueOn(MigKey), TRUE)
      /\ gen' = gen /\ iter' = 0 /\ pc' = "loop" /\ UNCHANGED <<call, repeat>>
  BY DEF EnsureKey, Goto, Same
<1>4. \A i \in indexes' : i \in Index /\ i.on <= gen'
  BY <1>2, <1>3
<1>5. gen' \in {gen, gen + 1} /\ iter' \in 0..6
      /\ pc' \in Ended \cup Comparing \cup Building
                   \cup {"start", "loop", "rename", "alter", "newIndexes", "indexes"}
  BY <1>3
<1> QED
  BY <1>3, <1>4, <1>5, EnsureKeyLive, CatalogTypes

\* A rename moves a column that is there to a name that is free.
LEMMA RenameLive ==
  ASSUME TypeOK, TodoOK, Rename
  PROVE  \E n \in Declared :
           LET f == spec.col[n].from IN
           /\ cfg.renames /\ f \in Names \ (Declared \cup {MigKey}) /\ <<f, n>> \in todo
           /\ todo' = todo \ {<<f, n>>}
           /\ \/ (n \in Have \/ f \notin Have) /\ UNCHANGED <<live, indexes>>
              \/ /\ n \notin Have /\ f \in Have
                 /\ live' = [live EXCEPT ![n] = live[f], ![f] = NoCol]
                 /\ indexes' = {Follow(i, <<f, n>>) : i \in indexes}
<1>1. PICK r \in todo :
        /\ todo' = todo \ {r}
        /\ IF r[2] \in Have \/ r[1] \notin Have THEN UNCHANGED <<live, indexes>>
           ELSE /\ live' = [live EXCEPT ![r[2]] = live[r[1]], ![r[1]] = NoCol]
                /\ indexes' = {Follow(i, r) : i \in indexes}
  BY DEF Rename
<1>2. r \in Renames
  BY DEF Rename, TodoOK
<1>3. cfg.renames /\ \E n \in Declared : spec.col[n].from # NoName /\ r = <<spec.col[n].from, n>>
  BY <1>2 DEF Renames
<1>4. PICK n \in Declared : spec.col[n].from # NoName /\ r = <<spec.col[n].from, n>>
  BY <1>3
<1>5. spec.col[n].from \in Names \ (Declared \cup {MigKey})
  BY <1>4, SpecFacts DEF TypeOK
<1>6. r[1] = spec.col[n].from /\ r[2] = n
  BY <1>4
<1> WITNESS n \in Declared
<1> QED
  BY <1>1, <1>3, <1>4, <1>5, <1>6

LEMMA FollowType ==
  ASSUME TypeOK, NEW f \in Names, NEW n \in Names, NEW i \in indexes
  PROVE  Follow(i, <<f, n>>) \in Index /\ Follow(i, <<f, n>>).on = i.on
         /\ i.cols \in Seq(Names)
<1>1. i \in Index
  BY DEF TypeOK
<1> DEFINE s == [p \in DOMAIN i.cols |-> IF i.on = gen /\ i.cols[p] = f THEN n ELSE i.cols[p]]
<1>2. i.cols \in Seq(Names)
  BY <1>1 DEF Index
<1>3. s \in Seq(Names)
  <2>1. PICK k \in Nat : i.cols \in [1..k -> Names]
    BY <1>2
  <2>2. s \in [1..k -> Names]
    BY <2>1
  <2> QED
    BY <2>2
<1> HIDE DEF s
<1>4. Follow(i, <<f, n>>) = [i EXCEPT !.cols = s]
  BY DEF Follow, s
<1> QED
  BY <1>1, <1>2, <1>3, <1>4 DEF Index

LEMMA SwapLive ==
  ASSUME TypeOK, NEW f \in Names, NEW n \in Names, f # n, f \in Have,
         live' = [live EXCEPT ![n] = live[f], ![f] = NoCol]
  PROVE  /\ live' \in [Names -> Column \cup {NoCol}]
         /\ live'[n] = live[f] /\ live'[f] = NoCol
         /\ \A m \in Names \ {f, n} : live'[m] = live[m]
         /\ Have' = (Have \ {f}) \cup {n}
<1>1. live \in [Names -> Column \cup {NoCol}] /\ live[f] # NoCol
  BY DEF TypeOK, Have
<1>2. /\ live' \in [Names -> Column \cup {NoCol}]
      /\ live'[n] = live[f] /\ live'[f] = NoCol
      /\ \A m \in Names \ {f, n} : live'[m] = live[m]
  BY <1>1
<1> QED
  BY <1>1, <1>2 DEF Have

LEMMA RenameTypes ==
  ASSUME TypeOK, TodoOK, Rename
  PROVE  TypeOK'
<1>1. UNCHANGED <<attrs, gen, pc, iter, call, repeat>>
  BY DEF Rename, Same
<1>2. PICK n \in Declared :
        LET f == spec.col[n].from IN
        /\ f \in Names \ (Declared \cup {MigKey})
        /\ \/ UNCHANGED <<live, indexes>>
           \/ /\ f \in Have
              /\ live' = [live EXCEPT ![n] = live[f], ![f] = NoCol]
              /\ indexes' = {Follow(i, <<f, n>>) : i \in indexes}
  BY RenameLive
<1> DEFINE f == spec.col[n].from
<1>3. n \in Names /\ f \in Names /\ f # n
  BY <1>2, SpecFacts DEF TypeOK
<1>4. attrs' \in Nat /\ gen' \in {gen, gen + 1} /\ iter' \in 0..6
      /\ pc' \in Ended \cup Comparing \cup Building
                   \cup {"start", "loop", "rename", "alter", "newIndexes", "indexes"}
  BY <1>1 DEF TypeOK
<1>5. CASE UNCHANGED <<live, indexes>>
  BY <1>1, <1>4, <1>5, CatalogTypes DEF TypeOK, Have
<1>6. CASE /\ f \in Have
           /\ live' = [live EXCEPT ![n] = live[f], ![f] = NoCol]
           /\ indexes' = {Follow(i, <<f, n>>) : i \in indexes}
  <2> HIDE DEF f
  <2>1. /\ live' \in [Names -> Column \cup {NoCol}]
        /\ live'[n] = live[f] /\ live'[f] = NoCol
        /\ \A m \in Names \ {f, n} : live'[m] = live[m]
    BY <1>3, <1>6, SwapLive
  <2>2. \A m \in Names : live'[m] # NoCol =>
          live'[m].pos < attrs' /\ (live'[m].key = "primary" => ~live'[m].nullable)
    BY <1>1, <1>3, <2>1 DEF TypeOK, Have
  <2>3. \A i \in indexes' : i \in Index /\ i.on <= gen'
    BY <1>1, <1>3, <1>6, FollowType DEF TypeOK
  <2> QED
    BY <1>1, <1>4, <2>1, <2>2, <2>3, CatalogTypes
<1> QED
  BY <1>2, <1>5, <1>6

LEMMA ExpectedTypes ==
  ASSUME spec \in Specs, NEW n \in Want
  PROVE  Expected(n).ty \in Types /\ Expected(n).nullable \in BOOLEAN
<1>1. CASE n \in Declared
  BY <1>1, ExpectedFacts
<1>2. CASE n = MigKey
  <2>1. Expected(n) = [ty |-> BigInt, nullable |-> FALSE, pos |-> Cardinality(Declared),
                       primary |-> FALSE, unique |-> TRUE]
    BY <1>2, ExpectedFacts
  <2>2. Expected(n).ty = BigInt /\ Expected(n).nullable = FALSE
    BY <2>1
  <2> QED
    BY <2>2, ValueAssumption
<1> QED
  BY <1>1, <1>2, WantNames

\* The statement a step of apply_safe_alters makes.
LEMMA AlterStatement ==
  ASSUME TypeOK, TodoOK, Alter
  PROVE  \E d \in todo :
           /\ todo' = todo \ {d} /\ d.col \in Want
           /\ \/ d.kind = "added" /\ d.col \notin Have /\ AddColumn(d.col)
              \/ d.kind = "nullability" /\ d.col \in Have /\ DropNotNull(d.col)
              \/ d.kind = "unique" /\ d.col \in Have /\ AddUnique(d.col)
<1>1. pc = "alter"
  BY DEF Alter
<1>2. \A d \in todo : d.col \in Want /\ (d.kind = "added" => d.col \notin Have)
                      /\ (d.kind # "added" => d.col \in Have)
  BY <1>1 DEF TodoOK
<1> QED
  BY <1>2 DEF Alter

\* What DROP NOT NULL does to the columns.
LEMMA DropNotNullLive ==
  ASSUME TypeOK, NEW n \in Have, DropNotNull(n)
  PROVE  /\ live' \in [Names -> Column \cup {NoCol}]
         /\ \A m \in Names : live'[m] # NoCol =>
              live'[m].pos < attrs /\ (live'[m].key = "primary" => ~live'[m].nullable)
         /\ \A m \in Names \ {n} : live'[m] = live[m]
         /\ live'[n] # NoCol /\ live'[n].data = live[n].data
         /\ Have' = Have
<1>1. n \in Names /\ live[n] \in Column /\ live[n].key # "primary"
      /\ live' = [live EXCEPT ![n].nullable = TRUE]
  BY LiveFacts DEF DropNotNull
<1> DEFINE c == [live[n] EXCEPT !.nullable = TRUE]
<1>2. c \in Column /\ c.key # "primary" /\ c.pos = live[n].pos /\ c.data = live[n].data
  BY <1>1 DEF Column
<1>3. live \in [Names -> Column \cup {NoCol}] /\ c # NoCol
  BY <1>2, ValueAssumption DEF TypeOK
<1>4. live' = [live EXCEPT ![n] = c]
  BY <1>1, <1>3
<1> HIDE DEF c
<1>5. /\ live' \in [Names -> Column \cup {NoCol}]
      /\ live'[n] = c /\ \A m \in Names \ {n} : live'[m] = live[m]
  BY <1>1, <1>2, <1>3, <1>4
<1>6. \A m \in Have : live[m].pos < attrs /\ (live[m].key = "primary" => ~live[m].nullable)
  BY DEF TypeOK
<1>7. ASSUME NEW m \in Names, live'[m] # NoCol
      PROVE  live'[m].pos < attrs /\ (live'[m].key = "primary" => ~live'[m].nullable)
  BY <1>2, <1>5, <1>6, <1>7 DEF Have
<1>8. Have' = Have
  BY <1>3, <1>5 DEF Have
<1> QED
  BY <1>2, <1>3, <1>5, <1>7, <1>8

LEMMA AlterTypes ==
  ASSUME TypeOK, TodoOK, Alter
  PROVE  TypeOK'
<1>1. UNCHANGED <<gen, pc, iter, call, repeat>>
  BY DEF Alter, Same
<1>2. gen' \in {gen, gen + 1} /\ iter' \in 0..6 /\ attrs \in Nat /\ spec \in Specs
      /\ pc' \in Ended \cup Comparing \cup Building
                   \cup {"start", "loop", "rename", "alter", "newIndexes", "indexes"}
  BY <1>1 DEF TypeOK
<1>3. PICK d \in todo :
        /\ d.col \in Want
        /\ \/ AddColumn(d.col)
           \/ d.col \in Have /\ DropNotNull(d.col)
           \/ AddUnique(d.col)
  BY AlterStatement
<1> DEFINE n == d.col
<1>4. n \in Want /\ n \in Names
  BY <1>2, <1>3, WantNames
<1>5. CASE AddColumn(n)
  <2> HIDE DEF n
  <2>1. Expected(n).ty \in Types /\ Expected(n).nullable \in BOOLEAN
    BY <1>2, <1>4, ExpectedTypes
  <2>2. /\ live' = [live EXCEPT ![n] = [ty |-> Expected(n).ty, nullable |-> Expected(n).nullable,
                                        key |-> "none", pos |-> attrs, data |-> Fresh]]
        /\ attrs' = attrs + 1 /\ indexes' = indexes
    BY <1>5 DEF AddColumn
  <2>3. /\ attrs' \in Nat /\ live' \in [Names -> Column \cup {NoCol}]
        /\ \A m \in Names : live'[m] # NoCol =>
             live'[m].pos < attrs' /\ (live'[m].key = "primary" => ~live'[m].nullable)
    BY <1>4, <2>1, <2>2, Appended
  <2>4. \A i \in indexes' : i \in Index /\ i.on <= gen'
    BY <1>1, <2>2 DEF TypeOK
  <2> QED
    BY <1>1, <1>2, <2>3, <2>4, CatalogTypes
<1>6. CASE n \in Have /\ DropNotNull(n)
  <2> HIDE DEF n
  <2>1. attrs' = attrs /\ indexes' = indexes
    BY <1>6 DEF DropNotNull
  <2>2. /\ live' \in [Names -> Column \cup {NoCol}]
        /\ \A m \in Names : live'[m] # NoCol =>
             live'[m].pos < attrs' /\ (live'[m].key = "primary" => ~live'[m].nullable)
    BY <1>6, <2>1, DropNotNullLive
  <2>3. \A i \in indexes' : i \in Index /\ i.on <= gen'
    BY <1>1, <2>1 DEF TypeOK
  <2> QED
    BY <1>1, <1>2, <2>1, <2>2, <2>3, CatalogTypes
<1>7. CASE AddUnique(n)
  <2> HIDE DEF n
  <2>1. \A e \in With("column", UniqueOn(n), TRUE) : e \in Index /\ e.on <= gen
    BY <1>4, OwnColumns, EntryType
  <2>2. live' = live /\ attrs' = attrs
        /\ indexes' \in {indexes, With("column", UniqueOn(n), TRUE)}
    BY <1>7 DEF AddUnique
  <2>3. \A i \in indexes' : i \in Index /\ i.on <= gen'
    BY <1>1, <2>1, <2>2 DEF TypeOK
  <2> QED
    BY <1>1, <1>2, <2>2, <2>3, CatalogTypes DEF TypeOK, Have
<1> QED
  BY <1>3, <1>5, <1>6, <1>7

\* The shadow, column by column.
LEMMA ShadowFacts ==
  ASSUME TypeOK, Keyed => MigKey \in Have
  PROVE  /\ Shadow \in [Names -> Column \cup {NoCol}]
         /\ \A n \in Declared :
              /\ Shadow[n] # NoCol
              /\ Shadow[n].ty = Expected(n).ty
              /\ Shadow[n].nullable = Expected(n).nullable
              /\ Shadow[n].pos = Expected(n).pos
              /\ Shadow[n].pos < Cardinality(Declared)
              /\ Shadow[n].key = "primary" <=> Expected(n).primary
              /\ Shadow[n].key # "none" <=> Expected(n).unique
              /\ Shadow[n].key = "primary" => ~Shadow[n].nullable
              /\ n \in Have => Shadow[n].data = live[n].data
         /\ Keyed => /\ Shadow[MigKey] # NoCol
                     /\ Shadow[MigKey].ty = BigInt /\ Shadow[MigKey].nullable = FALSE
                     /\ Shadow[MigKey].key = "none"
                     /\ Shadow[MigKey].pos = Cardinality(Declared)
                     /\ Shadow[MigKey].data = live[MigKey].data
         /\ \A n \in Names \ Want : Shadow[n] = NoCol
<1>1. spec \in Specs /\ Declared \subseteq Names \ {MigKey} /\ MigKey \in Names
      /\ Cardinality(Declared) \in Nat
  BY SpecFacts, NameAssumption DEF TypeOK
<1>2. ASSUME NEW n \in Declared
      PROVE  /\ Shadow[n] \in Column
             /\ Shadow[n].ty = Created[n].ty /\ Shadow[n].nullable = Created[n].nullable
             /\ Shadow[n].pos = Created[n].pos /\ Shadow[n].key = Created[n].key
             /\ n \in Have => Shadow[n].data = live[n].data
  <2> DEFINE x == IF CopiedFrom(n) = NoName THEN Fresh ELSE live[CopiedFrom(n)].data
  <2>1. x \in Names \cup {Fresh}
    <3>1. CopiedFrom(n) = NoName \/ CopiedFrom(n) \in Have
      BY DEF CopiedFrom
    <3> QED
      BY <3>1, LiveFacts
  <2>2. n \in Have => x = live[n].data
    <3>1. n \in Have => CopiedFrom(n) = n /\ n # NoName
      BY NameAssumption, <1>1 DEF CopiedFrom
    <3> QED
      BY <3>1
  <2> HIDE DEF x
  <2>3. Shadow[n] = [Created[n] EXCEPT !.data = x]
    BY <1>1 DEF Shadow, x
  <2>4. Created[n] \in Column
    BY <1>1, CreatedFacts
  <2> QED
    BY <2>1, <2>2, <2>3, <2>4 DEF Column
<1>3. ASSUME Keyed
      PROVE  /\ Shadow[MigKey] \in Column
             /\ Shadow[MigKey].ty = BigInt /\ Shadow[MigKey].nullable = FALSE
             /\ Shadow[MigKey].key = "none"
             /\ Shadow[MigKey].pos = Cardinality(Declared)
             /\ Shadow[MigKey].data = live[MigKey].data
  <2>1. Shadow[MigKey] = [ty |-> BigInt, nullable |-> FALSE, key |-> "none",
                          pos |-> Cardinality(Declared), data |-> live[MigKey].data]
    BY <1>1, <1>3 DEF Shadow
  <2>2. live[MigKey].data \in Names \cup {Fresh}
    BY <1>3, LiveFacts
  <2> QED
    BY <1>1, <2>1, <2>2, ValueAssumption DEF Column
<1>4. \A n \in Names \ Want : Shadow[n] = NoCol
  BY DEF Shadow, Want
<1>5. ASSUME NEW n \in Want PROVE Shadow[n] \in Column
  <2>1. CASE n \in Declared
    BY <1>2, <2>1
  <2>2. CASE n = MigKey
    <3>1. Keyed
      BY <1>1, <2>2, WantNames
    <3> QED
      BY <1>3, <2>2, <3>1
  <2> QED
    BY <1>1, <2>1, <2>2, WantNames
<1>6. Shadow \in [Names -> Column \cup {NoCol}]
  BY <1>4, <1>5 DEF Shadow
<1>7. \A n \in Declared : Shadow[n] # NoCol
  BY <1>2, ValueAssumption
<1>8. Keyed => Shadow[MigKey] # NoCol
  BY <1>3, ValueAssumption
<1>9. \A n \in Declared :
        /\ Created[n].ty = Expected(n).ty
        /\ Created[n].nullable = Expected(n).nullable
        /\ Created[n].pos = Expected(n).pos
        /\ Created[n].pos < Cardinality(Declared)
        /\ Created[n].key = "primary" <=> Expected(n).primary
        /\ Created[n].key # "none" <=> Expected(n).unique
        /\ Created[n].key = "primary" => ~Created[n].nullable
  BY <1>1, CreatedFacts
<1>10. ASSUME NEW n \in Declared
       PROVE  /\ Shadow[n] # NoCol
              /\ Shadow[n].ty = Expected(n).ty
              /\ Shadow[n].nullable = Expected(n).nullable
              /\ Shadow[n].pos = Expected(n).pos
              /\ Shadow[n].pos < Cardinality(Declared)
              /\ Shadow[n].key = "primary" <=> Expected(n).primary
              /\ Shadow[n].key # "none" <=> Expected(n).unique
              /\ Shadow[n].key = "primary" => ~Shadow[n].nullable
              /\ n \in Have => Shadow[n].data = live[n].data
  BY <1>2, <1>7, <1>9
<1> QED
  BY <1>3, <1>4, <1>6, <1>8, <1>10

LEMMA RewriteTypes ==
  ASSUME TypeOK, Rewrite
  PROVE  TypeOK'
<1>1. /\ live' = Shadow /\ attrs' = Cardinality(Want) /\ gen' = gen + 1
      /\ indexes' \subseteq indexes \cup {ShadowIndex}
      /\ pc' = "newIndexes" /\ UNCHANGED <<iter, call, repeat>>
  BY DEF Rewrite, Goto, Same
<1>2. spec \in Specs /\ iter \in 0..6 /\ gen \in Nat /\ MigKey \in Names
      /\ \A i \in indexes : i \in Index /\ i.on <= gen
  BY NameAssumption DEF TypeOK
<1>3. Keyed => MigKey \in Have
  BY DEF Rewrite, Rewritable, Keyed
<1>4. /\ Cardinality(Want) \in Nat /\ Cardinality(Declared) \in Nat
      /\ Cardinality(Declared) <= Cardinality(Want)
      /\ Keyed => Cardinality(Want) = Cardinality(Declared) + 1
  BY <1>2, WantSize, SpecFacts
<1>5. ASSUME NEW n \in Names, Shadow[n] # NoCol
      PROVE  Shadow[n].pos < Cardinality(Want)
             /\ (Shadow[n].key = "primary" => ~Shadow[n].nullable)
  <2>1. n \in Declared \/ (n = MigKey /\ Keyed)
    <3>1. n \in Want
      BY <1>3, <1>5, ShadowFacts
    <3> QED
      BY <1>2, <3>1, WantNames
  <2>2. CASE n \in Declared
    <3>1. Shadow[n].pos < Cardinality(Declared) /\ Shadow[n].pos = Expected(n).pos
          /\ (Shadow[n].key = "primary" => ~Shadow[n].nullable)
      BY <1>3, <2>2, ShadowFacts
    <3>2. Expected(n).pos \in Nat
      BY <1>2, <2>2, ExpectedFacts
    <3> QED
      BY <1>4, <3>1, <3>2
  <2>3. CASE n = MigKey /\ Keyed
    <3>1. Shadow[n].pos = Cardinality(Declared) /\ Shadow[n].key = "none"
      BY <1>3, <2>3, ShadowFacts
    <3> QED
      BY <1>4, <2>3, <3>1
  <2> QED
    BY <2>1, <2>2, <2>3
<1>6. ShadowIndex \in Index /\ ShadowIndex.on = gen + 1
  <2>1. <<MigKey>> \in Seq(Names) /\ gen + 1 \in Nat
    BY <1>2
  <2> DEFINE name == <<"other", TRUE, <<MigKey>>>>
  <2> HIDE DEF name
  <2>2. ShadowIndex = [name |-> name, cols |-> <<MigKey>>, unique |-> TRUE,
                       plain |-> TRUE, on |-> gen + 1, valid |-> TRUE]
    BY DEF ShadowIndex, name
  <2>3. name \in {"declared", "column", "other"} \X BOOLEAN \X Seq(Names)
    <3>1. \A u \in BOOLEAN, s \in Seq(Names) :
            <<"other", u, s>> \in {"declared", "column", "other"} \X BOOLEAN \X Seq(Names)
      OBVIOUS
    <3> QED
      BY <2>1, <3>1 DEF name
  <2> QED
    BY <2>1, <2>2, <2>3 DEF Index
<1>7. \A i \in indexes' : i \in Index /\ i.on <= gen'
  <2>1. \A i \in indexes : i.on \in Nat
    BY <1>2 DEF Index
  <2> QED
    BY <1>1, <1>2, <1>6, <2>1
<1>8. Shadow \in [Names -> Column \cup {NoCol}]
  BY <1>3, ShadowFacts
<1> QED
  BY <1>1, <1>2, <1>4, <1>5, <1>7, <1>8, CatalogTypes

LEMMA CreateIndexTypes ==
  ASSUME TypeOK, TodoOK, CreateIndex
  PROVE  TypeOK'
<1>1. PICK i \in todo : indexes' = With("declared", i, TRUE)
  BY DEF CreateIndex
<1>2. i \in spec.indexes /\ UNCHANGED <<live, attrs, gen, pc, iter, call, repeat>>
  BY DEF CreateIndex, TodoOK, Same
<1>3. i.cols \in Seq(Names) /\ i.unique \in BOOLEAN
  BY <1>2, DeclaredColumns DEF TypeOK
<1>4. \A e \in indexes' : e \in Index /\ e.on <= gen'
  BY <1>1, <1>2, <1>3, EntryType
<1>5. attrs' \in Nat /\ gen' \in {gen, gen + 1} /\ iter' \in 0..6
      /\ live' \in [Names -> Column \cup {NoCol}]
      /\ pc' \in Ended \cup Comparing \cup Building
                   \cup {"start", "loop", "rename", "alter", "newIndexes", "indexes"}
      /\ \A n \in Names : live'[n] # NoCol =>
           live'[n].pos < attrs' /\ (live'[n].key = "primary" => ~live'[n].nullable)
  BY <1>2 DEF TypeOK, Have
<1> QED
  BY <1>2, <1>4, <1>5, CatalogTypes

\* The index a failed build leaves.
LEMMA BuildFailsIndex ==
  ASSUME TypeOK, TodoOK, BuildFails
  PROVE  /\ pc' = "failed" /\ UNCHANGED <<live, attrs, gen, iter, call, repeat>>
         /\ \/ /\ pc \in {"newBuild", "build"}
               /\ \E i \in spec.indexes : indexes' = With("declared", i, FALSE)
            \/ /\ pc = "alter"
               /\ \E n \in Want : indexes' = With("column", UniqueOn(n), FALSE)
<1>1. CASE /\ pc \in {"newBuild", "build"}
           /\ \E i \in todo : indexes' = With("declared", i, FALSE)
  BY <1>1 DEF BuildFails, TodoOK, Building, Same
<1>2. CASE /\ pc = "alter"
           /\ \E d \in todo : d.kind = "unique" /\ indexes' = With("column", UniqueOn(d.col), FALSE)
  <2>1. PICK d \in todo : d.kind = "unique" /\ indexes' = With("column", UniqueOn(d.col), FALSE)
    BY <1>2
  <2>2. d.col \in Want
    BY <1>2, <2>1 DEF TodoOK
  <2> QED
    BY <1>2, <2>1, <2>2 DEF BuildFails, Same
<1> QED
  BY <1>1, <1>2 DEF BuildFails

LEMMA BuildFailsTypes ==
  ASSUME TypeOK, TodoOK, BuildFails
  PROVE  TypeOK'
<1>1. pc' = "failed" /\ UNCHANGED <<live, attrs, gen, iter, call, repeat>>
  BY BuildFailsIndex
<1>2. \A e \in indexes' : e \in Index /\ e.on <= gen
  <2>1. CASE \E i \in spec.indexes : indexes' = With("declared", i, FALSE)
    BY <2>1, DeclaredColumns, EntryType DEF TypeOK
  <2>2. CASE \E n \in Want : indexes' = With("column", UniqueOn(n), FALSE)
    <3>1. PICK n \in Want : indexes' = With("column", UniqueOn(n), FALSE)
      BY <2>2
    <3>2. n \in Names
      BY WantNames DEF TypeOK
    <3> QED
      BY <3>1, <3>2, OwnColumns, EntryType
  <2> QED
    BY <2>1, <2>2, BuildFailsIndex
<1>3. attrs' \in Nat /\ gen' \in {gen, gen + 1} /\ iter' \in 0..6
      /\ live' \in [Names -> Column \cup {NoCol}]
      /\ pc' \in Ended \cup Comparing \cup Building
                   \cup {"start", "loop", "rename", "alter", "newIndexes", "indexes"}
      /\ \A n \in Names : live'[n] # NoCol =>
           live'[n].pos < attrs' /\ (live'[n].key = "primary" => ~live'[n].nullable)
  BY <1>1 DEF TypeOK, Have, Ended
<1>4. \A e \in indexes' : e \in Index /\ e.on <= gen'
  BY <1>1, <1>2
<1> QED
  BY <1>1, <1>3, <1>4, CatalogTypes

LEMMA TypeStep ==
  ASSUME TypeOK, TodoOK, [Next]_vars
  PROVE  TypeOK'
BY Steps, QuietTypes, CallTypes, CreateTableTypes, EnsureKeyTypes, RenameTypes,
   AlterTypes, RewriteTypes, CreateIndexTypes, BuildFailsTypes DEF Acting

-----------------------------------------------------------------------------
(* The work of the loops, and the table they work on. *)

\* Where the quiet steps lead, with what to do.
LEMMA QuietMoves ==
  ASSUME TypeOK, Quiet
  PROVE  \/ pc = "start" /\ pc' = "loop" /\ iter' = 0 /\ TableExists
         \/ pc = "loop" /\ pc' = "rename" /\ todo' = Renames /\ iter' = iter + 1
            /\ repeat' = repeat
         \/ pc = "loop" /\ pc' = "after" /\ iter = 5 /\ repeat' = repeat
         \/ pc = "rename" /\ pc' = "compare" /\ todo = {} /\ iter' = iter /\ repeat' = repeat
         \/ pc \in Comparing /\ Diff = {} /\ iter' = iter /\ repeat' = repeat
            /\ pc' = IF pc = "compare" THEN "after" ELSE "indexes"
         \/ pc = "compare" /\ pc' = "alter" /\ Diff # {} /\ todo' = {d \in Diff : Alterable(d)}
            /\ iter' = iter /\ repeat' = repeat
         \/ pc = "alter" /\ pc' = "loop" /\ iter' = iter /\ repeat' = repeat
         \/ pc = "final" /\ pc' = "differs" /\ Diff # {} /\ repeat' = repeat
         \/ pc \in {"newIndexes", "indexes"} /\ todo' \subseteq spec.indexes /\ repeat' = repeat
            /\ pc' = IF pc = "newIndexes" THEN "newBuild" ELSE "build"
         \/ pc \in Building /\ repeat' = (pc # "newBuild" \/ repeat)
            /\ pc' = IF pc = "newBuild" THEN "final" ELSE "ok"
         \/ pc' = "failed" /\ repeat' = repeat
         \/ UNCHANGED <<pc, todo, iter, repeat>>
<1>1. CASE TableExists \/ Iterate \/ IterationsOver \/ RenamesDone \/ RefuseDrop \/ Equal
  BY <1>1 DEF TableExists, Iterate, IterationsOver, RenamesDone, RefuseDrop, Equal, Goto,
              Same, Comparing
<1>2. CASE Different \/ AltersDone \/ GiveUp \/ ReadIndexes
  BY <1>2 DEF Different, AltersDone, GiveUp, ReadIndexes, Goto, Same
<1>3. CASE IndexesDone
  BY <1>3, Zenon DEF IndexesDone
<1>4. CASE Fail \/ UNCHANGED vars
  BY <1>4 DEF Fail, vars, Same
<1> QED
  BY <1>1, <1>2, <1>3, <1>4 DEF Quiet

LEMMA QuietViews ==
  ASSUME TypeOK, Quiet
  PROVE  /\ Have' = Have /\ Want' = Want /\ Renames' = Renames /\ Declared' = Declared
         /\ Keyed' = Keyed
BY QuietSame DEF Have, Want, Renames, Declared, Keyed, PrimaryKey

LEMMA AlterableDiffs ==
  ASSUME TypeOK, NEW d \in Diff, Alterable(d)
  PROVE  /\ d \in [kind : Kinds, col : Names]
         /\ d.kind = "added" => d.col \in Want \ Have
         /\ d.kind # "added" => d.col \in Want \cap Have
BY DEF Diff, Alterable, Differs

LEMMA QuietTodo ==
  ASSUME TypeOK, TodoOK, Quiet
  PROVE  TodoOK'
<1>1. /\ Have' = Have /\ Want' = Want /\ Renames' = Renames
      /\ spec' = spec /\ iter \in Nat
  BY QuietSame, QuietViews DEF TypeOK
<1>2. pc' = "rename" => todo' \subseteq Renames'
  BY <1>1, QuietMoves DEF TodoOK, Comparing, Building
<1>3. pc' \in Building => todo' \subseteq spec'.indexes
  BY <1>1, QuietMoves DEF TodoOK, Comparing, Building
<1>4. ASSUME pc' = "alter", NEW d \in todo'
      PROVE  /\ d \in [kind : Kinds, col : Names]
             /\ d.kind = "added" => d.col \in Want' \ Have'
             /\ d.kind # "added" => d.col \in Want' \cap Have'
  <2>1. (d \in Diff /\ Alterable(d)) \/ (pc = "alter" /\ d \in todo)
    BY <1>4, QuietMoves DEF Comparing, Building
  <2> QED
    BY <1>1, <2>1, AlterableDiffs DEF TodoOK
<1>5. pc' \in {"rename", "compare", "alter"} => iter' > 0
  BY <1>1, QuietMoves DEF TodoOK, Comparing, Building
<1> QED
  BY <1>2, <1>3, <1>4, <1>5 DEF TodoOK

LEMMA AlterHave ==
  ASSUME TypeOK, NEW n \in Want,
         \/ AddColumn(n) \/ (n \in Have /\ DropNotNull(n)) \/ AddUnique(n)
  PROVE  /\ Have' \in {Have, Have \cup {n}}
         /\ AddColumn(n) => Have' = Have \cup {n}
         /\ \A m \in Names \ {n} : live'[m] = live[m]
         /\ n \in Have /\ ~AddColumn(n) => live'[n] # NoCol /\ live'[n].data = live[n].data
<1>1. n \in Names
  BY WantNames DEF TypeOK
<1>2. CASE AddColumn(n)
  <2>1. Expected(n).ty \in Types /\ Expected(n).nullable \in BOOLEAN
    BY ExpectedTypes DEF TypeOK
  <2>2. /\ live' = [live EXCEPT ![n] = [ty |-> Expected(n).ty, nullable |-> Expected(n).nullable,
                                        key |-> "none", pos |-> attrs, data |-> Fresh]]
        /\ attrs' = attrs + 1
    BY <1>2 DEF AddColumn
  <2> QED
    BY <1>1, <1>2, <2>1, <2>2, Appended
<1>3. CASE n \in Have /\ DropNotNull(n) /\ ~AddColumn(n)
  BY <1>3, DropNotNullLive
<1>4. CASE AddUnique(n) /\ ~AddColumn(n)
  BY <1>4 DEF AddUnique, Have
<1> QED
  BY <1>2, <1>3, <1>4

LEMMA ActingTodo ==
  ASSUME TypeOK, TodoOK, Acting
  PROVE  TodoOK'
<1>1. CASE pc' \in {"start", "loop", "failed", "newIndexes"}
  BY <1>1 DEF TodoOK, Building
<1>2. CASE CreateTable
  <2>1. pc' = "create" /\ todo' = spec'.indexes
    BY <1>2 DEF CreateTable, Goto, Same, call
  <2> QED
    BY <2>1 DEF TodoOK, Building
<1>3. CASE Rename
  <2>1. pc' = "rename" /\ pc = "rename" /\ todo' \subseteq todo /\ iter' = iter /\ Renames' = Renames
    BY <1>3 DEF Rename, Same, call, Renames, Declared
  <2> QED
    BY <2>1 DEF TodoOK, Building
<1>4. CASE CreateIndex
  <2>1. /\ pc' \in Building /\ pc \in Building /\ todo' \subseteq todo /\ spec' = spec
    BY <1>4 DEF CreateIndex, Same, call
  <2> QED
    BY <2>1 DEF TodoOK, Building
<1>5. CASE Alter
  <2>1. pc' = "alter" /\ pc = "alter" /\ iter' = iter /\ Want' = Want
    BY <1>5 DEF Alter, Same, call, Want, Declared, Keyed, PrimaryKey
  <2>2. PICK d \in todo :
          /\ todo' = todo \ {d} /\ d.col \in Want
          /\ \/ d.kind = "added" /\ d.col \notin Have /\ AddColumn(d.col)
             \/ d.kind = "nullability" /\ d.col \in Have /\ DropNotNull(d.col)
             \/ d.kind = "unique" /\ d.col \in Have /\ AddUnique(d.col)
    BY <1>5, AlterStatement
  <2>3. Have' \in {Have, Have \cup {d.col}}
    BY <2>2, AlterHave
  <2>4. d.kind # "added" => Have' = Have
    BY <2>2, <2>3
  <2>5. ASSUME NEW e \in todo'
        PROVE  /\ e \in [kind : Kinds, col : Names]
               /\ e.kind = "added" => e.col \in Want' \ Have'
               /\ e.kind # "added" => e.col \in Want' \cap Have'
    <3>1. /\ e \in [kind : Kinds, col : Names] /\ d \in [kind : Kinds, col : Names] /\ e # d
          /\ e.kind = "added" => e.col \in Want \ Have
          /\ e.kind # "added" => e.col \in Want \cap Have
      BY <2>1, <2>2, <2>5 DEF TodoOK
    <3>2. e.kind = d.kind => e.col # d.col
      BY <3>1
    <3> QED
      BY <2>1, <2>2, <2>3, <2>4, <3>1, <3>2
  <2> QED
    BY <2>1, <2>5 DEF TodoOK, Building
<1>6. CASE Call \/ EnsureKey \/ Rewrite \/ BuildFails
  BY <1>1, <1>6 DEF Call, EnsureKey, Rewrite, BuildFails, Goto
<1> QED
  BY <1>2, <1>3, <1>4, <1>5, <1>6 DEF Acting

LEMMA TodoStep ==
  ASSUME TypeOK, TodoOK, [Next]_vars
  PROVE  TodoOK'
BY Steps, QuietTodo, ActingTodo

\* What the steps do to the set of columns.
LEMMA CreatedHave ==
  ASSUME TypeOK, CreateTable
  PROVE  Have' = Declared /\ Declared' = Declared
<1>1. live' = Created /\ Declared' = Declared
  BY DEF CreateTable, Same, call, Declared
<1>2. spec \in Specs
  BY DEF TypeOK
<1>3. \A n \in Declared : Created[n] # NoCol /\ n \in Names
  BY <1>2, CreatedFacts, SpecFacts, ValueAssumption
<1>4. \A n \in Names \ Declared : Created[n] = NoCol
  BY <1>2, CreatedFacts
<1> QED
  BY <1>1, <1>3, <1>4 DEF Have

LEMMA RewriteHave ==
  ASSUME TypeOK, Rewrite
  PROVE  /\ Have' = Want /\ Want' = Want /\ Declared' = Declared /\ Keyed' = Keyed
         /\ Keyed => MigKey \in Have
<1>1. live' = Shadow /\ Declared' = Declared /\ Want' = Want /\ Keyed' = Keyed
  BY DEF Rewrite, Same, call, Declared, Want, Keyed, PrimaryKey
<1>2. Keyed => MigKey \in Have
  BY DEF Rewrite, Rewritable, Keyed
<1>3. /\ \A n \in Declared : Shadow[n] # NoCol
      /\ Keyed => Shadow[MigKey] # NoCol
      /\ \A n \in Names \ Want : Shadow[n] = NoCol
  BY <1>2, ShadowFacts
<1>4. Want \subseteq Names /\ Want \ Declared \subseteq {MigKey} /\ (MigKey \in Want <=> Keyed)
  BY WantNames DEF TypeOK
<1> QED
  BY <1>1, <1>2, <1>3, <1>4 DEF Have

LEMMA RenameHave ==
  ASSUME TypeOK, TodoOK, Rename
  PROVE  \/ UNCHANGED <<live, indexes>> /\ Have' = Have
         \/ \E n \in Declared : n \notin Have /\ n \in Have'
<1>1. PICK n \in Declared :
        LET f == spec.col[n].from IN
        /\ f \in Names \ (Declared \cup {MigKey})
        /\ \/ UNCHANGED <<live, indexes>>
           \/ /\ n \notin Have /\ f \in Have
              /\ live' = [live EXCEPT ![n] = live[f], ![f] = NoCol]
  BY RenameLive
<1>2. n \in Names /\ spec.col[n].from \in Names /\ spec.col[n].from # n
  BY <1>1, SpecFacts DEF TypeOK
<1>3. CASE UNCHANGED <<live, indexes>>
  BY <1>3 DEF Have
<1> DEFINE f == spec.col[n].from
<1>4. CASE /\ n \notin Have /\ f \in Have
           /\ live' = [live EXCEPT ![n] = live[f], ![f] = NoCol]
  <2> HIDE DEF f
  <2>1. f \in Names /\ f # n
    BY <1>2 DEF f
  <2>2. Have' = (Have \ {f}) \cup {n}
    BY <1>2, <1>4, <2>1, SwapLive
  <2> QED
    BY <1>4, <2>2
<1> QED
  BY <1>1, <1>3, <1>4

LEMMA ThereStep ==
  ASSUME TypeOK, TodoOK, TableThere, [Next]_vars
  PROVE  TableThere'
<1>1. CASE Quiet
  <2>1. Have' = Have /\ indexes' = indexes
    BY <1>1, QuietSame, QuietViews
  <2>2. pc' \notin Ended \cup {"start"} => Have # {}
    <3>1. CASE TableExists
      BY <3>1 DEF TableExists
    <3>2. CASE ~TableExists
      BY <1>1, <3>2, QuietMoves DEF TableThere, Ended, Comparing, Building
    <3> QED
      BY <3>1, <3>2
  <2> QED
    BY <2>1, <2>2 DEF TableThere
<1>2. CASE Call
  <2>1. pc' = "start" /\ Have' = Have /\ indexes' = indexes
    BY <1>2 DEF Call, catalog, Have
  <2> QED
    BY <2>1 DEF TableThere
<1>3. CASE CreateTable
  BY <1>3, CreatedHave, SpecFacts DEF TypeOK, TableThere
<1>4. CASE EnsureKey
  BY <1>4, EnsureKeyLive DEF TableThere
<1>5. CASE Rename
  <2>1. Have # {}
    BY <1>5 DEF Rename, TableThere, Ended
  <2> QED
    BY <1>5, <2>1, RenameHave DEF TableThere
<1>6. CASE Alter
  <2>1. Have # {}
    BY <1>6 DEF Alter, TableThere, Ended
  <2> QED
    BY <1>6, <2>1, AlterStatement, AlterHave DEF TableThere
<1>7. CASE Rewrite
  <2>1. Declared # {} /\ Declared \subseteq Want
    BY SpecFacts, WantNames DEF TypeOK
  <2> QED
    BY <1>7, <2>1, RewriteHave DEF TableThere
<1>8. CASE CreateIndex \/ BuildFails
  <2>1. Have # {} /\ Have' = Have
    BY <1>8, BuildFailsIndex DEF CreateIndex, TableThere, Ended, Building, Have
  <2> QED
    BY <2>1 DEF TableThere
<1> QED
  BY <1>1, <1>2, <1>3, <1>4, <1>5, <1>6, <1>7, <1>8, Steps DEF Acting

-----------------------------------------------------------------------------
(* What the planner sees stays, or comes about. *)

LEMMA SameView ==
  ASSUME UNCHANGED <<live, gen, indexes, spec, cfg>>
  PROVE  /\ Settled' = Settled /\ SettledButKey' = SettledButKey /\ Diff' = Diff
         /\ Have' = Have /\ Want' = Want /\ Declared' = Declared
BY DEF Settled, SettledButKey, Diff, Differs, IsUnique, Expected, Have, Want, Declared, Keyed,
       PrimaryKey

LEMMA SettledIsButKey == Settled => SettledButKey
BY DEF Settled, SettledButKey

\* An index more, when it is of columns that are unique anyway.
LEMMA WithKeeps ==
  ASSUME TypeOK, NEW kind, NEW i, NEW valid, indexes' = With(kind, i, valid),
         UNCHANGED <<live, gen, spec, cfg>>,
         \A n \in Want : i.unique /\ i.cols = <<n>> => Expected(n).unique
  PROVE  (Settled => Settled') /\ (SettledButKey => SettledButKey')
<1>1. Have' = Have /\ Want' = Want /\ spec' \in Specs
  BY DEF TypeOK, Have, Want, Declared, Keyed, PrimaryKey
<1>2. \A n \in Names : Expected(n)' = Expected(n)
  BY DEF Expected, Declared
<1>3. indexes' = indexes \/ indexes' = indexes \cup {Entry(kind, i, valid)}
  BY DEF With
<1>4. Entry(kind, i, valid).unique = i.unique /\ Entry(kind, i, valid).cols = i.cols
  BY DEF Entry
<1>5. ASSUME NEW n \in Want \cap Have, Fits(n)
      PROVE  Fits(n)'
  <2>1. n \in Names
    BY <1>5, WantNames DEF TypeOK
  <2>2. IsUnique(n) => IsUnique(n)'
    BY <1>3 DEF IsUnique
  <2>3. IsUnique(n)' => IsUnique(n) \/ Expected(n).unique
    BY <1>3, <1>4, <1>5 DEF IsUnique
  <2>4. IsUnique(n) = Expected(n).unique /\ IsUnique(n) \in BOOLEAN /\ IsUnique(n)' \in BOOLEAN
    BY <1>5 DEF Fits, IsUnique
  <2>5. IsUnique(n)' = Expected(n).unique
    BY <2>2, <2>3, <2>4
  <2> QED
    BY <1>2, <1>5, <2>1, <2>5 DEF Fits
<1>6. AllFit => AllFit'
  BY <1>1, <1>5 DEF AllFit
<1>7. (SettledView => SettledView') /\ (ButKeyView => ButKeyView')
  BY <1>1, <1>6 DEF SettledView, ButKeyView
<1> QED
  BY <1>1, <1>7, SettledEq, SettledEqNext DEF TypeOK

\* A declared index is unique in one column only if that column is.
LEMMA DeclaredUnique ==
  ASSUME spec \in Specs, NEW i \in spec.indexes
  PROVE  \A n \in Want : i.unique /\ i.cols = <<n>> => Expected(n).unique
<1> SUFFICES ASSUME NEW n \in Want, i.unique, i.cols = <<n>>
             PROVE  Expected(n).unique
  OBVIOUS
<1>1. /\ i.cols \in Seq(Declared)
      /\ i.unique /\ Len(i.cols) = 1 => spec.col[i.cols[1]].unique \/ spec.col[i.cols[1]].pk
  BY SpecFacts
<1>2. Len(i.cols) = 1 /\ i.cols[1] = n
  OBVIOUS
<1>3. n \in Declared
  BY <1>1, <1>2
<1>4. spec.col[n].unique \/ spec.col[n].pk
  BY <1>1, <1>2, Zenon
<1>5. Expected(n).unique = (spec.col[n].unique \/ spec.col[n].pk)
  BY <1>3, ExpectedFacts
<1> QED
  BY <1>4, <1>5

LEMMA KeyUnique ==
  ASSUME spec \in Specs
  PROVE  \A n \in Want : UniqueOn(MigKey).cols = <<n>> => Expected(n).unique
<1> SUFFICES ASSUME NEW n \in Want, UniqueOn(MigKey).cols = <<n>>
             PROVE  Expected(n).unique
  OBVIOUS
<1>1. n = MigKey
  BY DEF UniqueOn
<1>2. Expected(n) = [ty |-> BigInt, nullable |-> FALSE, pos |-> Cardinality(Declared),
                     primary |-> FALSE, unique |-> TRUE]
  BY <1>1, ExpectedFacts
<1> QED
  BY <1>2
\* A table just created has everything but the internal key.
LEMMA CreatedSettled ==
  ASSUME TypeOK, TableThere, CreateTable
  PROVE  SettledButKey'
<1>1. /\ live' = Created /\ UNCHANGED <<spec, cfg, indexes, gen>> /\ Have = {}
  BY DEF CreateTable, Same, call
<1>2. Have' = Declared /\ Want' = Want /\ spec' \in Specs /\ spec \in Specs
  BY <1>1, CreatedHave DEF TypeOK, Want, Declared, Keyed, PrimaryKey
<1>3. indexes' = {}
  BY <1>1 DEF TableThere
<1>4. \A n \in Declared : Expected(n)' = Expected(n)
  BY <1>1 DEF Expected, Declared
<1>5. ASSUME NEW n \in Declared
      PROVE  Fits(n)'
  <2>1. /\ Created[n].ty = Expected(n).ty
        /\ Created[n].nullable = Expected(n).nullable
        /\ Created[n].pos = Expected(n).pos
        /\ Created[n].key = "primary" <=> Expected(n).primary
        /\ Created[n].key # "none" <=> Expected(n).unique
    BY <1>2, CreatedFacts
  <2>2. Expected(n).primary \in BOOLEAN /\ Expected(n).unique \in BOOLEAN
    BY <1>2, ExpectedFacts
  <2>3. IsUnique(n)' <=> Created[n].key # "none"
    BY <1>1, <1>3 DEF IsUnique
  <2>4. IsUnique(n)' = Expected(n).unique
    BY <2>1, <2>2, <2>3 DEF IsUnique
  <2> QED
    BY <1>1, <1>4, <2>1, <2>2, <2>4 DEF Fits
<1>6. ButKeyView'
  BY <1>2, <1>5, WantNames DEF ButKeyView, AllFit
<1> QED
  BY <1>2, <1>6, SettledEqNext

\* What the shadow is made with is what the planner expects.
LEMMA RewriteSettled ==
  ASSUME TypeOK, Rewrite
  PROVE  Settled'
<1>1. /\ live' = Shadow /\ UNCHANGED <<spec, cfg>> /\ gen' = gen + 1
      /\ indexes' = indexes \cup (IF Keyed THEN {ShadowIndex} ELSE {})
  BY DEF Rewrite, Same, call
<1>2. Have' = Want /\ Want' = Want /\ spec' \in Specs /\ spec \in Specs
      /\ (Keyed => MigKey \in Have)
  BY <1>1, RewriteHave DEF TypeOK
<1>3. \A n \in Names : Expected(n)' = Expected(n)
  BY <1>1 DEF Expected, Declared
<1>4. \A i \in indexes : i.on # gen'
  BY <1>1 DEF TypeOK, Index
<1>5. /\ ShadowIndex.on = gen' /\ ShadowIndex.unique /\ ShadowIndex.plain
      /\ ShadowIndex.cols = <<MigKey>>
  BY <1>1 DEF ShadowIndex
<1>6. ASSUME NEW n \in Declared
      PROVE  Fits(n)'
  <2>1. /\ Shadow[n].ty = Expected(n).ty
        /\ Shadow[n].nullable = Expected(n).nullable
        /\ Shadow[n].pos = Expected(n).pos
        /\ Shadow[n].key = "primary" <=> Expected(n).primary
        /\ Shadow[n].key # "none" <=> Expected(n).unique
    BY <1>2, ShadowFacts
  <2>2. Expected(n).primary \in BOOLEAN /\ Expected(n).unique \in BOOLEAN
    BY <1>2, ExpectedFacts
  <2>3. n \in Names /\ n # MigKey /\ <<MigKey>> # <<n>>
    BY <1>2, SpecFacts
  <2>4. IsUnique(n)' <=> Shadow[n].key # "none"
    BY <1>1, <1>4, <1>5, <2>3 DEF IsUnique
  <2>5. IsUnique(n)' = Expected(n).unique
    BY <2>1, <2>2, <2>4 DEF IsUnique
  <2> QED
    BY <1>1, <1>3, <2>1, <2>2, <2>3, <2>5 DEF Fits
<1>7. ASSUME Keyed
      PROVE  Fits(MigKey)'
  <2>1. /\ Shadow[MigKey].ty = BigInt /\ Shadow[MigKey].nullable = FALSE
        /\ Shadow[MigKey].key = "none" /\ Shadow[MigKey].pos = Cardinality(Declared)
    BY <1>2, <1>7, ShadowFacts
  <2>2. Expected(MigKey) = [ty |-> BigInt, nullable |-> FALSE, pos |-> Cardinality(Declared),
                            primary |-> FALSE, unique |-> TRUE]
    BY <1>2, ExpectedFacts
  <2>3. /\ Expected(MigKey).ty = BigInt /\ Expected(MigKey).nullable = FALSE
        /\ Expected(MigKey).pos = Cardinality(Declared)
        /\ Expected(MigKey).primary = FALSE /\ Expected(MigKey).unique = TRUE
    BY <2>2
  <2>4. IsUnique(MigKey)' = TRUE
    BY <1>1, <1>5, <1>7 DEF IsUnique
  <2> QED
    BY <1>1, <1>3, <2>1, <2>3, <2>4, NameAssumption DEF Fits
<1>8. AllFit'
  <2>1. \A n \in Want : n \in Declared \/ (n = MigKey /\ Keyed)
    BY <1>2, WantNames
  <2> QED
    BY <1>2, <1>6, <1>7, <2>1 DEF AllFit
<1>9. SettledView'
  BY <1>2, <1>8 DEF SettledView
<1> QED
  BY <1>2, <1>9, SettledEqNext

LEMMA SettledStep ==
  ASSUME TypeOK, TodoOK, TableThere, SettledWhere, [Next]_vars
  PROVE  SettledWhere'
<1>1. CASE Quiet
  <2>1. Settled' = Settled /\ SettledButKey' = SettledButKey
    BY <1>1, QuietSame, SameView
  <2>2. CASE pc = "start" /\ pc' = "loop"
    BY <2>2 DEF SettledWhere
  <2>3. CASE ~(pc = "start" /\ pc' = "loop")
    BY <1>1, <2>1, <2>3, QuietMoves, DiffEq, SettledIsButKey DEF SettledWhere, Comparing, Building
  <2> QED
    BY <2>2, <2>3
<1>2. CASE pc' \in {"start", "loop", "rename", "alter", "failed"}
  BY <1>2 DEF SettledWhere
<1>3. CASE CreateTable
  <2>1. pc' = "create"
    BY <1>3 DEF CreateTable, Goto
  <2> QED
    BY <1>3, <2>1, CreatedSettled DEF SettledWhere
<1>4. CASE Rewrite
  <2>1. pc' = "newIndexes"
    BY <1>4 DEF Rewrite, Goto
  <2> QED
    BY <1>4, <2>1, RewriteSettled DEF SettledWhere
<1>5. CASE CreateIndex
  <2>1. PICK i \in todo : indexes' = With("declared", i, TRUE)
    BY <1>5 DEF CreateIndex
  <2>2. i \in spec.indexes /\ pc' = pc /\ pc \in Building /\ UNCHANGED <<live, gen, spec, cfg>>
    BY <1>5 DEF CreateIndex, TodoOK, Same, call
  <2>3. (Settled => Settled') /\ (SettledButKey => SettledButKey')
    BY <2>1, <2>2, DeclaredUnique, WithKeeps DEF TypeOK
  <2> QED
    BY <2>2, <2>3 DEF SettledWhere, Building
<1>6. CASE Call \/ EnsureKey \/ Rename \/ Alter \/ BuildFails
  BY <1>2, <1>6 DEF Call, EnsureKey, Rename, Alter, BuildFails, Goto
<1> QED
  BY <1>1, <1>3, <1>4, <1>5, <1>6, Steps DEF Acting

-----------------------------------------------------------------------------
(* Renamed columns. *)

LEMMA MovingFacts ==
  ASSUME TypeOK, NEW n \in Declared, Moving(n)
  PROVE  /\ n \in Names \ {MigKey} /\ spec.col[n].from \in Names \ (Declared \cup {MigKey})
         /\ cfg.renames /\ <<spec.col[n].from, n>> \in Renames
BY SpecFacts DEF TypeOK, Moving, Renames

LEMMA RenamesNext ==
  ASSUME UNCHANGED <<before, spec, cfg>>
  PROVE  Declared' = Declared /\ \A n \in Declared : Moving(n)' = Moving(n)
BY DEF Declared, Moving

LEMMA QuietRenames ==
  ASSUME TypeOK, TodoOK, RenamesWhere, Quiet
  PROVE  RenamesWhere'
<1>1. UNCHANGED <<live, before, spec, cfg>> /\ iter \in Nat
  BY QuietSame DEF TypeOK
<1>2. Declared' = Declared /\ \A n \in Declared : Moving(n)' = Moving(n)
  BY <1>1, RenamesNext
<1>3. ASSUME NEW n \in Declared, Moving(n)
      PROVE  /\ pc' = "start" => Pending(n)'
             /\ pc' = "loop" => IF iter' = 0 THEN Pending(n)' ELSE Moved(n)'
             /\ pc' = "rename" => Moved(n)' \/ (Pending(n)' /\ <<spec'.col[n].from, n>> \in todo')
             /\ pc' \notin {"idle", "failed", "differs", "start", "loop", "rename"} => Moved(n)'
  <2>1. Pending(n)' = Pending(n) /\ Moved(n)' = Moved(n) /\ spec' = spec
    BY <1>1 DEF Pending, Moved
  <2>2. <<spec.col[n].from, n>> \in Renames
    BY <1>3, MovingFacts
  <2>3. /\ pc = "start" => Pending(n)
        /\ pc = "loop" => IF iter = 0 THEN Pending(n) ELSE Moved(n)
        /\ pc = "rename" => Moved(n) \/ (Pending(n) /\ <<spec.col[n].from, n>> \in todo)
        /\ pc \notin {"idle", "failed", "differs", "start", "loop", "rename"} => Moved(n)
        /\ pc = "alter" => iter > 0
    BY <1>3 DEF RenamesWhere, TodoOK
  <2> QED
    BY <1>1, <2>1, <2>2, <2>3, QuietMoves DEF Comparing, Building
<1> QED
  BY <1>2, <1>3 DEF RenamesWhere

LEMMA RenameRenames ==
  ASSUME TypeOK, TodoOK, RenamesWhere, Rename
  PROVE  RenamesWhere'
<1>1. UNCHANGED <<before, spec, cfg>> /\ pc = "rename" /\ pc' = "rename"
  BY DEF Rename, Same, call
<1>2. Declared' = Declared /\ \A n \in Declared : Moving(n)' = Moving(n)
  BY <1>1, RenamesNext
<1>3. PICK m \in Declared :
        LET f == spec.col[m].from IN
        /\ cfg.renames /\ f \in Names \ (Declared \cup {MigKey})
        /\ todo' = todo \ {<<f, m>>}
        /\ \/ (m \in Have \/ f \notin Have) /\ UNCHANGED <<live, indexes>>
           \/ /\ m \notin Have /\ f \in Have
              /\ live' = [live EXCEPT ![m] = live[f], ![f] = NoCol]
  BY RenameLive
<1> DEFINE f == spec.col[m].from
<1>4. m \in Names /\ f \in Names /\ f # m /\ f \notin Declared /\ f # NoName
  BY <1>3, SpecFacts, NameAssumption DEF TypeOK
<1>5. ASSUME NEW n \in Declared, Moving(n)
      PROVE  Moved(n)' \/ (Pending(n)' /\ <<spec'.col[n].from, n>> \in todo')
  <2> DEFINE g == spec.col[n].from
  <2>1. n \in Names /\ g \in Names /\ g \notin Declared /\ g # NoName
    BY <1>5, MovingFacts, NameAssumption
  <2>2. Moved(n) \/ (Pending(n) /\ <<g, n>> \in todo)
    BY <1>1, <1>5 DEF RenamesWhere
  <2>3. n # m => g # f
    BY <1>4, <2>1, SpecFacts DEF TypeOK
  <2>4. CASE UNCHANGED <<live, indexes>> /\ (m \in Have \/ f \notin Have)
    <3>1. Pending(n)' = Pending(n) /\ Moved(n)' = Moved(n)
      BY <1>1, <2>4 DEF Pending, Moved
    <3>2. Pending(n) => n \notin Have /\ g \in Have
      BY <2>1 DEF Pending, Have
    <3>3. Pending(n) => n # m
      BY <2>4, <3>2
    <3> QED
      BY <1>1, <1>3, <2>2, <3>1, <3>3
  <2>5. CASE /\ m \notin Have /\ f \in Have
             /\ live' = [live EXCEPT ![m] = live[f], ![f] = NoCol]
    <3>1. live'[m] = live[f] /\ live[f] # NoCol
          /\ \A x \in Names \ {f, m} : live'[x] = live[x]
      <4> HIDE DEF f
      <4> QED
        BY <1>4, <2>5, SwapLive DEF Have
    <3>2. CASE n = m
      <4>1. ~Moved(n)
        BY <2>1, <2>5, <3>2 DEF Moved, Have
      <4> QED
        BY <1>1, <2>2, <3>1, <3>2, <4>1 DEF Pending, Moved
    <3>3. CASE n # m
      <4>1. live'[n] = live[n] /\ live'[g] = live[g]
        BY <1>4, <2>1, <2>3, <3>1, <3>3
      <4>2. Pending(n)' = Pending(n) /\ Moved(n)' = Moved(n)
        BY <1>1, <4>1 DEF Pending, Moved
      <4> QED
        BY <1>1, <1>3, <2>2, <3>3, <4>2
    <3> QED
      BY <3>2, <3>3
  <2> QED
    BY <1>3, <2>4, <2>5
<1> QED
  BY <1>1, <1>2, <1>5 DEF RenamesWhere

\* A step under way that keeps the data of a column that is there.
LEMMA KeepsMoved ==
  ASSUME TypeOK, RenamesWhere, UNCHANGED <<before, spec, cfg>>,
         pc \notin {"idle", "failed", "differs", "start", "loop", "rename"},
         pc' \notin {"start", "loop", "rename"},
         \A n \in Declared : n \in Have => live'[n] # NoCol /\ live'[n].data = live[n].data
  PROVE  RenamesWhere'
<1>1. Declared' = Declared /\ \A n \in Declared : Moving(n)' = Moving(n)
  BY RenamesNext
<1>2. ASSUME NEW n \in Declared, Moving(n) PROVE Moved(n)'
  <2>1. Moved(n) /\ n \in Names
    BY <1>2, MovingFacts DEF RenamesWhere
  <2>2. n \in Have
    BY <2>1 DEF Moved, Have
  <2> QED
    BY <2>1, <2>2 DEF Moved
<1> QED
  BY <1>1, <1>2 DEF RenamesWhere

LEMMA RenamesStep ==
  ASSUME TypeOK, TodoOK, RenamesWhere, [Next]_vars
  PROVE  RenamesWhere'
<1>1. CASE Call
  <2>1. pc' = "start" /\ before' = live /\ live' = live
    BY <1>1 DEF Call, catalog
  <2>2. ASSUME NEW n \in Declared', Moving(n)' PROVE Pending(n)'
    BY <2>1, <2>2 DEF Moving, Pending
  <2> QED
    BY <2>1, <2>2 DEF RenamesWhere
<1>2. CASE CreateTable
  <2>1. pc = "start" /\ Have = {} /\ UNCHANGED <<before, spec, cfg>>
    BY <1>2 DEF CreateTable, Goto, Same, call
  <2>2. Declared' = Declared /\ \A n \in Declared : Moving(n)' = Moving(n)
    BY <2>1, RenamesNext
  <2>3. ASSUME NEW n \in Declared PROVE ~Moving(n)
    <3> SUFFICES ASSUME Moving(n) PROVE FALSE
      OBVIOUS
    <3>1. Pending(n) /\ spec.col[n].from \in Names
      BY <2>1, MovingFacts DEF RenamesWhere
    <3> QED
      BY <2>1, <3>1 DEF Pending, Have
  <2> QED
    BY <2>2, <2>3 DEF RenamesWhere
<1>3. CASE EnsureKey
  <2>1. pc = "start" /\ pc' = "loop" /\ iter' = 0 /\ UNCHANGED <<before, spec, cfg>>
    BY <1>3 DEF EnsureKey, Goto, Same, call
  <2>2. Declared' = Declared /\ \A n \in Declared : Moving(n)' = Moving(n)
    BY <2>1, RenamesNext
  <2>3. ASSUME NEW n \in Declared, Moving(n) PROVE Pending(n)'
    <3>1. /\ Pending(n) /\ n \in Names \ {MigKey} /\ spec.col[n].from \in Names \ {MigKey}
      BY <2>1, <2>3, MovingFacts DEF RenamesWhere
    <3>2. live'[n] = live[n] /\ live'[spec.col[n].from] = live[spec.col[n].from]
      BY <1>3, <3>1, EnsureKeyLive
    <3> QED
      BY <2>1, <3>1, <3>2 DEF Pending
  <2> QED
    BY <2>1, <2>2, <2>3 DEF RenamesWhere
<1>4. CASE Alter
  <2>1. pc = "alter" /\ pc' = "alter" /\ UNCHANGED <<before, spec, cfg>>
    BY <1>4 DEF Alter, Same, call
  <2>2. PICK d \in todo :
          /\ d.col \in Want
          /\ \/ d.col \notin Have /\ AddColumn(d.col)
             \/ d.col \in Have /\ DropNotNull(d.col)
             \/ d.col \in Have /\ AddUnique(d.col)
    BY <1>4, AlterStatement
  <2>3. ASSUME NEW n \in Declared, n \in Have
        PROVE  live'[n] # NoCol /\ live'[n].data = live[n].data
    <3>1. n \in Names /\ live[n] # NoCol
      BY <2>3 DEF Have
    <3>2. CASE n # d.col
      BY <2>2, <3>1, <3>2, AlterHave
    <3>3. CASE n = d.col /\ DropNotNull(n)
      BY <2>3, <3>3, DropNotNullLive
    <3>4. CASE n = d.col /\ AddUnique(n)
      BY <3>1, <3>4 DEF AddUnique
    <3> QED
      BY <2>2, <2>3, <3>2, <3>3, <3>4
  <2> QED
    BY <2>1, <2>3, KeepsMoved
<1>5. CASE Rewrite
  <2>1. pc = "after" /\ pc' = "newIndexes" /\ live' = Shadow /\ UNCHANGED <<before, spec, cfg>>
        /\ (Keyed => MigKey \in Have)
    BY <1>5, RewriteHave DEF Rewrite, Goto, Same, call
  <2>2. \A n \in Declared : n \in Have => live'[n] # NoCol /\ live'[n].data = live[n].data
    BY <2>1, ShadowFacts
  <2> QED
    BY <2>1, <2>2, KeepsMoved
<1>6. CASE CreateIndex \/ BuildFails
  <2>1. /\ pc \in Building \cup {"alter"} /\ pc' \in Building \cup {"failed"}
        /\ UNCHANGED <<live, before, spec, cfg>>
    BY <1>6 DEF CreateIndex, BuildFails, Same, call, Building
  <2>2. \A n \in Declared : n \in Have => live'[n] # NoCol /\ live'[n].data = live[n].data
    BY <2>1 DEF Have
  <2> QED
    BY <2>1, <2>2, KeepsMoved DEF Building
<1> QED
  BY <1>1, <1>2, <1>3, <1>4, <1>5, <1>6, QuietRenames, RenameRenames, Steps DEF Acting

-----------------------------------------------------------------------------
(* A call that succeeded before. *)

\* All is settled when nothing but a key that is there, or not wanted, may differ.
LEMMA KeyThere ==
  ASSUME TypeOK, SettledButKey, MigKey \in Have \/ ~Keyed
  PROVE  Settled
<1>1. spec \in Specs /\ (MigKey \in Want <=> Keyed)
  BY WantNames DEF TypeOK
<1>2. ButKeyView
  BY <1>1, SettledEq
<1>3. SettledView
  BY <1>1, <1>2 DEF ButKeyView, SettledView
<1> QED
  BY <1>1, <1>3, SettledEq

LEMMA SettledColumns ==
  ASSUME TypeOK
  PROVE  /\ Settled => Want \subseteq Have /\ Diff = {}
         /\ SettledButKey => Declared \subseteq Have
<1>1. spec \in Specs /\ MigKey \notin Declared /\ Declared \subseteq Want
  BY SpecFacts, WantNames DEF TypeOK
<1> QED
  BY <1>1, SettledEq, DiffEq DEF SettledView, ButKeyView

LEMMA QuietRepeat ==
  ASSUME TypeOK, SettledWhere, RepeatWhere, Quiet
  PROVE  RepeatWhere'
<1>1. /\ UNCHANGED <<live, attrs, gen, indexes, spec, cfg>>
      /\ Settled' = Settled /\ SettledButKey' = SettledButKey
      /\ Have' = Have /\ Want' = Want
  BY QuietSame, SameView
<1>2. KeyFree' = KeyFree
  BY <1>1 DEF KeyFree, Declared, Taken
<1>3. pc' = "create" => pc = "create"
  BY QuietMoves DEF Comparing, Building
<1>4. ASSUME repeat, repeat'
      PROVE  /\ SettledButKey
             /\ pc' \notin Ended \cup {"start"} => Settled
             /\ pc' \notin {"create", "alter", "newIndexes", "newBuild", "final"}
             /\ MigKey \in Want \ Have => KeyFree
  <2>1. /\ SettledButKey
        /\ pc \notin Ended \cup {"start"} => Settled
        /\ pc \notin {"create", "alter", "newIndexes", "newBuild", "final"}
        /\ MigKey \in Want \ Have => KeyFree
    BY <1>4 DEF RepeatWhere
  <2>2. CASE TableExists
    <3>1. ~Keyed /\ pc' = "loop"
      BY <2>2 DEF TableExists, Goto
    <3>2. Settled
      BY <2>1, <3>1, KeyThere
    <3> QED
      BY <2>1, <3>1, <3>2
  <2>3. CASE ~TableExists
    <3>1. Settled => Diff = {}
      BY SettledColumns
    <3> QED
      BY <2>1, <2>3, <3>1, QuietMoves DEF Ended, Comparing, Building
  <2> QED
    BY <2>2, <2>3
<1>5. ASSUME ~repeat, repeat'
      PROVE  /\ SettledButKey /\ pc' = "ok"
             /\ MigKey \in Want \ Have => KeyFree
  <2>1. pc \in Building /\ repeat' = (pc # "newBuild" \/ repeat)
        /\ pc' = IF pc = "newBuild" THEN "final" ELSE "ok"
    BY <1>5, QuietMoves, Zenon DEF TableExists, Same
  <2>2. pc \in {"create", "build"} /\ pc' = "ok"
    BY <1>5, <2>1 DEF Building
  <2>3. CASE pc = "create"
    BY <2>2, <2>3 DEF SettledWhere, RepeatWhere
  <2>4. CASE pc = "build"
    BY <2>2, <2>4, SettledIsButKey, SettledColumns DEF SettledWhere
  <2> QED
    BY <2>2, <2>3, <2>4
<1> QED
  BY <1>1, <1>2, <1>3, <1>4, <1>5 DEF RepeatWhere, Ended

LEMMA EnsureKeySettles ==
  ASSUME TypeOK, EnsureKey, SettledButKey, MigKey \in Want \ Have => KeyFree
  PROVE  Settled'
<1>1. /\ Keyed /\ gen' = gen /\ UNCHANGED <<spec, cfg>>
      /\ indexes' = With("declared", UniqueOn(MigKey), TRUE)
  BY DEF EnsureKey, Same, call
<1>2. spec \in Specs /\ spec' \in Specs /\ MigKey \in Names /\ MigKey \in Want /\ Want \subseteq Names
  BY <1>1, WantNames, NameAssumption DEF TypeOK
<1>3. CASE MigKey \in Have
  <2>1. live' = live
    BY <1>3, EnsureKeyLive
  <2>2. Settled
    BY <1>3, KeyThere
  <2>3. \A n \in Want : UniqueOn(MigKey).unique /\ UniqueOn(MigKey).cols = <<n>> =>
          Expected(n).unique
    BY <1>2, KeyUnique
  <2> QED
    BY <1>1, <2>1, <2>2, <2>3, WithKeeps
<1>4. CASE MigKey \notin Have
  <2> DEFINE e == Entry("declared", UniqueOn(MigKey), TRUE)
  <2>1. attrs = Cardinality(Declared) /\ indexes' = indexes \cup {e}
    BY <1>1, <1>2, <1>4 DEF KeyFree, With
  <2>2. e.on = gen /\ e.unique /\ e.plain /\ e.cols = <<MigKey>>
    BY DEF Entry, UniqueOn
  <2> HIDE DEF e
  <2>3. /\ \A m \in Names \ {MigKey} : live'[m] = live[m]
        /\ Have' = Have \cup {MigKey}
        /\ live'[MigKey].ty = BigInt /\ live'[MigKey].nullable = FALSE
        /\ live'[MigKey].key = "none" /\ live'[MigKey].pos = attrs
    BY <1>4, EnsureKeyLive
  <2>4. Want' = Want /\ \A n \in Names : Expected(n)' = Expected(n)
    BY <1>1 DEF Want, Declared, Keyed, PrimaryKey, Expected
  <2>5. ButKeyView
    BY <1>2, SettledEq
  <2>6. ASSUME NEW n \in Want, n # MigKey PROVE Fits(n)'
    <3>1. Fits(n) /\ n \in Names /\ live'[n] = live[n] /\ <<MigKey>> # <<n>>
      BY <1>2, <2>3, <2>5, <2>6 DEF ButKeyView, AllFit
    <3>2. IsUnique(n)' = IsUnique(n)
      BY <1>1, <2>1, <2>2, <3>1 DEF IsUnique
    <3> QED
      BY <1>1, <2>4, <3>1, <3>2 DEF Fits
  <2>7. Fits(MigKey)'
    <3>1. Expected(MigKey) = [ty |-> BigInt, nullable |-> FALSE, pos |-> Cardinality(Declared),
                              primary |-> FALSE, unique |-> TRUE]
      BY <1>2, ExpectedFacts
    <3>2. /\ Expected(MigKey).ty = BigInt /\ Expected(MigKey).nullable = FALSE
          /\ Expected(MigKey).pos = Cardinality(Declared)
          /\ Expected(MigKey).primary = FALSE /\ Expected(MigKey).unique = TRUE
      BY <3>1
    <3>3. IsUnique(MigKey)' = TRUE
      BY <1>1, <2>1, <2>2 DEF IsUnique
    <3> QED
      BY <1>2, <2>1, <2>3, <2>4, <3>2, <3>3 DEF Fits
  <2>8. AllFit'
    BY <2>4, <2>6, <2>7 DEF AllFit
  <2>9. SettledView'
    BY <1>1, <1>2, <2>3, <2>4, <2>5, <2>8 DEF SettledView, ButKeyView
  <2> QED
    BY <1>2, <2>9, SettledEqNext
<1> QED
  BY <1>3, <1>4

LEMMA CreateIndexRepeat ==
  ASSUME TypeOK, TodoOK, RepeatWhere, CreateIndex
  PROVE  RepeatWhere'
<1>1. /\ pc' = pc /\ pc \in Building /\ UNCHANGED <<live, attrs, gen, spec, cfg, repeat>>
  BY DEF CreateIndex, Same, call
<1>2. PICK i \in todo : indexes' = With("declared", i, TRUE)
  BY DEF CreateIndex
<1>3. i \in spec.indexes /\ spec \in Specs /\ Have' = Have
  BY <1>1 DEF TodoOK, TypeOK, Have
<1>4. CASE pc = "create"
  <2>1. ~repeat /\ MigKey \notin Have /\ KeyFree
    BY <1>4 DEF RepeatWhere
  <2>2. i.cols # <<MigKey>>
    <3>1. i.cols \in Seq(Declared) /\ MigKey \notin Declared
      BY <1>3, SpecFacts
    <3>2. ASSUME i.cols = <<MigKey>> PROVE FALSE
      <4>1. 1 \in DOMAIN i.cols /\ i.cols[1] = MigKey
        BY <3>2
      <4> QED
        BY <3>1, <4>1
    <3> QED
      BY <3>2
  <2>3. NameFor("declared", i) # NameFor("declared", UniqueOn(MigKey))
    BY <2>2 DEF NameFor, UniqueOn
  <2>4. Entry("declared", i, TRUE).name = NameFor("declared", i)
    BY DEF Entry
  <2>5. KeyFree'
    BY <1>1, <1>2, <2>1, <2>3, <2>4 DEF KeyFree, Declared, Taken, With
  <2> QED
    BY <1>1, <1>3, <1>4, <2>1, <2>5 DEF RepeatWhere
<1>5. CASE pc # "create"
  <2>1. ASSUME repeat PROVE Settled' /\ pc = "build" /\ Want' \subseteq Have'
    <3>1. pc = "build" /\ Settled
      BY <1>1, <2>1 DEF RepeatWhere, Building, Ended
    <3>2. Settled'
      BY <1>1, <1>2, <1>3, <3>1, DeclaredUnique, WithKeeps
    <3>3. Want \subseteq Have /\ Want' = Want
      BY <1>1, <3>1, SettledColumns DEF Want, Declared, Keyed, PrimaryKey
    <3> QED
      BY <1>3, <3>1, <3>2, <3>3
  <2>2. Settled' => SettledButKey'
    BY DEF Settled, SettledButKey
  <2> QED
    BY <1>1, <1>5, <2>1, <2>2 DEF RepeatWhere
<1> QED
  BY <1>4, <1>5

LEMMA RepeatStep ==
  ASSUME TypeOK, TodoOK, TableThere, SettledWhere, RepeatWhere, [Next]_vars
  PROVE  RepeatWhere'
<1>1. Settled' => SettledButKey'
  BY DEF Settled, SettledButKey
<1>2. CASE Call
  <2>1. pc' = "start" /\ UNCHANGED <<live, attrs, gen, indexes>>
        /\ (repeat' => repeat /\ spec' = spec /\ cfg' = cfg)
    BY <1>2, Zenon DEF Call, catalog
  <2>2. ASSUME repeat'
        PROVE  SettledButKey' /\ (MigKey \in Want' \ Have' => KeyFree')
    <3>1. SettledButKey /\ (MigKey \in Want \ Have => KeyFree)
      BY <2>1, <2>2 DEF RepeatWhere
    <3>2. SettledButKey' = SettledButKey /\ Have' = Have /\ Want' = Want
      BY <2>1, <2>2, SameView
    <3>3. KeyFree' = KeyFree
      BY <2>1, <2>2 DEF KeyFree, Declared, Taken
    <3> QED
      BY <3>1, <3>2, <3>3
  <2> QED
    BY <2>1, <2>2 DEF RepeatWhere, Ended
<1>3. CASE CreateTable
  <2>1. Have = {} /\ pc' = "create" /\ UNCHANGED <<repeat, indexes, spec>>
        /\ attrs' = Cardinality(Declared)
    BY <1>3 DEF CreateTable, Goto, Same, call
  <2>2. Declared # {} /\ MigKey \notin Declared
    BY SpecFacts DEF TypeOK
  <2>3. ~repeat
    BY <2>1, <2>2, SettledColumns DEF RepeatWhere
  <2>4. Have' = Declared
    BY <1>3, CreatedHave
  <2>5. KeyFree'
    BY <2>1 DEF KeyFree, Declared, Taken, TableThere
  <2> QED
    BY <2>1, <2>2, <2>3, <2>4, <2>5 DEF RepeatWhere
<1>4. CASE EnsureKey
  <2>1. pc' = "loop" /\ repeat' = repeat /\ Have' = Have \cup {MigKey}
    BY <1>4, EnsureKeyLive DEF EnsureKey, Goto, Same
  <2>2. repeat => Settled'
    BY <1>4, EnsureKeySettles DEF RepeatWhere
  <2> QED
    BY <1>1, <2>1, <2>2 DEF RepeatWhere
<1>5. CASE Rename
  <2>1. pc = "rename" /\ pc' = "rename" /\ UNCHANGED <<repeat, attrs, gen, spec, cfg>>
    BY <1>5 DEF Rename, Same, call
  <2>2. ASSUME repeat PROVE Settled' /\ Want' \subseteq Have'
    <3>1. Settled /\ Want \subseteq Have /\ Declared \subseteq Want
      BY <2>1, <2>2, SettledColumns, WantNames DEF RepeatWhere, Ended, TypeOK
    <3>2. UNCHANGED <<live, indexes>>
      BY <1>5, <3>1, RenameHave
    <3>3. Settled' = Settled /\ Want' = Want /\ Have' = Have
      BY <2>1, <3>2, SameView
    <3> QED
      BY <3>1, <3>3
  <2> QED
    BY <1>1, <2>1, <2>2 DEF RepeatWhere
<1>6. CASE Alter
  BY <1>6 DEF Alter, Same, RepeatWhere
<1>7. CASE Rewrite
  <2>1. pc = "after" /\ Diff # {} /\ repeat' = repeat /\ pc' = "newIndexes"
    BY <1>7 DEF Rewrite, Goto, Same
  <2>2. ~repeat
    BY <2>1, SettledColumns DEF RepeatWhere, Ended
  <2> QED
    BY <2>1, <2>2 DEF RepeatWhere
<1>8. CASE BuildFails
  <2>1. pc' = "failed" /\ UNCHANGED <<live, attrs, gen, spec, cfg, repeat>>
    BY <1>8, BuildFailsIndex DEF call
  <2>2. ASSUME repeat PROVE Settled' /\ Want' \subseteq Have'
    <3>1. pc = "build"
      BY <1>8, <2>2, BuildFailsIndex DEF RepeatWhere
    <3>2. Settled /\ Want \subseteq Have
      BY <2>2, <3>1, SettledColumns DEF RepeatWhere, Ended
    <3>3. PICK i \in spec.indexes : indexes' = With("declared", i, FALSE)
      BY <1>8, <3>1, BuildFailsIndex
    <3>4. Settled'
      BY <2>1, <3>2, <3>3, DeclaredUnique, WithKeeps DEF TypeOK
    <3>5. Want' = Want /\ Have' = Have
      BY <2>1 DEF Want, Have, Declared, Keyed, PrimaryKey
    <3> QED
      BY <3>2, <3>4, <3>5
  <2> QED
    BY <1>1, <2>1, <2>2 DEF RepeatWhere, Ended
<1> QED
  BY <1>2, <1>3, <1>4, <1>5, <1>6, <1>7, <1>8, QuietRepeat, CreateIndexRepeat, Steps DEF Acting

-----------------------------------------------------------------------------
(* The theorems. *)

LEMMA InitInv == Init => Inv
<1> SUFFICES ASSUME Init PROVE Inv
  OBVIOUS
<1>1. PICK t \in Tables : live = t.live /\ attrs = t.attrs /\ indexes = t.indexes
  BY DEF Init
<1>2. /\ live \in [Names -> Column \cup {NoCol}] /\ attrs \in Nat
      /\ \A i \in indexes : i \in Index /\ i.on = 0
      /\ \A n \in Names : live[n] # NoCol =>
           live[n].pos < attrs /\ (live[n].key = "primary" => ~live[n].nullable)
      /\ indexes # {} => \E n \in Names : live[n] # NoCol
  BY <1>1, TableAssumption
<1>3. gen = 0 /\ pc = "idle" /\ spec \in Specs /\ cfg \in Cfgs /\ iter = 0
      /\ before = Empty /\ repeat = FALSE /\ calls = 0
  BY DEF Init
<1>4. before \in [Names -> Column \cup {NoCol}]
  BY <1>3 DEF Empty
<1>5. TypeOK
  <2>1. \A i \in indexes : i \in Index /\ i.on <= gen
    BY <1>2, <1>3
  <2>2. \A n \in Have : live[n].pos < attrs /\ (live[n].key = "primary" => ~live[n].nullable)
    BY <1>2 DEF Have
  <2>3. MaxCalls \in Nat
    BY BoundAssumption
  <2>4. calls \in 0..MaxCalls /\ iter \in 0..6 /\ gen \in Nat
    BY <1>3, <2>3
  <2>5. repeat \in BOOLEAN /\ pc \in Ended
    BY <1>3 DEF Ended
  <2> QED
    BY <1>2, <1>3, <1>4, <2>1, <2>2, <2>4, <2>5 DEF TypeOK
<1>6. TableThere
  BY <1>2, <1>3 DEF TableThere, Have, Ended
<1> QED
  BY <1>3, <1>5, <1>6 DEF Inv, TodoOK, SettledWhere, RenamesWhere, RepeatWhere, Building

LEMMA InvStep == Inv /\ [Next]_vars => Inv'
BY TypeStep, TodoStep, ThereStep, SettledStep, RenamesStep, RepeatStep DEF Inv

LEMMA InvAlways == Spec => []Inv
BY InitInv, InvStep, PTL DEF Spec

\* Columns, indexes and the running call have their types whatever fails; every
\* column's number has been handed out, and no primary key is nullable.
THEOREM TypeCorrect == Spec => []TypeOK
<1>1. Inv => TypeOK
  BY DEF Inv
<1> QED
  BY <1>1, InvAlways, PTL

\* A call that returns Ok leaves the table as declared.
THEOREM ReturnsAsDeclared == Spec => []OkAsDeclared
<1>1. Inv => OkAsDeclared
  BY DiffEq DEF Inv, SettledWhere, OkAsDeclared
<1> QED
  BY <1>1, InvAlways, PTL

\* A rewrite is never followed by "still differs after online rewrite".
THEOREM RewriteEnough == Spec => []RewriteSettles
<1>1. Inv => RewriteSettles
  BY DEF Inv, SettledWhere, RewriteSettles
<1> QED
  BY <1>1, InvAlways, PTL

\* A column declared with rename_from has the data of the one it replaces.
THEOREM RenamesKeepData == Spec => []RenamedKeepsData
<1>1. ASSUME Inv, pc = "ok", cfg.renames, NEW n \in Declared, spec.col[n].from # NoName,
             before[n] = NoCol, before[spec.col[n].from] # NoCol
      PROVE  live[n] # NoCol /\ live[n].data = before[spec.col[n].from].data
  BY <1>1 DEF Inv, RenamesWhere, Moving, Moved
<1>2. Inv => RenamedKeepsData
  BY <1>1 DEF RenamedKeepsData
<1> QED
  BY <1>2, InvAlways, PTL

\* A call repeated after it succeeded does not rewrite the table.
THEOREM RepeatsRewriteNothing == Spec => NoSecondRewrite
<1>1. ASSUME Inv, [Next]_vars, gen' # gen
      PROVE  ~repeat
  <2>1. TypeOK /\ TodoOK
    BY <1>1 DEF Inv
  <2>2. Rewrite
    <3>1. ~Quiet
      BY <1>1, <2>1, QuietSame
    <3>2. Acting
      BY <1>1, <3>1, Steps
    <3> QED
      BY <1>1, <2>1, <3>2, BuildFailsIndex
         DEF Acting, Call, catalog, CreateTable, EnsureKey, Rename, Alter, CreateIndex
  <2>3. pc = "after" /\ Diff # {}
    BY <2>2 DEF Rewrite, Goto
  <2> QED
    BY <1>1, <2>1, <2>3, SettledColumns DEF Inv, RepeatWhere, Ended
<1>2. Inv /\ [Next]_vars => [gen' # gen => ~repeat]_vars
  BY <1>1
<1> QED
  BY <1>2, InvAlways, PTL DEF Spec, NoSecondRewrite
\* The data of a column stays when the column does, or another has it.
LEMMA DataKept ==
  ASSUME \A n \in Have : live[n].data # Fresh =>
            \E m \in Names : live'[m] # NoCol /\ live'[m].data = live[n].data
  PROVE  DataIn(live) \subseteq DataIn(live')
<1> SUFFICES ASSUME NEW x \in DataIn(live) PROVE x \in DataIn(live')
  OBVIOUS
<1>1. PICK n \in Names : live[n] # NoCol /\ x = live[n].data /\ x # Fresh
  BY DEF DataIn
<1>2. PICK m \in Names : live'[m] # NoCol /\ live'[m].data = x
  BY <1>1 DEF Have
<1> QED
  BY <1>1, <1>2 DEF DataIn

LEMMA RenameKeeps ==
  ASSUME TypeOK, TodoOK, Rename
  PROVE  DataIn(live) \subseteq DataIn(live')
<1>1. PICK n \in Declared :
        LET f == spec.col[n].from IN
        /\ f \in Names \ (Declared \cup {MigKey})
        /\ \/ UNCHANGED <<live, indexes>>
           \/ /\ n \notin Have /\ f \in Have
              /\ live' = [live EXCEPT ![n] = live[f], ![f] = NoCol]
  BY RenameLive
<1> DEFINE f == spec.col[n].from
<1>2. n \in Names /\ f \in Names /\ f # n
  BY <1>1, SpecFacts DEF TypeOK
<1>3. CASE UNCHANGED <<live, indexes>>
  BY <1>3, DataKept DEF Have
<1>4. CASE /\ n \notin Have /\ f \in Have
           /\ live' = [live EXCEPT ![n] = live[f], ![f] = NoCol]
  <2> HIDE DEF f
  <2>1. live'[n] = live[f] /\ \A m \in Names \ {f, n} : live'[m] = live[m]
    BY <1>2, <1>4, SwapLive
  <2>2. ASSUME NEW m \in Have
        PROVE  \E o \in Names : live'[o] # NoCol /\ live'[o].data = live[m].data
    <3>1. m \in Names /\ live[m] # NoCol /\ m # n
      BY <1>4, <2>2 DEF Have
    <3>2. CASE m = f
      BY <1>2, <2>1, <3>1, <3>2
    <3>3. CASE m # f
      BY <2>1, <3>1, <3>3
    <3> QED
      BY <3>2, <3>3
  <2> QED
    BY <2>2, DataKept
<1> QED
  BY <1>1, <1>3, <1>4

LEMMA AlterKeeps ==
  ASSUME TypeOK, TodoOK, Alter
  PROVE  DataIn(live) \subseteq DataIn(live')
<1>1. PICK d \in todo :
        /\ d.col \in Want
        /\ \/ d.col \notin Have /\ AddColumn(d.col)
           \/ d.col \in Have /\ DropNotNull(d.col)
           \/ d.col \in Have /\ AddUnique(d.col)
  BY AlterStatement
<1>2. ASSUME NEW n \in Have
      PROVE  live'[n] # NoCol /\ live'[n].data = live[n].data
  <2>1. n \in Names /\ live[n] # NoCol
    BY <1>2 DEF Have
  <2>2. CASE n # d.col
    BY <1>1, <2>1, <2>2, AlterHave
  <2>3. CASE n = d.col /\ DropNotNull(n)
    BY <1>2, <2>3, DropNotNullLive
  <2>4. CASE n = d.col /\ AddUnique(n)
    BY <2>1, <2>4 DEF AddUnique
  <2> QED
    BY <1>1, <1>2, <2>2, <2>3, <2>4
<1> QED
  BY <1>2, DataKept DEF Have

LEMMA RewriteKeeps ==
  ASSUME TypeOK, Rewrite, cfg.exact, ~cfg.drops
  PROVE  DataIn(live) \subseteq DataIn(live')
<1>1. live' = Shadow /\ ~Refused /\ (Keyed => MigKey \in Have)
  BY RewriteHave DEF Rewrite
<1>2. Have \subseteq Want
  <2> SUFFICES ASSUME NEW n \in Have \ Want PROVE FALSE
    OBVIOUS
  <2> DEFINE d == [kind |-> "removed", col |-> n]
  <2>1. d \in [kind : Kinds, col : Names] /\ d.kind = "removed" /\ d.col = n
    BY DEF Kinds, Have
  <2> HIDE DEF d
  <2>2. d \in Diff
    BY <2>1 DEF Diff, Differs
  <2> QED
    BY <1>1, <2>1, <2>2 DEF Refused
<1>3. ASSUME NEW n \in Have
      PROVE  live'[n] # NoCol /\ live'[n].data = live[n].data
  <2>1. n \in Declared \/ (n = MigKey /\ Keyed)
    BY <1>2, WantNames DEF TypeOK
  <2>2. CASE n \in Declared
    BY <1>1, <2>2, ShadowFacts
  <2>3. CASE n = MigKey /\ Keyed
    BY <1>1, <2>3, ShadowFacts
  <2> QED
    BY <2>1, <2>2, <2>3
<1> QED
  BY <1>3, DataKept DEF Have

\* With enforce_exact_columns and without allow_destructive_drops no statement
\* takes the data of a column out of the table.
THEOREM ExactLosesNothing == Spec => ExactKeepsData
<1>1. ASSUME Inv, [Next]_vars, cfg.exact, ~cfg.drops
      PROVE  DataIn(live) \subseteq DataIn(live')
  <2>1. TypeOK /\ TodoOK
    BY <1>1 DEF Inv
  <2>2. CASE Quiet
    BY <2>1, <2>2, QuietSame
  <2>3. CASE Call \/ CreateIndex \/ BuildFails
    BY <2>1, <2>3, BuildFailsIndex DEF Call, CreateIndex, catalog
  <2>4. CASE CreateTable
    BY <2>4, DataKept DEF CreateTable
  <2>5. CASE EnsureKey
    <3>1. ASSUME NEW n \in Have
          PROVE  live'[n] # NoCol /\ live'[n].data = live[n].data
      <4>1. n \in Names /\ live[n] # NoCol
        BY <3>1 DEF Have
      <4>2. live'[n] = live[n]
        BY <2>1, <2>5, <3>1, <4>1, EnsureKeyLive
      <4> QED
        BY <4>1, <4>2
    <3> QED
      BY <3>1, DataKept DEF Have
  <2>6. CASE Rename
    BY <2>1, <2>6, RenameKeeps
  <2>7. CASE Alter
    BY <2>1, <2>7, AlterKeeps
  <2>8. CASE Rewrite
    BY <1>1, <2>1, <2>8, RewriteKeeps
  <2> QED
    BY <1>1, <2>2, <2>3, <2>4, <2>5, <2>6, <2>7, <2>8, Steps DEF Acting
<1>2. Inv /\ [Next]_vars => [cfg.exact /\ ~cfg.drops => DataIn(live) \subseteq DataIn(live')]_vars
  BY <1>1
<1> QED
  BY <1>2, InvAlways, PTL DEF Spec, ExactKeepsData
=============================================================================
