------------------------- MODULE MigrationKeyProofs -------------------------
(***************************************************************************)
(* Proofs about MigrationKey, for any number of migrators, writers and     *)
(* rows: the inductive invariant KeyInv, and from it that keys are         *)
(* distinct, that they are stable once the column is NOT NULL, and that    *)
(* the set of rows without a key only shrinks while the default is set.    *)
(***************************************************************************)
EXTENDS MigrationKey, FiniteSetTheorems, TLAPS

USE SlotAssumption, ValueAssumption

\* A fill gives distinct keys, none of them used before.
LEMMA NumberedKeys ==
  ASSUME TypeOK, KeysFresh, KeysDistinct, NEW hit \in SUBSET Slots
  PROVE  /\ Cardinality(hit) \in Nat
         /\ \A q \in Slots : q \notin hit => Numbered(hit)[q] = rows[q]
         /\ \A q \in hit : /\ Numbered(hit)[q] \in Nat
                           /\ next <= Numbered(hit)[q]
                           /\ Numbered(hit)[q] < next + Cardinality(hit)
         /\ \A q, r \in hit : q # r => Numbered(hit)[q] # Numbered(hit)[r]
<1> DEFINE below(q) == {p \in hit : p < q}
<1>1. IsFiniteSet(hit) /\ Cardinality(hit) \in Nat
  BY FS_Subset, FS_CardinalityType
<1>2. ASSUME NEW q \in hit
      PROVE  /\ Cardinality(below(q)) \in Nat /\ IsFiniteSet(below(q))
             /\ Cardinality(below(q)) < Cardinality(hit)
  <2>1. below(q) \in SUBSET (hit \ {q})
    OBVIOUS
  <2>2. IsFiniteSet(hit \ {q}) /\ Cardinality(hit \ {q}) = Cardinality(hit) - 1
    BY <1>1, FS_RemoveElement
  <2>3. IsFiniteSet(below(q)) /\ Cardinality(below(q)) <= Cardinality(hit \ {q})
    BY <2>1, <2>2, FS_Subset
  <2>4. Cardinality(below(q)) \in Nat
    BY <2>3, FS_CardinalityType
  <2> QED
    BY <1>1, <2>2, <2>3, <2>4
<1>3. ASSUME NEW q \in hit, NEW r \in hit, q < r
      PROVE  Cardinality(below(q)) < Cardinality(below(r))
  <2>1. /\ below(q) \cup {q} \in SUBSET below(r)
        /\ q \notin below(q)
    <3>1. q \in Int /\ r \in Int /\ \A p \in hit : p \in Int
      OBVIOUS
    <3>2. \A p \in below(q) : p \in below(r)
      BY <1>3, <3>1
    <3>3. q \in below(r) /\ q \notin below(q)
      BY <1>3, <3>1
    <3> QED
      BY <3>2, <3>3
  <2>2. Cardinality(below(q) \cup {q}) = Cardinality(below(q)) + 1
    BY <1>2, <2>1, FS_AddElement
  <2>3. Cardinality(below(q) \cup {q}) <= Cardinality(below(r))
    BY <1>2, <2>1, FS_Subset
  <2>4. Cardinality(below(q)) \in Nat /\ Cardinality(below(r)) \in Nat
    BY <1>2
  <2> QED
    BY <2>2, <2>3, <2>4
<1>4. \A q \in Slots : Numbered(hit)[q] =
         IF q \in hit THEN next + Cardinality(below(q)) ELSE rows[q]
  BY DEF Numbered
<1>5. next \in Nat
  BY DEF TypeOK
<1> HIDE DEF below
<1>6. \A q \in hit : /\ Numbered(hit)[q] \in Nat
                     /\ next <= Numbered(hit)[q]
                     /\ Numbered(hit)[q] < next + Cardinality(hit)
  BY <1>1, <1>2, <1>4, <1>5
<1>7. ASSUME NEW q \in hit, NEW r \in hit, q # r
      PROVE  Numbered(hit)[q] # Numbered(hit)[r]
  <2>1. q < r \/ r < q
    BY <1>7
  <2>2. Cardinality(below(q)) # Cardinality(below(r))
    BY <1>2, <1>3, <2>1
  <2> QED
    BY <1>2, <1>4, <1>5, <2>2
<1> QED
  BY <1>1, <1>4, <1>6, <1>7

LEMMA InitInv == Init => KeyInv
<1> SUFFICES ASSUME Init PROVE KeyInv
  OBVIOUS
<1> USE DEF Init
<1>1. TypeOK
  <2>1. open \in [Writers -> Statement \cup {Idle}]
    OBVIOUS
  <2>2. picked \in [Migrators -> SUBSET Slots] /\ moved \in [Migrators -> SUBSET Slots]
    OBVIOUS
  <2>3. writes \in 0..MaxWrites /\ calls \in 0..MaxCalls
    BY BoundAssumption
  <2>4. rows \in [Slots -> Nat \cup {Absent, Unkeyed}] /\ next \in Nat \ {0}
    OBVIOUS
  <2> QED
    BY <2>1, <2>2, <2>3, <2>4 DEF TypeOK, Ended
<1>2. OpenFaithful /\ Settled
  BY DEF OpenFaithful, Settled, Inserting
<1>3. KeysFresh /\ KeysDistinct
  BY DEF KeysFresh, KeysDistinct, Inserting
<1> QED
  BY <1>1, <1>2, <1>3 DEF KeyInv

-----------------------------------------------------------------------------
(* Steps of the application. *)

LEMMA WriteInv == ASSUME KeyInv, NEW w \in Writers, Write(w) PROVE KeyInv'
<1> USE DEF KeyInv
<1>1. PICK s \in Slots : /\ Free(s)
                         /\ Insert(w, s) \/ InsertRejected(s) \/ UpdateOrDelete(w, s)
  BY DEF Write
<1>2. /\ rows' = rows /\ picked' = picked /\ moved' = moved /\ pc' = pc
      /\ hasCol' = hasCol /\ hasDefault' = hasDefault /\ notNull' = notNull
      /\ index' = index /\ calls' = calls /\ open[w] = Idle
  BY DEF Write, catalog, batch
<1>3. writes' \in 0..MaxWrites
  BY BoundAssumption DEF Write, TypeOK
<1>4. \A v \in Writers : open[v] # Idle => open[v].slot # s
  BY <1>1 DEF Free
<1>5. CASE Insert(w, s)
  <2> DEFINE k == IF hasDefault THEN next ELSE Unkeyed
             t == [op |-> "insert", slot |-> s, key |-> k]
  <2>1. t \in Statement /\ next \in Nat /\ next' \in Nat \ {0} /\ next <= next'
    BY <1>5 DEF Insert, TypeOK, Statement
  <2>2. open' = [open EXCEPT ![w] = t]
    BY <1>5 DEF Insert
  <2>3. open'[w] = t /\ \A v \in Writers \ {w} : open'[v] = open[v]
    BY <2>2 DEF TypeOK
  <2>4. rows[s] = Absent /\ (notNull => hasDefault)
        /\ next' = (IF hasDefault THEN next + 1 ELSE next)
    BY <1>5 DEF Insert
  <2>5. TypeOK'
    BY <1>2, <1>3, <2>1, <2>2, <2>4 DEF TypeOK
  <2>6. OpenFaithful'
    BY <1>2, <1>4, <2>3, <2>4 DEF OpenFaithful
  <2>7. KeysFresh'
    <3>1. \A q \in Slots : rows'[q] \in Nat => rows'[q] < next'
      BY <1>2, <2>1 DEF KeysFresh
    <3>2. ASSUME NEW v \in Writers, Inserting(v)', open'[v].key \in Nat
          PROVE  /\ open'[v].key < next'
                 /\ \A q \in Slots : rows'[q] # open'[v].key
                 /\ \A u \in Writers \ {v} : Inserting(u)' => open'[u].key # open'[v].key
      <4>1. CASE v = w
        <5>1. hasDefault /\ open'[v].key = next
          BY <2>3, <3>2, <4>1
        <5>2. open'[v].key < next'
          BY <2>1, <2>4, <5>1
        <5>3. \A q \in Slots : rows'[q] # next
          BY <1>2, <2>1 DEF KeysFresh
        <5>4. \A u \in Writers \ {w} : Inserting(u)' => open'[u].key # next
          BY <2>1, <2>3 DEF KeysFresh, Inserting
        <5> QED
          BY <4>1, <5>1, <5>2, <5>3, <5>4
      <4>2. CASE v # w
        <5>1. Inserting(v) /\ open'[v] = open[v]
          BY <2>3, <3>2, <4>2 DEF Inserting
        <5>2. open[v].key < next /\ \A q \in Slots : rows'[q] # open[v].key
          BY <1>2, <3>2, <5>1 DEF KeysFresh
        <5>3. open[v].key < next'
          BY <2>1, <3>2, <5>1, <5>2
        <5>4. k # open[v].key
          BY <2>1, <3>2, <5>1, <5>2
        <5>5. \A u \in Writers \ {v} : Inserting(u)' => open'[u].key # open[v].key
          BY <2>3, <3>2, <5>1, <5>4 DEF KeysFresh, Inserting
        <5> QED
          BY <5>1, <5>2, <5>3, <5>5
      <4> QED
        BY <4>1, <4>2
    <3> QED
      BY <3>1, <3>2 DEF KeysFresh
  <2>8. KeysDistinct'
    BY <1>2 DEF KeysDistinct
  <2>9. Settled'
    BY <1>2, <2>1, <2>3, <2>4 DEF Settled, Inserting, Nulls
  <2> QED
    BY <2>5, <2>6, <2>7, <2>8, <2>9
<1>6. CASE InsertRejected(s)
  <2>1. open' = open /\ next' = next
    BY <1>6 DEF InsertRejected
  <2> QED
    BY <1>2, <1>3, <2>1
       DEF TypeOK, OpenFaithful, KeysFresh, KeysDistinct, Settled, Inserting, Nulls
<1>7. CASE UpdateOrDelete(w, s)
  <2>1. PICK op \in {"update", "delete"} :
          open' = [open EXCEPT ![w] = [op |-> op, slot |-> s, key |-> rows[s]]]
    BY <1>7 DEF UpdateOrDelete
  <2> DEFINE t == [op |-> op, slot |-> s, key |-> rows[s]]
  <2>2. rows[s] # Absent /\ next' = next
    BY <1>7 DEF UpdateOrDelete
  <2>3. t \in Statement
    BY <2>2 DEF TypeOK, Statement
  <2>4. open'[w] = t /\ \A v \in Writers \ {w} : open'[v] = open[v]
    BY <2>1 DEF TypeOK
  <2>5. TypeOK'
    BY <1>2, <1>3, <2>1, <2>2, <2>3 DEF TypeOK
  <2>6. OpenFaithful'
    BY <1>2, <1>4, <2>4 DEF OpenFaithful
  <2>7. t.op # "insert"
    OBVIOUS
  <2>8. \A v \in Writers : Inserting(v)' => v # w /\ Inserting(v) /\ open'[v] = open[v]
    BY <2>4, <2>7 DEF Inserting
  <2>9. KeysFresh' /\ KeysDistinct' /\ Settled'
    BY <1>2, <2>2, <2>8 DEF KeysFresh, KeysDistinct, Settled, Nulls
  <2> QED
    BY <2>5, <2>6, <2>9
<1> QED
  BY <1>1, <1>5, <1>6, <1>7

LEMMA CommitInv == ASSUME KeyInv, NEW w \in Writers, Commit(w) PROVE KeyInv'
<1> USE DEF KeyInv
<1> DEFINE t == open[w]
<1>1. /\ t \in Statement /\ t # Idle
      /\ rows' = [rows EXCEPT ![t.slot] = IF t.op = "delete" THEN Absent ELSE t.key]
      /\ picked' = [m \in Migrators |->
                      IF t.op = "delete" THEN picked[m] \ {t.slot} ELSE picked[m]]
      /\ moved' = [m \in Migrators |-> (moved[m] \cup {t.slot}) \cap picked'[m]]
      /\ open' = [open EXCEPT ![w] = Idle]
      /\ hasCol' = hasCol /\ hasDefault' = hasDefault /\ notNull' = notNull
      /\ index' = index /\ next' = next /\ pc' = pc
      /\ writes' = writes /\ calls' = calls
  BY DEF Commit, catalog, TypeOK
<1>2. t.slot \in Slots /\ t.key \in Nat \cup {Unkeyed}
  BY <1>1 DEF Statement
<1>3. /\ rows'[t.slot] = IF t.op = "delete" THEN Absent ELSE t.key
      /\ \A q \in Slots \ {t.slot} : rows'[q] = rows[q]
  BY <1>1, <1>2 DEF TypeOK
<1>4. open'[w] = Idle /\ \A v \in Writers \ {w} : open'[v] = open[v]
  BY <1>1 DEF TypeOK
<1>5. TypeOK'
  <2>1. rows' \in [Slots -> Nat \cup {Absent, Unkeyed}]
    BY <1>1, <1>2 DEF TypeOK
  <2>2. open' \in [Writers -> Statement \cup {Idle}]
    BY <1>1 DEF TypeOK
  <2>3. /\ picked' \in [Migrators -> SUBSET Slots]
        /\ moved' \in [Migrators -> SUBSET Slots]
        /\ \A m \in Migrators : /\ picked'[m] \subseteq picked[m]
                                /\ moved'[m] \subseteq picked'[m]
    BY <1>1 DEF TypeOK
  <2> QED
    BY <1>1, <2>1, <2>2, <2>3 DEF TypeOK
<1>6. OpenFaithful'
  BY <1>3, <1>4, <1>1 DEF OpenFaithful, TypeOK, Statement
<1>7. t.key \in Nat /\ t.op # "delete" =>
         /\ t.key < next
         /\ \A q \in Slots \ {t.slot} : rows[q] # t.key
         /\ \A v \in Writers \ {w} : Inserting(v) => open[v].key # t.key
  <2>1. CASE t.op = "insert"
    BY <1>1, <2>1 DEF KeysFresh, Inserting
  <2>2. CASE t.op # "insert"
    <3>1. rows[t.slot] = t.key
      BY <1>1, <2>2 DEF OpenFaithful
    <3> QED
      BY <1>1, <1>2, <3>1 DEF KeysFresh, KeysDistinct, TypeOK
  <2> QED
    BY <2>1, <2>2
<1>8. KeysFresh'
  <2>1. \A q \in Slots : rows'[q] \in Nat => rows'[q] < next'
    BY <1>1, <1>2, <1>3, <1>7 DEF KeysFresh
  <2>2. \A v \in Writers : Inserting(v)' => v # w /\ Inserting(v) /\ open'[v] = open[v]
    BY <1>4 DEF Inserting
  <2>3. ASSUME NEW v \in Writers \ {w}, Inserting(v), open[v].key \in Nat
        PROVE  \A q \in Slots : rows'[q] # open[v].key
    <3>1. \A q \in Slots : rows[q] # open[v].key
      BY <2>3 DEF KeysFresh
    <3>2. rows'[t.slot] # open[v].key
      BY <1>2, <1>3, <1>7, <2>3
    <3> QED
      BY <1>3, <3>1, <3>2
  <2> QED
    BY <1>1, <2>1, <2>2, <2>3 DEF KeysFresh
<1>9. KeysDistinct'
  <2> SUFFICES ASSUME NEW s \in Slots, NEW q \in Slots, s # q, rows'[s] \in Nat
               PROVE  rows'[s] # rows'[q]
    BY DEF KeysDistinct
  <2>1. CASE s = t.slot
    BY <1>2, <1>3, <1>7, <2>1
  <2>2. CASE q = t.slot
    BY <1>2, <1>3, <1>7, <2>2
  <2>3. CASE s # t.slot /\ q # t.slot
    BY <1>3, <2>3 DEF KeysDistinct
  <2> QED
    BY <2>1, <2>2, <2>3
<1>10. Settled'
  <2>1. hasDefault' => \A v \in Writers : Inserting(v)' => open'[v].key \in Nat
    BY <1>1, <1>4 DEF Settled, Inserting
  <2>2. ASSUME notNull'
        PROVE  /\ Nulls' = {}
               /\ \A m \in Migrators : picked'[m] = {}
               /\ \A v \in Writers : Inserting(v)' => open'[v].key \in Nat
    <3>1. t.op = "insert" => t.key \in Nat
      BY <1>1, <2>2 DEF Settled, Inserting
    <3>2. t.op # "insert" => rows[t.slot] = t.key
      BY <1>1 DEF OpenFaithful
    <3>3. \A q \in Slots : rows[q] # Unkeyed
      BY <1>1, <2>2 DEF Settled, Nulls
    <3>4. \A q \in Slots : rows'[q] # Unkeyed
      BY <1>2, <1>3, <3>1, <3>2, <3>3
    <3>5. \A m \in Migrators : picked'[m] = {}
      BY <1>1, <2>2 DEF Settled
    <3>6. \A v \in Writers : Inserting(v)' => open'[v].key \in Nat
      BY <1>1, <1>4, <2>2 DEF Settled, Inserting
    <3> QED
      BY <3>4, <3>5, <3>6 DEF Nulls
  <2> QED
    BY <2>1, <2>2 DEF Settled
<1> QED
  BY <1>5, <1>6, <1>8, <1>9, <1>10

LEMMA AbortInv == ASSUME KeyInv, NEW w \in Writers, Abort(w) PROVE KeyInv'
<1> USE DEF KeyInv
<1>1. /\ open' = [open EXCEPT ![w] = Idle]
      /\ rows' = rows /\ picked' = picked /\ moved' = moved /\ pc' = pc
      /\ hasCol' = hasCol /\ hasDefault' = hasDefault /\ notNull' = notNull
      /\ index' = index /\ next' = next
      /\ writes' = writes /\ calls' = calls
  BY DEF Abort, catalog, batch
<1>2. open'[w] = Idle /\ \A v \in Writers \ {w} : open'[v] = open[v]
  BY <1>1 DEF TypeOK
<1>3. TypeOK'
  <2>1. open' \in [Writers -> Statement \cup {Idle}]
    BY <1>1 DEF TypeOK
  <2> QED
    BY <1>1, <2>1 DEF TypeOK
<1>4. OpenFaithful'
  BY <1>1, <1>2 DEF OpenFaithful
<1>5. \A v \in Writers : Inserting(v)' => v # w /\ Inserting(v) /\ open'[v] = open[v]
  BY <1>2 DEF Inserting
<1>6. KeysFresh' /\ KeysDistinct' /\ Settled'
  BY <1>1, <1>5 DEF KeysFresh, KeysDistinct, Settled, Nulls
<1> QED
  BY <1>3, <1>4, <1>6

-----------------------------------------------------------------------------
(* Steps of the migrators. *)

\* A step that leaves rows, open statements and sequence alone.
LEMMA SameData ==
  ASSUME KeyInv, rows' = rows, open' = open, next' = next
  PROVE  OpenFaithful' /\ KeysFresh' /\ KeysDistinct'
BY DEF KeyInv, OpenFaithful, KeysFresh, KeysDistinct, Inserting

\* Catalog steps: the program counter moves, no batch is under way in them.
LEMMA CatalogInv ==
  ASSUME KeyInv, NEW m \in Migrators,
         \/ AddColumn(m) \/ SetDefault(m) \/ SetNotNull(m) \/ SetNotNullFails(m)
         \/ CreateIndex(m) \/ IndexExists(m) \/ BuildEnds(m) \/ Again(m) \/ Swap(m)
  PROVE  KeyInv'
<1> USE DEF KeyInv
<1> DEFINE Steady == /\ rows' = rows /\ open' = open /\ next' = next
                     /\ picked' = picked /\ moved' = moved
                     /\ writes' = writes
           Goes == /\ \E to \in Ended \cup {"addColumn", "setDefault", "pick", "apply",
                                           "setNotNull", "createIndex", "build"} :
                         pc' = [pc EXCEPT ![m] = to]
                   /\ pc[m] # "apply"
<1>1. ASSUME Steady, Goes, hasCol' \in BOOLEAN, hasDefault' \in BOOLEAN,
             notNull' \in BOOLEAN, index' \in {"none", "invalid", "valid"},
             calls' \in 0..MaxCalls, Settled'
      PROVE  KeyInv'
  <2>1. picked[m] = {}
    BY <1>1 DEF TypeOK
  <2>2. pc' \in [Migrators -> Ended \cup {"addColumn", "setDefault", "pick", "apply",
                                          "setNotNull", "createIndex", "build"}]
    BY <1>1 DEF TypeOK
  <2>3. \A n \in Migrators : picked[n] # {} => pc'[n] = "apply"
    BY <1>1, <2>1 DEF TypeOK
  <2>4. TypeOK'
    BY <1>1, <2>2, <2>3 DEF TypeOK
  <2>5. OpenFaithful' /\ KeysFresh' /\ KeysDistinct'
    BY <1>1, SameData
  <2> QED
    BY <1>1, <2>4, <2>5
<1>2. ASSUME Steady, notNull' = notNull, hasDefault' => hasDefault
      PROVE  Settled'
  BY <1>2 DEF Settled, Nulls, Inserting
<1>3. /\ hasCol \in BOOLEAN /\ hasDefault \in BOOLEAN /\ notNull \in BOOLEAN
      /\ index \in {"none", "invalid", "valid"} /\ calls \in 0..MaxCalls
  BY DEF TypeOK
<1> USE DEF Go, Ended, batch, app
<1>4. CASE AddColumn(m)
  <2>1. Steady /\ Goes /\ notNull' = notNull /\ hasDefault' = hasDefault
        /\ hasCol' \in BOOLEAN /\ index' = index /\ calls' = calls
    BY <1>4 DEF AddColumn
  <2> QED
    BY <1>1, <1>2, <1>3, <2>1
<1>5. CASE SetDefault(m)
  <2>1. Steady /\ Goes /\ notNull' = notNull /\ hasDefault' \in BOOLEAN
        /\ hasCol' = hasCol /\ index' = index /\ calls' = calls
    BY <1>5 DEF SetDefault
  <2>2. \A w \in Writers : open[w] = Idle
    BY <1>5 DEF SetDefault, Quiet
  <2>3. Settled'
    BY <2>1, <2>2 DEF Settled, Nulls, Inserting
  <2> QED
    BY <1>1, <1>3, <2>1, <2>3
<1>6. CASE SetNotNull(m)
  <2>1. Steady /\ Goes /\ notNull' \in BOOLEAN /\ hasDefault' = hasDefault
        /\ hasCol' = hasCol /\ index' = index /\ calls' = calls /\ Nulls = {}
    BY <1>6 DEF SetNotNull
  <2>2. /\ \A w \in Writers : open[w] = Idle
        /\ \A n \in Migrators : pc[n] # "apply"
    BY <1>6 DEF SetNotNull, Quiet
  <2>3. \A n \in Migrators : picked[n] = {}
    BY <2>2 DEF TypeOK
  <2>4. Settled'
    BY <2>1, <2>2, <2>3 DEF Settled, Nulls, Inserting
  <2> QED
    BY <1>1, <1>3, <2>1, <2>4
<1>7. CASE SetNotNullFails(m)
  <2>1. Steady /\ Goes /\ notNull' = notNull /\ hasDefault' = hasDefault
        /\ hasCol' = hasCol /\ index' = index /\ calls' = calls
    BY <1>7 DEF SetNotNullFails, catalog
  <2> QED
    BY <1>1, <1>2, <1>3, <2>1
<1>8. CASE CreateIndex(m)
  <2>1. Steady /\ Goes /\ notNull' = notNull /\ hasDefault' = hasDefault
        /\ hasCol' = hasCol /\ index' = "invalid" /\ calls' = calls
    BY <1>8 DEF CreateIndex
  <2> QED
    BY <1>1, <1>2, <1>3, <2>1
<1>9. CASE IndexExists(m)
  <2>1. Steady /\ Goes /\ notNull' = notNull /\ hasDefault' = hasDefault
        /\ hasCol' = hasCol /\ index' = index /\ calls' = calls
    BY <1>9 DEF IndexExists, catalog
  <2> QED
    BY <1>1, <1>2, <1>3, <2>1
<1>10. CASE BuildEnds(m)
  <2>1. Steady /\ Goes /\ notNull' = notNull /\ hasDefault' = hasDefault
        /\ hasCol' = hasCol /\ index' = "valid" /\ calls' = calls
    BY <1>10 DEF BuildEnds
  <2> QED
    BY <1>1, <1>2, <1>3, <2>1
<1>11. CASE Again(m)
  <2>1. Steady /\ Goes /\ notNull' = notNull /\ hasDefault' = hasDefault
        /\ hasCol' = hasCol /\ index' = index
    BY <1>11 DEF Again, catalog
  <2>2. calls' \in 0..MaxCalls
    BY <1>11, <1>3, BoundAssumption DEF Again
  <2> QED
    BY <1>1, <1>2, <1>3, <2>1, <2>2
<1>12. CASE Swap(m)
  <2>1. Steady /\ Goes /\ notNull' = notNull /\ hasDefault' = FALSE
        /\ hasCol' = hasCol /\ index' = "valid" /\ calls' = calls
    BY <1>12 DEF Swap
  <2> QED
    BY <1>1, <1>2, <1>3, <2>1
<1> QED
  BY <1>4, <1>5, <1>6, <1>7, <1>8, <1>9, <1>10, <1>11, <1>12

LEMMA PickInv == ASSUME KeyInv, NEW m \in Migrators, Pick(m) PROVE KeyInv'
<1> USE DEF KeyInv
<1>1. PICK s \in SUBSET Nulls : picked' = [picked EXCEPT ![m] = s]
  BY DEF Pick
<1>2. /\ rows' = rows /\ open' = open /\ next' = next /\ moved' = moved
      /\ hasCol' = hasCol /\ hasDefault' = hasDefault /\ notNull' = notNull
      /\ index' = index /\ writes' = writes /\ calls' = calls
      /\ pc[m] = "pick" /\ pc' = [pc EXCEPT ![m] = "apply"]
  BY DEF Pick, Go, catalog, app
<1>3. picked[m] = {} /\ moved[m] = {}
  BY <1>2 DEF TypeOK
<1>4. s \in SUBSET Slots
  BY DEF Nulls
<1>5. TypeOK'
  <2>1. picked' \in [Migrators -> SUBSET Slots]
    BY <1>1, <1>4 DEF TypeOK
  <2>2. pc' \in [Migrators -> Ended \cup {"addColumn", "setDefault", "pick", "apply",
                                          "setNotNull", "createIndex", "build"}]
    BY <1>2 DEF TypeOK
  <2>3. \A n \in Migrators : /\ picked'[n] # {} => pc'[n] = "apply"
                            /\ moved'[n] \subseteq picked'[n]
    BY <1>1, <1>2, <1>3 DEF TypeOK
  <2> QED
    BY <1>2, <2>1, <2>2, <2>3 DEF TypeOK
<1>6. Settled'
  <2>1. notNull => s = {}
    BY DEF Settled
  <2>2. notNull => \A n \in Migrators : picked'[n] = {}
    BY <1>1, <2>1 DEF Settled, TypeOK
  <2> QED
    BY <1>2, <2>2 DEF Settled, Nulls, Inserting
<1> QED
  BY <1>2, <1>5, <1>6, SameData

LEMMA ApplyInv == ASSUME KeyInv, NEW m \in Migrators, Apply(m) PROVE KeyInv'
<1> USE DEF KeyInv
<1>1. PICK again \in SUBSET moved[m] :
        LET hit == (picked[m] \ moved[m]) \cup again IN
        /\ rows' = Numbered(hit)
        /\ next' = next + Cardinality(hit)
        /\ Found(m, hit)
        /\ picked' = [picked EXCEPT ![m] = {}]
        /\ moved' = [n \in Migrators |->
                       IF n = m THEN {} ELSE moved[n] \cup (hit \cap picked[n])]
  BY DEF Apply
<1> DEFINE hit == (picked[m] \ moved[m]) \cup again
<1>2. /\ hit \in SUBSET Slots /\ hit \subseteq picked[m]
  BY DEF TypeOK
<1>3. /\ open' = open
      /\ hasCol' = hasCol /\ hasDefault' = hasDefault /\ notNull' = notNull
      /\ index' = index /\ writes' = writes /\ calls' = calls
      /\ \A s \in picked[m] : Free(s)
  BY DEF Apply, catalog, app
<1> HIDE DEF hit
<1>4. /\ rows' = Numbered(hit) /\ next' = next + Cardinality(hit)
      /\ Found(m, hit)
      /\ picked' = [picked EXCEPT ![m] = {}]
      /\ moved' = [n \in Migrators |->
                     IF n = m THEN {} ELSE moved[n] \cup (hit \cap picked[n])]
  BY <1>1 DEF hit
<1>5. /\ Cardinality(hit) \in Nat
      /\ \A q \in Slots : q \notin hit => rows'[q] = rows[q]
      /\ \A q \in hit : /\ rows'[q] \in Nat
                        /\ next <= rows'[q] /\ rows'[q] < next'
      /\ \A q, r \in hit : q # r => rows'[q] # rows'[r]
  BY <1>2, <1>4, NumberedKeys
<1>6. next \in Nat \ {0} /\ next' \in Nat \ {0} /\ next <= next'
  BY <1>4, <1>5 DEF TypeOK
<1>7. \A w \in Writers : open[w] # Idle => open[w].slot \notin hit
  BY <1>2, <1>3 DEF Free
<1>8. TypeOK'
  <2>1. \A q \in Slots : rows'[q] \in Nat \cup {Absent, Unkeyed}
    BY <1>5 DEF TypeOK
  <2>2. rows' \in [Slots -> Nat \cup {Absent, Unkeyed}]
    BY <1>4, <2>1 DEF Numbered
  <2>3. pc' \in [Migrators -> Ended \cup {"addColumn", "setDefault", "pick", "apply",
                                          "setNotNull", "createIndex", "build"}]
    BY <1>4 DEF Found, TypeOK
  <2>4. /\ picked' \in [Migrators -> SUBSET Slots]
        /\ moved' \in [Migrators -> SUBSET Slots]
    BY <1>4 DEF TypeOK
  <2>5. \A n \in Migrators : /\ picked'[n] # {} => pc'[n] = "apply"
                            /\ moved'[n] \subseteq picked'[n]
    <3> SUFFICES ASSUME NEW n \in Migrators
                 PROVE  /\ picked'[n] # {} => pc'[n] = "apply"
                        /\ moved'[n] \subseteq picked'[n]
      OBVIOUS
    <3>1. CASE n = m
      BY <1>4, <3>1 DEF TypeOK
    <3>2. CASE n # m
      BY <1>4, <3>2 DEF TypeOK, Found
    <3> QED
      BY <3>1, <3>2
  <2> QED
    BY <1>3, <1>6, <2>2, <2>3, <2>4, <2>5 DEF TypeOK
<1>9. \A w \in Writers : open[w] # Idle =>
         open[w].slot \in Slots /\ rows'[open[w].slot] = rows[open[w].slot]
  BY <1>5, <1>7 DEF TypeOK, Statement
<1>10. OpenFaithful'
  BY <1>3, <1>9 DEF OpenFaithful
<1>11. KeysFresh'
  <2>1. \A q \in Slots : rows'[q] \in Nat => rows'[q] < next'
    BY <1>5, <1>6 DEF KeysFresh
  <2>2. ASSUME NEW w \in Writers, Inserting(w), open[w].key \in Nat
        PROVE  /\ open[w].key < next'
               /\ \A q \in Slots : rows'[q] # open[w].key
    <3>1. open[w].key < next
      BY <2>2 DEF KeysFresh
    <3>2. \A q \in hit : rows'[q] # open[w].key
      BY <1>5, <1>6, <2>2, <3>1
    <3>3. \A q \in Slots \ hit : rows'[q] # open[w].key
      BY <1>5, <2>2 DEF KeysFresh
    <3>4. open[w].key < next'
      BY <1>6, <2>2, <3>1
    <3> QED
      BY <3>2, <3>3, <3>4
  <2> QED
    BY <1>3, <2>1, <2>2 DEF KeysFresh, Inserting
<1>12. KeysDistinct'
  <2> SUFFICES ASSUME NEW s \in Slots, NEW q \in Slots, s # q, rows'[s] \in Nat
               PROVE  rows'[s] # rows'[q]
    BY DEF KeysDistinct
  <2>1. CASE s \in hit /\ q \in hit
    BY <1>5, <2>1
  <2>2. CASE s \in hit /\ q \notin hit
    <3>1. rows'[q] = rows[q] /\ (rows[q] \in Nat => rows[q] < next)
      BY <1>5, <2>2 DEF KeysFresh
    <3>2. next <= rows'[s]
      BY <1>5, <2>2
    <3> SUFFICES ASSUME rows'[s] = rows'[q] PROVE FALSE
      OBVIOUS
    <3>3. rows'[s] < next
      BY <3>1
    <3> QED
      BY <1>6, <3>2, <3>3
  <2>3. CASE s \notin hit /\ q \in hit
    <3>1. rows'[s] = rows[s] /\ rows[s] < next
      BY <1>5, <2>3 DEF KeysFresh
    <3>2. next <= rows'[q]
      BY <1>5, <2>3
    <3> QED
      BY <1>6, <3>1, <3>2
  <2>4. CASE s \notin hit /\ q \notin hit
    BY <1>5, <2>4 DEF KeysDistinct
  <2> QED
    BY <2>1, <2>2, <2>3, <2>4
<1>13. Settled'
  <2>1. Nulls' \subseteq Nulls
    BY <1>5 DEF Nulls
  <2>2. notNull => \A n \in Migrators : picked'[n] = {}
    BY <1>4 DEF Settled, TypeOK
  <2> QED
    BY <1>3, <2>1, <2>2 DEF Settled, Inserting
<1> QED
  BY <1>8, <1>10, <1>11, <1>12, <1>13

LEMMA FailInv == ASSUME KeyInv, NEW m \in Migrators, Fail(m) PROVE KeyInv'
<1> USE DEF KeyInv
<1>1. /\ rows' = rows /\ open' = open /\ next' = next
      /\ hasCol' = hasCol /\ hasDefault' = hasDefault /\ notNull' = notNull
      /\ index' = index /\ writes' = writes /\ calls' = calls
      /\ pc' = [pc EXCEPT ![m] = "failed"]
      /\ picked' = [picked EXCEPT ![m] = {}] /\ moved' = [moved EXCEPT ![m] = {}]
  BY DEF Fail, catalog, app
<1>2. TypeOK'
  <2>1. \A n \in Migrators : /\ picked'[n] # {} => pc'[n] = "apply"
                            /\ moved'[n] \subseteq picked'[n]
    BY <1>1 DEF TypeOK
  <2>2. /\ picked' \in [Migrators -> SUBSET Slots]
        /\ moved' \in [Migrators -> SUBSET Slots]
    BY <1>1 DEF TypeOK
  <2> QED
    BY <1>1, <2>1, <2>2 DEF TypeOK, Ended
<1>3. Settled'
  BY <1>1 DEF Settled, Nulls, Inserting, TypeOK
<1> QED
  BY <1>1, <1>2, <1>3, SameData

-----------------------------------------------------------------------------
LEMMA StepInv == KeyInv /\ [Next]_vars => KeyInv'
<1> SUFFICES ASSUME KeyInv, [Next]_vars PROVE KeyInv'
  OBVIOUS
<1>1. ASSUME NEW w \in Writers, Write(w) \/ Commit(w) \/ Abort(w) PROVE KeyInv'
  BY <1>1, WriteInv, CommitInv, AbortInv
<1>2. ASSUME NEW m \in Migrators, Step(m) \/ Fail(m) \/ Again(m) \/ Swap(m)
      PROVE  KeyInv'
  BY <1>2, CatalogInv, PickInv, ApplyInv, FailInv DEF Step
<1>3. CASE UNCHANGED vars
  <2>1. /\ rows' = rows /\ open' = open /\ next' = next /\ moved' = moved
        /\ picked' = picked /\ hasCol' = hasCol /\ hasDefault' = hasDefault
        /\ notNull' = notNull /\ index' = index
        /\ writes' = writes /\ calls' = calls /\ pc' = pc
    BY <1>3 DEF vars, catalog, batch, app
  <2> QED
    BY <2>1, SameData DEF KeyInv, TypeOK, Settled, Nulls, Inserting
<1> QED
  BY <1>1, <1>2, <1>3 DEF Next, Finished

\* The inductive invariant holds in every behaviour.
THEOREM KeyInvHolds == Spec => []KeyInv
BY InitInv, StepInv, PTL DEF Spec

\* No two rows ever have the same key, however many migrators fill and however
\* many INSERTs take the default meanwhile.
THEOREM KeysAreDistinct == Spec => []KeysDistinct
<1>1. KeyInv => KeysDistinct
  BY DEF KeyInv
<1> QED
  BY <1>1, KeyInvHolds, PTL

\* Which steps write rows.
LEMMA RowSteps ==
  [Next]_vars => \/ rows' = rows
                 \/ \E w \in Writers : Commit(w)
                 \/ \E m \in Migrators : Apply(m)
BY DEF Next, vars, Write, Abort, Step, AddColumn, SetDefault, Pick, SetNotNull,
       SetNotNullFails, CreateIndex, IndexExists, BuildEnds, Fail, Again, Swap, Finished

\* The application moves keys only with their rows, and a fill under way when
\* the column becomes NOT NULL does not exist.
LEMMA StableStep ==
  ASSUME KeyInv, [Next]_vars, notNull, NEW s \in Slots, rows[s] # Absent, rows'[s] # Absent
  PROVE  rows'[s] = rows[s]
<1>1. ASSUME NEW w \in Writers, Commit(w) PROVE rows'[s] = rows[s]
  <2>1. /\ open[w] \in Statement /\ open[w] # Idle
        /\ rows' = [rows EXCEPT ![open[w].slot] =
                      IF open[w].op = "delete" THEN Absent ELSE open[w].key]
    BY <1>1 DEF Commit, KeyInv, TypeOK
  <2>2. CASE s # open[w].slot
    BY <2>1, <2>2 DEF KeyInv, TypeOK
  <2>3. CASE s = open[w].slot
    <3>1. open[w].op # "delete" /\ rows'[s] = open[w].key
      BY <2>1, <2>3 DEF KeyInv, TypeOK
    <3>2. open[w].op # "insert" /\ rows[s] = open[w].key
      BY <2>1, <2>3 DEF KeyInv, OpenFaithful
    <3> QED
      BY <3>1, <3>2
  <2> QED
    BY <2>2, <2>3
<1>2. ASSUME NEW m \in Migrators, Apply(m) PROVE rows'[s] = rows[s]
  <2>1. picked[m] = {} /\ moved[m] = {}
    BY DEF KeyInv, Settled, TypeOK
  <2>2. rows' = Numbered({})
    BY <1>2, <2>1 DEF Apply
  <2> QED
    BY <2>2 DEF Numbered
<1>3. CASE rows' = rows
  BY <1>3
<1> QED
  BY <1>1, <1>2, <1>3, RowSteps

\* Once the column is NOT NULL a row keeps its key for as long as it lives.
THEOREM KeysAreStable == Spec => KeyStable
<1>1. KeyInv /\ [Next]_vars =>
        (notNull => \A s \in Slots : rows[s] # Absent /\ rows'[s] # Absent =>
                                       rows'[s] = rows[s])
  BY StableStep
<1> QED
  BY <1>1, KeyInvHolds, PTL DEF Spec, KeyStable

LEMMA ShrinkStep ==
  ASSUME KeyInv, [Next]_vars, hasDefault, NEW s \in Slots, rows'[s] = Unkeyed
  PROVE  rows[s] = Unkeyed
<1>1. ASSUME NEW w \in Writers, Commit(w) PROVE rows[s] = Unkeyed
  <2>1. /\ open[w] \in Statement /\ open[w] # Idle
        /\ rows' = [rows EXCEPT ![open[w].slot] =
                      IF open[w].op = "delete" THEN Absent ELSE open[w].key]
    BY <1>1 DEF Commit, KeyInv, TypeOK
  <2>2. CASE s # open[w].slot
    BY <2>1, <2>2 DEF KeyInv, TypeOK
  <2>3. CASE s = open[w].slot
    <3>1. open[w].op # "delete" /\ open[w].key = Unkeyed
      BY <2>1, <2>3 DEF KeyInv, TypeOK
    <3>2. open[w].op # "insert"
      BY <2>1, <3>1 DEF KeyInv, Settled, Inserting
    <3>3. rows[s] = open[w].key
      BY <2>1, <2>3, <3>2 DEF KeyInv, OpenFaithful
    <3> QED
      BY <3>1, <3>3
  <2> QED
    BY <2>2, <2>3
<1>2. ASSUME NEW m \in Migrators, Apply(m) PROVE rows[s] = Unkeyed
  <2>1. PICK hit \in SUBSET Slots : rows' = Numbered(hit)
    BY <1>2 DEF Apply, KeyInv, TypeOK
  <2>2. s \notin hit
    BY <2>1, NumberedKeys DEF KeyInv
  <2> QED
    BY <2>1, <2>2 DEF Numbered
<1> QED
  BY <1>1, <1>2, RowSteps

\* While the default is set no row without a key appears, neither from an INSERT
\* that began before nor from the fill.
THEOREM NullsOnlyShrink == Spec => NullsShrink
<1>1. KeyInv /\ [Next]_vars => (hasDefault => Nulls' \subseteq Nulls)
  BY ShrinkStep DEF Nulls
<1> QED
  BY <1>1, KeyInvHolds, PTL DEF Spec, NullsShrink

\* Type correctness.
THEOREM TypeCorrect == Spec => []TypeOK
<1>1. KeyInv => TypeOK
  BY DEF KeyInv
<1> QED
  BY <1>1, KeyInvHolds, PTL
=============================================================================
