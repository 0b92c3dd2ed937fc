----------------------------- MODULE RowChanges -----------------------------
(***************************************************************************)
(* The data the rewrite moves: a table is a function from primary keys to  *)
(* row payloads, a change is what one application statement does to it.    *)
(* PostgreSQL and the application are not part of the repository; they are *)
(* modelled from the statements `online.rs` sends and from the writers its *)
(* tests run beside a migration.                                           *)
(***************************************************************************)
EXTENDS Integers, FiniteSets

CONSTANTS
  Keys,     \* primary key values; ordered, the chunks are key ranges
  Vals,     \* row payloads (all columns but the key)
  NoRow,    \* the table has no row under this key
  Ops       \* the kinds of statement the application issues

ASSUME KeysAssumption == Keys \subseteq Int
ASSUME NoRowAssumption == NoRow \notin Vals
ASSUME OpsAssumption == Ops \subseteq {"append", "insert", "update", "delete", "rekey"}

Table == [Keys -> Vals \cup {NoRow}]

\* One row is replaced: the row at `from` disappears and `to` gets `val`
\* (from = to unless the statement changes the primary key itself).
Change == [from : Keys, to : Keys, val : Vals \cup {NoRow}]

Present(t) == {k \in Keys : t[k] # NoRow}

Touched(c) == {c.from, c.to}

Apply(t, c) == [k \in Keys |-> IF k = c.to THEN c.val
                               ELSE IF k = c.from THEN NoRow ELSE t[k]]

SetRow(k, v) == [from |-> k, to |-> k, val |-> v]

Inserts(t) == {SetRow(k, v) : k \in Keys \ Present(t), v \in Vals}
Appends(t) == {c \in Inserts(t) : \A k \in Present(t) : k < c.to}
Updates(t) == {SetRow(k, v) : k \in Present(t), v \in Vals}
Deletes(t) == {SetRow(k, NoRow) : k \in Present(t)}
Rekeys(t)  == {[from |-> j, to |-> k, val |-> t[j]] :
                  j \in Present(t), k \in Keys \ Present(t)}

\* What a statement of the workload can do to table t: INSERT of a new key,
\* INSERT of the next key of a sequence, UPDATE, DELETE, UPDATE of the key.
ChangesOn(t) ==
  UNION { IF "insert" \in Ops THEN Inserts(t) ELSE {},
          IF "append" \in Ops THEN Appends(t) ELSE {},
          IF "update" \in Ops THEN Updates(t) ELSE {},
          IF "delete" \in Ops THEN Deletes(t) ELSE {},
          IF "rekey"  \in Ops THEN Rekeys(t)  ELSE {} }

\* ORDER BY pk LIMIT size: the last key of the first `size` keys of S.
ChunkEnds(S, size) ==
  {b \in S : LET upTo == {k \in S : k <= b}
             IN  /\ Cardinality(upTo) <= size
                 /\ Cardinality(upTo) = size \/ upTo = S}
=============================================================================
