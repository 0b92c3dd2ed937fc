---------------------------- MODULE ColumnarBatch ----------------------------
(***************************************************************************)
(* ColumnarBatch (orsx/src/columnar/types.rs): buffers of one column, what *)
(* a push does to them, and the rows they stand for.  A fixed column keeps *)
(* a value per row, a variable one offsets into bytes, which are inline    *)
(* until they exceed a limit and in chunks from then on.                   *)
(***************************************************************************)
EXTENDS Integers, Sequences, SequencesExt

CONSTANTS
  Schema,       \* column types: "fixed", "timestamp", "text" or "json"
  Capacity,     \* row_capacity
  Null,
  InlineLimit,  \* INLINE_LIMIT
  MaxTotal      \* u32::MAX, the limit of total_len

ASSUME BatchAssumption ==
  /\ Schema \in Seq({"fixed", "timestamp", "text", "json"}) /\ Schema # <<>>
  /\ Capacity \in Nat \ {0} /\ InlineLimit \in Nat /\ MaxTotal \in Nat

Columns == 1..Len(Schema)

IsVar(ty) == ty \in {"text", "json"}

\* Reading a column: the bytes of a variable one, inline before chunks.
Coalesced(c) == c.data \o FlattenSeq(c.chunks)

Entries(ty, c) == IF IsVar(ty) THEN Len(c.offsets) - 1 ELSE Len(c.values)

Cell(ty, c, r) ==
  IF ~c.valid[r] THEN Null
  ELSE IF IsVar(ty) THEN SubSeq(Coalesced(c), c.offsets[r] + 1, c.offsets[r + 1])
  ELSE c.values[r]

RowsOf(b) == [r \in 1..b.rows |-> [n \in Columns |-> Cell(Schema[n], b.cols[n], r)]]

-----------------------------------------------------------------------------
EmptyColumn == [valid |-> [r \in 1..Capacity |-> FALSE], values |-> <<>>,
                offsets |-> <<0>>, data |-> <<>>, chunks |-> <<>>, total |-> 0]

NewBatch == [rows |-> 0, cols |-> [n \in Columns |-> EmptyColumn]]

\* prepare: a batch is reused, all its buffers are cleared.
Prepare(b) == [b EXCEPT !.rows = 0, !.cols = [n \in Columns |-> EmptyColumn]]

SetValidity(b, n, valid) == [b EXCEPT !.cols[n].valid[b.rows + 1] = valid]

\* MUTANT of PushNull: a variable column needs no entry for NULL.
PushNullNothing(b, n) ==
  IF IsVar(Schema[n]) THEN SetValidity(b, n, FALSE)
  ELSE [SetValidity(b, n, FALSE) EXCEPT !.cols[n].values = Append(@, 0)]

PushNull(b, n) ==
  IF IsVar(Schema[n])
  THEN [SetValidity(b, n, FALSE) EXCEPT !.cols[n].offsets = Append(@, b.cols[n].total)]
  ELSE [SetValidity(b, n, FALSE) EXCEPT !.cols[n].values = Append(@, 0)]

PushFixed(b, n, v) == [SetValidity(b, n, TRUE) EXCEPT !.cols[n].values = Append(@, v)]

\* total_len.checked_add
TooLarge(b, n, bytes) == b.cols[n].total + Len(bytes) > MaxTotal

Extend(b, n, bytes, data, chunks) ==
  LET total == b.cols[n].total + Len(bytes)
      present == SetValidity(b, n, TRUE).cols[n] IN
  [b EXCEPT !.cols[n] = [present EXCEPT !.total = total, !.offsets = Append(@, total),
                                        !.data = data, !.chunks = chunks]]

\* The COPY reader appends to the inline bytes, whatever their size.
AppendVar(b, n, bytes) == Extend(b, n, bytes, b.cols[n].data \o bytes, b.cols[n].chunks)

\* push_var_bytes, by which the row-wise reader appends.
PushVar(b, n, bytes) ==
  LET c == b.cols[n] IN
  IF c.chunks = <<>> /\ c.total + Len(bytes) <= InlineLimit
  THEN Extend(b, n, bytes, c.data \o bytes, <<>>)
  ELSE IF c.chunks = <<>> /\ c.data # <<>>
  THEN Extend(b, n, bytes, <<>>, <<c.data, bytes>>)
  ELSE Extend(b, n, bytes, c.data, Append(c.chunks, bytes))

\* finish_row
EndRow(b) == [b EXCEPT !.rows = @ + 1]
=============================================================================
