--------------------------- MODULE ColumnarReader ---------------------------
(***************************************************************************)
(* ColumnarBatchReader (orsx/src/columnar/types.rs): next_batch_into of    *)
(* the COPY BINARY reader, which parses a byte stream that arrives in      *)
(* pieces cut anywhere, and of the row-wise reader, which is given rows.   *)
(* Both fill the caller's batch.                                           *)
(*                                                                         *)
(* Numbers on the wire are two bytes of base Base, in two's complement.    *)
(* A call may be cancelled where it waits (its future is dropped), and the *)
(* caller may call again, also after an error.                             *)
(***************************************************************************)
EXTENDS ColumnarBatch

CONSTANTS
  Base,          \* bytes are 0..Base-1
  Signature,     \* of the COPY header
  MaxExtension,  \* max_header_extension_bytes
  MaxField,      \* max_field_bytes
  MinCompact,    \* MIN_COMPACT
  Epoch,         \* UNIX_TO_PG_EPOCH_MICROS
  Extensions,    \* header extensions the server may send
  Results,       \* what the query may return: rows of cells, Null or bytes
  Modes,         \* ways to choose and configure the reader: kind is "copy", "row" or
                 \* "auto", utf8 is validate_utf8, count is validate_column_count
  Unreadable,    \* what no cell is read as
  MaxCalls       \* bound: calls of next_batch_into

Byte == 0..(Base - 1)

ASSUME WireAssumption ==
  /\ Base \in Nat \ {0, 1} /\ Signature \in Seq(Byte)
  /\ MaxExtension \in Nat /\ MaxField \in Nat /\ MinCompact \in Nat
  /\ Epoch \in Nat
  /\ MaxCalls \in Nat /\ Null \notin Seq(Byte)

VARIABLES
  mode,       \* the reader chosen, "copy" or "row", and its configuration
  result,     \* history: the rows of the query
  wire,       \* COPY: bytes still to come
  rowStream,  \* row-wise: rows still to come
  eof,        \* the stream has ended, which leaves the connection ready for a query
  buf, pos,   \* COPY: what has arrived, and how much of it is parsed
  header,     \* header_parsed
  preflight,  \* preflight_done
  done,
  pc,         \* what is parsed next; "idle" between calls
  col,        \* the column a cell goes to
  len,        \* length of the field or of the header extension
  row,        \* row-wise: the row being stored
  batch,      \* the caller's
  returned,   \* what the last call returned: "ok", "error" or "cancelled"
  delivered,  \* history: rows of the batches returned with Ok
  spoiled,    \* history: some call did not return Ok
  calls       \* calls so far (bounded by MaxCalls)

source == <<wire, rowStream, eof>>
buffer == <<buf, pos>>
flags == <<header, preflight, done>>
place == <<col, len, row>>
history == <<result, mode, calls>>
vars == <<source, buffer, flags, pc, place, batch, returned, delivered, spoiled, history>>

-----------------------------------------------------------------------------
(* The wire. *)

MaxInt == (Base * Base) \div 2 - 1
MinInt == -MaxInt - 1

\* A result's rows have the same columns; the numbers on the wire are enough
\* for their count and for the lengths of what is sent.
ASSUME ResultAssumption ==
  /\ Results \subseteq Seq(Seq(Seq(Byte) \cup {Null}))
  /\ \A rows \in Results : \A r \in 1..Len(rows) :
       /\ Len(rows[r]) = Len(rows[1]) /\ Len(rows[r]) <= MaxInt
       /\ \A n \in 1..Len(rows[r]) : rows[r][n] # Null => Len(rows[r][n]) <= MaxInt
ASSUME ExtensionAssumption ==
  Extensions \subseteq Seq(Byte) /\ \A x \in Extensions : Len(x) <= MaxInt
ASSUME ModeAssumption == \A m \in Modes :
  /\ m.kind \in {"copy", "row", "auto"} /\ m.utf8 \in BOOLEAN /\ m.count \in BOOLEAN
  /\ m.kind = "auto" => m.copyMin \in Nat

FromBytes(bytes) ==
  LET u == bytes[1] * Base + bytes[2] IN IF u > MaxInt THEN u - Base * Base ELSE u

ToBytes(i) ==
  LET u == IF i < 0 THEN i + Base * Base ELSE i IN <<u \div Base, u % Base>>

\* What the server sends.
Field(cell) == IF cell = Null THEN ToBytes(-1) ELSE ToBytes(Len(cell)) \o cell
Tuple(cells) ==
  ToBytes(Len(cells)) \o FlattenSeq([n \in 1..Len(cells) |-> Field(cells[n])])
Stream(rows, extension) ==
  Signature \o ToBytes(0) \o ToBytes(Len(extension)) \o extension
    \o FlattenSeq([r \in 1..Len(rows) |-> Tuple(rows[r])]) \o ToBytes(-1)

IsUtf8(bytes) == \A i \in DOMAIN bytes : bytes[i] # Base - 1

\* Whether a field fits its column, by what the COPY reader looks at and by
\* what try_get accepts.
FitsTimestamp(i) == i \notin {MinInt, MaxInt} /\ i + Epoch <= MaxInt
Fits(ty, bytes, validate) ==
  CASE ty = "fixed" -> Len(bytes) = 2
    [] ty = "timestamp" -> Len(bytes) = 2 /\ FitsTimestamp(FromBytes(bytes))
    [] ty = "text" -> validate => IsUtf8(bytes)
    [] ty = "json" -> bytes # <<>> /\ bytes[1] = 1 /\ (validate => IsUtf8(Tail(bytes)))

\* What a cell becomes in the batch.
Value(ty, bytes) ==
  CASE ty = "fixed" -> FromBytes(bytes)
    [] ty = "timestamp" -> FromBytes(bytes) + Epoch
    [] ty = "text" -> bytes
    [] ty = "json" -> Tail(bytes)

\* ColumnarReaderMode: forced, or chosen by the number of columns and rows.
Chosen(m) ==
  CASE m.kind # "auto" -> m.kind
    [] m.kind = "auto" /\ Len(Schema) >= m.copyMin -> "copy"
    [] m.kind = "auto" /\ Len(Schema) < m.copyMin ->
         IF m.expected >= m.rowsMin /\ Len(Schema) <= m.rowWiseMax THEN "row" ELSE "copy"

-----------------------------------------------------------------------------
(* Calls. *)

Init ==
  /\ result \in Results
  /\ mode \in {[reader |-> Chosen(m), utf8 |-> m.utf8, count |-> m.count] : m \in Modes}
  /\ wire \in IF mode.reader = "copy" THEN {Stream(result, x) : x \in Extensions} ELSE {<<>>}
  /\ rowStream = IF mode.reader = "row" THEN result ELSE <<>>
  /\ eof = FALSE
  /\ buf = <<>> /\ pos = 0
  /\ header = FALSE /\ preflight = FALSE /\ done = FALSE
  /\ pc = "idle" /\ col = 1 /\ len = 0 /\ row = <<>>
  /\ batch = NewBatch /\ returned = "ok"
  /\ delivered = <<>> /\ spoiled = FALSE /\ calls = 0

Call ==
  /\ pc = "idle" /\ calls < MaxCalls
  /\ calls' = calls + 1
  /\ batch' = Prepare(batch)
  /\ pc' = CASE done -> "idle"
             [] ~done /\ mode.reader = "row" -> "fetch"
             [] ~done /\ mode.reader = "copy" -> IF header THEN "count" ELSE "signature"
  /\ returned' = IF done THEN "ok" ELSE returned
  /\ UNCHANGED <<source, buffer, flags, place, delivered, spoiled, result, mode>>

\* The call returns; b is what the caller finds in its batch.
Return(how, b) ==
  /\ pc' = "idle" /\ col' = 1 /\ len' = 0 /\ row' = <<>>
  /\ batch' = b /\ returned' = how
  /\ spoiled' = (spoiled \/ how # "ok")
  /\ delivered' = IF spoiled' THEN delivered ELSE delivered \o RowsOf(b)

Go(to) == pc' = to /\ UNCHANGED <<returned, delivered, spoiled>>

\* A cell is in its column: on to the next one, the next row or the end.
Stored(b, nextCell, nextRow) ==
  IF col < Len(Schema)
  THEN Go(nextCell) /\ batch' = b /\ col' = col + 1 /\ UNCHANGED <<len, row>>
  ELSE IF b.rows + 1 < Capacity
  THEN Go(nextRow) /\ batch' = EndRow(b) /\ col' = 1 /\ len' = 0 /\ row' = <<>>
  ELSE Return("ok", EndRow(b))

-----------------------------------------------------------------------------
(* The COPY reader. *)

Parsing == {"signature", "flags", "extension", "skip", "count", "length", "value"}

Needed == CASE pc = "signature" -> Len(Signature)
            [] pc \in {"skip", "value"} -> len
            [] OTHER -> 2

Unparsed == Len(buf) - pos

\* ensure_available has to wait for the stream.
Starving == pc \in Parsing /\ Unparsed < Needed

Receive ==
  /\ Starving
  /\ \E n \in 1..Len(wire) :
        /\ buf' = buf \o SubSeq(wire, 1, n)
        /\ wire' = SubSeq(wire, n + 1, Len(wire))
  /\ UNCHANGED <<pos, rowStream, eof, flags, pc, place, batch, returned, delivered, spoiled, history>>

\* MUTANT of EndOfStream: the end is taken for an empty piece.
EndOfStreamIgnored ==
  /\ Starving /\ wire = <<>>
  /\ eof' = TRUE
  /\ UNCHANGED <<wire, rowStream, buffer, flags, pc, place, batch, returned, delivered, spoiled, history>>

\* "unexpected end of COPY stream"
EndOfStream ==
  /\ Starving /\ wire = <<>>
  /\ eof' = TRUE
  /\ Return("error", batch)
  /\ UNCHANGED <<wire, rowStream, buffer, flags, history>>

\* MUTANT of Compact: the position is not moved with the bytes.
CompactBytesOnly(p) ==
  /\ pos' = p
  /\ buf' = IF p < MinCompact /\ 2 * p < Len(buf) THEN buf ELSE SubSeq(buf, p + 1, Len(buf))

\* compact_if_needed, which the next read begins with.
Compact(p) ==
  IF p < MinCompact /\ 2 * p < Len(buf) THEN pos' = p /\ UNCHANGED buf
  ELSE pos' = 0 /\ buf' = SubSeq(buf, p + 1, Len(buf))

\* A read that has all its bytes takes them.
Takes(from) ==
  /\ pc = from /\ Unparsed >= Needed
  /\ Compact(pos + Needed)
  /\ UNCHANGED <<source, history>>

Taken == SubSeq(buf, pos + 1, pos + Needed)

Number == FromBytes(Taken)

ReadSignature ==
  /\ Takes("signature")
  /\ IF Taken = Signature THEN Go("flags") /\ UNCHANGED <<place, batch>>
     ELSE Return("error", batch)
  /\ UNCHANGED flags

ReadFlags ==
  /\ Takes("flags")
  /\ IF Number = 0 THEN Go("extension") /\ UNCHANGED <<place, batch>>
     ELSE Return("error", batch)
  /\ UNCHANGED flags

ReadExtension ==
  /\ Takes("extension")
  /\ IF Number \in 0..MaxExtension
     THEN Go("skip") /\ len' = Number /\ UNCHANGED <<col, row, batch>>
     ELSE Return("error", batch)
  /\ UNCHANGED flags

Skip ==
  /\ Takes("skip")
  /\ Go("count")
  /\ header' = TRUE /\ len' = 0
  /\ UNCHANGED <<preflight, done, col, row, batch>>

\* MUTANT of ReadCount: the columns are not counted.
ReadCountUnchecked ==
  /\ Takes("count")
  /\ IF Number = -1 THEN Go("drain") /\ done' = TRUE ELSE Go("length") /\ UNCHANGED done
  /\ UNCHANGED <<place, batch, header, preflight>>

\* -1 is the trailer.
ReadCount ==
  /\ Takes("count")
  /\ done' = (Number = -1)
  /\ IF Number = -1 THEN Go("drain") /\ UNCHANGED <<place, batch>>
     ELSE IF Number = Len(Schema) THEN Go("length") /\ UNCHANGED <<place, batch>>
     ELSE Return("error", batch)
  /\ UNCHANGED <<header, preflight>>

\* -1 is NULL.
ReadLength ==
  /\ Takes("length")
  /\ LET present == SetValidity(batch, col, TRUE) IN
     IF Number = -1 THEN Stored(PushNull(batch, col), "length", "count")
     ELSE IF Number < -1 \/ Number > MaxField THEN Return("error", batch)
     ELSE IF ~IsVar(Schema[col]) /\ Number # 2 THEN Return("error", present)
     ELSE Go("value") /\ len' = Number /\ batch' = present /\ UNCHANGED <<col, row>>
  /\ UNCHANGED flags

Push(b, n, v, PushBytes(_, _, _)) ==
  IF IsVar(Schema[n]) THEN PushBytes(b, n, v) ELSE PushFixed(b, n, v)

Accepted(ty, bytes, validate) ==
  Fits(ty, bytes, validate) /\ (IsVar(ty) => ~TooLarge(batch, col, Value(ty, bytes)))

ReadValue ==
  /\ Takes("value")
  /\ LET ty == Schema[col] IN
     IF Accepted(ty, Taken, mode.utf8)
     THEN Stored(Push(batch, col, Value(ty, Taken), AppendVar), "length", "count")
     ELSE Return("error", batch)
  /\ UNCHANGED flags

\* MUTANT of Drain: the trailer is taken for the end of the stream.
DrainNothing ==
  /\ pc = "drain"
  /\ Return("ok", batch)
  /\ UNCHANGED <<source, buffer, flags, history>>

\* drain_copy_out_to_eof
Drain ==
  /\ pc = "drain"
  /\ IF wire = <<>> THEN Return("ok", batch) /\ eof' = TRUE /\ UNCHANGED wire
     ELSE /\ \E n \in 1..Len(wire) : wire' = SubSeq(wire, n + 1, Len(wire))
          /\ Go("drain") /\ UNCHANGED <<eof, place, batch>>
  /\ UNCHANGED <<rowStream, buffer, flags, history>>

-----------------------------------------------------------------------------
(* The row-wise reader. *)

\* run_preflight on the first row, by its number of columns.
PreflightFails(cells) == mode.count /\ ~preflight /\ Len(cells) # Len(Schema)

FetchRow ==
  /\ pc = "fetch" /\ rowStream # <<>>
  /\ rowStream' = Tail(rowStream)
  /\ IF PreflightFails(Head(rowStream)) THEN Return("error", batch) /\ UNCHANGED preflight
     ELSE /\ Go("cell") /\ row' = Head(rowStream) /\ preflight' = TRUE
          /\ UNCHANGED <<col, len, batch>>
  /\ UNCHANGED <<wire, eof, buffer, header, done, history>>

RowsEnd ==
  /\ pc = "fetch" /\ rowStream = <<>>
  /\ done' = TRUE /\ eof' = TRUE
  /\ Return("ok", batch)
  /\ UNCHANGED <<wire, rowStream, buffer, header, preflight, history>>

\* try_get and push.
StoreCell ==
  /\ pc = "cell"
  /\ IF col > Len(row) THEN Return("error", batch)
     ELSE IF row[col] = Null THEN Stored(PushNull(batch, col), "cell", "fetch")
     ELSE IF Accepted(Schema[col], row[col], TRUE)
     THEN Stored(Push(batch, col, Value(Schema[col], row[col]), PushVar), "cell", "fetch")
     ELSE Return("error", IF Fits(Schema[col], row[col], TRUE)
                          THEN SetValidity(batch, col, TRUE) ELSE batch)
  /\ UNCHANGED <<source, buffer, flags, history>>

-----------------------------------------------------------------------------
\* Where a call awaits the server.
Awaiting == Starving \/ pc \in {"drain", "fetch"}

\* The stream yields an error, and nothing after it.
StreamError ==
  /\ Awaiting
  /\ Return("error", batch)
  /\ wire' = <<>> /\ rowStream' = <<>> /\ UNCHANGED eof
  /\ UNCHANGED <<buffer, flags, history>>

\* The caller drops the future of the call.
Cancel ==
  /\ Awaiting
  /\ Return("cancelled", batch)
  /\ UNCHANGED <<source, buffer, flags, history>>

Advance ==
  \/ Receive \/ EndOfStream
  \/ ReadSignature \/ ReadFlags \/ ReadExtension \/ Skip
  \/ ReadCount \/ ReadLength \/ ReadValue \/ Drain
  \/ FetchRow \/ RowsEnd \/ StoreCell

Finished == pc = "idle" /\ calls = MaxCalls /\ UNCHANGED vars

Next == Call \/ Advance \/ StreamError \/ Cancel \/ Finished

Spec == Init /\ [][Next]_vars

\* The server goes on sending and the call is polled.
FairSpec == Spec /\ WF_vars(Advance)

-----------------------------------------------------------------------------
(* Properties. *)

TypeOK ==
  /\ mode \in [reader : {"copy", "row"}, utf8 : BOOLEAN, count : BOOLEAN] /\ result \in Results
  /\ wire \in Seq(Byte) /\ buf \in Seq(Byte) /\ pos \in 0..Len(buf) /\ eof \in BOOLEAN
  /\ header \in BOOLEAN /\ preflight \in BOOLEAN /\ done \in BOOLEAN /\ spoiled \in BOOLEAN
  /\ pc \in Parsing \cup {"idle", "drain", "fetch", "cell"}
  /\ col \in Columns /\ len \in Nat /\ batch.rows \in 0..Capacity
  /\ DOMAIN batch.cols = Columns
  /\ returned \in {"ok", "error", "cancelled"} /\ calls \in 0..MaxCalls

\* Whatever failed or was cancelled before, the batch can be read: every row it
\* counts is in every column, only the row under way may be ragged, and the
\* offsets of a variable column lie in its bytes.
BatchSound ==
  /\ \A n \in Columns :
        LET c == batch.cols[n]  ty == Schema[n] IN
        /\ Entries(ty, c) \in batch.rows..(batch.rows + 1)
        /\ \A m \in Columns : m < n => Entries(Schema[m], batch.cols[m]) >= Entries(ty, c)
        /\ IsVar(ty) =>
             /\ c.offsets[1] = 0
             /\ \A i \in 1..Entries(ty, c) : c.offsets[i] <= c.offsets[i + 1]
             /\ c.offsets[Len(c.offsets)] = c.total /\ c.total = Len(Coalesced(c))
             /\ c.total <= MaxTotal
  /\ pc = "idle" /\ returned = "ok" =>
        \A n \in Columns : Entries(Schema[n], batch.cols[n]) = batch.rows

\* "sqlx requires the COPY OUT stream to be fully consumed to restore the
\* connection": a call that finds the end of the rows and returns Ok has polled
\* the stream to its end, whatever failed or was cancelled before it.
StreamConsumed ==
  [][pc # "idle" /\ pc' = "idle" /\ returned' = "ok" /\ done' => eof']_vars

\* Both readers deliver the rows of the query, in order and converted, in
\* batches that are full except the last, and report the end after the last.  A
\* row-wise reader that does not check the columns reads the first of them.
Readable(cells) ==
  \/ Len(cells) = Len(Schema)
  \/ mode.reader = "row" /\ ~mode.count /\ Len(cells) > Len(Schema)
Expected(cells) ==
  [n \in Columns |-> IF ~Readable(cells) THEN Unreadable
                     ELSE IF cells[n] = Null THEN Null
                     ELSE IF Fits(Schema[n], cells[n], mode.utf8 \/ mode.reader = "row")
                     THEN Value(Schema[n], cells[n])
                     ELSE Unreadable]
Promise == INSTANCE RowDelivery WITH
  undelivered <- [r \in 1..(Len(result) - Len(delivered)) |->
                    Expected(result[Len(delivered) + r])],
  state <- IF spoiled THEN "failed" ELSE IF done /\ pc = "idle" THEN "ended" ELSE "open"
DeliversRows == Promise!Spec

\* Every call returns.
Returns == pc # "idle" ~> pc = "idle"
=============================================================================
