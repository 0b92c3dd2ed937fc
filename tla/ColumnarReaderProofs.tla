------------------------ MODULE ColumnarReaderProofs ------------------------
(***************************************************************************)
(* Proofs about ColumnarReader, for every schema, capacity, result,        *)
(* header extension and configuration, and wherever the stream is cut:     *)
(* the batch is always sound, the stream is consumed, and both readers     *)
(* implement RowDelivery.                                                  *)
(*                                                                         *)
(* Two invariants.  Inv holds whatever fails: the buffer, the flags, and a *)
(* batch whose columns before col have one cell more than the others.      *)
(* ContentInv holds until a call fails: the bytes left are what the server *)
(* has sent after what is parsed, and the batch shows the rows read.       *)
(***************************************************************************)
EXTENDS ColumnarReader, ColumnarBatchProofs

-----------------------------------------------------------------------------
(* Numbers on the wire. *)

\* There are at least two bytes.
LEMMA BaseFact == Base \in Nat \ {0, 1}
BY WireAssumption

\* The numbers of two bytes, in two's complement.
LEMMA Squares ==
  /\ Base * Base \in Nat /\ MaxInt \in Nat /\ MinInt \in Int
  /\ 2 * MaxInt + 2 <= Base * Base /\ Base * Base <= 2 * MaxInt + 3
  /\ MaxInt >= 1
<1> PICK s : s = Base * Base
  OBVIOUS
<1>1. s \in Nat /\ s >= 4
  <2>1. Base \in Nat /\ Base >= 2
    BY BaseFact
  <2>2. Base * Base >= 2 * 2
    BY <2>1
  <2> QED
    BY <2>1, <2>2
<1>2. MaxInt = s \div 2 - 1
  BY DEF MaxInt
<1>3. PICK q : q = s \div 2
  OBVIOUS
<1>4. q \in Nat /\ 2 * q <= s /\ s <= 2 * q + 1
  BY <1>1, <1>3
<1> QED
  BY <1>1, <1>2, <1>3, <1>4 DEF MinInt

\* A number is its high and its low byte.
LEMMA Digits ==
  ASSUME NEW u \in Nat, u < Base * Base
  PROVE  /\ u \div Base \in Byte /\ u % Base \in Byte
         /\ (u \div Base) * Base + (u % Base) = u
<1> PICK B : B = Base
  OBVIOUS
<1>1. B \in Nat /\ B >= 2
  BY BaseFact
<1>2. PICK q, r : q = u \div B /\ r = u % B
  OBVIOUS
<1>3. q \in Nat /\ r \in Nat /\ r < B /\ u = B * q + r
  BY <1>1, <1>2
<1>4. q < B
  <2>1. SUFFICES ASSUME q >= B PROVE FALSE
    BY <1>1, <1>3
  <2>2. B * q >= B * B
    BY <1>1, <1>3, <2>1
  <2> QED
    BY <1>1, <1>3, <2>2
<1>5. q * B = B * q
  BY <1>1, <1>3
<1>6. q \in 0..(B - 1) /\ r \in 0..(B - 1) /\ q * B + r = u
  BY <1>1, <1>3, <1>4, <1>5
<1>7. B = Base
  OBVIOUS
<1>8. q = u \div Base /\ r = u % Base /\ q * Base + r = u /\ q \in 0..(Base - 1) /\ r \in 0..(Base - 1)
  BY <1>2, <1>6, <1>7
<1>9. q \in Byte /\ r \in Byte
  BY ONLY <1>8 DEF Byte
<1> QED
  BY ONLY <1>8, <1>9, Zenon

\* A pair of bytes is a number.
LEMMA NumberTyped ==
  ASSUME NEW bytes \in Seq(Byte), Len(bytes) = 2
  PROVE  FromBytes(bytes) \in Int
<1>1. bytes[1] \in Int /\ bytes[2] \in Int /\ Base \in Nat
  <2>1. bytes[1] \in Byte /\ bytes[2] \in Byte
    OBVIOUS
  <2> QED
    BY <2>1, BaseFact DEF Byte
<1>2. PICK u : u = bytes[1] * Base + bytes[2]
  OBVIOUS
<1>3. u \in Int /\ Base * Base \in Int
  BY <1>1, <1>2, Squares
<1> QED
  BY <1>2, <1>3 DEF FromBytes

\* Every number that fits is read as it was sent (from_be_bytes of to_be_bytes).
LEMMA NumberSent ==
  ASSUME NEW i \in MinInt..MaxInt
  PROVE  /\ ToBytes(i) \in Seq(Byte) /\ Len(ToBytes(i)) = 2
         /\ FromBytes(ToBytes(i)) = i
<1>1. PICK s, m : s = Base * Base /\ m = MaxInt
  OBVIOUS
<1>2. PICK u : u = IF i < 0 THEN i + s ELSE i
  OBVIOUS
<1>3. s \in Nat /\ m \in Nat /\ 2 * m + 2 <= s /\ -m - 1 <= i /\ i <= m /\ i \in Int
  BY <1>1, Squares DEF MinInt
<1>4. u \in Nat /\ u < s
  BY <1>2, <1>3
<1>5. ToBytes(i) = <<u \div Base, u % Base>>
  BY <1>1, <1>2 DEF ToBytes
<1>6. u \div Base \in Byte /\ u % Base \in Byte /\ (u \div Base) * Base + (u % Base) = u
  BY <1>1, <1>4, Digits
<1>7. ToBytes(i) \in Seq(Byte) /\ Len(ToBytes(i)) = 2
  BY <1>5, <1>6
<1>8. FromBytes(ToBytes(i)) = IF u > m THEN u - s ELSE u
  <2>1. PICK q, r : q = u \div Base /\ r = u % Base
    OBVIOUS
  <2>2. ToBytes(i) = <<q, r>> /\ q * Base + r = u
    BY ONLY <1>5, <1>6, <2>1, Zenon
  <2> QED
    BY <1>1, <2>2 DEF FromBytes
<1>9. (IF u > m THEN u - s ELSE u) = i
  BY <1>2, <1>3
<1> QED
  BY <1>7, <1>8, <1>9

-----------------------------------------------------------------------------
(* The stream of a result. *)

Cells == Seq(Byte) \cup {Null}

\* The rows of a query.
Row == Seq(Cells)

\* A row whose numbers fit on the wire.
Sendable(cells) ==
  /\ cells \in Row /\ Len(cells) <= MaxInt
  /\ \A n \in 1..Len(cells) : cells[n] # Null => Len(cells[n]) <= MaxInt

\* What is known of the rows of a query.
LEMMA ResultFacts ==
  ASSUME NEW rows \in Results
  PROVE  /\ rows \in Seq(Row)
         /\ \A r \in 1..Len(rows) : Sendable(rows[r]) /\ Len(rows[r]) = Len(rows[1])
<1>1. Results \subseteq Seq(Row)
  BY ResultAssumption DEF Row, Cells
<1>2. rows \in Seq(Row)
  BY <1>1
<1>3. \A r \in 1..Len(rows) : rows[r] \in Row
  BY ONLY <1>2
<1> QED
  BY <1>2, <1>3, ResultAssumption DEF Sendable

\* The bytes of a field: -1, or its length and its bytes.
LEMMA FieldTyped ==
  ASSUME NEW cell \in Cells, cell # Null => Len(cell) <= MaxInt
  PROVE  /\ Field(cell) \in Seq(Byte)
         /\ cell = Null => Field(cell) = ToBytes(-1)
         /\ cell # Null => /\ Field(cell) = ToBytes(Len(cell)) \o cell
                           /\ cell \in Seq(Byte) /\ Len(cell) \in 0..MaxInt
<1>1. CASE cell = Null
  <2>1. -1 \in MinInt..MaxInt
    BY Squares DEF MinInt
  <2> QED
    BY <1>1, <2>1, NumberSent DEF Field
<1>2. CASE cell # Null
  <2>1. cell \in Seq(Byte)
    BY <1>2 DEF Cells
  <2>2. Len(cell) \in 0..MaxInt
    BY <1>2, <2>1, Squares
  <2>3. Len(cell) \in MinInt..MaxInt
    BY <2>2, Squares DEF MinInt
  <2>4. ToBytes(Len(cell)) \in Seq(Byte)
    BY <2>3, NumberSent
  <2>5. ToBytes(Len(cell)) \o cell \in Seq(Byte)
    BY ONLY <2>1, <2>4, ConcatHead
  <2> QED
    BY <1>2, <2>1, <2>2, <2>5 DEF Field
<1> QED
  BY <1>1, <1>2

\* The fields of a row.
Fields(cells) == [n \in 1..Len(cells) |-> Field(cells[n])]

\* They are as many as the cells.
LEMMA FieldsTyped ==
  ASSUME NEW cells, Sendable(cells)
  PROVE  Fields(cells) \in Seq(Seq(Byte)) /\ Len(Fields(cells)) = Len(cells)
<1>1. cells \in Row
  BY DEF Sendable
<1>2. \A n \in 1..Len(cells) : cells[n] \in Cells
  BY <1>1 DEF Row
<1>3. \A n \in 1..Len(cells) : Field(cells[n]) \in Seq(Byte)
  BY <1>2, FieldTyped DEF Sendable
<1>4. Len(cells) \in Nat
  BY <1>1 DEF Row
<1> QED
  BY ONLY <1>3, <1>4 DEF Fields

\* The bytes of a row: its number of cells, then its fields.
LEMMA TupleTyped ==
  ASSUME NEW cells, Sendable(cells)
  PROVE  /\ Tuple(cells) \in Seq(Byte)
         /\ Tuple(cells) = ToBytes(Len(cells)) \o FlattenSeq(Fields(cells))
         /\ FlattenSeq(Fields(cells)) \in Seq(Byte)
<1>1. Len(cells) \in 0..MaxInt
  BY Squares DEF Sendable, Row
<1>2. Len(cells) \in MinInt..MaxInt
  BY <1>1, Squares DEF MinInt
<1>3. ToBytes(Len(cells)) \in Seq(Byte)
  BY <1>2, NumberSent
<1>4. PICK fs : fs = Fields(cells) /\ fs \in Seq(Seq(Byte))
  BY FieldsTyped
<1>5. FlattenSeq(fs) \in Seq(Byte)
  BY ONLY <1>4, FlattenType
<1>6. ToBytes(Len(cells)) \o FlattenSeq(fs) \in Seq(Byte)
  BY ONLY <1>3, <1>5, ConcatHead
<1>7. Tuple(cells) = ToBytes(Len(cells)) \o FlattenSeq(Fields(cells))
  BY DEF Tuple, Fields
<1> QED
  BY ONLY <1>4, <1>5, <1>6, <1>7

\* The tuples of the rows after the first k, and the trailer.
Tuples(rows) == [r \in 1..Len(rows) |-> Tuple(rows[r])]

After(rows, k) == FlattenSeq(SubSeq(Tuples(rows), k + 1, Len(rows))) \o ToBytes(-1)

\* As many tuples as rows.
LEMMA TuplesTyped ==
  ASSUME NEW rows \in Results
  PROVE  Tuples(rows) \in Seq(Seq(Byte)) /\ Len(Tuples(rows)) = Len(rows) /\ Len(rows) \in Nat
<1>1. rows \in Seq(Row) /\ \A r \in 1..Len(rows) : Tuple(rows[r]) \in Seq(Byte)
  BY ResultFacts, TupleTyped
<1>2. Len(rows) \in Nat
  BY ONLY <1>1
<1> QED
  BY ONLY <1>1, <1>2 DEF Tuples

\* The trailer is the number -1.
LEMMA TrailerTyped == ToBytes(-1) \in Seq(Byte) /\ Len(ToBytes(-1)) = 2 /\ FromBytes(ToBytes(-1)) = -1
<1>1. -1 \in MinInt..MaxInt
  BY Squares DEF MinInt
<1> QED
  BY <1>1, NumberSent

\* The type of what follows k rows.
LEMMA AfterTyped ==
  ASSUME NEW rows \in Results, NEW k \in 0..Len(rows)
  PROVE  After(rows, k) \in Seq(Byte)
<1>1. PICK ts : ts = Tuples(rows) /\ ts \in Seq(Seq(Byte)) /\ Len(ts) = Len(rows)
  BY TuplesTyped
<1>2. k + 1 \in Nat /\ Len(rows) \in Nat
  BY TuplesTyped
<1>3. PICK us : us = SubSeq(ts, k + 1, Len(rows)) /\ us \in Seq(Seq(Byte))
  <2>1. k + 1 > 0 /\ Len(rows) <= Len(ts)
    BY <1>1, <1>2
  <2> QED
    BY ONLY <1>1, <1>2, <2>1, SubSeqTyped
<1>4. FlattenSeq(us) \in Seq(Byte)
  BY ONLY <1>3, FlattenType
<1>5. FlattenSeq(us) \o ToBytes(-1) \in Seq(Byte)
  BY ONLY <1>4, TrailerTyped, ConcatHead
<1> QED
  BY ONLY <1>1, <1>3, <1>5 DEF After

\* The stream, part by part.
LEMMA StreamTyped ==
  ASSUME NEW rows \in Results, NEW x \in Extensions
  PROVE  /\ Stream(rows, x) \in Seq(Byte)
         /\ ToBytes(0) \in Seq(Byte) /\ Len(ToBytes(0)) = 2 /\ FromBytes(ToBytes(0)) = 0
         /\ x \in Seq(Byte) /\ Len(x) \in 0..MaxInt
         /\ ToBytes(Len(x)) \in Seq(Byte) /\ Len(ToBytes(Len(x))) = 2
         /\ FromBytes(ToBytes(Len(x))) = Len(x)
         /\ After(rows, 0) \in Seq(Byte)
         /\ Stream(rows, x) = Signature \o (ToBytes(0) \o (ToBytes(Len(x)) \o (x \o After(rows, 0))))
<1>1. x \in Seq(Byte) /\ Len(x) \in 0..MaxInt /\ Signature \in Seq(Byte)
  <2>1. x \in Seq(Byte) /\ Len(x) <= MaxInt
    BY ExtensionAssumption
  <2>2. Len(x) \in Nat
    BY <2>1
  <2> QED
    BY <2>1, <2>2, Squares, WireAssumption
<1>2. 0 \in MinInt..MaxInt /\ Len(x) \in MinInt..MaxInt
  BY <1>1, Squares DEF MinInt
<1>3. /\ ToBytes(0) \in Seq(Byte) /\ Len(ToBytes(0)) = 2 /\ FromBytes(ToBytes(0)) = 0
      /\ ToBytes(Len(x)) \in Seq(Byte) /\ Len(ToBytes(Len(x))) = 2
      /\ FromBytes(ToBytes(Len(x))) = Len(x)
  BY <1>2, NumberSent
<1>4. PICK ts : ts = Tuples(rows) /\ ts \in Seq(Seq(Byte)) /\ Len(ts) = Len(rows)
  BY TuplesTyped
<1>5. SubSeq(ts, 0 + 1, Len(rows)) = ts
  BY ONLY <1>4
<1>6. PICK f : f = FlattenSeq(ts) /\ f \in Seq(Byte)
  BY ONLY <1>4, FlattenType
<1>7. After(rows, 0) = f \o ToBytes(-1)
  BY ONLY <1>4, <1>5, <1>6 DEF After
<1>8. Stream(rows, x) = Signature \o ToBytes(0) \o ToBytes(Len(x)) \o x \o f \o ToBytes(-1)
  BY <1>4, <1>6 DEF Stream, Tuples
<1>9. PICK a, b, c, d, e : /\ a = Signature /\ b = ToBytes(0) /\ c = ToBytes(Len(x)) /\ d = x /\ e = ToBytes(-1)
                           /\ {a, b, c, d, e, f} \subseteq Seq(Byte)
  BY <1>1, <1>3, <1>6, TrailerTyped
<1>10. /\ a \o b \o c \o d \o f \o e = a \o (b \o (c \o (d \o (f \o e))))
       /\ f \o e \in Seq(Byte)
       /\ a \o b \o c \o d \o f \o e \in Seq(Byte)
  <2>1. LET s == Cat(Cat(Cat(Cat(Cat(a, b), c), d), f), e)
        IN  s = Cat(a, Cat(b, Cat(c, Cat(d, Cat(f, e))))) /\ s \in Seq(Byte)
    BY ONLY <1>9, ConcatSix
  <2>2. f \in Seq(Byte) /\ e \in Seq(Byte)
    BY ONLY <1>9
  <2>3. Cat(f, e) \in Seq(Byte)
    BY ONLY <2>2, CatFacts
  <2> QED
    BY ONLY <2>1, <2>3 DEF Cat
<1>11. After(rows, 0) \in Seq(Byte)
  BY ONLY <1>7, <1>9, <1>10
<1>12. Stream(rows, x) = Signature \o (ToBytes(0) \o (ToBytes(Len(x)) \o (x \o After(rows, 0))))
  BY ONLY <1>7, <1>8, <1>9, <1>10
<1>13. Stream(rows, x) \in Seq(Byte)
  BY ONLY <1>8, <1>9, <1>10
<1> QED
  BY ONLY <1>1, <1>3, <1>11, <1>12, <1>13

-----------------------------------------------------------------------------
(* The invariant. *)

\* The kinds of columns.
Types == {"fixed", "timestamp", "text", "json"}

\* The bytes that have arrived and those still to come.
WireInv ==
  /\ wire \in Seq(Byte) /\ rowStream \in Seq(Row)
  /\ buf \in Seq(Byte) /\ pos \in 0..Len(buf)

\* What is parsed next, and with which reader.
FlowInv ==
  /\ mode \in [reader : {"copy", "row"}, utf8 : BOOLEAN, count : BOOLEAN] /\ result \in Results
  /\ eof \in BOOLEAN /\ header \in BOOLEAN /\ preflight \in BOOLEAN /\ done \in BOOLEAN
  /\ spoiled \in BOOLEAN /\ returned \in {"ok", "error", "cancelled"} /\ calls \in 0..MaxCalls
  /\ pc \in Parsing \cup {"idle", "drain", "fetch", "cell"}
  /\ pc \in Parsing \cup {"drain"} => mode.reader = "copy"
  /\ pc \in {"fetch", "cell"} => mode.reader = "row"
  /\ done => pc \in {"idle", "drain"}

\* The batch, and the cell that comes next.
PlaceInv ==
  /\ col \in Columns /\ len \in Nat /\ row \in Row
  /\ BatchOK(batch) /\ (mode.reader = "copy" => AllInline(batch))
  /\ pc \notin {"length", "value", "cell"} => col = 1
  /\ IF pc = "idle"
     THEN \E k \in Columns : Ragged(batch, k) /\ (returned = "ok" => k = 1)
     ELSE Ragged(batch, col) /\ batch.rows < Capacity

\* The inductive invariant.
Inv == WireInv /\ FlowInv /\ PlaceInv

\* What is known of the columns.
LEMMA SchemaFacts ==
  /\ Len(Schema) \in Nat /\ 1 \in Columns /\ \A n \in Columns : Schema[n] \in Types
  /\ \A n \in Columns : n \in Nat /\ n <= Len(Schema) /\ (n < Len(Schema) => n + 1 \in Columns)
BY BatchAssumption DEF Columns, Types

\* It holds at the start.
LEMMA InitInv == Init => Inv
<1> SUFFICES ASSUME Init PROVE Inv
  OBVIOUS
<1>1. result \in Results /\ result \in Seq(Row)
  BY ResultFacts DEF Init
<1>2. mode \in [reader : {"copy", "row"}, utf8 : BOOLEAN, count : BOOLEAN]
  <2>1. PICK m \in Modes : mode = [reader |-> Chosen(m), utf8 |-> m.utf8, count |-> m.count]
    BY DEF Init
  <2>2. m.kind \in {"copy", "row", "auto"} /\ m.utf8 \in BOOLEAN /\ m.count \in BOOLEAN
    BY ModeAssumption
  <2>3. m.kind = "auto" => m.copyMin \in Nat
    BY ModeAssumption
  <2>4. Chosen(m) \in {"copy", "row"}
    <3>1. CASE m.kind # "auto"
      BY <2>2, <3>1 DEF Chosen
    <3>2. CASE m.kind = "auto" /\ Len(Schema) >= m.copyMin
      BY <3>2 DEF Chosen
    <3>3. CASE m.kind = "auto" /\ ~(Len(Schema) >= m.copyMin)
      <4>1. Len(Schema) < m.copyMin
        BY <2>3, <3>3, SchemaFacts
      <4> QED
        BY <3>3, <4>1 DEF Chosen
    <3> QED
      BY <3>1, <3>2, <3>3
  <2> QED
    BY <2>1, <2>2, <2>4
<1>3. wire \in Seq(Byte)
  <2>1. CASE mode.reader = "copy"
    <3>1. PICK x \in Extensions : wire = Stream(result, x)
      BY <2>1 DEF Init
    <3> QED
      BY ONLY <1>1, <3>1, x \in Extensions, StreamTyped
  <2>2. CASE mode.reader # "copy"
    BY <2>2 DEF Init
  <2> QED
    BY <2>1, <2>2
<1>4. rowStream \in Seq(Row) /\ buf \in Seq(Byte) /\ pos \in 0..Len(buf)
  BY <1>1 DEF Init
<1>5. WireInv
  BY <1>3, <1>4 DEF WireInv
<1>6. FlowInv
  <2>1. pc = "idle" /\ ~(pc \in Parsing \cup {"drain"}) /\ ~(pc \in {"fetch", "cell"})
    BY DEF Init, Parsing
  <2>2. calls = 0 /\ MaxCalls \in Nat
    BY WireAssumption DEF Init
  <2>3. /\ eof = FALSE /\ header = FALSE /\ preflight = FALSE /\ done = FALSE
        /\ spoiled = FALSE /\ returned = "ok"
    BY DEF Init
  <2>4. calls \in 0..MaxCalls
    BY <2>2
  <2>5. pc \in Parsing \cup {"idle", "drain", "fetch", "cell"}
    BY <2>1
  <2> QED
    BY <1>1, <1>2, <2>1, <2>3, <2>4, <2>5, Zenon DEF FlowInv
<1>7. PlaceInv
  <2>1. <<>> \in Row
    BY DEF Row
  <2>2. col = 1 /\ len = 0 /\ row = <<>> /\ batch = NewBatch /\ pc = "idle"
    BY DEF Init
  <2> QED
    BY <2>1, <2>2, NewBatchOK, SchemaFacts DEF PlaceInv
<1> QED
  BY <1>5, <1>6, <1>7 DEF Inv

-----------------------------------------------------------------------------
(* How a step leaves the batch. *)

\* A step on to another pc leaves the batch and the column in place.
LEMMA GoPlace ==
  ASSUME PlaceInv, pc # "idle", NEW to, to # "idle", Go(to), UNCHANGED <<mode, batch, col>>,
         to \in {"length", "value", "cell"} \/ col = 1, row' \in Row, len' \in Nat
  PROVE  PlaceInv'
<1>1. pc' = to /\ pc' # "idle" /\ col' = col /\ batch' = batch /\ mode' = mode /\ returned' = returned
  BY DEF Go
<1> QED
  BY <1>1 DEF PlaceInv, BatchOK, AllInline, Ragged

\* A call that returns leaves a sound batch, without a row under way if it returns Ok.
LEMMA ReturnPlace ==
  ASSUME NEW how, NEW b, Return(how, b), BatchOK(b), mode.reader = "copy" => AllInline(b), mode' = mode,
         NEW k \in Columns, Ragged(b, k), how = "ok" => k = 1
  PROVE  PlaceInv'
<1>1. pc' = "idle" /\ col' = 1 /\ len' = 0 /\ row' = <<>> /\ batch' = b /\ returned' = how
  BY DEF Return
<1>2. <<>> \in Row /\ 1 \in Columns
  BY SchemaFacts DEF Row
<1> QED
  BY <1>1, <1>2 DEF PlaceInv

\* A call that returns with the batch as it is.
LEMMA ReturnsBatch ==
  ASSUME PlaceInv, pc # "idle", NEW how, Return(how, batch), mode' = mode, how = "ok" => col = 1
  PROVE  PlaceInv'
BY ReturnPlace DEF PlaceInv

\* A cell that is stored leaves the batch in place for the next one.
LEMMA StoredPlace ==
  ASSUME PlaceInv, pc # "idle", NEW b, NEW v, Stores(batch, b, col, v),
         mode.reader = "copy" => AllInline(b), mode' = mode,
         NEW nextCell \in {"length", "cell"}, NEW nextRow \in {"count", "fetch"},
         Stored(b, nextCell, nextRow)
  PROVE  /\ PlaceInv'
         /\ pc' \in {nextCell, nextRow, "idle"}
         /\ pc' = "idle" => returned' = "ok"
         /\ pc' # "idle" => returned' = returned
         /\ spoiled \in BOOLEAN => spoiled' = spoiled
<1>1. /\ col \in Columns /\ len \in Nat /\ row \in Row /\ BatchOK(batch) /\ Ragged(batch, col)
      /\ batch.rows < Capacity
  BY DEF PlaceInv
<1>2. BatchOK(b) /\ b.rows = batch.rows /\ b.rows \in Nat /\ Capacity \in Nat
  BY <1>1, BatchFacts, CapacityFact DEF Stores
<1>3. /\ col < Len(Schema) => Ragged(b, col + 1)
      /\ ~(col < Len(Schema)) => Ragged(EndRow(b), 1)
  BY <1>1, StoresRagged
<1>4. BatchOK(EndRow(b)) /\ EndRow(b).rows = b.rows + 1 /\ EndRow(b).cols = b.cols
  BY <1>1, <1>2, EndRowOK
<1>5. mode.reader = "copy" => AllInline(EndRow(b))
  BY <1>4 DEF AllInline
<1>6. 1 \in Columns /\ <<>> \in Row
  BY SchemaFacts DEF Row
<1>7. CASE col < Len(Schema)
  <2>1. Go(nextCell) /\ batch' = b /\ col' = col + 1 /\ len' = len /\ row' = row
    BY <1>7 DEF Stored
  <2>2. col + 1 \in Columns
    BY <1>1, <1>7, SchemaFacts
  <2> QED
    BY <1>1, <1>2, <1>3, <1>7, <2>1, <2>2 DEF Go, PlaceInv
<1>8. CASE ~(col < Len(Schema)) /\ b.rows + 1 < Capacity
  <2>1. Go(nextRow) /\ batch' = EndRow(b) /\ col' = 1 /\ len' = 0 /\ row' = <<>>
    BY <1>8 DEF Stored
  <2> QED
    BY <1>3, <1>4, <1>5, <1>6, <1>8, <2>1 DEF Go, PlaceInv
<1>9. CASE ~(col < Len(Schema)) /\ ~(b.rows + 1 < Capacity)
  <2>1. Return("ok", EndRow(b))
    BY <1>9 DEF Stored
  <2>2. PlaceInv'
    BY <1>3, <1>4, <1>5, <1>6, <1>9, <2>1, ReturnPlace
  <2> QED
    BY <2>1, <2>2 DEF Return
<1> QED
  BY <1>7, <1>8, <1>9

-----------------------------------------------------------------------------
(* What a step stores. *)

\* A field that fits becomes a value of its column.
LEMMA ValueTyped ==
  ASSUME NEW ty \in Types, NEW bytes \in Seq(Byte), NEW v, Fits(ty, bytes, v)
  PROVE  /\ IsVar(ty) => Value(ty, bytes) \in Seq(Byte)
         /\ ~IsVar(ty) => Value(ty, bytes) \in Int /\ Len(bytes) = 2
<1>1. CASE ty = "fixed"
  <2>1. Len(bytes) = 2
    BY <1>1 DEF Fits
  <2>2. FromBytes(bytes) \in Int
    BY <2>1, NumberTyped
  <2> QED
    BY <1>1, <2>1, <2>2 DEF Value, IsVar
<1>2. CASE ty = "timestamp"
  <2>1. Len(bytes) = 2
    BY <1>2 DEF Fits
  <2>2. FromBytes(bytes) + Epoch \in Int
    BY <2>1, NumberTyped, WireAssumption
  <2> QED
    BY <1>2, <2>1, <2>2 DEF Value, IsVar
<1>3. CASE ty = "text"
  BY <1>3 DEF Value, IsVar
<1>4. CASE ty = "json"
  <2>1. bytes # <<>>
    BY <1>4 DEF Fits
  <2>2. Tail(bytes) \in Seq(Byte)
    BY <2>1, TailTyped
  <2> QED
    BY <1>4, <2>2 DEF Value, IsVar
<1> QED
  BY <1>1, <1>2, <1>3, <1>4 DEF Types

\* What ColumnarBatch takes for a byte is any number.
LEMMA BytesAreNumbers == Seq(Byte) \subseteq Seq(Nat)
<1>1. Byte \subseteq Nat
  BY WireAssumption DEF Byte
<1>2. ASSUME NEW s \in Seq(Byte) PROVE s \in Seq(Nat)
  <2>1. s = [i \in 1..Len(s) |-> s[i]] /\ \A i \in 1..Len(s) : s[i] \in Byte
    BY <1>2
  <2>2. \A i \in 1..Len(s) : s[i] \in Nat
    BY <1>1, <2>1
  <2>3. s \in [1..Len(s) -> Nat]
    BY <2>1, <2>2
  <2> QED
    BY <2>3, <1>2
<1> QED
  BY <1>2

\* The cell the batch gets.
LEMMA AppendedStores ==
  ASSUME PlaceInv, pc # "idle", mode.reader = "copy", NEW bytes \in Seq(Byte), NEW v,
         Accepted(Schema[col], bytes, v)
  PROVE  LET value == Value(Schema[col], bytes)  d == Push(batch, col, value, AppendVar)
         IN  Stores(batch, d, col, value) /\ AllInline(d)
<1> DEFINE ty == Schema[col]  value == Value(ty, bytes)
<1>1. /\ col \in Columns /\ BatchOK(batch) /\ AllInline(batch) /\ batch.rows < Capacity
      /\ Ragged(batch, col)
  BY DEF PlaceInv
<1>2. Entries(ty, batch.cols[col]) = batch.rows
  BY <1>1, RaggedHere
<1>3. ty \in Types /\ Fits(ty, bytes, v) /\ (IsVar(ty) => ~TooLarge(batch, col, value))
  BY <1>1, SchemaFacts DEF Accepted
<1>4. /\ IsVar(ty) => value \in Seq(Nat)
      /\ ~IsVar(ty) => value \in Int
  BY <1>3, ValueTyped, BytesAreNumbers
<1> HIDE DEF value
<1>5. CASE IsVar(ty)
  <2>1. Stores(batch, AppendVar(batch, col, value), col, value)
    BY <1>1, <1>2, <1>3, <1>4, <1>5, AppendVarStores
  <2>2. AllInline(AppendVar(batch, col, value))
    BY <1>1, StaysInline
  <2> QED
    BY <1>5, <2>1, <2>2 DEF Push, value
<1>6. CASE ~IsVar(ty)
  <2>1. Stores(batch, PushFixed(batch, col, value), col, value)
    BY <1>1, <1>2, <1>4, <1>6, PushFixedStores
  <2>2. AllInline(PushFixed(batch, col, value))
    BY <1>1, StaysInline
  <2> QED
    BY <1>6, <2>1, <2>2 DEF Push, value
<1> QED
  BY <1>5, <1>6

\* What the row-wise reader pushes is the value of the field.
LEMMA PushedStores ==
  ASSUME PlaceInv, pc # "idle", NEW bytes \in Seq(Byte), NEW v, Accepted(Schema[col], bytes, v)
  PROVE  LET value == Value(Schema[col], bytes)
         IN  Stores(batch, Push(batch, col, value, PushVar), col, value)
<1> DEFINE ty == Schema[col]  value == Value(ty, bytes)
<1>1. /\ col \in Columns /\ BatchOK(batch) /\ batch.rows < Capacity /\ Ragged(batch, col)
  BY DEF PlaceInv
<1>2. Entries(ty, batch.cols[col]) = batch.rows
  BY <1>1, RaggedHere
<1>3. ty \in Types /\ Fits(ty, bytes, v) /\ (IsVar(ty) => ~TooLarge(batch, col, value))
  BY <1>1, SchemaFacts DEF Accepted
<1>4. /\ IsVar(ty) => value \in Seq(Nat)
      /\ ~IsVar(ty) => value \in Int
  BY <1>3, ValueTyped, BytesAreNumbers
<1> HIDE DEF value
<1>5. CASE IsVar(ty)
  <2>1. Stores(batch, PushVar(batch, col, value), col, value)
    BY <1>1, <1>2, <1>3, <1>4, <1>5, PushVarStores
  <2> QED
    BY <1>5, <2>1 DEF Push, value
<1>6. CASE ~IsVar(ty)
  <2>1. Stores(batch, PushFixed(batch, col, value), col, value)
    BY <1>1, <1>2, <1>4, <1>6, PushFixedStores
  <2> QED
    BY <1>6, <2>1 DEF Push, value
<1> QED
  BY <1>5, <1>6

\* NULL is stored by either reader.
LEMMA NullStores ==
  ASSUME PlaceInv, pc # "idle"
  PROVE  /\ Stores(batch, PushNull(batch, col), col, Null)
         /\ mode.reader = "copy" => AllInline(PushNull(batch, col))
<1>1. /\ col \in Columns /\ BatchOK(batch) /\ batch.rows < Capacity /\ Ragged(batch, col)
      /\ mode.reader = "copy" => AllInline(batch)
  BY DEF PlaceInv
<1>2. Entries(Schema[col], batch.cols[col]) = batch.rows
  BY <1>1, RaggedHere
<1> QED
  BY <1>1, <1>2, PushNullStores, StaysInline

\* A bit of validity, set before the value is checked.
LEMMA MarkedPlace ==
  ASSUME PlaceInv, pc # "idle"
  PROVE  LET d == SetValidity(batch, col, TRUE) IN
         /\ BatchOK(d) /\ d.rows = batch.rows /\ Ragged(d, col)
         /\ mode.reader = "copy" => AllInline(d)
<1>1. /\ col \in Columns /\ BatchOK(batch) /\ batch.rows < Capacity /\ Ragged(batch, col)
      /\ mode.reader = "copy" => AllInline(batch)
  BY DEF PlaceInv
<1> DEFINE d == SetValidity(batch, col, TRUE)
<1>2. TRUE \in BOOLEAN
  OBVIOUS
<1>3. /\ BatchOK(d) /\ d.rows = batch.rows
      /\ \A m \in Columns : m # col => d.cols[m] = batch.cols[m]
      /\ Entries(Schema[col], d.cols[col]) = Entries(Schema[col], batch.cols[col])
  BY <1>1, <1>2, SetValidityKeeps
<1>4. mode.reader = "copy" => AllInline(d)
  BY <1>1, <1>2, StaysInline
<1> HIDE DEF d
<1>5. \A m \in Columns : Entries(Schema[m], d.cols[m]) = Entries(Schema[m], batch.cols[m])
  BY <1>3
<1>6. Ragged(d, col)
  BY <1>1, <1>3, <1>5 DEF Ragged
<1> QED
  BY <1>3, <1>4, <1>6 DEF d

-----------------------------------------------------------------------------
(* What a read takes. *)

\* A read that has all its bytes takes them from the front of what is left.
Rest == SubSeq(buf, pos + 1, Len(buf)) \o wire

\* A read asks for a number of bytes.
LEMMA NeededNat ==
  ASSUME PlaceInv
  PROVE  Needed \in Nat
<1>1. len \in Nat /\ Len(Signature) \in Nat
  <2>1. Signature \in Seq(Byte)
    BY WireAssumption
  <2> QED
    BY <2>1 DEF PlaceInv
<1> QED
  BY <1>1 DEF Needed

\* A read takes the bytes it needs from the front of what is left, compacted or not.
LEMMA TakesWire ==
  ASSUME WireInv, PlaceInv, NEW from, Takes(from)
  PROVE  /\ WireInv'
         /\ Taken \in Seq(Byte) /\ Len(Taken) = Needed
         /\ Rest \in Seq(Byte) /\ Rest' \in Seq(Byte) /\ Rest = Taken \o Rest'
<1>1. /\ wire \in Seq(Byte) /\ rowStream \in Seq(Row) /\ buf \in Seq(Byte) /\ pos \in 0..Len(buf)
      /\ Needed \in Nat /\ Len(buf) \in Nat
  BY NeededNat DEF WireInv
<1>2. /\ Len(buf) - pos >= Needed /\ Compact(pos + Needed)
      /\ wire' = wire /\ rowStream' = rowStream
  BY DEF Takes, Unparsed, source
<1>3. PICK q : q = pos + Needed
  OBVIOUS
<1>4. q \in 0..Len(buf) /\ pos <= q /\ q - pos = Needed /\ pos \in Nat /\ q \in Nat
  BY <1>1, <1>2, <1>3
<1>5. PICK front, back, all : /\ front = SubSeq(buf, pos + 1, q) /\ back = SubSeq(buf, q + 1, Len(buf))
                              /\ all = SubSeq(buf, pos + 1, Len(buf))
  OBVIOUS
<1>6. /\ front \in Seq(Byte) /\ back \in Seq(Byte) /\ all \in Seq(Byte) /\ Len(front) = q - pos
      /\ all = front \o back
  <2>1. PICK s, p : s = buf /\ p = pos
    OBVIOUS
  <2>2. s \in Seq(Byte) /\ p \in 0..Len(s) /\ q \in 0..Len(s) /\ p <= q
    BY ONLY <2>1, <1>1, <1>4
  <2>3. /\ SubSeq(s, p + 1, q) \in Seq(Byte) /\ Len(SubSeq(s, p + 1, q)) = q - p
        /\ SubSeq(s, q + 1, Len(s)) \in Seq(Byte)
        /\ SubSeq(s, p + 1, Len(s)) \in Seq(Byte)
    BY ONLY <2>2, Slices
  <2>4. SubSeq(s, p + 1, Len(s)) = SubSeq(s, p + 1, q) \o SubSeq(s, q + 1, Len(s))
    BY ONLY <2>2, Slices
  <2> QED
    BY ONLY <1>5, <2>1, <2>3, <2>4
<1>7. /\ buf' \in Seq(Byte) /\ pos' \in 0..Len(buf')
      /\ SubSeq(buf', pos' + 1, Len(buf')) = back
  <2>1. CASE pos' = q /\ buf' = buf
    BY ONLY <2>1, <1>1, <1>4, <1>5
  <2>2. CASE pos' = 0 /\ buf' = back
    BY ONLY <2>2, <1>6
  <2>3. \/ pos' = q /\ buf' = buf
        \/ pos' = 0 /\ buf' = back
    BY <1>2, <1>3, <1>5 DEF Compact
  <2> QED
    BY ONLY <2>1, <2>2, <2>3
<1>8. Taken = front /\ Rest = all \o wire /\ Rest' = back \o wire
  BY <1>2, <1>3, <1>5, <1>7 DEF Taken, Rest
<1>9. (front \o back) \o wire = front \o (back \o wire)
  <2>1. Cat(Cat(front, back), wire) = Cat(front, Cat(back, wire))
    BY ONLY <1>1, <1>6, CatAssoc
  <2> QED
    BY ONLY <2>1 DEF Cat
<1>10. all \o wire \in Seq(Byte) /\ back \o wire \in Seq(Byte)
  BY ONLY <1>1, <1>6, ConcatHead
<1>11. WireInv'
  BY ONLY <1>1, <1>2, <1>7 DEF WireInv
<1>12. Rest = Taken \o Rest'
  BY ONLY <1>6, <1>8, <1>9
<1> QED
  BY ONLY <1>4, <1>6, <1>8, <1>10, <1>11, <1>12

\* A step that does not read leaves the bytes as they are.
LEMMA SameWire ==
  ASSUME WireInv, UNCHANGED <<buf, pos, wire, rowStream>>
  PROVE  WireInv'
BY DEF WireInv

-----------------------------------------------------------------------------
(* Steps of either reader. *)

\* A call that returns leaves the flags in order.
LEMMA ReturnFlow ==
  ASSUME FlowInv, NEW how \in {"ok", "error", "cancelled"}, NEW b, Return(how, b), UNCHANGED history,
         eof' \in BOOLEAN, header' \in BOOLEAN, preflight' \in BOOLEAN, done' \in BOOLEAN
  PROVE  FlowInv'
<1>1. /\ mode' = mode /\ result' = result /\ calls' = calls
      /\ pc' = "idle" /\ returned' \in {"ok", "error", "cancelled"}
  BY DEF Return, history
<1>2. spoiled' \in BOOLEAN
  BY Zenon DEF Return
<1>3. /\ pc' \in Parsing \cup {"idle", "drain", "fetch", "cell"}
      /\ ~(pc' \in Parsing \cup {"drain"}) /\ ~(pc' \in {"fetch", "cell"})
      /\ pc' \in {"idle", "drain"}
  BY <1>1 DEF Parsing
<1> QED
  BY <1>1, <1>2, <1>3, Zenon DEF FlowInv

\* A step on leaves the flags in order.
LEMMA GoFlow ==
  ASSUME FlowInv, NEW to \in Parsing \cup {"drain", "fetch", "cell"},
         to \in Parsing \cup {"drain"} => mode.reader = "copy", to \in {"fetch", "cell"} => mode.reader = "row",
         pc' = to, returned' = returned, spoiled' = spoiled, UNCHANGED history,
         eof' \in BOOLEAN, header' \in BOOLEAN, preflight' \in BOOLEAN, done' \in BOOLEAN,
         done' => to = "drain"
  PROVE  FlowInv'
<1>1. mode' = mode /\ result' = result /\ calls' = calls
  BY DEF history
<1>2. /\ pc' \in Parsing \cup {"idle", "drain", "fetch", "cell"}
      /\ pc' \in Parsing \cup {"drain"} => mode'.reader = "copy"
      /\ pc' \in {"fetch", "cell"} => mode'.reader = "row"
      /\ done' => pc' \in {"idle", "drain"}
  BY <1>1
<1> QED
  BY <1>1, <1>2, Zenon DEF FlowInv

\* A read that goes on, or fails and leaves the batch as it is.
LEMMA CopyGoes ==
  ASSUME Inv, NEW from \in Parsing, Takes(from), NEW to \in Parsing \cup {"drain"}, Go(to),
         UNCHANGED <<batch, col>>, to \in {"length", "value"} \/ col = 1,
         row' = row, len' \in Nat,
         header' \in BOOLEAN, preflight' \in BOOLEAN, done' \in BOOLEAN, done' => to = "drain"
  PROVE  Inv'
<1>1. pc = from /\ from # "idle" /\ to # "idle" /\ ~(to = "cell") /\ mode.reader = "copy"
  BY DEF Takes, Parsing, Inv, FlowInv
<1>2. UNCHANGED <<source, history>> /\ pc' = to /\ returned' = returned /\ spoiled' = spoiled
  BY DEF Takes, Go
<1>3. mode' = mode /\ eof' = eof /\ eof \in BOOLEAN /\ row \in Row
  BY <1>2 DEF source, history, Inv, FlowInv, PlaceInv
<1>4. WireInv'
  BY TakesWire DEF Inv
<1>5. FlowInv'
  <2>1. ~(to \in {"fetch", "cell"})
    BY DEF Parsing
  <2>2. eof' \in BOOLEAN
    BY <1>3
  <2>3. to \in Parsing \cup {"drain", "fetch", "cell"}
    OBVIOUS
  <2> QED
    BY <1>1, <1>2, <1>3, <2>1, <2>2, <2>3, GoFlow DEF Inv
<1>6. PlaceInv'
  <2>1. PlaceInv /\ pc # "idle" /\ UNCHANGED <<mode, batch, col>> /\ row' \in Row
    BY <1>1, <1>3 DEF Inv
  <2>2. to \in {"length", "value", "cell"} \/ col = 1
    OBVIOUS
  <2> QED
    BY <1>1, <2>1, <2>2, GoPlace
<1> QED
  BY <1>4, <1>5, <1>6 DEF Inv

\* A read that makes the call fail, which may leave a bit of validity set.
LEMMA CopyFails ==
  ASSUME Inv, NEW from \in Parsing, Takes(from), NEW b, Return("error", b), BatchOK(b), AllInline(b),
         NEW k \in Columns, Ragged(b, k), header' \in BOOLEAN, preflight' \in BOOLEAN, done' \in BOOLEAN
  PROVE  Inv'
<1>1. UNCHANGED <<source, history>>
  BY DEF Takes
<1>2. mode' = mode /\ eof' = eof /\ eof \in BOOLEAN
  BY <1>1 DEF source, history, Inv, FlowInv
<1>3. WireInv'
  BY TakesWire DEF Inv
<1>4. FlowInv'
  BY <1>1, <1>2, ReturnFlow DEF Inv
<1>5. PlaceInv'
  BY <1>2, ReturnPlace
<1> QED
  BY <1>3, <1>4, <1>5 DEF Inv

\* What a read of the COPY reader starts from.
LEMMA InCopy ==
  ASSUME Inv, NEW from \in Parsing, Takes(from)
  PROVE  /\ pc = from /\ pc # "idle" /\ mode.reader = "copy"
         /\ AllInline(batch) /\ BatchOK(batch) /\ col \in Columns /\ Ragged(batch, col)
         /\ pc \notin {"length", "value"} => col = 1
         /\ header \in BOOLEAN /\ preflight \in BOOLEAN /\ done \in BOOLEAN /\ ~done
         /\ len \in Nat /\ Taken \in Seq(Byte) /\ Len(Taken) = Needed
<1>1. pc = from /\ pc \in Parsing /\ pc # "idle" /\ pc # "cell" /\ pc # "drain"
  BY DEF Takes, Parsing
<1>2. mode.reader = "copy" /\ header \in BOOLEAN /\ preflight \in BOOLEAN /\ done \in BOOLEAN /\ ~done
  <2>1. FlowInv
    BY DEF Inv
  <2>2. mode.reader = "copy"
    BY <1>1, <2>1 DEF FlowInv
  <2>3. ~done
    BY <1>1, <2>1 DEF FlowInv
  <2> QED
    BY <2>1, <2>2, <2>3, Zenon DEF FlowInv
<1> QED
  BY <1>1, <1>2, TakesWire DEF Inv, PlaceInv

-----------------------------------------------------------------------------
(* The COPY reader keeps the invariant. *)

\* The signature of the header (parse_header) keeps the invariant.
LEMMA ReadSignatureInv ==
  ASSUME Inv, ReadSignature
  PROVE  Inv'
<1>1. Takes("signature") /\ UNCHANGED <<header, preflight, done>> /\ "signature" \in Parsing
  BY DEF ReadSignature, flags, Parsing
<1>2. /\ pc = "signature" /\ AllInline(batch) /\ BatchOK(batch) /\ col \in Columns /\ Ragged(batch, col)
      /\ col = 1 /\ len \in Nat /\ header \in BOOLEAN /\ preflight \in BOOLEAN /\ done \in BOOLEAN /\ ~done
  BY <1>1, InCopy
<1>3. CASE Taken = Signature
  <2>1. Go("flags") /\ UNCHANGED <<col, len, row, batch>> /\ "flags" \in Parsing \cup {"drain"}
    BY <1>3 DEF ReadSignature, place, Parsing
  <2> QED
    BY <1>1, <1>2, <2>1, CopyGoes
<1>4. CASE Taken # Signature
  <2>1. Return("error", batch)
    BY <1>4 DEF ReadSignature
  <2> QED
    BY <1>1, <1>2, <2>1, CopyFails
<1> QED
  BY <1>3, <1>4

\* So do its flags,
LEMMA ReadFlagsInv ==
  ASSUME Inv, ReadFlags
  PROVE  Inv'
<1>1. Takes("flags") /\ UNCHANGED <<header, preflight, done>> /\ "flags" \in Parsing
  BY DEF ReadFlags, flags, Parsing
<1>2. /\ pc = "flags" /\ AllInline(batch) /\ BatchOK(batch) /\ col \in Columns /\ Ragged(batch, col)
      /\ col = 1 /\ len \in Nat /\ header \in BOOLEAN /\ preflight \in BOOLEAN /\ done \in BOOLEAN /\ ~done
  BY <1>1, InCopy
<1>3. CASE Number = 0
  <2>1. Go("extension") /\ UNCHANGED <<col, len, row, batch>> /\ "extension" \in Parsing \cup {"drain"}
    BY <1>3 DEF ReadFlags, place, Parsing
  <2> QED
    BY <1>1, <1>2, <2>1, CopyGoes
<1>4. CASE Number # 0
  <2>1. Return("error", batch)
    BY <1>4 DEF ReadFlags
  <2> QED
    BY <1>1, <1>2, <2>1, CopyFails
<1> QED
  BY <1>3, <1>4

\* the length of its extension,
LEMMA ReadExtensionInv ==
  ASSUME Inv, ReadExtension
  PROVE  Inv'
<1>1. Takes("extension") /\ UNCHANGED <<header, preflight, done>> /\ "extension" \in Parsing
  BY DEF ReadExtension, flags, Parsing
<1>2. /\ pc = "extension" /\ AllInline(batch) /\ BatchOK(batch) /\ col \in Columns /\ Ragged(batch, col)
      /\ col = 1 /\ len \in Nat /\ header \in BOOLEAN /\ preflight \in BOOLEAN /\ done \in BOOLEAN /\ ~done
  BY <1>1, InCopy
<1>3. CASE Number \in 0..MaxExtension
  <2>1. /\ Go("skip") /\ UNCHANGED <<col, row, batch>> /\ len' = Number
        /\ "skip" \in Parsing \cup {"drain"}
    BY <1>3 DEF ReadExtension, Parsing
  <2>2. len' \in Nat
    BY <1>3, <2>1, WireAssumption
  <2> QED
    BY <1>1, <1>2, <2>1, <2>2, CopyGoes
<1>4. CASE Number \notin 0..MaxExtension
  <2>1. Return("error", batch)
    BY <1>4 DEF ReadExtension
  <2> QED
    BY <1>1, <1>2, <2>1, CopyFails
<1> QED
  BY <1>3, <1>4

\* and the extension, which is skipped.
LEMMA SkipInv ==
  ASSUME Inv, Skip
  PROVE  Inv'
<1>1. /\ Takes("skip") /\ header' = TRUE /\ UNCHANGED <<preflight, done, col, row, batch>> /\ len' = 0
      /\ "skip" \in Parsing /\ Go("count") /\ "count" \in Parsing \cup {"drain"}
  BY DEF Skip, Parsing
<1>2. /\ pc = "skip" /\ col = 1 /\ header \in BOOLEAN /\ preflight \in BOOLEAN /\ done \in BOOLEAN /\ ~done
  BY <1>1, InCopy
<1>3. header' \in BOOLEAN /\ len' \in Nat
  BY <1>1
<1> QED
  BY <1>1, <1>2, <1>3, CopyGoes

\* The number of fields of a row, or the trailer, keeps the invariant.
LEMMA ReadCountInv ==
  ASSUME Inv, ReadCount
  PROVE  Inv'
<1>1. /\ Takes("count") /\ UNCHANGED <<header, preflight>> /\ "count" \in Parsing
      /\ done' = (Number = -1)
  BY DEF ReadCount, Parsing
<1>2. /\ pc = "count" /\ AllInline(batch) /\ BatchOK(batch) /\ col \in Columns /\ Ragged(batch, col)
      /\ col = 1 /\ len \in Nat /\ header \in BOOLEAN /\ preflight \in BOOLEAN /\ done \in BOOLEAN /\ ~done
  BY <1>1, InCopy
<1>d. done' \in BOOLEAN
  BY <1>1, Zenon
<1>3. CASE Number = -1
  <2>1. Go("drain") /\ UNCHANGED <<col, len, row, batch>> /\ "drain" \in Parsing \cup {"drain"}
    BY <1>3 DEF ReadCount, place, Parsing
  <2> QED
    BY <1>1, <1>2, <1>d, <2>1, CopyGoes
<1>4. CASE Number # -1 /\ Number = Len(Schema)
  <2>1. Go("length") /\ UNCHANGED <<col, len, row, batch>> /\ "length" \in Parsing \cup {"drain"}
    BY <1>4 DEF ReadCount, place, Parsing
  <2>2. ~done'
    BY ONLY <1>1, <1>4, Zenon
  <2> QED
    BY <1>1, <1>2, <1>d, <2>1, <2>2, CopyGoes
<1>5. CASE Number # -1 /\ Number # Len(Schema)
  <2>1. Return("error", batch)
    BY <1>5 DEF ReadCount
  <2> QED
    BY <1>1, <1>2, <1>d, <2>1, CopyFails
<1> QED
  BY <1>3, <1>4, <1>5

\* A cell is stored.
LEMMA CopyStores ==
  ASSUME Inv, NEW from \in {"length", "value"}, Takes(from), UNCHANGED flags, NEW b, NEW v,
         Stores(batch, b, col, v), AllInline(b), Stored(b, "length", "count")
  PROVE  Inv'
<1>1. from \in Parsing /\ UNCHANGED <<header, preflight, done>> /\ UNCHANGED <<source, history>>
  BY DEF Takes, flags, Parsing
<1>2. /\ pc # "idle" /\ mode.reader = "copy"
      /\ header \in BOOLEAN /\ preflight \in BOOLEAN /\ done \in BOOLEAN /\ ~done
  BY <1>1, InCopy
<1>3. mode' = mode /\ eof' = eof /\ eof \in BOOLEAN
  BY <1>1 DEF source, history, Inv, FlowInv
<1>4. WireInv'
  BY TakesWire DEF Inv
<1>5. /\ PlaceInv' /\ pc' \in {"length", "count", "idle"} 
      /\ pc' = "idle" => returned' = "ok"
      /\ pc' # "idle" => returned' = returned
      /\ spoiled \in BOOLEAN => spoiled' = spoiled
  BY <1>2, <1>3, StoredPlace DEF Inv
<1>6. FlowInv'
  <2>1. FlowInv /\ mode' = mode /\ result' = result /\ calls' = calls
    BY <1>1 DEF history, Inv
  <2>2. spoiled' \in BOOLEAN /\ returned' \in {"ok", "error", "cancelled"}
    BY <1>5, <2>1 DEF FlowInv
  <2>3. /\ pc' \in Parsing \cup {"idle", "drain", "fetch", "cell"}
        /\ ~(pc' \in {"fetch", "cell"})
    BY <1>5 DEF Parsing
  <2>4. eof' \in BOOLEAN /\ header' \in BOOLEAN /\ preflight' \in BOOLEAN /\ done' \in BOOLEAN /\ ~done'
    BY <1>1, <1>2, <1>3
  <2> QED
    BY <1>2, <2>1, <2>2, <2>3, <2>4, Zenon DEF FlowInv
<1> QED
  BY <1>4, <1>5, <1>6 DEF Inv

\* So does the length of a field: NULL, too long, of the wrong size or to be read.
LEMMA ReadLengthInv ==
  ASSUME Inv, ReadLength
  PROVE  Inv'
<1> DEFINE present == SetValidity(batch, col, TRUE)
<1>1. Takes("length") /\ UNCHANGED flags /\ UNCHANGED <<header, preflight, done>> /\ "length" \in Parsing
  BY DEF ReadLength, flags, Parsing
<1>2. /\ pc = "length" /\ pc # "idle" /\ mode.reader = "copy" /\ PlaceInv
      /\ AllInline(batch) /\ BatchOK(batch) /\ col \in Columns /\ Ragged(batch, col)
      /\ header \in BOOLEAN /\ preflight \in BOOLEAN /\ done \in BOOLEAN /\ ~done
  BY <1>1, InCopy DEF Inv
<1>3. BatchOK(present) /\ present.rows = batch.rows /\ Ragged(present, col) /\ AllInline(present)
  BY <1>2, MarkedPlace
<1>4. CASE Number = -1
  <2>1. Stored(PushNull(batch, col), "length", "count")
    BY <1>4 DEF ReadLength
  <2>2. Stores(batch, PushNull(batch, col), col, Null) /\ AllInline(PushNull(batch, col))
    BY <1>2, NullStores
  <2> QED
    BY <1>1, <2>1, <2>2, CopyStores
<1>5. CASE Number # -1 /\ (Number < -1 \/ Number > MaxField)
  <2>1. Return("error", batch)
    BY <1>5 DEF ReadLength
  <2> QED
    BY <1>1, <1>2, <2>1, CopyFails
<1>6. CASE Number # -1 /\ ~(Number < -1 \/ Number > MaxField) /\ ~IsVar(Schema[col]) /\ Number # 2
  <2>1. Return("error", present)
    BY <1>6 DEF ReadLength
  <2> HIDE DEF present
  <2> QED
    BY <1>1, <1>2, <1>3, <2>1, CopyFails
<1>7. CASE Number # -1 /\ ~(Number < -1 \/ Number > MaxField) /\ ~(~IsVar(Schema[col]) /\ Number # 2)
  <2>1. Go("value") /\ len' = Number /\ batch' = present /\ col' = col /\ row' = row
    BY <1>7 DEF ReadLength
  <2>2. Number \in Nat
    <3>1. Needed = 2
      BY <1>2 DEF Needed
    <3>2. Taken \in Seq(Byte) /\ Len(Taken) = 2
      BY <1>1, <3>1, InCopy
    <3>3. Number \in Int
      BY <3>2, NumberTyped DEF Number
    <3> QED
      BY <1>7, <3>3
  <2>3. UNCHANGED <<source, history>> /\ pc' = "value" /\ returned' = returned /\ spoiled' = spoiled
    BY <1>1, <2>1 DEF Takes, Go
  <2>4. mode' = mode /\ eof' = eof /\ eof \in BOOLEAN /\ row \in Row /\ batch.rows < Capacity
    BY <1>2, <2>3 DEF source, history, Inv, FlowInv, PlaceInv
  <2>5. WireInv'
    BY <1>1, TakesWire DEF Inv
  <2>6. FlowInv'
    <3>1. "value" \in Parsing \cup {"drain", "fetch", "cell"} /\ ~("value" \in {"fetch", "cell"})
      BY DEF Parsing
    <3>2. /\ FlowInv /\ UNCHANGED history /\ eof' \in BOOLEAN /\ header' \in BOOLEAN /\ preflight' \in BOOLEAN
          /\ done' \in BOOLEAN /\ ~done'
      BY <1>1, <1>2, <2>3, <2>4 DEF Inv
    <3> QED
      BY <1>2, <2>3, <3>1, <3>2, GoFlow
  <2> HIDE DEF present
  <2>7. PlaceInv'
    BY <1>2, <1>3, <2>1, <2>2, <2>3, <2>4 DEF PlaceInv
  <2> QED
    BY <2>5, <2>6, <2>7 DEF Inv
<1> QED
  BY <1>4, <1>5, <1>6, <1>7

\* So does a field: accepted and stored, or not.
LEMMA ReadValueInv ==
  ASSUME Inv, ReadValue
  PROVE  Inv'
<1>1. Takes("value") /\ UNCHANGED flags /\ UNCHANGED <<header, preflight, done>> /\ "value" \in Parsing
  BY DEF ReadValue, flags, Parsing
<1>2. /\ pc = "value" /\ pc # "idle" /\ mode.reader = "copy" /\ PlaceInv /\ Taken \in Seq(Byte)
      /\ AllInline(batch) /\ BatchOK(batch) /\ col \in Columns /\ Ragged(batch, col)
      /\ header \in BOOLEAN /\ preflight \in BOOLEAN /\ done \in BOOLEAN /\ ~done
  BY <1>1, InCopy DEF Inv
<1>3. CASE Accepted(Schema[col], Taken, mode.utf8)
  <2> DEFINE value == Value(Schema[col], Taken)  b == Push(batch, col, value, AppendVar)
  <2>1. Stored(b, "length", "count")
    BY <1>3 DEF ReadValue
  <2>2. Stores(batch, b, col, value) /\ AllInline(b)
    BY <1>2, <1>3, AppendedStores
  <2> HIDE DEF b, value
  <2> QED
    BY <1>1, <2>1, <2>2, CopyStores
<1>4. CASE ~Accepted(Schema[col], Taken, mode.utf8)
  <2>1. Return("error", batch)
    BY <1>4 DEF ReadValue
  <2> QED
    BY <1>1, <1>2, <2>1, CopyFails
<1> QED
  BY <1>3, <1>4

-----------------------------------------------------------------------------
(* Waiting, and the row-wise reader. *)

\* A call clears the batch, whatever the last one left in it.
LEMMA CallInv ==
  ASSUME Inv, Call
  PROVE  Inv'
<1>1. /\ pc = "idle" /\ calls < MaxCalls /\ calls' = calls + 1
      /\ UNCHANGED <<wire, rowStream, eof, buf, pos, header, preflight, done, col, len, row, spoiled,
                     result, mode>>
      /\ batch' = Prepare(batch) /\ returned' = IF done THEN "ok" ELSE returned
  BY DEF Call, source, buffer, flags, place
<1>2. WireInv /\ FlowInv /\ PlaceInv
  BY DEF Inv
<1>3. WireInv'
  BY <1>1, <1>2, SameWire
<1>4. batch' = NewBatch
  BY <1>1, <1>2, NewBatchOK DEF PlaceInv, BatchOK
<1>5. mode.reader \in {"copy", "row"} /\ done \in BOOLEAN /\ col = 1
  BY <1>1, <1>2 DEF FlowInv, PlaceInv
<1>6. /\ done => pc' = "idle"
      /\ ~done /\ mode.reader = "row" => pc' = "fetch"
      /\ ~done /\ mode.reader = "copy" => pc' \in {"count", "signature"}
  BY <1>5 DEF Call
<1>7. /\ pc' \in Parsing \cup {"idle", "drain", "fetch", "cell"}
      /\ pc' \in Parsing \cup {"drain"} => mode.reader = "copy"
      /\ pc' \in {"fetch", "cell"} => mode.reader = "row"
      /\ done => pc' \in {"idle", "drain"}
      /\ pc' \notin {"length", "value", "cell"}
      /\ pc' = "idle" => done
  BY <1>5, <1>6 DEF Parsing
<1>8. calls' \in 0..MaxCalls
  BY <1>1, <1>2, WireAssumption DEF FlowInv
<1>9. FlowInv'
  <2>1. returned' \in {"ok", "error", "cancelled"}
    BY <1>1, <1>2 DEF FlowInv
  <2> QED
    BY <1>1, <1>2, <1>7, <1>8, <2>1, Zenon DEF FlowInv
<1>10. PlaceInv'
  <2>1. NewBatch.rows < Capacity
    BY NewBatchOK, CapacityFact
  <2> QED
    BY <1>1, <1>2, <1>4, <1>5, <1>7, <2>1, NewBatchOK DEF PlaceInv
<1> QED
  BY <1>3, <1>9, <1>10 DEF Inv

\* A piece of the stream moves to the buffer; what is left to parse is the same.
LEMMA ReceiveInv ==
  ASSUME Inv, Receive
  PROVE  Inv' /\ Rest' = Rest
<1>1. PICK n \in 1..Len(wire) : /\ buf' = buf \o SubSeq(wire, 1, n)
                                /\ wire' = SubSeq(wire, n + 1, Len(wire))
  BY DEF Receive
<1>2. /\ wire \in Seq(Byte) /\ buf \in Seq(Byte) /\ pos \in 0..Len(buf) /\ rowStream \in Seq(Row)
      /\ pos' = pos /\ rowStream' = rowStream /\ Len(wire) \in Nat /\ Len(buf) \in Nat
  BY DEF Inv, WireInv, Receive
<1>3. PICK front, back : front = SubSeq(wire, 1, n) /\ back = SubSeq(wire, n + 1, Len(wire))
  OBVIOUS
<1>4. front \in Seq(Byte) /\ back \in Seq(Byte)
  BY ONLY <1>2, <1>3, n \in 1..Len(wire), SubSeqTyped
<1>5. front \o back = wire
  BY <1>2, <1>3, SubSeqSplit
<1>6. buf \o front \in Seq(Byte) /\ Len(buf \o front) = Len(buf) + Len(front) /\ Len(front) \in Nat
  BY ONLY <1>2, <1>4, ConcatHead
<1>7. WireInv'
  <2>1. buf' = buf \o front /\ wire' = back
    BY <1>1, <1>3
  <2>2. Len(buf') = Len(buf) + Len(front)
    BY ONLY <1>6, <2>1
  <2>3. pos' \in 0..Len(buf')
    BY ONLY <1>2, <1>6, <2>2
  <2> QED
    BY ONLY <1>2, <1>4, <1>6, <2>1, <2>3 DEF WireInv
<1>8. Rest' = Rest
  <2>1. PICK all : all = SubSeq(buf, pos + 1, Len(buf))
    OBVIOUS
  <2>2. all \in Seq(Byte)
    BY ONLY <1>2, <2>1, Slices
  <2>3. SubSeq(buf \o front, pos + 1, Len(buf \o front)) = all \o front
    <3>1. PICK s, l : s = buf /\ l = Len(buf)
      OBVIOUS
    <3>2. s \in Seq(Byte) /\ l \in Nat /\ l = Len(s) /\ pos \in 0..l
      BY <1>2, <3>1
    <3>3. SubSeq(s \o front, pos + 1, Len(s \o front)) = SubSeq(s, pos + 1, Len(s)) \o front
      BY <1>4, <3>2, SubSeqOnward
    <3> QED
      BY <2>1, <3>1, <3>3
  <2>4. (all \o front) \o back = all \o (front \o back)
    <3>1. Cat(Cat(all, front), back) = Cat(all, Cat(front, back))
      BY ONLY <1>4, <2>2, CatAssoc
    <3> QED
      BY ONLY <3>1 DEF Cat
  <2> QED
    BY <1>1, <1>2, <1>3, <1>5, <2>1, <2>3, <2>4 DEF Rest
<1>9. UNCHANGED <<eof, header, preflight, done, pc, col, len, row, batch, returned, spoiled, history>>
  BY DEF Receive, flags, place
<1>10. FlowInv' /\ PlaceInv'
  BY <1>9 DEF Inv, FlowInv, PlaceInv, history, BatchOK, AllInline, Ragged
<1> QED
  BY <1>7, <1>8, <1>10 DEF Inv

\* A call that returns and leaves the batch as it is.
LEMMA ReturnsInv ==
  ASSUME Inv, NEW how \in {"ok", "error", "cancelled"}, Return(how, batch), UNCHANGED history, WireInv',
         pc # "idle", how = "ok" => col = 1,
         eof' \in BOOLEAN, header' \in BOOLEAN, preflight' \in BOOLEAN, done' \in BOOLEAN
  PROVE  Inv'
<1>1. FlowInv'
  BY ReturnFlow DEF Inv
<1>2. PlaceInv'
  BY ReturnsBatch DEF Inv, history
<1> QED
  BY <1>1, <1>2 DEF Inv

\* What a step that waits starts from.
LEMMA FlowFacts ==
  ASSUME Inv
  PROVE  /\ eof \in BOOLEAN /\ header \in BOOLEAN /\ preflight \in BOOLEAN /\ done \in BOOLEAN
         /\ WireInv /\ wire \in Seq(Byte) /\ rowStream \in Seq(Row)
         /\ pc \notin {"length", "value", "cell"} => col = 1
         /\ Starving => pc # "idle"
         /\ Awaiting => pc # "idle"
<1>1. pc \in Parsing => pc # "idle"
  BY DEF Parsing
<1>2. Starving => pc # "idle"
  BY <1>1 DEF Starving
<1>3. Awaiting => pc # "idle"
  BY <1>2 DEF Awaiting
<1> QED
  BY <1>2, <1>3 DEF Inv, FlowInv, WireInv, PlaceInv

\* The end of the stream, where more was expected, keeps the invariant.
LEMMA EndOfStreamInv ==
  ASSUME Inv, EndOfStream
  PROVE  Inv'
<1>1. /\ Starving /\ eof' = TRUE /\ Return("error", batch) /\ UNCHANGED history
      /\ UNCHANGED <<wire, rowStream, buf, pos, header, preflight, done>>
  BY DEF EndOfStream, buffer, flags
<1>2. WireInv'
  BY <1>1, SameWire DEF Inv
<1> QED
  BY <1>1, <1>2, FlowFacts, ReturnsInv

\* So does a call that is cancelled,
LEMMA CancelInv ==
  ASSUME Inv, Cancel
  PROVE  Inv'
<1>1. /\ Awaiting /\ Return("cancelled", batch) /\ UNCHANGED history
      /\ UNCHANGED <<wire, rowStream, eof, buf, pos, header, preflight, done>>
  BY DEF Cancel, source, buffer, flags
<1>2. WireInv'
  BY <1>1, SameWire DEF Inv
<1> QED
  BY <1>1, <1>2, FlowFacts, ReturnsInv

\* and an error of the stream.
LEMMA StreamErrorInv ==
  ASSUME Inv, StreamError
  PROVE  Inv'
<1>1. /\ Awaiting /\ Return("error", batch) /\ UNCHANGED history
      /\ wire' = <<>> /\ rowStream' = <<>>
      /\ UNCHANGED <<eof, buf, pos, header, preflight, done>>
  BY DEF StreamError, buffer, flags
<1>2. WireInv'
  BY <1>1 DEF Inv, WireInv
<1> QED
  BY <1>1, <1>2, FlowFacts, ReturnsInv

\* What follows the trailer is thrown away, piece by piece.
LEMMA DrainInv ==
  ASSUME Inv, Drain
  PROVE  Inv'
<1>1. /\ pc = "drain" /\ pc # "idle" /\ UNCHANGED history /\ col = 1
      /\ UNCHANGED <<rowStream, buf, pos, header, preflight, done>>
  BY FlowFacts DEF Drain, buffer, flags
<1>2. CASE wire = <<>>
  <2>1. Return("ok", batch) /\ eof' = TRUE /\ wire' = wire
    BY <1>2 DEF Drain
  <2>2. WireInv'
    BY <1>1, <2>1, SameWire DEF Inv
  <2> QED
    BY <1>1, <2>1, <2>2, FlowFacts, ReturnsInv
<1>3. CASE wire # <<>>
  <2>1. PICK n \in 1..Len(wire) : wire' = SubSeq(wire, n + 1, Len(wire))
    BY <1>3 DEF Drain
  <2>2. Go("drain") /\ UNCHANGED <<eof, col, len, row, batch>>
    BY <1>3 DEF Drain, place
  <2>3. wire' \in Seq(Byte)
    <3>1. wire \in Seq(Byte) /\ Len(wire) \in Nat /\ n \in 0..Len(wire)
      BY FlowFacts
    <3>2. SubSeq(wire, n + 1, Len(wire)) \in Seq(Byte)
      BY ONLY <3>1, Slices
    <3> QED
      BY <2>1, <3>2
  <2>4. WireInv'
    BY <1>1, <2>3 DEF Inv, WireInv
  <2>5. mode.reader = "copy" /\ row \in Row /\ len \in Nat
    BY <1>1 DEF Inv, FlowInv, PlaceInv
  <2>6. FlowInv'
    BY <1>1, <2>2, <2>5, FlowFacts, GoFlow DEF Go, Inv
  <2>7. PlaceInv'
    BY <1>1, <2>2, <2>5, GoPlace DEF Inv, history
  <2> QED
    BY <2>4, <2>6, <2>7 DEF Inv
<1> QED
  BY <1>2, <1>3

\* A row of the row-wise reader, and its check, keep the invariant.
LEMMA FetchRowInv ==
  ASSUME Inv, FetchRow
  PROVE  Inv'
<1>1. /\ pc = "fetch" /\ pc # "idle" /\ UNCHANGED history /\ col = 1 /\ rowStream # <<>>
      /\ UNCHANGED <<wire, eof, buf, pos, header, done>> /\ rowStream' = Tail(rowStream)
  BY FlowFacts DEF FetchRow, buffer
<1>2. Head(rowStream) \in Row /\ Tail(rowStream) \in Seq(Row)
  BY <1>1, FlowFacts, HeadTailProperties
<1>3. WireInv'
  BY <1>1, <1>2 DEF Inv, WireInv
<1>4. CASE PreflightFails(Head(rowStream))
  <2>1. Return("error", batch) /\ preflight' = preflight
    BY <1>4 DEF FetchRow
  <2> QED
    BY <1>1, <1>3, <2>1, FlowFacts, ReturnsInv
<1>5. CASE ~PreflightFails(Head(rowStream))
  <2>1. Go("cell") /\ row' = Head(rowStream) /\ preflight' = TRUE /\ UNCHANGED <<col, len, batch>>
    BY <1>5 DEF FetchRow
  <2>2. mode.reader = "row" /\ row' \in Row /\ len' \in Nat /\ ~done
    BY <1>1, <1>2, <2>1 DEF Inv, FlowInv, PlaceInv
  <2>3. ~("cell" \in Parsing \cup {"drain"}) /\ "cell" \in Parsing \cup {"drain", "fetch", "cell"}
    BY DEF Parsing
  <2>4. preflight' \in BOOLEAN
    BY <2>1
  <2>5. FlowInv'
    BY <1>1, <2>1, <2>2, <2>3, <2>4, FlowFacts, GoFlow DEF Go, Inv
  <2>6. PlaceInv'
    BY <1>1, <2>1, <2>2, GoPlace DEF Inv, history
  <2> QED
    BY <1>3, <2>5, <2>6 DEF Inv
<1> QED
  BY <1>4, <1>5

\* So does the end of the rows.
LEMMA RowsEndInv ==
  ASSUME Inv, RowsEnd
  PROVE  Inv'
<1>1. /\ pc = "fetch" /\ pc # "idle" /\ UNCHANGED history /\ col = 1 /\ Return("ok", batch)
      /\ UNCHANGED <<wire, rowStream, buf, pos, header, preflight>> /\ eof' = TRUE /\ done' = TRUE
  BY FlowFacts DEF RowsEnd, buffer
<1>2. WireInv'
  BY <1>1, SameWire DEF Inv
<1> QED
  BY <1>1, <1>2, FlowFacts, ReturnsInv

\* The row-wise reader stores a cell.
LEMMA RowStores ==
  ASSUME Inv, pc = "cell", UNCHANGED <<source, buffer, flags, history>>, NEW b, NEW v,
         Stores(batch, b, col, v), Stored(b, "cell", "fetch")
  PROVE  Inv'
<1>1. /\ pc # "idle" /\ mode.reader = "row" /\ mode.reader # "copy" /\ mode' = mode /\ ~done
      /\ UNCHANGED <<wire, rowStream, eof, buf, pos, header, preflight, done, calls, result>>
  BY DEF Inv, FlowInv, source, buffer, flags, history
<1>2. WireInv'
  BY <1>1, SameWire DEF Inv
<1>3. /\ PlaceInv' /\ pc' \in {"cell", "fetch", "idle"}
      /\ pc' = "idle" => returned' = "ok"
      /\ pc' # "idle" => returned' = returned
      /\ spoiled \in BOOLEAN => spoiled' = spoiled
  BY <1>1, StoredPlace DEF Inv
<1>4. FlowInv'
  <2>1. FlowInv
    BY DEF Inv
  <2>2. spoiled' \in BOOLEAN /\ returned' \in {"ok", "error", "cancelled"}
    BY <1>3, <2>1 DEF FlowInv
  <2>3. /\ pc' \in Parsing \cup {"idle", "drain", "fetch", "cell"}
        /\ ~(pc' \in Parsing \cup {"drain"})
    BY <1>3 DEF Parsing
  <2> QED
    BY <1>1, <2>1, <2>2, <2>3, Zenon DEF FlowInv
<1> QED
  BY <1>2, <1>3, <1>4 DEF Inv

\* A cell keeps the invariant: missing, NULL, accepted or not.
LEMMA StoreCellInv ==
  ASSUME Inv, StoreCell
  PROVE  Inv'
<1>1. pc = "cell" /\ pc # "idle" /\ UNCHANGED <<source, buffer, flags, history>> /\ PlaceInv
  BY DEF StoreCell, Inv
<1>2. /\ UNCHANGED <<wire, rowStream, eof, buf, pos, header, preflight, done>> /\ mode' = mode
      /\ mode.reader # "copy"
  BY <1>1 DEF source, buffer, flags, history, Inv, FlowInv
<1>3. WireInv'
  BY <1>2, SameWire DEF Inv
<1>4. CASE col > Len(row)
  <2>1. Return("error", batch)
    BY <1>4 DEF StoreCell
  <2> QED
    BY <1>1, <1>2, <1>3, <2>1, FlowFacts, ReturnsInv
<1>5. CASE ~(col > Len(row))
  <2>1. row[col] \in Cells
    <3>1. row \in Row /\ col \in Columns
      BY <1>1 DEF PlaceInv
    <3>2. col \in Nat /\ col > 0
      BY <3>1 DEF Columns
    <3> QED
      BY <1>5, <3>1, <3>2 DEF Row
  <2>2. CASE row[col] = Null
    <3>1. Stored(PushNull(batch, col), "cell", "fetch")
      BY <1>5, <2>2 DEF StoreCell
    <3>2. Stores(batch, PushNull(batch, col), col, Null)
      BY <1>1, NullStores
    <3> QED
      BY <1>1, <3>1, <3>2, RowStores
  <2>3. CASE row[col] # Null /\ Accepted(Schema[col], row[col], TRUE)
    <3> DEFINE value == Value(Schema[col], row[col])  b == Push(batch, col, value, PushVar)
    <3>1. Stored(b, "cell", "fetch")
      BY <1>5, <2>3 DEF StoreCell
    <3>2. row[col] \in Seq(Byte)
      BY <2>1, <2>3 DEF Cells
    <3>3. Stores(batch, b, col, value)
      BY <1>1, <2>3, <3>2, PushedStores
    <3> HIDE DEF b, value
    <3> QED
      BY <1>1, <3>1, <3>3, RowStores
  <2>4. CASE row[col] # Null /\ ~Accepted(Schema[col], row[col], TRUE)
    <3>1. PICK b : b = IF Fits(Schema[col], row[col], TRUE) THEN SetValidity(batch, col, TRUE) ELSE batch
      OBVIOUS
    <3>2. Return("error", b)
      BY <1>5, <2>4, <3>1 DEF StoreCell
    <3>3. BatchOK(b) /\ Ragged(b, col) /\ col \in Columns
      BY <1>1, <3>1, MarkedPlace DEF PlaceInv
    <3>4. PlaceInv'
      BY <1>2, <3>2, <3>3, ReturnPlace
    <3>5. FlowInv'
      BY <1>1, <1>2, <3>2, FlowFacts, ReturnFlow DEF Inv
    <3> QED
      BY <1>3, <3>4, <3>5 DEF Inv
  <2> QED
    BY <1>5, <2>2, <2>3, <2>4
<1> QED
  BY <1>4, <1>5

\* Every step keeps the invariant.
LEMMA NextInv == Inv /\ [Next]_vars => Inv'
<1> SUFFICES ASSUME Inv, [Next]_vars PROVE Inv'
  OBVIOUS
<1>1. CASE UNCHANGED vars
  BY <1>1 DEF vars, source, buffer, flags, place, history, Inv, WireInv, FlowInv, PlaceInv, BatchOK,
              AllInline, Ragged
<1>2. CASE Next
  <2>1. CASE Advance
    BY <2>1, ReceiveInv, EndOfStreamInv, ReadSignatureInv, ReadFlagsInv, ReadExtensionInv, SkipInv,
       ReadCountInv, ReadLengthInv, ReadValueInv, DrainInv, FetchRowInv, RowsEndInv, StoreCellInv
       DEF Advance
  <2>2. CASE Finished
    BY <1>1, <2>2 DEF Finished
  <2> QED
    BY <1>2, <2>1, <2>2, CallInv, StreamErrorInv, CancelInv DEF Next
<1> QED
  BY <1>1, <1>2

\* The inductive invariant of next_batch_into (columnar/types.rs), for either reader, any
\* schema, result, cut of the stream, and any cancelled or failed calls: the batch has
\* whole rows and the cells of the one under way before col.
THEOREM Invariant == Spec => []Inv
<1>1. Inv /\ [Next]_vars => Inv'
  BY NextInv
<1> QED
  BY InitInv, <1>1, PTL DEF Spec

-----------------------------------------------------------------------------
(* What follows from the invariant. *)

\* The readers' state is well typed: next_batch_into leaves pos within the buffer.
THEOREM TypeCorrect == Spec => []TypeOK
<1>1. Inv => TypeOK
  <2> SUFFICES ASSUME Inv PROVE TypeOK
    OBVIOUS
  <2>1. WireInv /\ FlowInv /\ PlaceInv
    BY DEF Inv
  <2>2. batch.rows \in 0..Capacity /\ DOMAIN batch.cols = Columns /\ col \in Columns /\ len \in Nat
    BY <2>1 DEF PlaceInv, BatchOK, Batch
  <2> QED
    BY <2>1, <2>2, Zenon DEF WireInv, FlowInv, TypeOK
<1> QED
  BY <1>1, Invariant, PTL

\* A batch with whole rows and one under way can be read.
LEMMA InvBatchSound == Inv => BatchSound
<1> SUFFICES ASSUME Inv PROVE BatchSound
  OBVIOUS
<1>1. /\ BatchOK(batch) /\ col \in Columns
      /\ IF pc = "idle"
         THEN \E k \in Columns : Ragged(batch, k) /\ (returned = "ok" => k = 1)
         ELSE Ragged(batch, col)
  BY DEF Inv, PlaceInv
<1>2. PICK k \in Columns : Ragged(batch, k) /\ (pc = "idle" /\ returned = "ok" => k = 1)
  BY <1>1
<1>3. \A n \in Columns : Entries(Schema[n], batch.cols[n]) = batch.rows + (IF n < k THEN 1 ELSE 0)
  BY <1>2 DEF Ragged
<1>4. batch.rows \in Nat /\ \A n \in Columns : n \in Nat /\ n >= 1
  BY <1>1, BatchFacts, CapacityFact DEF Columns
<1>5. ASSUME NEW n \in Columns PROVE Entries(Schema[n], batch.cols[n]) \in batch.rows..(batch.rows + 1)
  BY <1>3, <1>4
<1>6. ASSUME NEW n \in Columns, NEW m \in Columns, m < n
      PROVE  Entries(Schema[m], batch.cols[m]) >= Entries(Schema[n], batch.cols[n])
  <2>1. n < k => m < k
    BY <1>4, <1>6
  <2> QED
    BY <1>3, <1>4, <2>1
<1>7. ASSUME NEW n \in Columns, IsVar(Schema[n])
      PROVE  LET c == batch.cols[n] IN
             /\ c.offsets[1] = 0
             /\ \A i \in 1..Entries(Schema[n], c) : c.offsets[i] <= c.offsets[i + 1]
             /\ c.offsets[Len(c.offsets)] = c.total /\ c.total = Len(Coalesced(c))
             /\ c.total <= MaxTotal
  <2>1. OffsetsOK(batch.cols[n]) /\ Entries(Schema[n], batch.cols[n]) = Len(batch.cols[n].offsets) - 1
    BY <1>1, <1>7 DEF BatchOK, Entries
  <2> QED
    BY <2>1 DEF OffsetsOK, Ordered
<1>8. ASSUME pc = "idle", returned = "ok", NEW n \in Columns
      PROVE  Entries(Schema[n], batch.cols[n]) = batch.rows
  <2>1. k = 1 /\ ~(n < k)
    BY <1>2, <1>4, <1>8
  <2> QED
    BY <1>3, <1>4, <2>1
<1> QED
  BY <1>5, <1>6, <1>7, <1>8 DEF BatchSound

\* Whatever failed or was cancelled before, a caller can read the batch: every row it
\* counts is in every column, and the offsets lie in the bytes (ColumnarBatch).
THEOREM BatchIsSound == Spec => []BatchSound
BY InvBatchSound, Invariant, PTL

\* The end is not reported while there is something to parse.
LEMMA NotDone ==
  ASSUME Inv, pc \in Parsing \cup {"fetch", "cell"}
  PROVE  done = FALSE
<1>1. pc # "idle" /\ pc # "drain"
  BY DEF Parsing
<1> QED
  BY <1>1, Zenon DEF Inv, FlowInv

\* A call that returns Ok with the end has polled the stream to its end.
LEMMA StepConsumes ==
  ASSUME Inv, Next
  PROVE  pc # "idle" /\ pc' = "idle" /\ returned' = "ok" /\ done' => eof'
<1> SUFFICES ASSUME pc # "idle", pc' = "idle", returned' = "ok", done' PROVE eof'
  OBVIOUS
<1>1. CASE Drain
  BY <1>1 DEF Drain, Go
<1>2. CASE RowsEnd
  BY <1>2 DEF RowsEnd
<1>3. ASSUME pc \in Parsing \cup {"fetch", "cell"}, UNCHANGED done PROVE FALSE
  BY <1>3, NotDone
<1>4. CASE ReadLength \/ ReadValue \/ StoreCell
  <2>1. pc \in Parsing \cup {"fetch", "cell"} /\ UNCHANGED done
    BY <1>4 DEF ReadLength, ReadValue, StoreCell, Takes, flags, Parsing
  <2> QED
    BY <1>3, <2>1
<1>5. CASE \/ EndOfStream \/ ReadSignature \/ ReadFlags \/ ReadExtension \/ ReadCount \/ FetchRow
           \/ StreamError \/ Cancel
  BY <1>5 DEF EndOfStream, ReadSignature, ReadFlags, ReadExtension, ReadCount, FetchRow,
              StreamError, Cancel, Go, Return
<1>6. CASE Receive \/ Skip \/ Call \/ Finished
  BY <1>6 DEF Receive, Skip, Call, Finished, Go, vars
<1> QED
  BY <1>1, <1>2, <1>4, <1>5, <1>6 DEF Next, Advance

\* A call that finds the end of the rows and returns Ok has drained the stream
\* (drain_copy_out_to_eof), after any failures and cancellations before it.
THEOREM StreamIsConsumed == Spec => StreamConsumed
<1>1. Inv /\ [Next]_vars => [pc # "idle" /\ pc' = "idle" /\ returned' = "ok" /\ done' => eof']_vars
  BY StepConsumes
<1> QED
  BY <1>1, Invariant, PTL DEF Spec, StreamConsumed

-----------------------------------------------------------------------------
(* What the reader has read, while every call has returned Ok. *)

\* What a column shows of a row.
Shown(cells, n) ==
  IF cells[n] = Null THEN Null
  ELSE IF Fits(Schema[n], cells[n], mode.utf8 \/ mode.reader = "row") THEN Value(Schema[n], cells[n])
  ELSE Unreadable

\* The batch shows the rows after the first d.
Shows(b, d) ==
  /\ d + b.rows <= Len(result)
  /\ \A n \in Columns : \A r \in 1..Entries(Schema[n], b.cols[n]) :
        Cell(Schema[n], b.cols[n], r) = Shown(result[d + r], n)
  /\ \A r \in 1..b.rows : Readable(result[d + r])

\* What the rows of the result are delivered as.
Deliveries == {Expected(result[r]) : r \in 1..Len(result)}

\* Rows delivered, and rows read.
Given == Len(delivered)

\* Rows read.
Read == Given + batch.rows

\* The rows delivered and the batch.
Content ==
  /\ delivered \in Seq(Deliveries) /\ Given <= Len(result)
  /\ pc # "idle" => Shows(batch, Given)
  /\ done /\ pc = "idle" => Given = Len(result)
  /\ done /\ pc = "drain" => Read = Len(result)

\* The fields of a row from the c-th, and the rows after the first k.
Fieldwise(cells, c, k) == FlattenSeq(SubSeq(Fields(cells), c, Len(cells))) \o After(result, k)

\* What follows the flags, the length of the extension, and the signature.
Body(x) == x \o After(result, 0)

Lengthy(x) == ToBytes(Len(x)) \o Body(x)

Flagged(x) == ToBytes(0) \o Lengthy(x)

\* COPY: what is left of the stream.
CopyRest ==
  /\ pc \in {"count", "length", "value", "drain"} => header
  /\ pc = "drain" => done
  /\ pc \in {"signature", "flags", "extension", "skip"} => Read = 0
  /\ pc = "idle" /\ header /\ ~done => Rest = After(result, Given)
  /\ pc = "idle" /\ ~header => Given = 0
  /\ pc = "signature" \/ (pc = "idle" /\ ~header) => \E x \in Extensions : Rest = Signature \o Flagged(x)
  /\ pc = "flags" => \E x \in Extensions : Rest = Flagged(x)
  /\ pc = "extension" => \E x \in Extensions : Rest = Lengthy(x)
  /\ pc = "skip" => \E x \in Extensions : Rest = Body(x) /\ len = Len(x)
  /\ pc = "count" => Rest = After(result, Read)
  /\ pc \in {"length", "value"} => Read < Len(result) /\ Len(result[Read + 1]) = Len(Schema)
  /\ pc = "length" => Rest = Fieldwise(result[Read + 1], col, Read + 1)
  /\ pc = "value" =>
       LET cell == result[Read + 1][col] IN
       cell # Null /\ len = Len(cell) /\ Rest = cell \o Fieldwise(result[Read + 1], col + 1, Read + 1)

\* Row-wise: the rows that are left.
RowRest ==
  /\ pc = "idle" /\ ~done => rowStream = SubSeq(result, Given + 1, Len(result))
  /\ pc = "fetch" => rowStream = SubSeq(result, Read + 1, Len(result))
  /\ pc = "cell" =>
       /\ Read < Len(result) /\ row = result[Read + 1]
       /\ rowStream = SubSeq(result, Read + 2, Len(result))
       /\ preflight
  /\ preflight /\ mode.count => \A r \in 1..Len(result) : Len(result[r]) = Len(Schema)

\* The invariant of what is read, while every call has returned Ok.
ContentInv ==
  ~spoiled => /\ Content
              /\ mode.reader = "copy" => CopyRest
              /\ mode.reader = "row" => RowRest

-----------------------------------------------------------------------------
(* What is left, after a row and after a field. *)

\* After the last row comes the trailer.
LEMMA AfterEnd ==
  ASSUME NEW rows \in Results
  PROVE  After(rows, Len(rows)) = ToBytes(-1)
<1>1. PICK ts : ts = Tuples(rows) /\ ts \in Seq(Seq(Byte)) /\ Len(ts) = Len(rows) /\ Len(ts) \in Nat
  BY TuplesTyped
<1>2. SubSeq(ts, Len(ts) + 1, Len(ts)) = <<>>
  BY ONLY <1>1, SubSeqNone
<1>3. <<>> \o ToBytes(-1) = ToBytes(-1)
  BY ONLY TrailerTyped, ConcatEmpty
<1> QED
  BY ONLY <1>1, <1>2, <1>3, FlattenEmpty DEF After

\* After k rows comes the next one.
LEMMA AfterNext ==
  ASSUME NEW rows \in Results, NEW k \in 0..(Len(rows) - 1)
  PROVE  /\ After(rows, k) = Tuple(rows[k + 1]) \o After(rows, k + 1)
         /\ Tuple(rows[k + 1]) \in Seq(Byte) /\ After(rows, k + 1) \in Seq(Byte)
<1>1. PICK ts : ts = Tuples(rows) /\ ts \in Seq(Seq(Byte)) /\ Len(ts) = Len(rows) /\ Len(ts) \in Nat
  BY TuplesTyped
<1>2. PICK i : i = k + 1
  OBVIOUS
<1>3. i \in 1..Len(ts) /\ k + 1 \in 0..Len(rows)
  BY <1>1, <1>2
<1>4. PICK t : t = Tuple(rows[i])
  OBVIOUS
<1>5. ts[i] = t /\ t \in Seq(Byte)
  BY <1>1, <1>3, <1>4, ResultFacts, TupleTyped DEF Tuples
<1>6. PICK f, g : f = FlattenSeq(SubSeq(ts, i, Len(ts))) /\ g = FlattenSeq(SubSeq(ts, i + 1, Len(ts)))
  OBVIOUS
<1>7. f = ts[i] \o g
  BY ONLY <1>1, <1>3, <1>6, FlattenFrom
<1>8. g \in Seq(Byte)
  <2>1. PICK us : us = SubSeq(ts, i + 1, Len(ts))
    OBVIOUS
  <2>2. i + 1 \in Nat /\ i + 1 > 0 /\ Len(ts) <= Len(ts)
    BY <1>1, <1>3
  <2>3. us \in Seq(Seq(Byte))
    BY ONLY <1>1, <2>1, <2>2, SubSeqTyped
  <2> QED
    BY ONLY <1>6, <2>1, <2>3, FlattenType
<1>9. (t \o g) \o ToBytes(-1) = t \o (g \o ToBytes(-1))
  <2>1. Cat(Cat(t, g), ToBytes(-1)) = Cat(t, Cat(g, ToBytes(-1)))
    BY ONLY <1>5, <1>8, TrailerTyped, CatAssoc
  <2> QED
    BY ONLY <2>1 DEF Cat
<1>10. After(rows, k) = (t \o g) \o ToBytes(-1) /\ After(rows, k + 1) = g \o ToBytes(-1)
  BY ONLY <1>1, <1>2, <1>5, <1>6, <1>7 DEF After
<1>11. After(rows, k + 1) \in Seq(Byte)
  BY <1>3, AfterTyped
<1> QED
  BY ONLY <1>2, <1>4, <1>5, <1>9, <1>10, <1>11

\* The type of what is left within a row.
LEMMA FieldwiseTyped ==
  ASSUME NEW cells, Sendable(cells), NEW c \in 1..(Len(cells) + 1), NEW k \in 0..Len(result),
         result \in Results
  PROVE  /\ Fieldwise(cells, c, k) \in Seq(Byte)
         /\ FlattenSeq(SubSeq(Fields(cells), c, Len(cells))) \in Seq(Byte)
<1>1. PICK fs : fs = Fields(cells) /\ fs \in Seq(Seq(Byte)) /\ Len(fs) = Len(cells) /\ Len(fs) \in Nat
  BY FieldsTyped DEF Sendable, Row
<1>2. PICK us : us = SubSeq(fs, c, Len(cells))
  OBVIOUS
<1>3. c \in Nat /\ c > 0 /\ Len(cells) <= Len(fs) /\ Len(cells) \in Nat
  BY <1>1
<1>4. us \in Seq(Seq(Byte))
  BY ONLY <1>1, <1>2, <1>3, SubSeqTyped
<1>5. FlattenSeq(us) \in Seq(Byte)
  BY ONLY <1>4, FlattenType
<1>6. After(result, k) \in Seq(Byte)
  BY AfterTyped
<1>7. FlattenSeq(us) \o After(result, k) \in Seq(Byte)
  BY ONLY <1>5, <1>6, ConcatHead
<1> QED
  BY ONLY <1>1, <1>2, <1>5, <1>7 DEF Fieldwise

\* After the last field comes the next row.
LEMMA FieldwiseEnd ==
  ASSUME NEW cells, Sendable(cells), NEW k \in 0..Len(result), result \in Results
  PROVE  Fieldwise(cells, Len(cells) + 1, k) = After(result, k)
<1>1. PICK fs : fs = Fields(cells) /\ fs \in Seq(Seq(Byte)) /\ Len(fs) = Len(cells) /\ Len(fs) \in Nat
  BY FieldsTyped DEF Sendable, Row
<1>2. SubSeq(fs, Len(fs) + 1, Len(fs)) = <<>>
  BY ONLY <1>1, SubSeqNone
<1>3. After(result, k) \in Seq(Byte)
  BY AfterTyped
<1>4. <<>> \o After(result, k) = After(result, k)
  BY ONLY <1>3, ConcatEmpty
<1> QED
  BY ONLY <1>1, <1>2, <1>4, FlattenEmpty DEF Fieldwise

\* What is left within a row begins with its next field.
LEMMA FieldwiseNext ==
  ASSUME NEW cells, Sendable(cells), NEW c \in 1..Len(cells), NEW k \in 0..Len(result), result \in Results
  PROVE  Fieldwise(cells, c, k) = Field(cells[c]) \o Fieldwise(cells, c + 1, k)
<1>1. PICK fs : fs = Fields(cells) /\ fs \in Seq(Seq(Byte)) /\ Len(fs) = Len(cells) /\ Len(fs) \in Nat
  BY FieldsTyped DEF Sendable, Row
<1>2. PICK f, g, h, a : /\ f = FlattenSeq(SubSeq(fs, c, Len(fs))) /\ g = FlattenSeq(SubSeq(fs, c + 1, Len(fs)))
                        /\ h = Field(cells[c]) /\ a = After(result, k)
  OBVIOUS
<1>3. c \in 1..Len(fs) /\ c + 1 \in 1..(Len(cells) + 1)
  BY <1>1
<1>4. fs[c] = h
  BY <1>1, <1>2 DEF Fields
<1>5. f = fs[c] \o g
  BY ONLY <1>1, <1>2, <1>3, FlattenFrom
<1>6. cells[c] \in Cells /\ (cells[c] # Null => Len(cells[c]) <= MaxInt)
  BY DEF Sendable, Row
<1>7. h \in Seq(Byte) /\ a \in Seq(Byte) /\ g \in Seq(Byte)
  BY <1>1, <1>2, <1>3, <1>6, FieldTyped, AfterTyped, FieldwiseTyped
<1>8. (h \o g) \o a = h \o (g \o a)
  <2>1. Cat(Cat(h, g), a) = Cat(h, Cat(g, a))
    BY ONLY <1>7, CatAssoc
  <2> QED
    BY ONLY <2>1 DEF Cat
<1> QED
  BY ONLY <1>1, <1>2, <1>4, <1>5, <1>8 DEF Fieldwise

\* The first field, by what is read of it.
LEMMA FieldwiseParsed ==
  ASSUME NEW cells, Sendable(cells), NEW c \in 1..Len(cells), NEW k \in 0..Len(result), result \in Results
  PROVE  LET cell == cells[c]  rest == Fieldwise(cells, c + 1, k) IN
         /\ rest \in Seq(Byte)
         /\ cell = Null => Fieldwise(cells, c, k) = ToBytes(-1) \o rest
         /\ cell # Null => /\ cell \in Seq(Byte) /\ Len(cell) \in 0..MaxInt
                           /\ Fieldwise(cells, c, k) = ToBytes(Len(cell)) \o (cell \o rest)
<1>1. cells[c] \in Cells /\ (cells[c] # Null => Len(cells[c]) <= MaxInt)
  BY DEF Sendable, Row
<1>2. PICK cell, rest : cell = cells[c] /\ rest = Fieldwise(cells, c + 1, k)
  OBVIOUS
<1>3. Fieldwise(cells, c, k) = Field(cell) \o rest
  BY <1>2, FieldwiseNext
<1>4. rest \in Seq(Byte)
  <2>1. Len(cells) \in Nat
    BY DEF Sendable, Row
  <2>2. c + 1 \in 1..(Len(cells) + 1)
    BY <2>1
  <2> QED
    BY <1>2, <2>2, FieldwiseTyped
<1>5. CASE cell = Null
  <2>1. Field(cell) = ToBytes(-1)
    BY <1>5 DEF Field
  <2> QED
    BY ONLY <1>2, <1>3, <1>4, <1>5, <2>1
<1>6. CASE cell # Null
  <2>1. cell \in Seq(Byte) /\ Len(cell) \in 0..MaxInt /\ Field(cell) = ToBytes(Len(cell)) \o cell
    BY <1>1, <1>2, <1>6, FieldTyped
  <2>2. Len(cell) \in MinInt..MaxInt
    BY <2>1, Squares DEF MinInt
  <2>3. ToBytes(Len(cell)) \in Seq(Byte)
    BY <2>2, NumberSent
  <2>4. (ToBytes(Len(cell)) \o cell) \o rest = ToBytes(Len(cell)) \o (cell \o rest)
    <3>1. PICK n : n = ToBytes(Len(cell))
      OBVIOUS
    <3>2. n \in Seq(Byte) /\ cell \in Seq(Byte) /\ rest \in Seq(Byte)
      BY ONLY <1>4, <2>1, <2>3, <3>1
    <3>3. (n \o cell) \o rest = n \o (cell \o rest)
      <4>1. Cat(Cat(n, cell), rest) = Cat(n, Cat(cell, rest))
        BY ONLY <3>2, CatAssoc
      <4> QED
        BY ONLY <4>1 DEF Cat
    <3> QED
      BY ONLY <3>1, <3>3
  <2> QED
    BY ONLY <1>2, <1>3, <1>4, <1>6, <2>1, <2>4
<1> QED
  BY ONLY <1>5, <1>6

\* The next row, by what is read of it.
LEMMA AfterParsed ==
  ASSUME result \in Results, NEW k \in 0..(Len(result) - 1)
  PROVE  LET cells == result[k + 1]  rest == Fieldwise(cells, 1, k + 1) IN
         /\ Sendable(cells) /\ Len(cells) \in 0..MaxInt
         /\ rest \in Seq(Byte) /\ After(result, k) = ToBytes(Len(cells)) \o rest
<1>1. k + 1 \in 1..Len(result) /\ k + 1 \in 0..Len(result)
  BY TuplesTyped
<1>2. PICK cells : cells = result[k + 1]
  OBVIOUS
<1>3. Sendable(cells)
  BY <1>1, <1>2, ResultFacts
<1>4. Len(cells) \in 0..MaxInt
  BY <1>3, Squares DEF Sendable, Row
<1>5. PICK t, f, a, n : t = Tuple(cells) /\ f = FlattenSeq(Fields(cells)) /\ a = After(result, k + 1)
                        /\ n = ToBytes(Len(cells))
  OBVIOUS
<1>6. t = n \o f /\ f \in Seq(Byte)
  BY <1>3, <1>5, TupleTyped
<1>7. n \in Seq(Byte)
  <2>1. Len(cells) \in MinInt..MaxInt
    BY <1>4, Squares DEF MinInt
  <2> QED
    BY <1>5, <2>1, NumberSent
<1>8. After(result, k) = t \o a /\ a \in Seq(Byte)
  BY <1>2, <1>5, AfterNext
<1>9. (n \o f) \o a = n \o (f \o a)
  <2>1. Cat(Cat(n, f), a) = Cat(n, Cat(f, a))
    BY ONLY <1>6, <1>7, <1>8, CatAssoc
  <2> QED
    BY ONLY <2>1 DEF Cat
<1>10. Fieldwise(cells, 1, k + 1) = f \o a
  <2>1. PICK fs : fs = Fields(cells) /\ fs \in Seq(Seq(Byte)) /\ Len(fs) = Len(cells)
    BY <1>3, FieldsTyped
  <2>2. SubSeq(fs, 1, Len(fs)) = fs
    BY ONLY <2>1
  <2> QED
    BY ONLY <1>5, <2>1, <2>2 DEF Fieldwise
<1>11. f \o a \in Seq(Byte)
  BY ONLY <1>6, <1>8, ConcatHead
<1> QED
  BY ONLY <1>2, <1>3, <1>4, <1>5, <1>6, <1>8, <1>9, <1>10, <1>11

-----------------------------------------------------------------------------
(* What the batch shows. *)

\* A batch that stores the cell the result has there shows the result still.
LEMMA StoresShows ==
  ASSUME PlaceInv, pc # "idle", NEW d \in Nat, Shows(batch, d), Len(result) \in Nat,
         d + batch.rows < Len(result), NEW b, NEW v, Stores(batch, b, col, v),
         v = Shown(result[d + (batch.rows + 1)], col)
  PROVE  Shows(b, d)
<1>1. /\ col \in Columns /\ BatchOK(batch) /\ batch.rows \in Nat /\ b.rows = batch.rows
      /\ \A m \in Columns : m # col => b.cols[m] = batch.cols[m]
  BY BatchFacts, CapacityFact DEF PlaceInv, Stores
<1>2. PICK k : k = batch.rows
  OBVIOUS
<1>3. /\ Entries(Schema[col], b.cols[col]) = k + 1
      /\ \A r \in 1..k : Cell(Schema[col], b.cols[col], r) = Cell(Schema[col], batch.cols[col], r)
      /\ Cell(Schema[col], b.cols[col], k + 1) = v
  BY <1>2 DEF Stores, Grown
<1>4. Entries(Schema[col], batch.cols[col]) = k
  BY <1>1, <1>2, RaggedHere DEF PlaceInv
<1>5. ASSUME NEW n \in Columns, NEW r \in 1..Entries(Schema[n], b.cols[n])
      PROVE  Cell(Schema[n], b.cols[n], r) = Shown(result[d + r], n)
  <2>1. CASE n # col
    BY <1>1, <2>1 DEF Shows
  <2>2. CASE n = col /\ r = k + 1
    BY <1>2, <1>3, <2>2
  <2>3. CASE n = col /\ r # k + 1
    <3>1. r \in 1..k
      BY <1>1, <1>2, <1>3, <2>3
    <3>2. Cell(Schema[col], batch.cols[col], r) = Shown(result[d + r], col)
      BY <1>1, <1>4, <3>1 DEF Shows
    <3> QED
      BY <1>3, <2>3, <3>1, <3>2
  <2> QED
    BY <2>1, <2>2, <2>3
<1> QED
  BY <1>1, <1>5 DEF Shows

\* A row that is readable is counted.
LEMMA EndRowShows ==
  ASSUME NEW b, BatchOK(b), b.rows < Capacity, NEW d \in Nat, Shows(b, d), Len(result) \in Nat,
         d + b.rows < Len(result), Readable(result[d + (b.rows + 1)])
  PROVE  Shows(EndRow(b), d)
<1>1. BatchOK(EndRow(b)) /\ EndRow(b).rows = b.rows + 1 /\ EndRow(b).cols = b.cols /\ b.rows \in Nat
  BY EndRowOK, BatchFacts, CapacityFact DEF BatchOK, Batch
<1>2. ASSUME NEW r \in 1..(b.rows + 1) PROVE Readable(result[d + r])
  <2>1. CASE r = b.rows + 1
    BY <2>1
  <2>2. CASE r # b.rows + 1
    <3>1. r \in 1..b.rows
      BY <1>1, <2>2
    <3> QED
      BY <3>1 DEF Shows
  <2> QED
    BY <2>1, <2>2
<1>3. d + (b.rows + 1) <= Len(result)
  BY <1>1
<1> QED
  BY <1>1, <1>2, <1>3 DEF Shows

\* The rows of a batch that shows the result.
LEMMA RowsShown ==
  ASSUME NEW b, BatchOK(b), NEW k \in Columns, Ragged(b, k), NEW d \in Nat, Shows(b, d)
  PROVE  RowsOf(b) = [r \in 1..b.rows |-> Expected(result[d + r])]
<1>1. b.rows \in Nat
  BY CapacityFact DEF BatchOK, Batch
<1>2. ASSUME NEW r \in 1..b.rows
      PROVE  [n \in Columns |-> Cell(Schema[n], b.cols[n], r)] = Expected(result[d + r])
  <2>1. Readable(result[d + r])
    BY DEF Shows
  <2>2. ASSUME NEW n \in Columns PROVE Cell(Schema[n], b.cols[n], r) = Shown(result[d + r], n)
    <3>1. r \in 1..Entries(Schema[n], b.cols[n])
      BY <1>1 DEF Ragged
    <3> QED
      BY <3>1 DEF Shows
  <2>3. PICK cells : cells = result[d + r]
    OBVIOUS
  <2>4. Expected(cells) = [n \in Columns |-> Shown(cells, n)]
    BY <2>1, <2>3 DEF Expected, Shown
  <2> QED
    BY <2>2, <2>3, <2>4
<1> QED
  BY <1>2 DEF RowsOf

\* A read takes what the server has put first.
LEMMA ParsedFront ==
  ASSUME WireInv, PlaceInv, NEW from, Takes(from), NEW h, NEW t, h \in Seq(Byte), t \in Seq(Byte),
         Rest = h \o t, Len(h) = Needed
  PROVE  Taken = h /\ Rest' = t
<1>1. PICK u, w : u = Taken /\ w = Rest'
  OBVIOUS
<1>2. u \in Seq(Byte) /\ w \in Seq(Byte) /\ Len(u) = Len(h) /\ u \o w = h \o t
  BY <1>1, TakesWire
<1>3. u = h /\ w = t
  BY ONLY <1>2, h \in Seq(Byte), t \in Seq(Byte), CancelLeft
<1> QED
  BY <1>1, <1>3

\* A number is read.
LEMMA ParsedNumber ==
  ASSUME WireInv, PlaceInv, NEW from, Takes(from), Needed = 2, NEW i \in MinInt..MaxInt, NEW t,
         t \in Seq(Byte), Rest = ToBytes(i) \o t
  PROVE  Number = i /\ Rest' = t
<1>1. ToBytes(i) \in Seq(Byte) /\ Len(ToBytes(i)) = 2 /\ FromBytes(ToBytes(i)) = i
  BY NumberSent
<1>2. Taken = ToBytes(i) /\ Rest' = t
  BY <1>1, ParsedFront
<1> QED
  BY <1>1, <1>2 DEF Number

\* The facts every step starts from.
LEMMA ResultTyped ==
  ASSUME FlowInv
  PROVE  /\ result \in Results /\ Len(result) \in Nat /\ result \in Seq(Row)
         /\ \A r \in 1..Len(result) : Sendable(result[r]) /\ Len(result[r]) = Len(result[1])
BY ResultFacts DEF FlowInv

\* The rows are numbers within the result.
LEMMA Counted ==
  ASSUME Inv, Content
  PROVE  Given \in Nat /\ batch.rows \in Nat /\ Read \in Nat /\ Given <= Len(result) /\ Len(result) \in Nat
<1>1. Given \in Nat /\ Given <= Len(result)
  BY DEF Content, Given
<1>2. batch.rows \in Nat
  BY CapacityFact DEF Inv, PlaceInv, BatchOK, Batch
<1> QED
  BY <1>1, <1>2, ResultTyped DEF Read, Inv

-----------------------------------------------------------------------------
(* Steps as RowDelivery sees them. *)

\* What a step is in RowDelivery: a failure, nothing, or the delivery of n rows.
Fails == pc # "idle" /\ spoiled' = TRUE /\ delivered' = delivered

Waits ==
  /\ spoiled' = FALSE /\ delivered' = delivered
  /\ done' /\ pc' = "idle" <=> done /\ pc = "idle"

Delivers(n) ==
  /\ pc # "idle" /\ pc' = "idle" /\ spoiled' = FALSE
  /\ Given + n <= Len(result)
  /\ n < Capacity => Given + n = Len(result)
  /\ done' <=> n < Capacity
  /\ delivered' = delivered \o [r \in 1..n |-> Expected(result[Given + r])]

Kept == Fails \/ Waits \/ \E n \in 0..Capacity : Delivers(n)

\* A step on delivers nothing.
LEMMA GoKept ==
  ASSUME spoiled = FALSE, pc # "idle", NEW to, to # "idle", Go(to)
  PROVE  Kept
<1>1. Waits
  BY DEF Go, Waits
<1> QED
  BY <1>1 DEF Kept

\* A call that does not return Ok fails.
LEMMA ErrorKept ==
  ASSUME pc # "idle", NEW how, how # "ok", NEW b, Return(how, b)
  PROVE  Kept
<1>1. spoiled' = TRUE
  BY Zenon DEF Return
<1>2. Fails
  BY <1>1 DEF Return, Fails
<1> QED
  BY <1>2 DEF Kept

\* A call that returns Ok delivers the rows of its batch, the next ones of the result.
LEMMA ReturnContent ==
  ASSUME Inv, Content, spoiled = FALSE, NEW b, Return("ok", b), BatchOK(b), NEW k \in Columns, Ragged(b, k),
         Shows(b, Given), mode' = mode, result' = result, done' => Given + b.rows = Len(result)
  PROVE  /\ Content' /\ spoiled' = FALSE /\ pc' = "idle"
         /\ delivered' = delivered \o [r \in 1..b.rows |-> Expected(result[Given + r])]
         /\ Given' = Given + b.rows /\ Given + b.rows <= Len(result) /\ b.rows \in Nat
<1>1. spoiled' = FALSE /\ pc' = "idle" /\ delivered' = delivered \o RowsOf(b)
  BY DEF Return
<1>2. PICK rows : rows = [r \in 1..b.rows |-> Expected(result[Given + r])]
  OBVIOUS
<1>3. Given \in Nat /\ b.rows \in Nat /\ Len(result) \in Nat /\ Given + b.rows <= Len(result)
  BY Counted, CapacityFact DEF BatchOK, Batch, Shows
<1>4. RowsOf(b) = rows
  BY <1>2, <1>3, RowsShown
<1>5. rows \in Seq(Deliveries) /\ Len(rows) = b.rows
  <2>1. \A r \in 1..b.rows : Given + r \in 1..Len(result)
    BY <1>3
  <2>2. \A r \in 1..b.rows : Expected(result[Given + r]) \in Deliveries
    BY <2>1 DEF Deliveries
  <2> QED
    BY ONLY <1>2, <1>3, <2>2
<1>6. delivered \in Seq(Deliveries)
  BY DEF Content
<1>7. delivered \o rows \in Seq(Deliveries) /\ Len(delivered \o rows) = Len(delivered) + Len(rows)
  BY ONLY <1>5, <1>6, ConcatHead
<1>8. Given' = Given + b.rows
  BY <1>1, <1>4, <1>5, <1>7 DEF Given
<1>9. Deliveries' = Deliveries
  BY DEF Deliveries, Expected, Readable
<1>10. Content'
  BY <1>1, <1>3, <1>4, <1>7, <1>8, <1>9 DEF Content
<1> QED
  BY <1>1, <1>2, <1>3, <1>4, <1>8, <1>10

\* A step that goes on to pc' with the batch b.
LEMMA GoContent ==
  ASSUME Inv, Content, NEW to, to # "idle", Go(to), NEW b, batch' = b, Shows(b, Given),
         mode' = mode, result' = result, done' => to = "drain" /\ Given + b.rows = Len(result)
  PROVE  /\ Content' /\ spoiled' = spoiled /\ pc' = to
         /\ delivered' = delivered /\ Given' = Given /\ Read' = Given + b.rows
<1>1. pc' = to /\ pc' # "idle" /\ delivered' = delivered /\ spoiled' = spoiled
  BY DEF Go
<1>2. Deliveries' = Deliveries
  BY DEF Deliveries, Expected, Readable
<1>3. Given' = Given /\ Read' = Given + b.rows
  BY <1>1 DEF Given, Read
<1>4. Shows(batch, Given)'
  BY <1>3 DEF Shows, Shown, Readable
<1>5. Content'
  BY <1>1, <1>2, <1>3, <1>4 DEF Content
<1> QED
  BY <1>1, <1>3, <1>5

\* A cell of the next row is stored: on in the row, to the next row, or a full batch.
LEMMA StoredContent ==
  ASSUME Inv, Content, spoiled = FALSE, ~done, pc # "idle", Read < Len(result),
         NEW b, NEW v, Stores(batch, b, col, v), v = Shown(result[Read + 1], col),
         ~(col < Len(Schema)) => Readable(result[Read + 1]),
         NEW nextCell \in {"length", "cell"}, NEW nextRow \in {"count", "fetch"},
         Stored(b, nextCell, nextRow), mode' = mode, result' = result, done' = done
  PROVE  /\ Content' /\ spoiled' = FALSE /\ Kept
         /\ \/ /\ pc' = nextCell /\ col < Len(Schema) /\ col' = col + 1 /\ Read' = Read /\ row' = row
               /\ delivered' = delivered
            \/ /\ pc' = nextRow /\ ~(col < Len(Schema)) /\ Read' = Read + 1 /\ delivered' = delivered
            \/ /\ pc' = "idle" /\ ~(col < Len(Schema)) /\ Given' = Read + 1
               /\ Given + Capacity <= Len(result)
               /\ delivered' = delivered \o [r \in 1..Capacity |-> Expected(result[Given + r])]
<1>1. /\ PlaceInv /\ col \in Columns /\ BatchOK(batch) /\ Ragged(batch, col) /\ batch.rows < Capacity
      /\ BatchOK(b) /\ b.rows = batch.rows
  BY DEF Inv, PlaceInv, Stores
<1>2. /\ Given \in Nat /\ batch.rows \in Nat /\ Len(result) \in Nat /\ Read = Given + batch.rows
      /\ Read + 1 = Given + (batch.rows + 1) /\ Given + b.rows < Len(result)
  BY <1>1, Counted DEF Read
<1>3. Shows(batch, Given)
  BY DEF Content
<1>4. Shows(b, Given)
  BY <1>1, <1>2, <1>3, StoresShows
<1>5. CASE col < Len(Schema)
  <2>1. Go(nextCell) /\ batch' = b /\ col' = col + 1 /\ row' = row
    BY <1>5 DEF Stored
  <2>2. nextCell # "idle"
    OBVIOUS
  <2>3. /\ Content' /\ spoiled' = spoiled /\ pc' = nextCell
        /\ delivered' = delivered /\ Given' = Given /\ Read' = Given + b.rows
    BY <1>4, <2>1, <2>2, GoContent
  <2>4. Kept
    BY <2>1, <2>2, GoKept
  <2> QED
    BY <1>1, <1>2, <1>5, <2>1, <2>3, <2>4
<1>6. CASE ~(col < Len(Schema))
  <2>1. BatchOK(EndRow(b)) /\ EndRow(b).rows = b.rows + 1 /\ Ragged(EndRow(b), 1) /\ 1 \in Columns
    BY <1>1, <1>6, EndRowOK, StoresRagged, SchemaFacts
  <2>2. Shows(EndRow(b), Given)
    <3>1. Readable(result[Given + (b.rows + 1)])
      BY <1>1, <1>2, <1>6
    <3> QED
      BY <1>1, <1>2, <1>4, <3>1, EndRowShows
  <2>3. CASE b.rows + 1 < Capacity
    <3>1. Go(nextRow) /\ batch' = EndRow(b)
      BY <1>6, <2>3 DEF Stored
    <3>2. nextRow # "idle"
      OBVIOUS
    <3>3. /\ Content' /\ spoiled' = spoiled /\ pc' = nextRow
          /\ delivered' = delivered /\ Read' = Given + EndRow(b).rows
      BY <2>2, <3>1, <3>2, GoContent
    <3>4. Kept
      BY <3>1, <3>2, GoKept
    <3> QED
      BY <1>1, <1>2, <1>6, <2>1, <3>3, <3>4
  <2>4. CASE ~(b.rows + 1 < Capacity)
    <3>1. Return("ok", EndRow(b))
      BY <1>6, <2>4 DEF Stored
    <3>2. EndRow(b).rows = Capacity
      BY <1>1, <1>2, <2>1, <2>4, CapacityFact
    <3>3. /\ Content' /\ spoiled' = FALSE /\ pc' = "idle"
          /\ delivered' = delivered \o [r \in 1..EndRow(b).rows |-> Expected(result[Given + r])]
          /\ Given' = Given + EndRow(b).rows /\ Given + EndRow(b).rows <= Len(result)
      BY <2>1, <2>2, <3>1, ReturnContent
    <3>4. Capacity \in Nat /\ Capacity \in 0..Capacity
      BY CapacityFact
    <3>5. Delivers(Capacity)
      BY <3>2, <3>3, <3>4 DEF Delivers
    <3>6. Kept
      BY <3>4, <3>5 DEF Kept
    <3> QED
      BY <1>1, <1>2, <1>6, <2>1, <3>2, <3>3, <3>6
  <2> QED
    BY <2>3, <2>4
<1> QED
  BY <1>5, <1>6

-----------------------------------------------------------------------------
(* The COPY reader reads the result. *)

\* After a call that did not return Ok nothing is said of the rows.
LEMMA Spoils ==
  ASSUME NEW how, NEW b, Return(how, b), how # "ok"
  PROVE  spoiled' = TRUE /\ delivered' = delivered /\ pc' = "idle" /\ ContentInv'
<1>1. spoiled' /\ delivered' = delivered /\ pc' = "idle"
  BY DEF Return
<1>2. spoiled' = TRUE
  BY Zenon DEF Return
<1> QED
  BY <1>1, <1>2 DEF ContentInv

\* And nothing is delivered.
LEMMA StaysSpoiled ==
  ASSUME Inv, spoiled, [Next]_vars
  PROVE  spoiled' = TRUE /\ delivered' = delivered
<1>0. spoiled = TRUE
  BY Zenon DEF Inv, FlowInv
<1>1. ASSUME NEW how, NEW b, Return(how, b) PROVE spoiled' = TRUE /\ delivered' = delivered
  <2>1. spoiled' = TRUE
    BY <1>0, <1>1 DEF Return
  <2> QED
    BY <1>1, <2>1 DEF Return
<1>2. ASSUME NEW to, Go(to) PROVE spoiled' = TRUE /\ delivered' = delivered
  BY <1>0, <1>2 DEF Go
<1>3. ASSUME NEW b, NEW nextCell, NEW nextRow, Stored(b, nextCell, nextRow)
      PROVE  spoiled' = TRUE /\ delivered' = delivered
  BY <1>1, <1>2, <1>3 DEF Stored
<1>4. CASE UNCHANGED vars
  BY <1>0, <1>4 DEF vars
<1>5. CASE Call \/ Finished \/ Receive
  BY <1>0, <1>5 DEF Call, Finished, Receive, vars
<1>6. CASE EndOfStream \/ ReadSignature \/ ReadFlags \/ ReadExtension \/ Skip \/ ReadCount
  BY <1>1, <1>2, <1>6 DEF EndOfStream, ReadSignature, ReadFlags, ReadExtension, Skip, ReadCount
<1>7. CASE Drain \/ FetchRow \/ RowsEnd \/ StreamError \/ Cancel
  BY <1>1, <1>2, <1>7 DEF Drain, FetchRow, RowsEnd, StreamError, Cancel
<1>8. CASE ReadLength
  BY <1>1, <1>2, <1>3, <1>8 DEF ReadLength
<1>9. CASE ReadValue
  BY <1>1, <1>2, <1>3, <1>9 DEF ReadValue
<1>10. CASE StoreCell
  BY <1>1, <1>2, <1>3, <1>10 DEF StoreCell
<1> QED
  BY <1>4, <1>5, <1>6, <1>7, <1>8, <1>9, <1>10 DEF Next, Advance

\* What a read starts from, while no call has failed.
LEMMA CopyFacts ==
  ASSUME Inv, ContentInv, ~spoiled, NEW from \in Parsing, Takes(from)
  PROVE  /\ Content /\ CopyRest /\ WireInv /\ FlowInv /\ PlaceInv /\ spoiled = FALSE
         /\ Shows(batch, Given) /\ pc = from /\ pc # "idle" /\ mode.reader = "copy"
         /\ mode' = mode /\ result' = result /\ done = FALSE
         /\ result \in Results /\ Given \in Nat /\ Read \in Nat /\ Len(result) \in Nat
         /\ Given + batch.rows = Read
<1>1. pc = from /\ pc # "idle" /\ mode.reader = "copy"
  BY InCopy
<1>2. Content /\ CopyRest
  BY <1>1 DEF ContentInv
<1>3. mode' = mode /\ result' = result
  BY DEF Takes, history
<1>4. spoiled = FALSE
  BY Zenon DEF Inv, FlowInv
<1>5. done = FALSE
  <2>1. pc \in Parsing \cup {"fetch", "cell"}
    BY <1>1
  <2> QED
    BY <2>1, NotDone
<1> QED
  BY <1>1, <1>2, <1>3, <1>4, <1>5, Counted, ResultTyped DEF Inv, Content, Read

\* The header, part by part.
LEMMA HeaderTyped ==
  ASSUME result \in Results, NEW x \in Extensions
  PROVE  /\ Body(x) \in Seq(Byte) /\ Lengthy(x) \in Seq(Byte) /\ Flagged(x) \in Seq(Byte)
         /\ Stream(result, x) = Signature \o Flagged(x)
         /\ x \in Seq(Byte) /\ Len(x) \in MinInt..MaxInt /\ After(result, 0) \in Seq(Byte)
<1>1. PICK l, a, z : l = ToBytes(Len(x)) /\ a = After(result, 0) /\ z = ToBytes(0)
  OBVIOUS
<1>2. /\ x \in Seq(Byte) /\ Len(x) \in 0..MaxInt /\ l \in Seq(Byte) /\ a \in Seq(Byte) /\ z \in Seq(Byte)
  BY <1>1, StreamTyped
<1>3. PICK body : body = x \o a
  OBVIOUS
<1>4. body \in Seq(Byte)
  BY ONLY <1>2, <1>3, ConcatHead
<1>5. PICK lengthy : lengthy = l \o body
  OBVIOUS
<1>6. lengthy \in Seq(Byte)
  BY ONLY <1>2, <1>4, <1>5, ConcatHead
<1>7. z \o lengthy \in Seq(Byte)
  BY ONLY <1>2, <1>6, ConcatHead
<1>8. Body(x) = body /\ Lengthy(x) = lengthy /\ Flagged(x) = z \o lengthy
  BY <1>1, <1>3, <1>5 DEF Body, Lengthy, Flagged
<1>9. Stream(result, x) = Signature \o Flagged(x)
  BY StreamTyped DEF Body, Lengthy, Flagged
<1>10. Len(x) \in MinInt..MaxInt
  BY <1>2, Squares DEF MinInt
<1> QED
  BY ONLY <1>1, <1>2, <1>4, <1>6, <1>7, <1>8, <1>9, <1>10

\* The signature is read from where the server has put it.
LEMMA ReadSignatureContent ==
  ASSUME Inv, ContentInv, ~spoiled, ReadSignature
  PROVE  ContentInv'
<1>1. Takes("signature") /\ UNCHANGED <<header, preflight, done>> /\ "signature" \in Parsing
  BY DEF ReadSignature, flags, Parsing
<1>2. /\ Content /\ CopyRest /\ WireInv /\ PlaceInv /\ spoiled = FALSE /\ Shows(batch, Given)
      /\ pc = "signature" /\ mode.reader = "copy" /\ mode' = mode /\ result' = result /\ done = FALSE
      /\ result \in Results /\ Given \in Nat /\ Given + batch.rows = Read
  BY <1>1, CopyFacts
<1>3. CASE Taken = Signature
  <2>1. Go("flags") /\ batch' = batch
    BY <1>3 DEF ReadSignature
  <2>2. Content' /\ pc' = "flags" /\ Read' = Read
    BY <1>1, <1>2, <2>1, GoContent
  <2>3. PICK x \in Extensions : Rest = Signature \o Flagged(x)
    BY <1>2 DEF CopyRest
  <2>4. PICK t : t = Flagged(x)
    OBVIOUS
  <2>5. t \in Seq(Byte) /\ Signature \in Seq(Byte) /\ Len(Signature) = Needed /\ Rest = Signature \o t
    <3>1. Signature \in Seq(Byte) /\ Needed = Len(Signature)
      BY <1>2, WireAssumption DEF Needed
    <3>2. t \in Seq(Byte)
      BY <1>2, <2>4, HeaderTyped
    <3> QED
      BY <2>3, <2>4, <3>1, <3>2
  <2>6. Rest' = t
    BY <1>1, <1>2, <2>5, ParsedFront
  <2>7. Flagged(x)' = Flagged(x)
    BY <1>2 DEF Flagged, Lengthy, Body
  <2>8. Read = 0
    BY <1>2 DEF CopyRest
  <2>9. \E y \in Extensions : Rest' = Flagged(y)'
    BY <2>4, <2>6, <2>7
  <2>10. CopyRest'
    BY ONLY <2>2, <2>8, <2>9 DEF CopyRest
  <2> QED
    BY <1>2, <2>2, <2>10 DEF ContentInv
<1>4. CASE Taken # Signature
  BY <1>4, Spoils DEF ReadSignature
<1> QED
  BY <1>3, <1>4

\* So are the flags,
LEMMA ReadFlagsContent ==
  ASSUME Inv, ContentInv, ~spoiled, ReadFlags
  PROVE  ContentInv'
<1>1. Takes("flags") /\ UNCHANGED <<header, preflight, done>> /\ "flags" \in Parsing
  BY DEF ReadFlags, flags, Parsing
<1>2. /\ Content /\ CopyRest /\ WireInv /\ PlaceInv /\ spoiled = FALSE /\ Shows(batch, Given)
      /\ pc = "flags" /\ mode.reader = "copy" /\ mode' = mode /\ result' = result /\ done = FALSE
      /\ result \in Results /\ Given \in Nat /\ Given + batch.rows = Read
  BY <1>1, CopyFacts
<1>3. CASE Number = 0
  <2>1. Go("extension") /\ batch' = batch
    BY <1>3 DEF ReadFlags
  <2>2. Content' /\ pc' = "extension" /\ Read' = Read
    BY <1>1, <1>2, <2>1, GoContent
  <2>3. PICK x \in Extensions : Rest = Flagged(x)
    BY <1>2 DEF CopyRest
  <2>4. PICK t : t = Lengthy(x)
    OBVIOUS
  <2>5. t \in Seq(Byte) /\ 0 \in MinInt..MaxInt /\ Needed = 2 /\ Rest = ToBytes(0) \o t
    <3>1. Needed = 2 /\ 0 \in MinInt..MaxInt
      BY <1>2, Squares DEF Needed, MinInt
    <3>2. t \in Seq(Byte)
      BY <1>2, <2>4, HeaderTyped
    <3> QED
      BY <2>3, <2>4, <3>1, <3>2 DEF Flagged
  <2>6. Rest' = t
    BY <1>1, <1>2, <2>5, ParsedNumber
  <2>7. Lengthy(x)' = Lengthy(x)
    BY <1>2 DEF Lengthy, Body
  <2>8. Read = 0
    BY <1>2 DEF CopyRest
  <2>9. \E y \in Extensions : Rest' = Lengthy(y)'
    BY <2>4, <2>6, <2>7
  <2>10. CopyRest'
    BY ONLY <2>2, <2>8, <2>9 DEF CopyRest
  <2> QED
    BY <1>2, <2>2, <2>10 DEF ContentInv
<1>4. CASE Number # 0
  BY <1>4, Spoils DEF ReadFlags
<1> QED
  BY <1>3, <1>4

\* the length of the extension,
LEMMA ReadExtensionContent ==
  ASSUME Inv, ContentInv, ~spoiled, ReadExtension
  PROVE  ContentInv'
<1>1. Takes("extension") /\ UNCHANGED <<header, preflight, done>> /\ "extension" \in Parsing
  BY DEF ReadExtension, flags, Parsing
<1>2. /\ Content /\ CopyRest /\ WireInv /\ PlaceInv /\ spoiled = FALSE /\ Shows(batch, Given)
      /\ pc = "extension" /\ mode.reader = "copy" /\ mode' = mode /\ result' = result /\ done = FALSE
      /\ result \in Results /\ Given \in Nat /\ Given + batch.rows = Read
  BY <1>1, CopyFacts
<1>3. CASE Number \in 0..MaxExtension
  <2>1. Go("skip") /\ batch' = batch /\ len' = Number
    BY <1>3 DEF ReadExtension
  <2>2. Content' /\ pc' = "skip" /\ Read' = Read
    BY <1>1, <1>2, <2>1, GoContent
  <2>3. PICK x \in Extensions : Rest = Lengthy(x)
    BY <1>2 DEF CopyRest
  <2>4. PICK t : t = Body(x)
    OBVIOUS
  <2>5. t \in Seq(Byte) /\ Len(x) \in MinInt..MaxInt /\ Needed = 2 /\ Rest = ToBytes(Len(x)) \o t
    <3>1. Needed = 2
      BY <1>2 DEF Needed
    <3>2. t \in Seq(Byte) /\ Len(x) \in MinInt..MaxInt
      BY <1>2, <2>4, HeaderTyped
    <3> QED
      BY <2>3, <2>4, <3>1, <3>2 DEF Lengthy
  <2>6. Rest' = t /\ Number = Len(x)
    BY <1>1, <1>2, <2>5, ParsedNumber
  <2>7. Body(x)' = Body(x)
    BY <1>2 DEF Body
  <2>8. Read = 0
    BY <1>2 DEF CopyRest
  <2>9. \E y \in Extensions : Rest' = Body(y)' /\ len' = Len(y)
    BY <2>1, <2>4, <2>6, <2>7
  <2>10. CopyRest'
    BY ONLY <2>2, <2>8, <2>9 DEF CopyRest
  <2> QED
    BY <1>2, <2>2, <2>10 DEF ContentInv
<1>4. CASE Number \notin 0..MaxExtension
  BY <1>4, Spoils DEF ReadExtension
<1> QED
  BY <1>3, <1>4

\* and the extension.
LEMMA SkipContent ==
  ASSUME Inv, ContentInv, ~spoiled, Skip
  PROVE  ContentInv'
<1>1. /\ Takes("skip") /\ header' = TRUE /\ UNCHANGED <<preflight, done>> /\ "skip" \in Parsing
      /\ Go("count") /\ batch' = batch
  BY DEF Skip, Parsing
<1>2. /\ Content /\ CopyRest /\ WireInv /\ PlaceInv /\ spoiled = FALSE /\ Shows(batch, Given)
      /\ pc = "skip" /\ mode.reader = "copy" /\ mode' = mode /\ result' = result /\ done = FALSE
      /\ result \in Results /\ Given \in Nat /\ Given + batch.rows = Read
  BY <1>1, CopyFacts
<1>3. Content' /\ pc' = "count" /\ Read' = Read
  BY <1>1, <1>2, GoContent
<1>4. PICK x \in Extensions : Rest = Body(x) /\ len = Len(x)
  BY <1>2 DEF CopyRest
<1>5. PICK t : t = After(result, 0)
  OBVIOUS
<1>6. t \in Seq(Byte) /\ x \in Seq(Byte) /\ Len(x) = Needed /\ Rest = x \o t
  <2>1. Needed = Len(x)
    BY <1>2, <1>4 DEF Needed
  <2>2. t \in Seq(Byte) /\ x \in Seq(Byte)
    BY <1>2, <1>5, HeaderTyped
  <2> QED
    BY <1>4, <1>5, <2>1, <2>2 DEF Body
<1>7. Rest' = t
  BY <1>1, <1>2, <1>6, ParsedFront
<1>8. Read = 0
  BY <1>2 DEF CopyRest
<1>9. Rest' = After(result', Read')
  BY <1>2, <1>3, <1>5, <1>7, <1>8
<1>10. CopyRest'
  BY ONLY <1>1, <1>3, <1>9 DEF CopyRest
<1> QED
  BY <1>2, <1>3, <1>10 DEF ContentInv

\* The number at a row's beginning: its columns, or the trailer after the last.
LEMMA CountRead ==
  ASSUME Inv, ContentInv, ~spoiled, Takes("count")
  PROVE  /\ Read \in 0..Len(result)
         /\ Read = Len(result) => Number = -1
         /\ Read < Len(result) =>
              /\ Number = Len(result[Read + 1]) /\ Number \in Nat
              /\ Rest' = Fieldwise(result[Read + 1], 1, Read + 1)
<1>0. "count" \in Parsing
  BY DEF Parsing
<1>1. /\ CopyRest /\ WireInv /\ PlaceInv /\ pc = "count" /\ result \in Results
      /\ Given \in Nat /\ Read \in Nat /\ Len(result) \in Nat /\ Shows(batch, Given)
      /\ Given + batch.rows = Read
  BY <1>0, CopyFacts
<1>2. Read <= Len(result)
  BY <1>1 DEF Shows
<1>3. Needed = 2 /\ Rest = After(result, Read)
  BY <1>1 DEF Needed, CopyRest
<1>4. CASE Read = Len(result)
  <2>1. -1 \in MinInt..MaxInt
    BY Squares DEF MinInt
  <2>2. After(result, Read) = ToBytes(-1)
    BY <1>1, <1>4, AfterEnd
  <2>3. <<>> \in Seq(Byte) /\ ToBytes(-1) \o <<>> = ToBytes(-1)
    BY TrailerTyped, ConcatEmpty
  <2>4. PICK t : t = <<>>
    OBVIOUS
  <2>5. t \in Seq(Byte) /\ Rest = ToBytes(-1) \o t
    BY <1>3, <2>2, <2>3, <2>4
  <2>6. Number = -1
    BY <1>1, <1>3, <2>1, <2>5, ParsedNumber
  <2> QED
    BY <1>1, <1>4, <2>6
<1>5. CASE Read # Len(result)
  <2>1. PICK k : k = Read /\ k \in 0..(Len(result) - 1)
    BY <1>1, <1>2, <1>5
  <2>2. PICK cells, t : cells = result[k + 1] /\ t = Fieldwise(cells, 1, k + 1)
    OBVIOUS
  <2>3. Len(cells) \in 0..MaxInt /\ t \in Seq(Byte) /\ After(result, k) = ToBytes(Len(cells)) \o t
    BY <1>1, <2>1, <2>2, AfterParsed
  <2>4. Len(cells) \in MinInt..MaxInt
    BY <2>3, Squares DEF MinInt
  <2>5. Rest = ToBytes(Len(cells)) \o t
    BY <1>3, <2>1, <2>3
  <2>6. Number = Len(cells) /\ Rest' = t
    BY <1>1, <1>3, <2>3, <2>4, <2>5, ParsedNumber
  <2> QED
    BY <1>1, <1>2, <1>5, <2>1, <2>2, <2>3, <2>6
<1> QED
  BY <1>4, <1>5

\* A row begins, or the trailer is reached, only where the server has put one.
LEMMA ReadCountContent ==
  ASSUME Inv, ContentInv, ~spoiled, ReadCount
  PROVE  ContentInv'
<1>1. Takes("count") /\ UNCHANGED <<header, preflight>> /\ "count" \in Parsing /\ done' = (Number = -1)
  BY DEF ReadCount, Parsing
<1>2. /\ Content /\ CopyRest /\ WireInv /\ PlaceInv /\ spoiled = FALSE /\ Shows(batch, Given)
      /\ pc = "count" /\ mode.reader = "copy" /\ mode' = mode /\ result' = result /\ done = FALSE
      /\ result \in Results /\ Given \in Nat /\ Given + batch.rows = Read /\ Len(result) \in Nat
  BY <1>1, CopyFacts
<1>3. /\ Read \in 0..Len(result)
      /\ Read = Len(result) => Number = -1
      /\ Read < Len(result) =>
           /\ Number = Len(result[Read + 1]) /\ Number \in Nat
           /\ Rest' = Fieldwise(result[Read + 1], 1, Read + 1)
  BY <1>1, CountRead
<1>h. header
  BY <1>2 DEF CopyRest
<1>4. CASE Number = -1
  <2>1. Go("drain") /\ batch' = batch
    BY <1>4 DEF ReadCount
  <2>2. Read = Len(result)
    BY <1>2, <1>3, <1>4
  <2>3. Content' /\ pc' = "drain"
    BY <1>1, <1>2, <2>1, <2>2, GoContent
  <2>4. done'
    BY ONLY <1>1, <1>4, Zenon
  <2>5. CopyRest'
    BY ONLY <1>1, <1>h, <2>3, <2>4 DEF CopyRest
  <2> QED
    BY <1>2, <2>3, <2>5 DEF ContentInv
<1>5. CASE Number # -1 /\ Number = Len(Schema)
  <2>1. Go("length") /\ batch' = batch /\ col' = col
    BY <1>5 DEF ReadCount, place
  <2>2. Read < Len(result) /\ Len(result[Read + 1]) = Len(Schema) /\ Rest' = Fieldwise(result[Read + 1], 1, Read + 1)
    BY <1>2, <1>3, <1>5
  <2>3. ~done'
    BY ONLY <1>1, <1>5, Zenon
  <2>4. Content' /\ pc' = "length" /\ Read' = Read
    BY <1>1, <1>2, <2>1, <2>3, GoContent
  <2>5. col' = 1
    BY <1>2, <2>1 DEF PlaceInv
  <2>6. /\ Read' < Len(result') /\ Len(result'[Read' + 1]) = Len(Schema)
        /\ Rest' = Fieldwise(result[Read + 1], col', Read + 1)
    BY <1>2, <2>2, <2>4, <2>5
  <2>7. Fieldwise(result[Read + 1], col, Read + 1)' = Fieldwise(result[Read + 1], col', Read + 1)
    BY <1>2, <2>4 DEF Fieldwise
  <2>8. CopyRest'
    BY ONLY <1>1, <1>h, <2>4, <2>6, <2>7 DEF CopyRest
  <2> QED
    BY <1>2, <2>4, <2>8 DEF ContentInv
<1>6. CASE Number # -1 /\ Number # Len(Schema)
  <2>1. Return("error", batch)
    BY <1>6 DEF ReadCount
  <2> QED
    BY <2>1, Spoils
<1> QED
  BY <1>4, <1>5, <1>6

\* The row under way in the COPY stream.
LEMMA CopyRow ==
  ASSUME Inv, ContentInv, ~spoiled, NEW from \in {"length", "value"}, Takes(from)
  PROVE  /\ Read \in 0..(Len(result) - 1) /\ Read + 1 \in 0..Len(result)
         /\ Sendable(result[Read + 1]) /\ Len(result[Read + 1]) = Len(Schema)
         /\ col \in 1..Len(result[Read + 1]) /\ Readable(result[Read + 1])
         /\ Content /\ CopyRest /\ WireInv /\ PlaceInv /\ spoiled = FALSE /\ Shows(batch, Given)
         /\ pc = from /\ pc # "idle" /\ mode.reader = "copy" /\ mode' = mode /\ result' = result /\ ~done
         /\ result \in Results /\ Given \in Nat /\ Given + batch.rows = Read /\ Len(result) \in Nat /\ header
<1>0. from \in Parsing
  BY DEF Parsing
<1>1. /\ Content /\ CopyRest /\ WireInv /\ PlaceInv /\ FlowInv /\ spoiled = FALSE /\ Shows(batch, Given)
      /\ pc = from /\ pc # "idle" /\ mode.reader = "copy" /\ mode' = mode /\ result' = result /\ ~done
      /\ result \in Results /\ Given \in Nat /\ Given + batch.rows = Read /\ Len(result) \in Nat
      /\ Read \in Nat
  BY <1>0, CopyFacts
<1>2. Read < Len(result) /\ Len(result[Read + 1]) = Len(Schema) /\ header
  BY <1>1 DEF CopyRest
<1>3. Read \in 0..(Len(result) - 1) /\ Read + 1 \in 0..Len(result) /\ Read + 1 \in 1..Len(result)
  BY <1>1, <1>2
<1>4. Sendable(result[Read + 1])
  BY <1>1, <1>3, ResultTyped
<1>5. col \in 1..Len(Schema)
  BY <1>1 DEF PlaceInv, Columns
<1>6. Readable(result[Read + 1])
  BY <1>2 DEF Readable
<1> QED
  BY <1>1, <1>2, <1>3, <1>4, <1>5, <1>6

\* A cell is stored: what is left begins with the next one, or the next row.
LEMMA CopyStoresContent ==
  ASSUME Inv, ContentInv, ~spoiled, NEW from \in {"length", "value"}, Takes(from), UNCHANGED flags,
         NEW b, NEW v, Stores(batch, b, col, v), v = Shown(result[Read + 1], col),
         Stored(b, "length", "count"),
         Rest' = Fieldwise(result[Read + 1], col + 1, Read + 1)
  PROVE  ContentInv' /\ Kept
<1>1. /\ Read \in 0..(Len(result) - 1) /\ Read + 1 \in 0..Len(result)
      /\ Sendable(result[Read + 1]) /\ Len(result[Read + 1]) = Len(Schema)
      /\ col \in 1..Len(Schema) /\ Readable(result[Read + 1])
      /\ Content /\ PlaceInv /\ spoiled = FALSE
      /\ pc # "idle" /\ mode.reader = "copy" /\ mode' = mode /\ result' = result /\ ~done
      /\ result \in Results /\ Len(result) \in Nat /\ header
  BY CopyRow
<1>2. header' /\ ~done' /\ done' = done
  BY <1>1 DEF flags
<1>3. Read < Len(result)
  BY <1>1
<1>4. /\ Content' /\ spoiled' = FALSE /\ Kept
      /\ \/ pc' = "length" /\ col < Len(Schema) /\ col' = col + 1 /\ Read' = Read
         \/ pc' = "count" /\ ~(col < Len(Schema)) /\ Read' = Read + 1
         \/ pc' = "idle" /\ ~(col < Len(Schema)) /\ Given' = Read + 1
  BY <1>1, <1>2, <1>3, StoredContent
<1>5. CASE pc' = "length" /\ col < Len(Schema) /\ col' = col + 1 /\ Read' = Read
  <2>1. Fieldwise(result[Read + 1], col, Read + 1)' = Fieldwise(result[Read + 1], col + 1, Read + 1)
    BY <1>1, <1>5 DEF Fieldwise
  <2>2. Read' < Len(result') /\ Len(result'[Read' + 1]) = Len(Schema)
    BY <1>1, <1>3, <1>5
  <2>3. CopyRest'
    BY <1>2, <1>5, <2>1, <2>2 DEF CopyRest
  <2> QED
    BY <1>1, <1>4, <2>3 DEF ContentInv
<1>6. CASE ~(col < Len(Schema))
  <2>1. col + 1 = Len(result[Read + 1]) + 1
    BY <1>1, <1>6
  <2>2. Rest' = After(result, Read + 1)
    BY <1>1, <2>1, FieldwiseEnd
  <2>3. CASE pc' = "count" /\ Read' = Read + 1
    <3>1. Rest' = After(result', Read')
      BY <1>1, <2>2, <2>3
    <3>2. CopyRest'
      BY ONLY <1>2, <2>3, <3>1 DEF CopyRest
    <3> QED
      BY <1>1, <1>4, <3>2 DEF ContentInv
  <2>4. CASE pc' = "idle" /\ Given' = Read + 1
    <3>1. Rest' = After(result', Given')
      BY <1>1, <2>2, <2>4
    <3>2. CopyRest'
      BY ONLY <1>2, <2>4, <3>1 DEF CopyRest
    <3> QED
      BY <1>1, <1>4, <3>2 DEF ContentInv
  <2> QED
    BY <1>4, <1>6, <2>3, <2>4
<1> QED
  BY <1>4, <1>5, <1>6

\* A bit of validity for the cell that comes next changes nothing that is shown.
LEMMA MarkedShows ==
  ASSUME PlaceInv, pc # "idle", NEW d, Shows(batch, d)
  PROVE  Shows(SetValidity(batch, col, TRUE), d)
<1>1. /\ col \in Columns /\ BatchOK(batch) /\ batch.rows < Capacity /\ Ragged(batch, col) /\ TRUE \in BOOLEAN
  BY DEF PlaceInv
<1>2. PICK b : b = SetValidity(batch, col, TRUE)
  OBVIOUS
<1>3. /\ b.rows = batch.rows
      /\ \A m \in Columns : m # col => b.cols[m] = batch.cols[m]
      /\ Entries(Schema[col], b.cols[col]) = Entries(Schema[col], batch.cols[col])
      /\ \A r \in 1..batch.rows : Cell(Schema[col], b.cols[col], r) = Cell(Schema[col], batch.cols[col], r)
  BY <1>1, <1>2, SetValidityKeeps
<1>4. Entries(Schema[col], batch.cols[col]) = batch.rows
  BY <1>1, RaggedHere
<1>5. ASSUME NEW n \in Columns, NEW r \in 1..Entries(Schema[n], b.cols[n])
      PROVE  Cell(Schema[n], b.cols[n], r) = Shown(result[d + r], n)
  <2>1. CASE n # col
    BY <1>3, <2>1 DEF Shows
  <2>2. CASE n = col
    <3>1. r \in 1..batch.rows /\ r \in 1..Entries(Schema[col], batch.cols[col])
      BY <1>3, <1>4, <2>2
    <3>2. Cell(Schema[col], batch.cols[col], r) = Shown(result[d + r], col)
      BY <1>1, <3>1 DEF Shows
    <3> QED
      BY <1>3, <2>2, <3>1, <3>2
  <2> QED
    BY <2>1, <2>2
<1>6. Shows(b, d)
  BY <1>3, <1>5 DEF Shows
<1> QED
  BY <1>2, <1>6

\* A NULL is stored, or a field of the announced length follows.
LEMMA ReadLengthContent ==
  ASSUME Inv, ContentInv, ~spoiled, ReadLength
  PROVE  ContentInv' /\ Kept
<1> DEFINE present == SetValidity(batch, col, TRUE)
<1>1. Takes("length") /\ UNCHANGED flags /\ UNCHANGED <<header, preflight, done>>
  BY DEF ReadLength, flags
<1>2. /\ Read \in 0..(Len(result) - 1) /\ Read + 1 \in 0..Len(result)
      /\ Sendable(result[Read + 1]) /\ Len(result[Read + 1]) = Len(Schema)
      /\ col \in 1..Len(result[Read + 1])
      /\ Content /\ CopyRest /\ WireInv /\ PlaceInv /\ spoiled = FALSE /\ Shows(batch, Given)
      /\ pc = "length" /\ pc # "idle" /\ mode.reader = "copy" /\ mode' = mode /\ result' = result /\ ~done
      /\ result \in Results /\ Given \in Nat /\ Given + batch.rows = Read /\ header
  BY <1>1, CopyRow
<1>3. PICK cells, cell, rest, k : /\ cells = result[Read + 1] /\ cell = cells[col] /\ k = Read + 1
                                  /\ rest = Fieldwise(cells, col + 1, k)
  OBVIOUS
<1>4. /\ rest \in Seq(Byte)
      /\ cell = Null => Fieldwise(cells, col, k) = ToBytes(-1) \o rest
      /\ cell # Null => /\ cell \in Seq(Byte) /\ Len(cell) \in 0..MaxInt
                        /\ Fieldwise(cells, col, k) = ToBytes(Len(cell)) \o (cell \o rest)
  BY <1>2, <1>3, FieldwiseParsed, ZenonT(60)
<1>5. Needed = 2 /\ Rest = Fieldwise(cells, col, k)
  BY <1>2, <1>3 DEF Needed, CopyRest
<1>6. CASE cell = Null
  <2>1. -1 \in MinInt..MaxInt
    BY Squares DEF MinInt
  <2>2. Rest = ToBytes(-1) \o rest
    BY <1>4, <1>5, <1>6
  <2>3. Number = -1 /\ Rest' = rest
    BY <1>1, <1>2, <1>4, <1>5, <2>1, <2>2, ParsedNumber
  <2>4. Stored(PushNull(batch, col), "length", "count")
    BY <2>3 DEF ReadLength
  <2>5. Stores(batch, PushNull(batch, col), col, Null)
    BY <1>2, NullStores
  <2>6. Null = Shown(result[Read + 1], col)
    BY <1>3, <1>6 DEF Shown
  <2> QED
    BY <1>1, <1>3, <2>3, <2>4, <2>5, <2>6, CopyStoresContent
<1>7. CASE cell # Null
  <2>0. PICK t : t = cell \o rest
    OBVIOUS
  <2>1. Len(cell) \in MinInt..MaxInt /\ Len(cell) \in Nat
    BY <1>4, <1>7, Squares DEF MinInt
  <2>2. Rest = ToBytes(Len(cell)) \o t
    BY <1>4, <1>5, <1>7, <2>0
  <2>3. t \in Seq(Byte)
    BY ONLY <1>4, <1>7, <2>0, ConcatHead
  <2>4. Number = Len(cell) /\ Rest' = t
    BY <1>1, <1>2, <1>5, <2>1, <2>2, <2>3, ParsedNumber
  <2>5. CASE Number < -1 \/ Number > MaxField
    <3>1. Number # -1
      BY <2>1, <2>4
    <3> QED
      BY <1>2, <2>5, <3>1, Spoils, ErrorKept DEF ReadLength
  <2>6. CASE ~(Number < -1 \/ Number > MaxField) /\ ~IsVar(Schema[col]) /\ Number # 2
    <3>1. Number # -1
      BY <2>1, <2>4
    <3> QED
      BY <1>2, <2>6, <3>1, Spoils, ErrorKept DEF ReadLength
  <2>7. CASE ~(Number < -1 \/ Number > MaxField) /\ ~(~IsVar(Schema[col]) /\ Number # 2)
    <3>1. Number # -1
      BY <2>1, <2>4
    <3>2. Go("value") /\ len' = Number /\ batch' = present /\ col' = col
      BY <2>7, <3>1 DEF ReadLength
    <3>3. Shows(present, Given)
      BY <1>2, MarkedShows
    <3>4. present.rows = batch.rows
      BY <1>2, MarkedPlace
    <3> HIDE DEF present
    <3>5. Content' /\ pc' = "value" /\ Read' = Read
      <4>1. ~done'
        BY <1>1, <1>2
      <4> QED
        BY <1>2, <3>2, <3>3, <3>4, <4>1, GoContent
    <3>6. /\ Read' < Len(result') /\ Len(result'[Read' + 1]) = Len(Schema) /\ header'
          /\ result'[Read' + 1][col'] = cell /\ len' = Len(cell)
          /\ Fieldwise(result[Read + 1], col + 1, Read + 1)' = rest
      <4>1. Fieldwise(result[Read + 1], col + 1, Read + 1)' = rest
        BY <1>2, <1>3, <3>2, <3>5 DEF Fieldwise
      <4>2. Read < Len(result)
        BY <1>2
      <4> QED
        BY <1>1, <1>2, <1>3, <2>4, <3>2, <3>5, <4>1, <4>2
    <3>7. CopyRest'
      BY ONLY <1>7, <2>0, <2>4, <3>5, <3>6 DEF CopyRest
    <3>8. Kept
      BY <1>2, <3>2, GoKept
    <3> QED
      BY <1>2, <3>5, <3>7, <3>8 DEF ContentInv
  <2> QED
    BY <2>5, <2>6, <2>7
<1> QED
  BY <1>6, <1>7

\* A field is stored as what the result has there.
LEMMA ReadValueContent ==
  ASSUME Inv, ContentInv, ~spoiled, ReadValue
  PROVE  ContentInv' /\ Kept
<1>1. Takes("value") /\ UNCHANGED flags
  BY DEF ReadValue
<1>2. /\ Read \in 0..(Len(result) - 1) /\ Read + 1 \in 0..Len(result)
      /\ Sendable(result[Read + 1]) /\ Len(result[Read + 1]) = Len(Schema)
      /\ col \in 1..Len(result[Read + 1])
      /\ Content /\ CopyRest /\ WireInv /\ PlaceInv /\ FlowInv
      /\ pc = "value" /\ pc # "idle" /\ mode.reader = "copy" /\ result \in Results
  BY <1>1, CopyRow DEF Inv
<1>3. PICK cells, cell, rest, k : /\ cells = result[Read + 1] /\ cell = cells[col] /\ k = Read + 1
                                  /\ rest = Fieldwise(cells, col + 1, k)
  OBVIOUS
<1>4. cell # Null /\ len = Len(cell) /\ Rest = cell \o rest
  BY <1>2, <1>3 DEF CopyRest
<1>5. rest \in Seq(Byte) /\ cell \in Seq(Byte)
  BY <1>2, <1>3, <1>4, FieldwiseParsed
<1>6. Len(cell) = Needed
  BY <1>2, <1>4 DEF Needed
<1>7. Taken = cell /\ Rest' = rest
  BY <1>1, <1>2, <1>4, <1>5, <1>6, ParsedFront
<1>8. CASE Accepted(Schema[col], Taken, mode.utf8)
  <2>1. PICK value : value = Value(Schema[col], Taken)
    OBVIOUS
  <2>2. PICK b : b = Push(batch, col, value, AppendVar)
    OBVIOUS
  <2>3. Stored(b, "length", "count")
    BY <1>8, <2>1, <2>2 DEF ReadValue
  <2>4. Stores(batch, b, col, value)
    <3>1. Taken \in Seq(Byte)
      BY <1>5, <1>7
    <3> QED
      BY <1>2, <1>8, <2>1, <2>2, <3>1, AppendedStores
  <2>5. value = Shown(result[Read + 1], col)
    <3>1. (mode.utf8 \/ mode.reader = "row") = mode.utf8
      <4>1. mode.reader # "row" /\ mode.utf8 \in BOOLEAN
        BY <1>2 DEF FlowInv
      <4> QED
        BY <4>1
    <3>2. Fits(Schema[col], cell, mode.utf8)
      BY <1>7, <1>8 DEF Accepted
    <3> QED
      BY <1>3, <1>4, <1>7, <2>1, <3>1, <3>2 DEF Shown
  <2> QED
    BY <1>1, <1>3, <1>7, <2>3, <2>4, <2>5, CopyStoresContent
<1>9. CASE ~Accepted(Schema[col], Taken, mode.utf8)
  BY <1>2, <1>9, Spoils, ErrorKept DEF ReadValue
<1> QED
  BY <1>8, <1>9

-----------------------------------------------------------------------------
(* Calls, and the row-wise reader. *)

\* Nothing is read at the start.
LEMMA InitContent == Init => ContentInv
<1> SUFFICES ASSUME Init PROVE ContentInv
  OBVIOUS
<1>1. /\ Inv /\ delivered = <<>> /\ pc = "idle" /\ done = FALSE /\ header = FALSE /\ preflight = FALSE
      /\ buf = <<>> /\ pos = 0 /\ result \in Results
  BY InitInv DEF Init
<1>2. Given = 0 /\ Len(result) \in Nat
  BY <1>1, ResultTyped DEF Given, Inv
<1>3. Content
  BY <1>1, <1>2 DEF Content
<1>4. ASSUME mode.reader = "copy" PROVE CopyRest
  <2>1. PICK x \in Extensions : wire = Stream(result, x)
    BY <1>4 DEF Init
  <2>2. wire = Signature \o Flagged(x) /\ wire \in Seq(Byte)
    BY <1>1, <2>1, HeaderTyped DEF Inv, WireInv
  <2>3. Rest = wire
    <3>1. SubSeq(buf, pos + 1, Len(buf)) = <<>>
      BY <1>1
    <3>2. <<>> \o wire = wire
      BY ONLY <2>2, ConcatEmpty
    <3> QED
      BY <3>1, <3>2 DEF Rest
  <2>4. \E y \in Extensions : Rest = Signature \o Flagged(y)
    BY <2>2, <2>3
  <2> QED
    BY ONLY <1>1, <1>2, <2>4 DEF CopyRest
<1>5. ASSUME mode.reader = "row" PROVE RowRest
  <2>1. rowStream = result
    BY <1>5 DEF Init
  <2>2. result \in Seq(Row)
    BY <1>1, ResultTyped DEF Inv
  <2>3. SubSeq(result, 1, Len(result)) = result
    BY <2>2
  <2>4. rowStream = SubSeq(result, Given + 1, Len(result))
    BY <1>2, <2>1, <2>3
  <2> QED
    BY ONLY <1>1, <2>4 DEF RowRest
<1> QED
  BY <1>3, <1>4, <1>5 DEF ContentInv

\* A call begins where the last one ended.
LEMMA CallContent ==
  ASSUME Inv, ContentInv, ~spoiled, Call
  PROVE  ContentInv' /\ delivered' = delivered /\ pc = "idle" /\ (pc' = "idle" <=> done) /\ done' = done
<1>1. /\ pc = "idle"
      /\ UNCHANGED <<wire, rowStream, eof, buf, pos, header, preflight, done, col, len, row, spoiled,
                     delivered, result, mode>>
      /\ batch' = Prepare(batch)
  BY DEF Call, source, buffer, flags, place
<1>2. /\ Content /\ WireInv /\ FlowInv /\ PlaceInv
      /\ mode.reader = "copy" => CopyRest
      /\ mode.reader = "row" => RowRest
  BY DEF Inv, ContentInv
<1>3. batch' = NewBatch /\ NewBatch.rows = 0 /\ Ragged(NewBatch, 1) /\ BatchOK(NewBatch)
  BY <1>1, <1>2, NewBatchOK DEF PlaceInv, BatchOK
<1>4. mode.reader \in {"copy", "row"} /\ done \in BOOLEAN
  BY <1>2 DEF FlowInv
<1>5. /\ done => pc' = "idle"
      /\ ~done /\ mode.reader = "row" => pc' = "fetch"
      /\ ~done /\ mode.reader = "copy" => pc' = IF header THEN "count" ELSE "signature"
  BY <1>4 DEF Call
<1>6. Given \in Nat /\ Given <= Len(result) /\ Len(result) \in Nat /\ Given' = Given /\ Read' = Given'
  BY <1>1, <1>2, <1>3, Counted DEF Given, Read
<1>7. Content'
  <2>1. Deliveries' = Deliveries
    BY <1>1 DEF Deliveries, Expected, Readable
  <2>2. \A n \in Columns : Entries(Schema[n], NewBatch.cols[n]) = 0
    BY <1>3 DEF Ragged, Columns
  <2>3. Shows(batch, Given)'
    <3>1. batch'.rows = 0 /\ \A n \in Columns : Entries(Schema[n], batch'.cols[n]) = 0
      BY <1>3, <2>2
    <3> QED
      BY <1>1, <1>6, <3>1 DEF Shows
  <2>4. done' = done /\ pc' # "drain"
    BY <1>1, <1>4, <1>5
  <2> QED
    BY <1>1, <1>2, <1>6, <2>1, <2>3, <2>4 DEF Content
<1>8. ASSUME mode.reader = "copy" PROVE CopyRest'
  <2>1. Rest' = Rest /\ \A x \in Extensions : Flagged(x)' = Flagged(x)
    BY <1>1 DEF Rest, Flagged, Lengthy, Body
  <2>2. CASE done
    <3>1. pc' = "idle" /\ done'
      BY <1>1, <1>5, <2>2
    <3> QED
      BY <1>1, <1>2, <1>6, <1>8, <2>1, <3>1 DEF CopyRest
  <2>3. CASE ~done /\ header
    <3>1. pc' = "count" /\ Rest = After(result, Given) /\ header'
      BY <1>1, <1>2, <1>5, <1>8, <2>3 DEF CopyRest
    <3>2. Rest' = After(result', Read')
      BY <1>1, <1>6, <2>1, <3>1
    <3> QED
      BY ONLY <3>1, <3>2 DEF CopyRest
  <2>4. CASE ~done /\ ~header
    <3>1. pc' = "signature" /\ Given = 0 /\ \E x \in Extensions : Rest = Signature \o Flagged(x)
      BY <1>1, <1>2, <1>5, <1>8, <2>4 DEF CopyRest
    <3>2. Read' = 0 /\ \E x \in Extensions : Rest' = Signature \o Flagged(x)'
      BY <1>6, <2>1, <3>1
    <3> QED
      BY ONLY <3>1, <3>2 DEF CopyRest
  <2> QED
    BY <2>2, <2>3, <2>4
<1>9. ASSUME mode.reader = "row" PROVE RowRest'
  BY <1>1, <1>2, <1>4, <1>5, <1>6, <1>9 DEF RowRest
<1> QED
  BY <1>1, <1>4, <1>5, <1>7, <1>8, <1>9 DEF ContentInv

\* A piece of the stream changes nothing that is left to parse.
LEMMA ReceiveContent ==
  ASSUME Inv, ContentInv, ~spoiled, Receive
  PROVE  ContentInv' /\ delivered' = delivered /\ pc' = pc /\ done' = done /\ result' = result /\ mode' = mode
<1>1. /\ Rest' = Rest /\ pc \in Parsing /\ pc # "cell" /\ pc # "fetch"
      /\ UNCHANGED <<rowStream, header, preflight, done, pc, col, len, row, batch, spoiled,
                     delivered, result, mode>>
  BY ReceiveInv DEF Receive, Starving, flags, place, history, Parsing
<1>2. mode.reader = "copy"
  BY <1>1 DEF Inv, FlowInv
<1>3. Content /\ CopyRest
  BY <1>2 DEF ContentInv
<1>4. Content'
  BY <1>1, <1>3 DEF Content, Given, Read, Deliveries, Expected, Readable, Shows, Shown
<1>5. CopyRest'
  BY <1>1, <1>3, ZenonT(60) DEF CopyRest, Given, Read, Fieldwise, Flagged, Lengthy, Body
<1> QED
  BY <1>1, <1>2, <1>4, <1>5 DEF ContentInv

\* The last batch of the COPY reader has the rows that are left.
LEMMA DrainContent ==
  ASSUME Inv, ContentInv, ~spoiled, Drain
  PROVE  ContentInv' /\ Kept
<1>1. /\ pc = "drain" /\ pc # "idle" /\ mode' = mode /\ result' = result
      /\ UNCHANGED <<rowStream, buf, pos, header, preflight, done>>
  BY DEF Drain, buffer, flags, history
<1>2. /\ Inv /\ PlaceInv /\ FlowInv /\ mode.reader = "copy" /\ col = 1 /\ BatchOK(batch) /\ Ragged(batch, 1)
      /\ 1 \in Columns /\ batch.rows < Capacity
  BY <1>1, SchemaFacts DEF Inv, FlowInv, PlaceInv
<1>3. Content /\ CopyRest /\ header /\ spoiled = FALSE
  BY <1>1, <1>2, Zenon DEF ContentInv, CopyRest, FlowInv
<1>4. Shows(batch, Given) /\ Read = Given + batch.rows /\ (done => Read = Len(result))
  BY <1>1, <1>3 DEF Content, Read
<1>5. CASE wire = <<>>
  <2>1. Return("ok", batch)
    BY <1>5 DEF Drain
  <2>2. Content' /\ spoiled' = FALSE /\ pc' = "idle"
        /\ delivered' = delivered \o [r \in 1..batch.rows |-> Expected(result[Given + r])]
    BY <1>1, <1>2, <1>3, <1>4, <2>1, ReturnContent
  <2>3. done /\ done' /\ header'
    BY <1>1, <1>3 DEF CopyRest
  <2>4. CopyRest'
    BY ONLY <2>2, <2>3 DEF CopyRest
  <2>5. Delivers(batch.rows) /\ batch.rows \in 0..Capacity
    <3>1. Read = Len(result) /\ Len(result) \in Nat
      BY <1>2, <1>3, <1>4, <2>3, Counted
    <3>2. batch.rows \in 0..Capacity
      BY <1>2 DEF BatchOK, Batch
    <3> QED
      BY <1>1, <1>2, <1>4, <2>2, <2>3, <3>1, <3>2 DEF Delivers
  <2>6. Kept
    BY <2>5 DEF Kept
  <2> QED
    BY <1>1, <1>2, <2>2, <2>4, <2>6 DEF ContentInv
<1>6. CASE wire # <<>>
  <2>1. Go("drain") /\ batch' = batch
    BY <1>6 DEF Drain, place
  <2>2. Content' /\ spoiled' = spoiled /\ pc' = "drain" /\ delivered' = delivered
    BY <1>1, <1>2, <1>3, <1>4, <2>1, GoContent
  <2>3. header' /\ done'
    BY <1>1, <1>3 DEF CopyRest
  <2>4. CopyRest'
    BY ONLY <2>2, <2>3 DEF CopyRest
  <2>5. Kept
    BY <1>1, <1>3, <2>1, GoKept
  <2> QED
    BY <1>1, <1>2, <2>2, <2>4, <2>5 DEF ContentInv
<1> QED
  BY <1>5, <1>6

\* What a step of the row-wise reader starts from.
LEMMA RowFacts ==
  ASSUME Inv, ContentInv, ~spoiled, pc \in {"fetch", "cell"}
  PROVE  /\ Content /\ RowRest /\ WireInv /\ FlowInv /\ PlaceInv /\ spoiled = FALSE
         /\ Shows(batch, Given) /\ pc # "idle" /\ mode.reader = "row" /\ mode.reader # "copy" /\ done = FALSE
         /\ result \in Results /\ Given \in Nat /\ Read \in Nat /\ Len(result) \in Nat
         /\ Given + batch.rows = Read /\ Read <= Len(result) /\ result \in Seq(Row)
<1>1. pc # "idle" /\ mode.reader = "row"
  BY DEF Inv, FlowInv
<1>2. Content /\ RowRest
  BY <1>1 DEF ContentInv
<1>3. spoiled = FALSE
  BY Zenon DEF Inv, FlowInv
<1>4. done = FALSE
  <2>1. pc \in Parsing \cup {"fetch", "cell"}
    OBVIOUS
  <2> QED
    BY <2>1, NotDone
<1>5. Shows(batch, Given)
  BY <1>1, <1>2 DEF Content
<1>6. Read <= Len(result)
  BY <1>5 DEF Shows, Read
<1> QED
  BY <1>1, <1>2, <1>3, <1>4, <1>5, <1>6, Counted, ResultTyped DEF Inv, Read

\* The row-wise reader takes the next row.
LEMMA FetchRowContent ==
  ASSUME Inv, ContentInv, ~spoiled, FetchRow
  PROVE  ContentInv'
<1>1. /\ pc = "fetch" /\ mode' = mode /\ result' = result /\ rowStream # <<>> /\ done' = done
      /\ rowStream' = Tail(rowStream)
  BY DEF FetchRow, history
<1>2. /\ Content /\ RowRest /\ PlaceInv /\ spoiled = FALSE
      /\ Shows(batch, Given) /\ pc # "idle" /\ mode.reader = "row" /\ mode.reader # "copy" /\ done = FALSE
      /\ result \in Results /\ Given \in Nat /\ Read \in Nat /\ Len(result) \in Nat
      /\ Given + batch.rows = Read /\ Read <= Len(result) /\ result \in Seq(Row)
  BY <1>1, RowFacts
<1>3. PICK k : k = Read /\ k \in 0..Len(result)
  BY <1>2
<1>4. rowStream = SubSeq(result, k + 1, Len(result))
  BY <1>1, <1>2, <1>3 DEF RowRest
<1>5. k < Len(result) /\ Head(rowStream) = result[k + 1] /\ rowStream' = SubSeq(result, k + 2, Len(result))
  BY <1>1, <1>2, <1>3, <1>4, SuffixFacts, SMTT(30)
<1>6. CASE PreflightFails(Head(rowStream))
  BY <1>6, Spoils DEF FetchRow
<1>7. CASE ~PreflightFails(Head(rowStream))
  <2>1. Go("cell") /\ row' = Head(rowStream) /\ preflight' = TRUE /\ batch' = batch
    BY <1>7 DEF FetchRow
  <2>2. Content' /\ spoiled' = spoiled /\ pc' = "cell" /\ delivered' = delivered /\ Read' = Read
    BY <1>1, <1>2, <2>1, GoContent
  <2>3. ASSUME mode.count, NEW r \in 1..Len(result) PROVE Len(result[r]) = Len(Schema)
    <3>1. CASE preflight
      BY <1>2, <2>3, <3>1 DEF RowRest
    <3>2. CASE ~preflight
      <4>1. Len(result[k + 1]) = Len(Schema)
        BY <1>5, <1>7, <2>3, <3>2 DEF PreflightFails
      <4>2. k + 1 \in 1..Len(result)
        BY <1>2, <1>3, <1>5
      <4> QED
        BY <1>2, <4>1, <4>2, ResultFacts
    <3> QED
      BY <3>1, <3>2
  <2>4. /\ Read' < Len(result') /\ row' = result'[Read' + 1]
        /\ rowStream' = SubSeq(result', Read' + 2, Len(result')) /\ preflight'
    BY <1>1, <1>3, <1>5, <2>1, <2>2
  <2>5. mode'.count => \A r \in 1..Len(result') : Len(result'[r]) = Len(Schema)
    BY <1>1, <2>3
  <2>6. RowRest'
    BY ONLY <2>2, <2>4, <2>5 DEF RowRest
  <2> QED
    BY <1>1, <1>2, <2>2, <2>6 DEF ContentInv
<1> QED
  BY <1>6, <1>7

\* Its last batch has the rows that are left.
LEMMA RowsEndContent ==
  ASSUME Inv, ContentInv, ~spoiled, RowsEnd
  PROVE  ContentInv' /\ Kept
<1>1. /\ pc = "fetch" /\ mode' = mode /\ result' = result /\ rowStream = <<>> /\ done' = TRUE
      /\ Return("ok", batch) /\ preflight' = preflight
  BY DEF RowsEnd, history
<1>2. /\ Content /\ RowRest /\ PlaceInv /\ spoiled = FALSE
      /\ Shows(batch, Given) /\ pc # "idle" /\ mode.reader = "row" /\ mode.reader # "copy"
      /\ result \in Results /\ Given \in Nat /\ Read \in Nat /\ Len(result) \in Nat
      /\ Given + batch.rows = Read /\ Read <= Len(result) /\ result \in Seq(Row)
  BY <1>1, RowFacts
<1>3. col = 1 /\ BatchOK(batch) /\ Ragged(batch, 1) /\ 1 \in Columns /\ batch.rows < Capacity
  BY <1>1, <1>2, SchemaFacts DEF PlaceInv
<1>4. rowStream = SubSeq(result, Read + 1, Len(result))
  BY <1>1, <1>2 DEF RowRest
<1>5. Read = Len(result)
  <2>1. Read \in 0..Len(result)
    BY <1>2
  <2> QED
    BY <1>1, <1>2, <1>4, <2>1, SuffixFacts
<1>6. Content' /\ spoiled' = FALSE /\ pc' = "idle"
      /\ delivered' = delivered \o [r \in 1..batch.rows |-> Expected(result[Given + r])]
  BY <1>1, <1>2, <1>3, <1>5, ReturnContent
<1>7. preflight' /\ mode'.count => \A r \in 1..Len(result') : Len(result'[r]) = Len(Schema)
  BY <1>1, <1>2 DEF RowRest
<1>8. RowRest'
  BY ONLY <1>1, <1>6, <1>7 DEF RowRest
<1>9. Delivers(batch.rows) /\ batch.rows \in 0..Capacity
  <2>1. batch.rows \in 0..Capacity
    BY <1>3 DEF BatchOK, Batch
  <2> QED
    BY <1>1, <1>2, <1>3, <1>5, <1>6, <2>1 DEF Delivers
<1>10. Kept
  BY <1>9 DEF Kept
<1> QED
  BY <1>1, <1>2, <1>6, <1>8, <1>10 DEF ContentInv

\* It stores a cell of the row it has taken.
LEMMA RowStoresContent ==
  ASSUME Inv, ContentInv, ~spoiled, pc = "cell", UNCHANGED <<source, buffer, flags, history>>,
         ~(col > Len(row)), NEW b, NEW v, Stores(batch, b, col, v), v = Shown(row, col),
         Stored(b, "cell", "fetch")
  PROVE  ContentInv' /\ Kept
<1>1. /\ Content /\ RowRest /\ PlaceInv /\ spoiled = FALSE
      /\ pc # "idle" /\ mode.reader = "row" /\ mode.reader # "copy" /\ done = FALSE
      /\ result \in Results /\ Given \in Nat /\ Read \in Nat /\ Len(result) \in Nat
      /\ result \in Seq(Row)
  BY RowFacts
<1>2. mode' = mode /\ result' = result /\ rowStream' = rowStream /\ done' = done /\ preflight' = preflight
  BY DEF source, flags, history
<1>3. /\ Read < Len(result) /\ row = result[Read + 1]
      /\ rowStream = SubSeq(result, Read + 2, Len(result)) /\ preflight
      /\ mode.count => \A r \in 1..Len(result) : Len(result[r]) = Len(Schema)
  BY <1>1 DEF RowRest
<1>4. ~(col < Len(Schema)) => Readable(result[Read + 1])
  <2> SUFFICES ASSUME ~(col < Len(Schema)) PROVE Readable(row)
    BY <1>3
  <2>1. col \in Columns /\ row \in Row
    BY <1>1 DEF PlaceInv
  <2>2. Len(row) \in Nat /\ Len(row) >= Len(Schema)
    BY <2>1, SchemaFacts DEF Columns, Row
  <2>3. CASE mode.count
    <3>1. Read + 1 \in 1..Len(result)
      BY <1>1, <1>3
    <3> QED
      BY <1>3, <2>3, <3>1 DEF Readable
  <2>4. CASE ~mode.count
    BY <1>1, <2>2, <2>4, SchemaFacts DEF Readable
  <2> QED
    BY <2>3, <2>4
<1>5. /\ Content' /\ spoiled' = FALSE /\ Kept
      /\ \/ pc' = "cell" /\ Read' = Read /\ row' = row
         \/ pc' = "fetch" /\ Read' = Read + 1
         \/ pc' = "idle" /\ Given' = Read + 1
  BY <1>1, <1>2, <1>3, <1>4, StoredContent
<1>6. preflight' /\ mode'.count => \A r \in 1..Len(result') : Len(result'[r]) = Len(Schema)
  BY <1>2, <1>3
<1>7. (Read + 1) + 1 = Read + 2
  BY <1>1
<1>8. RowRest'
  <2>1. CASE pc' = "cell" /\ Read' = Read /\ row' = row
    BY <1>2, <1>3, <1>6, <2>1 DEF RowRest
  <2>2. CASE pc' = "fetch" /\ Read' = Read + 1
    <3>1. rowStream' = SubSeq(result', Read' + 1, Len(result'))
      BY <1>2, <1>3, <1>7, <2>2
    <3> QED
      BY ONLY <1>6, <2>2, <3>1 DEF RowRest
  <2>3. CASE pc' = "idle" /\ Given' = Read + 1
    <3>1. rowStream' = SubSeq(result', Given' + 1, Len(result'))
      BY <1>2, <1>3, <1>7, <2>3
    <3> QED
      BY ONLY <1>6, <2>3, <3>1 DEF RowRest
  <2> QED
    BY <1>5, <2>1, <2>2, <2>3
<1> QED
  BY <1>1, <1>2, <1>5, <1>8 DEF ContentInv

\* A cell is stored as what the result has there, or the call fails.
LEMMA StoreCellContent ==
  ASSUME Inv, ContentInv, ~spoiled, StoreCell
  PROVE  ContentInv' /\ Kept
<1>1. pc = "cell" /\ pc # "idle" /\ UNCHANGED <<source, buffer, flags, history>> /\ PlaceInv /\ WireInv
  BY DEF StoreCell, Inv
<1>2. mode.reader = "row" /\ (mode.utf8 \/ mode.reader = "row") = TRUE
  BY <1>1, RowFacts
<1>4. CASE col > Len(row)
  BY <1>1, <1>4, Spoils, ErrorKept DEF StoreCell
<1>5. CASE ~(col > Len(row)) /\ row[col] = Null
  <2>1. Stored(PushNull(batch, col), "cell", "fetch")
    BY <1>5 DEF StoreCell
  <2>2. Stores(batch, PushNull(batch, col), col, Null)
    BY <1>1, NullStores
  <2>3. Null = Shown(row, col)
    BY <1>5 DEF Shown
  <2> QED
    BY <1>1, <1>5, <2>1, <2>2, <2>3, RowStoresContent
<1>6. CASE ~(col > Len(row)) /\ row[col] # Null /\ Accepted(Schema[col], row[col], TRUE)
  <2>1. PICK value : value = Value(Schema[col], row[col])
    OBVIOUS
  <2>2. PICK b : b = Push(batch, col, value, PushVar)
    OBVIOUS
  <2>3. Stored(b, "cell", "fetch")
    BY <1>6, <2>1, <2>2 DEF StoreCell
  <2>4. row[col] \in Seq(Byte)
    <3>1. row \in Row /\ col \in Columns
      BY <1>1 DEF PlaceInv
    <3>2. col \in Nat /\ col > 0
      BY <3>1 DEF Columns
    <3>3. row[col] \in Cells
      BY <1>6, <3>1, <3>2 DEF Row
    <3> QED
      BY <1>6, <3>3 DEF Cells
  <2>5. Stores(batch, b, col, value)
    BY <1>1, <1>6, <2>1, <2>2, <2>4, PushedStores
  <2>6. value = Shown(row, col)
    <3>1. Fits(Schema[col], row[col], TRUE)
      BY <1>6 DEF Accepted
    <3> QED
      BY <1>2, <1>6, <2>1, <3>1 DEF Shown
  <2> QED
    BY <1>1, <1>6, <2>3, <2>5, <2>6, RowStoresContent
<1>7. CASE ~(col > Len(row)) /\ row[col] # Null /\ ~Accepted(Schema[col], row[col], TRUE)
  <2>1. PICK b : Return("error", b)
    BY <1>7 DEF StoreCell
  <2> QED
    BY <1>1, <2>1, Spoils, ErrorKept
<1> QED
  BY <1>4, <1>5, <1>6, <1>7

-----------------------------------------------------------------------------
(* Every step. *)

\* No step changes the query or the reader.
LEMMA QueryStays ==
  ASSUME [Next]_vars
  PROVE  result' = result /\ mode' = mode
<1>1. CASE UNCHANGED vars \/ Call \/ Finished \/ Receive \/ EndOfStream
  BY <1>1 DEF vars, history, Call, Finished, Receive, EndOfStream
<1>2. CASE ReadSignature \/ ReadFlags \/ ReadExtension \/ Skip \/ ReadCount \/ ReadLength \/ ReadValue
  BY <1>2 DEF ReadSignature, ReadFlags, ReadExtension, Skip, ReadCount, ReadLength, ReadValue, Takes, history
<1>3. CASE Drain \/ FetchRow \/ RowsEnd \/ StoreCell \/ StreamError \/ Cancel
  BY <1>3 DEF Drain, FetchRow, RowsEnd, StoreCell, StreamError, Cancel, history
<1> QED
  BY <1>1, <1>2, <1>3 DEF Next, Advance

\* Parsing the header and the beginning of a row delivers nothing.
LEMMA ParsingKept ==
  ASSUME Inv, spoiled = FALSE, ReadSignature \/ ReadFlags \/ ReadExtension \/ Skip \/ ReadCount
  PROVE  Kept
<1>1. pc # "idle"
  BY DEF ReadSignature, ReadFlags, ReadExtension, Skip, ReadCount, Takes
<1>2. \/ \E to \in {"flags", "extension", "skip", "count", "drain", "length"} : Go(to)
      \/ Return("error", batch)
  BY DEF ReadSignature, ReadFlags, ReadExtension, Skip, ReadCount
<1>3. CASE Return("error", batch)
  BY <1>1, <1>3, ErrorKept
<1>4. CASE \E to \in {"flags", "extension", "skip", "count", "drain", "length"} : Go(to)
  <2>1. PICK to : to # "idle" /\ Go(to)
    BY <1>4
  <2> QED
    BY <1>1, <2>1, GoKept
<1> QED
  BY <1>2, <1>3, <1>4

\* Every step keeps what is known of the rows, and is one of RowDelivery or none.
LEMMA NextKept ==
  ASSUME Inv, ContentInv, ~spoiled, [Next]_vars
  PROVE  ContentInv' /\ Kept
<1>0. spoiled = FALSE
  BY Zenon DEF Inv, FlowInv
<1>1. CASE UNCHANGED vars \/ Finished
  <2>1. UNCHANGED vars
    BY <1>1 DEF Finished
  <2>2. ContentInv'
    <3>1. UNCHANGED <<wire, rowStream, buf, pos, header, preflight, done, pc, col, len, row, batch, spoiled,
                      delivered, result, mode>>
      BY <2>1 DEF vars, source, buffer, flags, place, history
    <3>2. Content => Content'
      BY <3>1 DEF Content, Given, Read, Deliveries, Expected, Readable, Shows, Shown
    <3>3. CopyRest => CopyRest'
      BY <3>1, ZenonT(60) DEF CopyRest, Given, Read, Rest, Fieldwise, Flagged, Lengthy, Body
    <3>4. RowRest => RowRest'
      BY <3>1 DEF RowRest, Given, Read
    <3> QED
      BY <3>1, <3>2, <3>3, <3>4 DEF ContentInv
  <2>3. Waits
    BY <1>0, <2>1 DEF Waits, vars, flags
  <2> QED
    BY <2>2, <2>3 DEF Kept
<1>2. CASE Call
  <2>1. ContentInv' /\ delivered' = delivered /\ pc = "idle" /\ (pc' = "idle" <=> done) /\ done' = done
    BY <1>2, CallContent
  <2>2. Waits
    BY <1>0, <1>2, <2>1 DEF Call, Waits
  <2> QED
    BY <2>1, <2>2 DEF Kept
<1>3. CASE Receive
  <2>1. ContentInv' /\ delivered' = delivered /\ pc' = pc /\ done' = done
    BY <1>3, ReceiveContent
  <2>2. Waits
    BY <1>0, <1>3, <2>1 DEF Receive, Waits
  <2> QED
    BY <2>1, <2>2 DEF Kept
<1>4. CASE EndOfStream \/ StreamError \/ Cancel
  <2>1. pc # "idle"
    BY <1>4 DEF EndOfStream, StreamError, Cancel, Awaiting, Starving, Parsing
  <2>2. PICK how : how # "ok" /\ Return(how, batch)
    BY <1>4 DEF EndOfStream, StreamError, Cancel
  <2> QED
    BY <2>1, <2>2, Spoils, ErrorKept
<1>5. CASE ReadSignature \/ ReadFlags \/ ReadExtension \/ Skip \/ ReadCount
  BY <1>0, <1>5, ParsingKept, ReadSignatureContent, ReadFlagsContent, ReadExtensionContent, SkipContent,
     ReadCountContent
<1>6. CASE ReadLength \/ ReadValue \/ Drain \/ RowsEnd \/ StoreCell
  BY <1>6, ReadLengthContent, ReadValueContent, DrainContent, RowsEndContent, StoreCellContent
<1>7. CASE FetchRow
  <2>1. pc # "idle"
    BY <1>7 DEF FetchRow
  <2>2. Go("cell") \/ Return("error", batch)
    BY <1>7 DEF FetchRow
  <2> QED
    BY <1>0, <1>7, <2>1, <2>2, FetchRowContent, GoKept, ErrorKept
<1> QED
  BY <1>1, <1>2, <1>3, <1>4, <1>5, <1>6, <1>7 DEF Next, Advance

\* Also after a failure, when nothing is known.
LEMMA NextContent ==
  ASSUME Inv, ContentInv, [Next]_vars
  PROVE  ContentInv'
<1>1. CASE spoiled
  BY <1>1, StaysSpoiled DEF ContentInv
<1>2. CASE ~spoiled
  BY <1>2, NextKept
<1> QED
  BY <1>1, <1>2

\* The second invariant of next_batch_into (columnar/types.rs): until a call fails or is
\* cancelled, what is left of the stream is what the server has sent after the rows read,
\* and the batch shows the rows after those delivered.
THEOREM ContentInvariant == Spec => []ContentInv
<1>1. Inv /\ ContentInv /\ [Next]_vars => ContentInv'
  BY NextContent
<1> QED
  BY <1>1, InitContent, Invariant, PTL DEF Spec

-----------------------------------------------------------------------------
(* The readers implement RowDelivery. *)

\* What RowDelivery sees of a state.
Undelivered == [r \in 1..(Len(result) - Len(delivered)) |-> Expected(result[Len(delivered) + r])]

State == IF spoiled THEN "failed" ELSE IF done /\ pc = "idle" THEN "ended" ELSE "open"

\* They stay while nothing is delivered.
LEMMA UndeliveredStays ==
  ASSUME result' = result, mode' = mode, delivered' = delivered
  PROVE  Undelivered' = Undelivered
BY DEF Undelivered, Expected, Readable

\* What a call delivers comes from the front of the undelivered rows.
LEMMA Handed ==
  ASSUME Inv, ContentInv, ~spoiled, result' = result, mode' = mode, NEW n \in 0..Capacity, Delivers(n)
  PROVE  /\ n <= Len(Undelivered) /\ (n < Capacity => n = Len(Undelivered))
         /\ delivered' = delivered \o SubSeq(Undelivered, 1, n)
         /\ Undelivered' = SubSeq(Undelivered, n + 1, Len(Undelivered))
<1>1. /\ Given \in Nat /\ Len(result) \in Nat /\ n \in Nat /\ Given + n <= Len(result)
      /\ n < Capacity => Given + n = Len(result)
      /\ delivered \in Seq(Deliveries)
  BY Counted, ResultTyped, CapacityFact DEF Delivers, ContentInv, Content, Inv
<1>2. PICK k, rows : k = Len(result) - Given /\ rows = [r \in 1..k |-> Expected(result[Given + r])]
  OBVIOUS
<1>3. k \in Nat /\ n \in 0..k /\ (n < Capacity => n = k)
  BY <1>1, <1>2
<1>4. rows \in Seq(Deliveries) /\ Len(rows) = k
  <2>1. \A r \in 1..k : Given + r \in 1..Len(result)
    BY <1>1, <1>2
  <2>2. \A r \in 1..k : Expected(result[Given + r]) \in Deliveries
    BY <2>1 DEF Deliveries
  <2> QED
    BY ONLY <1>2, <1>3, <2>2
<1>5. PICK first : first = [r \in 1..n |-> Expected(result[Given + r])]
  OBVIOUS
<1>6. first = SubSeq(rows, 1, n)
  BY <1>2, <1>3, <1>4, <1>5
<1>7. first \in Seq(Deliveries) /\ Len(first) = n
  BY ONLY <1>3, <1>4, <1>6
<1>8. delivered' = delivered \o first
  BY <1>5 DEF Delivers
<1>9. Len(delivered') = Given + n
  <2>1. Len(delivered \o first) = Len(delivered) + Len(first)
    BY ONLY <1>1, <1>7, ConcatHead
  <2> QED
    BY <1>7, <1>8, <2>1 DEF Given
<1>10. Undelivered' = [r \in 1..(k - n) |-> Expected(result[(Given + n) + r])]
  <2>1. Len(result) - (Given + n) = k - n
    BY <1>1, <1>2
  <2> QED
    BY <1>9, <2>1 DEF Undelivered, Expected, Readable
<1>11. SubSeq(rows, n + 1, k) = [r \in 1..(k - n) |-> Expected(result[(Given + n) + r])]
  <2>1. \A r \in 1..(k - n) : r + n \in 1..k /\ rows[r + n] = Expected(result[(Given + n) + r])
    BY <1>1, <1>2, <1>3
  <2>2. SubSeq(rows, n + 1, k) = [r \in 1..(k - n) |-> rows[r + n]]
    BY <1>3, <1>4
  <2> QED
    BY <1>3, <2>1, <2>2
<1>12. Undelivered = rows
  BY <1>2 DEF Undelivered, Given
<1>13. Len(Undelivered) = k
  BY ONLY <1>4, <1>12
<1> QED
  BY ONLY <1>3, <1>6, <1>8, <1>10, <1>11, <1>12, <1>13

\* Every step is one of RowDelivery, or none.
LEMMA StepDelivers ==
  ASSUME Inv, ContentInv, [Next]_vars
  PROVE  [Promise!Next]_(Promise!vars)
<1>1. result' = result /\ mode' = mode
  BY QueryStays
<1>2. /\ Promise!vars = <<Undelivered, delivered, State>>
      /\ Promise!vars' = <<Undelivered', delivered', State'>>
  BY DEF Promise!vars, Undelivered, State
<1>3. CASE spoiled
  BY <1>1, <1>2, <1>3, StaysSpoiled, UndeliveredStays DEF State
<1>4. CASE ~spoiled
  <2>1. Kept
    BY <1>4, NextKept
  <2>2. CASE Fails
    <3>1. State = "open" /\ State' = "failed" /\ delivered' = delivered /\ Undelivered' = Undelivered
      BY <1>1, <1>4, <2>2, UndeliveredStays DEF State, Fails
    <3>2. Promise!Fail
      BY <3>1 DEF Promise!Fail, State, Undelivered
    <3> QED
      BY <3>2 DEF Promise!Next
  <2>3. CASE Waits
    <3>1. State' = State /\ delivered' = delivered /\ Undelivered' = Undelivered
      BY <1>1, <1>4, <2>3, UndeliveredStays DEF State, Waits
    <3> QED
      BY <1>2, <3>1
  <2>4. CASE \E n \in 0..Capacity : Delivers(n)
    <3>1. PICK n \in 0..Capacity : Delivers(n)
      BY <2>4
    <3>2. /\ n <= Len(Undelivered) /\ (n < Capacity => n = Len(Undelivered))
          /\ delivered' = delivered \o SubSeq(Undelivered, 1, n)
          /\ Undelivered' = SubSeq(Undelivered, n + 1, Len(Undelivered))
      BY <1>1, <1>4, <3>1, Handed
    <3>3. State = "open" /\ State' = IF n < Capacity THEN "ended" ELSE "open"
      BY <1>4, <3>1 DEF State, Delivers
    <3>4. Promise!Deliver(n)
      BY <3>2, <3>3 DEF Promise!Deliver, State, Undelivered
    <3> QED
      BY <3>2, <3>4 DEF Promise!Next, Undelivered
  <2> QED
    BY <2>1, <2>2, <2>3, <2>4 DEF Kept
<1> QED
  BY <1>3, <1>4

\* next_batch_into (columnar/types.rs) implements RowDelivery: either reader delivers the
\* rows of the query in order and converted, wherever the stream is cut, in batches that
\* are full except the last, and reports the end after the last one.
THEOREM RowsDelivered == Spec => DeliversRows
<1>1. Init => Promise!Init
  BY DEF Init, Promise!Init
<1>2. Inv /\ ContentInv /\ [Next]_vars => [Promise!Next]_(Promise!vars)
  BY StepDelivers
<1> QED
  BY <1>1, <1>2, Invariant, ContentInvariant, PTL DEF Spec, DeliversRows, Promise!Spec
=============================================================================
