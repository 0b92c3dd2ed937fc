------------------------------- MODULE Orsxcol -------------------------------
(***************************************************************************)
(* ORSXCOL (orsx/src/columnar/orsxcol.rs): a ColumnarBatch as bytes.       *)
(*                                                                         *)
(* A stream is a sequence of symbols: an integer of any width, a byte or a *)
(* value of a fixed column is one symbol, and the lengths in the stream    *)
(* count symbols.  The magic "ORSXCOL1" is two, because the bytes of a     *)
(* compressed vector begin with the first of them.                         *)
(***************************************************************************)
EXTENDS ColumnarBatch

CONSTANTS
  BatchMagic,   \* MAGIC
  BatchVersion, \* VERSION
  Names,        \* of the columns, <<>> for none
  ByteBits      \* bits of a byte of a validity bitmap

ASSUME OrsxcolAssumption ==
  /\ BatchMagic \in Nat \X Nat /\ BatchVersion \in Nat
  /\ Names \in Seq(Seq(Nat)) /\ Len(Names) = Len(Schema)
  /\ ByteBits \in Nat \ {0}

TypeId == [fixed |-> 4, timestamp |-> 8, text |-> 9, json |-> 11]

CeilDiv(n) == (n + ByteBits - 1) \div ByteBits

\* Bit i of the j-th byte of a bitmap.
Bit(valid, j, i) ==
  LET r == (j - 1) * ByteBits + i + 1 IN IF r <= Len(valid) /\ valid[r] THEN 1 ELSE 0

\* The j-th byte from its highest bit on: after k steps, its k highest bits.
Byte(valid, j) ==
  LET high[k \in 0..ByteBits] ==
        IF k = 0 THEN 0 ELSE 2 * high[k - 1] + Bit(valid, j, ByteBits - k)
  IN  high

\* A byte shifted right by 0, 1, ... bits.
Shifted(byte) ==
  LET right[i \in 0..ByteBits] == IF i = 0 THEN byte ELSE right[i - 1] \div 2
  IN  right

\* The bytes of a validity bitmap and the bits they stand for.
Bitmap(valid) == [j \in 1..CeilDiv(Len(valid)) |-> Byte(valid, j)[ByteBits]]

BitsOf(bytes) ==
  [r \in 1..(ByteBits * Len(bytes)) |->
     Shifted(bytes[(r - 1) \div ByteBits + 1])[(r - 1) % ByteBits] % 2 = 1]

-----------------------------------------------------------------------------
(* Encoding. *)

\* A batch whose bitmap is longer than its rows need, or that a failed read has
\* left with a value too many in a fixed column, is refused.
Encodable(b) ==
  \A n \in 1..Len(b.cols) :
    LET c == b.cols[n] IN
    /\ CeilDiv(Len(c.valid)) = CeilDiv(b.rows)
    /\ IF IsVar(Schema[n])
       THEN c.offsets[Len(c.offsets)] = c.total /\ Len(Coalesced(c)) = c.total
       ELSE Len(c.values) = b.rows

Sized(s) == <<Len(s)>> \o s

\* A column: type, encoding, name, bitmap and two payloads.
Section(b, n) ==
  LET c == b.cols[n] IN
  <<TypeId[Schema[n]], 0>> \o Sized(Names[n]) \o Sized(Bitmap(c.valid))
    \o IF IsVar(Schema[n]) THEN Sized(c.offsets) \o Sized(Coalesced(c))
       ELSE Sized(c.values) \o <<0>>

Encode(b) ==
  BatchMagic \o <<BatchVersion, 0, b.rows, Len(b.cols)>>
    \o FlattenSeq([n \in 1..Len(b.cols) |-> Section(b, n)])

-----------------------------------------------------------------------------
(* Decoding.  A length read past the end is taken to be one, so that what    *)
(* follows is past the end too, and a stream cut short is too short.         *)

LengthAt(bytes, i) == IF i <= Len(bytes) THEN bytes[i] ELSE 1

\* What a length at i announces, and the place after it.
Block(bytes, i) == SubSeq(bytes, i + 1, i + LengthAt(bytes, i))
After(bytes, i) == i + 1 + LengthAt(bytes, i)

Prelude == 6   \* symbols before the first column
RowCount(bytes) == bytes[5]
ColCount(bytes) == bytes[6]

\* The column that begins at s.
Parts(bytes, s) ==
  LET bitmap == After(bytes, s + 2)
      first == After(bytes, bitmap)
      second == After(bytes, first)
  IN  [type |-> bytes[s], encoding |-> bytes[s + 1], name |-> Block(bytes, s + 2),
       bitmap |-> Block(bytes, bitmap), first |-> Block(bytes, first),
       second |-> Block(bytes, second)]

\* Where each column begins, and where the last one ends.
Starts(bytes) ==
  LET start[n \in 1..(ColCount(bytes) + 1)] ==
        IF n = 1 THEN Prelude + 1
        ELSE After(bytes, After(bytes, After(bytes, After(bytes, start[n - 1] + 2))))
  IN  start

\* MUTANT of OffsetsSound: only the last offset is looked at.
OffsetsSoundAtEnd(offsets, data) == offsets[Len(offsets)] = Len(data)

\* The offsets never decrease, and the last one is the length of the bytes.
OffsetsSound(offsets, data) ==
  /\ \A i \in 1..(Len(offsets) - 1) : offsets[i] <= offsets[i + 1]
  /\ offsets[Len(offsets)] = Len(data)

\* A column of text; one of JSON is taken for a fixed one and refused.
AcceptsVar(p, rows) ==
  /\ p.type = TypeId.text
  /\ Len(p.first) = rows + 1 /\ OffsetsSound(p.first, p.second)

AcceptsFixed(p, rows) ==
  /\ p.type \in {TypeId.fixed, TypeId.timestamp}
  /\ Len(p.first) = rows /\ p.second = <<>>

Accepts(p, rows) ==
  /\ p.encoding = 0
  /\ Len(p.bitmap) = CeilDiv(rows)
  /\ AcceptsVar(p, rows) \/ AcceptsFixed(p, rows)

\* MUTANT of Decodable: what follows the last column is not looked at.
DecodableTrailing(bytes) ==
  /\ Len(bytes) >= Prelude
  /\ SubSeq(bytes, 1, 3) = Append(BatchMagic, BatchVersion)
  /\ ColCount(bytes) # 0
  /\ LET start == Starts(bytes) IN
     /\ start[ColCount(bytes) + 1] <= Len(bytes) + 1
     /\ \A n \in 1..ColCount(bytes) : Accepts(Parts(bytes, start[n]), RowCount(bytes))

Decodable(bytes) ==
  /\ Len(bytes) >= Prelude
  /\ SubSeq(bytes, 1, 3) = Append(BatchMagic, BatchVersion)
  /\ ColCount(bytes) # 0
  /\ LET start == Starts(bytes) IN
     /\ start[ColCount(bytes) + 1] = Len(bytes) + 1
     /\ \A n \in 1..ColCount(bytes) : Accepts(Parts(bytes, start[n]), RowCount(bytes))

ColumnOf(p) ==
  LET var == p.type = TypeId.text IN
  [valid |-> BitsOf(p.bitmap),
   values |-> IF var THEN <<>> ELSE p.first,
   offsets |-> IF var THEN p.first ELSE <<0>>,
   data |-> <<>>,
   chunks |-> IF var THEN <<p.second>> ELSE <<>>,
   total |-> Len(p.second)]

TypeOf(id) == CHOOSE ty \in DOMAIN TypeId : TypeId[ty] = id

\* The schema a stream declares, and the batch it holds.
SchemaOf(bytes) ==
  [n \in 1..ColCount(bytes) |->
     LET p == Parts(bytes, Starts(bytes)[n]) IN [name |-> p.name, type |-> TypeOf(p.type)]]

Decode(bytes) ==
  [rows |-> RowCount(bytes),
   cols |-> [n \in 1..ColCount(bytes) |-> ColumnOf(Parts(bytes, Starts(bytes)[n]))]]

\* row_capacity of a decoded batch
DecodedCapacity(bytes) == IF RowCount(bytes) = 0 THEN 1 ELSE RowCount(bytes)

\* decode_orsxcol_v1_into accepts what has the schema of the batch it is given.
Loadable(bytes) ==
  /\ Decodable(bytes)
  /\ SchemaOf(bytes) = [n \in Columns |-> [name |-> Names[n], type |-> Schema[n]]]
=============================================================================
