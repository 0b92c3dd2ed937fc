----------------------------- MODULE StoredBytes -----------------------------
(***************************************************************************)
(* What an application does with the two envelopes of ORSX: it reads rows  *)
(* into a batch, encodes it, or a vector, to bytes that it sends or keeps  *)
(* (README.md 425-428, 528-545), and decodes such bytes into its batch or  *)
(* as a vector.  Its buffers are reused: the batch by every read and load, *)
(* the output by every encoding, each vector type's by a thread local.     *)
(* On the way the bytes may be cut short, be followed by others or have a  *)
(* symbol changed.                                                         *)
(***************************************************************************)
EXTENDS Orsxcol, CompressedVector

CONSTANTS
  FixedValues, Texts, \* values of the cells
  VectorTypes,        \* element types of the vectors that are encoded
  Vectors,            \* their values
  Changed,            \* what a damaged symbol may become
  MaxCells,           \* bound: cells read
  MaxEncodings        \* bound: encodings

ASSUME StoredAssumption ==
  /\ FixedValues \subseteq Nat /\ Texts \subseteq Seq(Nat)
  /\ VectorTypes \subseteq ElemTypes /\ Vectors \subseteq Seq(Nat)
  /\ Changed \subseteq Nat /\ MaxCells \in Nat /\ MaxEncodings \in Nat

\* The magic of a batch continues with a letter where a vector has its version, 1.
ASSUME MagicAssumption == BatchMagic[2] # VectorVersion

\* The symbols of a payload are such that the checksum tells any two of them apart.
ASSUME ChecksumAssumption ==
  /\ \A values \in Vectors : \A i \in DOMAIN values : values[i] < Modulus
  /\ \A x \in Changed : x < Modulus

VARIABLES
  batch, capacity, \* the application's batch and its row_capacity
  reader,   \* the kind of reader that fills it
  col,      \* the column the next cell goes to
  out,      \* the output buffers, by what is encoded to them
  stored,   \* the bytes kept
  origin,   \* history: what they were encoded from
  damage,   \* history: what has become of them since
  cells,    \* cells read so far (bounded by MaxCells)
  encodings \* encodings so far (bounded by MaxEncodings)

filling == <<batch, capacity, reader, col, cells>>
storing == <<out, stored, origin, damage, encodings>>
vars == <<filling, storing>>

Outputs == VectorTypes \cup {"batch"}

Prepared(cap) ==
  [rows |-> 0,
   cols |-> [n \in Columns |-> [EmptyColumn EXCEPT !.valid = [r \in 1..cap |-> FALSE]]]]

Init ==
  /\ capacity \in 1..Capacity
  /\ batch = Prepared(capacity)
  /\ reader \in {"copy", "row"} /\ col = 1 /\ cells = 0
  /\ out = [o \in Outputs |-> <<>>]
  /\ stored = <<>> /\ origin = [kind |-> "none"] /\ damage = "none"
  /\ encodings = 0

-----------------------------------------------------------------------------
(* Reading. *)

\* Bound: bytes are damaged last, nothing is read or encoded after it.
Undamaged == damage = "none"

\* next_batch_into begins, whatever the batch holds.
BeginRead ==
  /\ Undamaged
  /\ cells < MaxCells
  /\ batch' = Prepared(capacity)
  /\ reader' \in {"copy", "row"} /\ col' = 1
  /\ UNCHANGED <<capacity, cells, storing>>

Pushed(b, n, cell) ==
  IF cell = Null THEN PushNull(b, n)
  ELSE IF ~IsVar(Schema[n]) THEN PushFixed(b, n, cell)
  ELSE IF reader = "copy" THEN AppendVar(b, n, cell) ELSE PushVar(b, n, cell)

\* A cell arrives; the read may end after any, if need be with an error.
ReadCell ==
  /\ Undamaged
  /\ cells < MaxCells /\ batch.rows < capacity
  /\ \E cell \in {Null} \cup (IF IsVar(Schema[col]) THEN Texts ELSE FixedValues) :
       LET b == Pushed(batch, col, cell) IN
       IF col < Len(Schema) THEN batch' = b /\ col' = col + 1
       ELSE batch' = EndRow(b) /\ col' = 1
  /\ cells' = cells + 1
  /\ UNCHANGED <<capacity, reader, storing>>

-----------------------------------------------------------------------------
(* Encoding and decoding. *)

\* MUTANT of Filled: the buffer is not cleared.
FilledUp(old, bytes) == old \o bytes

\* out.clear() before the first byte is written.
Filled(old, bytes) == bytes

Put(o, bytes, from) ==
  /\ Undamaged
  /\ encodings < MaxEncodings
  /\ encodings' = encodings + 1
  /\ out' = [out EXCEPT ![o] = Filled(@, bytes)]
  /\ stored' = out'[o] /\ origin' = from
  /\ UNCHANGED <<filling, damage>>

\* encode_orsxcol_v1_into, also of a batch that a failed read has left.
EncodeBatch ==
  /\ Encodable(batch)
  /\ Put("batch", Encode(batch),
         [kind |-> "batch", batch |-> batch, col |-> col])

\* encode_envelope_into; a codec that fails leaves the buffer and returns an error.
EncodeVector ==
  \E T \in VectorTypes, values \in Vectors :
    /\ Fits(T, values)
    /\ Put(T, Envelope(T, values), [kind |-> "vector", type |-> T, values |-> values])

\* decode_orsxcol_v1_into: the decoded batch takes the place of the application's,
\* which is left as it is when the bytes are refused.
Load ==
  /\ Loadable(stored)
  /\ batch' = Decode(stored) /\ capacity' = DecodedCapacity(stored) /\ col' = 1
  /\ UNCHANGED <<reader, cells, storing>>

Damage ==
  /\ Undamaged /\ stored # <<>>
  /\ \/ /\ \E n \in 0..(Len(stored) - 1) : stored' = SubSeq(stored, 1, n)
        /\ damage' = "cut"
     \/ /\ \E x \in Changed : stored' = Append(stored, x)
        /\ damage' = "grown"
     \/ \E i \in DOMAIN stored, x \in Changed :
          /\ x # stored[i]
          /\ stored' = [stored EXCEPT ![i] = x]
          /\ damage' = IF origin.kind = "vector" /\ i = 4 THEN "type" ELSE "changed"
  /\ UNCHANGED <<filling, out, origin, encodings>>

Next == BeginRead \/ ReadCell \/ EncodeBatch \/ EncodeVector \/ Load \/ Damage

Spec == Init /\ [][Next]_vars

-----------------------------------------------------------------------------
(* Properties. *)

Same(d) == d.rows = origin.batch.rows /\ RowsOf(d) = RowsOf(origin.batch)

\* What a read that did not fail has put in a batch, of any type but JSON, comes out
\* of its bytes again, whatever the batch and the buffer held before, and a loaded
\* batch encodes to the bytes it came from.
BatchTravels ==
  origin.kind = "batch" /\ damage = "none" /\ origin.col = 1
    /\ (\A n \in Columns : Schema[n] # "json") =>
    /\ Loadable(stored) /\ Same(Decode(stored))
    /\ Encodable(Decode(stored)) /\ Encode(Decode(stored)) = stored

\* Nothing is decoded to other rows than were encoded: not what a failed read has left,
\* not bytes that were cut or grew, not those of a vector.
NothingElseLoads ==
  Loadable(stored) /\ damage # "changed" =>
    origin.kind = "batch" /\ damage = "none" /\ Same(Decode(stored))

\* "decodes and validates it" (README.md:426): whichever symbol was changed, in a batch
\* that is accepted every cell can be read.
DecodedSound ==
  Decodable(stored) =>
    LET d == Decode(stored)  s == SchemaOf(stored) IN
    \A n \in DOMAIN s, r \in 1..d.rows :
      /\ r \in DOMAIN d.cols[n].valid
      /\ IF IsVar(s[n].type)
         THEN /\ d.cols[n].offsets[r] <= d.cols[n].offsets[r + 1]
              /\ d.cols[n].offsets[r + 1] <= Len(Coalesced(d.cols[n]))
         ELSE r \in DOMAIN d.cols[n].values

\* A vector's bytes decode to it, and, however they were cut, grew or had a symbol
\* other than the element type changed, as no other vector and as no other type.
VectorTravels ==
  /\ origin.kind = "vector" /\ damage = "none" => VectorDecodable(origin.type, stored)
  /\ \A T \in ElemTypes : VectorDecodable(T, stored) /\ damage # "type" =>
       origin.kind = "vector" /\ T = origin.type /\ VectorDecode(stored) = origin.values

\* "Encode for transport" (README.md:634-636): the batch of a finished read can be
\* encoded.
ReadBatchEncodes == col = 1 /\ batch.rows > 0 => Encodable(batch)
=============================================================================
