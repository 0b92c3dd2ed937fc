--------------------------- MODULE CompressedVector ---------------------------
(***************************************************************************)
(* Compressed<T> (orsx/src/compressed.rs, compression.rs): a vector of     *)
(* numbers as bytes, the payload of a codec behind a header.  The header's *)
(* checksum is of the payload alone.  As in Orsxcol, an integer of the     *)
(* header and a byte of the payload are a symbol each; a float is the      *)
(* number its bits are, which is what the code compresses.                 *)
(***************************************************************************)
EXTENDS Integers, Sequences, SequencesExt

CONSTANTS
  VectorMagic,   \* ORSX_MAGIC
  VectorVersion, \* ORSX_VERSION
  MaxU32,        \* u32::MAX
  Modulus        \* of the checksum

ASSUME VectorAssumption ==
  VectorMagic \in Nat /\ VectorVersion \in Nat /\ MaxU32 \in Nat /\ Modulus \in Nat \ {0}

ElemId == [i32 |-> 1, i64 |-> 2, u32 |-> 3, u64 |-> 4, f32 |-> 5, f64 |-> 6]
ElemTypes == DOMAIN ElemId
SizeOf == [i32 |-> 4, i64 |-> 8, u32 |-> 4, u64 |-> 8, f32 |-> 4, f64 |-> 8]

CydecInteger == 1   \* CODEC of every element type
CodecIds == {1, 2}

\* The codec: its payload says how many values it holds, and no other payload
\* stands for them.
Compress(values) == <<Len(values)>> \o values
Decompressible(payload) == payload # <<>> /\ Len(payload) = payload[1] + 1
Decompress(payload) == Tail(payload)

\* Like CRC32, a checksum that every change of a single symbol changes.
Checksum(payload) ==
  LET sum[i \in 0..Len(payload)] == IF i = 0 THEN 0 ELSE sum[i - 1] + payload[i]
  IN  sum[Len(payload)] % Modulus

HeaderLen == 8

Fits(T, values) == Len(values) <= MaxU32 /\ Len(values) * SizeOf[T] <= MaxU32

Envelope(T, values) ==
  LET payload == Compress(values) IN
  <<VectorMagic, VectorVersion, CydecInteger, ElemId[T], 0, Len(values),
    Len(values) * SizeOf[T], Checksum(payload)>> \o payload

Payload(bytes) == SubSeq(bytes, HeaderLen + 1, Len(bytes))

\* MUTANT of Parses: the checksum is not compared.
ParsesUnchecked(bytes) ==
  /\ Len(bytes) >= HeaderLen
  /\ bytes[1] = VectorMagic /\ bytes[2] = VectorVersion
  /\ bytes[3] \in CodecIds
  /\ \E T \in ElemTypes : bytes[4] = ElemId[T]

\* parse_envelope; the reserved symbol and the uncompressed length are not read.
Parses(bytes) ==
  /\ Len(bytes) >= HeaderLen
  /\ bytes[1] = VectorMagic /\ bytes[2] = VectorVersion
  /\ bytes[3] \in CodecIds
  /\ \E T \in ElemTypes : bytes[4] = ElemId[T]
  /\ bytes[8] = Checksum(Payload(bytes))

\* decode_envelope for elements of type T.
VectorDecodable(T, bytes) ==
  /\ Parses(bytes)
  /\ bytes[3] = CydecInteger /\ bytes[4] = ElemId[T]
  /\ Decompressible(Payload(bytes))
  /\ Len(Decompress(Payload(bytes))) = bytes[6]

VectorDecode(bytes) == Decompress(Payload(bytes))
=============================================================================
