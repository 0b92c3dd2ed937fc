--------------------------- MODULE StoredBytesProofs ---------------------------
(***************************************************************************)
(* Theorems of StoredBytes: what the two envelopes promise, for every      *)
(* schema, every batch and every vector.  A batch decodes to itself        *)
(* because each column is found at the place where it was written, and     *)
(* bytes that were cut or that grew are refused because a walk over them   *)
(* and one over the whole stream part for good at the cut.                 *)
(***************************************************************************)
EXTENDS StoredBytes, ColumnarBatchProofs

-----------------------------------------------------------------------------
(* Recursive functions on an interval exist. *)

\* A function on lo..hi, each of its values made from the one before.
Follows(f, lo, hi, base, step) ==
  /\ lo <= hi => f[lo] = base
  /\ \A n \in lo..hi : n # lo => f[n] = step[<<n, f[n - 1]>>]

\* There is a function that follows a step.
LEMMA Recursion ==
  ASSUME NEW S, NEW base \in S, NEW lo \in Nat, NEW hi \in Nat, NEW step \in [Nat \X S -> S]
  PROVE  \E f \in [lo..hi -> S] : Follows(f, lo, hi, base, step)
<1> DEFINE Ok(f, k) == \A n \in lo..(lo + k) :
                         f[n] = IF n = lo THEN base ELSE step[<<n, f[n - 1]>>]
           T == {k \in Nat : \E f \in [lo..(lo + k) -> S] : Ok(f, k)}
<1>1. 0 \in T
  <2>1. [n \in lo..(lo + 0) |-> base] \in [lo..(lo + 0) -> S] /\ Ok([n \in lo..(lo + 0) |-> base], 0)
    OBVIOUS
  <2> QED
    BY <2>1
<1>2. ASSUME NEW k \in Nat, k \in T PROVE k + 1 \in T
  <2>1. PICK f \in [lo..(lo + k) -> S] : Ok(f, k)
    BY <1>2
  <2> DEFINE last == lo + (k + 1)
             g == [n \in lo..last |-> IF n = last THEN step[<<n, f[n - 1]>>] ELSE f[n]]
  <2>2. last \in Nat /\ last - 1 \in lo..(lo + k) /\ last # lo
        /\ \A n \in lo..last : n # last => n \in lo..(lo + k)
    OBVIOUS
  <2>3. step[<<last, f[last - 1]>>] \in S
    BY <2>2
  <2>4. g \in [lo..last -> S]
    BY <2>2, <2>3
  <2>5. ASSUME NEW n \in lo..last
        PROVE  g[n] = IF n = lo THEN base ELSE step[<<n, g[n - 1]>>]
    <3>1. CASE n = last
      <4>1. g[n - 1] = f[n - 1]
        BY <2>2, <3>1
      <4> QED
        BY <2>2, <3>1, <4>1
    <3>2. CASE n # last
      <4>1. n \in lo..(lo + k) /\ g[n] = f[n]
        BY <2>2, <3>2
      <4>2. n # lo => g[n - 1] = f[n - 1]
        BY <4>1
      <4> HIDE DEF g
      <4> QED
        BY <2>1, <4>1, <4>2
    <3> QED
      BY <3>1, <3>2
  <2> HIDE DEF g
  <2> QED
    BY <2>4, <2>5
<1>3. ASSUME NEW k \in Nat, hi = lo + k
      PROVE  \E f \in [lo..hi -> S] : Follows(f, lo, hi, base, step)
  <2>1. k \in T
    <3> HIDE DEF T
    <3> QED
      BY <1>1, <1>2, Induction
  <2>2. PICK f \in [lo..(lo + k) -> S] : Ok(f, k)
    BY <2>1
  <2>3. Follows(f, lo, lo + k, base, step)
    <3>1. lo \in lo..(lo + k)
      OBVIOUS
    <3>2. f[lo] = base
      BY <2>2, <3>1
    <3> QED
      BY <2>2, <3>2 DEF Follows
  <2> QED
    BY <1>3, <2>3
<1>4. CASE ~(lo <= hi)
  <2> DEFINE f == [n \in lo..hi |-> base]
  <2>1. lo..hi = {}
    BY <1>4
  <2>2. f \in [lo..hi -> S]
    BY <2>1
  <2>3. Follows(f, lo, hi, base, step)
    BY <1>4, <2>1 DEF Follows
  <2> HIDE DEF f
  <2> QED
    BY <2>2, <2>3
<1>5. CASE lo <= hi
  <2>1. hi - lo \in Nat /\ hi = lo + (hi - lo)
    BY <1>5
  <2> QED
    BY <1>3, <2>1
<1> QED
  BY <1>4, <1>5

\* The values of a function are in a set when the first is, and each after one that is.
LEMMA StaysIn ==
  ASSUME NEW S, NEW lo \in Nat, NEW hi \in Nat, NEW f, lo <= hi => f[lo] \in S,
         \A n \in lo..hi : n # lo /\ f[n - 1] \in S => f[n] \in S,
         NEW m \in lo..hi
  PROVE  f[m] \in S
<1> DEFINE T == {k \in Nat : lo + k <= hi => f[lo + k] \in S}
<1>1. 0 \in T
  OBVIOUS
<1>2. ASSUME NEW k \in Nat, k \in T PROVE k + 1 \in T
  <2> SUFFICES ASSUME lo + (k + 1) <= hi PROVE f[lo + (k + 1)] \in S
    OBVIOUS
  <2>1. PICK n : n = lo + (k + 1)
    OBVIOUS
  <2>2. n \in lo..hi /\ n # lo /\ n - 1 = lo + k /\ lo + k <= hi
    BY <2>1
  <2>3. f[n - 1] \in S
    BY <1>2, <2>2
  <2> QED
    BY <2>1, <2>2, <2>3
<1>3. m - lo \in Nat /\ lo + (m - lo) = m
  OBVIOUS
<1>4. m - lo \in T
  <2> HIDE DEF T
  <2> QED
    BY <1>1, <1>2, <1>3, Induction
<1> QED
  BY <1>3, <1>4

-----------------------------------------------------------------------------
(* The places of a stream. *)

\* Where the column that begins at s ends.
Past(bytes, s) == After(bytes, After(bytes, After(bytes, After(bytes, s + 2))))

\* A place behind another is a place.
LEMMA AfterTyped ==
  ASSUME NEW bytes \in Seq(Nat), NEW i \in Nat \ {0}
  PROVE  LengthAt(bytes, i) \in Nat /\ After(bytes, i) \in Nat /\ After(bytes, i) > i
BY DEF After, LengthAt

\* The places that Parts looks at come one after the other.
LEMMA PastTyped ==
  ASSUME NEW bytes \in Seq(Nat), NEW s \in Nat \ {0}
  PROVE  LET bitmap == After(bytes, s + 2)
             first == After(bytes, bitmap)
             second == After(bytes, first)
         IN  /\ bitmap \in Nat /\ first \in Nat /\ second \in Nat /\ Past(bytes, s) \in Nat
             /\ s + 2 < bitmap /\ bitmap < first /\ first < second /\ second < Past(bytes, s)
<1> DEFINE bitmap == After(bytes, s + 2)  first == After(bytes, bitmap)
           second == After(bytes, first)
<1>1. s + 2 \in Nat \ {0}
  OBVIOUS
<1>2. bitmap \in Nat /\ bitmap > s + 2
  BY <1>1, AfterTyped
<1> HIDE DEF bitmap
<1>3. first \in Nat /\ first > bitmap
  BY <1>2, AfterTyped
<1> HIDE DEF first
<1>4. second \in Nat /\ second > first
  BY <1>2, <1>3, AfterTyped
<1> HIDE DEF second
<1>5. After(bytes, second) \in Nat /\ After(bytes, second) > second
  BY <1>2, <1>3, <1>4, AfterTyped
<1>6. Past(bytes, s) = After(bytes, second)
  BY DEF Past, bitmap, first, second
<1> QED
  BY <1>2, <1>3, <1>4, <1>5, <1>6 DEF bitmap, first, second

\* Starts, by its equations.
LEMMA StartsFacts ==
  ASSUME NEW bytes \in Seq(Nat), Len(bytes) >= Prelude
  PROVE  /\ ColCount(bytes) \in Nat
         /\ Starts(bytes) \in [1..(ColCount(bytes) + 1) -> Nat \ {0}]
         /\ Starts(bytes)[1] = 7
         /\ \A n \in 1..ColCount(bytes) : Starts(bytes)[n + 1] = Past(bytes, Starts(bytes)[n])
<1> DEFINE P == Nat \ {0}  walk == [p \in Nat \X P |-> Past(bytes, p[2])]
<1>1. PICK c : c = ColCount(bytes)
  OBVIOUS
<1>2. c \in Nat
  BY <1>1 DEF ColCount, Prelude
<1>3. ASSUME NEW s \in P PROVE Past(bytes, s) \in P
  <2>1. s \in Nat \ {0}
    OBVIOUS
  <2>2. Past(bytes, s) \in Nat /\ s + 2 < Past(bytes, s)
    <3>1. PICK x, y, z : x = After(bytes, s + 2) /\ y = After(bytes, x) /\ z = After(bytes, y)
      OBVIOUS
    <3>2. /\ x \in Nat /\ y \in Nat /\ z \in Nat /\ Past(bytes, s) \in Nat
          /\ s + 2 < x /\ x < y /\ y < z /\ z < Past(bytes, s)
      BY <2>1, <3>1, PastTyped
    <3> QED
      BY <2>1, <3>2
  <2> QED
    BY <2>2
<1>4. walk \in [Nat \X P -> P] /\ 7 \in P /\ 1 \in Nat /\ c + 1 \in Nat
  BY <1>2, <1>3
<1> DEFINE Eq(g) == g = [n \in 1..(c + 1) |-> IF n = 1 THEN Prelude + 1 ELSE Past(bytes, g[n - 1])]
<1>5. PICK f \in [1..(c + 1) -> P] : Follows(f, 1, c + 1, 7, walk)
  <2> HIDE DEF walk, P
  <2> QED
    BY <1>4, Recursion
<1>6. ASSUME NEW n \in 1..(c + 1), n # 1, NEW x \in P PROVE walk[<<n, x>>] = Past(bytes, x)
  BY <1>2
<1>7. Eq(f)
  <2>1. ASSUME NEW n \in 1..(c + 1)
        PROVE  f[n] = IF n = 1 THEN Prelude + 1 ELSE Past(bytes, f[n - 1])
    <3>1. f[n] = IF n = 1 THEN 7 ELSE walk[<<n, f[n - 1]>>]
      <4> HIDE DEF walk, P
      <4> QED
        BY <1>2, <1>5 DEF Follows
    <3>2. n # 1 => f[n - 1] \in P
      BY <1>2
    <3> HIDE DEF walk, P
    <3> QED
      BY <1>6, <3>1, <3>2 DEF Prelude
  <2>2. f = [n \in 1..(c + 1) |-> f[n]]
    OBVIOUS
  <2> QED
    BY <2>1, <2>2
<1>8. PICK s : s = Starts(bytes)
  OBVIOUS
<1>9. Eq(s)
  <2>1. s = CHOOSE g : Eq(g)
    BY <1>1, <1>8 DEF Starts, Past
  <2> QED
    BY <1>7, <2>1
<1>10. s[1] = 7 /\ \A n \in 1..(c + 1) : n # 1 => s[n] = Past(bytes, s[n - 1])
  <2>1. 1 \in 1..(c + 1)
    BY <1>2
  <2> DEFINE h == [n \in 1..(c + 1) |-> IF n = 1 THEN Prelude + 1 ELSE Past(bytes, s[n - 1])]
  <2>2. s = h
    BY <1>9
  <2>3. h[1] = Prelude + 1 /\ \A n \in 1..(c + 1) : n # 1 => h[n] = Past(bytes, s[n - 1])
    BY <2>1
  <2> HIDE DEF h
  <2> QED
    BY <2>2, <2>3 DEF Prelude
<1>11. ASSUME NEW n \in 1..c PROVE s[n + 1] = Past(bytes, s[n])
  <2>1. n + 1 \in 1..(c + 1) /\ n + 1 # 1 /\ (n + 1) - 1 = n
    BY <1>2
  <2> QED
    BY <1>10, <2>1
<1>12. ASSUME NEW n \in 1..(c + 1), n # 1, s[n - 1] \in P PROVE s[n] \in P
  <2> HIDE DEF P
  <2> QED
    BY <1>3, <1>10, <1>12
<1>13. ASSUME NEW n \in 1..(c + 1) PROVE s[n] \in P
  <2>1. 1 <= c + 1 => s[1] \in P
    BY <1>10
  <2> HIDE DEF P
  <2> QED
    BY <1>4, <1>12, <2>1, StaysIn
<1>14. s \in [1..(c + 1) -> P]
  BY <1>9, <1>13
<1> QED
  BY <1>1, <1>2, <1>8, <1>10, <1>11, <1>14

\* The columns of a stream begin one after the other.
LEMMA StartsAscend ==
  ASSUME NEW bytes \in Seq(Nat), Len(bytes) >= Prelude, NEW n \in 1..ColCount(bytes)
  PROVE  /\ Starts(bytes)[n] \in Nat \ {0}
         /\ Starts(bytes)[n + 1] = Past(bytes, Starts(bytes)[n])
         /\ Starts(bytes)[n + 1] <= Starts(bytes)[ColCount(bytes) + 1]
<1>1. PICK c, start : c = ColCount(bytes) /\ start = Starts(bytes)
  OBVIOUS
<1>2. /\ c \in Nat /\ n \in 1..c /\ start \in [1..(c + 1) -> Nat \ {0}]
      /\ \A m \in 1..c : start[m + 1] = Past(bytes, start[m])
  BY <1>1, StartsFacts
<1>3. ASSUME NEW m \in 1..c PROVE start[m] \in Nat \ {0} /\ start[m] < start[m + 1]
  <2>1. start[m] \in Nat \ {0}
    BY <1>2
  <2>2. PICK s, x, y, z : s = start[m] /\ x = After(bytes, s + 2) /\ y = After(bytes, x)
                          /\ z = After(bytes, y)
    OBVIOUS
  <2>3. /\ x \in Nat /\ y \in Nat /\ z \in Nat /\ Past(bytes, s) \in Nat
        /\ s + 2 < x /\ x < y /\ y < z /\ z < Past(bytes, s)
    BY <2>1, <2>2, PastTyped
  <2>4. s < Past(bytes, s)
    BY <2>1, <2>2, <2>3
  <2> QED
    BY <1>2, <2>1, <2>2, <2>4
<1> DEFINE T == {k \in Nat : n + 1 + k <= c + 1 => start[n + 1] <= start[n + 1 + k]}
<1>4. 0 \in T
  <2>1. start[n + 1] \in Nat /\ n + 1 + 0 = n + 1
    BY <1>2
  <2> QED
    BY <2>1
<1>5. ASSUME NEW k \in Nat, k \in T PROVE k + 1 \in T
  <2> SUFFICES ASSUME n + 1 + (k + 1) <= c + 1 PROVE start[n + 1] <= start[n + 1 + (k + 1)]
    OBVIOUS
  <2>1. PICK m : m = n + 1 + k
    OBVIOUS
  <2>2. m \in 1..c /\ n + 1 + (k + 1) = m + 1
    BY <1>2, <2>1
  <2>3. start[m] \in Nat /\ start[m] < start[m + 1]
    BY <1>3, <2>2
  <2>4. start[n + 1] \in Nat /\ start[m + 1] \in Nat /\ start[n + 1] <= start[m]
    BY <1>2, <1>5, <2>1, <2>2
  <2> QED
    BY <2>2, <2>3, <2>4
<1>6. c - n \in Nat /\ n + 1 + (c - n) = c + 1
  BY <1>2
<1>7. c - n \in T
  <2> HIDE DEF T
  <2> QED
    BY <1>4, <1>5, <1>6, Induction
<1>8. start[n + 1] <= start[c + 1]
  BY <1>6, <1>7
<1> QED
  BY <1>1, <1>2, <1>3, <1>8

\* A block that ends within the bytes is a part of them.
LEMMA BlockTyped ==
  ASSUME NEW bytes \in Seq(Nat), NEW i \in Nat \ {0}, After(bytes, i) <= Len(bytes) + 1
  PROVE  Block(bytes, i) \in Seq(Nat)
<1>1. LengthAt(bytes, i) \in Nat
  BY AfterTyped
<1>2. i + LengthAt(bytes, i) <= Len(bytes)
  BY <1>1 DEF After
<1> QED
  BY <1>1, <1>2, SubSeqTyped DEF Block

\* The parts of a column that ends within the bytes.
LEMMA PartsTyped ==
  ASSUME NEW bytes \in Seq(Nat), NEW s \in Nat \ {0}, Past(bytes, s) <= Len(bytes) + 1
  PROVE  LET p == Parts(bytes, s)
         IN  /\ p.type \in Nat /\ p.encoding \in Nat
             /\ p.name \in Seq(Nat) /\ p.bitmap \in Seq(Nat)
             /\ p.first \in Seq(Nat) /\ p.second \in Seq(Nat)
<1>1. PICK x, y, z : x = After(bytes, s + 2) /\ y = After(bytes, x) /\ z = After(bytes, y)
  OBVIOUS
<1>2. /\ x \in Nat /\ y \in Nat /\ z \in Nat /\ Past(bytes, s) \in Nat
      /\ s + 2 < x /\ x < y /\ y < z /\ z < Past(bytes, s)
  BY <1>1, PastTyped
<1>3. After(bytes, z) = Past(bytes, s)
  BY <1>1 DEF Past
<1>4. s \in 1..Len(bytes) /\ s + 1 \in 1..Len(bytes)
  BY <1>2
<1>5. /\ s + 2 \in Nat \ {0} /\ x \in Nat \ {0} /\ y \in Nat \ {0} /\ z \in Nat \ {0}
      /\ x <= Len(bytes) + 1 /\ y <= Len(bytes) + 1 /\ z <= Len(bytes) + 1
  BY <1>2
<1>6. Block(bytes, s + 2) \in Seq(Nat)
  BY <1>1, <1>5, BlockTyped
<1>7. Block(bytes, x) \in Seq(Nat)
  BY <1>1, <1>5, BlockTyped
<1>8. Block(bytes, y) \in Seq(Nat)
  BY <1>1, <1>5, BlockTyped
<1>9. Block(bytes, z) \in Seq(Nat)
  BY <1>3, <1>5, BlockTyped
<1>10. Parts(bytes, s) = [type |-> bytes[s], encoding |-> bytes[s + 1],
                          name |-> Block(bytes, s + 2), bitmap |-> Block(bytes, x),
                          first |-> Block(bytes, y), second |-> Block(bytes, z)]
  BY <1>1 DEF Parts
<1>11. bytes[s] \in Nat /\ bytes[s + 1] \in Nat
  BY <1>4
<1> QED
  BY <1>6, <1>7, <1>8, <1>9, <1>10, <1>11

-----------------------------------------------------------------------------
(* What is accepted can be read. *)

\* Bytes enough for the bits, and no byte more.
LEMMA CeilDivFacts ==
  ASSUME NEW n \in Nat
  PROVE  /\ CeilDiv(n) \in Nat /\ n <= ByteBits * CeilDiv(n)
         /\ n > 0 => CeilDiv(n) > 0
         /\ CeilDiv(0) = 0
<1>1. ByteBits \in Nat /\ ByteBits > 0
  BY OrsxcolAssumption
<1>2. PICK m : m = n + ByteBits - 1
  OBVIOUS
<1>3. m \in Nat
  BY <1>1, <1>2
<1>4. m \div ByteBits \in Nat /\ ByteBits * (m \div ByteBits) <= m
      /\ m < ByteBits * (m \div ByteBits) + ByteBits
  BY <1>1, <1>3
<1>5. PICK q : q = m \div ByteBits
  OBVIOUS
<1>6. CeilDiv(n) = q
  BY <1>2, <1>5 DEF CeilDiv
<1>7. q \in Nat /\ n <= ByteBits * q
  BY <1>1, <1>2, <1>4, <1>5
<1>8. n > 0 => q # 0
  BY <1>1, <1>7
<1>9. (ByteBits - 1) \div ByteBits = 0
  BY <1>1
<1> QED
  BY <1>1, <1>6, <1>7, <1>8, <1>9 DEF CeilDiv

\* Numbers each not below the one before it are not below any before them.
LEMMA Ascending ==
  ASSUME NEW o \in Seq(Nat), \A i \in 1..(Len(o) - 1) : o[i] <= o[i + 1],
         NEW i \in 1..Len(o)
  PROVE  o[i] <= o[Len(o)]
<1> DEFINE T == {k \in Nat : i + k <= Len(o) => o[i] <= o[i + k]}
<1>1. 0 \in T
  OBVIOUS
<1>2. ASSUME NEW k \in Nat, k \in T PROVE k + 1 \in T
  <2> SUFFICES ASSUME i + (k + 1) <= Len(o) PROVE o[i] <= o[i + (k + 1)]
    OBVIOUS
  <2>1. PICK m : m = i + k
    OBVIOUS
  <2>2. m \in 1..(Len(o) - 1) /\ i + (k + 1) = m + 1
    BY <2>1
  <2>3. o[m] <= o[m + 1] /\ o[i] <= o[m] /\ o[i] \in Nat /\ o[m] \in Nat /\ o[m + 1] \in Nat
    BY <1>2, <2>1, <2>2
  <2> QED
    BY <2>2, <2>3, SMTT(30)
<1>3. Len(o) - i \in Nat /\ i + (Len(o) - i) = Len(o)
  OBVIOUS
<1>4. Len(o) - i \in T
  <2> HIDE DEF T
  <2> QED
    BY <1>1, <1>2, <1>3, Induction
<1> QED
  BY <1>3, <1>4

\* The columns of bytes that are accepted, one by one.
LEMMA DecodableFacts ==
  ASSUME NEW bytes \in Seq(Nat), Decodable(bytes)
  PROVE  /\ Len(bytes) >= Prelude /\ RowCount(bytes) \in Nat /\ ColCount(bytes) \in Nat \ {0}
         /\ bytes[1] = BatchMagic[1] /\ bytes[2] = BatchMagic[2] /\ bytes[3] = BatchVersion
         /\ Starts(bytes)[ColCount(bytes) + 1] = Len(bytes) + 1
         /\ \A n \in 1..ColCount(bytes) :
              LET p == Parts(bytes, Starts(bytes)[n])
              IN  /\ p.bitmap \in Seq(Nat) /\ p.first \in Seq(Nat) /\ p.second \in Seq(Nat)
                  /\ p.name \in Seq(Nat) /\ Accepts(p, RowCount(bytes))
<1>1. /\ Len(bytes) >= Prelude /\ ColCount(bytes) # 0
      /\ SubSeq(bytes, 1, 3) = Append(BatchMagic, BatchVersion)
      /\ Starts(bytes)[ColCount(bytes) + 1] = Len(bytes) + 1
      /\ \A n \in 1..ColCount(bytes) : Accepts(Parts(bytes, Starts(bytes)[n]), RowCount(bytes))
  BY DEF Decodable
<1>2. RowCount(bytes) \in Nat /\ ColCount(bytes) \in Nat \ {0}
  BY <1>1 DEF RowCount, ColCount, Prelude
<1>3. bytes[1] = BatchMagic[1] /\ bytes[2] = BatchMagic[2] /\ bytes[3] = BatchVersion
  <2>1. PICK a \in Nat, b \in Nat : BatchMagic = <<a, b>>
    BY OrsxcolAssumption
  <2>2. PICK t : t = SubSeq(bytes, 1, 3)
    OBVIOUS
  <2>3. t[1] = bytes[1] /\ t[2] = bytes[2] /\ t[3] = bytes[3]
    BY <1>1, <2>2 DEF Prelude
  <2>4. t[1] = a /\ t[2] = b /\ t[3] = BatchVersion
    <3>1. <<a, b>> \in Seq(Nat) /\ Len(<<a, b>>) = 2 /\ <<a, b>>[1] = a /\ <<a, b>>[2] = b
      OBVIOUS
    <3>2. BatchVersion \in Nat /\ t = Append(<<a, b>>, BatchVersion)
      BY <1>1, <2>1, <2>2, OrsxcolAssumption
    <3> QED
      BY <3>1, <3>2, AppendProperties
  <2> QED
    BY <2>1, <2>3, <2>4
<1>4. ASSUME NEW n \in 1..ColCount(bytes)
      PROVE  LET p == Parts(bytes, Starts(bytes)[n])
             IN  /\ p.bitmap \in Seq(Nat) /\ p.first \in Seq(Nat) /\ p.second \in Seq(Nat)
                 /\ p.name \in Seq(Nat)
  <2>1. PICK s : s = Starts(bytes)[n]
    OBVIOUS
  <2>2. s \in Nat \ {0} /\ Past(bytes, s) <= Len(bytes) + 1
    BY <1>1, <2>1, StartsAscend
  <2> QED
    BY <2>1, <2>2, PartsTyped
<1> QED
  BY <1>1, <1>2, <1>3, <1>4

\* The type of a column is read from its number.
LEMMA TypeOfId ==
  /\ DOMAIN TypeId = {"fixed", "timestamp", "text", "json"}
  /\ \A ty \in DOMAIN TypeId : TypeOf(TypeId[ty]) = ty
<1>1. DOMAIN TypeId = {"fixed", "timestamp", "text", "json"}
  BY DEF TypeId
<1>2. \A t, u \in DOMAIN TypeId : TypeId[t] = TypeId[u] => t = u
  BY DEF TypeId
<1>3. ASSUME NEW ty \in DOMAIN TypeId PROVE TypeOf(TypeId[ty]) = ty
  <2>1. TypeId[TypeOf(TypeId[ty])] = TypeId[ty] /\ TypeOf(TypeId[ty]) \in DOMAIN TypeId
    BY DEF TypeOf
  <2> QED
    BY <1>2, <2>1
<1> QED
  BY <1>1, <1>3

\* The columns of an accepted stream, by their type.
LEMMA AcceptedType ==
  ASSUME NEW p, NEW rows, Accepts(p, rows)
  PROVE  /\ p.type = TypeId.text => TypeOf(p.type) = "text" /\ AcceptsVar(p, rows)
         /\ p.type # TypeId.text => /\ TypeOf(p.type) \in {"fixed", "timestamp"}
                                    /\ AcceptsFixed(p, rows)
<1>1. TypeId.text # TypeId.fixed /\ TypeId.text # TypeId.timestamp
  BY DEF TypeId
<1>2. /\ TypeOf(TypeId.text) = "text" /\ TypeOf(TypeId.fixed) = "fixed"
      /\ TypeOf(TypeId.timestamp) = "timestamp"
  BY TypeOfId
<1> QED
  BY <1>1, <1>2 DEF Accepts, AcceptsVar, AcceptsFixed

\* The column made of the parts of an accepted one.
LEMMA ColumnSound ==
  ASSUME NEW p, NEW rows \in Nat, Accepts(p, rows),
         p.bitmap \in Seq(Nat), p.first \in Seq(Nat), p.second \in Seq(Nat)
  PROVE  /\ Coalesced(ColumnOf(p)) = p.second
         /\ Len(ColumnOf(p).valid) \in Nat /\ rows <= Len(ColumnOf(p).valid)
         /\ ColumnOf(p).valid = [k \in 1..Len(ColumnOf(p).valid) |-> ColumnOf(p).valid[k]]
         /\ \A r \in 1..rows :
              IF IsVar(TypeOf(p.type))
              THEN /\ ColumnOf(p).offsets[r] <= ColumnOf(p).offsets[r + 1]
                   /\ ColumnOf(p).offsets[r + 1] <= Len(p.second)
              ELSE r \in DOMAIN ColumnOf(p).values
<1>1. Len(p.bitmap) = CeilDiv(rows) /\ rows <= ByteBits * Len(p.bitmap)
      /\ ByteBits * Len(p.bitmap) \in Nat
  <2>1. Len(p.bitmap) = CeilDiv(rows)
    BY DEF Accepts
  <2>2. ByteBits \in Nat
    BY OrsxcolAssumption
  <2>3. CeilDiv(rows) \in Nat /\ rows <= ByteBits * CeilDiv(rows)
    BY CeilDivFacts
  <2>4. \A x \in Nat : ByteBits * x \in Nat
    BY <2>2
  <2> QED
    BY <2>1, <2>3, <2>4
<1>2. ColumnOf(p).valid = BitsOf(p.bitmap)
  BY DEF ColumnOf
<1>3. Len(ColumnOf(p).valid) = ByteBits * Len(p.bitmap)
      /\ ColumnOf(p).valid = [k \in 1..Len(ColumnOf(p).valid) |-> ColumnOf(p).valid[k]]
  BY <1>1, <1>2 DEF BitsOf
<1>4. CASE p.type = TypeId.text
  <2>1. /\ ColumnOf(p).data = <<>> /\ ColumnOf(p).chunks = <<p.second>>
        /\ ColumnOf(p).offsets = p.first
    BY <1>4 DEF ColumnOf
  <2>2. Coalesced(ColumnOf(p)) = p.second
    <3>1. FlattenSeq(<<p.second>>) = p.second
      BY FlattenOne
    <3> QED
      BY <2>1, <3>1, ConcatEmpty DEF Coalesced
  <2>3. /\ IsVar(TypeOf(p.type)) /\ Len(p.first) = rows + 1
        /\ \A i \in 1..(Len(p.first) - 1) : p.first[i] <= p.first[i + 1]
        /\ p.first[Len(p.first)] = Len(p.second)
    BY <1>4, AcceptedType DEF AcceptsVar, OffsetsSound, IsVar
  <2>4. \A i \in 1..Len(p.first) : p.first[i] <= Len(p.second)
    BY <2>3, Ascending
  <2>5. ASSUME NEW r \in 1..rows
        PROVE  p.first[r] <= p.first[r + 1] /\ p.first[r + 1] <= Len(p.second)
    <3>1. r \in 1..(Len(p.first) - 1) /\ r + 1 \in 1..Len(p.first)
      BY <2>3
    <3> QED
      BY <2>3, <2>4, <3>1
  <2> QED
    BY <1>1, <1>3, <2>1, <2>2, <2>3, <2>5
<1>5. CASE p.type # TypeId.text
  <2>1. /\ ColumnOf(p).data = <<>> /\ ColumnOf(p).chunks = <<>>
        /\ ColumnOf(p).values = p.first
    BY <1>5 DEF ColumnOf
  <2>2. ~IsVar(TypeOf(p.type)) /\ Len(p.first) = rows /\ p.second = <<>>
    BY <1>5, AcceptedType DEF AcceptsFixed, IsVar
  <2>3. Coalesced(ColumnOf(p)) = p.second
    BY <2>1, <2>2, FlattenEmpty DEF Coalesced
  <2> QED
    BY <1>1, <1>3, <2>1, <2>2, <2>3
<1> QED
  BY <1>4, <1>5

\* DecodedSound of any bytes.
LEMMA SoundWhateverStored ==
  ASSUME NEW bytes \in Seq(Nat), Decodable(bytes)
  PROVE  LET d == Decode(bytes)  s == SchemaOf(bytes) IN
         \A n \in DOMAIN s, r \in 1..d.rows :
           /\ r \in DOMAIN d.cols[n].valid
           /\ IF IsVar(s[n].type)
              THEN /\ d.cols[n].offsets[r] <= d.cols[n].offsets[r + 1]
                   /\ d.cols[n].offsets[r + 1] <= Len(Coalesced(d.cols[n]))
              ELSE r \in DOMAIN d.cols[n].values
<1> DEFINE d == Decode(bytes)  s == SchemaOf(bytes)
<1>1. d.rows = RowCount(bytes) /\ DOMAIN s = 1..ColCount(bytes)
  BY DEF Decode, SchemaOf
<1> SUFFICES ASSUME NEW n \in 1..ColCount(bytes), NEW r \in 1..RowCount(bytes)
             PROVE  /\ r \in DOMAIN d.cols[n].valid
                    /\ IF IsVar(s[n].type)
                       THEN /\ d.cols[n].offsets[r] <= d.cols[n].offsets[r + 1]
                            /\ d.cols[n].offsets[r + 1] <= Len(Coalesced(d.cols[n]))
                       ELSE r \in DOMAIN d.cols[n].values
  BY <1>1
<1>2. PICK p : p = Parts(bytes, Starts(bytes)[n])
  OBVIOUS
<1>3. d.cols[n] = ColumnOf(p) /\ s[n].type = TypeOf(p.type)
  BY <1>2 DEF Decode, SchemaOf
<1>4. /\ p.bitmap \in Seq(Nat) /\ p.first \in Seq(Nat) /\ p.second \in Seq(Nat)
      /\ Accepts(p, RowCount(bytes)) /\ RowCount(bytes) \in Nat
  BY <1>2, DecodableFacts
<1>5. PICK c, rows : c = ColumnOf(p) /\ rows = RowCount(bytes)
  OBVIOUS
<1>6. /\ Coalesced(c) = p.second /\ Len(c.valid) \in Nat /\ rows <= Len(c.valid)
      /\ c.valid = [k \in 1..Len(c.valid) |-> c.valid[k]]
      /\ IF IsVar(TypeOf(p.type))
         THEN c.offsets[r] <= c.offsets[r + 1] /\ c.offsets[r + 1] <= Len(p.second)
         ELSE r \in DOMAIN c.values
  BY <1>4, <1>5, ColumnSound
<1>7. r \in DOMAIN c.valid
  BY <1>4, <1>5, <1>6
<1> HIDE DEF d, s
<1> QED
  BY <1>3, <1>5, <1>6, <1>7

-----------------------------------------------------------------------------
(* What Encode writes is found again. *)

\* The elements of a concatenation.
LEMMA CatAt ==
  ASSUME NEW a \in Seq(Nat), NEW b \in Seq(Nat)
  PROVE  /\ Cat(a, b) \in Seq(Nat) /\ Len(a) \in Nat /\ Len(b) \in Nat
         /\ Len(Cat(a, b)) = Len(a) + Len(b)
         /\ \A k \in 1..Len(a) : Cat(a, b)[k] = a[k]
         /\ \A k \in 1..Len(b) : Cat(a, b)[Len(a) + k] = b[k]
<1>1. Len(a) \in Nat /\ Len(b) \in Nat
  OBVIOUS
<1>2. /\ a \o b \in Seq(Nat) /\ Len(a \o b) = Len(a) + Len(b)
      /\ \A k \in 1..(Len(a) + Len(b)) :
           (a \o b)[k] = IF k <= Len(a) THEN a[k] ELSE b[k - Len(a)]
  BY ConcatProperties
<1>3. ASSUME NEW k \in 1..Len(a) PROVE (a \o b)[k] = a[k]
  BY <1>1, <1>2
<1>4. ASSUME NEW k \in 1..Len(b) PROVE (a \o b)[Len(a) + k] = b[k]
  <2>1. Len(a) + k \in 1..(Len(a) + Len(b)) /\ ~(Len(a) + k <= Len(a)) /\ (Len(a) + k) - Len(a) = k
    BY <1>1
  <2> QED
    BY <1>2, <2>1
<1> QED
  BY <1>1, <1>2, <1>3, <1>4 DEF Cat

\* The elements of a part.
LEMMA SubSeqAt ==
  ASSUME NEW s \in Seq(Nat), NEW l \in Nat, NEW m \in Nat, l + m <= Len(s)
  PROVE  /\ SubSeq(s, l + 1, l + m) \in Seq(Nat) /\ Len(SubSeq(s, l + 1, l + m)) = m
         /\ \A k \in 1..m : SubSeq(s, l + 1, l + m)[k] = s[l + k]
<1>1. l + 1 \in Int /\ l + m \in Int /\ \A i \in (l + 1)..(l + m) : s[i] \in Nat
  OBVIOUS
<1>2. PICK u : u = SubSeq(s, l + 1, l + m)
  OBVIOUS
<1>3. /\ u \in Seq(Nat)
      /\ Len(u) = IF l + 1 <= l + m THEN (l + m) - (l + 1) + 1 ELSE 0
      /\ \A i \in 1..((l + m) - (l + 1) + 1) : u[i] = s[(l + 1) + i - 1]
  BY <1>1, <1>2, SubSeqProperties
<1>4. Len(u) = m /\ (l + m) - (l + 1) + 1 = m
  BY <1>3
<1>5. ASSUME NEW k \in 1..m PROVE u[k] = s[l + k]
  <2>1. (l + 1) + k - 1 = l + k
    OBVIOUS
  <2> QED
    BY <1>3, <1>4, <2>1
<1> QED
  BY <1>2, <1>3, <1>4, <1>5

\* A sequence behind its length.
LEMMA SizedFacts ==
  ASSUME NEW s \in Seq(Nat)
  PROVE  /\ Sized(s) \in Seq(Nat) /\ Len(Sized(s)) = Len(s) + 1 /\ Sized(s)[1] = Len(s)
         /\ \A k \in 1..Len(s) : Sized(s)[1 + k] = s[k]
<1>1. PICK h : h = <<Len(s)>>
  OBVIOUS
<1>2. h \in Seq(Nat) /\ Len(h) = 1 /\ h[1] = Len(s)
  BY <1>1
<1>3. Sized(s) = Cat(h, s)
  BY <1>1 DEF Sized, Cat
<1>4. /\ Cat(h, s) \in Seq(Nat) /\ Len(s) \in Nat
      /\ Len(Cat(h, s)) = Len(h) + Len(s)
      /\ \A k \in 1..Len(h) : Cat(h, s)[k] = h[k]
      /\ \A k \in 1..Len(s) : Cat(h, s)[Len(h) + k] = s[k]
  BY <1>2, CatAt
<1> QED
  BY <1>2, <1>3, <1>4

\* Where a sequence was written behind its length, its length and the sequence are read,
\* and the place after it is where the rest begins.
LEMMA SizedAt ==
  ASSUME NEW bytes, NEW pre \in Seq(Nat), NEW s \in Seq(Nat), NEW post \in Seq(Nat),
         bytes = Cat(pre, Cat(Sized(s), post))
  PROVE  /\ bytes = Cat(Cat(pre, Sized(s)), post) /\ Cat(pre, Sized(s)) \in Seq(Nat)
         /\ After(bytes, Len(pre) + 1) = Len(Cat(pre, Sized(s))) + 1
         /\ Block(bytes, Len(pre) + 1) = s
<1>1. PICK z, l, m : z = Sized(s) /\ l = Len(pre) /\ m = Len(s)
  OBVIOUS
<1>2. /\ z \in Seq(Nat) /\ Len(z) = m + 1 /\ z[1] = m
      /\ \A k \in 1..m : z[1 + k] = s[k]
  BY <1>1, SizedFacts
<1>3. bytes = Cat(Cat(pre, z), post)
  BY <1>1, <1>2, CatAssoc
<1>4. PICK t : t = Cat(pre, z)
  OBVIOUS
<1>5. /\ t \in Seq(Nat) /\ l \in Nat /\ m \in Nat /\ Len(t) = l + m + 1
      /\ \A k \in 1..(m + 1) : t[l + k] = z[k]
  <2>1. /\ t \in Seq(Nat) /\ l \in Nat /\ Len(t) = l + Len(z)
        /\ \A k \in 1..Len(z) : t[l + k] = z[k]
    <3>1. /\ Cat(pre, z) \in Seq(Nat) /\ Len(pre) \in Nat
          /\ Len(Cat(pre, z)) = Len(pre) + Len(z)
          /\ \A k \in 1..Len(z) : Cat(pre, z)[Len(pre) + k] = z[k]
      BY <1>2, CatAt
    <3> QED
      BY <1>1, <1>4, <3>1
  <2>2. m \in Nat
    BY <1>1
  <2> QED
    BY <1>2, <2>1, <2>2
<1>6. /\ bytes \in Seq(Nat) /\ Len(t) <= Len(bytes)
      /\ \A k \in 1..(m + 1) : l + k \in 1..Len(bytes) /\ bytes[l + k] = z[k]
  <2>1. /\ bytes \in Seq(Nat) /\ Len(post) \in Nat /\ Len(bytes) = Len(t) + Len(post)
        /\ \A k \in 1..Len(t) : bytes[k] = t[k]
    <3>1. /\ Cat(t, post) \in Seq(Nat) /\ Len(post) \in Nat
          /\ Len(Cat(t, post)) = Len(t) + Len(post)
          /\ \A k \in 1..Len(t) : Cat(t, post)[k] = t[k]
      BY <1>5, CatAt
    <3> QED
      BY <1>3, <1>4, <3>1
  <2>2. \A k \in 1..(m + 1) : l + k \in 1..Len(t)
    BY <1>5
  <2> QED
    BY <1>5, <2>1, <2>2, SMTT(30)
<1>7. LengthAt(bytes, l + 1) = m
  <2>1. 1 \in 1..(m + 1)
    BY <1>5
  <2>2. l + 1 <= Len(bytes) /\ bytes[l + 1] = m
    BY <1>2, <1>6, <2>1
  <2> QED
    BY <2>2 DEF LengthAt
<1>8. After(bytes, l + 1) = Len(t) + 1
  BY <1>5, <1>7 DEF After
<1>9. Block(bytes, l + 1) = s
  <2>1. PICK u, n : n = l + 1 /\ u = SubSeq(bytes, n + 1, n + m)
    OBVIOUS
  <2>2. n \in Nat /\ n + m <= Len(bytes)
    BY <1>5, <1>6, <2>1
  <2>3. u \in Seq(Nat) /\ Len(u) = m /\ \A k \in 1..m : u[k] = bytes[n + k]
    <3>1. /\ SubSeq(bytes, n + 1, n + m) \in Seq(Nat) /\ Len(SubSeq(bytes, n + 1, n + m)) = m
          /\ \A k \in 1..m : SubSeq(bytes, n + 1, n + m)[k] = bytes[n + k]
      BY <1>5, <1>6, <2>2, SubSeqAt
    <3> QED
      BY <2>1, <3>1
  <2>4. ASSUME NEW k \in 1..m PROVE u[k] = s[k]
    <3>1. 1 + k \in 1..(m + 1) /\ n + k = l + (1 + k)
      BY <1>5, <2>1
    <3> QED
      BY <1>2, <1>6, <2>3, <3>1
  <2>5. u = s
    BY <1>1, <2>3, <2>4, SeqEqual
  <2> QED
    BY <1>7, <2>1, <2>5 DEF Block
<1> QED
  BY <1>1, <1>3, <1>4, <1>5, <1>8, <1>9

\* The brackets of a framed column between what is before and what is after it.
Rebracketed(p, h, a, b, c, d, q) ==
  LET f == Cat(h, Cat(a, Cat(b, Cat(c, d)))) IN
  /\ f \in Seq(Nat) /\ Cat(p, h) \in Seq(Nat)
  /\ Cat(p, Cat(f, q)) = Cat(Cat(p, h), Cat(a, Cat(b, Cat(c, Cat(d, q)))))
  /\ Cat(p, f) = Cat(Cat(Cat(Cat(Cat(p, h), a), b), c), d)
  /\ Cat(d, q) \in Seq(Nat) /\ Cat(c, Cat(d, q)) \in Seq(Nat)
  /\ Cat(b, Cat(c, Cat(d, q))) \in Seq(Nat)

\* They can be set as the walk over the bytes meets the parts.
LEMMA Rebracket ==
  ASSUME NEW p \in Seq(Nat), NEW h \in Seq(Nat), NEW a \in Seq(Nat), NEW b \in Seq(Nat),
         NEW c \in Seq(Nat), NEW d \in Seq(Nat), NEW q \in Seq(Nat)
  PROVE  Rebracketed(p, h, a, b, c, d, q)
<1>1. PICK T : T = Seq(Nat)
  OBVIOUS
<1>2. \A x, y, z \in T : Cat(x, y) \in T /\ Cat(Cat(x, y), z) = Cat(x, Cat(y, z))
  BY ONLY <1>1, CatFacts
<1>3. p \in T /\ h \in T /\ a \in T /\ b \in T /\ c \in T /\ d \in T /\ q \in T
  BY <1>1
<1>4. PICK cd, bcd, abcd, f : cd = Cat(c, d) /\ bcd = Cat(b, cd) /\ abcd = Cat(a, bcd)
                               /\ f = Cat(h, abcd)
  OBVIOUS
<1>5. cd \in T /\ bcd \in T /\ abcd \in T /\ f \in T /\ Cat(p, h) \in T
  BY ONLY <1>2, <1>3, <1>4
<1>6. Cat(d, q) \in T /\ Cat(c, Cat(d, q)) \in T /\ Cat(b, Cat(c, Cat(d, q))) \in T
      /\ Cat(a, Cat(b, Cat(c, Cat(d, q)))) \in T
  BY ONLY <1>2, <1>3
<1>7. Cat(f, q) = Cat(h, Cat(a, Cat(b, Cat(c, Cat(d, q)))))
  <2>1. Cat(f, q) = Cat(h, Cat(abcd, q))
    BY ONLY <1>2, <1>3, <1>4, <1>5
  <2>2. Cat(abcd, q) = Cat(a, Cat(bcd, q))
    BY ONLY <1>2, <1>3, <1>4, <1>5
  <2>3. Cat(bcd, q) = Cat(b, Cat(cd, q))
    BY ONLY <1>2, <1>3, <1>4, <1>5
  <2>4. Cat(cd, q) = Cat(c, Cat(d, q))
    BY ONLY <1>2, <1>3, <1>4, <1>5
  <2> QED
    BY ONLY <2>1, <2>2, <2>3, <2>4
<1>8. Cat(p, Cat(f, q)) = Cat(Cat(p, h), Cat(a, Cat(b, Cat(c, Cat(d, q)))))
  BY ONLY <1>2, <1>3, <1>6, <1>7
<1>9. Cat(p, f) = Cat(Cat(Cat(Cat(Cat(p, h), a), b), c), d)
  <2>1. PICK ph : ph = Cat(p, h)
    OBVIOUS
  <2>2. ph \in T /\ Cat(p, f) = Cat(ph, abcd)
    BY ONLY <1>2, <1>3, <1>4, <1>5, <2>1
  <2>3. Cat(ph, a) \in T /\ Cat(ph, abcd) = Cat(Cat(ph, a), bcd)
    <3>1. Cat(ph, a) \in T /\ Cat(Cat(ph, a), bcd) = Cat(ph, Cat(a, bcd))
      BY ONLY <1>2, <1>3, <1>5, <2>2, SMTT(30)
    <3> QED
      BY ONLY <1>4, <3>1
  <2>4. Cat(Cat(ph, a), b) \in T /\ Cat(Cat(ph, a), bcd) = Cat(Cat(Cat(ph, a), b), cd)
    <3>1. /\ Cat(Cat(ph, a), b) \in T
          /\ Cat(Cat(Cat(ph, a), b), cd) = Cat(Cat(ph, a), Cat(b, cd))
      BY ONLY <1>2, <1>3, <1>5, <2>3
    <3> QED
      BY ONLY <1>4, <3>1
  <2>5. Cat(Cat(Cat(ph, a), b), cd) = Cat(Cat(Cat(Cat(ph, a), b), c), d)
    BY ONLY <1>2, <1>3, <1>4, <1>5, <2>4
  <2> QED
    BY ONLY <2>1, <2>2, <2>3, <2>4, <2>5
<1> QED
  BY ONLY <1>1, <1>4, <1>5, <1>6, <1>8, <1>9 DEF Rebracketed

\* A column as Section writes it, from the right.
Framed(t, a, b, c, d) ==
  Cat(<<t, 0>>, Cat(Sized(a), Cat(Sized(b), Cat(Sized(c), Sized(d)))))

\* The type of a column as it is written.
LEMMA FramedTyped ==
  ASSUME NEW t \in Nat, NEW a \in Seq(Nat), NEW b \in Seq(Nat), NEW c \in Seq(Nat),
         NEW d \in Seq(Nat)
  PROVE  Framed(t, a, b, c, d) \in Seq(Nat)
<1>1. \A q \in Seq(Nat) : Sized(q) \in Seq(Nat)
  BY SizedFacts
<1>2. <<t, 0>> \in Seq(Nat)
  OBVIOUS
<1>3. \A x, y \in Seq(Nat) : Cat(x, y) \in Seq(Nat)
  BY CatFacts
<1> QED
  BY <1>1, <1>2, <1>3 DEF Framed

\* A column is read behind pre.
Found(bytes, pre, t, a, b, c, d) ==
  /\ Parts(bytes, Len(pre) + 1) = [type |-> t, encoding |-> 0, name |-> a, bitmap |-> b,
                                   first |-> c, second |-> d]
  /\ Past(bytes, Len(pre) + 1) = Len(Cat(pre, Framed(t, a, b, c, d))) + 1

\* Where a column was written, its parts are read, and it ends where the rest begins.
LEMMA FramedAt ==
  ASSUME NEW bytes, NEW pre \in Seq(Nat), NEW post \in Seq(Nat), NEW t \in Nat,
         NEW a \in Seq(Nat), NEW b \in Seq(Nat), NEW c \in Seq(Nat), NEW d \in Seq(Nat),
         bytes = Cat(pre, Cat(Framed(t, a, b, c, d), post))
  PROVE  Found(bytes, pre, t, a, b, c, d)
<1>1. PICK h, za, zb, zc, zd : h = <<t, 0>> /\ za = Sized(a) /\ zb = Sized(b) /\ zc = Sized(c)
                               /\ zd = Sized(d)
  OBVIOUS
<1>2. h \in Seq(Nat) /\ Len(h) = 2 /\ h[1] = t /\ h[2] = 0
  BY <1>1
<1>3. za \in Seq(Nat) /\ zb \in Seq(Nat) /\ zc \in Seq(Nat) /\ zd \in Seq(Nat)
  BY <1>1, SizedFacts
<1>4. PICK f : f = Cat(h, Cat(za, Cat(zb, Cat(zc, zd))))
  OBVIOUS
<1>5. f = Framed(t, a, b, c, d)
  BY <1>1, <1>4 DEF Framed
<1>6. PICK p0, p1, p2, p3, p4 :
        /\ p0 = Cat(pre, h) /\ p1 = Cat(p0, za) /\ p2 = Cat(p1, zb)
        /\ p3 = Cat(p2, zc) /\ p4 = Cat(p3, zd)
  OBVIOUS
<1>7. PICK r1, r2, r3 : r3 = Cat(zd, post) /\ r2 = Cat(zc, r3) /\ r1 = Cat(zb, r2)
  OBVIOUS
<1>8. /\ f \in Seq(Nat) /\ p0 \in Seq(Nat) /\ bytes = Cat(p0, Cat(za, r1)) /\ Cat(pre, f) = p4
      /\ r1 \in Seq(Nat) /\ r2 \in Seq(Nat) /\ r3 \in Seq(Nat)
  <2>1. /\ pre \in Seq(Nat) /\ h \in Seq(Nat) /\ za \in Seq(Nat) /\ zb \in Seq(Nat)
        /\ zc \in Seq(Nat) /\ zd \in Seq(Nat) /\ post \in Seq(Nat)
    BY <1>2, <1>3
  <2>2. Rebracketed(pre, h, za, zb, zc, zd, post)
    BY <2>1, Rebracket
  <2> QED
    BY <1>4, <1>5, <1>6, <1>7, <2>2 DEF Rebracketed
<1>9. /\ After(bytes, Len(p0) + 1) = Len(p1) + 1 /\ Block(bytes, Len(p0) + 1) = a
      /\ p1 \in Seq(Nat) /\ bytes = Cat(p1, Cat(zb, r2))
  <2>1. bytes = Cat(p0, Cat(Sized(a), r1))
    BY <1>1, <1>8
  <2>2. /\ bytes = Cat(Cat(p0, Sized(a)), r1) /\ Cat(p0, Sized(a)) \in Seq(Nat)
        /\ After(bytes, Len(p0) + 1) = Len(Cat(p0, Sized(a))) + 1
        /\ Block(bytes, Len(p0) + 1) = a
    BY <1>8, <2>1, SizedAt
  <2> QED
    BY <1>1, <1>6, <1>7, <2>2
<1>10. /\ After(bytes, Len(p1) + 1) = Len(p2) + 1 /\ Block(bytes, Len(p1) + 1) = b
       /\ p2 \in Seq(Nat) /\ bytes = Cat(p2, Cat(zc, r3))
  <2>1. bytes = Cat(p1, Cat(Sized(b), r2))
    BY <1>1, <1>9
  <2>2. /\ bytes = Cat(Cat(p1, Sized(b)), r2) /\ Cat(p1, Sized(b)) \in Seq(Nat)
        /\ After(bytes, Len(p1) + 1) = Len(Cat(p1, Sized(b))) + 1
        /\ Block(bytes, Len(p1) + 1) = b
    BY <1>8, <1>9, <2>1, SizedAt
  <2> QED
    BY <1>1, <1>6, <1>7, <2>2
<1>11. /\ After(bytes, Len(p2) + 1) = Len(p3) + 1 /\ Block(bytes, Len(p2) + 1) = c
       /\ p3 \in Seq(Nat) /\ bytes = Cat(p3, Cat(zd, post))
  <2>1. bytes = Cat(p2, Cat(Sized(c), r3))
    BY <1>1, <1>10
  <2>2. /\ bytes = Cat(Cat(p2, Sized(c)), r3) /\ Cat(p2, Sized(c)) \in Seq(Nat)
        /\ After(bytes, Len(p2) + 1) = Len(Cat(p2, Sized(c))) + 1
        /\ Block(bytes, Len(p2) + 1) = c
    BY <1>8, <1>10, <2>1, SizedAt
  <2> QED
    BY <1>1, <1>6, <1>7, <2>2
<1>12. After(bytes, Len(p3) + 1) = Len(p4) + 1 /\ Block(bytes, Len(p3) + 1) = d
  BY <1>1, <1>6, <1>11, SizedAt
<1>13. /\ Len(pre) + 1 + 2 = Len(p0) + 1
       /\ bytes[Len(pre) + 1] = t /\ bytes[Len(pre) + 1 + 1] = 0
  <2>1. /\ Cat(pre, h) \in Seq(Nat) /\ Len(pre) \in Nat /\ Len(Cat(pre, h)) = Len(pre) + Len(h)
        /\ \A k \in 1..Len(h) : Cat(pre, h)[Len(pre) + k] = h[k]
    BY <1>2, CatAt
  <2>2. PICK q : q = Cat(za, r1)
    OBVIOUS
  <2>3. q \in Seq(Nat)
    BY <1>3, <1>8, <2>2, CatAt
  <2>4. \A k \in 1..Len(p0) : Cat(p0, q)[k] = p0[k]
    BY <1>8, <2>3, CatAt
  <2>5. Len(p0) = Len(pre) + 2 /\ p0[Len(pre) + 1] = t /\ p0[Len(pre) + 2] = 0
    BY <1>2, <1>6, <2>1
  <2>6. Len(pre) + 1 \in 1..Len(p0) /\ Len(pre) + 2 \in 1..Len(p0) /\ Len(pre) + 1 + 1 = Len(pre) + 2
    BY <2>1, <2>5
  <2> QED
    BY <1>8, <2>1, <2>2, <2>4, <2>5, <2>6, SMTT(30)
<1>14. Parts(bytes, Len(pre) + 1) = [type |-> t, encoding |-> 0, name |-> a, bitmap |-> b,
                                     first |-> c, second |-> d]
  BY <1>9, <1>10, <1>11, <1>12, <1>13 DEF Parts
<1>15. Past(bytes, Len(pre) + 1) = Len(p4) + 1
  BY <1>9, <1>10, <1>11, <1>12, <1>13 DEF Past
<1> QED
  BY <1>5, <1>8, <1>14, <1>15 DEF Found

-----------------------------------------------------------------------------
(* Validity bitmaps. *)

\* The recursive definition of Byte, by its equations.
LEMMA ByteFacts ==
  ASSUME NEW valid, NEW j
  PROVE  /\ DOMAIN Byte(valid, j) = 0..ByteBits /\ Byte(valid, j)[0] = 0
         /\ \A k \in 1..ByteBits :
              Byte(valid, j)[k] = 2 * Byte(valid, j)[k - 1] + Bit(valid, j, ByteBits - k)
         /\ \A k \in 0..ByteBits : Byte(valid, j)[k] \in Nat
<1>1. ByteBits \in Nat /\ ByteBits > 0
  BY OrsxcolAssumption
<1>2. \A i : Bit(valid, j, i) \in {0, 1}
  BY DEF Bit
<1> DEFINE step == [p \in Nat \X Nat |-> 2 * p[2] + Bit(valid, j, ByteBits - p[1])]
           Eq(g) == g = [k \in 0..ByteBits |->
                           IF k = 0 THEN 0 ELSE 2 * g[k - 1] + Bit(valid, j, ByteBits - k)]
<1>3. step \in [Nat \X Nat -> Nat]
  BY <1>2
<1>4. PICK f \in [0..ByteBits -> Nat] : Follows(f, 0, ByteBits, 0, step)
  <2> HIDE DEF step
  <2> QED
    BY <1>1, <1>3, Recursion
<1>5. Eq(f)
  <2>1. ASSUME NEW k \in 0..ByteBits
        PROVE  f[k] = IF k = 0 THEN 0 ELSE 2 * f[k - 1] + Bit(valid, j, ByteBits - k)
    <3>1. CASE k = 0
      BY <1>1, <1>4, <3>1 DEF Follows
    <3>2. CASE k # 0
      <4>1. f[k] = step[<<k, f[k - 1]>>]
        <5> HIDE DEF step
        <5> QED
          BY <1>1, <1>4, <3>2 DEF Follows
      <4>2. f[k - 1] \in Nat /\ k \in Nat
        BY <1>1, <3>2
      <4> QED
        BY <3>2, <4>1, <4>2
    <3> QED
      BY <3>1, <3>2
  <2>2. f = [k \in 0..ByteBits |-> f[k]]
    OBVIOUS
  <2> QED
    BY <2>1, <2>2
<1>6. PICK s : s = Byte(valid, j)
  OBVIOUS
<1>7. Eq(s)
  <2>1. s = CHOOSE g : Eq(g)
    BY <1>6 DEF Byte
  <2> QED
    BY <1>5, <2>1
<1>8. /\ DOMAIN s = 0..ByteBits /\ s[0] = 0
      /\ \A k \in 1..ByteBits : s[k] = 2 * s[k - 1] + Bit(valid, j, ByteBits - k)
  <2> DEFINE h == [k \in 0..ByteBits |->
                     IF k = 0 THEN 0 ELSE 2 * s[k - 1] + Bit(valid, j, ByteBits - k)]
  <2>1. s = h
    BY <1>7
  <2>2. DOMAIN h = 0..ByteBits /\ h[0] = 0
        /\ \A k \in 1..ByteBits : h[k] = 2 * s[k - 1] + Bit(valid, j, ByteBits - k)
    BY <1>1
  <2> HIDE DEF h
  <2> QED
    BY <2>1, <2>2
<1>9. ASSUME NEW k \in 0..ByteBits PROVE s[k] \in Nat
  <2>1. ASSUME NEW n \in 0..ByteBits, n # 0, s[n - 1] \in Nat PROVE s[n] \in Nat
    <3>1. n \in 1..ByteBits
      BY <1>1, <2>1
    <3>2. s[n] = 2 * s[n - 1] + Bit(valid, j, ByteBits - n)
      BY <1>8, <3>1
    <3>3. Bit(valid, j, ByteBits - n) \in Nat
      BY <1>2
    <3> QED
      BY <2>1, <3>2, <3>3
  <2>2. 0 <= ByteBits => s[0] \in Nat
    BY <1>8
  <2> QED
    BY <1>1, <2>1, <2>2, StaysIn
<1> QED
  BY <1>6, <1>8, <1>9

\* The recursive definition of Shifted, by its equations.
LEMMA ShiftedFacts ==
  ASSUME NEW byte \in Nat
  PROVE  /\ Shifted(byte)[0] = byte
         /\ \A i \in 1..ByteBits : Shifted(byte)[i] = Shifted(byte)[i - 1] \div 2
<1>1. ByteBits \in Nat /\ ByteBits > 0
  BY OrsxcolAssumption
<1> DEFINE step == [p \in Nat \X Nat |-> p[2] \div 2]
           Eq(g) == g = [i \in 0..ByteBits |-> IF i = 0 THEN byte ELSE g[i - 1] \div 2]
<1>2. step \in [Nat \X Nat -> Nat]
  OBVIOUS
<1>3. PICK f \in [0..ByteBits -> Nat] : Follows(f, 0, ByteBits, byte, step)
  <2> HIDE DEF step
  <2> QED
    BY <1>1, <1>2, Recursion
<1>4. Eq(f)
  <2>1. ASSUME NEW i \in 0..ByteBits
        PROVE  f[i] = IF i = 0 THEN byte ELSE f[i - 1] \div 2
    <3>1. CASE i = 0
      BY <1>1, <1>3, <3>1 DEF Follows
    <3>2. CASE i # 0
      <4>1. f[i] = step[<<i, f[i - 1]>>]
        <5> HIDE DEF step
        <5> QED
          BY <1>1, <1>3, <3>2 DEF Follows
      <4>2. f[i - 1] \in Nat /\ i \in Nat
        BY <1>1, <3>2
      <4> QED
        BY <3>2, <4>1, <4>2
    <3> QED
      BY <3>1, <3>2
  <2>2. f = [i \in 0..ByteBits |-> f[i]]
    OBVIOUS
  <2> QED
    BY <2>1, <2>2
<1>5. PICK s : s = Shifted(byte)
  OBVIOUS
<1>6. Eq(s)
  <2>1. s = CHOOSE g : Eq(g)
    BY <1>5 DEF Shifted
  <2> QED
    BY <1>4, <2>1
<1>7. s[0] = byte /\ \A i \in 1..ByteBits : s[i] = s[i - 1] \div 2
  <2> DEFINE h == [i \in 0..ByteBits |-> IF i = 0 THEN byte ELSE s[i - 1] \div 2]
  <2>1. s = h
    BY <1>6
  <2>2. h[0] = byte /\ \A i \in 1..ByteBits : h[i] = s[i - 1] \div 2
    BY <1>1
  <2> HIDE DEF h
  <2> QED
    BY <2>1, <2>2
<1> QED
  BY <1>5, <1>7

\* A bit of a byte is the one it was made of.
LEMMA BitBack ==
  ASSUME NEW valid, NEW j, NEW i \in 0..(ByteBits - 1)
  PROVE  Shifted(Byte(valid, j)[ByteBits])[i] % 2 = Bit(valid, j, i)
<1>1. ByteBits \in Nat /\ ByteBits > 0 /\ ByteBits \in 0..ByteBits
  BY OrsxcolAssumption
<1>2. \A k : Bit(valid, j, k) \in {0, 1}
  BY DEF Bit
<1>3. PICK w, s : w = Byte(valid, j) /\ s = Shifted(w[ByteBits])
  OBVIOUS
<1>4. /\ \A k \in 1..ByteBits : w[k] = 2 * w[k - 1] + Bit(valid, j, ByteBits - k)
      /\ \A k \in 0..ByteBits : w[k] \in Nat
  BY <1>3, ByteFacts
<1>5. s[0] = w[ByteBits] /\ \A k \in 1..ByteBits : s[k] = s[k - 1] \div 2
  BY <1>1, <1>3, <1>4, ShiftedFacts
<1>6. ASSUME NEW k \in 1..ByteBits
      PROVE  w[k] \div 2 = w[k - 1] /\ w[k] % 2 = Bit(valid, j, ByteBits - k)
  <2>1. PICK x, y : x = w[k - 1] /\ y = Bit(valid, j, ByteBits - k)
    OBVIOUS
  <2>2. k - 1 \in 0..ByteBits
    BY <1>1
  <2>3. x \in Nat /\ y \in {0, 1} /\ w[k] = 2 * x + y
    BY <1>2, <1>4, <2>1, <2>2
  <2>4. (2 * x + y) \div 2 = x /\ (2 * x + y) % 2 = y
    BY <2>3
  <2> QED
    BY <2>1, <2>3, <2>4
<1> DEFINE T == {n \in Nat : n <= ByteBits => s[n] = w[ByteBits - n]}
<1>7. 0 \in T
  <2>1. ByteBits - 0 = ByteBits
    BY <1>1
  <2> QED
    BY <1>5, <2>1
<1>8. ASSUME NEW n \in Nat, n \in T PROVE n + 1 \in T
  <2> SUFFICES ASSUME n + 1 <= ByteBits PROVE s[n + 1] = w[ByteBits - (n + 1)]
    OBVIOUS
  <2>1. s[n] = w[ByteBits - n] /\ n + 1 \in 1..ByteBits /\ (n + 1) - 1 = n
    BY <1>1, <1>8
  <2>2. ByteBits - n \in 1..ByteBits /\ (ByteBits - n) - 1 = ByteBits - (n + 1)
    BY <1>1
  <2>3. s[n + 1] = s[n] \div 2
    BY <1>5, <2>1
  <2>4. w[ByteBits - n] \div 2 = w[ByteBits - (n + 1)]
    BY <1>6, <2>2
  <2> QED
    BY <2>1, <2>3, <2>4
<1>9. s[i] = w[ByteBits - i]
  <2>1. i \in T
    <3> HIDE DEF T
    <3> QED
      BY <1>7, <1>8, Induction
  <2> QED
    BY <1>1, <2>1
<1>10. ByteBits - i \in 1..ByteBits /\ ByteBits - (ByteBits - i) = i
  BY <1>1
<1>11. w[ByteBits - i] % 2 = Bit(valid, j, ByteBits - (ByteBits - i))
  BY <1>6, <1>10
<1> QED
  BY <1>3, <1>9, <1>10, <1>11

\* A number of whole bytes and some bits, divided again.
LEMMA DivideBits ==
  ASSUME NEW q \in Nat, NEW i \in 0..(ByteBits - 1)
  PROVE  (q * ByteBits + i) \div ByteBits = q /\ (q * ByteBits + i) % ByteBits = i
<1>1. PICK b : b = ByteBits
  OBVIOUS
<1>2. b \in Nat /\ b > 0 /\ i \in Nat /\ i < b
  BY <1>1, OrsxcolAssumption
<1>3. PICK n : n = q * b + i
  OBVIOUS
<1>4. q * b \in Nat
  BY <1>2
<1>5. n \in Nat
  BY <1>2, <1>3, <1>4
<1>6. PICK d : d = n \div b
  OBVIOUS
<1>7. d \in Nat /\ b * d <= n /\ n < b * d + b /\ n % b = n - b * d
  BY <1>2, <1>5, <1>6
<1>8. d = q
  <2>1. ~(d < q)
    <3> SUFFICES ASSUME d + 1 <= q PROVE FALSE
      BY <1>7
    <3>1. b * (d + 1) <= b * q
      BY <1>2, <1>7
    <3> QED
      BY <1>2, <1>3, <1>7, <3>1
  <2>2. ~(q < d)
    <3> SUFFICES ASSUME q + 1 <= d PROVE FALSE
      BY <1>7
    <3>1. b * (q + 1) <= b * d
      BY <1>2, <1>7
    <3> QED
      BY <1>2, <1>3, <1>7, <3>1
  <2> QED
    BY <1>7, <2>1, <2>2
<1>9. n % b = i
  BY <1>2, <1>3, <1>7, <1>8
<1> QED
  BY <1>1, <1>3, <1>6, <1>8, <1>9

\* A bitmap is as many numbers as its bits need bytes.
LEMMA BitmapTyped ==
  ASSUME NEW valid, Len(valid) \in Nat
  PROVE  /\ Bitmap(valid) \in Seq(Nat) /\ Len(Bitmap(valid)) = CeilDiv(Len(valid))
         /\ \A j \in 1..CeilDiv(Len(valid)) : Bitmap(valid)[j] = Byte(valid, j)[ByteBits]
<1>1. PICK k : k = CeilDiv(Len(valid))
  OBVIOUS
<1>2. k \in Nat
  BY <1>1, CeilDivFacts
<1>3. ASSUME NEW j \in 1..k PROVE Byte(valid, j)[ByteBits] \in Nat
  <2>1. ByteBits \in 0..ByteBits
    BY OrsxcolAssumption
  <2> QED
    BY <2>1, ByteFacts
<1>4. Bitmap(valid) = [j \in 1..k |-> Byte(valid, j)[ByteBits]]
  BY <1>1 DEF Bitmap
<1>5. Bitmap(valid) \in [1..k -> Nat] /\ \A j \in 1..k : Bitmap(valid)[j] = Byte(valid, j)[ByteBits]
  BY <1>3, <1>4
<1> QED
  BY <1>1, <1>2, <1>5

\* Bit i of byte j of a bitmap, among the bits it stands for.
LEMMA BitOfBitmap ==
  ASSUME NEW valid, Len(valid) \in Nat, NEW j \in 1..CeilDiv(Len(valid)), NEW i \in 0..(ByteBits - 1)
  PROVE  LET bits == BitsOf(Bitmap(valid))  r == (j - 1) * ByteBits + i + 1
         IN  /\ r \in 1..(ByteBits * CeilDiv(Len(valid)))
             /\ Len(bits) = ByteBits * CeilDiv(Len(valid))
             /\ bits[r] = (Bit(valid, j, i) = 1)
<1>1. PICK b, k, m, r : /\ b = ByteBits /\ k = CeilDiv(Len(valid)) /\ m = Bitmap(valid)
                        /\ r = (j - 1) * b + i + 1
  OBVIOUS
<1>2. b \in Nat /\ b > 0 /\ k \in Nat /\ j \in 1..k /\ i \in Nat /\ i < b
  BY <1>1, OrsxcolAssumption, CeilDivFacts
<1>3. Len(m) = k /\ m[j] = Byte(valid, j)[b]
  BY <1>1, BitmapTyped
<1>4. (j - 1) * b \in Nat /\ b * k \in Nat
  BY <1>2
<1>5. r \in 1..(b * k)
  <2>1. j - 1 \in Nat /\ j <= k
    BY <1>2
  <2>2. b * j <= b * k
    BY <1>2, <2>1
  <2>3. (j - 1) * b + b = b * j
    BY <1>2
  <2> QED
    BY <1>1, <1>2, <1>4, <2>2, <2>3
<1>6. r - 1 = (j - 1) * b + i
  BY <1>1, <1>2, <1>4
<1>7. (r - 1) \div b = j - 1 /\ (r - 1) % b = i
  <2>1. j - 1 \in Nat /\ i \in 0..(ByteBits - 1)
    BY <1>2
  <2> QED
    BY <1>1, <1>6, <2>1, DivideBits
<1>8. PICK bits : bits = BitsOf(m)
  OBVIOUS
<1>9. Len(bits) = b * k /\ bits[r] = (Shifted(m[(r - 1) \div b + 1])[(r - 1) % b] % 2 = 1)
  <2>1. bits = [x \in 1..(b * k) |-> Shifted(m[(x - 1) \div b + 1])[(x - 1) % b] % 2 = 1]
    BY <1>1, <1>3, <1>8 DEF BitsOf
  <2> QED
    BY <1>4, <1>5, <2>1
<1>10. Shifted(m[(r - 1) \div b + 1])[(r - 1) % b] % 2 = Bit(valid, j, i)
  <2>1. (r - 1) \div b + 1 = j
    BY <1>2, <1>7
  <2>2. Shifted(Byte(valid, j)[ByteBits])[i] % 2 = Bit(valid, j, i)
    BY BitBack
  <2> QED
    BY <1>1, <1>3, <1>7, <2>1, <2>2
<1> QED
  BY <1>1, <1>5, <1>8, <1>9, <1>10

\* A bit that was set or not is read as that again.
LEMMA BitsBack ==
  ASSUME NEW valid \in Seq(BOOLEAN), NEW r \in 1..Len(valid)
  PROVE  BitsOf(Bitmap(valid))[r] = valid[r]
<1>1. PICK b, n, k, d, i : /\ b = ByteBits /\ n = Len(valid) /\ k = CeilDiv(n)
                           /\ d = (r - 1) \div b /\ i = (r - 1) % b
  OBVIOUS
<1>2. b \in Nat /\ b > 0 /\ n \in Nat /\ k \in Nat /\ r \in 1..n /\ n <= b * k
  BY <1>1, OrsxcolAssumption, CeilDivFacts
<1>3. d \in Nat /\ i \in 0..(b - 1) /\ r - 1 = b * d + i
  BY <1>1, <1>2
<1>4. b * d \in Nat /\ b * d < b * k
  BY <1>2, <1>3
<1>5. d < k
  <2> SUFFICES ASSUME k <= d PROVE FALSE
    BY <1>2, <1>3
  <2>1. b * k <= b * d
    BY <1>2, <1>3
  <2> QED
    BY <1>2, <1>4, <2>1
<1>6. d + 1 \in 1..k /\ ((d + 1) - 1) * b + i + 1 = r
  BY <1>2, <1>3, <1>5
<1>7. BitsOf(Bitmap(valid))[r] = (Bit(valid, d + 1, i) = 1)
  <2>1. /\ d + 1 \in 1..CeilDiv(Len(valid)) /\ i \in 0..(ByteBits - 1) /\ Len(valid) \in Nat
    BY <1>1, <1>2, <1>3, <1>6
  <2>2. BitsOf(Bitmap(valid))[((d + 1) - 1) * ByteBits + i + 1] = (Bit(valid, d + 1, i) = 1)
    BY <2>1, BitOfBitmap
  <2> QED
    BY <1>1, <1>6, <2>2
<1>8. Bit(valid, d + 1, i) = IF valid[r] THEN 1 ELSE 0
  BY <1>1, <1>2, <1>6 DEF Bit
<1>9. valid[r] \in BOOLEAN
  OBVIOUS
<1> QED
  BY <1>7, <1>8, <1>9

\* Bytes are determined by their bits.
LEMMA SameBits ==
  ASSUME NEW valid, NEW other, NEW j,
         \A i \in 0..(ByteBits - 1) : Bit(other, j, i) = Bit(valid, j, i)
  PROVE  Byte(other, j)[ByteBits] = Byte(valid, j)[ByteBits]
<1>1. ByteBits \in Nat /\ ByteBits > 0
  BY OrsxcolAssumption
<1>2. PICK u, w : u = Byte(other, j) /\ w = Byte(valid, j)
  OBVIOUS
<1>3. /\ u[0] = 0 /\ w[0] = 0
      /\ \A k \in 1..ByteBits : u[k] = 2 * u[k - 1] + Bit(other, j, ByteBits - k)
      /\ \A k \in 1..ByteBits : w[k] = 2 * w[k - 1] + Bit(valid, j, ByteBits - k)
  BY <1>2, ByteFacts
<1> DEFINE T == {k \in Nat : k <= ByteBits => u[k] = w[k]}
<1>4. 0 \in T
  BY <1>3
<1>5. ASSUME NEW k \in Nat, k \in T PROVE k + 1 \in T
  <2> SUFFICES ASSUME k + 1 <= ByteBits PROVE u[k + 1] = w[k + 1]
    OBVIOUS
  <2>1. k + 1 \in 1..ByteBits /\ (k + 1) - 1 = k /\ ByteBits - (k + 1) \in 0..(ByteBits - 1)
        /\ u[k] = w[k]
    BY <1>1, <1>5
  <2>2. u[k + 1] = 2 * u[k] + Bit(other, j, ByteBits - (k + 1))
    BY <1>3, <2>1
  <2>3. w[k + 1] = 2 * w[k] + Bit(valid, j, ByteBits - (k + 1))
    BY <1>3, <2>1
  <2>4. Bit(other, j, ByteBits - (k + 1)) = Bit(valid, j, ByteBits - (k + 1))
    BY <2>1
  <2> QED
    BY <2>1, <2>2, <2>3, <2>4
<1>6. ByteBits \in T
  <2> HIDE DEF T
  <2> QED
    BY <1>1, <1>4, <1>5, Induction
<1> QED
  BY <1>1, <1>2, <1>6

\* The bits of a bitmap make the same bitmap again.
LEMMA BitmapAgain ==
  ASSUME NEW valid \in Seq(BOOLEAN)
  PROVE  /\ Bitmap(BitsOf(Bitmap(valid))) = Bitmap(valid)
         /\ Len(BitsOf(Bitmap(valid))) \in Nat
         /\ CeilDiv(Len(BitsOf(Bitmap(valid)))) = CeilDiv(Len(valid))
<1>1. PICK b, n, k, m, bits : /\ b = ByteBits /\ n = Len(valid) /\ k = CeilDiv(n)
                              /\ m = Bitmap(valid) /\ bits = BitsOf(m)
  OBVIOUS
<1>2. b \in Nat /\ b > 0 /\ n \in Nat /\ k \in Nat /\ n <= b * k /\ b * k \in Nat
  <2>1. n \in Nat /\ b \in Nat /\ b > 0
    BY <1>1, OrsxcolAssumption
  <2>2. k \in Nat /\ n <= b * k
    BY <1>1, <2>1, CeilDivFacts
  <2> QED
    BY <2>1, <2>2
<1>3. m \in Seq(Nat) /\ Len(m) = k /\ \A j \in 1..k : m[j] = Byte(valid, j)[b]
  BY <1>1, <1>2, BitmapTyped
<1>4. Len(bits) = b * k
  BY <1>1, <1>2, <1>3 DEF BitsOf
<1>5. CeilDiv(b * k) = k
  <2>1. CeilDiv(b * k) = (k * b + (b - 1)) \div b
    BY <1>1, <1>2 DEF CeilDiv
  <2>2. b - 1 \in 0..(ByteBits - 1)
    BY <1>1, <1>2
  <2>3. (k * ByteBits + (b - 1)) \div ByteBits = k
    BY <1>2, <2>2, DivideBits
  <2> QED
    BY <1>1, <2>1, <2>3
<1>6. ASSUME NEW j \in 1..k PROVE Byte(bits, j)[b] = Byte(valid, j)[b]
  <2>1. ASSUME NEW i \in 0..(ByteBits - 1) PROVE Bit(bits, j, i) = Bit(valid, j, i)
    <3>1. PICK r : r = (j - 1) * ByteBits + i + 1
      OBVIOUS
    <3>2. j \in 1..CeilDiv(Len(valid)) /\ Len(valid) \in Nat
      BY <1>1, <1>2
    <3>3. /\ (j - 1) * ByteBits + i + 1 \in 1..(ByteBits * CeilDiv(Len(valid)))
          /\ Len(BitsOf(Bitmap(valid))) = ByteBits * CeilDiv(Len(valid))
          /\ BitsOf(Bitmap(valid))[(j - 1) * ByteBits + i + 1] = (Bit(valid, j, i) = 1)
      BY <3>2, BitOfBitmap
    <3>4. r \in 1..(b * k) /\ bits[r] = (Bit(valid, j, i) = 1)
      BY <1>1, <3>1, <3>3
    <3>5. Bit(bits, j, i) = IF bits[r] THEN 1 ELSE 0
      BY <1>2, <1>4, <3>1, <3>4 DEF Bit
    <3>6. Bit(valid, j, i) \in {0, 1}
      BY DEF Bit
    <3>7. CASE Bit(valid, j, i) = 1
      BY <3>4, <3>5, <3>7
    <3>8. CASE Bit(valid, j, i) # 1
      BY <3>4, <3>5, <3>6, <3>8
    <3> QED
      BY <3>7, <3>8
  <2> QED
    BY <1>1, <2>1, SameBits
<1>7. Bitmap(bits) \in Seq(Nat) /\ Len(Bitmap(bits)) = k
      /\ \A j \in 1..k : Bitmap(bits)[j] = Byte(bits, j)[b]
  <2>1. Len(bits) \in Nat /\ CeilDiv(Len(bits)) = k
    BY <1>2, <1>4, <1>5
  <2> QED
    BY <1>1, <2>1, BitmapTyped
<1>8. \A j \in 1..k : Bitmap(bits)[j] = m[j]
  BY <1>3, <1>6, <1>7
<1>9. Bitmap(bits) = m
  BY <1>3, <1>7, <1>8, SeqEqual
<1> QED
  BY <1>1, <1>2, <1>4, <1>5, <1>9

-----------------------------------------------------------------------------
(* A batch in a stream. *)

\* What the buffers of a batch hold, of whatever capacity.
Buffers == [valid : Seq(BOOLEAN), values : Seq(Nat), offsets : Seq(Nat), data : Seq(Nat),
            chunks : Seq(Seq(Nat)), total : Nat]

AnyBatch == [rows : Nat, cols : [Columns -> Buffers]]

\* The parts of its n-th column in a stream.
PartsOf(b, n) ==
  LET c == b.cols[n] IN
  [type |-> TypeId[Schema[n]], encoding |-> 0, name |-> Names[n], bitmap |-> Bitmap(c.valid),
   first |-> IF IsVar(Schema[n]) THEN c.offsets ELSE c.values,
   second |-> IF IsVar(Schema[n]) THEN Coalesced(c) ELSE <<>>]

\* The bytes of a variable column are numbers.
LEMMA CoalescedTyped ==
  ASSUME NEW c, c.data \in Seq(Nat), c.chunks \in Seq(Seq(Nat))
  PROVE  Coalesced(c) \in Seq(Nat)
<1>1. FlattenSeq(c.chunks) \in Seq(Nat)
  BY FlattenType
<1> QED
  BY <1>1, ConcatHead DEF Coalesced

\* The type of the parts.
LEMMA PartsOfTyped ==
  ASSUME NEW b \in AnyBatch, NEW n \in Columns
  PROVE  LET p == PartsOf(b, n) IN
         /\ p.type \in Nat /\ p.name \in Seq(Nat) /\ p.bitmap \in Seq(Nat)
         /\ p.first \in Seq(Nat) /\ p.second \in Seq(Nat)
<1>1. PICK c : c = b.cols[n]
  OBVIOUS
<1>2. /\ c \in Buffers /\ c.valid \in Seq(BOOLEAN) /\ c.values \in Seq(Nat)
      /\ c.offsets \in Seq(Nat) /\ c.data \in Seq(Nat) /\ c.chunks \in Seq(Seq(Nat))
  BY <1>1 DEF AnyBatch, Buffers
<1>3. Coalesced(c) \in Seq(Nat)
  BY <1>2, CoalescedTyped
<1>4. Bitmap(c.valid) \in Seq(Nat)
  <2>1. Len(c.valid) \in Nat
    BY <1>2
  <2> QED
    BY <2>1, BitmapTyped
<1>5. Schema[n] \in {"fixed", "timestamp", "text", "json"}
  BY BatchAssumption DEF Columns
<1>6. TypeId[Schema[n]] \in Nat
  BY <1>5 DEF TypeId
<1>7. Names[n] \in Seq(Nat)
  BY OrsxcolAssumption DEF Columns
<1>8. <<>> \in Seq(Nat)
  OBVIOUS
<1> QED
  BY <1>1, <1>2, <1>3, <1>4, <1>6, <1>7, <1>8 DEF PartsOf

\* Section writes the parts.
LEMMA SectionFramed ==
  ASSUME NEW b \in AnyBatch, NEW n \in Columns
  PROVE  LET p == PartsOf(b, n)
         IN  Section(b, n) = Framed(p.type, p.name, p.bitmap, p.first, p.second)
<1>1. PICK c, p : c = b.cols[n] /\ p = PartsOf(b, n)
  OBVIOUS
<1>2. /\ p.type \in Nat /\ p.name \in Seq(Nat) /\ p.bitmap \in Seq(Nat)
      /\ p.first \in Seq(Nat) /\ p.second \in Seq(Nat)
  BY <1>1, PartsOfTyped
<1>3. PICK h, x, y, z, w : /\ h = <<p.type, 0>> /\ x = Sized(p.name) /\ y = Sized(p.bitmap)
                           /\ z = Sized(p.first) /\ w = Sized(p.second)
  OBVIOUS
<1>4. h \in Seq(Nat) /\ x \in Seq(Nat) /\ y \in Seq(Nat) /\ z \in Seq(Nat) /\ w \in Seq(Nat)
  <2>1. h \in Seq(Nat)
    BY <1>2, <1>3
  <2>2. \A q \in Seq(Nat) : Sized(q) \in Seq(Nat)
    BY SizedFacts
  <2> QED
    BY <1>2, <1>3, <2>1, <2>2
<1>5. Section(b, n) = Cat(Cat(Cat(h, x), y), Cat(z, w))
  <2>1. Sized(<<>>) = <<0>>
    BY DEF Sized
  <2>2. CASE IsVar(Schema[n])
    <3>1. /\ p.type = TypeId[Schema[n]] /\ p.name = Names[n] /\ p.bitmap = Bitmap(c.valid)
          /\ p.first = c.offsets /\ p.second = Coalesced(c)
      BY <1>1, <2>2 DEF PartsOf
    <3> QED
      BY <1>1, <1>3, <2>2, <3>1 DEF Section, Cat
  <2>3. CASE ~IsVar(Schema[n])
    <3>1. /\ p.type = TypeId[Schema[n]] /\ p.name = Names[n] /\ p.bitmap = Bitmap(c.valid)
          /\ p.first = c.values /\ p.second = <<>>
      BY <1>1, <2>3 DEF PartsOf
    <3> QED
      BY <1>1, <1>3, <2>1, <2>3, <3>1 DEF Section, Cat
  <2> QED
    BY <2>2, <2>3
<1>6. Cat(Cat(Cat(h, x), y), Cat(z, w)) = Cat(h, Cat(x, Cat(y, Cat(z, w))))
  <2>1. PICK T : T = Seq(Nat)
    OBVIOUS
  <2>2. \A u, v, q \in T : Cat(u, v) \in T /\ Cat(Cat(u, v), q) = Cat(u, Cat(v, q))
    BY ONLY <2>1, CatFacts
  <2>3. PICK zw : zw = Cat(z, w)
    OBVIOUS
  <2>4. h \in T /\ x \in T /\ y \in T /\ zw \in T
    BY ONLY <1>4, <2>1, <2>2, <2>3
  <2>5. Cat(Cat(Cat(h, x), y), zw) = Cat(h, Cat(x, Cat(y, zw)))
    BY ONLY <2>2, <2>4
  <2> QED
    BY <2>3, <2>5
<1> QED
  BY <1>1, <1>3, <1>5, <1>6 DEF Framed

\* The symbols before the first column.
Beginning(b) == BatchMagic \o <<BatchVersion, 0, b.rows, Len(b.cols)>>

\* The prelude of a stream.
LEMMA BeginningFacts ==
  ASSUME NEW b \in AnyBatch
  PROVE  /\ Beginning(b) \in Seq(Nat) /\ Len(Beginning(b)) = 6
         /\ Beginning(b)[1] = BatchMagic[1] /\ Beginning(b)[2] = BatchMagic[2]
         /\ Beginning(b)[3] = BatchVersion /\ Beginning(b)[4] = 0
         /\ Beginning(b)[5] = b.rows /\ Beginning(b)[6] = Len(Schema)
<1>1. b.rows \in Nat /\ Len(b.cols) = Len(Schema) /\ Len(Schema) \in Nat
  BY BatchAssumption DEF AnyBatch, Columns
<1>2. PICK x \in Nat, y \in Nat : BatchMagic = <<x, y>>
  BY OrsxcolAssumption
<1>3. PICK u, v : u = <<x, y>> /\ v = <<BatchVersion, 0, b.rows, Len(Schema)>>
  OBVIOUS
<1>4. u \in Seq(Nat) /\ Len(u) = 2 /\ u[1] = x /\ u[2] = y
  BY <1>3
<1>5. /\ v \in Seq(Nat) /\ Len(v) = 4 /\ v[1] = BatchVersion /\ v[2] = 0 /\ v[3] = b.rows
      /\ v[4] = Len(Schema)
  BY <1>1, <1>3, OrsxcolAssumption
<1>6. Beginning(b) = Cat(u, v)
  BY <1>1, <1>2, <1>3 DEF Beginning, Cat
<1>7. /\ Cat(u, v) \in Seq(Nat) /\ Len(u) \in Nat /\ Len(v) \in Nat
      /\ Len(Cat(u, v)) = Len(u) + Len(v)
      /\ \A k \in 1..Len(u) : Cat(u, v)[k] = u[k]
      /\ \A k \in 1..Len(v) : Cat(u, v)[Len(u) + k] = v[k]
  BY <1>4, <1>5, CatAt
<1>8. Cat(u, v)[1] = x /\ Cat(u, v)[2] = y
  BY <1>4, <1>7
<1>9. /\ Cat(u, v)[3] = BatchVersion /\ Cat(u, v)[4] = 0 /\ Cat(u, v)[5] = b.rows
      /\ Cat(u, v)[6] = Len(Schema)
  <2>1. \A k \in 1..4 : Cat(u, v)[2 + k] = v[k]
    BY <1>4, <1>5, <1>7
  <2>2. /\ Cat(u, v)[2 + 1] = v[1] /\ Cat(u, v)[2 + 2] = v[2] /\ Cat(u, v)[2 + 3] = v[3]
        /\ Cat(u, v)[2 + 4] = v[4]
    BY <2>1
  <2> QED
    BY <1>5, <2>2
<1> QED
  BY <1>2, <1>4, <1>5, <1>6, <1>7, <1>8, <1>9

\* The columns of a batch one after the other.
Sections(b) == [n \in 1..Len(b.cols) |-> Section(b, n)]

\* Encode is the prelude and the columns.
LEMMA EncodeFacts ==
  ASSUME NEW b \in AnyBatch
  PROVE  /\ Sections(b) \in Seq(Seq(Nat)) /\ Len(Sections(b)) = Len(Schema)
         /\ \A n \in Columns : Sections(b)[n] = Section(b, n)
         /\ Encode(b) = Cat(Beginning(b), FlattenSeq(Sections(b)))
         /\ Encode(b) \in Seq(Nat) /\ Len(Encode(b)) >= 6
         /\ \A k \in 1..6 : Encode(b)[k] = Beginning(b)[k]
<1>1. Len(b.cols) = Len(Schema) /\ Len(Schema) \in Nat
  BY BatchAssumption DEF AnyBatch, Columns
<1>2. ASSUME NEW n \in Columns PROVE Section(b, n) \in Seq(Nat)
  <2>1. PICK p : p = PartsOf(b, n)
    OBVIOUS
  <2>2. /\ p.type \in Nat /\ p.name \in Seq(Nat) /\ p.bitmap \in Seq(Nat)
        /\ p.first \in Seq(Nat) /\ p.second \in Seq(Nat)
    BY <2>1, PartsOfTyped
  <2>3. Section(b, n) = Framed(p.type, p.name, p.bitmap, p.first, p.second)
    BY <2>1, SectionFramed
  <2>4. Framed(p.type, p.name, p.bitmap, p.first, p.second) \in Seq(Nat)
    BY <2>2, FramedTyped
  <2> QED
    BY <2>3, <2>4
<1>3. /\ Sections(b) \in Seq(Seq(Nat)) /\ Len(Sections(b)) = Len(Schema)
      /\ \A n \in Columns : Sections(b)[n] = Section(b, n)
  BY <1>1, <1>2 DEF Sections, Columns
<1>4. PICK h, f : h = Beginning(b) /\ f = FlattenSeq(Sections(b))
  OBVIOUS
<1>5. h \in Seq(Nat) /\ Len(h) = 6 /\ f \in Seq(Nat)
  BY <1>3, <1>4, BeginningFacts, FlattenType
<1>6. Encode(b) = Cat(h, f)
  BY <1>4 DEF Encode, Beginning, Sections, Cat
<1>7. /\ Cat(h, f) \in Seq(Nat) /\ Len(f) \in Nat /\ Len(Cat(h, f)) = Len(h) + Len(f)
      /\ \A k \in 1..Len(h) : Cat(h, f)[k] = h[k]
  BY <1>5, CatAt
<1> QED
  BY <1>3, <1>4, <1>5, <1>6, <1>7

\* The walk over the bytes of a batch meets its columns.
Met(b, k) ==
  \E pre \in Seq(Nat) :
    /\ Encode(b) = Cat(pre, FlattenSeq(SubSeq(Sections(b), k + 1, Len(Sections(b)))))
    /\ Starts(Encode(b))[k + 1] = Len(pre) + 1

\* It meets the first one behind the prelude.
LEMMA MetFirst ==
  ASSUME NEW b \in AnyBatch
  PROVE  Met(b, 0)
<1>1. /\ Sections(b) \in Seq(Seq(Nat)) /\ Encode(b) \in Seq(Nat) /\ Len(Encode(b)) >= Prelude
      /\ Encode(b) = Cat(Beginning(b), FlattenSeq(Sections(b)))
  BY EncodeFacts DEF Prelude
<1>2. Beginning(b) \in Seq(Nat) /\ Len(Beginning(b)) = 6
  BY BeginningFacts
<1>3. Starts(Encode(b))[0 + 1] = Len(Beginning(b)) + 1
  BY <1>1, <1>2, StartsFacts
<1>4. SubSeq(Sections(b), 0 + 1, Len(Sections(b))) = Sections(b)
  BY <1>1, SubSeqFull
<1> QED
  BY <1>1, <1>2, <1>3, <1>4 DEF Met

\* From a column it has met it reads the parts, and comes to the next one.
LEMMA MetNext ==
  ASSUME NEW b \in AnyBatch, NEW n \in Columns, Met(b, n - 1)
  PROVE  Met(b, n) /\ Parts(Encode(b), Starts(Encode(b))[n]) = PartsOf(b, n)
<1>1. PICK e, ss : e = Encode(b) /\ ss = Sections(b)
  OBVIOUS
<1>2. /\ ss \in Seq(Seq(Nat)) /\ Len(ss) = Len(Schema) /\ ss[n] = Section(b, n)
      /\ e \in Seq(Nat) /\ Len(e) >= Prelude /\ e[6] = Len(Schema)
  <2>1. /\ ss \in Seq(Seq(Nat)) /\ Len(ss) = Len(Schema) /\ ss[n] = Section(b, n)
        /\ e \in Seq(Nat) /\ Len(e) >= 6
    BY <1>1, EncodeFacts
  <2>2. e[6] = Beginning(b)[6]
    BY <1>1, EncodeFacts
  <2> QED
    BY <2>1, <2>2, BeginningFacts DEF Prelude
<1>3. n \in Nat /\ n \in 1..Len(ss) /\ (n - 1) + 1 = n
  BY <1>2 DEF Columns
<1>4. PICK pre \in Seq(Nat) : /\ e = Cat(pre, FlattenSeq(SubSeq(ss, n, Len(ss))))
                              /\ Starts(e)[n] = Len(pre) + 1
  BY <1>1, <1>3 DEF Met
<1>5. PICK p, f, q : /\ p = PartsOf(b, n) /\ f = Framed(p.type, p.name, p.bitmap, p.first, p.second)
                     /\ q = FlattenSeq(SubSeq(ss, n + 1, Len(ss)))
  OBVIOUS
<1>6. /\ p.type \in Nat /\ p.name \in Seq(Nat) /\ p.bitmap \in Seq(Nat)
      /\ p.first \in Seq(Nat) /\ p.second \in Seq(Nat)
  BY <1>5, PartsOfTyped
<1>7. ss[n] = f /\ f \in Seq(Nat)
  BY <1>2, <1>5, <1>6, SectionFramed, FramedTyped
<1>8. q \in Seq(Nat)
  <2>1. SubSeq(ss, n + 1, Len(ss)) \in Seq(Seq(Nat))
    BY <1>2, <1>3, SubSeqTyped
  <2> QED
    BY <1>5, <2>1, FlattenType
<1>9. e = Cat(pre, Cat(f, q))
  <2>1. FlattenSeq(SubSeq(ss, n, Len(ss))) = ss[n] \o FlattenSeq(SubSeq(ss, n + 1, Len(ss)))
    BY <1>2, <1>3, FlattenFrom
  <2> QED
    BY <1>4, <1>5, <1>7, <2>1 DEF Cat
<1>10. /\ Parts(e, Len(pre) + 1) = [type |-> p.type, encoding |-> 0, name |-> p.name,
                                    bitmap |-> p.bitmap, first |-> p.first, second |-> p.second]
       /\ Past(e, Len(pre) + 1) = Len(Cat(pre, f)) + 1
  <2>1. e = Cat(pre, Cat(Framed(p.type, p.name, p.bitmap, p.first, p.second), q))
    BY <1>5, <1>9
  <2>2. Found(e, pre, p.type, p.name, p.bitmap, p.first, p.second)
    BY <1>6, <1>8, <2>1, FramedAt
  <2> QED
    BY <1>5, <2>2 DEF Found
<1>11. PartsOf(b, n) = [type |-> p.type, encoding |-> 0, name |-> p.name, bitmap |-> p.bitmap,
                        first |-> p.first, second |-> p.second]
  BY <1>5 DEF PartsOf
<1>12. Starts(e)[n + 1] = Len(Cat(pre, f)) + 1
  <2>1. n \in 1..ColCount(e)
    BY <1>2, <1>3 DEF ColCount
  <2>2. Starts(e)[n + 1] = Past(e, Starts(e)[n])
    BY <1>2, <2>1, StartsFacts
  <2> QED
    BY <1>4, <1>10, <2>2
<1>13. e = Cat(Cat(pre, f), q) /\ Cat(pre, f) \in Seq(Nat)
  BY <1>7, <1>8, <1>9, CatFacts
<1>14. Met(b, n)
  BY <1>1, <1>5, <1>12, <1>13 DEF Met
<1> QED
  BY <1>1, <1>4, <1>10, <1>11, <1>14

\* It meets them all, and ends behind the last one.
LEMMA EncodedParts ==
  ASSUME NEW b \in AnyBatch
  PROVE  /\ Encode(b) \in Seq(Nat) /\ Len(Encode(b)) >= Prelude
         /\ RowCount(Encode(b)) = b.rows /\ ColCount(Encode(b)) = Len(Schema)
         /\ SubSeq(Encode(b), 1, 3) = Append(BatchMagic, BatchVersion)
         /\ Starts(Encode(b))[Len(Schema) + 1] = Len(Encode(b)) + 1
         /\ \A n \in Columns : Parts(Encode(b), Starts(Encode(b))[n]) = PartsOf(b, n)
<1>1. PICK e, ss, len : e = Encode(b) /\ ss = Sections(b) /\ len = Len(Schema)
  OBVIOUS
<1>2. /\ ss \in Seq(Seq(Nat)) /\ Len(ss) = len /\ e \in Seq(Nat) /\ Len(e) >= 6
      /\ \A k \in 1..6 : e[k] = Beginning(b)[k]
  BY <1>1, EncodeFacts
<1>3. len \in Nat /\ Columns = 1..len
  BY <1>1, BatchAssumption DEF Columns
<1>4. /\ e[1] = BatchMagic[1] /\ e[2] = BatchMagic[2] /\ e[3] = BatchVersion
      /\ e[5] = b.rows /\ e[6] = len
  <2>1. /\ e[1] = Beginning(b)[1] /\ e[2] = Beginning(b)[2] /\ e[3] = Beginning(b)[3]
        /\ e[5] = Beginning(b)[5] /\ e[6] = Beginning(b)[6]
    BY <1>2
  <2> QED
    BY <1>1, <2>1, BeginningFacts
<1>5. SubSeq(e, 1, 3) = Append(BatchMagic, BatchVersion)
  <2>1. PICK x \in Nat, y \in Nat : BatchMagic = <<x, y>>
    BY OrsxcolAssumption
  <2>2. PICK u, v : u = SubSeq(e, 1, 3) /\ v = Append(<<x, y>>, BatchVersion)
    OBVIOUS
  <2>3. u \in Seq(Nat) /\ Len(u) = 3 /\ u[1] = e[1] /\ u[2] = e[2] /\ u[3] = e[3]
    <3>1. 0 \in Nat /\ 3 \in Nat /\ 0 + 3 <= Len(e) /\ 0 + 1 = 1 /\ 0 + 3 = 3
      BY <1>2
    <3>2. /\ SubSeq(e, 0 + 1, 0 + 3) \in Seq(Nat) /\ Len(SubSeq(e, 0 + 1, 0 + 3)) = 3
          /\ \A k \in 1..3 : SubSeq(e, 0 + 1, 0 + 3)[k] = e[0 + k]
      BY <1>2, <3>1, SubSeqAt
    <3>3. u \in Seq(Nat) /\ Len(u) = 3 /\ \A k \in 1..3 : u[k] = e[0 + k]
      BY <2>2, <3>1, <3>2
    <3> QED
      BY <3>3
  <2>4. v \in Seq(Nat) /\ Len(v) = 3 /\ v[1] = x /\ v[2] = y /\ v[3] = BatchVersion
    BY <2>2, OrsxcolAssumption
  <2>5. BatchMagic[1] = x /\ BatchMagic[2] = y
    BY <2>1
  <2>6. \A k \in 1..Len(u) : u[k] = v[k]
    BY <1>4, <2>3, <2>4, <2>5
  <2>7. u = v
    BY <2>3, <2>4, <2>6, SeqEqual
  <2> QED
    BY <2>1, <2>2, <2>7
<1> DEFINE T == {k \in Nat : k <= len => Met(b, k)}
<1>6. 0 \in T
  BY MetFirst
<1>7. ASSUME NEW k \in Nat, k \in T PROVE k + 1 \in T
  <2> SUFFICES ASSUME k + 1 <= len PROVE Met(b, k + 1)
    OBVIOUS
  <2>1. k + 1 \in Columns /\ (k + 1) - 1 = k /\ Met(b, k)
    BY <1>3, <1>7
  <2>2. Met(b, (k + 1) - 1)
    BY <2>1
  <2> QED
    BY <2>1, <2>2, MetNext
<1>8. \A k \in Nat : k <= len => Met(b, k)
  <2>1. ASSUME NEW k \in Nat PROVE k \in T
    <3> HIDE DEF T
    <3> QED
      BY <1>6, <1>7, Induction
  <2> QED
    BY <2>1
<1>9. ASSUME NEW n \in Columns PROVE Parts(e, Starts(e)[n]) = PartsOf(b, n)
  <2>1. n - 1 \in Nat /\ n - 1 <= len
    BY <1>3
  <2>2. Met(b, n - 1)
    BY <1>8, <2>1
  <2> QED
    BY <1>1, <2>2, MetNext
<1>10. Starts(e)[len + 1] = Len(e) + 1
  <2>1. PICK pre \in Seq(Nat) : /\ e = Cat(pre, FlattenSeq(SubSeq(ss, len + 1, len)))
                                /\ Starts(e)[len + 1] = Len(pre) + 1
    <3>1. Met(b, len)
      BY <1>3, <1>8
    <3> QED
      BY <1>1, <1>2, <3>1 DEF Met
  <2>2. SubSeq(ss, len + 1, len) = <<>>
    BY <1>2, <1>3, SubSeqNone
  <2>3. e = pre \o <<>>
    BY <2>1, <2>2, FlattenEmpty DEF Cat
  <2>4. e = pre
    BY <2>3, ConcatEmpty
  <2> QED
    BY <2>1, <2>4
<1>11. Len(e) >= Prelude /\ RowCount(e) = b.rows /\ ColCount(e) = len
  BY <1>2, <1>4 DEF Prelude, RowCount, ColCount
<1> QED
  BY <1>1, <1>2, <1>5, <1>9, <1>10, <1>11

-----------------------------------------------------------------------------
(* A batch and what is decoded from its bytes. *)

\* Column n of a batch has k entries, which fit its bytes, and a bit for every row.
Holds(b, n, k) ==
  LET c == b.cols[n] IN
  /\ Entries(Schema[n], c) = k /\ b.rows <= Len(c.valid)
  /\ IsVar(Schema[n]) => Ordered(c.offsets, c.total)

\* The type a column is declared with.
LEMMA DeclaredType ==
  ASSUME NEW n \in Columns
  PROVE  /\ Schema[n] \in DOMAIN TypeId /\ TypeOf(TypeId[Schema[n]]) = Schema[n]
         /\ TypeId[Schema[n]] = TypeId.text <=> Schema[n] = "text"
         /\ TypeId[Schema[n]] \in {TypeId.fixed, TypeId.timestamp} <=> ~IsVar(Schema[n])
<1>1. Schema[n] \in {"fixed", "timestamp", "text", "json"}
  BY BatchAssumption DEF Columns
<1>2. /\ TypeId["fixed"] = 4 /\ TypeId["timestamp"] = 8 /\ TypeId["text"] = 9 /\ TypeId["json"] = 11
      /\ TypeId.fixed = 4 /\ TypeId.timestamp = 8 /\ TypeId.text = 9
  BY DEF TypeId
<1>3. Schema[n] \in DOMAIN TypeId /\ TypeOf(TypeId[Schema[n]]) = Schema[n]
  BY <1>1, TypeOfId
<1> QED
  BY <1>1, <1>2, <1>3 DEF IsVar

\* What a batch that can be encoded says of a column.
LEMMA EncodableColumn ==
  ASSUME NEW b \in AnyBatch, Encodable(b), NEW n \in Columns
  PROVE  LET c == b.cols[n] IN
         /\ c \in Buffers /\ CeilDiv(Len(c.valid)) = CeilDiv(b.rows)
         /\ IsVar(Schema[n]) => /\ c.offsets[Len(c.offsets)] = c.total
                                /\ Len(Coalesced(c)) = c.total
         /\ ~IsVar(Schema[n]) => Len(c.values) = b.rows
<1>1. n \in 1..Len(b.cols) /\ b.cols[n] \in Buffers
  BY BatchAssumption DEF AnyBatch, Columns
<1> QED
  BY <1>1 DEF Encodable

\* A whole column of a batch that can be encoded is accepted, unless it is of JSON.
LEMMA AcceptedColumn ==
  ASSUME NEW b \in AnyBatch, Encodable(b), NEW n \in Columns, Holds(b, n, b.rows),
         Schema[n] # "json"
  PROVE  Accepts(PartsOf(b, n), b.rows)
<1>1. PICK c, p, rows : c = b.cols[n] /\ p = PartsOf(b, n) /\ rows = b.rows
  OBVIOUS
<1>2. /\ c \in Buffers /\ rows \in Nat /\ CeilDiv(Len(c.valid)) = CeilDiv(rows)
      /\ IsVar(Schema[n]) => /\ c.offsets[Len(c.offsets)] = c.total
                             /\ Len(Coalesced(c)) = c.total
      /\ ~IsVar(Schema[n]) => Len(c.values) = rows
  <2>1. rows \in Nat
    BY <1>1 DEF AnyBatch
  <2> QED
    BY <1>1, <2>1, EncodableColumn
<1>3. p.type = TypeId[Schema[n]] /\ p.encoding = 0 /\ p.bitmap = Bitmap(c.valid)
  BY <1>1 DEF PartsOf
<1>4. Len(p.bitmap) = CeilDiv(rows)
  <2>1. Len(c.valid) \in Nat
    BY <1>2 DEF Buffers
  <2> QED
    BY <1>2, <1>3, <2>1, BitmapTyped
<1>5. ASSUME IsVar(Schema[n]) PROVE AcceptsVar(p, rows)
  <2>1. p.first = c.offsets /\ p.second = Coalesced(c)
    BY <1>1, <1>5 DEF PartsOf
  <2>2. p.type = TypeId.text
    BY <1>3, <1>5, DeclaredType DEF IsVar
  <2>3. Ordered(c.offsets, c.total) /\ Len(c.offsets) - 1 = rows
    BY <1>1, <1>5 DEF Holds, Entries
  <2>4. c.offsets \in Seq(Nat)
    BY <1>2 DEF Buffers
  <2>5. Len(c.offsets) = rows + 1
    BY <1>2, <2>3, <2>4
  <2> QED
    BY <1>2, <1>5, <2>1, <2>2, <2>3, <2>5 DEF AcceptsVar, OffsetsSound, Ordered
<1>6. ASSUME ~IsVar(Schema[n]) PROVE AcceptsFixed(p, rows)
  <2>1. p.first = c.values /\ p.second = <<>>
    BY <1>1, <1>6 DEF PartsOf
  <2>2. p.type \in {TypeId.fixed, TypeId.timestamp}
    BY <1>3, <1>6, DeclaredType
  <2> QED
    BY <1>2, <1>6, <2>1, <2>2 DEF AcceptsFixed
<1> QED
  BY <1>1, <1>3, <1>4, <1>5, <1>6 DEF Accepts

\* The column that is made of its parts.
LEMMA DecodedColumn ==
  ASSUME NEW b \in AnyBatch, NEW n \in Columns, Schema[n] # "json"
  PROVE  LET c == b.cols[n]  d == ColumnOf(PartsOf(b, n)) IN
         /\ d.valid = BitsOf(Bitmap(c.valid)) /\ d.data = <<>>
         /\ IsVar(Schema[n]) =>
              /\ d.offsets = c.offsets /\ d.chunks = <<Coalesced(c)>>
              /\ Coalesced(d) = Coalesced(c) /\ d.total = Len(Coalesced(c)) /\ d.values = <<>>
         /\ ~IsVar(Schema[n]) =>
              d.values = c.values /\ d.offsets = <<0>> /\ d.chunks = <<>> /\ d.total = 0
<1>1. PICK c, p, d : c = b.cols[n] /\ p = PartsOf(b, n) /\ d = ColumnOf(p)
  OBVIOUS
<1>2. p.type = TypeId[Schema[n]] /\ p.bitmap = Bitmap(c.valid)
  BY <1>1 DEF PartsOf
<1>3. d.valid = BitsOf(Bitmap(c.valid)) /\ d.data = <<>>
  BY <1>1, <1>2 DEF ColumnOf
<1>4. ASSUME IsVar(Schema[n])
      PROVE  /\ d.offsets = c.offsets /\ d.chunks = <<Coalesced(c)>>
             /\ Coalesced(d) = Coalesced(c) /\ d.total = Len(Coalesced(c)) /\ d.values = <<>>
  <2>1. p.first = c.offsets /\ p.second = Coalesced(c)
    BY <1>1, <1>4 DEF PartsOf
  <2>2. p.type = TypeId.text
    BY <1>2, <1>4, DeclaredType DEF IsVar
  <2>3. /\ d.offsets = p.first /\ d.chunks = <<p.second>> /\ d.total = Len(p.second)
        /\ d.values = <<>>
    BY <1>1, <2>2 DEF ColumnOf
  <2>4. Coalesced(c) \in Seq(Nat)
    <3>1. c.data \in Seq(Nat) /\ c.chunks \in Seq(Seq(Nat))
      BY <1>1 DEF AnyBatch, Buffers
    <3> QED
      BY <3>1, CoalescedTyped
  <2>5. FlattenSeq(<<Coalesced(c)>>) = Coalesced(c)
    BY <2>4, FlattenOne
  <2>6. Coalesced(d) = Coalesced(c)
    <3>1. Coalesced(d) = <<>> \o FlattenSeq(<<Coalesced(c)>>)
      BY <1>3, <2>1, <2>3 DEF Coalesced
    <3> QED
      BY <2>4, <2>5, <3>1, ConcatEmpty
  <2> QED
    BY <2>1, <2>3, <2>6
<1>5. ASSUME ~IsVar(Schema[n])
      PROVE  d.values = c.values /\ d.offsets = <<0>> /\ d.chunks = <<>> /\ d.total = 0
  <2>1. p.first = c.values /\ p.second = <<>>
    BY <1>1, <1>5 DEF PartsOf
  <2>2. p.type # TypeId.text
    BY <1>2, <1>5, DeclaredType DEF IsVar
  <2>3. /\ d.values = p.first /\ d.offsets = <<0>> /\ d.chunks = <<>> /\ d.total = Len(p.second)
    BY <1>1, <2>2 DEF ColumnOf
  <2>4. Len(<<>>) = 0
    OBVIOUS
  <2> QED
    BY <2>1, <2>3, <2>4
<1> QED
  BY <1>1, <1>3, <1>4, <1>5

\* Its buffers are those of a batch, and it is written as the column it came from.
LEMMA DecodedAgain ==
  ASSUME NEW b \in AnyBatch, Encodable(b), NEW n \in Columns, Holds(b, n, b.rows),
         Schema[n] # "json", NEW a, a.rows = b.rows, a.cols[n] = ColumnOf(PartsOf(b, n))
  PROVE  /\ a.cols[n] \in Buffers /\ Holds(a, n, b.rows)
         /\ CeilDiv(Len(a.cols[n].valid)) = CeilDiv(b.rows)
         /\ IsVar(Schema[n]) => /\ a.cols[n].offsets[Len(a.cols[n].offsets)] = a.cols[n].total
                                /\ Len(Coalesced(a.cols[n])) = a.cols[n].total
         /\ ~IsVar(Schema[n]) => Len(a.cols[n].values) = b.rows
         /\ Section(a, n) = Section(b, n)
<1>1. PICK c, d, rows : c = b.cols[n] /\ d = a.cols[n] /\ rows = b.rows
  OBVIOUS
<1>2. /\ c \in Buffers /\ rows \in Nat /\ CeilDiv(Len(c.valid)) = CeilDiv(rows)
      /\ IsVar(Schema[n]) => /\ c.offsets[Len(c.offsets)] = c.total
                             /\ Len(Coalesced(c)) = c.total
      /\ ~IsVar(Schema[n]) => Len(c.values) = rows
  <2>1. rows \in Nat
    BY <1>1 DEF AnyBatch
  <2> QED
    BY <1>1, <2>1, EncodableColumn
<1>3. /\ d.valid = BitsOf(Bitmap(c.valid)) /\ d.data = <<>>
      /\ IsVar(Schema[n]) =>
           /\ d.offsets = c.offsets /\ d.chunks = <<Coalesced(c)>>
           /\ Coalesced(d) = Coalesced(c) /\ d.total = Len(Coalesced(c)) /\ d.values = <<>>
      /\ ~IsVar(Schema[n]) =>
           d.values = c.values /\ d.offsets = <<0>> /\ d.chunks = <<>> /\ d.total = 0
  BY <1>1, DecodedColumn
<1>4. /\ c.valid \in Seq(BOOLEAN) /\ c.values \in Seq(Nat) /\ c.offsets \in Seq(Nat)
      /\ c.data \in Seq(Nat) /\ c.chunks \in Seq(Seq(Nat)) /\ c.total \in Nat
  BY <1>2 DEF Buffers
<1>5. Coalesced(c) \in Seq(Nat)
  BY <1>4, CoalescedTyped
<1>6. /\ Bitmap(d.valid) = Bitmap(c.valid) /\ Len(d.valid) \in Nat
      /\ CeilDiv(Len(d.valid)) = CeilDiv(rows)
  BY <1>2, <1>3, <1>4, BitmapAgain
<1>7. d.valid \in Seq(BOOLEAN) /\ rows <= Len(d.valid)
  <2>1. PICK m : m = Bitmap(c.valid)
    OBVIOUS
  <2>2. m \in Seq(Nat) /\ Len(m) = CeilDiv(rows)
    BY <1>2, <1>4, <2>1, BitmapTyped, SMTT(30)
  <2>3. PICK k : k = ByteBits * Len(m)
    OBVIOUS
  <2>4. k \in Nat /\ rows <= k
    <3>1. CeilDiv(rows) \in Nat /\ rows <= ByteBits * CeilDiv(rows)
      BY <1>2, CeilDivFacts
    <3> QED
      BY <2>2, <2>3, <3>1, OrsxcolAssumption
  <2>5. d.valid = [r \in 1..k |-> Shifted(m[(r - 1) \div ByteBits + 1])[(r - 1) % ByteBits] % 2 = 1]
    BY <1>3, <2>1, <2>3 DEF BitsOf
  <2>6. d.valid \in [1..k -> BOOLEAN]
    BY <2>5
  <2> QED
    BY <2>4, <2>6
<1>8. Holds(b, n, rows)
  BY <1>1
<1>9. CASE IsVar(Schema[n])
  <2>1. /\ d.values \in Seq(Nat) /\ d.offsets \in Seq(Nat) /\ d.data \in Seq(Nat)
        /\ d.chunks \in Seq(Seq(Nat)) /\ d.total \in Nat
    <3>1. PICK x \in Seq(Nat) : x = Coalesced(c)
      BY <1>5
    <3>2. <<>> \in Seq(Nat) /\ <<x>> \in Seq(Seq(Nat)) /\ Len(x) \in Nat
      OBVIOUS
    <3> QED
      BY <1>3, <1>4, <1>9, <3>1, <3>2
  <2>2. Len(c.offsets) - 1 = rows /\ Ordered(c.offsets, c.total)
    BY <1>1, <1>8, <1>9 DEF Holds, Entries
  <2>3. Holds(a, n, rows)
    BY <1>1, <1>2, <1>3, <1>7, <1>9, <2>2 DEF Holds, Entries
  <2>4. Section(a, n) = Section(b, n)
    BY <1>1, <1>3, <1>6, <1>9 DEF Section
  <2>5. d \in Buffers
    <3>1. d = ColumnOf(PartsOf(b, n))
      BY <1>1
    <3> QED
      BY <1>7, <2>1, <3>1 DEF Buffers, ColumnOf
  <2> QED
    BY <1>1, <1>2, <1>3, <1>6, <1>9, <2>2, <2>3, <2>4, <2>5
<1>10. CASE ~IsVar(Schema[n])
  <2>1. /\ d.values \in Seq(Nat) /\ d.offsets \in Seq(Nat) /\ d.data \in Seq(Nat)
        /\ d.chunks \in Seq(Seq(Nat)) /\ d.total \in Nat
    <3>1. PICK x \in Seq(Nat), y \in Seq(Nat), z \in Seq(Seq(Nat)) :
            x = <<>> /\ y = <<0>> /\ z = <<>>
      <4>1. <<>> \in Seq(Nat) /\ <<>> \in Seq(Seq(Nat)) /\ <<0>> \in Seq(Nat)
        OBVIOUS
      <4> QED
        BY <4>1
    <3>2. d.values = c.values /\ d.offsets = y /\ d.data = x /\ d.chunks = z /\ d.total = 0
      BY <1>3, <1>10, <3>1
    <3> QED
      BY <1>4, <3>2
  <2>2. Holds(a, n, rows)
    BY <1>1, <1>2, <1>3, <1>7, <1>10 DEF Holds, Entries
  <2>3. Section(a, n) = Section(b, n)
    BY <1>1, <1>3, <1>6, <1>10 DEF Section
  <2>4. d \in Buffers
    <3>1. d = ColumnOf(PartsOf(b, n))
      BY <1>1
    <3> QED
      BY <1>7, <2>1, <3>1 DEF Buffers, ColumnOf
  <2> QED
    BY <1>1, <1>2, <1>3, <1>6, <1>10, <2>2, <2>3, <2>4
<1> QED
  BY <1>9, <1>10

\* And its cells are those of the column it came from.
LEMMA CellsBack ==
  ASSUME NEW b \in AnyBatch, NEW n \in Columns, Holds(b, n, b.rows), Schema[n] # "json",
         NEW r \in 1..b.rows
  PROVE  Cell(Schema[n], ColumnOf(PartsOf(b, n)), r) = Cell(Schema[n], b.cols[n], r)
<1>1. PICK c, d : c = b.cols[n] /\ d = ColumnOf(PartsOf(b, n))
  OBVIOUS
<1>2. /\ d.valid = BitsOf(Bitmap(c.valid))
      /\ IsVar(Schema[n]) => d.offsets = c.offsets /\ Coalesced(d) = Coalesced(c)
      /\ ~IsVar(Schema[n]) => d.values = c.values
  BY <1>1, DecodedColumn
<1>3. c.valid \in Seq(BOOLEAN) /\ r \in 1..Len(c.valid)
  <2>1. b.rows \in Nat /\ c.valid \in Seq(BOOLEAN) /\ b.rows <= Len(c.valid)
    BY <1>1 DEF AnyBatch, Buffers, Holds
  <2> QED
    BY <2>1
<1>4. d.valid[r] = c.valid[r]
  BY <1>2, <1>3, BitsBack
<1> QED
  BY <1>1, <1>2, <1>4 DEF Cell

\* What is decoded from the bytes of a batch, column by column.
LEMMA DecodedOfEncoded ==
  ASSUME NEW b \in AnyBatch
  PROVE  LET d == Decode(Encode(b)) IN
         /\ d = [rows |-> b.rows, cols |-> [n \in Columns |-> ColumnOf(PartsOf(b, n))]]
         /\ d.rows = b.rows /\ Len(d.cols) = Len(Schema)
         /\ \A n \in Columns : d.cols[n] = ColumnOf(PartsOf(b, n))
<1>1. PICK e, d : e = Encode(b) /\ d = Decode(e)
  OBVIOUS
<1>2. /\ RowCount(e) = b.rows /\ ColCount(e) = Len(Schema)
      /\ \A n \in Columns : Parts(e, Starts(e)[n]) = PartsOf(b, n)
  BY <1>1, EncodedParts
<1>3. d = [rows |-> b.rows, cols |-> [n \in Columns |-> ColumnOf(PartsOf(b, n))]]
  <2>1. d = [rows |-> b.rows, cols |-> [n \in Columns |-> ColumnOf(Parts(e, Starts(e)[n]))]]
    BY <1>1, <1>2 DEF Decode, Columns
  <2> QED
    BY <1>2, <2>1
<1>4. Len(Schema) \in Nat /\ Columns = 1..Len(Schema)
  BY BatchAssumption DEF Columns
<1> QED
  BY <1>1, <1>3, <1>4

\* The bytes of a batch with as many entries in each column as it has rows, and no column
\* of JSON, are accepted and decode to its rows, and what is decoded encodes to them.
LEMMA BatchBack ==
  ASSUME NEW b \in AnyBatch, Encodable(b),
         \A n \in Columns : Holds(b, n, b.rows) /\ Schema[n] # "json"
  PROVE  LET e == Encode(b) IN
         /\ Loadable(e) /\ Decode(e) \in AnyBatch /\ Decode(e).rows = b.rows
         /\ RowsOf(Decode(e)) = RowsOf(b)
         /\ \A n \in Columns : Holds(Decode(e), n, b.rows)
         /\ Encodable(Decode(e)) /\ Encode(Decode(e)) = e
<1>1. PICK e, d, len : e = Encode(b) /\ d = Decode(e) /\ len = Len(Schema)
  OBVIOUS
<1>2. /\ e \in Seq(Nat) /\ Len(e) >= Prelude /\ RowCount(e) = b.rows /\ ColCount(e) = len
      /\ SubSeq(e, 1, 3) = Append(BatchMagic, BatchVersion)
      /\ Starts(e)[len + 1] = Len(e) + 1
      /\ \A n \in Columns : Parts(e, Starts(e)[n]) = PartsOf(b, n)
  BY <1>1, EncodedParts
<1>3. len \in Nat \ {0} /\ Columns = 1..len
  BY <1>1, BatchAssumption DEF Columns
<1>4. \A n \in Columns : Accepts(PartsOf(b, n), b.rows)
  BY AcceptedColumn
<1>5. Decodable(e)
  BY <1>2, <1>3, <1>4 DEF Decodable
<1>6. SchemaOf(e) = [n \in Columns |-> [name |-> Names[n], type |-> Schema[n]]]
  <2>1. \A n \in Columns : PartsOf(b, n).name = Names[n]
                           /\ TypeOf(PartsOf(b, n).type) = Schema[n]
    <3>1. \A n \in Columns : TypeOf(TypeId[Schema[n]]) = Schema[n]
      BY DeclaredType
    <3> QED
      BY <3>1 DEF PartsOf
  <2>2. SchemaOf(e) = [n \in Columns |-> [name |-> PartsOf(b, n).name,
                                          type |-> TypeOf(PartsOf(b, n).type)]]
    BY <1>2, <1>3 DEF SchemaOf
  <2> QED
    BY <2>1, <2>2
<1>7. Loadable(e)
  BY <1>5, <1>6 DEF Loadable
<1>8. /\ d = [rows |-> b.rows, cols |-> [n \in Columns |-> ColumnOf(PartsOf(b, n))]]
      /\ d.rows = b.rows /\ Len(d.cols) = len
      /\ \A n \in Columns : d.cols[n] = ColumnOf(PartsOf(b, n))
  BY <1>1, DecodedOfEncoded
<1>9. ASSUME NEW n \in Columns
      PROVE  /\ d.cols[n] \in Buffers /\ Holds(d, n, b.rows)
             /\ CeilDiv(Len(d.cols[n].valid)) = CeilDiv(b.rows)
             /\ IsVar(Schema[n]) => /\ d.cols[n].offsets[Len(d.cols[n].offsets)] = d.cols[n].total
                                    /\ Len(Coalesced(d.cols[n])) = d.cols[n].total
             /\ ~IsVar(Schema[n]) => Len(d.cols[n].values) = b.rows
             /\ Section(d, n) = Section(b, n)
  <2>1. Holds(b, n, b.rows) /\ Schema[n] # "json"
    OBVIOUS
  <2> QED
    BY <1>8, <2>1, DecodedAgain
<1>10. d \in AnyBatch
  <2>1. b.rows \in Nat
    BY DEF AnyBatch
  <2>2. d.cols \in [Columns -> Buffers]
    BY <1>8, <1>9
  <2>3. d = [rows |-> d.rows, cols |-> d.cols]
    BY <1>8
  <2> QED
    BY <1>8, <2>1, <2>2, <2>3 DEF AnyBatch
<1>11. Encodable(d)
  BY <1>3, <1>8, <1>9 DEF Encodable
<1>12. Encode(d) = e
  <2>1. Len(b.cols) = len
    BY <1>3 DEF AnyBatch
  <2>2. \A n \in 1..len : Section(d, n) = Section(b, n)
    BY <1>3, <1>9
  <2>3. [n \in 1..Len(d.cols) |-> Section(d, n)] = [n \in 1..Len(b.cols) |-> Section(b, n)]
    BY <1>8, <2>1, <2>2
  <2> QED
    BY <1>1, <1>8, <2>1, <2>3 DEF Encode
<1>13. RowsOf(d) = RowsOf(b)
  <2>1. ASSUME NEW r \in 1..b.rows, NEW n \in Columns
        PROVE  Cell(Schema[n], d.cols[n], r) = Cell(Schema[n], b.cols[n], r)
    <3>1. Holds(b, n, b.rows) /\ Schema[n] # "json"
      OBVIOUS
    <3> QED
      BY <1>8, <3>1, CellsBack
  <2> QED
    BY <1>8, <2>1 DEF RowsOf
<1> QED
  BY <1>1, <1>7, <1>8, <1>9, <1>10, <1>11, <1>12, <1>13

\* Bytes of a batch that are accepted were written of a batch without JSON, each column
\* with an entry for every row.
LEMMA AcceptedOfEncoded ==
  ASSUME NEW b \in AnyBatch, Encodable(b), Loadable(Encode(b)), NEW n \in Columns
  PROVE  Schema[n] # "json" /\ Entries(Schema[n], b.cols[n]) = b.rows
<1>1. PICK e, p, c, rows : e = Encode(b) /\ p = PartsOf(b, n) /\ c = b.cols[n] /\ rows = b.rows
  OBVIOUS
<1>2. Accepts(p, rows)
  <2>1. /\ RowCount(e) = rows /\ ColCount(e) = Len(Schema)
        /\ \A m \in Columns : Parts(e, Starts(e)[m]) = PartsOf(b, m)
    BY <1>1, EncodedParts
  <2>2. n \in 1..ColCount(e)
    BY <2>1 DEF Columns
  <2> QED
    BY <1>1, <2>1, <2>2 DEF Loadable, Decodable
<1>3. p.type = TypeId[Schema[n]]
  BY <1>1 DEF PartsOf
<1>4. Schema[n] # "json"
  BY <1>2, <1>3 DEF Accepts, AcceptsVar, AcceptsFixed, TypeId
<1>5. rows \in Nat /\ c.offsets \in Seq(Nat) /\ (~IsVar(Schema[n]) => Len(c.values) = rows)
  <2>1. ~IsVar(Schema[n]) => Len(c.values) = rows
    BY <1>1, EncodableColumn
  <2> QED
    BY <1>1, <2>1 DEF AnyBatch, Buffers
<1>6. ASSUME IsVar(Schema[n]) PROVE Len(c.offsets) - 1 = rows
  <2>1. p.first = c.offsets
    BY <1>1, <1>6 DEF PartsOf
  <2>2. p.type = TypeId.text /\ TypeId.text \notin {TypeId.fixed, TypeId.timestamp}
    <3>1. Schema[n] = "text"
      BY <1>4, <1>6 DEF IsVar
    <3> QED
      BY <1>3, <3>1 DEF TypeId
  <2>3. Len(p.first) = rows + 1
    BY <1>2, <2>2 DEF Accepts, AcceptsVar, AcceptsFixed
  <2> QED
    BY <1>5, <2>1, <2>3
<1> QED
  BY <1>1, <1>4, <1>5, <1>6 DEF Entries

-----------------------------------------------------------------------------
(* Bytes that were cut, or that grew. *)

\* Two walks are at one place of what the bytes share, or both beyond it.
Abreast(n, i, j) ==
  /\ i \in Nat \ {0} /\ j \in Nat \ {0}
  /\ (i = j /\ i <= n + 1) \/ (i > n + 1 /\ j > n + 1)

\* They stay so when both step over what a length announces.
LEMMA AbreastAfter ==
  ASSUME NEW s \in Seq(Nat), NEW t \in Seq(Nat), NEW n \in Nat, Len(t) = n, n <= Len(s),
         \A k \in 1..n : t[k] = s[k],
         NEW i, NEW j, Abreast(n, i, j)
  PROVE  Abreast(n, After(s, i), After(t, j))
<1>1. /\ i \in Nat \ {0} /\ j \in Nat \ {0} /\ Len(s) \in Nat
      /\ (i = j /\ i <= n + 1) \/ (i > n + 1 /\ j > n + 1)
  BY DEF Abreast
<1>2. PICK x, y : x = LengthAt(s, i) /\ y = LengthAt(t, j)
  OBVIOUS
<1>3. x \in Nat /\ y \in Nat
  <2>1. LengthAt(s, i) \in Nat
    BY <1>1, AfterTyped
  <2>2. LengthAt(t, j) \in Nat
    BY <1>1, AfterTyped
  <2> QED
    BY <1>2, <2>1, <2>2
<1>4. After(s, i) = i + 1 + x /\ After(t, j) = j + 1 + y
  BY <1>2 DEF After
<1>5. CASE i = j /\ i <= n
  <2>1. x = y
    BY <1>1, <1>2, <1>5 DEF LengthAt
  <2> QED
    BY <1>1, <1>3, <1>4, <1>5, <2>1 DEF Abreast
<1>6. CASE i = j /\ i = n + 1
  <2>1. y = 1
    BY <1>1, <1>2, <1>6 DEF LengthAt
  <2> QED
    BY <1>1, <1>3, <1>4, <1>6 DEF Abreast
<1>7. CASE i > n + 1 /\ j > n + 1
  BY <1>1, <1>3, <1>4, <1>7 DEF Abreast
<1> QED
  BY <1>1, <1>5, <1>6, <1>7

\* And when both step over a column.
LEMMA AbreastPast ==
  ASSUME NEW s \in Seq(Nat), NEW t \in Seq(Nat), NEW n \in Nat, Len(t) = n, n <= Len(s),
         \A k \in 1..n : t[k] = s[k],
         NEW i, NEW j, Abreast(n, i, j)
  PROVE  Abreast(n, Past(s, i), Past(t, j))
<1>1. Abreast(n, i + 2, j + 2)
  BY DEF Abreast
<1>2. \A u, v : Abreast(n, u, v) => Abreast(n, After(s, u), After(t, v))
  BY AbreastAfter
<1> QED
  BY <1>1, <1>2 DEF Past

\* So bytes and a first part of them that both hold a batch are the same.
LEMMA OnlyTheWhole ==
  ASSUME NEW s \in Seq(Nat), NEW t \in Seq(Nat), Prelude <= Len(t), Len(t) < Len(s),
         \A k \in 1..Len(t) : t[k] = s[k],
         ColCount(s) \in Nat
  PROVE  ~(Starts(s)[ColCount(s) + 1] = Len(s) + 1 /\ Starts(t)[ColCount(t) + 1] = Len(t) + 1)
<1>1. PICK n, c : n = Len(t) /\ c = ColCount(s)
  OBVIOUS
<1>2. n \in Nat /\ Len(s) \in Nat /\ c \in Nat /\ n <= Len(s) /\ Prelude <= Len(s)
      /\ ColCount(t) = c
  BY <1>1 DEF Prelude, ColCount
<1>3. PICK u, v : u = Starts(s) /\ v = Starts(t)
  OBVIOUS
<1>4. /\ u[1] = 7 /\ v[1] = 7
      /\ \A k \in 1..c : u[k + 1] = Past(s, u[k])
      /\ \A k \in 1..c : v[k + 1] = Past(t, v[k])
  BY <1>1, <1>2, <1>3, StartsFacts
<1> DEFINE T == {k \in Nat : k <= c => Abreast(n, u[k + 1], v[k + 1])}
<1>5. 0 \in T
  BY <1>1, <1>2, <1>4, SMTT(30) DEF Abreast, Prelude
<1>6. ASSUME NEW k \in Nat, k \in T PROVE k + 1 \in T
  <2> SUFFICES ASSUME k + 1 <= c PROVE Abreast(n, u[(k + 1) + 1], v[(k + 1) + 1])
    OBVIOUS
  <2>1. k + 1 \in 1..c /\ Abreast(n, u[k + 1], v[k + 1])
    BY <1>2, <1>6
  <2>2. Abreast(n, Past(s, u[k + 1]), Past(t, v[k + 1]))
    BY <1>1, <1>2, <2>1, AbreastPast
  <2> QED
    BY <1>4, <2>1, <2>2
<1>7. c \in T
  <2> HIDE DEF T
  <2> QED
    BY <1>2, <1>5, <1>6, Induction
<1>8. Abreast(n, u[c + 1], v[c + 1])
  BY <1>2, <1>7
<1> QED
  BY <1>1, <1>2, <1>3, <1>8 DEF Abreast

\* Of the bytes of a batch no first part is accepted, and nothing that goes on after them.
LEMMA CutOrGrown ==
  ASSUME NEW b \in AnyBatch
  PROVE  /\ \A n \in 0..(Len(Encode(b)) - 1) : ~Decodable(SubSeq(Encode(b), 1, n))
         /\ \A x \in Nat : ~Decodable(Append(Encode(b), x))
<1>1. PICK e : e = Encode(b)
  OBVIOUS
<1>2. /\ e \in Seq(Nat) /\ Len(e) >= Prelude /\ ColCount(e) \in Nat
      /\ Starts(e)[ColCount(e) + 1] = Len(e) + 1
  <2>1. Len(Schema) \in Nat
    BY BatchAssumption
  <2> QED
    BY <1>1, <2>1, EncodedParts
<1>3. ASSUME NEW n \in 0..(Len(e) - 1), Decodable(SubSeq(e, 1, n)) PROVE FALSE
  <2>1. PICK t : t = SubSeq(e, 1, n)
    OBVIOUS
  <2>2. t \in Seq(Nat) /\ Len(t) = n /\ \A k \in 1..Len(t) : t[k] = e[k]
    <3>1. 0 \in Nat /\ n \in Nat /\ 0 + n <= Len(e) /\ 0 + 1 = 1 /\ 0 + n = n
      BY <1>2
    <3>2. /\ SubSeq(e, 0 + 1, 0 + n) \in Seq(Nat) /\ Len(SubSeq(e, 0 + 1, 0 + n)) = n
          /\ \A k \in 1..n : SubSeq(e, 0 + 1, 0 + n)[k] = e[0 + k]
      BY <1>2, <3>1, SubSeqAt
    <3>3. t \in Seq(Nat) /\ Len(t) = n /\ \A k \in 1..n : t[k] = e[0 + k]
      BY <2>1, <3>1, <3>2
    <3> QED
      BY <3>1, <3>3
  <2>3. Len(t) >= Prelude /\ Starts(t)[ColCount(t) + 1] = Len(t) + 1
    BY <1>3, <2>1 DEF Decodable
  <2>4. Len(t) < Len(e)
    BY <1>2, <2>2
  <2> QED
    BY <1>2, <2>2, <2>3, <2>4, OnlyTheWhole
<1>4. ASSUME NEW x \in Nat, Decodable(Append(e, x)) PROVE FALSE
  <2>1. PICK s : s = Append(e, x)
    OBVIOUS
  <2>2. s \in Seq(Nat) /\ Len(s) = Len(e) + 1 /\ \A k \in 1..Len(e) : e[k] = s[k]
    BY <1>2, <2>1
  <2>3. Starts(s)[ColCount(s) + 1] = Len(s) + 1
    BY <1>4, <2>1 DEF Decodable
  <2>4. ColCount(s) = ColCount(e) /\ Len(e) < Len(s)
    BY <1>2, <2>2 DEF ColCount, Prelude
  <2> QED
    BY <1>2, <2>2, <2>3, <2>4, OnlyTheWhole
<1> QED
  BY <1>1, <1>3, <1>4

-----------------------------------------------------------------------------
(* The checksum of a vector. *)

\* The sums of the first symbols of a payload.
Sums(f, payload) ==
  /\ f \in [0..Len(payload) -> Nat] /\ f[0] = 0
  /\ \A i \in 1..Len(payload) : f[i] = f[i - 1] + payload[i]

\* The recursive definition in Checksum, by its equations.
LEMMA ChecksumFacts ==
  ASSUME NEW payload \in Seq(Nat)
  PROVE  \E f : Sums(f, payload) /\ Checksum(payload) = f[Len(payload)] % Modulus
<1>1. PICK len \in Nat : len = Len(payload)
  OBVIOUS
<1>2. \A i \in 1..len : payload[i] \in Nat
  BY <1>1
<1> DEFINE add(i) == IF i \in 1..len THEN payload[i] ELSE 0
           step == [p \in Nat \X Nat |-> p[2] + add(p[1])]
           Eq(g) == g = [i \in 0..len |-> IF i = 0 THEN 0 ELSE g[i - 1] + payload[i]]
<1>3. step \in [Nat \X Nat -> Nat]
  BY <1>2
<1>4. PICK f \in [0..len -> Nat] : Follows(f, 0, len, 0, step)
  <2> HIDE DEF step
  <2> QED
    BY <1>3, Recursion
<1>5. Eq(f)
  <2>1. ASSUME NEW i \in 0..len
        PROVE  f[i] = IF i = 0 THEN 0 ELSE f[i - 1] + payload[i]
    <3>1. CASE i = 0
      BY <1>4, <3>1 DEF Follows
    <3>2. CASE i # 0
      <4>1. f[i] = step[<<i, f[i - 1]>>]
        <5> HIDE DEF step
        <5> QED
          BY <1>4, <3>2 DEF Follows
      <4>2. f[i - 1] \in Nat /\ i \in Nat /\ i \in 1..len
        BY <3>2
      <4> QED
        BY <3>2, <4>1, <4>2
    <3> QED
      BY <3>1, <3>2
  <2>2. f = [i \in 0..len |-> f[i]]
    OBVIOUS
  <2> QED
    BY <2>1, <2>2
<1>6. PICK s : s = (CHOOSE g : Eq(g)) /\ Checksum(payload) = (s[len] % Modulus)
  BY <1>1 DEF Checksum
<1>7. Eq(s)
  BY <1>5, <1>6
<1>8. /\ DOMAIN s = 0..len /\ s[0] = 0
      /\ \A i \in 1..len : s[i] = s[i - 1] + payload[i]
  <2> DEFINE h == [i \in 0..len |-> IF i = 0 THEN 0 ELSE s[i - 1] + payload[i]]
  <2>1. s = h
    BY <1>7
  <2>2. DOMAIN h = 0..len /\ h[0] = 0 /\ \A i \in 1..len : h[i] = s[i - 1] + payload[i]
    OBVIOUS
  <2> HIDE DEF h
  <2> QED
    BY <2>1, <2>2
<1>9. ASSUME NEW i \in 0..len PROVE s[i] \in Nat
  <2>1. ASSUME NEW n \in 0..len, n # 0, s[n - 1] \in Nat PROVE s[n] \in Nat
    <3>1. n \in 1..len
      BY <2>1
    <3>2. s[n] = s[n - 1] + payload[n]
      BY <1>8, <3>1
    <3> QED
      BY <1>2, <2>1, <3>1, <3>2, SMTT(30)
  <2>2. 0 <= len => s[0] \in Nat
    BY <1>8
  <2> QED
    BY <2>1, <2>2, StaysIn
<1>10. s \in [0..len -> Nat]
  <2>1. s = [i \in 0..len |-> s[i]]
    BY <1>7
  <2> QED
    BY <1>9, <2>1
<1> QED
  BY <1>1, <1>6, <1>8, <1>10 DEF Sums

\* Numbers that are apart by less than the modulus leave different rests.
LEMMA RestsDiffer ==
  ASSUME NEW x \in Nat, NEW y \in Nat, x < y, y - x < Modulus
  PROVE  x % Modulus # y % Modulus
<1>1. PICK m : m = Modulus
  OBVIOUS
<1>2. m \in Nat /\ m > 0
  BY <1>1, VectorAssumption
<1>3. PICK p, q : p = x \div m /\ q = y \div m
  OBVIOUS
<1>4. p \in Nat /\ x = m * p + (x % m) /\ q \in Nat /\ y = m * q + (y % m)
      /\ (x % m) \in Nat /\ (y % m) \in Nat
  BY <1>2, <1>3
<1> SUFFICES ASSUME x % m = y % m PROVE FALSE
  BY <1>1
<1>5. m * p \in Nat /\ m * q \in Nat /\ y - x = m * q - m * p
  BY <1>2, <1>4
<1>6. ~(q <= p)
  <2> SUFFICES ASSUME q <= p PROVE FALSE
    OBVIOUS
  <2>1. m * q <= m * p
    BY <1>2, <1>4
  <2> QED
    BY <1>5, <2>1
<1>7. m * (p + 1) <= m * q
  <2>1. p + 1 <= q
    BY <1>4, <1>6
  <2> QED
    BY <1>2, <1>4, <2>1
<1> QED
  BY <1>1, <1>2, <1>4, <1>5, <1>7

\* Sums of payloads that agree on their first k symbols agree there.
LEMMA SumsAgree ==
  ASSUME NEW p \in Seq(Nat), NEW q \in Seq(Nat), Len(p) = Len(q),
         NEW f, NEW g, Sums(f, p), Sums(g, q), NEW i \in 1..Len(p),
         \A k \in 1..Len(p) : k # i => p[k] = q[k]
  PROVE  f[Len(p)] - g[Len(p)] = p[i] - q[i]
<1>1. PICK len \in Nat : len = Len(p)
  OBVIOUS
<1>2. /\ \A k \in 1..len : p[k] \in Nat /\ q[k] \in Nat
      /\ \A k \in 0..len : f[k] \in Nat /\ g[k] \in Nat
      /\ f[0] = 0 /\ g[0] = 0
      /\ \A k \in 1..len : f[k] = f[k - 1] + p[k]
      /\ \A k \in 1..len : g[k] = g[k - 1] + q[k]
  <2>1. \A k \in 1..len : p[k] \in Nat /\ q[k] \in Nat
    BY <1>1
  <2>2. f \in [0..len -> Nat] /\ f[0] = 0 /\ \A k \in 1..len : f[k] = f[k - 1] + p[k]
    BY <1>1 DEF Sums
  <2>3. g \in [0..len -> Nat] /\ g[0] = 0 /\ \A k \in 1..len : g[k] = g[k - 1] + q[k]
    BY <1>1 DEF Sums
  <2> QED
    BY <2>1, <2>2, <2>3
<1> DEFINE T == {k \in Nat : k <= len =>
                   f[k] - g[k] = IF k < i THEN 0 ELSE p[i] - q[i]}
<1>3. 0 \in T
  BY <1>2
<1>4. ASSUME NEW k \in Nat, k \in T PROVE k + 1 \in T
  <2> SUFFICES ASSUME k + 1 <= len
               PROVE  f[k + 1] - g[k + 1] = IF k + 1 < i THEN 0 ELSE p[i] - q[i]
    OBVIOUS
  <2>1. /\ k + 1 \in 1..len /\ (k + 1) - 1 = k /\ k \in 0..len
        /\ f[k] - g[k] = IF k < i THEN 0 ELSE p[i] - q[i]
    BY <1>4
  <2>2. /\ f[k + 1] = f[k] + p[k + 1] /\ g[k + 1] = g[k] + q[k + 1]
        /\ f[k] \in Nat /\ g[k] \in Nat /\ p[k + 1] \in Nat /\ q[k + 1] \in Nat
    BY <1>2, <2>1
  <2>3. PICK u, v, x, y : u = f[k] /\ v = g[k] /\ x = p[k + 1] /\ y = q[k + 1]
    OBVIOUS
  <2>4. /\ u \in Nat /\ v \in Nat /\ x \in Nat /\ y \in Nat
        /\ f[k + 1] = u + x /\ g[k + 1] = v + y
    BY <2>2, <2>3
  <2>5. f[k + 1] - g[k + 1] = (u - v) + (x - y)
    BY <2>4
  <2>6. CASE k + 1 = i
    <3>1. u - v = 0 /\ x = p[i] /\ y = q[i] /\ ~(k + 1 < i)
      BY <2>1, <2>3, <2>6
    <3> QED
      BY <2>4, <2>5, <3>1, SMTT(30)
  <2>7. CASE k + 1 # i
    <3>1. x = y
      BY <1>1, <2>1, <2>3, <2>7
    <3>2. k + 1 < i <=> k < i
      BY <2>7
    <3>3. f[k + 1] - g[k + 1] = u - v
      BY <2>4, <2>5, <3>1
    <3> QED
      BY <2>1, <2>3, <3>2, <3>3
  <2> QED
    BY <2>6, <2>7
<1>5. len \in T
  <2> HIDE DEF T
  <2> QED
    BY <1>3, <1>4, Induction
<1> QED
  BY <1>1, <1>5

\* A payload with one symbol changed has another checksum.
LEMMA OneChange ==
  ASSUME NEW p \in Seq(Nat), NEW q \in Seq(Nat), Len(p) = Len(q), NEW i \in 1..Len(p),
         \A k \in 1..Len(p) : k # i => p[k] = q[k],
         p[i] # q[i], p[i] < Modulus, q[i] < Modulus
  PROVE  Checksum(p) # Checksum(q)
<1>1. PICK f : Sums(f, p) /\ Checksum(p) = f[Len(p)] % Modulus
  BY ChecksumFacts
<1>2. PICK g : Sums(g, q) /\ Checksum(q) = g[Len(q)] % Modulus
  BY ChecksumFacts
<1>3. PICK x, y : x = f[Len(p)] /\ y = g[Len(p)]
  OBVIOUS
<1>4. x \in Nat /\ y \in Nat /\ p[i] \in Nat /\ q[i] \in Nat /\ Modulus \in Nat
  <2>1. Len(p) \in Nat /\ Len(p) \in 0..Len(p)
    OBVIOUS
  <2>2. f \in [0..Len(p) -> Nat] /\ g \in [0..Len(p) -> Nat]
    BY <1>1, <1>2 DEF Sums
  <2>3. x \in Nat /\ y \in Nat
    BY <1>3, <2>1, <2>2
  <2>4. p[i] \in Nat /\ q[i] \in Nat
    OBVIOUS
  <2> QED
    BY <2>3, <2>4, VectorAssumption
<1>5. x - y = p[i] - q[i]
  BY <1>1, <1>2, <1>3, SumsAgree, SMTT(30)
<1>6. CASE x < y
  <2>1. y - x < Modulus
    BY <1>4, <1>5
  <2>2. x % Modulus # y % Modulus
    BY <1>4, <1>6, <2>1, RestsDiffer
  <2> QED
    BY <1>1, <1>2, <1>3, <2>2
<1>7. CASE y < x
  <2>1. x - y < Modulus
    BY <1>4, <1>5
  <2>2. y % Modulus # x % Modulus
    BY <1>4, <1>7, <2>1, RestsDiffer
  <2> QED
    BY <1>1, <1>2, <1>3, <2>2
<1> QED
  BY <1>4, <1>5, <1>6, <1>7

-----------------------------------------------------------------------------
(* The envelope of a vector. *)

\* What follows the header.
LEMMA PayloadFacts ==
  ASSUME NEW s \in Seq(Nat), Len(s) >= HeaderLen
  PROVE  /\ Payload(s) \in Seq(Nat) /\ Len(Payload(s)) = Len(s) - 8
         /\ \A k \in 1..(Len(s) - 8) : Payload(s)[k] = s[8 + k]
<1>1. PICK m \in Nat : m = Len(s) - 8 /\ 8 + m = Len(s)
  BY DEF HeaderLen
<1>2. /\ SubSeq(s, 8 + 1, 8 + m) \in Seq(Nat) /\ Len(SubSeq(s, 8 + 1, 8 + m)) = m
      /\ \A k \in 1..m : SubSeq(s, 8 + 1, 8 + m)[k] = s[8 + k]
  <2>1. 8 \in Nat /\ 8 + m <= Len(s)
    BY <1>1
  <2> QED
    BY <2>1, SubSeqAt
<1>3. Payload(s) = SubSeq(s, 8 + 1, 8 + m)
  BY <1>1 DEF Payload, HeaderLen
<1> QED
  BY <1>1, <1>2, <1>3

\* The numbers of the element types are all different.
LEMMA ElemIds ==
  /\ \A T \in ElemTypes : ElemId[T] \in Nat \ {0} /\ SizeOf[T] \in Nat
  /\ \A T, U \in ElemTypes : ElemId[T] = ElemId[U] => T = U
<1>1. ElemTypes = {"i32", "i64", "u32", "u64", "f32", "f64"}
  BY DEF ElemTypes, ElemId
<1> QED
  BY <1>1 DEF ElemId, SizeOf

\* What can be decoded says how long it is, twice, and of what type.
LEMMA DecodableVector ==
  ASSUME NEW s \in Seq(Nat), NEW T \in ElemTypes, VectorDecodable(T, s)
  PROVE  /\ Len(s) >= 9 /\ Len(s) = s[9] + 9 /\ s[6] = s[9]
         /\ s[1] = VectorMagic /\ s[2] = VectorVersion /\ s[3] = CydecInteger /\ s[4] = ElemId[T]
         /\ s[8] = Checksum(Payload(s)) /\ VectorDecode(s) = Tail(Payload(s))
<1>1. /\ Len(s) >= HeaderLen /\ s[1] = VectorMagic /\ s[2] = VectorVersion
      /\ s[3] = CydecInteger /\ s[4] = ElemId[T] /\ s[8] = Checksum(Payload(s))
      /\ Payload(s) # <<>> /\ Len(Payload(s)) = Payload(s)[1] + 1
      /\ Len(Tail(Payload(s))) = s[6] /\ VectorDecode(s) = Tail(Payload(s))
  BY DEF VectorDecodable, Parses, Decompressible, Decompress, VectorDecode
<1>2. PICK p : p = Payload(s)
  OBVIOUS
<1>3. p \in Seq(Nat) /\ Len(p) = Len(s) - 8 /\ \A k \in 1..(Len(s) - 8) : p[k] = s[8 + k]
  BY <1>1, <1>2, PayloadFacts
<1>4. Len(p) # 0 /\ Len(Tail(p)) = Len(p) - 1
  BY <1>1, <1>2, <1>3
<1>5. Len(s) \in Nat /\ Len(s) >= 9
  BY <1>1, <1>3, <1>4 DEF HeaderLen
<1>6. p[1] = s[9]
  <2>1. 1 \in 1..(Len(s) - 8) /\ 8 + 1 = 9
    BY <1>5
  <2> QED
    BY <1>3, <2>1
<1>7. s[9] \in Nat /\ Len(p) = s[9] + 1
  <2>1. 9 \in 1..Len(s)
    BY <1>5
  <2>2. s[9] \in Nat
    BY <2>1
  <2>3. Len(p) = p[1] + 1
    BY <1>1, <1>2
  <2> QED
    BY <1>6, <2>2, <2>3
<1>8. Len(s) = s[9] + 9 /\ s[6] = s[9]
  <2>1. PICK m, r : m = Len(p) /\ r = Len(Tail(p))
    OBVIOUS
  <2>2. r = s[6] /\ r = m - 1
    BY <1>1, <1>2, <1>4, <2>1
  <2>3. PICK l, x : l = Len(s) /\ x = s[9]
    OBVIOUS
  <2>4. l \in Nat /\ x \in Nat /\ m = l - 8 /\ m = x + 1
    BY <1>3, <1>5, <1>7, <2>1, <2>3
  <2>5. l = x + 9 /\ r = x
    BY ONLY <2>2, <2>4
  <2> QED
    BY ONLY <2>2, <2>3, <2>5
<1> QED
  BY <1>1, <1>5, <1>8

\* What encode_envelope_into writes.
LEMMA EnvelopeFacts ==
  ASSUME NEW T \in ElemTypes, NEW values \in Seq(Nat)
  PROVE  LET e == Envelope(T, values) IN
         /\ e \in Seq(Nat) /\ Len(e) = Len(values) + 9
         /\ e[1] = VectorMagic /\ e[2] = VectorVersion /\ e[3] = CydecInteger /\ e[4] = ElemId[T]
         /\ e[6] = Len(values) /\ e[8] = Checksum(Payload(e)) /\ e[9] = Len(values)
         /\ \A k \in 1..Len(values) : e[9 + k] = values[k]
         /\ Payload(e) = Compress(values)
<1>1. PICK p, c, n : p = Compress(values) /\ c = Checksum(p) /\ n = Len(values)
  OBVIOUS
<1>2. /\ p \in Seq(Nat) /\ Len(p) = n + 1 /\ p[1] = n /\ n \in Nat
      /\ \A k \in 1..n : p[1 + k] = values[k]
  <2>1. p = Sized(values)
    BY <1>1 DEF Compress, Sized
  <2>2. /\ Sized(values) \in Seq(Nat) /\ Len(Sized(values)) = Len(values) + 1
        /\ Sized(values)[1] = Len(values)
        /\ \A k \in 1..Len(values) : Sized(values)[1 + k] = values[k]
    BY SizedFacts
  <2>3. n \in Nat
    BY <1>1
  <2> QED
    BY <1>1, <2>1, <2>2, <2>3
<1>3. c \in Nat
  <2>1. PICK f : Sums(f, p) /\ c = (f[Len(p)] % Modulus)
    BY <1>1, <1>2, ChecksumFacts
  <2>2. Len(p) \in 0..Len(p) /\ f \in [0..Len(p) -> Nat]
    BY <1>2, <2>1 DEF Sums
  <2>3. PICK x \in Nat : x = f[Len(p)]
    BY <2>2
  <2> QED
    BY <2>1, <2>3, VectorAssumption
<1>4. PICK id, size : id = ElemId[T] /\ size = n * SizeOf[T]
  OBVIOUS
<1>5. id \in Nat /\ size \in Nat
  BY <1>2, <1>4, ElemIds
<1>6. PICK h : h = <<VectorMagic, VectorVersion, CydecInteger, id, 0, n, size, c>>
  OBVIOUS
<1>7. /\ h \in Seq(Nat) /\ Len(h) = 8 /\ h[1] = VectorMagic /\ h[2] = VectorVersion
      /\ h[3] = CydecInteger /\ h[4] = id /\ h[6] = n /\ h[8] = c
  BY <1>2, <1>3, <1>5, <1>6, VectorAssumption DEF CydecInteger
<1>8. PICK e : e = Envelope(T, values)
  OBVIOUS
<1>9. e = Cat(h, p)
  BY <1>1, <1>4, <1>6, <1>8 DEF Envelope, Cat
<1>10. /\ Cat(h, p) \in Seq(Nat) /\ Len(Cat(h, p)) = Len(h) + Len(p)
       /\ \A k \in 1..Len(h) : Cat(h, p)[k] = h[k]
       /\ \A k \in 1..Len(p) : Cat(h, p)[Len(h) + k] = p[k]
  BY <1>2, <1>7, CatAt
<1>11. /\ e \in Seq(Nat) /\ Len(e) = n + 9
       /\ \A k \in 1..8 : e[k] = h[k]
       /\ \A k \in 1..(n + 1) : e[8 + k] = p[k]
  BY <1>2, <1>7, <1>9, <1>10
<1>12. /\ e[1] = VectorMagic /\ e[2] = VectorVersion /\ e[3] = CydecInteger /\ e[4] = id
       /\ e[6] = n /\ e[8] = c
  BY <1>7, <1>11
<1>13. e[9] = n /\ \A k \in 1..n : e[9 + k] = values[k]
  <2>1. 1 \in 1..(n + 1) /\ 8 + 1 = 9
    BY <1>2
  <2>2. e[9] = n
    BY <1>2, <1>11, <2>1
  <2>3. ASSUME NEW k \in 1..n PROVE e[9 + k] = values[k]
    <3>1. 1 + k \in 1..(n + 1) /\ 8 + (1 + k) = 9 + k
      BY <1>2
    <3> QED
      BY <1>2, <1>11, <3>1
  <2> QED
    BY <2>2, <2>3
<1>14. Payload(e) = p
  <2>1. /\ Payload(e) \in Seq(Nat) /\ Len(Payload(e)) = Len(e) - 8
        /\ \A k \in 1..(Len(e) - 8) : Payload(e)[k] = e[8 + k]
    <3>1. Len(e) >= HeaderLen
      BY <1>2, <1>11 DEF HeaderLen
    <3> QED
      BY <1>11, <3>1, PayloadFacts
  <2>2. Len(e) - 8 = n + 1
    BY <1>2, <1>11
  <2>3. Len(Payload(e)) = Len(p) /\ \A k \in 1..Len(p) : Payload(e)[k] = p[k]
    BY <1>2, <1>11, <2>1, <2>2
  <2> QED
    BY <1>2, <2>1, <2>3, SeqEqual
<1> QED
  BY <1>1, <1>4, <1>8, <1>11, <1>12, <1>13, <1>14

\* A vector's bytes decode to it.
LEMMA VectorBack ==
  ASSUME NEW T \in ElemTypes, NEW values \in Seq(Nat)
  PROVE  VectorDecodable(T, Envelope(T, values)) /\ VectorDecode(Envelope(T, values)) = values
<1>1. PICK e, p, n : e = Envelope(T, values) /\ p = Compress(values) /\ n = Len(values)
  OBVIOUS
<1>2. /\ Len(e) = n + 9 /\ e[1] = VectorMagic /\ e[2] = VectorVersion
      /\ e[3] = CydecInteger /\ e[4] = ElemId[T] /\ e[6] = n /\ e[8] = Checksum(Payload(e))
      /\ Payload(e) = p /\ n \in Nat
  <2>1. n \in Nat
    BY <1>1
  <2>2. /\ Len(e) = Len(values) + 9 /\ e[1] = VectorMagic /\ e[2] = VectorVersion
        /\ e[3] = CydecInteger /\ e[4] = ElemId[T] /\ e[6] = Len(values)
        /\ e[8] = Checksum(Payload(e)) /\ Payload(e) = Compress(values)
    BY <1>1, EnvelopeFacts
  <2> QED
    BY <1>1, <2>1, <2>2
<1>3. p # <<>> /\ Len(p) = n + 1 /\ p[1] = n /\ Tail(p) = values
  <2>1. p = <<n>> \o values
    BY <1>1 DEF Compress
  <2>2. p \in Seq(Nat) /\ Len(p) = n + 1 /\ p[1] = n /\ \A k \in 1..n : p[1 + k] = values[k]
    <3>1. p = Sized(values)
      BY <1>1 DEF Compress, Sized
    <3> QED
      BY <1>1, <3>1, SizedFacts
  <2>3. p # <<>>
    BY <1>2, <2>2
  <2>4. /\ Tail(p) \in Seq(Nat) /\ Len(Tail(p)) = n /\ \A k \in 1..n : Tail(p)[k] = p[k + 1]
    BY <1>2, <2>2, <2>3, TailTyped
  <2>5. \A k \in 1..n : Tail(p)[k] = values[k]
    BY <1>2, <2>2, <2>4
  <2>6. Tail(p) = values
    BY <1>1, <2>4, <2>5, SeqEqual
  <2> QED
    BY <2>2, <2>3, <2>6
<1>4. Len(e) >= HeaderLen /\ CydecInteger \in CodecIds
  BY <1>2 DEF HeaderLen, CydecInteger, CodecIds
<1>5. Parses(e)
  BY <1>2, <1>4 DEF Parses
<1>6. Decompressible(Payload(e)) /\ Decompress(Payload(e)) = values
  BY <1>2, <1>3 DEF Decompressible, Decompress
<1>7. VectorDecodable(T, e)
  BY <1>1, <1>2, <1>5, <1>6 DEF VectorDecodable
<1> QED
  BY <1>1, <1>6, <1>7 DEF VectorDecode

-----------------------------------------------------------------------------
(* What may have become of bytes. *)

\* s is what d has made of the bytes e, of a vector or not.
Became(s, e, d, vector) ==
  \/ d = "none" /\ s = e
  \/ d = "cut" /\ \E n \in 0..(Len(e) - 1) : s = SubSeq(e, 1, n)
  \/ d = "grown" /\ \E x \in Changed : s = Append(e, x)
  \/ \E i \in DOMAIN e, x \in Changed :
       /\ x # e[i] /\ s = [e EXCEPT ![i] = x]
       /\ d = IF vector /\ i = 4 THEN "type" ELSE "changed"

\* Of the symbols of e, s has all, the first ones, one more or another one.
Remains(s, e, d, vector) ==
  \/ d = "none" /\ s = e
  \/ d = "cut" /\ Len(s) < Len(e) /\ \A k \in 1..Len(s) : s[k] = e[k]
  \/ d = "grown" /\ Len(s) = Len(e) + 1 /\ \A k \in 1..Len(e) : s[k] = e[k]
  \/ \E i \in 1..Len(e) :
       /\ s[i] \in Changed /\ s[i] # e[i] /\ Len(s) = Len(e)
       /\ \A k \in 1..Len(e) : k # i => s[k] = e[k]
       /\ d = IF vector /\ i = 4 THEN "type" ELSE "changed"

\* What has become of bytes are symbols again.
LEMMA BecameFacts ==
  ASSUME NEW e \in Seq(Nat), NEW s, NEW d, NEW vector \in BOOLEAN, Became(s, e, d, vector)
  PROVE  s \in Seq(Nat) /\ Remains(s, e, d, vector)
<1>1. Changed \subseteq Nat
  BY StoredAssumption
<1>2. PICK len \in Nat : len = Len(e) /\ DOMAIN e = 1..len
  OBVIOUS
<1>4. ASSUME d = "cut", NEW n \in 0..(Len(e) - 1), s = SubSeq(e, 1, n)
      PROVE  s \in Seq(Nat) /\ Len(s) < Len(e) /\ \A k \in 1..Len(s) : s[k] = e[k]
  <2>1. 0 \in Nat /\ n \in Nat /\ 0 + n <= Len(e) /\ 0 + 1 = 1 /\ 0 + n = n /\ n < Len(e)
    BY <1>2
  <2>2. /\ SubSeq(e, 0 + 1, 0 + n) \in Seq(Nat) /\ Len(SubSeq(e, 0 + 1, 0 + n)) = n
        /\ \A k \in 1..n : SubSeq(e, 0 + 1, 0 + n)[k] = e[0 + k]
    BY <2>1, SubSeqAt
  <2>3. s \in Seq(Nat) /\ Len(s) = n /\ \A k \in 1..n : s[k] = e[0 + k]
    BY <1>4, <2>1, <2>2
  <2> QED
    BY <2>1, <2>3
<1>5. ASSUME d = "grown", NEW x \in Changed, s = Append(e, x)
      PROVE  s \in Seq(Nat) /\ Len(s) = Len(e) + 1 /\ \A k \in 1..Len(e) : s[k] = e[k]
  BY <1>1, <1>5
<1>6. ASSUME NEW i \in DOMAIN e, NEW x \in Changed, x # e[i], s = [e EXCEPT ![i] = x]
      PROVE  /\ s \in Seq(Nat) /\ i \in 1..Len(e) /\ s[i] = x /\ Len(s) = Len(e)
             /\ \A k \in 1..Len(e) : k # i => s[k] = e[k]
  <2>1. i \in 1..len /\ x \in Nat /\ e \in [1..len -> Nat]
    BY <1>1, <1>2
  <2>2. s \in [1..len -> Nat] /\ s[i] = x /\ \A k \in 1..len : k # i => s[k] = e[k]
    BY <1>6, <2>1
  <2>3. s \in Seq(Nat) /\ Len(s) = len
    BY <2>2
  <2> QED
    BY <1>2, <2>1, <2>2, <2>3
<1>7. CASE d = "none" /\ s = e
  BY <1>7 DEF Remains
<1>8. CASE d = "cut" /\ \E n \in 0..(Len(e) - 1) : s = SubSeq(e, 1, n)
  BY <1>4, <1>8 DEF Remains
<1>9. CASE d = "grown" /\ \E x \in Changed : s = Append(e, x)
  BY <1>5, <1>9 DEF Remains
<1>10. ASSUME NEW i \in DOMAIN e, NEW x \in Changed, x # e[i], s = [e EXCEPT ![i] = x],
              d = IF vector /\ i = 4 THEN "type" ELSE "changed"
       PROVE  s \in Seq(Nat) /\ Remains(s, e, d, vector)
  <2>1. /\ s \in Seq(Nat) /\ i \in 1..Len(e) /\ s[i] = x /\ Len(s) = Len(e)
        /\ \A k \in 1..Len(e) : k # i => s[k] = e[k]
    BY <1>6, <1>10
  <2> QED
    BY <1>10, <2>1 DEF Remains
<1> QED
  BY <1>7, <1>8, <1>9, <1>10 DEF Became

\* A symbol the change has not touched is what it was.
LEMMA Untouched ==
  ASSUME NEW e \in Seq(Nat), NEW s, NEW d, NEW vector \in BOOLEAN, Became(s, e, d, vector),
         d # "changed", NEW k \in 1..Len(s), k <= Len(e), k # 4
  PROVE  s[k] = e[k]
<1>1. s \in Seq(Nat)
  BY BecameFacts
<1>2. Len(s) \in Nat /\ Len(e) \in Nat /\ k \in 1..Len(e)
  BY <1>1
<1>3. Remains(s, e, d, vector)
  BY BecameFacts
<1> QED
  BY <1>2, <1>3 DEF Remains

\* The bytes of a vector are no batch, unless two symbols changed.
LEMMA VectorNoBatch ==
  ASSUME NEW T \in ElemTypes, NEW values \in Seq(Nat), NEW s, NEW d, d # "changed",
         Became(s, Envelope(T, values), d, TRUE)
  PROVE  ~Decodable(s)
<1>1. PICK e : e = Envelope(T, values)
  OBVIOUS
<1>2. e \in Seq(Nat) /\ Len(e) >= 9 /\ e[2] = VectorVersion
  <2>1. e \in Seq(Nat) /\ Len(e) = Len(values) + 9 /\ e[2] = VectorVersion
    BY <1>1, EnvelopeFacts
  <2> QED
    BY <2>1
<1>3. Became(s, e, d, TRUE) /\ TRUE \in BOOLEAN
  BY <1>1
<1>4. s \in Seq(Nat)
  BY <1>2, <1>3, BecameFacts
<1> SUFFICES ASSUME Decodable(s) PROVE FALSE
  OBVIOUS
<1>5. Len(s) >= Prelude /\ s[2] = BatchMagic[2]
  BY <1>4, DecodableFacts
<1>6. 2 \in 1..Len(s) /\ 2 <= Len(e) /\ 2 # 4
  BY <1>2, <1>4, <1>5, SMTT(30) DEF Prelude
<1>7. s[2] = e[2]
  BY <1>2, <1>3, <1>6, Untouched, ZenonT(30)
<1> QED
  BY <1>2, <1>5, <1>7, MagicAssumption

\* The bytes of a batch are no vector, whatever became of them.
LEMMA BatchNoVector ==
  ASSUME NEW b \in AnyBatch, NEW s, NEW d, Became(s, Encode(b), d, FALSE), NEW T \in ElemTypes
  PROVE  ~VectorDecodable(T, s)
<1>1. PICK e : e = Encode(b)
  OBVIOUS
<1>2. e \in Seq(Nat) /\ Len(e) >= 6 /\ e[2] = BatchMagic[2] /\ e[4] = 0
  <2>1. e \in Seq(Nat) /\ Len(e) >= 6 /\ \A k \in 1..6 : e[k] = Beginning(b)[k]
    BY <1>1, EncodeFacts
  <2>2. Beginning(b)[2] = BatchMagic[2] /\ Beginning(b)[4] = 0
    BY BeginningFacts
  <2> QED
    BY <2>1, <2>2
<1>3. Became(s, e, d, FALSE) /\ FALSE \in BOOLEAN
  BY <1>1
<1>4. s \in Seq(Nat)
  BY <1>2, <1>3, BecameFacts
<1> SUFFICES ASSUME VectorDecodable(T, s) PROVE FALSE
  OBVIOUS
<1>5. Len(s) >= 9 /\ s[2] = VectorVersion /\ s[4] = ElemId[T] /\ ElemId[T] # 0
  BY <1>4, DecodableVector, ElemIds
<1>6. s[2] = e[2] \/ s[4] = e[4]
  <2>1. Len(s) \in Nat /\ Len(e) \in Nat /\ 2 \in 1..Len(e) /\ 4 \in 1..Len(e)
        /\ 2 \in 1..Len(s) /\ 4 \in 1..Len(s)
    <3>1. Len(s) \in Nat /\ Len(e) \in Nat
      BY <1>2, <1>4
    <3>2. Len(s) >= 9 /\ Len(e) >= 6
      BY <1>2, <1>5
    <3> QED
      BY ONLY <3>1, <3>2
  <2>2. \/ s = e
        \/ \A k \in 1..Len(s) : s[k] = e[k]
        \/ \A k \in 1..Len(e) : s[k] = e[k]
        \/ \E i \in 1..Len(e) : \A k \in 1..Len(e) : k # i => s[k] = e[k]
    <3>1. Remains(s, e, d, FALSE)
      BY <1>2, <1>3, BecameFacts
    <3> QED
      BY <3>1 DEF Remains
  <2> QED
    BY <2>1, <2>2
<1> QED
  BY <1>2, <1>5, <1>6, MagicAssumption

\* A vector's bytes are decoded to no other vector and as no other type, whatever became
\* of them, if it was not their type that changed.
LEMMA VectorOnlyItself ==
  ASSUME NEW T \in ElemTypes, NEW values \in Vectors, NEW s, NEW d, d # "type",
         Became(s, Envelope(T, values), d, TRUE),
         NEW U \in ElemTypes, VectorDecodable(U, s)
  PROVE  U = T /\ VectorDecode(s) = values
<1>1. PICK e, n : e = Envelope(T, values) /\ n = Len(values)
  OBVIOUS
<1>2. values \in Seq(Nat) /\ n \in Nat
  BY <1>1, StoredAssumption
<1>3. /\ e \in Seq(Nat) /\ Len(e) = n + 9
      /\ e[1] = VectorMagic /\ e[2] = VectorVersion /\ e[3] = CydecInteger /\ e[4] = ElemId[T]
      /\ e[6] = n /\ e[8] = Checksum(Payload(e)) /\ e[9] = n
      /\ \A k \in 1..n : e[9 + k] = values[k]
      /\ Payload(e) = Compress(values)
  BY <1>1, <1>2, EnvelopeFacts
<1>4. s \in Seq(Nat) /\ Remains(s, e, d, TRUE)
  <2>1. Became(s, e, d, TRUE) /\ TRUE \in BOOLEAN
    BY <1>1
  <2> QED
    BY <1>3, <2>1, BecameFacts
<1>5. /\ Len(s) >= 9 /\ Len(s) = s[9] + 9 /\ s[6] = s[9]
      /\ s[1] = VectorMagic /\ s[2] = VectorVersion /\ s[3] = CydecInteger /\ s[4] = ElemId[U]
      /\ s[8] = Checksum(Payload(s)) /\ VectorDecode(s) = Tail(Payload(s))
  BY <1>4, DecodableVector
<1>6. Len(s) \in Nat /\ Len(e) \in Nat /\ \A k \in 1..9 : k \in 1..Len(e) /\ k \in 1..Len(s)
  <2>1. Len(s) \in Nat /\ Len(e) \in Nat
    BY <1>3, <1>4
  <2>2. Len(s) >= 9 /\ Len(e) >= 9
    BY <1>2, <1>3, <1>5
  <2> QED
    BY ONLY <2>1, <2>2
<1>7. s[9] # e[9] => Len(s) # Len(e)
  <2>1. s[9] \in Nat /\ e[9] \in Nat
    <3>1. 9 \in 1..Len(e) /\ 9 \in 1..Len(s)
      BY <1>6
    <3>2. s \in Seq(Nat) /\ e \in Seq(Nat)
      BY <1>3, <1>4
    <3> QED
      BY <3>1, <3>2
  <2>2. PICK x, y, l, m : x = s[9] /\ y = e[9] /\ l = Len(s) /\ m = Len(e)
    OBVIOUS
  <2>3. x \in Nat /\ y \in Nat /\ l = x + 9 /\ m = y + 9
    BY <1>3, <1>5, <2>1, <2>2
  <2> QED
    BY <2>2, <2>3
<1>8. s[9] = e[9] => Len(s) = Len(e)
  BY <1>3, <1>5
<1> DEFINE Untold == U = T /\ Payload(s) = Payload(e)
<1>9. Untold => U = T /\ VectorDecode(s) = values
  <2>1. Tail(Payload(e)) = values
    <3>1. Payload(e) # <<>> /\ VectorDecode(e) = values
      BY <1>1, <1>2, VectorBack DEF VectorDecodable, Decompressible
    <3> QED
      BY <3>1 DEF VectorDecode, Decompress
  <2> QED
    BY <1>5, <2>1
<1>10. CASE s = e
  <2>1. U = T
    BY <1>3, <1>5, <1>10, ElemIds
  <2> QED
    BY <1>9, <1>10, <2>1
<1>11. CASE Len(s) < Len(e) /\ \A k \in 1..Len(s) : s[k] = e[k]
  <2>1. s[9] = e[9]
    BY <1>6, <1>11
  <2> QED
    BY <1>6, <1>8, <1>11, <2>1
<1>12. CASE Len(s) = Len(e) + 1 /\ \A k \in 1..Len(e) : s[k] = e[k]
  <2>1. s[9] = e[9]
    BY <1>6, <1>12
  <2> QED
    BY <1>6, <1>8, <1>12, <2>1
<1>13. ASSUME NEW i \in 1..Len(e), s[i] \in Changed, s[i] # e[i], Len(s) = Len(e),
              \A k \in 1..Len(e) : k # i => s[k] = e[k], i # 4
       PROVE  Untold
  <2>1. i \in Nat /\ i # 1 /\ i # 2 /\ i # 3
    <3>1. s[1] = e[1] /\ s[2] = e[2] /\ s[3] = e[3]
      BY <1>3, <1>5
    <3> QED
      BY <1>6, <1>13, <3>1
  <2>2. i # 9
    BY <1>7, <1>13
  <2>3. i # 6
    <3>1. s[9] = e[9]
      BY <1>6, <1>13, <2>2
    <3> QED
      BY <1>3, <1>5, <1>13, <3>1
  <2>4. U = T
    <3>1. s[4] = e[4]
      BY <1>6, <1>13
    <3> QED
      BY <1>3, <1>5, <3>1, ElemIds
  <2>5. PICK p, q : p = Payload(s) /\ q = Payload(e)
    OBVIOUS
  <2>6. /\ p \in Seq(Nat) /\ Len(p) = Len(s) - 8 /\ \A k \in 1..(Len(s) - 8) : p[k] = s[8 + k]
        /\ q \in Seq(Nat) /\ Len(q) = Len(e) - 8 /\ \A k \in 1..(Len(e) - 8) : q[k] = e[8 + k]
    <3>1. Len(s) >= HeaderLen /\ Len(e) >= HeaderLen
      BY <1>2, <1>3, <1>5, <1>13 DEF HeaderLen
    <3>2. /\ p \in Seq(Nat) /\ Len(p) = Len(s) - 8
          /\ \A k \in 1..(Len(s) - 8) : p[k] = s[8 + k]
      BY <1>4, <2>5, <3>1, PayloadFacts
    <3>3. /\ q \in Seq(Nat) /\ Len(q) = Len(e) - 8
          /\ \A k \in 1..(Len(e) - 8) : q[k] = e[8 + k]
      BY <1>3, <2>5, <3>1, PayloadFacts
    <3> QED
      BY <3>2, <3>3
  <2>7. PICK l \in Nat : l = Len(e) - 8 /\ Len(e) = 8 + l /\ l = n + 1
    BY <1>2, <1>3
  <2>8. /\ Len(p) = l /\ Len(q) = l
        /\ \A k \in 1..l : p[k] = s[8 + k] /\ q[k] = e[8 + k] /\ 8 + k \in 1..Len(e)
    BY <1>6, <1>13, <2>6, <2>7, SMTT(30)
  <2>9. CASE i <= 8
    <3>1. \A k \in 1..l : p[k] = q[k]
      BY <1>13, <2>1, <2>8, <2>9, SMTT(30)
    <3>2. p = q
      BY <2>6, <2>8, <3>1, SeqEqual
    <3> QED
      BY <2>4, <2>5, <3>2
  <2>10. CASE i > 9
    <3>1. PICK j \in 2..l : i = 8 + j
      <4>1. i - 8 \in 2..l /\ i = 8 + (i - 8)
        BY <2>1, <2>7, <2>10
      <4> QED
        BY <4>1
    <3>2. j \in 1..l /\ p[j] = s[i] /\ q[j] = e[i] /\ \A k \in 1..l : k # j => p[k] = q[k]
      <4>1. j \in 1..l
        BY <2>7
      <4>2. \A k \in 1..l : k # j => 8 + k # i
        BY <3>1
      <4> QED
        BY <1>13, <2>8, <3>1, <4>1, <4>2
    <3>3. p[j] < Modulus /\ q[j] < Modulus
      <4>1. p[j] < Modulus
        BY <1>13, <3>2, ChecksumAssumption
      <4>2. j - 1 \in 1..n /\ i = 9 + (j - 1)
        BY <1>2, <2>7, <3>1
      <4>3. e[i] = values[j - 1]
        BY <1>3, <4>2
      <4>4. j - 1 \in DOMAIN values
        BY <1>1, <1>2, <4>2
      <4> QED
        BY <3>2, <4>1, <4>3, <4>4, ChecksumAssumption
    <3>4. Checksum(p) # Checksum(q)
      BY <1>13, <2>6, <2>8, <3>2, <3>3, OneChange
    <3>5. s[8] = e[8]
      BY <1>6, <1>13, <2>10, SMTT(30)
    <3> QED
      BY <1>3, <1>5, <2>5, <3>4, <3>5
  <2> QED
    BY <2>1, <2>2, <2>9, <2>10
<1> HIDE DEF Untold
<1>14. ASSUME \E i \in 1..Len(e) :
                /\ s[i] \in Changed /\ s[i] # e[i] /\ Len(s) = Len(e)
                /\ \A k \in 1..Len(e) : k # i => s[k] = e[k]
                /\ d = IF TRUE /\ i = 4 THEN "type" ELSE "changed"
       PROVE  Untold
  <2>1. PICK i \in 1..Len(e) :
                /\ s[i] \in Changed /\ s[i] # e[i] /\ Len(s) = Len(e)
                /\ \A k \in 1..Len(e) : k # i => s[k] = e[k]
                /\ d = IF TRUE /\ i = 4 THEN "type" ELSE "changed"
    BY <1>14
  <2>2. i # 4
    BY <2>1
  <2> QED
    BY <1>13, <2>1, <2>2
<1> QED
  BY <1>4, <1>9, <1>10, <1>11, <1>12, <1>14 DEF Remains

-----------------------------------------------------------------------------
(* The invariant: what the batch holds while cells are read, and what is stored. *)

\* The next cell of the batch goes to column n: those before it have one entry more.
Shaped(b, n) ==
  /\ b \in AnyBatch
  /\ \A k \in Columns : Holds(b, k, b.rows + IF k < n THEN 1 ELSE 0)

\* And there is room for it.
Reading(b, n, cap) ==
  /\ Shaped(b, n) /\ b.rows <= cap /\ (n > 1 => b.rows < cap)
  /\ \A k \in Columns : cap <= Len(b.cols[k].valid)

\* What the bytes were encoded from, and what they have become.
Kept ==
  \/ origin.kind = "none" /\ stored = <<>> /\ damage = "none"
  \/ /\ origin.kind = "batch" /\ origin.col \in Columns /\ Shaped(origin.batch, origin.col)
     /\ origin.batch.rows # 0 /\ Encodable(origin.batch)
     /\ Became(stored, Encode(origin.batch), damage, FALSE)
  \/ /\ origin.kind = "vector" /\ origin.type \in VectorTypes /\ origin.values \in Vectors
     /\ Became(stored, Envelope(origin.type, origin.values), damage, TRUE)

StoredInv ==
  /\ col \in Columns /\ capacity \in Nat \ {0} /\ out \in [Outputs -> Seq(Nat)]
  /\ damage = "none" => Reading(batch, col, capacity)
  /\ Kept

-----------------------------------------------------------------------------
(* A cell more, in a batch of any capacity. *)

\* d is the column c with an entry more.
Deeper(c, d, ty) ==
  /\ d \in Buffers /\ Len(d.valid) = Len(c.valid) /\ Entries(ty, d) = Entries(ty, c) + 1
  /\ IsVar(ty) => Ordered(d.offsets, d.total)

\* A bit of validity that is set or cleared leaves as many as there were.
LEMMA BitKeeps ==
  ASSUME NEW valid \in Seq(BOOLEAN), NEW i \in 1..Len(valid), NEW bit \in BOOLEAN
  PROVE  /\ [valid EXCEPT ![i] = bit] \in Seq(BOOLEAN)
         /\ Len([valid EXCEPT ![i] = bit]) = Len(valid)
<1>1. PICK len \in Nat : len = Len(valid) /\ DOMAIN valid = 1..len /\ valid \in [1..len -> BOOLEAN]
  OBVIOUS
<1>2. PICK f : f = [valid EXCEPT ![i] = bit]
  OBVIOUS
<1>3. f \in [1..len -> BOOLEAN]
  BY <1>1, <1>2
<1>4. f \in Seq(BOOLEAN) /\ Len(f) = len
  BY <1>3
<1> QED
  BY <1>1, <1>2, <1>4

\* A value more in a fixed column.
LEMMA FixedDeeper ==
  ASSUME NEW c \in Buffers, NEW ty, ~IsVar(ty), NEW i \in 1..Len(c.valid), NEW bit \in BOOLEAN,
         NEW v \in Nat
  PROVE  Deeper(c, [c EXCEPT !.valid = [c.valid EXCEPT ![i] = bit], !.values = Append(c.values, v)],
                ty)
<1>1. PICK d, bits, vals : /\ bits = [c.valid EXCEPT ![i] = bit] /\ vals = Append(c.values, v)
                           /\ d = [c EXCEPT !.valid = bits, !.values = vals]
  OBVIOUS
<1>2. /\ c.valid \in Seq(BOOLEAN) /\ c.values \in Seq(Nat) /\ c.offsets \in Seq(Nat)
      /\ c.data \in Seq(Nat) /\ c.chunks \in Seq(Seq(Nat)) /\ c.total \in Nat
      /\ c = [valid |-> c.valid, values |-> c.values, offsets |-> c.offsets, data |-> c.data,
              chunks |-> c.chunks, total |-> c.total]
  BY DEF Buffers
<1>3. bits \in Seq(BOOLEAN) /\ Len(bits) = Len(c.valid)
  BY <1>1, <1>2, BitKeeps
<1>4. vals \in Seq(Nat) /\ Len(vals) = Len(c.values) + 1
  BY <1>1, <1>2
<1>5. d = [valid |-> bits, values |-> vals, offsets |-> c.offsets, data |-> c.data,
           chunks |-> c.chunks, total |-> c.total]
  BY <1>1, <1>2
<1>6. d \in Buffers /\ d.valid = bits /\ d.values = vals
  BY <1>2, <1>3, <1>4, <1>5 DEF Buffers
<1> QED
  BY <1>1, <1>3, <1>4, <1>6 DEF Deeper, Entries

\* An offset more in a variable column.
LEMMA VarDeeper ==
  ASSUME NEW c \in Buffers, NEW ty, IsVar(ty), Ordered(c.offsets, c.total),
         NEW i \in 1..Len(c.valid), NEW bit \in BOOLEAN, NEW t \in Nat, c.total <= t,
         NEW data \in Seq(Nat), NEW chunks \in Seq(Seq(Nat)), NEW d,
         d = [valid |-> [c.valid EXCEPT ![i] = bit], values |-> c.values,
              offsets |-> Append(c.offsets, t), data |-> data, chunks |-> chunks, total |-> t]
  PROVE  Deeper(c, d, ty)
<1>1. PICK bits, ends : bits = [c.valid EXCEPT ![i] = bit] /\ ends = Append(c.offsets, t)
  OBVIOUS
<1>2. /\ c.valid \in Seq(BOOLEAN) /\ c.values \in Seq(Nat) /\ c.offsets \in Seq(Nat)
      /\ c.total \in Nat
  BY DEF Buffers
<1>3. bits \in Seq(BOOLEAN) /\ Len(bits) = Len(c.valid)
  BY <1>1, <1>2, BitKeeps
<1>4. ends \in Seq(Nat) /\ Len(ends) = Len(c.offsets) + 1 /\ Len(c.offsets) \in Nat
  BY <1>1, <1>2
<1>5. Ordered(ends, t)
  BY <1>1, <1>2, OrderedAppend
<1>6. d = [valid |-> bits, values |-> c.values, offsets |-> ends, data |-> data,
           chunks |-> chunks, total |-> t]
  BY <1>1
<1>7. d \in Buffers /\ d.valid = bits /\ d.offsets = ends /\ d.total = t
  <2>1. PICK vals : vals = c.values
    OBVIOUS
  <2>2. /\ bits \in Seq(BOOLEAN) /\ vals \in Seq(Nat) /\ ends \in Seq(Nat)
        /\ data \in Seq(Nat) /\ chunks \in Seq(Seq(Nat)) /\ t \in Nat
    BY <1>2, <1>3, <1>4, <2>1
  <2>3. d = [valid |-> bits, values |-> vals, offsets |-> ends, data |-> data,
             chunks |-> chunks, total |-> t]
    BY <1>6, <2>1
  <2> QED
    BY ONLY <2>2, <2>3 DEF Buffers
<1>8. Entries(ty, d) = Entries(ty, c) + 1
  BY <1>4, <1>7 DEF Entries
<1> QED
  BY <1>3, <1>5, <1>7, <1>8 DEF Deeper

\* The batch with one column replaced.
LEMMA AnyPut ==
  ASSUME NEW b \in AnyBatch, NEW n \in Columns, NEW c \in Buffers
  PROVE  /\ PutColumn(b, n, c) \in AnyBatch
         /\ PutColumn(b, n, c).rows = b.rows
         /\ PutColumn(b, n, c).cols[n] = c
         /\ \A m \in Columns : m # n => PutColumn(b, n, c).cols[m] = b.cols[m]
BY DEF PutColumn, AnyBatch

\* A column that is an entry deeper: the next cell goes to the next one, or the row ends.
LEMMA PutDeeper ==
  ASSUME NEW b, NEW n \in Columns, NEW cap \in Nat, Reading(b, n, cap), b.rows < cap,
         NEW c, Deeper(b.cols[n], c, Schema[n])
  PROVE  LET d == PutColumn(b, n, c) IN
         /\ n < Len(Schema) => Reading(d, n + 1, cap)
         /\ ~(n < Len(Schema)) => Reading(EndRow(d), 1, cap)
<1>1. PICK d, e, rows, len : /\ d = PutColumn(b, n, c) /\ e = EndRow(d)
                             /\ rows = b.rows /\ len = Len(Schema)
  OBVIOUS
<1>2. /\ b \in AnyBatch /\ rows \in Nat /\ c \in Buffers /\ rows < cap
      /\ \A k \in Columns : Holds(b, k, rows + IF k < n THEN 1 ELSE 0)
      /\ \A k \in Columns : cap <= Len(b.cols[k].valid)
  <2>1. b \in AnyBatch /\ c \in Buffers
    BY DEF Reading, Shaped, Deeper
  <2>2. rows \in Nat
    BY <1>1, <2>1 DEF AnyBatch
  <2> QED
    BY <1>1, <2>1, <2>2 DEF Reading, Shaped
<1>3. /\ d \in AnyBatch /\ d.rows = rows /\ d.cols[n] = c
      /\ \A m \in Columns : m # n => d.cols[m] = b.cols[m]
  BY <1>1, <1>2, AnyPut
<1>4. len \in Nat /\ Columns = 1..len /\ n \in Nat /\ n <= len
  BY <1>1, BatchAssumption DEF Columns
<1>5. \A k \in Columns : Len(d.cols[k].valid) \in Nat /\ cap <= Len(d.cols[k].valid)
  <2>1. \A k \in Columns : d.cols[k].valid \in Seq(BOOLEAN)
    BY <1>3 DEF AnyBatch, Buffers
  <2>2. cap <= Len(d.cols[n].valid)
    BY <1>2, <1>3 DEF Deeper
  <2> QED
    BY <1>2, <1>3, <2>1, <2>2
<1>6. ASSUME NEW k \in Columns
      PROVE  /\ Entries(Schema[k], d.cols[k]) = rows + IF k < n + 1 THEN 1 ELSE 0
             /\ IsVar(Schema[k]) => Ordered(d.cols[k].offsets, d.cols[k].total)
  <2>1. CASE k = n
    <3>1. Holds(b, n, rows + IF n < n THEN 1 ELSE 0)
      BY <1>2
    <3>2. Entries(Schema[n], b.cols[n]) = rows
      BY <1>2, <1>4, <3>1 DEF Holds
    <3>3. n < n + 1
      BY <1>4
    <3> QED
      BY <1>3, <2>1, <3>2, <3>3 DEF Deeper
  <2>2. CASE k # n
    <3>1. Holds(b, k, rows + IF k < n THEN 1 ELSE 0) /\ d.cols[k] = b.cols[k]
      BY <1>2, <1>3, <2>2
    <3>2. k < n + 1 <=> k < n
      BY <1>4, <2>2
    <3> QED
      BY <3>1, <3>2 DEF Holds
  <2> QED
    BY <2>1, <2>2
<1>7. ASSUME n < len PROVE Reading(d, n + 1, cap)
  <2>1. \A k \in Columns : Holds(d, k, d.rows + IF k < n + 1 THEN 1 ELSE 0)
    <3>1. \A k \in Columns : d.rows <= Len(d.cols[k].valid)
      BY <1>2, <1>3, <1>5
    <3> QED
      BY <1>3, <1>6, <3>1 DEF Holds
  <2> QED
    BY <1>2, <1>3, <1>5, <2>1 DEF Reading, Shaped
<1>8. ASSUME ~(n < len) PROVE Reading(e, 1, cap)
  <2>1. e \in AnyBatch /\ e.rows = rows + 1 /\ e.cols = d.cols
    BY <1>1, <1>2, <1>3 DEF EndRow, AnyBatch
  <2>2. \A k \in Columns : Holds(e, k, e.rows + IF k < 1 THEN 1 ELSE 0)
    <3>1. ASSUME NEW k \in Columns
          PROVE  /\ Entries(Schema[k], e.cols[k]) = e.rows + 0 /\ ~(k < 1)
                 /\ e.rows <= Len(e.cols[k].valid)
      <4>1. k < n + 1 /\ ~(k < 1)
        BY <1>4, <1>8
      <4>2. Entries(Schema[k], d.cols[k]) = rows + 1
        BY <1>6, <4>1
      <4> QED
        BY <1>2, <1>5, <2>1, <4>1, <4>2
    <3> QED
      BY <1>6, <2>1, <3>1 DEF Holds
  <2>3. e.rows <= cap /\ ~(1 > 1)
    BY <1>2, <2>1
  <2> QED
    BY <1>5, <2>1, <2>2, <2>3 DEF Reading, Shaped
<1> QED
  BY <1>1, <1>7, <1>8

\* The buffers of a column, one by one.
LEMMA BuffersOf ==
  ASSUME NEW b \in AnyBatch, NEW n \in Columns
  PROVE  LET c == b.cols[n] IN
         /\ c \in Buffers /\ c.valid \in Seq(BOOLEAN) /\ c.values \in Seq(Nat)
         /\ c.offsets \in Seq(Nat) /\ c.data \in Seq(Nat) /\ c.chunks \in Seq(Seq(Nat))
         /\ c.total \in Nat
         /\ c = [valid |-> c.valid, values |-> c.values, offsets |-> c.offsets, data |-> c.data,
                 chunks |-> c.chunks, total |-> c.total]
BY DEF AnyBatch, Buffers

\* A push of NULL replaces a column.
LEMMA AnyPushNull ==
  ASSUME NEW b \in AnyBatch, NEW n \in Columns
  PROVE  PushNull(b, n) =
           IF IsVar(Schema[n])
           THEN PutColumn(b, n, [Marked(b, n, FALSE) EXCEPT
                                   !.offsets = Append(b.cols[n].offsets, b.cols[n].total)])
           ELSE PutColumn(b, n, [Marked(b, n, FALSE) EXCEPT
                                   !.values = Append(b.cols[n].values, 0)])
BY DEF PutColumn, AnyBatch, SetValidity, PushNull, Buffers, Marked

\* A push of a value of a fixed size, too.
LEMMA AnyPushFixed ==
  ASSUME NEW b \in AnyBatch, NEW n \in Columns, NEW v
  PROVE  PushFixed(b, n, v) =
           PutColumn(b, n, [Marked(b, n, TRUE) EXCEPT !.values = Append(b.cols[n].values, v)])
BY ZenonT(60) DEF PutColumn, AnyBatch, SetValidity, PushFixed, Buffers, Marked

\* And a push of bytes.
LEMMA AnyExtend ==
  ASSUME NEW b \in AnyBatch, NEW n \in Columns, NEW bytes, NEW data, NEW chunks
  PROVE  Extend(b, n, bytes, data, chunks) = PutColumn(b, n, Extended(b, n, bytes, data, chunks))
<1>1. SetValidity(b, n, TRUE).cols[n] = Marked(b, n, TRUE)
  BY DEF AnyBatch, SetValidity, Buffers, Marked
<1>2. Marked(b, n, TRUE).offsets = b.cols[n].offsets
  BY DEF AnyBatch, Buffers, Marked
<1>3. Extend(b, n, bytes, data, chunks) =
        [b EXCEPT !.cols[n] = Extended(b, n, bytes, data, chunks)]
  BY <1>1, <1>2 DEF Extend, Extended
<1> QED
  BY <1>3 DEF PutColumn, AnyBatch

\* A column with a bit set or cleared.
LEMMA MarkedColumn ==
  ASSUME NEW b \in AnyBatch, NEW n \in Columns, NEW v
  PROVE  LET c == b.cols[n] IN
         Marked(b, n, v) = [valid |-> [c.valid EXCEPT ![b.rows + 1] = v], values |-> c.values,
                            offsets |-> c.offsets, data |-> c.data, chunks |-> c.chunks,
                            total |-> c.total]
<1>1. PICK c, bits : c = b.cols[n] /\ bits = [c.valid EXCEPT ![b.rows + 1] = v]
  OBVIOUS
<1>2. c = [valid |-> c.valid, values |-> c.values, offsets |-> c.offsets, data |-> c.data,
           chunks |-> c.chunks, total |-> c.total]
  BY <1>1, BuffersOf
<1>3. Marked(b, n, v) = [c EXCEPT !.valid = bits]
  BY <1>1 DEF Marked
<1> QED
  BY <1>1, <1>2, <1>3

\* The bytes of a cell go to the data or to the chunks.
LEMMA ExtendDeeper ==
  ASSUME NEW b \in AnyBatch, NEW n \in Columns, IsVar(Schema[n]),
         Ordered(b.cols[n].offsets, b.cols[n].total), b.rows < Len(b.cols[n].valid),
         NEW bytes \in Seq(Nat), NEW data \in Seq(Nat), NEW chunks \in Seq(Seq(Nat))
  PROVE  \E c : /\ Extend(b, n, bytes, data, chunks) = PutColumn(b, n, c)
                /\ Deeper(b.cols[n], c, Schema[n])
<1>1. PICK c, i, t, ends : /\ c = b.cols[n] /\ i = b.rows + 1 /\ t = c.total + Len(bytes)
                           /\ ends = Append(c.offsets, t)
  OBVIOUS
<1>2. /\ c \in Buffers /\ c.total \in Nat /\ t \in Nat /\ c.total <= t /\ i \in 1..Len(c.valid)
  <2>1. c \in Buffers /\ c.total \in Nat /\ c.valid \in Seq(BOOLEAN)
    BY <1>1, BuffersOf
  <2>2. PICK u, l, r, w : u = Len(bytes) /\ l = Len(c.valid) /\ r = b.rows /\ w = c.total
    OBVIOUS
  <2>3. u \in Nat /\ l \in Nat /\ r \in Nat /\ r < l /\ w \in Nat /\ i = r + 1 /\ t = w + u
    BY <1>1, <2>1, <2>2 DEF AnyBatch
  <2>4. t \in Nat /\ w <= t /\ i \in 1..l
    BY ONLY <2>3
  <2> QED
    BY <2>1, <2>2, <2>4
<1>3. PICK d : d = Extended(b, n, bytes, data, chunks)
  OBVIOUS
<1>4. d = [valid |-> [c.valid EXCEPT ![i] = TRUE], values |-> c.values, offsets |-> ends,
           data |-> data, chunks |-> chunks, total |-> t]
  <2>1. PICK m, bits : m = Marked(b, n, TRUE) /\ bits = [c.valid EXCEPT ![i] = TRUE]
    OBVIOUS
  <2>2. m = [valid |-> bits, values |-> c.values, offsets |-> c.offsets, data |-> c.data,
             chunks |-> c.chunks, total |-> c.total]
    BY <1>1, <2>1, MarkedColumn
  <2>3. d = [m EXCEPT !.total = t, !.offsets = ends, !.data = data, !.chunks = chunks]
    BY <1>1, <1>3, <2>1 DEF Extended
  <2>4. PICK x, o, y, z, w : x = c.values /\ o = c.offsets /\ y = c.data /\ z = c.chunks /\ w = c.total
    OBVIOUS
  <2>5. m = [valid |-> bits, values |-> x, offsets |-> o, data |-> y, chunks |-> z, total |-> w]
    BY <2>2, <2>4
  <2>6. d = [valid |-> bits, values |-> x, offsets |-> ends, data |-> data, chunks |-> chunks,
             total |-> t]
    BY ONLY <2>3, <2>5
  <2> QED
    BY <2>1, <2>4, <2>6
<1>5. Deeper(c, d, Schema[n])
  <2>1. d = [valid |-> [c.valid EXCEPT ![i] = TRUE], values |-> c.values,
             offsets |-> Append(c.offsets, t), data |-> data, chunks |-> chunks, total |-> t]
    BY <1>1, <1>4
  <2> QED
    BY <1>1, <1>2, <2>1, VarDeeper
<1> QED
  BY <1>1, <1>3, <1>5, AnyExtend

\* A cell that is read makes its column an entry deeper, whichever reader reads it.
LEMMA PushedDeeper ==
  ASSUME NEW b \in AnyBatch, NEW n \in Columns, b.rows < Len(b.cols[n].valid),
         IsVar(Schema[n]) => Ordered(b.cols[n].offsets, b.cols[n].total),
         NEW cell, cell = Null \/ (cell \in IF IsVar(Schema[n]) THEN Texts ELSE FixedValues)
  PROVE  \E c : /\ Pushed(b, n, cell) = PutColumn(b, n, c)
                /\ Deeper(b.cols[n], c, Schema[n])
<1>1. PICK c, i : c = b.cols[n] /\ i = b.rows + 1
  OBVIOUS
<1>2. /\ c \in Buffers /\ c.valid \in Seq(BOOLEAN) /\ c.values \in Seq(Nat)
      /\ c.offsets \in Seq(Nat) /\ c.data \in Seq(Nat) /\ c.chunks \in Seq(Seq(Nat))
      /\ c.total \in Nat
      /\ c = [valid |-> c.valid, values |-> c.values, offsets |-> c.offsets, data |-> c.data,
              chunks |-> c.chunks, total |-> c.total]
  BY <1>1, BuffersOf
<1>3. i \in 1..Len(c.valid)
  <2>1. Len(c.valid) \in Nat /\ b.rows \in Nat
    BY <1>2 DEF AnyBatch
  <2> QED
    BY <1>1, <2>1
<1>4. ASSUME ~IsVar(Schema[n]), NEW v \in Nat, NEW bit \in BOOLEAN
      PROVE  Deeper(c, [Marked(b, n, bit) EXCEPT !.values = Append(b.cols[n].values, v)], Schema[n])
  <2>1. Marked(b, n, bit) = [c EXCEPT !.valid = [c.valid EXCEPT ![i] = bit]]
    BY <1>1 DEF Marked
  <2>2. PICK bits, vals : bits = [c.valid EXCEPT ![i] = bit] /\ vals = Append(c.values, v)
    OBVIOUS
  <2>3. [[c EXCEPT !.valid = bits] EXCEPT !.values = vals] = [c EXCEPT !.valid = bits, !.values = vals]
    BY <1>2
  <2>4. Deeper(c, [c EXCEPT !.valid = [c.valid EXCEPT ![i] = bit], !.values = Append(c.values, v)],
               Schema[n])
    BY <1>2, <1>3, <1>4, FixedDeeper
  <2> QED
    BY <1>1, <2>1, <2>2, <2>3, <2>4
<1>5. CASE cell = Null /\ IsVar(Schema[n])
  <2>1. PICK d : d = [Marked(b, n, FALSE) EXCEPT !.offsets = Append(c.offsets, c.total)]
    OBVIOUS
  <2>2. Pushed(b, n, cell) = PutColumn(b, n, d)
    BY <1>1, <1>5, <2>1, AnyPushNull DEF Pushed
  <2>3. d = [valid |-> [c.valid EXCEPT ![i] = FALSE], values |-> c.values,
             offsets |-> Append(c.offsets, c.total), data |-> c.data, chunks |-> c.chunks,
             total |-> c.total]
    <3>1. PICK m, bits, ends : /\ m = Marked(b, n, FALSE) /\ bits = [c.valid EXCEPT ![i] = FALSE]
                               /\ ends = Append(c.offsets, c.total)
      OBVIOUS
    <3>2. m = [valid |-> bits, values |-> c.values, offsets |-> c.offsets, data |-> c.data,
               chunks |-> c.chunks, total |-> c.total]
      BY <1>1, <3>1, MarkedColumn
    <3>3. d = [m EXCEPT !.offsets = ends]
      BY <2>1, <3>1
    <3>4. PICK x, o, y, z, w : /\ x = c.values /\ o = c.offsets /\ y = c.data /\ z = c.chunks
                               /\ w = c.total
      OBVIOUS
    <3>5. m = [valid |-> bits, values |-> x, offsets |-> o, data |-> y, chunks |-> z, total |-> w]
      BY <3>2, <3>4
    <3>6. d = [valid |-> bits, values |-> x, offsets |-> ends, data |-> y, chunks |-> z,
               total |-> w]
      BY ONLY <3>3, <3>5
    <3> QED
      BY <3>1, <3>4, <3>6
  <2>4. c.total <= c.total
    BY <1>2
  <2>5. Deeper(c, d, Schema[n])
    BY <1>1, <1>2, <1>3, <1>5, <2>3, <2>4, VarDeeper
  <2> QED
    BY <1>1, <2>2, <2>5
<1>6. CASE cell = Null /\ ~IsVar(Schema[n])
  <2>1. Pushed(b, n, cell) =
          PutColumn(b, n, [Marked(b, n, FALSE) EXCEPT !.values = Append(b.cols[n].values, 0)])
    BY <1>6, AnyPushNull DEF Pushed
  <2>2. Deeper(c, [Marked(b, n, FALSE) EXCEPT !.values = Append(b.cols[n].values, 0)], Schema[n])
    BY <1>4, <1>6
  <2> QED
    BY <1>1, <2>1, <2>2
<1>7. CASE cell # Null /\ ~IsVar(Schema[n])
  <2>1. cell \in Nat
    BY <1>7, StoredAssumption
  <2>2. Pushed(b, n, cell) =
          PutColumn(b, n, [Marked(b, n, TRUE) EXCEPT !.values = Append(b.cols[n].values, cell)])
    BY <1>7, AnyPushFixed DEF Pushed
  <2>3. Deeper(c, [Marked(b, n, TRUE) EXCEPT !.values = Append(b.cols[n].values, cell)], Schema[n])
    BY <1>4, <1>7, <2>1
  <2> QED
    BY <1>1, <2>2, <2>3
<1>8. CASE cell # Null /\ IsVar(Schema[n])
  <2>1. cell \in Seq(Nat)
    BY <1>8, StoredAssumption
  <2>2. ASSUME NEW data \in Seq(Nat), NEW chunks \in Seq(Seq(Nat))
        PROVE  \E d : /\ Extend(b, n, cell, data, chunks) = PutColumn(b, n, d)
                      /\ Deeper(b.cols[n], d, Schema[n])
    BY <1>8, <2>1, ExtendDeeper
  <2>3. /\ c.data \o cell \in Seq(Nat) /\ <<>> \in Seq(Nat) /\ <<>> \in Seq(Seq(Nat))
        /\ <<c.data, cell>> \in Seq(Seq(Nat)) /\ Append(c.chunks, cell) \in Seq(Seq(Nat))
    BY <1>2, <2>1, ConcatHead
  <2>4. \E data \in Seq(Nat), chunks \in Seq(Seq(Nat)) :
          Pushed(b, n, cell) = Extend(b, n, cell, data, chunks)
    <3>1. Pushed(b, n, cell) =
            IF reader = "copy" THEN AppendVar(b, n, cell) ELSE PushVar(b, n, cell)
      BY <1>8 DEF Pushed
    <3>2. AppendVar(b, n, cell) = Extend(b, n, cell, c.data \o cell, c.chunks)
      BY <1>1 DEF AppendVar
    <3>3. PushVar(b, n, cell) =
            IF c.chunks = <<>> /\ c.total + Len(cell) <= InlineLimit
            THEN Extend(b, n, cell, c.data \o cell, <<>>)
            ELSE IF c.chunks = <<>> /\ c.data # <<>>
            THEN Extend(b, n, cell, <<>>, <<c.data, cell>>)
            ELSE Extend(b, n, cell, c.data, Append(c.chunks, cell))
      BY <1>1 DEF PushVar
    <3>4. CASE reader = "copy"
      BY <1>2, <2>3, <3>1, <3>2, <3>4
    <3>5. CASE reader # "copy" /\ c.chunks = <<>> /\ c.total + Len(cell) <= InlineLimit
      <4>1. Pushed(b, n, cell) = Extend(b, n, cell, c.data \o cell, <<>>)
        BY <3>1, <3>3, <3>5
      <4> QED
        BY <2>3, <4>1
    <3>6. CASE /\ reader # "copy" /\ ~(c.chunks = <<>> /\ c.total + Len(cell) <= InlineLimit)
               /\ c.chunks = <<>> /\ c.data # <<>>
      <4>1. Pushed(b, n, cell) = Extend(b, n, cell, <<>>, <<c.data, cell>>)
        BY <3>1, <3>3, <3>6
      <4> QED
        BY <2>3, <4>1
    <3>7. CASE /\ reader # "copy" /\ ~(c.chunks = <<>> /\ c.total + Len(cell) <= InlineLimit)
               /\ ~(c.chunks = <<>> /\ c.data # <<>>)
      <4>1. Pushed(b, n, cell) = Extend(b, n, cell, c.data, Append(c.chunks, cell))
        BY <3>1, <3>3, <3>7
      <4> QED
        BY <1>2, <2>3, <4>1
    <3> QED
      BY <3>4, <3>5, <3>6, <3>7
  <2> QED
    BY <2>2, <2>4
<1> QED
  BY <1>5, <1>6, <1>7, <1>8

\* Reading goes on after a cell.
LEMMA CellKeepsReading ==
  ASSUME Reading(batch, col, capacity), col \in Columns, capacity \in Nat \ {0}, ReadCell
  PROVE  col' \in Columns /\ Reading(batch', col', capacity)
<1>1. PICK cell \in {Null} \cup (IF IsVar(Schema[col]) THEN Texts ELSE FixedValues) :
        LET b == Pushed(batch, col, cell) IN
        IF col < Len(Schema) THEN batch' = b /\ col' = col + 1
        ELSE batch' = EndRow(b) /\ col' = 1
  BY DEF ReadCell
<1>2. /\ batch \in AnyBatch /\ batch.rows < capacity /\ capacity <= Len(batch.cols[col].valid)
      /\ Holds(batch, col, batch.rows + IF col < col THEN 1 ELSE 0)
  BY DEF ReadCell, Reading, Shaped
<1>3. batch.rows < Len(batch.cols[col].valid)
  <2>1. Len(batch.cols[col].valid) \in Nat /\ batch.rows \in Nat
    BY <1>2, BuffersOf DEF AnyBatch
  <2> QED
    BY <1>2, <2>1
<1>4. IsVar(Schema[col]) => Ordered(batch.cols[col].offsets, batch.cols[col].total)
  BY <1>2 DEF Holds
<1>5. cell = Null \/ (cell \in IF IsVar(Schema[col]) THEN Texts ELSE FixedValues)
  BY <1>1
<1>6. PICK c : /\ Pushed(batch, col, cell) = PutColumn(batch, col, c)
               /\ Deeper(batch.cols[col], c, Schema[col])
  BY <1>2, <1>3, <1>4, <1>5, PushedDeeper
<1>7. PICK d : d = PutColumn(batch, col, c)
  OBVIOUS
<1>8. /\ col < Len(Schema) => Reading(d, col + 1, capacity)
      /\ ~(col < Len(Schema)) => Reading(EndRow(d), 1, capacity)
  BY <1>2, <1>6, <1>7, PutDeeper
<1>9. Len(Schema) \in Nat \ {0} /\ Columns = 1..Len(Schema)
  BY BatchAssumption DEF Columns
<1>10. CASE col < Len(Schema)
  BY <1>1, <1>6, <1>7, <1>8, <1>9, <1>10
<1>11. CASE ~(col < Len(Schema))
  BY <1>1, <1>6, <1>7, <1>8, <1>9, <1>11
<1> QED
  BY <1>10, <1>11

\* A batch that was prepared takes the first cell.
LEMMA PreparedReading ==
  ASSUME NEW cap \in Nat \ {0}
  PROVE  1 \in Columns /\ Reading(Prepared(cap), 1, cap)
<1>1. PICK b, c, bits : /\ b = Prepared(cap) /\ bits = [r \in 1..cap |-> FALSE]
                        /\ c = [valid |-> bits, values |-> <<>>, offsets |-> <<0>>, data |-> <<>>,
                                chunks |-> <<>>, total |-> 0]
  OBVIOUS
<1>2. bits \in Seq(BOOLEAN) /\ Len(bits) = cap
  <2>1. bits \in [1..cap -> BOOLEAN]
    BY <1>1
  <2> QED
    BY <2>1
<1>3. b = [rows |-> 0, cols |-> [n \in Columns |-> c]]
  <2>1. [EmptyColumn EXCEPT !.valid = bits] = c
    <3>1. PICK old, none, ends : /\ old = [r \in 1..Capacity |-> FALSE] /\ none = <<>>
                                 /\ ends = <<0>>
      OBVIOUS
    <3>2. EmptyColumn = [valid |-> old, values |-> none, offsets |-> ends, data |-> none,
                         chunks |-> none, total |-> 0]
      BY <3>1 DEF EmptyColumn
    <3>3. c = [valid |-> bits, values |-> none, offsets |-> ends, data |-> none,
               chunks |-> none, total |-> 0]
      BY <1>1, <3>1
    <3> QED
      BY ONLY <3>2, <3>3
  <2>2. b = [rows |-> 0, cols |-> [n \in Columns |-> [EmptyColumn EXCEPT !.valid = bits]]]
    BY <1>1 DEF Prepared
  <2> QED
    BY <2>1, <2>2
<1>4. c \in Buffers
  <2>1. <<>> \in Seq(Nat) /\ <<>> \in Seq(Seq(Nat)) /\ <<0>> \in Seq(Nat)
    OBVIOUS
  <2> QED
    BY <1>1, <1>2, <2>1 DEF Buffers
<1>5. b \in AnyBatch /\ b.rows = 0 /\ \A n \in Columns : b.cols[n] = c
  BY <1>3, <1>4 DEF AnyBatch
<1>6. Len(Schema) \in Nat \ {0} /\ Columns = 1..Len(Schema)
  BY BatchAssumption DEF Columns
<1>7. c.values = <<>> /\ c.offsets = <<0>> /\ c.total = 0 /\ c.valid = bits
  BY <1>1
<1>8. \A k \in Columns : Holds(b, k, b.rows + IF k < 1 THEN 1 ELSE 0)
  <2>1. Ordered(<<0>>, 0) /\ Len(<<0>>) - 1 = 0 /\ Len(<<>>) = 0
    BY DEF Ordered
  <2>2. ASSUME NEW k \in Columns PROVE Holds(b, k, b.rows + IF k < 1 THEN 1 ELSE 0)
    <3>1. b.cols[k] = c /\ b.rows + (IF k < 1 THEN 1 ELSE 0) = 0
      BY <1>5, <1>6
    <3>2. Entries(Schema[k], c) = 0 /\ (IsVar(Schema[k]) => Ordered(c.offsets, c.total))
      BY <1>7, <2>1 DEF Entries
    <3>3. b.rows <= Len(c.valid)
      BY <1>2, <1>5, <1>7
    <3> QED
      BY <3>1, <3>2, <3>3 DEF Holds
  <2> QED
    BY <2>2
<1> QED
  BY <1>1, <1>2, <1>5, <1>6, <1>7, <1>8 DEF Reading, Shaped

\* Only the bytes of a batch that was read to the end of a row, as they were stored or
\* with a symbol changed, can be loaded; undamaged they decode to its rows.
LEMMA LoadableKept ==
  ASSUME Kept, Loadable(stored), damage # "changed"
  PROVE  /\ origin.kind = "batch" /\ damage = "none" /\ origin.batch \in AnyBatch
         /\ stored = Encode(origin.batch) /\ origin.batch.rows # 0
         /\ Encodable(origin.batch)
         /\ \A n \in Columns : Holds(origin.batch, n, origin.batch.rows) /\ Schema[n] # "json"
<1>1. Decodable(stored)
  BY DEF Loadable
<1>2. ~(origin.kind = "none" /\ stored = <<>>)
  <2> SUFFICES ASSUME stored = <<>> PROVE FALSE
    OBVIOUS
  <2>1. Len(stored) >= Prelude
    BY <1>1 DEF Decodable
  <2> QED
    BY <2>1 DEF Prelude
<1>3. ~(/\ origin.kind = "vector" /\ origin.type \in VectorTypes /\ origin.values \in Vectors
        /\ Became(stored, Envelope(origin.type, origin.values), damage, TRUE))
  <2> SUFFICES ASSUME /\ origin.type \in VectorTypes /\ origin.values \in Vectors
                      /\ Became(stored, Envelope(origin.type, origin.values), damage, TRUE)
               PROVE  FALSE
    OBVIOUS
  <2>1. origin.type \in ElemTypes /\ origin.values \in Seq(Nat)
    BY StoredAssumption
  <2> QED
    BY <1>1, <2>1, VectorNoBatch
<1>4. /\ origin.kind = "batch" /\ origin.col \in Columns /\ Shaped(origin.batch, origin.col)
      /\ origin.batch.rows # 0 /\ Encodable(origin.batch)
      /\ Became(stored, Encode(origin.batch), damage, FALSE)
  BY <1>2, <1>3 DEF Kept
<1>5. PICK b, n : b = origin.batch /\ n = origin.col
  OBVIOUS
<1>6. b \in AnyBatch /\ b.rows \in Nat
        /\ \A k \in Columns : Holds(b, k, b.rows + IF k < n THEN 1 ELSE 0)
  BY <1>4, <1>5 DEF Shaped, AnyBatch
<1>7. damage = "none" /\ stored = Encode(b)
  <2>1. \/ damage = "none" /\ stored = Encode(b)
        \/ \E k \in 0..(Len(Encode(b)) - 1) : stored = SubSeq(Encode(b), 1, k)
        \/ \E x \in Changed : stored = Append(Encode(b), x)
        \/ damage = "changed"
    BY <1>4, <1>5 DEF Became
  <2>2. /\ \A k \in 0..(Len(Encode(b)) - 1) : ~Decodable(SubSeq(Encode(b), 1, k))
        /\ \A x \in Nat : ~Decodable(Append(Encode(b), x))
    BY <1>6, CutOrGrown
  <2>3. Changed \subseteq Nat
    BY StoredAssumption
  <2> QED
    BY <1>1, <2>1, <2>2, <2>3
<1>8. \A k \in Columns : Schema[k] # "json" /\ Entries(Schema[k], b.cols[k]) = b.rows
  BY <1>4, <1>5, <1>6, <1>7, AcceptedOfEncoded
<1>9. \A k \in Columns : Holds(b, k, b.rows)
  <2>1. ASSUME NEW k \in Columns PROVE Holds(b, k, b.rows)
    <3>1. Holds(b, k, b.rows + IF k < n THEN 1 ELSE 0)
      BY <1>6
    <3> QED
      BY <1>8, <3>1 DEF Holds
  <2> QED
    BY <2>1
<1> QED
  BY <1>4, <1>5, <1>6, <1>7, <1>8, <1>9

-----------------------------------------------------------------------------
(* The steps. *)

\* The invariant holds at first.
LEMMA InitStored == Init => StoredInv
<1> SUFFICES ASSUME Init PROVE StoredInv
  OBVIOUS
<1>1. capacity \in Nat \ {0} /\ batch = Prepared(capacity) /\ col = 1
  BY BatchAssumption DEF Init
<1>2. 1 \in Columns /\ Reading(batch, col, capacity)
  BY <1>1, PreparedReading
<1>3. out \in [Outputs -> Seq(Nat)]
  <2>1. <<>> \in Seq(Nat)
    OBVIOUS
  <2> QED
    BY <2>1 DEF Init
<1>4. Kept
  BY DEF Init, Kept
<1> QED
  BY <1>1, <1>2, <1>3, <1>4 DEF StoredInv

\* Reading leaves what is stored as it is.
LEMMA ReadingKeepsStored ==
  ASSUME StoredInv, BeginRead \/ ReadCell
  PROVE  StoredInv'
<1>1. /\ Reading(batch, col, capacity) /\ col \in Columns /\ capacity \in Nat \ {0}
      /\ out \in [Outputs -> Seq(Nat)] /\ Kept
  BY DEF StoredInv, BeginRead, ReadCell, Undamaged
<1>2. /\ UNCHANGED <<capacity, storing>>
      /\ col' \in Columns /\ Reading(batch', col', capacity)
  <2>1. CASE BeginRead
    <3>1. batch' = Prepared(capacity) /\ col' = 1 /\ UNCHANGED <<capacity, storing>>
      BY <2>1 DEF BeginRead
    <3> QED
      BY <1>1, <3>1, PreparedReading
  <2>2. CASE ReadCell
    <3>1. col' \in Columns /\ Reading(batch', col', capacity)
      BY <1>1, <2>2, CellKeepsReading
    <3> QED
      BY <2>2, <3>1 DEF ReadCell
  <2> QED
    BY <2>1, <2>2
<1>3. /\ capacity' = capacity /\ out' = out /\ stored' = stored /\ origin' = origin
      /\ damage' = damage
  BY <1>2 DEF storing
<1>4. Kept'
  BY <1>1, <1>3 DEF Kept
<1> QED
  BY <1>1, <1>2, <1>3, <1>4 DEF StoredInv

\* What is put into an output buffer is what is stored.
LEMMA PutKeeps ==
  ASSUME StoredInv, NEW o \in Outputs, NEW bytes \in Seq(Nat), NEW from, Put(o, bytes, from)
  PROVE  /\ damage = "none" /\ Reading(batch, col, capacity) /\ capacity \in Nat \ {0}
         /\ stored' = bytes /\ origin' = from /\ damage' = "none"
         /\ Kept' => StoredInv'
<1>1. /\ damage = "none" /\ out' = [out EXCEPT ![o] = bytes] /\ stored' = out'[o]
      /\ origin' = from /\ UNCHANGED <<filling, damage>>
  BY DEF Put, Undamaged, Filled
<1>2. out \in [Outputs -> Seq(Nat)]
  BY DEF StoredInv
<1>3. out' \in [Outputs -> Seq(Nat)] /\ stored' = bytes
  BY <1>1, <1>2
<1>4. batch' = batch /\ col' = col /\ capacity' = capacity /\ damage' = "none"
  BY <1>1 DEF filling
<1> QED
  BY <1>1, <1>3, <1>4 DEF StoredInv

\* An encoded batch is stored.
LEMMA EncodeBatchKeeps ==
  ASSUME StoredInv, EncodeBatch
  PROVE  StoredInv'
<1>1. PICK from : from = [kind |-> "batch", batch |-> batch, col |-> col]
  OBVIOUS
<1>2. Encodable(batch) /\ Put("batch", Encode(batch), from)
  BY <1>1 DEF EncodeBatch
<1>3. col \in Columns /\ Shaped(batch, col) /\ batch \in AnyBatch
  BY <1>2 DEF StoredInv, Put, Undamaged, Reading, Shaped
<1>4. Encode(batch) \in Seq(Nat) /\ "batch" \in Outputs
  BY <1>3, EncodedParts DEF Outputs
<1>5. /\ damage = "none" /\ Reading(batch, col, capacity) /\ capacity \in Nat \ {0}
      /\ stored' = Encode(batch) /\ origin' = from /\ damage' = "none"
      /\ Kept' => StoredInv'
  BY <1>2, <1>4, PutKeeps
<1>6. batch.rows # 0
  <2>1. PICK n, len : n = 1 /\ len = Len(batch.cols[n].valid)
    OBVIOUS
  <2>2. n \in Columns
    BY <2>1, BatchAssumption DEF Columns
  <2>3. len \in Nat /\ capacity <= len
    BY <1>3, <1>5, <2>1, <2>2, BuffersOf DEF Reading
  <2>4. CeilDiv(len) > 0
    BY <1>5, <2>3, CeilDivFacts
  <2>5. CeilDiv(len) = CeilDiv(batch.rows)
    BY <1>2, <1>3, <2>1, <2>2, EncodableColumn
  <2>6. CeilDiv(0) = 0
    BY CeilDivFacts
  <2> QED
    BY <2>4, <2>5, <2>6
<1>7. Became(Encode(batch), Encode(batch), "none", FALSE)
  BY DEF Became
<1>8. origin'.kind = "batch" /\ origin'.batch = batch /\ origin'.col = col
  BY <1>1, <1>5
<1>9. Kept'
  BY <1>2, <1>3, <1>5, <1>6, <1>7, <1>8 DEF Kept
<1> QED
  BY <1>5, <1>9

\* An encoded vector is stored.
LEMMA EncodeVectorKeeps ==
  ASSUME StoredInv, EncodeVector
  PROVE  StoredInv'
<1>1. PICK T \in VectorTypes, values \in Vectors :
        Put(T, Envelope(T, values), [kind |-> "vector", type |-> T, values |-> values])
  BY DEF EncodeVector
<1>2. PICK from : from = [kind |-> "vector", type |-> T, values |-> values]
  OBVIOUS
<1>3. T \in ElemTypes /\ values \in Seq(Nat) /\ T \in Outputs
  BY StoredAssumption DEF Outputs
<1>4. Envelope(T, values) \in Seq(Nat)
  BY <1>3, EnvelopeFacts
<1>5. /\ stored' = Envelope(T, values) /\ origin' = from /\ damage' = "none"
      /\ Kept' => StoredInv'
  BY <1>1, <1>2, <1>3, <1>4, PutKeeps
<1>6. Became(Envelope(T, values), Envelope(T, values), "none", TRUE)
  BY DEF Became
<1>7. origin'.kind = "vector" /\ origin'.type = T /\ origin'.values = values
  BY <1>2, <1>5
<1>8. Kept'
  BY <1>5, <1>6, <1>7 DEF Kept
<1> QED
  BY <1>5, <1>8

\* What is stored is symbols.
LEMMA KeptTyped ==
  ASSUME Kept
  PROVE  stored \in Seq(Nat)
<1>1. CASE stored = <<>>
  BY <1>1
<1>2. CASE /\ origin.batch \in AnyBatch
           /\ Became(stored, Encode(origin.batch), damage, FALSE)
  <2>1. Encode(origin.batch) \in Seq(Nat)
    BY <1>2, EncodedParts
  <2> QED
    BY <1>2, <2>1, BecameFacts
<1>3. CASE /\ origin.type \in VectorTypes /\ origin.values \in Vectors
           /\ Became(stored, Envelope(origin.type, origin.values), damage, TRUE)
  <2>1. origin.type \in ElemTypes /\ origin.values \in Seq(Nat)
    BY <1>3, StoredAssumption
  <2>2. Envelope(origin.type, origin.values) \in Seq(Nat)
    BY <2>1, EnvelopeFacts
  <2> QED
    BY <1>3, <2>2, BecameFacts
<1> QED
  BY <1>1, <1>2, <1>3 DEF Kept, Shaped

\* A batch that was loaded is one that can be read on.
LEMMA LoadKeeps ==
  ASSUME StoredInv, Load
  PROVE  StoredInv'
<1>1. /\ Loadable(stored) /\ batch' = Decode(stored) /\ capacity' = DecodedCapacity(stored)
      /\ col' = 1 /\ out' = out /\ stored' = stored /\ origin' = origin /\ damage' = damage
  BY DEF Load, storing
<1>2. out \in [Outputs -> Seq(Nat)] /\ Kept
  BY DEF StoredInv
<1>3. Kept'
  BY <1>1, <1>2 DEF Kept
<1>4. col' \in Columns
  BY <1>1, BatchAssumption DEF Columns
<1>5. capacity' \in Nat \ {0}
  <2>1. stored \in Seq(Nat)
    BY <1>2, KeptTyped
  <2>2. RowCount(stored) \in Nat
    BY <1>1, <2>1, DecodableFacts DEF Loadable
  <2> QED
    BY <1>1, <2>2 DEF DecodedCapacity
<1>6. ASSUME damage = "none" PROVE Reading(batch', col', capacity')
  <2>1. PICK b, d, rows : b = origin.batch /\ d = Decode(stored) /\ rows = b.rows
    OBVIOUS
  <2>2. damage # "changed"
    BY <1>6
  <2>3. /\ b \in AnyBatch /\ stored = Encode(b) /\ rows # 0 /\ Encodable(b)
        /\ \A n \in Columns : Holds(b, n, b.rows) /\ Schema[n] # "json"
    BY <1>1, <1>2, <2>1, <2>2, LoadableKept
  <2>4. d \in AnyBatch /\ d.rows = rows /\ \A n \in Columns : Holds(d, n, rows)
    BY <2>1, <2>3, BatchBack
  <2>5. RowCount(stored) = rows
    BY <2>1, <2>3, EncodedParts
  <2>6. capacity' = rows /\ rows \in Nat
    BY <1>1, <2>1, <2>3, <2>5 DEF DecodedCapacity, AnyBatch
  <2>7. \A k \in Columns : Holds(d, k, d.rows + IF k < 1 THEN 1 ELSE 0)
    <3>1. \A k \in Columns : ~(k < 1)
      BY BatchAssumption DEF Columns
    <3>2. rows + 0 = rows
      BY <2>6
    <3> QED
      BY <2>4, <3>1, <3>2
  <2>8. \A k \in Columns : rows <= Len(d.cols[k].valid)
    BY <2>4 DEF Holds
  <2>9. rows <= rows
    BY <2>6
  <2> QED
    BY <1>1, <2>1, <2>4, <2>6, <2>7, <2>8, <2>9 DEF Reading, Shaped
<1> QED
  BY <1>1, <1>2, <1>3, <1>4, <1>5, <1>6 DEF StoredInv

\* Bytes are damaged once.
LEMMA DamageKeeps ==
  ASSUME StoredInv, Damage
  PROVE  StoredInv'
<1>1. /\ damage = "none" /\ stored # <<>> /\ origin' = origin /\ out' = out
      /\ batch' = batch /\ capacity' = capacity /\ col' = col
  BY DEF Damage, Undamaged, filling
<1>2. /\ col \in Columns /\ capacity \in Nat \ {0} /\ out \in [Outputs -> Seq(Nat)] /\ Kept
  BY DEF StoredInv
<1>3. PICK vector \in BOOLEAN : vector = (origin.kind = "vector")
  OBVIOUS
<1>4. damage' # "none" /\ Became(stored', stored, damage', vector)
  <2>1. CASE damage' = "cut" /\ \E n \in 0..(Len(stored) - 1) : stored' = SubSeq(stored, 1, n)
    BY <2>1 DEF Became
  <2>2. CASE damage' = "grown" /\ \E x \in Changed : stored' = Append(stored, x)
    BY <2>2 DEF Became
  <2>3. CASE \E i \in DOMAIN stored, x \in Changed :
               /\ x # stored[i] /\ stored' = [stored EXCEPT ![i] = x]
               /\ damage' = IF vector /\ i = 4 THEN "type" ELSE "changed"
    <3>1. damage' \in {"type", "changed"}
      BY <2>3
    <3> QED
      BY <2>3, <3>1 DEF Became
  <2> QED
    BY <1>3, <2>1, <2>2, <2>3 DEF Damage
<1>5. Kept'
  <2>1. CASE origin.kind = "batch"
    <3>1. /\ origin.col \in Columns /\ Shaped(origin.batch, origin.col)
          /\ origin.batch.rows # 0 /\ Encodable(origin.batch)
          /\ Became(stored, Encode(origin.batch), "none", FALSE)
      BY <1>1, <1>2, <2>1 DEF Kept
    <3>2. stored = Encode(origin.batch)
      BY <3>1 DEF Became
    <3>3. Became(stored', Encode(origin.batch), damage', FALSE)
      BY <1>3, <1>4, <2>1, <3>2
    <3> QED
      BY <1>1, <2>1, <3>1, <3>3 DEF Kept
  <2>2. CASE origin.kind = "vector"
    <3>1. /\ origin.type \in VectorTypes /\ origin.values \in Vectors
          /\ Became(stored, Envelope(origin.type, origin.values), "none", TRUE)
      BY <1>1, <1>2, <2>2 DEF Kept
    <3>2. stored = Envelope(origin.type, origin.values)
      BY <3>1 DEF Became
    <3>3. Became(stored', Envelope(origin.type, origin.values), damage', TRUE)
      BY <1>3, <1>4, <2>2, <3>2
    <3> QED
      BY <1>1, <2>2, <3>1, <3>3 DEF Kept
  <2> QED
    BY <1>1, <1>2, <2>1, <2>2 DEF Kept
<1> QED
  BY <1>1, <1>2, <1>4, <1>5 DEF StoredInv

\* Every step keeps the invariant.
LEMMA StoredStep == StoredInv /\ [Next]_vars => StoredInv'
<1> SUFFICES ASSUME StoredInv, [Next]_vars PROVE StoredInv'
  OBVIOUS
<1>1. CASE BeginRead \/ ReadCell
  BY <1>1, ReadingKeepsStored
<1>2. CASE EncodeBatch
  BY <1>2, EncodeBatchKeeps
<1>3. CASE EncodeVector
  BY <1>3, EncodeVectorKeeps
<1>4. CASE Load
  BY <1>4, LoadKeeps
<1>5. CASE Damage
  BY <1>5, DamageKeeps
<1>6. CASE UNCHANGED vars
  BY <1>6 DEF vars, filling, storing, StoredInv, Kept
<1> QED
  BY <1>1, <1>2, <1>3, <1>4, <1>5, <1>6 DEF Next

\* The invariant holds in every state that can be reached.
LEMMA AlwaysStored == Spec => []StoredInv
BY InitStored, StoredStep, PTL DEF Spec

-----------------------------------------------------------------------------
(* The theorems. *)

\* What a read that did not fail has put in a batch comes out of its bytes again, and a
\* loaded batch encodes to the bytes it came from (encode_orsxcol_v1_into and
\* decode_orsxcol_v1_into).
THEOREM BatchesTravel == Spec => []BatchTravels
<1>1. ASSUME StoredInv PROVE BatchTravels
  <2> SUFFICES ASSUME origin.kind = "batch", damage = "none", origin.col = 1,
                      \A n \in Columns : Schema[n] # "json"
               PROVE  /\ Loadable(stored) /\ Same(Decode(stored))
                      /\ Encodable(Decode(stored)) /\ Encode(Decode(stored)) = stored
    BY DEF BatchTravels
  <2>1. PICK b : b = origin.batch
    OBVIOUS
  <2>2. b \in AnyBatch /\ Shaped(b, 1) /\ Encodable(b) /\ stored = Encode(b)
    BY <1>1, <2>1 DEF StoredInv, Kept, Became, Shaped
  <2>3. \A k \in Columns : Holds(b, k, b.rows) /\ Schema[k] # "json"
    <3>1. \A k \in Columns : ~(k < 1)
      BY BatchAssumption DEF Columns
    <3>2. b.rows + 0 = b.rows
      BY <2>2 DEF AnyBatch
    <3> QED
      BY <2>2, <3>1, <3>2 DEF Shaped
  <2>4. /\ Loadable(stored) /\ Decode(stored).rows = b.rows
        /\ RowsOf(Decode(stored)) = RowsOf(b)
        /\ Encodable(Decode(stored)) /\ Encode(Decode(stored)) = stored
    BY <2>2, <2>3, BatchBack
  <2> QED
    BY <2>1, <2>4 DEF Same
<1> QED
  BY <1>1, AlwaysStored, PTL

\* Nothing is loaded but the rows that were encoded: not what a failed read has left, not
\* bytes that were cut or grew, not those of a vector (decode_orsxcol_v1_into).
THEOREM NothingElse == Spec => []NothingElseLoads
<1>1. ASSUME StoredInv PROVE NothingElseLoads
  <2> SUFFICES ASSUME Loadable(stored), damage # "changed"
               PROVE  origin.kind = "batch" /\ damage = "none" /\ Same(Decode(stored))
    BY DEF NothingElseLoads
  <2>1. Kept
    BY <1>1 DEF StoredInv
  <2>2. PICK b : b = origin.batch
    OBVIOUS
  <2>3. /\ origin.kind = "batch" /\ damage = "none" /\ b \in AnyBatch
        /\ stored = Encode(b) /\ Encodable(b)
        /\ \A n \in Columns : Holds(b, n, b.rows) /\ Schema[n] # "json"
    BY <2>1, <2>2, LoadableKept
  <2>4. Decode(stored).rows = b.rows /\ RowsOf(Decode(stored)) = RowsOf(b)
    BY <2>3, BatchBack
  <2> QED
    BY <2>2, <2>3, <2>4 DEF Same
<1> QED
  BY <1>1, AlwaysStored, PTL

\* In a batch that is accepted every cell can be read, whichever symbol of its bytes was
\* changed (the validation of decode_orsxcol_v1_into).
THEOREM AcceptedIsSound == Spec => []DecodedSound
<1>1. ASSUME StoredInv PROVE DecodedSound
  <2> SUFFICES ASSUME Decodable(stored)
               PROVE  LET d == Decode(stored)  s == SchemaOf(stored) IN
                      \A n \in DOMAIN s, r \in 1..d.rows :
                        /\ r \in DOMAIN d.cols[n].valid
                        /\ IF IsVar(s[n].type)
                           THEN /\ d.cols[n].offsets[r] <= d.cols[n].offsets[r + 1]
                                /\ d.cols[n].offsets[r + 1] <= Len(Coalesced(d.cols[n]))
                           ELSE r \in DOMAIN d.cols[n].values
    BY DEF DecodedSound
  <2>1. stored \in Seq(Nat)
    BY <1>1, KeptTyped DEF StoredInv
  <2> QED
    BY <2>1, SoundWhateverStored
<1> QED
  BY <1>1, AlwaysStored, PTL

\* A vector's bytes decode to it and, whatever became of them but for their element type,
\* to no other vector and as no other type (encode_envelope_into and decode_envelope).
THEOREM VectorsTravel == Spec => []VectorTravels
<1>1. ASSUME StoredInv PROVE VectorTravels
  <2>1. Kept
    BY <1>1 DEF StoredInv
  <2>2. ASSUME origin.kind = "vector", damage = "none"
        PROVE  VectorDecodable(origin.type, stored)
    <3>1. /\ origin.type \in VectorTypes /\ origin.values \in Vectors
          /\ stored = Envelope(origin.type, origin.values)
      BY <2>1, <2>2 DEF Kept, Became
    <3>2. origin.type \in ElemTypes /\ origin.values \in Seq(Nat)
      BY <3>1, StoredAssumption
    <3> QED
      BY <3>1, <3>2, VectorBack
  <2>3. ASSUME NEW T \in ElemTypes, VectorDecodable(T, stored), damage # "type"
        PROVE  origin.kind = "vector" /\ T = origin.type /\ VectorDecode(stored) = origin.values
    <3>1. CASE stored = <<>>
      <4>1. Len(stored) >= HeaderLen
        BY <2>3 DEF VectorDecodable, Parses
      <4> QED
        BY <3>1, <4>1 DEF HeaderLen
    <3>2. CASE /\ origin.kind = "batch" /\ Shaped(origin.batch, origin.col)
               /\ Became(stored, Encode(origin.batch), damage, FALSE)
      <4>1. origin.batch \in AnyBatch
        BY <3>2 DEF Shaped
      <4> QED
        BY <2>3, <3>2, <4>1, BatchNoVector
    <3>3. CASE /\ origin.kind = "vector" /\ origin.type \in VectorTypes
               /\ origin.values \in Vectors
               /\ Became(stored, Envelope(origin.type, origin.values), damage, TRUE)
      <4>1. origin.type \in ElemTypes
        BY <3>3, StoredAssumption
      <4> QED
        BY <2>3, <3>3, <4>1, VectorOnlyItself
    <3> QED
      BY <2>1, <3>1, <3>2, <3>3 DEF Kept
  <2> QED
    BY <2>2, <2>3 DEF VectorTravels
<1> QED
  BY <1>1, AlwaysStored, PTL
=============================================================================
