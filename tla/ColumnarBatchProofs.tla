------------------------ MODULE ColumnarBatchProofs ------------------------
(***************************************************************************)
(* Lemmas about ColumnarBatch, for every schema and capacity: what each    *)
(* push makes of a column and leaves of the others, with the facts about   *)
(* sequences that they and the proofs about the readers and the codec rest *)
(* on.  The library's induction theorems and its facts about FlattenSeq    *)
(* cannot be used by the provers, so FlattenSeq is unfolded here with an   *)
(* induction over a set.                                                   *)
(***************************************************************************)
EXTENDS ColumnarBatch, FiniteSetTheorems, SequenceTheorems, WellFoundedInduction, TLAPS

-----------------------------------------------------------------------------
(* Induction over the natural numbers. *)

\* A set of natural numbers has a least one.
LEMMA Least ==
  ASSUME NEW T \in SUBSET Nat, T # {}
  PROVE  \E x \in T : \A y \in T : ~(y < x)
<1> DEFINE F == {1..n : n \in T}
<1>1. F \subseteq FiniteSubsetsOf(Nat)
  <2> SUFFICES ASSUME NEW n \in T PROVE 1..n \in FiniteSubsetsOf(Nat)
    OBVIOUS
  <2>1. IsFiniteSet(1..n)
    BY FS_Interval
  <2> QED
    BY <2>1 DEF FiniteSubsetsOf
<1>2. F # {}
  OBVIOUS
<1>3. PICK s \in F : \A r \in F : <<r, s>> \notin StrictSubsetOrdering(Nat)
  BY <1>1, <1>2, FS_StrictSubsetOrderingWellFounded, WFMin
<1>4. PICK x \in T : s = 1..x
  OBVIOUS
<1>5. ASSUME NEW y \in T, y < x PROVE FALSE
  <2>1. 1..y \subseteq 1..x /\ x \in 1..x /\ x \notin 1..y
    BY <1>5
  <2>2. 1..y \in SUBSET Nat /\ 1..x \in SUBSET Nat
    OBVIOUS
  <2>3. <<1..y, s>> \in StrictSubsetOrdering(Nat)
    BY <2>1, <2>2, <1>4 DEF StrictSubsetOrdering
  <2> QED
    BY <1>3, <2>3
<1> QED
  BY <1>5

\* Induction over the natural numbers, for a set instead of a predicate.
LEMMA Induction ==
  ASSUME NEW S, 0 \in S, \A n \in Nat : n \in S => n + 1 \in S
  PROVE  \A n \in Nat : n \in S
<1> SUFFICES ASSUME Nat \ S # {} PROVE FALSE
  OBVIOUS
<1>1. PICK x \in Nat \ S : \A y \in Nat \ S : ~(y < x)
  BY Least
<1>2. x # 0 /\ x - 1 \in Nat /\ x - 1 < x /\ (x - 1) + 1 = x
  BY <1>1
<1> QED
  BY <1>1, <1>2

-----------------------------------------------------------------------------
(* FlattenSeq is a function on 1..Len(ss) that CHOOSE picks. *)

\* g joins ss: g[i] is the first i of the sequences one after the other.
Joins(g, ss) == g = [i \in 1..Len(ss) |-> IF i = 1 THEN ss[i] ELSE g[i-1] \o ss[i]]

\* The equation of Joins at one index.
LEMMA JoinsAt ==
  ASSUME NEW ss, NEW g, Joins(g, ss), NEW i \in 1..Len(ss)
  PROVE  g[i] = IF i = 1 THEN ss[i] ELSE g[i-1] \o ss[i]
<1> DEFINE h == [j \in 1..Len(ss) |-> IF j = 1 THEN ss[j] ELSE g[j-1] \o ss[j]]
<1>1. g = h
  BY DEF Joins
<1>2. h[i] = IF i = 1 THEN ss[i] ELSE g[i-1] \o ss[i]
  OBVIOUS
<1> HIDE DEF h
<1> QED
  BY <1>1, <1>2

\* Two sequences of sequences that begin alike are joined alike so far.
LEMMA JoinsUnique ==
  ASSUME NEW ss, NEW tt, NEW g, NEW h, Joins(g, ss), Joins(h, tt), Len(ss) \in Nat, Len(tt) \in Nat,
         NEW k \in Nat, k <= Len(ss), k <= Len(tt), \A i \in 1..k : ss[i] = tt[i]
  PROVE  \A i \in 1..k : g[i] = h[i]
<1> DEFINE S == {n \in Nat : n <= k => \A i \in 1..n : g[i] = h[i]}
<1>1. 0 \in S
  OBVIOUS
<1>2. ASSUME NEW n \in Nat, n \in S PROVE n + 1 \in S
  <2> SUFFICES ASSUME n + 1 <= k PROVE g[n + 1] = h[n + 1]
    BY <1>2
  <2>0. n + 1 \in 1..Len(ss) /\ n + 1 \in 1..Len(tt)
    OBVIOUS
  <2>1. g[n + 1] = IF n + 1 = 1 THEN ss[n + 1] ELSE g[(n + 1) - 1] \o ss[n + 1]
    BY <2>0, JoinsAt
  <2>2. h[n + 1] = IF n + 1 = 1 THEN tt[n + 1] ELSE h[(n + 1) - 1] \o tt[n + 1]
    BY <2>0, JoinsAt
  <2>3. ss[n + 1] = tt[n + 1]
    OBVIOUS
  <2>4. CASE n = 0
    BY <2>1, <2>2, <2>3, <2>4
  <2>5. CASE n # 0
    <3>1. g[n] = h[n]
      BY <1>2, <2>5
    <3>2. (n + 1) - 1 = n /\ n + 1 # 1
      BY <2>5
    <3> QED
      BY <2>1, <2>2, <2>3, <3>1, <3>2
  <2> QED
    BY <2>4, <2>5
<1>3. k \in S
  <2> HIDE DEF S
  <2> QED
    BY <1>1, <1>2, Induction
<1> QED
  BY <1>3

\* Every sequence of sequences is joined by a function.
LEMMA JoinsExists ==
  ASSUME NEW ss, Len(ss) \in Nat
  PROVE  \E g : Joins(g, ss)
<1> DEFINE Step(g, n) == g = [i \in 1..n |-> IF i = 1 THEN ss[i] ELSE g[i-1] \o ss[i]]
<1> DEFINE S == {n \in Nat : \E g : Step(g, n)}
<1>1. 0 \in S
  <2>1. Step(<<>>, 0)
    OBVIOUS
  <2> QED
    BY <2>1
<1>2. ASSUME NEW n \in Nat, n \in S PROVE n + 1 \in S
  <2>1. PICK g : Step(g, n)
    BY <1>2
  <2> DEFINE h == [i \in 1..(n + 1) |-> IF i <= n THEN g[i]
                                        ELSE IF i = 1 THEN ss[i] ELSE g[i-1] \o ss[i]]
  <2>2. ASSUME NEW i \in 1..(n + 1) PROVE h[i] = IF i = 1 THEN ss[i] ELSE h[i-1] \o ss[i]
    <3>1. CASE i = 1
      BY <2>1, <3>1
    <3>2. CASE i # 1
      <4>1. i - 1 \in 1..n /\ i - 1 \in 1..(n + 1) /\ i - 1 <= n
        BY <3>2
      <4>2. h[i - 1] = g[i - 1]
        BY <4>1
      <4>3. i <= n => g[i] = g[i - 1] \o ss[i]
        <5> DEFINE f == [j \in 1..n |-> IF j = 1 THEN ss[j] ELSE g[j-1] \o ss[j]]
        <5>1. g = f
          BY <2>1
        <5>2. i <= n => i \in 1..n
          OBVIOUS
        <5>3. i <= n => f[i] = g[i - 1] \o ss[i]
          BY <3>2, <5>2
        <5> HIDE DEF f
        <5> QED
          BY <5>1, <5>3
      <4>4. h[i] = g[i - 1] \o ss[i]
        BY <3>2, <4>1, <4>3
      <4> QED
        BY <3>2, <4>2, <4>4
    <3> QED
      BY <3>1, <3>2
  <2>3. Step(h, n + 1)
    BY <2>2
  <2> HIDE DEF h
  <2>4. \E f : Step(f, n + 1)
    BY <2>3
  <2>5. n + 1 \in Nat
    OBVIOUS
  <2> HIDE DEF Step
  <2> QED
    BY <2>4, <2>5 DEF S
<1>3. Len(ss) \in S
  <2> HIDE DEF S
  <2> QED
    BY <1>1, <1>2, Induction
<1> QED
  BY <1>3 DEF Joins

\* FlattenSeq is the last value of such a function.
LEMMA FlattenJoins ==
  ASSUME NEW ss, Len(ss) \in Nat, Len(ss) # 0, NEW g, Joins(g, ss)
  PROVE  FlattenSeq(ss) = g[Len(ss)]
<1> DEFINE f == CHOOSE fl : fl = [i \in 1..Len(ss) |-> IF i = 1 THEN ss[i] ELSE fl[i-1] \o ss[i]]
<1>1. f = [i \in 1..Len(ss) |-> IF i = 1 THEN ss[i] ELSE f[i-1] \o ss[i]]
  BY DEF Joins
<1>2. FlattenSeq(ss) = f[Len(ss)]
  BY DEF FlattenSeq
<1>3. Joins(f, ss)
  BY <1>1 DEF Joins
<1> HIDE DEF f
<1>4. f[Len(ss)] = g[Len(ss)]
  BY <1>3, JoinsUnique
<1> QED
  BY <1>2, <1>4

-----------------------------------------------------------------------------
(* Concatenation. *)

\* Concatenation under a name of its own, which no prover looks into.
Cat(a, b) == a \o b

\* Concatenation is associative.
LEMMA CatAssoc ==
  ASSUME NEW S, NEW a \in Seq(S), NEW b \in Seq(S), NEW c \in Seq(S)
  PROVE  Cat(Cat(a, b), c) = Cat(a, Cat(b, c))
  BY SMTT(30) DEF Cat

\* The facts of Cat for a set of sequences.
LEMMA CatFacts ==
  ASSUME NEW S
  PROVE  /\ \A a, b \in Seq(S) : Cat(a, b) \in Seq(S)
         /\ \A a, b, c \in Seq(S) : Cat(Cat(a, b), c) = Cat(a, Cat(b, c))
<1>1. \A a, b \in Seq(S) : Cat(a, b) \in Seq(S)
  BY DEF Cat
<1> QED
  BY ONLY <1>1, CatAssoc

\* Nothing before or after a sequence leaves it as it is.
LEMMA ConcatEmpty ==
  ASSUME NEW S, NEW a \in Seq(S)
  PROVE  /\ <<>> \o a = a
         /\ a \o <<>> = a
  OBVIOUS

\* The parts of a concatenation are found again at its two ends.
LEMMA ConcatHead ==
  ASSUME NEW S, NEW a \in Seq(S), NEW b \in Seq(S)
  PROVE  /\ a \o b \in Seq(S)
         /\ Len(a \o b) = Len(a) + Len(b)
         /\ SubSeq(a \o b, 1, Len(a)) = a
         /\ SubSeq(a \o b, Len(a) + 1, Len(a \o b)) = b
  OBVIOUS

\* What lies in the first part does not depend on the second.
LEMMA SubSeqFront ==
  ASSUME NEW S, NEW a \in Seq(S), NEW b \in Seq(S), NEW i \in Nat, i > 0, NEW j \in Nat, j <= Len(a)
  PROVE  SubSeq(a \o b, i, j) = SubSeq(a, i, j)
  OBVIOUS

\* A sequence is its first k elements and the others.
LEMMA SubSeqSplit ==
  ASSUME NEW S, NEW a \in Seq(S), NEW k \in 0..Len(a)
  PROVE  a = SubSeq(a, 1, k) \o SubSeq(a, k + 1, Len(a))
<1>1. 1 \in 1..(Len(a) + 1) /\ k \in (1 - 1)..Len(a) /\ Len(a) \in k..Len(a)
  OBVIOUS
<1>2. SubSeq(a, 1, k) \o SubSeq(a, k + 1, Len(a)) = SubSeq(a, 1, Len(a))
  BY <1>1, ConcatAdjacentSubSeq
<1> QED
  BY <1>2, SubSeqFull

\* Equal concatenations with parts of equal length have equal parts.
LEMMA CancelLeft ==
  ASSUME NEW S, NEW a \in Seq(S), NEW b \in Seq(S), NEW c \in Seq(S), NEW d \in Seq(S),
         a \o b = c \o d, Len(a) = Len(c)
  PROVE  a = c /\ b = d
<1>1. SubSeq(a \o b, 1, Len(a)) = a /\ SubSeq(c \o d, 1, Len(c)) = c
  BY ConcatHead
<1>2. a = c
  BY <1>1
<1> QED
  BY <1>2, ConcatSimplifications

\* Only the empty sequence has no elements.
LEMMA LenZero ==
  ASSUME NEW S, NEW s \in Seq(S)
  PROVE  /\ Len(s) \in Nat
         /\ Len(s) = 0 <=> s = <<>>
  OBVIOUS

\* A sequence with elements is not empty.
LEMMA NonEmpty ==
  ASSUME NEW S, NEW s \in Seq(S), Len(s) # 0
  PROVE  s # <<>>
  BY LenZero

\* Of no sequences, nothing.
LEMMA FlattenEmpty == FlattenSeq(<<>>) = <<>>
  BY DEF FlattenSeq

\* Of one sequence, that one.
LEMMA FlattenOne ==
  ASSUME NEW S, NEW x \in S
  PROVE  FlattenSeq(<<x>>) = x
<1> DEFINE ss == <<x>>
<1>0. Len(ss) = 1 /\ ss[1] = x
  OBVIOUS
<1> HIDE DEF ss
<1>1. PICK g : Joins(g, ss)
  BY <1>0, JoinsExists
<1>2. FlattenSeq(ss) = g[1]
  <2>1. Len(ss) \in Nat /\ Len(ss) # 0
    BY <1>0
  <2>2. FlattenSeq(ss) = g[Len(ss)]
    BY <1>1, <2>1, FlattenJoins
  <2> QED
    BY <1>0, <2>2
<1>3. g[1] = x
  BY <1>0, <1>1, JoinsAt
<1> QED
  BY <1>2, <1>3 DEF ss

\* One sequence more goes to the end of what is joined.
LEMMA JoinsGrow ==
  ASSUME NEW ss, NEW tt, NEW g, NEW h, Joins(g, ss), Joins(h, tt),
         Len(ss) \in Nat \ {0}, Len(tt) = Len(ss) + 1,
         \A i \in 1..Len(ss) : ss[i] = tt[i]
  PROVE  h[Len(tt)] = g[Len(ss)] \o tt[Len(tt)]
<1>1. Len(ss) \in Nat /\ Len(tt) \in Nat /\ Len(ss) <= Len(ss) /\ Len(ss) <= Len(tt)
  OBVIOUS
<1>2. \A i \in 1..Len(ss) : g[i] = h[i]
  BY <1>1, JoinsUnique, SMTT(30)
<1>3. g[Len(ss)] = h[Len(ss)]
  BY <1>2
<1>4. Len(tt) \in 1..Len(tt) /\ Len(tt) # 1 /\ Len(tt) - 1 = Len(ss)
  OBVIOUS
<1>5. h[Len(tt)] = IF Len(tt) = 1 THEN tt[Len(tt)] ELSE h[Len(tt) - 1] \o tt[Len(tt)]
  BY <1>4, JoinsAt
<1> QED
  BY <1>3, <1>4, <1>5

\* FlattenSeq of a sequence more.
LEMMA FlattenAppend ==
  ASSUME NEW S, NEW ss \in Seq(Seq(S)), NEW x \in Seq(S)
  PROVE  FlattenSeq(Append(ss, x)) = FlattenSeq(ss) \o x
<1>1. CASE ss = <<>>
  <2>1. Append(ss, x) = <<x>>
    BY <1>1
  <2>2. <<>> \o x = x
    BY ConcatEmpty
  <2> QED
    BY <1>1, <2>1, <2>2, FlattenEmpty, FlattenOne
<1>2. CASE ss # <<>>
  <2> DEFINE tt == Append(ss, x)
  <2>1. Len(ss) \in Nat \ {0} /\ Len(tt) = Len(ss) + 1 /\ tt[Len(tt)] = x
        /\ \A i \in 1..Len(ss) : ss[i] = tt[i]
    BY <1>2, LenZero
  <2> HIDE DEF tt
  <2>2. PICK g : Joins(g, ss)
    BY <2>1, JoinsExists
  <2>3. Len(tt) \in Nat /\ Len(tt) # 0
    BY <2>1
  <2>4. PICK h : Joins(h, tt)
    BY <2>3, JoinsExists
  <2>5. h[Len(tt)] = g[Len(ss)] \o tt[Len(tt)]
    <3>1. Len(ss) \in Nat \ {0} /\ Len(tt) = Len(ss) + 1 /\ \A i \in 1..Len(ss) : ss[i] = tt[i]
      BY <2>1
    <3> QED
      BY ONLY <3>1, <2>2, <2>4, JoinsGrow
  <2>6. FlattenSeq(ss) = g[Len(ss)] /\ FlattenSeq(tt) = h[Len(tt)]
    BY <2>1, <2>2, <2>3, <2>4, FlattenJoins
  <2> QED
    BY <2>1, <2>5, <2>6 DEF tt
<1> QED
  BY <1>1, <1>2

\* A sequence that is not empty is another one and its last element.
LEMMA FrontLast ==
  ASSUME NEW S, NEW s \in Seq(S), s # <<>>
  PROVE  \E t \in Seq(S), x \in S : s = Append(t, x) /\ Len(t) + 1 = Len(s)
  BY SequenceEmptyOrAppend, AppendProperties

\* The type of FlattenSeq.
LEMMA FlattenType ==
  ASSUME NEW S, NEW ss \in Seq(Seq(S))
  PROVE  FlattenSeq(ss) \in Seq(S)
<1> DEFINE T == {n \in Nat : \A tt \in Seq(Seq(S)) : Len(tt) = n => FlattenSeq(tt) \in Seq(S)}
<1>1. 0 \in T
  BY FlattenEmpty
<1>2. ASSUME NEW n \in Nat, n \in T PROVE n + 1 \in T
  <2> SUFFICES ASSUME NEW tt \in Seq(Seq(S)), Len(tt) = n + 1 PROVE FlattenSeq(tt) \in Seq(S)
    OBVIOUS
  <2>1. tt # <<>>
    OBVIOUS
  <2>2. PICK uu \in Seq(Seq(S)), x \in Seq(S) : tt = Append(uu, x) /\ Len(uu) + 1 = Len(tt)
    BY <2>1, FrontLast
  <2>3. FlattenSeq(uu) \in Seq(S)
    BY <1>2, <2>2
  <2>4. FlattenSeq(tt) = FlattenSeq(uu) \o x
    BY <2>2, FlattenAppend
  <2> QED
    BY <2>3, <2>4
<1>3. Len(ss) \in T
  <2> HIDE DEF T
  <2>1. \A n \in Nat : n \in T
    BY ONLY <1>1, <1>2, Induction, Zenon
  <2> QED
    BY <2>1
<1> QED
  BY <1>3

\* FlattenAppend behind something else.
LEMMA FlattenAfter ==
  ASSUME NEW S, NEW d, NEW ss, NEW x, d \in Seq(S), ss \in Seq(Seq(S)), x \in Seq(S)
  PROVE  d \o FlattenSeq(Append(ss, x)) = (d \o FlattenSeq(ss)) \o x
<1>1. PICK f : f = FlattenSeq(ss)
  OBVIOUS
<1>2. f \in Seq(S) /\ FlattenSeq(Append(ss, x)) = f \o x
  BY <1>1, FlattenType, FlattenAppend
<1>3. d \in Seq(S) /\ x \in Seq(S)
  OBVIOUS
<1>4. (d \o f) \o x = d \o (f \o x)
  <2>1. Cat(Cat(d, f), x) = Cat(d, Cat(f, x))
    BY ONLY <1>2, <1>3, CatAssoc
  <2> QED
    BY ONLY <2>1 DEF Cat
<1> QED
  BY <1>1, <1>2, <1>4

\* The step of FlattenFirst.
LEMMA FlattenGrows ==
  ASSUME NEW S, NEW ss \in Seq(Seq(S)), ss # <<>>, NEW x \in Seq(S),
         FlattenSeq(ss) = Head(ss) \o FlattenSeq(Tail(ss))
  PROVE  FlattenSeq(ss) \o x = Head(ss) \o (FlattenSeq(Tail(ss)) \o x)
<1>1. PICK a, b : a = Head(ss) /\ b = FlattenSeq(Tail(ss))
  OBVIOUS
<1>2. a \in Seq(S) /\ b \in Seq(S)
  BY <1>1, HeadTailProperties, FlattenType
<1>3. x \in Seq(S)
  OBVIOUS
<1>4. (a \o b) \o x = a \o (b \o x)
  <2>1. Cat(Cat(a, b), x) = Cat(a, Cat(b, x))
    BY ONLY <1>2, <1>3, CatAssoc
  <2> QED
    BY ONLY <2>1 DEF Cat
<1> QED
  BY <1>1, <1>4

\* FlattenSeq from its other end: the first sequence, then the others.
LEMMA FlattenFirst ==
  ASSUME NEW S, NEW ss \in Seq(Seq(S)), ss # <<>>
  PROVE  FlattenSeq(ss) = Head(ss) \o FlattenSeq(Tail(ss))
<1> DEFINE T == {n \in Nat : \A tt \in Seq(Seq(S)) :
                  Len(tt) = n + 1 => FlattenSeq(tt) = Head(tt) \o FlattenSeq(Tail(tt))}
<1>1. 0 \in T
  <2> SUFFICES ASSUME NEW tt \in Seq(Seq(S)), Len(tt) = 1
               PROVE  FlattenSeq(tt) = Head(tt) \o FlattenSeq(Tail(tt))
    OBVIOUS
  <2>1. tt # <<>>
    <3>1. Len(tt) # 0
      OBVIOUS
    <3> QED
      BY <3>1, NonEmpty, Zenon
  <2>3. Head(tt) \in Seq(S) /\ Tail(tt) \in Seq(Seq(S)) /\ Len(Tail(tt)) = 0
    BY <2>1, HeadTailProperties
  <2>4. Tail(tt) = <<>> /\ tt = <<Head(tt)>>
    <3>1. Tail(tt) = <<>>
      BY <2>3, LenZero
    <3>2. tt[1] = Head(tt)
      OBVIOUS
    <3>3. <<Head(tt)>> \in Seq(Seq(S)) /\ Len(<<Head(tt)>>) = 1 /\ <<Head(tt)>>[1] = Head(tt)
      BY <2>3
    <3> QED
      BY <3>1, <3>2, <3>3, SeqEqual
  <2>2. FlattenSeq(tt) = Head(tt)
    BY <2>3, <2>4, FlattenOne
  <2> QED
    BY <2>3, <2>4, <2>2, FlattenEmpty, ConcatEmpty
<1>2. ASSUME NEW n \in Nat, n \in T PROVE n + 1 \in T
  <2> SUFFICES ASSUME NEW tt \in Seq(Seq(S)), Len(tt) = (n + 1) + 1
               PROVE  FlattenSeq(tt) = Head(tt) \o FlattenSeq(Tail(tt))
    OBVIOUS
  <2>1. tt # <<>>
    OBVIOUS
  <2>2. PICK uu \in Seq(Seq(S)), x \in Seq(S) : tt = Append(uu, x) /\ Len(uu) + 1 = Len(tt)
    BY <2>1, FrontLast
  <2>3. uu # <<>> /\ Len(uu) = n + 1
    BY <2>2
  <2>4. Head(tt) = Head(uu) /\ Tail(tt) = Append(Tail(uu), x) /\ Head(uu) \in Seq(S)
        /\ Tail(uu) \in Seq(Seq(S))
    BY <2>2, <2>3, HeadTailAppend, HeadTailProperties
  <2>5. FlattenSeq(uu) = Head(uu) \o FlattenSeq(Tail(uu))
    BY <1>2, <2>3
  <2>6. FlattenSeq(tt) = FlattenSeq(uu) \o x /\ FlattenSeq(Tail(tt)) = FlattenSeq(Tail(uu)) \o x
    BY <2>2, <2>4, FlattenAppend
  <2>7. FlattenSeq(uu) \o x = Head(uu) \o (FlattenSeq(Tail(uu)) \o x)
    BY <2>3, <2>5, FlattenGrows
  <2> QED
    BY <2>4, <2>6, <2>7
<1>3. Len(ss) - 1 \in T
  <2>1. Len(ss) - 1 \in Nat
    OBVIOUS
  <2> HIDE DEF T
  <2> QED
    BY <1>1, <1>2, <2>1, Induction
<1> QED
  BY <1>3

\* FlattenFirst for the sequences from the k-th on.
LEMMA FlattenFrom ==
  ASSUME NEW S, NEW ss \in Seq(Seq(S)), NEW k \in 1..Len(ss)
  PROVE  FlattenSeq(SubSeq(ss, k, Len(ss))) = ss[k] \o FlattenSeq(SubSeq(ss, k + 1, Len(ss)))
<1> DEFINE tt == SubSeq(ss, k, Len(ss))
<1>1. tt \in Seq(Seq(S)) /\ tt # <<>>
  <2>1. k \in Int /\ Len(ss) \in Int /\ \A i \in k..Len(ss) : ss[i] \in Seq(S)
    OBVIOUS
  <2>2. tt \in Seq(Seq(S)) /\ Len(tt) = Len(ss) - k + 1
    BY <2>1, SubSeqProperties
  <2>3. Len(ss) - k + 1 # 0
    OBVIOUS
  <2> HIDE DEF tt
  <2> QED
    BY <2>2, <2>3, EmptySeq
<1>2. Head(tt) = ss[k] /\ Tail(tt) = SubSeq(ss, k + 1, Len(ss))
  BY HeadTailOfSubSeq
<1> HIDE DEF tt
<1> QED
  BY <1>1, <1>2, FlattenFirst DEF tt

-----------------------------------------------------------------------------
(* Parts of sequences. *)

\* Six parts joined from the left are the same six joined from the right.
LEMMA ConcatSix ==
  ASSUME NEW S, NEW a, NEW b, NEW c, NEW d, NEW f, NEW e, {a, b, c, d, f, e} \subseteq Seq(S)
  PROVE  LET s == Cat(Cat(Cat(Cat(Cat(a, b), c), d), f), e)
         IN  s = Cat(a, Cat(b, Cat(c, Cat(d, Cat(f, e))))) /\ s \in Seq(S)
<1>1. PICK T : T = Seq(S)
  OBVIOUS
<1>2. \A x, y, z \in T : Cat(x, y) \in T /\ Cat(Cat(x, y), z) = Cat(x, Cat(y, z))
  BY ONLY <1>1, CatFacts
<1>3. a \in T /\ b \in T /\ c \in T /\ d \in T /\ f \in T /\ e \in T
  BY <1>1
<1>4. Cat(a, b) \in T /\ Cat(Cat(a, b), c) \in T /\ Cat(Cat(Cat(a, b), c), d) \in T
        /\ Cat(f, e) \in T /\ Cat(d, Cat(f, e)) \in T /\ Cat(c, Cat(d, Cat(f, e))) \in T
  BY ONLY <1>2, <1>3
<1>5. /\ Cat(Cat(Cat(Cat(Cat(a, b), c), d), f), e) = Cat(a, Cat(b, Cat(c, Cat(d, Cat(f, e)))))
      /\ Cat(Cat(Cat(Cat(Cat(a, b), c), d), f), e) \in T
  BY ONLY <1>2, <1>3, <1>4
<1> QED
  BY ONLY <1>1, <1>5

\* The type of a part of a sequence.
LEMMA SubSeqTyped ==
  ASSUME NEW S, NEW s, s \in Seq(S), NEW m \in Nat, m > 0, NEW n \in Nat, n <= Len(s)
  PROVE  SubSeq(s, m, n) \in Seq(S)
OBVIOUS

\* The type of a tail.
LEMMA TailTyped ==
  ASSUME NEW S, NEW s \in Seq(S), s # <<>>
  PROVE  Tail(s) \in Seq(S)
BY HeadTailProperties

\* The elements after the first p, up to the q-th and after it.
LEMMA Slices ==
  ASSUME NEW S, NEW s, s \in Seq(S), NEW p \in 0..Len(s), NEW q \in 0..Len(s), p <= q
  PROVE  /\ SubSeq(s, p + 1, q) \in Seq(S) /\ Len(SubSeq(s, p + 1, q)) = q - p
         /\ SubSeq(s, q + 1, Len(s)) \in Seq(S)
         /\ SubSeq(s, p + 1, Len(s)) \in Seq(S)
         /\ Len(SubSeq(s, p + 1, Len(s))) = Len(s) - p
         /\ SubSeq(s, p + 1, Len(s)) = SubSeq(s, p + 1, q) \o SubSeq(s, q + 1, Len(s))
<1>1. Len(s) \in Nat /\ p \in Nat /\ q \in Nat /\ q <= Len(s) /\ p <= q
  OBVIOUS
<1>2. /\ SubSeq(s, p + 1, q) \in Seq(S) /\ Len(SubSeq(s, p + 1, q)) = q - p
      /\ SubSeq(s, q + 1, Len(s)) \in Seq(S)
      /\ SubSeq(s, p + 1, Len(s)) \in Seq(S)
      /\ Len(SubSeq(s, p + 1, Len(s))) = Len(s) - p
  BY ONLY <1>1, s \in Seq(S)
<1>3. SubSeq(s, p + 1, Len(s)) = SubSeq(s, p + 1, q) \o SubSeq(s, q + 1, Len(s))
  <2>1. p + 1 \in 1..(Len(s) + 1) /\ q \in ((p + 1) - 1)..Len(s) /\ Len(s) \in q..Len(s)
    BY <1>1
  <2> QED
    BY <2>1, ConcatAdjacentSubSeq
<1> QED
  BY ONLY <1>2, <1>3

\* The elements after the first p, when more are added at the end.
LEMMA SubSeqOnward ==
  ASSUME NEW S, NEW s \in Seq(S), NEW f \in Seq(S), NEW p \in 0..Len(s)
  PROVE  SubSeq(s \o f, p + 1, Len(s \o f)) = SubSeq(s, p + 1, Len(s)) \o f
<1>1. PICK t, l, m : t = s \o f /\ l = Len(s) /\ m = Len(s \o f)
  OBVIOUS
<1>2. t \in Seq(S) /\ Len(t) = m /\ l \in Nat /\ m \in Nat /\ l <= m /\ p \in Nat /\ p <= l
  BY <1>1
<1>3. SubSeq(t, l + 1, m) = f
  BY <1>1, ConcatHead
<1>4. SubSeq(t, p + 1, l) = SubSeq(s, p + 1, l)
  BY <1>1, <1>2, SubSeqFront
<1>5. SubSeq(t, p + 1, l) \o SubSeq(t, l + 1, m) = SubSeq(t, p + 1, m)
  <2>1. p + 1 \in 1..(Len(t) + 1) /\ l \in ((p + 1) - 1)..Len(t) /\ m \in l..Len(t) /\ t \in Seq(S)
    BY <1>2
  <2> QED
    BY ONLY <2>1, ConcatAdjacentSubSeq
<1> QED
  BY ONLY <1>1, <1>3, <1>4, <1>5

\* Nothing is left after the last element.
LEMMA SubSeqNone ==
  ASSUME NEW s, Len(s) \in Nat
  PROVE  SubSeq(s, Len(s) + 1, Len(s)) = <<>>
OBVIOUS

\* What is left after k elements: empty at the end, else the next one and the others.
LEMMA SuffixFacts ==
  ASSUME NEW S, NEW s \in Seq(S), NEW k \in 0..Len(s)
  PROVE  /\ SubSeq(s, k + 1, Len(s)) = <<>> <=> k = Len(s)
         /\ k < Len(s) => /\ Head(SubSeq(s, k + 1, Len(s))) = s[k + 1]
                          /\ Tail(SubSeq(s, k + 1, Len(s))) = SubSeq(s, k + 2, Len(s))
<1>1. k \in Nat /\ Len(s) \in Nat /\ k <= Len(s)
  OBVIOUS
<1>2. SubSeq(s, k + 1, Len(s)) = <<>> <=> k = Len(s)
  <2>1. PICK t : t = SubSeq(s, k + 1, Len(s))
    OBVIOUS
  <2>2. t \in Seq(S) /\ Len(t) = Len(s) - k
    BY <1>1, <2>1
  <2>3. Len(t) = 0 <=> t = <<>>
    BY <2>2, LenZero
  <2> QED
    BY ONLY <1>1, <2>1, <2>2, <2>3
<1>3. ASSUME k < Len(s)
      PROVE  /\ Head(SubSeq(s, k + 1, Len(s))) = s[k + 1]
             /\ Tail(SubSeq(s, k + 1, Len(s))) = SubSeq(s, k + 2, Len(s))
  <2>1. k + 1 \in 1..Len(s) /\ Len(s) \in (k + 1)..Len(s) /\ (k + 1) + 1 = k + 2
    BY <1>1, <1>3
  <2> QED
    BY <2>1, HeadTailOfSubSeq
<1> QED
  BY <1>2, <1>3

-----------------------------------------------------------------------------
(* The columns of a batch. *)

\* The configuration is one ColumnarBatch accepts.
LEMMA CapacityFact == Capacity \in Nat \ {0} /\ MaxTotal \in Nat
BY BatchAssumption

\* What the buffers of a column and of a batch hold.
Column == [valid : [1..Capacity -> BOOLEAN], values : Seq(Int), offsets : Seq(Nat),
           data : Seq(Nat), chunks : Seq(Seq(Nat)), total : Nat]

Batch == [rows : 0..Capacity, cols : [Columns -> Column]]

\* Offsets that begin with 0, end with the total and never go back.
Ordered(o, t) ==
  /\ Len(o) > 0 /\ o[1] = 0 /\ o[Len(o)] = t
  /\ \A i \in 1..(Len(o) - 1) : o[i] <= o[i + 1]
  /\ \A i \in 1..Len(o) : o[i] <= t

\* The offsets of a column fit its bytes.
OffsetsOK(c) ==
  /\ Ordered(c.offsets, c.total)
  /\ c.total = Len(Coalesced(c)) /\ c.total <= MaxTotal

BatchOK(b) == b \in Batch /\ \A n \in Columns : OffsetsOK(b.cols[n])

\* The batch with another column n; every push is of this form.
PutColumn(b, n, c) == [b EXCEPT !.cols = [b.cols EXCEPT ![n] = c]]

\* PutColumn changes one column.
LEMMA PutFacts ==
  ASSUME NEW b \in Batch, NEW n \in Columns, NEW c \in Column
  PROVE  /\ PutColumn(b, n, c) \in Batch
         /\ PutColumn(b, n, c).rows = b.rows
         /\ PutColumn(b, n, c).cols[n] = c
         /\ \A m \in Columns : m # n => PutColumn(b, n, c).cols[m] = b.cols[m]
BY DEF PutColumn, Batch

\* The column n of b with a bit of validity more.
Marked(b, n, v) == [b.cols[n] EXCEPT !.valid = [b.cols[n].valid EXCEPT ![b.rows + 1] = v]]

\* set_validity is a PutColumn.
LEMMA SetValidityPut ==
  ASSUME NEW b \in Batch, NEW n \in Columns, NEW v \in BOOLEAN, b.rows < Capacity
  PROVE  /\ SetValidity(b, n, v) = PutColumn(b, n, Marked(b, n, v))
         /\ Marked(b, n, v) \in Column
         /\ SetValidity(b, n, v) \in Batch
<1>1. SetValidity(b, n, v) = PutColumn(b, n, Marked(b, n, v))
  BY DEF PutColumn, Batch, SetValidity, Column, Marked
<1>2. b.cols[n] \in Column
  BY DEF Batch
<1>3. b.rows + 1 \in 1..Capacity
  BY CapacityFact DEF Batch
<1>4. [b.cols[n].valid EXCEPT ![b.rows + 1] = v] \in [1..Capacity -> BOOLEAN]
  BY <1>2, <1>3 DEF Column
<1>5. Marked(b, n, v) \in Column
  BY <1>2, <1>4 DEF Marked, Column
<1> QED
  BY <1>1, <1>5, PutFacts

\* A push of a fixed-size value is a PutColumn.
LEMMA PushFixedPut ==
  ASSUME NEW b \in Batch, NEW n \in Columns, NEW v
  PROVE  PushFixed(b, n, v) = PutColumn(b, n, [Marked(b, n, TRUE) EXCEPT !.values = Append(b.cols[n].values, v)])
BY ZenonT(60) DEF PutColumn, Batch, SetValidity, PushFixed, Column, Marked

\* A push of NULL is a PutColumn.
LEMMA PushNullPut ==
  ASSUME NEW b \in Batch, NEW n \in Columns
  PROVE  PushNull(b, n) = 
    IF IsVar(Schema[n])
    THEN PutColumn(b, n, [Marked(b, n, FALSE) EXCEPT !.offsets = Append(b.cols[n].offsets, b.cols[n].total)])
    ELSE PutColumn(b, n, [Marked(b, n, FALSE) EXCEPT !.values = Append(b.cols[n].values, 0)])
BY DEF PutColumn, Batch, SetValidity, PushNull, Column, Marked

\* The column n of b with bytes more.
Extended(b, n, bytes, data, chunks) ==
  [Marked(b, n, TRUE) EXCEPT !.total = b.cols[n].total + Len(bytes),
                             !.offsets = Append(b.cols[n].offsets, b.cols[n].total + Len(bytes)),
                             !.data = data,
                             !.chunks = chunks]

\* A push of bytes is a PutColumn.
LEMMA ExtendPut ==
  ASSUME NEW b \in Batch, NEW n \in Columns, NEW bytes, NEW data, NEW chunks, b.rows < Capacity
  PROVE  Extend(b, n, bytes, data, chunks) = PutColumn(b, n, Extended(b, n, bytes, data, chunks))
<1>1. SetValidity(b, n, TRUE).cols[n] = Marked(b, n, TRUE)
  <2>1. /\ SetValidity(b, n, TRUE) = PutColumn(b, n, Marked(b, n, TRUE))
        /\ Marked(b, n, TRUE) \in Column
    BY SetValidityPut
  <2>2. PutColumn(b, n, Marked(b, n, TRUE)).cols[n] = Marked(b, n, TRUE)
    BY <2>1, PutFacts
  <2> QED
    BY <2>1, <2>2
<1>2. Marked(b, n, TRUE).offsets = b.cols[n].offsets
  BY SetValidityPut DEF Marked, Column, Batch
<1>3. Extend(b, n, bytes, data, chunks) =
        [b EXCEPT !.cols[n] = Extended(b, n, bytes, data, chunks)]
  BY <1>1, <1>2 DEF Extend, Extended
<1> QED
  BY <1>3 DEF PutColumn, Batch

\* One bit of validity.
LEMMA BitSet ==
  ASSUME NEW f \in [1..Capacity -> BOOLEAN], NEW k \in 0..(Capacity - 1), NEW v \in BOOLEAN
  PROVE  /\ [f EXCEPT ![k + 1] = v] \in [1..Capacity -> BOOLEAN]
         /\ [f EXCEPT ![k + 1] = v][k + 1] = v
         /\ \A r \in 1..k : [f EXCEPT ![k + 1] = v][r] = f[r]
BY CapacityFact

\* One more offset.
LEMMA OffsetsGrow ==
  ASSUME NEW o \in Seq(Nat), NEW k \in Nat, Len(o) = k + 1, NEW t \in Nat
  PROVE  /\ Append(o, t) \in Seq(Nat) /\ Len(Append(o, t)) = k + 2
         /\ Append(o, t)[k + 2] = t
         /\ \A r \in 1..(k + 1) : Append(o, t)[r] = o[r]
OBVIOUS

\* An offset not before the last one keeps the offsets in order.
LEMMA OrderedAppend ==
  ASSUME NEW o \in Seq(Nat), NEW last \in Nat, Ordered(o, last), NEW t \in Nat, last <= t
  PROVE  Ordered(Append(o, t), t)
<1> DEFINE p == Append(o, t)  n == Len(o)
<1>1. /\ n \in Nat /\ n > 0 /\ Len(p) = n + 1 /\ p[n + 1] = t
      /\ \A i \in 1..n : p[i] = o[i] /\ o[i] \in Nat
  BY DEF Ordered
<1>2. /\ o[1] = 0 /\ o[n] = last
      /\ \A i \in 1..(n - 1) : o[i] <= o[i + 1]
      /\ \A i \in 1..n : o[i] <= last
  BY DEF Ordered
<1> HIDE DEF p, n
<1>3. ASSUME NEW i \in 1..n PROVE p[i] <= p[i + 1]
  <2>1. CASE i = n
    BY <1>1, <1>2, <2>1
  <2>2. CASE i # n
    <3>1. i \in 1..(n - 1) /\ i + 1 \in 1..n
      BY <1>1, <2>2
    <3> QED
      BY <1>1, <1>2, <3>1
  <2> QED
    BY <2>1, <2>2
<1>4. ASSUME NEW i \in 1..(n + 1) PROVE p[i] <= t
  <2>1. CASE i = n + 1
    BY <1>1, <2>1
  <2>2. CASE i # n + 1
    <3>1. i \in 1..n
      BY <1>1, <2>2
    <3>2. p[i] = o[i] /\ o[i] <= last /\ o[i] \in Nat
      BY <1>1, <1>2, <3>1
    <3> QED
      BY <3>2
  <2> QED
    BY <2>1, <2>2
<1>5. Len(p) > 0 /\ p[1] = 0 /\ p[Len(p)] = t /\ Len(p) - 1 = n
  BY <1>1, <1>2
<1>6. Ordered(p, t)
  BY <1>1, <1>3, <1>4, <1>5 DEF Ordered
<1> QED
  BY <1>6 DEF p

\* One more cell in a column that had k of them.
Grown(c, d, ty, k, v) ==
  /\ d \in Column /\ OffsetsOK(d)
  /\ Entries(ty, d) = k + 1
  /\ \A r \in 1..k : Cell(ty, d, r) = Cell(ty, c, r)
  /\ Cell(ty, d, k + 1) = v

\* A value in a fixed-size column, with its bit of validity or without.
LEMMA FixedGrown ==
  ASSUME NEW c \in Column, OffsetsOK(c), NEW ty, ~IsVar(ty), NEW k \in 0..(Capacity - 1),
         Len(c.values) = k, NEW v \in Int, NEW valid \in BOOLEAN
  PROVE  LET d == [c EXCEPT !.valid = [c.valid EXCEPT ![k + 1] = valid],
                            !.values = Append(c.values, v)]
         IN  /\ valid => Grown(c, d, ty, k, v)
             /\ ~valid => Grown(c, d, ty, k, Null)
<1> DEFINE bits == [c.valid EXCEPT ![k + 1] = valid]
           vals == Append(c.values, v)
           d == [c EXCEPT !.valid = bits, !.values = vals]
<1>1. k + 1 \in 1..Capacity /\ k \in Nat
  BY CapacityFact
<1>2. c.valid \in [1..Capacity -> BOOLEAN] /\ c.values \in Seq(Int)
  BY DEF Column
<1>3. /\ bits \in [1..Capacity -> BOOLEAN] /\ bits[k + 1] = valid
      /\ \A r \in 1..k : bits[r] = c.valid[r]
  BY <1>2, BitSet
<1>4. vals \in Seq(Int) /\ Len(vals) = k + 1 /\ vals[k + 1] = v /\ \A r \in 1..k : vals[r] = c.values[r]
  BY <1>1, <1>2
<1>5. /\ d \in Column /\ d.valid = bits /\ d.values = vals /\ d.offsets = c.offsets
      /\ d.data = c.data /\ d.chunks = c.chunks /\ d.total = c.total
  BY <1>3, <1>4 DEF Column
<1> HIDE DEF d, bits, vals
<1>6. OffsetsOK(d)
  BY <1>5 DEF OffsetsOK, Coalesced
<1>7. \A r \in 1..k : Cell(ty, d, r) = Cell(ty, c, r)
  BY <1>3, <1>4, <1>5 DEF Cell
<1>8. Cell(ty, d, k + 1) = IF valid THEN v ELSE Null
  BY <1>3, <1>4, <1>5 DEF Cell
<1>9. Entries(ty, d) = k + 1
  BY <1>4, <1>5 DEF Entries
<1> QED
  BY <1>5, <1>6, <1>7, <1>8, <1>9 DEF Grown, d, bits, vals

\* A NULL takes no bytes: its end is where it begins.
LEMMA NullGrown ==
  ASSUME NEW c \in Column, OffsetsOK(c), NEW ty, IsVar(ty), NEW k \in 0..(Capacity - 1),
         Len(c.offsets) = k + 1
  PROVE  Grown(c, [c EXCEPT !.valid = [c.valid EXCEPT ![k + 1] = FALSE],
                            !.offsets = Append(c.offsets, c.total)],
               ty, k, Null)
<1> DEFINE bits == [c.valid EXCEPT ![k + 1] = FALSE]
           ends == Append(c.offsets, c.total)
           d == [c EXCEPT !.valid = bits, !.offsets = ends]
<1>1. k + 1 \in 1..Capacity /\ k \in Nat
  BY CapacityFact
<1>2. c.valid \in [1..Capacity -> BOOLEAN] /\ c.offsets \in Seq(Nat) /\ c.total \in Nat
  BY DEF Column
<1>3. /\ bits \in [1..Capacity -> BOOLEAN] /\ bits[k + 1] = FALSE
      /\ \A r \in 1..k : bits[r] = c.valid[r]
  BY <1>2, BitSet
<1>4. /\ ends \in Seq(Nat) /\ Len(ends) = k + 2 /\ ends[k + 2] = c.total
      /\ \A r \in 1..(k + 1) : ends[r] = c.offsets[r]
  BY <1>1, <1>2, OffsetsGrow
<1>5. /\ d \in Column /\ d.valid = bits /\ d.values = c.values /\ d.offsets = ends
      /\ d.data = c.data /\ d.chunks = c.chunks /\ d.total = c.total
  BY <1>2, <1>3, <1>4 DEF Column
<1> HIDE DEF d, bits, ends
<1>6. Coalesced(d) = Coalesced(c)
  BY <1>5 DEF Coalesced
<1>7. OffsetsOK(d)
  <2>1. Ordered(c.offsets, c.total) /\ c.total <= c.total
    BY <1>2 DEF OffsetsOK
  <2>2. Ordered(ends, c.total)
    BY <1>2, <2>1, OrderedAppend DEF ends
  <2> QED
    BY <1>5, <1>6, <2>2 DEF OffsetsOK
<1>a. ASSUME NEW r \in 1..k PROVE Cell(ty, d, r) = Cell(ty, c, r)
  <2>1. r \in 1..(k + 1) /\ r + 1 \in 1..(k + 1)
    BY <1>1
  <2>2. d.valid[r] = c.valid[r] /\ d.offsets[r] = c.offsets[r] /\ d.offsets[r + 1] = c.offsets[r + 1]
    BY <2>1, <1>3, <1>4, <1>5
  <2> QED
    BY <1>6, <2>2 DEF Cell
<1>8. Cell(ty, d, k + 1) = Null
  BY <1>3, <1>5 DEF Cell
<1>9. Entries(ty, d) = k + 1
  BY <1>4, <1>5 DEF Entries
<1> QED
  BY <1>5, <1>7, <1>8, <1>9, <1>a DEF Grown, d, bits, ends

\* The bytes of a column, inline and in chunks, with some more at their end.
Longer(c, bytes, data, chunks) == data \o FlattenSeq(chunks) = Coalesced(c) \o bytes

\* Bytes after the bytes of a column leave what its offsets name as it was.
LEMMA BytesGrown ==
  ASSUME NEW c \in Column, OffsetsOK(c), NEW ty, IsVar(ty), NEW k \in 0..(Capacity - 1),
         Len(c.offsets) = k + 1, NEW bytes \in Seq(Nat), c.total + Len(bytes) <= MaxTotal,
         NEW data, NEW chunks, data \in Seq(Nat), chunks \in Seq(Seq(Nat)),
         Longer(c, bytes, data, chunks)
  PROVE  Grown(c, [c EXCEPT !.valid = [c.valid EXCEPT ![k + 1] = TRUE],
                            !.total = c.total + Len(bytes),
                            !.offsets = Append(c.offsets, c.total + Len(bytes)),
                            !.data = data, !.chunks = chunks],
               ty, k, bytes)
<1> DEFINE bits == [c.valid EXCEPT ![k + 1] = TRUE]
           total == c.total + Len(bytes)
           ends == Append(c.offsets, total)
           d == [c EXCEPT !.valid = bits, !.total = total, !.offsets = ends,
                          !.data = data, !.chunks = chunks]
<1>1. k + 1 \in 1..Capacity /\ k \in Nat
  BY CapacityFact
<1>2. /\ c.valid \in [1..Capacity -> BOOLEAN]
      /\ c.data \in Seq(Nat) /\ c.chunks \in Seq(Seq(Nat))
  BY DEF Column
<1>o. c.offsets \in Seq(Nat) /\ c.total \in Nat /\ Len(c.offsets) = k + 1
  BY DEF Column
<1>3. /\ bits \in [1..Capacity -> BOOLEAN] /\ bits[k + 1] = TRUE
      /\ \A r \in 1..k : bits[r] = c.valid[r]
  BY <1>2, BitSet
<1>4. Len(bytes) \in Nat /\ total \in Nat
  <2>1. Len(bytes) \in Nat
    OBVIOUS
  <2> QED
    BY <1>o, <2>1
<1>5. /\ ends \in Seq(Nat) /\ Len(ends) = k + 2 /\ ends[k + 2] = total
      /\ \A r \in 1..(k + 1) : ends[r] = c.offsets[r]
  <2> HIDE DEF total
  <2> QED
    BY <1>1, <1>o, <1>4, OffsetsGrow
<1>6. /\ d \in Column /\ d.valid = bits /\ d.offsets = ends
      /\ d.data = data /\ d.chunks = chunks /\ d.total = total
  BY <1>2, <1>3, <1>4, <1>5, <1>o DEF Column
<1>7. Coalesced(c) \in Seq(Nat) /\ Coalesced(d) = Coalesced(c) \o bytes
  <2>1. FlattenSeq(c.chunks) \in Seq(Nat)
    BY <1>2, FlattenType
  <2>2. Coalesced(d) = data \o FlattenSeq(chunks)
    BY <1>6 DEF Coalesced
  <2>3. Coalesced(d) = Coalesced(c) \o bytes
    BY <2>2 DEF Longer
  <2>4. c.data \o FlattenSeq(c.chunks) \in Seq(Nat)
    BY ONLY <1>2, <2>1, ConcatHead
  <2> QED
    BY <2>3, <2>4 DEF Coalesced
<1> HIDE DEF d, bits, ends, total
<1>8. /\ Len(Coalesced(d)) = total /\ Len(Coalesced(c)) = c.total
      /\ SubSeq(Coalesced(d), c.total + 1, total) = bytes
  BY <1>7, ConcatHead DEF OffsetsOK, total
<1>9. /\ Ordered(c.offsets, c.total)
      /\ c.offsets[k + 1] = c.total /\ \A i \in 1..(k + 1) : c.offsets[i] <= c.total
  <2>1. OffsetsOK(c)
    OBVIOUS
  <2> QED
    BY ONLY <1>1, <1>o, <2>1 DEF OffsetsOK, Ordered
<1>10. OffsetsOK(d)
  <2>1. c.total <= total
    BY <1>o, <1>4 DEF total
  <2>2. Ordered(ends, total)
    BY ONLY <1>o, <1>4, <1>9, <2>1, OrderedAppend DEF ends
  <2> QED
    BY <1>6, <1>8, <2>2 DEF OffsetsOK, total
<1>11. ASSUME NEW r \in 1..k PROVE Cell(ty, d, r) = Cell(ty, c, r)
  <2>1. r \in 1..(k + 1) /\ r + 1 \in 1..(k + 1)
    BY <1>1
  <2>2. d.valid[r] = c.valid[r] /\ d.offsets[r] = c.offsets[r] /\ d.offsets[r + 1] = c.offsets[r + 1]
    BY <2>1, <1>3, <1>5, <1>6
  <2>3. c.offsets[r] \in Nat /\ c.offsets[r + 1] \in Nat /\ c.offsets[r + 1] <= c.total
    <3>0. c.offsets \in Seq(Nat) /\ Len(c.offsets) = k + 1
      BY ONLY <1>o
    <3>1. c.offsets[r] \in Nat
      BY ONLY <2>1, <1>1, <3>0
    <3>2. c.offsets[r + 1] \in Nat
      BY ONLY <2>1, <1>1, <3>0
    <3>3. c.offsets[r + 1] <= c.total
      BY ONLY <2>1, <1>9
    <3> QED
      BY ONLY <3>1, <3>2, <3>3
  <2>4. PICK i, j \in Nat : i = c.offsets[r] + 1 /\ j = c.offsets[r + 1] /\ i > 0
                             /\ j <= Len(Coalesced(c)) /\ i \in Nat
    <3>1. c.offsets[r] + 1 > 0 /\ c.offsets[r] + 1 \in Nat /\ c.offsets[r + 1] <= Len(Coalesced(c))
      BY ONLY <2>3, <1>8, SMTT(30)
    <3> QED
      BY <2>3, <3>1
  <2>5. SubSeq(Coalesced(c) \o bytes, i, j) = SubSeq(Coalesced(c), i, j)
    <3>1. bytes \in Seq(Nat)
      OBVIOUS
    <3>2. i \in Nat /\ j \in Nat /\ i > 0 /\ j <= Len(Coalesced(c)) /\ Coalesced(c) \in Seq(Nat)
      BY ONLY <2>4, <1>7
    <3> QED
      BY ONLY <3>1, <3>2, SubSeqFront
  <2>6. SubSeq(Coalesced(d), c.offsets[r] + 1, c.offsets[r + 1])
          = SubSeq(Coalesced(c), c.offsets[r] + 1, c.offsets[r + 1])
    BY <1>7, <2>4, <2>5
  <2> QED
    BY <2>2, <2>6 DEF Cell
<1>12. Cell(ty, d, k + 1) = bytes
  <2>1. /\ d.valid[k + 1] /\ d.offsets[k + 1] = c.total /\ d.offsets[(k + 1) + 1] = total
    <3>1. k + 1 \in 1..(k + 1) /\ (k + 1) + 1 = k + 2
      BY <1>1
    <3> QED
      BY <3>1, <1>3, <1>5, <1>6, <1>9
  <2> QED
    BY <1>8, <2>1 DEF Cell
<1>13. Entries(ty, d) = k + 1
  BY <1>1, <1>5, <1>6 DEF Entries
<1> QED
  BY <1>6, <1>10, <1>11, <1>12, <1>13 DEF Grown, d, bits, ends, total

\* A cell v more in column n, and nothing else.
Stores(b, d, n, v) ==
  /\ BatchOK(d) /\ d.rows = b.rows
  /\ \A m \in Columns : m # n => d.cols[m] = b.cols[m]
  /\ Grown(b.cols[n], d.cols[n], Schema[n], b.rows, v)

\* A column that grew by a cell makes the batch store that cell.
LEMMA PutGrown ==
  ASSUME NEW b, BatchOK(b), NEW n \in Columns, NEW c, NEW v,
         Grown(b.cols[n], c, Schema[n], b.rows, v)
  PROVE  Stores(b, PutColumn(b, n, c), n, v)
<1>1. b \in Batch /\ c \in Column /\ OffsetsOK(c) /\ \A m \in Columns : OffsetsOK(b.cols[m])
  BY DEF BatchOK, Grown
<1>2. /\ PutColumn(b, n, c) \in Batch /\ PutColumn(b, n, c).rows = b.rows /\ PutColumn(b, n, c).cols[n] = c
      /\ \A m \in Columns : m # n => PutColumn(b, n, c).cols[m] = b.cols[m]
  BY <1>1, PutFacts
<1>3. \A m \in Columns : OffsetsOK(PutColumn(b, n, c).cols[m])
  BY <1>1, <1>2
<1> QED
  BY <1>2, <1>3 DEF Stores, BatchOK

\* What is known of one column of a sound batch.
LEMMA BatchFacts ==
  ASSUME NEW b, BatchOK(b), NEW n \in Columns
  PROVE  /\ b \in Batch /\ b.rows \in 0..Capacity /\ b.cols[n] \in Column /\ OffsetsOK(b.cols[n])
BY DEF BatchOK, Batch

\* A push of NULL (push_null) stores Null.
LEMMA PushNullStores ==
  ASSUME NEW b, BatchOK(b), NEW n \in Columns, b.rows < Capacity,
         Entries(Schema[n], b.cols[n]) = b.rows
  PROVE  Stores(b, PushNull(b, n), n, Null)
<1>1. /\ b \in Batch /\ b.cols[n] \in Column /\ OffsetsOK(b.cols[n])
      /\ b.rows \in 0..(Capacity - 1)
  BY BatchFacts, CapacityFact
<1>2. CASE IsVar(Schema[n])
  <2> DEFINE d == [b.cols[n] EXCEPT !.valid = [b.cols[n].valid EXCEPT ![b.rows + 1] = FALSE],
                                    !.offsets = Append(b.cols[n].offsets, b.cols[n].total)]
  <2>1. PushNull(b, n) = PutColumn(b, n, d)
    BY <1>1, <1>2, PushNullPut DEF Marked
  <2>2. Len(b.cols[n].offsets) = b.rows + 1
    BY <1>1, <1>2 DEF Entries, Column
  <2>3. Grown(b.cols[n], d, Schema[n], b.rows, Null)
    BY <1>1, <1>2, <2>2, NullGrown
  <2> QED
    BY <2>1, <2>3, PutGrown
<1>3. CASE ~IsVar(Schema[n])
  <2> DEFINE d == [b.cols[n] EXCEPT !.valid = [b.cols[n].valid EXCEPT ![b.rows + 1] = FALSE],
                                    !.values = Append(b.cols[n].values, 0)]
  <2>1. PushNull(b, n) = PutColumn(b, n, d)
    BY <1>1, <1>3, PushNullPut DEF Marked
  <2>2. Len(b.cols[n].values) = b.rows
    BY <1>3 DEF Entries
  <2>3. Grown(b.cols[n], d, Schema[n], b.rows, Null)
    <3>1. 0 \in Int /\ FALSE \in BOOLEAN /\ ~FALSE
      OBVIOUS
    <3> QED
      BY ONLY <1>1, <1>3, <2>2, <3>1, FixedGrown, Zenon
  <2> QED
    BY <2>1, <2>3, PutGrown
<1> QED
  BY <1>2, <1>3

\* A push of a fixed-size value stores it.
LEMMA PushFixedStores ==
  ASSUME NEW b, BatchOK(b), NEW n \in Columns, b.rows < Capacity, ~IsVar(Schema[n]),
         Entries(Schema[n], b.cols[n]) = b.rows, NEW v \in Int
  PROVE  Stores(b, PushFixed(b, n, v), n, v)
<1>1. /\ b \in Batch /\ b.cols[n] \in Column /\ OffsetsOK(b.cols[n])
      /\ b.rows \in 0..(Capacity - 1)
  BY BatchFacts, CapacityFact
<1> DEFINE d == [b.cols[n] EXCEPT !.valid = [b.cols[n].valid EXCEPT ![b.rows + 1] = TRUE],
                                  !.values = Append(b.cols[n].values, v)]
<1>2. PushFixed(b, n, v) = PutColumn(b, n, d)
  BY <1>1, PushFixedPut DEF Marked
<1>3. Len(b.cols[n].values) = b.rows
  BY DEF Entries
<1>4. Grown(b.cols[n], d, Schema[n], b.rows, v)
  BY <1>1, <1>3, FixedGrown
<1> QED
  BY <1>2, <1>4, PutGrown

\* A push of bytes stores them, wherever data and chunks keep them.
LEMMA ExtendStores ==
  ASSUME NEW b, BatchOK(b), NEW n \in Columns, b.rows < Capacity, IsVar(Schema[n]),
         Entries(Schema[n], b.cols[n]) = b.rows, NEW bytes \in Seq(Nat), ~TooLarge(b, n, bytes),
         NEW data, NEW chunks, data \in Seq(Nat), chunks \in Seq(Seq(Nat)),
         Longer(b.cols[n], bytes, data, chunks)
  PROVE  Stores(b, Extend(b, n, bytes, data, chunks), n, bytes)
<1>1. /\ b \in Batch /\ b.cols[n] \in Column /\ OffsetsOK(b.cols[n])
      /\ b.rows \in 0..(Capacity - 1)
  BY BatchFacts, CapacityFact
<1> DEFINE c == b.cols[n]
           d == [c EXCEPT !.valid = [c.valid EXCEPT ![b.rows + 1] = TRUE],
                          !.total = c.total + Len(bytes),
                          !.offsets = Append(c.offsets, c.total + Len(bytes)),
                          !.data = data, !.chunks = chunks]
<1>2. Extend(b, n, bytes, data, chunks) = PutColumn(b, n, d)
  <2>1. Extended(b, n, bytes, data, chunks) = d
    BY <1>1 DEF Marked, Extended, Column
  <2> QED
    BY <1>1, <2>1, ExtendPut
<1>3. Len(c.offsets) = b.rows + 1
  BY <1>1, SMTT(30) DEF Entries, Column
<1>4. c.total + Len(bytes) <= MaxTotal
  <2>1. c.total \in Nat
    BY <1>1 DEF Column
  <2>2. Len(bytes) \in Nat /\ ~(c.total + Len(bytes) > MaxTotal)
    BY DEF TooLarge
  <2> QED
    BY ONLY <2>1, <2>2, CapacityFact
<1>5. Grown(c, d, Schema[n], b.rows, bytes)
  BY <1>1, <1>3, <1>4, BytesGrown
<1> QED
  BY <1>2, <1>5, PutGrown

\* The buffers of the COPY reader stay inline.
AllInline(b) == \A n \in Columns : b.cols[n].chunks = <<>>

\* The COPY reader's append to the inline bytes stores the bytes.
LEMMA AppendVarStores ==
  ASSUME NEW b, BatchOK(b), AllInline(b), NEW n \in Columns, b.rows < Capacity, IsVar(Schema[n]),
         Entries(Schema[n], b.cols[n]) = b.rows, NEW bytes \in Seq(Nat), ~TooLarge(b, n, bytes)
  PROVE  Stores(b, AppendVar(b, n, bytes), n, bytes)
<1> DEFINE c == b.cols[n]
<1>1. c.data \in Seq(Nat) /\ c.chunks = <<>>
  BY BatchFacts DEF Column, AllInline
<1>2. c.data \o bytes \in Seq(Nat) /\ c.chunks \in Seq(Seq(Nat))
  BY <1>1, ConcatHead
<1>3. Coalesced(c) = c.data
  BY ONLY <1>1, FlattenEmpty, ConcatEmpty DEF Coalesced
<1>4. (c.data \o bytes) \o FlattenSeq(c.chunks) = c.data \o bytes
  <2>1. FlattenSeq(c.chunks) = <<>>
    BY ONLY <1>1, FlattenEmpty, Zenon
  <2>2. (c.data \o bytes) \o <<>> = c.data \o bytes
    BY ONLY <1>2, ConcatEmpty, Zenon
  <2> QED
    BY ONLY <2>1, <2>2
<1>5. Longer(c, bytes, c.data \o bytes, c.chunks)
  BY <1>3, <1>4 DEF Longer
<1> QED
  BY <1>2, <1>5, ExtendStores DEF AppendVar

\* push_var stores the bytes: inline, or after it has moved to chunks.
LEMMA PushVarStores ==
  ASSUME NEW b, BatchOK(b), NEW n \in Columns, b.rows < Capacity, IsVar(Schema[n]),
         Entries(Schema[n], b.cols[n]) = b.rows, NEW bytes \in Seq(Nat), ~TooLarge(b, n, bytes)
  PROVE  Stores(b, PushVar(b, n, bytes), n, bytes)
<1> DEFINE c == b.cols[n]
<1>0. bytes \in Seq(Nat)
  OBVIOUS
<1>1. c.data \in Seq(Nat) /\ c.chunks \in Seq(Seq(Nat))
  BY BatchFacts DEF Column
<1>2. CASE c.chunks = <<>> /\ c.total + Len(bytes) <= InlineLimit
  <2>1. c.data \o bytes \in Seq(Nat) /\ <<>> \in Seq(Seq(Nat))
    BY <1>1, ConcatHead
  <2>2. Coalesced(c) = c.data
    BY ONLY <1>1, <1>2, FlattenEmpty, ConcatEmpty DEF Coalesced
  <2>3. (c.data \o bytes) \o FlattenSeq(<<>>) = c.data \o bytes
    BY ONLY <1>1, <2>1, FlattenEmpty, ConcatEmpty
  <2>4. Longer(c, bytes, c.data \o bytes, <<>>)
    BY <2>2, <2>3 DEF Longer
  <2>5. PushVar(b, n, bytes) = Extend(b, n, bytes, c.data \o bytes, <<>>)
    BY <1>2 DEF PushVar
  <2> QED
    BY <2>1, <2>4, <2>5, ExtendStores
<1>3. CASE ~(c.chunks = <<>> /\ c.total + Len(bytes) <= InlineLimit) /\ c.chunks = <<>> /\ c.data # <<>>
  <2>1. <<>> \in Seq(Nat) /\ <<c.data, bytes>> \in Seq(Seq(Nat)) /\ <<c.data>> \in Seq(Seq(Nat))
        /\ <<c.data, bytes>> = Append(<<c.data>>, bytes)
    BY <1>1
  <2>2. Coalesced(c) = c.data
    BY ONLY <1>1, <1>3, FlattenEmpty, ConcatEmpty DEF Coalesced
  <2>3. FlattenSeq(<<c.data, bytes>>) = c.data \o bytes
    BY ONLY <1>0, <1>1, <2>1, FlattenAppend, FlattenOne
  <2>4. <<>> \o (c.data \o bytes) = c.data \o bytes
    BY ONLY <1>0, <1>1, ConcatHead, ConcatEmpty
  <2>5. Longer(c, bytes, <<>>, <<c.data, bytes>>)
    BY ONLY <2>2, <2>3, <2>4 DEF Longer
  <2>6. PushVar(b, n, bytes) = Extend(b, n, bytes, <<>>, <<c.data, bytes>>)
    BY <1>3 DEF PushVar
  <2> QED
    BY <2>1, <2>5, <2>6, ExtendStores
<1>4. CASE ~(c.chunks = <<>> /\ c.total + Len(bytes) <= InlineLimit) /\ ~(c.chunks = <<>> /\ c.data # <<>>)
  <2>1. Append(c.chunks, bytes) \in Seq(Seq(Nat))
    BY ONLY <1>0, <1>1, AppendProperties
  <2>2. c.data \o FlattenSeq(Append(c.chunks, bytes)) = (c.data \o FlattenSeq(c.chunks)) \o bytes
    <3>1. PICK d, ss : d = c.data /\ ss = c.chunks
      OBVIOUS
    <3>2. d \in Seq(Nat) /\ ss \in Seq(Seq(Nat))
      BY <1>1, <3>1
    <3>3. d \o FlattenSeq(Append(ss, bytes)) = (d \o FlattenSeq(ss)) \o bytes
      BY ONLY <1>0, <3>2, FlattenAfter, SMTT(30)
    <3> QED
      BY <3>1, <3>3
  <2>5. Longer(c, bytes, c.data, Append(c.chunks, bytes))
    BY ONLY <2>2 DEF Longer, Coalesced
  <2>6. PushVar(b, n, bytes) = Extend(b, n, bytes, c.data, Append(c.chunks, bytes))
    BY <1>4 DEF PushVar
  <2> QED
    BY <1>1, <2>1, <2>5, <2>6, ExtendStores
<1> QED
  BY <1>2, <1>3, <1>4

\* Nothing the COPY reader does to a batch makes chunks.
LEMMA StaysInline ==
  ASSUME NEW b, BatchOK(b), AllInline(b), NEW n \in Columns, b.rows < Capacity
  PROVE  /\ AllInline(PushNull(b, n))
         /\ \A v : AllInline(PushFixed(b, n, v)) /\ AllInline(AppendVar(b, n, v))
         /\ \A v \in BOOLEAN : AllInline(SetValidity(b, n, v))
<1>1. b \in Batch
  BY BatchFacts
<1>2. ASSUME NEW c, c.chunks = <<>> PROVE AllInline(PutColumn(b, n, c))
  BY <1>1, <1>2 DEF AllInline, PutColumn, Batch
<1>3. ASSUME NEW v \in BOOLEAN
      PROVE  /\ Marked(b, n, v) \in Column /\ Marked(b, n, v).chunks = <<>>
             /\ SetValidity(b, n, v) = PutColumn(b, n, Marked(b, n, v))
  BY <1>1, SetValidityPut DEF AllInline, Marked, Batch, Column
<1>4. AllInline(PushNull(b, n))
  <2> DEFINE c == [Marked(b, n, FALSE) EXCEPT !.offsets = Append(b.cols[n].offsets, b.cols[n].total)]
             d == [Marked(b, n, FALSE) EXCEPT !.values = Append(b.cols[n].values, 0)]
  <2>1. c.chunks = <<>> /\ d.chunks = <<>>
    BY <1>3 DEF Column
  <2>2. PushNull(b, n) = IF IsVar(Schema[n]) THEN PutColumn(b, n, c) ELSE PutColumn(b, n, d)
    BY <1>1, PushNullPut
  <2> HIDE DEF c, d
  <2> QED
    BY <1>2, <2>1, <2>2
<1>5. ASSUME NEW v PROVE AllInline(PushFixed(b, n, v))
  <2> DEFINE d == [Marked(b, n, TRUE) EXCEPT !.values = Append(b.cols[n].values, v)]
  <2>1. d.chunks = <<>>
    BY <1>3 DEF Column
  <2>2. PushFixed(b, n, v) = PutColumn(b, n, d)
    BY <1>1, PushFixedPut
  <2> HIDE DEF d
  <2> QED
    BY <1>2, <2>1, <2>2
<1>6. ASSUME NEW v PROVE AllInline(AppendVar(b, n, v))
  <2> DEFINE d == Extended(b, n, v, b.cols[n].data \o v, b.cols[n].chunks)
  <2>1. d.chunks = <<>>
    BY <1>3 DEF Extended, Column, AllInline
  <2>2. AppendVar(b, n, v) = PutColumn(b, n, d)
    BY <1>1, ExtendPut DEF AppendVar
  <2> HIDE DEF d
  <2> QED
    BY <1>2, <2>1, <2>2
<1> QED
  BY <1>2, <1>3, <1>4, <1>5, <1>6

\* A bit of validity that is set before the value is checked.
LEMMA SetValidityKeeps ==
  ASSUME NEW b, BatchOK(b), NEW n \in Columns, b.rows < Capacity, NEW v \in BOOLEAN
  PROVE  LET d == SetValidity(b, n, v) IN
         /\ BatchOK(d) /\ d.rows = b.rows
         /\ \A m \in Columns : m # n => d.cols[m] = b.cols[m]
         /\ Entries(Schema[n], d.cols[n]) = Entries(Schema[n], b.cols[n])
         /\ \A r \in 1..b.rows : Cell(Schema[n], d.cols[n], r) = Cell(Schema[n], b.cols[n], r)
<1>1. b \in Batch /\ b.cols[n] \in Column /\ OffsetsOK(b.cols[n]) /\ b.rows \in 0..(Capacity - 1)
  BY BatchFacts, CapacityFact
<1> DEFINE c == Marked(b, n, v)
<1>2. SetValidity(b, n, v) = PutColumn(b, n, c) /\ c \in Column
  BY <1>1, SetValidityPut
<1>3. /\ c.values = b.cols[n].values /\ c.offsets = b.cols[n].offsets /\ c.data = b.cols[n].data
      /\ c.chunks = b.cols[n].chunks /\ c.total = b.cols[n].total
      /\ c.valid = [b.cols[n].valid EXCEPT ![b.rows + 1] = v]
  BY <1>1 DEF Marked, Column
<1>4. b.cols[n].valid \in [1..Capacity -> BOOLEAN]
  BY <1>1 DEF Column
<1>5. \A r \in 1..b.rows : c.valid[r] = b.cols[n].valid[r]
  BY <1>1, <1>3, <1>4, BitSet
<1> HIDE DEF c
<1>6. OffsetsOK(c)
  BY <1>1, <1>3 DEF OffsetsOK, Coalesced
<1>7. /\ PutColumn(b, n, c) \in Batch /\ PutColumn(b, n, c).rows = b.rows /\ PutColumn(b, n, c).cols[n] = c
      /\ \A m \in Columns : m # n => PutColumn(b, n, c).cols[m] = b.cols[m]
  BY <1>1, <1>2, PutFacts
<1>8. \A m \in Columns : OffsetsOK(PutColumn(b, n, c).cols[m])
  BY <1>6, <1>7 DEF BatchOK
<1>9. Entries(Schema[n], c) = Entries(Schema[n], b.cols[n])
  BY <1>3 DEF Entries
<1>10. \A r \in 1..b.rows : Cell(Schema[n], c, r) = Cell(Schema[n], b.cols[n], r)
  BY <1>3, <1>5 DEF Cell, Coalesced
<1> QED
  BY <1>2, <1>7, <1>8, <1>9, <1>10 DEF BatchOK

-----------------------------------------------------------------------------
(* Rows under way: the columns before k have a cell more than the others. *)

Ragged(b, k) ==
  \A n \in Columns : Entries(Schema[n], b.cols[n]) = b.rows + (IF n < k THEN 1 ELSE 0)

\* The column a cell goes to has no cell of the row under way.
LEMMA RaggedHere ==
  ASSUME NEW b, BatchOK(b), NEW k \in Columns, Ragged(b, k)
  PROVE  Entries(Schema[k], b.cols[k]) = b.rows
<1>1. b.rows \in Nat /\ k \in Nat
  BY BatchFacts, CapacityFact, BatchAssumption DEF Columns
<1> QED
  BY <1>1 DEF Ragged

\* A cell in its column moves the edge of the row on; the last one ends the row.
LEMMA StoresRagged ==
  ASSUME NEW b, BatchOK(b), NEW k \in Columns, Ragged(b, k), NEW d, NEW v, Stores(b, d, k, v)
  PROVE  /\ k < Len(Schema) => Ragged(d, k + 1)
         /\ ~(k < Len(Schema)) => Ragged(EndRow(d), 1)
<1>1. b.rows \in Nat /\ d \in Batch /\ d.rows = b.rows
  BY BatchFacts, CapacityFact DEF Stores, BatchOK
<1>2. ASSUME NEW n \in Columns
      PROVE  Entries(Schema[n], d.cols[n]) = b.rows + (IF n <= k THEN 1 ELSE 0)
  <2>1. CASE n = k
    BY <1>1, <2>1 DEF Stores, Grown, Columns
  <2>2. CASE n # k
    <3>1. d.cols[n] = b.cols[n]
      BY <2>2 DEF Stores
    <3>2. Entries(Schema[n], b.cols[n]) = b.rows + (IF n < k THEN 1 ELSE 0)
      BY DEF Ragged
    <3>3. n < k <=> n <= k
      BY <2>2 DEF Columns
    <3> QED
      BY <3>1, <3>2, <3>3
  <2> QED
    BY <2>1, <2>2
<1>3. ASSUME k < Len(Schema) PROVE Ragged(d, k + 1)
  <2>1. \A n \in Columns : n <= k <=> n < k + 1
    BY DEF Columns
  <2> QED
    BY <1>1, <1>2, <2>1 DEF Ragged
<1>4. ASSUME ~(k < Len(Schema)) PROVE Ragged(EndRow(d), 1)
  <2>1. \A n \in Columns : n <= k /\ ~(n < 1)
    BY <1>4, BatchAssumption DEF Columns
  <2>2. EndRow(d).rows = b.rows + 1 /\ EndRow(d).cols = d.cols
    BY <1>1 DEF EndRow, Batch
  <2> QED
    BY <1>1, <1>2, <2>1, <2>2 DEF Ragged
<1> QED
  BY <1>3, <1>4

\* A row is counted.
LEMMA EndRowOK ==
  ASSUME NEW b, BatchOK(b), b.rows < Capacity
  PROVE  BatchOK(EndRow(b)) /\ EndRow(b).rows = b.rows + 1 /\ EndRow(b).cols = b.cols
<1>1. b \in Batch
  BY DEF BatchOK
<1>2. EndRow(b) \in Batch /\ EndRow(b).rows = b.rows + 1 /\ EndRow(b).cols = b.cols
  BY <1>1, CapacityFact DEF EndRow, Batch
<1> QED
  BY <1>2 DEF BatchOK

\* A new batch, and what begin_batch makes of any, is sound and empty.
LEMMA NewBatchOK ==
  /\ BatchOK(NewBatch) /\ Ragged(NewBatch, 1) /\ AllInline(NewBatch) /\ NewBatch.rows = 0
  /\ \A b \in Batch : Prepare(b) = NewBatch
<1>1. EmptyColumn \in Column /\ OffsetsOK(EmptyColumn) /\ EmptyColumn.chunks = <<>>
  <2>1. EmptyColumn \in Column
    BY CapacityFact DEF EmptyColumn, Column
  <2>2. Coalesced(EmptyColumn) = <<>>
    BY FlattenEmpty DEF Coalesced, EmptyColumn
  <2>3. Ordered(<<0>>, 0)
    BY DEF Ordered
  <2>4. OffsetsOK(EmptyColumn)
    BY <2>2, <2>3, CapacityFact DEF OffsetsOK, EmptyColumn
  <2> QED
    BY <2>1, <2>4 DEF EmptyColumn
<1>2. \A ty : Entries(ty, EmptyColumn) = 0
  BY DEF Entries, EmptyColumn
<1>3. NewBatch.rows = 0 /\ \A n \in Columns : NewBatch.cols[n] = EmptyColumn
  BY DEF NewBatch
<1>4. NewBatch \in Batch
  BY <1>1, CapacityFact DEF NewBatch, Batch
<1>5. \A n \in Columns : ~(n < 1)
  BY DEF Columns
<1>6. Ragged(NewBatch, 1)
  BY <1>2, <1>3, <1>5 DEF Ragged
<1>7. ASSUME NEW b \in Batch PROVE Prepare(b) = NewBatch
  <2>1. b \in [rows : 0..Capacity, cols : [Columns -> Column]]
    BY DEF Batch
  <2>2. PICK f : f = [n \in Columns |-> EmptyColumn]
    OBVIOUS
  <2>3. [b EXCEPT !.rows = 0, !.cols = f] \in [rows : {0}, cols : {f}]
    BY <2>1
  <2>4. \A x \in [rows : {0}, cols : {f}] : x = [rows |-> 0, cols |-> f]
    OBVIOUS
  <2> QED
    BY ONLY <2>2, <2>3, <2>4 DEF Prepare, NewBatch
<1> QED
  BY <1>1, <1>3, <1>4, <1>6, <1>7 DEF BatchOK, AllInline
=============================================================================
