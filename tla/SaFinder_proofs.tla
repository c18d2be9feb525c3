---------------------------- MODULE SaFinder_proofs ----------------------------
(***************************************************************************)
(* The suffix-array finder and the two parsers that use it, levels 3 and   *)
(* 4, for every input, window, block and word size and whatever an earlier *)
(* call left in the buffers.  The argument goes from the three bitset      *)
(* levels (a plain set of ranks) over the window that slides over them     *)
(* (the ranks of the positions at a distance a token can hold) and the     *)
(* order of the suffixes (the longest match is with a neighbor) to the     *)
(* matches that are found and carried, and to what the parsers emit.       *)
(***************************************************************************)
EXTENDS OptimalParse, HeavyParse, ParseFormat_proofs, SequenceTheorems

(* A set of naturals that are not above n. *)
UpTo(S, n) == S \subseteq Nat /\ \A x \in S : x <= n

LEMMA SetMax ==
  ASSUME NEW S, NEW n \in Nat, UpTo(S, n), S # {}
  PROVE  Max(S) \in S /\ \A x \in S : x <= Max(S)
<1>1. S \subseteq Int /\ n \in Int /\ \A x \in S : x <= n
  BY DEF UpTo
<1>2. QED
  BY <1>1, MaxBound

LEMMA SetMin ==
  ASSUME NEW S, S \subseteq Nat, S # {}
  PROVE  Min(S) \in S /\ \A x \in S : Min(S) <= x
<1>1. S \subseteq Int /\ 0 \in Int /\ \A x \in S : 0 <= x
  OBVIOUS
<1>2. QED
  BY <1>1, MinBound, Zenon

(* The word of a bit, and the order of the words. *)
LEMMA WordIndex ==
  ASSUME NEW x \in Nat
  PROVE  x \div Word \in Nat /\ x \div Word <= x
<1>1. Word \in Nat \ {0}
  BY WordAssumption
<1>2. x \div Word \in Nat
  BY <1>1
<1>3. x \div Word <= x
  BY <1>1, <1>2
<1>4. QED
  BY <1>2, <1>3

LEMMA WordOrder ==
  ASSUME NEW x \in Nat, NEW y \in Nat, x <= y
  PROVE  x \div Word <= y \div Word
<1>1. Word \in Nat \ {0}
  BY WordAssumption
<1> DEFINE a == x \div Word
           b == y \div Word
<1>2. /\ a \in Nat /\ b \in Nat
      /\ Word * a <= x /\ x < Word * a + Word
      /\ Word * b <= y /\ y < Word * b + Word
  BY <1>1
<1> HIDE DEF a, b
<1>3. SUFFICES ASSUME b < a PROVE FALSE
  BY <1>2 DEF a, b
<1>4. b + 1 <= a
  BY <1>2, <1>3
<1>5. Word * (b + 1) <= Word * a
  BY <1>1, <1>2, <1>4
<1>6. Word * (b + 1) = Word * b + Word
  BY <1>1, <1>2
<1>7. Word * a \in Nat /\ Word * b \in Nat
  BY <1>1, <1>2
<1>8. QED
  BY <1>1, <1>2, <1>5, <1>6, <1>7

----------------------------------------------------------------------------
(* LiveSet: three levels of bits that are one set of ranks. *)
Sound(s) ==
  /\ s.l0 \subseteq Nat
  /\ Consistent(s)

LEMMA Levels ==
  ASSUME NEW s, Sound(s)
  PROVE  /\ s.l0 \subseteq Nat /\ s.l1 \subseteq Nat /\ s.l2 \subseteq Nat
         /\ \A w : w \in s.l1 <=> \E i \in s.l0 : i \div Word = w
         /\ \A w : w \in s.l2 <=> \E i \in s.l1 : i \div Word = w
<1>1. s.l0 \subseteq Nat /\ s.l1 = Summary(s.l0) /\ s.l2 = Summary(s.l1)
  BY DEF Sound, Consistent
<1>2. /\ \A w : w \in s.l1 <=> \E i \in s.l0 : i \div Word = w
      /\ \A w : w \in s.l2 <=> \E i \in s.l1 : i \div Word = w
  BY <1>1 DEF Summary
<1>3. s.l1 \subseteq Nat
  BY <1>1, <1>2, WordIndex
<1>4. s.l2 \subseteq Nat
  BY <1>2, <1>3, WordIndex
<1>5. QED
  BY <1>1, <1>2, <1>3, <1>4

LEMMA BuildSound ==
  ASSUME NEW sarray, DOMAIN sarray \subseteq Nat, NEW end
  PROVE  /\ Sound(Build(sarray, end))
         /\ Build(sarray, end).l0 = {r \in DOMAIN sarray : sarray[r] < end}
BY DEF Build, LiveSet, Sound, Consistent

(* set adds a rank, and stops early only where the summaries have it.      *)
LEMMA InsertSound ==
  ASSUME NEW s, Sound(s), NEW r \in Nat
  PROVE  Sound(Insert(s, r)) /\ Insert(s, r).l0 = s.l0 \cup {r}
<1> DEFINE w0 == r \div Word
           w1 == w0 \div Word
           t == Insert(s, r)
<1>1. /\ s.l0 \subseteq Nat
      /\ \A w : w \in s.l1 <=> \E i \in s.l0 : i \div Word = w
      /\ \A w : w \in s.l2 <=> \E i \in s.l1 : i \div Word = w
  BY Levels
<1>2. /\ t.l0 = s.l0 \cup {r}
      /\ t.l1 = IF WordOf(s.l0, r) # {} THEN s.l1 ELSE s.l1 \cup {w0}
      /\ t.l2 = IF WordOf(s.l0, r) # {} \/ WordOf(s.l1, w0) # {} THEN s.l2
                ELSE s.l2 \cup {w1}
  BY DEF Insert, LiveSet
<1>3. /\ WordOf(s.l0, r) # {} <=> \E i \in s.l0 : i \div Word = w0
      /\ WordOf(s.l1, w0) # {} <=> \E i \in s.l1 : i \div Word = w1
  BY DEF WordOf
<1> HIDE DEF t
<1>4. t.l1 = s.l1 \cup {w0}
  BY <1>1, <1>2, <1>3
<1>5. t.l2 = s.l2 \cup {w1}
  BY <1>1, <1>2, <1>3
<1>6. t.l1 = {i \div Word : i \in t.l0}
  <2>1. \A w : w \in t.l1 <=> \E i \in t.l0 : i \div Word = w
    BY <1>1, <1>2, <1>4
  <2>2. QED
    BY <2>1
<1>7. t.l2 = {i \div Word : i \in t.l1}
  <2>1. \A w : w \in t.l2 <=> \E i \in t.l1 : i \div Word = w
    BY <1>1, <1>4, <1>5
  <2>2. QED
    BY <2>1
<1>8. QED
  BY <1>1, <1>2, <1>6, <1>7 DEF Sound, Consistent, Summary, t

(* clear removes one, and a summary bit only with the last of its word.    *)
LEMMA RemoveSound ==
  ASSUME NEW s, Sound(s), NEW r \in Nat
  PROVE  Sound(Remove(s, r)) /\ Remove(s, r).l0 = s.l0 \ {r}
<1> DEFINE w0 == r \div Word
           w1 == w0 \div Word
           t == Remove(s, r)
<1>1. /\ s.l0 \subseteq Nat
      /\ \A w : w \in s.l1 <=> \E i \in s.l0 : i \div Word = w
      /\ \A w : w \in s.l2 <=> \E i \in s.l1 : i \div Word = w
  BY Levels
<1>2. /\ t.l0 = s.l0 \ {r}
      /\ t.l1 = IF WordOf(t.l0, r) # {} THEN s.l1 ELSE s.l1 \ {w0}
      /\ t.l2 = IF WordOf(t.l0, r) # {} \/ WordOf(t.l1, w0) # {} THEN s.l2
                ELSE s.l2 \ {w1}
  BY DEF Remove, LiveSet
<1>3. /\ WordOf(t.l0, r) # {} <=> \E i \in t.l0 : i \div Word = w0
      /\ WordOf(t.l1, w0) # {} <=> \E i \in t.l1 : i \div Word = w1
  BY DEF WordOf
<1> HIDE DEF t
<1>4. \A w : w \in t.l1 <=> \E i \in t.l0 : i \div Word = w
  <2>1. \A i : i \in t.l0 <=> i \in s.l0 /\ i # r
    BY <1>2
  <2> HIDE DEF w0, w1
  <2>2. CASE \E i \in t.l0 : i \div Word = w0
    <3>1. t.l1 = s.l1
      BY <1>2, <1>3, <2>2
    <3>2. ASSUME NEW w PROVE w \in t.l1 <=> \E i \in t.l0 : i \div Word = w
      BY <1>1, <2>1, <2>2, <3>1, Zenon DEF w0
    <3>3. QED
      BY <3>2
  <2>3. CASE ~ \E i \in t.l0 : i \div Word = w0
    <3>1. t.l1 = s.l1 \ {w0}
      BY <1>2, <1>3, <2>3
    <3>2. ASSUME NEW w PROVE w \in t.l1 <=> \E i \in t.l0 : i \div Word = w
      BY <1>1, <2>1, <2>3, <3>1, Zenon DEF w0
    <3>3. QED
      BY <3>2
  <2>4. QED
    BY <2>2, <2>3
<1>5. \A w : w \in t.l2 <=> \E i \in t.l1 : i \div Word = w
  <2> HIDE DEF w1
  <2>1. CASE WordOf(t.l0, r) # {}
    <3>1. t.l1 = s.l1 /\ t.l2 = s.l2
      BY <1>2, <2>1
    <3>2. QED
      BY <1>1, <3>1, Zenon
  <2>2. CASE WordOf(t.l0, r) = {} /\ \E i \in t.l1 : i \div Word = w1
    <3>1. t.l1 = s.l1 \ {w0} /\ t.l2 = s.l2
      BY <1>2, <1>3, <2>2
    <3>2. ASSUME NEW w PROVE w \in t.l2 <=> \E i \in t.l1 : i \div Word = w
      BY <1>1, <2>2, <3>1, Zenon DEF w1
    <3>3. QED
      BY <3>2
  <2>3. CASE WordOf(t.l0, r) = {} /\ ~ \E i \in t.l1 : i \div Word = w1
    <3>1. t.l1 = s.l1 \ {w0} /\ t.l2 = s.l2 \ {w1}
      BY <1>2, <1>3, <2>3
    <3>2. ASSUME NEW w PROVE w \in t.l2 <=> \E i \in t.l1 : i \div Word = w
      BY <1>1, <2>3, <3>1, Zenon DEF w1
    <3>3. QED
      BY <3>2
  <2>4. QED
    BY <2>1, <2>2, <2>3
<1>6. t.l1 = {i \div Word : i \in t.l0} /\ t.l2 = {i \div Word : i \in t.l1}
  BY <1>4, <1>5
<1>7. QED
  BY <1>1, <1>2, <1>6 DEF Sound, Consistent, Summary, t

(* prev: the highest rank of the set below a rank, if there is one.        *)
LEMMA BelowIsHighest ==
  ASSUME NEW s, Sound(s), NEW n \in Nat, UpTo(s.l0, n), NEW r \in Nat
  PROVE  \/ /\ Below(s, r) = NoRank
            /\ \A i \in s.l0 : i >= r
         \/ /\ Below(s, r) \in s.l0 /\ Below(s, r) < r
            /\ \A i \in s.l0 : i < r => i <= Below(s, r)
<1> DEFINE w0 == r \div Word
           w1 == w0 \div Word
           below0 == {i \in WordOf(s.l0, r) : i < r}
           below1 == {w \in WordOf(s.l1, w0) : w < w0}
           below2 == {w \in s.l2 : w < w1}
<1>1. /\ s.l0 \subseteq Nat /\ s.l1 \subseteq Nat /\ s.l2 \subseteq Nat
      /\ \A w : w \in s.l1 <=> \E i \in s.l0 : i \div Word = w
      /\ \A w : w \in s.l2 <=> \E i \in s.l1 : i \div Word = w
  BY Levels
<1>2. w0 \in Nat /\ w1 \in Nat
  BY WordIndex
<1>3. /\ below0 = {i \in s.l0 : i \div Word = w0 /\ i < r}
      /\ below1 = {w \in s.l1 : w \div Word = w1 /\ w < w0}
  BY DEF WordOf
<1>4. UpTo(s.l1, n) /\ UpTo(s.l2, n)
  <2>1. \A i \in s.l0 : i <= n
    BY DEF UpTo
  <2>2. \A w \in s.l1 : w <= n
    <3>1. SUFFICES ASSUME NEW w \in s.l1 PROVE w <= n
      OBVIOUS
    <3>2. PICK i \in s.l0 : i \div Word = w
      BY <1>1
    <3>3. i \in Nat /\ w <= i
      BY <1>1, <3>2, WordIndex
    <3>4. QED
      BY <1>1, <2>1, <3>3
  <2>3. \A w \in s.l2 : w <= n
    <3>1. SUFFICES ASSUME NEW w \in s.l2 PROVE w <= n
      OBVIOUS
    <3>2. PICK i \in s.l1 : i \div Word = w
      BY <1>1
    <3>3. i \in Nat /\ w <= i
      BY <1>1, <3>2, WordIndex
    <3>4. QED
      BY <1>1, <2>2, <3>3
  <2>4. QED
    BY <1>1, <2>2, <2>3 DEF UpTo
\* The highest bit of the highest word below.
<1>5. ASSUME NEW w \in s.l1
      PROVE  /\ Max(Bits(s.l0, w)) \in s.l0 /\ Max(Bits(s.l0, w)) \div Word = w
             /\ \A i \in s.l0 : i \div Word = w => i <= Max(Bits(s.l0, w))
  <2>1. Bits(s.l0, w) = {i \in s.l0 : i \div Word = w}
    BY DEF Bits
  <2>2. UpTo(Bits(s.l0, w), n) /\ Bits(s.l0, w) # {}
    BY <1>1, <2>1 DEF UpTo
  <2>3. Max(Bits(s.l0, w)) \in Bits(s.l0, w) /\ \A x \in Bits(s.l0, w) : x <= Max(Bits(s.l0, w))
    BY <2>2, SetMax
  <2>4. QED
    BY <2>1, <2>3
<1>6. ASSUME NEW w \in s.l2
      PROVE  /\ Max(Bits(s.l1, w)) \in s.l1 /\ Max(Bits(s.l1, w)) \div Word = w
             /\ \A i \in s.l1 : i \div Word = w => i <= Max(Bits(s.l1, w))
  <2>1. Bits(s.l1, w) = {i \in s.l1 : i \div Word = w}
    BY DEF Bits
  <2>2. UpTo(Bits(s.l1, w), n) /\ Bits(s.l1, w) # {}
    BY <1>1, <1>4, <2>1 DEF UpTo
  <2>3. Max(Bits(s.l1, w)) \in Bits(s.l1, w) /\ \A x \in Bits(s.l1, w) : x <= Max(Bits(s.l1, w))
    BY <2>2, SetMax
  <2>4. QED
    BY <2>1, <2>3
<1>7. ASSUME NEW S, S \in {below0, below1, below2}, S # {}
      PROVE  Max(S) \in S /\ \A x \in S : x <= Max(S)
  <2>1. S \subseteq s.l0 \/ S \subseteq s.l1 \/ S \subseteq s.l2
    BY <1>3, <1>7
  <2>2. UpTo(S, n)
    BY <1>4, <2>1 DEF UpTo
  <2>3. QED
    BY <1>7, <2>2, SetMax
\* Where a member below r can be.
<1>8. ASSUME NEW i \in s.l0, i < r
      PROVE  /\ i \div Word \in s.l1
             /\ \/ i \in below0
                \/ i \div Word \in below1
                \/ (i \div Word) \div Word \in below2
  <2> DEFINE v0 == i \div Word
             v1 == v0 \div Word
  <2>1. i \in Nat /\ v0 \in Nat /\ v1 \in Nat
    BY <1>1, WordIndex
  <2>2. v0 <= w0
    BY <1>8, <2>1, WordOrder
  <2>3. v1 <= w1
    BY <1>2, <2>1, <2>2, WordOrder
  <2>4. v0 \in s.l1 /\ v1 \in s.l2
    BY <1>1
  <2> HIDE DEF v0, v1, below0, below1, below2
  <2>5. CASE v0 = w0
    <3>1. i \in below0
      BY <1>3, <1>8, <2>5, Zenon DEF v0
    <3>2. QED
      BY <3>1, <2>4 DEF v0
  <2>6. CASE v0 # w0 /\ v1 = w1
    BY <1>2, <1>3, <2>1, <2>2, <2>4, <2>6 DEF v0, v1
  <2>7. CASE v1 # w1
    BY <1>2, <2>1, <2>3, <2>4, <2>7 DEF v0, v1, below2
  <2>8. QED
    BY <2>4, <2>5, <2>6, <2>7 DEF v0, v1
<1> HIDE DEF below0, below1, below2
<1>9. CASE below0 # {}
  <2> DEFINE m == Max(below0)
  <2>1. Below(s, r) = m
    BY <1>9, Zenon DEF Below, below0
  <2>2. m \in below0 /\ \A x \in below0 : x <= m
    BY <1>7, <1>9
  <2> HIDE DEF m
  <2>3. m \in s.l0 /\ m < r /\ m \div Word = w0
    BY <1>3, <2>2
  <2>4. ASSUME NEW i \in s.l0, i < r PROVE i <= m
    <3>1. CASE i \in below0
      BY <2>2, <3>1
    <3>2. CASE i \notin below0
      <4>1. i \div Word # w0
        BY <1>3, <2>4, <3>2
      <4>2. i \in Nat /\ m \in Nat
        BY <1>1, <2>3
      <4>3. CASE m < i
        <5>1. w0 <= i \div Word /\ i \div Word <= w0
          BY <2>3, <2>4, <4>2, <4>3, WordOrder
        <5>2. i \div Word \in Nat
          BY <4>2, WordIndex
        <5>3. QED
          BY <1>2, <4>1, <5>1, <5>2
      <4>4. QED
        BY <4>2, <4>3
    <3>3. QED
      BY <3>1, <3>2
  <2>5. QED
    BY <2>1, <2>3, <2>4
<1>10. CASE below0 = {} /\ below1 # {}
  <2> DEFINE w == Max(below1)
             m == Max(Bits(s.l0, w))
  <2>1. Below(s, r) = m
    BY <1>10, Zenon DEF Below, below0, below1
  <2>2. w \in below1 /\ \A x \in below1 : x <= w
    BY <1>7, <1>10
  <2>3. w \in s.l1 /\ w < w0 /\ w \div Word = w1
    BY <1>3, <2>2
  <2>4. /\ m \in s.l0 /\ m \div Word = w
        /\ \A i \in s.l0 : i \div Word = w => i <= m
    BY <1>5, <2>3
  <2> HIDE DEF m, w
  <2>5. m \in Nat /\ w \in Nat
    BY <1>1, <2>3, <2>4
  <2>6. m < r
    <3>1. CASE r <= m
      <4>1. w0 <= w
        BY <2>4, <2>5, <3>1, WordOrder
      <4>2. QED
        BY <1>2, <2>3, <2>5, <4>1
    <3>2. QED
      BY <2>5, <3>1
  <2>7. ASSUME NEW i \in s.l0, i < r PROVE i <= m
    <3> DEFINE v0 == i \div Word
               v1 == v0 \div Word
    <3>1. i \in Nat /\ v0 \in Nat /\ v1 \in Nat
      BY <1>1, WordIndex
    <3>2. v0 \in below1 \/ v1 \in below2
      BY <1>8, <1>10, <2>7
    <3>3. v0 <= w
      <4>1. CASE v0 \in below1
        BY <2>2, <4>1
      <4>2. CASE v1 \in below2
        <5>1. v1 < w1
          BY <4>2 DEF below2
        <5>2. CASE w <= v0
          <6>1. w1 <= v1
            BY <2>3, <2>5, <3>1, <5>2, WordOrder
          <6>2. QED
            BY <1>2, <3>1, <5>1, <6>1
        <5>3. QED
          BY <2>5, <3>1, <5>2
      <4>3. QED
        BY <3>2, <4>1, <4>2
    <3>4. CASE v0 = w
      BY <2>4, <2>7, <3>4
    <3>5. CASE v0 < w
      <4>1. CASE m <= i
        <5>1. w <= v0
          BY <2>4, <2>5, <3>1, <4>1, WordOrder
        <5>2. QED
          BY <2>5, <3>1, <3>5, <5>1
      <4>2. QED
        BY <2>5, <3>1, <4>1
    <3>6. QED
      BY <2>5, <3>1, <3>3, <3>4, <3>5
  <2>8. QED
    BY <2>1, <2>4, <2>6, <2>7
<1>11. CASE below0 = {} /\ below1 = {} /\ below2 # {}
  <2> DEFINE u == Max(below2)
             w == Max(Bits(s.l1, u))
             m == Max(Bits(s.l0, w))
  <2>1. Below(s, r) = m
    BY <1>11, Zenon DEF Below, below0, below1, below2
  <2>2. u \in below2 /\ \A x \in below2 : x <= u
    BY <1>7, <1>11
  <2>3. u \in s.l2 /\ u < w1
    BY <2>2 DEF below2
  <2>4. /\ w \in s.l1 /\ w \div Word = u
        /\ \A i \in s.l1 : i \div Word = u => i <= w
    BY <1>6, <2>3
  <2>5. /\ m \in s.l0 /\ m \div Word = w
        /\ \A i \in s.l0 : i \div Word = w => i <= m
    BY <1>5, <2>4
  <2> HIDE DEF m, w, u
  <2>6. m \in Nat /\ w \in Nat /\ u \in Nat
    BY <1>1, <2>3, <2>4, <2>5
  <2>7. m < r
    <3>1. CASE r <= m
      <4>1. w0 <= w
        BY <2>5, <2>6, <3>1, WordOrder
      <4>2. w1 <= u
        BY <1>2, <2>4, <2>6, <4>1, WordOrder
      <4>3. QED
        BY <1>2, <2>3, <2>6, <4>2
    <3>2. QED
      BY <2>6, <3>1
  <2>8. ASSUME NEW i \in s.l0, i < r PROVE i <= m
    <3> DEFINE v0 == i \div Word
               v1 == v0 \div Word
    <3>1. i \in Nat /\ v0 \in Nat /\ v1 \in Nat
      BY <1>1, WordIndex
    <3>2. v0 \in s.l1 /\ v1 \in below2
      BY <1>8, <1>11, <2>8
    <3>3. v1 <= u
      BY <2>2, <3>2
    <3>4. v0 <= w
      <4>1. CASE v1 = u
        BY <2>4, <3>2, <4>1
      <4>2. CASE v1 < u
        <5>1. CASE w <= v0
          <6>1. u <= v1
            BY <2>4, <2>6, <3>1, <5>1, WordOrder
          <6>2. QED
            BY <2>6, <3>1, <4>2, <6>1
        <5>2. QED
          BY <2>6, <3>1, <5>1
      <4>3. QED
        BY <2>6, <3>1, <3>3, <4>1, <4>2
    <3>5. CASE v0 = w
      BY <2>5, <2>8, <3>5
    <3>6. CASE v0 < w
      <4>1. CASE m <= i
        <5>1. w <= v0
          BY <2>5, <2>6, <3>1, <4>1, WordOrder
        <5>2. QED
          BY <2>6, <3>1, <3>6, <5>1
      <4>2. QED
        BY <2>6, <3>1, <4>1
    <3>7. QED
      BY <2>6, <3>1, <3>4, <3>5, <3>6
  <2>9. QED
    BY <2>1, <2>5, <2>7, <2>8
<1>12. CASE below0 = {} /\ below1 = {} /\ below2 = {}
  <2>1. Below(s, r) = NoRank
    BY <1>12, Zenon DEF Below, below0, below1, below2
  <2>2. \A i \in s.l0 : i >= r
    BY <1>1, <1>8, <1>12
  <2>3. QED
    BY <2>1, <2>2
<1>13. QED
  BY <1>9, <1>10, <1>11, <1>12

(* next: the lowest rank of the set above a rank, if there is one.         *)
LEMMA AboveIsLowest ==
  ASSUME NEW s, Sound(s), NEW r \in Nat
  PROVE  \/ /\ Above(s, r) = NoRank
            /\ \A i \in s.l0 : i <= r
         \/ /\ Above(s, r) \in s.l0 /\ Above(s, r) > r
            /\ \A i \in s.l0 : i > r => Above(s, r) <= i
<1> DEFINE w0 == r \div Word
           w1 == w0 \div Word
           above0 == {i \in WordOf(s.l0, r) : i > r}
           above1 == {w \in WordOf(s.l1, w0) : w > w0}
           above2 == {w \in s.l2 : w > w1}
<1>1. /\ s.l0 \subseteq Nat /\ s.l1 \subseteq Nat /\ s.l2 \subseteq Nat
      /\ \A w : w \in s.l1 <=> \E i \in s.l0 : i \div Word = w
      /\ \A w : w \in s.l2 <=> \E i \in s.l1 : i \div Word = w
  BY Levels
<1>2. w0 \in Nat /\ w1 \in Nat
  BY WordIndex
<1>3. /\ above0 = {i \in s.l0 : i \div Word = w0 /\ i > r}
      /\ above1 = {w \in s.l1 : w \div Word = w1 /\ w > w0}
  BY DEF WordOf
\* The lowest bit of the lowest word above.
<1>4. ASSUME NEW w \in s.l1
      PROVE  /\ Min(Bits(s.l0, w)) \in s.l0 /\ Min(Bits(s.l0, w)) \div Word = w
             /\ \A i \in s.l0 : i \div Word = w => Min(Bits(s.l0, w)) <= i
  <2>1. Bits(s.l0, w) = {i \in s.l0 : i \div Word = w}
    BY DEF Bits
  <2>2. Bits(s.l0, w) \subseteq Nat /\ Bits(s.l0, w) # {}
    BY <1>1, <2>1
  <2>3. Min(Bits(s.l0, w)) \in Bits(s.l0, w) /\ \A x \in Bits(s.l0, w) : Min(Bits(s.l0, w)) <= x
    BY <2>2, SetMin
  <2>4. QED
    BY <2>1, <2>3
<1>5. ASSUME NEW w \in s.l2
      PROVE  /\ Min(Bits(s.l1, w)) \in s.l1 /\ Min(Bits(s.l1, w)) \div Word = w
             /\ \A i \in s.l1 : i \div Word = w => Min(Bits(s.l1, w)) <= i
  <2>1. Bits(s.l1, w) = {i \in s.l1 : i \div Word = w}
    BY DEF Bits
  <2>2. Bits(s.l1, w) \subseteq Nat /\ Bits(s.l1, w) # {}
    BY <1>1, <2>1
  <2>3. Min(Bits(s.l1, w)) \in Bits(s.l1, w) /\ \A x \in Bits(s.l1, w) : Min(Bits(s.l1, w)) <= x
    BY <2>2, SetMin
  <2>4. QED
    BY <2>1, <2>3
<1>6. ASSUME NEW S, S \in {above0, above1, above2}, S # {}
      PROVE  Min(S) \in S /\ \A x \in S : Min(S) <= x
  <2>1. S \subseteq s.l0 \/ S \subseteq s.l1 \/ S \subseteq s.l2
    BY <1>3, <1>6
  <2>2. S \subseteq Nat
    BY <1>1, <2>1
  <2>3. QED
    BY <1>6, <2>2, SetMin
\* Where a member above r can be.
<1>7. ASSUME NEW i \in s.l0, i > r
      PROVE  /\ i \div Word \in s.l1
             /\ \/ i \in above0
                \/ i \div Word \in above1
                \/ (i \div Word) \div Word \in above2
  <2> DEFINE v0 == i \div Word
             v1 == v0 \div Word
  <2>1. i \in Nat /\ v0 \in Nat /\ v1 \in Nat
    BY <1>1, WordIndex
  <2>2. w0 <= v0
    BY <1>7, <2>1, WordOrder
  <2>3. w1 <= v1
    BY <1>2, <2>1, <2>2, WordOrder
  <2>4. v0 \in s.l1 /\ v1 \in s.l2
    BY <1>1
  <2> HIDE DEF v0, v1, above0, above1, above2
  <2>5. CASE v0 = w0
    <3>1. i \in above0
      BY <1>3, <1>7, <2>5, Zenon DEF v0
    <3>2. QED
      BY <3>1, <2>4 DEF v0
  <2>6. CASE v0 # w0 /\ v1 = w1
    BY <1>2, <1>3, <2>1, <2>2, <2>4, <2>6 DEF v0, v1
  <2>7. CASE v1 # w1
    BY <1>2, <2>1, <2>3, <2>4, <2>7 DEF v0, v1, above2
  <2>8. QED
    BY <2>4, <2>5, <2>6, <2>7 DEF v0, v1
<1> HIDE DEF above0, above1, above2
<1>8. CASE above0 # {}
  <2> DEFINE m == Min(above0)
  <2>1. Above(s, r) = m
    BY <1>8, Zenon DEF Above, above0
  <2>2. m \in above0 /\ \A x \in above0 : m <= x
    BY <1>6, <1>8
  <2> HIDE DEF m
  <2>3. m \in s.l0 /\ m > r /\ m \div Word = w0
    BY <1>3, <2>2
  <2>4. ASSUME NEW i \in s.l0, i > r PROVE m <= i
    <3>1. CASE i \in above0
      BY <2>2, <3>1
    <3>2. CASE i \notin above0
      <4>1. i \div Word # w0
        BY <1>3, <2>4, <3>2
      <4>2. i \in Nat /\ m \in Nat
        BY <1>1, <2>3
      <4>3. CASE i < m
        <5>1. w0 <= i \div Word /\ i \div Word <= w0
          BY <2>3, <2>4, <4>2, <4>3, WordOrder
        <5>2. i \div Word \in Nat
          BY <4>2, WordIndex
        <5>3. QED
          BY <1>2, <4>1, <5>1, <5>2
      <4>4. QED
        BY <4>2, <4>3
    <3>3. QED
      BY <3>1, <3>2
  <2>5. QED
    BY <2>1, <2>3, <2>4
<1>9. CASE above0 = {} /\ above1 # {}
  <2> DEFINE w == Min(above1)
             m == Min(Bits(s.l0, w))
  <2>1. Above(s, r) = m
    BY <1>9, Zenon DEF Above, above0, above1
  <2>2. w \in above1 /\ \A x \in above1 : w <= x
    BY <1>6, <1>9
  <2>3. w \in s.l1 /\ w > w0 /\ w \div Word = w1
    BY <1>3, <2>2
  <2>4. /\ m \in s.l0 /\ m \div Word = w
        /\ \A i \in s.l0 : i \div Word = w => m <= i
    BY <1>4, <2>3
  <2> HIDE DEF m, w
  <2>5. m \in Nat /\ w \in Nat
    BY <1>1, <2>3, <2>4
  <2>6. m > r
    <3>1. CASE m <= r
      <4>1. w <= w0
        BY <2>4, <2>5, <3>1, WordOrder
      <4>2. QED
        BY <1>2, <2>3, <2>5, <4>1
    <3>2. QED
      BY <2>5, <3>1
  <2>7. ASSUME NEW i \in s.l0, i > r PROVE m <= i
    <3> DEFINE v0 == i \div Word
               v1 == v0 \div Word
    <3>1. i \in Nat /\ v0 \in Nat /\ v1 \in Nat
      BY <1>1, WordIndex
    <3>2. v0 \in above1 \/ v1 \in above2
      BY <1>7, <1>9, <2>7
    <3>3. w <= v0
      <4>1. CASE v0 \in above1
        BY <2>2, <4>1
      <4>2. CASE v1 \in above2
        <5>1. v1 > w1
          BY <4>2 DEF above2
        <5>2. CASE v0 <= w
          <6>1. v1 <= w1
            BY <2>3, <2>5, <3>1, <5>2, WordOrder
          <6>2. QED
            BY <1>2, <3>1, <5>1, <6>1
        <5>3. QED
          BY <2>5, <3>1, <5>2
      <4>3. QED
        BY <3>2, <4>1, <4>2
    <3>4. CASE v0 = w
      BY <2>4, <2>7, <3>4
    <3>5. CASE w < v0
      <4>1. CASE i <= m
        <5>1. v0 <= w
          BY <2>4, <2>5, <3>1, <4>1, WordOrder
        <5>2. QED
          BY <2>5, <3>1, <3>5, <5>1
      <4>2. QED
        BY <2>5, <3>1, <4>1
    <3>6. QED
      BY <2>5, <3>1, <3>3, <3>4, <3>5
  <2>8. QED
    BY <2>1, <2>4, <2>6, <2>7
<1>10. CASE above0 = {} /\ above1 = {} /\ above2 # {}
  <2> DEFINE u == Min(above2)
             w == Min(Bits(s.l1, u))
             m == Min(Bits(s.l0, w))
  <2>1. Above(s, r) = m
    BY <1>10, Zenon DEF Above, above0, above1, above2
  <2>2. u \in above2 /\ \A x \in above2 : u <= x
    BY <1>6, <1>10
  <2>3. u \in s.l2 /\ u > w1
    BY <2>2 DEF above2
  <2>4. /\ w \in s.l1 /\ w \div Word = u
        /\ \A i \in s.l1 : i \div Word = u => w <= i
    BY <1>5, <2>3
  <2>5. /\ m \in s.l0 /\ m \div Word = w
        /\ \A i \in s.l0 : i \div Word = w => m <= i
    BY <1>4, <2>4
  <2> HIDE DEF m, w, u
  <2>6. m \in Nat /\ w \in Nat /\ u \in Nat
    BY <1>1, <2>3, <2>4, <2>5
  <2>7. m > r
    <3>1. CASE m <= r
      <4>1. w <= w0
        BY <2>5, <2>6, <3>1, WordOrder
      <4>2. u <= w1
        BY <1>2, <2>4, <2>6, <4>1, WordOrder
      <4>3. QED
        BY <1>2, <2>3, <2>6, <4>2
    <3>2. QED
      BY <2>6, <3>1
  <2>8. ASSUME NEW i \in s.l0, i > r PROVE m <= i
    <3> DEFINE v0 == i \div Word
               v1 == v0 \div Word
    <3>1. i \in Nat /\ v0 \in Nat /\ v1 \in Nat
      BY <1>1, WordIndex
    <3>2. v0 \in s.l1 /\ v1 \in above2
      BY <1>7, <1>10, <2>8
    <3>3. u <= v1
      BY <2>2, <3>2
    <3>4. w <= v0
      <4>1. CASE v1 = u
        BY <2>4, <3>2, <4>1
      <4>2. CASE u < v1
        <5>1. CASE v0 <= w
          <6>1. v1 <= u
            BY <2>4, <2>6, <3>1, <5>1, WordOrder
          <6>2. QED
            BY <2>6, <3>1, <4>2, <6>1
        <5>2. QED
          BY <2>6, <3>1, <5>1
      <4>3. QED
        BY <2>6, <3>1, <3>3, <4>1, <4>2
    <3>5. CASE v0 = w
      BY <2>5, <2>8, <3>5
    <3>6. CASE w < v0
      <4>1. CASE i <= m
        <5>1. v0 <= w
          BY <2>5, <2>6, <3>1, <4>1, WordOrder
        <5>2. QED
          BY <2>6, <3>1, <3>6, <5>1
      <4>2. QED
        BY <2>6, <3>1, <4>1
    <3>7. QED
      BY <2>6, <3>1, <3>4, <3>5, <3>6
  <2>9. QED
    BY <2>1, <2>5, <2>7, <2>8
<1>11. CASE above0 = {} /\ above1 = {} /\ above2 = {}
  <2>1. Above(s, r) = NoRank
    BY <1>11, Zenon DEF Above, above0, above1, above2
  <2>2. \A i \in s.l0 : i <= r
    BY <1>1, <1>7, <1>11
  <2>3. QED
    BY <2>1, <2>2
<1>12. QED
  BY <1>8, <1>9, <1>10, <1>11

----------------------------------------------------------------------------
(* The order of suffixes. *)
(* Suffixes a and b of g have the same first k values. *)
Same(g, a, b, k) == \A j \in 0 .. k - 1 : g[a + j] = g[b + j]

(* Suffix a of the n values of g comes before suffix b. *)
Precedes(g, n, a, b) ==
  \E k \in Nat :
    /\ a + k <= n /\ b + k <= n /\ Same(g, a, b, k)
    /\ a + k = n \/ (a + k < n /\ b + k < n /\ g[a + k] < g[b + k])

Values(g, n) == \A i \in 0 .. n - 1 : g[i] \in Nat

LEMMA SameFacts ==
  ASSUME NEW g, NEW a, NEW b, NEW k \in Nat, Same(g, a, b, k)
  PROVE  /\ \A j \in Nat : j < k => g[a + j] = g[b + j]
         /\ \A m \in Nat : m <= k => Same(g, a, b, m)
<1>1. \A j \in Nat : j < k => j \in 0 .. k - 1
  OBVIOUS
<1>2. \A m \in Nat : m <= k => 0 .. m - 1 \subseteq 0 .. k - 1
  OBVIOUS
<1>3. QED
  BY <1>1, <1>2 DEF Same

LEMMA SameAt ==
  ASSUME NEW g, NEW a, NEW b, NEW k \in Nat, Same(g, a, b, k), NEW m \in Nat, m < k
  PROVE  g[a + m] = g[b + m]
<1>1. m \in 0 .. k - 1
  OBVIOUS
<1>2. QED
  BY <1>1, Zenon DEF Same

LEMMA SameTrans ==
  ASSUME NEW g, NEW a, NEW b, NEW c, NEW k \in Nat, Same(g, a, b, k), Same(g, b, c, k)
  PROVE  Same(g, a, c, k)
BY DEF Same

LEMMA PrecedesTrans ==
  ASSUME NEW g, NEW n \in Nat, Values(g, n),
         NEW a \in 0 .. n - 1, NEW b \in 0 .. n - 1, NEW c \in 0 .. n - 1,
         Precedes(g, n, a, b), Precedes(g, n, b, c)
  PROVE  Precedes(g, n, a, c)
<1>1. PICK k \in Nat :
        /\ a + k <= n /\ b + k <= n /\ Same(g, a, b, k)
        /\ a + k = n \/ (a + k < n /\ b + k < n /\ g[a + k] < g[b + k])
  BY DEF Precedes
<1>2. PICK m \in Nat :
        /\ b + m <= n /\ c + m <= n /\ Same(g, b, c, m)
        /\ b + m = n \/ (b + m < n /\ c + m < n /\ g[b + m] < g[c + m])
  BY DEF Precedes
<1>3. \A i \in Nat : i < n => g[i] \in Nat
  BY DEF Values
<1>4. CASE k <= m
  <2>1. Same(g, a, c, k) /\ c + k <= n
    BY <1>1, <1>2, <1>4, SameFacts, SameTrans
  <2>2. CASE a + k = n
    BY <1>1, <2>1, <2>2 DEF Precedes
  <2>3. CASE a + k < n /\ b + k < n /\ g[a + k] < g[b + k]
    <3>1. c + k < n /\ g[a + k] < g[c + k]
      <4>1. CASE k < m
        <5>1. g[b + k] = g[c + k]
          <6>1. Same(g, b, c, m)
            BY <1>2
          <6>2. QED
            <7>1. k \in 0 .. m - 1
              BY <4>1
            <7>2. QED
              BY <6>1, <7>1, Zenon DEF Same
        <5>2. QED
          BY <1>2, <2>3, <4>1, <5>1
      <4>2. CASE k = m
        <5>1. c + k < n /\ g[b + k] < g[c + k]
          BY <1>2, <2>3, <4>2
        <5>2. g[a + k] \in Nat /\ g[b + k] \in Nat /\ g[c + k] \in Nat
          BY <1>3, <2>3, <5>1
        <5>3. QED
          BY <2>3, <5>1, <5>2
      <4>3. QED
        BY <1>4, <4>1, <4>2
    <3>2. QED
      BY <1>1, <2>1, <2>3, <3>1 DEF Precedes
  <2>4. QED
    BY <1>1, <2>2, <2>3
<1>5. CASE m < k
  <2>1. Same(g, a, c, m) /\ a + m <= n
    BY <1>1, <1>2, <1>5, SameFacts, SameTrans
  <2>2. b + m < n /\ c + m < n /\ g[b + m] < g[c + m] /\ a + m < n
    BY <1>1, <1>2, <1>5
  <2>3. g[a + m] = g[b + m]
    BY <1>1, <1>2, <1>5, SameAt
  <2>4. QED
    BY <1>2, <2>1, <2>2, <2>3 DEF Precedes
<1>6. QED
  BY <1>4, <1>5

(* What the suffixes around a suffix have in common it has too. *)
LEMMA Between ==
  ASSUME NEW g, NEW n \in Nat, Values(g, n),
         NEW a \in 0 .. n - 1, NEW b \in 0 .. n - 1, NEW c \in 0 .. n - 1,
         Precedes(g, n, a, b), Precedes(g, n, b, c),
         NEW k \in Nat, a + k <= n, c + k <= n, Same(g, a, c, k)
  PROVE  b + k <= n /\ Same(g, a, b, k) /\ Same(g, b, c, k)
<1>1. PICK p \in Nat :
        /\ a + p <= n /\ b + p <= n /\ Same(g, a, b, p)
        /\ a + p = n \/ (a + p < n /\ b + p < n /\ g[a + p] < g[b + p])
  BY DEF Precedes
<1>2. PICK q \in Nat :
        /\ b + q <= n /\ c + q <= n /\ Same(g, b, c, q)
        /\ b + q = n \/ (b + q < n /\ c + q < n /\ g[b + q] < g[c + q])
  BY DEF Precedes
<1>3. \A i \in Nat : i < n => g[i] \in Nat
  BY DEF Values
<1>4. p >= k
  <2> SUFFICES ASSUME p < k PROVE FALSE
    OBVIOUS
  <2>1. /\ a + p < n /\ b + p < n /\ g[a + p] < g[b + p] /\ c + p < n
        /\ g[a + p] = g[c + p]
    <3>1. a + p < n /\ c + p < n /\ a + p # n
      OBVIOUS
    <3>2. g[a + p] = g[c + p]
      BY SameAt
    <3>3. QED
      BY <1>1, <3>1, <3>2
  <2>2. g[a + p] \in Nat /\ g[b + p] \in Nat /\ g[c + p] \in Nat
    BY <1>3, <2>1
  <2>3. CASE q > p
    <3>1. g[b + p] = g[c + p]
      <4>1. Same(g, b, c, q)
        BY <1>2
      <4>2. QED
        <5>1. p \in 0 .. q - 1
          BY <2>3
        <5>2. QED
          BY <4>1, <5>1, Zenon DEF Same
    <3>2. QED
      BY <2>1, <2>2, <3>1
  <2>4. CASE q <= p
    <3>1. b + q < n /\ c + q < n /\ g[b + q] < g[c + q] /\ a + q < n
      BY <1>2, <2>1, <2>4
    <3>2. g[a + q] = g[c + q]
      <4>1. q < k
        BY <1>2, <2>4
      <4>2. QED
        BY <1>2, <4>1, SameAt
    <3>3. CASE q < p
      <4>1. g[a + q] = g[b + q]
        BY <1>1, <1>2, <3>3, SameAt
      <4>2. g[b + q] \in Nat /\ g[c + q] \in Nat
        BY <1>3, <3>1
      <4>3. QED
        BY <3>1, <3>2, <4>1, <4>2
    <3>4. CASE q = p
      BY <2>1, <2>2, <3>1, <3>4
    <3>5. QED
      BY <2>4, <3>3, <3>4
  <2>5. QED
    BY <2>3, <2>4
<1>5. Same(g, a, b, k) /\ b + k <= n
  BY <1>1, <1>4, SameFacts
<1>6. Same(g, b, c, k)
  BY <1>5 DEF Same
<1>7. QED
  BY <1>5, <1>6

(* A sequence of suffixes each before the next one is sorted. *)
LEMMA Sorted ==
  ASSUME NEW g, NEW n \in Nat, Values(g, n), NEW s \in [0 .. n - 1 -> 0 .. n - 1],
         \A r \in 0 .. n - 2 : Precedes(g, n, s[r], s[r + 1])
  PROVE  \A r, q \in 0 .. n - 1 : r < q => Precedes(g, n, s[r], s[q])
<1> SUFFICES ASSUME NEW r \in 0 .. n - 1
             PROVE  \A q \in 0 .. n - 1 : r < q => Precedes(g, n, s[r], s[q])
  OBVIOUS
<1> DEFINE T == {q \in 0 .. n - 1 : r < q /\ ~Precedes(g, n, s[r], s[q])}
<1>1. SUFFICES ASSUME T # {} PROVE FALSE
  OBVIOUS
<1>2. T \subseteq Nat
  OBVIOUS
<1>3. PICK q \in T : \A y \in T : q <= y
  BY <1>1, <1>2, LeastNatural
<1>4. q \in 0 .. n - 1 /\ r < q /\ ~Precedes(g, n, s[r], s[q])
  BY <1>3
<1>5. q - 1 \in 0 .. n - 2 /\ q - 1 \in 0 .. n - 1 /\ (q - 1) + 1 = q /\ q - 1 < q
  BY <1>4
<1>6. Precedes(g, n, s[q - 1], s[q])
  BY <1>5
<1>7. CASE r = q - 1
  BY <1>4, <1>6, <1>7
<1>8. CASE r < q - 1
  <2>1. Precedes(g, n, s[r], s[q - 1])
    <3>1. q - 1 \notin T
      BY <1>3, <1>4, <1>5
    <3>2. QED
      BY <1>5, <1>8, <3>1
  <2>2. s[r] \in 0 .. n - 1 /\ s[q - 1] \in 0 .. n - 1 /\ s[q] \in 0 .. n - 1
    BY <1>4, <1>5
  <2>3. QED
    BY <1>4, <1>6, <2>1, <2>2, PrecedesTrans
<1>9. QED
  BY <1>4, <1>5, <1>7, <1>8

(* The n values of f from lo on. *)
Piece(f, lo, n) == [i \in 0 .. n - 1 |-> f[lo + i]]

(* What the sorter promises of neighbors holds of every two ranks. *)
LEMMA SortedSegment ==
  ASSUME NEW f, NEW lo \in Nat, NEW hi \in Nat, lo < hi, NEW s, Sorts(s, f, lo, hi),
         \A i \in lo .. hi - 1 : f[i] \in Nat
  PROVE  \A r, q \in 0 .. (hi - lo) - 1 :
           r < q => Precedes(Piece(f, lo, hi - lo), hi - lo, s[r], s[q])
<1> DEFINE n == hi - lo
           g == Piece(f, lo, n)
<1>1. /\ s \in [0 .. (hi - lo) - 1 -> 0 .. (hi - lo) - 1]
      /\ \A r \in 0 .. (hi - lo) - 2 :
           \E k \in 0 .. (hi - lo) - Max({s[r], s[r + 1]}) :
             /\ \A i \in 0 .. k - 1 : f[(lo + s[r]) + i] = f[(lo + s[r + 1]) + i]
             /\ \/ s[r] + k = hi - lo
                \/ /\ s[r + 1] + k < hi - lo /\ s[r] + k < hi - lo
                   /\ f[(lo + s[r]) + k] < f[(lo + s[r + 1]) + k]
  BY Zenon DEF Sorts
<1>2. n \in Nat \ {0} /\ n = hi - lo
  OBVIOUS
<1>3. \A i \in 0 .. n - 1 : g[i] = f[lo + i]
  BY DEF Piece
<1>4. s \in [0 .. n - 1 -> 0 .. n - 1]
  BY <1>1
<1>5. ASSUME NEW r \in 0 .. n - 2
      PROVE  \E k \in 0 .. n - Max({s[r], s[r + 1]}) :
               /\ \A i \in 0 .. k - 1 : f[(lo + s[r]) + i] = f[(lo + s[r + 1]) + i]
               /\ \/ s[r] + k = n
                  \/ /\ s[r + 1] + k < n /\ s[r] + k < n
                     /\ f[(lo + s[r]) + k] < f[(lo + s[r + 1]) + k]
  BY <1>1
<1> HIDE DEF n, g
<1>6. Values(g, n)
  <2>1. \A i \in 0 .. n - 1 : lo + i \in lo .. hi - 1
    BY <1>2
  <2>2. QED
    BY <1>3, <2>1 DEF Values
<1>7. ASSUME NEW r \in 0 .. n - 2 PROVE Precedes(g, n, s[r], s[r + 1])
  <2> DEFINE a == s[r]
             b == s[r + 1]
  <2>1. a \in 0 .. n - 1 /\ b \in 0 .. n - 1
    BY <1>2, <1>4
  <2>2. PICK k \in 0 .. n - Max({a, b}) :
          /\ \A i \in 0 .. k - 1 : f[(lo + a) + i] = f[(lo + b) + i]
          /\ \/ a + k = n
             \/ b + k < n /\ a + k < n /\ f[(lo + a) + k] < f[(lo + b) + k]
    BY <1>5
  <2> HIDE DEF a, b
  <2>3. k \in Nat /\ a + k <= n /\ b + k <= n
    <3>1. Max({a, b}) = IF a >= b THEN a ELSE b
      BY <2>1, MaxOfTwo
    <3>2. QED
      BY <1>2, <2>1, <3>1
  <2>4. \A i \in Nat : i < k => /\ g[a + i] = f[(lo + a) + i]
                                /\ g[b + i] = f[(lo + b) + i]
    <3>1. SUFFICES ASSUME NEW i \in Nat, i < k
                   PROVE  /\ g[a + i] = f[(lo + a) + i]
                          /\ g[b + i] = f[(lo + b) + i]
      OBVIOUS
    <3>2. a + i \in 0 .. n - 1 /\ b + i \in 0 .. n - 1
      BY <1>2, <2>1, <2>3, <3>1
    <3>3. lo + (a + i) = (lo + a) + i /\ lo + (b + i) = (lo + b) + i
      BY <2>1
    <3>4. QED
      BY <1>3, <3>2, <3>3
  <2>5. Same(g, a, b, k)
    <3>1. SUFFICES ASSUME NEW i \in 0 .. k - 1 PROVE g[a + i] = g[b + i]
      BY DEF Same
    <3>2. i \in Nat /\ i < k
      BY <2>3
    <3>3. QED
      BY <2>2, <2>4, <3>2
  <2>6. CASE a + k = n
    BY <2>3, <2>5, <2>6 DEF Precedes, a, b
  <2>7. CASE b + k < n /\ a + k < n /\ f[(lo + a) + k] < f[(lo + b) + k]
    <3>1. a + k \in 0 .. n - 1 /\ b + k \in 0 .. n - 1
      BY <1>2, <2>1, <2>3, <2>7
    <3>2. lo + (a + k) = (lo + a) + k /\ lo + (b + k) = (lo + b) + k
      BY <2>1, <2>3
    <3>3. g[a + k] < g[b + k]
      BY <1>3, <2>7, <3>1, <3>2
    <3>4. QED
      BY <2>3, <2>5, <2>7, <3>3 DEF Precedes, a, b
  <2>8. QED
    BY <2>2, <2>6, <2>7
<1>8. \A r, q \in 0 .. n - 1 : r < q => Precedes(g, n, s[r], s[q])
  BY <1>2, <1>4, <1>6, <1>7, Sorted
<1>9. QED
  BY <1>8 DEF n, g

----------------------------------------------------------------------------
(* The finder. *)
SegLen == SegEnd(size, start) - SegStart(start)

(* rank is the inverse of sa. *)
RankOK ==
  /\ sa \in [0 .. SegLen - 1 -> 0 .. SegLen - 1]
  /\ rank \in [0 .. SegLen - 1 -> 0 .. SegLen - 1]
  /\ \A a \in 0 .. SegLen - 1 : sa[rank[a]] = a /\ rank[sa[a]] = a

Repeats(p, len, dis) ==
  /\ dis \in MinDistance .. MaxDistance /\ dis <= p
  /\ \A j \in p .. p + len - 1 : input[j] = input[j - dis]

Usable(p, len, dis) ==
  /\ len \in MinMatchLen .. MaxMatchLen
  /\ p + len <= HardEnd
  /\ Repeats(p, len, dis)

MatchedOK ==
  /\ DOMAIN maxLen = 0 .. End - start - 1
  /\ DOMAIN matchDis = 0 .. End - start - 1
  /\ \A p \in start .. at - 1 :
       \/ maxLen[p - start] = 0
       \/ Usable(p, maxLen[p - start], matchDis[p - start])

(* What is carried is not used again once the end of the matches is near.  *)
CarryOK ==
  at + MinMatchLen <= HardEnd /\ carry.len > 0 => Repeats(at, carry.len, carry.dis)

BlockOK == \E k \in Nat : start = k * BlockSize

ScanOK ==
  pc \in {"scan", "parse"} =>
    /\ start < size /\ at \in start .. End
    /\ RankOK
    /\ MatchedOK
    /\ pc = "scan" => CarryOK
    /\ pc = "parse" => at = End

FinderInv ==
  /\ InputTypeOK /\ FinderTypeOK
  /\ BlockOK
  /\ ScanOK
  /\ LiveWindow

LEMMA Constants ==
  /\ {BlockSize, MaxMatchLen} \subseteq Nat \ {0}
  /\ {ExtendLimit, PadLen, MinSuffix} \subseteq Nat
  /\ MinMatchLen \in Nat \ {0} /\ MinMatchLen <= MaxMatchLen
  /\ MinDistance \in Nat \ {0} /\ MaxDistance \in Nat \ {0}
  /\ MinDistance <= MaxDistance
  /\ \A n \in Sizes : n \in Nat /\ n >= MinSuffix
BY ParseAssumption, FinderAssumption
   DEF ParseConstraints, FinderConstraints

LEMMA SizeRange ==
  ASSUME InputTypeOK
  PROVE  size \in Nat /\ MatchEnd \in Nat /\ MatchEnd <= size
BY Constants DEF InputTypeOK, MatchEnd

(* Where a block, its segment and its matches begin and end. *)
LEMMA Bounds ==
  ASSUME InputTypeOK, start \in Nat, start < size
  PROVE  /\ SegStart(start) \in 0 .. start
         /\ SegStart(start) = IF start >= MaxDistance THEN start - MaxDistance ELSE 0
         /\ End \in start + 1 .. size /\ End <= start + BlockSize
         /\ HardEnd \in Nat /\ HardEnd <= End /\ HardEnd <= MatchEnd
         /\ SegEnd(size, start) \in End .. size
<1>1. /\ size \in Nat /\ MatchEnd \in Nat /\ BlockSize \in Nat \ {0} /\ PadLen \in Nat
      /\ MaxDistance \in Nat /\ MatchEnd <= size
  BY Constants, SizeRange
<1>2. SegStart(start) = IF 0 >= start - MaxDistance THEN 0 ELSE start - MaxDistance
  <2>1. 0 \in Int /\ start - MaxDistance \in Int
    BY <1>1
  <2>2. QED
    BY <2>1, MaxOfTwo DEF SegStart
<1>3. End = IF start + BlockSize <= size THEN start + BlockSize ELSE size
  <2>1. start + BlockSize \in Int /\ size \in Int
    BY <1>1
  <2>2. QED
    BY <2>1, MinOfTwo DEF End
<1>4. End \in Nat
  BY <1>1, <1>3
<1>5. HardEnd = IF End <= MatchEnd THEN End ELSE MatchEnd
  <2>1. End \in Int /\ MatchEnd \in Int
    BY <1>1, <1>4
  <2>2. QED
    BY <2>1, MinOfTwo, Zenon DEF HardEnd
<1>6. SegEnd(size, start) = IF size <= start + BlockSize + PadLen THEN size
                            ELSE start + BlockSize + PadLen
  <2>1. start + BlockSize + PadLen \in Int /\ size \in Int
    BY <1>1
  <2>2. QED
    BY <2>1, MinOfTwo DEF SegEnd
<1>7. QED
  BY <1>1, <1>2, <1>3, <1>4, <1>5, <1>6

(* Blocks begin at multiples of the block size. *)
LEMMA BlockIndex ==
  ASSUME NEW n \in Nat, NEW k \in Nat, k * BlockSize < n
  PROVE  k \in 0 .. (n - 1) \div BlockSize
<1> DEFINE q == (n - 1) \div BlockSize
           r == (n - 1) % BlockSize
<1>1. BlockSize \in Nat \ {0}
  BY Constants
<1>2. k * BlockSize \in Nat
  BY <1>1
<1>3. n - 1 \in Nat
  BY <1>2
<1>4. q \in Nat /\ r \in 0 .. BlockSize - 1 /\ n - 1 = BlockSize * q + r
  BY <1>1, <1>3
<1> HIDE DEF q, r
<1>5. CASE q < k
  <2>1. q + 1 <= k
    BY <1>4, <1>5
  <2>2. (q + 1) * BlockSize <= k * BlockSize
    BY <1>1, <1>4, <2>1
  <2>3. (q + 1) * BlockSize = BlockSize * q + BlockSize /\ BlockSize * q \in Nat
    BY <1>1, <1>4
  <2>4. QED
    BY <1>1, <1>2, <1>3, <1>4, <2>2, <2>3
<1>6. CASE k <= q
  BY <1>4, <1>6 DEF q
<1>7. QED
  BY <1>4, <1>5, <1>6

(* find_block hands the sorter the segment of its block. *)
LEMMA SegmentSorted ==
  ASSUME FinderInv, FindBlock
  PROVE  Sorts(sa', input, SegStart(start), SegEnd(size, start))
<1>1. start < size /\ sa' = Sort(input, SegStart(start), SegEnd(size, start))
      /\ size \in Nat /\ size \in Sizes /\ input \in [0 .. size - 1 -> Bytes]
  BY SizeRange DEF FindBlock, FinderInv, InputTypeOK
<1>2. PICK k \in Nat : start = k * BlockSize
  BY DEF FinderInv, BlockOK
<1>3. k \in 0 .. (size - 1) \div BlockSize
  BY <1>1, <1>2, BlockIndex
<1>4. Sorts(Sort(input, SegStart(k * BlockSize), SegEnd(size, k * BlockSize)), input,
            SegStart(k * BlockSize), SegEnd(size, k * BlockSize))
  BY <1>1, <1>3, FinderAssumption, Zenon
<1>5. QED
  BY <1>1, <1>2, <1>4, Zenon

(* find_block: the segment is sorted, and the window of the first position *)
(* is in the set.                                                          *)
LEMMA FindBlockKeeps ==
  ASSUME FinderInv, FindBlock
  PROVE  FinderInv'
<1> DEFINE lo == SegStart(start)
           hi == SegEnd(size, start)
           offsets == 0 .. SegLen - 1
<1>1. /\ pc = "block" /\ start < size /\ pc' = "scan"
      /\ sa' = Sort(input, lo, hi)
      /\ rank' = [a \in DOMAIN sa' |-> CHOOSE r \in DOMAIN sa' : sa'[r] = a]
      /\ maxLen' = Resized(maxLen, End - start)
      /\ matchDis' = Resized(matchDis, End - start)
      /\ live' = Build(sa', LiveEnd)
      /\ at' = start /\ carry' = NoCarry
      /\ UNCHANGED <<size, input, out, start>>
  BY DEF FindBlock
<1>2. /\ InputTypeOK /\ start \in Nat
      /\ \A j \in DOMAIN maxLen : maxLen[j] \in {0} \cup (MinMatchLen .. MaxMatchLen)
  BY DEF FinderInv, FinderTypeOK
<1>3. /\ lo \in 0 .. start
      /\ lo = IF start >= MaxDistance THEN start - MaxDistance ELSE 0
      /\ End \in start + 1 .. size /\ hi \in End .. size
      /\ size \in Nat
  BY <1>1, <1>2, Bounds, SizeRange
<1>4. SegLen \in Nat \ {0} /\ SegLen = hi - lo
  BY <1>2, <1>3 DEF SegLen
<1>5. Sorts(sa', input, lo, hi)
  BY SegmentSorted
<1> HIDE DEF lo, hi
<1>6. /\ sa' \in [offsets -> offsets]
      /\ \A a \in offsets : \E r \in offsets : sa'[r] = a
      /\ \A r, q \in offsets : sa'[r] = sa'[q] => r = q
  <2>1. /\ sa' \in [0 .. hi - lo - 1 -> 0 .. hi - lo - 1]
        /\ \A a \in 0 .. hi - lo - 1 : \E r \in 0 .. hi - lo - 1 : sa'[r] = a
        /\ \A r, q \in 0 .. hi - lo - 1 : sa'[r] = sa'[q] => r = q
    BY <1>5, Zenon DEF Sorts
  <2>2. QED
    BY <1>4, <2>1
<1> HIDE DEF offsets
<1>7. DOMAIN sa' = offsets
  BY <1>6
<1>8. \A a \in offsets : rank'[a] \in offsets /\ sa'[rank'[a]] = a
  BY <1>1, <1>6, <1>7
<1>9. SegLen' = SegLen /\ End' = End /\ offsets' = offsets
  BY <1>1 DEF SegLen, End, offsets
<1>10. RankOK'
  <2>1. rank' \in [offsets -> offsets]
    <3>1. rank' = [a \in offsets |-> rank'[a]]
      BY <1>1, <1>7
    <3>2. QED
      BY <1>8, <3>1
  <2>2. \A a \in offsets : sa'[rank'[a]] = a /\ rank'[sa'[a]] = a
    <3>1. SUFFICES ASSUME NEW a \in offsets PROVE rank'[sa'[a]] = a
      BY <1>8
    <3>2. sa'[a] \in offsets
      BY <1>6
    <3>3. sa'[rank'[sa'[a]]] = sa'[a] /\ rank'[sa'[a]] \in offsets
      BY <1>8, <3>2
    <3>4. QED
      BY <1>6, <3>3
  <2>3. QED
    BY <1>6, <1>9, <2>1, <2>2 DEF RankOK, offsets
<1>11. /\ maxLen' = [j \in 0 .. End - start - 1 |-> IF j \in DOMAIN maxLen THEN maxLen[j] ELSE 0]
       /\ DOMAIN matchDis' = 0 .. End - start - 1
  BY <1>1 DEF Resized
<1>12. Sound(live')
       /\ live'.l0 = {r \in offsets : sa'[r] < LiveEnd}
  <2>1. DOMAIN sa' \subseteq Nat
    BY <1>4, <1>7 DEF offsets
  <2>2. QED
    BY <1>1, <1>7, <2>1, BuildSound
<1>13. FinderTypeOK'
  <2>1. carry' \in [len : Nat, dis : 0 .. MaxDistance]
    BY <1>1, Constants DEF NoCarry
  <2>2. \A j \in DOMAIN maxLen' : maxLen'[j] \in {0} \cup (MinMatchLen .. MaxMatchLen)
    BY <1>2, <1>11
  <2>3. DOMAIN maxLen' = DOMAIN matchDis'
    BY <1>11
  <2>4. live'.l0 \subseteq DOMAIN sa'
    BY <1>7, <1>12
  <2>5. QED
    BY <1>1, <1>2, <2>1, <2>2, <2>3, <2>4 DEF FinderTypeOK
<1>14. ScanOK'
  <2>1. MatchedOK'
    <3>1. at' = start /\ start' = start /\ start \in Nat
      BY <1>1, <1>2
    <3>2. start' .. at' - 1 = {}
      BY <3>1
    <3>3. DOMAIN maxLen' = 0 .. End' - start' - 1 /\ DOMAIN matchDis' = 0 .. End' - start' - 1
      BY <1>9, <1>11, <3>1
    <3>4. QED
      BY <3>2, <3>3 DEF MatchedOK
  <2>2. CarryOK'
    BY <1>1 DEF CarryOK, NoCarry
  <2>3. at' \in start' .. End' /\ start' < size'
    BY <1>1, <1>2, <1>3, <1>9
  <2>4. QED
    BY <1>1, <1>10, <2>1, <2>2, <2>3 DEF ScanOK
<1>15. LiveWindow'
  <2>1. /\ MinDistance \in Nat \ {0} /\ MaxDistance \in Nat
    BY Constants
  <2>2. Max({start', at' - 1}) = start
    <3>1. start \in Int /\ start - 1 \in Int /\ start >= start - 1
      BY <1>2
    <3>2. QED
      BY <1>1, <3>1, MaxOfTwo
  <2>3. LiveEnd = IF start + 1 - MinDistance > lo THEN start + 1 - MinDistance - lo ELSE 0
    BY <1>2, <1>3, <2>1 DEF LiveEnd, lo
  <2>4. SegStart(start)' = lo
    BY <1>1 DEF SegStart, lo
  <2>5. Window(start)' = {p \in lo .. start - MinDistance : start - p <= MaxDistance}
    BY <1>1, <2>4, Zenon DEF Window
  <2>6. \A p : p \in Window(start)' <=> p \in lo .. start - MinDistance
    BY <1>2, <1>3, <2>1, <2>5
  <2>7. ASSUME NEW p PROVE RankOf(p)' = rank'[p - lo]
    BY <2>4, Zenon DEF RankOf
  <2>8. \A r : r \in live'.l0 <=> \E p \in lo .. start - MinDistance : r = rank'[p - lo]
    <3>1. ASSUME NEW r, r \in live'.l0
          PROVE  \E p \in lo .. start - MinDistance : r = rank'[p - lo]
      <4>1. r \in offsets /\ sa'[r] < LiveEnd /\ sa'[r] \in offsets /\ rank'[sa'[r]] = r
        BY <1>6, <1>9, <1>10, <1>12, <3>1 DEF RankOK, offsets
      <4> DEFINE p == lo + sa'[r]
      <4>2. p \in lo .. start - MinDistance /\ p - lo = sa'[r]
        <5> DEFINE a == sa'[r]
        <5>1. a \in Nat /\ a < LiveEnd
          BY <1>4, <4>1 DEF offsets
        <5> HIDE DEF a
        <5>2. lo + a \in lo .. start - MinDistance /\ (lo + a) - lo = a
          BY <1>2, <1>3, <2>1, <2>3, <5>1
        <5>3. QED
          BY <5>2 DEF a
      <4>3. QED
        BY <4>1, <4>2, Zenon
    <3>2. ASSUME NEW p \in lo .. start - MinDistance
          PROVE  rank'[p - lo] \in live'.l0
      <4>1. p - lo \in offsets /\ p - lo < LiveEnd
        BY <1>2, <1>3, <1>4, <2>1, <2>3 DEF offsets
      <4>2. rank'[p - lo] \in offsets /\ sa'[rank'[p - lo]] = p - lo
        BY <1>8, <4>1
      <4>3. QED
        BY <1>12, <4>1, <4>2
    <3>3. QED
      BY <3>1, <3>2
  <2>9. live'.l0 = {RankOf(p)' : p \in Window(start)'}
    BY <2>6, <2>7, <2>8
  <2>10. Consistent(live')
    BY <1>12 DEF Sound
  <2>11. Max({start, at - 1})' = start'
    BY <1>1, <2>2
  <2>12. Window(Max({start, at - 1}))' = Window(start)'
    BY <2>11, Zenon DEF Window
  <2>13. live'.l0 = {RankOf(p)' : p \in Window(Max({start, at - 1}))'}
    BY <2>9, <2>12, Zenon
  <2>14. QED
    BY <2>10, <2>13, Zenon DEF LiveWindow
<1>16. QED
  BY <1>1, <1>2, <1>13, <1>14, <1>15 DEF FinderInv, InputTypeOK, BlockOK

(* The window of one position becomes that of the next: one enters, one    *)
(* leaves, also where the first positions of a block are already there.    *)
LEMMA WindowSlides ==
  ASSUME InputTypeOK, start \in Nat, start < size, at \in start .. End - 1, NEW p
  PROVE  p \in Window(at) <=>
           /\ \/ p \in Window(Max({start, at - 1}))
              \/ /\ at >= Max({start, SegStart(start) + MinDistance})
                 /\ p = at - MinDistance
           /\ ~ /\ at >= Max({start, SegStart(start) + MaxDistance + 1})
                /\ p = at - MaxDistance - 1
<1> DEFINE seg == SegStart(start)
           last == Max({start, at - 1})
           enter == Max({start, seg + MinDistance})
           leave == Max({start, seg + MaxDistance + 1})
<1>1. /\ seg \in 0 .. start /\ End \in start + 1 .. size /\ size \in Nat
      /\ seg = IF start >= MaxDistance THEN start - MaxDistance ELSE 0
      /\ MinDistance \in Nat \ {0} /\ MaxDistance \in Nat \ {0} /\ MinDistance <= MaxDistance
  BY Bounds, Constants, SizeRange
<1>2. at \in Nat /\ start <= at
  BY <1>1
<1>3. Window(at) = {q \in seg .. at - MinDistance : at - q <= MaxDistance}
      /\ Window(last) = {q \in seg .. last - MinDistance : last - q <= MaxDistance}
  BY Zenon DEF Window
<1> HIDE DEF seg
<1>4. last = IF start >= at - 1 THEN start ELSE at - 1
  <2>1. start \in Int /\ at - 1 \in Int
    BY <1>2
  <2>2. QED
    BY <2>1, MaxOfTwo
<1>5. enter = IF start >= seg + MinDistance THEN start ELSE seg + MinDistance
  <2>1. start \in Int /\ seg + MinDistance \in Int
    BY <1>1, <1>2
  <2>2. QED
    BY <2>1, MaxOfTwo
<1>6. leave = IF start >= seg + MaxDistance + 1 THEN start ELSE seg + MaxDistance + 1
  <2>1. start \in Int /\ seg + MaxDistance + 1 \in Int
    BY <1>1, <1>2
  <2>2. QED
    BY <2>1, MaxOfTwo
<1> HIDE DEF last, enter, leave
<1>7. CASE at = start
  <2>1. last = at
    BY <1>2, <1>4, <1>7
  <2>2. at >= enter => at - MinDistance \in Window(last)
    BY <1>1, <1>2, <1>3, <1>5, <2>1
  <2>3. ~(at >= leave)
    BY <1>1, <1>2, <1>6, <1>7
  <2>4. QED
    BY <2>1, <2>2, <2>3 DEF seg, last, enter, leave
<1>8. CASE at # start
  <2>1. last = at - 1
    BY <1>2, <1>4, <1>8
  <2>2. p \in Window(at) <=> /\ p \in Int /\ seg <= p /\ p <= at - MinDistance
                             /\ at - p <= MaxDistance
    BY <1>1, <1>2, <1>3
  <2>3. p \in Window(last) <=> /\ p \in Int /\ seg <= p /\ p <= at - 1 - MinDistance
                               /\ at - 1 - p <= MaxDistance
    BY <1>1, <1>2, <1>3, <2>1
  <2>4. at >= enter <=> seg <= at - MinDistance
    BY <1>1, <1>2, <1>5
  <2>5. at >= leave <=> seg <= at - MaxDistance - 1
    BY <1>1, <1>2, <1>6, <1>8
  <2>6. p \in Window(at) <=>
           /\ p \in Window(last) \/ (at >= enter /\ p = at - MinDistance)
           /\ ~(at >= leave /\ p = at - MaxDistance - 1)
    BY <1>1, <1>2, <2>2, <2>3, <2>4, <2>5
  <2>7. QED
    BY <2>6 DEF seg, last, enter, leave
<1>9. QED
  BY <1>7, <1>8

LEMMA Slide ==
  ASSUME FinderInv, Scanning
  PROVE  /\ Sound(Slid)
         /\ Slid.l0 = {RankOf(p) : p \in Window(at)}
         /\ Slid.l0 \subseteq 0 .. SegLen - 1
         /\ RankOf(at) \in 0 .. SegLen - 1
<1> DEFINE seg == SegStart(start)
           W == Window(Max({start, at - 1}))
           enters == at >= Max({start, seg + MinDistance})
           leaves == at >= Max({start, seg + MaxDistance + 1})
           entered == IF enters THEN Insert(live, RankOf(at - MinDistance)) ELSE live
           offsets == 0 .. SegLen - 1
<1>1. /\ InputTypeOK /\ start \in Nat /\ start < size /\ at \in start .. End - 1
      /\ RankOK /\ live.l0 = {RankOf(p) : p \in W} /\ Consistent(live)
      /\ live.l0 \subseteq DOMAIN sa
  <2>1. pc = "scan" /\ at < End /\ at \in start .. End /\ start < size /\ RankOK
    BY DEF FinderInv, Scanning, ScanOK
  <2>2. InputTypeOK /\ start \in Nat /\ live.l0 \subseteq DOMAIN sa
    BY DEF FinderInv, FinderTypeOK
  <2>3. live.l0 = {RankOf(p) : p \in W} /\ Consistent(live)
    BY <2>1, Zenon DEF FinderInv, LiveWindow
  <2>4. at \in start .. End - 1
    <3>1. End \in Nat
      BY <2>1, <2>2, Bounds, SizeRange
    <3>2. QED
      BY <2>1, <2>2, <3>1
  <2>5. QED
    BY <2>1, <2>2, <2>3, <2>4, Zenon
<1>2. /\ seg \in 0 .. start /\ End \in start + 1 .. size /\ size \in Nat
      /\ SegEnd(size, start) \in End .. size
      /\ MinDistance \in Nat \ {0} /\ MaxDistance \in Nat \ {0} /\ MinDistance <= MaxDistance
  BY <1>1, Bounds, Constants, SizeRange
<1>3. SegLen \in Nat /\ SegLen = SegEnd(size, start) - seg
  BY <1>1, <1>2 DEF SegLen
<1>4. ASSUME NEW p \in seg .. at PROVE p - seg \in offsets /\ RankOf(p) \in offsets
  <2>1. p - seg \in offsets
    BY <1>1, <1>2, <1>3
  <2>2. rank[p - seg] \in offsets
    BY <1>1, <2>1 DEF RankOK
  <2>3. QED
    BY <2>1, <2>2 DEF RankOf
<1>5. ASSUME NEW p \in seg .. at, NEW q \in seg .. at, RankOf(p) = RankOf(q)
      PROVE  p = q
  <2>1. p - seg \in offsets /\ q - seg \in offsets
    BY <1>4
  <2>2. rank[p - seg] = rank[q - seg]
    BY <1>5 DEF RankOf
  <2>3. p - seg = q - seg
    BY <1>1, <2>1, <2>2 DEF RankOK
  <2>4. QED
    BY <1>1, <1>2, <2>3
<1>6. W \subseteq seg .. at /\ Window(at) \subseteq seg .. at
  <2>1. Max({start, at - 1}) \in start .. at
    <3>1. start \in Int /\ at - 1 \in Int
      BY <1>1, <1>2
    <3>2. Max({start, at - 1}) = IF start >= at - 1 THEN start ELSE at - 1
      BY <3>1, MaxOfTwo
    <3>3. QED
      BY <1>1, <1>2, <3>1, <3>2
  <2> DEFINE last == Max({start, at - 1})
  <2>2. /\ Window(at) = {q \in seg .. at - MinDistance : at - q <= MaxDistance}
        /\ Window(last) = {q \in seg .. last - MinDistance : last - q <= MaxDistance}
    BY Zenon DEF Window
  <2> HIDE DEF last
  <2>3. last \in start .. at
    BY <2>1 DEF last
  <2>4. Window(at) \subseteq seg .. at /\ Window(last) \subseteq seg .. at
    BY <1>1, <1>2, <2>2, <2>3
  <2>5. QED
    BY <2>4 DEF last
<1>7. enters => at - MinDistance \in seg .. at
  <2>1. start \in Int /\ seg + MinDistance \in Int
    BY <1>1, <1>2
  <2>2. Max({start, seg + MinDistance}) =
          IF start >= seg + MinDistance THEN start ELSE seg + MinDistance
    BY <2>1, MaxOfTwo
  <2>3. QED
    BY <1>1, <1>2, <2>2
<1>8. leaves => at - MaxDistance - 1 \in seg .. at
  <2>1. start \in Int /\ seg + MaxDistance + 1 \in Int
    BY <1>1, <1>2
  <2>2. Max({start, seg + MaxDistance + 1}) =
          IF start >= seg + MaxDistance + 1 THEN start ELSE seg + MaxDistance + 1
    BY <2>1, MaxOfTwo
  <2>3. QED
    BY <1>1, <1>2, <2>2
<1>9. Slid = IF leaves THEN Remove(entered, RankOf(at - MaxDistance - 1)) ELSE entered
  BY Zenon DEF Slid
<1>10. ASSUME NEW p
       PROVE  p \in Window(at) <=> /\ p \in W \/ (enters /\ p = at - MinDistance)
                                   /\ ~(leaves /\ p = at - MaxDistance - 1)
  BY <1>1, WindowSlides
<1> HIDE DEF enters, leaves, W
<1>11. Sound(live)
  <2>1. live.l0 \subseteq Nat
    BY <1>1, <1>3 DEF RankOK
  <2>2. QED
    BY <1>1, <2>1 DEF Sound
<1>12. /\ Sound(entered)
       /\ entered.l0 = {RankOf(p) : p \in {q \in seg .. at : q \in W \/ (enters /\ q = at - MinDistance)}}
  <2>1. CASE enters
    <3>1. RankOf(at - MinDistance) \in Nat
      BY <1>3, <1>4, <1>7, <2>1
    <3>2. Sound(entered) /\ entered.l0 = live.l0 \cup {RankOf(at - MinDistance)}
      BY <1>11, <2>1, <3>1, InsertSound
    <3> HIDE DEF entered
    <3>3. QED
      BY <1>1, <1>6, <1>7, <2>1, <3>2, Zenon
  <2>2. CASE ~enters
    <3>1. entered = live
      BY <2>2
    <3> HIDE DEF entered
    <3>2. QED
      BY <1>1, <1>6, <1>11, <2>2, <3>1, Zenon
  <2>3. QED
    BY <2>1, <2>2
<1> HIDE DEF entered
<1>13. Sound(Slid) /\ Slid.l0 = {RankOf(p) : p \in Window(at)}
  <2>1. CASE leaves
    <3> DEFINE gone == at - MaxDistance - 1
    <3>1. RankOf(gone) \in Nat /\ gone \in seg .. at
      BY <1>3, <1>4, <1>8, <2>1
    <3>2. Sound(Slid) /\ Slid.l0 = entered.l0 \ {RankOf(gone)}
      BY <1>9, <1>12, <2>1, <3>1, RemoveSound
    <3> HIDE DEF gone
    <3>3. \A p : p \in Window(at) <=>
            /\ p \in seg .. at
            /\ p \in W \/ (enters /\ p = at - MinDistance)
            /\ p # gone
      BY <1>6, <1>10, <2>1, Zenon DEF gone
    <3>4. ASSUME NEW r
          PROVE  r \in Slid.l0 <=> \E p \in Window(at) : r = RankOf(p)
      <4>1. ASSUME r \in Slid.l0
            PROVE  \E p \in Window(at) : r = RankOf(p)
        <5>1. PICK p \in seg .. at : (p \in W \/ (enters /\ p = at - MinDistance)) /\ r = RankOf(p)
          BY <1>12, <3>2, <4>1
        <5>2. p # gone
          BY <3>2, <4>1, <5>1
        <5>3. QED
          BY <3>3, <5>1, <5>2
      <4>2. ASSUME NEW p \in Window(at), r = RankOf(p)
            PROVE  r \in Slid.l0
        <5>1. p \in seg .. at /\ (p \in W \/ (enters /\ p = at - MinDistance)) /\ p # gone
          BY <3>3
        <5>2. r \in entered.l0
          BY <1>12, <4>2, <5>1
        <5>3. r # RankOf(gone)
          BY <1>5, <3>1, <4>2, <5>1
        <5>4. QED
          BY <3>2, <5>2, <5>3
      <4>3. QED
        BY <4>1, <4>2
    <3>5. QED
      BY <3>2, <3>4
  <2>2. CASE ~leaves
    <3>1. Slid = entered
      BY <1>9, <2>2
    <3>2. \A p : p \in Window(at) <=>
            /\ p \in seg .. at
            /\ p \in W \/ (enters /\ p = at - MinDistance)
      BY <1>6, <1>10, <2>2, Zenon
    <3>3. QED
      BY <1>12, <3>1, <3>2
  <2>3. QED
    BY <2>1, <2>2
<1>14. Slid.l0 \subseteq offsets
  BY <1>4, <1>6, <1>13
<1>15. RankOf(at) \in offsets
  <2>1. at \in seg .. at
    BY <1>1, <1>2
  <2>2. QED
    BY <1>4, <2>1
<1>16. QED
  BY <1>13, <1>14, <1>15

(* neighbors: nothing, or a match at a distance a token can hold.          *)
LEMMA NeighborRepeats ==
  ASSUME FinderInv, InReach
  PROVE  /\ Limit \in MinMatchLen .. MaxMatchLen /\ at + Limit <= HardEnd
         /\ Neighbor(Slid).len \in 0 .. Limit
         /\ Neighbor(Slid).len > 0 => Repeats(at, Neighbor(Slid).len, Neighbor(Slid).dis)
<1> DEFINE seg == SegStart(start)
           C(r) == IF r = NoRank THEN [len |-> 0, dis |-> 0]
                   ELSE LET from == seg + sa[r] IN
                          [len |-> Lcp(at, from, Limit), dis |-> at - from]
           below == C(Below(Slid, RankOf(at)))
           above == C(Above(Slid, RankOf(at)))
           Good(m) == /\ m.len \in 0 .. Limit
                      /\ m.len > 0 => Repeats(at, m.len, m.dis)
<1>1. /\ Scanning /\ at + MinMatchLen <= HardEnd /\ pc = "scan"
      /\ at < End /\ at \in start .. End /\ start < size /\ RankOK
      /\ InputTypeOK /\ start \in Nat /\ at \in Nat
  BY DEF InReach, Scanning, FinderInv, FinderTypeOK, ScanOK
<1>2. /\ seg \in 0 .. start /\ End \in start + 1 .. size /\ size \in Nat
      /\ HardEnd \in Nat /\ HardEnd <= End
      /\ SegEnd(size, start) \in End .. size
      /\ MinDistance \in Nat \ {0} /\ MaxDistance \in Nat \ {0}
      /\ MinMatchLen \in Nat \ {0} /\ MaxMatchLen \in Nat /\ MinMatchLen <= MaxMatchLen
  BY <1>1, Bounds, Constants, SizeRange
<1>3. Limit = IF MaxMatchLen <= HardEnd - at THEN MaxMatchLen ELSE HardEnd - at
  <2>1. MaxMatchLen \in Int /\ HardEnd - at \in Int
    BY <1>1, <1>2
  <2>2. QED
    BY <2>1, MinOfTwo, Zenon DEF Limit
<1>4. Limit \in MinMatchLen .. MaxMatchLen /\ at + Limit <= HardEnd /\ Limit \in Nat
  BY <1>1, <1>2, <1>3
<1>5. /\ Sound(Slid) /\ Slid.l0 = {RankOf(p) : p \in Window(at)}
      /\ Slid.l0 \subseteq 0 .. SegLen - 1 /\ RankOf(at) \in 0 .. SegLen - 1
  BY <1>1, Slide
<1>6. SegLen \in Nat /\ SegLen = SegEnd(size, start) - seg
  BY <1>1, <1>2 DEF SegLen
<1>7. Neighbor(Slid) = IF above.len > below.len THEN above ELSE below
  BY Zenon DEF Neighbor
<1>8. ASSUME NEW r \in Slid.l0 PROVE Good(C(r))
  <2>1. PICK p \in Window(at) : r = RankOf(p)
    BY <1>5
  <2>2. /\ p \in Nat /\ p >= seg /\ p <= at - MinDistance /\ at - p <= MaxDistance
    <3>1. p \in seg .. at - MinDistance /\ at - p <= MaxDistance
      BY Zenon, <2>1 DEF Window
    <3> HIDE DEF seg
    <3>2. QED
      BY <1>1, <1>2, <3>1
  <2>3. p - seg \in 0 .. SegLen - 1
    <3> HIDE DEF seg
    <3>1. QED
      BY <1>1, <1>2, <1>6, <2>2
  <2>4. sa[r] = p - seg
    BY <1>1, <2>1, <2>3 DEF RankOK, RankOf
  <2>5. r # NoRank
    BY <1>5, <1>6 DEF NoRank
  <2> DEFINE n == Lcp(at, p, Limit)
  <2>6. C(r) = [len |-> n, dis |-> at - p]
    <3>1. seg + sa[r] = p
      <4> HIDE DEF seg
      <4>1. QED
        BY <1>2, <2>2, <2>4
    <3>2. QED
      BY <2>5, <3>1, Zenon
  <2>7. n \in 0 .. Limit /\ \A j \in 0 .. n - 1 : input[at + j] = input[p + j]
    BY <1>4, LcpCommon
  <2> HIDE DEF n
  <2>8. ASSUME NEW j \in at .. at + n - 1 PROVE input[j] = input[j - (at - p)]
    <3>1. j - at \in 0 .. n - 1 /\ at + (j - at) = j /\ p + (j - at) = j - (at - p)
      BY <1>1, <1>4, <2>2, <2>7
    <3>2. QED
      BY <2>7, <3>1
  <2>9. at - p \in MinDistance .. MaxDistance /\ at - p <= at
    BY <1>1, <1>2, <2>2
  <2>10. Repeats(at, n, at - p)
    BY <2>8, <2>9 DEF Repeats
  <2>11. Good([len |-> n, dis |-> at - p])
    BY <2>7, <2>10
  <2>12. QED
    BY <2>6, <2>11
<1>9. Good(C(NoRank))
  BY <1>4
<1> HIDE DEF Good, C
<1>10. Below(Slid, RankOf(at)) = NoRank \/ Below(Slid, RankOf(at)) \in Slid.l0
  <2>1. UpTo(Slid.l0, SegLen)
    BY <1>5, <1>6 DEF UpTo
  <2>2. RankOf(at) \in Nat
    BY <1>5, <1>6
  <2>3. QED
    BY <1>5, <1>6, <2>1, <2>2, BelowIsHighest
<1>11. Above(Slid, RankOf(at)) = NoRank \/ Above(Slid, RankOf(at)) \in Slid.l0
  <2>1. RankOf(at) \in Nat
    BY <1>5, <1>6
  <2>2. QED
    BY <1>5, <2>1, AboveIsLowest
<1>12. Good(below) /\ Good(above)
  BY <1>8, <1>9, <1>10, <1>11
<1>13. Good(Neighbor(Slid))
  BY <1>7, <1>12
<1>14. QED
  BY <1>4, <1>13 DEF Good

(* One turn of scan, whatever it stores for the position.                  *)
LEMMA ScannedKeeps ==
  ASSUME FinderInv, Scanning, NEW len, Scanned(at - start, len),
         \/ len = 0 /\ matchDis' = matchDis
         \/ \E dis : /\ Usable(at, len, dis)
                     /\ matchDis' = [matchDis EXCEPT ![at - start] = dis],
         carry' \in [len : Nat, dis : 0 .. MaxDistance], CarryOK'
  PROVE  FinderInv'
<1>1. /\ live' = Slid /\ maxLen' = [maxLen EXCEPT ![at - start] = len]
      /\ at' = at + 1
      /\ UNCHANGED <<size, input, out, pc, start, sa, rank>>
  BY DEF Scanned
<1>2. /\ pc = "scan" /\ at < End /\ at \in start .. End /\ start < size /\ RankOK
      /\ MatchedOK /\ InputTypeOK /\ start \in Nat /\ at \in Nat /\ FinderTypeOK
      /\ BlockOK
  BY DEF Scanning, FinderInv, FinderTypeOK, ScanOK
<1>3. End \in start + 1 .. size /\ size \in Nat /\ MinMatchLen \in Nat
  BY <1>2, Bounds, Constants, SizeRange
<1>4. at - start \in 0 .. End - start - 1
  BY <1>2, <1>3
<1>5. /\ DOMAIN maxLen = 0 .. End - start - 1 /\ DOMAIN matchDis = 0 .. End - start - 1
      /\ \A p \in start .. at - 1 :
           \/ maxLen[p - start] = 0
           \/ Usable(p, maxLen[p - start], matchDis[p - start])
  BY <1>2 DEF MatchedOK
<1>6. len = 0 \/ len \in MinMatchLen .. MaxMatchLen
  BY DEF Usable
<1>7. /\ DOMAIN maxLen' = DOMAIN maxLen /\ DOMAIN matchDis' = DOMAIN matchDis
      /\ maxLen'[at - start] = len
      /\ \A j \in DOMAIN maxLen : j # at - start => maxLen'[j] = maxLen[j]
      /\ \A j \in DOMAIN matchDis : j # at - start => matchDis'[j] = matchDis[j]
  BY <1>1, <1>4, <1>5
<1>8. End' = End /\ HardEnd' = HardEnd /\ SegLen' = SegLen
  BY <1>1 DEF End, HardEnd, MatchEnd, SegLen
<1>9. ASSUME NEW p \in start .. at
       PROVE  \/ maxLen'[p - start] = 0
              \/ Usable(p, maxLen'[p - start], matchDis'[p - start])
  <2>1. CASE p = at
    <3>1. CASE len = 0
      BY <1>7, <2>1, <3>1
    <3>2. CASE len # 0
      <4>1. PICK dis : /\ Usable(at, len, dis)
                       /\ matchDis' = [matchDis EXCEPT ![at - start] = dis]
        BY <3>2
      <4>2. matchDis'[at - start] = dis
        BY <1>4, <1>5, <4>1
      <4>3. QED
        BY <1>7, <2>1, <4>1, <4>2
    <3>3. QED
      BY <3>1, <3>2
  <2>2. CASE p # at
    <3>1. p \in start .. at - 1 /\ p - start # at - start /\ p - start \in 0 .. End - start - 1
      BY <1>2, <1>3, <2>2
    <3>2. maxLen'[p - start] = maxLen[p - start] /\ matchDis'[p - start] = matchDis[p - start]
      BY <1>5, <1>7, <3>1
    <3>3. QED
      BY <1>5, <3>1, <3>2
  <2>3. QED
    BY <2>1, <2>2
<1>10. MatchedOK'
  <2>1. start' .. at' - 1 = start .. at
    BY <1>1, <1>2
  <2>2. ASSUME NEW p \in start .. at
        PROVE  \/ maxLen'[p - start] = 0
               \/ Usable(p, maxLen[p - start], matchDis[p - start])'
    BY <1>1, <1>8, <1>9 DEF Usable, Repeats
  <2>3. DOMAIN maxLen' = 0 .. End' - start' - 1 /\ DOMAIN matchDis' = 0 .. End' - start' - 1
    BY <1>1, <1>5, <1>7, <1>8
  <2>4. QED
    BY <1>1, <2>1, <2>2, <2>3 DEF MatchedOK
<1>11. /\ Sound(Slid) /\ Slid.l0 = {RankOf(p) : p \in Window(at)}
       /\ Slid.l0 \subseteq 0 .. SegLen - 1
  BY Slide
<1>12. FinderTypeOK'
  <2>1. at' \in Nat /\ start' \in Nat
    BY <1>1, <1>2
  <2>2. live'.l0 \subseteq DOMAIN sa'
    BY <1>1, <1>2, <1>11 DEF RankOK
  <2>3. \A j \in DOMAIN maxLen' : maxLen'[j] \in {0} \cup (MinMatchLen .. MaxMatchLen)
    BY <1>2, <1>6, <1>7 DEF FinderTypeOK
  <2>4. DOMAIN maxLen' = DOMAIN matchDis'
    BY <1>5, <1>7
  <2>5. QED
    BY <2>1, <2>2, <2>3, <2>4 DEF FinderTypeOK
<1>13. ScanOK'
  <2>1. at' \in start' .. End' /\ start' < size' /\ pc' = "scan"
    BY <1>1, <1>2, <1>3, <1>8
  <2>2. RankOK'
    BY <1>1, <1>2, <1>8 DEF RankOK
  <2>3. QED
    BY <1>10, <2>1, <2>2 DEF ScanOK
<1>14. LiveWindow'
  <2>1. Max({start, at - 1})' = at
    <3>1. start \in Int /\ at \in Int /\ start <= at /\ start' = start /\ at' - 1 = at
      BY <1>1, <1>2
    <3>2. Max({start', at' - 1}) = IF start >= at THEN start ELSE at
      BY <3>1, MaxOfTwo
    <3>3. QED
      BY <3>1, <3>2
  <2>2. Window(Max({start, at - 1}))' = Window(at)
    <3>1. SegStart(start)' = SegStart(start)
      BY <1>1 DEF SegStart
    <3>2. QED
      BY <1>1, <2>1, <3>1, Zenon DEF Window
  <2>3. ASSUME NEW p PROVE RankOf(p)' = RankOf(p)
    BY <1>1 DEF RankOf
  <2>4. live'.l0 = {RankOf(p)' : p \in Window(Max({start, at - 1}))'}
    BY <1>1, <1>11, <2>2, <2>3
  <2>5. Consistent(live')
    BY <1>1, <1>11 DEF Sound
  <2>6. QED
    BY <2>4, <2>5, Zenon DEF LiveWindow
<1>15. QED
  BY <1>1, <1>2, <1>12, <1>13, <1>14 DEF FinderInv, InputTypeOK, BlockOK

LEMMA RepeatsShorter ==
  ASSUME NEW p \in Nat, NEW n \in Nat, NEW d, Repeats(p, n, d)
  PROVE  /\ \A k \in 0 .. n : Repeats(p, k, d)
         /\ Repeats(p + 1, n - 1, d)
<1>1. /\ d \in MinDistance .. MaxDistance /\ d <= p
      /\ \A j \in p .. p + n - 1 : input[j] = input[j - d]
  BY DEF Repeats
<1>2. ASSUME NEW k \in 0 .. n PROVE Repeats(p, k, d)
  <2>1. \A j \in p .. p + k - 1 : j \in p .. p + n - 1
    OBVIOUS
  <2>2. QED
    BY <1>1, <2>1 DEF Repeats
<1>3. Repeats(p + 1, n - 1, d)
  <2>1. \A j \in p + 1 .. p + 1 + (n - 1) - 1 : j \in p .. p + n - 1
    OBVIOUS
  <2>2. d <= p + 1
    BY <1>1, Constants
  <2>3. QED
    BY <1>1, <2>1, <2>2 DEF Repeats
<1>4. QED
  BY <1>2, <1>3

LEMMA InReachFacts ==
  ASSUME FinderInv, InReach
  PROVE  /\ Scanning /\ InputTypeOK /\ at \in Nat
         /\ at + MinMatchLen <= HardEnd /\ HardEnd \in Nat
         /\ carry \in [len : Nat, dis : 0 .. MaxDistance]
         /\ carry.len > 0 => Repeats(at, carry.len, carry.dis)
         /\ Limit \in Nat /\ Limit > 0
         /\ Limit \in MinMatchLen .. MaxMatchLen /\ at + Limit <= HardEnd
<1>1. /\ Scanning /\ at + MinMatchLen <= HardEnd /\ pc = "scan" /\ InputTypeOK
      /\ at \in Nat /\ start \in Nat /\ start < size
      /\ carry \in [len : Nat, dis : 0 .. MaxDistance] /\ CarryOK
  BY DEF InReach, Scanning, FinderInv, FinderTypeOK, ScanOK
<1>2. HardEnd \in Nat
  BY <1>1, Bounds
<1>3. Limit \in MinMatchLen .. MaxMatchLen /\ at + Limit <= HardEnd
  BY NeighborRepeats
<1>4. Limit \in Nat /\ Limit > 0
  BY <1>3, Constants
<1>5. QED
  BY <1>1, <1>2, <1>3, <1>4 DEF CarryOK

LEMMA ScanTailKeeps ==
  ASSUME FinderInv, ScanTail
  PROVE  FinderInv'
<1>1. /\ Scanning /\ at + MinMatchLen > HardEnd /\ Scanned(at - start, 0)
      /\ carry' = carry /\ matchDis' = matchDis
  BY DEF ScanTail
<1>2. /\ InputTypeOK /\ at \in Nat /\ start \in Nat /\ start < size
      /\ carry \in [len : Nat, dis : 0 .. MaxDistance]
  BY <1>1 DEF FinderInv, FinderTypeOK, ScanOK, Scanning
<1>3. HardEnd \in Nat /\ MinMatchLen \in Nat
  BY <1>2, Bounds, Constants
<1>4. at' = at + 1 /\ HardEnd' = HardEnd
  BY <1>1 DEF Scanned, HardEnd, End, MatchEnd
<1>5. CarryOK'
  BY <1>1, <1>2, <1>3, <1>4 DEF CarryOK
<1>6. QED
  BY <1>1, <1>2, <1>5, ScannedKeeps

(* A carried match is true without being compared: what it carries was.    *)
LEMMA ScanCarriedKeeps ==
  ASSUME FinderInv, ScanCarried
  PROVE  FinderInv'
<1>1. /\ InReach /\ carry.len >= Limit /\ Scanned(at - start, Limit)
      /\ matchDis' = [matchDis EXCEPT ![at - start] = carry.dis]
      /\ carry' = [carry EXCEPT !.len = @ - 1]
  BY DEF ScanCarried
<1>2. /\ Scanning /\ InputTypeOK /\ at \in Nat /\ HardEnd \in Nat
      /\ carry \in [len : Nat, dis : 0 .. MaxDistance]
      /\ carry.len > 0 => Repeats(at, carry.len, carry.dis)
      /\ Limit \in Nat /\ Limit > 0
      /\ Limit \in MinMatchLen .. MaxMatchLen /\ at + Limit <= HardEnd
  BY <1>1, InReachFacts
<1>3. carry.len \in Nat /\ carry.len > 0 /\ carry.dis \in 0 .. MaxDistance
  BY <1>1, <1>2
<1>4. Repeats(at, Limit, carry.dis) /\ Repeats(at + 1, carry.len - 1, carry.dis)
  <2>1. Limit \in 0 .. carry.len
    BY <1>1, <1>2, <1>3
  <2>2. QED
    BY <1>2, <1>3, <2>1, RepeatsShorter
<1>5. Usable(at, Limit, carry.dis)
  BY <1>2, <1>4 DEF Usable
<1>6. /\ carry'.len = carry.len - 1 /\ carry'.dis = carry.dis
      /\ carry' \in [len : Nat, dis : 0 .. MaxDistance]
  BY <1>1, <1>2, <1>3
<1>7. at' = at + 1 /\ input' = input
  BY <1>1 DEF Scanned
<1>8. CarryOK'
  BY <1>4, <1>6, <1>7 DEF CarryOK, Repeats
<1>9. QED
  BY <1>1, <1>2, <1>5, <1>6, <1>8, ScannedKeeps

LEMMA ScanNoneKeeps ==
  ASSUME FinderInv, ScanNone
  PROVE  FinderInv'
<1>1. /\ InReach /\ Scanned(at - start, 0) /\ matchDis' = matchDis
      /\ carry' = [carry EXCEPT !.len = Max({0, @ - 1})]
  BY DEF ScanNone
<1>2. /\ Scanning /\ InputTypeOK /\ at \in Nat
      /\ carry \in [len : Nat, dis : 0 .. MaxDistance]
      /\ carry.len > 0 => Repeats(at, carry.len, carry.dis)
  BY <1>1, InReachFacts
<1>3. carry.len \in Nat /\ carry.dis \in 0 .. MaxDistance
  BY <1>2
<1>4. Max({0, carry.len - 1}) = IF 0 >= carry.len - 1 THEN 0 ELSE carry.len - 1
  <2>1. 0 \in Int /\ carry.len - 1 \in Int
    BY <1>3
  <2>2. QED
    BY <2>1, MaxOfTwo
<1>5. carry'.len = Max({0, carry.len - 1}) /\ carry'.dis = carry.dis
      /\ carry' = [carry EXCEPT !.len = Max({0, carry.len - 1})]
  BY <1>1, <1>2
<1>6. /\ carry' \in [len : Nat, dis : 0 .. MaxDistance]
      /\ carry'.len > 0 => carry.len > 0 /\ carry'.len = carry.len - 1
  <2>1. Max({0, carry.len - 1}) \in Nat
    BY <1>3, <1>4
  <2>2. QED
    BY <1>2, <1>3, <1>4, <1>5, <2>1
<1>7. at' = at + 1 /\ input' = input
  BY <1>1 DEF Scanned
<1>8. CarryOK'
  <2>1. CASE carry'.len > 0
    <3>1. Repeats(at + 1, carry.len - 1, carry.dis)
      BY <1>2, <1>3, <1>6, <2>1, RepeatsShorter
    <3>2. QED
      BY <1>5, <1>6, <1>7, <2>1, <3>1 DEF CarryOK, Repeats
  <2>2. CASE ~(carry'.len > 0)
    BY <2>2 DEF CarryOK
  <2>3. QED
    BY <2>1, <2>2
<1>9. QED
  BY <1>1, <1>2, <1>6, <1>8, ScannedKeeps

LEMMA ScanFoundKeeps ==
  ASSUME FinderInv, ScanFound
  PROVE  FinderInv'
<1> DEFINE best == Neighbor(Slid)
           more == IF best.len >= Limit THEN Beyond(best.dis) ELSE 0
<1>1. /\ InReach /\ best.len >= MinMatchLen /\ Scanned(at - start, best.len)
      /\ matchDis' = [matchDis EXCEPT ![at - start] = best.dis]
      /\ carry' = [len |-> best.len - 1 + more, dis |-> best.dis]
  BY Zenon DEF ScanFound
<1>2. /\ Scanning /\ InputTypeOK /\ at \in Nat /\ HardEnd \in Nat
      /\ Limit \in Nat /\ Limit \in MinMatchLen .. MaxMatchLen /\ at + Limit <= HardEnd
  BY <1>1, InReachFacts
<1>3. best.len \in 0 .. Limit /\ (best.len > 0 => Repeats(at, best.len, best.dis))
  BY <1>1, NeighborRepeats
<1>4. /\ MinMatchLen \in Nat \ {0} /\ MaxMatchLen \in Nat /\ ExtendLimit \in Nat
      /\ MinDistance \in Nat /\ MaxDistance \in Nat
  BY Constants
<1>5. size \in Nat /\ HardEnd <= size
  <2>1. start \in Nat /\ start < size
    BY <1>2 DEF FinderInv, FinderTypeOK, ScanOK, Scanning
  <2>2. End \in start + 1 .. size /\ HardEnd <= End /\ size \in Nat
    BY <1>2, <2>1, Bounds, SizeRange
  <2>3. QED
    BY <1>2, <2>1, <2>2
<1> DEFINE len == best.len
           dis == best.dis
           from == at + Limit
           room == Min({size - from, ExtendLimit})
<1>6. more = IF len >= Limit THEN Lcp(from, from - dis, room) ELSE 0
  BY Zenon DEF Beyond
<1>7. room \in Nat
  <2>1. size - from \in Int /\ size - from >= 0 /\ ExtendLimit \in Int
    BY <1>2, <1>4, <1>5
  <2> HIDE DEF from
  <2>2. room = IF size - from <= ExtendLimit THEN size - from ELSE ExtendLimit
    BY <2>1, MinOfTwo
  <2>3. QED
    BY <1>4, <2>1, <2>2
<1> HIDE DEF best, room
<1>8. /\ Lcp(from, from - dis, room) \in 0 .. room
      /\ \A j \in 0 .. Lcp(from, from - dis, room) - 1 : input[from + j] = input[from - dis + j]
  BY <1>7, LcpCommon
<1> HIDE DEF len, dis, more, from
<1>9. /\ more \in Nat /\ (len < Limit => more = 0)
      /\ \A j \in 0 .. more - 1 : input[from + j] = input[from - dis + j]
  <2>3. len \in Nat
    BY <1>2, <1>3 DEF len
  <2>1. CASE len >= Limit
    <3>1. more = Lcp(from, from - dis, room)
      BY <1>6, <2>1, Zenon
    <3>2. ~(len < Limit)
      BY <1>2, <2>1, <2>3
    <3> DEFINE measured == Lcp(from, from - dis, room)
    <3> HIDE DEF measured
    <3>3. /\ measured \in 0 .. room /\ more = measured
          /\ \A j \in 0 .. measured - 1 : input[from + j] = input[from - dis + j]
      BY <1>8, <3>1, Zenon DEF measured
    <3>4. QED
      BY <1>7, <3>2, <3>3
  <2>2. CASE ~(len >= Limit)
    BY <1>6, <2>2
  <2>4. QED
    BY <2>1, <2>2
<1>10. /\ len \in MinMatchLen .. Limit /\ len \in Nat \ {0}
       /\ Repeats(at, len, dis)
  <2>1. len \in 0 .. Limit /\ len >= MinMatchLen /\ (len > 0 => Repeats(at, len, dis))
    BY <1>1, <1>3 DEF len, dis
  <2>2. QED
    BY <1>2, <1>4, <2>1
<1>11. /\ dis \in MinDistance .. MaxDistance /\ dis <= at
       /\ \A j \in at .. at + len - 1 : input[j] = input[j - dis]
  BY <1>10 DEF Repeats
<1>12. Repeats(at, len + more, dis)
  <2>1. ASSUME NEW j \in at .. at + (len + more) - 1 PROVE input[j] = input[j - dis]
    <3>1. CASE j < at + len
      BY <1>2, <1>9, <1>10, <1>11, <3>1
    <3>2. CASE j >= at + len
      <4>1. more > 0 /\ len = Limit
        BY <1>2, <1>9, <1>10, <3>2
      <4>2. /\ j - from \in 0 .. more - 1 /\ from + (j - from) = j
            /\ from - dis + (j - from) = j - dis
        BY <1>2, <1>4, <1>9, <1>11, <3>2, <4>1 DEF from
      <4>3. QED
        BY <1>9, <4>2
    <3>3. QED
      BY <1>2, <1>9, <1>10, <3>1, <3>2
  <2>2. QED
    BY <1>11, <2>1 DEF Repeats
<1> DEFINE all == len + more
<1>13. Repeats(at + 1, all - 1, dis)
  <2>1. all \in Nat /\ at \in Nat /\ Repeats(at, all, dis)
    BY <1>2, <1>9, <1>10, <1>12
  <2> HIDE DEF all
  <2>2. QED
    BY <2>1, RepeatsShorter
<1>14. Usable(at, len, dis)
  <2>1. len \in MinMatchLen .. MaxMatchLen /\ at + len <= HardEnd
    BY <1>2, <1>4, <1>10
  <2>2. QED
    BY <1>10, <2>1 DEF Usable
<1>15. /\ carry'.len = all - 1 /\ carry'.dis = dis
       /\ carry' \in [len : Nat, dis : 0 .. MaxDistance]
  <2>1. carry' = [len |-> len - 1 + more, dis |-> dis]
    BY <1>1 DEF len, dis
  <2>2. len - 1 + more = all - 1 /\ all - 1 \in Nat
    BY <1>9, <1>10
  <2>3. dis \in 0 .. MaxDistance
    BY <1>4, <1>11
  <2> HIDE DEF all
  <2>4. QED
    BY <2>1, <2>2, <2>3
<1> HIDE DEF all
<1>16. at' = at + 1 /\ input' = input
  BY <1>1 DEF Scanned
<1>17. CarryOK'
  BY <1>13, <1>15, <1>16 DEF CarryOK, Repeats
<1>18. QED
  <2>1. Scanned(at - start, len) /\ matchDis' = [matchDis EXCEPT ![at - start] = dis]
    BY <1>1 DEF len, dis
  <2>2. QED
    BY <1>2, <1>14, <1>15, <1>17, <2>1, ScannedKeeps

LEMMA ScanEndKeeps ==
  ASSUME FinderInv, ScanEnd
  PROVE  FinderInv'
<1>1. /\ pc = "scan" /\ at = End /\ pc' = "parse"
      /\ UNCHANGED <<size, input, out, start, sa, rank, live, at, carry, maxLen, matchDis>>
  BY DEF ScanEnd, finderVars
<1>2. /\ start < size /\ at \in start .. End /\ RankOK /\ MatchedOK
      /\ InputTypeOK /\ FinderTypeOK /\ BlockOK
  BY <1>1 DEF FinderInv, ScanOK
<1>3. End' = End /\ HardEnd' = HardEnd /\ SegLen' = SegLen
  BY <1>1 DEF End, HardEnd, MatchEnd, SegLen
<1>4. RankOK' /\ MatchedOK'
  BY <1>1, <1>2, <1>3 DEF RankOK, MatchedOK, Usable, Repeats
<1>5. QED
  BY <1>1, <1>2, <1>3, <1>4
     DEF FinderInv, InputTypeOK, FinderTypeOK, BlockOK, ScanOK, LiveWindow

LEMMA FindKeeps ==
  ASSUME FinderInv, Find
  PROVE  FinderInv'
BY FindBlockKeeps, ScanTailKeeps, ScanCarriedKeeps, ScanNoneKeeps, ScanFoundKeeps,
   ScanEndKeeps DEF Find

----------------------------------------------------------------------------
(* The longest match.  The suffixes between two suffixes have what the two *)
(* have in common, so the live rank next to the position's is as good as   *)
(* any on its side.                                                        *)
SortedOK ==
  \A r, q \in 0 .. SegLen - 1 :
    r < q => Precedes(Piece(input, SegStart(start), SegLen), SegLen, sa[r], sa[q])

(* What maxLen is to hold. *)
LongestOrNone(p) ==
  IF p + MinMatchLen > HardEnd \/ Longest(p) < MinMatchLen THEN 0 ELSE Longest(p)

LongestOK == \A p \in start .. at - 1 : maxLen[p - start] = LongestOrNone(p)

FoundInv == pc \in {"scan", "parse"} => SortedOK /\ LongestOK

(* The length limit of the position is its Limit, its window the same      *)
(* whether it is cut at the segment or at the input.                       *)
LEMMA LongestHere ==
  ASSUME FinderInv, InReach, NEW n \in Nat,
         \A p \in Window(at) : Lcp(at, p, Limit) <= n,
         n = 0 \/ \E p \in Window(at) : n = Lcp(at, p, Limit)
  PROVE  Longest(at) = n
<1> DEFINE seg == SegStart(start)
           W == {p \in 0 .. at - MinDistance : at - p <= MaxDistance}
           S == {0} \cup {Lcp(at, p, Limit) : p \in W}
<1>1. /\ InputTypeOK /\ start \in Nat /\ start < size /\ at \in Nat /\ start <= at
  BY DEF FinderInv, FinderTypeOK, ScanOK, InReach, Scanning
<1>2. /\ seg \in 0 .. start
      /\ seg = IF start >= MaxDistance THEN start - MaxDistance ELSE 0
      /\ MinDistance \in Nat \ {0} /\ MaxDistance \in Nat \ {0}
  BY <1>1, Bounds, Constants
<1>3. Limit \in Nat
  BY InReachFacts
<1>4. Window(at) = {p \in seg .. at - MinDistance : at - p <= MaxDistance}
  BY Zenon DEF Window
<1> HIDE DEF seg
<1>5. Window(at) = W
  <2>1. \A p : p \in W <=> p \in 0 .. at - MinDistance /\ at - p <= MaxDistance
    OBVIOUS
  <2>2. \A p : p \in Window(at) <=> p \in seg .. at - MinDistance /\ at - p <= MaxDistance
    BY <1>4
  <2> HIDE DEF W
  <2>3. \A p : p \in Window(at) <=> p \in W
    BY <1>1, <1>2, <2>1, <2>2
  <2>4. QED
    BY <2>3, <1>4 DEF W
<1>6. Longest(at) = Max(S)
  BY Zenon DEF Longest, Limit
<1>7. \A x : x \in S <=> x = 0 \/ \E p \in Window(at) : x = Lcp(at, p, Limit)
  BY <1>5
<1> HIDE DEF S, W
<1>8. /\ S \subseteq Int /\ S # {} /\ n \in Int /\ n \in S
      /\ \A x \in S : x <= n
  <2>1. \A p : Lcp(at, p, Limit) \in Int
    BY <1>3, LcpCommon
  <2>2. QED
    BY <1>7, <2>1
<1>9. Max(S) \in S /\ \A x \in S : x <= Max(S)
  BY <1>8, MaxBound, Zenon
<1>10. Max(S) \in Int /\ Max(S) <= n /\ n <= Max(S)
  BY <1>8, <1>9
<1>11. QED
  BY <1>6, <1>8, <1>10

(* A carried match of at least the limit is a longest one. *)
LEMMA CarriedLongest ==
  ASSUME FinderInv, InReach, NEW d, Repeats(at, Limit, d)
  PROVE  Longest(at) = Limit
<1>1. /\ Limit \in Nat /\ Limit > 0 /\ at \in Nat
      /\ MinDistance \in Nat \ {0} /\ MaxDistance \in Nat
      /\ start \in Nat /\ start <= at /\ InputTypeOK /\ start < size
  BY InReachFacts, Constants DEF FinderInv, FinderTypeOK, ScanOK, InReach, Scanning
<1>2. /\ d \in MinDistance .. MaxDistance /\ d <= at
      /\ \A j \in at .. at + Limit - 1 : input[j] = input[j - d]
  BY DEF Repeats
<1> DEFINE q == at - d
<1>3. q \in Nat /\ d \in Nat
  BY <1>1, <1>2
<1>4. \A i \in 0 .. Limit - 1 : input[at + i] = input[q + i]
  <2>1. SUFFICES ASSUME NEW i \in 0 .. Limit - 1 PROVE input[at + i] = input[q + i]
    OBVIOUS
  <2>2. at + i \in at .. at + Limit - 1 /\ (at + i) - d = q + i
    BY <1>1, <1>3
  <2>3. QED
    BY <1>2, <2>2
<1>5. q \in Window(at)
  <2>1. /\ SegStart(start) \in 0 .. start
        /\ SegStart(start) = IF start >= MaxDistance THEN start - MaxDistance ELSE 0
    BY <1>1, Bounds
  <2> DEFINE seg == SegStart(start)
  <2>2. Window(at) = {p \in seg .. at - MinDistance : at - p <= MaxDistance}
    BY Zenon DEF Window
  <2>3. seg \in 0 .. start /\ seg = IF start >= MaxDistance THEN start - MaxDistance ELSE 0
    BY <2>1
  <2> HIDE DEF seg
  <2>4. q \in seg .. at - MinDistance /\ at - q <= MaxDistance
    BY <1>1, <1>2, <2>3
  <2>5. QED
    BY <2>2, <2>4
<1> HIDE DEF q
<1>6. Lcp(at, q, Limit) = Limit
  <2>1. Lcp(at, q, Limit) \in 0 .. Limit /\ Limit <= Lcp(at, q, Limit)
    <3>1. Limit \in 0 .. Limit
      BY <1>1
    <3>2. /\ Lcp(at, q, Limit) \in 0 .. Limit
          /\ \A n \in 0 .. Limit :
               (\A i \in 0 .. n - 1 : input[at + i] = input[q + i])
                 => n <= Lcp(at, q, Limit)
      BY <1>1, LcpCommon
    <3>3. QED
      BY <1>4, <3>1, <3>2
  <2>2. QED
    BY <1>1, <2>1
<1>7. \A p \in Window(at) : Lcp(at, p, Limit) <= Limit
  <2>1. \A p : Lcp(at, p, Limit) \in 0 .. Limit
    BY <1>1, LcpCommon
  <2>2. QED
    BY <1>1, <2>1
<1>8. QED
  BY <1>1, <1>5, <1>6, <1>7, LongestHere

(* neighbors: what the two live ranks next to the position's have.         *)
LEMMA NeighborLongest ==
  ASSUME FinderInv, SortedOK, InReach
  PROVE  Neighbor(Slid).len = Longest(at)
<1> DEFINE seg == SegStart(start)
           g == Piece(input, seg, SegLen)
           R == RankOf(at)
           lower == Below(Slid, R)
           upper == Above(Slid, R)
           C(r) == IF r = NoRank THEN [len |-> 0, dis |-> 0]
                   ELSE LET from == seg + sa[r] IN
                          [len |-> Lcp(at, from, Limit), dis |-> at - from]
           common(r) == Lcp(at, seg + sa[r], Limit)
           n == Neighbor(Slid).len
<1>1. /\ InputTypeOK /\ start \in Nat /\ start < size /\ at \in Nat /\ start <= at
      /\ RankOK /\ Scanning
  BY DEF FinderInv, FinderTypeOK, ScanOK, InReach, Scanning
<1>2. /\ seg \in 0 .. start /\ size \in Nat /\ End \in start + 1 .. size
      /\ HardEnd \in Nat /\ HardEnd <= End /\ SegEnd(size, start) \in End .. size
      /\ MinDistance \in Nat \ {0} /\ MaxDistance \in Nat
  BY <1>1, Bounds, Constants, SizeRange
<1>3. Limit \in Nat /\ Limit > 0 /\ at + Limit <= HardEnd
  BY InReachFacts
<1>4. SegLen \in Nat /\ SegLen = SegEnd(size, start) - seg /\ seg \in Nat
  BY <1>1, <1>2 DEF SegLen
<1>5. /\ Sound(Slid) /\ Slid.l0 = {RankOf(p) : p \in Window(at)}
      /\ Slid.l0 \subseteq 0 .. SegLen - 1 /\ R \in 0 .. SegLen - 1
  BY <1>1, Slide
<1>6. n = IF C(upper).len > C(lower).len THEN C(upper).len ELSE C(lower).len
  BY Zenon DEF Neighbor
<1>7. C(NoRank).len = 0 /\ \A r : r # NoRank => C(r).len = common(r)
  OBVIOUS
<1> HIDE DEF C, n, lower, upper, R, g, seg
<1>8. \/ lower = NoRank /\ \A i \in Slid.l0 : i >= R
      \/ /\ lower \in Slid.l0 /\ lower < R
         /\ \A i \in Slid.l0 : i < R => i <= lower
  <2> DEFINE L == Slid.l0
  <2>1. L \subseteq 0 .. SegLen - 1
    BY <1>5
  <2> HIDE DEF L
  <2>2. UpTo(L, SegLen)
    BY <1>4, <2>1 DEF UpTo
  <2>3. UpTo(Slid.l0, SegLen)
    BY <2>2 DEF L
  <2>4. R \in Nat
    BY <1>4, <1>5
  <2>5. QED
    BY <1>4, <1>5, <2>3, <2>4, BelowIsHighest DEF lower
<1>9. \/ upper = NoRank /\ \A i \in Slid.l0 : i <= R
      \/ /\ upper \in Slid.l0 /\ upper > R
         /\ \A i \in Slid.l0 : i > R => i >= upper
  <2>1. R \in Nat
    BY <1>4, <1>5
  <2>2. QED
    BY <1>5, <2>1, AboveIsLowest DEF upper
\* The live ranks are those of the window.
<1>10. ASSUME NEW p \in Window(at)
       PROVE  /\ p \in Nat /\ p < at /\ seg <= p /\ RankOf(p) \in Slid.l0
              /\ sa[RankOf(p)] = p - seg /\ common(RankOf(p)) = Lcp(at, p, Limit)
              /\ RankOf(p) # R
  <2>1. p \in seg .. at - MinDistance /\ at - p <= MaxDistance
    BY Zenon DEF Window, seg
  <2>2. p \in Nat /\ p < at /\ seg <= p /\ p - seg \in 0 .. SegLen - 1
        /\ at - seg \in 0 .. SegLen - 1 /\ seg + (p - seg) = p /\ p - seg # at - seg
    BY <1>1, <1>2, <1>3, <1>4, <2>1
  <2>3. sa[RankOf(p)] = p - seg /\ sa[R] = at - seg
    BY <1>1, <2>2 DEF RankOK, RankOf, R, seg
  <2>4. common(RankOf(p)) = Lcp(at, p, Limit)
    BY <2>2, <2>3
  <2>5. RankOf(p) # R
    BY <2>2, <2>3
  <2>6. QED
    BY <1>5, <2>2, <2>3, <2>4, <2>5
\* In the segment the limit is not past its end.
<1>11. /\ sa[R] = at - seg /\ sa[R] \in 0 .. SegLen - 1 /\ seg + sa[R] = at
       /\ sa[R] + Limit <= SegLen
  <2>1. at - seg \in 0 .. SegLen - 1 /\ (at - seg) + Limit <= SegLen /\ seg + (at - seg) = at
    BY <1>1, <1>2, <1>3, <1>4
  <2>2. sa[R] = at - seg
    BY <1>1, <2>1 DEF RankOK, RankOf, R, seg
  <2>3. QED
    BY <2>1, <2>2
<1>12. ASSUME NEW r \in Slid.l0
       PROVE  /\ r \in 0 .. SegLen - 1 /\ r # NoRank /\ r # R
              /\ sa[r] \in 0 .. SegLen - 1 /\ sa[r] < sa[R]
              /\ \E p \in Window(at) : common(r) = Lcp(at, p, Limit)
  <2>1. PICK p \in Window(at) : r = RankOf(p)
    BY <1>5
  <2>2. /\ p \in Nat /\ p < at /\ sa[r] = p - seg /\ seg <= p /\ r # R
        /\ common(r) = Lcp(at, p, Limit)
    BY <1>10, <2>1
  <2>3. r \in 0 .. SegLen - 1 /\ r # NoRank
    BY <1>4, <1>5 DEF NoRank
  <2>4. p - seg \in 0 .. SegLen - 1 /\ p - seg < at - seg
    BY <1>1, <1>2, <1>4, <1>11, <2>2
  <2>5. QED
    BY <1>11, <2>2, <2>3, <2>4
<1>13. ASSUME NEW a \in 0 .. SegLen - 1, NEW b \in 0 .. SegLen - 1,
              NEW k \in Nat, a + k <= SegLen, b + k <= SegLen
       PROVE  Same(g, a, b, k) <=>
                \A i \in 0 .. k - 1 : input[(seg + a) + i] = input[(seg + b) + i]
  <2>1. \A i \in 0 .. k - 1 : /\ g[a + i] = input[(seg + a) + i]
                              /\ g[b + i] = input[(seg + b) + i]
    <3>1. SUFFICES ASSUME NEW i \in 0 .. k - 1
                   PROVE  /\ g[a + i] = input[(seg + a) + i]
                          /\ g[b + i] = input[(seg + b) + i]
      OBVIOUS
    <3>2. a + i \in 0 .. SegLen - 1 /\ b + i \in 0 .. SegLen - 1
      BY <1>4, <1>13
    <3>3. seg + (a + i) = (seg + a) + i /\ seg + (b + i) = (seg + b) + i
      BY <1>4
    <3>4. g[a + i] = input[seg + (a + i)] /\ g[b + i] = input[seg + (b + i)]
      BY <3>2 DEF g, Piece
    <3>5. QED
      BY <3>3, <3>4
  <2>2. QED
    BY <2>1 DEF Same
<1>14. Values(g, SegLen)
  <2>1. \A i \in 0 .. SegLen - 1 : seg + i \in 0 .. size - 1
    BY <1>2, <1>4
  <2>2. \A i \in 0 .. size - 1 : input[i] \in Nat
    BY <1>1, ParseAssumption DEF InputTypeOK, ParseConstraints
  <2>3. QED
    BY <2>1, <2>2 DEF Values, g, Piece
<1>15. \A r, q \in 0 .. SegLen - 1 : r < q => Precedes(g, SegLen, sa[r], sa[q])
  BY DEF SortedOK, g, seg
\* What a live rank has in common with the position, in the segment.
<1>16. ASSUME NEW r \in Slid.l0
       PROVE  /\ common(r) \in 0 .. Limit
              /\ Same(g, sa[r], sa[R], common(r)) /\ Same(g, sa[R], sa[r], common(r))
              /\ sa[r] + common(r) <= SegLen /\ sa[R] + common(r) <= SegLen
  <2> DEFINE k == common(r)
  <2>1. k \in 0 .. Limit /\ \A i \in 0 .. k - 1 : input[at + i] = input[(seg + sa[r]) + i]
    BY <1>3, LcpCommon
  <2> HIDE DEF k
  <2>2. /\ sa[r] \in 0 .. SegLen - 1 /\ sa[R] \in 0 .. SegLen - 1 /\ sa[r] < sa[R]
        /\ sa[R] + Limit <= SegLen /\ seg + sa[R] = at
    BY <1>11, <1>12
  <2>3. sa[r] + k <= SegLen /\ sa[R] + k <= SegLen /\ k \in Nat
    BY <1>3, <1>4, <2>1, <2>2
  <2>4. Same(g, sa[R], sa[r], k)
    BY <1>13, <2>1, <2>2, <2>3
  <2>5. Same(g, sa[r], sa[R], k)
    BY <2>4 DEF Same
  <2>6. QED
    BY <2>1, <2>3, <2>4, <2>5 DEF k
\* A rank between has at least as much.
<1>17. ASSUME NEW b \in Slid.l0, NEW k \in 0 .. Limit, Same(g, sa[R], sa[b], k)
       PROVE  k <= common(b)
  <2>1. /\ sa[b] \in 0 .. SegLen - 1 /\ sa[R] \in 0 .. SegLen - 1 /\ sa[b] < sa[R]
        /\ sa[R] + Limit <= SegLen /\ seg + sa[R] = at
    BY <1>11, <1>12
  <2>2. k \in Nat /\ sa[b] + k <= SegLen /\ sa[R] + k <= SegLen
    BY <1>3, <1>4, <2>1
  <2>3. \A i \in 0 .. k - 1 : input[at + i] = input[(seg + sa[b]) + i]
    BY <1>13, <1>17, <2>1, <2>2
  <2>4. QED
    BY <1>3, <2>3, LcpCommon
<1>18. ASSUME NEW r \in Slid.l0, r < R
       PROVE  lower \in Slid.l0 /\ common(r) <= common(lower)
  <2>1. lower \in Slid.l0 /\ r <= lower /\ lower < R
    BY <1>4, <1>5, <1>8, <1>18
  <2>2. CASE r = lower
    <3>1. common(r) \in 0 .. Limit
      BY <1>16
    <3>2. QED
      BY <1>3, <2>1, <2>2, <3>1
  <2>3. CASE r < lower
    <3>1. r \in 0 .. SegLen - 1 /\ lower \in 0 .. SegLen - 1 /\ R \in 0 .. SegLen - 1
      BY <1>5, <2>1
    <3>2. Precedes(g, SegLen, sa[r], sa[lower]) /\ Precedes(g, SegLen, sa[lower], sa[R])
      BY <1>15, <2>1, <2>3, <3>1
    <3>3. /\ sa[r] \in 0 .. SegLen - 1 /\ sa[lower] \in 0 .. SegLen - 1
          /\ sa[R] \in 0 .. SegLen - 1
      BY <1>11, <1>12, <2>1
    <3> DEFINE k == common(r)
    <3>4. /\ k \in 0 .. Limit /\ Same(g, sa[r], sa[R], k)
          /\ sa[r] + k <= SegLen /\ sa[R] + k <= SegLen
      BY <1>16
    <3> HIDE DEF k
    <3>5. k \in Nat
      BY <1>3, <3>4
    <3>6. Same(g, sa[lower], sa[R], k)
      BY <1>4, <1>14, <3>2, <3>3, <3>4, <3>5, Between
    <3>7. Same(g, sa[R], sa[lower], k)
      BY <3>6 DEF Same
    <3>8. k <= common(lower)
      BY <1>17, <2>1, <3>4, <3>7
    <3>9. QED
      BY <2>1, <3>8 DEF k
  <2>4. r \in Int /\ lower \in Int
    BY <1>4, <1>12, <2>1
  <2>5. QED
    BY <2>1, <2>2, <2>3, <2>4
<1>19. ASSUME NEW r \in Slid.l0, r > R
       PROVE  upper \in Slid.l0 /\ common(r) <= common(upper)
  <2>1. upper \in Slid.l0 /\ upper <= r /\ R < upper
    BY <1>4, <1>5, <1>9, <1>19
  <2>2. CASE r = upper
    <3>1. common(r) \in 0 .. Limit
      BY <1>16
    <3>2. QED
      BY <1>3, <2>1, <2>2, <3>1
  <2>3. CASE upper < r
    <3>1. r \in 0 .. SegLen - 1 /\ upper \in 0 .. SegLen - 1 /\ R \in 0 .. SegLen - 1
      BY <1>5, <2>1
    <3>2. Precedes(g, SegLen, sa[R], sa[upper]) /\ Precedes(g, SegLen, sa[upper], sa[r])
      BY <1>15, <2>1, <2>3, <3>1
    <3>3. /\ sa[r] \in 0 .. SegLen - 1 /\ sa[upper] \in 0 .. SegLen - 1
          /\ sa[R] \in 0 .. SegLen - 1
      BY <1>11, <1>12, <2>1
    <3> DEFINE k == common(r)
    <3>4. /\ k \in 0 .. Limit /\ Same(g, sa[R], sa[r], k)
          /\ sa[r] + k <= SegLen /\ sa[R] + k <= SegLen
      BY <1>16
    <3> HIDE DEF k
    <3>5. k \in Nat
      BY <1>3, <3>4
    <3>6. Same(g, sa[R], sa[upper], k)
      BY <1>4, <1>14, <3>2, <3>3, <3>4, <3>5, Between
    <3>7. k <= common(upper)
      BY <1>17, <2>1, <3>4, <3>6
    <3>8. QED
      BY <2>1, <3>7 DEF k
  <2>4. r \in Int /\ upper \in Int
    BY <1>4, <1>12, <2>1
  <2>5. QED
    BY <2>1, <2>2, <2>3, <2>4
<1>20. ASSUME NEW r \in Slid.l0 PROVE C(r).len = common(r) /\ common(r) \in 0 .. Limit
  BY <1>7, <1>12, <1>16
<1> HIDE DEF common
<1>21. /\ C(lower).len \in Nat
       /\ C(lower).len = 0 \/ \E p \in Window(at) : C(lower).len = Lcp(at, p, Limit)
  <2>1. CASE lower = NoRank
    BY <1>7, <2>1
  <2>2. CASE lower \in Slid.l0
    BY <1>3, <1>12, <1>20, <2>2
  <2>3. QED
    BY <1>8, <2>1, <2>2
<1>22. /\ C(upper).len \in Nat
       /\ C(upper).len = 0 \/ \E p \in Window(at) : C(upper).len = Lcp(at, p, Limit)
  <2>1. CASE upper = NoRank
    BY <1>7, <2>1
  <2>2. CASE upper \in Slid.l0
    BY <1>3, <1>12, <1>20, <2>2
  <2>3. QED
    BY <1>9, <2>1, <2>2
<1>23. /\ n \in Nat /\ C(lower).len <= n /\ C(upper).len <= n
       /\ n = 0 \/ \E p \in Window(at) : n = Lcp(at, p, Limit)
  BY <1>6, <1>21, <1>22
<1>24. ASSUME NEW p \in Window(at) PROVE Lcp(at, p, Limit) <= n
  <2> DEFINE r == RankOf(p)
  <2>1. r \in Slid.l0 /\ common(r) = Lcp(at, p, Limit) /\ r # R
    BY <1>10 DEF common
  <2> HIDE DEF r
  <2>2. CASE r < R
    <3>1. lower \in Slid.l0 /\ common(r) <= common(lower)
      BY <1>18, <2>1, <2>2
    <3>2. common(lower) = C(lower).len /\ common(r) \in 0 .. Limit
      BY <1>20, <2>1, <3>1
    <3>3. QED
      BY <1>3, <1>21, <1>23, <2>1, <3>1, <3>2
  <2>3. CASE r > R
    <3>1. upper \in Slid.l0 /\ common(r) <= common(upper)
      BY <1>19, <2>1, <2>3
    <3>2. common(upper) = C(upper).len /\ common(r) \in 0 .. Limit
      BY <1>20, <2>1, <3>1
    <3>3. QED
      BY <1>3, <1>22, <1>23, <2>1, <3>1, <3>2
  <2>4. r \in Int /\ R \in Int
    BY <1>4, <1>5, <2>1
  <2>5. QED
    BY <2>1, <2>2, <2>3, <2>4
<1>25. Longest(at) = n
  BY <1>23, <1>24, LongestHere
<1>26. QED
  BY <1>25 DEF n

(* What is the longest match of a position does not change in a block. *)
LEMMA LongestStays ==
  ASSUME UNCHANGED <<size, input, start>>, NEW p
  PROVE  LongestOrNone(p)' = LongestOrNone(p)
<1>1. /\ End' = End /\ MatchEnd' = MatchEnd /\ HardEnd' = HardEnd
  BY DEF End, MatchEnd, HardEnd
<1>2. Longest(p)' = Longest(p)
  <2>1. input' = input
    OBVIOUS
  <2>2. ASSUME NEW a, NEW b, NEW n PROVE Lcp(a, b, n)' = Lcp(a, b, n)
    BY <2>1 DEF Lcp
  <2>3. QED
    BY <1>1, <2>2 DEF Longest
<1>3. QED
  BY <1>1, <1>2, Zenon DEF LongestOrNone

LEMMA SortedStays ==
  ASSUME SortedOK, UNCHANGED <<size, input, start, sa>>
  PROVE  SortedOK'
<1>1. SegLen' = SegLen
  BY DEF SegLen
<1>2. QED
  BY <1>1, Zenon DEF SortedOK

LEMMA FindBlockFinds ==
  ASSUME FinderInv, FindBlock
  PROVE  FoundInv'
<1> DEFINE lo == SegStart(start)
           hi == SegEnd(size, start)
<1>1. /\ pc = "block" /\ start < size
      /\ sa' = Sort(input, lo, hi)
      /\ at' = start
      /\ UNCHANGED <<size, input, out, start>>
  BY DEF FindBlock
<1>2. /\ InputTypeOK /\ start \in Nat
  BY DEF FinderInv, FinderTypeOK
<1>3. /\ lo \in 0 .. start
      /\ End \in start + 1 .. size /\ hi \in End .. size
      /\ size \in Nat
  BY <1>1, <1>2, Bounds, SizeRange
<1>4. Sorts(sa', input, lo, hi)
  BY <1>1, SegmentSorted
<1>5. \A i \in lo .. hi - 1 : input[i] \in Nat
  <2>1. \A i \in 0 .. size - 1 : input[i] \in Nat
    BY <1>2, ParseAssumption DEF InputTypeOK, ParseConstraints
  <2> HIDE DEF lo, hi
  <2>2. lo .. hi - 1 \subseteq 0 .. size - 1
    BY <1>2, <1>3
  <2>3. QED
    BY <2>1, <2>2
<1>6. SortedOK'
  <2>1. SegLen' = hi - lo
    BY <1>1 DEF SegLen
  <2>2. /\ start' = start /\ size' = size /\ input' = input
        /\ SegStart(start') = lo
    BY <1>1
  <2> HIDE DEF lo, hi
  <2>3. lo \in Nat /\ hi \in Nat /\ lo < hi
    BY <1>2, <1>3
  <2>4. \A r, q \in 0 .. (hi - lo) - 1 :
          r < q => Precedes(Piece(input, lo, hi - lo), hi - lo, sa'[r], sa'[q])
    BY <1>4, <1>5, <2>3, SortedSegment
  <2>5. \A r, q \in 0 .. SegLen' - 1 :
          r < q => Precedes(Piece(input', lo, SegLen'), SegLen', sa'[r], sa'[q])
    BY <2>1, <2>2, <2>4
  <2>6. QED
    BY <2>2, <2>5, Zenon DEF SortedOK
<1>7. LongestOK'
  <2>1. start' .. at' - 1 = {}
    BY <1>1, <1>2
  <2>2. QED
    BY <2>1 DEF LongestOK
<1>8. QED
  BY <1>6, <1>7 DEF FoundInv

(* One turn of scan that stores the longest match of its position.         *)
LEMMA ScannedFinds ==
  ASSUME FinderInv, FoundInv, Scanning, Scanned(at - start, LongestOrNone(at))
  PROVE  FoundInv'
<1> DEFINE len == LongestOrNone(at)
<1>1. /\ maxLen' = [maxLen EXCEPT ![at - start] = len]
      /\ at' = at + 1
      /\ UNCHANGED <<size, input, out, pc, start, sa, rank>>
  BY DEF Scanned
<1>2. /\ pc = "scan" /\ at < End /\ at \in start .. End /\ start < size
      /\ MatchedOK /\ InputTypeOK /\ start \in Nat /\ at \in Nat
      /\ SortedOK /\ LongestOK
  BY DEF Scanning, FinderInv, FinderTypeOK, ScanOK, FoundInv
<1>3. End \in start + 1 .. size /\ size \in Nat
  BY <1>2, Bounds, SizeRange
<1>4. DOMAIN maxLen = 0 .. End - start - 1 /\ at - start \in DOMAIN maxLen
  BY <1>2, <1>3 DEF MatchedOK
<1>5. \A p : LongestOrNone(p)' = LongestOrNone(p)
  BY <1>1, LongestStays
<1>6. ASSUME NEW p \in start .. at PROVE maxLen'[p - start] = LongestOrNone(p)
  <2>1. CASE p = at
    BY <1>1, <1>4, <2>1
  <2>2. CASE p # at
    <3>1. p \in start .. at - 1 /\ p - start # at - start /\ p - start \in DOMAIN maxLen
      BY <1>2, <1>3, <1>4, <2>2
    <3>2. maxLen'[p - start] = maxLen[p - start]
      BY <1>1, <1>4, <3>1
    <3>3. QED
      BY <1>2, <3>1, <3>2 DEF LongestOK
  <2>3. QED
    BY <2>1, <2>2
<1>7. LongestOK'
  <2>1. start' .. at' - 1 = start .. at /\ start' = start
    BY <1>1, <1>2
  <2>2. QED
    BY <1>5, <1>6, <2>1, Zenon DEF LongestOK
<1>8. SortedOK'
  BY <1>1, <1>2, SortedStays
<1>9. QED
  BY <1>7, <1>8 DEF FoundInv

LEMMA ScanFinds ==
  ASSUME FinderInv, FoundInv, ScanTail \/ ScanCarried \/ ScanNone \/ ScanFound
  PROVE  FoundInv'
<1>1. Scanning /\ SortedOK
  BY DEF ScanTail, ScanCarried, ScanNone, ScanFound, InReach, Scanning, FoundInv
<1>2. CASE ScanTail
  <2>1. at + MinMatchLen > HardEnd /\ Scanned(at - start, 0)
    BY <1>2 DEF ScanTail
  <2>2. LongestOrNone(at) = 0
    BY <2>1 DEF LongestOrNone
  <2>3. QED
    BY <1>1, <2>1, <2>2, ScannedFinds
<1>3. CASE InReach
  <2>1. /\ at \in Nat /\ at + MinMatchLen <= HardEnd /\ HardEnd \in Nat
        /\ carry \in [len : Nat, dis : 0 .. MaxDistance]
        /\ carry.len > 0 => Repeats(at, carry.len, carry.dis)
        /\ Limit \in Nat /\ Limit > 0 /\ Limit \in MinMatchLen .. MaxMatchLen
        /\ MinMatchLen \in Nat /\ MaxMatchLen \in Nat
    BY <1>3, InReachFacts, Constants
  <2>2. LongestOrNone(at) = IF Longest(at) < MinMatchLen THEN 0 ELSE Longest(at)
    BY <2>1 DEF LongestOrNone
  <2>3. CASE ScanCarried
    <3>1. carry.len >= Limit /\ Scanned(at - start, Limit)
      BY <2>3 DEF ScanCarried
    <3>2. Repeats(at, Limit, carry.dis)
      <4>1. carry.len \in Nat /\ carry.len > 0 /\ Limit \in 0 .. carry.len
        BY <2>1, <3>1
      <4>2. QED
        BY <2>1, <4>1, RepeatsShorter
    <3>3. LongestOrNone(at) = Limit
      BY <1>3, <2>1, <2>2, <3>2, CarriedLongest
    <3>4. QED
      BY <1>1, <3>1, <3>3, ScannedFinds
  <2>4. CASE ScanNone
    <3>1. Neighbor(Slid).len < MinMatchLen /\ Scanned(at - start, 0)
      BY <2>4 DEF ScanNone
    <3>2. Neighbor(Slid).len = Longest(at)
      BY <1>1, <1>3, NeighborLongest
    <3>3. LongestOrNone(at) = 0
      BY <2>2, <3>1, <3>2
    <3>4. QED
      BY <1>1, <3>1, <3>3, ScannedFinds
  <2>5. CASE ScanFound
    <3>1. /\ Neighbor(Slid).len >= MinMatchLen
          /\ Scanned(at - start, Neighbor(Slid).len)
      BY <2>5, Zenon DEF ScanFound
    <3>2. Neighbor(Slid).len = Longest(at) /\ Neighbor(Slid).len \in 0 .. Limit
      BY <1>1, <1>3, NeighborLongest, NeighborRepeats
    <3>3. LongestOrNone(at) = Neighbor(Slid).len
      BY <2>1, <2>2, <3>1, <3>2
    <3>4. QED
      BY <1>1, <3>1, <3>3, ScannedFinds
  <2>6. CASE ScanTail
    BY <1>2, <2>6
  <2>7. QED
    BY <2>3, <2>4, <2>5, <2>6
<1>4. QED
  BY <1>2, <1>3 DEF ScanCarried, ScanNone, ScanFound

LEMMA FoundStays ==
  ASSUME FoundInv, UNCHANGED <<size, input, start, sa, at, maxLen>>,
         pc' \in {"scan", "parse"} => pc \in {"scan", "parse"}
  PROVE  FoundInv'
<1>1. SUFFICES ASSUME SortedOK, LongestOK PROVE SortedOK' /\ LongestOK'
  BY DEF FoundInv
<1>2. SortedOK'
  BY <1>1, SortedStays
<1>3. \A p : LongestOrNone(p)' = LongestOrNone(p)
  BY LongestStays
<1>4. LongestOK'
  BY <1>1, <1>3, Zenon DEF LongestOK
<1>5. QED
  BY <1>2, <1>4

LEMMA FindFinds ==
  ASSUME FinderInv, FoundInv, Find
  PROVE  FoundInv'
<1>1. CASE ScanEnd
  BY <1>1, FoundStays DEF ScanEnd, finderVars
<1>2. QED
  BY <1>1, FindBlockFinds, ScanFinds DEF Find

LEMMA FoundLongest ==
  ASSUME FinderInv, FoundInv
  PROVE  LongestMatch
<1> SUFFICES ASSUME pc \in {"scan", "parse"}, NEW p \in start .. at - 1
             PROVE  /\ maxLen[p - start] = LongestOrNone(p)
                    /\ maxLen[p - start] > 0 =>
                         TrueMatch(Match(p, maxLen[p - start], matchDis[p - start]))
  BY Zenon DEF LongestMatch, LongestOrNone
<1>1. maxLen[p - start] = LongestOrNone(p)
  BY DEF FoundInv, LongestOK
<1>2. \/ maxLen[p - start] = 0
      \/ Repeats(p, maxLen[p - start], matchDis[p - start])
  BY DEF FinderInv, ScanOK, MatchedOK, Usable
<1>3. ASSUME NEW len, NEW dis, Repeats(p, len, dis)
      PROVE  TrueMatch(Match(p, len, dis))
  BY <1>3 DEF Repeats, TrueMatch, Match
<1>4. QED
  BY <1>1, <1>2, <1>3

----------------------------------------------------------------------------
(* The parse. *)
ParseInv ==
  /\ pc \in {"block", "scan", "parse", "done"}
  /\ pos \in 0 .. size /\ lit \in 0 .. size
  /\ out \in Seq([pos : Nat, len : Nat, dis : Nat])
  /\ AbstractParse!Covered = lit
  /\ pc # "parse" => lit <= start
  /\ pc = "parse" => /\ start <= pos /\ lit <= pos
                     /\ pos = start \/ pos <= HardEnd

Inv == FinderInv /\ FoundInv /\ ParseInv

(* A step of level 3 keeps the invariant and is a step of Parse, if the     *)
(* format can encode its lengths.                                          *)
Good ==
  /\ Inv'
  /\ LengthConstraints => [AbstractParse!Next]_(AbstractParse!parseVars)

LEMMA InvTypeOK ==
  ASSUME Inv
  PROVE  TypeOK
<1>1. {pos, lit} \subseteq 0 .. size
  BY DEF Inv, ParseInv
<1>2. pc \in {"block", "done"} => lit <= start
  BY DEF Inv, ParseInv
<1>3. QED
  BY <1>1, <1>2 DEF Inv, ParseInv, FinderInv, TypeOK

(* What the parse may rely on, and leaves alone. *)
LEMMA Parsing ==
  ASSUME Inv, pc = "parse"
  PROVE  /\ InputTypeOK /\ size \in Nat /\ MatchEnd \in Nat
         /\ start \in Nat /\ start < size /\ at = End /\ End \in Nat
         /\ End <= size /\ End <= start + BlockSize
         /\ HardEnd \in Nat /\ HardEnd <= End /\ HardEnd <= MatchEnd
         /\ pos \in Nat /\ lit \in Nat /\ start <= pos /\ lit <= pos
<1>1. /\ InputTypeOK /\ start \in Nat /\ start < size /\ at = End
  BY DEF Inv, FinderInv, FinderTypeOK, ScanOK
<1>2. /\ size \in Nat /\ MatchEnd \in Nat
  BY <1>1, SizeRange
<1>3. QED
  BY <1>1, <1>2, Bounds DEF Inv, ParseInv

LEMMA ParsingKeeps ==
  ASSUME Inv, pc = "parse", UNCHANGED <<size, input, pc, start, finderVars>>
  PROVE  FinderInv' /\ FoundInv' /\ HardEnd' = HardEnd
<1>1. /\ UNCHANGED <<size, input, pc, start, sa, rank, live, at, carry, maxLen, matchDis>>
  BY DEF finderVars
<1>2. /\ start < size /\ at \in start .. End /\ at = End /\ RankOK /\ MatchedOK
      /\ InputTypeOK /\ FinderTypeOK /\ BlockOK
  BY DEF Inv, FinderInv, ScanOK
<1>3. End' = End /\ HardEnd' = HardEnd /\ SegLen' = SegLen
  BY <1>1 DEF End, HardEnd, MatchEnd, SegLen
<1>4. RankOK' /\ MatchedOK'
  BY <1>1, <1>2, <1>3 DEF RankOK, MatchedOK, Usable, Repeats
<1>5. FinderInv'
  BY <1>1, <1>2, <1>3, <1>4
     DEF FinderInv, InputTypeOK, FinderTypeOK, BlockOK, ScanOK, LiveWindow
<1>6. FoundInv'
  BY <1>1, FoundStays DEF Inv
<1>7. QED
  BY <1>3, <1>5, <1>6

LEMMA SearchGood ==
  ASSUME Inv, Search
  PROVE  Good
<1>1. /\ FinderInv' /\ FoundInv' /\ UNCHANGED <<size, input, out, lit>> /\ start' = start
      /\ pos' = (IF pc' = "parse" THEN start ELSE pos)
  <2>1. Find /\ pos' = (IF pc' = "parse" THEN start ELSE pos) /\ lit' = lit
    BY DEF Search
  <2>2. UNCHANGED <<size, input, out>> /\ start' = start
    BY <2>1 DEF Find, FindBlock, ScanTail, ScanCarried, ScanNone, ScanFound, ScanEnd, Scanned
  <2>3. QED
    BY <2>1, <2>2, FindKeeps, FindFinds DEF Inv
<1>2. pc \in {"block", "scan"} /\ pc' \in {"scan", "parse"}
  BY DEF Search, Find, FindBlock, ScanTail, ScanCarried, ScanNone, ScanFound, ScanEnd,
         Scanned, Scanning, InReach
<1>3. /\ start \in Nat /\ size \in Nat /\ pos \in Nat /\ lit \in Nat /\ lit <= start
      /\ lit \in 0 .. size /\ pos \in 0 .. size
  BY <1>2, SizeRange DEF Inv, ParseInv, FinderInv, FinderTypeOK
<1>4. pc' = "parse" => start < size
  BY <1>1 DEF FinderInv, ScanOK
<1>5. ParseInv'
  <2>1. pos' \in 0 .. size
    BY <1>1, <1>3, <1>4
  <2>2. AbstractParse!Covered' = AbstractParse!Covered
    BY <1>1 DEF AbstractParse!Covered
  <2>3. pc' = "parse" => pos' = start
    BY <1>1
  <2>4. QED
    BY <1>1, <1>2, <1>3, <2>1, <2>2, <2>3 DEF Inv, ParseInv
<1>6. (pc' = "done") = (pc = "done")
  BY <1>2
<1>7. QED
  BY <1>1, <1>5, <1>6 DEF Good, Inv, AbstractParse!parseVars

LEMMA SkipGood ==
  ASSUME Inv, Skip
  PROVE  Good
<1>1. /\ pc = "parse" /\ pos < HardEnd /\ pos' = pos + 1
      /\ UNCHANGED <<size, input, out, pc, start, finderVars, lit>>
  BY DEF Skip
<1>2. FinderInv' /\ FoundInv' /\ HardEnd' = HardEnd
  BY <1>1, ParsingKeeps
<1>3. /\ size \in Nat /\ HardEnd \in Nat /\ HardEnd <= size /\ start \in Nat
      /\ pos \in Nat /\ lit \in Nat /\ start <= pos /\ lit <= pos
  BY <1>1, Parsing
<1>4. AbstractParse!Covered' = AbstractParse!Covered
  BY <1>1 DEF AbstractParse!Covered
<1>5. ParseInv'
  <2>1. pos' \in 0 .. size /\ start <= pos' /\ lit <= pos' /\ pos' <= HardEnd
    BY <1>1, <1>3
  <2>2. QED
    BY <1>1, <1>2, <1>4, <2>1 DEF Inv, ParseInv
<1>6. QED
  BY <1>1, <1>2, <1>5 DEF Good, Inv, AbstractParse!parseVars

LEMMA EmitGood ==
  ASSUME Inv, Emit
  PROVE  Good
<1> DEFINE len == LenAt(pos)
           dis == matchDis[pos - start]
           m == Match(pos, len, dis)
<1>1. /\ pc = "parse" /\ pos < HardEnd /\ ~Skips
      /\ out' = Append(out, m) /\ pos' = pos + len /\ lit' = pos + len
      /\ UNCHANGED <<size, input, pc, start, finderVars>>
  BY DEF Emit
<1>2. FinderInv' /\ FoundInv' /\ HardEnd' = HardEnd
  BY <1>1, ParsingKeeps
<1>3. /\ size \in Nat /\ HardEnd \in Nat /\ HardEnd <= size /\ HardEnd <= MatchEnd
      /\ MatchEnd \in Nat /\ start \in Nat /\ at = End /\ HardEnd <= End /\ End \in Nat
      /\ pos \in Nat /\ lit \in Nat /\ start <= pos /\ lit <= pos
  BY <1>1, Parsing
<1>4. /\ MinMatchLen \in Nat \ {0} /\ MaxMatchLen \in Nat /\ MinDistance \in Nat
      /\ MaxDistance \in Nat
  BY Constants
<1>5. Usable(pos, len, dis)
  <2>1. pos \in start .. at - 1
    BY <1>1, <1>3
  <2>2. maxLen[pos - start] = 0 \/ Usable(pos, maxLen[pos - start], matchDis[pos - start])
    BY <1>1, <2>1 DEF Inv, FinderInv, ScanOK, MatchedOK
  <2>3. ~(len < MinMatchLen)
    BY <1>1, Zenon DEF Skips
  <2>4. QED
    BY <1>4, <2>2, <2>3 DEF LenAt
<1> HIDE DEF len, dis
<1>6. /\ len \in MinMatchLen .. MaxMatchLen /\ pos + len <= HardEnd
      /\ dis \in MinDistance .. MaxDistance /\ dis <= pos
      /\ \A j \in pos .. pos + len - 1 : input[j] = input[j - dis]
  BY <1>5 DEF Usable, Repeats
<1>7. len \in Nat /\ dis \in Nat
  BY <1>4, <1>6
<1>8. /\ m.pos = pos /\ m.len = len /\ m.dis = dis
      /\ m \in [pos : Nat, len : Nat, dis : Nat]
  BY <1>3, <1>7 DEF Match
<1> HIDE DEF m
<1>9. /\ out' \in Seq([pos : Nat, len : Nat, dis : Nat])
      /\ out' # <<>> /\ out'[Len(out')] = m
  BY <1>1, <1>8 DEF Inv, ParseInv
<1>10. AbstractParse!Covered' = lit'
  BY <1>1, <1>8, <1>9 DEF AbstractParse!Covered
<1>11. ParseInv'
  <2>1. /\ pos' \in 0 .. size /\ lit' \in 0 .. size /\ start <= pos' /\ lit' <= pos'
        /\ pos' <= HardEnd
    BY <1>1, <1>3, <1>6, <1>7
  <2>2. QED
    BY <1>1, <1>2, <1>9, <1>10, <2>1 DEF Inv, ParseInv
<1>12. ASSUME LengthConstraints PROVE AbstractParse!Emit(m)
  <2>1. AbstractParse!Covered = lit
    BY DEF Inv, ParseInv
  <2>2. AbstractParse!TrueMatch(m) /\ AbstractParse!MatchEnd = MatchEnd
    BY <1>6, <1>8 DEF AbstractParse!TrueMatch, AbstractParse!MatchEnd, MatchEnd
  <2>3. m.pos >= lit /\ m.pos + m.len <= MatchEnd /\ m.len \in MatchLens
    BY <1>3, <1>6, <1>7, <1>8, <1>12 DEF LengthConstraints
  <2>4. pc # "done" /\ UNCHANGED <<size, input, pc>> /\ out' = Append(out, m)
    BY <1>1
  <2>5. QED
    BY <2>1, <2>2, <2>3, <2>4 DEF AbstractParse!Emit
<1>13. ASSUME LengthConstraints PROVE AbstractParse!Next
  <2>0. len \in MatchLens
    BY <1>6, <1>13 DEF LengthConstraints
  <2>1. pos \in 0 .. size
    BY <1>1, <1>3
  <2>2. AbstractParse!Match(pos, len, dis) = m
    BY DEF AbstractParse!Match, Match, m
  <2>3. QED
    BY <1>6, <1>7, <1>12, <1>13, <2>0, <2>1, <2>2 DEF AbstractParse!Next
<1>14. QED
  BY <1>2, <1>11, <1>13 DEF Good, Inv

LEMMA EndBlockGood ==
  ASSUME Inv, EndBlock
  PROVE  Good
<1>1. /\ pc = "parse" /\ pc' = "block" /\ start' = start + BlockSize
      /\ UNCHANGED <<size, input, out, sa, rank, live, at, carry, maxLen, matchDis, pos, lit>>
  BY DEF EndBlock, finderVars
<1>2. /\ start \in Nat /\ End \in Nat /\ End <= start + BlockSize /\ HardEnd <= End
      /\ HardEnd \in Nat /\ pos \in Nat /\ lit \in Nat /\ lit <= pos
  BY <1>1, Parsing
<1>3. BlockSize \in Nat
  BY Constants
<1>4. BlockOK'
  <2>1. PICK k \in Nat : start = k * BlockSize
    BY DEF Inv, FinderInv, BlockOK
  <2>2. (k + 1) * BlockSize = k * BlockSize + BlockSize
    BY <1>3
  <2>3. k + 1 \in Nat /\ start' = (k + 1) * BlockSize
    BY <1>1, <2>1, <2>2
  <2>4. QED
    BY <1>1, <2>3 DEF BlockOK
<1>5. FinderInv'
  BY <1>1, <1>2, <1>3, <1>4
     DEF Inv, FinderInv, InputTypeOK, FinderTypeOK, ScanOK, LiveWindow
<1>6. lit <= start'
  BY <1>1, <1>2, <1>3 DEF Inv, ParseInv
<1>7. AbstractParse!Covered' = AbstractParse!Covered
  BY <1>1 DEF AbstractParse!Covered
<1>8. ParseInv'
  BY <1>1, <1>6, <1>7 DEF Inv, ParseInv
<1>9. FoundInv'
  BY <1>1 DEF FoundInv
<1>10. QED
  BY <1>1, <1>5, <1>8, <1>9 DEF Good, Inv, AbstractParse!parseVars

LEMMA FinishGood ==
  ASSUME Inv, Finish
  PROVE  Good
<1>1. /\ pc = "block" /\ pc' = "done"
      /\ UNCHANGED <<size, input, out, start, sa, rank, live, at, carry, maxLen,
                     matchDis, pos, lit>>
  BY DEF Finish, finderVars
<1>2. FinderInv' /\ FoundInv'
  BY <1>1 DEF Inv, FinderInv, FoundInv, InputTypeOK, FinderTypeOK, BlockOK, ScanOK, LiveWindow
<1>3. ParseInv'
  BY <1>1 DEF Inv, ParseInv, AbstractParse!Covered
<1>4. AbstractParse!Next
  BY <1>1 DEF AbstractParse!Next, AbstractParse!Finish
<1>5. QED
  BY <1>2, <1>3, <1>4 DEF Good, Inv

LEMMA StepKeeps ==
  ASSUME Inv, [Next]_vars
  PROVE  Good
<1>1. CASE UNCHANGED vars
  <2>1. UNCHANGED <<size, input, out, pc, start, sa, rank, live, at, carry, maxLen,
                    matchDis, pos, lit>>
    BY <1>1 DEF vars, finderVars
  <2>2. UNCHANGED <<End, HardEnd, SegLen, RankOK, MatchedOK, CarryOK>>
    BY <2>1 DEF End, HardEnd, MatchEnd, SegLen, RankOK, MatchedOK, Usable, Repeats, CarryOK
  <2>3. UNCHANGED LiveWindow
    BY <2>1 DEF LiveWindow, RankOf, Window
  <2>4. FinderInv'
    BY <2>1, <2>2, <2>3 DEF Inv, FinderInv, InputTypeOK, FinderTypeOK, BlockOK, ScanOK
  <2>5. ParseInv'
    BY <2>1, <2>2 DEF Inv, ParseInv, AbstractParse!Covered
  <2>6. FoundInv'
    BY <2>1, FoundStays DEF Inv
  <2>7. QED
    BY <2>1, <2>4, <2>5, <2>6 DEF Good, Inv, AbstractParse!parseVars
<1>2. QED
  BY <1>1, SearchGood, SkipGood, EmitGood, EndBlockGood, FinishGood DEF Next, Returned

LEMMA InitInv ==
  ASSUME Init
  PROVE  Inv
<1>1. /\ InputTypeOK /\ out = <<>> /\ FinderInit /\ pos = 0 /\ lit = 0
      /\ pc = "block" /\ start = 0 /\ at = 0 /\ sa = <<>> /\ live = EmptySet
      /\ carry = NoCarry
  BY DEF Init, InputInit, InputTypeOK, FinderInit
<1>2. /\ size \in Nat /\ MaxDistance \in Nat /\ BlockSize \in Nat \ {0}
      /\ MinMatchLen \in Nat /\ MaxMatchLen \in Nat /\ MinMatchLen <= MaxMatchLen
  BY <1>1, Constants, SizeRange
<1>3. /\ DOMAIN maxLen = DOMAIN matchDis
      /\ \A i \in DOMAIN maxLen : maxLen[i] \in {0} \cup (MinMatchLen .. MaxMatchLen)
  <2>1. CASE maxLen = <<>> /\ matchDis = <<>>
    BY <2>1
  <2>2. CASE /\ maxLen = [i \in 0 .. BlockSize - 1 |-> MaxMatchLen]
             /\ matchDis = [i \in 0 .. BlockSize - 1 |-> MinDistance]
    BY <1>2, <2>2
  <2>3. QED
    BY <1>1, <2>1, <2>2 DEF FinderInit
<1>4. FinderTypeOK
  BY <1>1, <1>2, <1>3 DEF FinderTypeOK, EmptySet, LiveSet, NoCarry
<1>5. BlockOK
  BY <1>1, <1>2 DEF BlockOK
<1>6. FinderInv /\ FoundInv
  BY <1>1, <1>4, <1>5 DEF FinderInv, FoundInv, ScanOK, LiveWindow
<1>7. ParseInv
  BY <1>1, <1>2 DEF ParseInv, AbstractParse!Covered
<1>8. QED
  BY <1>6, <1>7 DEF Inv

----------------------------------------------------------------------------
(* The invariant holds throughout a run of level 3. *)
THEOREM Invariance == Spec => []Inv
<1>1. Inv /\ [Next]_vars => Inv'
  BY StepKeeps DEF Good
<1>2. QED
  BY <1>1, InitInv, PTL DEF Spec

(* The buffers and cursors of sa.rs and optimal.rs stay in their ranges.   *)
THEOREM TypeCorrect == Spec => []TypeOK
<1>1. Inv => TypeOK
  BY InvTypeOK
<1>2. QED
  BY <1>1, Invariance, PTL

(* The live set of sa.rs holds the ranks of the distance window and its    *)
(* three levels agree, whatever was set and cleared before.                *)
THEOREM WindowExact == Spec => []LiveWindow
<1>1. Inv => LiveWindow
  BY DEF Inv, FinderInv
<1>2. QED
  BY <1>1, Invariance, PTL

(* Each position of a block gets the longest match of its window from the  *)
(* scan of sa.rs, though only the two neighbors in rank are compared and   *)
(* a carried match is not compared at all.                                 *)
THEOREM LongestFound == Spec => []LongestMatch
<1>1. Inv => LongestMatch
  BY FoundLongest DEF Inv
<1>2. QED
  BY <1>1, Invariance, PTL

(* The matches of optimal.rs, found or carried, are what Parse promises    *)
(* the stream writer: true, in order, encodable, before the raw suffix.    *)
THEOREM Implements ==
  ASSUME LengthConstraints
  PROVE  Spec => ImplementsParse
<1>1. Init => AbstractParse!Init
  BY DEF Init, FinderInit, AbstractParse!Init, InputInit, AbstractParse!InputInit
<1>2. LengthConstraints /\ Inv /\ [Next]_vars
        => [AbstractParse!Next]_(AbstractParse!parseVars)
  BY StepKeeps DEF Good
<1>3. LengthConstraints
  OBVIOUS
<1>4. LengthConstraints => []LengthConstraints
  BY PTL DEF LengthConstraints
<1>5. Spec => AbstractParse!Spec
  BY <1>1, <1>2, <1>3, <1>4, Invariance, PTL DEF Spec, AbstractParse!Spec
<1>6. QED
  BY <1>5 DEF ImplementsParse

----------------------------------------------------------------------------
(* Level 4.  A source is a position from which a literal run may begin:    *)
(* the frontier, and every position of the block reached by a match.       *)
Costs ==
  [q \in {frontier.pos} \cup {p \in start .. End : dp[p - start] # Inf} |->
     IF q = frontier.pos THEN frontier.cost ELSE dp[q - start]]

\* What any parse costs at most, per position.
Lim(p) == HeaderCost + p * (TokenCost + 2)

\* The lengths a token can have.
Enc == {LenOf[c] : c \in Codes \ {0}}

RunCost(n) == n + Extras(n)

\* A token at m whose literals begin at the source o of costs c.
CostFrom(c, o, m) == c[o] + RunCost(m - o) + TokenCost

FrontierOK ==
  /\ frontier.pos \in 0 .. start /\ frontier.pos <= MatchEnd
  /\ frontier.cost \in HeaderCost .. Lim(frontier.pos)

BlockHeld ==
  /\ start < size /\ at = End /\ MatchedOK
  /\ DOMAIN dp = 0 .. BlockLen + RelaxWindow - 1
  /\ DOMAIN arrivalLen = DOMAIN dp
  /\ idx \in 0 .. BlockLen + 1

(* What backtrack will find at block position k: a length that was found   *)
(* where the match starts, and a source that explains the cost.            *)
Arrived(k) ==
  LET a == arrivalLen[k]
      m == start + (k - a)
  IN  /\ k <= BlockLen /\ start + k <= MatchEnd
      /\ a \in Enc /\ a <= k /\ k - a < idx
      /\ a <= maxLen[k - a]
      /\ dp[k] \in HeaderCost .. Lim(start + k)
      /\ \E o \in DOMAIN Costs : o <= m /\ dp[k] = CostFrom(Costs, o, m)

CostsOK ==
  /\ dp[0] = IF start = 0 THEN frontier.cost ELSE Inf
  /\ \A k \in DOMAIN dp : k > 0 /\ dp[k] # Inf => Arrived(k)

\* The position where the literal run of the relaxation ends.
LitPos == IF idx = 0 THEN start ELSE start + (idx - 1)

LitsOK ==
  /\ lits.run \in 0 .. LitPos
  /\ LitPos - lits.run \in DOMAIN Costs
  /\ lits = LiteralRun(lits.run, Costs[LitPos - lits.run])

CommitOK ==
  /\ commit.pos \in DOMAIN Costs
  /\ commit.cost = Costs[commit.pos]

EndOf(t) == t.pos + t.len

(* Where the literals of the nth token of a walk begin: tokens are found   *)
(* last first, and the walk is at position to.                             *)
After(ts, to, n) == IF n < Len(ts) THEN EndOf(ts[n + 1]) ELSE to

\* A token for input f whose matches end at e, with literals from o.
TokenOK(t, f, e, c, o) ==
  /\ t.len \in Enc /\ EndOf(t) <= e
  /\ t.dis \in MinDistance .. MaxDistance /\ t.dis <= t.pos
  /\ \A j \in t.pos .. EndOf(t) - 1 : f[j] = f[j - t.dis]
  /\ o <= t.pos
  /\ EndOf(t) \in DOMAIN c
  /\ c[EndOf(t)] = CostFrom(c, o, t.pos)

Walked(ts, to, f, e, c) ==
  \A n \in 1 .. Len(ts) : TokenOK(ts[n], f, e, c, After(ts, to, n))

\* The walk goes down to the frontier, the emission up from it.
Target == IF pc = "emit" THEN AbstractParse!Covered ELSE boundary

Tokens == Seq([pos : Nat, len : Nat, dis : Nat])

WalkOK ==
  /\ tokens \in Tokens
  /\ Target \in DOMAIN Costs
  /\ commit.pos = IF tokens = <<>> THEN Target ELSE EndOf(tokens[1])
  /\ Walked(tokens, Target, input, MatchEnd, Costs)

(* What the tokens of s cost, one after the other. *)
StartOf(s, k) == IF k = 1 THEN 0 ELSE EndOf(s[k - 1])

Bill(s, paid) ==
  paid = [k \in 0 .. Len(s) |->
            IF k = 0 THEN HeaderCost
            ELSE paid[k - 1] + RunCost(s[k].pos - StartOf(s, k)) + TokenCost]

Billed(s, cost) == \E paid : Bill(s, paid) /\ paid[Len(s)] = cost

BillOK ==
  Billed(out, IF pc = "emit" THEN Costs[AbstractParse!Covered] ELSE frontier.cost)

HeavyInv ==
  /\ FinderInv
  /\ pc \in Pcs \ {"failed"}
  /\ FrontierOK
  /\ out \in Tokens
  /\ boundary \in 0 .. MatchEnd
  /\ pc # "emit" => AbstractParse!Covered = frontier.pos
  /\ pc \in {"relax", "back", "emit"} => BlockHeld /\ CostsOK
  /\ pc = "relax" => LitsOK
  /\ pc \in {"back", "emit"} => CommitOK /\ WalkOK
  /\ BillOK

(* A step of level 4 keeps the invariant and is a step of Parse.           *)
HeavyGood == HeavyInv' /\ [AbstractParse!Next]_(AbstractParse!parseVars)

(* Division, for the provers. *)
LEMMA Divides ==
  ASSUME NEW d \in Nat \ {0}, NEW n \in Nat
  PROVE  /\ n \div d \in Nat /\ n % d \in 0 .. d - 1
         /\ n = d * (n \div d) + (n % d)
<1>1. n \div d \in Nat
  OBVIOUS
<1>2. n % d \in 0 .. d - 1
  OBVIOUS
<1>3. n = d * (n \div d) + (n % d)
  OBVIOUS
<1>4. QED
  BY <1>1, <1>2, <1>3

LEMMA DivisionUnique ==
  ASSUME NEW d \in Nat \ {0}, NEW q \in Nat, NEW p \in Nat,
         NEW r \in 0 .. d - 1, NEW s \in 0 .. d - 1, d * q + r = d * p + s
  PROVE  q = p /\ r = s
<1>1. ASSUME NEW a \in Nat, NEW b \in Nat, NEW x \in 0 .. d - 1, NEW y \in 0 .. d - 1,
             d * a + x = d * b + y, a < b
      PROVE  FALSE
  <2>1. a + 1 <= b
    BY <1>1
  <2>2. d * (a + 1) <= d * b
    BY <2>1
  <2>3. d * (a + 1) = d * a + d /\ d * a \in Nat /\ d * b \in Nat
    OBVIOUS
  <2>4. QED
    BY <1>1, <2>2, <2>3
<1>2. q = p
  BY <1>1
<1>3. QED
  BY <1>2

LEMMA Quotient ==
  ASSUME NEW d \in Nat \ {0}, NEW q \in Nat, NEW r \in 0 .. d - 1
  PROVE  (d * q + r) \div d = q /\ (d * q + r) % d = r
<1> DEFINE n == d * q + r
<1>1. n \in Nat
  OBVIOUS
<1>2. n \div d \in Nat /\ n % d \in 0 .. d - 1 /\ n = d * (n \div d) + (n % d)
  BY <1>1, Divides
<1> HIDE DEF n
<1> DEFINE p == n \div d
           s == n % d
<1>3. p \in Nat /\ s \in 0 .. d - 1 /\ d * q + r = d * p + s
  BY <1>2 DEF n
<1> HIDE DEF p, s
<1>4. q = p /\ r = s
  BY <1>3, DivisionUnique
<1>5. QED
  BY <1>4 DEF n, p, s

LEMMA CostFacts ==
  ASSUME CostConstraints
  PROVE  /\ TokenCost \in Nat /\ HeaderCost \in Nat /\ RelaxWindow \in Nat /\ Inf \in Nat
         /\ TokenLitMax \in Nat \ {0} /\ ExtMax \in Nat \ {0} /\ TokenLitMax <= ExtMax
         /\ MaxMatchLen < RelaxWindow
BY DEF CostConstraints

(* literal_extras of a run: no more than the run. *)
LEMMA ExtrasFacts ==
  ASSUME CostConstraints, NEW n \in Nat
  PROVE  /\ Extras(n) \in Nat /\ Extras(n) <= n
         /\ RunCost(n) \in n .. n + n
<1>1. TokenLitMax \in Nat \ {0} /\ ExtMax \in Nat \ {0}
  BY CostFacts
<1>2. Extras(n) \in Nat /\ Extras(n) <= n
  <2>1. CASE n < TokenLitMax
    BY <2>1 DEF Extras
  <2>2. CASE ~(n < TokenLitMax)
    <3> DEFINE d == n - TokenLitMax
               q == d \div ExtMax
    <3>1. d \in Nat /\ d + 1 <= n
      BY <1>1, <2>2
    <3>2. q \in Nat /\ d = ExtMax * q + (d % ExtMax) /\ d % ExtMax \in Nat
      <4> HIDE DEF d
      <4>1. QED
        BY <1>1, <3>1, Divides
    <3> HIDE DEF d, q
    <3>3. q <= ExtMax * q /\ ExtMax * q \in Nat
      <4>1. 1 * q <= ExtMax * q
        BY <1>1, <3>2
      <4>2. QED
        BY <1>1, <3>2, <4>1
    <3>4. q <= d
      BY <3>1, <3>2, <3>3
    <3>5. Extras(n) = 1 + q
      BY <2>2 DEF Extras, q, d
    <3>6. QED
      BY <3>1, <3>2, <3>4, <3>5
  <2>3. QED
    BY <2>1, <2>2
<1>3. QED
  BY <1>2 DEF RunCost

(* advance keeps a run that it does not restart what new would give it. *)
Longer(l) ==
  LET extra == IF l.run + 1 >= l.next THEN 1 ELSE 0
  IN  [run |-> l.run + 1, cost |-> l.cost + 1 + extra,
       next |-> IF extra = 1 THEN l.run + 1 + ExtMax ELSE l.next]

LEMMA RunNext ==
  ASSUME CostConstraints, NEW r \in Nat, NEW b \in Nat
  PROVE  /\ LiteralRun(r, b).run = r
         /\ LiteralRun(r, b).cost = b + RunCost(r)
         /\ LiteralRun(r, b).next \in Nat /\ LiteralRun(r, b).next > r
<1>1. TokenLitMax \in Nat \ {0} /\ ExtMax \in Nat \ {0}
  BY CostFacts
<1>2. /\ LiteralRun(r, b).run = r
      /\ LiteralRun(r, b).cost = b + r + Extras(r)
      /\ LiteralRun(r, b).next = IF r < TokenLitMax THEN TokenLitMax
                                 ELSE r + ExtMax - ((r - TokenLitMax) % ExtMax)
  BY DEF LiteralRun
<1>3. b + r + Extras(r) = b + RunCost(r)
  BY ExtrasFacts DEF RunCost
<1>4. LiteralRun(r, b).next \in Nat /\ LiteralRun(r, b).next > r
  <2>1. CASE r < TokenLitMax
    BY <1>1, <1>2, <2>1
  <2>2. CASE ~(r < TokenLitMax)
    <3> DEFINE d == r - TokenLitMax
               s == d % ExtMax
    <3>1. d \in Nat
      BY <1>1, <2>2
    <3>2. s \in 0 .. ExtMax - 1
      BY <1>1, <3>1, Divides
    <3> HIDE DEF d
    <3>3. LiteralRun(r, b).next = r + ExtMax - s
      BY <1>2, <2>2 DEF d
    <3> HIDE DEF s
    <3>4. QED
      BY <1>1, <3>2, <3>3
  <2>3. QED
    BY <2>1, <2>2
<1>5. QED
  BY <1>2, <1>3, <1>4

LEMMA ExtrasNext ==
  ASSUME CostConstraints, NEW r \in Nat, r >= TokenLitMax
  PROVE  LET s == (r - TokenLitMax) % ExtMax IN
         /\ s \in 0 .. ExtMax - 1
         /\ s = ExtMax - 1 => /\ Extras(r + 1) = Extras(r) + 1
                              /\ ((r + 1) - TokenLitMax) % ExtMax = 0
         /\ s # ExtMax - 1 => /\ Extras(r + 1) = Extras(r)
                              /\ ((r + 1) - TokenLitMax) % ExtMax = s + 1
<1> DEFINE d == r - TokenLitMax
           q == d \div ExtMax
           s == d % ExtMax
<1>1. TokenLitMax \in Nat \ {0} /\ ExtMax \in Nat \ {0}
  BY CostFacts
<1>2. d \in Nat /\ (r + 1) - TokenLitMax = d + 1 /\ ~(r < TokenLitMax)
      /\ ~(r + 1 < TokenLitMax)
  BY <1>1
<1>3. Extras(r) = 1 + d \div ExtMax /\ Extras(r + 1) = 1 + (d + 1) \div ExtMax
  <2>1. Extras(r) = 1 + d \div ExtMax
    BY <1>2, Zenon DEF Extras
  <2>2. Extras(r + 1) = 1 + ((r + 1) - TokenLitMax) \div ExtMax
    BY <1>2, Zenon DEF Extras
  <2>3. QED
    BY <1>2, <2>1, <2>2
<1> HIDE DEF d
<1>4. q \in Nat /\ s \in 0 .. ExtMax - 1 /\ d = ExtMax * q + s
  BY <1>1, <1>2, Divides
<1> HIDE DEF q, s
<1>5. CASE s = ExtMax - 1
  <2>1. d + 1 = ExtMax * (q + 1) + 0
    BY <1>1, <1>4, <1>5
  <2>2. (d + 1) \div ExtMax = q + 1 /\ (d + 1) % ExtMax = 0
    <3>1. q + 1 \in Nat /\ 0 \in 0 .. ExtMax - 1
      BY <1>1, <1>4
    <3>2. /\ (ExtMax * (q + 1) + 0) \div ExtMax = q + 1
          /\ (ExtMax * (q + 1) + 0) % ExtMax = 0
      BY <1>1, <3>1, Quotient
    <3>3. QED
      BY <2>1, <3>2, Zenon
  <2>3. QED
    BY <1>2, <1>3, <1>4, <1>5, <2>2 DEF d, q, s
<1>6. CASE s # ExtMax - 1
  <2>1. d + 1 = ExtMax * q + (s + 1)
    BY <1>1, <1>4, <1>6
  <2>2. (d + 1) \div ExtMax = q /\ (d + 1) % ExtMax = s + 1
    <3>1. s + 1 \in 0 .. ExtMax - 1
      BY <1>1, <1>4, <1>6
    <3>2. QED
      BY <1>1, <1>4, <2>1, <3>1, Quotient
  <2>3. QED
    BY <1>2, <1>3, <1>4, <1>6, <2>2 DEF d, q, s
<1>7. QED
  BY <1>5, <1>6 DEF d, s

LEMMA RunLonger ==
  ASSUME CostConstraints, NEW r \in Nat, NEW b \in Nat
  PROVE  Longer(LiteralRun(r, b)) = LiteralRun(r + 1, b)
<1> DEFINE l == LiteralRun(r, b)
           extra == IF l.run + 1 >= l.next THEN 1 ELSE 0
           next == IF r < TokenLitMax THEN TokenLitMax
                   ELSE r + ExtMax - ((r - TokenLitMax) % ExtMax)
           then == IF r + 1 < TokenLitMax THEN TokenLitMax
                   ELSE r + 1 + ExtMax - (((r + 1) - TokenLitMax) % ExtMax)
<1>1. /\ TokenLitMax \in Nat \ {0} /\ ExtMax \in Nat \ {0}
      /\ Extras(r) \in Nat /\ Extras(r + 1) \in Nat
  BY CostFacts, ExtrasFacts
<1>2. /\ l.run = r /\ l.cost = b + r + Extras(r) /\ l.next = next
  BY DEF LiteralRun
<1>3. LiteralRun(r + 1, b) =
        [run |-> r + 1, cost |-> b + (r + 1) + Extras(r + 1), next |-> then]
  BY Zenon DEF LiteralRun
<1>4. Longer(l) = [run |-> l.run + 1, cost |-> l.cost + 1 + extra,
                   next |-> IF extra = 1 THEN l.run + 1 + ExtMax ELSE l.next]
  BY Zenon DEF Longer
<1> HIDE DEF l
<1>5. /\ extra \in {0, 1} /\ Extras(r + 1) = Extras(r) + extra
      /\ then = IF extra = 1 THEN r + 1 + ExtMax ELSE next
  <2>1. CASE r + 1 < TokenLitMax
    <3>1. next = TokenLitMax /\ then = TokenLitMax /\ extra = 0
      BY <1>1, <1>2, <2>1
    <3>2. Extras(r + 1) = 0 /\ Extras(r) = 0
      BY <1>1, <2>1 DEF Extras
    <3>3. QED
      BY <3>1, <3>2
  <2>2. CASE r + 1 = TokenLitMax
    <3>1. next = TokenLitMax /\ extra = 1
      BY <1>1, <1>2, <2>2
    <3>2. 0 \div ExtMax = 0 /\ 0 % ExtMax = 0 /\ (r + 1) - TokenLitMax = 0
      BY <1>1, <2>2
    <3>3. Extras(r + 1) = 1 /\ Extras(r) = 0
      <4>1. Extras(r + 1) = 1 + ((r + 1) - TokenLitMax) \div ExtMax
        BY <1>1, <2>2 DEF Extras
      <4>2. Extras(r) = 0
        BY <1>1, <2>2 DEF Extras
      <4>3. QED
        BY <3>2, <4>1, <4>2
    <3>4. then = r + 1 + ExtMax
      <4>1. then = r + 1 + ExtMax - (((r + 1) - TokenLitMax) % ExtMax)
        BY <1>1, <2>2
      <4> HIDE DEF then
      <4>2. QED
        BY <1>1, <3>2, <4>1
    <3>5. QED
      BY <3>1, <3>3, <3>4
  <2>3. CASE r >= TokenLitMax
    <3> DEFINE s == (r - TokenLitMax) % ExtMax
               u == ((r + 1) - TokenLitMax) % ExtMax
    <3>1. /\ s \in 0 .. ExtMax - 1
          /\ s = ExtMax - 1 => Extras(r + 1) = Extras(r) + 1 /\ u = 0
          /\ s # ExtMax - 1 => Extras(r + 1) = Extras(r) /\ u = s + 1
      BY <2>3, ExtrasNext
    <3>2. next = r + ExtMax - s /\ then = r + 1 + ExtMax - u
      BY <1>1, <2>3
    <3> HIDE DEF s, u, next, then
    <3>3. QED
      BY <1>1, <1>2, <3>1, <3>2
  <2>4. QED
    BY <1>1, <2>1, <2>2, <2>3
<1> HIDE DEF extra, next, then
<1>6. b + (r + 1) + Extras(r + 1) = l.cost + 1 + extra
  BY <1>1, <1>2, <1>5
<1>7. QED
  BY <1>2, <1>3, <1>4, <1>5, <1>6, Zenon DEF l

(* The length codes: the floor of a length gives the lengths up to it.     *)
LEMMA LenOfFacts ==
  ASSUME CostConstraints
  PROVE  /\ \A c \in Codes : LenOf[c] \in Nat
         /\ \A c, d \in Codes : c <= d => LenOf[c] <= LenOf[d]
         /\ Codes \subseteq Nat /\ 0 \in Codes
         /\ \A len \in Enc : len \in MatchLens /\ len \in Nat /\ len > 0
                             /\ MinMatchLen <= len
<1> DEFINE n == Max(Codes)
<1>1. n \in Nat /\ Codes = 0 .. n /\ LenOf[0] = 0
      /\ \A c \in Codes \ {0} : LenOf[c] \in MatchLens /\ LenOf[c] > LenOf[c - 1]
  BY DEF CostConstraints
<1> HIDE DEF n
<1>2. MatchLens \subseteq Nat /\ MinMatchLen \in Nat \ {0} /\ \A x \in MatchLens : x >= MinMatchLen
  BY ParseAssumption DEF ParseConstraints
<1>3. \A c \in Codes : LenOf[c] \in Nat
  <2>1. \A c \in Codes : c = 0 \/ c \in Codes \ {0}
    OBVIOUS
  <2>2. \A c \in Codes \ {0} : LenOf[c] \in Nat
    BY <1>1, <1>2, Zenon
  <2>3. LenOf[0] \in Nat
    BY <1>1
  <2>4. QED
    BY <2>1, <2>2, <2>3, Zenon
<1>4. Codes \subseteq Nat /\ \A d \in Codes : \A c \in 0 .. d : c \in Codes
  BY <1>1
<1>5. ASSUME NEW a \in Codes, NEW b \in Codes, a <= b, LenOf[a] > LenOf[b]
      PROVE  FALSE
  <2> DEFINE T == {d \in Codes : a <= d /\ LenOf[a] > LenOf[d]}
  <2>1. T \subseteq Nat /\ T # {}
    BY <1>4, <1>5
  <2>2. PICK d \in T : \A y \in T : d <= y
    BY <2>1, LeastNatural
  <2>3. d \in Codes /\ d \in Nat /\ a \in Nat /\ a <= d /\ LenOf[a] > LenOf[d]
    BY <1>4, <2>2
  <2>4. d # a
    BY <1>3, <2>3
  <2>5. d - 1 \in 0 .. d /\ a <= d - 1 /\ d # 0
    BY <2>3, <2>4
  <2>6. d - 1 \in Codes /\ LenOf[d] > LenOf[d - 1]
    BY <1>1, <1>4, <2>3, <2>5
  <2>7. LenOf[d] \in Nat /\ LenOf[d - 1] \in Nat /\ LenOf[a] \in Nat
    BY <1>3, <2>3, <2>6
  <2>8. d - 1 \in T
    BY <2>3, <2>5, <2>6, <2>7
  <2>9. QED
    BY <2>2, <2>3, <2>8
<1>6. \A c, d \in Codes : c <= d => LenOf[c] <= LenOf[d]
  <2>1. SUFFICES ASSUME NEW c \in Codes, NEW d \in Codes, c <= d PROVE LenOf[c] <= LenOf[d]
    OBVIOUS
  <2>2. ~(LenOf[c] > LenOf[d])
    BY <1>5, <2>1
  <2>3. LenOf[c] \in Nat /\ LenOf[d] \in Nat
    BY <1>3
  <2>4. QED
    BY <2>2, <2>3
<1>7. 0 \in Codes
  BY <1>1
<1>8. \A len \in Enc : len \in MatchLens
  BY <1>1 DEF Enc
<1>9. \A len \in Enc : len \in Nat /\ len > 0 /\ MinMatchLen <= len
  <2>1. \A len \in MatchLens : len \in Nat /\ len > 0 /\ MinMatchLen <= len
    BY <1>2
  <2>2. QED
    BY <1>8, <2>1
<1>10. QED
  BY <1>3, <1>4, <1>6, <1>7, <1>8, <1>9

LEMMA FloorCodes ==
  ASSUME CostConstraints, NEW n \in Nat
  PROVE  {LenOf[c] : c \in 1 .. CodeFloor(n)} = {len \in Enc : len <= n}
<1> DEFINE S == {c \in Codes : LenOf[c] <= n}
           F == CodeFloor(n)
<1>1. /\ \A c \in Codes : LenOf[c] \in Nat
      /\ \A c, d \in Codes : c <= d => LenOf[c] <= LenOf[d]
      /\ Codes \subseteq Nat /\ 0 \in Codes
  BY LenOfFacts
<1>2. Max(Codes) \in Nat /\ Codes = 0 .. Max(Codes) /\ LenOf[0] = 0
  BY DEF CostConstraints
<1>3. UpTo(S, Max(Codes)) /\ 0 \in S
  BY <1>1, <1>2 DEF UpTo
<1>4. Max(Codes) \in Nat
  BY <1>2
<1>5. Max(S) \in S /\ \A x \in S : x <= Max(S)
  BY <1>3, <1>4, SetMax, Zenon
<1>6. F = Max(S)
  BY DEF CodeFloor
<1> HIDE DEF F
<1>7. F \in Codes /\ LenOf[F] <= n /\ \A x \in Codes : LenOf[x] <= n => x <= F
  BY <1>5, <1>6
<1>8. F \in Nat
  BY <1>1, <1>7
<1>9. \A c : c \in 1 .. F <=> c \in Codes \ {0} /\ LenOf[c] <= n
  <2>1. ASSUME NEW c \in 1 .. F PROVE c \in Codes \ {0} /\ LenOf[c] <= n
    <3>1. c \in Codes
      BY <1>2, <1>4, <1>7, <1>8
    <3>2. LenOf[c] <= LenOf[F] /\ LenOf[c] \in Nat /\ LenOf[F] \in Nat
      BY <1>1, <1>7, <3>1
    <3>3. QED
      BY <1>7, <3>1, <3>2
  <2>2. ASSUME NEW c \in Codes \ {0}, LenOf[c] <= n PROVE c \in 1 .. F
    <3>1. c \in Nat /\ c # 0 /\ c <= F
      BY <1>1, <1>7, <2>2
    <3>2. QED
      BY <1>8, <3>1
  <2>3. QED
    BY <2>1, <2>2
<1>10. QED
  BY <1>9 DEF Enc, F

(* No cost of a parse reaches Inf. *)
LEMMA LimFacts ==
  ASSUME CostConstraints, NEW p \in Nat, NEW n \in Nat
  PROVE  /\ Lim(p) \in Nat /\ Lim(p) >= HeaderCost
         /\ Lim(p) + (n + n) <= Lim(p + n)
         /\ n > 0 => Lim(p) + TokenCost <= Lim(p + n)
<1> DEFINE t == TokenCost + 2
<1>1. t \in Nat /\ t >= 2 /\ TokenCost \in Nat /\ HeaderCost \in Nat
  BY CostFacts
<1>2. Lim(p) = HeaderCost + p * t /\ Lim(p + n) = HeaderCost + (p + n) * t
  BY DEF Lim
<1> HIDE DEF t
<1>3. /\ (p + n) * t = p * t + n * t /\ p * t \in Nat /\ n * t \in Nat
      /\ n * 2 <= n * t
  <2>1. (p + n) * t = p * t + n * t
    BY <1>1
  <2>2. p * t \in Nat /\ n * t \in Nat
    BY <1>1
  <2>3. n * 2 <= n * t
    BY <1>1
  <2>4. QED
    BY <2>1, <2>2, <2>3
<1>4. n > 0 => t <= n * t
  <2>1. SUFFICES ASSUME n > 0 PROVE t <= n * t
    OBVIOUS
  <2>2. 1 * t <= n * t
    BY <1>1, <2>1
  <2>3. QED
    BY <1>1, <2>2
<1>5. t = TokenCost + 2
  BY DEF t
<1>6. Lim(p) \in Nat /\ Lim(p) >= HeaderCost
  BY <1>1, <1>2, <1>3
<1>7. Lim(p) + (n + n) <= Lim(p + n)
  BY <1>1, <1>2, <1>3
<1>8. n > 0 => Lim(p) + TokenCost <= Lim(p + n)
  BY <1>1, <1>2, <1>3, <1>4, <1>5
<1>9. QED
  BY <1>6, <1>7, <1>8

LEMMA LimFinite ==
  ASSUME CostConstraints, InputTypeOK, NEW p \in Nat, p <= size
  PROVE  Lim(p) < Inf
<1>1. size \in Nat /\ size - p \in Nat /\ p + (size - p) = size
  BY SizeRange
<1>2. Lim(size) < Inf
  BY DEF CostConstraints, Lim, InputTypeOK
<1>3. Lim(p) + ((size - p) + (size - p)) <= Lim(p + (size - p))
  BY <1>1, LimFacts
<1>4. Lim(p) \in Nat /\ Lim(size) \in Nat /\ Inf \in Nat
  BY <1>1, LimFacts, CostFacts
<1>5. QED
  BY <1>1, <1>2, <1>3, <1>4

Relaxed == {"relax", "back", "emit"}

(* What the steps on a block may rely on. *)
LEMMA BlockFacts ==
  ASSUME HeavyInv, pc \in Relaxed
  PROVE  /\ InputTypeOK /\ size \in Nat /\ MatchEnd \in Nat /\ MatchEnd <= size
         /\ start \in Nat /\ start < size /\ BlockLen \in Nat \ {0}
         /\ End \in Nat /\ End = start + BlockLen /\ End <= size
         /\ frontier.pos \in Nat /\ frontier.pos <= start /\ frontier.pos <= MatchEnd
         /\ frontier.cost \in HeaderCost .. Lim(frontier.pos)
         /\ CostsOK
         /\ DOMAIN dp = 0 .. BlockLen + RelaxWindow - 1
         /\ DOMAIN arrivalLen = DOMAIN dp /\ idx \in 0 .. BlockLen + 1
<1>1. InputTypeOK /\ start \in Nat /\ start < size /\ BlockHeld /\ CostsOK /\ FrontierOK
  BY DEF HeavyInv, FinderInv, FinderTypeOK, BlockHeld, Relaxed
<1>2. size \in Nat /\ MatchEnd \in Nat /\ MatchEnd <= size
  BY <1>1, SizeRange
<1>3. End \in start + 1 .. size
  BY <1>1, Bounds
<1>4. BlockLen = End - start
  BY DEF BlockLen
<1>5. QED
  BY <1>1, <1>2, <1>3, <1>4 DEF FrontierOK, BlockHeld

LEMMA FoundFacts ==
  ASSUME CostConstraints, HeavyInv, pc \in Relaxed, NEW k \in 0 .. BlockLen - 1
  PROVE  /\ maxLen[k] \in Nat /\ maxLen[k] < RelaxWindow
         /\ \/ maxLen[k] = 0
            \/ /\ maxLen[k] >= MinMatchLen
               /\ (start + k) + maxLen[k] <= End /\ (start + k) + maxLen[k] <= MatchEnd
               /\ Repeats(start + k, maxLen[k], matchDis[k])
<1>1. /\ InputTypeOK /\ start \in Nat /\ start < size /\ BlockLen \in Nat \ {0}
      /\ End \in Nat /\ End = start + BlockLen /\ MatchEnd \in Nat
  BY BlockFacts
<1>2. at = End /\ MatchedOK
  BY DEF HeavyInv, BlockHeld, Relaxed
<1>3. start + k \in start .. at - 1 /\ (start + k) - start = k
  BY <1>1, <1>2
<1>4. maxLen[k] = 0 \/ Usable(start + k, maxLen[k], matchDis[k])
  BY <1>2, <1>3 DEF MatchedOK
<1>5. HardEnd \in Nat /\ HardEnd <= End /\ HardEnd <= MatchEnd
  BY <1>1, Bounds
<1>6. MinMatchLen \in Nat /\ MaxMatchLen \in Nat
  BY Constants
<1>7. MaxMatchLen < RelaxWindow /\ RelaxWindow \in Nat
  BY CostFacts
<1>8. CASE maxLen[k] = 0
  BY <1>6, <1>7, <1>8
<1>9. CASE Usable(start + k, maxLen[k], matchDis[k])
  <2>1. /\ maxLen[k] \in MinMatchLen .. MaxMatchLen
        /\ (start + k) + maxLen[k] <= HardEnd
        /\ Repeats(start + k, maxLen[k], matchDis[k])
    BY <1>9 DEF Usable
  <2>2. maxLen[k] \in Nat /\ maxLen[k] >= MinMatchLen /\ maxLen[k] <= MaxMatchLen
    BY <1>6, <2>1
  <2>3. (start + k) + maxLen[k] <= End /\ (start + k) + maxLen[k] <= MatchEnd
    BY <1>1, <1>5, <2>1, <2>2
  <2>4. maxLen[k] < RelaxWindow
    BY <1>6, <1>7, <2>2
  <2>5. QED
    BY <2>1, <2>2, <2>3, <2>4
<1>10. QED
  BY <1>4, <1>8, <1>9

(* The sources and their costs. *)
LEMMA SourceFacts ==
  ASSUME CostConstraints, HeavyInv, pc \in Relaxed
  PROVE  /\ frontier.pos \in DOMAIN Costs /\ Costs[frontier.pos] = frontier.cost
         /\ \A q \in start .. End : dp[q - start] # Inf =>
              q \in DOMAIN Costs /\ Costs[q] = dp[q - start]
         /\ \A q \in DOMAIN Costs :
              /\ q \in Nat /\ q <= End /\ q <= MatchEnd /\ frontier.pos <= q
              /\ Costs[q] \in Nat /\ Costs[q] \in HeaderCost .. Lim(q)
              /\ q # frontier.pos => /\ q - start \in 1 .. BlockLen
                                     /\ dp[q - start] # Inf
                                     /\ Costs[q] = dp[q - start]
<1> DEFINE reached == {p \in start .. End : dp[p - start] # Inf}
<1>1. /\ start \in Nat /\ BlockLen \in Nat \ {0} /\ End = start + BlockLen /\ End \in Nat
      /\ frontier.pos \in Nat /\ frontier.pos <= start /\ frontier.pos <= MatchEnd
      /\ frontier.cost \in HeaderCost .. Lim(frontier.pos)
      /\ CostsOK /\ DOMAIN dp = 0 .. BlockLen + RelaxWindow - 1
      /\ MatchEnd \in Nat
  BY BlockFacts
<1>2. /\ HeaderCost \in Nat /\ RelaxWindow \in Nat /\ RelaxWindow > 0
      /\ \A p \in Nat : Lim(p) \in Nat
  <2>1. \A p \in Nat : Lim(p) \in Nat
    BY LimFacts
  <2>2. MaxMatchLen \in Nat /\ HeaderCost \in Nat /\ RelaxWindow \in Nat /\ MaxMatchLen < RelaxWindow
    BY Constants, CostFacts
  <2>3. QED
    BY <2>1, <2>2
<1>3. /\ DOMAIN Costs = {frontier.pos} \cup reached
      /\ \A q \in {frontier.pos} \cup reached :
           Costs[q] = IF q = frontier.pos THEN frontier.cost ELSE dp[q - start]
  BY DEF Costs
<1>4. ASSUME NEW q \in reached
      PROVE  /\ q \in Nat /\ q <= End /\ q <= MatchEnd /\ frontier.pos <= q
             /\ dp[q - start] # Inf /\ dp[q - start] \in HeaderCost .. Lim(q)
             /\ q = frontier.pos => dp[q - start] = frontier.cost
             /\ q # frontier.pos => q - start \in 1 .. BlockLen
  <2>1. q \in start .. End /\ dp[q - start] # Inf
    OBVIOUS
  <2>2. CASE q = start
    <3>1. start = 0 /\ dp[0] = frontier.cost
      BY <1>1, <2>1, <2>2 DEF CostsOK
    <3>2. QED
      BY <1>1, <2>1, <2>2, <3>1
  <2>3. CASE q # start
    <3>1. q - start \in 1 .. BlockLen /\ q - start \in DOMAIN dp /\ start + (q - start) = q
      BY <1>1, <1>2, <2>1, <2>3
    <3>2. Arrived(q - start)
      BY <1>1, <2>1, <3>1 DEF CostsOK
    <3>3. start + (q - start) <= MatchEnd /\ dp[q - start] \in HeaderCost .. Lim(start + (q - start))
      BY <3>2 DEF Arrived
    <3>4. QED
      BY <1>1, <2>1, <2>3, <3>1, <3>3
  <2>4. QED
    BY <2>2, <2>3
<1> HIDE DEF reached
<1>5. \A q \in start .. End : dp[q - start] # Inf => q \in reached
  BY DEF reached
<1>6. \A q \in {frontier.pos} \cup reached :
        Costs[q] \in HeaderCost .. Lim(q)
  <2>1. SUFFICES ASSUME NEW q \in {frontier.pos} \cup reached
                 PROVE  Costs[q] \in HeaderCost .. Lim(q)
    OBVIOUS
  <2>2. CASE q = frontier.pos
    BY <1>1, <1>3, <2>2
  <2>3. CASE q # frontier.pos
    BY <1>3, <1>4, <2>1, <2>3
  <2>4. QED
    BY <2>2, <2>3
<1>7. ASSUME NEW q \in DOMAIN Costs
      PROVE  /\ q \in Nat /\ q <= End /\ q <= MatchEnd /\ frontier.pos <= q
             /\ Costs[q] \in Nat /\ Costs[q] \in HeaderCost .. Lim(q)
             /\ q # frontier.pos => /\ q - start \in 1 .. BlockLen
                                    /\ dp[q - start] # Inf
                                    /\ Costs[q] = dp[q - start]
  <2>1. q \in {frontier.pos} \cup reached
    BY <1>3
  <2>2. q \in Nat /\ q <= End /\ q <= MatchEnd /\ frontier.pos <= q
    BY <1>1, <1>4, <2>1
  <2>3. Costs[q] \in HeaderCost .. Lim(q)
    BY <1>6, <2>1
  <2>4. Costs[q] \in Nat
    BY <1>2, <2>2, <2>3
  <2>5. q # frontier.pos => /\ q - start \in 1 .. BlockLen
                            /\ dp[q - start] # Inf
                            /\ Costs[q] = dp[q - start]
    BY <1>3, <1>4, <2>1
  <2>6. QED
    BY <2>2, <2>3, <2>4, <2>5
<1>8. ASSUME NEW q \in start .. End, dp[q - start] # Inf
      PROVE  q \in DOMAIN Costs /\ Costs[q] = dp[q - start]
  BY <1>3, <1>4, <1>5, <1>8
<1>9. frontier.pos \in DOMAIN Costs /\ Costs[frontier.pos] = frontier.cost
  BY <1>3
<1>10. QED
  BY <1>7, <1>8, <1>9

(* Every cost is a number, Inf where no match arrives.                     *)
LEMMA ReachRange ==
  ASSUME CostConstraints, HeavyInv, pc \in Relaxed
  PROVE  \A k \in DOMAIN dp : dp[k] \in HeaderCost .. Inf /\ dp[k] \in Nat
<1>1. /\ InputTypeOK /\ size \in Nat /\ MatchEnd \in Nat /\ MatchEnd <= size
      /\ start \in Nat /\ frontier.pos \in Nat /\ frontier.pos <= MatchEnd
      /\ frontier.cost \in HeaderCost .. Lim(frontier.pos) /\ CostsOK
      /\ BlockLen \in Nat /\ DOMAIN dp = 0 .. BlockLen + RelaxWindow - 1
      /\ HeaderCost \in Nat /\ Inf \in Nat
  BY BlockFacts, CostFacts
<1>2. ASSUME NEW p \in Nat, p <= size, NEW b \in HeaderCost .. Lim(p)
      PROVE  b \in HeaderCost .. Inf
  <2>1. Lim(p) \in Nat /\ Lim(p) < Inf
    BY <1>1, <1>2, LimFacts, LimFinite
  <2>2. QED
    BY <1>1, <1>2, <2>1
<1>3. HeaderCost <= Inf
  <2>1. 0 \in Nat /\ 0 <= size
    BY <1>1
  <2>2. Lim(0) < Inf /\ Lim(0) \in Nat /\ Lim(0) >= HeaderCost
    BY <1>1, <2>1, LimFacts, LimFinite
  <2>3. QED
    BY <1>1, <2>2
<1>4. SUFFICES ASSUME NEW k \in DOMAIN dp, dp[k] # Inf
               PROVE  dp[k] \in HeaderCost .. Inf
  BY <1>1, <1>3
<1>5. k \in Nat
  BY <1>1
<1>6. CASE k = 0
  <2>1. dp[k] = frontier.cost /\ frontier.pos <= size
    BY <1>1, <1>4, <1>6 DEF CostsOK
  <2>2. QED
    BY <1>1, <1>2, <2>1
<1>7. CASE k > 0
  <2>1. start + k <= MatchEnd /\ dp[k] \in HeaderCost .. Lim(start + k)
    BY <1>1, <1>4, <1>7 DEF CostsOK, Arrived
  <2>2. start + k \in Nat /\ start + k <= size
    BY <1>1, <1>5, <2>1
  <2>3. QED
    BY <1>2, <2>1, <2>2
<1>8. QED
  BY <1>5, <1>6, <1>7

----------------------------------------------------------------------------
(* The steps of level 4 outside a block's parse. *)
LEMMA FinderStays ==
  ASSUME FinderInv, UNCHANGED <<size, input, start, finderVars>>,
         pc' \notin {"scan", "parse"}
  PROVE  FinderInv'
<1>1. UNCHANGED <<sa, rank, live, at, carry, maxLen, matchDis>>
  BY DEF finderVars
<1>2. InputTypeOK' /\ FinderTypeOK' /\ BlockOK'
  BY <1>1 DEF FinderInv, InputTypeOK, FinderTypeOK, BlockOK
<1>3. ScanOK' /\ LiveWindow'
  BY DEF ScanOK, LiveWindow
<1>4. QED
  BY <1>2, <1>3 DEF FinderInv

LEMMA BlockStays ==
  ASSUME UNCHANGED <<size, start, frontier>>
  PROVE  /\ End' = End /\ BlockLen' = BlockLen /\ MatchEnd' = MatchEnd
         /\ HardEnd' = HardEnd
         /\ FrontierOK' = FrontierOK
BY DEF End, BlockLen, MatchEnd, HardEnd, FrontierOK

LEMMA CostsStay ==
  ASSUME UNCHANGED <<size, start, frontier, dp>>
  PROVE  Costs' = Costs
<1>1. End' = End
  BY BlockStays
<1>2. QED
  BY <1>1 DEF Costs

LEMMA MatchedStays ==
  ASSUME MatchedOK, UNCHANGED <<size, input, start, finderVars>>
  PROVE  MatchedOK'
<1>1. UNCHANGED <<sa, rank, live, at, carry, maxLen, matchDis>>
  BY DEF finderVars
<1>2. End' = End /\ HardEnd' = HardEnd
  BY DEF End, HardEnd, MatchEnd
<1>3. QED
  BY <1>1, <1>2 DEF MatchedOK, Usable, Repeats

LEMMA HeavySearchGood ==
  ASSUME HeavyInv, HeavySearch
  PROVE  HeavyGood
<1>1. /\ FinderInv' /\ UNCHANGED <<size, input, out, start, relaxVars>>
      /\ pc \in {"block", "scan"} /\ pc' \in {"scan", "parse"}
  <2>1. Find /\ UNCHANGED relaxVars
    BY DEF HeavySearch
  <2>2. UNCHANGED <<size, input, out, start>>
    BY <2>1 DEF Find, FindBlock, ScanTail, ScanCarried, ScanNone, ScanFound, ScanEnd, Scanned
  <2>3. pc \in {"block", "scan"} /\ pc' \in {"scan", "parse"}
    BY <2>1 DEF Find, FindBlock, ScanTail, ScanCarried, ScanNone, ScanFound, ScanEnd,
                Scanned, Scanning, InReach
  <2>4. QED
    BY <2>1, <2>2, <2>3, FindKeeps DEF HeavyInv
<1>2. UNCHANGED <<size, start, frontier, boundary, out>>
  BY <1>1 DEF relaxVars
<1>3. FrontierOK' /\ MatchEnd' = MatchEnd
  BY <1>2, BlockStays DEF HeavyInv
<1>4. AbstractParse!Covered' = AbstractParse!Covered
  BY <1>1 DEF AbstractParse!Covered
<1>5. BillOK'
  <2>1. Billed(out, frontier.cost)
    BY <1>1, Zenon DEF HeavyInv, BillOK
  <2>2. QED
    BY <1>1, <1>2, <2>1, Zenon DEF BillOK
<1>6. HeavyInv'
  BY <1>1, <1>2, <1>3, <1>4, <1>5 DEF HeavyInv, Pcs
<1>7. QED
  BY <1>1, <1>6 DEF HeavyGood, AbstractParse!parseVars

LEMMA HeavyFinishGood ==
  ASSUME HeavyInv, HeavyFinish
  PROVE  HeavyGood
<1>1. /\ pc = "block" /\ pc' = "done"
      /\ UNCHANGED <<size, input, out, start, finderVars, relaxVars>>
  BY DEF HeavyFinish
<1>2. UNCHANGED <<size, start, frontier, boundary, out>>
  BY <1>1 DEF relaxVars
<1>3. FrontierOK' /\ MatchEnd' = MatchEnd
  BY <1>2, BlockStays DEF HeavyInv
<1>4. AbstractParse!Covered' = AbstractParse!Covered
  BY <1>1 DEF AbstractParse!Covered
<1>5. BillOK'
  <2>1. Billed(out, frontier.cost)
    BY <1>1, Zenon DEF HeavyInv, BillOK
  <2>2. QED
    BY <1>1, <1>2, <2>1, Zenon DEF BillOK
<1>6. FinderInv'
  BY <1>1, FinderStays DEF HeavyInv
<1>7. HeavyInv'
  BY <1>1, <1>2, <1>3, <1>4, <1>5, <1>6 DEF HeavyInv, Pcs
<1>8. AbstractParse!Next
  BY <1>1 DEF AbstractParse!Next, AbstractParse!Finish
<1>9. QED
  BY <1>7, <1>8 DEF HeavyGood

(* relax begins with the run from the frontier. *)
LEMMA StartRelaxGood ==
  ASSUME CostConstraints, HeavyInv, StartRelax
  PROVE  HeavyGood
<1>1. /\ pc = "parse" /\ pc' = "relax"
      /\ dp' = [k \in 0 .. BlockLen + RelaxWindow - 1 |->
                  IF start = 0 /\ k = 0 THEN frontier.cost ELSE Inf]
      /\ arrivalLen' = Resized(arrivalLen, BlockLen + RelaxWindow)
      /\ lits' = LiteralRun(start - frontier.pos, frontier.cost)
      /\ idx' = 0
      /\ UNCHANGED <<size, input, out, start, finderVars, frontier, commit,
                     boundary, tokens>>
  BY DEF StartRelax
<1>2. /\ start < size /\ at = End /\ MatchedOK /\ start \in Nat /\ InputTypeOK
      /\ FrontierOK
  BY <1>1 DEF HeavyInv, FinderInv, FinderTypeOK, ScanOK
<1>3. /\ FinderInv' /\ FrontierOK' /\ MatchEnd' = MatchEnd /\ MatchedOK'
      /\ End' = End /\ BlockLen' = BlockLen
  BY <1>1, <1>2, FinderStays, BlockStays, MatchedStays DEF HeavyInv
<1>4. /\ End \in start + 1 .. size /\ BlockLen \in Nat \ {0}
      /\ RelaxWindow \in Nat \ {0} /\ size \in Nat
  <2>1. End \in start + 1 .. size /\ size \in Nat
    BY <1>2, Bounds, SizeRange
  <2>2. MaxMatchLen \in Nat /\ RelaxWindow \in Nat /\ MaxMatchLen < RelaxWindow
    BY Constants, CostFacts
  <2>3. QED
    BY <1>2, <2>1, <2>2 DEF BlockLen
<1>5. BlockHeld'
  <2>1. DOMAIN dp' = 0 .. BlockLen + RelaxWindow - 1
    BY <1>1
  <2>2. DOMAIN arrivalLen' = 0 .. BlockLen + RelaxWindow - 1
    BY <1>1, <1>4 DEF Resized
  <2>3. at' = at
    BY <1>1 DEF finderVars
  <2>4. QED
    BY <1>1, <1>2, <1>3, <1>4, <2>1, <2>2, <2>3 DEF BlockHeld
<1>6. CostsOK'
  <2>1. 0 \in 0 .. BlockLen + RelaxWindow - 1
    BY <1>4
  <2>2. dp'[0] = IF start = 0 THEN frontier.cost ELSE Inf
    BY <1>1, <2>1
  <2>3. \A k \in DOMAIN dp' : k > 0 => dp'[k] = Inf
    BY <1>1
  <2>4. QED
    BY <1>1, <2>2, <2>3 DEF CostsOK
<1>7. LitsOK'
  <2>1. frontier.pos \in Nat /\ frontier.pos <= start
    BY <1>2 DEF FrontierOK
  <2>2. LitPos' = start
    BY <1>1 DEF LitPos
  <2>3. lits'.run = start - frontier.pos
    BY <1>1 DEF LiteralRun
  <2>4. start - frontier.pos \in 0 .. start /\ start - (start - frontier.pos) = frontier.pos
    BY <1>2, <2>1
  <2>5. frontier'.pos \in DOMAIN Costs' /\ Costs'[frontier'.pos] = frontier'.cost
    BY DEF Costs
  <2>6. QED
    BY <1>1, <2>2, <2>3, <2>4, <2>5 DEF LitsOK
<1>8. BillOK'
  <2>1. Billed(out, frontier.cost)
    BY <1>1, Zenon DEF HeavyInv, BillOK
  <2>2. QED
    BY <1>1, <2>1, Zenon DEF BillOK
<1>9. AbstractParse!Covered' = AbstractParse!Covered
  BY <1>1 DEF AbstractParse!Covered
<1>10. HeavyInv'
  BY <1>1, <1>3, <1>5, <1>6, <1>7, <1>8, <1>9 DEF HeavyInv, Pcs
<1>11. QED
  BY <1>1, <1>10 DEF HeavyGood, AbstractParse!parseVars

(* A literal run costs no more than its positions may. *)
LEMMA RunBound ==
  ASSUME CostConstraints, NEW o \in Nat, NEW r \in Nat, NEW b \in HeaderCost .. Lim(o)
  PROVE  b \in Nat /\ b + RunCost(r) \in HeaderCost .. Lim(o + r)
<1>1. HeaderCost \in Nat /\ RunCost(r) \in r .. r + r
  BY CostFacts, ExtrasFacts
<1>2. Lim(o) \in Nat /\ Lim(o) + (r + r) <= Lim(o + r)
  BY LimFacts
<1>3. o + r \in Nat /\ Lim(o + r) \in Nat
  <2>1. o + r \in Nat
    OBVIOUS
  <2>2. QED
    BY <2>1, LimFacts
<1>4. QED
  BY <1>1, <1>2, <1>3

(* LiteralRun::advance: what is kept at the position to relax is a run     *)
(* from a source.                                                          *)
Run == IF idx > 0 THEN Advance(lits, dp[idx]) ELSE lits

IsRun(l, p, c) ==
  /\ l.run \in 0 .. p
  /\ p - l.run \in DOMAIN c
  /\ l = LiteralRun(l.run, c[p - l.run])

LEMMA AdvanceCases ==
  ASSUME NEW l, NEW reached
  PROVE  Advance(l, reached) =
           IF reached <= Longer(l).cost
           THEN [run |-> 0, cost |-> reached, next |-> TokenLitMax]
           ELSE Longer(l)
BY Zenon DEF Advance, Longer

LEMMA RunKept ==
  ASSUME CostConstraints, HeavyInv, pc = "relax", idx <= BlockLen
  PROVE  IsRun(Run, start + idx, Costs)
<1>1. /\ InputTypeOK /\ size \in Nat /\ start \in Nat /\ start < size
      /\ BlockLen \in Nat \ {0} /\ End \in Nat /\ End = start + BlockLen /\ End <= size
      /\ idx \in 0 .. BlockLen + 1 /\ LitsOK
  BY BlockFacts DEF Relaxed, HeavyInv
<1>2. IsRun(lits, LitPos, Costs)
  BY <1>1 DEF LitsOK, IsRun
<1>3. CASE idx = 0
  BY <1>1, <1>2, <1>3 DEF LitPos, Run
<1>4. CASE idx > 0
  <2> DEFINE r == lits.run
             o == LitPos - lits.run
             p == start + idx
  <2>1. LitPos \in Nat /\ LitPos + 1 = p /\ p \in start .. End /\ p - start = idx /\ p \in Nat
    BY <1>1, <1>4 DEF LitPos
  <2>2. r \in 0 .. LitPos /\ o \in DOMAIN Costs /\ lits = LiteralRun(r, Costs[o])
    BY <1>2 DEF IsRun
  <2>3. r \in Nat /\ o \in Nat /\ o + (r + 1) = p /\ p - (r + 1) = o
    BY <2>1, <2>2
  <2>4. Costs[o] \in HeaderCost .. Lim(o) /\ Costs[o] \in Nat
    BY <2>2, SourceFacts DEF Relaxed
  <2> HIDE DEF r, o, p
  <2>5. Longer(lits) = LiteralRun(r + 1, Costs[o])
    BY <2>2, <2>3, <2>4, RunLonger
  <2>6. Longer(lits).cost = Costs[o] + RunCost(r + 1) /\ Longer(lits).run = r + 1
    BY <2>3, <2>4, <2>5, RunNext
  <2>7. Longer(lits).cost < Inf /\ Longer(lits).cost \in Nat
    <3>1. r + 1 \in Nat
      BY <2>3
    <3>2. Costs[o] + RunCost(r + 1) \in HeaderCost .. Lim(o + (r + 1))
      BY <2>3, <2>4, <3>1, RunBound
    <3>3. Lim(p) < Inf /\ Lim(p) \in Nat /\ HeaderCost \in Nat /\ Inf \in Nat
      BY <1>1, <2>1, LimFacts, LimFinite, CostFacts
    <3>4. QED
      BY <2>3, <2>6, <3>2, <3>3
  <2>8. CASE dp[idx] <= Longer(lits).cost
    <3>1. dp[p - start] # Inf
      BY <2>1, <2>7, <2>8, CostFacts
    <3>2. p \in DOMAIN Costs /\ Costs[p] = dp[idx]
      BY <2>1, <3>1, SourceFacts DEF Relaxed
    <3>3. Run = [run |-> 0, cost |-> dp[idx], next |-> TokenLitMax]
      BY <1>4, <2>8, AdvanceCases DEF Run
    <3>4. Costs[p] \in Nat
      BY <3>2, SourceFacts DEF Relaxed
    <3>5. LiteralRun(0, Costs[p]) = Run
      <4>1. TokenLitMax \in Nat \ {0}
        BY CostFacts
      <4>2. Extras(0) = 0 /\ 0 < TokenLitMax
        BY <4>1 DEF Extras
      <4>3. Costs[p] + 0 + 0 = Costs[p]
        BY <3>4
      <4>4. QED
        BY <3>2, <3>3, <4>2, <4>3 DEF LiteralRun
    <3>6. Run.run = 0 /\ p - 0 = p
      BY <2>1, <3>3
    <3>7. QED
      BY <2>1, <3>2, <3>5, <3>6 DEF IsRun, p
  <2>9. CASE ~(dp[idx] <= Longer(lits).cost)
    <3>1. Run = LiteralRun(r + 1, Costs[o]) /\ Run.run = r + 1
      BY <1>4, <2>5, <2>6, <2>9, AdvanceCases DEF Run
    <3>2. r + 1 \in 0 .. p
      BY <2>1, <2>2, <2>3
    <3>3. QED
      BY <2>2, <2>3, <3>1, <3>2 DEF IsRun, p
  <2>10. QED
    BY <2>8, <2>9
<1>5. QED
  BY <1>1, <1>3, <1>4

(* relax_from: the lengths offered at the position, and what they change.  *)
Offers ==
  LET longest == IF idx < BlockLen THEN maxLen[idx] ELSE 0
  IN  IF longest >= MinMatchLen THEN Cheaper(Run.cost + TokenCost, longest) ELSE {}

LEMMA OffersFit ==
  ASSUME CostConstraints, HeavyInv, pc = "relax", idx <= BlockLen
  PROVE  /\ \A len \in Offers :
              /\ idx < BlockLen /\ len \in Enc /\ len \in Nat /\ len > 0
              /\ len <= maxLen[idx]
              /\ idx + len <= BlockLen /\ start + (idx + len) <= MatchEnd
         /\ \A len \in Enc :
              idx < BlockLen /\ len <= maxLen[idx] =>
                (len \in Offers <=> Run.cost + TokenCost < dp[idx + len])
<1>1. /\ start \in Nat /\ BlockLen \in Nat \ {0} /\ End = start + BlockLen
      /\ idx \in 0 .. BlockLen + 1 /\ MatchEnd \in Nat
  BY BlockFacts DEF Relaxed
<1>2. MinMatchLen \in Nat \ {0}
  BY Constants
<1>3. CASE ~(idx < BlockLen)
  BY <1>2, <1>3 DEF Offers
<1>4. CASE idx < BlockLen
  <2> DEFINE longest == maxLen[idx]
             cost == Run.cost + TokenCost
  <2>1. /\ longest \in Nat
        /\ \/ longest = 0
           \/ (start + idx) + longest <= End /\ (start + idx) + longest <= MatchEnd
    <3>1. idx \in 0 .. BlockLen - 1
      BY <1>1, <1>4
    <3>2. QED
      BY <3>1, FoundFacts DEF Relaxed
  <2> HIDE DEF longest
  <2>2. {LenOf[c] : c \in 1 .. CodeFloor(longest)} = {len \in Enc : len <= longest}
    BY <2>1, FloorCodes
  <2>3. Cheaper(cost, longest) = {len \in {len \in Enc : len <= longest} : cost < dp[idx + len]}
    BY <2>2 DEF Cheaper
  <2>4. Offers = IF longest >= MinMatchLen THEN Cheaper(cost, longest) ELSE {}
    BY <1>4 DEF Offers, longest
  <2>5. \A len \in Enc : len \in Nat /\ len > 0 /\ MinMatchLen <= len
    BY LenOfFacts
  <2> HIDE DEF cost
  <2>6. ASSUME NEW len \in Offers
        PROVE  /\ len \in Enc /\ len \in Nat /\ len > 0 /\ len <= longest
               /\ idx + len <= BlockLen /\ start + (idx + len) <= MatchEnd
    <3>1. len \in Enc /\ len <= longest
      BY <2>3, <2>4
    <3>2. len \in Nat /\ len > 0 /\ longest # 0
      BY <2>1, <2>5, <3>1
    <3>3. QED
      BY <1>1, <2>1, <3>1, <3>2
  <2>7. ASSUME NEW len \in Enc, len <= longest
        PROVE  len \in Offers <=> cost < dp[idx + len]
    <3>1. longest >= MinMatchLen
      BY <1>2, <2>1, <2>5, <2>7
    <3>2. QED
      BY <2>3, <2>4, <2>7, <3>1
  <2>8. QED
    BY <1>4, <2>6, <2>7 DEF longest, cost
<1>5. QED
  BY <1>1, <1>3, <1>4

LEMMA RelaxAs ==
  ASSUME Relax
  PROVE  /\ pc = "relax" /\ pc' = "relax" /\ idx <= BlockLen /\ idx' = idx + 1
         /\ lits' = Run
         /\ dp' = [k \in DOMAIN dp |-> IF k - idx \in Offers
                                       THEN Run.cost + TokenCost ELSE dp[k]]
         /\ arrivalLen' = [k \in DOMAIN arrivalLen |->
                             IF k - idx \in Offers THEN k - idx ELSE arrivalLen[k]]
         /\ UNCHANGED <<size, input, out, start, finderVars, frontier, commit,
                        boundary, tokens>>
<1>1. lits' = Run
  BY Zenon DEF Relax, Run
<1>2. Offers = LET longest == IF idx < BlockLen THEN maxLen[idx] ELSE 0
                   cost == lits'.cost + TokenCost
               IN  IF longest >= MinMatchLen THEN Cheaper(cost, longest) ELSE {}
  BY <1>1, Zenon DEF Offers
<1> DEFINE longest == IF idx < BlockLen THEN maxLen[idx] ELSE 0
           cost == lits'.cost + TokenCost
           offers == IF longest >= MinMatchLen THEN Cheaper(cost, longest) ELSE {}
<1>3. offers = Offers /\ cost = Run.cost + TokenCost
  BY <1>1, <1>2, Zenon
<1>4. /\ dp' = [k \in DOMAIN dp |-> IF k - idx \in offers THEN cost ELSE dp[k]]
      /\ arrivalLen' = [k \in DOMAIN arrivalLen |->
                          IF k - idx \in offers THEN k - idx ELSE arrivalLen[k]]
  BY Zenon DEF Relax
<1> HIDE DEF offers, cost
<1>5. /\ pc = "relax" /\ pc' = "relax" /\ idx <= BlockLen /\ idx' = idx + 1
      /\ UNCHANGED <<size, input, out, start, finderVars, frontier, commit,
                     boundary, tokens>>
  BY DEF Relax
<1>6. QED
  BY <1>1, <1>3, <1>4, <1>5

(* relax changes no cost at or before its position.                        *)
LEMMA SourcesStay ==
  ASSUME CostConstraints, HeavyInv, Relax
  PROVE  /\ \A k \in DOMAIN dp : k <= idx => dp'[k] = dp[k]
         /\ \A q \in DOMAIN Costs : q <= start + idx =>
              q \in DOMAIN Costs' /\ Costs'[q] = Costs[q]
         /\ \A q \in DOMAIN Costs' : q \in Nat
         /\ \A q \in DOMAIN Costs' : q <= start + idx => q \in DOMAIN Costs
<1> DEFINE p == start + idx
<1>1. /\ pc = "relax" /\ idx <= BlockLen /\ UNCHANGED <<size, start, frontier>>
      /\ dp' = [k \in DOMAIN dp |-> IF k - idx \in Offers
                                    THEN Run.cost + TokenCost ELSE dp[k]]
  BY RelaxAs
<1>2. /\ start \in Nat /\ BlockLen \in Nat \ {0} /\ End = start + BlockLen /\ End \in Nat
      /\ idx \in 0 .. BlockLen + 1 /\ frontier.pos \in Nat /\ frontier.pos <= start
      /\ DOMAIN dp = 0 .. BlockLen + RelaxWindow - 1
      /\ RelaxWindow \in Nat \ {0}
  <2>1. RelaxWindow \in Nat /\ MaxMatchLen \in Nat /\ MaxMatchLen < RelaxWindow
    BY CostFacts, Constants
  <2>2. QED
    BY <1>1, <2>1, BlockFacts DEF Relaxed
<1>3. End' = End
  BY <1>1, BlockStays
<1>4. ASSUME NEW k \in DOMAIN dp, k <= idx
      PROVE  dp'[k] = dp[k]
  <2>1. \A len \in Offers : len \in Nat /\ len > 0
    BY <1>1, OffersFit
  <2>2. ~(k - idx \in Offers)
    BY <1>2, <1>4, <2>1
  <2>3. QED
    BY <1>1, <2>2
<1>5. /\ DOMAIN Costs = {frontier.pos} \cup {q \in start .. End : dp[q - start] # Inf}
      /\ DOMAIN Costs' = {frontier.pos} \cup {q \in start .. End : dp'[q - start] # Inf}
  BY <1>1, <1>3 DEF Costs
<1>6. /\ \A q \in DOMAIN Costs :
           Costs[q] = IF q = frontier.pos THEN frontier.cost ELSE dp[q - start]
      /\ \A q \in DOMAIN Costs' :
           Costs'[q] = IF q = frontier.pos THEN frontier.cost ELSE dp'[q - start]
  BY <1>1, <1>3 DEF Costs
<1>7. ASSUME NEW q \in start .. End, q <= p
      PROVE  dp'[q - start] = dp[q - start]
  <2>1. q - start \in DOMAIN dp /\ q - start <= idx
    BY <1>2, <1>7
  <2>2. QED
    BY <1>4, <2>1
<1>8. ASSUME NEW q \in DOMAIN Costs, q <= p
      PROVE  q \in DOMAIN Costs' /\ Costs'[q] = Costs[q]
  BY <1>5, <1>6, <1>7, <1>8
<1>9. ASSUME NEW q \in DOMAIN Costs', q <= p
      PROVE  q \in DOMAIN Costs
  BY <1>5, <1>7, <1>9
<1>10. \A q \in DOMAIN Costs' : q \in Nat
  BY <1>2, <1>5
<1>11. QED
  BY <1>4, <1>8, <1>9, <1>10

(* The relaxation of one position. *)
LEMMA RelaxGood ==
  ASSUME CostConstraints, HeavyInv, Relax
  PROVE  HeavyGood
<1> DEFINE p == start + idx
           cost == Run.cost + TokenCost
           o == p - Run.run
<1>1. /\ pc = "relax" /\ pc' = "relax" /\ idx <= BlockLen /\ idx' = idx + 1
      /\ lits' = Run
      /\ dp' = [k \in DOMAIN dp |-> IF k - idx \in Offers THEN cost ELSE dp[k]]
      /\ arrivalLen' = [k \in DOMAIN arrivalLen |->
                          IF k - idx \in Offers THEN k - idx ELSE arrivalLen[k]]
      /\ UNCHANGED <<size, input, out, start, finderVars, frontier, commit,
                     boundary, tokens>>
  BY RelaxAs
<1>2. /\ start \in Nat /\ BlockLen \in Nat \ {0} /\ End = start + BlockLen /\ End \in Nat
      /\ idx \in 0 .. BlockLen + 1 /\ MatchEnd \in Nat
      /\ CostsOK /\ DOMAIN dp = 0 .. BlockLen + RelaxWindow - 1
      /\ DOMAIN arrivalLen = DOMAIN dp
  BY <1>1, BlockFacts DEF Relaxed
<1>3. \A len \in Offers :
        /\ idx < BlockLen /\ len \in Enc /\ len \in Nat /\ len > 0
        /\ len <= maxLen[idx]
        /\ idx + len <= BlockLen /\ start + (idx + len) <= MatchEnd
  BY <1>1, OffersFit
<1>4. IsRun(Run, p, Costs)
  BY <1>1, RunKept
<1>5. p \in Nat /\ Run.run \in 0 .. p /\ o \in DOMAIN Costs /\ o \in Nat /\ o <= p
      /\ p - o = Run.run /\ o + Run.run = p
  BY <1>2, <1>4 DEF IsRun
<1>6. /\ Run.cost = Costs[o] + RunCost(p - o)
      /\ cost = CostFrom(Costs, o, p)
      /\ cost \in Nat /\ Run.cost \in HeaderCost .. Lim(p)
  <2>1. Costs[o] \in HeaderCost .. Lim(o) /\ Costs[o] \in Nat
    BY <1>1, <1>5, SourceFacts DEF Relaxed
  <2>2. Run = LiteralRun(Run.run, Costs[o])
    BY <1>4 DEF IsRun
  <2>3. Run.run \in Nat
    BY <1>5
  <2>4. Run.cost = Costs[o] + RunCost(Run.run)
    BY <2>1, <2>2, <2>3, RunNext
  <2>5. Costs[o] + RunCost(Run.run) \in HeaderCost .. Lim(o + Run.run)
    BY <1>5, <2>1, <2>3, RunBound
  <2>6. Lim(p) \in Nat /\ HeaderCost \in Nat /\ TokenCost \in Nat
    BY <1>5, LimFacts, CostFacts
  <2> HIDE DEF o, p
  <2>7. QED
    BY <1>5, <2>4, <2>5, <2>6 DEF CostFrom
<1> HIDE DEF o, cost
(* What is at or before the position stays. *)
<1>7. End' = End /\ BlockLen' = BlockLen /\ MatchEnd' = MatchEnd /\ FrontierOK'
  BY <1>1, BlockStays DEF HeavyInv
<1>8. DOMAIN dp' = DOMAIN dp /\ DOMAIN arrivalLen' = DOMAIN arrivalLen
  BY <1>1
<1>9. ASSUME NEW k \in DOMAIN dp, k <= idx
      PROVE  dp'[k] = dp[k]
  BY <1>9, SourcesStay
<1>10. ASSUME NEW q \in DOMAIN Costs, q <= p
       PROVE  q \in DOMAIN Costs' /\ Costs'[q] = Costs[q]
  BY <1>10, SourcesStay
<1>11. CostsOK'
  <2>1. 0 \in DOMAIN dp
    <3>1. RelaxWindow \in Nat /\ MaxMatchLen \in Nat /\ MaxMatchLen < RelaxWindow
      BY CostFacts, Constants
    <3>2. QED
      BY <1>2, <3>1
  <2>2. dp'[0] = dp[0]
    BY <1>2, <1>9, <2>1
  <2>3. dp[0] = IF start = 0 THEN frontier.cost ELSE Inf
    BY <1>2 DEF CostsOK
  <2>4. ASSUME NEW k \in DOMAIN dp, k > 0, dp'[k] # Inf
        PROVE  Arrived(k)'
    <3>1. CASE k - idx \in Offers
      <4> DEFINE a == k - idx
      <4>1. k \in Nat
        BY <1>2
      <4>2. /\ arrivalLen'[k] = a /\ dp'[k] = cost
        BY <1>1, <1>2, <3>1
      <4>3. /\ a \in Enc /\ a \in Nat /\ a > 0 /\ a <= maxLen[idx]
            /\ idx + a = k /\ k - a = idx /\ k <= BlockLen /\ start + k <= MatchEnd
        <5>1. idx + a = k /\ k - a = idx
          BY <1>2, <4>1
        <5>2. QED
          BY <1>3, <3>1, <5>1
      <4> HIDE DEF a
      <4>4. cost \in HeaderCost .. Lim(start + k)
        <5>1. Lim(p) + TokenCost <= Lim(p + a) /\ p + a = start + k
              /\ Lim(p) \in Nat /\ TokenCost \in Nat /\ HeaderCost \in Nat
          <6>1. p + a = start + k
            BY <1>2, <4>3 DEF p
          <6>2. QED
            BY <1>5, <4>3, <6>1, LimFacts, CostFacts
        <5>2. Lim(start + k) \in Nat
          BY <1>2, <4>1, LimFacts
        <5> HIDE DEF p
        <5>3. QED
          BY <1>6, <5>1, <5>2 DEF cost
      <4>5. o \in DOMAIN Costs' /\ cost = CostFrom(Costs', o, start + (k - a))
        <5>1. start + (k - a) = p
          BY <4>3 DEF p
        <5>2. QED
          BY <1>5, <1>6, <1>10, <5>1 DEF CostFrom
      <4>6. a <= k /\ k - a < idx' /\ a <= maxLen'[k - a] /\ o <= start + (k - a)
        <5>1. maxLen' = maxLen /\ idx' = idx + 1
          BY <1>1 DEF finderVars
        <5>2. a <= k /\ idx \in Nat
          BY <1>2, <4>1, <4>3
        <5>3. o <= start + idx
          BY <1>5 DEF p
        <5>4. QED
          BY <4>3, <5>1, <5>2, <5>3
      <4>7. QED
        BY <1>1, <1>7, <4>2, <4>3, <4>4, <4>5, <4>6 DEF Arrived
    <3>2. CASE k - idx \notin Offers
      <4> DEFINE a == arrivalLen[k]
                 m == start + (k - a)
      <4>1. dp'[k] = dp[k] /\ arrivalLen'[k] = a
        BY <1>1, <1>2, <3>2
      <4>2. Arrived(k)
        BY <1>2, <2>4, <4>1 DEF CostsOK
      <4>3. /\ k <= BlockLen /\ start + k <= MatchEnd
            /\ a \in Enc /\ a <= k /\ k - a < idx
            /\ a <= maxLen[k - a]
            /\ dp[k] \in HeaderCost .. Lim(start + k)
        BY <4>2 DEF Arrived
      <4>4. PICK u \in DOMAIN Costs : u <= m /\ dp[k] = CostFrom(Costs, u, m)
        BY <4>2 DEF Arrived
      <4>5. a \in Nat /\ k \in Nat /\ u \in Nat
        BY <1>1, <1>2, <4>3, <4>4, LenOfFacts, SourceFacts DEF Relaxed
      <4> HIDE DEF a
      <4>6. u <= p /\ k - a < idx'
        BY <1>1, <1>2, <4>3, <4>4, <4>5 DEF p
      <4>7. u \in DOMAIN Costs' /\ dp[k] = CostFrom(Costs', u, m)
        BY <1>10, <4>4, <4>6 DEF CostFrom
      <4>8. maxLen' = maxLen
        BY <1>1 DEF finderVars
      <4>9. QED
        BY <1>1, <1>7, <4>1, <4>3, <4>4, <4>6, <4>7, <4>8 DEF Arrived
    <3>3. QED
      BY <3>1, <3>2
  <2>5. QED
    BY <1>1, <1>8, <2>2, <2>3, <2>4 DEF CostsOK
<1>12. LitsOK'
  <2>1. LitPos' = p
    BY <1>1, <1>2 DEF LitPos, p
  <2>2. o \in DOMAIN Costs' /\ Costs'[o] = Costs[o]
    BY <1>5, <1>10
  <2>3. QED
    BY <1>1, <1>4, <1>5, <2>1, <2>2 DEF LitsOK, IsRun, o
<1>13. BlockHeld'
  <2>1. BlockHeld
    BY <1>1 DEF HeavyInv
  <2>2. MatchedOK'
    BY <1>1, <2>1, MatchedStays DEF BlockHeld
  <2>3. at' = at /\ idx' \in 0 .. BlockLen + 1
    BY <1>1, <1>2 DEF finderVars
  <2>4. QED
    BY <1>1, <1>7, <1>8, <2>1, <2>2, <2>3 DEF BlockHeld
<1>14. FinderInv'
  BY <1>1, FinderStays DEF HeavyInv
<1>15. BillOK'
  <2>1. Billed(out, frontier.cost)
    BY <1>1, Zenon DEF HeavyInv, BillOK
  <2>2. QED
    BY <1>1, <2>1, Zenon DEF BillOK
<1>16. AbstractParse!Covered' = AbstractParse!Covered
  BY <1>1 DEF AbstractParse!Covered
<1>17. HeavyInv'
  BY <1>1, <1>7, <1>11, <1>12, <1>13, <1>14, <1>15, <1>16 DEF HeavyInv, Pcs
<1>18. QED
  BY <1>1, <1>17 DEF HeavyGood, AbstractParse!parseVars

(* best_end: the source from which the rest is stored raw at least cost. *)
LEMMA BestEndFacts ==
  ASSUME CostConstraints, HeavyInv, pc = "relax"
  PROVE  /\ BestEnd.pos \in DOMAIN Costs /\ BestEnd.cost = Costs[BestEnd.pos]
         /\ \A q \in DOMAIN Costs :
              BestEnd.cost + (size - BestEnd.pos) <= Costs[q] + (size - q)
<1> DEFINE reached == {k \in 0 .. BlockLen : dp[k] # Inf}
           Total(k) == dp[k] + size - (start + k)
           totals == {Total(k) : k \in reached}
           least == Min(totals)
           best == {j \in reached : Total(j) = least}
           j == Min(best)
           whole == frontier.cost + size - frontier.pos
<1>1. BestEnd = IF reached = {} \/ least >= whole
                THEN frontier
                ELSE [pos |-> start + j, cost |-> dp[j]]
  BY Zenon DEF BestEnd
<1>2. /\ start \in Nat /\ BlockLen \in Nat \ {0} /\ End = start + BlockLen /\ End <= size
      /\ size \in Nat /\ frontier.pos \in Nat /\ frontier.pos <= start /\ End \in Nat
  BY BlockFacts DEF Relaxed
<1>3. frontier.pos \in DOMAIN Costs /\ Costs[frontier.pos] = frontier.cost
      /\ frontier.cost \in Nat
  BY SourceFacts DEF Relaxed
<1>4. ASSUME NEW k \in reached
      PROVE  /\ start + k \in DOMAIN Costs /\ Costs[start + k] = dp[k] /\ dp[k] \in Nat
             /\ Total(k) \in Nat
  <2>1. start + k \in start .. End /\ (start + k) - start = k /\ k \in Nat
    BY <1>2
  <2>2. start + k \in DOMAIN Costs /\ Costs[start + k] = dp[k]
    BY <2>1, SourceFacts DEF Relaxed
  <2>3. dp[k] \in Nat
    BY <2>2, SourceFacts DEF Relaxed
  <2>4. QED
    BY <1>2, <2>1, <2>2, <2>3
<1>5. reached # {} => /\ least \in totals /\ \A x \in totals : least <= x
  <2>1. totals \subseteq Nat
    BY <1>4
  <2>2. reached # {} => totals # {}
    OBVIOUS
  <2> HIDE DEF totals
  <2>3. QED
    BY <2>1, <2>2, SetMin
<1>6. reached # {} => j \in best
  <2>1. best \subseteq Nat
    BY <1>2
  <2>2. reached # {} => best # {}
    <3> HIDE DEF least
    <3>1. QED
      BY <1>5
  <2> HIDE DEF best
  <2>3. QED
    BY <2>1, <2>2, SetMin
<1>7. ASSUME NEW q \in DOMAIN Costs
      PROVE  /\ Costs[q] \in Nat /\ q \in Nat /\ q <= size
             /\ q # frontier.pos => q - start \in reached /\ Costs[q] = dp[q - start]
  BY <1>2, SourceFacts DEF Relaxed
<1> HIDE DEF least, j
<1>8. CASE reached = {} \/ least >= whole
  <2>1. BestEnd = frontier
    BY <1>1, <1>8
  <2>2. ASSUME NEW q \in DOMAIN Costs
        PROVE  frontier.cost + (size - frontier.pos) <= Costs[q] + (size - q)
    <3>1. CASE q = frontier.pos
      BY <1>2, <1>3, <1>7, <3>1
    <3>2. CASE q # frontier.pos
      <4> DEFINE k == q - start
      <4>1. k \in reached /\ Costs[q] = dp[k] /\ start + k = q
        <5>1. k \in reached /\ Costs[q] = dp[k]
          BY <1>7, <3>2, Zenon
        <5>2. q \in Nat /\ start + (q - start) = q
          BY <1>2, <1>7
        <5>3. QED
          BY <5>1, <5>2
      <4>2. least <= Total(k) /\ least \in Nat
        BY <1>4, <1>5, <4>1
      <4>3. least >= whole
        BY <1>8, <4>1
      <4>4. Total(k) = Costs[q] + (size - q) /\ whole = frontier.cost + (size - frontier.pos)
        BY <4>1
      <4> DEFINE t == Total(k)
                 w == whole
      <4>5. w \in Int
        BY <1>2, <1>3
      <4>6. t = Costs[q] + (size - q) /\ w = frontier.cost + (size - frontier.pos)
            /\ least <= t /\ least \in Nat /\ least >= w
        BY <4>2, <4>3, <4>4
      <4> HIDE DEF t, w
      <4>7. t \in Int
        BY <1>2, <1>7, <4>6
      <4>8. QED
        BY <4>5, <4>6, <4>7
    <3>3. QED
      BY <3>1, <3>2
  <2>3. QED
    BY <1>3, <2>1, <2>2
<1>9. CASE ~(reached = {} \/ least >= whole)
  <2>1. BestEnd = [pos |-> start + j, cost |-> dp[j]]
    BY <1>1, <1>9
  <2>2. j \in reached /\ Total(j) = least
    BY <1>6, <1>9
  <2>3. start + j \in DOMAIN Costs /\ Costs[start + j] = dp[j] /\ dp[j] \in Nat /\ j \in Nat
    BY <1>4, <2>2
  <2>4. ASSUME NEW q \in DOMAIN Costs
        PROVE  dp[j] + (size - (start + j)) <= Costs[q] + (size - q)
    <3>1. CASE q = frontier.pos
      <4>1. least < whole
        <5>1. whole \in Nat /\ least \in Nat
          BY <1>2, <1>3, <1>4, <2>2
        <5>2. QED
          BY <1>9, <5>1
      <4>2. QED
        BY <1>2, <1>3, <2>2, <2>3, <3>1, <4>1
    <3>2. CASE q # frontier.pos
      <4> DEFINE k == q - start
      <4>1. k \in reached /\ Costs[q] = dp[k] /\ start + k = q
        <5>1. k \in reached /\ Costs[q] = dp[k]
          BY <1>7, <3>2, Zenon
        <5>2. q \in Nat /\ start + (q - start) = q
          BY <1>2, <1>7
        <5>3. QED
          BY <5>1, <5>2
      <4>2. least <= Total(k)
        BY <1>5, <4>1
      <4>3. QED
        BY <2>2, <4>1, <4>2
    <3>3. QED
      BY <3>1, <3>2
  <2>5. QED
    BY <2>1, <2>3, <2>4
<1>10. QED
  BY <1>8, <1>9

(* parse_block: what is committed is a source. *)
LEMMA EndRelaxGood ==
  ASSUME CostConstraints, HeavyInv, EndRelax
  PROVE  HeavyGood
<1>1. /\ pc = "relax" /\ pc' = "back" /\ idx > BlockLen
      /\ commit' = Committed /\ boundary' = commit'.pos /\ tokens' = <<>>
      /\ UNCHANGED <<size, input, out, start, finderVars, frontier, dp, arrivalLen,
                     idx, lits>>
  BY DEF EndRelax
<1>2. /\ start \in Nat /\ BlockLen \in Nat \ {0} /\ End = start + BlockLen /\ End \in Nat
      /\ idx \in 0 .. BlockLen + 1
  BY <1>1, BlockFacts DEF Relaxed
<1>3. Committed.pos \in DOMAIN Costs /\ Committed.cost = Costs[Committed.pos]
  <2>1. CASE End < size
    <3>1. LitPos = End
      BY <1>1, <1>2 DEF LitPos
    <3>2. LitsOK
      BY <1>1 DEF HeavyInv
    <3>3. /\ lits.run \in Nat /\ End - lits.run \in DOMAIN Costs
          /\ lits = LiteralRun(lits.run, Costs[End - lits.run])
      BY <1>2, <3>1, <3>2 DEF LitsOK
    <3>4. Costs[End - lits.run] \in Nat
      BY <1>1, <3>3, SourceFacts DEF Relaxed
    <3>5. lits.cost = Costs[End - lits.run] + RunCost(lits.run)
      BY <3>3, <3>4, RunNext
    <3>6. Committed = [pos |-> End - lits.run,
                       cost |-> lits.cost - lits.run - Extras(lits.run)]
      BY <2>1 DEF Committed
    <3>7. Extras(lits.run) \in Nat /\ RunCost(lits.run) = lits.run + Extras(lits.run)
      BY <3>3, ExtrasFacts DEF RunCost
    <3>8. lits.cost - lits.run - Extras(lits.run) = Costs[End - lits.run]
      BY <3>3, <3>4, <3>5, <3>7
    <3>9. QED
      BY <3>3, <3>6, <3>8
  <2>2. CASE ~(End < size)
    BY <1>1, <2>2, BestEndFacts DEF Committed
  <2>3. QED
    BY <2>1, <2>2
<1>4. /\ End' = End /\ BlockLen' = BlockLen /\ MatchEnd' = MatchEnd /\ FrontierOK'
      /\ Costs' = Costs
  BY <1>1, BlockStays, CostsStay DEF HeavyInv
<1>5. CommitOK'
  BY <1>1, <1>3, <1>4 DEF CommitOK
<1>6. boundary' \in DOMAIN Costs' /\ boundary' \in 0 .. MatchEnd'
  <2>1. boundary' \in DOMAIN Costs
    BY <1>1, <1>3
  <2>2. boundary' \in Nat /\ boundary' <= MatchEnd /\ MatchEnd \in Nat
    BY <1>1, <2>1, SourceFacts, BlockFacts DEF Relaxed
  <2>3. QED
    BY <1>4, <2>1, <2>2
<1>7. WalkOK'
  <2>1. Target' = boundary'
    BY <1>1 DEF Target
  <2>2. tokens' \in Tokens /\ Len(tokens') = 0
    BY <1>1 DEF Tokens
  <2>3. Walked(tokens', Target', input', MatchEnd', Costs')
    BY <2>2 DEF Walked
  <2>4. QED
    BY <1>1, <1>6, <2>1, <2>2, <2>3 DEF WalkOK
<1>8. CostsOK' /\ BlockHeld'
  <2>1. CostsOK /\ BlockHeld /\ MatchedOK
    BY <1>1 DEF HeavyInv, BlockHeld
  <2>2. maxLen' = maxLen /\ at' = at
    BY <1>1 DEF finderVars
  <2>3. \A k : Arrived(k)' = Arrived(k)
    BY <1>1, <1>4, <2>2 DEF Arrived
  <2>4. CostsOK'
    BY <1>1, <2>1, <2>3 DEF CostsOK
  <2>5. MatchedOK'
    BY <1>1, <2>1, MatchedStays
  <2>6. QED
    BY <1>1, <1>4, <2>1, <2>2, <2>4, <2>5 DEF BlockHeld
<1>9. FinderInv'
  BY <1>1, FinderStays DEF HeavyInv
<1>10. BillOK'
  <2>1. Billed(out, frontier.cost)
    BY <1>1, Zenon DEF HeavyInv, BillOK
  <2>2. QED
    BY <1>1, <2>1, Zenon DEF BillOK
<1>11. AbstractParse!Covered' = AbstractParse!Covered
  BY <1>1 DEF AbstractParse!Covered
<1>12. HeavyInv'
  BY <1>1, <1>4, <1>5, <1>6, <1>7, <1>8, <1>9, <1>10, <1>11 DEF HeavyInv, Pcs
<1>13. QED
  BY <1>1, <1>12 DEF HeavyGood, AbstractParse!parseVars

(* What the walk and the emission leave alone. *)
LEMMA HeldStays ==
  ASSUME CostsOK, BlockHeld,
         UNCHANGED <<size, input, start, finderVars, frontier, dp, arrivalLen, idx>>
  PROVE  /\ CostsOK' /\ BlockHeld' /\ Costs' = Costs
         /\ End' = End /\ MatchEnd' = MatchEnd /\ FrontierOK' = FrontierOK
<1>1. /\ End' = End /\ MatchEnd' = MatchEnd /\ FrontierOK' = FrontierOK
      /\ BlockLen' = BlockLen /\ Costs' = Costs
  BY BlockStays, CostsStay
<1>2. maxLen' = maxLen /\ at' = at
  BY DEF finderVars
<1>3. \A k : Arrived(k)' = Arrived(k)
  BY <1>1, <1>2 DEF Arrived
<1>4. CostsOK'
  BY <1>3 DEF CostsOK
<1>5. MatchedOK'
  BY MatchedStays DEF BlockHeld
<1>6. QED
  BY <1>1, <1>2, <1>4, <1>5 DEF BlockHeld

(* literal_origin finds a source of the same cost, if not the same one. *)
LEMMA OriginFound ==
  ASSUME CostConstraints, HeavyInv, pc \in Relaxed,
         NEW m \in start .. End, NEW cost \in Nat,
         NEW o \in DOMAIN Costs, o <= m, Costs[o] + RunCost(m - o) = cost
  PROVE  /\ LiteralOrigin(m, cost) \in DOMAIN Costs
         /\ LiteralOrigin(m, cost) <= m
         /\ Costs[LiteralOrigin(m, cost)] + RunCost(m - LiteralOrigin(m, cost)) = cost
<1> DEFINE from == {p \in start .. m :
                      LET run == m - p IN
                        /\ dp[p - start] # Inf
                        /\ dp[p - start] + run + Extras(run) = cost}
           run == m - frontier.pos
           q == LiteralOrigin(m, cost)
<1>1. q = CASE from # {} -> Max(from)
            [] from = {} /\ frontier.pos <= start
                 /\ frontier.cost + run + Extras(run) = cost -> frontier.pos
            [] OTHER -> None
  BY Zenon DEF LiteralOrigin
<1>2. /\ start \in Nat /\ End \in Nat /\ frontier.pos \in Nat /\ frontier.pos <= start
  BY BlockFacts
<1>3. m \in Nat /\ m <= End
  BY <1>2
<1>4. ASSUME NEW u \in DOMAIN Costs, u <= m
      PROVE  /\ u \in Nat /\ m - u \in Nat
             /\ Costs[u] + RunCost(m - u) = Costs[u] + (m - u) + Extras(m - u)
  <2>1. u \in Nat /\ Costs[u] \in Nat /\ m - u \in Nat
    BY <1>3, <1>4, SourceFacts
  <2>2. Extras(m - u) \in Nat
    BY <2>1, ExtrasFacts
  <2>3. QED
    BY <2>1, <2>2 DEF RunCost
<1>5. ASSUME NEW p \in start .. m, dp[p - start] # Inf
      PROVE  p \in DOMAIN Costs /\ Costs[p] = dp[p - start] /\ p <= m
  <2>1. p \in start .. End
    BY <1>2, <1>3
  <2>2. QED
    BY <1>2, <1>3, <1>5, <2>1, SourceFacts
<1> HIDE DEF q
<1>6. CASE from # {}
  <2>1. UpTo(from, m)
    BY <1>2, <1>3 DEF UpTo
  <2>2. Max(from) \in from
    <3> HIDE DEF from
    <3>1. QED
      BY <1>3, <1>6, <2>1, SetMax
  <2>3. q = Max(from)
    BY <1>1, <1>6, Zenon
  <2>4. /\ q \in start .. m /\ dp[q - start] # Inf
        /\ dp[q - start] + (m - q) + Extras(m - q) = cost
    BY <2>2, <2>3
  <2>5. q \in DOMAIN Costs /\ Costs[q] = dp[q - start] /\ q <= m
    BY <1>5, <2>4
  <2>6. Costs[q] + RunCost(m - q) = cost
    BY <1>4, <2>4, <2>5
  <2>7. QED
    BY <2>5, <2>6 DEF q
<1>7. CASE from = {}
  <2>1. Costs[o] + (m - o) + Extras(m - o) = cost
    BY <1>4
  <2>2. o = frontier.pos
    <3>1. SUFFICES ASSUME o # frontier.pos PROVE FALSE
      OBVIOUS
    <3>2. /\ o - start \in 1 .. BlockLen /\ dp[o - start] # Inf
          /\ Costs[o] = dp[o - start] /\ o \in Nat
      BY <3>1, SourceFacts
    <3>3. o \in start .. m
      BY <1>2, <1>3, <3>2
    <3>4. o \in from
      BY <2>1, <3>2, <3>3
    <3>5. QED
      BY <1>7, <3>4
  <2>3. frontier.cost + run + Extras(run) = cost
    BY <2>1, <2>2, SourceFacts
  <2>4. q = frontier.pos
    BY <1>1, <1>2, <1>7, <2>3, Zenon
  <2>5. QED
    BY <2>2, <2>4 DEF q
<1>8. QED
  BY <1>6, <1>7

(* A walk gets one token longer, and is emitted from its other end. *)
LEMMA WalkLonger ==
  ASSUME NEW ts \in Tokens, NEW t, NEW to, NEW o, NEW f, NEW e, NEW c,
         Walked(ts, to, f, e, c), TokenOK(t, f, e, c, o), EndOf(t) = to
  PROVE  Walked(Append(ts, t), o, f, e, c)
<1> DEFINE us == Append(ts, t)
<1>1. /\ Len(ts) \in Nat /\ Len(us) = Len(ts) + 1
      /\ \A n \in 1 .. Len(ts) : us[n] = ts[n]
      /\ us[Len(ts) + 1] = t
  BY DEF Tokens
<1> HIDE DEF us
<1>2. ASSUME NEW n \in 1 .. Len(us) PROVE TokenOK(us[n], f, e, c, After(us, o, n))
  <2>1. CASE n = Len(us)
    <3>1. us[n] = t /\ After(us, o, n) = o
      BY <1>1, <2>1 DEF After
    <3>2. QED
      BY <3>1
  <2>2. CASE n < Len(us)
    <3>1. n \in 1 .. Len(ts) /\ us[n] = ts[n]
      BY <1>1, <2>2
    <3>2. After(us, o, n) = EndOf(us[n + 1])
      BY <2>2 DEF After
    <3>3. EndOf(us[n + 1]) = After(ts, to, n)
      <4>1. CASE n = Len(ts)
        <5>1. us[n + 1] = t /\ After(ts, to, n) = to
          BY <1>1, <4>1 DEF After
        <5>2. QED
          BY <5>1
      <4>2. CASE n # Len(ts)
        <5>1. n < Len(ts) /\ n + 1 \in 1 .. Len(ts)
          BY <1>1, <3>1, <4>2
        <5>2. QED
          BY <1>1, <5>1 DEF After
      <4>3. QED
        BY <4>1, <4>2
    <3>4. TokenOK(ts[n], f, e, c, After(ts, to, n))
      BY <3>1 DEF Walked
    <3>5. QED
      BY <3>1, <3>2, <3>3, <3>4
  <2>3. QED
    BY <1>1, <2>1, <2>2
<1>3. QED
  BY <1>2 DEF Walked, us

LEMMA WalkShorter ==
  ASSUME NEW ts \in Tokens, ts # <<>>, NEW to, NEW f, NEW e, NEW c,
         Walked(ts, to, f, e, c)
  PROVE  /\ TokenOK(ts[Len(ts)], f, e, c, to)
         /\ Walked(SubSeq(ts, 1, Len(ts) - 1), EndOf(ts[Len(ts)]), f, e, c)
<1> DEFINE us == SubSeq(ts, 1, Len(ts) - 1)
           k == Len(ts)
<1>1. k \in Nat /\ k > 0
  BY DEF Tokens
<1>2. Len(us) = k - 1 /\ \A n \in 1 .. k - 1 : us[n] = ts[n]
  BY <1>1 DEF Tokens
<1>3. TokenOK(ts[k], f, e, c, to)
  <2>1. After(ts, to, k) = to /\ k \in 1 .. Len(ts)
    BY <1>1 DEF After
  <2>2. QED
    BY <2>1 DEF Walked
<1> HIDE DEF us
<1>4. ASSUME NEW n \in 1 .. Len(us)
      PROVE  TokenOK(us[n], f, e, c, After(us, EndOf(ts[k]), n))
  <2>1. n \in 1 .. Len(ts) /\ us[n] = ts[n] /\ n < Len(ts) /\ n \in Nat
    BY <1>1, <1>2
  <2>2. After(us, EndOf(ts[k]), n) = After(ts, to, n)
    <3>1. CASE n = k - 1
      BY <1>1, <1>2, <2>1, <3>1 DEF After
    <3>2. CASE n # k - 1
      <4>1. n < Len(us) /\ n + 1 \in 1 .. k - 1
        BY <1>1, <1>2, <2>1, <3>2
      <4>2. QED
        BY <1>2, <2>1, <4>1 DEF After
    <3>3. QED
      BY <3>1, <3>2
  <2>3. TokenOK(ts[n], f, e, c, After(ts, to, n))
    BY <2>1 DEF Walked
  <2>4. QED
    BY <2>1, <2>2, <2>3
<1>5. QED
  BY <1>3, <1>4 DEF Walked, us

(* backtrack always finds the token that arrives at the boundary. *)
LEMMA StepBackGood ==
  ASSUME CostConstraints, HeavyInv, StepBack
  PROVE  HeavyGood
<1> DEFINE k == boundary - start
           a == arrivalLen[k]
           m == start + (k - a)
           t == Match(m, a, matchDis[m - start])
<1>1. /\ pc = "back" /\ boundary > frontier.pos
      /\ IF WalksBack
         THEN /\ tokens' = Append(tokens, Match(MatchStart, arrivalLen[boundary - start],
                                                matchDis[MatchStart - start]))
              /\ boundary' = Origin
              /\ UNCHANGED pc
         ELSE pc' = "failed" /\ UNCHANGED <<tokens, boundary>>
      /\ UNCHANGED <<size, input, out, start, finderVars, frontier, commit, dp,
                     arrivalLen, idx, lits>>
  BY DEF StepBack
<1>2. /\ start \in Nat /\ BlockLen \in Nat \ {0} /\ End = start + BlockLen /\ End \in Nat
      /\ End <= size /\ MatchEnd \in Nat /\ frontier.pos \in Nat /\ frontier.pos <= start
      /\ CostsOK /\ DOMAIN dp = 0 .. BlockLen + RelaxWindow - 1
      /\ idx \in 0 .. BlockLen + 1
  BY <1>1, BlockFacts DEF Relaxed
<1>3. /\ BlockHeld /\ CommitOK /\ tokens \in Tokens
      /\ boundary \in DOMAIN Costs
      /\ commit.pos = IF tokens = <<>> THEN boundary ELSE EndOf(tokens[1])
      /\ Walked(tokens, boundary, input, MatchEnd, Costs)
  <2>1. Target = boundary
    BY <1>1 DEF Target
  <2>2. BlockHeld /\ CommitOK /\ WalkOK
    BY <1>1 DEF HeavyInv
  <2>3. QED
    BY <2>1, <2>2 DEF WalkOK
<1>4. /\ boundary \in Nat /\ boundary <= MatchEnd /\ k \in 1 .. BlockLen /\ dp[k] # Inf
      /\ Costs[boundary] = dp[k] /\ dp[k] \in Nat /\ start + k = boundary
  <2>1. /\ boundary \in Nat /\ boundary <= MatchEnd /\ boundary # frontier.pos
        /\ Costs[boundary] \in Nat
        /\ boundary # frontier.pos => /\ k \in 1 .. BlockLen /\ dp[k] # Inf
                                      /\ Costs[boundary] = dp[k]
    BY <1>1, <1>2, <1>3, SourceFacts DEF Relaxed
  <2>2. QED
    BY <1>2, <2>1
<1>5. Arrived(k)
  <2>1. RelaxWindow \in Nat /\ MaxMatchLen \in Nat /\ MaxMatchLen < RelaxWindow
    BY CostFacts, Constants
  <2>2. k \in DOMAIN dp /\ k > 0
    BY <1>2, <1>4, <2>1
  <2>3. QED
    BY <1>2, <1>4, <2>2 DEF CostsOK
<1>6. /\ a \in Enc /\ a <= k /\ a <= maxLen[k - a]
      /\ \E o \in DOMAIN Costs : o <= m /\ dp[k] = CostFrom(Costs, o, m)
  BY <1>5 DEF Arrived
<1>7. a \in Nat /\ a > 0 /\ MinMatchLen <= a
  BY <1>6, LenOfFacts
<1> HIDE DEF k, a
<1>8. /\ k - a \in 0 .. BlockLen - 1 /\ m \in start .. End /\ m \in Nat
      /\ m - start = k - a /\ m + a = boundary /\ m = boundary - a
  BY <1>2, <1>4, <1>6, <1>7
<1> HIDE DEF m
<1>9. PICK o \in DOMAIN Costs : o <= m /\ dp[k] = CostFrom(Costs, o, m)
  BY <1>6
<1>10. /\ Costs[o] + RunCost(m - o) = dp[k] - TokenCost /\ dp[k] - TokenCost \in Nat
       /\ dp[k] >= TokenCost /\ TokenCost \in Nat
  <2>1. o \in Nat /\ Costs[o] \in Nat /\ m - o \in Nat
    BY <1>1, <1>8, <1>9, SourceFacts DEF Relaxed
  <2>2. RunCost(m - o) \in Nat /\ TokenCost \in Nat
    <3>1. RunCost(m - o) \in (m - o) .. (m - o) + (m - o)
      BY <2>1, ExtrasFacts
    <3>2. QED
      BY <2>1, <3>1, CostFacts
  <2>3. dp[k] = Costs[o] + RunCost(m - o) + TokenCost
    BY <1>9 DEF CostFrom
  <2>4. QED
    BY <2>1, <2>2, <2>3
<1> DEFINE q == LiteralOrigin(m, dp[k] - TokenCost)
<1>11. q \in DOMAIN Costs /\ q <= m /\ Costs[q] + RunCost(m - q) = dp[k] - TokenCost
  BY <1>1, <1>8, <1>9, <1>10, OriginFound DEF Relaxed
<1>12. MatchStart = m /\ Origin = q
  BY <1>8 DEF MatchStart, Origin, k, a
<1> HIDE DEF q
<1>13. q \in Nat /\ q <= MatchEnd /\ Costs[q] \in Nat
  BY <1>1, <1>11, SourceFacts DEF Relaxed
<1>14. WalksBack
  <2>1. boundary >= start /\ m >= start
    BY <1>2, <1>4, <1>8
  <2>2. Origin # None
    BY <1>12, <1>13 DEF None
  <2>3. arrivalLen[boundary - start] >= MinMatchLen /\ dp[boundary - start] >= TokenCost
    <3>1. MinMatchLen \in Nat
      BY Constants
    <3>2. QED
      BY <1>7, <1>10, <3>1 DEF k, a
  <2>4. QED
    BY <1>12, <2>1, <2>2, <2>3 DEF WalksBack
<1>15. tokens' = Append(tokens, t) /\ boundary' = q /\ pc' = pc
  BY <1>1, <1>12, <1>14 DEF k, a
<1>16. /\ t.pos = m /\ t.len = a /\ t.dis = matchDis[k - a]
       /\ t = [pos |-> m, len |-> a, dis |-> matchDis[k - a]]
  BY <1>8 DEF Match
<1> HIDE DEF t
<1>17. Repeats(m, a, matchDis[k - a])
  <2>1. /\ maxLen[k - a] \in Nat
        /\ \/ maxLen[k - a] = 0
           \/ Repeats(start + (k - a), maxLen[k - a], matchDis[k - a])
    BY <1>1, <1>8, FoundFacts DEF Relaxed
  <2>2. Repeats(m, maxLen[k - a], matchDis[k - a])
    BY <1>6, <1>7, <2>1 DEF m
  <2>3. a \in 0 .. maxLen[k - a]
    BY <1>6, <1>7, <2>1
  <2>4. QED
    BY <1>8, <2>1, <2>2, <2>3, RepeatsShorter
<1>18. TokenOK(t, input, MatchEnd, Costs, q) /\ EndOf(t) = boundary
  <2>1. EndOf(t) = boundary
    BY <1>8, <1>16 DEF EndOf
  <2>2. /\ matchDis[k - a] \in MinDistance .. MaxDistance /\ matchDis[k - a] <= m
        /\ \A j \in m .. boundary - 1 : input[j] = input[j - matchDis[k - a]]
    <3>1. m + a - 1 = boundary - 1
      BY <1>7, <1>8
    <3>2. QED
      BY <1>17, <3>1 DEF Repeats
  <2>3. Costs[boundary] = CostFrom(Costs, q, m)
    <3>1. RunCost(m - q) \in Nat
      <4>1. m - q \in Nat
        BY <1>8, <1>11, <1>13
      <4>2. RunCost(m - q) \in (m - q) .. (m - q) + (m - q)
        BY <4>1, ExtrasFacts
      <4>3. QED
        BY <4>1, <4>2
    <3>2. QED
      BY <1>4, <1>10, <1>11, <1>13, <3>1 DEF CostFrom
  <2>4. QED
    BY <1>3, <1>4, <1>6, <1>11, <1>16, <2>1, <2>2, <2>3 DEF TokenOK
<1>19. tokens' \in Tokens
  <2>1. matchDis[k - a] \in Nat
    BY <1>17, Constants DEF Repeats
  <2>2. t \in [pos : Nat, len : Nat, dis : Nat]
    BY <1>7, <1>8, <1>16, <2>1
  <2>3. QED
    BY <1>3, <1>15, <2>2 DEF Tokens
<1>20. Walked(tokens', q, input, MatchEnd, Costs)
  BY <1>3, <1>15, <1>18, WalkLonger
<1>21. /\ CostsOK' /\ BlockHeld' /\ Costs' = Costs
       /\ End' = End /\ MatchEnd' = MatchEnd /\ FrontierOK' = FrontierOK
  BY <1>1, <1>2, <1>3, HeldStays
<1>22. commit.pos = EndOf(tokens'[1])
  <2>1. CASE tokens = <<>>
    BY <1>3, <1>15, <1>18, <2>1
  <2>2. CASE tokens # <<>>
    <3>1. tokens'[1] = tokens[1]
      BY <1>3, <1>15, <2>2 DEF Tokens
    <3>2. QED
      BY <1>3, <2>2, <3>1
  <2>3. QED
    BY <2>1, <2>2
<1>23. WalkOK'
  <2>1. Target' = q
    BY <1>1, <1>15 DEF Target
  <2>2. tokens' # <<>>
    BY <1>3, <1>15 DEF Tokens
  <2>3. QED
    BY <1>1, <1>11, <1>19, <1>20, <1>21, <1>22, <2>1, <2>2 DEF WalkOK
<1>24. FinderInv'
  BY <1>1, <1>15, FinderStays DEF HeavyInv
<1>25. CommitOK'
  BY <1>1, <1>3, <1>21 DEF CommitOK
<1>26. BillOK'
  <2>1. Billed(out, frontier.cost)
    BY <1>1, Zenon DEF HeavyInv, BillOK
  <2>2. QED
    BY <1>1, <1>15, <2>1, Zenon DEF BillOK
<1>27. AbstractParse!Covered' = AbstractParse!Covered
  BY <1>1 DEF AbstractParse!Covered
<1>28. boundary' \in 0 .. MatchEnd'
  BY <1>2, <1>13, <1>15, <1>21
<1>29. HeavyInv'
  BY <1>1, <1>15, <1>21, <1>23, <1>24, <1>25, <1>26, <1>27, <1>28 DEF HeavyInv, Pcs
<1>30. QED
  BY <1>1, <1>15, <1>29 DEF HeavyGood, AbstractParse!parseVars

(* The walk ends at the frontier. *)
LEMMA EndBackGood ==
  ASSUME CostConstraints, HeavyInv, EndBack
  PROVE  HeavyGood
<1>1. /\ pc = "back" /\ boundary <= frontier.pos /\ pc' = "emit"
      /\ UNCHANGED <<size, input, out, start, finderVars, frontier, commit, dp,
                     arrivalLen, idx, lits, boundary, tokens>>
  BY DEF EndBack, relaxVars
<1>2. BlockHeld /\ CostsOK /\ CommitOK /\ WalkOK /\ AbstractParse!Covered = frontier.pos
  BY <1>1 DEF HeavyInv
<1>3. Target = boundary /\ boundary \in DOMAIN Costs
  BY <1>1, <1>2 DEF Target, WalkOK
<1>4. boundary = frontier.pos /\ Costs[frontier.pos] = frontier.cost
  <2>1. boundary \in Nat /\ frontier.pos \in Nat /\ frontier.pos <= boundary
    BY <1>1, <1>3, SourceFacts, BlockFacts DEF Relaxed
  <2>2. QED
    BY <1>1, <2>1, SourceFacts DEF Relaxed
<1>5. /\ CostsOK' /\ BlockHeld' /\ Costs' = Costs
      /\ End' = End /\ MatchEnd' = MatchEnd /\ FrontierOK' = FrontierOK
  BY <1>1, <1>2, HeldStays
<1>6. AbstractParse!Covered' = AbstractParse!Covered
  BY <1>1 DEF AbstractParse!Covered
<1>7. Target' = Target
  BY <1>1, <1>2, <1>3, <1>4, <1>6 DEF Target
<1>8. WalkOK'
  BY <1>1, <1>2, <1>5, <1>7 DEF WalkOK
<1>9. CommitOK'
  BY <1>1, <1>2, <1>5 DEF CommitOK
<1>10. BillOK'
  <2>1. Billed(out, frontier.cost)
    BY <1>1, Zenon DEF HeavyInv, BillOK
  <2>2. Costs'[AbstractParse!Covered'] = frontier.cost
    BY <1>2, <1>4, <1>5, <1>6
  <2>3. QED
    BY <1>1, <2>1, <2>2, Zenon DEF BillOK
<1>11. FinderInv'
  BY <1>1, FinderStays DEF HeavyInv
<1>12. HeavyInv'
  BY <1>1, <1>5, <1>8, <1>9, <1>10, <1>11 DEF HeavyInv, Pcs
<1>13. QED
  BY <1>1, <1>12 DEF HeavyGood, AbstractParse!parseVars

(* What the tokens cost, with one more. *)
LEMMA BillLonger ==
  ASSUME NEW s \in Tokens, NEW t, NEW cost, Billed(s, cost)
  PROVE  Billed(Append(s, t),
                cost + RunCost(t.pos - StartOf(s, Len(s) + 1)) + TokenCost)
<1> DEFINE n == Len(s)
           us == Append(s, t)
<1>1. PICK paid : Bill(s, paid) /\ paid[n] = cost
  BY DEF Billed
<1>2. /\ n \in Nat /\ Len(us) = n + 1 /\ us[n + 1] = t
      /\ \A k \in 1 .. n : us[k] = s[k]
  BY DEF Tokens
<1> HIDE DEF n, us
<1> DEFINE total == cost + RunCost(t.pos - StartOf(s, n + 1)) + TokenCost
           due == [k \in 0 .. n + 1 |-> IF k <= n THEN paid[k] ELSE total]
           bill == [k \in 0 .. Len(us) |->
                      IF k = 0 THEN HeaderCost
                      ELSE due[k - 1] + RunCost(us[k].pos - StartOf(us, k)) + TokenCost]
<1>3. /\ \A k \in 0 .. n : due[k] = paid[k]
      /\ due[n + 1] = total
  BY <1>2
<1>4. \A k \in 0 .. n :
        paid[k] = IF k = 0 THEN HeaderCost
                  ELSE paid[k - 1] + RunCost(s[k].pos - StartOf(s, k)) + TokenCost
  <2> DEFINE F(k) == IF k = 0 THEN HeaderCost
                     ELSE paid[k - 1] + RunCost(s[k].pos - StartOf(s, k)) + TokenCost
  <2>1. paid = [k \in 0 .. n |-> F(k)]
    BY <1>1, Zenon DEF Bill, n
  <2> HIDE DEF F
  <2>2. \A k \in 0 .. n : paid[k] = F(k)
    BY <2>1
  <2>3. QED
    BY <2>2 DEF F
<1>5. \A k \in 1 .. n + 1 : StartOf(us, k) = StartOf(s, k)
  BY <1>2 DEF StartOf
<1>6. ASSUME NEW k \in 0 .. n + 1 PROVE due[k] = bill[k]
  <2>1. k \in 0 .. Len(us) /\ k \in Nat
    BY <1>2
  <2>2. bill[k] = IF k = 0 THEN HeaderCost
                  ELSE due[k - 1] + RunCost(us[k].pos - StartOf(us, k)) + TokenCost
    BY <2>1
  <2> HIDE DEF due, bill, total
  <2>3. CASE k = 0
    BY <1>2, <1>3, <1>4, <2>2, <2>3
  <2>4. CASE k \in 1 .. n
    <3>1. k - 1 \in 0 .. n /\ k \in 0 .. n /\ k # 0 /\ k \in 1 .. n + 1
      BY <1>2, <2>4
    <3>2. us[k] = s[k] /\ StartOf(us, k) = StartOf(s, k) /\ due[k - 1] = paid[k - 1]
      BY <1>2, <1>3, <1>5, <2>4, <3>1
    <3>3. due[k] = paid[k]
      BY <1>3, <3>1
    <3>4. QED
      BY <1>4, <2>2, <3>1, <3>2, <3>3
  <2>5. CASE k = n + 1
    <3>1. k - 1 = n /\ k # 0 /\ n \in 0 .. n
      BY <1>2, <2>5
    <3>2. due[k - 1] = cost /\ us[k] = t /\ StartOf(us, k) = StartOf(s, n + 1)
      BY <1>1, <1>2, <1>3, <1>5, <2>5, <3>1
    <3>3. QED
      BY <1>3, <2>2, <2>5, <3>1, <3>2 DEF total
  <2>6. QED
    BY <1>2, <2>3, <2>4, <2>5
<1>7. due = bill
  <2>1. DOMAIN due = 0 .. n + 1 /\ DOMAIN bill = 0 .. n + 1
    BY <1>2
  <2>2. due = [k \in DOMAIN due |-> due[k]] /\ bill = [k \in DOMAIN bill |-> bill[k]]
    OBVIOUS
  <2> HIDE DEF due, bill
  <2>3. QED
    BY <1>6, <2>1, <2>2
<1>8. Bill(us, due)
  BY <1>7, Zenon DEF Bill
<1>9. due[Len(us)] = total
  BY <1>2, <1>3
<1> HIDE DEF due
<1>10. QED
  BY <1>8, <1>9, Zenon DEF Billed, us, total, n

(* Dropping the last of a sequence leaves a sequence over the same set. *)
LEMMA FrontSeq ==
  ASSUME NEW R, NEW s \in Seq(R), Len(s) > 0
  PROVE  /\ SubSeq(s, 1, Len(s) - 1) \in Seq(R)
         /\ Len(SubSeq(s, 1, Len(s) - 1)) = Len(s) - 1
         /\ \A n \in 1 .. Len(s) - 1 : SubSeq(s, 1, Len(s) - 1)[n] = s[n]
<1> DEFINE front == SubSeq(s, 1, Len(s) - 1)
<1>1. Len(s) \in Nat /\ Len(s) - 1 \in Int /\ 1 \in Int
  OBVIOUS
<1>2. \A i \in 1 .. Len(s) - 1 : s[i] \in R
  <2>1. TAKE i \in 1 .. Len(s) - 1
  <2>2. i \in 1 .. Len(s)
    BY <1>1
  <2>3. QED
    BY <2>2
<1>3. /\ front \in Seq(R)
      /\ Len(front) = IF 1 <= Len(s) - 1 THEN (Len(s) - 1) - 1 + 1 ELSE 0
      /\ \A i \in 1 .. (Len(s) - 1) - 1 + 1 : front[i] = s[1 + i - 1]
  BY <1>1, <1>2, SubSeqProperties
<1> HIDE DEF front
<1>4. Len(front) = Len(s) - 1
  <2> DEFINE n == Len(s)
  <2>1. n \in Nat /\ n > 0 /\ Len(front) = IF 1 <= n - 1 THEN (n - 1) - 1 + 1 ELSE 0
    BY <1>1, <1>3
  <2> HIDE DEF n
  <2>2. Len(front) = n - 1
    BY <2>1
  <2>3. QED
    BY <2>2 DEF n
<1>5. \A n \in 1 .. Len(s) - 1 : front[n] = s[n]
  <2>1. TAKE n \in 1 .. Len(s) - 1
  <2>2. n \in 1 .. (Len(s) - 1) - 1 + 1 /\ 1 + n - 1 = n
    BY <1>1
  <2>3. QED
    BY <1>3, <2>2
<1>6. QED
  BY <1>3, <1>4, <1>5 DEF front

LEMMA TokenSeq ==
  ASSUME NEW ts \in Tokens, ts # <<>>
  PROVE  /\ Len(ts) \in Nat /\ Len(ts) > 0
         /\ ts[Len(ts)] \in [pos : Nat, len : Nat, dis : Nat]
         /\ SubSeq(ts, 1, Len(ts) - 1) \in Tokens
         /\ Len(SubSeq(ts, 1, Len(ts) - 1)) = Len(ts) - 1
         /\ \A n \in 1 .. Len(ts) - 1 : SubSeq(ts, 1, Len(ts) - 1)[n] = ts[n]
<1> DEFINE R == [pos : Nat, len : Nat, dis : Nat]
<1>1. ts \in Seq(R) /\ Tokens = Seq(R)
  BY DEF Tokens
<1> HIDE DEF R
<1>2. Len(ts) \in Nat /\ Len(ts) > 0
  BY <1>1
<1>3. ts[Len(ts)] \in R
  BY <1>1, <1>2
<1>4. SubSeq(ts, 1, Len(ts) - 1) \in Seq(R)
  BY <1>1, <1>2, FrontSeq
<1>5. /\ Len(SubSeq(ts, 1, Len(ts) - 1)) = Len(ts) - 1
      /\ \A n \in 1 .. Len(ts) - 1 : SubSeq(ts, 1, Len(ts) - 1)[n] = ts[n]
  BY <1>1, <1>2, FrontSeq
<1>6. QED
  BY <1>1, <1>2, <1>3, <1>4, <1>5 DEF R

(* compress emits what the walk found, in the order of the input. *)
LEMMA EmitTokenGood ==
  ASSUME CostConstraints, HeavyInv, EmitToken
  PROVE  HeavyGood
<1> DEFINE t == tokens[Len(tokens)]
           covered == AbstractParse!Covered
<1>1. /\ pc = "emit" /\ tokens # <<>> /\ out' = Append(out, t)
      /\ tokens' = SubSeq(tokens, 1, Len(tokens) - 1)
      /\ UNCHANGED <<size, input, pc, start, finderVars, frontier, commit, dp,
                     arrivalLen, idx, lits, boundary>>
  BY DEF EmitToken
<1>2. /\ BlockHeld /\ CostsOK /\ CommitOK /\ out \in Tokens /\ tokens \in Tokens
      /\ covered \in DOMAIN Costs /\ commit.pos = EndOf(tokens[1])
      /\ Walked(tokens, covered, input, MatchEnd, Costs)
      /\ Billed(out, Costs[covered])
  <2>1. Target = covered
    BY <1>1 DEF Target
  <2>2. BlockHeld /\ CostsOK /\ CommitOK /\ WalkOK /\ out \in Tokens
    BY <1>1 DEF HeavyInv
  <2>3. Billed(out, Costs[covered])
    BY <1>1, Zenon DEF HeavyInv, BillOK
  <2>4. QED
    BY <1>1, <2>1, <2>2, <2>3 DEF WalkOK
<1>3. /\ TokenOK(t, input, MatchEnd, Costs, covered)
      /\ Walked(tokens', EndOf(t), input, MatchEnd, Costs)
  BY <1>1, <1>2, WalkShorter
<1>4. /\ Len(tokens) \in Nat /\ Len(tokens) > 0
      /\ t \in [pos : Nat, len : Nat, dis : Nat]
      /\ tokens' \in Tokens /\ Len(tokens') = Len(tokens) - 1
      /\ \A n \in 1 .. Len(tokens) - 1 : tokens'[n] = tokens[n]
  BY <1>1, <1>2, TokenSeq
<1>5. /\ t.len \in Enc /\ EndOf(t) <= MatchEnd
      /\ t.dis \in MinDistance .. MaxDistance /\ t.dis <= t.pos
      /\ \A j \in t.pos .. EndOf(t) - 1 : input[j] = input[j - t.dis]
      /\ covered <= t.pos
      /\ EndOf(t) \in DOMAIN Costs
      /\ Costs[EndOf(t)] = CostFrom(Costs, covered, t.pos)
  BY <1>3 DEF TokenOK
<1>6. t.pos \in Nat /\ t.len \in Nat /\ t.dis \in Nat /\ EndOf(t) = t.pos + t.len
  BY <1>4 DEF EndOf
<1> HIDE DEF t
<1>7. out' \in Tokens /\ Len(out') = Len(out) + 1 /\ out' # <<>> /\ out'[Len(out')] = t
      /\ Len(out) \in Nat /\ (out = <<>> <=> Len(out) = 0)
  <2>1. Len(out) \in Nat /\ (out = <<>> <=> Len(out) = 0)
    BY <1>2 DEF Tokens
  <2>2. out' \in Tokens /\ Len(out') = Len(out) + 1 /\ out'[Len(out) + 1] = t
    BY <1>1, <1>2, <1>4 DEF Tokens
  <2>3. out' # <<>>
    BY <2>1, <2>2 DEF Tokens
  <2>4. QED
    BY <2>1, <2>2, <2>3
<1>8. AbstractParse!Covered' = EndOf(t)
  BY <1>6, <1>7 DEF AbstractParse!Covered, EndOf
<1>9. StartOf(out, Len(out) + 1) = covered
  <2>1. CASE out = <<>>
    BY <1>7, <2>1 DEF StartOf, AbstractParse!Covered
  <2>2. CASE out # <<>>
    <3>1. Len(out) + 1 # 1 /\ (Len(out) + 1) - 1 = Len(out)
      BY <1>7, <2>2
    <3>2. QED
      BY <2>2, <3>1 DEF StartOf, AbstractParse!Covered, EndOf
  <2>3. QED
    BY <2>1, <2>2
<1>10. Billed(out', Costs[EndOf(t)])
  <2>1. Billed(Append(out, t),
               Costs[covered] + RunCost(t.pos - StartOf(out, Len(out) + 1)) + TokenCost)
    BY <1>2, BillLonger
  <2>2. QED
    BY <1>1, <1>5, <1>9, <2>1 DEF CostFrom
<1>11. /\ CostsOK' /\ BlockHeld' /\ Costs' = Costs
       /\ End' = End /\ MatchEnd' = MatchEnd /\ FrontierOK' = FrontierOK
  BY <1>1, <1>2, HeldStays
<1>12. BillOK'
  <2>1. pc' = "emit" /\ Costs'[AbstractParse!Covered'] = Costs[EndOf(t)]
    BY <1>1, <1>8, <1>11
  <2>2. QED
    BY <1>10, <2>1, Zenon DEF BillOK
<1>13. WalkOK'
  <2>1. Target' = EndOf(t)
    BY <1>1, <1>8 DEF Target
  <2>2. commit'.pos = IF tokens' = <<>> THEN EndOf(t) ELSE EndOf(tokens'[1])
    <3>1. CASE Len(tokens) = 1
      <4>1. tokens' = <<>> /\ t = tokens[1]
        BY <1>4, <3>1 DEF Tokens, t
      <4>2. QED
        BY <1>1, <1>2, <4>1
    <3>2. CASE Len(tokens) # 1
      <4>1. tokens' # <<>> /\ tokens'[1] = tokens[1]
        BY <1>4, <3>2 DEF Tokens
      <4>2. QED
        BY <1>1, <1>2, <4>1
    <3>3. QED
      BY <3>1, <3>2
  <2>3. QED
    BY <1>1, <1>3, <1>4, <1>5, <1>11, <2>1, <2>2 DEF WalkOK
<1>14. CommitOK'
  BY <1>1, <1>2, <1>11 DEF CommitOK
<1>15. FinderInv'
  BY <1>1, FinderStays DEF HeavyInv
<1>16. boundary' \in 0 .. MatchEnd'
  BY <1>1, <1>11 DEF HeavyInv
<1>17. HeavyInv'
  BY <1>1, <1>7, <1>11, <1>12, <1>13, <1>14, <1>15, <1>16 DEF HeavyInv, Pcs
<1>18. AbstractParse!Emit(t)
  <2>1. t.len \in MatchLens
    BY <1>5, LenOfFacts
  <2>2. TrueMatch(t)
    BY <1>5, <1>6 DEF TrueMatch
  <2>3. AbstractParse!TrueMatch(t) /\ AbstractParse!MatchEnd = MatchEnd
    BY <2>2 DEF AbstractParse!TrueMatch, TrueMatch, AbstractParse!MatchEnd, MatchEnd
  <2>4. t.pos >= covered /\ t.pos + t.len <= MatchEnd
    <3>1. covered \in Nat
      BY <1>1, <1>2, SourceFacts DEF Relaxed
    <3>2. QED
      BY <1>5, <1>6, <3>1
  <2>5. QED
    BY <1>1, <2>1, <2>3, <2>4 DEF AbstractParse!Emit
<1>19. AbstractParse!Next
  <2>1. AbstractParse!Match(t.pos, t.len, t.dis) = t
    BY <1>4, Zenon DEF AbstractParse!Match, t
  <2>2. t.pos \in 0 .. size
    BY <1>1, <1>5, <1>6, BlockFacts DEF Relaxed
  <2>3. QED
    BY <1>5, <1>18, <2>1, <2>2, LenOfFacts DEF AbstractParse!Next
<1>20. QED
  BY <1>17, <1>19 DEF HeavyGood

(* The frontier moves to what was committed. *)
LEMMA CommitBlockGood ==
  ASSUME CostConstraints, HeavyInv, CommitBlock
  PROVE  HeavyGood
<1>1. /\ pc = "emit" /\ tokens = <<>> /\ pc' = "block" /\ frontier' = commit
      /\ start' = start + BlockSize
      /\ UNCHANGED <<size, input, out, finderVars, commit, dp, arrivalLen, idx, lits,
                     boundary, tokens>>
  BY DEF CommitBlock
<1>2. /\ start \in Nat /\ BlockSize \in Nat \ {0} /\ InputTypeOK
      /\ End \in Nat /\ End <= start + BlockSize /\ MatchEnd \in Nat
  BY <1>1, BlockFacts, Bounds, Constants DEF Relaxed
<1>3. /\ commit.pos = AbstractParse!Covered /\ commit.pos \in DOMAIN Costs
      /\ commit.cost = Costs[commit.pos]
  BY <1>1 DEF HeavyInv, CommitOK, WalkOK, Target
<1>4. /\ commit.pos \in Nat /\ commit.pos <= End /\ commit.pos <= MatchEnd
      /\ commit.cost \in HeaderCost .. Lim(commit.pos)
  BY <1>1, <1>3, SourceFacts DEF Relaxed
<1>5. MatchEnd' = MatchEnd
  BY <1>1 DEF MatchEnd
<1>6. FrontierOK'
  BY <1>1, <1>2, <1>4, <1>5 DEF FrontierOK
<1>7. FinderInv'
  <2>1. PICK k \in Nat : start = k * BlockSize
    BY DEF HeavyInv, FinderInv, BlockOK
  <2>2. (k + 1) * BlockSize = k * BlockSize + BlockSize
    BY <1>2
  <2>3. BlockOK'
    <3>1. k + 1 \in Nat /\ start' = (k + 1) * BlockSize
      BY <1>1, <2>1, <2>2
    <3>2. QED
      BY <1>1, <3>1 DEF BlockOK
  <2>4. UNCHANGED <<sa, rank, live, at, carry, maxLen, matchDis>> /\ start' \in Nat
    BY <1>1, <1>2 DEF finderVars
  <2>5. InputTypeOK' /\ FinderTypeOK'
    BY <1>1, <2>4 DEF HeavyInv, FinderInv, InputTypeOK, FinderTypeOK
  <2>6. ScanOK' /\ LiveWindow'
    BY <1>1 DEF ScanOK, LiveWindow
  <2>7. QED
    BY <2>3, <2>5, <2>6 DEF FinderInv
<1>8. AbstractParse!Covered' = AbstractParse!Covered
  BY <1>1 DEF AbstractParse!Covered
<1>9. BillOK'
  <2>1. Billed(out, Costs[AbstractParse!Covered])
    BY <1>1, Zenon DEF HeavyInv, BillOK
  <2>2. pc' # "emit" /\ frontier'.cost = Costs[AbstractParse!Covered]
    BY <1>1, <1>3
  <2>3. QED
    BY <1>1, <2>1, <2>2, Zenon DEF BillOK
<1>10. boundary' \in 0 .. MatchEnd'
  BY <1>1, <1>5 DEF HeavyInv
<1>11. HeavyInv'
  BY <1>1, <1>3, <1>6, <1>7, <1>8, <1>9, <1>10 DEF HeavyInv, Pcs
<1>12. QED
  BY <1>1, <1>11 DEF HeavyGood, AbstractParse!parseVars

LEMMA HeavyIdle ==
  ASSUME HeavyInv, UNCHANGED heavyVars
  PROVE  HeavyGood
<1>1. UNCHANGED <<size, input, out, pc, start, finderVars, frontier, commit, dp,
                  arrivalLen, idx, lits, boundary, tokens>>
  BY DEF heavyVars, relaxVars
<1>2. UNCHANGED <<sa, rank, live, at, carry, maxLen, matchDis>>
  BY <1>1 DEF finderVars
<1>3. /\ FrontierOK' = FrontierOK /\ MatchEnd' = MatchEnd /\ Costs' = Costs
      /\ End' = End /\ HardEnd' = HardEnd
  BY <1>1, BlockStays, CostsStay
<1>4. FinderInv'
  <2>1. SegLen' = SegLen
    BY <1>1 DEF SegLen
  <2>2. UNCHANGED <<RankOK, MatchedOK, CarryOK>>
    BY <1>1, <1>2, <1>3, <2>1 DEF RankOK, MatchedOK, Usable, Repeats, CarryOK
  <2>3. UNCHANGED LiveWindow
    BY <1>1, <1>2 DEF LiveWindow, RankOf, Window
  <2>4. QED
    BY <1>1, <1>2, <1>3, <2>2, <2>3
       DEF HeavyInv, FinderInv, InputTypeOK, FinderTypeOK, BlockOK, ScanOK
<1>5. AbstractParse!Covered' = AbstractParse!Covered
  BY <1>1 DEF AbstractParse!Covered
<1>6. pc \in {"relax", "back", "emit"} => BlockHeld' /\ CostsOK'
  BY <1>1, HeldStays DEF HeavyInv
<1>7. /\ LitsOK' = LitsOK /\ CommitOK' = CommitOK
  BY <1>1, <1>3 DEF LitsOK, LitPos, CommitOK
<1>8. WalkOK' = WalkOK
  BY <1>1, <1>3, <1>5 DEF WalkOK, Target
<1>9. BillOK' = BillOK
  BY <1>1, <1>3, <1>5, Zenon DEF BillOK
<1>10. HeavyInv'
  BY <1>1, <1>3, <1>4, <1>5, <1>6, <1>7, <1>8, <1>9 DEF HeavyInv
<1>11. QED
  BY <1>1, <1>10 DEF HeavyGood, AbstractParse!parseVars

LEMMA HeavyStep ==
  ASSUME CostConstraints, HeavyInv, [HeavyNext]_heavyVars
  PROVE  HeavyGood
BY HeavySearchGood, StartRelaxGood, RelaxGood, EndRelaxGood, StepBackGood, EndBackGood,
   EmitTokenGood, CommitBlockGood, HeavyFinishGood, HeavyIdle DEF HeavyNext, HeavyReturned

LEMMA HeavyInitInv ==
  ASSUME CostConstraints, HeavyInit
  PROVE  HeavyInv
<1>1. /\ InputTypeOK /\ out = <<>> /\ FinderInit
      /\ frontier = [pos |-> 0, cost |-> HeaderCost] /\ boundary = 0
      /\ pc = "block" /\ start = 0 /\ at = 0 /\ sa = <<>> /\ live = EmptySet
      /\ carry = NoCarry
  BY DEF HeavyInit, InputInit, InputTypeOK, FinderInit
<1>2. /\ size \in Nat /\ MaxDistance \in Nat /\ BlockSize \in Nat \ {0}
      /\ MinMatchLen \in Nat /\ MaxMatchLen \in Nat /\ MinMatchLen <= MaxMatchLen
      /\ MatchEnd \in Nat /\ HeaderCost \in Nat
  BY <1>1, Constants, SizeRange, CostFacts
<1>3. FinderInv
  <2>1. /\ DOMAIN maxLen = DOMAIN matchDis
        /\ \A i \in DOMAIN maxLen : maxLen[i] \in {0} \cup (MinMatchLen .. MaxMatchLen)
    <3>1. CASE maxLen = <<>> /\ matchDis = <<>>
      BY <3>1
    <3>2. CASE /\ maxLen = [i \in 0 .. BlockSize - 1 |-> MaxMatchLen]
               /\ matchDis = [i \in 0 .. BlockSize - 1 |-> MinDistance]
      BY <1>2, <3>2
    <3>3. QED
      BY <1>1, <3>1, <3>2 DEF FinderInit
  <2>2. FinderTypeOK
    BY <1>1, <1>2, <2>1 DEF FinderTypeOK, EmptySet, LiveSet, NoCarry
  <2>3. BlockOK
    BY <1>1, <1>2 DEF BlockOK
  <2>4. QED
    BY <1>1, <2>2, <2>3 DEF FinderInv, ScanOK, LiveWindow
<1>4. FrontierOK
  <2>1. Lim(0) \in Nat /\ Lim(0) >= HeaderCost
    BY LimFacts
  <2>2. QED
    BY <1>1, <1>2, <2>1 DEF FrontierOK
<1>5. BillOK
  <2> DEFINE paid == [k \in 0 .. Len(out) |-> HeaderCost]
  <2>1. Len(out) = 0 /\ \A k \in 0 .. Len(out) : k = 0
    BY <1>1
  <2>2. paid = [k \in 0 .. Len(out) |->
                  IF k = 0 THEN HeaderCost
                  ELSE paid[k - 1] + RunCost(out[k].pos - StartOf(out, k)) + TokenCost]
    BY <2>1
  <2>3. paid[Len(out)] = frontier.cost
    BY <1>1, <2>1
  <2> HIDE DEF paid
  <2>4. Bill(out, paid)
    BY <2>2, Zenon DEF Bill
  <2>5. Billed(out, frontier.cost)
    BY <2>3, <2>4, Zenon DEF Billed
  <2>6. QED
    BY <1>1, <2>5, Zenon DEF BillOK
<1>6. AbstractParse!Covered = frontier.pos
  BY <1>1 DEF AbstractParse!Covered
<1>7. out \in Tokens
  BY <1>1 DEF Tokens
<1>8. QED
  BY <1>1, <1>2, <1>3, <1>4, <1>5, <1>6, <1>7 DEF HeavyInv, Pcs

(* The invariant gives the types of the parse. *)
LEMMA TypesHold ==
  ASSUME CostConstraints, HeavyInv
  PROVE  HeavyTypeOK
<1>1. /\ InputTypeOK /\ FinderTypeOK /\ pc \in Pcs /\ boundary \in 0 .. MatchEnd
      /\ FrontierOK
  BY DEF HeavyInv, FinderInv
<1>2. size \in Nat /\ MatchEnd \in Nat /\ MatchEnd <= size /\ start \in Nat
      /\ HeaderCost \in Nat /\ Inf \in Nat
  BY <1>1, SizeRange, CostFacts DEF FinderTypeOK
<1>3. ASSUME NEW p \in Nat, p <= size, NEW b \in HeaderCost .. Lim(p)
      PROVE  b \in HeaderCost .. Inf /\ b < Inf
  <2>1. Lim(p) \in Nat /\ Lim(p) < Inf
    BY <1>1, <1>3, LimFacts, LimFinite
  <2>2. QED
    BY <1>2, <1>3, <2>1
<1>4. frontier.pos \in 0 .. MatchEnd /\ frontier.cost \in HeaderCost .. Inf
  <2>1. frontier.pos \in Nat /\ frontier.pos <= MatchEnd
    BY <1>1, <1>2 DEF FrontierOK
  <2>2. frontier.cost \in HeaderCost .. Lim(frontier.pos)
    BY <1>1 DEF FrontierOK
  <2>3. QED
    BY <1>2, <1>3, <2>1, <2>2
<1>5. ASSUME pc = "relax"
      PROVE  /\ frontier.pos <= start
             /\ \A k \in DOMAIN dp : dp[k] \in HeaderCost .. Inf
             /\ lits.run \in 0 .. size /\ lits.cost < Inf /\ lits.next > lits.run
  <2>1. /\ BlockLen \in Nat \ {0} /\ End = start + BlockLen /\ End <= size
        /\ frontier.pos <= start /\ CostsOK /\ idx \in 0 .. BlockLen + 1
        /\ DOMAIN dp = 0 .. BlockLen + RelaxWindow - 1
    BY <1>5, BlockFacts DEF Relaxed
  <2>2. \A k \in DOMAIN dp : dp[k] \in HeaderCost .. Inf
    BY <1>5, ReachRange DEF Relaxed
  <2>4. /\ lits.run \in 0 .. LitPos /\ LitPos - lits.run \in DOMAIN Costs
        /\ lits = LiteralRun(lits.run, Costs[LitPos - lits.run])
    BY <1>5 DEF HeavyInv, LitsOK
  <2>5. LitPos \in Nat /\ LitPos <= size
    BY <1>2, <2>1 DEF LitPos
  <2> DEFINE r == lits.run
             o == LitPos - lits.run
  <2>6. r \in Nat /\ r <= size /\ o \in Nat /\ o + r = LitPos
    <3>1. r \in 0 .. LitPos /\ o = LitPos - r
      BY <2>4
    <3> HIDE DEF r, o
    <3>2. QED
      BY <1>2, <2>5, <3>1
  <2>7. Costs[o] \in HeaderCost .. Lim(o) /\ Costs[o] \in Nat
    BY <1>5, <2>4, SourceFacts DEF Relaxed
  <2>8. lits = LiteralRun(r, Costs[o])
    BY <2>4
  <2> HIDE DEF r, o
  <2>9. lits.cost = Costs[o] + RunCost(r) /\ lits.next > r
    BY <2>6, <2>7, <2>8, RunNext
  <2>10. lits.cost < Inf
    <3>1. Costs[o] + RunCost(r) \in HeaderCost .. Lim(o + r)
      BY <2>6, <2>7, RunBound
    <3>2. QED
      BY <1>3, <2>5, <2>6, <2>9, <3>1
  <2>11. QED
    BY <1>2, <2>1, <2>2, <2>6, <2>9, <2>10 DEF r
<1>6. QED
  BY <1>1, <1>4, <1>5 DEF HeavyTypeOK

(* The bill of a sequence of tokens is one function, the one of PaidFor. *)
LEMMA BillUnique ==
  ASSUME NEW s \in Tokens, NEW paid, NEW due, Bill(s, paid), Bill(s, due)
  PROVE  due = paid
<1> DEFINE n == Len(s)
           bad == {k \in 0 .. n : due[k] # paid[k]}
<1>1. n \in Nat
  BY DEF Tokens
<1>2. /\ paid = [k \in 0 .. n |->
                   IF k = 0 THEN HeaderCost
                   ELSE paid[k - 1] + RunCost(s[k].pos - StartOf(s, k)) + TokenCost]
      /\ due = [k \in 0 .. n |->
                  IF k = 0 THEN HeaderCost
                  ELSE due[k - 1] + RunCost(s[k].pos - StartOf(s, k)) + TokenCost]
  BY DEF Bill
<1> HIDE DEF n
<1>3. bad = {}
  <2>1. SUFFICES ASSUME bad # {} PROVE FALSE
    OBVIOUS
  <2>2. PICK k \in bad : \A y \in bad : k <= y
    <3>1. bad \subseteq Nat
      BY <1>1
    <3>2. QED
      BY <2>1, <3>1, LeastNatural
  <2>3. k \in 0 .. n /\ due[k] # paid[k]
    BY <2>2
  <2> DEFINE add == RunCost(s[k].pos - StartOf(s, k))
  <2>4. /\ paid[k] = IF k = 0 THEN HeaderCost ELSE paid[k - 1] + add + TokenCost
        /\ due[k] = IF k = 0 THEN HeaderCost ELSE due[k - 1] + add + TokenCost
    BY <1>2, <2>3, Zenon
  <2> HIDE DEF add
  <2>5. k # 0
    BY <2>3, <2>4
  <2>6. k - 1 \in 0 .. n /\ ~(k <= k - 1)
    BY <1>1, <2>3, <2>5
  <2>7. due[k - 1] = paid[k - 1]
    BY <2>2, <2>6
  <2>8. QED
    BY <2>3, <2>4, <2>7
<1>4. \A k \in 0 .. n : due[k] = paid[k]
  BY <1>3
<1>5. DOMAIN paid = 0 .. n /\ DOMAIN due = 0 .. n
  BY <1>2
<1>6. paid = [k \in DOMAIN paid |-> paid[k]] /\ due = [k \in DOMAIN due |-> due[k]]
  BY <1>2
<1>7. QED
  BY <1>4, <1>5, <1>6

LEMMA PaidHolds ==
  ASSUME HeavyInv
  PROVE  PaidFor
<1>1. SUFFICES ASSUME pc = "block" PROVE PaidFor
  BY DEF PaidFor
<1>2. out \in Tokens /\ AbstractParse!Covered = frontier.pos
  BY <1>1 DEF HeavyInv
<1>3. Billed(out, frontier.cost)
  BY <1>1, Zenon DEF HeavyInv, BillOK
<1>4. PICK due : Bill(out, due) /\ due[Len(out)] = frontier.cost
  BY <1>3, Zenon DEF Billed
<1> DEFINE Start(k) == IF k = 1 THEN 0 ELSE out[k - 1].pos + out[k - 1].len
           paid[k \in 0 .. Len(out)] ==
             IF k = 0 THEN HeaderCost
             ELSE LET run == out[k].pos - Start(k)
                  IN  paid[k - 1] + (run + Extras(run)) + TokenCost
<1>5. ASSUME NEW p
      PROVE  Bill(out, p) <=>
               p = [k \in 0 .. Len(out) |->
                      IF k = 0 THEN HeaderCost
                      ELSE LET run == out[k].pos - Start(k)
                           IN  p[k - 1] + (run + Extras(run)) + TokenCost]
  BY Zenon DEF Bill, RunCost, StartOf, EndOf
<1> HIDE DEF Start
<1>6. Bill(out, paid)
  BY <1>4, <1>5, Zenon
<1> HIDE DEF paid
<1>7. paid[Len(out)] = frontier.cost
  BY <1>2, <1>4, <1>6, BillUnique
<1>8. frontier.pos = Start(Len(out) + 1)
  <2>1. CASE out = <<>>
    BY <1>2, <2>1 DEF Start, AbstractParse!Covered
  <2>2. CASE out # <<>>
    <3>1. Len(out) \in Nat /\ Len(out) # 0
      BY <1>2, <2>2 DEF Tokens
    <3>2. Len(out) + 1 # 1 /\ (Len(out) + 1) - 1 = Len(out)
      BY <3>1
    <3>3. QED
      BY <1>2, <2>2, <3>2 DEF Start, AbstractParse!Covered
  <2>3. QED
    BY <2>1, <2>2
<1>9. QED
  BY <1>7, <1>8, Zenon DEF PaidFor, paid, Start

(* Level 4 keeps its invariant, whatever the input, the table of lengths   *)
(* and the sizes: the finder's, and over a block the costs of the sources, *)
(* the run that is kept, the way that each arrival was paid for, and the   *)
(* tokens that the walk has found so far.                                  *)
THEOREM HeavyInvariance ==
  ASSUME CostConstraints
  PROVE  HeavySpec => []HeavyInv
<1>1. CostConstraints /\ HeavyInit => HeavyInv
  BY HeavyInitInv
<1>2. CostConstraints /\ HeavyInv /\ [HeavyNext]_heavyVars => HeavyInv'
  BY HeavyStep DEF HeavyGood
<1>3. CostConstraints => []CostConstraints
  BY PTL DEF CostConstraints
<1>4. CostConstraints
  OBVIOUS
<1>5. QED
  BY <1>1, <1>2, <1>3, <1>4, PTL DEF HeavySpec

(* Every cost of the parse is a number below the unreached, every position *)
(* is in the input, and the run that is kept has its next extension ahead. *)
THEOREM HeavyTypeCorrect ==
  ASSUME CostConstraints
  PROVE  HeavySpec => []HeavyTypeOK
<1>1. CostConstraints /\ HeavyInv => HeavyTypeOK
  BY TypesHold
<1>2. CostConstraints => []CostConstraints
  BY PTL DEF CostConstraints
<1>3. CostConstraints
  OBVIOUS
<1>4. QED
  BY <1>1, <1>2, <1>3, HeavyInvariance, PTL

(* backtrack never finds costs or lengths that do not add up, so that      *)
(* compress at level 4 never gives up with 0.                              *)
THEOREM NeverGivesUp ==
  ASSUME CostConstraints
  PROVE  HeavySpec => []NeverFails
<1>1. HeavyInv => NeverFails
  BY DEF HeavyInv, NeverFails
<1>2. QED
  BY <1>1, HeavyInvariance, PTL

(* The cost of the frontier is what its tokens take in bytes: the walk     *)
(* back found a parse of the cost that the relaxation promised.            *)
THEOREM FrontierPaid ==
  ASSUME CostConstraints
  PROVE  HeavySpec => []PaidFor
<1>1. HeavyInv => PaidFor
  BY PaidHolds
<1>2. QED
  BY <1>1, HeavyInvariance, PTL

(* The matches of level 4 are what Parse promises the stream writer: true, *)
(* in order, encodable, before the raw suffix.                             *)
THEOREM HeavyImplements ==
  ASSUME CostConstraints
  PROVE  HeavySpec => ImplementsParse
<1>1. HeavyInit => AbstractParse!Init
  BY DEF HeavyInit, FinderInit, AbstractParse!Init, InputInit, AbstractParse!InputInit
<1>2. CostConstraints /\ HeavyInv /\ [HeavyNext]_heavyVars
        => [AbstractParse!Next]_(AbstractParse!parseVars)
  BY HeavyStep DEF HeavyGood
<1>3. CostConstraints
  OBVIOUS
<1>4. CostConstraints => []CostConstraints
  BY PTL DEF CostConstraints
<1>5. HeavySpec => AbstractParse!Spec
  BY <1>1, <1>2, <1>3, <1>4, HeavyInvariance, PTL DEF HeavySpec, AbstractParse!Spec
<1>6. QED
  BY <1>5 DEF ImplementsParse

(* Why the parse of a block is nearly the cheapest.  Bound is what a run   *)
(* from the source q takes if TokenLitMax literals take one byte more each *)
(* time.  The source o of the run that is kept is bounded by every source  *)
(* before it, and is cheaper than every source behind it.                  *)
RunFrom(c, o, p) == c[o] + RunCost(p - o)

Bound(c, q, p) == c[q] + ((p - q) + (p - q) \div TokenLitMax)

NearAt(c, o, p) ==
  /\ o \in DOMAIN c /\ o <= p
  /\ \A q \in DOMAIN c : q <= o => c[o] <= Bound(c, q, o)
  /\ \A q \in DOMAIN c : o < q /\ q <= p => RunFrom(c, o, q) < c[q]

\* A length that can be taken at m was offered, whatever its literals.
OfferedAt(m) ==
  \A len \in Enc, q \in DOMAIN Costs :
    len <= maxLen[m] /\ q <= start + m =>
      dp[m + len] <= Bound(Costs, q, start + m) + TokenCost

Offered == \A m \in 0 .. BlockLen - 1 : m < idx => OfferedAt(m)

\* What is committed takes no more than any source would to the end.
CommitNear ==
  \A q \in DOMAIN Costs :
    IF End < size
    THEN RunFrom(Costs, commit.pos, End) <= Bound(Costs, q, End)
    ELSE Costs[commit.pos] + (End - commit.pos) <= Costs[q] + (End - q)

NearInv ==
  /\ pc \in {"relax", "back"} => Offered
  /\ pc = "relax" => NearAt(Costs, LitPos - lits.run, LitPos)
  /\ pc = "back" => idx > BlockLen /\ CommitNear

(* Quotients, for the extension bytes of runs that are cut or joined.      *)
LEMMA DivAtLeast ==
  ASSUME NEW d \in Nat \ {0}, NEW n \in Nat, NEW q \in Nat, d * q <= n
  PROVE  q <= n \div d
<1> DEFINE p == n \div d
           s == n % d
<1>1. p \in Nat /\ s \in 0 .. d - 1 /\ n = d * p + s
  BY Divides
<1> HIDE DEF p, s
<1>2. q <= p
  <2>1. SUFFICES ASSUME p + 1 <= q PROVE FALSE
    BY <1>1
  <2>2. d * (p + 1) <= d * q
    BY <1>1, <2>1
  <2>3. d * (p + 1) = d * p + d
    BY <1>1
  <2>4. d * p \in Nat /\ d * q \in Nat
    BY <1>1
  <2>5. QED
    BY <1>1, <2>2, <2>3, <2>4
<1>3. QED
  BY <1>2 DEF p

LEMMA DivAtMost ==
  ASSUME NEW d \in Nat \ {0}, NEW n \in Nat, NEW q \in Nat, n < d * (q + 1)
  PROVE  n \div d <= q
<1> DEFINE p == n \div d
           s == n % d
<1>1. p \in Nat /\ s \in 0 .. d - 1 /\ n = d * p + s
  BY Divides
<1> HIDE DEF p, s
<1>2. p <= q
  <2>1. SUFFICES ASSUME q + 1 <= p PROVE FALSE
    BY <1>1
  <2>2. d * (q + 1) <= d * p
    BY <1>1, <2>1
  <2>3. d * (q + 1) \in Nat /\ d * p \in Nat
    BY <1>1
  <2>4. QED
    BY <1>1, <2>2, <2>3
<1>3. QED
  BY <1>2 DEF p

LEMMA DivSums ==
  ASSUME NEW d \in Nat \ {0}, NEW a \in Nat, NEW b \in Nat
  PROVE  /\ a \div d \in Nat /\ b \div d \in Nat /\ (a + b) \div d \in Nat
         /\ a \div d + b \div d <= (a + b) \div d
         /\ (a + b) \div d <= a \div d + b \div d + 1
<1> DEFINE p == a \div d
           s == a % d
           q == b \div d
           t == b % d
<1>1. /\ p \in Nat /\ s \in 0 .. d - 1 /\ a = d * p + s
      /\ q \in Nat /\ t \in 0 .. d - 1 /\ b = d * q + t
  BY Divides
<1>2. a + b \in Nat
  OBVIOUS
<1>3. (a + b) \div d \in Nat
  BY <1>2, Divides
<1> HIDE DEF p, q, s, t
<1>4. /\ d * (p + q) = d * p + d * q /\ d * ((p + q + 1) + 1) = d * p + d * q + d + d
      /\ d * p \in Nat /\ d * q \in Nat /\ p + q \in Nat /\ p + q + 1 \in Nat
  <2>1. d * (p + q) = d * p + d * q /\ d * p \in Nat /\ d * q \in Nat
    BY <1>1
  <2>2. d * ((p + q + 1) + 1) = d * p + d * q + d + d
    BY <1>1
  <2>3. QED
    BY <1>1, <2>1, <2>2
<1>5. d * (p + q) <= a + b /\ a + b < d * ((p + q + 1) + 1)
  BY <1>1, <1>4
<1>6. p + q <= (a + b) \div d
  BY <1>2, <1>4, <1>5, DivAtLeast
<1>7. (a + b) \div d <= p + q + 1
  BY <1>2, <1>4, <1>5, DivAtMost
<1>8. QED
  BY <1>1, <1>3, <1>6, <1>7 DEF p, q

LEMMA DivGrows ==
  ASSUME NEW d \in Nat \ {0}, NEW e \in Nat \ {0}, d <= e, NEW a \in Nat, NEW b \in Nat, a <= b
  PROVE  /\ a \div e \in Nat /\ b \div d \in Nat
         /\ a \div e <= b \div d
<1> DEFINE p == a \div e
           s == a % e
<1>1. p \in Nat /\ s \in 0 .. e - 1 /\ a = e * p + s /\ b \div d \in Nat
  BY Divides
<1> HIDE DEF p, s
<1>2. d * p <= e * p /\ e * p \in Nat /\ d * p \in Nat
  <2>1. d * p <= e * p
    BY <1>1
  <2>2. QED
    BY <1>1, <2>1
<1>3. d * p <= b
  BY <1>1, <1>2
<1>4. p <= b \div d
  BY <1>1, <1>3, DivAtLeast
<1>5. QED
  BY <1>1, <1>4 DEF p

(* A literal run takes an extension byte at most each TokenLitMax bytes.   *)
LEMMA ExtrasBound ==
  ASSUME CostConstraints, NEW n \in Nat
  PROVE  n \div TokenLitMax \in Nat /\ Extras(n) <= n \div TokenLitMax
<1> DEFINE L == TokenLitMax
           E == ExtMax
<1>1. L \in Nat \ {0} /\ E \in Nat \ {0} /\ L <= E
  BY CostFacts
<1>2. n \div L \in Nat
  BY <1>1, Divides
<1>3. CASE n < L
  <2>1. Extras(n) = 0
    BY <1>3 DEF Extras
  <2>2. QED
    BY <1>2, <2>1
<1>4. CASE ~(n < L)
  <2> DEFINE a == n - L
  <2>1. a \in Nat /\ L + a = n
    BY <1>1, <1>4
  <2>2. Extras(n) = 1 + a \div E
    BY <1>4 DEF Extras
  <2> HIDE DEF a, L, E
  <2>3. a \div E \in Nat /\ a \div L \in Nat /\ a \div E <= a \div L
    <3>1. a <= a
      BY <2>1
    <3>2. QED
      BY <1>1, <2>1, <3>1, DivGrows
  <2>4. L \div L + a \div L <= (L + a) \div L
    BY <1>1, <2>1, DivSums
  <2>5. 1 <= L \div L /\ L \div L \in Nat
    <3>1. L * 1 <= L
      BY <1>1
    <3>2. QED
      BY <1>1, <3>1, DivAtLeast, Divides
  <2>6. 1 + a \div L <= n \div L
    BY <1>2, <2>1, <2>3, <2>4, <2>5
  <2>7. 1 + a \div E <= n \div L
    BY <1>2, <2>3, <2>6
  <2>8. QED
    BY <1>2, <2>2, <2>7 DEF L
<1>5. QED
  BY <1>3, <1>4

(* Cutting a run and keeping its first part saves one byte at most.        *)
LEMMA ExtrasCut ==
  ASSUME CostConstraints, NEW y \in Nat, NEW z \in Nat
  PROVE  Extras(y + z) <= Extras(y) + 1 + z \div TokenLitMax
<1> DEFINE L == TokenLitMax
           E == ExtMax
<1>1. L \in Nat \ {0} /\ E \in Nat \ {0} /\ L <= E
  BY CostFacts
<1>2. /\ Extras(y) \in Nat /\ Extras(y + z) \in Nat /\ z \div L \in Nat /\ z \div E \in Nat
      /\ z \div E <= z \div L
  <2>1. y + z \in Nat
    OBVIOUS
  <2>2. Extras(y) \in Nat /\ Extras(y + z) \in Nat
    BY <2>1, ExtrasFacts
  <2>3. z \div L \in Nat /\ z \div E \in Nat
    BY <1>1, Divides
  <2> HIDE DEF L, E
  <2>4. z \div E <= z \div L
    BY <1>1, DivGrows
  <2>5. QED
    BY <2>2, <2>3, <2>4
<1>3. CASE y + z < L
  <2>1. Extras(y + z) = 0
    BY <1>3 DEF Extras
  <2>2. QED
    BY <1>2, <2>1
<1>4. CASE ~(y + z < L) /\ y < L
  <2> DEFINE a == (y + z) - L
  <2>1. a \in Nat /\ a <= z
    BY <1>1, <1>4
  <2>2. Extras(y + z) = 1 + a \div E
    BY <1>4 DEF Extras
  <2> HIDE DEF a, L, E
  <2>3. a \div E <= z \div L /\ a \div E \in Nat
    BY <1>1, <2>1, DivGrows
  <2>4. QED
    BY <1>2, <2>2, <2>3 DEF L
<1>5. CASE ~(y < L)
  <2> DEFINE b == y - L
  <2>1. b \in Nat /\ (y + z) - L = b + z /\ ~(y + z < L)
    BY <1>1, <1>5
  <2>2. Extras(y) = 1 + b \div E
    BY <1>5 DEF Extras
  <2>3. Extras(y + z) = 1 + (b + z) \div E
    <3>1. Extras(y + z) = 1 + ((y + z) - L) \div E
      BY <2>1, Zenon DEF Extras
    <3>2. QED
      BY <2>1, <3>1
  <2> HIDE DEF b, L, E
  <2>4. /\ b \div E \in Nat /\ (b + z) \div E \in Nat
        /\ (b + z) \div E <= b \div E + z \div E + 1
    BY <1>1, <2>1, DivSums
  <2>5. QED
    BY <1>2, <2>2, <2>3, <2>4 DEF L
<1>6. QED
  BY <1>1, <1>3, <1>4, <1>5

(* The source that is kept costs no more than any other, further on.       *)
LEMMA NearGives ==
  ASSUME CostConstraints, NEW c, NEW o, NEW p \in Nat, NearAt(c, o, p),
         DOMAIN c \subseteq Nat, \A q \in DOMAIN c : c[q] \in Nat,
         NEW q \in DOMAIN c, q <= p, NEW e \in Nat, p <= e
  PROVE  RunFrom(c, o, e) \in Nat /\ Bound(c, q, e) \in Nat
         /\ RunFrom(c, o, e) <= Bound(c, q, e)
<1> DEFINE L == TokenLitMax
<1>1. /\ o \in Nat /\ o <= p /\ q \in Nat /\ c[o] \in Nat /\ c[q] \in Nat /\ o \in DOMAIN c
      /\ L \in Nat \ {0}
  BY CostFacts DEF NearAt
<1>2. e - o \in Nat /\ e - q \in Nat
  BY <1>1
<1>3. /\ Extras(e - o) \in Nat /\ (e - q) \div L \in Nat
  BY <1>1, <1>2, ExtrasFacts, Divides
<1>4. /\ RunFrom(c, o, e) = c[o] + ((e - o) + Extras(e - o))
      /\ Bound(c, q, e) = c[q] + ((e - q) + (e - q) \div L)
  BY DEF RunFrom, RunCost, Bound
<1>5. RunFrom(c, o, e) <= Bound(c, q, e)
  <2>1. CASE q <= o
    <3> DEFINE a == o - q
               b == e - o
    <3>1. a \in Nat /\ b \in Nat /\ a + b = e - q
      BY <1>1, <1>2, <2>1
    <3>2. c[o] <= Bound(c, q, o)
      BY <1>1, <2>1 DEF NearAt
    <3>3. c[o] <= c[q] + (a + a \div L)
      BY <3>2 DEF Bound
    <3>4. Extras(e - o) <= b \div L
      BY <1>2, ExtrasBound
    <3> HIDE DEF L
    <3>5. /\ a \div L \in Nat /\ b \div L \in Nat
          /\ a \div L + b \div L <= (a + b) \div L
      <4> HIDE DEF a, b
      <4>1. QED
        BY <1>1, <3>1, DivSums
    <3>6. (a + b) \div L = (e - q) \div L
      BY <3>1
    <3> DEFINE u == a \div L
               v == b \div L
               w == (e - q) \div L
               x == Extras(e - o)
    <3>7. /\ u \in Nat /\ v \in Nat /\ w \in Nat /\ u + v <= w /\ x \in Nat /\ x <= v
          /\ c[o] <= c[q] + (a + u)
      BY <1>3, <3>3, <3>4, <3>5, <3>6
    <3> HIDE DEF u, v, w, x
    <3>8. c[o] + ((e - o) + x) <= c[q] + ((e - q) + w)
      BY <1>1, <1>2, <3>7
    <3>9. QED
      BY <1>4, <3>8 DEF w, x, L
  <2>2. CASE ~(q <= o)
    <3> DEFINE y == q - o
               z == e - q
    <3>1. y \in Nat /\ z \in Nat /\ y + z = e - o
      BY <1>1, <1>2, <2>2
    <3>2. RunFrom(c, o, q) < c[q]
      BY <1>1, <2>2 DEF NearAt
    <3>3. c[o] + (y + Extras(y)) < c[q]
      BY <3>2 DEF RunFrom, RunCost
    <3>4. Extras(y) \in Nat
      BY <3>1, ExtrasFacts
    <3>5. Extras(y + z) <= Extras(y) + 1 + z \div L
      <4> HIDE DEF y, z
      <4>1. QED
        BY <3>1, ExtrasCut
    <3>6. Extras(y + z) = Extras(e - o)
      BY <3>1
    <3> DEFINE u == Extras(y)
               w == z \div L
               x == Extras(e - o)
    <3>7. u \in Nat /\ w \in Nat /\ x \in Nat /\ x <= u + 1 + w /\ c[o] + (y + u) < c[q]
      BY <1>3, <3>3, <3>4, <3>5, <3>6
    <3> HIDE DEF u, w, x
    <3>8. c[o] + ((e - o) + x) <= c[q] + ((e - q) + w)
      BY <1>1, <1>2, <3>7
    <3>9. QED
      BY <1>4, <3>8 DEF w, x, L
  <2>3. QED
    BY <2>1, <2>2
<1>6. RunFrom(c, o, e) \in Nat /\ Bound(c, q, e) \in Nat
  BY <1>1, <1>2, <1>3, <1>4
<1>7. QED
  BY <1>5, <1>6

(* The sources are numbers with a cost. *)
LEMMA SourceNumbers ==
  ASSUME CostConstraints, HeavyInv, pc \in Relaxed
  PROVE  DOMAIN Costs \subseteq Nat /\ \A q \in DOMAIN Costs : Costs[q] \in Nat
BY SourceFacts

(* The run is near at the next position, whether it goes on or restarts.   *)
LEMMA RunNear ==
  ASSUME CostConstraints, HeavyInv, pc = "relax", idx <= BlockLen,
         NearAt(Costs, LitPos - lits.run, LitPos)
  PROVE  NearAt(Costs, (start + idx) - Run.run, start + idx)
<1>1. /\ start \in Nat /\ BlockLen \in Nat \ {0} /\ End \in Nat /\ End = start + BlockLen
      /\ idx \in 0 .. BlockLen + 1 /\ End <= size /\ size \in Nat
  BY BlockFacts DEF Relaxed
<1>2. DOMAIN Costs \subseteq Nat /\ \A q \in DOMAIN Costs : Costs[q] \in Nat
  BY SourceNumbers DEF Relaxed
<1>3. CASE idx = 0
  <2>1. Run = lits /\ LitPos = start + idx
    BY <1>1, <1>3 DEF Run, LitPos
  <2>2. QED
    BY <2>1
<1>4. CASE idx > 0
  <2> DEFINE r == lits.run
             o == LitPos - lits.run
             p == start + idx
  <2>1. LitPos \in Nat /\ LitPos + 1 = p /\ p \in start .. End /\ p - start = idx /\ p \in Nat
    BY <1>1, <1>4 DEF LitPos
  <2>2. r \in 0 .. LitPos /\ o \in DOMAIN Costs /\ lits = LiteralRun(r, Costs[o])
    BY DEF HeavyInv, LitsOK
  <2>3. r \in Nat /\ o \in Nat /\ o + (r + 1) = p /\ p - (r + 1) = o /\ p - o = r + 1
        /\ o <= LitPos
    BY <2>1, <2>2
  <2>4. Costs[o] \in Nat
    BY <1>2, <2>2
  <2>5. NearAt(Costs, o, LitPos)
    OBVIOUS
  <2> HIDE DEF r, o, p
  <2>6. Longer(lits) = LiteralRun(r + 1, Costs[o])
    BY <2>2, <2>3, <2>4, RunLonger
  <2>7. Longer(lits).cost = Costs[o] + RunCost(r + 1) /\ Longer(lits).run = r + 1
    BY <2>3, <2>4, <2>6, RunNext
  <2>8. Longer(lits).cost = RunFrom(Costs, o, p)
    BY <2>3, <2>7 DEF RunFrom
  <2>9. Run = IF dp[idx] <= Longer(lits).cost
              THEN [run |-> 0, cost |-> dp[idx], next |-> TokenLitMax]
              ELSE Longer(lits)
    BY <1>4, AdvanceCases DEF Run
  <2>10. ASSUME NEW q \in DOMAIN Costs, q <= LitPos
         PROVE  RunFrom(Costs, o, p) <= Bound(Costs, q, p) /\ Bound(Costs, q, p) \in Nat
    <3>1. LitPos <= p
      BY <2>1
    <3>2. QED
      BY <1>2, <2>1, <2>5, <2>10, <3>1, NearGives
  <2>11. RunFrom(Costs, o, p) \in Nat
    <3>1. o <= LitPos /\ LitPos <= p
      BY <2>1, <2>3
    <3>2. QED
      BY <1>2, <2>1, <2>2, <2>5, <3>1, NearGives
  <2>12. IsRun(Run, p, Costs)
    BY RunKept DEF p
  <2>13. CASE dp[idx] <= Longer(lits).cost
    <3>1. Run.run = 0 /\ Run.cost = dp[idx]
      BY <2>9, <2>13
    <3>2. p - Run.run = p /\ p \in DOMAIN Costs
      BY <2>1, <2>12, <3>1 DEF IsRun
    <3>3. Costs[p] = dp[idx]
      <4>1. p # frontier.pos
        BY <1>1, <1>4, BlockFacts DEF p, Relaxed
      <4>2. QED
        BY <2>1, <3>2, <4>1, SourceFacts DEF Relaxed
    <3>4. \A q \in DOMAIN Costs : q <= p => Costs[p] <= Bound(Costs, q, p)
      <4>1. SUFFICES ASSUME NEW q \in DOMAIN Costs, q <= p
                     PROVE  Costs[p] <= Bound(Costs, q, p)
        OBVIOUS
      <4>2. CASE q = p
        <5>1. p - p = 0 /\ TokenLitMax \in Nat \ {0}
          BY <2>1, CostFacts
        <5>2. 0 \div TokenLitMax = 0
          BY <5>1
        <5>3. Bound(Costs, p, p) = Costs[p] + (0 + 0)
          BY <5>1, <5>2 DEF Bound
        <5>4. QED
          BY <1>2, <3>2, <4>2, <5>3
      <4>3. CASE q # p
        <5>1. q <= LitPos
          BY <1>2, <2>1, <4>1, <4>3
        <5>2. QED
          BY <1>2, <2>8, <2>10, <2>11, <2>13, <3>2, <3>3, <5>1
      <4>4. QED
        BY <4>2, <4>3
    <3>5. \A q \in DOMAIN Costs : ~(p < q /\ q <= p)
      BY <1>2, <2>1
    <3>6. NearAt(Costs, p, p)
      BY <2>1, <3>2, <3>4, <3>5 DEF NearAt
    <3>7. QED
      BY <3>2, <3>6 DEF p
  <2>14. CASE ~(dp[idx] <= Longer(lits).cost)
    <3>1. p - Run.run = o
      BY <2>3, <2>7, <2>9, <2>14
    <3>2. \A q \in DOMAIN Costs : q <= o => Costs[o] <= Bound(Costs, q, o)
      BY <2>5 DEF NearAt
    <3>3. \A q \in DOMAIN Costs : o < q /\ q <= p => RunFrom(Costs, o, q) < Costs[q]
      <4>1. SUFFICES ASSUME NEW q \in DOMAIN Costs, o < q, q <= p
                     PROVE  RunFrom(Costs, o, q) < Costs[q]
        OBVIOUS
      <4>2. CASE q = p
        <5>1. p # frontier.pos
          BY <1>1, <1>4, BlockFacts DEF p, Relaxed
        <5>2. Costs[p] = dp[idx]
          BY <2>1, <4>2, <5>1, SourceFacts DEF Relaxed
        <5>3. QED
          BY <1>2, <2>8, <2>11, <2>14, <4>2, <5>2
      <4>3. CASE q # p
        <5>1. q <= LitPos
          BY <1>2, <2>1, <4>1, <4>3
        <5>2. QED
          BY <2>5, <4>1, <5>1 DEF NearAt
      <4>4. QED
        BY <4>2, <4>3
    <3>4. NearAt(Costs, o, p)
      <4>1. o <= p
        BY <2>1, <2>3
      <4>2. QED
        BY <2>2, <3>2, <3>3, <4>1 DEF NearAt
    <3>5. QED
      BY <3>1, <3>4 DEF p
  <2>15. QED
    BY <2>13, <2>14
<1>5. QED
  BY <1>1, <1>3, <1>4

(* Each step of level 4 keeps the source that it began with near.          *)
LEMMA StartRelaxNear ==
  ASSUME CostConstraints, HeavyInv, StartRelax
  PROVE  NearInv'
<1>1. /\ pc' = "relax" /\ idx' = 0 /\ UNCHANGED <<size, start, frontier>>
      /\ dp' = [k \in 0 .. BlockLen + RelaxWindow - 1 |->
                  IF start = 0 /\ k = 0 THEN frontier.cost ELSE Inf]
      /\ lits' = LiteralRun(start - frontier.pos, frontier.cost)
      /\ start < size /\ start \in Nat /\ FrontierOK /\ InputTypeOK
  BY DEF StartRelax, HeavyInv, ScanOK, FinderInv, FinderTypeOK
<1>2. frontier.pos \in Nat /\ frontier.pos <= start
  BY <1>1 DEF FrontierOK
<1>3. End' = End /\ BlockLen' = BlockLen
  BY <1>1, BlockStays
<1>4. End \in start + 1 .. size /\ size \in Nat /\ BlockLen \in Nat
  <2>1. End \in start + 1 .. size /\ size \in Nat
    BY <1>1, Bounds, SizeRange
  <2>2. QED
    BY <1>1, <2>1 DEF BlockLen
<1>5. Offered'
  <2>1. \A m \in 0 .. BlockLen' - 1 : ~(m < idx')
    BY <1>1, <1>3, <1>4
  <2>2. QED
    BY <2>1 DEF Offered
<1>6. LitPos' = start /\ lits'.run = start - frontier.pos /\ start - lits'.run = frontier.pos
  BY <1>1, <1>2 DEF LitPos, LiteralRun
<1>7. frontier.pos \in DOMAIN Costs'
  BY <1>1 DEF Costs
<1>8. \A q \in DOMAIN Costs' : q \in Nat /\ (q <= start => q = frontier.pos)
  <2>1. SUFFICES ASSUME NEW q \in DOMAIN Costs', q # frontier.pos
                 PROVE  q \in Nat /\ ~(q <= start)
    BY <1>2
  <2>2. q \in start .. End /\ dp'[q - start] # Inf
    BY <1>1, <1>3, <2>1 DEF Costs
  <2>3. CASE q = start
    <3>1. q - start = 0 /\ start # 0
      BY <1>1, <1>2, <2>1, <2>3
    <3>2. 0 \in 0 .. BlockLen + RelaxWindow - 1
      <4>1. RelaxWindow \in Nat /\ MaxMatchLen \in Nat /\ MaxMatchLen < RelaxWindow
        BY CostFacts, Constants
      <4>2. QED
        BY <1>4, <4>1
    <3>3. QED
      BY <1>1, <2>2, <3>1, <3>2
  <2>4. CASE q # start
    BY <1>1, <1>4, <2>2, <2>4
  <2>5. QED
    BY <2>3, <2>4
<1>9. Costs'[frontier.pos] <= Bound(Costs', frontier.pos, frontier.pos)
  <2>1. Costs'[frontier.pos] \in Nat
    <3>1. pc' \in Relaxed
      BY <1>1 DEF Relaxed
    <3>2. Costs'[frontier.pos] = frontier.cost
      BY <1>1 DEF Costs
    <3>3. frontier.cost \in HeaderCost .. Lim(frontier.pos) /\ Lim(frontier.pos) \in Nat
      BY <1>1, <1>2, LimFacts DEF FrontierOK
    <3>4. QED
      BY <3>2, <3>3, CostFacts
  <2>2. frontier.pos - frontier.pos = 0 /\ TokenLitMax \in Nat \ {0}
    BY <1>2, CostFacts
  <2>3. 0 \div TokenLitMax = 0
    BY <2>2
  <2>4. Bound(Costs', frontier.pos, frontier.pos) = Costs'[frontier.pos] + (0 + 0)
    BY <2>2, <2>3 DEF Bound
  <2>5. QED
    BY <2>1, <2>4
<1>10. NearAt(Costs', frontier.pos, start)
  <2>1. \A q \in DOMAIN Costs' : q <= frontier.pos =>
          Costs'[frontier.pos] <= Bound(Costs', q, frontier.pos)
    BY <1>1, <1>2, <1>8, <1>9
  <2>2. \A q \in DOMAIN Costs' : ~(frontier.pos < q /\ q <= start)
    BY <1>2, <1>8
  <2>3. QED
    BY <1>2, <1>7, <2>1, <2>2 DEF NearAt
<1>11. QED
  BY <1>1, <1>5, <1>6, <1>10 DEF NearInv

LEMMA RelaxNear ==
  ASSUME CostConstraints, HeavyInv, NearInv, Relax
  PROVE  NearInv'
<1> DEFINE p == start + idx
           o == p - Run.run
           cost == Run.cost + TokenCost
<1>1. /\ pc = "relax" /\ pc' = "relax" /\ idx <= BlockLen /\ idx' = idx + 1
      /\ lits' = Run
      /\ dp' = [k \in DOMAIN dp |-> IF k - idx \in Offers THEN cost ELSE dp[k]]
      /\ UNCHANGED <<size, input, out, start, finderVars, frontier, commit,
                     boundary, tokens>>
  BY RelaxAs
<1>2. /\ start \in Nat /\ BlockLen \in Nat \ {0} /\ End = start + BlockLen /\ End \in Nat
      /\ idx \in 0 .. BlockLen + 1 /\ DOMAIN dp = 0 .. BlockLen + RelaxWindow - 1
      /\ TokenCost \in Nat /\ RelaxWindow \in Nat
  BY <1>1, BlockFacts, CostFacts DEF Relaxed
<1>3. DOMAIN Costs \subseteq Nat /\ \A q \in DOMAIN Costs : Costs[q] \in Nat
  BY <1>1, SourceNumbers DEF Relaxed
<1>4. /\ \A q \in DOMAIN Costs : q <= p => q \in DOMAIN Costs' /\ Costs'[q] = Costs[q]
      /\ \A q \in DOMAIN Costs' : q \in Nat
      /\ \A q \in DOMAIN Costs' : q <= p => q \in DOMAIN Costs
  BY SourcesStay
<1>5. NearAt(Costs, o, p)
  BY <1>1, RunNear DEF NearInv
<1>6. p \in Nat /\ o \in DOMAIN Costs /\ o \in Nat /\ o <= p /\ Run.run \in Nat
      /\ p - o = Run.run
  <2>1. IsRun(Run, p, Costs)
    BY <1>1, RunKept
  <2>2. p \in Nat
    BY <1>2
  <2> HIDE DEF p
  <2>3. QED
    BY <2>1, <2>2 DEF IsRun
<1>7. Run.cost = RunFrom(Costs, o, p)
  <2>1. Run = LiteralRun(Run.run, Costs[o]) /\ Costs[o] \in Nat
    BY <1>1, <1>3, <1>6, RunKept DEF IsRun
  <2>2. Run.cost = Costs[o] + RunCost(Run.run)
    BY <1>6, <2>1, RunNext
  <2> HIDE DEF o, p
  <2>3. QED
    BY <1>6, <2>2 DEF RunFrom
<1> HIDE DEF o, p, cost
<1>8. NearAt(Costs', o, p)
  <2>1. o \in DOMAIN Costs' /\ Costs'[o] = Costs[o]
    BY <1>4, <1>6
  <2>2. ASSUME NEW q \in DOMAIN Costs', q <= o
        PROVE  Costs'[o] <= Bound(Costs', q, o)
    <3>1. q <= p /\ q \in DOMAIN Costs
      BY <1>4, <1>6, <2>2
    <3>2. Costs[o] <= Bound(Costs, q, o)
      BY <1>5, <2>2, <3>1 DEF NearAt
    <3>3. Costs'[q] = Costs[q]
      BY <1>4, <3>1
    <3>4. QED
      BY <2>1, <3>2, <3>3 DEF Bound
  <2>3. ASSUME NEW q \in DOMAIN Costs', o < q, q <= p
        PROVE  RunFrom(Costs', o, q) < Costs'[q]
    <3>1. q \in DOMAIN Costs /\ Costs'[q] = Costs[q]
      BY <1>4, <2>3
    <3>2. RunFrom(Costs, o, q) < Costs[q]
      BY <1>5, <2>3, <3>1 DEF NearAt
    <3>3. QED
      BY <2>1, <3>1, <3>2 DEF RunFrom
  <2>4. QED
    BY <1>6, <2>1, <2>2, <2>3 DEF NearAt
<1>9. LitPos' = p /\ LitPos' - lits'.run = o
  <2>1. LitPos' = p
    BY <1>1, <1>2 DEF LitPos, p
  <2>2. QED
    BY <1>1, <2>1 DEF o
<1>10. \A k \in DOMAIN dp : dp[k] \in Nat
  BY <1>1, ReachRange DEF Relaxed
<1>11. /\ cost \in Nat
       /\ \A q \in DOMAIN Costs : q <= p =>
            cost <= Bound(Costs, q, p) + TokenCost /\ Bound(Costs, q, p) \in Nat
  <2>1. p <= p
    BY <1>6
  <2>2. \A q \in DOMAIN Costs : q <= p =>
          /\ RunFrom(Costs, o, p) \in Nat /\ Bound(Costs, q, p) \in Nat
          /\ RunFrom(Costs, o, p) <= Bound(Costs, q, p)
    BY <1>3, <1>5, <1>6, <2>1, NearGives
  <2>3. RunFrom(Costs, o, p) \in Nat
    BY <1>6, <2>2
  <2>4. QED
    BY <1>2, <1>7, <2>2, <2>3 DEF cost
<1>12. ASSUME NEW k \in DOMAIN dp
       PROVE  dp'[k] \in Nat /\ dp'[k] <= dp[k]
  <2>1. CASE k - idx \in Offers
    <3> DEFINE len == k - idx
    <3>1. len \in Enc /\ idx < BlockLen /\ len <= maxLen[idx] /\ idx + len = k
      BY <1>1, <1>2, <2>1, OffersFit
    <3>2. cost < dp[k]
      <4> HIDE DEF len
      <4>1. len \in Offers
        BY <2>1 DEF len
      <4>2. Run.cost + TokenCost < dp[idx + len]
        BY <1>1, <3>1, <4>1, OffersFit
      <4>3. QED
        BY <3>1, <4>2 DEF cost
    <3>3. dp'[k] = cost
      BY <1>1, <2>1
    <3>4. QED
      BY <1>10, <1>11, <3>2, <3>3
  <2>2. CASE k - idx \notin Offers
    BY <1>1, <1>10, <2>2
  <2>3. QED
    BY <2>1, <2>2
<1>13. ASSUME NEW m \in 0 .. BlockLen - 1, m <= idx, NEW len \in Enc, NEW q \in DOMAIN Costs',
              len <= maxLen[m], q <= start + m
       PROVE  dp'[m + len] <= Bound(Costs', q, start + m) + TokenCost
  <2>1. m \in Nat /\ start + m \in Nat /\ start + m <= p /\ q \in Nat
    BY <1>2, <1>4, <1>13 DEF p
  <2>2. q <= p
    BY <1>6, <1>13, <2>1
  <2>3. q \in DOMAIN Costs /\ Costs'[q] = Costs[q]
    BY <1>4, <2>2
  <2>4. Bound(Costs', q, start + m) = Bound(Costs, q, start + m)
    BY <2>3 DEF Bound
  <2>5. m + len \in DOMAIN dp /\ len \in Nat
    <3>1. maxLen[m] \in Nat /\ maxLen[m] < RelaxWindow
      BY <1>1, FoundFacts DEF Relaxed
    <3>2. len \in Nat
      BY LenOfFacts
    <3>3. QED
      BY <1>2, <1>13, <2>1, <3>1, <3>2
  <2>6. Bound(Costs, q, start + m) \in Nat
    <3> DEFINE d == (start + m) - q
    <3>1. d \in Nat /\ TokenLitMax \in Nat \ {0} /\ Costs[q] \in Nat
      BY <1>3, <1>13, <2>1, <2>3, CostFacts
    <3>2. d \div TokenLitMax \in Nat
      BY <3>1, Divides
    <3>3. Bound(Costs, q, start + m) = Costs[q] + (d + d \div TokenLitMax)
      BY DEF Bound
    <3> HIDE DEF d
    <3>4. QED
      BY <3>1, <3>2, <3>3
  <2>7. CASE m = idx
    <3>1. start + m = p /\ idx < BlockLen
      BY <1>2, <2>7 DEF p
    <3>2. cost <= Bound(Costs, q, p) + TokenCost
      BY <1>11, <2>2, <2>3
    <3>3. dp'[m + len] <= cost
      <4>1. CASE len \in Offers
        <5>1. (m + len) - idx = len
          BY <1>2, <2>5, <2>7
        <5>2. dp'[m + len] = cost
          BY <1>1, <2>5, <4>1, <5>1
        <5>3. QED
          BY <1>11, <5>2
      <4>2. CASE len \notin Offers
        <5>1. ~(Run.cost + TokenCost < dp[idx + len])
          BY <1>1, <1>13, <2>7, <3>1, <4>2, OffersFit
        <5>2. dp[m + len] <= cost
          BY <1>10, <1>11, <2>5, <2>7, <5>1 DEF cost
        <5>3. QED
          BY <1>10, <1>11, <1>12, <2>5, <5>2
      <4>3. QED
        BY <4>1, <4>2
    <3>4. QED
      BY <1>2, <1>11, <1>12, <2>4, <2>5, <2>6, <3>1, <3>2, <3>3
  <2>8. CASE m # idx
    <3>1. m < idx
      BY <1>2, <1>13, <2>1, <2>8
    <3>2. OfferedAt(m)
      BY <1>1, <3>1 DEF NearInv, Offered
    <3>3. dp[m + len] <= Bound(Costs, q, start + m) + TokenCost
      BY <1>13, <2>3, <3>2 DEF OfferedAt
    <3>4. QED
      BY <1>2, <1>10, <1>12, <2>4, <2>5, <2>6, <3>3
  <2>9. QED
    BY <2>7, <2>8
<1>14. Offered'
  <2>1. BlockLen' = BlockLen /\ maxLen' = maxLen /\ start' = start
    BY <1>1, BlockStays DEF finderVars
  <2>2. SUFFICES ASSUME NEW m \in 0 .. BlockLen - 1, m < idx' PROVE OfferedAt(m)'
    BY <2>1 DEF Offered
  <2>3. m <= idx
    BY <1>1, <1>2, <2>2
  <2>4. QED
    BY <1>13, <2>1, <2>3 DEF OfferedAt
<1>15. QED
  BY <1>1, <1>8, <1>9, <1>14 DEF NearInv

\* What was offered stays offered while the costs stay.
LEMMA OfferedStays ==
  ASSUME Offered, UNCHANGED <<size, start, frontier, dp, idx, finderVars>>
  PROVE  Offered'
<1>1. BlockLen' = BlockLen /\ Costs' = Costs /\ maxLen' = maxLen
  BY BlockStays, CostsStay DEF finderVars
<1>2. QED
  BY <1>1 DEF Offered, OfferedAt

LEMMA EndRelaxNear ==
  ASSUME CostConstraints, HeavyInv, NearInv, EndRelax
  PROVE  NearInv'
<1>1. /\ pc = "relax" /\ pc' = "back" /\ idx > BlockLen
      /\ commit' = Committed
      /\ UNCHANGED <<size, start, finderVars, frontier, dp, idx>>
  BY DEF EndRelax
<1>2. /\ start \in Nat /\ BlockLen \in Nat \ {0} /\ End = start + BlockLen /\ End \in Nat
      /\ idx \in 0 .. BlockLen + 1 /\ size \in Nat /\ End <= size
  BY <1>1, BlockFacts DEF Relaxed
<1>3. DOMAIN Costs \subseteq Nat /\ \A q \in DOMAIN Costs : Costs[q] \in Nat /\ q <= End
  BY <1>1, SourceFacts DEF Relaxed
<1>4. End' = End /\ BlockLen' = BlockLen /\ Costs' = Costs
  BY <1>1, BlockStays, CostsStay
<1>5. Offered'
  BY <1>1, OfferedStays DEF NearInv
<1>6. ASSUME NEW q \in DOMAIN Costs
      PROVE  IF End < size
             THEN RunFrom(Costs, Committed.pos, End) <= Bound(Costs, q, End)
             ELSE Costs[Committed.pos] + (End - Committed.pos) <= Costs[q] + (End - q)
  <2>1. CASE End < size
    <3>1. LitPos = End
      BY <1>1, <1>2 DEF LitPos
    <3>2. NearAt(Costs, End - lits.run, End)
      BY <1>1, <3>1 DEF NearInv
    <3>3. Committed.pos = End - lits.run
      BY <2>1 DEF Committed
    <3>4. End <= End /\ q <= End
      BY <1>2, <1>3
    <3>5. RunFrom(Costs, End - lits.run, End) <= Bound(Costs, q, End)
      BY <1>2, <1>3, <3>2, <3>4, NearGives
    <3>6. QED
      BY <2>1, <3>3, <3>5
  <2>2. CASE ~(End < size)
    <3>1. End = size /\ Committed = BestEnd
      BY <1>2, <2>2 DEF Committed
    <3>2. /\ BestEnd.cost = Costs[BestEnd.pos]
          /\ BestEnd.cost + (size - BestEnd.pos) <= Costs[q] + (size - q)
      BY <1>1, BestEndFacts
    <3>3. QED
      BY <2>2, <3>1, <3>2
  <2>3. QED
    BY <2>1, <2>2
<1>7. CommitNear'
  BY <1>1, <1>4, <1>6 DEF CommitNear
<1>8. QED
  BY <1>1, <1>4, <1>5, <1>7 DEF NearInv

LEMMA BackNear ==
  ASSUME NearInv, pc = "back", pc' # "relax",
         UNCHANGED <<size, start, frontier, commit, dp, idx, finderVars>>
  PROVE  NearInv'
<1>1. End' = End /\ BlockLen' = BlockLen /\ Costs' = Costs
  BY BlockStays, CostsStay
<1>2. Offered'
  BY OfferedStays DEF NearInv
<1>3. idx' > BlockLen' /\ CommitNear'
  BY <1>1 DEF NearInv, CommitNear
<1>4. QED
  BY <1>2, <1>3 DEF NearInv

LEMMA NearIdle ==
  ASSUME NearInv, UNCHANGED heavyVars
  PROVE  NearInv'
<1>1. UNCHANGED <<size, pc, start, finderVars, frontier, commit, dp, idx, lits>>
  BY DEF heavyVars, relaxVars
<1>2. End' = End /\ BlockLen' = BlockLen /\ Costs' = Costs
  BY <1>1, BlockStays, CostsStay
<1>3. pc \in {"relax", "back"} => Offered'
  BY <1>1, OfferedStays DEF NearInv
<1>4. LitPos' = LitPos /\ CommitNear' = CommitNear
  BY <1>1, <1>2 DEF LitPos, CommitNear
<1>5. QED
  BY <1>1, <1>2, <1>3, <1>4 DEF NearInv

LEMMA NearStep ==
  ASSUME CostConstraints, HeavyInv, NearInv, [HeavyNext]_heavyVars
  PROVE  NearInv'
<1>1. CASE HeavySearch
  <2>1. pc' \in {"scan", "parse"}
    BY <1>1 DEF HeavySearch, Find, FindBlock, ScanTail, ScanCarried, ScanNone, ScanFound,
                ScanEnd, Scanned, Scanning, InReach
  <2>2. QED
    BY <2>1 DEF NearInv
<1>2. CASE StartRelax
  BY <1>2, StartRelaxNear
<1>3. CASE Relax
  BY <1>3, RelaxNear
<1>4. CASE EndRelax
  BY <1>4, EndRelaxNear
<1>5. CASE StepBack
  <2>1. /\ pc = "back" /\ pc' \in {"back", "failed"}
        /\ UNCHANGED <<size, start, frontier, commit, dp, idx, finderVars>>
    BY <1>5 DEF StepBack
  <2>2. QED
    BY <2>1, BackNear
<1>6. CASE EndBack \/ EmitToken \/ CommitBlock \/ HeavyFinish
  <2>1. pc' \in {"emit", "block", "done"}
    BY <1>6 DEF EndBack, EmitToken, CommitBlock, HeavyFinish
  <2>2. QED
    BY <2>1 DEF NearInv
<1>7. CASE HeavyReturned \/ UNCHANGED heavyVars
  BY <1>7, NearIdle DEF HeavyReturned
<1>8. QED
  BY <1>1, <1>2, <1>3, <1>4, <1>5, <1>6, <1>7 DEF HeavyNext

(* The function that Reached defines, and the terms it is defined by.      *)
WaysTo(p) ==
  {w \in ({frontier.pos} \cup (start .. p)) \X (start .. p) :
     w[1] <= w[2] /\ Fits(w[2], p)}

FromCost(b, q) == IF q = frontier.pos THEN frontier.cost ELSE b[q]

WayCost(b, x, w) == FromCost(b, w[1]) + (w[2] - w[1]) + x[w[2] - w[1]] + TokenCost

BestOf(b, x, p) == Min({Inf} \cup {WayCost(b, x, w) : w \in WaysTo(p)})

IsReached(b, x) == b = [p \in start .. End |-> BestOf(b, x, p)]

\* The extension bytes that NearlyCheapest counts.
Nearly(x) == x = [n \in 0 .. size |-> n \div TokenLitMax]

LEMMA ReachedAs ==
  ASSUME NEW x
  PROVE  Reached(x) = CHOOSE b : IsReached(b, x)
BY Zenon DEF Reached, IsReached, BestOf, WayCost, FromCost, WaysTo

(* A way to p begins before it, and is a match at m of an offered length.  *)
LEMMA WaysFrom ==
  ASSUME CostConstraints, start \in Nat, frontier.pos \in Nat, NEW p \in Nat, NEW w \in WaysTo(p)
  PROVE  /\ w[1] \in Nat /\ w[2] \in Nat /\ w[1] <= w[2] /\ w[2] < p /\ start <= w[2]
         /\ w[1] # frontier.pos => w[1] \in start .. p - 1
         /\ p - w[2] \in Enc /\ p - w[2] <= maxLen[w[2] - start]
<1> DEFINE q == w[1]
           m == w[2]
<1>1. /\ q \in {frontier.pos} \cup (start .. p) /\ m \in start .. p
      /\ q <= m /\ Fits(m, p)
  BY DEF WaysTo
<1> HIDE DEF q, m
<1>2. p - m \in Enc /\ p - m <= maxLen[m - start]
  BY <1>1 DEF Fits, Enc
<1>3. p - m > 0
  BY <1>2, LenOfFacts
<1>4. /\ q \in Nat /\ m \in Nat /\ m < p /\ start <= m
      /\ q # frontier.pos => q \in start .. p - 1
  BY <1>1, <1>3
<1>5. QED
  BY <1>1, <1>2, <1>4 DEF q, m

(* The cheapest way to p depends on the positions before p only.           *)
LEMMA BestLocal ==
  ASSUME CostConstraints, start \in Nat, frontier.pos \in Nat, NEW p \in Nat,
         NEW x, NEW b, NEW c, \A q \in start .. p - 1 : b[q] = c[q]
  PROVE  BestOf(b, x, p) = BestOf(c, x, p)
<1>1. \A w \in WaysTo(p) : WayCost(b, x, w) = WayCost(c, x, w)
  <2>1. TAKE w \in WaysTo(p)
  <2>2. w[1] # frontier.pos => w[1] \in start .. p - 1
    BY WaysFrom
  <2>3. FromCost(b, w[1]) = FromCost(c, w[1])
    BY <2>2 DEF FromCost
  <2>4. QED
    BY <2>3 DEF WayCost
<1>2. {WayCost(b, x, w) : w \in WaysTo(p)} = {WayCost(c, x, w) : w \in WaysTo(p)}
  BY <1>1
<1>3. QED
  BY <1>2, Zenon DEF BestOf

(* The recursion of Reached has a solution.                                *)
LEMMA ReachedExists ==
  ASSUME CostConstraints, start \in Nat, frontier.pos \in Nat, End \in Nat, start <= End, NEW x
  PROVE  \E b : IsReached(b, x)
<1> DEFINE Solves(b, n) == \A p \in start .. n : b[p] = BestOf(b, x, p)
           bad == {n \in start .. End : ~ \E b : Solves(b, n)}
<1>1. bad = {}
  <2>1. SUFFICES ASSUME bad # {} PROVE FALSE
    OBVIOUS
  <2>2. PICK n \in bad : \A m \in bad : n <= m
    <3>1. bad \subseteq Nat
      OBVIOUS
    <3>2. QED
      BY <2>1, <3>1, LeastNatural
  <2>3. n \in start .. End /\ ~ \E b : Solves(b, n)
    BY <2>2
  <2>4. n \in Nat /\ start <= n
    BY <2>3
  <2>5. \E b : Solves(b, n - 1)
    <3>1. CASE n = start
      <4>1. Solves(x, n - 1)
        BY <2>4, <3>1
      <4>2. QED
        BY <4>1
    <3>2. CASE n # start
      <4>1. n - 1 \in start .. End /\ ~(n <= n - 1)
        BY <2>3, <2>4, <3>2
      <4>2. n - 1 \notin bad
        BY <2>2, <4>1
      <4>3. QED
        BY <4>1, <4>2
    <3>3. QED
      BY <3>1, <3>2
  <2>6. PICK b : Solves(b, n - 1)
    BY <2>5
  <2> DEFINE c == [p \in start .. n |-> IF p = n THEN BestOf(b, x, n) ELSE b[p]]
  <2>7. \A q \in start .. n - 1 : c[q] = b[q]
    BY <2>4
  <2>8. c[n] = BestOf(b, x, n)
    BY <2>4
  <2> HIDE DEF c
  <2>9. ASSUME NEW p \in start .. n PROVE c[p] = BestOf(c, x, p)
    <3>1. p \in Nat /\ p <= n
      BY <2>4
    <3>2. \A q \in start .. p - 1 : c[q] = b[q]
      BY <2>4, <2>7, <3>1
    <3>3. BestOf(c, x, p) = BestOf(b, x, p)
      BY <3>1, <3>2, BestLocal
    <3>4. c[p] = BestOf(b, x, p)
      <4>1. CASE p = n
        BY <2>8, <4>1
      <4>2. CASE p # n
        <5>1. p \in start .. n - 1
          BY <2>4, <2>9, <3>1, <4>2
        <5>2. QED
          BY <2>6, <2>7, <5>1
      <4>3. QED
        BY <4>1, <4>2
    <3>5. QED
      BY <3>3, <3>4
  <2>10. Solves(c, n)
    BY <2>9
  <2>11. QED
    BY <2>3, <2>10
<1>2. End \in start .. End
  OBVIOUS
<1>3. PICK b : Solves(b, End)
  BY <1>1, <1>2
<1> DEFINE c == [p \in start .. End |-> b[p]]
<1>4. \A p \in start .. End : BestOf(c, x, p) = b[p]
  <2>1. TAKE p \in start .. End
  <2>2. p \in Nat /\ \A q \in start .. p - 1 : c[q] = b[q]
    OBVIOUS
  <2> HIDE DEF c
  <2>3. BestOf(c, x, p) = BestOf(b, x, p)
    BY <2>2, BestLocal
  <2>4. QED
    BY <1>3, <2>3
<1>5. c = [p \in start .. End |-> BestOf(c, x, p)]
  BY <1>4
<1>6. QED
  BY <1>5 DEF IsReached

(* No way is cheaper than the cost that relax found.                       *)
LEMMA ReachedNear ==
  ASSUME CostConstraints, HeavyInv, NearInv, pc = "back", NEW x, NEW b, IsReached(b, x), Nearly(x)
  PROVE  \A p \in start .. End : b[p] \in Nat /\ b[p] <= Inf /\ dp[p - start] <= b[p]
<1>1. /\ start \in Nat /\ BlockLen \in Nat \ {0} /\ End = start + BlockLen /\ End \in Nat
      /\ idx > BlockLen /\ idx \in Nat /\ size \in Nat /\ End <= size
      /\ DOMAIN dp = 0 .. BlockLen + RelaxWindow - 1
      /\ TokenCost \in Nat /\ Inf \in Nat /\ TokenLitMax \in Nat \ {0}
      /\ frontier.pos \in Nat /\ frontier.pos <= start
      /\ RelaxWindow \in Nat \ {0}
  <2>1. idx > BlockLen
    BY DEF NearInv
  <2>2. RelaxWindow \in Nat /\ MaxMatchLen \in Nat /\ MaxMatchLen < RelaxWindow
    BY CostFacts, Constants
  <2>3. QED
    BY <2>1, <2>2, BlockFacts, CostFacts DEF Relaxed
<1>2. /\ DOMAIN Costs \subseteq Nat /\ \A q \in DOMAIN Costs : Costs[q] \in Nat
      /\ frontier.pos \in DOMAIN Costs /\ Costs[frontier.pos] = frontier.cost
      /\ \A q \in start .. End : dp[q - start] # Inf =>
           q \in DOMAIN Costs /\ Costs[q] = dp[q - start]
  BY SourceNumbers, SourceFacts DEF Relaxed
<1>3. \A k \in DOMAIN dp : dp[k] \in Nat /\ dp[k] <= Inf
  <2>1. \A k \in DOMAIN dp : dp[k] \in HeaderCost .. Inf /\ dp[k] \in Nat
    BY ReachRange DEF Relaxed
  <2>2. HeaderCost \in Nat
    BY CostFacts
  <2>3. QED
    BY <1>1, <2>1, <2>2
<1>4. \A n \in 0 .. size : x[n] = n \div TokenLitMax /\ x[n] \in Nat
  <2>1. TAKE n \in 0 .. size
  <2>2. n \in Nat /\ x[n] = n \div TokenLitMax
    BY <1>1 DEF Nearly
  <2>3. n \div TokenLitMax \in Nat
    BY <1>1, <2>2, Divides
  <2>4. QED
    BY <2>2, <2>3
<1> DEFINE Fine(p) == b[p] \in Nat /\ b[p] <= Inf /\ dp[p - start] <= b[p]
           bad == {p \in start .. End : ~Fine(p)}
<1>5. bad = {}
  <2>1. SUFFICES ASSUME bad # {} PROVE FALSE
    OBVIOUS
  <2>2. PICK p \in bad : \A y \in bad : p <= y
    <3>1. bad \subseteq Nat
      <4> HIDE DEF Fine
      <4>1. QED
        BY <1>1
    <3>2. QED
      BY <2>1, <3>1, LeastNatural
  <2>3. p \in start .. End /\ p \in Nat /\ ~Fine(p)
    BY <1>1, <2>2
  <2>4. \A q \in start .. p - 1 : Fine(q)
    <3>1. TAKE q \in start .. p - 1
    <3>2. q \in start .. End /\ ~(p <= q)
      BY <1>1, <2>3
    <3>3. QED
      BY <2>2, <3>2
  <2> DEFINE S == {WayCost(b, x, w) : w \in WaysTo(p)}
  <2>5. ASSUME NEW w \in WaysTo(p)
        PROVE  /\ WayCost(b, x, w) \in Nat
               /\ WayCost(b, x, w) < Inf => dp[p - start] <= WayCost(b, x, w)
    <3> DEFINE q == w[1]
               m == w[2]
               f == FromCost(b, q)
               d == m - q
               len == p - m
    <3>1. /\ q \in Nat /\ m \in Nat /\ q <= m /\ m < p /\ start <= m
          /\ q # frontier.pos => q \in start .. p - 1
          /\ p - m \in Enc /\ p - m <= maxLen[m - start]
      BY <1>1, <2>3, WaysFrom
    <3> HIDE DEF q, m
    <3>2. f \in Nat
      <4>1. CASE q = frontier.pos
        BY <1>2, <4>1 DEF FromCost
      <4>2. CASE q # frontier.pos
        BY <2>4, <3>1, <4>2 DEF FromCost
      <4>3. QED
        BY <4>1, <4>2
    <3>3. d \in Nat /\ d \in 0 .. size
      BY <1>1, <2>3, <3>1
    <3>4. x[d] \in Nat /\ x[d] = d \div TokenLitMax
      BY <1>4, <3>3
    <3>5. WayCost(b, x, w) = f + d + x[d] + TokenCost
      BY DEF WayCost, q, m
    <3> HIDE DEF f, d
    <3>6. WayCost(b, x, w) \in Nat /\ f <= WayCost(b, x, w)
      BY <1>1, <3>2, <3>3, <3>4, <3>5
    <3>7. ASSUME WayCost(b, x, w) < Inf
          PROVE  dp[p - start] <= WayCost(b, x, w)
      <4>1. f < Inf
        BY <1>1, <3>2, <3>6, <3>7
      <4>2. q \in DOMAIN Costs /\ Costs[q] <= f
        <5>1. CASE q = frontier.pos
          BY <1>2, <5>1 DEF f, FromCost
        <5>2. CASE q # frontier.pos
          <6>1. f = b[q] /\ q \in start .. p - 1 /\ q \in start .. End
            BY <1>1, <2>3, <3>1, <5>2 DEF f, FromCost
          <6>2. Fine(q) /\ q - start \in DOMAIN dp
            BY <1>1, <2>3, <2>4, <6>1
          <6>3. dp[q - start] <= f /\ dp[q - start] # Inf
            BY <1>1, <1>3, <3>2, <4>1, <6>1, <6>2
          <6>4. QED
            BY <1>2, <6>1, <6>3
        <5>3. QED
          BY <5>1, <5>2
      <4>3. m - start \in 0 .. BlockLen - 1 /\ m - start < idx
            /\ start + (m - start) = m /\ (m - start) + (p - m) = p - start
        BY <1>1, <2>3, <3>1
      <4>4. OfferedAt(m - start)
        BY <4>3 DEF NearInv, Offered
      <4>5. dp[(m - start) + (p - m)] <= Bound(Costs, q, start + (m - start)) + TokenCost
        BY <3>1, <4>2, <4>3, <4>4 DEF OfferedAt
      <4>6. dp[p - start] <= Bound(Costs, q, m) + TokenCost
        BY <4>3, <4>5
      <4>7. Bound(Costs, q, m) = Costs[q] + (d + x[d])
        BY <3>4 DEF Bound, d
      <4>8. dp[p - start] \in Nat /\ Costs[q] \in Nat
        <5>1. p - start \in DOMAIN dp
          BY <1>1, <2>3
        <5>2. QED
          BY <1>2, <1>3, <4>2, <5>1
      <4>9. QED
        BY <1>1, <3>2, <3>3, <3>4, <3>5, <4>2, <4>6, <4>7, <4>8
    <3>8. QED
      BY <3>6, <3>7
  <2>6. b[p] = Min({Inf} \cup S)
    BY <2>3 DEF IsReached, BestOf
  <2>7. S \subseteq Nat
    BY <2>5
  <2>8. b[p] \in {Inf} \cup S /\ b[p] <= Inf
    <3> HIDE DEF S
    <3>1. {Inf} \cup S \subseteq Nat /\ {Inf} \cup S # {} /\ Inf \in {Inf} \cup S
      BY <1>1, <2>7
    <3>2. QED
      BY <2>6, <3>1, SetMin
  <2>9. b[p] \in Nat
    BY <1>1, <2>7, <2>8
  <2>10. dp[p - start] <= b[p]
    <3>1. CASE b[p] = Inf
      <4>1. p - start \in DOMAIN dp
        BY <1>1, <2>3
      <4>2. QED
        BY <1>3, <3>1, <4>1
    <3>2. CASE b[p] # Inf
      <4>1. PICK w \in WaysTo(p) : b[p] = WayCost(b, x, w)
        BY <2>8, <3>2
      <4>2. b[p] < Inf
        BY <1>1, <2>8, <2>9, <3>2
      <4>3. QED
        BY <2>5, <4>1, <4>2
    <3>3. QED
      BY <3>1, <3>2
  <2>11. QED
    BY <2>3, <2>8, <2>9, <2>10
<1>6. QED
  BY <1>5

(* No choice of matches and lengths is cheaper than what is committed.     *)
LEMMA NearHolds ==
  ASSUME CostConstraints, HeavyInv, NearInv
  PROVE  NearlyCheapest
<1> DEFINE x == [n \in 0 .. size |-> n \div TokenLitMax]
           best == Reached(x)
           Open(n) == IF End < size THEN n ELSE 0
           total == commit.cost + (End - commit.pos) + Open(Extras(End - commit.pos))
<1>1. SUFFICES ASSUME pc = "back"
               PROVE  /\ total <= frontier.cost + (End - frontier.pos)
                                    + Open(x[End - frontier.pos])
                      /\ \A p \in start .. End : best[p] # Inf =>
                           total <= best[p] + (End - p) + Open(x[End - p])
  BY Zenon DEF NearlyCheapest, NoneCheaper
<1>2. /\ start \in Nat /\ BlockLen \in Nat \ {0} /\ End = start + BlockLen /\ End \in Nat
      /\ size \in Nat /\ End <= size /\ frontier.pos \in Nat
      /\ DOMAIN dp = 0 .. BlockLen + RelaxWindow - 1 /\ RelaxWindow \in Nat \ {0}
      /\ TokenLitMax \in Nat \ {0}
  <2>1. RelaxWindow \in Nat /\ MaxMatchLen \in Nat /\ MaxMatchLen < RelaxWindow
    BY CostFacts, Constants
  <2>2. QED
    BY <1>1, <2>1, BlockFacts, CostFacts DEF Relaxed
<1>3. /\ frontier.pos \in DOMAIN Costs /\ Costs[frontier.pos] = frontier.cost
      /\ \A q \in start .. End : dp[q - start] # Inf =>
           q \in DOMAIN Costs /\ Costs[q] = dp[q - start]
      /\ \A q \in DOMAIN Costs : q \in Nat /\ q <= End /\ Costs[q] \in Nat
  BY <1>1, SourceFacts DEF Relaxed
<1>4. commit.pos \in DOMAIN Costs /\ commit.cost = Costs[commit.pos] /\ CommitNear
  BY <1>1 DEF HeavyInv, CommitOK, NearInv
<1>5. \A n \in 0 .. size : x[n] = n \div TokenLitMax /\ x[n] \in Nat
  <2>1. TAKE n \in 0 .. size
  <2>2. n \in Nat /\ x[n] = n \div TokenLitMax
    BY <1>2
  <2>3. n \div TokenLitMax \in Nat
    BY <1>2, <2>2, Divides
  <2>4. QED
    BY <2>2, <2>3
<1>6. IsReached(best, x)
  <2> HIDE DEF x
  <2>1. \E b : IsReached(b, x)
    BY <1>2, ReachedExists
  <2>2. QED
    BY <2>1, ReachedAs, Zenon
<1>7. \A p \in start .. End : best[p] \in Nat /\ best[p] <= Inf /\ dp[p - start] <= best[p]
  <2>1. Nearly(x)
    BY DEF Nearly
  <2> HIDE DEF best, x
  <2>2. QED
    BY <1>1, <1>6, <2>1, ReachedNear
<1> HIDE DEF x, best
<1>8. ASSUME NEW q \in DOMAIN Costs
      PROVE  /\ total \in Nat /\ Open(x[End - q]) \in Nat
             /\ total <= Costs[q] + (End - q) + Open(x[End - q])
  <2> DEFINE n == End - commit.pos
             d == End - q
  <2>1. n \in Nat /\ d \in Nat /\ d \in 0 .. size /\ commit.cost \in Nat
    BY <1>2, <1>3, <1>4
  <2>2. Extras(n) \in Nat /\ x[d] \in Nat /\ x[d] = d \div TokenLitMax
    <3> HIDE DEF n, d
    <3>1. QED
      BY <1>5, <2>1, ExtrasFacts
  <2>3. CASE End < size
    <3>1. RunFrom(Costs, commit.pos, End) <= Bound(Costs, q, End)
      BY <1>4, <2>3 DEF CommitNear
    <3>2. Costs[commit.pos] + (n + Extras(n)) <= Costs[q] + (d + x[d])
      BY <2>2, <3>1 DEF RunFrom, RunCost, Bound
    <3>3. total = commit.cost + n + Extras(n) /\ Open(x[d]) = x[d]
      BY <2>3
    <3> HIDE DEF n, d, total, Open
    <3>4. QED
      BY <1>3, <1>4, <2>1, <2>2, <3>2, <3>3 DEF d
  <2>4. CASE ~(End < size)
    <3>1. Costs[commit.pos] + n <= Costs[q] + d
      BY <1>4, <2>4 DEF CommitNear
    <3>2. total = commit.cost + n + 0 /\ Open(x[d]) = 0
      BY <2>4
    <3> HIDE DEF n, d, total, Open
    <3>3. QED
      BY <1>3, <1>4, <2>1, <2>2, <3>1, <3>2 DEF d
  <2>5. QED
    BY <2>3, <2>4
<1> HIDE DEF total
<1>9. total <= frontier.cost + (End - frontier.pos) + Open(x[End - frontier.pos])
  BY <1>3, <1>8
<1>10. ASSUME NEW p \in start .. End, best[p] # Inf
       PROVE  total <= best[p] + (End - p) + Open(x[End - p])
  <2>1. best[p] \in Nat /\ best[p] <= Inf /\ dp[p - start] <= best[p]
    BY <1>7
  <2>2. dp[p - start] # Inf
    <3>1. p - start \in DOMAIN dp
      BY <1>2
    <3>2. dp[p - start] \in Nat
      BY <1>1, <3>1, ReachRange DEF Relaxed
    <3>3. QED
      BY <1>10, <2>1, <3>2, CostFacts
  <2>3. p \in DOMAIN Costs /\ Costs[p] = dp[p - start]
    BY <1>3, <2>2
  <2>4. /\ total \in Nat /\ Open(x[End - p]) \in Nat
        /\ total <= Costs[p] + (End - p) + Open(x[End - p])
    BY <1>8, <2>3
  <2> HIDE DEF Open
  <2>5. QED
    BY <1>2, <1>3, <2>1, <2>3, <2>4
<1>11. QED
  BY <1>9, <1>10

(* The parse of each block takes no more than any choice of matches and    *)
(* lengths would, if TokenLitMax literals of a run took one byte more each *)
(* time: what is true of one kept run of literals, for every input.        *)
THEOREM LevelFourNearlyCheapest ==
  ASSUME CostConstraints
  PROVE  HeavySpec => []NearlyCheapest
<1>1. HeavyInit => NearInv
  BY DEF HeavyInit, FinderInit, NearInv
<1>2. CostConstraints /\ HeavyInv /\ NearInv /\ [HeavyNext]_heavyVars => NearInv'
  BY NearStep
<1>3. CostConstraints => []CostConstraints
  BY PTL DEF CostConstraints
<1>4. CostConstraints
  OBVIOUS
<1>5. HeavySpec => []NearInv
  BY <1>1, <1>2, <1>3, <1>4, HeavyInvariance, PTL DEF HeavySpec
<1>6. CostConstraints /\ HeavyInv /\ NearInv => NearlyCheapest
  BY NearHolds
<1>7. QED
  BY <1>3, <1>4, <1>5, <1>6, HeavyInvariance, PTL
=============================================================================
