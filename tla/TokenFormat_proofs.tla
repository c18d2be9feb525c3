------------------------- MODULE TokenFormat_proofs -------------------------
(***************************************************************************)
(* Facts about numbers and about the token format that the proofs of the   *)
(* decoders, of the stream writers and of the container rest on.           *)
(***************************************************************************)
EXTENDS TokenFormat, WellFoundedInduction, TLAPS

(* n steps of k: the next step adds k, and m steps bound the first n + 1.   *)
LEMMA Steps ==
  ASSUME NEW k \in Nat, NEW m \in Nat, NEW n \in Nat, n < m
  PROVE  /\ n * k \in Nat
         /\ (n + 1) * k = n * k + k
         /\ (n + 1) * k <= m * k
         /\ n * k <= (m - 1) * k
<1>1. (m - (n + 1)) * k >= 0
  OBVIOUS
<1>2. (m - (n + 1)) * k = m * k - (n + 1) * k
  OBVIOUS
<1>3. (n + 1) * k = n * k + k /\ (m - 1) * k = m * k - k
  OBVIOUS
<1>4. n * k \in Nat /\ m * k \in Nat
  OBVIOUS
<1>5. QED
  BY <1>1, <1>2, <1>3, <1>4

(* A set of naturals has a least member: what induction needs. *)
LEMMA LeastNatural ==
  ASSUME NEW T, T \subseteq Nat, T # {}
  PROVE  \E x \in T : \A y \in T : x <= y
<1> DEFINE R == OpToRel(<, Nat)
<1>1. IsWellFoundedOn(R, Nat)
  BY NatLessThanWellFounded
<1>2. \A x, y \in Nat : <<y, x>> \in R <=> y < x
  BY DEF OpToRel
<1> HIDE DEF R
<1>3. PICK x \in T : \A y \in T : ~(<<y, x>> \in R)
  BY <1>1, WFMin, Zenon
<1>4. ASSUME NEW y \in T PROVE x <= y
  <2>1. ~(y < x)
    BY <1>2, <1>3
  <2>2. QED
    BY <2>1
<1>5. QED
  BY <1>4

(* A whole period more does not change the remainder. *)
LEMMA ModShift ==
  ASSUME NEW d \in Nat \ {0}, NEW x \in Nat, x >= d
  PROVE  x % d = (x - d) % d
<1> DEFINE q == x \div d
           r == x % d
           p == (x - d) \div d
           s == (x - d) % d
<1>1. q \in Nat /\ r \in 0 .. d - 1 /\ x = d * q + r
  OBVIOUS
<1>2. x - d \in Nat
  OBVIOUS
<1>3. p \in Nat /\ s \in 0 .. d - 1 /\ x - d = d * p + s
  BY <1>2
<1> HIDE DEF q, r, p, s
<1>4. d * (q - 1 - p) = s - r
  <2>1. d * (q - 1 - p) = d * q - d - d * p
    BY <1>1, <1>3
  <2>2. d * q \in Int /\ d * p \in Int /\ r \in Int /\ s \in Int
    BY <1>1, <1>3
  <2>3. d * q = x - r /\ d * p = (x - d) - s
    BY <1>1, <1>3, <2>2
  <2>4. QED
    BY <2>1, <2>2, <2>3
<1>5. \A w \in Int : (w >= 1 => d * w >= d) /\ (w <= -1 => d * w <= -d)
  OBVIOUS
<1>6. q - 1 - p = 0
  BY <1>1, <1>3, <1>4, <1>5
<1>7. s = r
  BY <1>1, <1>3, <1>4, <1>6
<1>8. QED
  BY <1>7 DEF r, s

(* A run's extension takes a whole number of bytes. *)
LEMMA ExtBytesRange ==
  ASSUME NEW n \in Nat
  PROVE  ExtBytes(n) \in Nat
<1>1. TokenLitMax \in Nat /\ ExtMax \in Nat \ {0}
  BY FormatAssumption DEF FormatConstraints
<1>2. n >= TokenLitMax => (n - TokenLitMax) \div ExtMax \in Nat
  BY <1>1
<1>3. QED
  BY <1>1, <1>2 DEF ExtBytes

(* The regions of a stream that Layout::parse accepts. *)
LEMMA LayoutRange ==
  ASSUME NEW l \in Layouts
  PROVE  /\ l.src \in Nat /\ l.dst \in Nat /\ l.suffix \in Nat
         /\ l.suffix >= MinSuffix
         /\ SuffixStart(l) \in Nat /\ SuffixStart(l) = l.src - l.suffix
         /\ SuffixStart(l) >= ExtHeaderSize
         /\ TokenOutputEnd(l) \in Nat /\ TokenOutputEnd(l) = l.dst - l.suffix
BY FormatAssumption
   DEF Layouts, FormatConstraints, SuffixStart, TokenOutputEnd

(* The cursor an accepted token leaves is ordered if the one before it was. *)
LEMMA AdvanceOrdered ==
  ASSUME NEW l \in Layouts, NEW c \in Cursors, NEW t \in Tokens,
         c.literals <= SuffixStart(l), Accepts(l, c, t)
  PROVE  /\ Advance(c, t) \in Cursors
         /\ Advance(c, t).control <= Advance(c, t).literals
         /\ Advance(c, t).literals <= SuffixStart(l)
         /\ Advance(c, t).out <= TokenOutputEnd(l)
<1>1. t.lit \in Nat /\ t.mat \in Nat /\ TokenLen \in Nat
  BY FormatAssumption DEF FormatConstraints, Tokens
<1>2. /\ c.control \in Nat /\ c.literals \in Nat /\ c.out \in Nat
      /\ ExtBytes(t.lit) \in Nat
      /\ SuffixStart(l) \in Nat /\ TokenOutputEnd(l) \in Nat
  BY <1>1, ExtBytesRange, LayoutRange DEF Cursors
<1>3. QED
  BY <1>1, <1>2 DEF Accepts, Advance, AfterToken, Cursors
=============================================================================
