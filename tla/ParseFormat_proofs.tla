------------------------- MODULE ParseFormat_proofs -------------------------
(***************************************************************************)
(* Facts about extrema and match lengths that the proofs of the parsers    *)
(* rest on.  That a maximum exists needs well-foundedness: the library's   *)
(* WFMin gives it.                                                         *)
(***************************************************************************)
EXTENDS ParseFormat, WellFoundedInduction, TLAPS

LEMMA LeastNatural ==
  ASSUME NEW T, T \subseteq Nat, T # {}
  PROVE  \E x \in T : \A y \in T : x <= y
<1> DEFINE R == OpToRel(<, Nat)
<1>1. IsWellFoundedOn(R, Nat)
  BY NatLessThanWellFounded
<1>2. \A x, y \in Nat : <<y, x>> \in R <=> y < x
  BY DEF OpToRel
<1> HIDE DEF R
<1>3. PICK x \in T : \A y \in T : ~(<<y, x>> \in R)
  BY <1>1, WFMin, Zenon
<1>4. ASSUME NEW y \in T PROVE x <= y
  <2>1. ~(y < x)
    BY <1>2, <1>3
  <2>2. QED
    BY <2>1
<1>5. QED
  BY <1>4

(* A set of integers with an upper bound has its maximum. *)
LEMMA MaxBound ==
  ASSUME NEW S, S \subseteq Int, S # {}, NEW m \in Int, \A x \in S : x <= m
  PROVE  /\ Max(S) \in S
         /\ \A x \in S : x <= Max(S)
<1> DEFINE T == {m - x : x \in S}
<1>1. T \subseteq Nat /\ T # {}
  <2>1. \A x \in S : m - x \in Nat
    OBVIOUS
  <2>2. QED
    BY <2>1
<1>2. PICK t \in T : \A y \in T : t <= y
  BY <1>1, LeastNatural
<1>3. PICK x \in S : t = m - x
  BY <1>2
<1>4. \A y \in S : x >= y
  <2>1. SUFFICES ASSUME NEW y \in S PROVE x >= y
    OBVIOUS
  <2>2. t <= m - y
    BY <1>2
  <2>3. QED
    BY <1>3, <2>2
<1>5. \E z \in S : \A y \in S : z >= y
  BY <1>4
<1>6. Max(S) \in S /\ \A y \in S : Max(S) >= y
  BY <1>5 DEF Max
<1>7. QED
  BY <1>6

(* A set of integers with a lower bound has its minimum. *)
LEMMA MinBound ==
  ASSUME NEW S, S \subseteq Int, S # {}, NEW m \in Int, \A x \in S : m <= x
  PROVE  /\ Min(S) \in S
         /\ \A x \in S : Min(S) <= x
<1> DEFINE T == {x - m : x \in S}
<1>1. T \subseteq Nat /\ T # {}
  <2>1. \A x \in S : x - m \in Nat
    OBVIOUS
  <2>2. QED
    BY <2>1
<1>2. PICK t \in T : \A y \in T : t <= y
  BY <1>1, LeastNatural
<1>3. PICK x \in S : t = x - m
  BY <1>2
<1>4. \A y \in S : x <= y
  <2>1. SUFFICES ASSUME NEW y \in S PROVE x <= y
    OBVIOUS
  <2>2. t <= y - m
    BY <1>2
  <2>3. QED
    BY <1>3, <2>2
<1>5. \E z \in S : \A y \in S : z =< y
  BY <1>4
<1>6. Min(S) \in S /\ \A y \in S : Min(S) =< y
  BY <1>5 DEF Min
<1>7. QED
  BY <1>6

(* Two and three integers. *)
LEMMA MaxOfTwo ==
  ASSUME NEW a \in Int, NEW b \in Int
  PROVE  Max({a, b}) = IF a >= b THEN a ELSE b
<1>1. PICK m \in Int : a <= m /\ b <= m
  <2>1. CASE a <= b
    BY <2>1
  <2>2. CASE b <= a
    BY <2>2
  <2>3. QED
    BY <2>1, <2>2
<1>2. Max({a, b}) \in {a, b} /\ \A x \in {a, b} : x <= Max({a, b})
  BY <1>1, MaxBound
<1>3. QED
  BY <1>2

LEMMA MinOfTwo ==
  ASSUME NEW a \in Int, NEW b \in Int
  PROVE  Min({a, b}) = IF a <= b THEN a ELSE b
<1>1. PICK m \in Int : m <= a /\ m <= b
  <2>1. CASE a <= b
    BY <2>1
  <2>2. CASE b <= a
    BY <2>2
  <2>3. QED
    BY <2>1, <2>2
<1>2. Min({a, b}) \in {a, b} /\ \A x \in {a, b} : Min({a, b}) <= x
  BY <1>1, MinBound
<1>3. QED
  BY <1>2

LEMMA MinOfThree ==
  ASSUME NEW a \in Int, NEW b \in Int, NEW c \in Int
  PROVE  /\ Min({a, b, c}) \in {a, b, c}
         /\ Min({a, b, c}) <= a /\ Min({a, b, c}) <= b /\ Min({a, b, c}) <= c
<1>1. PICK m \in Int : m <= a /\ m <= b
  <2>1. CASE a <= b
    BY <2>1
  <2>2. CASE b <= a
    BY <2>2
  <2>3. QED
    BY <2>1, <2>2
<1>2. PICK n \in Int : n <= m /\ n <= c
  <2>1. CASE m <= c
    BY <2>1
  <2>2. CASE c <= m
    BY <2>2
  <2>3. QED
    BY <2>1, <2>2
<1>3. \A x \in {a, b, c} : n <= x
  BY <1>1, <1>2
<1>4. QED
  BY <1>3, MinBound

(* The common prefix is no longer than the limit, and common. *)
LEMMA LcpCommon ==
  ASSUME NEW a, NEW b, NEW limit \in Nat
  PROVE  /\ Lcp(a, b, limit) \in 0 .. limit
         /\ \A i \in 0 .. Lcp(a, b, limit) - 1 : input[a + i] = input[b + i]
         /\ \A n \in 0 .. limit :
              (\A i \in 0 .. n - 1 : input[a + i] = input[b + i])
                => n <= Lcp(a, b, limit)
<1> DEFINE S == {n \in 0 .. limit : \A i \in 0 .. n - 1 : input[a + i] = input[b + i]}
<1>1. S \subseteq Int /\ 0 \in S /\ \A n \in S : n <= limit
  OBVIOUS
<1>2. Lcp(a, b, limit) = Max(S)
  BY Zenon DEF Lcp
<1>3. \A n : n \in S <=> /\ n \in 0 .. limit
                         /\ \A i \in 0 .. n - 1 : input[a + i] = input[b + i]
  OBVIOUS
<1> HIDE DEF S
<1>4. Max(S) \in S /\ \A n \in S : n <= Max(S)
  <2>1. S \subseteq Int /\ S # {} /\ limit \in Int /\ \A n \in S : n <= limit
    BY <1>1
  <2>2. QED
    BY <2>1, MaxBound, Zenon
<1>5. QED
  BY <1>2, <1>3, <1>4
=============================================================================
