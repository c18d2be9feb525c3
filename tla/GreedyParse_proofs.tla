-------------------------- MODULE GreedyParse_proofs --------------------------
(***************************************************************************)
(* The greedy levels promise the stream writer what Parse says, for every  *)
(* hash function, table size, policy and input that meets the assumptions. *)
(* A match found at one position is emitted at another, so the argument    *)
(* follows a match from the table entry it comes from (Candidate) over the *)
(* comparison, the lookahead and the wait in cand to the extension over    *)
(* the pending literals.                                                   *)
(***************************************************************************)
EXTENDS GreedyParse, ParseFormat_proofs, FiniteSetTheorems

\* What Find returns at p: nothing, or a true match there.
FoundAt(m, p) ==
  \/ m = NoMatch
  \/ /\ m.pos = p
     /\ m.len \in 1 .. MaxMatchLen
     /\ TrueMatch(m)

\* A match that can be emitted.
Emittable(m) ==
  /\ m.pos \in Nat
  /\ m.len \in MinMatchLen .. MaxMatchLen
  /\ TrueMatch(m)
  /\ lit <= m.pos
  /\ m.pos + m.len <= MatchEnd

\* An entry never written, or one of a position that was inserted.
Held(entry, n) == \E q \in Nat : entry = q % Wrap /\ (q = 0 \/ q < n)

TablesHeld ==
  /\ next = 0 \/ next + Lag <= pos
  /\ \A h \in Slots : /\ Held(latestLong[h], next)
                      /\ Held(latestShort[h], next)
                      /\ \A e \in 0 .. width - 1 : Held(ring[h].entries[e], next)

CursorsOK ==
  /\ lit <= pos /\ lit <= MatchEnd /\ misses <= pos
  /\ out \in Seq([pos : Nat, len : Nat, dis : Nat])
  /\ AbstractParse!Covered = lit

CandidateOK == cand # NoMatch => cand.pos \in Nat

Inv == TypeOK /\ CursorsOK /\ TablesHeld /\ CandidateOK /\ DeferredValid

----------------------------------------------------------------------------
LEMMA Constants ==
  /\ {Lag, Wrap, Batch, MaxMatchLen, Short, Long} \subseteq Nat \ {0}
  /\ MinDistance = Lag + 1 /\ MaxDistance = Lag + Wrap
  /\ MaxMatchLen <= Lag /\ MinSuffix = MaxMatchLen
  /\ Short <= Long /\ Long <= MaxMatchLen
  /\ MinMatchLen \in Nat \ {0}
  /\ RegimeCap \in Nat /\ SkipAfter \in Nat \ {0}
  /\ MinMatchLen .. MaxMatchLen \subseteq MatchLens
  /\ \A n \in Sizes : n \in Nat /\ n >= MinSuffix
BY ParseAssumption, HashAssumption, LevelAssumption
   DEF ParseConstraints, HashConstraints

LEMMA SizeRange ==
  ASSUME InputTypeOK
  PROVE  size \in Nat /\ MatchEnd \in Nat /\ MatchEnd = size - MaxMatchLen
BY Constants DEF InputTypeOK, MatchEnd

(* A remainder is no larger than the dividend. *)
LEMMA Remainder ==
  ASSUME NEW w \in Nat \ {0}, NEW x \in Int
  PROVE  x % w \in 0 .. w - 1 /\ (x >= 0 => x % w <= x)
<1>1. x % w \in 0 .. w - 1
  OBVIOUS
<1>2. ASSUME x >= 0 PROVE x % w <= x
  <2>1. CASE x < w
    <3>1. x % w = x
      BY <1>2, <2>1
    <3>2. QED
      BY <3>1
  <2>2. CASE x >= w
    BY <1>1, <2>2
  <2>3. QED
    BY <2>1, <2>2
<1>3. QED
  BY <1>1, <1>2

(* The slots of a position whose bytes are in the input. *)
LEMMA SlotRange ==
  ASSUME InputTypeOK, NEW p \in Nat, p + Long <= size
  PROVE  LongSlot(p) \in Slots /\ ShortSlot(p) \in Slots
<1>1. size \in Nat /\ input \in [0 .. size - 1 -> Bytes]
  BY SizeRange DEF InputTypeOK
<1>2. ASSUME NEW n \in Nat, n <= Long PROVE Word(p, n) \in [1 .. n -> Bytes]
  <2>1. \A i \in 1 .. n : input[p + i - 1] \in Bytes
    BY <1>1, <1>2, Constants
  <2>2. QED
    BY <2>1 DEF Word
<1>3. /\ \A w \in [1 .. Short -> Bytes] : ShortHash(w) \in Slots
      /\ \A w \in [1 .. Long -> Bytes] : LongHash(w) \in Slots
  BY HashAssumption DEF HashConstraints
<1>4. Word(p, Long) \in [1 .. Long -> Bytes] /\ Word(p, Short) \in [1 .. Short -> Bytes]
  BY <1>2, Constants
<1>5. QED
  BY <1>3, <1>4 DEF LongSlot, ShortSlot

----------------------------------------------------------------------------
(* The candidate of an entry is at a distance a token can hold. *)
LEMMA CandidateRange ==
  ASSUME NEW p \in Nat, p > Lag, NEW entry \in 0 .. Wrap - 1,
         Candidate(p, entry) # None
  PROVE  /\ Candidate(p, entry) \in Nat
         /\ p - Candidate(p, entry) \in MinDistance .. MaxDistance
<1> DEFINE latest == p - MinDistance
           back == (latest - entry) % Wrap
<1>1. Wrap \in Nat \ {0} /\ Lag \in Nat /\ MinDistance = Lag + 1
      /\ MaxDistance = Lag + Wrap
  BY Constants
<1>2. latest \in Nat /\ latest - entry \in Int
  BY <1>1
<1> HIDE DEF latest
<1>3. back \in 0 .. Wrap - 1
  BY <1>1, <1>2, Remainder
<1>4. Candidate(p, entry) = IF back <= latest THEN latest - back ELSE None
  BY DEF Candidate, latest
<1> HIDE DEF back
<1>5. back <= latest /\ Candidate(p, entry) = latest - back
  BY <1>4
<1>6. latest = p - MinDistance
  BY DEF latest
<1>7. QED
  BY <1>1, <1>2, <1>3, <1>5, <1>6

(* An entry of a position far enough back stands for a position. *)
LEMMA CandidateIsThere ==
  ASSUME NEW p \in Nat, NEW q \in Nat, q + MinDistance <= p
  PROVE  Candidate(p, q % Wrap) # None
<1> DEFINE latest == p - MinDistance
           x == latest - (q % Wrap)
<1>1. Wrap \in Nat \ {0} /\ MinDistance \in Nat
  BY Constants
<1>2. latest \in Nat /\ q <= latest
  BY <1>1
<1> HIDE DEF latest
<1>3. q % Wrap \in 0 .. Wrap - 1 /\ q % Wrap <= q
  <2>1. q \in Int /\ q >= 0
    OBVIOUS
  <2>2. QED
    BY <1>1, <2>1, Remainder, Zenon
<1>4. x \in Nat /\ x <= latest
  BY <1>2, <1>3
<1>5. x % Wrap \in 0 .. Wrap - 1 /\ x % Wrap <= x
  BY <1>1, <1>4, Remainder
<1>6. Candidate(p, q % Wrap) = IF x % Wrap <= latest THEN latest - (x % Wrap) ELSE None
  BY DEF Candidate, latest
<1> DEFINE r == x % Wrap
<1>7. r \in Nat /\ r <= latest /\ latest - r \in Nat
  <2>1. r \in Nat /\ r <= x
    BY <1>1, <1>5
  <2> HIDE DEF r
  <2>2. QED
    BY <1>2, <1>4, <2>1
<1>8. Candidate(p, q % Wrap) = latest - r
  BY <1>6, <1>7
<1> HIDE DEF r, x
<1>9. QED
  BY <1>7, <1>8 DEF None

----------------------------------------------------------------------------
(* Matches. *)
LEMMA CompareFound ==
  ASSUME InputTypeOK, NEW p \in Nat, p > Lag, NEW entry \in 0 .. Wrap - 1
  PROVE  FoundAt(Compare(p, entry), p)
<1> DEFINE at == Candidate(p, entry)
           len == Lcp(p, at, MaxMatchLen)
<1>1. CASE at = None
  BY <1>1, Zenon DEF Compare, FoundAt
<1>2. CASE at # None /\ len = 0
  BY <1>2, Zenon DEF Compare, FoundAt
<1>3. CASE at # None /\ len # 0
  <2>1. Compare(p, entry) = Match(p, len, p - at)
    BY <1>3, Zenon DEF Compare
  <2>2. at \in Nat /\ p - at \in MinDistance .. MaxDistance
    BY <1>3, CandidateRange
  <2>3. MaxMatchLen \in Nat /\ MinDistance \in Nat /\ MaxDistance \in Nat
    BY Constants
  <2>4. /\ len \in 0 .. MaxMatchLen
        /\ \A i \in 0 .. len - 1 : input[p + i] = input[at + i]
    BY <2>3, LcpCommon
  <2> HIDE DEF at, len
  <2>5. len \in 1 .. MaxMatchLen
    BY <1>3, <2>3, <2>4
  <2>6. ASSUME NEW i \in p .. p + len - 1
        PROVE  input[i] = input[i - (p - at)]
    <3>1. i - p \in 0 .. len - 1 /\ p + (i - p) = i /\ at + (i - p) = i - (p - at)
      BY <2>2, <2>5
    <3>2. QED
      BY <2>4, <3>1
  <2>7. p - at <= p
    BY <2>2
  <2> DEFINE m == Match(p, len, p - at)
  <2>8. m.pos = p /\ m.len = len /\ m.dis = p - at
    BY DEF Match
  <2> HIDE DEF m
  <2>9. TrueMatch(m)
    BY <2>2, <2>6, <2>7, <2>8 DEF TrueMatch
  <2>10. FoundAt(m, p)
    BY <2>5, <2>8, <2>9 DEF FoundAt
  <2>11. QED
    BY <2>1, <2>10 DEF m
<1>4. QED
  BY <1>1, <1>2, <1>3

LEMMA VerifyFound ==
  ASSUME InputTypeOK, NEW p \in Nat, p > Lag, NEW entry \in 0 .. Wrap - 1
  PROVE  FoundAt(Verify(p, entry), p)
<1>1. FoundAt(Compare(p, entry), p)
  BY CompareFound
<1>2. Verify(p, entry) = Compare(p, entry) \/ Verify(p, entry) = NoMatch
  BY DEF Verify
<1>3. QED
  BY <1>1, <1>2 DEF FoundAt

(* The finders return nothing or a true match, from whatever is in the     *)
(* tables.                                                                 *)
LEMMA FindFound ==
  ASSUME InputTypeOK, FinderTypeOK, width \in Nat \ {0},
         NEW p \in Nat, p > Lag, p + Long <= size, NEW pending
  PROVE  FoundAt(Find(p, pending), p)
<1>1. LongSlot(p) \in Slots /\ ShortSlot(p) \in Slots
  BY SlotRange
<1>2. /\ latestLong[LongSlot(p)] \in 0 .. Wrap - 1
      /\ latestShort[ShortSlot(p)] \in 0 .. Wrap - 1
  BY <1>1 DEF FinderTypeOK
<1>3. /\ FoundAt(Verify(p, latestLong[LongSlot(p)]), p)
      /\ FoundAt(Verify(p, latestShort[ShortSlot(p)]), p)
  BY <1>2, VerifyFound
<1>4. FoundAt(FindInRing(p), p)
  <2> DEFINE entries == ring[ShortSlot(p)].entries
             slots == 0 .. width - 1
             match == [k \in slots |-> Compare(p, entries[k])]
             lens == {match[k].len : k \in slots}
             longest == Max(lens)
             first == {k \in slots : match[k].len = longest}
  <2>1. entries \in [slots -> 0 .. Wrap - 1]
    BY <1>1 DEF FinderTypeOK
  <2>2. \A k \in slots : FoundAt(match[k], p)
    BY <2>1, CompareFound
  <2>3. NoMatch.len = 0
    BY DEF NoMatch, Match
  <2>4. MaxMatchLen \in Nat
    BY Constants
  <2>5. FindInRing(p) = match[Min(first)]
    BY Zenon DEF FindInRing
  <2>6. 0 \in slots
    OBVIOUS
  <2> HIDE DEF match
  <2>7. \A k \in slots : match[k].len \in 0 .. MaxMatchLen
    BY <2>2, <2>3, <2>4 DEF FoundAt
  <2>8. lens \subseteq Int /\ lens # {} /\ \A x \in lens : x <= MaxMatchLen
    BY <2>4, <2>6, <2>7
  <2>9. longest \in lens
    <3>1. MaxMatchLen \in Int
      BY <2>4
    <3> HIDE DEF lens
    <3>2. QED
      BY <2>8, <3>1, MaxBound, Zenon
  <2> HIDE DEF longest
  <2>10. PICK k \in slots : match[k].len = longest
    BY <2>9
  <2>11. first \subseteq Int /\ first # {} /\ \A x \in first : 0 <= x
    BY <2>10
  <2>12. Min(first) \in first
    BY <2>11, MinBound
  <2>13. Min(first) \in slots
    BY <2>12
  <2>14. QED
    BY <2>2, <2>5, <2>13
<1>5. finder \in {"latest", "swift", "ring"}
  BY DEF FinderTypeOK
<1>6. CASE finder = "latest"
  BY <1>3, <1>6 DEF Find
<1>7. CASE finder = "swift"
  BY <1>3, <1>7 DEF Find
<1>8. CASE finder = "ring"
  BY <1>4, <1>8 DEF Find
<1>9. QED
  BY <1>5, <1>6, <1>7, <1>8

----------------------------------------------------------------------------
(* extend_backward keeps the end of a match, and all of it is true. *)
LEMMA ExtendedValid ==
  ASSUME InputTypeOK, lit \in Nat, NEW m, Emittable(m)
  PROVE  /\ Extended(m).pos \in Nat
         /\ Extended(m).len \in MinMatchLen .. MaxMatchLen
         /\ Extended(m).dis \in MinDistance .. MaxDistance
         /\ Extended(m) = Match(Extended(m).pos, Extended(m).len, Extended(m).dis)
         /\ TrueMatch(Extended(m))
         /\ lit <= Extended(m).pos
         /\ EndOf(Extended(m)) = m.pos + m.len
<1> DEFINE a == m.pos - lit
           b == m.pos - m.dis
           c == MaxMatchLen - m.len
           limit == Min({a, b, c})
           S == {n \in 0 .. limit : \A i \in 1 .. n :
                   input[m.pos - i] = input[m.pos - i - m.dis]}
           back == Max(S)
           t == Match(m.pos - back, m.len + back, m.dis)
<1>1. /\ m.pos \in Nat /\ m.len \in MinMatchLen .. MaxMatchLen
      /\ lit <= m.pos /\ TrueMatch(m)
  BY DEF Emittable
<1>2. /\ m.dis \in MinDistance .. MaxDistance /\ m.dis <= m.pos
      /\ \A i \in m.pos .. m.pos + m.len - 1 : input[i] = input[i - m.dis]
  BY <1>1 DEF TrueMatch
<1>3. MinMatchLen \in Nat /\ MaxMatchLen \in Nat /\ MinDistance \in Nat /\ MaxDistance \in Nat
  BY Constants
<1>4. a \in Nat /\ b \in Nat /\ c \in Nat
  BY <1>1, <1>2, <1>3
<1>5. Extended(m) = t
  BY Zenon DEF Extended
<1>6. limit \in Nat /\ limit <= a /\ limit <= b /\ limit <= c
  <2>1. a \in Int /\ b \in Int /\ c \in Int
    BY <1>4
  <2> HIDE DEF a, b, c
  <2>2. limit \in {a, b, c} /\ limit <= a /\ limit <= b /\ limit <= c
    BY <2>1, MinOfThree, Zenon
  <2>3. QED
    BY <1>4, <2>2
<1> HIDE DEF limit
<1>7. back \in S
  <2>1. 0 \in S /\ S \subseteq Int /\ \A x \in S : x <= limit
    BY <1>6
  <2>2. limit \in Int /\ S # {}
    BY <1>6, <2>1
  <2> HIDE DEF S
  <2>3. QED
    BY <2>1, <2>2, MaxBound, Zenon
<1> HIDE DEF back
<1>8. /\ back \in 0 .. limit
      /\ \A i \in 1 .. back : input[m.pos - i] = input[m.pos - i - m.dis]
  BY <1>7
<1>9. t.pos = m.pos - back /\ t.len = m.len + back /\ t.dis = m.dis
  BY DEF Match
<1>10. t = Match(t.pos, t.len, t.dis)
  BY <1>9
<1> HIDE DEF t
<1>11. t.pos \in Nat /\ lit <= t.pos /\ t.dis <= t.pos
  BY <1>1, <1>2, <1>3, <1>6, <1>8, <1>9
<1>12. t.len \in MinMatchLen .. MaxMatchLen /\ t.pos + t.len = m.pos + m.len
  BY <1>1, <1>3, <1>6, <1>8, <1>9
<1>13. ASSUME NEW i \in t.pos .. t.pos + t.len - 1
       PROVE  input[i] = input[i - t.dis]
  <2>1. CASE i >= m.pos
    BY <1>1, <1>2, <1>3, <1>9, <1>11, <1>12, <2>1
  <2>2. CASE i < m.pos
    <3>1. m.pos - i \in 1 .. back /\ m.pos - (m.pos - i) = i
      BY <1>1, <1>6, <1>8, <1>9, <1>11, <2>2
    <3>2. input[m.pos - (m.pos - i)] = input[m.pos - (m.pos - i) - m.dis]
      BY <1>8, <3>1
    <3>3. QED
      BY <1>9, <3>1, <3>2
  <2>3. i \in Int
    BY <1>11, <1>12
  <2>4. QED
    BY <1>1, <2>1, <2>2, <2>3
<1>14. TrueMatch(t)
  BY <1>2, <1>9, <1>11, <1>13 DEF TrueMatch
<1>15. QED
  BY <1>2, <1>5, <1>9, <1>10, <1>11, <1>12, <1>14 DEF EndOf

(* The vote stays in its range. *)
LEMMA VotedRange ==
  ASSUME level \in Levels, regime \in 0 .. RegimeCap, NEW run
  PROVE  Voted(run) \in 0 .. RegimeCap
<1> DEFINE vote == regime + (IF run \in level.votes THEN level.up ELSE -level.down)
           low == Min({RegimeCap, vote})
<1>1. level.up \in Int /\ level.down \in Int
  BY LevelAssumption
<1>2. RegimeCap \in Int /\ RegimeCap >= 0
  BY Constants
<1>3. vote \in Int
  BY <1>1, <1>2
<1>4. Voted(run) = Max({0, low})
  BY Zenon DEF Voted
<1> HIDE DEF vote
<1>5. low = IF RegimeCap <= vote THEN RegimeCap ELSE vote
  BY <1>2, <1>3, MinOfTwo, Zenon
<1>6. low \in Int /\ low <= RegimeCap
  BY <1>2, <1>3, <1>5
<1> HIDE DEF low
<1>7. Max({0, low}) = IF 0 >= low THEN 0 ELSE low
  <2>1. 0 \in Int
    OBVIOUS
  <2>2. QED
    BY <1>6, <2>1, MaxOfTwo, Zenon
<1>8. QED
  BY <1>2, <1>4, <1>6, <1>7

----------------------------------------------------------------------------
(* A match found at the cursor, and one found ahead of it, can be emitted. *)
LEMMA FoundEmittable ==
  ASSUME Inv, NEW p \in Nat, pos <= p, p + MaxMatchLen <= MatchEnd,
         NEW m, FoundAt(m, p), m.len >= MinMatchLen
  PROVE  Emittable(m) /\ m.pos = p
<1>1. MinMatchLen \in Nat \ {0} /\ MaxMatchLen \in Nat
  BY Constants
<1>2. NoMatch.len = 0
  BY DEF NoMatch, Match
<1>3. m.pos = p /\ m.len \in 1 .. MaxMatchLen /\ TrueMatch(m)
  BY <1>1, <1>2 DEF FoundAt
<1>4. MatchEnd \in Nat
  BY SizeRange DEF Inv, TypeOK
<1>5. lit \in Nat /\ pos \in Nat /\ lit <= pos
  BY DEF Inv, TypeOK, CursorsOK, InputTypeOK
<1>6. QED
  BY <1>1, <1>3, <1>4, <1>5 DEF Emittable

LEMMA FindEmittable ==
  ASSUME Inv, NEW p \in Nat, p > Lag, pos <= p, p + MaxMatchLen <= MatchEnd,
         NEW pending, Find(p, pending).len >= MinMatchLen
  PROVE  Emittable(Find(p, pending))
<1>1. /\ Long \in Nat /\ MaxMatchLen \in Nat /\ Long <= MaxMatchLen
      /\ size \in Nat /\ MatchEnd = size - MaxMatchLen
  BY Constants, SizeRange DEF Inv, TypeOK
<1>2. p + Long <= size
  BY <1>1
<1>3. InputTypeOK /\ FinderTypeOK /\ width \in Nat \ {0}
  BY LevelAssumption DEF Inv, TypeOK
<1>4. FoundAt(Find(p, pending), p)
  BY <1>2, <1>3, FindFound
<1>5. QED
  BY <1>4, FoundEmittable

LEMMA LookaheadEmittable ==
  ASSUME Inv, pos > Lag, NEW m, Emittable(m)
  PROVE  Emittable(Lookahead(m))
<1>1. pos \in Nat /\ Lag \in Nat
  BY Constants DEF Inv, TypeOK
<1>2. ASSUME NEW n, Emittable(n), NEW at \in {pos + 1, pos + 2}
      PROVE  Emittable(Better(n, at))
  <2> DEFINE ahead == Find(at, FALSE)
  <2>1. CASE Stops(n, at) \/ ~(ahead.len > n.len)
    <3>1. Better(n, at) = n
      BY <2>1, Zenon DEF Better
    <3>2. QED
      BY <1>2, <3>1
  <2>2. CASE ~Stops(n, at) /\ ahead.len > n.len
    <3>1. Better(n, at) = ahead
      BY <2>2, Zenon DEF Better
    <3>2. at \in Nat /\ pos <= at /\ at > Lag
      BY <1>1
    <3>3. MatchEnd \in Nat /\ MaxMatchLen \in Nat /\ MinMatchLen \in Nat
      BY Constants, SizeRange DEF Inv, TypeOK
    <3>4. at + MaxMatchLen <= MatchEnd
      BY <2>2, <3>2, <3>3 DEF Stops
    <3>5. n.len \in MinMatchLen .. MaxMatchLen
      BY <1>2 DEF Emittable
    <3>6. ahead.len \in 0 .. MaxMatchLen
      <4>1. /\ Long \in Nat /\ Long <= MaxMatchLen /\ size \in Nat
            /\ MatchEnd = size - MaxMatchLen
        BY Constants, SizeRange DEF Inv, TypeOK
      <4>2. at + Long <= size
        BY <3>2, <3>3, <3>4, <4>1
      <4>3. InputTypeOK /\ FinderTypeOK /\ width \in Nat \ {0}
        BY LevelAssumption DEF Inv, TypeOK
      <4>4. FoundAt(ahead, at)
        BY <3>2, <4>2, <4>3, FindFound
      <4>5. NoMatch.len = 0
        BY DEF NoMatch, Match
      <4> HIDE DEF ahead
      <4>6. QED
        BY <3>3, <4>4, <4>5 DEF FoundAt
    <3>7. ahead.len >= MinMatchLen
      <4> HIDE DEF ahead
      <4>1. QED
        BY <2>2, <3>3, <3>5, <3>6
    <3>8. QED
      BY <3>1, <3>2, <3>4, <3>7, FindEmittable
  <2>3. QED
    BY <2>1, <2>2
<1> DEFINE one == Better(m, pos + 1)
<1>3. Emittable(one) /\ Emittable(Better(one, pos + 2))
  BY <1>2
<1>4. Lookahead(m) = m \/ Lookahead(m) = Better(one, pos + 2)
  BY Zenon DEF Lookahead
<1>5. QED
  BY <1>3, <1>4

----------------------------------------------------------------------------
(* What a batch leaves in a slot: what was there, or a position inserted. *)
LEMMA StoredRange ==
  ASSUME next \in Nat, next' = next + Batch, NEW old \in 0 .. Wrap - 1,
         Held(old, next),
         NEW positions \in SUBSET (next .. next + Batch - 1)
  PROVE  /\ Stored(positions, old) \in 0 .. Wrap - 1
         /\ Held(Stored(positions, old), next')
<1>1. Batch \in Nat \ {0} /\ Wrap \in Nat \ {0}
  BY Constants
<1>2. CASE positions = {}
  <2>1. Stored(positions, old) = old
    BY <1>2 DEF Stored
  <2>2. PICK q \in Nat : old = q % Wrap /\ (q = 0 \/ q < next)
    BY DEF Held
  <2>3. q = 0 \/ q < next'
    BY <1>1, <2>2
  <2>4. QED
    BY <2>1, <2>2, <2>3 DEF Held
<1>3. CASE positions # {}
  <2> DEFINE q == Max(positions)
  <2>1. Stored(positions, old) = q % Wrap
    BY <1>3, Zenon DEF Stored
  <2>2. q \in positions
    <3>1. positions \subseteq Int /\ \A x \in positions : x <= next + Batch - 1
      OBVIOUS
    <3>2. next + Batch - 1 \in Int
      BY <1>1
    <3>3. QED
      BY <1>3, <3>1, <3>2, MaxBound, Zenon
  <2> HIDE DEF q
  <2>3. q \in Nat /\ q < next'
    <3>1. q \in next .. next + Batch - 1
      BY <2>2
    <3>2. QED
      BY <1>1, <3>1
  <2>4. q % Wrap \in 0 .. Wrap - 1
    BY <1>1, <2>3
  <2>5. QED
    BY <2>1, <2>3, <2>4 DEF Held
<1>4. QED
  BY <1>2, <1>3

(* insert_batches keeps the tables to positions that lie the lag behind.   *)
LEMMA InsertKeeps ==
  ASSUME Inv, Insert
  PROVE  Inv' /\ next' > next /\ pos' = pos
<1> DEFINE batch == next .. next + Batch - 1
           even == {at \in batch : (at - next) % 2 = 0}
           long == [at \in batch |-> LongSlot(at)]
           short == [at \in even |-> ShortSlot(at)]
<1>1. /\ Batch \in Nat \ {0} /\ Wrap \in Nat \ {0} /\ Lag \in Nat /\ MaxMatchLen \in Nat
      /\ width \in Nat \ {0}
  BY Constants, LevelAssumption DEF Inv, TypeOK
<1>2. /\ next \in Nat /\ pos \in Nat /\ size \in Nat /\ MatchEnd = size - MaxMatchLen
  BY SizeRange DEF Inv, TypeOK, FinderTypeOK, InputTypeOK
<1>3. next' = next + Batch /\ next + Lag + Batch <= pos /\ pos + MaxMatchLen <= MatchEnd
  BY DEF Insert, Running, Due, InsertBatch
<1>4. next' \in 0 .. size /\ next' > next /\ next' + Lag <= pos
  BY <1>1, <1>2, <1>3
<1>5. /\ latestLong \in [Slots -> 0 .. Wrap - 1]
      /\ latestShort \in [Slots -> 0 .. Wrap - 1]
      /\ ring \in [Slots -> [entries : [0 .. width - 1 -> 0 .. Wrap - 1],
                             next : 0 .. width - 1]]
      /\ finder \in {"latest", "swift", "ring"}
  BY DEF Inv, TypeOK, FinderTypeOK
<1>6. \A h \in Slots : /\ Held(latestLong[h], next)
                       /\ Held(latestShort[h], next)
                       /\ \A e \in 0 .. width - 1 : Held(ring[h].entries[e], next)
  BY DEF Inv, TablesHeld
<1>7. ASSUME NEW old, Held(old, next) PROVE Held(old, next')
  <2>1. PICK q \in Nat : old = q % Wrap /\ (q = 0 \/ q < next)
    BY <1>7 DEF Held
  <2>2. q = 0 \/ q < next'
    BY <1>2, <1>4, <2>1
  <2>3. QED
    BY <2>1, <2>2 DEF Held
<1>8. ASSUME NEW h \in Slots
      PROVE  latestLong'[h] \in 0 .. Wrap - 1 /\ Held(latestLong'[h], next')
  <2>1. CASE finder = "ring"
    <3>1. latestLong' = latestLong
      BY <2>1 DEF Insert, InsertBatch
    <3>2. QED
      BY <1>5, <1>6, <1>7, <3>1
  <2>2. CASE finder # "ring"
    <3> DEFINE P == {at \in DOMAIN long : long[at] = h}
    <3>1. latestLong' = Newest(latestLong, long)
      BY <2>2, Zenon DEF Insert, InsertBatch
    <3>2. latestLong'[h] = Stored(P, latestLong[h])
      BY <3>1, Zenon DEF Newest
    <3>3. P \in SUBSET (next .. next + Batch - 1)
      OBVIOUS
    <3>4. latestLong[h] \in 0 .. Wrap - 1 /\ Held(latestLong[h], next)
      BY <1>5, <1>6
    <3> HIDE DEF P
    <3>5. QED
      BY <1>2, <1>3, <3>2, <3>3, <3>4, StoredRange
  <2>3. QED
    BY <2>1, <2>2
<1>9. ASSUME NEW h \in Slots
      PROVE  latestShort'[h] \in 0 .. Wrap - 1 /\ Held(latestShort'[h], next')
  <2>1. CASE finder # "swift"
    <3>1. latestShort' = latestShort
      BY <2>1 DEF Insert, InsertBatch
    <3>2. QED
      BY <1>5, <1>6, <1>7, <3>1
  <2>2. CASE finder = "swift"
    <3> DEFINE P == {at \in DOMAIN short : short[at] = h}
    <3>1. latestShort' = Newest(latestShort, short)
      BY <2>2, Zenon DEF Insert, InsertBatch
    <3>2. latestShort'[h] = Stored(P, latestShort[h])
      BY <3>1, Zenon DEF Newest
    <3>3. P \in SUBSET (next .. next + Batch - 1)
      OBVIOUS
    <3>4. latestShort[h] \in 0 .. Wrap - 1 /\ Held(latestShort[h], next)
      BY <1>5, <1>6
    <3> HIDE DEF P
    <3>5. QED
      BY <1>2, <1>3, <3>2, <3>3, <3>4, StoredRange
  <2>3. QED
    BY <2>1, <2>2
<1>10. ASSUME NEW h \in Slots
       PROVE  /\ ring'[h] \in [entries : [0 .. width - 1 -> 0 .. Wrap - 1],
                               next : 0 .. width - 1]
              /\ \A e \in 0 .. width - 1 : Held(ring'[h].entries[e], next')
  <2>1. CASE finder # "ring"
    <3>1. ring' = ring
      BY <2>1 DEF Insert, InsertBatch
    <3>2. QED
      BY <1>5, <1>6, <1>7, <3>1
  <2>2. CASE finder = "ring"
    <3> DEFINE P(e) == {at \in Entering(h, batch) : EntryFor(h, batch, at) = e}
               entries == [e \in 0 .. width - 1 |-> Stored(P(e), ring[h].entries[e])]
               cursor == (ring[h].next + Cardinality(Entering(h, batch))) % width
    <3>1. ring' = Pushed(batch)
      BY <2>2, Zenon DEF Insert, InsertBatch
    <3>2. ring'[h] = [entries |-> entries, next |-> cursor]
      BY <3>1, Zenon DEF Pushed
    <3>3. ring[h].next \in Nat
      BY <1>1, <1>5
    <3>4. Cardinality(Entering(h, batch)) \in Nat
      <4>1. IsFiniteSet(batch)
        BY <1>1, <1>2, FS_Interval
      <4>2. Entering(h, batch) \subseteq batch
        BY DEF Entering
      <4>3. QED
        BY <4>1, <4>2, FS_Subset, FS_CardinalityType, Zenon
    <3>5. cursor \in 0 .. width - 1
      <4> DEFINE n == Cardinality(Entering(h, batch))
      <4>1. n \in Nat
        BY <3>4
      <4> HIDE DEF n
      <4>2. (ring[h].next + n) % width \in 0 .. width - 1
        BY <1>1, <3>3, <4>1
      <4>3. QED
        BY <4>2 DEF n
    <3>6. ASSUME NEW e \in 0 .. width - 1
          PROVE  entries[e] \in 0 .. Wrap - 1 /\ Held(entries[e], next')
      <4>1. entries[e] = Stored(P(e), ring[h].entries[e])
        BY Zenon
      <4>2. P(e) \in SUBSET (next .. next + Batch - 1)
        BY DEF Entering
      <4>3. ring[h].entries[e] \in 0 .. Wrap - 1 /\ Held(ring[h].entries[e], next)
        BY <1>5, <1>6
      <4>4. /\ Stored(P(e), ring[h].entries[e]) \in 0 .. Wrap - 1
            /\ Held(Stored(P(e), ring[h].entries[e]), next')
        <5> HIDE DEF P
        <5>1. QED
          BY <1>2, <1>3, <4>2, <4>3, StoredRange
      <4>5. QED
        BY <4>1, <4>4, Zenon
    <3>7. entries \in [0 .. width - 1 -> 0 .. Wrap - 1]
      BY <3>6
    <3>8. ring'[h].entries = entries
      BY <3>2
    <3> HIDE DEF entries, cursor
    <3>9. QED
      BY <3>2, <3>5, <3>6, <3>7, <3>8
  <2>3. QED
    BY <2>1, <2>2
<1>11. FinderTypeOK'
  <2>1. \/ latestLong' = latestLong
        \/ latestLong' = Newest(latestLong, long)
    BY Zenon DEF Insert, InsertBatch
  <2>2. latestLong' = [h \in Slots |-> latestLong'[h]]
    <3>1. CASE latestLong' = latestLong
      BY <1>5, <3>1
    <3>2. CASE latestLong' = Newest(latestLong, long)
      BY <3>2, Zenon DEF Newest
    <3>3. QED
      BY <2>1, <3>1, <3>2
  <2>3. \/ latestShort' = latestShort
        \/ latestShort' = Newest(latestShort, short)
    BY Zenon DEF Insert, InsertBatch
  <2>4. latestShort' = [h \in Slots |-> latestShort'[h]]
    <3>1. CASE latestShort' = latestShort
      BY <1>5, <3>1
    <3>2. CASE latestShort' = Newest(latestShort, short)
      BY <3>2, Zenon DEF Newest
    <3>3. QED
      BY <2>3, <3>1, <3>2
  <2>5. ring' = ring \/ ring' = Pushed(batch)
    BY Zenon DEF Insert, InsertBatch
  <2>6. ring' = [h \in Slots |-> ring'[h]]
    <3>1. CASE ring' = ring
      BY <1>5, <3>1
    <3>2. CASE ring' = Pushed(batch)
      BY <3>2, Zenon DEF Pushed
    <3>3. QED
      BY <2>5, <3>1, <3>2
  <2>7. finder' = finder /\ width' = width /\ size' = size
    BY DEF Insert
  <2>8. latestLong' \in [Slots -> 0 .. Wrap - 1]
    BY <1>8, <2>2
  <2>9. latestShort' \in [Slots -> 0 .. Wrap - 1]
    BY <1>9, <2>4
  <2>10. ring' \in [Slots -> [entries : [0 .. width - 1 -> 0 .. Wrap - 1],
                              next : 0 .. width - 1]]
    BY <1>10, <2>6
  <2>11. QED
    BY <1>4, <1>5, <2>7, <2>8, <2>9, <2>10 DEF FinderTypeOK
<1>12. UNCHANGED <<size, input, out, finder, width, level, pos, lit, misses,
                   cand, regime, done>>
  BY DEF Insert
<1>13. TypeOK'
  BY <1>11, <1>12 DEF Inv, TypeOK, InputTypeOK
<1>14. TablesHeld'
  BY <1>4, <1>8, <1>9, <1>10, <1>12 DEF TablesHeld
<1>15. CursorsOK' /\ CandidateOK'
  BY <1>12 DEF Inv, CursorsOK, CandidateOK, AbstractParse!Covered, MatchEnd
<1>16. DeferredValid'
  BY <1>12 DEF Inv, DeferredValid, TrueMatch
<1>17. QED
  BY <1>4, <1>12, <1>13, <1>14, <1>15, <1>16 DEF Inv

----------------------------------------------------------------------------
(* Emitting goes on behind what is emitted, as Parse does. *)
LEMMA EmitKeeps ==
  ASSUME Inv, ~done, NEW m, Emittable(m), Emit(m)
  PROVE  /\ Inv'
         /\ pos' > pos \/ (pos' = pos /\ lit' > lit)
         /\ AbstractParse!Next
<1> DEFINE t == Extended(m)
<1>1. /\ out' = Append(out, t) /\ regime' = Voted(t.pos - lit)
      /\ lit' = EndOf(t) /\ pos' = Max({EndOf(t), pos})
      /\ misses' = 0 /\ cand' = NoMatch
      /\ UNCHANGED <<size, input, finder, width, tables, level, done>>
  BY Zenon DEF Emit
<1>2. /\ InputTypeOK /\ lit \in Nat /\ pos \in Nat /\ size \in Nat /\ lit <= pos
      /\ MatchEnd \in Nat /\ MatchEnd = size - MaxMatchLen
  BY SizeRange DEF Inv, TypeOK, CursorsOK, InputTypeOK
<1>3. /\ MinMatchLen \in Nat \ {0} /\ MaxMatchLen \in Nat
      /\ MinMatchLen .. MaxMatchLen \subseteq MatchLens
      /\ MinDistance \in Nat /\ MaxDistance \in Nat /\ Lag \in Nat
  BY Constants
<1>4. /\ t.pos \in Nat /\ t.len \in MinMatchLen .. MaxMatchLen
      /\ t.dis \in MinDistance .. MaxDistance
      /\ t = Match(t.pos, t.len, t.dis)
      /\ TrueMatch(t) /\ lit <= t.pos
      /\ EndOf(t) = m.pos + m.len
  BY <1>2, ExtendedValid
<1> HIDE DEF t
<1>5. EndOf(t) = t.pos + t.len /\ EndOf(t) <= MatchEnd
  BY <1>4 DEF EndOf, Emittable
<1>6. EndOf(t) \in Nat /\ lit < EndOf(t)
  BY <1>2, <1>3, <1>4, <1>5
<1>7. pos' = IF EndOf(t) >= pos THEN EndOf(t) ELSE pos
  <2>1. EndOf(t) \in Int /\ pos \in Int
    BY <1>2, <1>6
  <2>2. QED
    BY <1>1, <2>1, MaxOfTwo
<1>8. /\ pos' \in Nat /\ pos' >= pos /\ lit' <= pos'
      /\ lit' \in 0 .. size /\ lit' > lit /\ lit' <= MatchEnd
  BY <1>1, <1>2, <1>3, <1>5, <1>6, <1>7
<1>9. regime' \in 0 .. RegimeCap
  BY <1>1, VotedRange DEF Inv, TypeOK
<1>10. TypeOK'
  <2>1. InputTypeOK' /\ FinderTypeOK'
    BY <1>1 DEF Inv, TypeOK, InputTypeOK, FinderTypeOK, tables
  <2>2. QED
    BY <1>1, <1>2, <1>8, <1>9, <2>1 DEF Inv, TypeOK
<1>11. t \in [pos : Nat, len : Nat, dis : Nat]
  <2>1. t.len \in Nat /\ t.dis \in Nat
    BY <1>3, <1>4
  <2>2. QED
    BY <1>4, <2>1 DEF Match
<1>12. CursorsOK'
  <2>1. out \in Seq([pos : Nat, len : Nat, dis : Nat])
    BY DEF Inv, CursorsOK
  <2>2. /\ out' \in Seq([pos : Nat, len : Nat, dis : Nat])
        /\ out' # <<>> /\ out'[Len(out')] = t
    BY <1>1, <1>11, <2>1
  <2>3. AbstractParse!Covered' = lit'
    BY <1>1, <1>5, <2>2 DEF AbstractParse!Covered
  <2>4. MatchEnd' = MatchEnd
    BY <1>1 DEF MatchEnd
  <2>5. QED
    BY <1>1, <1>8, <2>2, <2>3, <2>4 DEF CursorsOK
<1>13. TablesHeld'
  <2>1. next \in Nat
    BY DEF Inv, TypeOK, FinderTypeOK, InputTypeOK
  <2>2. next = 0 \/ next + Lag <= pos'
    BY <1>2, <1>3, <1>8, <2>1 DEF Inv, TablesHeld
  <2>3. QED
    BY <1>1, <2>2 DEF Inv, TablesHeld, tables
<1>14. CandidateOK' /\ DeferredValid'
  BY <1>1 DEF CandidateOK, DeferredValid, NoMatch, Match
<1>15. AbstractParse!Next
  <2>1. AbstractParse!Emit(t)
    <3>1. AbstractParse!Covered = lit
      BY DEF Inv, CursorsOK
    <3>2. AbstractParse!TrueMatch(t) /\ AbstractParse!MatchEnd = MatchEnd
      BY <1>4 DEF AbstractParse!TrueMatch, TrueMatch, AbstractParse!MatchEnd, MatchEnd
    <3>3. t.len \in MatchLens
      BY <1>3, <1>4
    <3>4. t.pos + t.len <= MatchEnd
      BY <1>5
    <3>5. QED
      BY <1>1, <1>4, <3>1, <3>2, <3>3, <3>4 DEF AbstractParse!Emit
  <2>2. t.pos \in 0 .. size /\ t.len \in MatchLens
    BY <1>2, <1>3, <1>4, <1>5
  <2>3. AbstractParse!Match(t.pos, t.len, t.dis) = t
    BY <1>4 DEF AbstractParse!Match, Match
  <2>4. QED
    BY <1>4, <2>1, <2>2, <2>3 DEF AbstractParse!Next
<1>16. QED
  BY <1>1, <1>2, <1>6, <1>7, <1>8, <1>10, <1>12, <1>13, <1>14, <1>15 DEF Inv

----------------------------------------------------------------------------
(* What a probe finds, and what an accepted match is. *)
LEMMA FoundHere ==
  ASSUME Inv, Running
  PROVE  FoundAt(Found, pos)
<1>1. /\ pos \in Nat /\ Long \in Nat /\ MaxMatchLen \in Nat /\ Long <= MaxMatchLen
      /\ size \in Nat /\ MatchEnd = size - MaxMatchLen
      /\ InputTypeOK /\ FinderTypeOK /\ width \in Nat \ {0}
  BY Constants, LevelAssumption, SizeRange DEF Inv, TypeOK
<1>2. pos + Long <= size
  BY <1>1 DEF Running
<1>3. CASE pos > Lag
  BY <1>1, <1>2, <1>3, FindFound DEF Found
<1>4. CASE ~(pos > Lag)
  BY <1>4 DEF Found, FoundAt
<1>5. QED
  BY <1>3, <1>4

LEMMA FoundFits ==
  ASSUME Inv, Running, Found.len >= MinMatchLen
  PROVE  Emittable(Found) /\ Found.pos = pos /\ pos > Lag
<1>1. pos \in Nat /\ MinMatchLen \in Nat \ {0}
  BY Constants DEF Inv, TypeOK
<1>2. pos + MaxMatchLen <= MatchEnd
  BY DEF Running
<1>3. FoundAt(Found, pos)
  BY FoundHere
<1>4. Emittable(Found) /\ Found.pos = pos
  <2> DEFINE m == Found
  <2>1. FoundAt(m, pos) /\ m.len >= MinMatchLen /\ pos <= pos
    BY <1>1, <1>3
  <2> HIDE DEF m
  <2>2. Emittable(m) /\ m.pos = pos
    BY <1>1, <1>2, <2>1, FoundEmittable
  <2>3. QED
    BY <2>2 DEF m
<1>5. pos > Lag
  <2>1. NoMatch.len = 0
    BY DEF NoMatch, Match
  <2>2. CASE ~(pos > Lag)
    <3>1. Found = NoMatch
      BY <2>2, Zenon DEF Found
    <3>2. QED
      BY <1>1, <2>1, <3>1
  <2>3. QED
    BY <2>2
<1>6. QED
  BY <1>4, <1>5

(* A deferred match can be emitted when it fires. *)
LEMMA DeferredFits ==
  ASSUME Inv, Running, cand # NoMatch
  PROVE  Emittable(cand)
<1>1. /\ TrueMatch(cand) /\ cand.len \in MinMatchLen .. MaxMatchLen
      /\ lit <= cand.pos /\ cand.pos < pos /\ cand.pos \in Nat
  BY DEF Inv, DeferredValid, CandidateOK
<1>2. /\ pos \in Nat /\ MaxMatchLen \in Nat /\ MinMatchLen \in Nat
      /\ MatchEnd \in Nat /\ pos + MaxMatchLen <= MatchEnd
  BY Constants, SizeRange DEF Inv, TypeOK, Running
<1>3. QED
  BY <1>1, <1>2 DEF Emittable

(* Moving on leaves the rest valid. *)
LEMMA MoveKeeps ==
  ASSUME Inv, Running, Move,
         UNCHANGED <<size, input, out, finder, width, tables, level, lit, regime, done>>,
         cand' = cand \/ (cand' = Found /\ Found.len >= MinMatchLen)
  PROVE  Inv' /\ pos' > pos
<1>1. /\ pos \in Nat /\ misses \in Nat /\ misses <= pos
      /\ lit \in 0 .. size /\ lit <= pos /\ size \in Nat
      /\ MatchEnd = size - MaxMatchLen /\ pos + MaxMatchLen <= MatchEnd
  BY SizeRange DEF Inv, TypeOK, CursorsOK, Running, InputTypeOK
<1>2. /\ MinMatchLen \in Nat \ {0} /\ MaxMatchLen \in Nat \ {0} /\ Lag \in Nat
      /\ level.step \in Nat \ {0} /\ SkipAfter \in Nat \ {0}
  BY Constants, LevelAssumption DEF Inv, TypeOK
<1>3. pos' = pos + level.step + misses \div SkipAfter /\ misses' = misses + 1
  BY DEF Move
<1>4. misses \div SkipAfter \in Nat
  BY <1>1, <1>2
<1>5. pos' \in Nat /\ pos' > pos /\ misses' \in 0 .. size /\ misses' <= pos'
  <2> DEFINE skip == misses \div SkipAfter
  <2>1. skip \in Nat /\ pos' = pos + level.step + skip
    BY <1>3, <1>4
  <2> HIDE DEF skip
  <2>2. QED
    BY <1>1, <1>2, <1>3, <2>1
<1>6. TypeOK'
  <2>1. InputTypeOK' /\ FinderTypeOK'
    BY DEF Inv, TypeOK, InputTypeOK, FinderTypeOK, tables
  <2>2. QED
    BY <1>5, <2>1 DEF Inv, TypeOK
<1>7. CursorsOK'
  <2>1. MatchEnd' = MatchEnd /\ AbstractParse!Covered' = AbstractParse!Covered
    BY DEF MatchEnd, AbstractParse!Covered
  <2>2. lit <= pos'
    BY <1>1, <1>5
  <2>3. QED
    BY <1>5, <2>1, <2>2 DEF Inv, CursorsOK
<1>8. TablesHeld'
  <2>1. next \in Nat
    BY DEF Inv, TypeOK, FinderTypeOK, InputTypeOK
  <2>2. next = 0 \/ next + Lag <= pos'
    BY <1>1, <1>2, <1>5, <2>1 DEF Inv, TablesHeld
  <2>3. QED
    BY <2>2 DEF Inv, TablesHeld, tables
<1>9. CandidateOK' /\ DeferredValid'
  <2>1. CASE cand' = cand
    <3>1. cand # NoMatch => cand.pos \in Nat /\ cand.pos < pos'
      BY <1>1, <1>5 DEF Inv, CandidateOK, DeferredValid
    <3>2. QED
      BY <2>1, <3>1 DEF Inv, CandidateOK, DeferredValid, TrueMatch, NoMatch, Match
  <2>2. CASE cand' = Found /\ Found.len >= MinMatchLen
    <3> DEFINE m == Found
    <3>1. Emittable(m) /\ m.pos = pos /\ cand' = m
      BY <2>2, FoundFits
    <3> HIDE DEF m
    <3>2. m.pos < pos' /\ lit' <= m.pos /\ m.pos \in Nat
      BY <1>1, <1>5, <3>1
    <3>3. TrueMatch(m) /\ m.len \in MinMatchLen .. MaxMatchLen
      BY <3>1 DEF Emittable
    <3>4. TrueMatch(cand)'
      BY <3>1, <3>3 DEF TrueMatch
    <3>5. QED
      BY <3>1, <3>2, <3>3, <3>4 DEF CandidateOK, DeferredValid
  <2>3. QED
    BY <2>1, <2>2
<1>10. QED
  BY <1>5, <1>6, <1>7, <1>8, <1>9 DEF Inv

----------------------------------------------------------------------------
(* What a step does: it keeps the invariant, makes progress, and is a step *)
(* of Parse or leaves its variables alone.                                 *)
Advances ==
  \/ done'
  \/ next' > next /\ pos' = pos
  \/ pos' > pos
  \/ pos' = pos /\ lit' > lit

LEMMA ProbeKeeps ==
  ASSUME Inv, Probe
  PROVE  /\ Inv' /\ Advances
         /\ AbstractParse!Next \/ UNCHANGED <<size, input, out, done>>
<1>1. Running /\ ~done
  BY DEF Probe, Running
<1>2. /\ MinMatchLen \in Nat \ {0} /\ MaxMatchLen \in Nat
      /\ AcceptLen \in Nat /\ AcceptLen >= MinMatchLen
  <2>1. /\ level.accept \in Nat /\ level.heavyAccept \in Nat
        /\ MinMatchLen <= level.accept /\ MinMatchLen <= level.heavyAccept
    BY LevelAssumption DEF Inv, TypeOK
  <2>2. QED
    BY Constants, <2>1 DEF AcceptLen
<1>3. Found.len \in 0 .. MaxMatchLen
  <2>1. NoMatch.len = 0
    BY DEF NoMatch, Match
  <2>2. FoundAt(Found, pos)
    BY <1>1, FoundHere
  <2> DEFINE m == Found
  <2>3. FoundAt(m, pos)
    BY <2>2
  <2> HIDE DEF m
  <2>4. m.len \in 0 .. MaxMatchLen
    BY <1>2, <2>1, <2>3 DEF FoundAt
  <2>5. QED
    BY <2>4 DEF m
<1>4. ASSUME NEW m, Emittable(m), Emit(m)
      PROVE  Inv' /\ Advances /\ AbstractParse!Next
  BY <1>1, <1>4, EmitKeeps DEF Advances
<1>5. CASE Accept(Found)
  <2> DEFINE m == IF level.lookahead THEN Lookahead(Found) ELSE Found
  <2>1. Emit(m)
    BY <1>5, Zenon DEF Accept
  <2>2. Found.len >= MinMatchLen
    <3>1. Found.len >= AcceptLen
      BY <1>5, Zenon DEF Accept
    <3> DEFINE n == Found.len
    <3>2. n \in 0 .. MaxMatchLen /\ n >= AcceptLen
      BY <1>3, <3>1
    <3> HIDE DEF n
    <3>3. n >= MinMatchLen
      BY <1>2, <3>2
    <3>4. QED
      BY <3>3 DEF n
  <2>3. Emittable(Found) /\ pos > Lag
    BY <1>1, <2>2, FoundFits
  <2>4. Emittable(Lookahead(Found))
    BY <2>3, LookaheadEmittable
  <2>5. Emittable(m)
    BY <2>3, <2>4, Zenon
  <2> HIDE DEF m
  <2>6. QED
    BY <1>4, <2>1, <2>5
<1>6. CASE FireDeferred(Found)
  <2>1. cand # NoMatch /\ Emit(cand)
    BY <1>6, Zenon DEF FireDeferred, PrefersDeferred
  <2>2. QED
    BY <1>1, <1>4, <2>1, DeferredFits
<1>7. CASE FireFound(Found)
  <2>1. Found.len >= MinMatchLen /\ Emit(Found)
    <3>1. Emit(Found) /\ Found.len \in MinMatchLen .. AcceptLen - 1
      BY <1>7, Zenon DEF FireFound
    <3> DEFINE n == Found.len
    <3>2. n \in MinMatchLen .. AcceptLen - 1
      BY <3>1
    <3> HIDE DEF n
    <3>3. n >= MinMatchLen
      BY <1>2, <3>2
    <3>4. QED
      BY <3>1, <3>3 DEF n
  <2>2. Emittable(Found)
    BY <1>1, <2>1, FoundFits
  <2>3. QED
    BY <1>4, <2>1, <2>2
<1>8. CASE Defer(Found)
  <2>1. /\ Move /\ cand' = Found
        /\ Found.len \in MinMatchLen .. AcceptLen - 1
        /\ UNCHANGED <<size, input, out, finder, width, tables, level, lit, regime, done>>
    BY <1>8, Zenon DEF Defer
  <2>2. Found.len >= MinMatchLen
    <3> DEFINE n == Found.len
    <3>1. n \in MinMatchLen .. AcceptLen - 1
      BY <2>1
    <3> HIDE DEF n
    <3>2. n >= MinMatchLen
      BY <1>2, <3>1
    <3>3. QED
      BY <3>2 DEF n
  <2>3. Inv' /\ pos' > pos
    BY <1>1, <2>1, <2>2, MoveKeeps
  <2>4. QED
    BY <2>1, <2>3 DEF Advances
<1>9. CASE Miss(Found)
  <2>1. /\ Move /\ cand' = cand
        /\ UNCHANGED <<size, input, out, finder, width, tables, level, lit, regime, done>>
    BY <1>9, Zenon DEF Miss
  <2>2. Inv' /\ pos' > pos
    BY <1>1, <2>1, MoveKeeps
  <2>3. QED
    BY <2>1, <2>2 DEF Advances
<1>10. \/ Accept(Found) \/ FireDeferred(Found) \/ FireFound(Found)
       \/ Defer(Found) \/ Miss(Found)
  BY Zenon DEF Probe
<1>11. QED
  BY <1>5, <1>6, <1>7, <1>8, <1>9, <1>10

LEMMA StepKeeps ==
  ASSUME Inv, [Next]_vars
  PROVE  /\ Inv'
         /\ Advances \/ UNCHANGED vars
         /\ AbstractParse!Next \/ UNCHANGED <<size, input, out, done>>
<1>1. CASE Insert
  <2>1. Inv' /\ next' > next /\ pos' = pos
    BY <1>1, InsertKeeps
  <2>2. UNCHANGED <<size, input, out, done>>
    BY <1>1 DEF Insert
  <2>3. QED
    BY <2>1, <2>2 DEF Advances
<1>2. CASE Probe
  BY <1>2, ProbeKeeps
<1>3. CASE Finish
  <2>1. /\ ~done /\ done'
        /\ UNCHANGED <<size, input, out, finder, width, tables, level, pos, lit,
                       misses, cand, regime>>
    BY <1>3, Zenon DEF Finish
  <2>2. TypeOK'
    BY <2>1 DEF Inv, TypeOK, InputTypeOK, FinderTypeOK, tables
  <2>3. CursorsOK'
    BY <2>1 DEF Inv, CursorsOK, AbstractParse!Covered, MatchEnd
  <2>4. TablesHeld'
    BY <2>1 DEF Inv, TablesHeld, tables
  <2>5. CandidateOK' /\ DeferredValid'
    BY <2>1 DEF Inv, CandidateOK, DeferredValid, TrueMatch
  <2>6. done' = TRUE
    BY <1>3 DEF Finish
  <2>7. AbstractParse!Next
    BY <2>1, <2>6 DEF AbstractParse!Next, AbstractParse!Finish
  <2>8. QED
    BY <2>1, <2>2, <2>3, <2>4, <2>5, <2>7 DEF Inv, Advances
<1>4. CASE UNCHANGED vars
  <2>1. UNCHANGED <<size, input, out, finder, width, tables, level, pos, lit,
                    misses, cand, regime, done>>
    BY <1>4 DEF vars, tables
  <2>2. TypeOK'
    BY <2>1 DEF Inv, TypeOK, InputTypeOK, FinderTypeOK, tables
  <2>3. CursorsOK'
    BY <2>1 DEF Inv, CursorsOK, AbstractParse!Covered, MatchEnd
  <2>4. TablesHeld'
    BY <2>1 DEF Inv, TablesHeld, tables
  <2>5. CandidateOK' /\ DeferredValid'
    BY <2>1 DEF Inv, CandidateOK, DeferredValid, TrueMatch
  <2>6. QED
    BY <1>4, <2>1, <2>2, <2>3, <2>4, <2>5 DEF Inv
<1>5. QED
  BY <1>1, <1>2, <1>3, <1>4 DEF Next, Returned

LEMMA InitInv ==
  ASSUME Init
  PROVE  Inv
<1>1. /\ InputTypeOK /\ out = <<>> /\ level \in Levels /\ finder = level.finder
      /\ width = level.width /\ TablesInit /\ pos = 0 /\ lit = 0 /\ misses = 0
      /\ cand = NoMatch /\ regime = 0 /\ done = FALSE
  BY DEF Init, InputInit, InputTypeOK
<1>2. size \in Nat /\ MatchEnd \in Nat
  BY <1>1, SizeRange
<1>3. /\ Wrap \in Nat \ {0} /\ width \in Nat \ {0} /\ RegimeCap \in Nat
      /\ finder \in {"latest", "swift", "ring"}
  BY <1>1, Constants, LevelAssumption
<1>4. FinderTypeOK
  <2>1. 0 \in 0 .. Wrap - 1 /\ 0 \in 0 .. width - 1 /\ 0 \in 0 .. size
    BY <1>2, <1>3
  <2>2. EmptyBucket \in [entries : [0 .. width - 1 -> 0 .. Wrap - 1],
                         next : 0 .. width - 1]
    BY <2>1 DEF EmptyBucket
  <2>3. /\ latestLong = [h \in Slots |-> 0]
        /\ latestShort = [h \in Slots |-> 0]
        /\ ring = [h \in Slots |-> EmptyBucket]
        /\ next = 0
    BY <1>1 DEF TablesInit
  <2>4. finder \in {"latest", "swift", "ring"}
    BY <1>1, <1>3
  <2>5. latestLong \in [Slots -> 0 .. Wrap - 1] /\ latestShort \in [Slots -> 0 .. Wrap - 1]
    BY <2>1, <2>3
  <2>6. ring \in [Slots -> [entries : [0 .. width - 1 -> 0 .. Wrap - 1],
                           next : 0 .. width - 1]]
    BY <2>2, <2>3, Zenon
  <2>7. next \in 0 .. size
    BY <2>1, <2>3
  <2>8. QED
    BY <2>4, <2>5, <2>6, <2>7, Zenon DEF FinderTypeOK
<1>5. TypeOK
  <2>1. /\ 0 \in Nat /\ 0 \in 0 .. size /\ 0 \in 0 .. RegimeCap
        /\ FALSE \in BOOLEAN
    BY <1>2, <1>3
  <2>2. /\ pos \in Nat /\ lit \in 0 .. size /\ misses \in 0 .. size
        /\ regime \in 0 .. RegimeCap /\ done \in BOOLEAN
    BY <1>1, <2>1, Zenon
  <2>3. QED
    BY <1>1, <1>4, <2>1, <2>2, Zenon DEF TypeOK
<1>6. CursorsOK
  BY <1>1, <1>2 DEF CursorsOK, AbstractParse!Covered
<1>7. Held(0, next)
  <2>1. 0 % Wrap = 0
    BY <1>3
  <2>2. QED
    BY <2>1 DEF Held
<1>8. TablesHeld
  BY <1>1, <1>7 DEF TablesHeld, TablesInit, EmptyBucket
<1>9. QED
  BY <1>1, <1>5, <1>6, <1>8 DEF Inv, CandidateOK, DeferredValid

----------------------------------------------------------------------------
(* The invariant holds throughout a run of any greedy level. *)
THEOREM Invariance == Spec => []Inv
<1>1. Inv /\ [Next]_vars => Inv'
  BY StepKeeps
<1>2. QED
  BY <1>1, InitInv, PTL DEF Spec

(* The tables and cursors of matchers.rs and greedy.rs stay in their       *)
(* ranges: entries fit 16 bits, the pending literals start in the input.   *)
THEOREM TypeCorrect == Spec => []TypeOK
<1>1. Inv => TypeOK
  BY DEF Inv
<1>2. QED
  BY <1>1, Invariance, PTL

(* The deferred match of greedy.rs is still true and still lies in the     *)
(* pending literals whenever it may fire.                                  *)
THEOREM DeferredUsable == Spec => []DeferredValid
<1>1. Inv => DeferredValid
  BY DEF Inv
<1>2. QED
  BY <1>1, Invariance, PTL

(* Probe::candidate never turns an entry into a position before the input, *)
(* whatever is in the tables, as its unchecked read needs.                 *)
THEOREM CandidatesInside == Spec => []CandidatesExist
<1>1. ASSUME Inv, Running, ~Due(pos),
             NEW at \in pos .. Min({pos + 2, MatchEnd - MaxMatchLen}), at > Lag,
             NEW entry \in Entries(at)
      PROVE  Candidate(at, entry) # None
  <2>1. /\ pos \in Nat /\ Lag \in Nat /\ MinDistance = Lag + 1 /\ Long \in Nat
        /\ MaxMatchLen \in Nat /\ Long <= MaxMatchLen
        /\ size \in Nat /\ MatchEnd \in Nat /\ MatchEnd = size - MaxMatchLen
    BY <1>1, Constants, SizeRange DEF Inv, TypeOK
  <2>2. Min({pos + 2, MatchEnd - MaxMatchLen}) \in Int
        /\ Min({pos + 2, MatchEnd - MaxMatchLen}) <= MatchEnd - MaxMatchLen
    <3>1. pos + 2 \in Int /\ MatchEnd - MaxMatchLen \in Int
      BY <2>1
    <3>2. QED
      BY <3>1, MinOfTwo
  <2>3. at \in Nat /\ pos <= at /\ at + MaxMatchLen <= MatchEnd
    BY <2>1, <2>2
  <2>4. at + Long <= size
    BY <2>1, <2>3
  <2>5. LongSlot(at) \in Slots /\ ShortSlot(at) \in Slots
    BY <1>1, <2>3, <2>4, SlotRange DEF Inv, TypeOK
  <2>6. Held(entry, next)
    <3> DEFINE long == latestLong[LongSlot(at)]
               short == latestShort[ShortSlot(at)]
               bucket == ring[ShortSlot(at)].entries
    <3>1. /\ Held(long, next) /\ Held(short, next)
          /\ \A k \in 0 .. width - 1 : Held(bucket[k], next)
      BY <1>1, <2>5 DEF Inv, TablesHeld
    <3>2. finder \in {"latest", "swift", "ring"}
      BY <1>1 DEF Inv, TypeOK, FinderTypeOK
    <3>3. Entries(at) \in {{long}, {long, short}, {bucket[k] : k \in 0 .. width - 1}}
      BY <3>2 DEF Entries
    <3> HIDE DEF long, short, bucket
    <3>4. QED
      BY <1>1, <3>1, <3>3
  <2>7. PICK q \in Nat : entry = q % Wrap /\ (q = 0 \/ q < next)
    BY <2>6 DEF Held
  <2>8. q + MinDistance <= at
    <3>1. next \in Nat /\ (next = 0 \/ next + Lag <= pos)
      BY <1>1 DEF Inv, TypeOK, FinderTypeOK, TablesHeld, InputTypeOK
    <3>2. QED
      BY <1>1, <2>1, <2>3, <2>7, <3>1
  <2>9. QED
    BY <2>3, <2>7, <2>8, CandidateIsThere
<1>2. Inv => CandidatesExist
  BY <1>1 DEF CandidatesExist
<1>3. QED
  BY <1>2, Invariance, PTL

(* Every round of the loop in greedy.rs gets further; none goes back.      *)
THEOREM AlwaysForward == Spec => Progress
<1>1. Inv /\ [Next]_vars => [Advances]_vars
  BY StepKeeps
<1>2. Spec => [][Advances]_vars
  BY <1>1, Invariance, PTL DEF Spec
<1>3. QED
  BY <1>2 DEF Progress, Advances

(* The matches every greedy level emits are what Parse promises the stream *)
(* writer: true, in order, encodable, before the raw suffix.               *)
THEOREM Implements == Spec => ImplementsParse
<1>1. Init => AbstractParse!Init
  BY DEF Init, AbstractParse!Init, InputInit, AbstractParse!InputInit
<1>2. Inv /\ [Next]_vars => [AbstractParse!Next]_(AbstractParse!parseVars)
  BY StepKeeps DEF AbstractParse!parseVars
<1>3. Spec => AbstractParse!Spec
  BY <1>1, <1>2, Invariance, PTL DEF Spec, AbstractParse!Spec
<1>4. QED
  BY <1>3 DEF ImplementsParse
=============================================================================
