------------------------------ MODULE SaFinder ------------------------------
(***************************************************************************)
(* The suffix-array match finder of levels 3 and 4                         *)
(* (crates/encode/src/sa.rs): for each position of a block, its longest    *)
(* match among the positions in the distance window.  The window slides    *)
(* over the ranks of the sorted suffixes, and the longest match is with a  *)
(* neighbor of the position's rank.  A match at the length limit is        *)
(* carried to the positions behind it without another search.              *)
(*                                                                         *)
(* The finder works on the blocks of compress (light/optimal.rs and        *)
(* heavy/mod.rs); the modules that extend it parse each block.  Its        *)
(* buffers outlive a block and a call.  The suffix sorter is external:     *)
(* Sort stands for its result.                                             *)
(***************************************************************************)
EXTENDS ParseFormat, LiveSet

CONSTANTS
  BlockSize,
  MaxMatchLen,
  ExtendLimit,   \* bytes measured past a match at the length limit
  PadLen,        \* input past the block that is sorted with it
  Sort(_, _, _)  \* the suffix array of input f from lo to hi - 1

FinderConstraints ==
  /\ {BlockSize, MaxMatchLen} \subseteq Nat \ {0}
  /\ {ExtendLimit, PadLen} \subseteq Nat
  /\ MinMatchLen <= MaxMatchLen

SegStart(start) == Max({0, start - MaxDistance})

(* suffix_array_with_rank: sa is a permutation of the offsets of a segment *)
(* that puts its suffixes in order, a prefix before what it begins.        *)
Sorts(sa, f, lo, hi) ==
  LET n == hi - lo
      Same(a, b, k) == \A i \in 0 .. k - 1 : f[lo + a + i] = f[lo + b + i]
      Before(a, b) ==
        \E k \in 0 .. n - Max({a, b}) :
          /\ Same(a, b, k)
          /\ \/ a + k = n
             \/ b + k < n /\ a + k < n /\ f[lo + a + k] < f[lo + b + k]
  IN  /\ sa \in [0 .. n - 1 -> 0 .. n - 1]
      /\ \A a \in 0 .. n - 1 : \E r \in 0 .. n - 1 : sa[r] = a
      /\ \A r, q \in 0 .. n - 1 : sa[r] = sa[q] => r = q
      /\ \A r \in 0 .. n - 2 : Before(sa[r], sa[r + 1])

SegEnd(n, start) == Min({n, start + BlockSize + PadLen})

ASSUME FinderAssumption ==
  /\ FinderConstraints
  /\ \A n \in Sizes : \A f \in [0 .. n - 1 -> Bytes] :
       \A k \in 0 .. (n - 1) \div BlockSize :
         LET lo == SegStart(k * BlockSize)
             hi == SegEnd(n, k * BlockSize)
         IN  Sorts(Sort(f, lo, hi), f, lo, hi)

VARIABLES
  pc,        \* "block", "scan", "parse", ..., "done"
  start,     \* the block
  sa, rank,  \* suffix array of the segment, and its inverse
  live,      \* ranks of the positions in the window
  at,        \* position to scan
  carry,     \* the match that goes on at the position: len bytes at dis
  maxLen,    \* longest match per block position, 0 for none
  matchDis   \* distance of that match

finderVars == <<sa, rank, live, at, carry, maxLen, matchDis>>

End == Min({start + BlockSize, size})
HardEnd == Min({End, MatchEnd})

FinderTypeOK ==
  /\ start \in Nat /\ at \in Nat
  /\ live.l0 \subseteq DOMAIN sa
  /\ carry \in [len : Nat, dis : 0 .. MaxDistance]
  /\ DOMAIN maxLen = DOMAIN matchDis
  /\ \A i \in DOMAIN maxLen :
       maxLen[i] \in {0} \cup (MinMatchLen .. MaxMatchLen)

EmptySet == LiveSet({}, {}, {})

NoCarry == [len |-> 0, dis |-> 0]

(* The first call of a thread, or a later one: what is left in the buffers *)
(* comes from another input.                                               *)
FinderInit ==
  /\ pc = "block"
  /\ start = 0
  /\ sa = <<>> /\ rank = <<>>
  /\ live = EmptySet
  /\ at = 0
  /\ carry = NoCarry
  /\ \/ maxLen = <<>> /\ matchDis = <<>>
     \/ /\ maxLen = [i \in 0 .. BlockSize - 1 |-> MaxMatchLen]
        /\ matchDis = [i \in 0 .. BlockSize - 1 |-> MinDistance]

----------------------------------------------------------------------------
\* A buffer after resize: what it held stays.
Resized(f, n) == [i \in 0 .. n - 1 |-> IF i \in DOMAIN f THEN f[i] ELSE 0]

(* The number of offsets of the segment that are in the window of start. *)
LiveEnd ==
  LET end == start + 1 - MinDistance
      seg == SegStart(start)
  IN  IF end > seg THEN end - seg ELSE 0

(* find_block, up to the scan. *)
FindBlock ==
  /\ pc = "block"
  /\ start < size
  /\ pc' = "scan"
  /\ sa' = Sort(input, SegStart(start), SegEnd(size, start))
  /\ rank' = [a \in DOMAIN sa' |-> CHOOSE r \in DOMAIN sa' : sa'[r] = a]
  /\ maxLen' = Resized(maxLen, End - start)
  /\ matchDis' = Resized(matchDis, End - start)
  /\ live' = Build(sa', LiveEnd)
  /\ at' = start
  /\ carry' = NoCarry
  /\ UNCHANGED <<size, input, out, start>>

RankOf(pos) == rank[pos - SegStart(start)]

\* Mutant: a position leaves the window one step early.
BugSlid ==
  LET seg == SegStart(start)
      entered == IF at >= Max({start, seg + MinDistance})
                 THEN Insert(live, RankOf(at - MinDistance)) ELSE live
  IN  IF at >= Max({start, seg + MaxDistance})
      THEN Remove(entered, RankOf(at - MaxDistance)) ELSE entered

(* The window slides to the position: one suffix enters, one leaves. *)
Slid ==
  LET seg == SegStart(start)
      entered == IF at >= Max({start, seg + MinDistance})
                 THEN Insert(live, RankOf(at - MinDistance)) ELSE live
  IN  IF at >= Max({start, seg + MaxDistance + 1})
      THEN Remove(entered, RankOf(at - MaxDistance - 1)) ELSE entered

Limit == Min({MaxMatchLen, HardEnd - at})

(* neighbors: the longer match with the live suffixes next to the rank of  *)
(* the position, the lower of equals.                                      *)
Neighbor(set) ==
  LET Candidate(r) ==
        IF r = NoRank THEN [len |-> 0, dis |-> 0]
        ELSE LET pos == SegStart(start) + sa[r] IN
               [len |-> Lcp(at, pos, Limit), dis |-> at - pos]
      below == Candidate(Below(set, RankOf(at)))
      above == Candidate(Above(set, RankOf(at)))
  IN  IF above.len > below.len THEN above ELSE below

Scanning == pc = "scan" /\ at < End

\* One turn of the loop of scan: i is the index of the position.
Scanned(i, len) ==
  /\ live' = Slid
  /\ maxLen' = [maxLen EXCEPT ![i] = len]
  /\ at' = at + 1
  /\ UNCHANGED <<size, input, out, pc, start, sa, rank>>

(* Too close to the end of the matches. *)
ScanTail ==
  /\ Scanning
  /\ at + MinMatchLen > HardEnd
  /\ Scanned(at - start, 0)
  /\ UNCHANGED <<carry, matchDis>>

InReach == Scanning /\ at + MinMatchLen <= HardEnd

\* Mutant: the carried match does not get shorter.
BugScanCarried ==
  /\ InReach
  /\ carry.len >= Limit
  /\ Scanned(at - start, Limit)
  /\ matchDis' = [matchDis EXCEPT ![at - start] = carry.dis]
  /\ UNCHANGED carry

(* The carried match fills the limit: no search. *)
ScanCarried ==
  /\ InReach
  /\ carry.len >= Limit
  /\ Scanned(at - start, Limit)
  /\ matchDis' = [matchDis EXCEPT ![at - start] = carry.dis]
  /\ carry' = [carry EXCEPT !.len = @ - 1]

\* Mutant: the length left of the carried match goes below zero.
BugScanNone ==
  /\ InReach
  /\ carry.len < Limit
  /\ Neighbor(Slid).len < MinMatchLen
  /\ Scanned(at - start, 0)
  /\ carry' = [carry EXCEPT !.len = @ - 1]
  /\ UNCHANGED matchDis

(* No neighbor has a match: what was carried gets shorter. *)
ScanNone ==
  /\ InReach
  /\ carry.len < Limit
  /\ Neighbor(Slid).len < MinMatchLen
  /\ Scanned(at - start, 0)
  /\ carry' = [carry EXCEPT !.len = Max({0, @ - 1})]
  /\ UNCHANGED matchDis

\* Bytes the match at the limit goes on for.
Beyond(dis) ==
  LET from == at + Limit
  IN  Lcp(from, from - dis, Min({size - from, ExtendLimit}))

(* The longer neighbor's match, measured further if it fills the limit. *)
ScanFound ==
  /\ InReach
  /\ carry.len < Limit
  /\ \E best \in {Neighbor(Slid)} :
       /\ best.len >= MinMatchLen
       /\ Scanned(at - start, best.len)
       /\ matchDis' = [matchDis EXCEPT ![at - start] = best.dis]
       /\ carry' = [len |-> best.len - 1 +
                              (IF best.len >= Limit THEN Beyond(best.dis) ELSE 0),
                    dis |-> best.dis]

ScanEnd ==
  /\ pc = "scan"
  /\ at = End
  /\ pc' = "parse"
  /\ UNCHANGED <<size, input, out, start, finderVars>>

Find == FindBlock \/ ScanTail \/ ScanCarried \/ ScanNone \/ ScanFound \/ ScanEnd

----------------------------------------------------------------------------
\* Positions of the segment a match at pos may start from.
Window(pos) == {p \in SegStart(start) .. pos - MinDistance : pos - p <= MaxDistance}

(* After any sequence of set and clear the live ranks are those of the     *)
(* distance window of the last position scanned, across block boundaries,  *)
(* and the summary levels agree with them.                                 *)
LiveWindow ==
  pc = "scan" =>
    /\ live.l0 = {RankOf(p) : p \in Window(Max({start, at - 1}))}
    /\ Consistent(live)

Longest(pos) ==
  LET limit == Min({MaxMatchLen, HardEnd - pos})
      window == {p \in 0 .. pos - MinDistance : pos - p <= MaxDistance}
  IN  Max({0} \cup {Lcp(pos, p, limit) : p \in window})

(* The finder finds the longest match of each position, found or carried,  *)
(* with a distance at which it is one, though only the two neighbors in    *)
(* rank are compared and nothing is compared for a carried match.          *)
LongestMatch ==
  pc \in {"scan", "parse"} =>
    \A pos \in start .. at - 1 :
      LET len == maxLen[pos - start] IN
        /\ len = IF pos + MinMatchLen > HardEnd \/ Longest(pos) < MinMatchLen
                 THEN 0 ELSE Longest(pos)
        /\ len > 0 => TrueMatch(Match(pos, len, matchDis[pos - start]))

(* The matches of all blocks are what a parser promises, whichever parser  *)
(* chooses them.                                                           *)
AbstractParse == INSTANCE Parse WITH done <- pc = "done"
ImplementsParse == AbstractParse!Spec
=============================================================================
