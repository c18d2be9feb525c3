--------------------------- MODULE MCOptimalParse ---------------------------
(***************************************************************************)
(* OptimalParse on every input of a few bytes, in two blocks.  Words of    *)
(* two bits give the segments, up to eleven suffixes, three summary words. *)
(* LiveSet is also compared with plain sets, on all sets of ten ranks.     *)
(***************************************************************************)
EXTENDS OptimalParse, MCSuffixSort

ASSUME LengthAssumption == LengthConstraints

Ranks == 0 .. 9
Whole(S) == LiveSet(S, Summary(S), Summary(Summary(S)))
Highest(S) == IF S = {} THEN NoRank ELSE Max(S)
Lowest(S) == IF S = {} THEN NoRank ELSE Min(S)

\* set, clear, prev and next are those of a set of ranks.
ASSUME LiveSetIsASet ==
  \A S \in SUBSET Ranks : \A r \in Ranks :
    /\ Insert(Whole(S), r) = Whole(S \cup {r})
    /\ Remove(Whole(S), r) = Whole(S \ {r})
    /\ Below(Whole(S), r) = Highest({i \in S : i < r})
    /\ Above(Whole(S), r) = Lowest({i \in S : i > r})
=============================================================================
