---------------------------- MODULE OptimalParse ----------------------------
(***************************************************************************)
(* Light level 3 (crates/encode/src/light/optimal.rs): the matches of the  *)
(* suffix-array finder, block by block, and a lazy parse that skips a      *)
(* match when the next position has a longer one.  Literals stay pending   *)
(* across a block boundary.                                                *)
(***************************************************************************)
EXTENDS SaFinder

\* A light token encodes every length the finder returns.
LengthConstraints == MinMatchLen .. MaxMatchLen \subseteq MatchLens

VARIABLES
  pos,  \* cursor of the parse
  lit   \* start of the pending literals

vars == <<size, input, out, pc, start, finderVars, pos, lit>>

TypeOK ==
  /\ InputTypeOK
  /\ FinderTypeOK
  /\ pc \in {"block", "scan", "parse", "done"}
  /\ {pos, lit} \subseteq 0 .. size
  /\ pc \in {"block", "done"} => lit <= start

Init ==
  /\ InputInit
  /\ FinderInit
  /\ pos = 0
  /\ lit = 0

(* compress hands a block to the finder, and then to the parse. *)
Search ==
  /\ Find
  /\ pos' = IF pc' = "parse" THEN start ELSE pos
  /\ UNCHANGED lit

LenAt(p) == maxLen[p - start]

Skips ==
  \/ LenAt(pos) < MinMatchLen
  \/ pos + 1 < HardEnd /\ LenAt(pos + 1) > LenAt(pos)

Skip ==
  /\ pc = "parse"
  /\ pos < HardEnd
  /\ Skips
  /\ pos' = pos + 1
  /\ UNCHANGED <<size, input, out, pc, start, finderVars, lit>>

\* Mutant: the parse goes on behind the next byte.
BugEmit ==
  /\ pc = "parse"
  /\ pos < HardEnd
  /\ ~Skips
  /\ out' = Append(out, Match(pos, LenAt(pos), matchDis[pos - start]))
  /\ pos' = pos + 1
  /\ lit' = pos + LenAt(pos)
  /\ UNCHANGED <<size, input, pc, start, finderVars>>

Emit ==
  /\ pc = "parse"
  /\ pos < HardEnd
  /\ ~Skips
  /\ out' = Append(out, Match(pos, LenAt(pos), matchDis[pos - start]))
  /\ pos' = pos + LenAt(pos)
  /\ lit' = pos'
  /\ UNCHANGED <<size, input, pc, start, finderVars>>

EndBlock ==
  /\ pc = "parse"
  /\ pos >= HardEnd
  /\ pc' = "block"
  /\ start' = start + BlockSize
  /\ UNCHANGED <<size, input, out, finderVars, pos, lit>>

(* finish: the stream writer takes the literals from lit on. *)
Finish ==
  /\ pc = "block"
  /\ start >= size
  /\ pc' = "done"
  /\ UNCHANGED <<size, input, out, start, finderVars, pos, lit>>

Returned == pc = "done" /\ UNCHANGED vars

Next == Search \/ Skip \/ Emit \/ EndBlock \/ Finish \/ Returned

Spec == Init /\ [][Next]_vars
=============================================================================
