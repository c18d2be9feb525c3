----------------------------- MODULE HeavyFormat -----------------------------
(***************************************************************************)
(* The constants of the heavy decoder (crates/decode/src/heavy.rs) and the *)
(* conditions its compile-time assertions put on them.  A match length of  *)
(* 0 is the one invalid length code.                                       *)
(***************************************************************************)
EXTENDS TokenFormat

CONSTANTS
  Chunk,          \* bytes of one copy
  Group,          \* tokens of a full group
  TokenMatchMax,  \* longest match of a token, by the type of its length
  MatchRoom,      \* output a match may touch, in whole chunks
  StartWin,       \* output of the window over the output start
  MinDistance, MaxDistance

\* Longer runs have an extension.
InlineLitMax == TokenLitMax - 1

TokenRoom == InlineLitMax + MatchRoom

GroupLits == Group * InlineLitMax

CtlWin == Group * TokenLen

LitWin == GroupLits + 2 * Chunk

GroupSrc == CtlWin + GroupLits

TokenOutMax == InlineLitMax + TokenMatchMax

GroupOut == (Group - 1) * TokenOutMax + TokenRoom

MainWin == MaxDistance + GroupOut

LongLiterals == 2 * Chunk

(* n bytes in whole chunks. *)
Chunks(n) == ((n + Chunk - 1) \div Chunk) * Chunk

HeavyConstraints ==
  /\ {Chunk, Group, TokenMatchMax, MinDistance, TokenLitMax} \subseteq Nat \ {0}
  /\ {MaxDistance, MatchRoom, StartWin} \subseteq Nat
  /\ MinDistance > Chunk
  /\ MinSuffix >= 2 * Chunk
  /\ InlineLitMax <= 2 * Chunk
  /\ MatchLens \subseteq 0 .. TokenMatchMax
  /\ Distances \subseteq MinDistance .. MaxDistance
  /\ MatchRoom >= TokenMatchMax
  \* The two chunks of an unconditional copy, and every whole chunk.
  /\ MatchRoom >= 2 * Chunk
  /\ \A m \in MatchLens : Chunks(m) <= MatchRoom
  /\ StartWin >= GroupOut

ASSUME HeavyAssumption == HeavyConstraints
=============================================================================
