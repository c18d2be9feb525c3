----------------------------- MODULE LightFormat -----------------------------
(***************************************************************************)
(* The constants of the light decoder (crates/decode/src/light.rs) and the *)
(* conditions its compile-time assertions put on them.  The group decoder  *)
(* has no bounds checks of its own in its array windows: everything it     *)
(* relies on is arithmetic on these constants.                             *)
(***************************************************************************)
EXTENDS TokenFormat

CONSTANTS
  Chunk,          \* bytes of one copy
  Group,          \* tokens of a full group
  TokenMatchMax,  \* longest match of a token
  MinDistance, MaxDistance

\* The literals of a group token fit one chunk.
GroupLitMax == Chunk

TokenOutMax == GroupLitMax + TokenMatchMax

GroupLits == Group * GroupLitMax

\* A header with one extension byte per token.
CtlWin == Group * (TokenLen + 1)

LitWin == GroupLits + Chunk

GroupSrc == CtlWin + GroupLits

GroupOut == Group * TokenOutMax

OutWin == MaxDistance + (Group - 1) * TokenOutMax + GroupLitMax + Chunk

(* copy_literals copies a run in one piece when it is longer than this.    *)
LongLiterals == 2 * Chunk

LightConstraints ==
  /\ {Chunk, Group, TokenMatchMax, MinDistance} \subseteq Nat \ {0}
  /\ MaxDistance \in Nat
  /\ MinDistance > Chunk
  /\ MinSuffix >= Chunk
  /\ MatchLens \subseteq 1 .. TokenMatchMax
  /\ Distances \subseteq MinDistance .. MaxDistance
  \* A run with two extension bytes is too long for a group.
  /\ GroupLitMax < TokenLitMax + ExtMax

ASSUME LightAssumption == LightConstraints
=============================================================================
