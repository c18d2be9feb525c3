--------------------------- MODULE MCLightDecoder ---------------------------
(***************************************************************************)
(* LightDecoder on a scaled format: chunks of 2 bytes, groups of 2 tokens, *)
(* distances 3 to 6.   The sizes reach all three placements, a Main group  *)
(* after the Prefix ones, and both sides of every group condition.         *)
(***************************************************************************)
EXTENDS LightDecoder

MCLitLens == {0, 1, 2, 3, 5}
MCMatchLens == {1, 3}
MCDistances == {3, 6}
MCSrcLens == {12, 19, 24}
MCDstLens == {11, 14, 19, 22, 23}
MCSuffixes == {1, 2, 4}

(* The real constants of crates/core/src/format.rs and light.rs satisfy    *)
(* what the specification assumes of them.  Long literal runs and sizes    *)
(* are unbounded in the format; a few stand for them here.                 *)
Light == INSTANCE LightFormat WITH
  ExtHeaderSize <- 16, RawLimit <- 32, MinSuffix <- 32, TokenLen <- 3,
  TokenLitMax <- 7, ExtMax <- 255, LitLens <- 0 .. 600, MatchLens <- 3 .. 34,
  Distances <- 33 .. 65568, SrcLens <- 0 .. 600, DstLens <- 0 .. 600,
  Suffixes <- 0 .. 600, Chunk <- 32, Group <- 16, TokenMatchMax <- 34,
  MinDistance <- 33, MaxDistance <- 65568

ASSUME RealConstants ==
  /\ Light!FormatConstraints
  /\ Light!LightConstraints
  /\ Light!OutWin - 65568 <= Light!GroupOut + 32
=============================================================================
