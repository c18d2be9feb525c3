--------------------------- MODULE MCHeavyDecoder ---------------------------
(***************************************************************************)
(* HeavyDecoder on a scaled format: chunks of 1 byte, groups of 2 tokens,  *)
(* runs of 3 literals and more extended, matches of up to 3 chunks,        *)
(* distances 2 to 13.  As in the real format the start window ends a       *)
(* little before the main phase begins.  A run of 12 literals takes the    *)
(* output there in a step or two.                                          *)
(***************************************************************************)
EXTENDS HeavyDecoder

MCLitLens == {0, 2, 3, 12}
MCMatchLens == {0, 1, 3}
MCDistances == {2, 13}
MCSrcLens == {11, 26}
MCDstLens == {11, 14, 26}
MCSuffixes == {2, 3}

(* The real constants of crates/core/src/format.rs and heavy.rs satisfy    *)
(* what the specification assumes of them.  Long literal runs and sizes    *)
(* are unbounded in the format; a few stand for them here.                 *)
Heavy == INSTANCE HeavyFormat WITH
  ExtHeaderSize <- 16, RawLimit <- 64, MinSuffix <- 64, TokenLen <- 4,
  TokenLitMax <- 63, ExtMax <- 255, LitLens <- 0 .. 600,
  MatchLens <- {0} \cup (4 .. 32) \cup {34 + 2 * i : i \in 0 .. 15}
                 \cup {68 + 4 * i : i \in 0 .. 15} \cup {160, 192},
  Distances <- {33, 34, 1048607, 1048608},
  SrcLens <- 0 .. 600, DstLens <- 0 .. 600, Suffixes <- 0 .. 600,
  Chunk <- 32, Group <- 16, TokenMatchMax <- 255, MatchRoom <- 256,
  StartWin <- 1048576, MinDistance <- 33, MaxDistance <- 1048608

ASSUME RealConstants ==
  /\ Heavy!FormatConstraints
  /\ Heavy!HeavyConstraints
=============================================================================
