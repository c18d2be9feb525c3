----------------------------- MODULE MCRoundTrip -----------------------------
(***************************************************************************)
(* RoundTrip over every input of two byte values, in the tighter of the    *)
(* two formats, scaled: as in the heavy format a token is as long as its   *)
(* shortest match, so an extension byte is paid for by literals, and the   *)
(* bound has no padding.  Runs of 3 literals and more have an extension of *)
(* 1 to 3 bytes.                                                           *)
(***************************************************************************)
EXTENDS RoundTrip

MCLitLens == {0, 1, 3, 5, 6, 9}
MCMatchLens == {2, 3}
MCDistances == {1, 2, 3}
MCDstLens == {2, 7, 10, 11, 12}
MCSlack == {0, 1}
MCBytes == {0, 1}

(* The real writers (compress.rs, format.rs) satisfy what the              *)
(* specification assumes.  Long literal runs are unbounded; a few stand    *)
(* for them here.                                                          *)
Light == INSTANCE WriterFormat WITH
  ExtHeaderSize <- 16, RawLimit <- 32, MinSuffix <- 32, TokenLen <- 3,
  TokenLitMax <- 7, ExtMax <- 255, LitLens <- 0 .. 600, MatchLens <- 4 .. 32,
  Distances <- {33, 65568}, SrcLens <- {}, DstLens <- 0 .. 600, Suffixes <- {},
  HeaderSize <- 8, MinMatch <- 4, ExactRaw <- TRUE, BoundDiv <- 255, BoundPad <- 16

Heavy == INSTANCE WriterFormat WITH
  ExtHeaderSize <- 16, RawLimit <- 64, MinSuffix <- 64, TokenLen <- 4,
  TokenLitMax <- 63, ExtMax <- 255, LitLens <- 0 .. 600, MatchLens <- 4 .. 192,
  Distances <- {33, 1048608}, SrcLens <- {}, DstLens <- 0 .. 600, Suffixes <- {},
  HeaderSize <- 8, MinMatch <- 4, ExactRaw <- FALSE, BoundDiv <- 32, BoundPad <- 64

ASSUME RealConstants ==
  /\ Light!FormatConstraints /\ Light!WriterConstraints
  /\ Heavy!FormatConstraints /\ Heavy!WriterConstraints
=============================================================================
