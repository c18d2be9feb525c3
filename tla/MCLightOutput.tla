---------------------------- MODULE MCLightOutput ----------------------------
(***************************************************************************)
(* LightOutput on the scaled format of MCLightDecoder, with matches of at  *)
(* most one chunk: all that a stream of this encoder holds.                *)
(***************************************************************************)
EXTENDS LightOutput

MCLitLens == {0, 1, 3, 5}
MCMatchLens == {1, 2}
MCDistances == {3, 4}
MCSrcLens == {16, 17}
MCDstLens == {11, 16}
MCSuffixes == {2}
=============================================================================
