---------------------------- MODULE MCHeavyOutput ----------------------------
(***************************************************************************)
(* HeavyOutput on a scaled format with chunks of 2 bytes, so that a match  *)
(* of up to 3 chunks can overlap its source and end in a wild byte.        *)
(***************************************************************************)
EXTENDS HeavyOutput

MCLitLens == {3, 5}
MCMatchLens == {1, 3, 5}
MCDistances == {3, 9}
MCSrcLens == {16, 25}
MCDstLens == {12, 36}
MCSuffixes == {4}
=============================================================================
