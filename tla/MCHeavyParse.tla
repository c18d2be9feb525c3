---------------------------- MODULE MCHeavyParse ----------------------------
(***************************************************************************)
(* HeavyParse on every input of a few bytes, in two or three blocks.       *)
(* Length codes leave a gap as the real ones do, matches may overlap their *)
(* source, and a literal run takes an extension byte at 2 bytes and at     *)
(* every fifth after that.                                                 *)
(***************************************************************************)
EXTENDS HeavyParse, MCSuffixSort

ASSUME CostAssumption == CostConstraints

MCLenOf == [c \in 0 .. 2 |-> 2 * c]

(* The real parser (format.rs, heavy/mod.rs, heavy/parse.rs) satisfies what *)
(* the theorems ask of it, here for inputs of 300 MB with an Inf of 31      *)
(* bits; the code's has all bits of a usize.                                *)
RealLenOf == [c \in 0 .. 63 |->
  CASE c = 0 -> 0
    [] c \in 1 .. 29 -> c + 3
    [] c \in 30 .. 45 -> 32 + 2 * (c - 29)
    [] c \in 46 .. 61 -> 64 + 4 * (c - 45)
    [] OTHER -> 128 + 32 * (c - 61)]

Real == INSTANCE HeavyParse WITH
  Bytes <- 0 .. 255, Sizes <- {65, 300000000}, MinMatchLen <- 4,
  MatchLens <- 4 .. 192, MinDistance <- 33, MaxDistance <- 1048608,
  MinSuffix <- 64, Word <- 64, BlockSize <- 2097152, MaxMatchLen <- 192,
  ExtendLimit <- 1048576, PadLen <- 193, LenOf <- RealLenOf,
  TokenCost <- 4, HeaderCost <- 16, TokenLitMax <- 63, ExtMax <- 255,
  RelaxWindow <- 256, Inf <- 2147483647

ASSUME RealConstants ==
  Real!ParseConstraints /\ Real!FinderConstraints /\ Real!CostConstraints
=============================================================================
