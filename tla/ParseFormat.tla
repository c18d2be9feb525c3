----------------------------- MODULE ParseFormat -----------------------------
(***************************************************************************)
(* What the compressors of crates/encode/src have in common: the input,    *)
(* the limits of the format they write, and the length of a match.         *)
(*                                                                         *)
(* The input is a function from 0 .. size - 1.  A match is the token that  *)
(* a parser hands to the stream writer, without its literal run.           *)
(***************************************************************************)
EXTENDS Integers, Sequences, FiniteSetsExt

CONSTANTS
  Bytes,        \* values of an input byte
  Sizes,        \* sizes of the inputs that are not stored raw
  MinMatchLen,  \* shortest match a parser emits
  MatchLens,    \* lengths of a match the format can encode
  MinDistance, MaxDistance,
  MinSuffix     \* bytes at the end that no match covers

ParseConstraints ==
  /\ Bytes \subseteq Nat
  /\ Sizes \subseteq Nat
  /\ {MinMatchLen, MinDistance, MaxDistance} \subseteq Nat \ {0}
  /\ MinSuffix \in Nat
  /\ MatchLens \subseteq Nat
  /\ \A n \in MatchLens : n >= MinMatchLen
  /\ MinDistance <= MaxDistance
  /\ \A n \in Sizes : n >= MinSuffix

ASSUME ParseAssumption == ParseConstraints

VARIABLES
  size, input,
  out  \* the matches emitted so far

InputTypeOK ==
  /\ size \in Sizes
  /\ input \in [0 .. size - 1 -> Bytes]

InputInit ==
  /\ size \in Sizes
  /\ input \in [0 .. size - 1 -> Bytes]
  /\ out = <<>>

\* The first byte no match may reach.
MatchEnd == size - MinSuffix

Match(pos, len, dis) == [pos |-> pos, len |-> len, dis |-> dis]

(* lcp and lcp_loaded: common prefix of the input at a and at b. *)
Lcp(a, b, limit) ==
  Max({n \in 0 .. limit : \A i \in 0 .. n - 1 : input[a + i] = input[b + i]})

(* The match repeats the input before it, at a distance a token can hold. *)
TrueMatch(m) ==
  /\ m.dis \in MinDistance .. MaxDistance
  /\ m.dis <= m.pos
  /\ \A i \in m.pos .. m.pos + m.len - 1 : input[i] = input[i - m.dis]
=============================================================================
