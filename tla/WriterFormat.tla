---------------------------- MODULE WriterFormat ----------------------------
(***************************************************************************)
(* What a stream writer of crates/encode/src adds to the token format: the *)
(* bytes it writes for a length, and the bound of compress.rs that sizes   *)
(* its buffer.  The light and the heavy writer differ in constants only.   *)
(***************************************************************************)
EXTENDS TokenFormat

CONSTANTS
  HeaderSize,  \* bytes of the size header
  MinMatch,    \* shortest match of a token
  ExactRaw,    \* a raw input is bounded by what its stream takes
  BoundDiv,    \* the bound allows one byte of overhead per BoundDiv bytes
  BoundPad     \* and this many more

(* What the formats and the bounds have in common: a token is no longer    *)
(* than its match; a first extension byte is paid for by the match or by   *)
(* the literals, and every further one by ExtMax literals.                 *)
WriterConstraints ==
  /\ {HeaderSize, BoundPad} \subseteq Nat
  /\ {MinMatch, BoundDiv} \subseteq Nat \ {0}
  /\ ExactRaw \in BOOLEAN
  /\ HeaderSize <= ExtHeaderSize
  /\ MinSuffix <= RawLimit
  /\ \A m \in MatchLens : m >= MinMatch
  /\ BoundDiv <= ExtMax
  /\ \/ TokenLen + 1 <= MinMatch
     \/ TokenLen <= MinMatch /\ BoundDiv <= TokenLitMax

ASSUME WriterAssumption == WriterConstraints

\* Mutant: the overhead of the tokens is left out.
BugBound(n) ==
  IF ExactRaw /\ n <= RawLimit THEN HeaderSize + n
  ELSE ExtHeaderSize + n + BoundPad

(* bound_light and bound_heavy, which saturate beyond every input. *)
Bound(n) ==
  IF ExactRaw /\ n <= RawLimit THEN HeaderSize + n
  ELSE ExtHeaderSize + n + n \div BoundDiv + BoundPad

(* Bytes of write_extension, which a full length field is followed by. *)
ExtWritten(n) ==
  IF n < TokenLitMax THEN 0 ELSE 1 + ((n - TokenLitMax) \div ExtMax)
=============================================================================
