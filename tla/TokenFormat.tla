----------------------------- MODULE TokenFormat -----------------------------
(***************************************************************************)
(* The part of the misa77 stream that the light and the heavy decoder      *)
(* share: tokens run forward from the extended header, literal runs run    *)
(* backward from the suffix, and the raw suffix ends both the stream and   *)
(* the output (crates/decode/src/decode.rs, struct Layout).                *)
(*                                                                         *)
(* Lengths and offsets are natural numbers.  A token is abstracted to the  *)
(* three lengths it decodes to; LitLens, MatchLens and Distances are the   *)
(* lengths the streams under study use.                                    *)
(***************************************************************************)
EXTENDS Integers

CONSTANTS
  ExtHeaderSize, \* bytes of the size header and the suffix header
  RawLimit,      \* outputs up to this size are stored raw, without tokens
  MinSuffix,     \* shortest raw suffix a stream may declare
  TokenLen,      \* bytes of a token without its length extension
  TokenLitMax,   \* literal length from which a token has an extension
  ExtMax,        \* extension byte that is followed by another one
  LitLens, MatchLens, Distances,
  SrcLens, DstLens, Suffixes  \* sizes of streams, outputs and suffixes

FormatConstraints ==
  /\ {ExtHeaderSize, RawLimit, MinSuffix, TokenLitMax} \subseteq Nat
  /\ {TokenLen, ExtMax} \subseteq Nat \ {0}
  /\ LitLens \subseteq Nat
  /\ MatchLens \subseteq Nat
  /\ Distances \subseteq Nat \ {0}
  /\ {SrcLens, DstLens, Suffixes} \subseteq SUBSET Nat

ASSUME FormatAssumption == FormatConstraints

Tokens == [lit : LitLens, mat : MatchLens, dis : Distances]

(* Layout::parse: the sizes that pass every check of the extended header.  *)
Layouts ==
  {l \in [src : SrcLens, dst : DstLens, suffix : Suffixes] :
     /\ l.dst > RawLimit
     /\ l.suffix >= MinSuffix
     /\ l.suffix <= l.dst
     /\ l.src - l.suffix >= ExtHeaderSize}

SuffixStart(l) == l.src - l.suffix

TokenOutputEnd(l) == l.dst - l.suffix

Cursors == [control : Nat, literals : Nat, out : Nat]

(* Layout::start *)
Start(l) ==
  [control |-> ExtHeaderSize, literals |-> SuffixStart(l), out |-> 0]

(* The tests of Layout::finish: both ends of the stream have met and the   *)
(* tokens filled the output up to the suffix.                              *)
Finished(l, c) == c.out = TokenOutputEnd(l) /\ c.control = c.literals

(* Bytes of the length extension: 255 continues, a smaller byte ends it.   *)
ExtBytes(n) == IF n < TokenLitMax THEN 0 ELSE 1 + ((n - TokenLitMax) \div ExtMax)

(* First byte after token t at control position c. *)
AfterToken(c, t) == c + TokenLen + ExtBytes(t.lit)

\* Mutant: the match may start before the output.
BugAccepts(l, c, t) ==
  /\ c.literals - c.control >= TokenLen
  /\ t.mat > 0
  /\ AfterToken(c.control, t) <= c.literals
  /\ t.lit <= c.literals - AfterToken(c.control, t)
  /\ c.out + t.lit + t.mat <= TokenOutputEnd(l)

\* Mutant: the literals of the run need not be there.
BugLiterals(l, c, t) ==
  /\ c.literals - c.control >= TokenLen
  /\ t.mat > 0
  /\ AfterToken(c.control, t) <= c.literals
  /\ c.out + t.lit + t.mat <= TokenOutputEnd(l)
  /\ t.dis <= c.out + t.lit

(* Every test a checked token passes: the header is there, the match code  *)
(* is valid (the heavy format has one that is not, of length 0), the       *)
(* extension ends before the unread literals, the literals are there, the  *)
(* match ends inside the output and starts inside it.                      *)
Accepts(l, c, t) ==
  /\ c.literals - c.control >= TokenLen
  /\ t.mat > 0
  /\ AfterToken(c.control, t) <= c.literals
  /\ t.lit <= c.literals - AfterToken(c.control, t)
  /\ c.out + t.lit + t.mat <= TokenOutputEnd(l)
  /\ t.dis <= c.out + t.lit

(* The cursor after a token. *)
Advance(c, t) ==
  [control  |-> AfterToken(c.control, t),
   literals |-> c.literals - t.lit,
   out      |-> c.out + t.lit + t.mat]

(* at..at+n-1 lies inside a buffer of len bytes. *)
Within(at, n, len) == at >= 0 /\ at + n <= len
=============================================================================
