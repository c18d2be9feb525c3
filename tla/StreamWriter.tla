---------------------------- MODULE StreamWriter ----------------------------
(***************************************************************************)
(* The stream writers of crates/encode/src (light/writer.rs,               *)
(* heavy/writer.rs, stream.rs) and the bound of compress.rs that sizes     *)
(* their buffer, on positions: tokens run forward from the extended        *)
(* header, literal runs backward from the end of the buffer, and nothing   *)
(* compares the two.  RoundTrip adds the bytes.                            *)
(*                                                                         *)
(* The two writers differ in constants only.  Which tokens are written is  *)
(* the parsers' choice: any cover of the input by literal runs and matches *)
(* that leaves a suffix of MinSuffix bytes.  DstLens are the input sizes.  *)
(***************************************************************************)
EXTENDS WriterFormat

CONSTANT Slack  \* bytes a caller's buffer is longer than the bound

ASSUME SlackAssumption == Slack \subseteq Nat

VARIABLES
  size,      \* length of the input
  cap,       \* length of the buffer
  pc, tokens, literals,
  at,        \* the input before it has been written
  len        \* returned length of the stream

vars == <<size, cap, pc, tokens, literals, at, len>>

TypeOK ==
  /\ size \in DstLens
  /\ cap \in Nat
  /\ pc \in {"start", "write", "done"}
  /\ {tokens, literals, at, len} \subseteq Nat

----------------------------------------------------------------------------
(* compress_into_level: the buffer holds at least the bound. *)
Init ==
  /\ size \in DstLens
  /\ cap \in {Bound(size) + s : s \in Slack}
  /\ pc = "start"
  /\ tokens = 0
  /\ literals = 0
  /\ at = 0
  /\ len = 0

(* start of a small input: header and raw bytes. *)
StoreRaw ==
  /\ pc = "start"
  /\ size <= RawLimit
  /\ pc' = "done"
  /\ len' = HeaderSize + size
  /\ UNCHANGED <<size, cap, tokens, literals, at>>

\* Mutant: the literals are not placed at the end of the buffer.
BugStartStream ==
  /\ pc = "start"
  /\ size > RawLimit
  /\ pc' = "write"
  /\ tokens' = ExtHeaderSize
  /\ UNCHANGED <<size, cap, literals, at, len>>

StartStream ==
  /\ pc = "start"
  /\ size > RawLimit
  /\ pc' = "write"
  /\ tokens' = ExtHeaderSize
  /\ literals' = cap
  /\ UNCHANGED <<size, cap, at, len>>

WriteToken(t) ==
  /\ pc = "write"
  /\ at + t.lit + t.mat <= size - MinSuffix
  /\ tokens' = tokens + TokenLen + ExtWritten(t.lit)
  /\ literals' = literals - t.lit
  /\ at' = at + t.lit + t.mat
  /\ UNCHANGED <<size, cap, pc, len>>

(* finish: the literal runs move behind the tokens, the suffix follows. *)
FinishStream ==
  /\ pc = "write"
  /\ pc' = "done"
  /\ len' = tokens + (cap - literals) + (size - at)
  /\ UNCHANGED <<size, cap, tokens, literals, at>>

Returned == pc = "done" /\ UNCHANGED vars

Next ==
  \/ StoreRaw \/ StartStream
  \/ \E t \in Tokens : WriteToken(t)
  \/ FinishStream \/ Returned

Spec == Init /\ [][Next]_vars

----------------------------------------------------------------------------
(* Properties *)

(* The two streams never meet in the buffer, which is all that keeps a     *)
(* token from overwriting literals that were copied before it.             *)
StreamsApart ==
  pc = "write" =>
    /\ ExtHeaderSize <= tokens
    /\ tokens <= literals
    /\ literals <= cap

(* compress_bound_level "returns the maximum compressed size" for a size   *)
(* (compress.rs:23), whatever the tokens and however long the buffer: the  *)
(* stream fits it, and so does every index of join.                        *)
BoundHolds == pc = "done" => len <= Bound(size) /\ len <= cap
=============================================================================
