----------------------------- MODULE ChunkCopies -----------------------------
(***************************************************************************)
(* The copies of crates/decode/src/primitives.rs on an output buffer whose *)
(* bytes are named by the stream position they were copied from.  Copies   *)
(* move whole chunks, so they write past the bytes they mean.              *)
(***************************************************************************)
EXTENDS Integers

CONSTANTS
  Chunk,        \* bytes of one copy
  LongLiterals  \* longer runs are copied exactly

(* n bytes of the stream at from, stored at position to of the output.     *)
StoreStream(buf, to, from, n) ==
  [i \in DOMAIN buf |-> IF i \in to .. to + n - 1 THEN from + (i - to) ELSE buf[i]]

(* One chunk of the output, loaded completely before it is stored.         *)
CopyChunk(buf, from, to) ==
  [i \in DOMAIN buf |->
     IF i \in to .. to + Chunk - 1 THEN buf[from + (i - to)] ELSE buf[i]]

(* The first k chunks of a match, in order: a match that overlaps its      *)
(* source repeats what its own earlier chunks wrote.                       *)
CopyChunks(buf, from, to, k) ==
  LET copied[j \in 0 .. k] ==
        IF j = 0 THEN buf
        ELSE CopyChunk(copied[j - 1], from + (j - 1) * Chunk, to + (j - 1) * Chunk)
  IN copied[k]

(* copy_literals: exact for a long run, one or two chunks for a short one. *)
CopyLiterals(buf, from, to, n) ==
  StoreStream(buf, to, from,
    IF n > LongLiterals THEN n ELSE IF n > Chunk THEN 2 * Chunk ELSE Chunk)
=============================================================================
