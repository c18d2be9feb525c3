----------------------------- MODULE LightOutput -----------------------------
(***************************************************************************)
(* LightDecoder with the output buffer: the chunk copies of Group::token,  *)
(* the copies of checked_step, and the suffix copy of Layout::finish.      *)
(*                                                                         *)
(* A copy moves whole chunks, so it writes past the bytes it means: over   *)
(* bytes a later token is to write, and over the room of the suffix.  A    *)
(* byte is the stream position it was copied from, or Stale when           *)
(* decompress_into has not written it (the caller's buffer shows through). *)
(***************************************************************************)
EXTENDS LightDecoder

VARIABLE dst

outputVars == <<vars, dst>>

Stale == -1

OutputTypeOK ==
  /\ TypeOK
  /\ dst \in [0 .. layout.dst - 1 -> (0 .. layout.src - 1) \cup {Stale}]

----------------------------------------------------------------------------
INSTANCE ChunkCopies

\* Mutant: the match is copied before the literals are stored.
BugGroupBytes(t) ==
  LET at == WindowBase + group.at
      from == cursor.literals - GroupLits + (group.lit - t.lit)
      to == at + t.lit
  IN StoreStream(CopyChunk(dst, to - t.dis, to), at, from, Chunk)

(* Group::token: a literal chunk, then a match chunk over its wild end.    *)
GroupBytes(t) ==
  LET at == WindowBase + group.at
      from == cursor.literals - GroupLits + (group.lit - t.lit)
      to == at + t.lit
  IN CopyChunk(StoreStream(dst, at, from, Chunk), to - t.dis, to)

\* Mutant: the literals are copied before their cursor moves back.
BugStepBytes(t) ==
  LET after == cursor.out + t.lit
  IN CopyChunk(CopyLiterals(dst, cursor.literals, cursor.out, t.lit),
               after - t.dis, after)

(* checked_step: the literals, then one match chunk.                       *)
StepBytes(t) ==
  LET after == cursor.out + t.lit
  IN CopyChunk(CopyLiterals(dst, cursor.literals - t.lit, cursor.out, t.lit),
               after - t.dis, after)

(* Layout::finish. *)
SuffixBytes ==
  StoreStream(dst, TokenOutputEnd(layout), SuffixStart(layout), layout.suffix)

----------------------------------------------------------------------------
OutputInit == Init /\ dst = [i \in 0 .. layout.dst - 1 |-> Stale]

OutputTakeToken == TakeToken /\ dst' = GroupBytes(tok)

OutputAcceptStep == AcceptStep /\ dst' = StepBytes(tok)

OutputFinish ==
  /\ Finish
  /\ dst' = IF Finished(layout, cursor) THEN SuffixBytes ELSE dst

\* The steps that only move cursors.
OutputMove ==
  /\ \/ EnterPass \/ LeaveLoop \/ BeginGroup \/ EndGroups \/ RefuseToken
     \/ EndGroup \/ RejectStep \/ SkipStep \/ Returned
  /\ UNCHANGED dst

OutputNext == OutputTakeToken \/ OutputAcceptStep \/ OutputFinish \/ OutputMove

OutputSafeSpec == OutputInit /\ [][OutputNext]_outputVars

OutputSpec == OutputSafeSpec /\ WF_outputVars(OutputNext)

----------------------------------------------------------------------------
(* Properties *)

(* The bytes before the output cursor are the bytes TokenOutput promises:  *)
(* no wild copy reaches back into them, no match reads a byte that a wild  *)
(* copy left behind, and the suffix ends what finish accepts.              *)
Decoded ==
  [i \in 0 .. (IF pc = "ok" THEN layout.dst ELSE Current.out) - 1 |-> dst[i]]

Promise == INSTANCE TokenOutput
  WITH status <- Status, cursor <- Current, output <- Decoded

ImplementsTokenOutput == Promise!OutputSpec

(* decompress_into returns the number of bytes it wrote (decode.rs:122):   *)
(* when it succeeds, no byte of the output is left as the caller had it.   *)
AllWritten == pc = "ok" => \A i \in DOMAIN dst : dst[i] # Stale
=============================================================================
