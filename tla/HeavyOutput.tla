----------------------------- MODULE HeavyOutput -----------------------------
(***************************************************************************)
(* HeavyDecoder with the output buffer: the copies of Group::copy, which   *)
(* are the same in a group window and in a token's own, the copies of      *)
(* checked_step, and the suffix copy of Layout::finish.                    *)
(*                                                                         *)
(* A byte is the stream position it was copied from, or Stale when         *)
(* decompress_into has not written it.                                     *)
(***************************************************************************)
EXTENDS HeavyDecoder

VARIABLE dst

outputVars == <<vars, dst>>

Stale == -1

OutputTypeOK ==
  /\ TypeOK
  /\ dst \in [0 .. layout.dst - 1 -> (0 .. layout.src - 1) \cup {Stale}]

INSTANCE ChunkCopies

(* Group::copy: a literal chunk or two, then the chunks of the match over  *)
(* their wild end.                                                         *)
GroupBytes(t) ==
  LET from == cursor.literals - GroupLits + (group.lit - t.lit)
      to == group.at + t.lit
  IN CopyChunks(StoreStream(dst, group.at, from, LitTouch(t.lit)),
                to - t.dis, to, MatchTouch(t.mat) \div Chunk)

\* Mutant: the literals are copied before their cursor moves back.
BugStepBytes(t) ==
  LET after == cursor.out + t.lit
  IN CopyChunks(CopyLiterals(dst, cursor.literals, cursor.out, t.lit),
                after - t.dis, after, Chunks(t.mat) \div Chunk)

(* checked_step: copy_literals, then copy_match.                           *)
StepBytes(t) ==
  LET after == cursor.out + t.lit
  IN CopyChunks(CopyLiterals(dst, cursor.literals - t.lit, cursor.out, t.lit),
                after - t.dis, after, Chunks(t.mat) \div Chunk)

(* Layout::finish. *)
SuffixBytes ==
  StoreStream(dst, TokenOutputEnd(layout), SuffixStart(layout), layout.suffix)

----------------------------------------------------------------------------
OutputInit == Init /\ dst = [i \in 0 .. layout.dst - 1 |-> Stale]

OutputTakeToken == TakeToken /\ dst' = GroupBytes(tok)

OutputAcceptStep == AcceptStep /\ dst' = StepBytes(tok)

OutputFinish ==
  /\ Finish
  /\ dst' = IF Finished(layout, cursor) THEN SuffixBytes ELSE dst

\* The steps that only move cursors.
OutputMove ==
  /\ \/ EnterPass \/ EnterMain \/ LeaveLoop \/ BeginGroup \/ EndGroups
     \/ RefuseToken \/ EndGroup \/ BreakGroups \/ RejectStep \/ SkipStep
     \/ Returned
  /\ UNCHANGED dst

OutputNext == OutputTakeToken \/ OutputAcceptStep \/ OutputFinish \/ OutputMove

OutputSpec == OutputInit /\ [][OutputNext]_outputVars

----------------------------------------------------------------------------
(* Properties *)

(* The bytes before the output cursor are the bytes TokenOutput promises,  *)
(* whatever the stream's flag says of its matches: every chunk of a match  *)
(* is copied, and no wild chunk reaches back.                              *)
Decoded ==
  [i \in 0 .. (IF pc = "ok" THEN layout.dst ELSE Current.out) - 1 |-> dst[i]]

Promise == INSTANCE TokenOutput
  WITH status <- Status, cursor <- Current, output <- Decoded

ImplementsTokenOutput == Promise!OutputSpec
=============================================================================
