----------------------------- MODULE TokenOutput -----------------------------
(***************************************************************************)
(* TokenDecoder with the bytes it promises.  A byte is named by the        *)
(* position of the stream it is a copy of, so two outputs are equal only   *)
(* if they are equal for every content of the stream.  output is the       *)
(* decoded prefix; it only ever grows.                                     *)
(***************************************************************************)
EXTENDS TokenDecoder

VARIABLE output

outputVars == <<vars, output>>

OutputTypeOK == TypeOK /\ DOMAIN output \subseteq Nat

(* The output after a token: its literals lie at the end of the unread     *)
(* ones, and its match repeats the dis bytes before it.                    *)
AfterTokenOutput(o, c, t) ==
  LET after == c.out + t.lit
      literals == [i \in 0 .. after - 1 |->
                     IF i < c.out THEN o[i] ELSE c.literals - t.lit + (i - c.out)]
  IN [i \in 0 .. after + t.mat - 1 |->
        IF i < after THEN literals[i]
        ELSE literals[after - t.dis + ((i - after) % t.dis)]]

(* The output with the suffix behind it. *)
WithSuffix(l, o) ==
  [i \in 0 .. l.dst - 1 |->
     IF i < TokenOutputEnd(l) THEN o[i] ELSE SuffixStart(l) + (i - TokenOutputEnd(l))]

OutputInit == Init /\ output = [i \in {} |-> 0]

OutputDecodeToken ==
  DecodeToken /\ output' = AfterTokenOutput(output, cursor, tok)

OutputRejectToken == RejectToken /\ UNCHANGED output

OutputFinish ==
  /\ Finish
  /\ output' = IF Finished(layout, cursor) THEN WithSuffix(layout, output) ELSE output

OutputNext == OutputDecodeToken \/ OutputRejectToken \/ OutputFinish

OutputSpec == OutputInit /\ [][OutputNext]_outputVars
=============================================================================
