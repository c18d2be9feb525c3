---------------------------- MODULE TokenDecoder ----------------------------
(***************************************************************************)
(* What decoding a token stream promises, whatever fast paths an           *)
(* implementation has: one token at a time, each with every check, until   *)
(* the control and literal cursors meet.  Both decoders of crates/decode   *)
(* implement this specification on the cursors they keep.                  *)
(*                                                                         *)
(* tok is the token the stream holds at cursor.control.  The stream is     *)
(* arbitrary, so it is chosen when the cursor reaches it; it is read       *)
(* again, unchanged, for as long as the cursor stays.                      *)
(***************************************************************************)
EXTENDS TokenFormat

VARIABLES layout, status, cursor, tok

vars == <<layout, status, cursor, tok>>

TypeOK ==
  /\ layout \in Layouts
  /\ status \in {"run", "ok", "corrupt"}
  /\ cursor \in Cursors
  /\ tok \in Tokens

Init ==
  /\ layout \in Layouts
  /\ status = "run"
  /\ cursor = Start(layout)
  /\ tok \in Tokens

More == cursor.control < cursor.literals

DecodeToken ==
  /\ status = "run"
  /\ More
  /\ Accepts(layout, cursor, tok)
  /\ cursor' = Advance(cursor, tok)
  /\ tok' \in Tokens
  /\ UNCHANGED <<layout, status>>

RejectToken ==
  /\ status = "run"
  /\ More
  /\ ~Accepts(layout, cursor, tok)
  /\ status' = "corrupt"
  /\ UNCHANGED <<layout, cursor, tok>>

Finish ==
  /\ status = "run"
  /\ ~More
  /\ status' = IF Finished(layout, cursor) THEN "ok" ELSE "corrupt"
  /\ UNCHANGED <<layout, cursor, tok>>

Next == DecodeToken \/ RejectToken \/ Finish

Spec == Init /\ [][Next]_vars
=============================================================================
