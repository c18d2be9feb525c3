-------------------------------- MODULE Parse --------------------------------
(***************************************************************************)
(* Abstract: what every parser promises the stream writer.  Matches are    *)
(* emitted in the order of the input, each is true, has a length and a     *)
(* distance that a token can hold, starts behind the one before it and     *)
(* ends before the raw suffix.  The bytes between them are literals.       *)
(***************************************************************************)
EXTENDS ParseFormat

VARIABLE done

parseVars == <<size, input, out, done>>

\* The input before it is covered by tokens.
Covered ==
  IF out = <<>> THEN 0 ELSE out[Len(out)].pos + out[Len(out)].len

Init == InputInit /\ done = FALSE

Emit(m) ==
  /\ ~done
  /\ m.len \in MatchLens
  /\ m.pos >= Covered
  /\ m.pos + m.len <= MatchEnd
  /\ TrueMatch(m)
  /\ out' = Append(out, m)
  /\ UNCHANGED <<size, input, done>>

Finish ==
  /\ ~done
  /\ done' = TRUE
  /\ UNCHANGED <<size, input, out>>

Next ==
  \/ \E pos \in 0 .. size, len \in MatchLens, dis \in MinDistance .. MaxDistance :
       Emit(Match(pos, len, dis))
  \/ Finish

Spec == Init /\ [][Next]_parseVars
=============================================================================
