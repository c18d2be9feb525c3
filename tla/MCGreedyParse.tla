---------------------------- MODULE MCGreedyParse ----------------------------
(***************************************************************************)
(* GreedyParse at a tenth of its sizes: two byte values, matches of one to *)
(* three bytes, entries modulo 4, hashes that collide.                     *)
(***************************************************************************)
EXTENDS GreedyParse

MCShortHash(w) == 0
MCLongHash(w) == (w[1] + w[2]) % 2

Level(kind, slots, step, accept, heavy, fireAt, exact, votes, up, ahead) ==
  [finder |-> kind, width |-> slots, step |-> step, accept |-> accept,
   heavyAccept |-> heavy, fireAt |-> fireAt, exact |-> exact,
   votes |-> votes, up |-> up, down |-> 1, lookahead |-> ahead]

\* Levels -1 to 2.
MCLevels == {
  Level("latest", 1, 2, 3, 3, 2, FALSE, {}, 0, FALSE),
  Level("swift", 1, 1, 3, 3, 4, TRUE, 4 .. 6, 2, FALSE),
  Level("ring", 2, 1, 3, 3, 4, TRUE, 4 .. 6, 2, FALSE),
  Level("ring", 3, 1, 3, 1, 3, FALSE, 4 .. 14, 2, TRUE)}
=============================================================================
