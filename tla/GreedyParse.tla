----------------------------- MODULE GreedyParse -----------------------------
(***************************************************************************)
(* The greedy light levels -1 to 2 (crates/encode/src/light/greedy.rs): a  *)
(* probe per position; a match that is long enough is emitted at once, a   *)
(* shorter one is deferred and fires when enough literals are pending.     *)
(*                                                                         *)
(* A level is a finder and a policy, a record of                           *)
(*   finder, width        Latest6, Swift or Ring, entries of a bucket      *)
(*   step                 STEP                                             *)
(*   accept, heavyAccept  accept_len, below and from RegimeThreshold       *)
(*   fireAt, exact        fire: at fireAt pending literals or more; below  *)
(*                        RegimeThreshold an exact policy fires only there *)
(*   votes, up, down      vote: literal runs that raise the regime by up,  *)
(*                        others lower it by down                          *)
(*   lookahead            LOOKAHEAD                                        *)
(* Blitz fires when the step after the next would: its fireAt is           *)
(* FIRE_AT + 1 - STEP.                                                     *)
(***************************************************************************)
EXTENDS HashFinder

CONSTANTS
  Levels,
  SkipAfter,      \* misses before the step grows by one, 2 ^ SKIP_SHIFT
  RegimeCap, RegimeThreshold,
  Gate, Patience  \* LOOKAHEAD_GATE, LOOKAHEAD_PATIENCE

ASSUME LevelAssumption ==
  /\ {RegimeCap, RegimeThreshold, Gate, Patience} \subseteq Nat
  /\ SkipAfter \in Nat \ {0}
  /\ MinMatchLen .. MaxMatchLen \subseteq MatchLens
  /\ \A l \in Levels :
       /\ l.finder \in {"latest", "swift", "ring"}
       /\ {l.width, l.step, l.accept, l.heavyAccept} \subseteq Nat \ {0}
       /\ {l.fireAt, l.up, l.down} \subseteq Int
       /\ MinMatchLen <= l.accept /\ MinMatchLen <= l.heavyAccept

VARIABLES
  level,
  pos,     \* position of the next probe
  lit,     \* start of the pending literals
  misses,
  cand,    \* deferred match, NoMatch when there is none
  regime,  \* vote for an input heavy in literals
  done

vars == <<size, input, out, finder, width, tables, level, pos, lit, misses,
          cand, regime, done>>

TypeOK ==
  /\ InputTypeOK
  /\ FinderTypeOK
  /\ level \in Levels
  /\ finder = level.finder /\ width = level.width
  /\ pos \in Nat  \* a long jump may pass the end of the input
  /\ lit \in 0 .. size
  /\ misses \in 0 .. size
  /\ regime \in 0 .. RegimeCap
  /\ done \in BOOLEAN

Init ==
  /\ InputInit
  /\ level \in Levels
  /\ finder = level.finder
  /\ width = level.width
  /\ TablesInit
  /\ pos = 0
  /\ lit = 0
  /\ misses = 0
  /\ cand = NoMatch
  /\ regime = 0
  /\ done = FALSE

----------------------------------------------------------------------------
(* The policy. *)
Heavy == regime >= RegimeThreshold

AcceptLen == IF Heavy THEN level.heavyAccept ELSE level.accept

Fires ==
  IF level.exact /\ ~Heavy THEN pos - lit = level.fireAt
  ELSE pos - lit >= level.fireAt

\* Mutant: the vote is not clamped.
BugVoted(run) == regime + (IF run \in level.votes THEN level.up ELSE -level.down)

Voted(run) ==
  LET vote == regime + (IF run \in level.votes THEN level.up ELSE -level.down)
  IN  Max({0, Min({RegimeCap, vote})})

----------------------------------------------------------------------------
(* lookahead: a longer match one or two positions ahead. *)
Stops(match, at) == at + MaxMatchLen > MatchEnd \/ match.len >= Gate

Better(match, at) ==
  IF Stops(match, at) THEN match
  ELSE LET ahead == Find(at, FALSE) IN
         IF ahead.len > match.len THEN ahead ELSE match

Lookahead(match) ==
  LET one == Better(match, pos + 1) IN
    IF one = match /\ match.len >= Patience THEN match
    ELSE Better(one, pos + 2)

(* extend_backward: over equal bytes, into the pending literals. *)
Extended(match) ==
  LET limit == Min({match.pos - lit, match.pos - match.dis,
                    MaxMatchLen - match.len})
      back == Max({n \in 0 .. limit : \A i \in 1 .. n :
                input[match.pos - i] = input[match.pos - i - match.dis]})
  IN  Match(match.pos - back, match.len + back, match.dis)

----------------------------------------------------------------------------
(* compress: the loop. *)
Running == ~done /\ pos + MaxMatchLen <= MatchEnd

Insert ==
  /\ Running
  /\ Due(pos)
  /\ InsertBatch
  /\ UNCHANGED <<size, input, out, finder, width, level, pos, lit, misses,
                 cand, regime, done>>

EndOf(match) == match.pos + match.len

Found == IF pos > Lag THEN Find(pos, cand # NoMatch) ELSE NoMatch

\* Mutant: the cursor goes back to the end of an earlier match.
BugEmit(match) ==
  \E token \in {Extended(match)} :
     /\ out' = Append(out, token)
     /\ regime' = Voted(token.pos - lit)
     /\ lit' = EndOf(token)
     /\ pos' = EndOf(token)
     /\ misses' = 0
     /\ cand' = NoMatch
     /\ UNCHANGED <<size, input, finder, width, tables, level, done>>

\* Mutant: the deferred match is kept.
BugKeepDeferred(match) ==
  \E token \in {Extended(match)} :
     /\ out' = Append(out, token)
     /\ regime' = Voted(token.pos - lit)
     /\ lit' = EndOf(token)
     /\ pos' = Max({EndOf(token), pos})
     /\ misses' = 0
     /\ UNCHANGED <<size, input, finder, width, tables, level, cand, done>>

Emit(match) ==
  \E token \in {Extended(match)} :
     /\ out' = Append(out, token)
     /\ regime' = Voted(token.pos - lit)
     /\ lit' = EndOf(token)
     /\ pos' = Max({EndOf(token), pos})
     /\ misses' = 0
     /\ cand' = NoMatch
     /\ UNCHANGED <<size, input, finder, width, tables, level, done>>

Accept(found) ==
  /\ found.len >= AcceptLen
  /\ \E match \in {IF level.lookahead THEN Lookahead(found) ELSE found} :
       Emit(match)

PrefersDeferred(found) ==
  cand # NoMatch /\ (found.len < MinMatchLen \/ EndOf(cand) >= EndOf(found))

FireDeferred(found) ==
  /\ found.len < AcceptLen
  /\ Fires
  /\ PrefersDeferred(found)
  /\ Emit(cand)

FireFound(found) ==
  /\ found.len \in MinMatchLen .. AcceptLen - 1
  /\ Fires
  /\ ~PrefersDeferred(found)
  /\ Emit(found)

Move ==
  /\ pos' = pos + level.step + misses \div SkipAfter
  /\ misses' = misses + 1

Defer(found) ==
  /\ found.len \in MinMatchLen .. AcceptLen - 1
  /\ ~Fires
  /\ cand = NoMatch \/ EndOf(found) >= EndOf(cand)
  /\ cand' = found
  /\ Move
  /\ UNCHANGED <<size, input, out, finder, width, tables, level, lit, regime,
                 done>>

Miss(found) ==
  /\ found.len < AcceptLen
  /\ IF Fires THEN cand = NoMatch /\ found.len < MinMatchLen
     ELSE found.len < MinMatchLen \/ (cand # NoMatch /\ EndOf(found) < EndOf(cand))
  /\ Move
  /\ UNCHANGED <<size, input, out, finder, width, tables, level, lit, cand,
                 regime, done>>

Probe ==
  /\ Running
  /\ ~Due(pos)
  /\ \E found \in {Found} :
       \/ Accept(found)
       \/ FireDeferred(found)
       \/ FireFound(found)
       \/ Defer(found)
       \/ Miss(found)

(* finish: the stream writer takes the literals from lit on. *)
Finish ==
  /\ ~done
  /\ ~Running
  /\ done' = TRUE
  /\ UNCHANGED <<size, input, out, finder, width, tables, level, pos, lit,
                 misses, cand, regime>>

Returned == done /\ UNCHANGED vars

Next == Insert \/ Probe \/ Finish \/ Returned

Spec == Init /\ [][Next]_vars

----------------------------------------------------------------------------
(* An entry never stands for a position before the input, at any position  *)
(* that is probed next, the two of a lookahead included: tables only hold  *)
(* earlier positions (Probe::candidate).                                   *)
CandidatesExist ==
  Running /\ ~Due(pos) =>
    \A at \in pos .. Min({pos + 2, MatchEnd - MaxMatchLen}) :
      at > Lag => \A entry \in Entries(at) : Candidate(at, entry) # None

(* A deferred match still lies in the pending literals when it fires: it   *)
(* is true, starts among them and begins before the cursor.                *)
DeferredValid ==
  cand # NoMatch =>
    /\ TrueMatch(cand)
    /\ cand.len \in MinMatchLen .. MaxMatchLen
    /\ lit <= cand.pos /\ cand.pos < pos

(* The matches the loop emits are what a parser promises: true, in order,  *)
(* of a length and a distance a token can hold, before the raw suffix.     *)
AbstractParse == INSTANCE Parse
ImplementsParse == AbstractParse!Spec

(* Every round makes progress, so the loop ends: positions are inserted,   *)
(* the cursor advances, or literals are consumed where it stays, as when a *)
(* deferred match ends before it.  It never goes back.                     *)
Progress ==
  [][\/ done'
     \/ next' > next /\ pos' = pos
     \/ pos' > pos
     \/ pos' = pos /\ lit' > lit]_vars
=============================================================================
