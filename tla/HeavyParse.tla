----------------------------- MODULE HeavyParse -----------------------------
(***************************************************************************)
(* Level 4 (crates/encode/src/heavy/mod.rs and parse.rs): a parse of each  *)
(* block by cost in bytes, on the matches of the suffix-array finder.  A   *)
(* pass over the block finds a cost to reach each position with a match,   *)
(* from one literal run that is kept; the walk back from the end has only  *)
(* costs and lengths to find the tokens by, and gives the compression up   *)
(* when they do not add up.                                                *)
(***************************************************************************)
EXTENDS SaFinder

CONSTANTS
  LenOf,          \* HEAVY_LEN_OF: length of each code, code 0 is none
  TokenCost, HeaderCost,
  TokenLitMax, ExtMax,
  RelaxWindow,
  Inf             \* cost of an unreached position

Codes == DOMAIN LenOf

\* What the parse asks of its constants; a token encodes every length of the
\* table, and a cost of a whole input is below Inf.
CostConstraints ==
  /\ {TokenCost, HeaderCost, RelaxWindow, Inf} \subseteq Nat
  /\ TokenLitMax \in Nat \ {0} /\ ExtMax \in Nat /\ TokenLitMax <= ExtMax
  /\ Max(Codes) \in Nat /\ Codes = 0 .. Max(Codes)
  /\ LenOf[0] = 0
  /\ \A c \in Codes \ {0} : LenOf[c] \in MatchLens /\ LenOf[c] > LenOf[c - 1]
  /\ MaxMatchLen < RelaxWindow
  /\ \A n \in Sizes : HeaderCost + n * (TokenCost + 2) < Inf

VARIABLES
  frontier,    \* end and cost of the committed parse
  commit,      \* the frontier after the block
  dp,          \* cheapest cost to reach a block position with a match
  arrivalLen,  \* length of the match that does
  idx,         \* block position to relax
  lits,        \* the cheapest literal run that ends there
  boundary,    \* where the walk back is
  tokens       \* what it found, last token first

relaxVars == <<frontier, commit, dp, arrivalLen, idx, lits, boundary, tokens>>

heavyVars == <<size, input, out, pc, start, finderVars, relaxVars>>

Pcs == {"block", "scan", "parse", "relax", "back", "emit", "done", "failed"}

HeavyTypeOK ==
  /\ InputTypeOK
  /\ FinderTypeOK
  /\ pc \in Pcs
  /\ frontier.pos \in 0 .. MatchEnd /\ frontier.cost \in HeaderCost .. Inf
  /\ pc = "relax" =>
       /\ frontier.pos <= start
       /\ \A k \in DOMAIN dp : dp[k] \in HeaderCost .. Inf
       /\ lits.run \in 0 .. size /\ lits.cost < Inf /\ lits.next > lits.run
  /\ boundary \in 0 .. MatchEnd

\* The buffers are new, or hold what an earlier input left.
HeavyInit ==
  /\ InputInit
  /\ FinderInit
  /\ frontier = [pos |-> 0, cost |-> HeaderCost]
  /\ commit = frontier
  /\ dp = <<>>
  /\ arrivalLen = [k \in DOMAIN maxLen |-> MaxMatchLen]
  /\ idx = 0
  /\ lits = [run |-> 0, cost |-> 0, next |-> TokenLitMax]
  /\ boundary = 0
  /\ tokens = <<>>

(* literal_extras: extension bytes of a literal run. *)
Extras(run) == IF run < TokenLitMax THEN 0 ELSE 1 + (run - TokenLitMax) \div ExtMax

(* HEAVY_CODE_FLOOR: the code of the longest length not above n. *)
CodeFloor(n) == Max({c \in Codes : LenOf[c] <= n})

BlockLen == End - start

HeavySearch == Find /\ UNCHANGED relaxVars

----------------------------------------------------------------------------
(* LiteralRun::new. *)
LiteralRun(run, base) ==
  [run  |-> run,
   cost |-> base + run + Extras(run),
   next |-> IF run < TokenLitMax THEN TokenLitMax
            ELSE run + ExtMax - ((run - TokenLitMax) % ExtMax)]

\* Mutant: the end of a match is not looked at where an extension starts.
BugAdvance(l, reached) ==
  LET extra == IF l.run + 1 >= l.next THEN 1 ELSE 0
      cost == l.cost + 1 + extra
  IN  IF extra = 0 /\ reached <= cost
      THEN [run |-> 0, cost |-> reached, next |-> TokenLitMax]
      ELSE [run |-> l.run + 1, cost |-> cost,
            next |-> IF extra = 1 THEN l.run + 1 + ExtMax ELSE l.next]

(* LiteralRun::advance: one more byte, or a match end that costs no more. *)
Advance(l, reached) ==
  LET extra == IF l.run + 1 >= l.next THEN 1 ELSE 0
      cost == l.cost + 1 + extra
  IN  IF reached <= cost
      THEN [run |-> 0, cost |-> reached, next |-> TokenLitMax]
      ELSE [run |-> l.run + 1, cost |-> cost,
            next |-> IF extra = 1 THEN l.run + 1 + ExtMax ELSE l.next]

\* Mutant: the costs of the last block stay, as the lengths do.
BugStartRelax ==
  /\ pc = "parse"
  /\ pc' = "relax"
  /\ dp' = [k \in 0 .. BlockLen + RelaxWindow - 1 |->
              IF start = 0 /\ k = 0 THEN frontier.cost
              ELSE IF k \in DOMAIN dp THEN dp[k] ELSE Inf]
  /\ arrivalLen' = Resized(arrivalLen, BlockLen + RelaxWindow)
  /\ lits' = LiteralRun(start - frontier.pos, frontier.cost)
  /\ idx' = 0
  /\ UNCHANGED <<size, input, out, start, finderVars, frontier, commit,
                 boundary, tokens>>

(* relax, before the loop: dp is cleared, the arrival lengths are not. *)
StartRelax ==
  /\ pc = "parse"
  /\ pc' = "relax"
  /\ dp' = [k \in 0 .. BlockLen + RelaxWindow - 1 |->
              IF start = 0 /\ k = 0 THEN frontier.cost ELSE Inf]
  /\ arrivalLen' = Resized(arrivalLen, BlockLen + RelaxWindow)
  /\ lits' = LiteralRun(start - frontier.pos, frontier.cost)
  /\ idx' = 0
  /\ UNCHANGED <<size, input, out, start, finderVars, frontier, commit,
                 boundary, tokens>>

(* relax_from: the encodable lengths up to longest that get cheaper. *)
Cheaper(cost, longest) ==
  {len \in {LenOf[c] : c \in 1 .. CodeFloor(longest)} : cost < dp[idx + len]}

\* One turn of the loop of relax.
Relax ==
  /\ pc = "relax"
  /\ idx <= BlockLen
  /\ lits' = IF idx > 0 THEN Advance(lits, dp[idx]) ELSE lits
  /\ LET longest == IF idx < BlockLen THEN maxLen[idx] ELSE 0
         cost == lits'.cost + TokenCost
         offers == IF longest >= MinMatchLen THEN Cheaper(cost, longest) ELSE {}
     IN /\ dp' = [k \in DOMAIN dp |-> IF k - idx \in offers THEN cost ELSE dp[k]]
        /\ arrivalLen' = [k \in DOMAIN arrivalLen |->
                            IF k - idx \in offers THEN k - idx ELSE arrivalLen[k]]
  /\ idx' = idx + 1
  /\ UNCHANGED <<size, input, out, pc, start, finderVars, frontier, commit,
                 boundary, tokens>>

(* best_end: the cheapest position reached, the first of equals, with the  *)
(* rest stored raw; the frontier before all of them.                       *)
BestEnd ==
  LET reached == {k \in 0 .. BlockLen : dp[k] # Inf}
      Total(k) == dp[k] + size - (start + k)
      least == Min({Total(k) : k \in reached})
  IN  IF reached = {} \/ least >= frontier.cost + size - frontier.pos
      THEN frontier
      ELSE LET k == Min({j \in reached : Total(j) = least}) IN
             [pos |-> start + k, cost |-> dp[k]]

\* Mutant: the extension bytes of the run stay in the committed cost.
BugCommitted ==
  IF End < size
  THEN [pos |-> End - lits.run, cost |-> lits.cost - lits.run]
  ELSE BestEnd

(* parse_block: a literal run at the end of a block stays open. *)
Committed ==
  IF End < size
  THEN [pos |-> End - lits.run, cost |-> lits.cost - lits.run - Extras(lits.run)]
  ELSE BestEnd

EndRelax ==
  /\ pc = "relax"
  /\ idx > BlockLen
  /\ pc' = "back"
  /\ commit' = Committed
  /\ boundary' = commit'.pos
  /\ tokens' = <<>>
  /\ UNCHANGED <<size, input, out, start, finderVars, frontier, dp, arrivalLen,
                 idx, lits>>

----------------------------------------------------------------------------
None == -1

(* literal_origin: the nearest reached position from which the literals    *)
(* before matchStart cost what they did, else the frontier.                *)
LiteralOrigin(matchStart, cost) ==
  LET from == {p \in start .. matchStart :
                 LET run == matchStart - p IN
                   /\ dp[p - start] # Inf
                   /\ dp[p - start] + run + Extras(run) = cost}
      run == matchStart - frontier.pos
  IN  CASE from # {} -> Max(from)
        [] from = {} /\ frontier.pos <= start
             /\ frontier.cost + run + Extras(run) = cost -> frontier.pos
        [] OTHER -> None

\* The match that arrives at the boundary, and where its literals start.
MatchStart == boundary - arrivalLen[boundary - start]

Origin == LiteralOrigin(MatchStart, dp[boundary - start] - TokenCost)

WalksBack ==
  /\ boundary >= start
  /\ arrivalLen[boundary - start] >= MinMatchLen
  /\ MatchStart >= start
  /\ dp[boundary - start] >= TokenCost
  /\ Origin # None

(* backtrack, one token.  If there is no consistent parse, compress        *)
(* returns 0.                                                              *)
StepBack ==
  /\ pc = "back"
  /\ boundary > frontier.pos
  /\ IF WalksBack
     THEN /\ tokens' = Append(tokens,
                              Match(MatchStart, arrivalLen[boundary - start],
                                    matchDis[MatchStart - start]))
          /\ boundary' = Origin
          /\ UNCHANGED pc
     ELSE pc' = "failed" /\ UNCHANGED <<tokens, boundary>>
  /\ UNCHANGED <<size, input, out, start, finderVars, frontier, commit, dp,
                 arrivalLen, idx, lits>>

EndBack ==
  /\ pc = "back"
  /\ boundary <= frontier.pos
  /\ pc' = "emit"
  /\ UNCHANGED <<size, input, out, start, finderVars, relaxVars>>

\* Mutant: the tokens are emitted as they were found, last first.
BugEmitToken ==
  /\ pc = "emit"
  /\ tokens # <<>>
  /\ out' = Append(out, Head(tokens))
  /\ tokens' = Tail(tokens)
  /\ UNCHANGED <<size, input, pc, start, finderVars, frontier, commit, dp,
                 arrivalLen, idx, lits, boundary>>

EmitToken ==
  /\ pc = "emit"
  /\ tokens # <<>>
  /\ out' = Append(out, tokens[Len(tokens)])
  /\ tokens' = SubSeq(tokens, 1, Len(tokens) - 1)
  /\ UNCHANGED <<size, input, pc, start, finderVars, frontier, commit, dp,
                 arrivalLen, idx, lits, boundary>>

CommitBlock ==
  /\ pc = "emit"
  /\ tokens = <<>>
  /\ pc' = "block"
  /\ frontier' = commit
  /\ start' = start + BlockSize
  /\ UNCHANGED <<size, input, out, finderVars, commit, dp, arrivalLen, idx, lits,
                 boundary, tokens>>

(* finish: the stream writer takes the rest as the raw suffix. *)
HeavyFinish ==
  /\ pc = "block"
  /\ start >= size
  /\ pc' = "done"
  /\ UNCHANGED <<size, input, out, start, finderVars, relaxVars>>

HeavyReturned == pc \in {"done", "failed"} /\ UNCHANGED heavyVars

HeavyNext ==
  \/ HeavySearch
  \/ StartRelax \/ Relax \/ EndRelax
  \/ StepBack \/ EndBack
  \/ EmitToken \/ CommitBlock
  \/ HeavyFinish \/ HeavyReturned

HeavySpec == HeavyInit /\ [][HeavyNext]_heavyVars

----------------------------------------------------------------------------
(* The walk back always finds a parse: compress never gives up.            *)
NeverFails == pc # "failed"

(* The cost of the frontier is what the tokens that were emitted take, so  *)
(* the walk back found a parse of the cost that the relaxation promised.   *)
PaidFor ==
  LET Start(k) == IF k = 1 THEN 0 ELSE out[k - 1].pos + out[k - 1].len
      paid[k \in 0 .. Len(out)] ==
        IF k = 0 THEN HeaderCost
        ELSE LET run == out[k].pos - Start(k) IN
               paid[k - 1] + (run + Extras(run)) + TokenCost
  IN  pc = "block" =>
        /\ frontier.pos = Start(Len(out) + 1)
        /\ frontier.cost = paid[Len(out)]

\* A match of p - m bytes at m is found, and a token can hold its length.
Fits(m, p) ==
  /\ p - m \in {LenOf[c] : c \in Codes \ {0}}
  /\ p - m <= maxLen[m - start]

(* The cheapest way to reach a position of the block with a match, by      *)
(* definition: over all starts of its literals and all lengths it can      *)
(* have, when a run of n literals takes n + extra[n] bytes.                *)
Reached(extra) ==
  LET best[p \in start .. End] ==
        LET From(q) == IF q = frontier.pos THEN frontier.cost ELSE best[q]
            Cost(q, m) == From(q) + (m - q) + extra[m - q] + TokenCost
            ways == {w \in ({frontier.pos} \cup (start .. p)) \X (start .. p) :
                       w[1] <= w[2] /\ Fits(w[2], p)}
        IN  Min({Inf} \cup {Cost(w[1], w[2]) : w \in ways})
  IN  best

(* The parse of a block takes no more than any choice of matches and       *)
(* lengths would, if its runs took the extra bytes.  The last block counts *)
(* the raw suffix without extension bytes.                                 *)
NoneCheaper(extra) ==
  pc = "back" /\ boundary = commit.pos =>
    LET best == Reached(extra)
        Open(n) == IF End < size THEN n ELSE 0
        total == commit.cost + (End - commit.pos) + Open(Extras(End - commit.pos))
    IN  /\ total <= frontier.cost + (End - frontier.pos) + Open(extra[End - frontier.pos])
        /\ \A p \in start .. End :
             best[p] # Inf => total <= best[p] + (End - p) + Open(extra[End - p])

(* "An exact shortest-path parse over token byte costs" (DESIGN.md:13):    *)
(* none is cheaper in the bytes that runs do take.                         *)
Cheapest == NoneCheaper([n \in 0 .. size |-> Extras(n)])

(* What holds of the one literal run that is kept for a position.  At a    *)
(* tie it starts again, and may pay for an extension byte that the longer  *)
(* run had already; but none is cheaper if TokenLitMax literals take one   *)
(* each time.  Below twice TokenLitMax literals a run takes no less than   *)
(* that, so no parse of such runs is cheaper.                              *)
NearlyCheapest == NoneCheaper([n \in 0 .. size |-> n \div TokenLitMax])
=============================================================================
