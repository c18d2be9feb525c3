---------------------------- MODULE HeavyDecoder ----------------------------
(***************************************************************************)
(* The heavy token decoder, crates/decode/src/heavy.rs: the two phases of  *)
(* decode(), the group fast path in its three placements, and the checked  *)
(* step, on the positions they keep.  HeavyOutput adds the bytes.          *)
(*                                                                         *)
(* pc is the point the code has reached, as in LightDecoder:               *)
(*   loop    head of phase()'s loop        groups  head of groups()'s loop *)
(*   group   inside Placement::run         ext     groups()'s checked_step *)
(*   step    phase()'s checked_step        finish  Layout::finish          *)
(*   ok, corrupt  decompress_into has returned                             *)
(* place is the placement of the running pass; Main is the second phase.   *)
(* group.at is the output position of the code's at, which is kept         *)
(* relative to the window while a group runs.                              *)
(***************************************************************************)
EXTENDS HeavyFormat

VARIABLES layout, cond, pc, place, cursor, group, tok

vars == <<layout, cond, pc, place, cursor, group, tok>>

Places == {"Start", "Token", "Main"}

Groups == [n : Nat, lit : Int, at : Nat]

NoGroup == [n |-> 0, lit |-> GroupLits, at |-> 0]

TypeOK ==
  /\ layout \in Layouts
  /\ cond \in BOOLEAN
  /\ pc \in {"loop", "groups", "group", "ext", "step", "finish", "ok", "corrupt"}
  /\ place \in Places
  /\ cursor \in Cursors
  /\ group \in Groups
  /\ tok \in Tokens

----------------------------------------------------------------------------
(* Placement *)

\* Mutant: the start window is used while the group starts inside it.
BugFits(out) ==
  \/ place = "Start" /\ layout.dst >= StartWin /\ out <= StartWin
  \/ place = "Token" /\ out < MaxDistance
  \/ place = "Main" /\ out >= MaxDistance

Fits(out) ==
  \/ place = "Start" /\ layout.dst >= StartWin /\ out <= StartWin - GroupOut
  \/ place = "Token" /\ out < MaxDistance
  \/ place = "Main" /\ out >= MaxDistance

(* The window a token is copied in: the group's, or its own.               *)
WindowBase(t) ==
  CASE place = "Start" -> 0
    [] place = "Main" -> cursor.out - MaxDistance
    [] place = "Token" -> group.at - t.dis

WindowLen(t) ==
  CASE place = "Start" -> StartWin
    [] place = "Main" -> MainWin
    [] place = "Token" -> t.dis + TokenRoom

----------------------------------------------------------------------------
(* Group::token_in and Group::token_window *)

(* A token window starts at the match, which must not be in the token's    *)
(* own literals; a group window only has to hold it.                       *)
TooFar(t) ==
  \/ place = "Token" /\ t.dis > group.at
  \/ place # "Token" /\ t.dis > (group.at - WindowBase(t)) + t.lit

\* Mutant: a run that has an extension is taken for its inline length.
BugExtended(t) == t.lit > TokenLitMax \/ t.mat = 0 \/ TooFar(t)

\* Mutant: a token with an invalid length is taken.
BugRefused(t) == t.lit > InlineLitMax \/ TooFar(t)

Refused(t) == t.lit > InlineLitMax \/ t.mat = 0 \/ TooFar(t)

GroupAfter(t) ==
  [n   |-> group.n + 1,
   lit |-> group.lit - t.lit,
   at  |-> group.at + t.lit + t.mat]

(* What groups() commits. *)
Committed ==
  [control  |-> cursor.control + group.n * TokenLen,
   literals |-> cursor.literals - (GroupLits - group.lit),
   out      |-> group.at]

\* Where decoding has got to, committed or not.
Current == IF pc = "group" THEN Committed ELSE cursor

(* Bytes Group::copy moves for a run of n literals and a match of n bytes. *)
LitTouch(n) == IF n > Chunk THEN 2 * Chunk ELSE Chunk

\* Mutant: the flag alone leaves the tail out.
BugMatchTouch(n) ==
  IF cond THEN Chunk ELSE IF n <= 2 * Chunk THEN 2 * Chunk ELSE Chunks(n)

MatchTouch(n) ==
  IF cond /\ n <= Chunk THEN Chunk
  ELSE IF n <= 2 * Chunk THEN 2 * Chunk ELSE Chunks(n)

----------------------------------------------------------------------------
Init ==
  /\ layout \in Layouts
  /\ cond \in BOOLEAN
  /\ pc = "loop"
  /\ place = "Start"
  /\ cursor = Start(layout)
  /\ group = NoGroup
  /\ tok \in Tokens

More == cursor.control < cursor.literals

\* The loop condition of phase() for the phase at hand.
Passes == More /\ (place = "Main" \/ cursor.out < MaxDistance)

EnterPass ==
  /\ pc = "loop"
  /\ Passes
  /\ place' = IF place = "Main" THEN "Main" ELSE "Start"
  /\ pc' = "groups"
  /\ UNCHANGED <<layout, cond, cursor, group, tok>>

EnterMain ==
  /\ pc = "loop"
  /\ More
  /\ ~Passes
  /\ place' = "Main"
  /\ UNCHANGED <<layout, cond, pc, cursor, group, tok>>

LeaveLoop ==
  /\ pc = "loop"
  /\ ~More
  /\ pc' = "finish"
  /\ UNCHANGED <<layout, cond, place, cursor, group, tok>>

\* Mutant: the output room of a group is left out.
BugGroupRoom ==
  /\ cursor.literals - cursor.control >= GroupSrc
  /\ TokenOutputEnd(layout) - cursor.out >= TokenRoom

GroupRoom ==
  /\ cursor.literals - cursor.control >= GroupSrc
  /\ TokenOutputEnd(layout) - cursor.out >= GroupOut

BeginGroup ==
  /\ pc = "groups"
  /\ GroupRoom
  /\ Fits(cursor.out)
  /\ group' = [n |-> 0, lit |-> GroupLits, at |-> cursor.out]
  /\ pc' = "group"
  /\ UNCHANGED <<layout, cond, place, cursor, tok>>

(* groups::<StartWindow> is followed by groups::<TokenWindows>.            *)
NextPass ==
  IF place = "Start"
    THEN place' = "Token" /\ pc' = "groups"
    ELSE place' = place /\ pc' = "step"

EndGroups ==
  /\ pc = "groups"
  /\ ~(GroupRoom /\ Fits(cursor.out))
  /\ NextPass
  /\ UNCHANGED <<layout, cond, cursor, group, tok>>

TakeToken ==
  /\ pc = "group"
  /\ group.n < Group
  /\ ~Refused(tok)
  /\ group' = GroupAfter(tok)
  /\ tok' \in Tokens
  /\ UNCHANGED <<layout, cond, pc, place, cursor>>

RefuseToken ==
  /\ pc = "group"
  /\ group.n < Group
  /\ Refused(tok)
  /\ cursor' = Committed
  /\ group' = NoGroup
  /\ pc' = "ext"
  /\ UNCHANGED <<layout, cond, place, tok>>

EndGroup ==
  /\ pc = "group"
  /\ group.n = Group
  /\ cursor' = Committed
  /\ group' = NoGroup
  /\ pc' = "groups"
  /\ UNCHANGED <<layout, cond, place, tok>>

\* checked_step of phase(), which runs whenever tokens are left.
Stepping == pc = "step" /\ More

AcceptStep ==
  /\ pc = "ext" \/ Stepping
  /\ Accepts(layout, cursor, tok)
  /\ cursor' = Advance(cursor, tok)
  /\ tok' \in Tokens
  /\ pc' = IF pc = "ext" THEN "groups" ELSE "loop"
  /\ UNCHANGED <<layout, cond, place, group>>

\* Mutant: the pass goes on as if the invalid token had been decoded.
BugBreakGroups ==
  /\ pc = "ext"
  /\ ~Accepts(layout, cursor, tok)
  /\ pc' = "groups"
  /\ UNCHANGED <<layout, cond, place, cursor, group, tok>>

(* An error inside groups() only ends the pass: the cursor stays before    *)
(* the bad token, and phase()'s checked step meets it again.               *)
BreakGroups ==
  /\ pc = "ext"
  /\ ~Accepts(layout, cursor, tok)
  /\ NextPass
  /\ UNCHANGED <<layout, cond, cursor, group, tok>>

RejectStep ==
  /\ Stepping
  /\ ~Accepts(layout, cursor, tok)
  /\ pc' = "corrupt"
  /\ UNCHANGED <<layout, cond, place, cursor, group, tok>>

SkipStep ==
  /\ pc = "step"
  /\ ~More
  /\ pc' = "loop"
  /\ UNCHANGED <<layout, cond, place, cursor, group, tok>>

Finish ==
  /\ pc = "finish"
  /\ pc' = IF Finished(layout, cursor) THEN "ok" ELSE "corrupt"
  /\ UNCHANGED <<layout, cond, place, cursor, group, tok>>

Returned == pc \in {"ok", "corrupt"} /\ UNCHANGED vars

Next ==
  \/ EnterPass \/ EnterMain \/ LeaveLoop
  \/ BeginGroup \/ EndGroups
  \/ TakeToken \/ RefuseToken \/ EndGroup
  \/ AcceptStep \/ BreakGroups \/ RejectStep \/ SkipStep
  \/ Finish \/ Returned

SafeSpec == Init /\ [][Next]_vars

\* The decoder is one thread of straight code: it never just stops.
Spec == SafeSpec /\ WF_vars(Next)

----------------------------------------------------------------------------
(* Properties *)

(* The two stream cursors never cross and the output cursor never passes   *)
(* the suffix, committed or not: no unsigned subtraction wraps.            *)
CursorsOrdered ==
  /\ Current.control <= Current.literals
  /\ Current.literals <= SuffixStart(layout)
  /\ Current.out <= TokenOutputEnd(layout)

(* After n tokens a group has used at most n times the literals and the    *)
(* output of the longest token it takes, and it started with room for a    *)
(* full group where its placement may be used.                             *)
GroupBudget ==
  pc = "group" =>
    /\ GroupRoom
    /\ Fits(cursor.out)
    /\ group.n <= Group
    /\ GroupLits - group.lit \in 0 .. group.n * InlineLitMax
    /\ group.at - cursor.out \in 0 .. group.n * TokenOutMax

(* A running group's borrows, and every access of its next token: the      *)
(* header, one or two literal chunks, and the whole chunks of the match,   *)
(* read and written.  Whether a short match moves one chunk or two depends *)
(* on the stream's flag, never its safety.                                 *)
GroupInBounds ==
  (pc = "group" /\ group.n < Group) =>
    /\ Within(cursor.control, CtlWin, layout.src)
    /\ Within(cursor.literals - GroupLits, LitWin, layout.src)
    /\ Within(group.n * TokenLen, TokenLen, CtlWin)
    /\ place # "Token" => Within(WindowBase(tok), WindowLen(tok), layout.dst)
    /\ ~Refused(tok) =>
         /\ Within(WindowBase(tok), WindowLen(tok), layout.dst)
         /\ Within(group.lit - tok.lit, LitTouch(tok.lit), LitWin)
         /\ Within(group.at - WindowBase(tok), LitTouch(tok.lit), WindowLen(tok))
         /\ Within(group.at - WindowBase(tok) + tok.lit - tok.dis,
                   MatchTouch(tok.mat), WindowLen(tok))
         /\ Within(group.at - WindowBase(tok) + tok.lit,
                   MatchTouch(tok.mat), WindowLen(tok))

(* Every access of an accepted checked step stays inside its slice: the    *)
(* literals, exact or in whole chunks, and the whole chunks of copy_match, *)
(* whose wild end has only the suffix as room.                             *)
StepInBounds ==
  ((pc = "ext" \/ Stepping) /\ Accepts(layout, cursor, tok)) =>
    LET from  == cursor.literals - tok.lit
        after == cursor.out + tok.lit
        wild  == IF tok.lit > LongLiterals THEN tok.lit ELSE LitTouch(tok.lit)
    IN /\ Within(cursor.control, TokenLen, layout.src)
       /\ Within(from, wild, layout.src)
       /\ Within(cursor.out, wild, layout.dst)
       /\ Within(after - tok.dis, Chunks(tok.mat), layout.dst)
       /\ Within(after, Chunks(tok.mat), layout.dst)

(* The heavy decoder is what TokenDecoder promises: groups take only       *)
(* tokens every check would accept, and an error found inside a group is   *)
(* reported for the same token, after nothing else was decoded.            *)
Status == IF pc \in {"ok", "corrupt"} THEN pc ELSE "run"

Abstract == INSTANCE TokenDecoder WITH status <- Status, cursor <- Current

ImplementsTokenDecoder == Abstract!Spec

(* Every stream is decoded or refused, although a pass that met an invalid *)
(* token leaves all cursors before it.                                     *)
Termination == <>(pc \in {"ok", "corrupt"})
=============================================================================
