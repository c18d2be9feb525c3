---------------------------- MODULE LightDecoder ----------------------------
(***************************************************************************)
(* The light token decoder, crates/decode/src/light.rs: the loop of        *)
(* decode(), the group fast path in its three window placements, and the   *)
(* checked step, on the positions they keep.  LightOutput adds the bytes.  *)
(*                                                                         *)
(* pc is the point the code has reached:                                   *)
(*   loop    head of decode()'s loop       groups  head of groups()'s loop *)
(*   group   inside Group::quad            ext     groups()'s checked_step *)
(*   step    decode()'s checked_step       finish  Layout::finish          *)
(*   ok, corrupt  decompress_into has returned                             *)
(* cursor is the Cursor that groups() and decode() carry; it stays behind  *)
(* while a group runs and is committed at its end.  An error leaves the    *)
(* cursor alone: nobody reads it again.                                    *)
(***************************************************************************)
EXTENDS LightFormat

VARIABLES layout, pc, place, cursor, group, tok

vars == <<layout, pc, place, cursor, group, tok>>

Places == {"Whole", "Prefix", "Main"}

Groups == [n : Nat, ctlAt : Nat, lit : Int, at : Nat]

\* The value of group while no group runs.
NoGroup == [n |-> 0, ctlAt |-> 0, lit |-> GroupLits, at |-> 0]

TypeOK ==
  /\ layout \in Layouts
  /\ pc \in {"loop", "groups", "group", "ext", "step", "finish", "ok", "corrupt"}
  /\ place \in Places
  /\ cursor \in Cursors
  /\ group \in Groups
  /\ tok \in Tokens

----------------------------------------------------------------------------
(* Placement *)

\* Mutant: the Prefix window is taken to hold every match, too.
BugChecked == place = "Whole"

\* Only in Main no match can reach before the window.
Checked == place # "Main"

Fits(out) ==
  \/ place = "Whole"
  \/ place = "Prefix" /\ out <= MaxDistance
  \/ place = "Main" /\ out > MaxDistance

\* The group's start in its window.
WindowStart == IF place = "Main" THEN MaxDistance ELSE cursor.out

\* The window's place in the output.
WindowBase == IF place = "Main" THEN cursor.out - MaxDistance ELSE 0

WindowLen == IF place = "Whole" THEN layout.dst ELSE OutWin

----------------------------------------------------------------------------
(* Group::token *)

\* The extension byte comes with the header load.
ExtRead(t) == IF t.lit >= TokenLitMax THEN 1 ELSE 0

\* Mutant: any run with one extension byte is taken.
BugTooLong(t) == t.lit >= TokenLitMax + ExtMax

TooLong(t) == t.lit > GroupLitMax

\* The match reaches before the output.
TooFar(t) == Checked /\ t.dis > group.at + t.lit

Refused(t) == TooLong(t) \/ TooFar(t)

\* Mutant: the extension byte is not given back.
BugRefusedAt(t) ==
  IF TooLong(t) THEN group.ctlAt ELSE group.ctlAt + ExtRead(t)

\* A match refused after the extension byte was read gives it back.
RefusedAt(t) ==
  IF TooLong(t) THEN group.ctlAt
  ELSE LET read == group.ctlAt + ExtRead(t) IN read - ExtRead(t)

GroupAfter(t) ==
  [n     |-> group.n + 1,
   ctlAt |-> group.ctlAt + ExtRead(t) + TokenLen,
   lit   |-> group.lit - t.lit,
   at    |-> group.at + t.lit + t.mat]

\* Mutant: every window is taken to start at MaxDistance.
BugCommitted(ctlAt) ==
  [control  |-> cursor.control + ctlAt,
   literals |-> cursor.literals - (GroupLits - group.lit),
   out      |-> cursor.out + (group.at - MaxDistance)]

\* What groups() commits when the group is at ctlAt in its control window.
Committed(ctlAt) ==
  [control  |-> cursor.control + ctlAt,
   literals |-> cursor.literals - (GroupLits - group.lit),
   out      |-> cursor.out + (group.at - WindowStart)]

\* Where decoding has got to, committed or not.
Current == IF pc = "group" THEN Committed(group.ctlAt) ELSE cursor

----------------------------------------------------------------------------
Init ==
  /\ layout \in Layouts
  /\ pc = "loop"
  /\ place = "Whole"
  /\ cursor = Start(layout)
  /\ group = NoGroup
  /\ tok \in Tokens

More == cursor.control < cursor.literals

\* Mutant: the threshold forgets the wild copy behind the last token.
BugEnterPass ==
  /\ pc = "loop"
  /\ More
  /\ place' = IF layout.dst >= OutWin - Chunk THEN "Prefix" ELSE "Whole"
  /\ pc' = "groups"
  /\ UNCHANGED <<layout, cursor, group, tok>>

EnterPass ==
  /\ pc = "loop"
  /\ More
  /\ place' = IF layout.dst >= OutWin THEN "Prefix" ELSE "Whole"
  /\ pc' = "groups"
  /\ UNCHANGED <<layout, cursor, group, tok>>

LeaveLoop ==
  /\ pc = "loop"
  /\ ~More
  /\ pc' = "finish"
  /\ UNCHANGED <<layout, place, cursor, group, tok>>

\* Mutant: the control window is left out of the room.
BugGroupRoom ==
  /\ cursor.literals - cursor.control >= GroupLits
  /\ TokenOutputEnd(layout) - cursor.out >= GroupOut

\* groups() has room for a whole group of the longest tokens.
GroupRoom ==
  /\ cursor.literals - cursor.control >= GroupSrc
  /\ TokenOutputEnd(layout) - cursor.out >= GroupOut

BeginGroup ==
  /\ pc = "groups"
  /\ GroupRoom
  /\ Fits(cursor.out)
  /\ group' = [n |-> 0, ctlAt |-> 0, lit |-> GroupLits, at |-> WindowStart]
  /\ pc' = "group"
  /\ UNCHANGED <<layout, place, cursor, tok>>

\* groups::<Prefix> is followed by groups::<Main>.
EndGroups ==
  /\ pc = "groups"
  /\ ~(GroupRoom /\ Fits(cursor.out))
  /\ IF place = "Prefix"
       THEN place' = "Main" /\ pc' = "groups"
       ELSE place' = place /\ pc' = "step"
  /\ UNCHANGED <<layout, cursor, group, tok>>

TakeToken ==
  /\ pc = "group"
  /\ group.n < Group
  /\ ~Refused(tok)
  /\ group' = GroupAfter(tok)
  /\ tok' \in Tokens
  /\ UNCHANGED <<layout, pc, place, cursor>>

\* Mutant: the refused token is not decoded by a checked step.
BugRefuseToken ==
  /\ pc = "group"
  /\ group.n < Group
  /\ Refused(tok)
  /\ cursor' = Committed(RefusedAt(tok))
  /\ group' = NoGroup
  /\ pc' = "groups"
  /\ UNCHANGED <<layout, place, tok>>

RefuseToken ==
  /\ pc = "group"
  /\ group.n < Group
  /\ Refused(tok)
  /\ cursor' = Committed(RefusedAt(tok))
  /\ group' = NoGroup
  /\ pc' = "ext"
  /\ UNCHANGED <<layout, place, tok>>

EndGroup ==
  /\ pc = "group"
  /\ group.n = Group
  /\ cursor' = Committed(group.ctlAt)
  /\ group' = NoGroup
  /\ pc' = "groups"
  /\ UNCHANGED <<layout, place, tok>>

\* checked_step after a refused token, or after groups() when tokens are left.
Stepping == pc = "ext" \/ (pc = "step" /\ More)

AcceptStep ==
  /\ Stepping
  /\ Accepts(layout, cursor, tok)
  /\ cursor' = Advance(cursor, tok)
  /\ tok' \in Tokens
  /\ pc' = IF pc = "ext" THEN "groups" ELSE "loop"
  /\ UNCHANGED <<layout, place, group>>

RejectStep ==
  /\ Stepping
  /\ ~Accepts(layout, cursor, tok)
  /\ pc' = "corrupt"
  /\ UNCHANGED <<layout, place, cursor, group, tok>>

SkipStep ==
  /\ pc = "step"
  /\ ~More
  /\ pc' = "loop"
  /\ UNCHANGED <<layout, place, cursor, group, tok>>

Finish ==
  /\ pc = "finish"
  /\ pc' = IF Finished(layout, cursor) THEN "ok" ELSE "corrupt"
  /\ UNCHANGED <<layout, place, cursor, group, tok>>

Returned == pc \in {"ok", "corrupt"} /\ UNCHANGED vars

Next ==
  \/ EnterPass \/ LeaveLoop
  \/ BeginGroup \/ EndGroups
  \/ TakeToken \/ RefuseToken \/ EndGroup
  \/ AcceptStep \/ RejectStep \/ SkipStep
  \/ Finish \/ Returned

SafeSpec == Init /\ [][Next]_vars

\* The decoder is one thread of straight code: it never just stops.
Spec == SafeSpec /\ WF_vars(Next)

----------------------------------------------------------------------------
(* Properties *)

(* The two stream cursors never cross and the output cursor never passes   *)
(* the suffix, committed or not: the unsigned subtractions of groups() and *)
(* checked_step never wrap, although inside a group neither is compared.   *)
CursorsOrdered ==
  /\ Current.control <= Current.literals
  /\ Current.literals <= SuffixStart(layout)
  /\ Current.out <= TokenOutputEnd(layout)

(* After n tokens a group has used at most n times the control bytes, the  *)
(* literals and the output of the longest token it takes, and it started   *)
(* with room for a full group where its placement may be used.  Nothing in *)
(* the code compares these positions; the constants alone bound them.      *)
GroupBudget ==
  pc = "group" =>
    /\ GroupRoom
    /\ Fits(cursor.out)
    /\ group.n <= Group
    /\ group.ctlAt <= group.n * (TokenLen + 1)
    /\ GroupLits - group.lit \in 0 .. group.n * GroupLitMax
    /\ group.at - WindowStart \in 0 .. group.n * TokenOutMax

(* The slices a running group borrowed (its control window, its literal    *)
(* window and its output window) lay inside the stream and the output, so  *)
(* array() and array_mut() never panic.  The literal window relies on the  *)
(* suffix, the Main window on the room behind the group.                   *)
BorrowsInBounds ==
  pc = "group" =>
    /\ Within(cursor.control, CtlWin, layout.src)
    /\ Within(cursor.literals - GroupLits, LitWin, layout.src)
    /\ Within(WindowBase, WindowLen, layout.dst)

(* Every copy of the next group token stays inside the group's windows:    *)
(* its header load, its literal chunk, and the load and the store of its   *)
(* match chunk.  In the array windows this is all that keeps the copies,   *)
(* compiled without bounds checks, from a panic.                           *)
GroupCopiesInBounds ==
  (pc = "group" /\ group.n < Group) =>
    /\ Within(group.ctlAt, TokenLen + 1, CtlWin)
    /\ ~Refused(tok) =>
         /\ Within(group.lit - tok.lit, Chunk, LitWin)
         /\ Within(group.at, Chunk, WindowLen)
         /\ Within(group.at + tok.lit - tok.dis, Chunk, WindowLen)
         /\ Within(group.at + tok.lit, Chunk, WindowLen)

(* Every access of an accepted checked step stays inside its slice, the    *)
(* wild copies of a short literal run and the match chunk included, and    *)
(* the match chunk is loaded from the history before the split only.       *)
StepCopiesInBounds ==
  (Stepping /\ Accepts(layout, cursor, tok)) =>
    LET from  == cursor.literals - tok.lit
        after == cursor.out + tok.lit
        wild  == IF tok.lit > LongLiterals THEN tok.lit
                 ELSE IF tok.lit > Chunk THEN 2 * Chunk ELSE Chunk
    IN /\ Within(cursor.control, TokenLen, layout.src)
       /\ Within(from, wild, layout.src)
       /\ Within(cursor.out, wild, layout.dst)
       /\ Within(after - tok.dis, Chunk, after)
       /\ Within(after, Chunk, layout.dst)

(* decompress_into is what TokenDecoder promises: the group path takes     *)
(* exactly the tokens every check would accept, a refused token is read    *)
(* again from its first byte, an error is reported for the same token, and *)
(* the cursors at the end are the same.                                    *)
Status == IF pc \in {"ok", "corrupt"} THEN pc ELSE "run"

Abstract == INSTANCE TokenDecoder WITH status <- Status, cursor <- Current

ImplementsTokenDecoder == Abstract!Spec

(* Every stream, however malformed, is decoded or refused: no pass of the  *)
(* loops leaves all cursors where they were for ever.                      *)
Termination == <>(pc \in {"ok", "corrupt"})
=============================================================================
