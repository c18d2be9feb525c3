------------------------- MODULE HeavyDecoder_proofs -------------------------
(***************************************************************************)
(* Safety of the heavy decoder for every value of its constants that meets *)
(* FormatAssumption and HeavyAssumption, in the way of LightDecoder_proofs:*)
(* GroupBudget bounds what a group has used, and everything else follows   *)
(* from the room it started with.                                          *)
(***************************************************************************)
EXTENDS HeavyOutput, TokenFormat_proofs, TLAPS

(* The committed cursor is ordered at every point of the code. *)
CommittedOrdered ==
  /\ cursor.control <= cursor.literals
  /\ cursor.literals <= SuffixStart(layout)
  /\ cursor.out <= TokenOutputEnd(layout)

(* Both phases end only when no stream is left. *)
LoopEnded == pc = "finish" => ~More

Inv == TypeOK /\ CommittedOrdered /\ LoopEnded /\ GroupBudget

----------------------------------------------------------------------------
(* Arithmetic *)

(* What the assumptions say of the constants. *)
LEMMA Basics ==
  /\ Chunk \in Nat \ {0} /\ Group \in Nat \ {0} /\ TokenLen \in Nat \ {0}
  /\ TokenMatchMax \in Nat \ {0} /\ MinDistance \in Nat \ {0} /\ MaxDistance \in Nat
  /\ MatchRoom \in Nat /\ StartWin \in Nat /\ ExtHeaderSize \in Nat /\ MinSuffix \in Nat
  /\ TokenLitMax \in Nat /\ InlineLitMax = TokenLitMax - 1
  /\ InlineLitMax \in Nat /\ InlineLitMax <= 2 * Chunk
  /\ MinDistance > Chunk /\ MinSuffix >= 2 * Chunk
  /\ MatchRoom >= TokenMatchMax /\ MatchRoom >= 2 * Chunk
BY FormatAssumption, HeavyAssumption
   DEF FormatConstraints, HeavyConstraints, InlineLitMax

(* The derived constants are numbers, and a group is Group - 1 longest      *)
(* tokens and a last one with the room of its chunks.                       *)
LEMMA Constants ==
  /\ TokenRoom = InlineLitMax + MatchRoom /\ TokenRoom \in Nat
  /\ TokenOutMax = InlineLitMax + TokenMatchMax /\ TokenOutMax \in Nat
  /\ TokenOutMax <= TokenRoom
  /\ GroupLits \in Nat /\ CtlWin \in Nat
  /\ (Group - 1) * TokenOutMax \in Nat
  /\ GroupOut = (Group - 1) * TokenOutMax + TokenRoom /\ GroupOut \in Nat
  /\ Group * TokenOutMax <= GroupOut
  /\ GroupSrc = CtlWin + GroupLits /\ LitWin = GroupLits + 2 * Chunk
  /\ MainWin = MaxDistance + GroupOut
  /\ StartWin >= GroupOut
<1>1. /\ TokenRoom = InlineLitMax + MatchRoom /\ TokenRoom \in Nat
      /\ TokenOutMax = InlineLitMax + TokenMatchMax /\ TokenOutMax \in Nat
      /\ TokenOutMax <= TokenRoom
  BY Basics DEF TokenRoom, TokenOutMax
<1>2. GroupLits \in Nat /\ CtlWin \in Nat
  BY Basics DEF GroupLits, CtlWin
<1>3. /\ (Group - 1) * TokenOutMax \in Nat
      /\ Group * TokenOutMax = (Group - 1) * TokenOutMax + TokenOutMax
  <2>1. Group - 1 \in Nat /\ Group - 1 < Group
    BY Basics
  <2>2. QED
    BY <2>1, <1>1, Basics, Steps
<1>4. GroupOut = (Group - 1) * TokenOutMax + TokenRoom
  BY DEF GroupOut
<1>5. StartWin >= GroupOut
  BY HeavyAssumption DEF HeavyConstraints
<1>6. QED
  BY <1>1, <1>2, <1>3, <1>4, <1>5 DEF GroupSrc, LitWin, MainWin

(* A token's lengths are in range. *)
LEMMA TokenRange ==
  ASSUME NEW t \in Tokens
  PROVE  /\ t.lit \in Nat
         /\ t.mat \in Nat /\ t.mat \in MatchLens /\ t.mat <= TokenMatchMax
         /\ t.dis \in Nat \ {0} /\ MinDistance <= t.dis /\ t.dis <= MaxDistance
<1>1. t.lit \in LitLens /\ t.mat \in MatchLens /\ t.dis \in Distances
  BY DEF Tokens
<1>2. /\ LitLens \subseteq Nat
      /\ MatchLens \subseteq 0 .. TokenMatchMax
      /\ Distances \subseteq MinDistance .. MaxDistance
  BY FormatAssumption, HeavyAssumption DEF FormatConstraints, HeavyConstraints
<1>3. t.lit \in Nat /\ t.mat \in 0 .. TokenMatchMax /\ t.dis \in MinDistance .. MaxDistance
  BY <1>1, <1>2
<1>4. QED
  BY <1>1, <1>3, Basics

(* Whole chunks: at least the bytes, and less than one chunk more. *)
LEMMA ChunksRange ==
  ASSUME NEW n \in Nat
  PROVE  /\ Chunks(n) \in Nat /\ n <= Chunks(n) /\ Chunks(n) < n + Chunk
<1> DEFINE q == (n + Chunk - 1) \div Chunk
<1>1. n + Chunk - 1 \in Nat /\ Chunk \in Nat \ {0}
  BY Basics
<1>2. q \in Nat
  BY <1>1
<1>3. q * Chunk <= n + Chunk - 1 /\ n + Chunk - 1 < q * Chunk + Chunk
  BY <1>1
<1>4. q * Chunk \in Nat
  BY <1>1, <1>2
<1>5. QED
  BY <1>1, <1>3, <1>4 DEF Chunks

(* What Group::copy moves never passes the room of a match. *)
LEMMA TouchRange ==
  ASSUME NEW t \in Tokens, TypeOK
  PROVE  /\ LitTouch(t.lit) \in Nat /\ LitTouch(t.lit) <= 2 * Chunk
         /\ MatchTouch(t.mat) \in Nat /\ MatchTouch(t.mat) <= MatchRoom
<1>1. LitTouch(t.lit) \in Nat /\ LitTouch(t.lit) <= 2 * Chunk
  BY Basics DEF LitTouch
<1>2. Chunks(t.mat) \in Nat /\ Chunks(t.mat) <= MatchRoom
  BY TokenRange, ChunksRange, HeavyAssumption DEF HeavyConstraints
<1>3. MatchTouch(t.mat) \in Nat /\ MatchTouch(t.mat) <= MatchRoom
  BY <1>2, Basics DEF MatchTouch
<1>4. QED
  BY <1>1, <1>3

----------------------------------------------------------------------------
(* One group *)

(* The state inside a group, in numbers. *)
LEMMA GroupRange ==
  ASSUME Inv, pc = "group"
  PROVE  /\ layout \in Layouts /\ tok \in Tokens /\ place \in Places
         /\ cursor.control \in Nat /\ cursor.literals \in Nat /\ cursor.out \in Nat
         /\ group.n \in Nat /\ group.lit \in Int /\ group.at \in Nat
         /\ group.n <= Group
         /\ group.at >= cursor.out
         /\ cursor.literals - cursor.control >= CtlWin + GroupLits
         /\ TokenOutputEnd(layout) - cursor.out >= GroupOut
         /\ cursor.literals <= SuffixStart(layout)
         /\ SuffixStart(layout) \in Nat /\ TokenOutputEnd(layout) \in Nat
<1>1. /\ layout \in Layouts /\ tok \in Tokens /\ place \in Places
      /\ cursor.control \in Nat /\ cursor.literals \in Nat /\ cursor.out \in Nat
      /\ group.n \in Nat /\ group.lit \in Int /\ group.at \in Nat
  BY DEF Inv, TypeOK, Cursors, Groups
<1>2. /\ group.n <= Group /\ cursor.literals <= SuffixStart(layout)
      /\ cursor.literals - cursor.control >= CtlWin + GroupLits
      /\ TokenOutputEnd(layout) - cursor.out >= GroupOut
      /\ group.at - cursor.out \in 0 .. group.n * TokenOutMax
  BY Constants DEF Inv, GroupBudget, CommittedOrdered, GroupRoom
<1>3. QED
  BY <1>1, <1>2, LayoutRange

(* With a token to go, the room for one more token is left of each budget.  *)
LEMMA NextRoom ==
  ASSUME Inv, pc = "group", group.n < Group
  PROVE  /\ (group.n + 1) * InlineLitMax \in Nat
         /\ (group.n + 1) * TokenOutMax \in Nat
         /\ group.n * TokenLen \in Nat
         /\ group.n * TokenLen + TokenLen = (group.n + 1) * TokenLen
         /\ group.n * TokenLen + TokenLen <= CtlWin
         /\ GroupLits - group.lit >= 0
         /\ GroupLits - group.lit + InlineLitMax <= (group.n + 1) * InlineLitMax
         /\ (group.n + 1) * InlineLitMax <= GroupLits
         /\ group.at >= cursor.out
         /\ group.at - cursor.out + TokenOutMax <= (group.n + 1) * TokenOutMax
         /\ (group.n + 1) * TokenOutMax <= GroupOut
         /\ group.at - cursor.out + TokenRoom <= GroupOut
<1>1. /\ GroupLits - group.lit \in 0 .. group.n * InlineLitMax
      /\ group.at - cursor.out \in 0 .. group.n * TokenOutMax
  BY DEF Inv, GroupBudget
<1>2. /\ group.n \in Nat /\ Group \in Nat /\ TokenLen \in Nat
      /\ InlineLitMax \in Nat /\ TokenOutMax \in Nat
  BY GroupRange, Basics, Constants
<1>3. /\ group.n * TokenLen \in Nat
      /\ (group.n + 1) * TokenLen = group.n * TokenLen + TokenLen
      /\ (group.n + 1) * TokenLen <= CtlWin
  BY <1>2, Steps DEF CtlWin
<1>4. /\ group.n * InlineLitMax \in Nat
      /\ (group.n + 1) * InlineLitMax = group.n * InlineLitMax + InlineLitMax
      /\ (group.n + 1) * InlineLitMax <= GroupLits
  BY <1>2, Steps DEF GroupLits
<1>5. /\ group.n * TokenOutMax \in Nat
      /\ (group.n + 1) * TokenOutMax = group.n * TokenOutMax + TokenOutMax
      /\ (group.n + 1) * TokenOutMax <= Group * TokenOutMax
      /\ group.n * TokenOutMax <= (Group - 1) * TokenOutMax
  BY <1>2, Steps
<1>6. /\ Group * TokenOutMax \in Int
      /\ (Group - 1) * TokenOutMax \in Int
  BY <1>2
<1>7. QED
  BY <1>1, <1>2, <1>3, <1>4, <1>5, <1>6, GroupRange, Constants

(* What a group has used is no more than the whole of its room. *)
LEMMA GroupUsed ==
  ASSUME Inv, pc = "group"
  PROVE  /\ group.n * TokenLen \in Nat /\ group.n * TokenLen <= CtlWin
         /\ GroupLits - group.lit \in 0 .. GroupLits
         /\ group.at - cursor.out \in 0 .. GroupOut
<1>1. /\ GroupLits - group.lit \in 0 .. group.n * InlineLitMax
      /\ group.at - cursor.out \in 0 .. group.n * TokenOutMax
  BY DEF Inv, GroupBudget
<1>2. CASE group.n = Group
  <2>1. CtlWin = Group * TokenLen /\ GroupLits = Group * InlineLitMax
    BY DEF CtlWin, GroupLits
  <2>2. QED
    BY <1>1, <1>2, <2>1, GroupRange, Constants
<1>3. CASE group.n < Group
  BY <1>3, NextRoom, GroupRange, Basics, Constants
<1>4. group.n \in Nat /\ Group \in Nat /\ group.n <= Group
  BY GroupRange, Basics
<1>5. QED
  BY <1>2, <1>3, <1>4

(* Whatever of its room a group used, the cursor it commits is ordered. *)
LEMMA CommitOrdered ==
  ASSUME Inv, pc = "group"
  PROVE  /\ Committed \in Cursors
         /\ Committed.control <= Committed.literals
         /\ Committed.literals <= SuffixStart(layout)
         /\ Committed.out <= TokenOutputEnd(layout)
<1>1. /\ cursor.control + group.n * TokenLen \in Nat
      /\ cursor.literals - (GroupLits - group.lit) \in Nat
      /\ group.at \in Nat
      /\ cursor.control + group.n * TokenLen <= cursor.literals - (GroupLits - group.lit)
      /\ cursor.literals - (GroupLits - group.lit) <= SuffixStart(layout)
      /\ group.at <= TokenOutputEnd(layout)
  BY GroupRange, GroupUsed, Constants
<1>2. QED
  BY <1>1 DEF Committed, Cursors

(* A token the group takes: how far it moves the group. *)
LEMMA TakenToken ==
  ASSUME Inv, pc = "group", group.n < Group, ~Refused(tok)
  PROVE  /\ tok.lit \in Nat /\ tok.lit <= InlineLitMax
         /\ tok.mat \in Nat \ {0} /\ tok.mat <= TokenMatchMax
         /\ tok.lit + tok.mat <= TokenOutMax
         /\ ExtBytes(tok.lit) = 0
         /\ tok.dis \in Nat /\ tok.dis > Chunk /\ tok.dis <= MaxDistance
         /\ tok.dis <= group.at + tok.lit
<1>1. ~(tok.lit > InlineLitMax) /\ tok.mat # 0 /\ ~TooFar(tok)
  BY DEF Refused
<1>2. /\ tok.lit \in Nat /\ tok.mat \in Nat \ {0} /\ tok.mat <= TokenMatchMax
      /\ tok.dis \in Nat /\ tok.dis > Chunk /\ tok.dis <= MaxDistance
  BY <1>1, GroupRange, TokenRange, Basics
<1>3. tok.lit <= InlineLitMax
  BY <1>1, <1>2, Basics
<1>4. ExtBytes(tok.lit) = 0
  BY <1>2, <1>3, Basics DEF ExtBytes
<1>5. tok.dis <= group.at + tok.lit
  <2>1. CASE place = "Start"
    BY <1>1, <1>2, <2>1, GroupRange DEF TooFar, WindowBase
  <2>2. CASE place = "Token"
    BY <1>1, <1>2, <2>2, GroupRange DEF TooFar
  <2>3. CASE place = "Main"
    <3>1. cursor.out >= MaxDistance
      BY <2>3 DEF Inv, GroupBudget, Fits
    <3>2. QED
      BY <1>2, <3>1, GroupRange, Basics
  <2>4. QED
    BY <2>1, <2>2, <2>3, GroupRange DEF Places
<1>6. QED
  BY <1>2, <1>3, <1>4, <1>5, Basics, Constants

----------------------------------------------------------------------------
(* The inductive invariant *)

LEMMA InitInv == Init => Inv
<1> SUFFICES ASSUME Init PROVE Inv
  OBVIOUS
<1>1. /\ SuffixStart(layout) \in Nat /\ ExtHeaderSize <= SuffixStart(layout)
      /\ TokenOutputEnd(layout) \in Nat
  BY LayoutRange DEF Init
<1>2. TypeOK
  BY <1>1, Basics, Constants DEF Init, TypeOK, Start, Cursors, Groups, NoGroup, Places
<1>3. CommittedOrdered
  BY <1>1, Basics DEF Init, CommittedOrdered, Start
<1>4. LoopEnded /\ GroupBudget
  BY DEF Init, LoopEnded, GroupBudget
<1>5. QED
  BY <1>2, <1>3, <1>4 DEF Inv

LEMMA NextInv == Inv /\ [Next]_vars => Inv'
<1> SUFFICES ASSUME Inv, [Next]_vars PROVE Inv'
  OBVIOUS
<1> USE DEF Inv
<1>1. CASE EnterPass \/ EnterMain
  BY <1>1 DEF EnterPass, EnterMain, TypeOK, Places, CommittedOrdered, LoopEnded,
              GroupBudget
<1>2. CASE LeaveLoop
  BY <1>2 DEF LeaveLoop, More, TypeOK, CommittedOrdered, LoopEnded, GroupBudget
<1>3. CASE BeginGroup
  <2>1. cursor.out \in Nat
    BY DEF TypeOK, Cursors
  <2>2. TypeOK'
    BY <1>3, <2>1, Constants DEF BeginGroup, TypeOK, Groups
  <2>3. CommittedOrdered' /\ LoopEnded'
    BY <1>3 DEF BeginGroup, CommittedOrdered, LoopEnded
  <2>4. GroupRoom' /\ Fits(cursor.out)'
    BY <1>3 DEF BeginGroup, GroupRoom, Fits
  <2>5. 0 * InlineLitMax = 0 /\ 0 * TokenOutMax = 0
    BY Basics, Constants
  <2>6. GroupBudget'
    BY <1>3, <2>1, <2>4, <2>5, Basics, Constants DEF BeginGroup, GroupBudget
  <2>7. QED
    BY <2>2, <2>3, <2>6
<1>4. CASE EndGroups
  BY <1>4 DEF EndGroups, NextPass, TypeOK, Places, CommittedOrdered, LoopEnded,
              GroupBudget
<1>5. CASE TakeToken
  <2>1. pc = "group" /\ group.n < Group /\ ~Refused(tok) /\ group' = GroupAfter(tok)
    BY <1>5 DEF TakeToken
  <2>2. /\ group'.n = group.n + 1
        /\ group'.lit = group.lit - tok.lit
        /\ group'.at = group.at + tok.lit + tok.mat
    BY <2>1 DEF GroupAfter
  <2>3. group' \in Groups
    BY <2>1, GroupRange, TakenToken DEF GroupAfter, Groups
  <2>4. TypeOK'
    BY <1>5, <2>3 DEF TakeToken, TypeOK
  <2>5. CommittedOrdered' /\ LoopEnded'
    BY <1>5 DEF TakeToken, CommittedOrdered, LoopEnded
  <2>6. GroupRoom' /\ Fits(cursor.out)' /\ cursor' = cursor
    BY <1>5, <2>1 DEF TakeToken, GroupRoom, Fits, GroupBudget
  <2>7. /\ group'.n <= Group
        /\ GroupLits - group'.lit \in 0 .. group'.n * InlineLitMax
        /\ group'.at - cursor.out \in 0 .. group'.n * TokenOutMax
    BY <2>1, <2>2, GroupRange, NextRoom, TakenToken, Basics, Constants
  <2>8. GroupBudget'
    BY <2>6, <2>7 DEF GroupBudget
  <2>9. QED
    BY <2>4, <2>5, <2>8
<1>6. CASE RefuseToken \/ EndGroup
  <2>1. pc = "group" /\ pc' \in {"ext", "groups"} /\ cursor' = Committed
    BY <1>6 DEF RefuseToken, EndGroup
  <2>2. /\ cursor' \in Cursors
        /\ cursor'.control <= cursor'.literals
        /\ cursor'.literals <= SuffixStart(layout)
        /\ cursor'.out <= TokenOutputEnd(layout)
    BY <2>1, CommitOrdered
  <2>3. TypeOK'
    BY <1>6, <2>1, <2>2, Constants DEF RefuseToken, EndGroup, TypeOK, NoGroup, Groups
  <2>4. CommittedOrdered'
    BY <1>6, <2>2 DEF RefuseToken, EndGroup, CommittedOrdered
  <2>5. LoopEnded' /\ GroupBudget'
    BY <2>1 DEF LoopEnded, GroupBudget
  <2>6. QED
    BY <2>3, <2>4, <2>5
<1>7. CASE AcceptStep
  <2>1. /\ Accepts(layout, cursor, tok) /\ cursor' = Advance(cursor, tok)
        /\ pc' \in {"groups", "loop"}
    BY <1>7 DEF AcceptStep
  <2>2. /\ cursor' \in Cursors
        /\ cursor'.control <= cursor'.literals
        /\ cursor'.literals <= SuffixStart(layout)
        /\ cursor'.out <= TokenOutputEnd(layout)
    BY <2>1, AdvanceOrdered DEF CommittedOrdered, TypeOK
  <2>3. TypeOK'
    BY <1>7, <2>1, <2>2 DEF AcceptStep, TypeOK
  <2>4. CommittedOrdered' /\ LoopEnded' /\ GroupBudget'
    BY <1>7, <2>1, <2>2 DEF AcceptStep, CommittedOrdered, LoopEnded, GroupBudget
  <2>5. QED
    BY <2>3, <2>4
<1>8. CASE BreakGroups
  BY <1>8 DEF BreakGroups, NextPass, TypeOK, Places, CommittedOrdered, LoopEnded,
              GroupBudget
<1>9. CASE RejectStep \/ SkipStep
  BY <1>9 DEF RejectStep, SkipStep, TypeOK, CommittedOrdered, LoopEnded, GroupBudget
<1>10. CASE Finish
  BY <1>10 DEF Finish, TypeOK, CommittedOrdered, LoopEnded, GroupBudget
<1>11. CASE UNCHANGED vars
  BY <1>11 DEF vars, TypeOK, CommittedOrdered, LoopEnded, GroupBudget, More,
               GroupRoom, Fits
<1>12. QED
  BY <1>1, <1>2, <1>3, <1>4, <1>5, <1>6, <1>7, <1>8, <1>9, <1>10, <1>11
     DEF Next, Returned

(* The invariant holds in every state of the heavy decoder. *)
THEOREM Invariance == Spec => []Inv
BY InitInv, NextInv, PTL DEF Spec, SafeSpec

(* Every variable keeps its type: in particular no cursor ever becomes      *)
(* negative, which in the code would be a wrapped subtraction.              *)
THEOREM TypeCorrect == Spec => []TypeOK
<1>1. Inv => TypeOK
  BY DEF Inv
<1>2. QED
  BY <1>1, Invariance, PTL

(* No group uses more than its share of the room, whatever its tokens, and  *)
(* it starts only where its placement may be used.                          *)
THEOREM BudgetKept == Spec => []GroupBudget
<1>1. Inv => GroupBudget
  BY DEF Inv
<1>2. QED
  BY <1>1, Invariance, PTL

----------------------------------------------------------------------------
(* Memory safety: no slice of the decoder is ever indexed outside *)

LEMMA CurrentOrdered == Inv => CursorsOrdered
<1> SUFFICES ASSUME Inv PROVE CursorsOrdered
  OBVIOUS
<1>1. CASE pc = "group"
  <2>1. Current = Committed
    BY <1>1 DEF Current
  <2>2. QED
    BY <1>1, <2>1, CommitOrdered DEF CursorsOrdered
<1>2. CASE pc # "group"
  BY <1>2 DEF Inv, CommittedOrdered, CursorsOrdered, Current
<1>3. QED
  BY <1>1, <1>2

(* The window of a group, or of a token a group takes, lies in the output,  *)
(* holds the source of the match, and has the room of one token behind it.  *)
LEMMA WindowInBounds ==
  ASSUME Inv, pc = "group", group.n < Group, place # "Token" \/ ~Refused(tok)
  PROVE  /\ WindowBase(tok) \in Nat /\ WindowLen(tok) \in Nat
         /\ WindowBase(tok) + WindowLen(tok) <= layout.dst
         /\ WindowBase(tok) <= group.at
         /\ group.at - WindowBase(tok) + TokenRoom <= WindowLen(tok)
         /\ ~Refused(tok) => WindowBase(tok) <= group.at + tok.lit - tok.dis
<1>1. /\ layout.dst \in Nat /\ TokenOutputEnd(layout) <= layout.dst
      /\ cursor.out + GroupOut <= layout.dst
  <2>1. /\ layout.dst \in Nat /\ layout.suffix \in Nat
        /\ TokenOutputEnd(layout) = layout.dst - layout.suffix
    BY GroupRange, LayoutRange
  <2>2. QED
    BY <2>1, GroupRange, Constants
<1>2. tok.lit \in Nat /\ tok.dis \in Nat /\ tok.dis <= MaxDistance
  BY GroupRange, TokenRange
<1>3. CASE place = "Start"
  <2>1. WindowBase(tok) = 0 /\ WindowLen(tok) = StartWin
    BY <1>3 DEF WindowBase, WindowLen
  <2>2. layout.dst >= StartWin /\ cursor.out <= StartWin - GroupOut
    BY <1>3 DEF Inv, GroupBudget, Fits
  <2>3. ~Refused(tok) => tok.dis <= group.at + tok.lit
    BY TakenToken
  <2>4. QED
    BY <1>1, <1>2, <2>1, <2>2, <2>3, GroupRange, NextRoom, Basics, Constants
<1>4. CASE place = "Main"
  <2>1. WindowBase(tok) = cursor.out - MaxDistance /\ WindowLen(tok) = MainWin
    BY <1>4 DEF WindowBase, WindowLen
  <2>2. cursor.out >= MaxDistance
    BY <1>4 DEF Inv, GroupBudget, Fits
  <2>3. QED
    BY <1>1, <1>2, <2>1, <2>2, GroupRange, NextRoom, Basics, Constants
<1>5. CASE place = "Token"
  <2>1. WindowBase(tok) = group.at - tok.dis /\ WindowLen(tok) = tok.dis + TokenRoom
    BY <1>5 DEF WindowBase, WindowLen
  <2>2. tok.dis <= group.at
    BY <1>2, <1>5, GroupRange DEF Refused, TooFar
  <2>3. QED
    BY <1>1, <1>2, <2>1, <2>2, GroupRange, NextRoom, Basics, Constants
<1>6. QED
  BY <1>3, <1>4, <1>5, GroupRange DEF Places

LEMMA GroupAccesses == Inv => GroupInBounds
<1> SUFFICES ASSUME Inv, pc = "group", group.n < Group PROVE GroupInBounds
  BY DEF GroupInBounds
<1>1. /\ layout.src \in Nat /\ layout.suffix \in Nat /\ layout.suffix >= 2 * Chunk
      /\ SuffixStart(layout) = layout.src - layout.suffix
  BY GroupRange, LayoutRange, Basics
<1>2. /\ Within(cursor.control, CtlWin, layout.src)
      /\ Within(cursor.literals - GroupLits, LitWin, layout.src)
  BY <1>1, GroupRange, Basics, Constants DEF Within
<1>3. Within(group.n * TokenLen, TokenLen, CtlWin)
  BY GroupRange, NextRoom, Basics, Constants DEF Within
<1>4. (place # "Token" \/ ~Refused(tok)) =>
        Within(WindowBase(tok), WindowLen(tok), layout.dst)
  BY WindowInBounds DEF Within
<1>5. CASE ~Refused(tok)
  <2>1. /\ LitTouch(tok.lit) \in Nat /\ LitTouch(tok.lit) <= 2 * Chunk
        /\ MatchTouch(tok.mat) \in Nat /\ MatchTouch(tok.mat) <= MatchRoom
    BY GroupRange, TouchRange DEF Inv
  <2>2. Within(group.lit - tok.lit, LitTouch(tok.lit), LitWin)
    BY <1>5, <2>1, GroupRange, NextRoom, TakenToken, Basics, Constants DEF Within
  <2>3. Within(group.at - WindowBase(tok), LitTouch(tok.lit), WindowLen(tok))
    BY <1>5, <2>1, GroupRange, WindowInBounds, Basics, Constants DEF Within
  <2>4. /\ Within(group.at - WindowBase(tok) + tok.lit - tok.dis,
                  MatchTouch(tok.mat), WindowLen(tok))
        /\ Within(group.at - WindowBase(tok) + tok.lit,
                  MatchTouch(tok.mat), WindowLen(tok))
    BY <1>5, <2>1, GroupRange, WindowInBounds, TakenToken, Basics, Constants DEF Within
  <2>5. QED
    BY <1>2, <1>3, <1>4, <1>5, <2>2, <2>3, <2>4 DEF GroupInBounds
<1>6. CASE Refused(tok)
  BY <1>2, <1>3, <1>4, <1>6 DEF GroupInBounds
<1>7. QED
  BY <1>5, <1>6

LEMMA StepAccesses == Inv => StepInBounds
<1> SUFFICES ASSUME Inv, Accepts(layout, cursor, tok) PROVE StepInBounds
  BY DEF StepInBounds
<1>1. /\ layout \in Layouts /\ tok \in Tokens
      /\ cursor.control \in Nat /\ cursor.literals \in Nat /\ cursor.out \in Nat
      /\ cursor.literals <= SuffixStart(layout)
  BY DEF Inv, TypeOK, Cursors, CommittedOrdered
<1>2. /\ layout.src \in Nat /\ layout.dst \in Nat /\ layout.suffix \in Nat
      /\ layout.suffix >= 2 * Chunk
      /\ SuffixStart(layout) = layout.src - layout.suffix
      /\ TokenOutputEnd(layout) = layout.dst - layout.suffix
  BY <1>1, LayoutRange, Basics
<1>3. /\ tok.lit \in Nat /\ tok.mat \in Nat /\ tok.dis \in Nat /\ tok.dis > Chunk
      /\ ExtBytes(tok.lit) \in Nat
      /\ Chunks(tok.mat) \in Nat /\ Chunks(tok.mat) < tok.mat + Chunk
  BY <1>1, TokenRange, ExtBytesRange, ChunksRange, Basics
<1>4. /\ cursor.control + TokenLen + ExtBytes(tok.lit) + tok.lit <= cursor.literals
      /\ cursor.out + tok.lit + tok.mat <= TokenOutputEnd(layout)
      /\ tok.dis <= cursor.out + tok.lit
  BY <1>1, <1>3, Basics DEF Accepts, AfterToken
<1>5. LongLiterals = 2 * Chunk
  BY DEF LongLiterals
<1>6. QED
  BY <1>1, <1>2, <1>3, <1>4, <1>5, Basics DEF StepInBounds, LitTouch, Within

(* The cursors never cross and never pass the suffix, in every state of the *)
(* heavy decoder: no subtraction of groups() or checked_step wraps.         *)
THEOREM CursorsNeverCross == Spec => []CursorsOrdered
BY CurrentOrdered, Invariance, PTL

(* Every access of a token that the heavy checked_step accepts is inside    *)
(* its slice, the last chunk of copy_match included.                        *)
THEOREM StepAccessesFit == Spec => []StepInBounds
BY StepAccesses, Invariance, PTL

(* Whatever the stream holds, the heavy decoder indexes no slice outside    *)
(* its bounds, so it never panics (SAFETY.md): the windows of a group and   *)
(* of a token, the chunks copied in them, with and without the conditional  *)
(* tail, and the wild copies of a checked step.                             *)
THEOREM MemorySafety == Spec => [](GroupInBounds /\ StepInBounds)
<1>1. Inv => GroupInBounds /\ StepInBounds
  BY GroupAccesses, StepAccesses
<1>2. QED
  BY <1>1, Invariance, PTL

----------------------------------------------------------------------------
(* Refinement: the heavy decoder is a token decoder *)

(* The format as TokenDecoder sees it is the format as HeavyDecoder does. *)
LEMMA SameFormat ==
  /\ Abstract!Tokens = Tokens
  /\ Abstract!Layouts = Layouts
  /\ \A l : Abstract!Start(l) = Start(l)
  /\ \A l, c : Abstract!Finished(l, c) = Finished(l, c)
  /\ \A l, c, t : Abstract!Accepts(l, c, t) = Accepts(l, c, t)
  /\ \A c, t : Abstract!Advance(c, t) = Advance(c, t)
BY DEF Tokens, Abstract!Tokens, Layouts, Abstract!Layouts, Start, Abstract!Start,
       SuffixStart, Abstract!SuffixStart, TokenOutputEnd, Abstract!TokenOutputEnd,
       Finished, Abstract!Finished, Accepts, Abstract!Accepts, ExtBytes,
       Abstract!ExtBytes, AfterToken, Abstract!AfterToken, Advance, Abstract!Advance

(* The group path takes only what every check would accept. *)
LEMMA TakenAccepted ==
  ASSUME Inv, pc = "group", group.n < Group, ~Refused(tok)
  PROVE  /\ Committed.control < Committed.literals
         /\ Accepts(layout, Committed, tok)
<1>1. /\ Committed.control = cursor.control + group.n * TokenLen
      /\ Committed.literals = cursor.literals - (GroupLits - group.lit)
      /\ Committed.out = group.at
  BY DEF Committed
<1>2. Committed.control + TokenLen + InlineLitMax <= Committed.literals
  BY <1>1, GroupRange, NextRoom, Basics, Constants
<1>3. Committed.out + TokenOutMax <= TokenOutputEnd(layout)
  BY <1>1, GroupRange, NextRoom, Constants
<1>4. /\ Committed.control \in Int /\ Committed.literals \in Int
      /\ Committed.out \in Int /\ TokenOutputEnd(layout) \in Nat
  BY <1>1, GroupRange, NextRoom, Constants
<1>5. QED
  BY <1>1, <1>2, <1>3, <1>4, TakenToken, Basics, Constants DEF Accepts, AfterToken

LEMMA InitRefines == Init => Abstract!Init
BY SameFormat DEF Init, Abstract!Init, Status, Current

(* The steps that neither decode a token nor find an error for good. *)
Moves ==
  \/ EnterPass \/ EnterMain \/ LeaveLoop \/ BeginGroup \/ EndGroups \/ RefuseToken
  \/ EndGroup \/ BreakGroups \/ SkipStep \/ UNCHANGED vars

(* They leave everything that TokenDecoder keeps as it was. *)
LEMMA MovesStutter ==
  ASSUME Inv, Moves
  PROVE  layout' = layout /\ tok' = tok /\ Status' = Status /\ Current' = Current
<1>1. CASE EnterPass \/ EnterMain \/ LeaveLoop
  BY <1>1 DEF EnterPass, EnterMain, LeaveLoop, Status, Current
<1>2. CASE EndGroups \/ BreakGroups \/ SkipStep
  BY <1>2 DEF EndGroups, BreakGroups, SkipStep, NextPass, Status, Current
<1>3. CASE BeginGroup
  <2>1. cursor \in Cursors
    BY DEF Inv, TypeOK
  <2>2. pc = "groups" /\ pc' = "group" /\ cursor' = cursor
    BY <1>3 DEF BeginGroup
  <2>3. group'.n = 0 /\ group'.lit = GroupLits /\ group'.at = cursor.out
    BY <1>3 DEF BeginGroup
  <2>4. Current' = [control  |-> cursor.control + 0 * TokenLen,
                    literals |-> cursor.literals - (GroupLits - GroupLits),
                    out      |-> cursor.out]
    BY <2>2, <2>3 DEF Current, Committed
  <2>5. Current' = cursor
    BY <2>1, <2>4, Basics, Constants DEF Cursors
  <2>6. QED
    BY <1>3, <2>2, <2>5 DEF BeginGroup, Status, Current
<1>4. CASE RefuseToken \/ EndGroup
  <2>1. pc = "group" /\ pc' \in {"ext", "groups"} /\ cursor' = Committed
    BY <1>4 DEF RefuseToken, EndGroup
  <2>2. Current' = Current
    BY <2>1 DEF Current
  <2>3. QED
    BY <1>4, <2>1, <2>2 DEF RefuseToken, EndGroup, Status
<1>5. CASE UNCHANGED vars
  BY <1>5 DEF vars, Status, Current, Committed
<1>6. QED
  BY <1>1, <1>2, <1>3, <1>4, <1>5 DEF Moves

(* A token is decoded where every check would accept it. *)
LEMMA TokenDecoded ==
  ASSUME Inv, TakeToken \/ AcceptStep
  PROVE  /\ Abstract!DecodeToken
         /\ Accepts(layout, Current, tok)
<1>1. CASE TakeToken
  <2>1. /\ pc = "group" /\ pc' = "group" /\ group.n < Group /\ ~Refused(tok)
        /\ group' = GroupAfter(tok) /\ tok' \in Tokens
        /\ cursor' = cursor /\ layout' = layout
    BY <1>1 DEF TakeToken
  <2>2. /\ group'.n = group.n + 1
        /\ group'.lit = group.lit - tok.lit
        /\ group'.at = group.at + tok.lit + tok.mat
    BY <2>1 DEF GroupAfter
  <2>3. Current' = [control  |-> cursor.control + group'.n * TokenLen,
                    literals |-> cursor.literals - (GroupLits - group'.lit),
                    out      |-> group'.at]
    BY <2>1 DEF Current, Committed
  <2>4. Current = Committed
    BY <2>1 DEF Current
  <2>5. Advance(Committed, tok) =
          [control  |-> cursor.control + group.n * TokenLen + TokenLen + ExtBytes(tok.lit),
           literals |-> cursor.literals - (GroupLits - group.lit) - tok.lit,
           out      |-> group.at + tok.lit + tok.mat]
    BY DEF Committed, Advance, AfterToken
  <2>6. /\ cursor.control + group'.n * TokenLen
             = cursor.control + group.n * TokenLen + TokenLen + ExtBytes(tok.lit)
        /\ cursor.literals - (GroupLits - group'.lit)
             = cursor.literals - (GroupLits - group.lit) - tok.lit
    BY <2>1, <2>2, GroupRange, NextRoom, TakenToken, Basics, Constants
  <2>7. Current' = Advance(Current, tok)
    BY <2>2, <2>3, <2>4, <2>5, <2>6
  <2>8. QED
    BY <2>1, <2>4, <2>7, TakenAccepted, SameFormat
       DEF Abstract!DecodeToken, Abstract!More, Status
<1>2. CASE AcceptStep
  <2>1. Current = cursor /\ Current' = cursor' /\ Status = "run"
    BY <1>2 DEF AcceptStep, Stepping, Current, Status
  <2>2. More
    BY <1>2, Basics DEF AcceptStep, Accepts, More, Inv, TypeOK, Cursors
  <2>3. QED
    BY <1>2, <2>1, <2>2, SameFormat
       DEF AcceptStep, Abstract!DecodeToken, Abstract!More, More, Status
<1>3. QED
  BY <1>1, <1>2

(* An error is found, and the stream is left, where TokenDecoder does. *)
LEMMA TokenRejected ==
  ASSUME Inv, RejectStep
  PROVE  Abstract!RejectToken /\ Status' = "corrupt" /\ Current' = Current
<1>1. More /\ Current = cursor /\ Current' = cursor' /\ Status = "run"
  BY DEF RejectStep, Stepping, Current, Status
<1>2. QED
  BY <1>1, SameFormat DEF RejectStep, Abstract!RejectToken, Abstract!More, More, Status

LEMMA StreamFinished ==
  ASSUME Inv, Finish
  PROVE  Abstract!Finish /\ Current = cursor /\ Current' = cursor
<1>1. ~More /\ Current = cursor /\ Current' = cursor /\ Status = "run"
  BY DEF Finish, Inv, LoopEnded, Current, Status
<1>2. QED
  BY <1>1, SameFormat DEF Finish, Abstract!Finish, Abstract!More, More, Status

LEMMA StepRefines == Inv /\ [Next]_vars => [Abstract!Next]_(Abstract!vars)
<1> SUFFICES ASSUME Inv, [Next]_vars
             PROVE  Abstract!Next \/ UNCHANGED Abstract!vars
  OBVIOUS
<1>1. CASE Moves
  BY <1>1, MovesStutter DEF Abstract!vars
<1>2. CASE TakeToken \/ AcceptStep
  BY <1>2, TokenDecoded DEF Abstract!Next
<1>3. CASE RejectStep
  BY <1>3, TokenRejected DEF Abstract!Next
<1>4. CASE Finish
  BY <1>4, StreamFinished DEF Abstract!Next
<1>5. QED
  BY <1>1, <1>2, <1>3, <1>4 DEF Next, Returned, Moves

(* The heavy decoder decodes exactly what a token-by-token decoder with     *)
(* every check decodes: the same tokens are accepted, and an invalid one is *)
(* refused at the same position, whatever pass met it first.                *)
THEOREM Implements == Spec => ImplementsTokenDecoder
<1>1. Inv /\ [Next]_vars => [Abstract!Next]_(Abstract!vars)
  BY StepRefines
<1>2. QED
  BY <1>1, InitRefines, Invariance, PTL
     DEF Spec, SafeSpec, ImplementsTokenDecoder, Abstract!Spec

----------------------------------------------------------------------------
(* Chunk copies *)

(* The buffer with the n bytes at to repeating the dis bytes before them.   *)
Repeated(buf, from, to, dis, n) ==
  [i \in DOMAIN buf |->
     IF i \in to .. to + n - 1 THEN buf[from + ((i - to) % dis)] ELSE buf[i]]

(* One chunk more. *)
LEMMA NextChunk ==
  ASSUME NEW len \in Nat, NEW buf, DOMAIN buf = 0 .. len - 1,
         NEW from \in Nat, NEW to \in Nat, NEW dis \in Nat,
         from = to - dis, Chunk < dis, NEW n \in Nat
  PROVE  CopyChunk(Repeated(buf, from, to, dis, n), from + n, to + n)
           = Repeated(buf, from, to, dis, n + Chunk)
<1> DEFINE R == Repeated(buf, from, to, dis, n)
           S == Repeated(buf, from, to, dis, n + Chunk)
<1>1. Chunk \in Nat \ {0} /\ dis \in Nat \ {0}
  BY Basics
<1>2. DOMAIN R = 0 .. len - 1 /\ DOMAIN S = 0 .. len - 1
  BY DEF Repeated
<1>3. \A i \in 0 .. len - 1 :
        R[i] = IF i \in to .. to + n - 1 THEN buf[from + ((i - to) % dis)] ELSE buf[i]
  BY DEF Repeated
<1>4. \A i \in 0 .. len - 1 :
        S[i] = IF i \in to .. to + (n + Chunk) - 1
                 THEN buf[from + ((i - to) % dis)] ELSE buf[i]
  BY DEF Repeated
<1>5. S = [i \in 0 .. len - 1 |-> S[i]]
  BY DEF Repeated
<1> HIDE DEF R, S
<1>6. ASSUME NEW i \in 0 .. len - 1
      PROVE  (IF i \in to + n .. (to + n) + Chunk - 1
                THEN R[(from + n) + (i - (to + n))] ELSE R[i]) = S[i]
  <2>1. CASE i \in to + n .. (to + n) + Chunk - 1
    <3>1. /\ (from + n) + (i - (to + n)) = i - dis
          /\ i - dis \in 0 .. len - 1 /\ i - dis < to + n
          /\ i \in to .. to + (n + Chunk) - 1
      BY <1>1, <2>1
    <3>2. CASE i - dis < to
      <4>1. /\ i - to \in 0 .. dis - 1 /\ from + (i - to) = i - dis
            /\ ~(i - dis \in to .. to + n - 1)
        BY <1>1, <2>1, <3>1, <3>2
      <4>2. R[i - dis] = buf[i - dis]
        BY <1>3, <3>1, <4>1
      <4>3. \A x \in 0 .. dis - 1 : x % dis = x
        BY <1>1
      <4>4. (i - to) % dis = i - to
        BY <4>1, <4>3
      <4>5. QED
        BY <1>4, <2>1, <3>1, <4>1, <4>2, <4>4
    <3>3. CASE ~(i - dis < to)
      <4>1. /\ i - to \in Nat /\ i - to >= dis /\ (i - dis) - to = (i - to) - dis
            /\ i - dis \in to .. to + n - 1
        BY <1>1, <2>1, <3>1, <3>3
      <4>2. R[i - dis] = buf[from + (((i - dis) - to) % dis)]
        BY <1>3, <3>1, <4>1
      <4>3. (i - to) % dis = ((i - to) - dis) % dis
        BY <1>1, <4>1, ModShift
      <4>4. QED
        BY <1>4, <2>1, <3>1, <4>1, <4>2, <4>3
    <3>4. QED
      BY <3>2, <3>3
  <2>2. CASE ~(i \in to + n .. (to + n) + Chunk - 1)
    <3>1. i \in to .. to + n - 1 <=> i \in to .. to + (n + Chunk) - 1
      BY <1>1, <2>2
    <3>2. QED
      BY <1>3, <1>4, <2>2, <3>1
  <2>3. QED
    BY <2>1, <2>2
<1>7. CopyChunk(R, from + n, to + n)
        = [i \in 0 .. len - 1 |->
             IF i \in to + n .. (to + n) + Chunk - 1
               THEN R[(from + n) + (i - (to + n))] ELSE R[i]]
  BY <1>2 DEF CopyChunk
<1>8. CopyChunk(R, from + n, to + n) = S
  BY <1>5, <1>6, <1>7, Zenon
<1>9. QED
  BY <1>8 DEF R, S

(* The bytes of k chunks. *)
Span(k) == k * Chunk

(* buf is a buffer of len bytes. *)
IsBuffer(buf, len) == buf = [i \in 0 .. len - 1 |-> buf[i]]

(* Copied in chunks, in order, a match repeats the dis bytes before it,     *)
(* however often it overlaps itself.                                        *)
LEMMA ChunksRepeat ==
  ASSUME NEW len \in Nat, NEW buf, IsBuffer(buf, len),
         NEW from \in Nat, NEW to \in Nat, NEW dis \in Nat,
         from = to - dis, Chunk < dis, NEW k \in Nat
  PROVE  CopyChunks(buf, from, to, k) = Repeated(buf, from, to, dis, Span(k))
<1> DEFINE After(b, j) == CopyChunk(b, from + (j - 1) * Chunk, to + (j - 1) * Chunk)
           Body(f) == [j \in 0 .. k |-> IF j = 0 THEN buf ELSE After(f[j - 1], j)]
           Done(j) == Repeated(buf, from, to, dis, j * Chunk)
           F == [j \in 0 .. k |-> Done(j)]
           copied == CHOOSE f : f = Body(f)
<1>1. CopyChunks(buf, from, to, k) = copied[k]
  BY DEF CopyChunks
<1>2. DOMAIN buf = 0 .. len - 1 /\ Chunk \in Nat
  BY Basics DEF IsBuffer
<1>3. Done(0) = buf
  <2>1. 0 * Chunk = 0
    BY <1>2
  <2>2. Repeated(buf, from, to, dis, 0) = [i \in 0 .. len - 1 |-> buf[i]]
    <3>1. \A i \in 0 .. len - 1 : ~(i \in to .. to + 0 - 1)
      OBVIOUS
    <3>2. QED
      BY <1>2, <3>1 DEF Repeated
  <2>3. QED
    BY <2>1, <2>2 DEF IsBuffer
<1>4. ASSUME NEW j \in 0 .. k, j # 0
      PROVE  After(Done(j - 1), j) = Done(j)
  <2> DEFINE n == (j - 1) * Chunk
  <2>1. n \in Nat /\ j * Chunk = n + Chunk
    <3>1. j - 1 \in Nat /\ j - 1 < j /\ (j - 1) + 1 = j
      BY <1>4
    <3>2. QED
      BY <1>2, <3>1, Steps
  <2> HIDE DEF n
  <2>2. CopyChunk(Repeated(buf, from, to, dis, n), from + n, to + n)
          = Repeated(buf, from, to, dis, n + Chunk)
    BY <1>2, <2>1, NextChunk
  <2>3. QED
    BY <2>1, <2>2, Zenon DEF n
<1> HIDE DEF After, Done
<1>5. F = Body(F)
  <2>1. \A j \in 0 .. k : j # 0 => j - 1 \in 0 .. k
    OBVIOUS
  <2>2. \A j \in 0 .. k : j # 0 => F[j - 1] = Done(j - 1)
    BY <2>1
  <2>3. \A j \in 0 .. k : Done(j) = IF j = 0 THEN buf ELSE After(F[j - 1], j)
    BY <1>3, <1>4, <2>2, Zenon
  <2>4. QED
    BY <2>3, Zenon
<1> HIDE DEF F
<1>6. copied = Body(copied)
  BY <1>5, Zenon
<1> HIDE DEF copied
<1>7. \A j \in 0 .. k : copied[j] = IF j = 0 THEN buf ELSE After(copied[j - 1], j)
  BY <1>6, Zenon
<1>8. \A j \in 0 .. k : copied[j] = Done(j)
  <2> DEFINE T == {j \in 0 .. k : copied[j] # Done(j)}
  <2>1. SUFFICES ASSUME T # {} PROVE FALSE
    OBVIOUS
  <2>2. T \subseteq Nat
    OBVIOUS
  <2> HIDE DEF T
  <2>3. PICK x \in T : \A y \in T : x <= y
    BY <2>1, <2>2, LeastNatural
  <2>4. x \in 0 .. k /\ copied[x] # Done(x)
    BY <2>3 DEF T
  <2>5. x # 0
    BY <1>3, <1>7, <2>4
  <2>6. x - 1 \in 0 .. k /\ ~(x - 1 \in T)
    BY <2>3, <2>4, <2>5
  <2>7. copied[x - 1] = Done(x - 1)
    BY <2>6 DEF T
  <2>8. copied[x] = Done(x)
    BY <1>4, <1>7, <2>4, <2>5, <2>7
  <2>9. QED
    BY <2>4, <2>8
<1>9. QED
  BY <1>1, <1>8 DEF Done, Span

(* Whole chunks of a length hold it. *)
LEMMA ChunksHold ==
  ASSUME NEW n \in Nat, TypeOK
  PROVE  /\ Chunks(n) \div Chunk \in Nat /\ Span(Chunks(n) \div Chunk) >= n
         /\ MatchTouch(n) \div Chunk \in Nat /\ Span(MatchTouch(n) \div Chunk) >= n
<1>1. Chunk \in Nat \ {0}
  BY Basics
<1>2. ASSUME NEW q \in Nat PROVE (q * Chunk) \div Chunk = q
  BY <1>1
<1>3. PICK q \in Nat : Chunks(n) = q * Chunk /\ q * Chunk >= n
  <2>1. (n + Chunk - 1) \div Chunk \in Nat
    BY <1>1
  <2>2. QED
    BY <2>1, ChunksRange DEF Chunks
<1>4. Chunks(n) \div Chunk \in Nat /\ Span(Chunks(n) \div Chunk) >= n
  BY <1>2, <1>3 DEF Span
<1>5. PICK r \in Nat : MatchTouch(n) = r * Chunk /\ r * Chunk >= n
  <2>1. CASE cond /\ n <= Chunk
    <3>1. MatchTouch(n) = 1 * Chunk /\ 1 * Chunk >= n
      BY <1>1, <2>1 DEF MatchTouch
    <3>2. QED
      BY <3>1
  <2>2. CASE ~(cond /\ n <= Chunk) /\ n <= 2 * Chunk
    BY <2>2, Zenon DEF MatchTouch
  <2>3. CASE ~(cond /\ n <= Chunk) /\ ~(n <= 2 * Chunk)
    BY <1>3, <2>3, Zenon DEF MatchTouch
  <2>4. QED
    BY <2>1, <2>2, <2>3
<1>6. MatchTouch(n) \div Chunk \in Nat /\ Span(MatchTouch(n) \div Chunk) >= n
  BY <1>2, <1>5 DEF Span
<1>7. QED
  BY <1>4, <1>6

----------------------------------------------------------------------------
(* The output *)

(* The buffer after the copies of a token: wild of the literals' bytes at   *)
(* out, then k chunks of the match.                                         *)
Copied(buf, out, from, wild, t, k) ==
  CopyChunks(StoreStream(buf, out, from, wild), (out + t.lit) - t.dis, out + t.lit, k)

(* What the buffer holds where a run of stream bytes was stored. *)
LEMMA StoredRun ==
  ASSUME NEW buf, NEW out \in Nat, NEW from \in Int, NEW wild \in Nat,
         NEW i \in Nat, i \in DOMAIN buf, i < out + wild
  PROVE  StoreStream(buf, out, from, wild)[i] = IF i < out THEN buf[i] ELSE from + (i - out)
<1>1. StoreStream(buf, out, from, wild)[i]
        = IF i \in out .. out + wild - 1 THEN from + (i - out) ELSE buf[i]
  BY DEF StoreStream
<1>2. i \in out .. out + wild - 1 <=> ~(i < out)
  OBVIOUS
<1>3. QED
  BY <1>1, <1>2

(* No byte of the buffer becomes anything but a byte of the stream, if the  *)
(* literals' chunks are in the stream and the match starts in the output.   *)
LEMMA CopiedType ==
  ASSUME NEW len \in Nat, NEW src \in Nat,
         NEW buf \in [0 .. len - 1 -> (0 .. src - 1) \cup {Stale}],
         NEW t \in Tokens, NEW out \in Nat, NEW from \in Nat, NEW wild \in Nat,
         NEW k \in Nat,
         from + wild <= src, t.dis <= out + t.lit, out + t.lit <= len
  PROVE  Copied(buf, out, from, wild, t, k)
           \in [0 .. len - 1 -> (0 .. src - 1) \cup {Stale}]
<1> DEFINE Bytes == (0 .. src - 1) \cup {Stale}
           stored == StoreStream(buf, out, from, wild)
           after == out + t.lit
           at == after - t.dis
           dis == t.dis
<1>1. /\ after \in Nat /\ at \in Nat /\ dis \in Nat \ {0} /\ at = after - dis /\ Chunk < dis
      /\ after <= len
  BY TokenRange, Basics
<1>2. \A i \in 0 .. len - 1 :
        (IF i \in out .. out + wild - 1 THEN from + (i - out) ELSE buf[i]) \in Bytes
  OBVIOUS
<1>3. stored \in [0 .. len - 1 -> Bytes]
  BY <1>2, Zenon DEF StoreStream
<1> HIDE DEF stored, after, at, dis, Bytes
<1>4. \A x \in Nat : x % dis \in 0 .. dis - 1
  BY <1>1
<1>5. ASSUME NEW i \in 0 .. len - 1
      PROVE  (IF i \in after .. after + Span(k) - 1
                THEN stored[at + ((i - after) % dis)] ELSE stored[i]) \in Bytes
  <2>1. ASSUME i \in after .. after + Span(k) - 1
        PROVE  at + ((i - after) % dis) \in 0 .. len - 1
    <3>1. Span(k) \in Nat
      BY Basics DEF Span
    <3>2. i - after \in Nat
      BY <1>1, <2>1, <3>1
    <3>3. (i - after) % dis \in 0 .. dis - 1
      BY <1>4, <3>2
    <3>4. QED
      BY <1>1, <3>3
  <2>2. QED
    BY <1>3, <2>1
<1>6. Repeated(stored, at, after, dis, Span(k)) \in [0 .. len - 1 -> Bytes]
  BY <1>3, <1>5, Zenon DEF Repeated
<1>7. CopyChunks(stored, at, after, k) = Repeated(stored, at, after, dis, Span(k))
  <2>1. IsBuffer(stored, len)
    BY <1>3 DEF IsBuffer
  <2>2. QED
    BY <1>1, <2>1, ChunksRepeat
<1>8. Copied(buf, out, from, wild, t, k) = CopyChunks(stored, at, after, k)
  BY DEF Copied, stored, at, after
<1>9. QED
  BY <1>6, <1>7, <1>8 DEF Bytes

(* Before the end of the token the copies leave what TokenOutput promises,  *)
(* if the chunks hold the match.                                            *)
LEMMA CopiedBytes ==
  ASSUME NEW len \in Nat, NEW buf, IsBuffer(buf, len),
         NEW c \in Cursors, NEW t \in Tokens, NEW wild \in Nat, NEW k \in Nat,
         t.lit <= wild, t.mat <= Span(k),
         t.dis <= c.out + t.lit, c.out + t.lit + t.mat <= len
  PROVE  [i \in 0 .. c.out + t.lit + t.mat - 1 |->
            Copied(buf, c.out, c.literals - t.lit, wild, t, k)[i]]
           = Promise!AfterTokenOutput([i \in 0 .. c.out - 1 |-> buf[i]], c, t)
<1> DEFINE out == c.out
           first == c.literals - t.lit
           after == out + t.lit
           dis == t.dis
           mat == t.mat
           n == Span(k)
           stored == StoreStream(buf, out, first, wild)
           literals == [i \in 0 .. after - 1 |->
                          IF i < out THEN [j \in 0 .. out - 1 |-> buf[j]][i]
                          ELSE first + (i - out)]
<1>1. /\ out \in Nat /\ first \in Int /\ after \in Nat /\ out <= after /\ after <= out + wild
      /\ dis \in Nat /\ mat \in Nat /\ n \in Nat /\ mat <= n /\ Chunk < dis /\ dis <= after
      /\ after + mat <= len /\ after <= len
  <2>1. /\ c.out \in Nat /\ c.literals \in Nat
        /\ t.lit \in Nat /\ t.mat \in Nat /\ t.dis \in Nat /\ t.dis > Chunk /\ Chunk \in Nat
    BY TokenRange, Basics DEF Cursors
  <2>2. Span(k) \in Nat
    BY <2>1 DEF Span
  <2>3. QED
    BY <2>1, <2>2
<1>2. /\ Copied(buf, c.out, c.literals - t.lit, wild, t, k)
           = CopyChunks(stored, after - dis, after, k)
      /\ (c.out + t.lit) + t.mat = after + mat
  BY DEF Copied
<1>3. Promise!AfterTokenOutput([i \in 0 .. c.out - 1 |-> buf[i]], c, t)
        = [i \in 0 .. after + mat - 1 |->
             IF i < after THEN literals[i] ELSE literals[after - dis + ((i - after) % dis)]]
  BY DEF Promise!AfterTokenOutput
<1>4. DOMAIN buf = 0 .. len - 1 /\ DOMAIN stored = 0 .. len - 1 /\ IsBuffer(stored, len)
  BY Zenon DEF StoreStream, IsBuffer
<1> HIDE DEF out, first, after, dis, mat, n
<1>5. ASSUME NEW i \in 0 .. after - 1
      PROVE  stored[i] = literals[i]
  <2>1. i \in Nat /\ i \in DOMAIN buf /\ i < out + wild
    BY <1>1, <1>4
  <2>2. stored[i] = IF i < out THEN buf[i] ELSE first + (i - out)
    BY <1>1, <2>1, StoredRun
  <2>3. i < out => i \in 0 .. out - 1
    BY <1>1
  <2>4. QED
    BY <2>2, <2>3
<1> HIDE DEF stored, literals
<1>6. CopyChunks(stored, after - dis, after, k)
        = Repeated(stored, after - dis, after, dis, Span(k))
  <2>1. after - dis \in Nat
    BY <1>1
  <2>2. QED
    BY <1>1, <1>4, <2>1, ChunksRepeat
<1>7. \A x \in Nat : x % dis \in 0 .. dis - 1
  BY <1>1, Basics
<1>8. ASSUME NEW i \in 0 .. after + mat - 1
      PROVE  CopyChunks(stored, after - dis, after, k)[i]
               = IF i < after THEN literals[i] ELSE literals[after - dis + ((i - after) % dis)]
  <2>1. i \in DOMAIN stored
    BY <1>1, <1>4
  <2>2. CopyChunks(stored, after - dis, after, k)[i]
          = IF i \in after .. after + n - 1
              THEN stored[after - dis + ((i - after) % dis)] ELSE stored[i]
    BY <1>6, <2>1 DEF Repeated, n
  <2>3. CASE i < after
    <3>1. ~(i \in after .. after + n - 1) /\ i \in 0 .. after - 1
      BY <1>1, <2>3
    <3>2. QED
      BY <1>5, <2>2, <2>3, <3>1
  <2>4. CASE ~(i < after)
    <3>1. i \in after .. after + n - 1 /\ i - after \in Nat
      BY <1>1, <2>4
    <3>2. after - dis + ((i - after) % dis) \in 0 .. after - 1
      BY <1>1, <1>7, <3>1
    <3>3. QED
      BY <1>5, <2>2, <2>4, <3>1, <3>2
  <2>5. QED
    BY <2>3, <2>4
<1>9. QED
  BY <1>2, <1>3, <1>8, Zenon DEF out, after, mat

(* The copies of a token that the decoder takes, in a group or in a checked *)
(* step, are those of Copied at the cursor: the run's chunks are inside the *)
(* stream, and there are chunks enough for the match.                       *)
LEMMA TokenCopied ==
  ASSUME Inv, OutputTakeToken \/ OutputAcceptStep
  PROVE  /\ Current \in Cursors /\ tok \in Tokens /\ layout \in Layouts
         /\ Current.literals - tok.lit \in Nat
         /\ tok.dis <= Current.out + tok.lit
         /\ Current.out + tok.lit + tok.mat <= TokenOutputEnd(layout)
         /\ \E wild \in Nat, k \in Nat :
              /\ tok.lit <= wild /\ tok.mat <= Span(k)
              /\ Current.literals - tok.lit + wild <= layout.src
              /\ dst' = Copied(dst, Current.out, Current.literals - tok.lit, wild, tok, k)
<1>1. /\ tok \in Tokens /\ layout \in Layouts /\ TypeOK
      /\ Accepts(layout, Current, tok)
  BY TokenDecoded DEF OutputTakeToken, OutputAcceptStep, Inv, TypeOK
<1>2. Current \in Cursors
  BY CommitOrdered DEF Current, Inv, TypeOK
<1>3. /\ Current.control \in Nat /\ Current.literals \in Nat /\ Current.out \in Nat
      /\ tok.lit \in Nat /\ tok.mat \in Nat /\ tok.dis \in Nat
      /\ ExtBytes(tok.lit) \in Nat /\ Chunk \in Nat /\ TokenLen \in Nat
  BY <1>1, <1>2, TokenRange, ExtBytesRange, Basics DEF Cursors
<1>4. Current.literals - tok.lit \in Nat
  BY <1>1, <1>3 DEF Accepts, AfterToken
<1>5. /\ tok.dis <= Current.out + tok.lit
      /\ Current.out + tok.lit + tok.mat <= TokenOutputEnd(layout)
  BY <1>1 DEF Accepts
<1>6. CASE OutputTakeToken
  <2>1. pc = "group" /\ group.n < Group /\ ~Refused(tok) /\ dst' = GroupBytes(tok)
    BY <1>6 DEF OutputTakeToken, TakeToken
  <2>2. /\ Current.literals = cursor.literals - (GroupLits - group.lit)
        /\ Current.out = group.at
    BY <2>1 DEF Current, Committed
  <2> DEFINE wild == LitTouch(tok.lit)
             k == MatchTouch(tok.mat) \div Chunk
  <2>3. /\ wild \in Nat /\ wild <= 2 * Chunk /\ tok.lit <= wild
        /\ k \in Nat /\ tok.mat <= Span(k)
    <3>1. tok.lit <= 2 * Chunk
      BY <1>3, <2>1, TakenToken, Basics
    <3>2. tok.lit <= wild
      BY <1>3, <3>1 DEF LitTouch
    <3>3. wild \in Nat /\ wild <= 2 * Chunk
      BY <1>1, TouchRange
    <3>4. k \in Nat /\ tok.mat <= Span(k)
      <4>1. k \in Nat /\ Span(k) >= tok.mat
        BY <1>1, <1>3, ChunksHold
      <4>2. Span(k) \in Nat
        BY <1>3, <4>1 DEF Span
      <4>3. QED
        BY <1>3, <4>1, <4>2
    <3>5. QED
      BY <3>2, <3>3, <3>4
  <2>4. dst' = Copied(dst, group.at,
                      cursor.literals - GroupLits + (group.lit - tok.lit), wild, tok, k)
    BY <2>1 DEF GroupBytes, Copied
  <2> HIDE DEF wild, k
  <2>5. /\ Current.literals - tok.lit + wild <= layout.src
        /\ cursor.literals - GroupLits + (group.lit - tok.lit) = Current.literals - tok.lit
    <3>1. /\ layout.src \in Nat /\ layout.suffix \in Nat /\ layout.suffix >= 2 * Chunk
          /\ SuffixStart(layout) = layout.src - layout.suffix
      BY <1>1, LayoutRange, Basics
    <3>2. /\ cursor.literals \in Nat /\ cursor.literals <= SuffixStart(layout)
          /\ group.lit \in Int
      BY <2>1, GroupRange
    <3>3. GroupLits \in Nat /\ GroupLits - group.lit >= 0
      BY <2>1, <3>2, GroupUsed, Constants
    <3>4. QED
      BY <1>3, <2>2, <2>3, <3>1, <3>2, <3>3
  <2>6. dst' = Copied(dst, Current.out, Current.literals - tok.lit, wild, tok, k)
    BY <2>2, <2>4, <2>5
  <2>7. QED
    BY <1>1, <1>2, <1>4, <1>5, <2>3, <2>5, <2>6
<1>7. CASE OutputAcceptStep
  <2>1. /\ pc = "ext" \/ Stepping
        /\ Accepts(layout, cursor, tok) /\ Current = cursor
        /\ dst' = StepBytes(tok)
    BY <1>7 DEF OutputAcceptStep, AcceptStep, Stepping, Current
  <2> DEFINE wild == IF tok.lit > LongLiterals THEN tok.lit ELSE LitTouch(tok.lit)
             k == Chunks(tok.mat) \div Chunk
  <2>2. wild \in Nat /\ tok.lit <= wild
    BY <1>3 DEF LongLiterals, LitTouch
  <2>3. Within(cursor.literals - tok.lit, wild, layout.src)
    BY <2>1, StepAccesses DEF StepInBounds
  <2>4. k \in Nat /\ tok.mat <= Span(k)
    <3>1. k \in Nat /\ Span(k) >= tok.mat
      BY <1>1, <1>3, ChunksHold
    <3>2. Span(k) \in Nat
      BY <1>3, <3>1 DEF Span
    <3>3. QED
      BY <1>3, <3>1, <3>2
  <2>5. dst' = Copied(dst, cursor.out, cursor.literals - tok.lit, wild, tok, k)
    BY <2>1, Zenon DEF StepBytes, CopyLiterals, Copied, LitTouch
  <2>6. Current.literals - tok.lit + wild <= layout.src
    BY <2>1, <2>3 DEF Within
  <2> HIDE DEF wild, k
  <2>7. QED
    BY <1>1, <1>2, <1>4, <1>5, <2>1, <2>2, <2>4, <2>5, <2>6
<1>8. QED
  BY <1>6, <1>7

(* What holds of the positions and of the types of the bytes. *)
OutputInv == Inv /\ OutputTypeOK

LEMMA OutputStep == [OutputNext]_outputVars => [Next]_vars
BY DEF OutputNext, OutputTakeToken, OutputAcceptStep, OutputFinish, OutputMove,
       outputVars, Next

LEMMA OutputInitInv == OutputInit => OutputInv
<1> SUFFICES ASSUME OutputInit PROVE OutputInv
  OBVIOUS
<1>1. Inv
  BY InitInv DEF OutputInit
<1>2. QED
  BY <1>1 DEF OutputInit, OutputInv, OutputTypeOK, Inv

LEMMA OutputNextInv == OutputInv /\ [OutputNext]_outputVars => OutputInv'
<1> SUFFICES ASSUME OutputInv, [OutputNext]_outputVars PROVE OutputInv'
  OBVIOUS
<1> DEFINE Bytes == (0 .. layout.src - 1) \cup {Stale}
<1>1. Inv' /\ Inv
  BY NextInv, OutputStep DEF OutputInv
<1>2. /\ layout' = layout /\ layout \in Layouts
      /\ dst \in [0 .. layout.dst - 1 -> Bytes]
  BY OutputStep
     DEF OutputInv, OutputTypeOK, TypeOK, Next, vars, EnterPass, EnterMain, LeaveLoop,
         BeginGroup, EndGroups, TakeToken, RefuseToken, EndGroup, AcceptStep, BreakGroups,
         RejectStep, SkipStep, Finish, Returned
<1>3. /\ layout.src \in Nat /\ layout.dst \in Nat /\ layout.suffix \in Nat
      /\ SuffixStart(layout) \in Nat /\ SuffixStart(layout) = layout.src - layout.suffix
      /\ TokenOutputEnd(layout) \in Nat
      /\ TokenOutputEnd(layout) = layout.dst - layout.suffix
  BY <1>2, LayoutRange
<1>4. dst' \in [0 .. layout.dst - 1 -> Bytes]
  <2>1. CASE OutputTakeToken \/ OutputAcceptStep
    <3>1. PICK wild \in Nat, k \in Nat :
            /\ Current.literals - tok.lit + wild <= layout.src
            /\ dst' = Copied(dst, Current.out, Current.literals - tok.lit, wild, tok, k)
      BY <1>1, <2>1, TokenCopied
    <3>2. /\ Current \in Cursors /\ tok \in Tokens
          /\ Current.literals - tok.lit \in Nat
          /\ tok.dis <= Current.out + tok.lit
          /\ Current.out + tok.lit + tok.mat <= TokenOutputEnd(layout)
      BY <1>1, <2>1, TokenCopied
    <3>3. /\ Current.out \in Nat /\ tok.lit \in Nat /\ tok.mat \in Nat
          /\ Current.out + tok.lit <= layout.dst
      <4>1. Current.out \in Nat /\ tok.lit \in Nat /\ tok.mat \in Nat
        BY <3>2, TokenRange DEF Cursors
      <4>2. QED
        BY <1>3, <3>2, <4>1
    <3>4. QED
      BY <1>2, <1>3, <3>1, <3>2, <3>3, CopiedType
  <2>2. CASE OutputFinish
    <3>1. \A i \in 0 .. layout.dst - 1 :
            i \in TokenOutputEnd(layout) .. TokenOutputEnd(layout) + layout.suffix - 1
              => SuffixStart(layout) + (i - TokenOutputEnd(layout)) \in Bytes
      BY <1>3
    <3>2. SuffixBytes \in [0 .. layout.dst - 1 -> Bytes]
      BY <1>2, <3>1, Zenon DEF SuffixBytes, StoreStream
    <3>3. QED
      BY <1>2, <2>2, <3>2 DEF OutputFinish
  <2>3. CASE OutputMove \/ UNCHANGED outputVars
    BY <1>2, <2>3 DEF OutputMove, outputVars
  <2>4. QED
    BY <2>1, <2>2, <2>3 DEF OutputNext
<1>5. QED
  BY <1>1, <1>2, <1>4 DEF OutputInv, OutputTypeOK, Inv

LEMMA OutputInvariance == OutputSpec => []OutputInv
BY OutputInitInv, OutputNextInv, PTL DEF OutputSpec

(* Every byte of the output is one of the stream or untouched, and no copy  *)
(* changes how long the buffer is: a byte outside the stream would be a     *)
(* read past the input slice.                                               *)
THEOREM OutputTypeCorrect == OutputSpec => []OutputTypeOK
<1>1. OutputInv => OutputTypeOK
  BY DEF OutputInv
<1>2. QED
  BY <1>1, OutputInvariance, PTL

----------------------------------------------------------------------------
(* Refinement: the bytes are the bytes a token decoder promises *)

(* TokenOutput's steps on the cursors are TokenDecoder's. *)
LEMMA SameSteps ==
  /\ Promise!Init = Abstract!Init
  /\ Promise!DecodeToken = Abstract!DecodeToken
  /\ Promise!RejectToken = Abstract!RejectToken
  /\ Promise!Finish = Abstract!Finish
  /\ Promise!vars = Abstract!vars
BY DEF Promise!Init, Abstract!Init, Promise!DecodeToken, Abstract!DecodeToken,
       Promise!RejectToken, Abstract!RejectToken, Promise!Finish, Abstract!Finish,
       Promise!vars, Abstract!vars, Promise!More, Abstract!More, Promise!Tokens,
       Abstract!Tokens, Promise!Layouts, Abstract!Layouts, Promise!Start, Abstract!Start,
       Promise!SuffixStart, Abstract!SuffixStart, Promise!TokenOutputEnd,
       Abstract!TokenOutputEnd, Promise!Finished, Abstract!Finished, Promise!Accepts,
       Abstract!Accepts, Promise!ExtBytes, Abstract!ExtBytes, Promise!AfterToken,
       Abstract!AfterToken, Promise!Advance, Abstract!Advance

LEMMA OutputInitRefines == OutputInit => Promise!OutputInit
<1> SUFFICES ASSUME OutputInit PROVE Promise!OutputInit
  OBVIOUS
<1>1. Promise!Init
  BY InitRefines, SameSteps DEF OutputInit
<1>2. pc = "loop" /\ Current.out = 0
  BY DEF OutputInit, Init, Current, Start
<1>3. Decoded = [i \in 0 .. 0 - 1 |-> dst[i]]
  BY <1>2 DEF Decoded
<1>4. 0 .. 0 - 1 = {}
  OBVIOUS
<1>5. Decoded = [i \in {} |-> 0]
  BY <1>3, <1>4
<1>6. QED
  BY <1>1, <1>5 DEF Promise!OutputInit

(* The decoded bytes after a token. *)
LEMMA TokenOutputKept ==
  ASSUME OutputInv, OutputTakeToken \/ OutputAcceptStep
  PROVE  Decoded' = Promise!AfterTokenOutput(Decoded, Current, tok)
<1>1. PICK wild \in Nat, k \in Nat :
        /\ tok.lit <= wild /\ tok.mat <= Span(k)
        /\ dst' = Copied(dst, Current.out, Current.literals - tok.lit, wild, tok, k)
  BY TokenCopied DEF OutputInv
<1>2. /\ Current \in Cursors /\ tok \in Tokens /\ layout \in Layouts
      /\ tok.dis <= Current.out + tok.lit
      /\ Current.out + tok.lit + tok.mat <= TokenOutputEnd(layout)
  BY TokenCopied DEF OutputInv
<1>3. layout.dst \in Nat /\ IsBuffer(dst, layout.dst)
  BY <1>2, LayoutRange DEF OutputInv, OutputTypeOK, IsBuffer
<1>4. Current.out + tok.lit + tok.mat <= layout.dst
  <2>1. /\ layout.suffix \in Nat /\ TokenOutputEnd(layout) = layout.dst - layout.suffix
        /\ Current.out \in Nat /\ tok.lit \in Nat /\ tok.mat \in Nat
    BY <1>2, LayoutRange, TokenRange DEF Cursors
  <2>2. QED
    BY <1>2, <1>3, <2>1
<1>6. /\ pc # "ok" /\ pc' # "ok"
      /\ Current' = Advance(Current, tok)
  BY TokenDecoded, SameFormat
     DEF OutputInv, OutputTakeToken, OutputAcceptStep, TakeToken, AcceptStep, Stepping,
         Abstract!DecodeToken
<1>7. Current'.out = Current.out + tok.lit + tok.mat
  BY <1>6 DEF Advance
<1>8. Decoded = [i \in 0 .. Current.out - 1 |-> dst[i]]
  BY <1>6 DEF Decoded
<1>9. Decoded' = [i \in 0 .. Current.out + tok.lit + tok.mat - 1 |->
                    Copied(dst, Current.out, Current.literals - tok.lit, wild, tok, k)[i]]
  <2>1. Decoded' = [i \in 0 .. Current'.out - 1 |-> dst'[i]]
    BY <1>6 DEF Decoded
  <2>2. Current'.out - 1 = Current.out + tok.lit + tok.mat - 1
    BY <1>2, <1>7, TokenRange DEF Cursors
  <2>3. QED
    BY <1>1, <2>1, <2>2
<1>10. QED
  BY <1>1, <1>2, <1>3, <1>4, <1>8, <1>9, CopiedBytes

(* The suffix completes the output where the tokens end. *)
LEMMA SuffixKept ==
  ASSUME OutputInv, OutputFinish
  PROVE  Decoded' = IF Finished(layout, Current)
                      THEN Promise!WithSuffix(layout, Decoded) ELSE Decoded
<1>1. /\ Current = cursor /\ Current' = cursor /\ layout' = layout
      /\ pc = "finish" /\ pc' = IF Finished(layout, cursor) THEN "ok" ELSE "corrupt"
      /\ dst' = IF Finished(layout, cursor) THEN SuffixBytes ELSE dst
  BY StreamFinished DEF OutputInv, OutputFinish, Finish
<1>2. /\ layout.dst \in Nat /\ layout.suffix \in Nat
      /\ TokenOutputEnd(layout) \in Nat
      /\ TokenOutputEnd(layout) = layout.dst - layout.suffix
      /\ DOMAIN dst = 0 .. layout.dst - 1
  BY LayoutRange DEF OutputInv, OutputTypeOK, TypeOK
<1>3. Decoded = [i \in 0 .. cursor.out - 1 |-> dst[i]]
  BY <1>1 DEF Decoded
<1>4. CASE Finished(layout, cursor)
  <2>1. cursor.out = TokenOutputEnd(layout)
    BY <1>4 DEF Finished
  <2>2. Decoded' = [i \in 0 .. layout.dst - 1 |-> SuffixBytes[i]]
    BY <1>1, <1>4 DEF Decoded
  <2>3. ASSUME NEW i \in 0 .. layout.dst - 1
        PROVE  SuffixBytes[i] = IF i < TokenOutputEnd(layout) THEN Decoded[i]
                                ELSE SuffixStart(layout) + (i - TokenOutputEnd(layout))
    <3>1. SuffixBytes[i]
            = IF i \in TokenOutputEnd(layout) .. TokenOutputEnd(layout) + layout.suffix - 1
                THEN SuffixStart(layout) + (i - TokenOutputEnd(layout)) ELSE dst[i]
      BY <1>2 DEF SuffixBytes, StoreStream
    <3>2. i \in TokenOutputEnd(layout) .. TokenOutputEnd(layout) + layout.suffix - 1
            <=> ~(i < TokenOutputEnd(layout))
      BY <1>2
    <3>3. i < TokenOutputEnd(layout) => Decoded[i] = dst[i]
      BY <1>2, <1>3, <2>1
    <3>4. QED
      BY <3>1, <3>2, <3>3
  <2>4. Promise!WithSuffix(layout, Decoded)
          = [i \in 0 .. layout.dst - 1 |->
               IF i < TokenOutputEnd(layout) THEN Decoded[i]
               ELSE SuffixStart(layout) + (i - TokenOutputEnd(layout))]
    BY DEF Promise!WithSuffix, Promise!TokenOutputEnd, Promise!SuffixStart,
           TokenOutputEnd, SuffixStart
  <2>5. Decoded' = Promise!WithSuffix(layout, Decoded)
    BY <2>2, <2>3, <2>4, Zenon
  <2>6. QED
    BY <1>1, <1>4, <2>5
<1>5. CASE ~Finished(layout, cursor)
  BY <1>1, <1>3, <1>5 DEF Decoded
<1>6. QED
  BY <1>4, <1>5

LEMMA OutputStepRefines ==
  OutputInv /\ [OutputNext]_outputVars => [Promise!OutputNext]_(Promise!outputVars)
<1> SUFFICES ASSUME OutputInv, [OutputNext]_outputVars
             PROVE  Promise!OutputNext \/ UNCHANGED Promise!outputVars
  OBVIOUS
<1>1. CASE OutputTakeToken \/ OutputAcceptStep
  <2>1. Promise!DecodeToken
    BY <1>1, TokenDecoded, SameSteps DEF OutputInv, OutputTakeToken, OutputAcceptStep
  <2>2. QED
    BY <1>1, <2>1, TokenOutputKept DEF Promise!OutputDecodeToken, Promise!OutputNext
<1>2. CASE OutputFinish
  <2>1. Promise!Finish
    BY <1>2, StreamFinished, SameSteps DEF OutputInv, OutputFinish
  <2>2. Promise!Finished(layout, Current) <=> Finished(layout, Current)
    BY DEF Promise!Finished, Finished, Promise!TokenOutputEnd, TokenOutputEnd
  <2>3. QED
    BY <1>2, <2>1, <2>2, SuffixKept DEF Promise!OutputFinish, Promise!OutputNext
<1>3. CASE OutputMove \/ UNCHANGED outputVars
  <2>1. dst' = dst
    BY <1>3 DEF OutputMove, outputVars
  <2>2. CASE Moves
    <3>1. layout' = layout /\ tok' = tok /\ Status' = Status /\ Current' = Current
      BY <2>2, MovesStutter DEF OutputInv
    <3>2. pc' = "ok" <=> pc = "ok"
      BY <3>1 DEF Status
    <3>3. Decoded' = Decoded
      BY <2>1, <3>1, <3>2 DEF Decoded
    <3>4. QED
      BY <3>1, <3>3 DEF Promise!outputVars, Promise!vars
  <2>3. CASE RejectStep
    <3>1. Promise!RejectToken /\ Current' = Current /\ pc # "ok" /\ pc' # "ok"
      BY <2>3, TokenRejected, SameSteps DEF OutputInv, RejectStep, Stepping
    <3>2. Decoded' = Decoded
      BY <2>1, <3>1 DEF Decoded
    <3>3. QED
      BY <3>1, <3>2 DEF Promise!OutputRejectToken, Promise!OutputNext
  <2>4. QED
    BY <1>3, <2>2, <2>3 DEF OutputMove, outputVars, Moves, Returned
<1>4. QED
  BY <1>1, <1>2, <1>3 DEF OutputNext

(* The output of the heavy decoder is byte for byte what its tokens mean:   *)
(* a match that overlaps itself repeats, whatever the chunks it is copied   *)
(* in; every chunk of it is copied, with and without the stream's flag; and *)
(* the wild ends of the copies are overwritten or lie behind the cursor.    *)
THEOREM OutputImplements == OutputSpec => ImplementsTokenOutput
<1>1. OutputInv /\ [OutputNext]_outputVars => [Promise!OutputNext]_(Promise!outputVars)
  BY OutputStepRefines
<1>2. QED
  BY <1>1, OutputInitRefines, OutputInvariance, PTL
     DEF OutputSpec, ImplementsTokenOutput, Promise!OutputSpec
=============================================================================
