------------------------- MODULE LightDecoder_proofs -------------------------
(***************************************************************************)
(* Safety of the light decoder for every value of its constants that meets *)
(* FormatAssumption and LightAssumption.                                   *)
(*                                                                         *)
(* Inside a group the code compares nothing: what holds there follows from *)
(* the room the group started with and from what one token may use.        *)
(* GroupBudget states it, Steps gives its arithmetic (the products of two  *)
(* constants), and Inv makes it inductive.                                 *)
(***************************************************************************)
EXTENDS LightOutput, TokenFormat_proofs, TLAPS

(* The committed cursor is ordered at every point of the code. *)
CommittedOrdered ==
  /\ cursor.control <= cursor.literals
  /\ cursor.literals <= SuffixStart(layout)
  /\ cursor.out <= TokenOutputEnd(layout)

(* groups::<Prefix> and groups::<Main> run only on outputs of OutWin bytes. *)
PlaceFits == place # "Whole" => layout.dst >= OutWin

(* A refused token leaves stream unread; the loop ends when none is left.   *)
PassInv ==
  /\ pc = "ext" => More
  /\ pc = "finish" => ~More

Inv == TypeOK /\ CommittedOrdered /\ PlaceFits /\ PassInv /\ GroupBudget

----------------------------------------------------------------------------
(* Arithmetic *)

(* What the assumptions say of the constants. *)
LEMMA Basics ==
  /\ Chunk \in Nat \ {0} /\ Group \in Nat \ {0} /\ TokenLen \in Nat \ {0}
  /\ ExtMax \in Nat \ {0} /\ TokenMatchMax \in Nat \ {0}
  /\ MinDistance \in Nat \ {0} /\ MaxDistance \in Nat
  /\ TokenLitMax \in Nat /\ MinSuffix \in Nat /\ ExtHeaderSize \in Nat
  /\ MinDistance > Chunk /\ MinSuffix >= Chunk
BY FormatAssumption, LightAssumption DEF FormatConstraints, LightConstraints

(* The derived constants are numbers, and one group is Group tokens. *)
LEMMA Constants ==
  /\ Chunk \in Nat \ {0} /\ Group \in Nat \ {0} /\ TokenLen \in Nat \ {0}
  /\ ExtMax \in Nat \ {0} /\ TokenMatchMax \in Nat \ {0}
  /\ MinDistance \in Nat \ {0} /\ MaxDistance \in Nat
  /\ TokenLitMax \in Nat /\ MinSuffix \in Nat /\ ExtHeaderSize \in Nat
  /\ MinDistance > Chunk /\ MinSuffix >= Chunk
  /\ GroupLitMax = Chunk
  /\ TokenOutMax = Chunk + TokenMatchMax /\ TokenOutMax \in Nat
  /\ GroupLits \in Nat /\ CtlWin \in Nat /\ GroupOut \in Nat
  /\ (Group - 1) * TokenOutMax \in Nat
  /\ GroupOut = (Group - 1) * TokenOutMax + TokenOutMax
  /\ GroupSrc = CtlWin + GroupLits /\ LitWin = GroupLits + Chunk
  /\ OutWin = MaxDistance + (Group - 1) * TokenOutMax + Chunk + Chunk
<1>1. /\ Chunk \in Nat \ {0} /\ Group \in Nat \ {0} /\ TokenLen \in Nat \ {0}
      /\ ExtMax \in Nat \ {0} /\ TokenMatchMax \in Nat \ {0}
      /\ MinDistance \in Nat \ {0} /\ MaxDistance \in Nat
      /\ TokenLitMax \in Nat /\ MinSuffix \in Nat /\ ExtHeaderSize \in Nat
      /\ MinDistance > Chunk /\ MinSuffix >= Chunk
  BY Basics
<1>2. GroupLitMax = Chunk /\ TokenOutMax = Chunk + TokenMatchMax /\ TokenOutMax \in Nat
  BY <1>1 DEF GroupLitMax, TokenOutMax
<1>3. GroupLits \in Nat /\ CtlWin \in Nat /\ GroupOut \in Nat
  BY <1>1, <1>2 DEF GroupLits, CtlWin, GroupOut
<1>4. /\ (Group - 1) * TokenOutMax \in Nat
      /\ Group * TokenOutMax = (Group - 1) * TokenOutMax + TokenOutMax
  <2>1. Group - 1 \in Nat /\ Group - 1 < Group
    BY <1>1
  <2>2. QED
    BY <2>1, <1>1, <1>2, Steps
<1>5. QED
  BY <1>1, <1>2, <1>3, <1>4 DEF GroupOut, GroupSrc, LitWin, OutWin

(* A token's lengths are in range. *)
LEMMA TokenRange ==
  ASSUME NEW t \in Tokens
  PROVE  /\ t.lit \in Nat
         /\ t.mat \in Nat \ {0} /\ t.mat <= TokenMatchMax
         /\ t.dis \in Nat \ {0} /\ MinDistance <= t.dis /\ t.dis <= MaxDistance
<1>1. t.lit \in LitLens /\ t.mat \in MatchLens /\ t.dis \in Distances
  BY DEF Tokens
<1>2. /\ LitLens \subseteq Nat
      /\ MatchLens \subseteq 1 .. TokenMatchMax
      /\ Distances \subseteq MinDistance .. MaxDistance
  BY FormatAssumption, LightAssumption DEF FormatConstraints, LightConstraints
<1>3. t.lit \in Nat /\ t.mat \in 1 .. TokenMatchMax /\ t.dis \in MinDistance .. MaxDistance
  BY <1>1, <1>2
<1>4. QED
  BY <1>3, Basics

(* A run the group takes has at most the one byte of extension it reads.   *)
LEMMA ShortExtension ==
  ASSUME NEW t \in Tokens, ~TooLong(t)
  PROVE  ExtRead(t) = ExtBytes(t.lit) /\ ExtRead(t) \in 0 .. 1
<1>1. t.lit \in Nat /\ t.lit <= GroupLitMax
  BY TokenRange, Constants DEF TooLong
<1>2. t.lit < TokenLitMax + ExtMax
  BY <1>1, LightAssumption, Constants DEF LightConstraints
<1>3. CASE t.lit >= TokenLitMax
  <2>1. t.lit - TokenLitMax \in Nat /\ t.lit - TokenLitMax < ExtMax
    BY <1>1, <1>2, <1>3, Constants
  <2>2. (t.lit - TokenLitMax) \div ExtMax = 0
    BY <2>1, Constants
  <2>3. QED
    BY <1>1, <1>3, <2>2, Constants DEF ExtRead, ExtBytes
<1>4. CASE t.lit < TokenLitMax
  BY <1>1, <1>4, Constants DEF ExtRead, ExtBytes
<1>5. QED
  BY <1>1, <1>3, <1>4, Constants

----------------------------------------------------------------------------
(* One group *)

(* The state inside a group, in numbers. *)
LEMMA GroupRange ==
  ASSUME Inv, pc = "group"
  PROVE  /\ layout \in Layouts /\ tok \in Tokens
         /\ cursor.control \in Nat /\ cursor.literals \in Nat /\ cursor.out \in Nat
         /\ group.n \in Nat /\ group.ctlAt \in Nat /\ group.lit \in Int /\ group.at \in Nat
         /\ group.n <= Group
         /\ WindowStart \in Nat /\ WindowBase \in Nat
         /\ WindowBase + WindowStart = cursor.out
         /\ WindowStart <= cursor.out
         /\ (Checked => WindowStart = cursor.out)
         /\ (~Checked => WindowStart = MaxDistance)
         /\ place = "Prefix" => cursor.out <= MaxDistance
         /\ place \in Places
         /\ cursor.literals - cursor.control >= CtlWin + GroupLits
         /\ TokenOutputEnd(layout) - cursor.out >= GroupOut
         /\ cursor.literals <= SuffixStart(layout)
<1>1. /\ layout \in Layouts /\ tok \in Tokens /\ place \in Places
      /\ cursor.control \in Nat /\ cursor.literals \in Nat /\ cursor.out \in Nat
      /\ group.n \in Nat /\ group.ctlAt \in Nat /\ group.lit \in Int /\ group.at \in Nat
  BY DEF Inv, TypeOK, Cursors, Groups
<1>2. /\ group.n <= Group /\ Fits(cursor.out) /\ cursor.literals <= SuffixStart(layout)
      /\ cursor.literals - cursor.control >= CtlWin + GroupLits
      /\ TokenOutputEnd(layout) - cursor.out >= GroupOut
  BY Constants DEF Inv, GroupBudget, CommittedOrdered, GroupRoom
<1>3. /\ WindowStart \in Nat /\ WindowBase \in Nat
      /\ WindowBase + WindowStart = cursor.out
      /\ WindowStart <= cursor.out
      /\ (Checked => WindowStart = cursor.out)
      /\ (~Checked => WindowStart = MaxDistance)
      /\ place = "Prefix" => cursor.out <= MaxDistance
  BY <1>1, <1>2, Constants DEF Fits, WindowStart, WindowBase, Checked, Places
<1>4. QED
  BY <1>1, <1>2, <1>3

(* What a group has used, and that the next token stays within the whole.   *)
LEMMA GroupUsed ==
  ASSUME Inv, pc = "group"
  PROVE  /\ group.ctlAt <= CtlWin
         /\ GroupLits - group.lit \in 0 .. GroupLits
         /\ group.at - WindowStart \in 0 .. GroupOut
<1>1. /\ group.ctlAt <= group.n * (TokenLen + 1)
      /\ GroupLits - group.lit \in 0 .. group.n * GroupLitMax
      /\ group.at - WindowStart \in 0 .. group.n * TokenOutMax
  BY DEF Inv, GroupBudget
<1>2. CASE group.n = Group
  BY <1>1, <1>2, GroupRange, Constants DEF CtlWin, GroupLits, GroupOut
<1>3. CASE group.n < Group
  <2>1. /\ group.n * (TokenLen + 1) \in Nat
        /\ (group.n + 1) * (TokenLen + 1) = group.n * (TokenLen + 1) + (TokenLen + 1)
        /\ (group.n + 1) * (TokenLen + 1) <= Group * (TokenLen + 1)
    BY <1>3, Steps, GroupRange, Constants
  <2>2. /\ group.n * GroupLitMax \in Nat
        /\ (group.n + 1) * GroupLitMax = group.n * GroupLitMax + GroupLitMax
        /\ (group.n + 1) * GroupLitMax <= Group * GroupLitMax
    BY <1>3, Steps, GroupRange, Constants
  <2>3. /\ group.n * TokenOutMax \in Nat
        /\ (group.n + 1) * TokenOutMax = group.n * TokenOutMax + TokenOutMax
        /\ (group.n + 1) * TokenOutMax <= Group * TokenOutMax
    BY <1>3, Steps, GroupRange, Constants
  <2>4. group.ctlAt <= CtlWin
    BY <1>1, <2>1, GroupRange, Constants DEF CtlWin
  <2>5. GroupLits - group.lit \in 0 .. GroupLits
    BY <1>1, <2>2, GroupRange, Constants DEF GroupLits
  <2>6. group.at - WindowStart \in 0 .. GroupOut
    BY <1>1, <2>3, GroupRange, Constants DEF GroupOut
  <2>7. QED
    BY <2>4, <2>5, <2>6
<1>4. group.n \in Nat /\ Group \in Nat /\ group.n <= Group
  BY GroupRange, Basics
<1>5. QED
  BY <1>2, <1>3, <1>4

(* With a token to go, the room for one more token is left of each budget.  *)
LEMMA NextRoom ==
  ASSUME Inv, pc = "group", group.n < Group
  PROVE  /\ (group.n + 1) * (TokenLen + 1) \in Nat
         /\ (group.n + 1) * GroupLitMax \in Nat
         /\ (group.n + 1) * TokenOutMax \in Nat
         /\ group.ctlAt + (TokenLen + 1) <= (group.n + 1) * (TokenLen + 1)
         /\ (group.n + 1) * (TokenLen + 1) <= CtlWin
         /\ GroupLits - group.lit >= 0
         /\ GroupLits - group.lit + GroupLitMax <= (group.n + 1) * GroupLitMax
         /\ (group.n + 1) * GroupLitMax <= GroupLits
         /\ group.at >= WindowStart
         /\ group.at - WindowStart + TokenOutMax <= (group.n + 1) * TokenOutMax
         /\ (group.n + 1) * TokenOutMax <= GroupOut
         /\ group.at - WindowStart <= (Group - 1) * TokenOutMax
<1>1. /\ group.ctlAt <= group.n * (TokenLen + 1)
      /\ GroupLits - group.lit \in 0 .. group.n * GroupLitMax
      /\ group.at - WindowStart \in 0 .. group.n * TokenOutMax
  BY DEF Inv, GroupBudget
<1>2. /\ group.n * (TokenLen + 1) \in Nat
      /\ (group.n + 1) * (TokenLen + 1) = group.n * (TokenLen + 1) + (TokenLen + 1)
      /\ (group.n + 1) * (TokenLen + 1) <= CtlWin
  <2>1. TokenLen + 1 \in Nat /\ Group \in Nat /\ group.n \in Nat
    BY GroupRange, Basics
  <2>2. QED
    BY <2>1, Steps DEF CtlWin
<1>3. /\ group.n * GroupLitMax \in Nat
      /\ (group.n + 1) * GroupLitMax = group.n * GroupLitMax + GroupLitMax
      /\ (group.n + 1) * GroupLitMax <= GroupLits
  BY Steps, GroupRange, Constants DEF GroupLits
<1>4. /\ group.n * TokenOutMax \in Nat
      /\ (group.n + 1) * TokenOutMax = group.n * TokenOutMax + TokenOutMax
      /\ (group.n + 1) * TokenOutMax <= GroupOut
      /\ group.n * TokenOutMax <= (Group - 1) * TokenOutMax
  BY Steps, GroupRange, Constants DEF GroupOut
<1>5. QED
  BY <1>1, <1>2, <1>3, <1>4, GroupRange, Constants

(* Whatever of its room a group used, the cursor it commits is ordered. *)
LEMMA CommitOrdered ==
  ASSUME Inv, pc = "group", NEW c \in 0 .. CtlWin
  PROVE  /\ Committed(c) \in Cursors
         /\ Committed(c).control <= Committed(c).literals
         /\ Committed(c).literals <= SuffixStart(layout)
         /\ Committed(c).out <= TokenOutputEnd(layout)
<1>1. /\ SuffixStart(layout) \in Nat /\ TokenOutputEnd(layout) \in Nat
  BY GroupRange, LayoutRange
<1>2. /\ cursor.control + c \in Nat
      /\ cursor.literals - (GroupLits - group.lit) \in Nat
      /\ cursor.out + (group.at - WindowStart) \in Nat
      /\ cursor.control + c <= cursor.literals - (GroupLits - group.lit)
      /\ cursor.literals - (GroupLits - group.lit) <= SuffixStart(layout)
      /\ cursor.out + (group.at - WindowStart) <= TokenOutputEnd(layout)
  BY <1>1, GroupRange, GroupUsed, Constants
<1>3. QED
  BY <1>2 DEF Committed, Cursors

(* A token the group takes: how far it moves the group. *)
LEMMA TakenToken ==
  ASSUME Inv, pc = "group", group.n < Group, ~Refused(tok)
  PROVE  /\ tok.lit \in Nat /\ tok.lit <= GroupLitMax
         /\ tok.mat \in Nat \ {0} /\ tok.lit + tok.mat <= TokenOutMax
         /\ ExtRead(tok) \in 0 .. 1 /\ ExtRead(tok) = ExtBytes(tok.lit)
         /\ tok.dis \in Nat /\ tok.dis > Chunk
         /\ tok.dis <= group.at + tok.lit
<1>1. ~TooLong(tok) /\ ~TooFar(tok)
  BY DEF Refused
<1>2. /\ tok.lit \in Nat /\ tok.mat \in Nat \ {0} /\ tok.mat <= TokenMatchMax
      /\ tok.dis \in Nat /\ tok.dis > Chunk /\ tok.dis <= MaxDistance
  BY GroupRange, TokenRange, Constants
<1>3. tok.lit <= GroupLitMax
  BY <1>1, <1>2, Constants DEF TooLong
<1>4. ExtRead(tok) \in 0 .. 1 /\ ExtRead(tok) = ExtBytes(tok.lit)
  BY <1>1, GroupRange, ShortExtension
<1>5. tok.dis <= group.at + tok.lit
  <2>1. CASE Checked
    BY <1>1, <1>2, <2>1, GroupRange DEF TooFar
  <2>2. CASE ~Checked
    BY <1>2, <2>2, GroupRange, NextRoom, Constants
  <2>3. QED
    BY <2>1, <2>2
<1>6. QED
  BY <1>2, <1>3, <1>4, <1>5, Constants

(* Refusing a token moves the group nowhere and leaves stream unread. *)
LEMMA RefusedRange ==
  ASSUME Inv, pc = "group", group.n < Group
  PROVE  /\ RefusedAt(tok) = group.ctlAt
         /\ RefusedAt(tok) \in 0 .. CtlWin
         /\ Committed(RefusedAt(tok)).control < Committed(RefusedAt(tok)).literals
<1>1. RefusedAt(tok) = group.ctlAt
  BY GroupRange DEF RefusedAt, ExtRead
<1>2. RefusedAt(tok) \in 0 .. CtlWin
  BY <1>1, GroupRange, GroupUsed, Constants
<1>3. cursor.control + group.ctlAt < cursor.literals - (GroupLits - group.lit)
  BY GroupRange, GroupUsed, NextRoom, Constants
<1>4. QED
  BY <1>1, <1>2, <1>3 DEF Committed

----------------------------------------------------------------------------
(* The inductive invariant *)

LEMMA InitInv == Init => Inv
<1> SUFFICES ASSUME Init PROVE Inv
  OBVIOUS
<1>1. /\ SuffixStart(layout) \in Nat /\ ExtHeaderSize <= SuffixStart(layout)
      /\ TokenOutputEnd(layout) \in Nat
  BY LayoutRange DEF Init
<1>2. TypeOK
  BY <1>1, Constants DEF Init, TypeOK, Start, Cursors, Groups, NoGroup, Places
<1>3. CommittedOrdered
  BY <1>1, Constants DEF Init, CommittedOrdered, Start
<1>4. PlaceFits /\ PassInv /\ GroupBudget
  BY DEF Init, PlaceFits, PassInv, GroupBudget
<1>5. QED
  BY <1>2, <1>3, <1>4 DEF Inv

LEMMA NextInv == Inv /\ [Next]_vars => Inv'
<1> SUFFICES ASSUME Inv, [Next]_vars PROVE Inv'
  OBVIOUS
<1> USE DEF Inv
<1>1. CASE EnterPass
  BY <1>1, Constants
     DEF EnterPass, TypeOK, Places, CommittedOrdered, PlaceFits, PassInv, GroupBudget
<1>2. CASE LeaveLoop
  BY <1>2 DEF LeaveLoop, More, TypeOK, CommittedOrdered, PlaceFits, PassInv, GroupBudget
<1>3. CASE BeginGroup
  <2>1. cursor \in Cursors /\ place \in Places
    BY DEF TypeOK
  <2>2. WindowStart \in Nat
    BY <2>1, Constants DEF WindowStart, Cursors
  <2>3. TypeOK'
    BY <1>3, <2>2, Constants DEF BeginGroup, TypeOK, Groups
  <2>4. CommittedOrdered' /\ PlaceFits' /\ PassInv'
    BY <1>3 DEF BeginGroup, CommittedOrdered, PlaceFits, PassInv
  <2>5. GroupRoom' /\ Fits(cursor.out)' /\ WindowStart' = WindowStart
    BY <1>3 DEF BeginGroup, GroupRoom, Fits, WindowStart
  <2>6. 0 * (TokenLen + 1) = 0 /\ 0 * GroupLitMax = 0 /\ 0 * TokenOutMax = 0
    BY Constants
  <2>7. GroupBudget'
    BY <1>3, <2>2, <2>5, <2>6, Constants DEF BeginGroup, GroupBudget
  <2>8. QED
    BY <2>3, <2>4, <2>7
<1>4. CASE EndGroups
  BY <1>4 DEF EndGroups, TypeOK, Places, CommittedOrdered, PlaceFits, PassInv, GroupBudget
<1>5. CASE TakeToken
  <2>1. pc = "group" /\ group.n < Group /\ ~Refused(tok) /\ group' = GroupAfter(tok)
    BY <1>5 DEF TakeToken
  <2>2. /\ group'.n = group.n + 1
        /\ group'.ctlAt = group.ctlAt + ExtRead(tok) + TokenLen
        /\ group'.lit = group.lit - tok.lit
        /\ group'.at = group.at + tok.lit + tok.mat
    BY <2>1 DEF GroupAfter
  <2>3. group' \in Groups
    BY <2>1, GroupRange, TakenToken, Constants DEF GroupAfter, Groups
  <2>4. TypeOK'
    BY <1>5, <2>3 DEF TakeToken, TypeOK
  <2>5. CommittedOrdered' /\ PlaceFits' /\ PassInv'
    BY <1>5 DEF TakeToken, CommittedOrdered, PlaceFits, PassInv
  <2>6. GroupRoom' /\ Fits(cursor.out)' /\ WindowStart' = WindowStart
    BY <1>5, <2>1 DEF TakeToken, GroupRoom, Fits, WindowStart, GroupBudget
  <2>7. /\ group'.n <= Group
        /\ group'.ctlAt <= group'.n * (TokenLen + 1)
        /\ GroupLits - group'.lit \in 0 .. group'.n * GroupLitMax
        /\ group'.at - WindowStart \in 0 .. group'.n * TokenOutMax
    BY <2>1, <2>2, GroupRange, NextRoom, TakenToken, Constants
  <2>8. GroupBudget'
    BY <2>6, <2>7 DEF GroupBudget
  <2>9. QED
    BY <2>4, <2>5, <2>8
<1>6. CASE RefuseToken
  <2>1. /\ pc = "group" /\ group.n < Group /\ pc' = "ext"
        /\ cursor' = Committed(RefusedAt(tok))
    BY <1>6 DEF RefuseToken
  <2>2. /\ cursor' \in Cursors
        /\ cursor'.control < cursor'.literals
        /\ cursor'.literals <= SuffixStart(layout)
        /\ cursor'.out <= TokenOutputEnd(layout)
    BY <2>1, RefusedRange, CommitOrdered
  <2>3. TypeOK'
    BY <1>6, <2>2, Constants DEF RefuseToken, TypeOK, NoGroup, Groups
  <2>4. CommittedOrdered' /\ PassInv'
    BY <1>6, <2>1, <2>2 DEF RefuseToken, CommittedOrdered, PassInv, More, Cursors
  <2>5. PlaceFits' /\ GroupBudget'
    BY <1>6, <2>1 DEF RefuseToken, PlaceFits, GroupBudget
  <2>6. QED
    BY <2>3, <2>4, <2>5
<1>7. CASE EndGroup
  <2>1. pc = "group" /\ pc' = "groups" /\ cursor' = Committed(group.ctlAt)
    BY <1>7 DEF EndGroup
  <2>2. group.ctlAt \in 0 .. CtlWin
    BY <2>1, GroupRange, GroupUsed, Constants
  <2>3. /\ cursor' \in Cursors
        /\ cursor'.control <= cursor'.literals
        /\ cursor'.literals <= SuffixStart(layout)
        /\ cursor'.out <= TokenOutputEnd(layout)
    BY <2>1, <2>2, CommitOrdered
  <2>4. TypeOK'
    BY <1>7, <2>3, Constants DEF EndGroup, TypeOK, NoGroup, Groups
  <2>5. CommittedOrdered' /\ PassInv' /\ PlaceFits' /\ GroupBudget'
    BY <1>7, <2>3 DEF EndGroup, CommittedOrdered, PassInv, PlaceFits, GroupBudget
  <2>6. QED
    BY <2>4, <2>5
<1>8. CASE AcceptStep
  <2>1. /\ Accepts(layout, cursor, tok) /\ cursor' = Advance(cursor, tok)
        /\ pc' \in {"groups", "loop"}
    BY <1>8 DEF AcceptStep
  <2>2. /\ cursor' \in Cursors
        /\ cursor'.control <= cursor'.literals
        /\ cursor'.literals <= SuffixStart(layout)
        /\ cursor'.out <= TokenOutputEnd(layout)
    BY <2>1, AdvanceOrdered DEF CommittedOrdered, TypeOK, Cursors
  <2>3. TypeOK'
    BY <1>8, <2>1, <2>2 DEF AcceptStep, TypeOK
  <2>4. CommittedOrdered' /\ PassInv' /\ PlaceFits' /\ GroupBudget'
    BY <1>8, <2>1, <2>2
       DEF AcceptStep, CommittedOrdered, PassInv, PlaceFits, GroupBudget
  <2>5. QED
    BY <2>3, <2>4
<1>9. CASE RejectStep
  BY <1>9 DEF RejectStep, TypeOK, CommittedOrdered, PlaceFits, PassInv, GroupBudget
<1>10. CASE SkipStep
  BY <1>10 DEF SkipStep, TypeOK, CommittedOrdered, PlaceFits, PassInv, GroupBudget
<1>11. CASE Finish
  BY <1>11 DEF Finish, TypeOK, CommittedOrdered, PlaceFits, PassInv, GroupBudget
<1>12. CASE UNCHANGED vars
  BY <1>12 DEF vars, TypeOK, CommittedOrdered, PlaceFits, PassInv, GroupBudget,
               More, GroupRoom, Fits, WindowStart
<1>13. QED
  BY <1>1, <1>2, <1>3, <1>4, <1>5, <1>6, <1>7, <1>8, <1>9, <1>10, <1>11, <1>12
     DEF Next, Returned

(* The invariant holds in every state of the light decoder. *)
THEOREM Invariance == Spec => []Inv
BY InitInv, NextInv, PTL DEF Spec, SafeSpec

(* Every variable keeps its type: in particular no cursor ever becomes      *)
(* negative, which in the code would be a wrapped subtraction.              *)
THEOREM TypeCorrect == Spec => []TypeOK
<1>1. Inv => TypeOK
  BY DEF Inv
<1>2. QED
  BY <1>1, Invariance, PTL

(* No group uses more than its share of the room, whatever its tokens.      *)
THEOREM BudgetKept == Spec => []GroupBudget
<1>1. Inv => GroupBudget
  BY DEF Inv
<1>2. QED
  BY <1>1, Invariance, PTL

----------------------------------------------------------------------------
(* Memory safety: no slice of the decoder is ever indexed outside *)

LEMMA CurrentOrdered == Inv => CursorsOrdered
<1> SUFFICES ASSUME Inv PROVE CursorsOrdered
  OBVIOUS
<1>1. CASE pc = "group"
  <2>1. group.ctlAt \in 0 .. CtlWin
    BY <1>1, GroupRange, GroupUsed, Constants
  <2>2. Current = Committed(group.ctlAt)
    BY <1>1 DEF Current
  <2>3. QED
    BY <1>1, <2>1, <2>2, CommitOrdered DEF CursorsOrdered
<1>2. CASE pc # "group"
  BY <1>2 DEF Inv, CommittedOrdered, CursorsOrdered, Current
<1>3. QED
  BY <1>1, <1>2

(* A window of a running group lies in the output. *)
LEMMA WindowInBounds ==
  ASSUME Inv, pc = "group"
  PROVE  /\ WindowLen \in Nat
         /\ WindowBase + WindowLen <= layout.dst
         /\ WindowStart + (Group - 1) * TokenOutMax + Chunk + Chunk <= WindowLen
<1>1. /\ layout.dst \in Nat /\ layout.suffix \in Nat /\ layout.suffix >= Chunk
      /\ TokenOutputEnd(layout) = layout.dst - layout.suffix
  BY GroupRange, LayoutRange, Constants
<1>2. cursor.out + (Group - 1) * TokenOutMax + TokenOutMax + Chunk <= layout.dst
  BY <1>1, GroupRange, Constants
<1>3. TokenOutMax >= Chunk
  BY Constants
<1>4. CASE place = "Whole"
  BY <1>1, <1>2, <1>3, <1>4, GroupRange, Constants
     DEF WindowLen, WindowBase, WindowStart
<1>5. CASE place = "Prefix"
  <2>1. layout.dst >= OutWin
    BY <1>5 DEF Inv, PlaceFits
  <2>2. QED
    BY <1>1, <1>5, <2>1, GroupRange, Constants DEF WindowLen, WindowBase, WindowStart
<1>6. CASE place = "Main"
  BY <1>1, <1>2, <1>3, <1>6, GroupRange, Constants
     DEF WindowLen, WindowBase, WindowStart
<1>7. QED
  BY <1>4, <1>5, <1>6, GroupRange DEF Places

LEMMA GroupBorrows == Inv => BorrowsInBounds
<1> SUFFICES ASSUME Inv, pc = "group"
             PROVE  /\ Within(cursor.control, CtlWin, layout.src)
                    /\ Within(cursor.literals - GroupLits, LitWin, layout.src)
                    /\ Within(WindowBase, WindowLen, layout.dst)
  BY DEF BorrowsInBounds
<1>1. /\ layout.src \in Nat /\ layout.suffix \in Nat /\ layout.suffix >= Chunk
      /\ SuffixStart(layout) = layout.src - layout.suffix
  BY GroupRange, LayoutRange, Constants
<1>2. /\ Within(cursor.control, CtlWin, layout.src)
      /\ Within(cursor.literals - GroupLits, LitWin, layout.src)
  BY <1>1, GroupRange, Constants DEF Within
<1>3. Within(WindowBase, WindowLen, layout.dst)
  BY GroupRange, WindowInBounds DEF Within
<1>4. QED
  BY <1>2, <1>3

LEMMA GroupCopies == Inv => GroupCopiesInBounds
<1> SUFFICES ASSUME Inv, pc = "group", group.n < Group PROVE GroupCopiesInBounds
  BY DEF GroupCopiesInBounds
<1>1. Within(group.ctlAt, TokenLen + 1, CtlWin)
  BY GroupRange, NextRoom, Constants DEF Within
<1>2. CASE ~Refused(tok)
  <2>1. Within(group.lit - tok.lit, Chunk, LitWin)
    BY <1>2, GroupRange, NextRoom, TakenToken, Constants DEF Within
  <2>2. group.at + Chunk + Chunk <= WindowLen
    BY GroupRange, NextRoom, WindowInBounds, Constants
  <2>3. /\ Within(group.at, Chunk, WindowLen)
        /\ Within(group.at + tok.lit - tok.dis, Chunk, WindowLen)
        /\ Within(group.at + tok.lit, Chunk, WindowLen)
    BY <1>2, <2>1, <2>2, GroupRange, TakenToken, WindowInBounds, Constants DEF Within
  <2>4. QED
    BY <1>1, <1>2, <2>1, <2>3 DEF GroupCopiesInBounds
<1>3. CASE Refused(tok)
  BY <1>1, <1>3 DEF GroupCopiesInBounds
<1>4. QED
  BY <1>2, <1>3

LEMMA StepCopies == Inv => StepCopiesInBounds
<1> SUFFICES ASSUME Inv, Accepts(layout, cursor, tok) PROVE StepCopiesInBounds
  BY DEF StepCopiesInBounds
<1>1. /\ layout \in Layouts /\ tok \in Tokens
      /\ cursor.control \in Nat /\ cursor.literals \in Nat /\ cursor.out \in Nat
      /\ cursor.literals <= SuffixStart(layout)
  BY DEF Inv, TypeOK, Cursors, CommittedOrdered
<1>2. /\ layout.src \in Nat /\ layout.dst \in Nat /\ layout.suffix \in Nat
      /\ layout.suffix >= Chunk
      /\ SuffixStart(layout) = layout.src - layout.suffix
      /\ TokenOutputEnd(layout) = layout.dst - layout.suffix
  BY <1>1, LayoutRange, Constants
<1>3. /\ tok.lit \in Nat /\ tok.mat \in Nat /\ tok.dis \in Nat /\ tok.dis > Chunk
      /\ ExtBytes(tok.lit) \in Nat
  BY <1>1, TokenRange, ExtBytesRange, Constants
<1>4. /\ cursor.control + TokenLen + ExtBytes(tok.lit) + tok.lit <= cursor.literals
      /\ cursor.out + tok.lit + tok.mat <= TokenOutputEnd(layout)
      /\ tok.dis <= cursor.out + tok.lit
  BY <1>1, <1>3, Constants DEF Accepts, AfterToken
<1>5. LongLiterals = 2 * Chunk
  BY DEF LongLiterals
<1>6. QED
  BY <1>1, <1>2, <1>3, <1>4, <1>5, Constants DEF StepCopiesInBounds, Within

(* The cursors never cross and never pass the suffix, in every state of the *)
(* light decoder: no subtraction of groups() or checked_step wraps.         *)
THEOREM CursorsNeverCross == Spec => []CursorsOrdered
BY CurrentOrdered, Invariance, PTL

(* array() and array_mut() find the windows of every group inside their     *)
(* slices, whichever placement groups() chose.                              *)
THEOREM BorrowsFit == Spec => []BorrowsInBounds
BY GroupBorrows, Invariance, PTL

(* Every access of a token that checked_step accepts is inside its slice,   *)
(* the chunks that are copied past its end included.                        *)
THEOREM StepCopiesFit == Spec => []StepCopiesInBounds
BY StepCopies, Invariance, PTL

(* Whatever the stream holds, the light decoder indexes no slice outside    *)
(* its bounds, so it never panics (SAFETY.md): the borrows of a group, the  *)
(* copies of a group, which have no bounds checks of their own in the array *)
(* windows, and the wild copies of a checked step.                          *)
THEOREM MemorySafety ==
  Spec => [](BorrowsInBounds /\ GroupCopiesInBounds /\ StepCopiesInBounds)
<1>1. Inv => BorrowsInBounds /\ GroupCopiesInBounds /\ StepCopiesInBounds
  BY GroupBorrows, GroupCopies, StepCopies
<1>2. QED
  BY <1>1, Invariance, PTL

----------------------------------------------------------------------------
(* Refinement: the light decoder is a token decoder *)

(* The format as TokenDecoder sees it is the format as LightDecoder does. *)
LEMMA SameFormat ==
  /\ Abstract!Tokens = Tokens
  /\ Abstract!Layouts = Layouts
  /\ \A l : Abstract!Start(l) = Start(l)
  /\ \A l, c : Abstract!Finished(l, c) = Finished(l, c)
  /\ \A l, c, t : Abstract!Accepts(l, c, t) = Accepts(l, c, t)
  /\ \A c, t : Abstract!Advance(c, t) = Advance(c, t)
BY DEF Tokens, Abstract!Tokens, Layouts, Abstract!Layouts, Start, Abstract!Start,
       SuffixStart, Abstract!SuffixStart, TokenOutputEnd, Abstract!TokenOutputEnd,
       Finished, Abstract!Finished, Accepts, Abstract!Accepts, ExtBytes,
       Abstract!ExtBytes, AfterToken, Abstract!AfterToken, Advance, Abstract!Advance

(* The group path takes only what every check would accept, and moves the   *)
(* cursors as the checked step would.                                       *)
LEMMA TakenAccepted ==
  ASSUME Inv, pc = "group", group.n < Group, ~Refused(tok)
  PROVE  /\ Current.control < Current.literals
         /\ Accepts(layout, Current, tok)
<1>1. Current = Committed(group.ctlAt)
  BY DEF Current
<1>2. /\ Current.control = cursor.control + group.ctlAt
      /\ Current.literals = cursor.literals - (GroupLits - group.lit)
      /\ Current.out = cursor.out + (group.at - WindowStart)
  BY <1>1 DEF Committed
<1>3. Current.control + (TokenLen + 1) + GroupLitMax <= Current.literals
  BY <1>2, GroupRange, NextRoom, Constants
<1>4. Current.out + TokenOutMax <= TokenOutputEnd(layout)
  <2>1. TokenOutputEnd(layout) \in Nat
    BY GroupRange, LayoutRange
  <2>2. QED
    BY <1>2, <2>1, GroupRange, NextRoom, Constants
<1>5. tok.dis <= Current.out + tok.lit
  <2>1. CASE Checked
    BY <1>2, <2>1, GroupRange, TakenToken, Constants
  <2>2. CASE ~Checked
    <3>1. cursor.out > MaxDistance
      BY <2>2, GroupRange, Constants DEF Inv, GroupBudget, Fits, Checked
    <3>2. tok.dis <= MaxDistance
      BY GroupRange, TokenRange
    <3>3. QED
      BY <1>2, <3>1, <3>2, GroupRange, NextRoom, TakenToken, Constants
  <2>3. QED
    BY <2>1, <2>2
<1>6. /\ Current.control \in Int /\ Current.literals \in Int /\ Current.out \in Int
      /\ TokenOutputEnd(layout) \in Nat
  BY <1>2, GroupRange, LayoutRange, Constants
<1>7. QED
  BY <1>3, <1>4, <1>5, <1>6, GroupRange, TakenToken, Constants
     DEF Accepts, AfterToken

LEMMA InitRefines == Init => Abstract!Init
BY SameFormat DEF Init, Abstract!Init, Status, Current

(* The steps that neither decode a token nor find an error. *)
Moves ==
  \/ EnterPass \/ LeaveLoop \/ BeginGroup \/ EndGroups \/ RefuseToken \/ EndGroup
  \/ SkipStep \/ UNCHANGED vars

(* They leave everything that TokenDecoder keeps as it was. *)
LEMMA MovesStutter ==
  ASSUME Inv, Moves
  PROVE  layout' = layout /\ tok' = tok /\ Status' = Status /\ Current' = Current
<1>1. CASE EnterPass \/ LeaveLoop \/ EndGroups \/ SkipStep
  BY <1>1 DEF EnterPass, LeaveLoop, EndGroups, SkipStep, Status, Current
<1>2. CASE BeginGroup
  <2>1. /\ cursor \in Cursors /\ WindowStart \in Nat
    BY Constants DEF Inv, TypeOK, Cursors, WindowStart
  <2>2. pc = "groups" /\ pc' = "group" /\ cursor' = cursor /\ WindowStart' = WindowStart
    BY <1>2 DEF BeginGroup, WindowStart
  <2>3. group'.ctlAt = 0 /\ group'.lit = GroupLits /\ group'.at = WindowStart
    BY <1>2 DEF BeginGroup
  <2>4. Current' = [control  |-> cursor.control + 0,
                    literals |-> cursor.literals - (GroupLits - GroupLits),
                    out      |-> cursor.out + (WindowStart - WindowStart)]
    BY <2>2, <2>3 DEF Current, Committed
  <2>5. Current' = cursor
    BY <2>1, <2>4, Constants DEF Cursors
  <2>6. QED
    BY <1>2, <2>2, <2>5 DEF BeginGroup, Status, Current
<1>3. CASE RefuseToken \/ EndGroup
  <2>1. pc = "group" /\ pc' \in {"ext", "groups"} /\ cursor' = Committed(group.ctlAt)
    BY <1>3, RefusedRange DEF RefuseToken, EndGroup
  <2>2. Current' = Current
    BY <2>1 DEF Current
  <2>3. QED
    BY <1>3, <2>1, <2>2 DEF RefuseToken, EndGroup, Status
<1>4. CASE UNCHANGED vars
  BY <1>4 DEF vars, Status, Current, Committed, WindowStart
<1>5. QED
  BY <1>1, <1>2, <1>3, <1>4 DEF Moves

(* A token is decoded where every check would accept it. *)
LEMMA TokenDecoded ==
  ASSUME Inv, TakeToken \/ AcceptStep
  PROVE  /\ Abstract!DecodeToken
         /\ Accepts(layout, Current, tok)
<1>1. CASE TakeToken
  <2>1. /\ pc = "group" /\ pc' = "group" /\ group.n < Group /\ ~Refused(tok)
        /\ group' = GroupAfter(tok) /\ tok' \in Tokens
        /\ cursor' = cursor /\ layout' = layout /\ WindowStart' = WindowStart
    BY <1>1 DEF TakeToken, WindowStart
  <2>2. /\ group'.ctlAt = group.ctlAt + ExtRead(tok) + TokenLen
        /\ group'.lit = group.lit - tok.lit
        /\ group'.at = group.at + tok.lit + tok.mat
    BY <2>1 DEF GroupAfter
  <2>3. Current' = [control  |-> cursor.control + group'.ctlAt,
                    literals |-> cursor.literals - (GroupLits - group'.lit),
                    out      |-> cursor.out + (group'.at - WindowStart)]
    BY <2>1 DEF Current, Committed
  <2>4. Advance(Current, tok) =
          [control  |-> cursor.control + group.ctlAt + TokenLen + ExtRead(tok),
           literals |-> cursor.literals - (GroupLits - group.lit) - tok.lit,
           out      |-> cursor.out + (group.at - WindowStart) + tok.lit + tok.mat]
    BY <2>1, TakenToken DEF Current, Committed, Advance, AfterToken
  <2>5. /\ cursor.control + group'.ctlAt
             = cursor.control + group.ctlAt + TokenLen + ExtRead(tok)
        /\ cursor.literals - (GroupLits - group'.lit)
             = cursor.literals - (GroupLits - group.lit) - tok.lit
        /\ cursor.out + (group'.at - WindowStart)
             = cursor.out + (group.at - WindowStart) + tok.lit + tok.mat
    BY <2>1, <2>2, GroupRange, TakenToken, Constants
  <2>6. Current' = Advance(Current, tok)
    BY <2>3, <2>4, <2>5
  <2>7. QED
    BY <2>1, <2>6, TakenAccepted, SameFormat
       DEF Abstract!DecodeToken, Abstract!More, Status
<1>2. CASE AcceptStep
  <2>1. More /\ Current = cursor /\ Current' = cursor' /\ Status = "run"
    BY <1>2 DEF AcceptStep, Stepping, Inv, PassInv, Current, Status
  <2>2. QED
    BY <1>2, <2>1, SameFormat DEF AcceptStep, Abstract!DecodeToken, Abstract!More, More, Status
<1>3. QED
  BY <1>1, <1>2

(* An error is found, and the stream is left, where TokenDecoder does. *)
LEMMA TokenRejected ==
  ASSUME Inv, RejectStep
  PROVE  Abstract!RejectToken /\ Status' = "corrupt" /\ Current' = Current
<1>1. More /\ Current = cursor /\ Current' = cursor' /\ Status = "run"
  BY DEF RejectStep, Stepping, Inv, PassInv, Current, Status
<1>2. QED
  BY <1>1, SameFormat DEF RejectStep, Abstract!RejectToken, Abstract!More, More, Status

LEMMA StreamFinished ==
  ASSUME Inv, Finish
  PROVE  Abstract!Finish /\ Current = cursor /\ Current' = cursor
<1>1. ~More /\ Current = cursor /\ Current' = cursor /\ Status = "run"
  BY DEF Finish, Inv, PassInv, Current, Status
<1>2. QED
  BY <1>1, SameFormat DEF Finish, Abstract!Finish, Abstract!More, More, Status

LEMMA StepRefines == Inv /\ [Next]_vars => [Abstract!Next]_(Abstract!vars)
<1> SUFFICES ASSUME Inv, [Next]_vars
             PROVE  Abstract!Next \/ UNCHANGED Abstract!vars
  OBVIOUS
<1>1. CASE Moves
  BY <1>1, MovesStutter DEF Abstract!vars
<1>2. CASE TakeToken \/ AcceptStep
  BY <1>2, TokenDecoded DEF Abstract!Next
<1>3. CASE RejectStep
  BY <1>3, TokenRejected DEF Abstract!Next
<1>4. CASE Finish
  BY <1>4, StreamFinished DEF Abstract!Next
<1>5. QED
  BY <1>1, <1>2, <1>3, <1>4 DEF Next, Returned, Moves

(* decompress_into decodes exactly what a token-by-token decoder with every *)
(* check decodes: the same tokens are accepted and refused, at the same     *)
(* positions, whatever the groups and the placements.                       *)
THEOREM Implements == Spec => ImplementsTokenDecoder
<1>1. Inv /\ [Next]_vars => [Abstract!Next]_(Abstract!vars)
  BY StepRefines
<1>2. QED
  BY <1>1, InitRefines, Invariance, PTL
     DEF Spec, SafeSpec, ImplementsTokenDecoder, Abstract!Spec

----------------------------------------------------------------------------
(* The output *)

(* The buffer after the copies of a token whose match is at most one chunk: *)
(* wild of the literals' bytes at out, then a chunk dis bytes before it.    *)
Copied(buf, out, from, wild, t) ==
  CopyChunk(StoreStream(buf, out, from, wild), (out + t.lit) - t.dis, out + t.lit)

(* What the buffer holds where a run of stream bytes was stored. *)
LEMMA StoredRun ==
  ASSUME NEW buf, NEW out \in Nat, NEW from \in Int, NEW wild \in Nat,
         NEW i \in Nat, i \in DOMAIN buf, i < out + wild
  PROVE  StoreStream(buf, out, from, wild)[i] = IF i < out THEN buf[i] ELSE from + (i - out)
<1>1. StoreStream(buf, out, from, wild)[i]
        = IF i \in out .. out + wild - 1 THEN from + (i - out) ELSE buf[i]
  BY DEF StoreStream
<1>2. i \in out .. out + wild - 1 <=> ~(i < out)
  OBVIOUS
<1>3. QED
  BY <1>1, <1>2

(* What it holds after one chunk was copied from before to. *)
LEMMA CopiedChunk ==
  ASSUME NEW buf, NEW from \in Nat, NEW to \in Nat, NEW dis \in Nat,
         from = to - dis, Chunk < dis,
         NEW i \in Nat, i \in DOMAIN buf, i < to + Chunk
  PROVE  /\ i < to => CopyChunk(buf, from, to)[i] = buf[i]
         /\ ~(i < to) => /\ from + ((i - to) % dis) \in 0 .. to - 1
                         /\ CopyChunk(buf, from, to)[i] = buf[from + ((i - to) % dis)]
<1>1. Chunk \in Nat
  BY Constants
<1>2. CopyChunk(buf, from, to)[i]
        = IF i \in to .. to + Chunk - 1 THEN buf[from + (i - to)] ELSE buf[i]
  BY DEF CopyChunk
<1>3. i < to => ~(i \in to .. to + Chunk - 1)
  BY <1>1
<1>4. ASSUME ~(i < to)
      PROVE  /\ i \in to .. to + Chunk - 1
             /\ (i - to) % dis = i - to
             /\ from + (i - to) \in 0 .. to - 1
  <2>1. i - to \in 0 .. dis - 1 /\ i - to < Chunk
    BY <1>1, <1>4
  <2>2. \A x \in 0 .. dis - 1 : x % dis = x
    OBVIOUS
  <2>3. (i - to) % dis = i - to
    BY <2>1, <2>2
  <2>4. i \in to .. to + Chunk - 1 /\ from + (i - to) \in 0 .. to - 1
    BY <1>1, <1>4, <2>1
  <2>5. QED
    BY <2>3, <2>4
<1>5. QED
  BY <1>2, <1>3, <1>4

(* No byte of the buffer becomes anything but a byte of the stream, if the  *)
(* copies are inside their slices.                                          *)
LEMMA CopiedType ==
  ASSUME NEW len \in Nat, NEW src \in Nat,
         NEW buf \in [0 .. len - 1 -> (0 .. src - 1) \cup {Stale}],
         NEW t \in Tokens, NEW out \in Nat, NEW from \in Nat, NEW wild \in Nat,
         from + wild <= src, t.dis <= out + t.lit, out + t.lit <= len
  PROVE  Copied(buf, out, from, wild, t) \in [0 .. len - 1 -> (0 .. src - 1) \cup {Stale}]
<1> DEFINE Bytes == (0 .. src - 1) \cup {Stale}
           stored == StoreStream(buf, out, from, wild)
           after == out + t.lit
           at == after - t.dis
<1>1. /\ after \in Nat /\ at \in Nat /\ at + Chunk <= after /\ after <= len /\ Chunk \in Nat
  BY TokenRange, Constants
<1>2. \A i \in 0 .. len - 1 :
        (IF i \in out .. out + wild - 1 THEN from + (i - out) ELSE buf[i]) \in Bytes
  OBVIOUS
<1>3. stored \in [0 .. len - 1 -> Bytes]
  BY <1>2, Zenon DEF StoreStream
<1> HIDE DEF stored, after, at, Bytes
<1>4. ASSUME NEW i \in 0 .. len - 1
      PROVE  (IF i \in after .. after + Chunk - 1 THEN stored[at + (i - after)] ELSE stored[i]) \in Bytes
  <2>1. i \in after .. after + Chunk - 1 => at + (i - after) \in 0 .. len - 1
    BY <1>1
  <2>2. QED
    BY <1>3, <2>1
<1>5. CopyChunk(stored, at, after) \in [0 .. len - 1 -> Bytes]
  BY <1>3, <1>4, Zenon DEF CopyChunk
<1>6. Copied(buf, out, from, wild, t) = CopyChunk(stored, at, after)
  BY DEF Copied, stored, at, after
<1>7. QED
  BY <1>5, <1>6 DEF Bytes

(* Before the end of the token the copies leave what TokenOutput promises:  *)
(* what was decoded before is kept, and the chunk holds decoded bytes only, *)
(* because it ends before the match begins.                                 *)
LEMMA CopiedBytes ==
  ASSUME NEW len \in Nat, NEW buf, DOMAIN buf = 0 .. len - 1,
         NEW c \in Cursors, NEW t \in Tokens, NEW wild \in Nat,
         t.lit <= wild, t.mat <= Chunk,
         t.dis <= c.out + t.lit, c.out + t.lit + t.mat <= len
  PROVE  [i \in 0 .. c.out + t.lit + t.mat - 1 |->
            Copied(buf, c.out, c.literals - t.lit, wild, t)[i]]
           = Promise!AfterTokenOutput([i \in 0 .. c.out - 1 |-> buf[i]], c, t)
<1> DEFINE out == c.out
           first == c.literals - t.lit
           after == out + t.lit
           dis == t.dis
           mat == t.mat
           stored == StoreStream(buf, out, first, wild)
           literals == [i \in 0 .. after - 1 |->
                          IF i < out THEN [j \in 0 .. out - 1 |-> buf[j]][i]
                          ELSE first + (i - out)]
<1>1. /\ out \in Nat /\ first \in Int /\ after \in Nat /\ out <= after /\ after <= out + wild
      /\ dis \in Nat /\ mat \in Nat /\ mat <= Chunk /\ Chunk < dis /\ dis <= after
      /\ after + mat <= len /\ after <= len
  <2>1. /\ c.out \in Nat /\ c.literals \in Nat
        /\ t.lit \in Nat /\ t.mat \in Nat /\ t.dis \in Nat /\ t.dis > Chunk /\ Chunk \in Nat
    BY TokenRange, Constants DEF Cursors
  <2>2. QED
    BY <2>1
<1>2. /\ Copied(buf, c.out, c.literals - t.lit, wild, t) = CopyChunk(stored, after - dis, after)
      /\ (c.out + t.lit) + t.mat = after + mat
  BY DEF Copied
<1>3. Promise!AfterTokenOutput([i \in 0 .. c.out - 1 |-> buf[i]], c, t)
        = [i \in 0 .. after + mat - 1 |->
             IF i < after THEN literals[i] ELSE literals[after - dis + ((i - after) % dis)]]
  BY DEF Promise!AfterTokenOutput
<1>4. DOMAIN stored = 0 .. len - 1
  BY DEF StoreStream
<1> HIDE DEF out, first, after, dis, mat
<1>5. ASSUME NEW i \in 0 .. after - 1
      PROVE  stored[i] = literals[i]
  <2>1. i \in Nat /\ i \in DOMAIN buf /\ i < out + wild
    BY <1>1
  <2>2. stored[i] = IF i < out THEN buf[i] ELSE first + (i - out)
    BY <1>1, <2>1, StoredRun
  <2>3. i < out => i \in 0 .. out - 1
    BY <1>1
  <2>4. QED
    BY <2>2, <2>3
<1> HIDE DEF stored, literals
<1>6. ASSUME NEW i \in 0 .. after + mat - 1
      PROVE  CopyChunk(stored, after - dis, after)[i]
               = IF i < after THEN literals[i] ELSE literals[after - dis + ((i - after) % dis)]
  <2>1. /\ i \in Nat /\ i \in DOMAIN stored /\ i < after + Chunk
        /\ after - dis \in Nat /\ Chunk \in Nat
    BY <1>1, <1>4, Basics
  <2>2. /\ i < after => CopyChunk(stored, after - dis, after)[i] = stored[i]
        /\ ~(i < after) => /\ after - dis + ((i - after) % dis) \in 0 .. after - 1
                           /\ CopyChunk(stored, after - dis, after)[i]
                                = stored[after - dis + ((i - after) % dis)]
    BY <1>1, <2>1, CopiedChunk
  <2>3. i < after => i \in 0 .. after - 1
    BY <1>1
  <2>4. QED
    BY <1>5, <2>2, <2>3
<1>7. QED
  BY <1>2, <1>3, <1>6, Zenon DEF out, after, mat

(* The copies of a token that the decoder takes, in a group or in a checked *)
(* step, are those of Copied at the cursor, with the run's chunks inside    *)
(* the stream and the match's chunk inside the output.                      *)
LEMMA TokenCopied ==
  ASSUME Inv, OutputTakeToken \/ OutputAcceptStep
  PROVE  /\ Current \in Cursors /\ tok \in Tokens /\ layout \in Layouts
         /\ Current.literals - tok.lit \in Nat
         /\ tok.dis <= Current.out + tok.lit
         /\ Current.out + tok.lit + tok.mat <= TokenOutputEnd(layout)
         /\ \E wild \in Nat :
              /\ tok.lit <= wild
              /\ Current.literals - tok.lit + wild <= layout.src
              /\ dst' = Copied(dst, Current.out, Current.literals - tok.lit, wild, tok)
<1>1. /\ tok \in Tokens /\ layout \in Layouts
      /\ Accepts(layout, Current, tok)
  BY TokenDecoded DEF OutputTakeToken, OutputAcceptStep, Inv, TypeOK
<1>2. Current \in Cursors
  <2>1. CASE pc = "group"
    <3>1. group.ctlAt \in 0 .. CtlWin
      BY <2>1, GroupRange, GroupUsed, Constants
    <3>2. QED
      BY <2>1, <3>1, CommitOrdered DEF Current
  <2>2. CASE pc # "group"
    BY <2>2 DEF Current, Inv, TypeOK
  <2>3. QED
    BY <2>1, <2>2
<1>3. /\ Current.control \in Nat /\ Current.literals \in Nat /\ Current.out \in Nat
      /\ tok.lit \in Nat /\ tok.mat \in Nat /\ tok.dis \in Nat
      /\ ExtBytes(tok.lit) \in Nat /\ Chunk \in Nat /\ TokenLen \in Nat
  BY <1>1, <1>2, TokenRange, ExtBytesRange, Constants DEF Cursors
<1>4. Current.literals - tok.lit \in Nat
  BY <1>1, <1>3 DEF Accepts, AfterToken
<1>5. /\ tok.dis <= Current.out + tok.lit
      /\ Current.out + tok.lit + tok.mat <= TokenOutputEnd(layout)
  BY <1>1 DEF Accepts
<1>6. CASE OutputTakeToken
  <2>1. pc = "group" /\ group.n < Group /\ ~Refused(tok) /\ dst' = GroupBytes(tok)
    BY <1>6 DEF OutputTakeToken, TakeToken
  <2>2. /\ Current.literals = cursor.literals - (GroupLits - group.lit)
        /\ Current.out = cursor.out + (group.at - WindowStart)
    BY <2>1 DEF Current, Committed
  <2>3. /\ tok.lit <= Chunk
        /\ Current.literals - tok.lit + Chunk <= layout.src
        /\ WindowBase + group.at = Current.out
        /\ cursor.literals - GroupLits + (group.lit - tok.lit) = Current.literals - tok.lit
    <3>1. /\ layout.src \in Nat /\ layout.suffix \in Nat /\ layout.suffix >= Chunk
          /\ SuffixStart(layout) = layout.src - layout.suffix
      BY <1>1, LayoutRange, Constants
    <3>2. /\ cursor.out \in Nat /\ cursor.literals \in Nat
          /\ cursor.literals <= SuffixStart(layout)
          /\ group.lit \in Int /\ group.at \in Nat
          /\ WindowStart \in Nat /\ WindowBase \in Nat
          /\ WindowBase + WindowStart = cursor.out
      BY <2>1, GroupRange
    <3>3. GroupLits \in Nat /\ GroupLits - group.lit >= 0
      BY <2>1, <3>2, GroupUsed, Constants
    <3>4. tok.lit <= Chunk
      BY <2>1, TakenToken, Constants
    <3>5. WindowBase + group.at = Current.out
      BY <2>2, <3>2
    <3>6. cursor.literals - GroupLits + (group.lit - tok.lit) = Current.literals - tok.lit
      BY <1>3, <2>2, <3>2, <3>3
    <3>7. Current.literals - tok.lit + Chunk <= layout.src
      BY <1>3, <2>2, <3>1, <3>2, <3>3
    <3>8. QED
      BY <3>4, <3>5, <3>6, <3>7
  <2>4. dst' = Copied(dst, WindowBase + group.at,
                      cursor.literals - GroupLits + (group.lit - tok.lit), Chunk, tok)
    BY <2>1 DEF GroupBytes, Copied
  <2>5. /\ tok.lit <= Chunk
        /\ Current.literals - tok.lit + Chunk <= layout.src
        /\ dst' = Copied(dst, Current.out, Current.literals - tok.lit, Chunk, tok)
    BY <2>3, <2>4
  <2>6. QED
    BY <1>1, <1>2, <1>3, <1>4, <1>5, <2>5
<1>7. CASE OutputAcceptStep
  <2>1. /\ Stepping /\ Accepts(layout, cursor, tok) /\ Current = cursor
        /\ dst' = StepBytes(tok)
    BY <1>7 DEF OutputAcceptStep, AcceptStep, Stepping, Current
  <2> DEFINE wild == IF tok.lit > LongLiterals THEN tok.lit
                     ELSE IF tok.lit > Chunk THEN 2 * Chunk ELSE Chunk
  <2>2. wild \in Nat /\ tok.lit <= wild
    BY <1>3 DEF LongLiterals
  <2>3. Within(cursor.literals - tok.lit, wild, layout.src)
    BY <2>1, StepCopies DEF StepCopiesInBounds
  <2>4. dst' = Copied(dst, cursor.out, cursor.literals - tok.lit, wild, tok)
    BY <2>1 DEF StepBytes, CopyLiterals, Copied
  <2>5. /\ tok.lit <= wild /\ wild \in Nat
        /\ Current.literals - tok.lit + wild <= layout.src
        /\ dst' = Copied(dst, Current.out, Current.literals - tok.lit, wild, tok)
    BY <2>1, <2>2, <2>3, <2>4 DEF Within
  <2> HIDE DEF wild
  <2>6. QED
    BY <1>1, <1>2, <1>3, <1>4, <1>5, <2>5
<1>8. QED
  BY <1>6, <1>7

(* What holds of the positions and of the types of the bytes. *)
OutputInv == Inv /\ OutputTypeOK

LEMMA OutputStep == [OutputNext]_outputVars => [Next]_vars
BY DEF OutputNext, OutputTakeToken, OutputAcceptStep, OutputFinish, OutputMove,
       outputVars, Next

LEMMA OutputInitInv == OutputInit => OutputInv
<1> SUFFICES ASSUME OutputInit PROVE OutputInv
  OBVIOUS
<1>1. Inv
  BY InitInv DEF OutputInit
<1>2. QED
  BY <1>1 DEF OutputInit, OutputInv, OutputTypeOK, Inv

LEMMA OutputNextInv == OutputInv /\ [OutputNext]_outputVars => OutputInv'
<1> SUFFICES ASSUME OutputInv, [OutputNext]_outputVars PROVE OutputInv'
  OBVIOUS
<1> DEFINE Bytes == (0 .. layout.src - 1) \cup {Stale}
<1>1. Inv' /\ Inv
  BY NextInv, OutputStep DEF OutputInv
<1>2. /\ layout' = layout /\ layout \in Layouts
      /\ dst \in [0 .. layout.dst - 1 -> Bytes]
  BY OutputStep
     DEF OutputInv, OutputTypeOK, TypeOK, Next, vars, EnterPass, LeaveLoop, BeginGroup,
         EndGroups, TakeToken, RefuseToken, EndGroup, AcceptStep, RejectStep, SkipStep,
         Finish, Returned
<1>3. /\ layout.src \in Nat /\ layout.dst \in Nat /\ layout.suffix \in Nat
      /\ SuffixStart(layout) \in Nat /\ SuffixStart(layout) = layout.src - layout.suffix
      /\ TokenOutputEnd(layout) \in Nat
      /\ TokenOutputEnd(layout) = layout.dst - layout.suffix
  BY <1>2, LayoutRange
<1>4. dst' \in [0 .. layout.dst - 1 -> Bytes]
  <2>1. CASE OutputTakeToken \/ OutputAcceptStep
    <3>1. PICK wild \in Nat :
            /\ Current.literals - tok.lit + wild <= layout.src
            /\ dst' = Copied(dst, Current.out, Current.literals - tok.lit, wild, tok)
      BY <1>1, <2>1, TokenCopied
    <3>2. /\ Current \in Cursors /\ tok \in Tokens
          /\ Current.literals - tok.lit \in Nat
          /\ tok.dis <= Current.out + tok.lit
          /\ Current.out + tok.lit + tok.mat <= TokenOutputEnd(layout)
      BY <1>1, <2>1, TokenCopied
    <3>3. /\ Current.out \in Nat /\ tok.lit \in Nat /\ tok.mat \in Nat
          /\ Current.out + tok.lit <= layout.dst
      <4>1. Current.out \in Nat /\ tok.lit \in Nat /\ tok.mat \in Nat
        BY <3>2, TokenRange DEF Cursors
      <4>2. QED
        BY <1>3, <3>2, <4>1
    <3>4. QED
      BY <1>2, <1>3, <3>1, <3>2, <3>3, CopiedType
  <2>2. CASE OutputFinish
    <3>1. \A i \in 0 .. layout.dst - 1 :
            i \in TokenOutputEnd(layout) .. TokenOutputEnd(layout) + layout.suffix - 1
              => SuffixStart(layout) + (i - TokenOutputEnd(layout)) \in Bytes
      BY <1>3
    <3>2. SuffixBytes \in [0 .. layout.dst - 1 -> Bytes]
      BY <1>2, <3>1, Zenon DEF SuffixBytes, StoreStream
    <3>3. QED
      BY <1>2, <2>2, <3>2 DEF OutputFinish
  <2>3. CASE OutputMove \/ UNCHANGED outputVars
    BY <1>2, <2>3 DEF OutputMove, outputVars
  <2>4. QED
    BY <2>1, <2>2, <2>3 DEF OutputNext
<1>5. QED
  BY <1>1, <1>2, <1>4 DEF OutputInv, OutputTypeOK, Inv

LEMMA OutputInvariance == OutputSpec => []OutputInv
BY OutputInitInv, OutputNextInv, PTL DEF OutputSpec, OutputSafeSpec

(* Every byte of the output is one of the stream or untouched, and no copy  *)
(* changes how long the buffer is: a byte outside the stream would be a     *)
(* read past the input slice.                                               *)
THEOREM OutputTypeCorrect == OutputSpec => []OutputTypeOK
<1>1. OutputInv => OutputTypeOK
  BY DEF OutputInv
<1>2. QED
  BY <1>1, OutputInvariance, PTL

----------------------------------------------------------------------------
(* Refinement: the bytes are the bytes a token decoder promises *)

(* TokenOutput's steps on the cursors are TokenDecoder's. *)
LEMMA SameSteps ==
  /\ Promise!Init = Abstract!Init
  /\ Promise!DecodeToken = Abstract!DecodeToken
  /\ Promise!RejectToken = Abstract!RejectToken
  /\ Promise!Finish = Abstract!Finish
  /\ Promise!vars = Abstract!vars
BY DEF Promise!Init, Abstract!Init, Promise!DecodeToken, Abstract!DecodeToken,
       Promise!RejectToken, Abstract!RejectToken, Promise!Finish, Abstract!Finish,
       Promise!vars, Abstract!vars, Promise!More, Abstract!More, Promise!Tokens,
       Abstract!Tokens, Promise!Layouts, Abstract!Layouts, Promise!Start, Abstract!Start,
       Promise!SuffixStart, Abstract!SuffixStart, Promise!TokenOutputEnd,
       Abstract!TokenOutputEnd, Promise!Finished, Abstract!Finished, Promise!Accepts,
       Abstract!Accepts, Promise!ExtBytes, Abstract!ExtBytes, Promise!AfterToken,
       Abstract!AfterToken, Promise!Advance, Abstract!Advance

LEMMA OutputInitRefines == OutputInit => Promise!OutputInit
<1> SUFFICES ASSUME OutputInit PROVE Promise!OutputInit
  OBVIOUS
<1>1. Promise!Init
  BY InitRefines, SameSteps DEF OutputInit
<1>2. pc = "loop" /\ Current.out = 0
  BY DEF OutputInit, Init, Current, Start
<1>3. Decoded = [i \in 0 .. 0 - 1 |-> dst[i]]
  BY <1>2 DEF Decoded
<1>4. 0 .. 0 - 1 = {}
  OBVIOUS
<1>5. Decoded = [i \in {} |-> 0]
  BY <1>3, <1>4
<1>6. QED
  BY <1>1, <1>5 DEF Promise!OutputInit

(* The decoded bytes after a token. *)
LEMMA TokenOutputKept ==
  ASSUME OutputInv, OutputTakeToken \/ OutputAcceptStep, \A m \in MatchLens : m <= Chunk
  PROVE  Decoded' = Promise!AfterTokenOutput(Decoded, Current, tok)
<1>1. PICK wild \in Nat :
        /\ tok.lit <= wild
        /\ dst' = Copied(dst, Current.out, Current.literals - tok.lit, wild, tok)
  BY TokenCopied DEF OutputInv
<1>2. /\ Current \in Cursors /\ tok \in Tokens /\ layout \in Layouts
      /\ tok.dis <= Current.out + tok.lit
      /\ Current.out + tok.lit + tok.mat <= TokenOutputEnd(layout)
  BY TokenCopied DEF OutputInv
<1>3. layout.dst \in Nat /\ DOMAIN dst = 0 .. layout.dst - 1
  BY <1>2, LayoutRange DEF OutputInv, OutputTypeOK
<1>4. Current.out + tok.lit + tok.mat <= layout.dst
  <2>1. /\ layout.suffix \in Nat /\ TokenOutputEnd(layout) = layout.dst - layout.suffix
        /\ Current.out \in Nat /\ tok.lit \in Nat /\ tok.mat \in Nat
    BY <1>2, LayoutRange, TokenRange DEF Cursors
  <2>2. QED
    BY <1>2, <1>3, <2>1
<1>5. tok.mat <= Chunk
  BY <1>2 DEF Tokens
<1>6. /\ pc # "ok" /\ pc' # "ok"
      /\ Current' = Advance(Current, tok)
  BY TokenDecoded, SameFormat
     DEF OutputInv, OutputTakeToken, OutputAcceptStep, TakeToken, AcceptStep, Stepping,
         Abstract!DecodeToken
<1>7. Current'.out = Current.out + tok.lit + tok.mat
  BY <1>6 DEF Advance
<1>8. Decoded = [i \in 0 .. Current.out - 1 |-> dst[i]]
  BY <1>6 DEF Decoded
<1>9. Decoded' = [i \in 0 .. Current.out + tok.lit + tok.mat - 1 |->
                    Copied(dst, Current.out, Current.literals - tok.lit, wild, tok)[i]]
  <2>1. Decoded' = [i \in 0 .. Current'.out - 1 |-> dst'[i]]
    BY <1>6 DEF Decoded
  <2>2. Current'.out - 1 = Current.out + tok.lit + tok.mat - 1
    BY <1>2, <1>7, TokenRange DEF Cursors
  <2>3. QED
    BY <1>1, <2>1, <2>2
<1>10. QED
  BY <1>1, <1>2, <1>3, <1>4, <1>5, <1>8, <1>9, CopiedBytes

(* The suffix completes the output where the tokens end. *)
LEMMA SuffixKept ==
  ASSUME OutputInv, OutputFinish
  PROVE  Decoded' = IF Finished(layout, Current)
                      THEN Promise!WithSuffix(layout, Decoded) ELSE Decoded
<1>1. /\ Current = cursor /\ Current' = cursor /\ layout' = layout
      /\ pc = "finish" /\ pc' = IF Finished(layout, cursor) THEN "ok" ELSE "corrupt"
      /\ dst' = IF Finished(layout, cursor) THEN SuffixBytes ELSE dst
  BY StreamFinished DEF OutputInv, OutputFinish, Finish
<1>2. /\ layout.dst \in Nat /\ layout.suffix \in Nat
      /\ TokenOutputEnd(layout) \in Nat
      /\ TokenOutputEnd(layout) = layout.dst - layout.suffix
      /\ DOMAIN dst = 0 .. layout.dst - 1
  BY LayoutRange DEF OutputInv, OutputTypeOK, TypeOK
<1>3. Decoded = [i \in 0 .. cursor.out - 1 |-> dst[i]]
  BY <1>1 DEF Decoded
<1>4. CASE Finished(layout, cursor)
  <2>1. cursor.out = TokenOutputEnd(layout)
    BY <1>4 DEF Finished
  <2>2. Decoded' = [i \in 0 .. layout.dst - 1 |-> SuffixBytes[i]]
    BY <1>1, <1>4 DEF Decoded
  <2>3. ASSUME NEW i \in 0 .. layout.dst - 1
        PROVE  SuffixBytes[i] = IF i < TokenOutputEnd(layout) THEN Decoded[i]
                                ELSE SuffixStart(layout) + (i - TokenOutputEnd(layout))
    <3>1. SuffixBytes[i]
            = IF i \in TokenOutputEnd(layout) .. TokenOutputEnd(layout) + layout.suffix - 1
                THEN SuffixStart(layout) + (i - TokenOutputEnd(layout)) ELSE dst[i]
      BY <1>2 DEF SuffixBytes, StoreStream
    <3>2. i \in TokenOutputEnd(layout) .. TokenOutputEnd(layout) + layout.suffix - 1
            <=> ~(i < TokenOutputEnd(layout))
      BY <1>2
    <3>3. i < TokenOutputEnd(layout) => Decoded[i] = dst[i]
      BY <1>2, <1>3, <2>1
    <3>4. QED
      BY <3>1, <3>2, <3>3
  <2>4. Promise!WithSuffix(layout, Decoded)
          = [i \in 0 .. layout.dst - 1 |->
               IF i < TokenOutputEnd(layout) THEN Decoded[i]
               ELSE SuffixStart(layout) + (i - TokenOutputEnd(layout))]
    BY DEF Promise!WithSuffix, Promise!TokenOutputEnd, Promise!SuffixStart,
           TokenOutputEnd, SuffixStart
  <2>5. Decoded' = Promise!WithSuffix(layout, Decoded)
    BY <2>2, <2>3, <2>4, Zenon
  <2>6. QED
    BY <1>1, <1>4, <2>5
<1>5. CASE ~Finished(layout, cursor)
  BY <1>1, <1>3, <1>5 DEF Decoded
<1>6. QED
  BY <1>4, <1>5

LEMMA OutputStepRefines ==
  ASSUME \A m \in MatchLens : m <= Chunk
  PROVE  OutputInv /\ [OutputNext]_outputVars => [Promise!OutputNext]_(Promise!outputVars)
<1> SUFFICES ASSUME OutputInv, [OutputNext]_outputVars
             PROVE  Promise!OutputNext \/ UNCHANGED Promise!outputVars
  OBVIOUS
<1>1. CASE OutputTakeToken \/ OutputAcceptStep
  <2>1. Promise!DecodeToken
    BY <1>1, TokenDecoded, SameSteps DEF OutputInv, OutputTakeToken, OutputAcceptStep
  <2>2. QED
    BY <1>1, <2>1, TokenOutputKept DEF Promise!OutputDecodeToken, Promise!OutputNext
<1>2. CASE OutputFinish
  <2>1. Promise!Finish
    BY <1>2, StreamFinished, SameSteps DEF OutputInv, OutputFinish
  <2>2. Promise!Finished(layout, Current) <=> Finished(layout, Current)
    BY DEF Promise!Finished, Finished, Promise!TokenOutputEnd, TokenOutputEnd
  <2>3. QED
    BY <1>2, <2>1, <2>2, SuffixKept DEF Promise!OutputFinish, Promise!OutputNext
<1>3. CASE OutputMove \/ UNCHANGED outputVars
  <2>1. dst' = dst
    BY <1>3 DEF OutputMove, outputVars
  <2>2. CASE Moves
    <3>1. layout' = layout /\ tok' = tok /\ Status' = Status /\ Current' = Current
      BY <2>2, MovesStutter DEF OutputInv
    <3>2. pc' = "ok" <=> pc = "ok"
      BY <3>1 DEF Status
    <3>3. Decoded' = Decoded
      BY <2>1, <3>1, <3>2 DEF Decoded
    <3>4. QED
      BY <3>1, <3>3 DEF Promise!outputVars, Promise!vars
  <2>3. CASE RejectStep
    <3>1. Promise!RejectToken /\ Current' = Current /\ pc # "ok" /\ pc' # "ok"
      BY <2>3, TokenRejected, SameSteps DEF OutputInv, RejectStep, Stepping
    <3>2. Decoded' = Decoded
      BY <2>1, <3>1 DEF Decoded
    <3>3. QED
      BY <3>1, <3>2 DEF Promise!OutputRejectToken, Promise!OutputNext
  <2>4. QED
    BY <1>3, <2>2, <2>3 DEF OutputMove, outputVars, Moves, Returned
<1>4. QED
  BY <1>1, <1>2, <1>3 DEF OutputNext

(* As long as no match is longer than one chunk, the output of the light    *)
(* decoder is byte for byte what its tokens mean: the wild ends of the      *)
(* copies are overwritten or lie behind the cursor, and no match reads one. *)
(* The code lets a token mean 33 or 34 bytes and copies 32: then the        *)
(* theorem's hypothesis fails, and so does AllWritten.                      *)
THEOREM OutputImplements ==
  ASSUME \A m \in MatchLens : m <= Chunk
  PROVE  OutputSpec => ImplementsTokenOutput
<1>1. OutputInv /\ [OutputNext]_outputVars => [Promise!OutputNext]_(Promise!outputVars)
  BY OutputStepRefines
<1>2. QED
  BY <1>1, OutputInitRefines, OutputInvariance, PTL
     DEF OutputSpec, OutputSafeSpec, ImplementsTokenOutput, Promise!OutputSpec
=============================================================================
