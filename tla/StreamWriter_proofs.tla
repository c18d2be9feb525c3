------------------------- MODULE StreamWriter_proofs -------------------------
(***************************************************************************)
(* The compression bound suffices, for every format that meets             *)
(* FormatAssumption and WriterAssumption: whatever tokens are written, the *)
(* overhead they have had is at most one byte per BoundDiv bytes of the    *)
(* input they cover.  With it, a stream that was written decodes to the    *)
(* input: the set of the tokens written so far, each with the cursor it    *)
(* was written at, is a chain from the start of the stream to its end, and *)
(* the bytes of every link stay where the decoder looks for them.          *)
(***************************************************************************)
EXTENDS RoundTrip, TokenFormat_proofs, TLAPS

\* Bytes in the buffer beyond the header and beyond the input they stand for.
Overhead == tokens + (cap - literals) - ExtHeaderSize - at

(* The overhead is paid for, and a suffix is left. *)
Paid ==
  pc = "write" =>
    /\ size > RawLimit
    /\ at <= size - MinSuffix
    /\ literals <= cap
    /\ ExtHeaderSize <= tokens
    /\ BoundDiv * Overhead <= at

BufferHolds == cap >= Bound(size)

NotStarted == pc = "start" => at = 0

Inv == TypeOK /\ BufferHolds /\ NotStarted /\ Paid /\ BoundHolds

----------------------------------------------------------------------------
LEMMA Constants ==
  /\ ExtHeaderSize \in Nat /\ RawLimit \in Nat /\ MinSuffix \in Nat
  /\ TokenLitMax \in Nat /\ TokenLen \in Nat \ {0} /\ ExtMax \in Nat \ {0}
  /\ HeaderSize \in Nat /\ BoundPad \in Nat
  /\ MinMatch \in Nat \ {0} /\ BoundDiv \in Nat \ {0}
  /\ HeaderSize <= ExtHeaderSize /\ MinSuffix <= RawLimit
  /\ BoundDiv <= ExtMax
  /\ TokenLen + 1 <= MinMatch \/ (TokenLen <= MinMatch /\ BoundDiv <= TokenLitMax)
  /\ DstLens \subseteq Nat
BY FormatAssumption, WriterAssumption DEF FormatConstraints, WriterConstraints

(* A quotient is the largest multiplier that fits. *)
LEMMA Quotient ==
  ASSUME NEW d \in Nat \ {0}, NEW x \in Int, NEW c \in Nat, d * x <= c
  PROVE  c \div d \in Nat /\ x <= c \div d
<1> DEFINE q == c \div d
<1>1. q \in Nat /\ c < d * q + d
  OBVIOUS
<1>2. CASE x > q
  <2>1. x - (q + 1) \in Nat
    BY <1>1, <1>2
  <2>2. d * (x - (q + 1)) >= 0
    BY <2>1
  <2>3. d * (x - (q + 1)) = d * x - (d * q + d)
    BY <1>1
  <2>4. QED
    BY <1>1, <2>2, <2>3
<1>3. QED
  BY <1>1, <1>2

(* Multiples of the divisor by something never exceed the dividend. *)
LEMMA Product ==
  ASSUME NEW d \in Nat \ {0}, NEW c \in Nat
  PROVE  c \div d \in Nat /\ d * (c \div d) <= c
OBVIOUS

LEMMA NonPositive ==
  ASSUME NEW d \in Nat, NEW x \in Int, x <= 0
  PROVE  d * x \in Int /\ d * x <= 0
<1>1. -x \in Nat
  OBVIOUS
<1>2. d * (-x) \in Nat
  BY <1>1
<1>3. d * (-x) = -(d * x)
  OBVIOUS
<1>4. QED
  BY <1>2, <1>3

LEMMA Distribute ==
  ASSUME NEW d \in Int, NEW x \in Int, NEW y \in Int
  PROVE  d * (x + y) = d * x + d * y
OBVIOUS

(* The bound of an input that is not stored raw, and of a smaller part.     *)
LEMMA BoundGrows ==
  ASSUME NEW n \in Nat
  PROVE  /\ Bound(n) \in Nat
         /\ n <= RawLimit => HeaderSize + n <= Bound(n)
         /\ n > RawLimit => Bound(n) = ExtHeaderSize + n + n \div BoundDiv + BoundPad
<1>1. n \div BoundDiv \in Nat
  BY Constants, Product
<1>2. QED
  BY <1>1, Constants DEF Bound

(* What a token adds to the overhead its bytes of the input pay for.        *)
LEMMA TokenPaid ==
  ASSUME NEW t \in Tokens
  PROVE  /\ t.lit \in Nat /\ t.mat \in Nat
         /\ ExtWritten(t.lit) \in Nat
         /\ BoundDiv * (TokenLen + ExtWritten(t.lit) - t.mat) <= t.lit + t.mat
<1>1. t.lit \in Nat /\ t.mat \in Nat /\ t.mat >= MinMatch
  BY FormatAssumption, WriterAssumption
     DEF FormatConstraints, WriterConstraints, Tokens
<1> DEFINE k == (t.lit - TokenLitMax) \div ExtMax
<1>2. CASE t.lit < TokenLitMax
  <2>1. ExtWritten(t.lit) = 0
    BY <1>2 DEF ExtWritten
  <2>2. TokenLen - t.mat <= 0
    BY <1>1, Constants
  <2>3. /\ BoundDiv * (TokenLen - t.mat) \in Int
        /\ BoundDiv * (TokenLen - t.mat) <= 0
    BY <2>2, <1>1, NonPositive, Constants
  <2>4. TokenLen + ExtWritten(t.lit) - t.mat = TokenLen - t.mat
    BY <2>1, <1>1, Constants
  <2>5. QED
    BY <1>1, <2>1, <2>3, <2>4
<1>3. CASE t.lit >= TokenLitMax
  <2>1. t.lit - TokenLitMax \in Nat
    BY <1>1, <1>3, Constants
  <2>2. k \in Nat /\ ExtMax * k <= t.lit - TokenLitMax
    BY <2>1, Product, Constants
  <2>3. (ExtMax - BoundDiv) * k >= 0
    BY <2>2, Constants
  <2>4. (ExtMax - BoundDiv) * k = ExtMax * k - BoundDiv * k
    BY <2>2, Constants
  <2>5. BoundDiv * k <= t.lit - TokenLitMax
    <3>1. ExtMax * k \in Int /\ BoundDiv * k \in Int
      BY <2>2, Constants
    <3>2. QED
      BY <2>1, <2>2, <2>3, <2>4, <3>1
  <2>6. ExtWritten(t.lit) = 1 + k
    BY <1>1, <1>3, Constants DEF ExtWritten
  <2>7. BoundDiv * (TokenLen + 1 - t.mat) <= TokenLitMax
    <3>1. CASE TokenLen + 1 <= MinMatch
      <4>1. TokenLen + 1 - t.mat <= 0
        BY <1>1, <3>1, Constants
      <4>2. /\ BoundDiv * (TokenLen + 1 - t.mat) \in Int
            /\ BoundDiv * (TokenLen + 1 - t.mat) <= 0
        BY <4>1, <1>1, NonPositive, Constants
      <4>3. QED
        BY <4>2, <1>1, Constants
    <3>2. CASE TokenLen <= MinMatch /\ BoundDiv <= TokenLitMax
      <4>1. TokenLen - t.mat <= 0
        BY <1>1, <3>2, Constants
      <4>2. /\ BoundDiv * (TokenLen - t.mat) \in Int
            /\ BoundDiv * (TokenLen - t.mat) <= 0
        BY <4>1, <1>1, NonPositive, Constants
      <4>3. BoundDiv * (TokenLen + 1 - t.mat) = BoundDiv * (TokenLen - t.mat) + BoundDiv
        BY <1>1, Constants
      <4>4. QED
        BY <3>2, <4>2, <4>3, <1>1, Constants
    <3>3. QED
      BY <3>1, <3>2, Constants
  <2>8. BoundDiv * (TokenLen + 1 + k - t.mat)
          = BoundDiv * (TokenLen + 1 - t.mat) + BoundDiv * k
    <3> HIDE DEF k
    <3>1. TokenLen + 1 - t.mat \in Int /\ k \in Int /\ BoundDiv \in Int
      BY <1>1, <2>2, Constants
    <3>2. TokenLen + 1 + k - t.mat = (TokenLen + 1 - t.mat) + k
      BY <1>1, <2>2, Constants
    <3>3. BoundDiv * ((TokenLen + 1 - t.mat) + k)
            = BoundDiv * (TokenLen + 1 - t.mat) + BoundDiv * k
      BY <3>1, Distribute
    <3>4. QED
      BY <3>2, <3>3
  <2>9. BoundDiv * (TokenLen + 1 + k - t.mat) <= t.lit
    <3>1. BoundDiv * k \in Int /\ BoundDiv * (TokenLen + 1 - t.mat) \in Int
      BY <1>1, <2>2, Constants
    <3>2. QED
      BY <1>1, <2>5, <2>7, <2>8, <3>1, Constants
  <2>10. TokenLen + ExtWritten(t.lit) - t.mat = TokenLen + 1 + k - t.mat
    BY <1>1, <2>2, <2>6, Constants
  <2>11. ExtWritten(t.lit) \in Nat
    BY <2>2, <2>6
  <2>12. QED
    BY <1>1, <2>9, <2>10, <2>11, Constants
<1>4. QED
  BY <1>1, <1>2, <1>3, Constants

----------------------------------------------------------------------------
(* The overhead that is paid for fits the bound, so the streams stay apart. *)
LEMMA PaidFits ==
  ASSUME Inv, pc = "write"
  PROVE  /\ tokens + (cap - literals) + (size - at) <= Bound(size)
         /\ tokens + (cap - literals) + (size - at) <= cap
         /\ tokens <= literals
<1>1. /\ size \in Nat /\ cap \in Nat /\ tokens \in Nat /\ literals \in Nat /\ at \in Nat
      /\ size > RawLimit /\ at <= size - MinSuffix
      /\ BoundDiv * Overhead <= at /\ cap >= Bound(size)
  BY Constants DEF Inv, TypeOK, Paid, BufferHolds
<1>2. Overhead \in Int /\ Overhead = tokens + (cap - literals) - ExtHeaderSize - at
  BY <1>1, Constants DEF Overhead
<1>3. BoundDiv * Overhead <= size
  <2>1. BoundDiv * Overhead \in Int
    BY <1>2, Constants
  <2>2. QED
    BY <1>1, <2>1, Constants
<1>4. size \div BoundDiv \in Nat /\ Overhead <= size \div BoundDiv
  BY <1>1, <1>2, <1>3, Quotient, Constants
<1>5. Bound(size) = ExtHeaderSize + size + size \div BoundDiv + BoundPad
  BY <1>1, BoundGrows
<1>6. QED
  BY <1>1, <1>2, <1>4, <1>5, Constants

LEMMA ApartNow == Inv /\ pc = "write" => tokens <= literals
BY PaidFits

LEMMA ApartNext == (Inv /\ pc = "write" => tokens <= literals)'
BY ApartNow, PTL

LEMMA InitInv == Init => Inv
<1> SUFFICES ASSUME Init PROVE Inv
  OBVIOUS
<1>1. size \in Nat /\ Bound(size) \in Nat /\ Slack \subseteq Nat
  BY BoundGrows, SlackAssumption, Constants DEF Init
<1>2. QED
  BY <1>1 DEF Init, Inv, TypeOK, BufferHolds, NotStarted, Paid, BoundHolds

LEMMA NextInv == Inv /\ [Next]_vars => Inv'
<1> SUFFICES ASSUME Inv, [Next]_vars PROVE Inv'
  OBVIOUS
<1>1. /\ size \in Nat /\ cap \in Nat /\ tokens \in Nat /\ literals \in Nat
      /\ at \in Nat /\ len \in Nat /\ size \in DstLens
  BY Constants DEF Inv, TypeOK
<1>2. CASE StoreRaw
  <2>1. HeaderSize + size <= Bound(size) /\ Bound(size) \in Nat
    BY <1>1, <1>2, BoundGrows DEF StoreRaw
  <2>2. QED
    BY <1>1, <1>2, <2>1, Constants
       DEF StoreRaw, Inv, TypeOK, BufferHolds, NotStarted, Paid, BoundHolds
<1>3. CASE StartStream
  <2>1. /\ tokens' = ExtHeaderSize /\ literals' = cap /\ at' = at /\ cap' = cap
        /\ size' = size /\ pc' = "write" /\ at = 0 /\ size > RawLimit
    BY <1>3 DEF StartStream, Inv, NotStarted
  <2>2. Overhead' = 0
    BY <1>1, <2>1, Constants DEF Overhead
  <2>3. BoundDiv * 0 = 0
    BY Constants
  <2>4. Paid'
    BY <1>1, <2>1, <2>2, <2>3, Constants DEF Paid
  <2>5. TypeOK' /\ BufferHolds' /\ NotStarted' /\ BoundHolds'
    BY <1>1, <1>3, <2>1, Constants
       DEF StartStream, Inv, TypeOK, BufferHolds, NotStarted, BoundHolds
  <2>6. QED
    BY <2>4, <2>5 DEF Inv
<1>4. ASSUME NEW t \in Tokens, WriteToken(t) PROVE Inv'
  <2>1. /\ pc = "write" /\ pc' = "write" /\ cap' = cap /\ size' = size /\ len' = len
        /\ at + t.lit + t.mat <= size - MinSuffix
        /\ tokens' = tokens + TokenLen + ExtWritten(t.lit)
        /\ literals' = literals - t.lit
        /\ at' = at + t.lit + t.mat
    BY <1>4 DEF WriteToken
  <2>2. /\ t.lit \in Nat /\ t.mat \in Nat /\ ExtWritten(t.lit) \in Nat
        /\ BoundDiv * (TokenLen + ExtWritten(t.lit) - t.mat) <= t.lit + t.mat
    BY TokenPaid
  <2> DEFINE more == TokenLen + ExtWritten(t.lit) - t.mat
  <2>3. more \in Int /\ Overhead \in Int /\ Overhead' = Overhead + more
    BY <1>1, <2>1, <2>2, Constants DEF Overhead
  <2>4. BoundDiv * Overhead' = BoundDiv * Overhead + BoundDiv * more
    <3>1. BoundDiv * (Overhead + more) = BoundDiv * Overhead + BoundDiv * more
      BY <2>3, Constants
    <3>2. QED
      BY <2>3, <3>1
  <2>5. /\ size > RawLimit /\ literals <= cap /\ ExtHeaderSize <= tokens
        /\ BoundDiv * Overhead <= at
    BY <2>1 DEF Inv, Paid
  <2>6. BoundDiv * Overhead' <= at'
    <3>1. BoundDiv * Overhead \in Int /\ BoundDiv * more \in Int
      BY <2>3, Constants
    <3>2. BoundDiv * more <= t.lit + t.mat
      BY <2>2
    <3>3. QED
      BY <1>1, <2>1, <2>2, <2>4, <2>5, <3>1, <3>2
  <2>7. Paid'
    BY <1>1, <2>1, <2>2, <2>5, <2>6, Constants DEF Paid
  <2>8. literals' \in Nat
    <3>1. tokens <= literals /\ tokens + (cap - literals) + (size - at) <= cap
      BY <2>1, PaidFits
    <3>2. t.lit <= size - at
      BY <1>1, <2>1, <2>2, Constants
    <3>3. QED
      BY <1>1, <2>1, <2>2, <3>1, <3>2
  <2>9. TypeOK'
    BY <1>1, <2>1, <2>2, <2>8, Constants DEF TypeOK
  <2>10. BufferHolds' /\ NotStarted' /\ BoundHolds'
    BY <2>1 DEF Inv, BufferHolds, NotStarted, BoundHolds
  <2>11. QED
    BY <2>7, <2>9, <2>10 DEF Inv
<1>5. CASE FinishStream
  <2>1. pc = "write" /\ pc' = "done" /\ len' = tokens + (cap - literals) + (size - at)
    BY <1>5 DEF FinishStream
  <2>2. len' <= Bound(size) /\ len' <= cap
    BY <2>1, PaidFits
  <2>3. len' \in Nat
    BY <1>1, <2>1, Constants DEF Inv, Paid
  <2>4. QED
    BY <1>1, <1>5, <2>1, <2>2, <2>3
       DEF FinishStream, Inv, TypeOK, BufferHolds, NotStarted, Paid, BoundHolds
<1>6. CASE UNCHANGED vars
  BY <1>6 DEF vars, Inv, TypeOK, BufferHolds, NotStarted, Paid, Overhead, BoundHolds
<1>7. QED
  BY <1>2, <1>3, <1>4, <1>5, <1>6 DEF Next, Returned

(* The invariant holds in every state of a writer. *)
THEOREM Invariance == Spec => []Inv
BY InitInv, NextInv, PTL DEF Spec

(* The positions of a writer keep their types: the literal cursor, which    *)
(* goes down, is never negative.                                            *)
THEOREM TypeCorrect == Spec => []TypeOK
<1>1. Inv => TypeOK
  BY DEF Inv
<1>2. QED
  BY <1>1, Invariance, PTL

(* Token and literal streams never meet, whatever tokens the parser chooses *)
(* to write: no token of light/writer.rs or heavy/writer.rs overwrites      *)
(* literals, and the literal cursor never wraps.                            *)
THEOREM Apart == Spec => []StreamsApart
<1>1. Inv => StreamsApart
  BY PaidFits DEF Inv, Paid, StreamsApart
<1>2. QED
  BY <1>1, Invariance, PTL

(* compress_bound_level is a bound for every stream of the level.           *)
THEOREM Bounded == Spec => []BoundHolds
<1>1. Inv => BoundHolds
  BY DEF Inv
<1>2. QED
  BY <1>1, Invariance, PTL

----------------------------------------------------------------------------
(* The bytes of an extension: all but the last are full.                   *)
LEMMA ExtensionBytes ==
  ASSUME NEW n \in Nat, n >= TokenLitMax, NEW j \in 0 .. ExtWritten(n) - 1
  PROVE  /\ ExtWritten(n) \in Nat \ {0}
         /\ j * ExtMax \in Nat
         /\ j < ExtWritten(n) - 1 => ExtByte(n, j) = Ext(ExtMax)
         /\ j = ExtWritten(n) - 1 =>
              /\ (n - TokenLitMax) - j * ExtMax \in 0 .. ExtMax - 1
              /\ ExtByte(n, j) = Ext((n - TokenLitMax) - j * ExtMax)
<1> DEFINE x == n - TokenLitMax
           q == x \div ExtMax
           left == x - j * ExtMax
<1>1. TokenLitMax \in Nat /\ ExtMax \in Nat \ {0} /\ x \in Nat
  BY Constants
<1>2. q \in Nat /\ x - q * ExtMax \in 0 .. ExtMax - 1
  <2>1. q \in Nat /\ ExtMax * q <= x /\ x < ExtMax * q + ExtMax
    BY <1>1
  <2>2. ExtMax * q = q * ExtMax /\ q * ExtMax \in Int
    BY <1>1, <2>1
  <2>3. QED
    BY <1>1, <2>1, <2>2
<1>3. ExtWritten(n) = 1 + q
  BY <1>1 DEF ExtWritten
<1>4. ExtByte(n, j) = Ext(IF left >= ExtMax THEN ExtMax ELSE left)
  BY DEF ExtByte
<1> HIDE DEF q
<1>5. j \in Nat /\ j <= q /\ j * ExtMax \in Nat /\ q * ExtMax \in Nat
  BY <1>1, <1>2, <1>3
<1>6. ASSUME j < q PROVE left >= ExtMax
  <2>1. (j + 1) * ExtMax <= q * ExtMax /\ (j + 1) * ExtMax = j * ExtMax + ExtMax
    BY <1>1, <1>2, <1>5, <1>6, Steps
  <2>2. QED
    BY <1>1, <1>2, <1>5, <2>1
<1>7. QED
  BY <1>1, <1>2, <1>3, <1>4, <1>5, <1>6

(* From a on, m bytes of the input are what was d bytes before them. *)
Echo(inp, a, m, d) == \A i \in a .. a + m - 1 : inp[i] = inp[i - d]

(* These bytes go round in the d bytes before a. *)
Cycle(inp, a, m, d) == \A j \in 0 .. m - 1 : inp[a + j] = inp[(a - d) + (j % d)]

(* What an overlapping match copies: the input repeats with the distance.  *)
LEMMA Periodic ==
  ASSUME NEW inp, NEW a \in Nat, NEW m \in Nat, NEW d \in Nat \ {0}, d <= a,
         Echo(inp, a, m, d)
  PROVE  Cycle(inp, a, m, d)
<1> DEFINE T == {j \in 0 .. m - 1 : inp[a + j] # inp[(a - d) + (j % d)]}
<1>1. SUFFICES ASSUME T # {} PROVE FALSE
  BY DEF Cycle
<1>2. T \subseteq Nat
  OBVIOUS
<1>3. PICK j \in T : \A y \in T : j <= y
  BY <1>1, <1>2, LeastNatural
<1>4. j \in 0 .. m - 1 /\ inp[a + j] # inp[(a - d) + (j % d)]
  BY <1>3
<1>5. inp[a + j] = inp[(a + j) - d]
  <2>1. a + j \in a .. a + m - 1
    BY <1>4
  <2>2. QED
    BY <2>1 DEF Echo
<1>6. CASE j < d
  <2>1. j % d = j
    BY <1>4, <1>6
  <2>2. (a + j) - d = (a - d) + (j % d)
    BY <1>4, <2>1
  <2>3. QED
    BY <1>4, <1>5, <2>2
<1>7. CASE j >= d
  <2>1. j - d \in 0 .. m - 1 /\ j - d < j
    BY <1>4, <1>7
  <2>2. inp[a + (j - d)] = inp[(a - d) + ((j - d) % d)]
    <3>1. j - d \notin T
      BY <1>3, <1>4, <2>1
    <3>2. QED
      BY <2>1, <3>1
  <2>3. j % d = (j - d) % d
    <3>1. j \in Nat
      BY <1>4
    <3>2. QED
      BY <1>7, <3>1, ModShift, Zenon
  <2>4. (a + j) - d = a + (j - d)
    BY <1>4
  <2>5. QED
    BY <1>4, <1>5, <2>2, <2>3, <2>4
<1>8. QED
  BY <1>4, <1>6, <1>7

----------------------------------------------------------------------------
(* The stream with its bytes.  A link is a token with the cursor it was     *)
(* written at.                                                              *)
Links == [from : Cursors, tok : Tokens]

Past(w) == Advance(w.from, w.tok)

First(c) == [control |-> ExtHeaderSize, literals |-> c, out |-> 0]

End == [control |-> tokens, literals |-> literals, out |-> at]

(* Cursor c is where a link of W starts, or the end of the chain. *)
Reached(W, c, end) == c = end \/ \E w \in W : w.from = c

(* Link w lies between the buffer's two ends, before the end of the chain. *)
InOrder(w, top, end) ==
  /\ w.from.literals <= top
  /\ Past(w).control <= end.control
  /\ end.literals <= Past(w).literals
  /\ Past(w).out <= end.out

(* The links join the start of a stream to its end. *)
Chain(W, top, end) ==
  /\ W \subseteq Links
  /\ Reached(W, First(top), end)
  /\ \A w \in W : Reached(W, Past(w), end) /\ InOrder(w, top, end)

(* Buffer b holds link w, whose literals have moved down by gap bytes. *)
HeaderHeld(b, w) ==
  b[w.from.control]
    = Head(IF w.tok.lit < TokenLitMax THEN w.tok.lit ELSE TokenLitMax,
           w.tok.mat, w.tok.dis)

ExtensionHeld(b, w) ==
  \A j \in 0 .. ExtWritten(w.tok.lit) - 1 :
    b[(w.from.control + TokenLen) + j] = ExtByte(w.tok.lit, j)

LiteralsHeld(b, inp, gap, w) ==
  \A j \in 0 .. w.tok.lit - 1 :
    b[((w.from.literals - gap) - w.tok.lit) + j] = Lit(inp[w.from.out + j])

Held(b, inp, gap, w) ==
  HeaderHeld(b, w) /\ ExtensionHeld(b, w) /\ LiteralsHeld(b, inp, gap, w)

(* The match of link w repeats the input before it. *)
Repeats(inp, w) ==
  LET o == w.from.out + w.tok.lit
  IN /\ w.tok.dis <= o
     /\ Echo(inp, o, w.tok.mat, w.tok.dis)

Stream(W, b, inp, gap, top, end) ==
  /\ Chain(W, top, end)
  /\ \A w \in W : Held(b, inp, gap, w) /\ Repeats(inp, w)

LEMMA LinkRange ==
  ASSUME NEW w \in Links
  PROVE  /\ w.tok \in Tokens /\ w.from \in Cursors
         /\ w.tok.lit \in LitLens /\ w.tok.mat \in MatchLens /\ w.tok.dis \in Distances
         /\ w.tok.lit \in Nat /\ w.tok.mat \in Nat \ {0} /\ w.tok.dis \in Nat \ {0}
         /\ ExtWritten(w.tok.lit) \in Nat
         /\ w.from.control \in Nat /\ w.from.literals \in Nat /\ w.from.out \in Nat
         /\ Past(w).control = (w.from.control + TokenLen) + ExtWritten(w.tok.lit)
         /\ Past(w).literals = w.from.literals - w.tok.lit
         /\ Past(w).out = (w.from.out + w.tok.lit) + w.tok.mat
<1>1. w.tok \in Tokens /\ w.from \in Cursors
  BY DEF Links
<1>2. w.tok.lit \in LitLens /\ w.tok.mat \in MatchLens /\ w.tok.dis \in Distances
  BY <1>1 DEF Tokens
<1>3. w.tok.lit \in Nat /\ ExtWritten(w.tok.lit) \in Nat
  BY <1>1, TokenPaid
<1>4. w.tok.mat \in Nat \ {0} /\ w.tok.dis \in Nat \ {0}
  <2>1. w.tok.mat \in Nat /\ w.tok.mat >= MinMatch /\ MinMatch \in Nat \ {0}
    BY <1>2, FormatAssumption, WriterAssumption DEF FormatConstraints, WriterConstraints
  <2>2. w.tok.dis \in Nat \ {0}
    BY <1>2, FormatAssumption DEF FormatConstraints
  <2>3. QED
    BY <2>1, <2>2
<1>5. ExtBytes(w.tok.lit) = ExtWritten(w.tok.lit)
  BY DEF ExtBytes, ExtWritten
<1>6. w.from.control \in Nat /\ w.from.literals \in Nat /\ w.from.out \in Nat
  BY <1>1 DEF Cursors
<1>7. /\ Past(w).control = (w.from.control + TokenLen) + ExtWritten(w.tok.lit)
      /\ Past(w).literals = w.from.literals - w.tok.lit
      /\ Past(w).out = (w.from.out + w.tok.lit) + w.tok.mat
  BY <1>5 DEF Past, Advance, AfterToken
<1>8. QED
  BY <1>1, <1>2, <1>3, <1>4, <1>6, <1>7

(* A chain goes on with the token that is written at its end.              *)
LEMMA ChainGrows ==
  ASSUME NEW W, NEW top \in Nat, NEW e \in Cursors, NEW t \in Tokens,
         Chain(W, top, e), e.literals <= top, Advance(e, t) \in Cursors
  PROVE  Chain(W \cup {[from |-> e, tok |-> t]}, top, Advance(e, t))
<1> DEFINE n == [from |-> e, tok |-> t]
           V == W \cup {n}
           f == Advance(e, t)
<1>1. n \in Links /\ n.from = e /\ n.tok = t /\ Past(n) = f
  BY DEF Links, Past
<1>2. V \subseteq Links
  BY <1>1 DEF Chain
<1>3. ASSUME NEW c, Reached(W, c, e) PROVE Reached(V, c, f)
  BY <1>1, <1>3, Zenon DEF Reached
<1>4. /\ e.control <= f.control /\ f.literals <= e.literals /\ e.out <= f.out
      /\ {e.control, f.control, e.literals, f.literals, e.out, f.out} \subseteq Nat
  BY <1>1, LinkRange, Constants DEF Cursors
<1>5. ASSUME NEW w \in V PROVE Reached(V, Past(w), f) /\ InOrder(w, top, f)
  <2>1. CASE w = n
    <3>1. Reached(V, Past(w), f)
      BY <1>1, <2>1, Zenon DEF Reached
    <3>2. InOrder(w, top, f)
      BY <1>1, <1>4, <2>1 DEF InOrder
    <3>3. QED
      BY <3>1, <3>2
  <2>2. CASE w \in W
    <3>1. Reached(W, Past(w), e) /\ InOrder(w, top, e) /\ w \in Links
      BY <2>2 DEF Chain
    <3>2. /\ Past(w).control \in Int /\ Past(w).literals \in Int /\ Past(w).out \in Int
      BY <3>1, LinkRange, Constants
    <3>3. InOrder(w, top, f)
      BY <1>4, <3>1, <3>2 DEF InOrder
    <3>4. QED
      BY <1>3, <3>1, <3>3
  <2>3. QED
    BY <1>5, <2>1, <2>2
<1>6. Reached(V, First(top), f)
  BY <1>3 DEF Chain
<1>7. QED
  BY <1>2, <1>5, <1>6, Zenon DEF Chain

(* A buffer holds the links that another one holds at the same places.     *)
LEMMA HeldSame ==
  ASSUME NEW b, NEW c, NEW inp, NEW top \in Nat, NEW e \in Cursors, NEW w \in Links,
         InOrder(w, top, e), Held(b, inp, 0, w),
         \A i \in 0 .. e.control - 1 : c[i] = b[i],
         \A i \in e.literals .. top - 1 : c[i] = b[i]
  PROVE  Held(c, inp, 0, w)
<1> DEFINE p == w.from.control
           x == w.from.literals
           lit == w.tok.lit
<1>1. /\ p \in Nat /\ x \in Nat /\ lit \in Nat /\ TokenLen \in Nat \ {0}
      /\ ExtWritten(lit) \in Nat /\ e.control \in Nat /\ e.literals \in Nat
      /\ (p + TokenLen) + ExtWritten(lit) <= e.control
      /\ e.literals <= x - lit /\ x <= top
  BY LinkRange, Constants DEF InOrder, Cursors
<1> HIDE DEF p, x, lit
<1>2. HeaderHeld(c, w)
  <2>1. p \in 0 .. e.control - 1
    BY <1>1
  <2>2. QED
    BY <2>1 DEF Held, HeaderHeld, p
<1>3. ExtensionHeld(c, w)
  <2>1. \A j \in 0 .. ExtWritten(lit) - 1 : (p + TokenLen) + j \in 0 .. e.control - 1
    BY <1>1
  <2>2. QED
    BY <2>1, Zenon DEF Held, ExtensionHeld, p, lit
<1>4. LiteralsHeld(c, inp, 0, w)
  <2>1. \A j \in 0 .. lit - 1 : ((x - 0) - lit) + j \in e.literals .. top - 1
    BY <1>1
  <2>2. QED
    BY <2>1, Zenon DEF Held, LiteralsHeld, x, lit
<1>5. QED
  BY <1>2, <1>3, <1>4 DEF Held

(* A buffer whose literals have moved down by gap bytes holds its links.   *)
LEMMA HeldMoved ==
  ASSUME NEW b, NEW c, NEW inp, NEW top \in Nat, NEW e \in Cursors, NEW w \in Links,
         NEW gap \in Nat, gap <= e.literals,
         InOrder(w, top, e), Held(b, inp, 0, w),
         \A i \in 0 .. e.control - 1 : c[i] = b[i],
         \A i \in e.literals .. top - 1 : c[i - gap] = b[i]
  PROVE  Held(c, inp, gap, w)
<1> DEFINE p == w.from.control
           x == w.from.literals
           lit == w.tok.lit
<1>1. /\ p \in Nat /\ x \in Nat /\ lit \in Nat /\ TokenLen \in Nat \ {0}
      /\ ExtWritten(lit) \in Nat /\ e.control \in Nat /\ e.literals \in Nat
      /\ (p + TokenLen) + ExtWritten(lit) <= e.control
      /\ e.literals <= x - lit /\ x <= top
  BY LinkRange, Constants DEF InOrder, Cursors
<1> HIDE DEF p, x, lit
<1>2. HeaderHeld(c, w)
  <2>1. p \in 0 .. e.control - 1
    BY <1>1
  <2>2. QED
    BY <2>1 DEF Held, HeaderHeld, p
<1>3. ExtensionHeld(c, w)
  <2>1. \A j \in 0 .. ExtWritten(lit) - 1 : (p + TokenLen) + j \in 0 .. e.control - 1
    BY <1>1
  <2>2. QED
    BY <2>1, Zenon DEF Held, ExtensionHeld, p, lit
<1>4. LiteralsHeld(c, inp, gap, w)
  <2>1. ASSUME NEW j \in 0 .. lit - 1
        PROVE  /\ ((x - 0) - lit) + j \in e.literals .. top - 1
               /\ ((x - gap) - lit) + j = (((x - 0) - lit) + j) - gap
    BY <1>1
  <2>2. \A j \in 0 .. lit - 1 : c[((x - gap) - lit) + j] = b[((x - 0) - lit) + j]
    BY <2>1
  <2>3. QED
    BY <2>2, Zenon DEF Held, LiteralsHeld, x, lit
<1>5. QED
  BY <1>2, <1>3, <1>4 DEF Held

----------------------------------------------------------------------------
(* What is known of a stream while it is written and while it is read.     *)
Writing ==
  pc = "write" => \E W : Stream(W, buf, input, 0, cap, End)

Gap == literals - tokens

(* The suffix stands behind the tokens and the literals that were moved. *)
SuffixHeld ==
  \A j \in 0 .. (size - at) - 1 :
    buf[(tokens + (cap - literals)) + j] = InputCell(at + j)

(* The decoder stands where a token was written, and its output ends there. *)
Reading(W) ==
  status = "run" =>
    \E c \in Cursors :
      /\ Reached(W, c, End)
      /\ cursor = [control |-> c.control, literals |-> c.literals - Gap, out |-> c.out]
      /\ DOMAIN output = 0 .. c.out - 1

Finishing ==
  pc = "done" /\ size > RawLimit =>
    /\ ExtHeaderSize <= tokens /\ tokens <= literals /\ literals <= cap
    /\ at <= size - MinSuffix
    /\ len = (tokens + (cap - literals)) + (size - at)
    /\ len <= cap
    /\ suffix = size - at
    /\ SuffixHeld
    /\ status \in {"run", "ok"}
    /\ \E W : Stream(W, buf, input, Gap, cap, End) /\ Reading(W)

(* A small input stands behind the header as it is. *)
RawHeld ==
  pc = "done" /\ size <= RawLimit =>
    /\ len = HeaderSize + size
    /\ len <= cap
    /\ status \in {"raw", "ok"}
    /\ \A i \in 0 .. size - 1 : buf[HeaderSize + i] = InputCell(i)

(* The decoder starts after the writer, on the input's first byte.         *)
Unread == pc # "done" => status = "write" /\ DOMAIN output = {}

TripInv ==
  /\ Inv /\ TripTypeOK
  /\ Unread /\ Writing /\ Finishing /\ RawHeld /\ RoundTrips

LEMMA TripFacts ==
  ASSUME TripInv
  PROVE  /\ size \in Nat /\ cap \in Nat /\ tokens \in Nat /\ literals \in Nat
         /\ at \in Nat /\ len \in Nat
         /\ End \in Cursors
         /\ Inv /\ TypeOK
<1>1. Inv /\ TypeOK
  BY DEF TripInv, Inv
<1>2. QED
  BY <1>1, Constants DEF TypeOK, End, Cursors

LEMMA TripInitInv == TripInit => TripInv
<1> SUFFICES ASSUME TripInit PROVE TripInv
  OBVIOUS
<1>1. /\ Init /\ input \in [0 .. size - 1 -> Bytes]
      /\ buf = [i \in 0 .. cap - 1 |-> Free] /\ suffix = 0 /\ status = "write"
      /\ cursor = [control |-> 0, literals |-> 0, out |-> 0]
      /\ output = [i \in {} |-> Free] /\ pc = "start"
  BY DEF TripInit, Init
<1>2. Inv
  BY <1>1, InitInv
<1>3. TripTypeOK
  <2>1. size \in Nat /\ TypeOK
    BY <1>2, Constants DEF Inv, TypeOK
  <2>2. cursor \in Cursors
    BY <1>1 DEF Cursors
  <2>3. DOMAIN buf = 0 .. cap - 1 /\ \A i \in DOMAIN buf : buf[i] \in Cells
    BY <1>1 DEF Cells
  <2>4. QED
    BY <1>1, <2>1, <2>2, <2>3 DEF TripTypeOK
<1>4. Unread /\ Writing /\ Finishing /\ RawHeld /\ RoundTrips
  BY <1>1 DEF Unread, Writing, Finishing, RawHeld, RoundTrips
<1>5. QED
  BY <1>1, <1>2, <1>3, <1>4 DEF TripInv

LEMMA RawKeeps == ASSUME TripInv, TripRaw PROVE TripInv'
<1>1. /\ StoreRaw /\ pc' = "done" /\ status' = "raw" /\ size <= RawLimit
      /\ len' = HeaderSize + size /\ pc = "start"
      /\ UNCHANGED <<size, cap, tokens, literals, at, input, suffix, cursor, output>>
      /\ buf' = [i \in DOMAIN buf |->
                   IF i \in HeaderSize .. HeaderSize + size - 1
                     THEN InputCell(i - HeaderSize) ELSE buf[i]]
  BY DEF TripRaw, StoreRaw
<1>2. Inv'
  BY <1>1, NextInv DEF TripInv, Next
<1>3. len' <= cap /\ size \in Nat /\ cap \in Nat /\ HeaderSize \in Nat /\ RawLimit \in Nat
  BY <1>1, <1>2, TripFacts, Constants, BoundGrows DEF TripInv, Inv, BoundHolds
<1>4. /\ DOMAIN buf' = 0 .. cap - 1
      /\ \A i \in 0 .. cap - 1 :
           buf'[i] = IF i \in HeaderSize .. HeaderSize + size - 1
                     THEN InputCell(i - HeaderSize) ELSE buf[i]
  BY <1>1, Zenon DEF TripInv, TripTypeOK
<1>5. \A i \in 0 .. size - 1 : buf'[HeaderSize + i] = InputCell(i)
  <2>1. ASSUME NEW i \in 0 .. size - 1 PROVE buf'[HeaderSize + i] = InputCell(i)
    <3>1. /\ HeaderSize + i \in 0 .. cap - 1
          /\ HeaderSize + i \in HeaderSize .. HeaderSize + size - 1
          /\ (HeaderSize + i) - HeaderSize = i
      BY <1>1, <1>3
    <3>2. QED
      BY <1>4, <3>1
  <2>2. QED
    BY <2>1
<1>6. TripTypeOK'
  <2>1. ASSUME NEW i \in 0 .. cap - 1 PROVE buf'[i] \in Cells
    <3>1. CASE i \in HeaderSize .. HeaderSize + size - 1
      <4>1. i - HeaderSize \in 0 .. size - 1
        BY <1>3, <3>1
      <4>2. input[i - HeaderSize] \in Bytes
        BY <4>1 DEF TripInv, TripTypeOK
      <4>3. QED
        BY <1>4, <3>1, <4>2 DEF InputCell, Cells
    <3>2. QED
      BY <1>4, <3>1 DEF TripInv, TripTypeOK
  <2>2. QED
    BY <1>1, <1>2, <1>4, <2>1 DEF TripInv, TripTypeOK, Inv
<1>7. Unread' /\ Writing' /\ Finishing'
  BY <1>1, <1>3 DEF Unread, Writing, Finishing
<1>8. RawHeld'
  <2>1. ASSUME NEW i \in 0 .. size' - 1 PROVE buf'[HeaderSize + i] = InputCell(i)'
    BY <1>1, <1>5 DEF InputCell
  <2>2. QED
    BY <1>1, <1>3, <2>1 DEF RawHeld
<1>9. RoundTrips'
  BY <1>1 DEF TripInv, Unread, RoundTrips
<1>10. QED
  BY <1>2, <1>6, <1>7, <1>8, <1>9 DEF TripInv

LEMMA ReadRawKeeps == ASSUME TripInv, ReadRaw PROVE TripInv'
<1>1. /\ status = "raw" /\ UNCHANGED <<vars, input, buf, suffix, cursor>>
      /\ UNCHANGED <<size, cap, pc, tokens, literals, at, len>>
  BY DEF ReadRaw, vars
<1>2. pc = "done" /\ size <= RawLimit /\ size \in Nat /\ RawLimit \in Nat
  <2>1. pc = "done"
    BY <1>1 DEF TripInv, Unread
  <2>2. QED
    BY <1>1, <2>1, TripFacts, Constants DEF TripInv, Finishing
<1>3. /\ len = HeaderSize + size
      /\ \A i \in 0 .. size - 1 : buf[HeaderSize + i] = InputCell(i)
  BY <1>2 DEF TripInv, RawHeld
<1>4. /\ status' = "ok"
      /\ output' = [i \in 0 .. size - 1 |-> buf[HeaderSize + i]]
  BY <1>2, <1>3, Constants DEF ReadRaw
<1>5. /\ DOMAIN output' = 0 .. size - 1
      /\ \A i \in 0 .. size - 1 : output'[i] = InputCell(i)
  BY <1>3, <1>4
<1>6. Inv'
  BY <1>1, NextInv DEF TripInv
<1>7. TripTypeOK'
  <2>1. ASSUME NEW i \in DOMAIN output' PROVE output'[i] \in Cells
    <3>1. input[i] \in Bytes
      BY <1>5 DEF TripInv, TripTypeOK
    <3>2. InputCell(i) \in Cells
      BY <3>1 DEF InputCell, Cells
    <3>3. QED
      BY <1>5, <3>2
  <2>2. QED
    BY <1>1, <1>4, <1>6, <2>1 DEF TripInv, TripTypeOK, Inv
<1>8. Unread' /\ Writing' /\ Finishing'
  BY <1>1, <1>2 DEF Unread, Writing, Finishing
<1>9. RawHeld'
  BY <1>1, <1>4 DEF TripInv, RawHeld, InputCell
<1>10. RoundTrips'
  <2>1. \A i \in DOMAIN output' : output'[i] = InputCell(i)'
    BY <1>1, <1>5 DEF InputCell
  <2>2. QED
    BY <1>1, <1>4, <1>5, <2>1 DEF RoundTrips
<1>11. QED
  BY <1>6, <1>7, <1>8, <1>9, <1>10 DEF TripInv

LEMMA StartKeeps == ASSUME TripInv, TripStart PROVE TripInv'
<1>1. /\ StartStream /\ UNCHANGED <<input, buf, suffix, status, cursor, output>>
      /\ pc = "start" /\ pc' = "write" /\ tokens' = ExtHeaderSize /\ literals' = cap
      /\ UNCHANGED <<size, cap, at, len>>
  BY DEF TripStart, StartStream
<1>2. Inv'
  BY <1>1, NextInv DEF TripInv, Next
<1>3. TripTypeOK'
  BY <1>1, <1>2 DEF TripInv, TripTypeOK, Inv
<1>4. Writing'
  <2>1. at = 0
    BY <1>1 DEF TripInv, Inv, NotStarted
  <2>2. First(cap') = End'
    BY <1>1, <2>1 DEF First, End
  <2>3. Stream({}, buf', input', 0, cap', End')
    BY <2>2 DEF Stream, Chain, Reached
  <2>4. QED
    BY <2>3, Zenon DEF Writing
<1>5. Unread' /\ Finishing' /\ RawHeld' /\ RoundTrips'
  <2>1. Unread' /\ Finishing' /\ RawHeld'
    BY <1>1 DEF TripInv, Unread, Finishing, RawHeld
  <2>2. RoundTrips'
    BY <1>1 DEF TripInv, Unread, RoundTrips, InputCell
  <2>3. QED
    BY <2>1, <2>2
<1>6. QED
  BY <1>1, <1>2, <1>3, <1>4, <1>5 DEF TripInv

(* Where a token's bytes go: between the streams, which stay apart.        *)
LEMMA TokenPlaces ==
  ASSUME TripInv, NEW t \in Tokens, WriteToken(t)
  PROVE  /\ Inv' /\ End' \in Cursors /\ End' = Advance(End, t)
         /\ t.lit \in Nat /\ t.mat \in Nat /\ ExtWritten(t.lit) \in Nat
         /\ (tokens + TokenLen) + ExtWritten(t.lit) <= literals - t.lit
         /\ literals <= cap /\ (at + t.lit) + t.mat <= size
         /\ UNCHANGED <<size, cap, len>> /\ pc = "write" /\ pc' = "write"
<1>1. /\ pc = "write" /\ pc' = "write" /\ UNCHANGED <<size, cap, len>>
      /\ (at + t.lit) + t.mat <= size - MinSuffix
      /\ tokens' = tokens + TokenLen + ExtWritten(t.lit)
      /\ literals' = literals - t.lit
      /\ at' = at + t.lit + t.mat
  BY DEF WriteToken
<1>2. Inv'
  BY NextInv DEF TripInv, Next
<1>3. /\ t.lit \in Nat /\ t.mat \in Nat /\ ExtWritten(t.lit) \in Nat
      /\ ExtBytes(t.lit) = ExtWritten(t.lit)
  BY TokenPaid DEF ExtBytes, ExtWritten
<1>4. /\ tokens' <= literals'
      /\ literals <= cap
  <2>1. tokens' <= literals'
    BY <1>1, <1>2, ApartNext
  <2>2. QED
    BY <1>1, <2>1 DEF TripInv, Inv, Paid
<1>5. End' = Advance(End, t)
  BY <1>1, <1>3 DEF End, Advance, AfterToken
<1>6. End' \in Cursors
  BY <1>2, Constants DEF Inv, TypeOK, End, Cursors
<1>7. QED
  BY <1>1, <1>2, <1>3, <1>4, <1>5, <1>6, TripFacts, Constants

(* The header and the extension of a token are cells.                      *)
LEMMA TokenInCells ==
  ASSUME NEW t \in Tokens
  PROVE  /\ Head(IF t.lit < TokenLitMax THEN t.lit ELSE TokenLitMax, t.mat, t.dis)
              \in Cells
         /\ \A j \in 0 .. ExtWritten(t.lit) - 1 : ExtByte(t.lit, j) \in Cells
<1>1. t.lit \in Nat /\ t.mat \in MatchLens /\ t.dis \in Distances
  BY TokenPaid DEF Tokens
<1>2. Head(IF t.lit < TokenLitMax THEN t.lit ELSE TokenLitMax, t.mat, t.dis) \in Cells
  <2>1. (IF t.lit < TokenLitMax THEN t.lit ELSE TokenLitMax) \in 0 .. TokenLitMax
    BY <1>1, Constants
  <2>2. QED
    BY <1>1, <2>1 DEF Cells
<1>3. ASSUME NEW j \in 0 .. ExtWritten(t.lit) - 1 PROVE ExtByte(t.lit, j) \in Cells
  <2>1. t.lit >= TokenLitMax
    BY <1>1, Constants DEF ExtWritten
  <2>2. \E n \in 0 .. ExtMax : ExtByte(t.lit, j) = Ext(n)
    <3>1. /\ ExtWritten(t.lit) \in Nat /\ j \in Nat
          /\ j < ExtWritten(t.lit) - 1 => ExtByte(t.lit, j) = Ext(ExtMax)
          /\ j = ExtWritten(t.lit) - 1 =>
               /\ (t.lit - TokenLitMax) - j * ExtMax \in 0 .. ExtMax - 1
               /\ ExtByte(t.lit, j) = Ext((t.lit - TokenLitMax) - j * ExtMax)
      BY <1>1, <2>1, ExtensionBytes
    <3>2. ExtMax \in 0 .. ExtMax
      BY Constants
    <3>3. CASE j < ExtWritten(t.lit) - 1
      BY <3>1, <3>2, <3>3
    <3>4. CASE j = ExtWritten(t.lit) - 1
      <4> DEFINE y == (t.lit - TokenLitMax) - j * ExtMax
      <4>1. y \in 0 .. ExtMax - 1 /\ ExtByte(t.lit, j) = Ext(y)
        BY <3>1, <3>4
      <4> HIDE DEF y
      <4>2. y \in 0 .. ExtMax
        BY <4>1, Constants
      <4>3. QED
        BY <4>1, <4>2
    <3>5. QED
      BY <3>1, <3>3, <3>4
  <2>3. QED
    BY <2>2 DEF Cells
<1>4. QED
  BY <1>2, <1>3

(* The cells of the buffer after a token.                                  *)
LEMMA TokenCells ==
  ASSUME TripInv, NEW t \in Tokens, WriteToken(t), buf' = AfterWrite(t)
  PROVE  /\ DOMAIN buf' = 0 .. cap - 1
         /\ \A i \in 0 .. tokens - 1 : buf'[i] = buf[i]
         /\ \A i \in literals .. cap - 1 : buf'[i] = buf[i]
         /\ buf'[tokens]
              = Head(IF t.lit < TokenLitMax THEN t.lit ELSE TokenLitMax, t.mat, t.dis)
         /\ \A j \in 0 .. ExtWritten(t.lit) - 1 :
              buf'[(tokens + TokenLen) + j] = ExtByte(t.lit, j)
         /\ \A j \in 0 .. t.lit - 1 :
              buf'[(literals - t.lit) + j] = InputCell(at + j)
         /\ \A i \in 0 .. cap - 1 : buf'[i] \in Cells
<1> DEFINE ext == tokens + TokenLen
           n == ExtWritten(t.lit)
           x == literals - t.lit
           head == Head(IF t.lit < TokenLitMax THEN t.lit ELSE TokenLitMax, t.mat, t.dis)
<1>1. /\ tokens \in Nat /\ literals \in Nat /\ cap \in Nat /\ at \in Nat
      /\ TokenLen \in Nat \ {0} /\ t.lit \in Nat /\ n \in Nat
      /\ ext + n <= x /\ literals <= cap
  BY TripFacts, TokenPlaces, Constants
<1>2. DOMAIN buf = 0 .. cap - 1
  BY DEF TripInv, TripTypeOK
<1>3. buf' = [i \in 0 .. cap - 1 |->
                IF i = tokens THEN head
                ELSE IF i \in tokens + 1 .. ext - 1 THEN Rest
                ELSE IF i \in ext .. ext + n - 1 THEN ExtByte(t.lit, i - ext)
                ELSE IF i \in x .. literals - 1 THEN InputCell(at + (i - x))
                ELSE buf[i]]
  BY <1>2 DEF AfterWrite
<1>4. DOMAIN buf' = 0 .. cap - 1
  BY <1>3
<1> HIDE DEF head
<1>5. ASSUME NEW i \in 0 .. cap - 1
      PROVE  buf'[i] = IF i = tokens THEN head
                ELSE IF i \in tokens + 1 .. ext - 1 THEN Rest
                ELSE IF i \in ext .. ext + n - 1 THEN ExtByte(t.lit, i - ext)
                ELSE IF i \in x .. literals - 1 THEN InputCell(at + (i - x))
                ELSE buf[i]
  BY <1>3, Zenon
<1> HIDE DEF ext, n, x
<1>6. ext = tokens + TokenLen /\ x = literals - t.lit /\ ext \in Nat /\ x \in Nat
  BY <1>1 DEF ext, x
<1>7. \A i \in 0 .. tokens - 1 : buf'[i] = buf[i]
  <2>1. ASSUME NEW i \in 0 .. tokens - 1
        PROVE  /\ i \in 0 .. cap - 1 /\ i # tokens /\ i \notin tokens + 1 .. ext - 1
               /\ i \notin ext .. ext + n - 1 /\ i \notin x .. literals - 1
    BY <1>1, <1>6
  <2>2. QED
    BY <1>5, <2>1
<1>8. \A i \in literals .. cap - 1 : buf'[i] = buf[i]
  <2>1. ASSUME NEW i \in literals .. cap - 1
        PROVE  /\ i \in 0 .. cap - 1 /\ i # tokens /\ i \notin tokens + 1 .. ext - 1
               /\ i \notin ext .. ext + n - 1 /\ i \notin x .. literals - 1
    BY <1>1, <1>6
  <2>2. QED
    BY <1>5, <2>1
<1>9. buf'[tokens] = head
  <2>1. tokens \in 0 .. cap - 1
    BY <1>1, <1>6
  <2>2. QED
    BY <1>5, <2>1
<1>10. ASSUME NEW j \in 0 .. n - 1 PROVE buf'[ext + j] = ExtByte(t.lit, j)
  <2>1. /\ ext + j \in 0 .. cap - 1 /\ ext + j # tokens
        /\ ext + j \notin tokens + 1 .. ext - 1 /\ ext + j \in ext .. ext + n - 1
        /\ (ext + j) - ext = j
    BY <1>1, <1>6
  <2>2. QED
    BY <1>5, <2>1
<1>11. ASSUME NEW j \in 0 .. t.lit - 1 PROVE buf'[x + j] = InputCell(at + j)
  <2>1. /\ x + j \in 0 .. cap - 1 /\ x + j # tokens
        /\ x + j \notin tokens + 1 .. ext - 1 /\ x + j \notin ext .. ext + n - 1
        /\ x + j \in x .. literals - 1 /\ (x + j) - x = j
    BY <1>1, <1>6
  <2>2. QED
    BY <1>5, <2>1
<1>12. ASSUME NEW i \in 0 .. cap - 1 PROVE buf'[i] \in Cells
  <2>1. head \in Cells
    BY <1>1, TokenInCells, Zenon DEF head
  <2>2. Rest \in Cells /\ buf[i] \in Cells
    BY <1>2 DEF TripInv, TripTypeOK, Cells
  <2>3. ASSUME i \in ext .. ext + n - 1 PROVE ExtByte(t.lit, i - ext) \in Cells
    <3>1. i - ext \in 0 .. n - 1
      BY <1>1, <1>6, <2>3
    <3>2. QED
      BY <3>1, TokenInCells DEF n
  <2>4. ASSUME i \in x .. literals - 1 PROVE InputCell(at + (i - x)) \in Cells
    <3>1. /\ size \in Nat /\ t.mat \in Nat /\ (at + t.lit) + t.mat <= size
          /\ input \in [0 .. size - 1 -> Bytes]
      BY TripFacts, TokenPlaces DEF TripInv, TripTypeOK
    <3>2. at + (i - x) \in 0 .. size - 1
      BY <1>1, <1>6, <2>4, <3>1
    <3>3. QED
      BY <3>1, <3>2 DEF InputCell, Cells
  <2>5. QED
    BY <1>5, <2>1, <2>2, <2>3, <2>4
<1>13. QED
  BY <1>4, <1>7, <1>8, <1>9, <1>10, <1>11, <1>12 DEF ext, n, x, head

LEMMA TokenKeeps ==
  ASSUME TripInv, NEW t \in Tokens, WriteToken(t), TrueMatch(t), buf' = AfterWrite(t),
         UNCHANGED <<input, suffix, status, cursor, output>>
  PROVE  TripInv'
<1> DEFINE e == End
           f == Advance(e, t)
           n == [from |-> e, tok |-> t]
<1>1. /\ Inv' /\ f \in Cursors /\ End' = f /\ pc = "write" /\ pc' = "write"
      /\ UNCHANGED <<size, cap, len>>
      /\ size \in Nat /\ cap \in Nat /\ tokens \in Nat /\ literals \in Nat /\ at \in Nat
      /\ e \in Cursors /\ literals <= cap
      /\ e.control = tokens /\ e.literals = literals /\ e.out = at
  <2>1. e.control = tokens /\ e.literals = literals /\ e.out = at
    BY DEF End
  <2>2. QED
    BY <2>1, TokenPlaces, TripFacts
<1>2. TripTypeOK'
  <2>1. DOMAIN buf' = 0 .. cap - 1 /\ \A i \in DOMAIN buf' : buf'[i] \in Cells
    BY TokenCells
  <2>2. QED
    BY <1>1, <2>1 DEF TripInv, TripTypeOK, Inv
<1>3. PICK W : Stream(W, buf, input, 0, cap, e)
  BY <1>1 DEF TripInv, Writing
<1> DEFINE V == W \cup {n}
<1>4. Chain(V, cap, f)
  <2>1. Chain(W, cap, e)
    BY <1>3 DEF Stream
  <2> HIDE DEF e
  <2>2. QED
    BY <1>1, <2>1, ChainGrows
<1>5. n \in Links /\ n.from = e /\ n.tok = t
  BY <1>1 DEF Links
<1>6. Held(buf', input, 0, n)
  <2>1. HeaderHeld(buf', n)
    BY <1>1, <1>5, TokenCells DEF HeaderHeld
  <2>2. ExtensionHeld(buf', n)
    BY <1>1, <1>5, TokenCells, Zenon DEF ExtensionHeld
  <2>3. LiteralsHeld(buf', input, 0, n)
    <3>1. literals - 0 = literals
      BY <1>1
    <3>2. \A j \in 0 .. t.lit - 1 : buf'[(literals - t.lit) + j] = Lit(input[at + j])
      BY TokenCells DEF InputCell
    <3>3. QED
      BY <1>1, <1>5, <3>1, <3>2, Zenon DEF LiteralsHeld
  <2>4. QED
    BY <2>1, <2>2, <2>3 DEF Held
<1>7. Repeats(input, n)
  BY <1>1, <1>5 DEF Repeats, Echo, TrueMatch
<1>8. ASSUME NEW w \in W PROVE Held(buf', input, 0, w) /\ Repeats(input, w)
  <2>1. w \in Links /\ InOrder(w, cap, e) /\ Held(buf, input, 0, w) /\ Repeats(input, w)
    BY <1>3 DEF Stream, Chain
  <2>2. /\ \A i \in 0 .. e.control - 1 : buf'[i] = buf[i]
        /\ \A i \in e.literals .. cap - 1 : buf'[i] = buf[i]
    BY <1>1, TokenCells
  <2> HIDE DEF e
  <2>3. QED
    BY <1>1, <2>1, <2>2, HeldSame
<1>9. Stream(V, buf', input', 0, cap', End')
  <2>1. Stream(V, buf', input, 0, cap, f)
    BY <1>4, <1>6, <1>7, <1>8, Zenon DEF Stream
  <2>2. QED
    BY <1>1, <2>1
<1>10. Writing'
  BY <1>9, Zenon DEF Writing
<1>11. Unread' /\ Finishing' /\ RawHeld' /\ RoundTrips'
  <2>1. Unread' /\ Finishing' /\ RawHeld'
    BY <1>1 DEF TripInv, Unread, Finishing, RawHeld
  <2>2. RoundTrips'
    BY <1>1 DEF TripInv, Unread, RoundTrips
  <2>3. QED
    BY <2>1, <2>2
<1>12. QED
  BY <1>1, <1>2, <1>10, <1>11 DEF TripInv

(* The streams when the writer is done with them. *)
LEMMA JoinPlaces ==
  ASSUME TripInv, pc = "write"
  PROVE  /\ size \in Nat /\ cap \in Nat /\ tokens \in Nat /\ literals \in Nat
         /\ at \in Nat /\ at <= size - MinSuffix
         /\ ExtHeaderSize <= tokens /\ tokens <= literals /\ literals <= cap
         /\ (tokens + (cap - literals)) + (size - at) <= cap
         /\ Gap \in Nat /\ Gap = literals - tokens
<1>1. /\ at <= size - MinSuffix /\ literals <= cap /\ ExtHeaderSize <= tokens
  BY DEF TripInv, Inv, Paid
<1>2. /\ (tokens + (cap - literals)) + (size - at) <= cap /\ tokens <= literals
  BY PaidFits DEF TripInv
<1>3. QED
  BY <1>1, <1>2, TripFacts DEF Gap

(* The buffer that join leaves: the tokens where they were, every literal  *)
(* moved by the gap between the streams, and the suffix behind them.       *)
LEMMA JoinedCells ==
  ASSUME TripInv, pc = "write", buf' = Joined
  PROVE  /\ DOMAIN buf' = 0 .. cap - 1
         /\ \A i \in 0 .. tokens - 1 : buf'[i] = buf[i]
         /\ \A i \in literals .. cap - 1 : buf'[i - Gap] = buf[i]
         /\ \A j \in 0 .. (size - at) - 1 :
              buf'[(tokens + (cap - literals)) + j] = InputCell(at + j)
         /\ \A i \in 0 .. cap - 1 : buf'[i] \in Cells
<1> DEFINE end == tokens + (cap - literals)
           moved == RunsMoved(buf)
<1>1. /\ size \in Nat /\ cap \in Nat /\ tokens \in Nat /\ literals \in Nat
      /\ at \in Nat /\ MinSuffix \in Nat /\ at <= size - MinSuffix
      /\ tokens <= literals /\ literals <= cap /\ end + (size - at) <= cap
      /\ Gap = literals - tokens
  BY JoinPlaces, Constants
<1>2. DOMAIN buf = 0 .. cap - 1 /\ \A i \in 0 .. cap - 1 : buf[i] \in Cells
  BY DEF TripInv, TripTypeOK
<1>3. moved = [i \in 0 .. cap - 1 |->
                 IF i \in tokens .. end - 1 THEN buf[literals + (i - tokens)] ELSE buf[i]]
  <2>1. end - 1 = tokens + (cap - literals) - 1
    BY <1>1
  <2>2. DOMAIN buf = 0 .. cap - 1
    BY <1>2
  <2>3. QED
    BY <2>1, <2>2, Zenon DEF RunsMoved
<1>4. /\ DOMAIN moved = 0 .. cap - 1
      /\ \A i \in 0 .. cap - 1 :
           moved[i] = IF i \in tokens .. end - 1
                        THEN buf[literals + (i - tokens)] ELSE buf[i]
  BY <1>3, Zenon
<1> HIDE DEF moved
<1>5. buf' = [i \in 0 .. cap - 1 |->
                IF i \in end .. end + (size - at) - 1
                  THEN InputCell(at + (i - end)) ELSE moved[i]]
  BY <1>4 DEF Joined, SuffixWritten, moved
<1>6. /\ DOMAIN buf' = 0 .. cap - 1
      /\ \A i \in 0 .. cap - 1 :
           buf'[i] = IF i \in end .. end + (size - at) - 1
                       THEN InputCell(at + (i - end)) ELSE moved[i]
  BY <1>5, Zenon
<1>7. end \in Nat /\ end = tokens + (cap - literals)
  BY <1>1
<1> HIDE DEF end
<1>8. ASSUME NEW i \in 0 .. tokens - 1 PROVE buf'[i] = buf[i]
  <2>1. /\ i \in 0 .. cap - 1 /\ i \notin end .. end + (size - at) - 1
        /\ i \notin tokens .. end - 1
    BY <1>1, <1>7
  <2>2. QED
    BY <1>4, <1>6, <2>1
<1>9. ASSUME NEW i \in literals .. cap - 1 PROVE buf'[i - Gap] = buf[i]
  <2> DEFINE m == i - Gap
  <2>1. /\ m \in 0 .. cap - 1 /\ m \notin end .. end + (size - at) - 1
        /\ m \in tokens .. end - 1 /\ literals + (m - tokens) = i
    BY <1>1, <1>7
  <2> HIDE DEF m
  <2>2. buf'[m] = buf[i]
    BY <1>4, <1>6, <2>1
  <2>3. QED
    BY <2>2 DEF m
<1>10. ASSUME NEW j \in 0 .. (size - at) - 1 PROVE buf'[end + j] = InputCell(at + j)
  <2>1. /\ end + j \in 0 .. cap - 1 /\ end + j \in end .. end + (size - at) - 1
        /\ (end + j) - end = j
    BY <1>1, <1>7
  <2>2. QED
    BY <1>6, <2>1
<1>11. ASSUME NEW i \in 0 .. cap - 1 PROVE buf'[i] \in Cells
  <2>1. ASSUME i \in end .. end + (size - at) - 1
        PROVE  InputCell(at + (i - end)) \in Cells
    <3>1. at + (i - end) \in 0 .. size - 1
      BY <1>1, <1>7, <2>1
    <3>2. input[at + (i - end)] \in Bytes
      BY <3>1 DEF TripInv, TripTypeOK
    <3>3. QED
      BY <3>2 DEF InputCell, Cells
  <2>2. ASSUME i \in tokens .. end - 1
        PROVE  literals + (i - tokens) \in 0 .. cap - 1
    BY <1>1, <1>7, <2>2
  <2>3. moved[i] \in Cells
    BY <1>2, <1>4, <2>2
  <2>4. QED
    BY <1>6, <2>1, <2>3
<1>12. QED
  BY <1>6, <1>8, <1>9, <1>10, <1>11 DEF end

LEMMA FinishKeeps == ASSUME TripInv, TripFinish PROVE TripInv'
<1> DEFINE e == End
<1>1. /\ FinishStream /\ buf' = Joined /\ suffix' = size - at
      /\ cursor' = Start(Layout') /\ UNCHANGED <<input, output>>
      /\ pc = "write" /\ pc' = "done" /\ UNCHANGED <<size, cap, tokens, literals, at>>
      /\ len' = (tokens + (cap - literals)) + (size - at)
  BY DEF TripFinish, FinishStream
<1>2. /\ size \in Nat /\ cap \in Nat /\ tokens \in Nat /\ literals \in Nat
      /\ at \in Nat /\ at <= size - MinSuffix
      /\ ExtHeaderSize <= tokens /\ tokens <= literals /\ literals <= cap
      /\ (tokens + (cap - literals)) + (size - at) <= cap
      /\ Gap \in Nat /\ Gap = literals - tokens
      /\ ExtHeaderSize \in Nat /\ MinSuffix \in Nat
  BY <1>1, JoinPlaces, Constants
<1>3. Inv'
  BY <1>1, NextInv DEF TripInv, Next
<1>4. /\ Layout' = [src |-> len', dst |-> size, suffix |-> suffix']
      /\ SuffixStart(Layout') = tokens + (cap - literals)
  <2>1. Layout' = [src |-> len', dst |-> size, suffix |-> suffix']
    BY <1>1 DEF Layout
  <2>2. SuffixStart(Layout') = len' - suffix'
    BY <2>1 DEF SuffixStart
  <2>3. QED
    BY <1>1, <1>2, <2>1, <2>2
<1>5. status' = "run"
  <2>1. /\ suffix' >= MinSuffix /\ suffix' <= size
        /\ SuffixStart(Layout') >= ExtHeaderSize
    BY <1>1, <1>2, <1>4
  <2>2. QED
    BY <2>1 DEF TripFinish
<1>6. /\ cursor' = [control |-> ExtHeaderSize, literals |-> cap - Gap, out |-> 0]
      /\ cursor' \in Cursors
  <2>1. cursor' = [control |-> ExtHeaderSize, literals |-> tokens + (cap - literals),
                   out |-> 0]
    BY <1>1, <1>4 DEF Start
  <2>2. tokens + (cap - literals) = cap - Gap /\ cap - Gap \in Nat
    BY <1>2
  <2>3. QED
    BY <1>2, <2>1, <2>2 DEF Cursors
<1>7. TripTypeOK'
  <2>1. DOMAIN buf' = 0 .. cap - 1 /\ \A i \in DOMAIN buf' : buf'[i] \in Cells
    BY <1>1, JoinedCells
  <2>2. suffix' \in 0 .. size
    BY <1>1, <1>2
  <2>3. QED
    BY <1>1, <1>3, <1>5, <1>6, <2>1, <2>2 DEF TripInv, TripTypeOK, Inv
<1>8. SuffixHeld'
  BY <1>1, JoinedCells DEF SuffixHeld, InputCell
<1>9. PICK W : Stream(W, buf, input, 0, cap, e)
  BY <1>1 DEF TripInv, Writing
<1>10. Stream(W, buf', input', Gap', cap', End')
  <2>1. End' = e /\ Gap' = Gap
    BY <1>1 DEF End, Gap
  <2>2. e \in Cursors /\ e.control = tokens /\ e.literals = literals
    BY TripFacts DEF End
  <2>3. /\ \A i \in 0 .. e.control - 1 : buf'[i] = buf[i]
        /\ \A i \in e.literals .. cap - 1 : buf'[i - Gap] = buf[i]
    BY <1>1, <2>2, JoinedCells
  <2>4. ASSUME NEW w \in W PROVE Held(buf', input, Gap, w) /\ Repeats(input, w)
    <3>1. w \in Links /\ InOrder(w, cap, e) /\ Held(buf, input, 0, w) /\ Repeats(input, w)
      BY <1>9 DEF Stream, Chain
    <3>2. Gap <= e.literals
      BY <1>2, <2>2
    <3> HIDE DEF e
    <3>3. QED
      BY <1>2, <2>2, <2>3, <3>1, <3>2, HeldMoved
  <2>5. Stream(W, buf', input, Gap, cap, e)
    BY <1>9, <2>4, Zenon DEF Stream
  <2>6. QED
    BY <1>1, <2>1, <2>5
<1>11. Reading(W)'
  <2>1. First(cap') \in Cursors /\ Reached(W, First(cap'), End')
    BY <1>1, <1>2, <1>10 DEF Stream, Chain, First, Cursors
  <2>2. cursor' = [control |-> First(cap').control, literals |-> First(cap').literals - Gap',
                   out |-> First(cap').out]
    BY <1>1, <1>6 DEF First, Gap
  <2>3. DOMAIN output' = 0 .. First(cap').out - 1
    BY <1>1 DEF TripInv, Unread, First
  <2>4. QED
    BY <2>1, <2>2, <2>3 DEF Reading
<1>12. Finishing'
  <2>1. /\ ExtHeaderSize <= tokens' /\ tokens' <= literals' /\ literals' <= cap'
        /\ at' <= size' - MinSuffix
        /\ len' = (tokens' + (cap' - literals')) + (size' - at')
        /\ len' <= cap' /\ suffix' = size' - at' /\ status' \in {"run", "ok"}
    BY <1>1, <1>2, <1>5
  <2>2. QED
    BY <1>8, <1>10, <1>11, <2>1 DEF Finishing
<1>13. Unread' /\ Writing' /\ RawHeld' /\ RoundTrips'
  <2>1. Unread' /\ Writing'
    BY <1>1 DEF Unread, Writing
  <2>2. RoundTrips'
    BY <1>1, <1>5 DEF TripInv, Unread, RoundTrips
  <2>3. size' > RawLimit
    BY <1>1 DEF TripInv, Inv, Paid
  <2>4. RawHeld'
    BY <1>1, <1>2, <2>3, Constants DEF RawHeld
  <2>5. QED
    BY <2>1, <2>2, <2>4
<1>14. QED
  BY <1>1, <1>3, <1>7, <1>12, <1>13 DEF TripInv

----------------------------------------------------------------------------
(* read_extension stops after the bytes that write_extension wrote.        *)
LEMMA ExtensionRead ==
  ASSUME NEW e \in Nat, NEW n \in Nat, n >= TokenLitMax, ExtWritten(n) \in 1 .. cap,
         cap \in Nat,
         \A j \in 0 .. ExtWritten(n) - 1 : buf[e + j] = ExtByte(n, j)
  PROVE  /\ ExtRun(e) = ExtWritten(n)
         /\ buf[e + ExtWritten(n) - 1]
              = Ext((n - TokenLitMax) - (ExtWritten(n) - 1) * ExtMax)
<1> DEFINE q == ExtWritten(n)
           y == (n - TokenLitMax) - (q - 1) * ExtMax
           P(k) == /\ \A j \in 0 .. k - 2 : buf[e + j] = Ext(ExtMax)
                   /\ buf[e + k - 1] # Ext(ExtMax)
<1>1. /\ q \in Nat \ {0} /\ q - 1 \in 0 .. q - 1
      /\ y \in 0 .. ExtMax - 1 /\ ExtByte(n, q - 1) = Ext(y)
  <2>1. q - 1 \in 0 .. q - 1
    OBVIOUS
  <2>2. QED
    BY <2>1, ExtensionBytes
<1>2. \A j \in 0 .. q - 2 : ExtByte(n, j) = Ext(ExtMax)
  <2>1. ASSUME NEW j \in 0 .. q - 2
        PROVE  j \in 0 .. ExtWritten(n) - 1 /\ j < ExtWritten(n) - 1
    BY <1>1
  <2>2. QED
    BY <2>1, ExtensionBytes
<1>3. y # ExtMax /\ ExtMax \in Nat
  BY <1>1, Constants
<1> HIDE DEF y
<1>4. Ext(y) # Ext(ExtMax)
  BY <1>3 DEF Ext
<1>5. \A j \in 0 .. q - 2 : buf[e + j] = Ext(ExtMax)
  <2>1. \A j \in 0 .. q - 2 : j \in 0 .. q - 1
    BY <1>1
  <2>2. QED
    BY <1>2, <2>1
<1>6. buf[e + q - 1] = Ext(y) /\ buf[e + q - 1] # Ext(ExtMax)
  BY <1>1, <1>4
<1> HIDE DEF q
<1>7. P(q) /\ q \in 1 .. cap
  BY <1>5, <1>6 DEF q
<1>8. ASSUME NEW k \in 1 .. cap, P(k) PROVE k = q
  <2>1. CASE k < q
    <3>1. k - 1 \in 0 .. q - 2 /\ e + (k - 1) = e + k - 1
      BY <1>1, <2>1
    <3>2. QED
      BY <1>5, <1>8, <3>1
  <2>2. CASE q < k
    <3>1. q - 1 \in 0 .. k - 2 /\ e + (q - 1) = e + q - 1
      BY <1>1, <2>2
    <3>2. QED
      BY <1>6, <1>8, <3>1
  <2>3. QED
    BY <1>1, <2>1, <2>2
<1>9. ExtRun(e) = CHOOSE k \in 1 .. cap : P(k)
  BY DEF ExtRun
<1> HIDE DEF P
<1>10. ExtRun(e) = q
  BY <1>7, <1>8, <1>9
<1>11. QED
  BY <1>6, <1>10 DEF q, y

(* The decoder finds every token that was written.                         *)
LEMMA TokenFound ==
  ASSUME NEW w \in Links, HeaderHeld(buf, w), ExtensionHeld(buf, w),
         Past(w).control <= cap, cap \in Nat
  PROVE  TokenAt(w.from.control) = w.tok
<1> DEFINE p == w.from.control
           t == w.tok
           field == IF t.lit < TokenLitMax THEN t.lit ELSE TokenLitMax
           e == p + TokenLen
           k == ExtRun(e)
           found == [lit |-> IF buf[p].field < TokenLitMax THEN buf[p].field
                             ELSE buf[p].field + (k - 1) * ExtMax + buf[e + k - 1].n,
                     mat |-> buf[p].mat, dis |-> buf[p].dis]
<1>1. /\ t \in Tokens /\ t.lit \in Nat /\ p \in Nat /\ TokenLen \in Nat
      /\ TokenLitMax \in Nat /\ ExtMax \in Nat /\ ExtWritten(t.lit) \in Nat
      /\ (p + TokenLen) + ExtWritten(t.lit) <= cap
  BY LinkRange, Constants
<1>2. buf[p].field = field /\ buf[p].mat = t.mat /\ buf[p].dis = t.dis
  BY DEF HeaderHeld, Head
<1>3. TokenAt(p) = found
  BY DEF TokenAt
<1> HIDE DEF k
<1>4. CASE t.lit < TokenLitMax
  <2>1. found.lit = t.lit
    BY <1>2, <1>4
  <2>2. QED
    BY <1>1, <1>2, <1>3, <2>1 DEF Tokens
<1>5. CASE t.lit >= TokenLitMax
  <2> DEFINE y == (t.lit - TokenLitMax) - (ExtWritten(t.lit) - 1) * ExtMax
  <2>1. ExtWritten(t.lit) \in 1 .. cap
    <3>1. 0 \in 0 .. 0 /\ ExtWritten(t.lit) # 0
      BY <1>1, <1>5, Constants DEF ExtWritten
    <3>2. QED
      BY <1>1, <3>1
  <2>2. \A j \in 0 .. ExtWritten(t.lit) - 1 : buf[e + j] = ExtByte(t.lit, j)
    BY DEF ExtensionHeld
  <2>3. k = ExtWritten(t.lit) /\ buf[e + k - 1] = Ext(y)
    <3>1. e \in Nat
      BY <1>1
    <3> HIDE DEF e
    <3>2. /\ ExtRun(e) = ExtWritten(t.lit)
          /\ buf[e + ExtWritten(t.lit) - 1] = Ext(y)
      BY <1>1, <1>5, <2>1, <2>2, <3>1, ExtensionRead, Zenon
    <3>3. QED
      BY <3>2 DEF k
  <2>4. buf[e + k - 1].n = y
    BY <2>3 DEF Ext
  <2>5. buf[p].field = TokenLitMax
    BY <1>1, <1>2, <1>5
  <2>6. found.lit = TokenLitMax + (ExtWritten(t.lit) - 1) * ExtMax + y
    BY <1>1, <2>3, <2>4, <2>5
  <2>7. found.lit = t.lit
    <3> DEFINE z == (ExtWritten(t.lit) - 1) * ExtMax
    <3>1. z \in Int
      BY <1>1
    <3> HIDE DEF z
    <3>2. found.lit = TokenLitMax + z + ((t.lit - TokenLitMax) - z)
      BY <2>6 DEF z
    <3>3. QED
      BY <1>1, <3>1, <3>2
  <2>8. QED
    BY <1>1, <1>2, <1>3, <2>7 DEF Tokens
<1>6. QED
  BY <1>1, <1>4, <1>5

(* The finished stream, and its sizes as the decoder's Layout. *)
LEMMA ReadPlaces ==
  ASSUME TripInv, status = "run"
  PROVE  /\ pc = "done" /\ size > RawLimit
         /\ size \in Nat /\ cap \in Nat /\ tokens \in Nat /\ literals \in Nat /\ at \in Nat
         /\ ExtHeaderSize <= tokens /\ tokens <= literals /\ literals <= cap
         /\ at <= size /\ Gap \in Nat /\ Gap = literals - tokens
         /\ SuffixStart(Layout) = tokens + (cap - literals)
         /\ TokenOutputEnd(Layout) = at
<1>1. pc = "done" /\ size > RawLimit
  <2>1. pc = "done"
    BY DEF TripInv, Unread, TypeOK
  <2>2. QED
    BY <2>1, TripFacts, Constants DEF TripInv, RawHeld
<1>2. /\ ExtHeaderSize <= tokens /\ tokens <= literals /\ literals <= cap
      /\ at <= size - MinSuffix /\ suffix = size - at
      /\ len = (tokens + (cap - literals)) + (size - at)
  BY <1>1 DEF TripInv, Finishing
<1>3. /\ size \in Nat /\ cap \in Nat /\ tokens \in Nat /\ literals \in Nat /\ at \in Nat
      /\ MinSuffix \in Nat
  BY TripFacts, Constants
<1>4. SuffixStart(Layout) = len - suffix /\ TokenOutputEnd(Layout) = size - suffix
  BY DEF Layout, SuffixStart, TokenOutputEnd
<1>5. QED
  BY <1>1, <1>2, <1>3, <1>4 DEF Gap

(* A token that was written is read back, passes every check, and moves    *)
(* the decoder to where the next one was written.                          *)
LEMMA LinkRead ==
  ASSUME TripInv, status = "run", NEW W, Stream(W, buf, input, Gap, cap, End),
         NEW w \in W,
         cursor = [control |-> w.from.control, literals |-> w.from.literals - Gap,
                   out |-> w.from.out]
  PROVE  /\ More
         /\ TokenAt(cursor.control) = w.tok
         /\ Accepts(Layout, cursor, w.tok)
         /\ Advance(cursor, w.tok)
              = [control |-> Past(w).control, literals |-> Past(w).literals - Gap,
                 out |-> Past(w).out]
         /\ Advance(cursor, w.tok) \in Cursors
         /\ Past(w) \in Cursors /\ Past(w).out <= size
<1> DEFINE t == w.tok
<1>1. /\ size \in Nat /\ cap \in Nat /\ tokens \in Nat /\ literals \in Nat /\ at \in Nat
      /\ tokens <= literals /\ literals <= cap /\ at <= size
      /\ Gap \in Nat /\ Gap = literals - tokens /\ TokenOutputEnd(Layout) = at
  BY ReadPlaces
<1>2. /\ w \in Links /\ Held(buf, input, Gap, w) /\ Repeats(input, w)
      /\ InOrder(w, cap, End)
  BY DEF Stream, Chain
<1>3. /\ t \in Tokens /\ w.from \in Cursors
      /\ t.lit \in Nat /\ t.mat \in Nat \ {0} /\ t.dis \in Nat \ {0}
      /\ ExtWritten(t.lit) \in Nat
      /\ w.from.control \in Nat /\ w.from.literals \in Nat /\ w.from.out \in Nat
      /\ Past(w).control = (w.from.control + TokenLen) + ExtWritten(t.lit)
      /\ Past(w).literals = w.from.literals - t.lit
      /\ Past(w).out = (w.from.out + t.lit) + t.mat
  BY <1>2, LinkRange
<1>4. /\ w.from.literals <= cap /\ Past(w).control <= tokens
      /\ literals <= Past(w).literals /\ Past(w).out <= at
  BY <1>2 DEF InOrder, End
<1>5. t.dis <= w.from.out + t.lit
  BY <1>2 DEF Repeats
<1>6. /\ cursor.control = w.from.control /\ cursor.literals = w.from.literals - Gap
      /\ cursor.out = w.from.out
  OBVIOUS
<1>7. TokenLen \in Nat \ {0} /\ ExtBytes(t.lit) = ExtWritten(t.lit)
  BY Constants DEF ExtBytes, ExtWritten
<1>8. More
  BY <1>1, <1>3, <1>4, <1>6, <1>7 DEF More
<1>9. TokenAt(cursor.control) = t
  <2>1. HeaderHeld(buf, w) /\ ExtensionHeld(buf, w)
    BY <1>2 DEF Held
  <2>2. Past(w).control <= cap
    BY <1>1, <1>3, <1>4, <1>7
  <2>3. QED
    BY <1>1, <1>2, <1>6, <2>1, <2>2, TokenFound
<1>10. Accepts(Layout, cursor, t)
  <2>1. AfterToken(cursor.control, t) = (w.from.control + TokenLen) + ExtWritten(t.lit)
    BY <1>6, <1>7 DEF AfterToken
  <2>2. QED
    BY <1>1, <1>3, <1>4, <1>5, <1>6, <1>7, <2>1 DEF Accepts
<1>11. /\ Advance(cursor, t).control = Past(w).control
       /\ Advance(cursor, t).literals = Past(w).literals - Gap
       /\ Advance(cursor, t).out = Past(w).out
       /\ Advance(cursor, t) = [control |-> Past(w).control,
                                literals |-> Past(w).literals - Gap, out |-> Past(w).out]
  BY <1>1, <1>3, <1>6, <1>7 DEF Advance, AfterToken
<1>12. /\ Past(w).control \in Nat /\ Past(w).literals - Gap \in Nat
       /\ Past(w).literals \in Nat /\ Past(w).out \in Nat
  BY <1>1, <1>3, <1>4, <1>7
<1>13. Past(w) \in Cursors
  BY <1>12 DEF Past, Advance, Cursors
<1>14. Advance(cursor, t) \in Cursors
  BY <1>11, <1>12 DEF Cursors
<1>15. QED
  BY <1>1, <1>4, <1>8, <1>9, <1>10, <1>11, <1>12, <1>13, <1>14

(* The first n cells of an output are the input's. *)
IsInput(out, inp, n) == \A i \in 0 .. n - 1 : out[i] = Lit(inp[i])

(* An output goes on, after the first cells, with a match. *)
IsMatched(whole, run, after, mat, dis) ==
  \A i \in 0 .. after + mat - 1 :
    whole[i] = IF i < after THEN run[i]
               ELSE run[after - dis + ((i - after) % dis)]

(* A run that is the input's, and after it a match that repeats it.        *)
LEMMA RunThenMatch ==
  ASSUME NEW inp, NEW run, NEW whole,
         NEW after \in Nat, NEW mat \in Nat, NEW dis \in Nat \ {0}, dis <= after,
         Echo(inp, after, mat, dis), IsInput(run, inp, after),
         IsMatched(whole, run, after, mat, dis)
  PROVE  IsInput(whole, inp, after + mat)
<1>1. Cycle(inp, after, mat, dis)
  BY Periodic
<1> USE DEF IsInput, IsMatched
<1> SUFFICES ASSUME NEW i \in 0 .. after + mat - 1 PROVE whole[i] = Lit(inp[i])
  OBVIOUS
<1>2. CASE i < after
  <2>1. i \in 0 .. after - 1
    BY <1>2
  <2>2. QED
    BY <1>2, <2>1
<1>3. CASE ~(i < after)
  <2> DEFINE j == i - after
             r == j % dis
  <2>1. j \in 0 .. mat - 1 /\ j \in Nat /\ after + j = i
    BY <1>3
  <2>2. r \in 0 .. dis - 1
    BY <2>1
  <2>3. inp[i] = inp[(after - dis) + r]
    BY <1>1, <2>1 DEF Cycle
  <2>4. whole[i] = run[(after - dis) + r]
    BY <1>3
  <2> HIDE DEF j, r
  <2>5. (after - dis) + r \in 0 .. after - 1
    BY <2>2
  <2>6. QED
    BY <2>3, <2>4, <2>5
<1>4. QED
  BY <1>2, <1>3

(* What the token decodes to is the input, its match included. *)
LEMMA OutputRead ==
  ASSUME TripInv, status = "run", NEW W, Stream(W, buf, input, Gap, cap, End),
         NEW w \in W,
         cursor = [control |-> w.from.control, literals |-> w.from.literals - Gap,
                   out |-> w.from.out],
         DOMAIN output = 0 .. w.from.out - 1
  PROVE  /\ DOMAIN AfterRead(w.tok) = 0 .. Past(w).out - 1
         /\ \A i \in 0 .. Past(w).out - 1 : AfterRead(w.tok)[i] = InputCell(i)
<1> DEFINE t == w.tok
           from == cursor.out
           after == from + t.lit
           x == cursor.literals - t.lit
           run == [i \in 0 .. after - 1 |->
                     IF i < from THEN output[i] ELSE buf[x + (i - from)]]
           whole == [i \in 0 .. after + t.mat - 1 |->
                       IF i < after THEN run[i]
                       ELSE run[after - t.dis + ((i - after) % t.dis)]]
<1>1. /\ w \in Links /\ LiteralsHeld(buf, input, Gap, w) /\ Repeats(input, w)
      /\ \A i \in 0 .. from - 1 : output[i] = InputCell(i)
  BY DEF Stream, Chain, Held, TripInv, RoundTrips
<1>2. /\ t.lit \in Nat /\ t.mat \in Nat \ {0} /\ t.dis \in Nat \ {0}
      /\ from \in Nat /\ after \in Nat /\ Past(w).out = after + t.mat
      /\ after = from + t.lit /\ w.from.out = from
  BY <1>1, LinkRange
<1>3. /\ t.dis <= after
      /\ Echo(input, after, t.mat, t.dis)
  BY <1>1, <1>2 DEF Repeats
<1>4. AfterRead(t) = whole
  BY Zenon DEF AfterRead
<1>5. \A i \in 0 .. after - 1 : run[i] = IF i < from THEN output[i] ELSE buf[x + (i - from)]
  BY Zenon
<1> HIDE DEF run
<1>6. /\ DOMAIN whole = 0 .. after + t.mat - 1
      /\ \A i \in 0 .. after + t.mat - 1 :
           whole[i] = IF i < after THEN run[i]
                      ELSE run[after - t.dis + ((i - after) % t.dis)]
  BY Zenon
<1>7. \A j \in 0 .. t.lit - 1 : buf[x + j] = InputCell(from + j)
  BY <1>1, <1>2, Zenon DEF LiteralsHeld, InputCell
<1> HIDE DEF whole, x, after, from
<1>8. ASSUME NEW i \in 0 .. after - 1 PROVE run[i] = InputCell(i)
  <2>1. CASE i < from
    <3>1. i \in 0 .. from - 1
      BY <1>2, <2>1
    <3>2. QED
      BY <1>1, <1>5, <2>1, <3>1
  <2>2. CASE ~(i < from)
    <3>1. i - from \in 0 .. t.lit - 1 /\ from + (i - from) = i
      BY <1>2, <2>2
    <3>2. run[i] = buf[x + (i - from)]
      BY <1>5, <2>2
    <3>3. QED
      BY <1>7, <3>1, <3>2
  <2>3. QED
    BY <2>1, <2>2
<1>9. IsInput(whole, input, after + t.mat)
  <2>1. IsInput(run, input, after)
    BY <1>8 DEF IsInput, InputCell
  <2>2. IsMatched(whole, run, after, t.mat, t.dis)
    BY <1>6 DEF IsMatched
  <2>3. t.mat \in Nat
    BY <1>2
  <2> HIDE DEF t
  <2>4. QED
    BY <1>2, <1>3, <2>1, <2>2, <2>3, RunThenMatch
<1>10. Past(w).out = after + t.mat
  BY <1>2
<1>11. DOMAIN AfterRead(t) = 0 .. Past(w).out - 1
  <2>1. Past(w).out - 1 = after + t.mat - 1
    BY <1>2
  <2>2. DOMAIN whole = 0 .. after + t.mat - 1
    BY <1>6
  <2>3. QED
    BY <1>4, <2>1, <2>2, Zenon
<1>12. ASSUME NEW i \in 0 .. Past(w).out - 1 PROVE AfterRead(t)[i] = InputCell(i)
  BY <1>4, <1>9, <1>10, Zenon DEF IsInput, InputCell
<1>13. QED
  BY <1>11, <1>12

LEMMA ReadKeeps == ASSUME TripInv, ReadToken PROVE TripInv'
<1>1. /\ status = "run" /\ More /\ UNCHANGED <<vars, input, buf, suffix>>
      /\ UNCHANGED <<size, cap, pc, tokens, literals, at, len>>
  BY DEF ReadToken, vars
<1>2. /\ pc = "done" /\ size > RawLimit /\ tokens \in Nat /\ literals \in Nat /\ Gap = literals - tokens
      /\ Inv' /\ Gap' = Gap /\ End' = End
  BY <1>1, NextInv, ReadPlaces DEF TripInv, Gap, End
<1>3. PICK W : Stream(W, buf, input, Gap, cap, End) /\ Reading(W)
  BY <1>2 DEF TripInv, Finishing
<1>4. PICK c \in Cursors :
        /\ Reached(W, c, End)
        /\ cursor = [control |-> c.control, literals |-> c.literals - Gap, out |-> c.out]
        /\ DOMAIN output = 0 .. c.out - 1
  BY <1>1, <1>3 DEF Reading
<1>5. PICK w \in W : w.from = c
  <2>1. ASSUME c = End PROVE FALSE
    BY <1>1, <1>2, <1>4, <2>1 DEF End, More
  <2>2. QED
    BY <1>4, <2>1 DEF Reached
<1> DEFINE t == w.tok
<1>6. /\ TokenAt(cursor.control) = t /\ Accepts(Layout, cursor, t)
      /\ Advance(cursor, t) = [control |-> Past(w).control,
                               literals |-> Past(w).literals - Gap, out |-> Past(w).out]
      /\ Advance(cursor, t) \in Cursors /\ Past(w) \in Cursors /\ Past(w).out <= size
  BY <1>1, <1>3, <1>4, <1>5, LinkRead
<1>7. output' = AfterRead(t) /\ cursor' = Advance(cursor, t) /\ status' = status
  BY <1>6 DEF ReadToken
<1>8. /\ DOMAIN output' = 0 .. Past(w).out - 1
      /\ \A i \in 0 .. Past(w).out - 1 : output'[i] = InputCell(i)
  BY <1>1, <1>3, <1>4, <1>5, <1>7, OutputRead
<1>9. TripTypeOK'
  <2>1. ASSUME NEW i \in DOMAIN output' PROVE output'[i] \in Cells
    <3>1. i \in 0 .. size - 1
      BY <1>6, <1>8, TripFacts DEF Cursors
    <3>2. input[i] \in Bytes
      BY <3>1 DEF TripInv, TripTypeOK
    <3>3. InputCell(i) \in Cells
      BY <3>2 DEF InputCell, Cells
    <3>4. QED
      BY <1>8, <3>3
  <2>2. TypeOK' /\ cursor' \in Cursors
    BY <1>2, <1>6, <1>7 DEF Inv
  <2>3. QED
    BY <1>1, <1>7, <2>1, <2>2 DEF TripInv, TripTypeOK
<1>10. Reading(W)'
  <2>1. Reached(W, Past(w), End)
    BY <1>3 DEF Stream, Chain
  <2>2. cursor' = [control |-> Past(w).control, literals |-> Past(w).literals - Gap,
                   out |-> Past(w).out]
    BY <1>6, <1>7
  <2>3. QED
    BY <1>2, <1>6, <1>8, <2>1, <2>2 DEF Reading
<1>11. Finishing'
  <2>1. Stream(W, buf', input', Gap', cap', End')
    BY <1>1, <1>2, <1>3
  <2>2. SuffixHeld'
    BY <1>1, <1>2 DEF TripInv, Finishing, SuffixHeld, InputCell
  <2>3. /\ ExtHeaderSize <= tokens' /\ tokens' <= literals' /\ literals' <= cap'
        /\ at' <= size' - MinSuffix
        /\ len' = (tokens' + (cap' - literals')) + (size' - at')
        /\ len' <= cap' /\ suffix' = size' - at' /\ status' \in {"run", "ok"}
    BY <1>1, <1>2, <1>7 DEF TripInv, Finishing
  <2>4. QED
    BY <1>10, <2>1, <2>2, <2>3 DEF Finishing
<1>12. RoundTrips'
  <2>1. \A i \in DOMAIN output' : output'[i] = InputCell(i)'
    BY <1>1, <1>8 DEF InputCell
  <2>2. QED
    BY <1>1, <1>7, <2>1 DEF RoundTrips
<1>13. Unread' /\ Writing' /\ RawHeld'
  BY <1>1, <1>2, TripFacts, Constants DEF Unread, Writing, RawHeld
<1>14. QED
  BY <1>1, <1>2, <1>9, <1>11, <1>12, <1>13 DEF TripInv

LEMMA SuffixKeeps == ASSUME TripInv, ReadSuffix PROVE TripInv'
<1>1. /\ status = "run" /\ ~More /\ UNCHANGED <<vars, input, buf, suffix, cursor>>
      /\ UNCHANGED <<size, cap, pc, tokens, literals, at, len>>
  BY DEF ReadSuffix, vars
<1>2. /\ pc = "done" /\ size > RawLimit /\ Inv' /\ Gap' = Gap /\ End' = End
      /\ size \in Nat /\ cap \in Nat /\ tokens \in Nat /\ literals \in Nat /\ at \in Nat
      /\ tokens <= literals /\ literals <= cap /\ at <= size
      /\ Gap \in Nat /\ Gap = literals - tokens
      /\ SuffixStart(Layout) = tokens + (cap - literals)
      /\ TokenOutputEnd(Layout) = at
  BY <1>1, NextInv, ReadPlaces DEF TripInv, Gap, End
<1>3. PICK W : Stream(W, buf, input, Gap, cap, End) /\ Reading(W)
  BY <1>2 DEF TripInv, Finishing
<1>4. PICK c \in Cursors :
        /\ Reached(W, c, End)
        /\ cursor = [control |-> c.control, literals |-> c.literals - Gap, out |-> c.out]
        /\ DOMAIN output = 0 .. c.out - 1
  BY <1>1, <1>3 DEF Reading
<1>5. c = End
  <2>1. ASSUME NEW w \in W, w.from = c PROVE FALSE
    BY <1>1, <1>3, <1>4, <2>1, LinkRead
  <2>2. QED
    BY <1>4, <2>1 DEF Reached
<1>6. /\ cursor.control = tokens /\ cursor.literals = tokens /\ cursor.out = at
      /\ DOMAIN output = 0 .. at - 1
  BY <1>2, <1>4, <1>5 DEF End
<1>7. status' = "ok" /\ output' = WithSuffix
  BY <1>2, <1>6 DEF ReadSuffix, Finished
<1>8. /\ DOMAIN output' = 0 .. size - 1
      /\ \A i \in 0 .. size - 1 : output'[i] = InputCell(i)
  <2> DEFINE end == tokens + (cap - literals)
             whole == [i \in 0 .. size - 1 |->
                         IF i < at THEN output[i] ELSE buf[end + (i - at)]]
  <2>1. WithSuffix = whole
    BY <1>2, <1>6 DEF WithSuffix
  <2>2. /\ DOMAIN whole = 0 .. size - 1
        /\ \A i \in 0 .. size - 1 :
             whole[i] = IF i < at THEN output[i] ELSE buf[end + (i - at)]
    BY Zenon
  <2>3. \A j \in 0 .. (size - at) - 1 : buf[end + j] = InputCell(at + j)
    BY <1>2 DEF TripInv, Finishing, SuffixHeld
  <2>4. \A i \in 0 .. at - 1 : output[i] = InputCell(i)
    BY <1>6 DEF TripInv, RoundTrips
  <2> HIDE DEF whole, end
  <2>5. ASSUME NEW i \in 0 .. size - 1 PROVE whole[i] = InputCell(i)
    <3>1. CASE i < at
      <4>1. i \in 0 .. at - 1
        BY <1>2, <3>1
      <4>2. QED
        BY <2>2, <2>4, <3>1, <4>1
    <3>2. CASE ~(i < at)
      <4>1. i - at \in 0 .. (size - at) - 1 /\ at + (i - at) = i
        BY <1>2, <3>2
      <4>2. QED
        BY <2>2, <2>3, <3>2, <4>1
    <3>3. QED
      BY <3>1, <3>2
  <2>6. QED
    BY <1>7, <2>1, <2>2, <2>5
<1>9. TripTypeOK'
  <2>1. ASSUME NEW i \in DOMAIN output' PROVE output'[i] \in Cells
    <3>1. input[i] \in Bytes
      BY <1>8 DEF TripInv, TripTypeOK
    <3>2. InputCell(i) \in Cells
      BY <3>1 DEF InputCell, Cells
    <3>3. QED
      BY <1>8, <3>2
  <2>2. QED
    BY <1>1, <1>2, <1>7, <2>1 DEF TripInv, TripTypeOK, Inv
<1>10. Finishing'
  <2>1. Stream(W, buf', input', Gap', cap', End') /\ Reading(W)'
    BY <1>1, <1>2, <1>3, <1>7 DEF Reading
  <2>2. SuffixHeld'
    BY <1>1, <1>2 DEF TripInv, Finishing, SuffixHeld, InputCell
  <2>3. /\ ExtHeaderSize <= tokens' /\ tokens' <= literals' /\ literals' <= cap'
        /\ at' <= size' - MinSuffix
        /\ len' = (tokens' + (cap' - literals')) + (size' - at')
        /\ len' <= cap' /\ suffix' = size' - at' /\ status' \in {"run", "ok"}
    BY <1>1, <1>2, <1>7 DEF TripInv, Finishing
  <2>4. QED
    BY <2>1, <2>2, <2>3 DEF Finishing
<1>11. RoundTrips'
  <2>1. \A i \in DOMAIN output' : output'[i] = InputCell(i)'
    BY <1>1, <1>8 DEF InputCell
  <2>2. QED
    BY <1>1, <1>7, <1>8, <2>1 DEF RoundTrips
<1>12. Unread' /\ Writing' /\ RawHeld'
  BY <1>1, <1>2, TripFacts, Constants DEF Unread, Writing, RawHeld
<1>13. QED
  BY <1>1, <1>2, <1>9, <1>10, <1>11, <1>12 DEF TripInv

LEMMA TripStutters == ASSUME TripInv, UNCHANGED tripVars PROVE TripInv'
<1>1. /\ UNCHANGED <<size, cap, pc, tokens, literals, at, len>>
      /\ UNCHANGED <<input, buf, suffix, status, cursor, output>>
      /\ UNCHANGED vars
  BY DEF tripVars, vars
<1>2. Inv'
  BY <1>1, NextInv DEF TripInv
<1>3. Gap' = Gap /\ End' = End
  BY <1>1 DEF Gap, End
<1>4. Unread' /\ Writing' /\ RoundTrips' /\ TripTypeOK'
  BY <1>1, <1>2, <1>3
     DEF TripInv, Unread, Writing, RoundTrips, InputCell, TripTypeOK, Inv
<1>5. Finishing' /\ RawHeld'
  BY <1>1, <1>3 DEF TripInv, Finishing, RawHeld, SuffixHeld, InputCell, Reading
<1>6. QED
  BY <1>1, <1>2, <1>4, <1>5 DEF TripInv

LEMMA TripNextInv == TripInv /\ [TripNext]_tripVars => TripInv'
<1> SUFFICES ASSUME TripInv, [TripNext]_tripVars PROVE TripInv'
  OBVIOUS
<1>0. CASE TripRaw
  BY <1>0, RawKeeps
<1>1. CASE TripStart
  BY <1>1, StartKeeps
<1>2. CASE TripToken
  BY <1>2, TokenKeeps DEF TripToken
<1>3. CASE TripFinish
  BY <1>3, FinishKeeps
<1>4. CASE ReadToken
  BY <1>4, ReadKeeps
<1>5. CASE ReadSuffix
  BY <1>5, SuffixKeeps
<1>6. CASE ReadRaw
  BY <1>6, ReadRawKeeps
<1>7. CASE UNCHANGED tripVars
  BY <1>7, TripStutters
<1>8. QED
  BY <1>0, <1>1, <1>2, <1>3, <1>4, <1>5, <1>6, <1>7 DEF TripNext, TripReturned

(* The invariant holds whatever is written and read. *)
LEMMA TripInvariance == TripSpec => []TripInv
BY TripInitInv, TripNextInv, PTL DEF TripSpec

(* The buffer, the suffix header and the output keep their types: every     *)
(* extension byte is a byte, and every cell that is decoded one of them.     *)
THEOREM TripTypeCorrect == TripSpec => []TripTypeOK
<1>1. TripInv => TripTypeOK
  BY DEF TripInv
<1>2. QED
  BY <1>1, TripInvariance, PTL

(* What the writers of crates/encode write, the checked decoders read back   *)
(* as the input, for every input and every choice of true matches: no        *)
(* token is refused, and the decoded prefix is the input's at every step.     *)
THEOREM DecodesToInput == TripSpec => []RoundTrips
<1>1. TripInv => RoundTrips
  BY DEF TripInv
<1>2. QED
  BY <1>1, TripInvariance, PTL
=============================================================================
