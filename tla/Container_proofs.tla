--------------------------- MODULE Container_proofs ---------------------------
(***************************************************************************)
(* A truncated stream never decompresses and a whole one is never called   *)
(* short or corrupt, for every set of written streams and every format     *)
(* that meets FormatAssumption.                                            *)
(***************************************************************************)
EXTENDS Container, TokenFormat_proofs

\* Bytes lost from the end of the stream.
Cut == stream.len - len

(* The tokens are found where they were written, and their literals the    *)
(* bytes that were lost too early.                                         *)
Tracks ==
  status = "run" =>
    /\ stream.size > RawLimit
    /\ stream.suffix <= len
    /\ cursor.control = stream.at[k].control
    /\ cursor.literals = stream.at[k].literals - Cut
    /\ cursor.out = stream.at[k].out

NotStarted == status = "call" => k = 0

Inv == TypeOK /\ NotStarted /\ Tracks /\ TruncationDetected

----------------------------------------------------------------------------
LEMMA Constants ==
  /\ ExtHeaderSize \in Nat /\ RawLimit \in Nat /\ MinSuffix \in Nat
  /\ TokenLen \in Nat \ {0} /\ HeaderSize \in Nat /\ SizeMax \in Nat
  /\ HeaderSize <= ExtHeaderSize
  /\ LitLens \subseteq Nat /\ MatchLens \subseteq Nat
BY FormatAssumption, StreamAssumption DEF FormatConstraints

(* What is known of any written stream. *)
LEMMA WrittenRange ==
  ASSUME NEW s, Written(s)
  PROVE  /\ s.size \in Nat /\ s.len \in Nat /\ Len(s.tokens) \in Nat
         /\ s.size <= RawLimit => s.len = HeaderSize + s.size
BY DEF Written

(* What is known of a written stream with tokens. *)
LEMMA WithTokens ==
  ASSUME NEW s, Written(s), s.size > RawLimit
  PROVE  /\ s.size \in Nat /\ s.len \in Nat /\ s.suffix \in Nat
         /\ MinSuffix <= s.suffix /\ s.suffix <= s.size
         /\ s.len - s.suffix >= ExtHeaderSize
         /\ Len(s.tokens) \in Nat
         /\ \A n \in 0 .. Len(s.tokens) :
              /\ s.at[n].control \in Nat
              /\ s.at[n].literals \in Nat
              /\ s.at[n].out \in Nat
         /\ s.at[0].control = ExtHeaderSize
         /\ s.at[0].literals = s.len - s.suffix
         /\ s.at[0].out = 0
         /\ s.at[Len(s.tokens)].control = s.at[Len(s.tokens)].literals
         /\ s.at[Len(s.tokens)].out = s.size - s.suffix
<1> DEFINE l == Layout(s, s.len)
           n == Len(s.tokens)
<1>1. l.src = s.len /\ l.dst = s.size /\ l.suffix = s.suffix
  BY DEF Layout
<1>2. s.size \in Nat /\ s.len \in Nat /\ s.tokens \in Seq(Tokens) /\ n \in Nat
  BY DEF Written
<1>3. s.suffix \in Nat /\ MinSuffix <= s.suffix /\ s.suffix <= s.size
      /\ s.len - s.suffix >= ExtHeaderSize
  BY <1>1, <1>2, Constants DEF Written
<1>4. s.at \in [0 .. n -> Cursors] /\ s.at[0] = Start(l) /\ Finished(l, s.at[n])
  BY <1>2, Constants DEF Written
<1>5. \A j \in 0 .. n : s.at[j] \in Cursors
  BY <1>4
<1>6. \A j \in 0 .. n : /\ s.at[j].control \in Nat
                        /\ s.at[j].literals \in Nat
                        /\ s.at[j].out \in Nat
  BY <1>5 DEF Cursors
<1>7. s.at[0].control = ExtHeaderSize /\ s.at[0].literals = s.len - s.suffix
      /\ s.at[0].out = 0
  BY <1>1, <1>4 DEF Start, SuffixStart
<1>8. s.at[n].control = s.at[n].literals /\ s.at[n].out = s.size - s.suffix
  BY <1>1, <1>4 DEF Finished, TokenOutputEnd
<1>9. QED
  BY <1>2, <1>3, <1>6, <1>7, <1>8

(* A written token is accepted where it was written, and leads to the next. *)
LEMMA WrittenToken ==
  ASSUME NEW s, Written(s), s.size > RawLimit, NEW n \in 0 .. Len(s.tokens) - 1
  PROVE  /\ n + 1 \in 1 .. Len(s.tokens) /\ n + 1 \in 0 .. Len(s.tokens)
         /\ s.tokens[n + 1] \in Tokens
         /\ Accepts(Layout(s, s.len), s.at[n], s.tokens[n + 1])
         /\ s.at[n + 1] = Advance(s.at[n], s.tokens[n + 1])
<1>1. s.tokens \in Seq(Tokens) /\ s.size \in Nat
  BY DEF Written
<1>2. Len(s.tokens) \in Nat
  BY <1>1
<1>3. n + 1 \in 1 .. Len(s.tokens) /\ n + 1 \in 0 .. Len(s.tokens)
      /\ (n + 1) - 1 = n
  BY <1>2
<1>4. s.tokens[n + 1] \in Tokens
  BY <1>1, <1>3
<1>5. ~(s.size <= RawLimit)
  BY <1>1, Constants
<1>6. \A j \in 1 .. Len(s.tokens) :
        /\ Accepts(Layout(s, s.len), s.at[j - 1], s.tokens[j])
        /\ s.at[j] = Advance(s.at[j - 1], s.tokens[j])
  BY <1>5 DEF Written
<1>7. QED
  BY <1>3, <1>4, <1>6

(* Before the last token the cursors have not met, and the output is not   *)
(* filled.                                                                 *)
LEMMA NotYet ==
  ASSUME NEW s, Written(s), s.size > RawLimit, NEW n \in 0 .. Len(s.tokens) - 1
  PROVE  /\ s.at[n].control < s.at[n].literals
         /\ s.at[n].out < s.size - s.suffix
<1> DEFINE l == Layout(s, s.len)
           t == s.tokens[n + 1]
<1>1. t \in Tokens /\ Accepts(l, s.at[n], t)
  BY WrittenToken
<1>2. t.lit \in Nat /\ t.mat \in Nat
  BY <1>1, Constants DEF Tokens
<1>3. /\ s.size \in Nat /\ s.suffix \in Nat /\ Len(s.tokens) \in Nat
      /\ s.at[n].control \in Nat /\ s.at[n].literals \in Nat /\ s.at[n].out \in Nat
  <2>1. n \in 0 .. Len(s.tokens)
    BY WithTokens
  <2>2. QED
    BY <2>1, WithTokens
<1>4. TokenOutputEnd(l) = s.size - s.suffix
  BY DEF TokenOutputEnd, Layout
<1>5. /\ s.at[n].literals - s.at[n].control >= TokenLen
      /\ t.mat > 0
      /\ s.at[n].out + t.lit + t.mat <= TokenOutputEnd(l)
  BY <1>1 DEF Accepts
<1>6. s.at[n].control < s.at[n].literals
  BY <1>3, <1>5, Constants
<1>7. s.at[n].out < s.size - s.suffix
  BY <1>2, <1>3, <1>4, <1>5
<1>8. QED
  BY <1>6, <1>7

----------------------------------------------------------------------------
LEMMA Initially == Init => Inv
<1> SUFFICES ASSUME Init PROVE Inv
  OBVIOUS
<1>2. Written(stream)
  BY StreamAssumption DEF Init
<1>3. Len(stream.tokens) \in Nat
  BY <1>2, WrittenRange
<1>4. cursor \in Cursors
  BY DEF Init, Cursors
<1>5. TypeOK
  BY <1>2, <1>3, <1>4 DEF Init, TypeOK
<1>6. QED
  BY <1>5 DEF Init, Inv, NotStarted, Tracks, TruncationDetected

(* The header of a whole stream never says that it is short or corrupt. *)
LEMMA WholeHeader ==
  ASSUME Inv, len = stream.len
  PROVE  /\ HeaderError \notin {"InputTooShort", "CorruptInput"}
         /\ stream.size > RawLimit => LayoutError = "passed"
<1>1. /\ Written(stream) /\ stream.size \in Nat /\ len \in Nat
      /\ stream.size <= RawLimit => stream.len = HeaderSize + stream.size
  <2>1. Written(stream)
    BY DEF Inv, TypeOK
  <2>2. QED
    BY <2>1, WrittenRange
<1>2. CASE stream.size > RawLimit
  <2>1. /\ stream.suffix \in Nat /\ MinSuffix <= stream.suffix
        /\ stream.suffix <= stream.size
        /\ stream.len - stream.suffix >= ExtHeaderSize
    BY <1>1, <1>2, WithTokens
  <2>2. len >= HeaderSize /\ len >= ExtHeaderSize
    BY <1>1, <2>1, Constants
  <2>3. HeaderError \notin {"InputTooShort", "CorruptInput"}
    BY <1>1, <2>2, Constants DEF HeaderError
  <2>4. LayoutError = "passed"
    BY <1>1, <2>1, <2>2, Constants DEF LayoutError
  <2>5. QED
    BY <2>3, <2>4
<1>3. CASE ~(stream.size > RawLimit)
  <2>1. stream.len = HeaderSize + stream.size
    BY <1>1, <1>3, Constants
  <2>2. len >= HeaderSize
    BY <1>1, <2>1, Constants
  <2>3. QED
    BY <1>1, <1>3, <2>2, Constants DEF HeaderError
<1>4. QED
  BY <1>2, <1>3


(* The call starts at the cursor of the first token, without the literals  *)
(* that were lost.                                                         *)
LEMMA OpenKeeps == ASSUME Inv, Open PROVE Inv'
<1>1. /\ Written(stream) /\ stream.size > RawLimit /\ LayoutError = "passed"
      /\ len \in 0 .. stream.len /\ k = 0
  BY DEF Inv, TypeOK, NotStarted, Open
<1>2. /\ stream.size \in Nat /\ stream.len \in Nat /\ stream.suffix \in Nat
      /\ Len(stream.tokens) \in Nat
      /\ MinSuffix <= stream.suffix /\ stream.suffix <= stream.size
      /\ stream.at[0].control = ExtHeaderSize
      /\ stream.at[0].literals = stream.len - stream.suffix
      /\ stream.at[0].out = 0
  BY <1>1, WithTokens
<1>3. len \in Nat /\ len >= ExtHeaderSize /\ len - stream.suffix >= ExtHeaderSize
  <2>1. len \in Nat
    BY <1>1, <1>2
  <2>2. stream.suffix \in MinSuffix .. stream.size
    BY <1>2, Constants
  <2>3. len >= ExtHeaderSize
    BY <1>1, <2>1, Constants DEF LayoutError
  <2>4. len - stream.suffix >= ExtHeaderSize
    BY <1>1, <1>2, <2>1, <2>2, <2>3, Constants DEF LayoutError
  <2>5. QED
    BY <2>1, <2>3, <2>4
<1>4. /\ cursor' = [control |-> ExtHeaderSize, literals |-> len - stream.suffix,
                    out |-> 0]
      /\ UNCHANGED <<stream, len, call, given, k>> /\ status' = "run"
  BY DEF Open, Start, SuffixStart, Layout
<1>5. cursor' \in Cursors
  BY <1>2, <1>3, <1>4, Constants DEF Cursors
<1>6. TypeOK'
  BY <1>4, <1>5 DEF Inv, TypeOK, Errors
<1>7. Tracks'
  <2>1. Cut' = stream.len - len
    BY <1>4 DEF Cut
  <2>2. /\ cursor'.control = ExtHeaderSize
        /\ cursor'.literals = len - stream.suffix
        /\ cursor'.out = 0
    BY <1>4
  <2>3. cursor'.literals = stream.at[0].literals - Cut'
    BY <1>2, <1>3, <2>1, <2>2
  <2>4. stream.suffix <= len
    BY <1>2, <1>3, Constants
  <2>5. QED
    BY <1>1, <1>2, <1>4, <2>2, <2>3, <2>4 DEF Tracks
<1>8. QED
  BY <1>4, <1>6, <1>7 DEF Inv, NotStarted, TruncationDetected

LEMMA OpenRawKeeps == ASSUME Inv, OpenRaw PROVE Inv'
<1>1. /\ Written(stream) /\ stream.size \in Nat /\ stream.len \in Nat
      /\ stream.size <= RawLimit /\ len \in 0 .. stream.len
      /\ stream.len = HeaderSize + stream.size
  <2>1. Written(stream) /\ stream.size <= RawLimit /\ len \in 0 .. stream.len
    BY DEF Inv, TypeOK, OpenRaw
  <2>2. QED
    BY <2>1, WrittenRange
<1>3. /\ status' = (IF len < HeaderSize + stream.size THEN "InputTooShort" ELSE "ok")
      /\ UNCHANGED <<stream, len, call, given, cursor, k>>
  BY DEF OpenRaw
<1>4. TypeOK'
  BY <1>3 DEF Inv, TypeOK, Errors
<1>5. TruncationDetected'
  BY <1>1, <1>3 DEF TruncationDetected
<1>6. QED
  BY <1>3, <1>4, <1>5 DEF Inv, NotStarted, Tracks

LEMMA RefuseKeeps == ASSUME Inv, Refuse PROVE Inv'
<1>1. UNCHANGED <<stream, len, call, given, cursor, k>>
  BY DEF Refuse
<1>2. \/ HeaderError # "passed" /\ status' = HeaderError
      \/ stream.size > RawLimit /\ LayoutError # "passed" /\ status' = LayoutError
  BY DEF Refuse
<1>3. HeaderError \in Errors \cup {"passed"}
  BY Zenon DEF HeaderError, Errors
<1>4. LayoutError \in Errors \cup {"passed"}
  BY Zenon DEF LayoutError, Errors
<1>5. status' \in Errors
  BY <1>2, <1>3, <1>4
<1>6. TypeOK'
  BY <1>1, <1>5 DEF Inv, TypeOK
<1>7. status' \notin {"ok", "run", "call"}
  BY <1>5 DEF Errors
<1>8. len = stream.len => status' \notin {"InputTooShort", "CorruptInput"}
  BY <1>2, WholeHeader
<1>9. QED
  BY <1>1, <1>6, <1>7, <1>8 DEF Inv, NotStarted, Tracks, TruncationDetected

----------------------------------------------------------------------------
(* While tokens are decoded there is a written token to decode.            *)
LEMMA TokenLeft ==
  ASSUME Inv, Running
  PROVE  /\ Written(stream) /\ stream.size > RawLimit
         /\ k \in 0 .. Len(stream.tokens) - 1
         /\ stream.len \in Nat /\ len \in 0 .. stream.len /\ Cut \in Nat
<1>1. /\ Written(stream) /\ stream.size > RawLimit /\ stream.len \in Nat
      /\ len \in 0 .. stream.len /\ k \in 0 .. Len(stream.tokens)
      /\ cursor.control < cursor.literals
      /\ cursor.control = stream.at[k].control
      /\ cursor.literals = stream.at[k].literals - Cut
  <2>1. Written(stream)
    BY DEF Inv, TypeOK
  <2>2. QED
    BY <2>1, WrittenRange DEF Inv, TypeOK, Tracks, Running
<1>2. Cut \in Nat
  BY <1>1 DEF Cut
<1>3. /\ Len(stream.tokens) \in Nat
      /\ stream.at[k].control \in Nat /\ stream.at[k].literals \in Nat
      /\ stream.at[Len(stream.tokens)].control
           = stream.at[Len(stream.tokens)].literals
  BY <1>1, WithTokens
<1>4. k # Len(stream.tokens)
  BY <1>1, <1>2, <1>3
<1>5. QED
  BY <1>1, <1>2, <1>3, <1>4

LEMMA DecodeKeeps == ASSUME Inv, DecodeToken PROVE Inv'
<1> DEFINE t == stream.tokens[k + 1]
           l == Layout(stream, len)
           c == stream.at[k]
           d == stream.at[k + 1]
<1>1. /\ Written(stream) /\ stream.size > RawLimit
      /\ k \in 0 .. Len(stream.tokens) - 1
      /\ stream.len \in Nat /\ len \in 0 .. stream.len /\ Cut \in Nat
  BY TokenLeft DEF DecodeToken
<1>2. /\ k + 1 \in 0 .. Len(stream.tokens) /\ t \in Tokens
      /\ d = Advance(c, t)
  BY <1>1, WrittenToken
<1>3. /\ status = "run" /\ Accepts(l, cursor, t) /\ cursor' = Advance(cursor, t)
      /\ k' = k + 1 /\ UNCHANGED <<stream, len, call, given, status>>
  BY DEF DecodeToken, Running
<1>4. /\ cursor \in Cursors /\ stream.suffix <= len
      /\ cursor.control = c.control
      /\ cursor.literals = c.literals - Cut
      /\ cursor.out = c.out
  BY <1>3 DEF Inv, TypeOK, Tracks
<1>5. /\ c.literals \in Nat
      /\ t.lit \in Nat /\ t.mat \in Nat /\ TokenLen \in Nat
      /\ ExtBytes(t.lit) \in Nat
  <2>1. k \in 0 .. Len(stream.tokens)
    BY <1>1, WithTokens
  <2>2. c.literals \in Nat
    BY <1>1, <2>1, WithTokens
  <2>3. t.lit \in Nat /\ t.mat \in Nat
    BY <1>2, Constants DEF Tokens
  <2>4. QED
    BY <2>2, <2>3, ExtBytesRange, Constants
<1>6. /\ cursor'.control = AfterToken(cursor.control, t)
      /\ cursor'.literals = cursor.literals - t.lit
      /\ cursor'.out = cursor.out + t.lit + t.mat
      /\ cursor' = [control |-> AfterToken(cursor.control, t),
                    literals |-> cursor.literals - t.lit,
                    out |-> cursor.out + t.lit + t.mat]
  BY <1>3 DEF Advance
<1>7. /\ d.control = AfterToken(c.control, t)
      /\ d.literals = c.literals - t.lit
      /\ d.out = c.out + t.lit + t.mat
  BY <1>2 DEF Advance
<1>8. /\ cursor.control \in Nat /\ cursor.literals \in Nat /\ cursor.out \in Nat
  BY <1>4 DEF Cursors
<1>9. /\ AfterToken(cursor.control, t) \in Nat
      /\ cursor.literals - t.lit \in Nat
      /\ cursor.out + t.lit + t.mat \in Nat
  <2>1. AfterToken(cursor.control, t) \in Nat
    BY <1>5, <1>8 DEF AfterToken
  <2>2. t.lit <= cursor.literals - AfterToken(cursor.control, t)
    BY <1>3 DEF Accepts
  <2>3. QED
    BY <1>5, <1>8, <2>1, <2>2
<1>10. cursor' \in Cursors
  BY <1>6, <1>9 DEF Cursors
<1>11. TypeOK'
  BY <1>2, <1>3, <1>10 DEF Inv, TypeOK
<1>12. Cut' = Cut
  BY <1>3 DEF Cut
<1>13. Tracks'
  <2>1. c.literals \in Nat /\ t.lit \in Nat /\ Cut \in Int
    <3>1. k \in 0 .. Len(stream.tokens)
      BY <1>1, WithTokens
    <3>2. c.literals \in Nat
      BY <1>1, <3>1, WithTokens
    <3>3. t.lit \in Nat
      BY <1>2, Constants DEF Tokens
    <3>4. Cut \in Int
      BY <1>1
    <3>5. QED
      BY <3>2, <3>3, <3>4
  <2>2. cursor'.literals = d.literals - Cut'
    BY <1>4, <1>6, <1>7, <1>12, <2>1
  <2>3. cursor'.control = d.control /\ cursor'.out = d.out
    BY <1>4, <1>6, <1>7
  <2>4. stream'.at[k'] = d
    BY <1>1, <1>3
  <2>5. QED
    BY <1>1, <1>3, <1>4, <2>2, <2>3, <2>4 DEF Tracks
<1>14. QED
  BY <1>3, <1>11, <1>13 DEF Inv, NotStarted, TruncationDetected

(* A token of a whole stream is accepted. *)
LEMMA RejectKeeps == ASSUME Inv, RejectToken PROVE Inv'
<1> DEFINE t == stream.tokens[k + 1]
<1>1. /\ Written(stream) /\ stream.size > RawLimit
      /\ k \in 0 .. Len(stream.tokens) - 1 /\ stream.len \in Nat
  BY TokenLeft DEF RejectToken
<1>2. Accepts(Layout(stream, stream.len), stream.at[k], t)
  BY <1>1, WrittenToken
<1>3. /\ status = "run" /\ ~Accepts(Layout(stream, len), cursor, t)
      /\ status' = "CorruptInput"
      /\ UNCHANGED <<stream, len, call, given, cursor, k>>
  BY DEF RejectToken, Running
<1>4. ASSUME len = stream.len PROVE FALSE
  <2>1. /\ k \in 0 .. Len(stream.tokens)
        /\ cursor.control = stream.at[k].control
        /\ cursor.literals = stream.at[k].literals - Cut
        /\ cursor.out = stream.at[k].out
    BY <1>3 DEF Inv, TypeOK, Tracks
  <2>2. stream.at[k].literals \in Nat
    BY <1>1, <2>1, WithTokens
  <2>3. Cut = 0
    BY <1>1, <1>4 DEF Cut
  <2>4. cursor.literals = stream.at[k].literals
    BY <2>1, <2>2, <2>3
  <2>5. Accepts(Layout(stream, len), cursor, t)
    BY <1>2, <1>4, <2>1, <2>4 DEF Accepts
  <2>6. QED
    BY <1>3, <2>5
<1>5. TypeOK'
  BY <1>3 DEF Inv, TypeOK, Errors
<1>6. QED
  BY <1>3, <1>4, <1>5 DEF Inv, NotStarted, Tracks, TruncationDetected

(* Only at the last token of a whole stream have the cursors met with the  *)
(* output filled.                                                          *)
LEMMA FinishKeeps == ASSUME Inv, Finish PROVE Inv'
<1> DEFINE n == Len(stream.tokens)
<1>1. /\ Written(stream) /\ stream.size > RawLimit /\ stream.len \in Nat
      /\ len \in 0 .. stream.len /\ k \in 0 .. n
      /\ cursor.control >= cursor.literals
      /\ cursor.control = stream.at[k].control
      /\ cursor.literals = stream.at[k].literals - Cut
      /\ cursor.out = stream.at[k].out
  <2>1. Written(stream)
    BY DEF Inv, TypeOK
  <2>2. QED
    BY <2>1, WrittenRange DEF Inv, TypeOK, Tracks, Finish
<1>2. Cut \in Nat /\ (Cut = 0 <=> len = stream.len)
  BY <1>1 DEF Cut
<1>3. /\ n \in Nat /\ stream.size \in Nat /\ stream.suffix \in Nat
      /\ stream.at[k].control \in Nat /\ stream.at[k].literals \in Nat
      /\ stream.at[k].out \in Nat
      /\ stream.at[n].control = stream.at[n].literals
      /\ stream.at[n].out = stream.size - stream.suffix
  BY <1>1, WithTokens
<1>4. /\ status' = (IF Finished(Layout(stream, len), cursor)
                    THEN "ok" ELSE "CorruptInput")
      /\ UNCHANGED <<stream, len, call, given, cursor, k>>
  BY DEF Finish
<1>5. Finished(Layout(stream, len), cursor) <=>
        /\ cursor.out = stream.size - stream.suffix
        /\ cursor.control = cursor.literals
  BY DEF Finished, TokenOutputEnd, Layout
<1>6. k # n => /\ stream.at[k].control < stream.at[k].literals
               /\ stream.at[k].out < stream.size - stream.suffix
  <2>1. k # n => k \in 0 .. n - 1
    BY <1>1, <1>3
  <2>2. QED
    BY <1>1, <2>1, NotYet
<1>7. Finished(Layout(stream, len), cursor) => len = stream.len
  <2>1. SUFFICES ASSUME Finished(Layout(stream, len), cursor)
                 PROVE  Cut = 0
    BY <1>2
  <2>2. k = n
    BY <1>1, <1>3, <1>5, <1>6, <2>1
  <2>3. QED
    BY <1>1, <1>2, <1>3, <1>5, <2>1, <2>2
<1>8. len = stream.len => Finished(Layout(stream, len), cursor)
  BY <1>1, <1>2, <1>3, <1>5, <1>6
<1>9. TypeOK'
  BY <1>4 DEF Inv, TypeOK, Errors
<1>10. QED
  BY <1>4, <1>7, <1>8, <1>9 DEF Inv, NotStarted, Tracks, TruncationDetected

LEMMA StepKeeps == ASSUME Inv, [Next]_vars PROVE Inv'
<1>1. CASE Open
  BY <1>1, OpenKeeps
<1>2. CASE OpenRaw
  BY <1>2, OpenRawKeeps
<1>3. CASE Refuse
  BY <1>3, RefuseKeeps
<1>4. CASE DecodeToken
  BY <1>4, DecodeKeeps
<1>5. CASE RejectToken
  BY <1>5, RejectKeeps
<1>6. CASE Finish
  BY <1>6, FinishKeeps
<1>7. CASE UNCHANGED vars
  BY <1>7 DEF Inv, TypeOK, NotStarted, Tracks, Cut, TruncationDetected, vars
<1>8. QED
  BY <1>1, <1>2, <1>3, <1>4, <1>5, <1>6, <1>7 DEF Next, Returned

----------------------------------------------------------------------------
(* The invariant holds in every state of every call.                       *)
THEOREM Invariance == Spec => []Inv
BY Initially, StepKeeps, PTL DEF Spec

(* Type correctness: no cursor is ever negative, and the tokens decoded    *)
(* are tokens of the stream, however much of it is lost.                   *)
THEOREM TypeCorrect == Spec => []TypeOK
<1>1. Inv => TypeOK
  BY DEF Inv
<1>2. QED
  BY <1>1, Invariance, PTL

(* Truncation never goes unnoticed, and a whole stream is never called     *)
(* short or corrupt.                                                       *)
THEOREM NoTruncation == Spec => []TruncationDetected
<1>1. Inv => TruncationDetected
  BY DEF Inv
<1>2. QED
  BY <1>1, Invariance, PTL
=============================================================================
