------------------------------ MODULE RoundTrip ------------------------------
(***************************************************************************)
(* StreamWriter with its buffer, and a decoder that reads the stream back  *)
(* with every check of TokenFormat: what the encoder's writers and what    *)
(* the decoders' checked steps do with the bytes of a token.               *)
(*                                                                         *)
(* A token's header is one cell that holds its fields, followed by the     *)
(* rest of its bytes; extension bytes, literals and unwritten bytes are    *)
(* cells of their own.                                                     *)
(***************************************************************************)
EXTENDS StreamWriter

CONSTANT Bytes  \* values of an input byte

VARIABLES
  input, buf,
  suffix,  \* the suffix header of the finished stream
  status,  \* write, then what the decoder has come to: run or raw, ok, corrupt
  cursor,
  output   \* the decoded prefix

tripVars == <<vars, input, buf, suffix, status, cursor, output>>

Free == [kind |-> "free"]

Rest == [kind |-> "rest"]

Head(field, mat, dis) ==
  [kind |-> "head", field |-> field, mat |-> mat, dis |-> dis]

Ext(n) == [kind |-> "ext", n |-> n]

Lit(b) == [kind |-> "lit", byte |-> b]

Cells ==
  {Free, Rest} \cup {Head(f, m, d) : f \in 0 .. TokenLitMax, m \in MatchLens, d \in Distances}
    \cup {Ext(n) : n \in 0 .. ExtMax} \cup {Lit(b) : b \in Bytes}

TripTypeOK ==
  /\ TypeOK
  /\ input \in [0 .. size - 1 -> Bytes]
  /\ DOMAIN buf = 0 .. cap - 1
  /\ \A i \in DOMAIN buf : buf[i] \in Cells
  /\ suffix \in 0 .. size
  /\ status \in {"write", "run", "raw", "ok", "corrupt"}
  /\ cursor \in Cursors
  /\ \A i \in DOMAIN output : output[i] \in Cells

----------------------------------------------------------------------------
(* Writing *)

InputCell(i) == Lit(input[i])

\* Mutant: a byte takes all that remains.
BugWholeByte(n, j) == Ext(n - TokenLitMax - j * ExtMax)

(* write_extension: byte j of the extension of a run of n literals. *)
ExtByte(n, j) ==
  LET left == n - TokenLitMax - j * ExtMax
  IN Ext(IF left >= ExtMax THEN ExtMax ELSE left)

(* The buffer after a token: header, extension and literal run. *)
AfterWrite(t) ==
  LET field == IF t.lit < TokenLitMax THEN t.lit ELSE TokenLitMax
      ext == tokens + TokenLen
  IN [i \in DOMAIN buf |->
        IF i = tokens THEN Head(field, t.mat, t.dis)
        ELSE IF i \in tokens + 1 .. ext - 1 THEN Rest
        ELSE IF i \in ext .. ext + ExtWritten(t.lit) - 1 THEN ExtByte(t.lit, i - ext)
        ELSE IF i \in literals - t.lit .. literals - 1
          THEN InputCell(at + (i - (literals - t.lit)))
        ELSE buf[i]]

(* join: the literal runs move behind the tokens ... *)
RunsMoved(b) ==
  [i \in DOMAIN b |->
     IF i \in tokens .. tokens + (cap - literals) - 1
       THEN b[literals + (i - tokens)] ELSE b[i]]

(* ... and the suffix follows them. *)
SuffixWritten(b) ==
  LET end == tokens + (cap - literals)
  IN [i \in DOMAIN b |->
        IF i \in end .. end + (size - at) - 1 THEN InputCell(at + (i - end)) ELSE b[i]]

\* Mutant: the suffix is written over runs that have not moved yet.
BugJoined == RunsMoved(SuffixWritten(buf))

Joined == SuffixWritten(RunsMoved(buf))

(* A match the parsers may emit repeats the input before it. *)
TrueMatch(t) ==
  /\ t.dis <= at + t.lit
  /\ \A i \in at + t.lit .. at + t.lit + t.mat - 1 : input[i] = input[i - t.dis]

----------------------------------------------------------------------------
(* Reading *)

Layout == [src |-> len, dst |-> size, suffix |-> suffix]

(* Extension bytes that read_extension reads from position p on. *)
ExtRun(p) ==
  CHOOSE k \in 1 .. cap :
    /\ \A j \in 0 .. k - 2 : buf[p + j] = Ext(ExtMax)
    /\ buf[p + k - 1] # Ext(ExtMax)

(* The token whose header is at position p. *)
TokenAt(p) ==
  LET h == buf[p]
      e == p + TokenLen
      k == ExtRun(e)
  IN [lit |-> IF h.field < TokenLitMax THEN h.field
              ELSE h.field + (k - 1) * ExtMax + buf[e + k - 1].n,
      mat |-> h.mat,
      dis |-> h.dis]

(* The output with a run from literals to cursor.out, then its match. *)
AfterRead(t) ==
  LET after == cursor.out + t.lit
      run == [i \in 0 .. after - 1 |->
                IF i < cursor.out THEN output[i]
                ELSE buf[cursor.literals - t.lit + (i - cursor.out)]]
  IN [i \in 0 .. after + t.mat - 1 |->
        IF i < after THEN run[i] ELSE run[after - t.dis + ((i - after) % t.dis)]]

WithSuffix ==
  [i \in 0 .. size - 1 |->
     IF i < cursor.out THEN output[i] ELSE buf[SuffixStart(Layout) + (i - cursor.out)]]

----------------------------------------------------------------------------
TripInit ==
  /\ Init
  /\ input \in [0 .. size - 1 -> Bytes]
  /\ buf = [i \in 0 .. cap - 1 |-> Free]
  /\ suffix = 0
  /\ status = "write"
  /\ cursor = [control |-> 0, literals |-> 0, out |-> 0]
  /\ output = [i \in {} |-> Free]

(* A small input is stored raw, and the decoder finds it so. *)
TripRaw ==
  /\ StoreRaw
  /\ buf' = [i \in DOMAIN buf |->
               IF i \in HeaderSize .. HeaderSize + size - 1
                 THEN InputCell(i - HeaderSize) ELSE buf[i]]
  /\ status' = "raw"
  /\ UNCHANGED <<input, suffix, cursor, output>>

TripStart == StartStream /\ UNCHANGED <<input, buf, suffix, status, cursor, output>>

TripToken ==
  \E t \in Tokens :
    /\ WriteToken(t)
    /\ TrueMatch(t)
    /\ buf' = AfterWrite(t)
    /\ UNCHANGED <<input, suffix, status, cursor, output>>

(* The decoder then starts with Layout::parse. *)
TripFinish ==
  /\ FinishStream
  /\ buf' = Joined
  /\ suffix' = size - at
  /\ status' = IF /\ suffix' >= MinSuffix
                   /\ suffix' <= size
                   /\ SuffixStart(Layout') >= ExtHeaderSize
                 THEN "run" ELSE "corrupt"
  /\ cursor' = Start(Layout')
  /\ UNCHANGED <<input, output>>

More == cursor.control < cursor.literals

ReadToken ==
  /\ status = "run"
  /\ More
  /\ LET t == TokenAt(cursor.control)
     IN IF Accepts(Layout, cursor, t)
          THEN /\ output' = AfterRead(t)
               /\ cursor' = Advance(cursor, t)
               /\ UNCHANGED status
          ELSE /\ status' = "corrupt"
               /\ UNCHANGED <<output, cursor>>
  /\ UNCHANGED <<vars, input, buf, suffix>>

ReadSuffix ==
  /\ status = "run"
  /\ ~More
  /\ status' = IF Finished(Layout, cursor) THEN "ok" ELSE "corrupt"
  /\ output' = IF Finished(Layout, cursor) THEN WithSuffix ELSE output
  /\ UNCHANGED <<vars, input, buf, suffix, cursor>>

ReadRaw ==
  /\ status = "raw"
  /\ IF HeaderSize + size <= len
       THEN /\ status' = "ok"
            /\ output' = [i \in 0 .. size - 1 |-> buf[HeaderSize + i]]
       ELSE status' = "corrupt" /\ UNCHANGED output
  /\ UNCHANGED <<vars, input, buf, suffix, cursor>>

TripReturned == status \in {"ok", "corrupt"} /\ UNCHANGED tripVars

TripNext ==
  \/ TripRaw \/ TripStart \/ TripToken \/ TripFinish
  \/ ReadToken \/ ReadSuffix \/ ReadRaw \/ TripReturned

TripSpec == TripInit /\ [][TripNext]_tripVars

----------------------------------------------------------------------------
(* Properties *)

(* Decoding what was written gives back the input, at every step and to    *)
(* the end, and is never refused.                                          *)
RoundTrips ==
  /\ status # "corrupt"
  /\ \A i \in DOMAIN output : output[i] = InputCell(i)
  /\ status = "ok" => DOMAIN output = 0 .. size - 1
=============================================================================
