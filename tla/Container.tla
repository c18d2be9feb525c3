------------------------------ MODULE Container ------------------------------
(***************************************************************************)
(* The decompression API (crates/decode/src/decode.rs) on a stream that    *)
(* was written by a compressor and of which the last bytes may be lost:    *)
(* the headers, the raw form of a small output, and the tokens, one at a   *)
(* time as TokenDecoder decodes them, which both decoders implement.       *)
(*                                                                         *)
(* The stream holds no checksum and not its own length: literals and       *)
(* suffix are found from the end of what is there.  A stream that lost its *)
(* end has the tokens of the whole stream at the same place, and all of    *)
(* its literals in the wrong one.                                          *)
(***************************************************************************)
EXTENDS TokenFormat, Sequences

CONSTANTS
  HeaderSize,
  SizeMax,   \* largest usize
  Streams,   \* written streams
  Givens     \* lengths that callers expect or provide

Layout(s, len) == [src |-> len, dst |-> s.size, suffix |-> s.suffix]

(* What the stream writers write, as StreamWriter and RoundTrip show: a    *)
(* raw output, or tokens that decode, at each of the cursors at[k], to the *)
(* end of the stream and of the output.                                    *)
Written(s) ==
  /\ {s.size, s.len} \subseteq Nat
  /\ s.tokens \in Seq(Tokens)
  /\ IF s.size <= RawLimit THEN s.len = HeaderSize + s.size
     ELSE LET l == Layout(s, s.len)
              n == Len(s.tokens)
          IN /\ l.suffix \in Nat /\ l.suffix >= MinSuffix /\ l.suffix <= l.dst
             /\ l.src - l.suffix >= ExtHeaderSize
             /\ s.at \in [0 .. n -> Cursors]
             /\ s.at[0] = Start(l)
             /\ \A k \in 1 .. n :
                  /\ Accepts(l, s.at[k - 1], s.tokens[k])
                  /\ s.at[k] = Advance(s.at[k - 1], s.tokens[k])
             /\ Finished(l, s.at[n])

ASSUME StreamAssumption ==
  /\ HeaderSize \in Nat /\ HeaderSize <= ExtHeaderSize
  /\ SizeMax \in Nat
  /\ Givens \subseteq Nat
  /\ \A s \in Streams : Written(s)

VARIABLES
  stream, len,  \* the stream, and how much of it is there
  call, given,  \* "decompress" or "decompress_into", and the caller's length
  status,       \* "call", "run", "ok" or the error
  cursor,
  k             \* tokens decoded

vars == <<stream, len, call, given, status, cursor, k>>

Errors == {"InputTooShort", "OutputTooSmall", "CorruptInput", "SizeOverflow",
           "SizeMismatch"}

TypeOK ==
  /\ Written(stream)
  /\ len \in 0 .. stream.len
  /\ call \in {"decompress", "decompress_into"}
  /\ given \in Givens
  /\ status \in {"call", "run", "ok"} \cup Errors
  /\ cursor \in Cursors
  /\ k \in 0 .. Len(stream.tokens)

Init ==
  /\ stream \in Streams
  /\ len \in 0 .. stream.len
  /\ call \in {"decompress", "decompress_into"}
  /\ given \in Givens
  /\ status = "call"
  /\ cursor = [control |-> 0, literals |-> 0, out |-> 0]
  /\ k = 0

----------------------------------------------------------------------------
(* header_fields and the tests of the caller's length, in the order of the *)
(* code: the error, or "passed".                                          *)
HeaderError ==
  CASE len < HeaderSize -> "InputTooShort"
    [] len >= HeaderSize /\ stream.size > SizeMax -> "SizeOverflow"
    [] len >= HeaderSize /\ stream.size <= SizeMax
         /\ call = "decompress" /\ given # stream.size -> "SizeMismatch"
    [] len >= HeaderSize /\ stream.size <= SizeMax
         /\ call = "decompress_into" /\ given < stream.size -> "OutputTooSmall"
    [] OTHER -> "passed"

\* Mutant: the suffix may reach into the header, or start before it.
BugLayoutError ==
  CASE len < ExtHeaderSize -> "InputTooShort"
    [] len >= ExtHeaderSize
         /\ (stream.suffix < MinSuffix \/ stream.suffix > stream.size) -> "CorruptInput"
    [] OTHER -> "passed"

(* Layout::parse. *)
LayoutError ==
  CASE len < ExtHeaderSize -> "InputTooShort"
    [] len >= ExtHeaderSize
         /\ (stream.suffix < MinSuffix \/ stream.suffix > stream.size) -> "CorruptInput"
    [] len >= ExtHeaderSize /\ stream.suffix \in MinSuffix .. stream.size
         /\ len - stream.suffix < ExtHeaderSize -> "InputTooShort"
    [] OTHER -> "passed"

Open ==
  /\ status = "call"
  /\ HeaderError = "passed"
  /\ stream.size > RawLimit
  /\ LayoutError = "passed"
  /\ status' = "run"
  /\ cursor' = Start(Layout(stream, len))
  /\ UNCHANGED <<stream, len, call, given, k>>

OpenRaw ==
  /\ status = "call"
  /\ HeaderError = "passed"
  /\ stream.size <= RawLimit
  /\ status' = IF len < HeaderSize + stream.size THEN "InputTooShort" ELSE "ok"
  /\ UNCHANGED <<stream, len, call, given, cursor, k>>

Refuse ==
  /\ status = "call"
  /\ \/ HeaderError # "passed" /\ status' = HeaderError
     \/ /\ HeaderError = "passed" /\ stream.size > RawLimit /\ LayoutError # "passed"
        /\ status' = LayoutError
  /\ UNCHANGED <<stream, len, call, given, cursor, k>>

----------------------------------------------------------------------------
Running == status = "run" /\ cursor.control < cursor.literals

DecodeToken ==
  /\ Running
  /\ Accepts(Layout(stream, len), cursor, stream.tokens[k + 1])
  /\ cursor' = Advance(cursor, stream.tokens[k + 1])
  /\ k' = k + 1
  /\ UNCHANGED <<stream, len, call, given, status>>

RejectToken ==
  /\ Running
  /\ ~Accepts(Layout(stream, len), cursor, stream.tokens[k + 1])
  /\ status' = "CorruptInput"
  /\ UNCHANGED <<stream, len, call, given, cursor, k>>

\* Mutant: the tokens need not fill the output.
BugFinish ==
  /\ status = "run"
  /\ cursor.control >= cursor.literals
  /\ status' = IF cursor.control = cursor.literals THEN "ok" ELSE "CorruptInput"
  /\ UNCHANGED <<stream, len, call, given, cursor, k>>

(* Layout::finish. *)
Finish ==
  /\ status = "run"
  /\ cursor.control >= cursor.literals
  /\ status' = IF Finished(Layout(stream, len), cursor) THEN "ok" ELSE "CorruptInput"
  /\ UNCHANGED <<stream, len, call, given, cursor, k>>

Returned == status \in {"ok"} \cup Errors /\ UNCHANGED vars

Next ==
  Open \/ OpenRaw \/ Refuse \/ DecodeToken \/ RejectToken \/ Finish \/ Returned

Spec == Init /\ [][Next]_vars

----------------------------------------------------------------------------
(* A stream that lost its end is never taken for a whole one, though it    *)
(* has no checksum: tokens and literals may meet early, but not with the   *)
(* output filled.  A whole stream is refused for the caller's length or    *)
(* the platform's only, never as short or corrupt.                         *)
TruncationDetected ==
  /\ status = "ok" => len = stream.len
  /\ len = stream.len => status \notin {"InputTooShort", "CorruptInput"}

(* "Returns ... Error::InputTooShort for a truncated stream, and           *)
(* Error::CorruptInput for a malformed one" (decode.rs:126-128).           *)
TruncatedIsTooShort == len < stream.len => status # "CorruptInput"
=============================================================================
