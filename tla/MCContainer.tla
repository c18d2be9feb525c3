----------------------------- MODULE MCContainer -----------------------------
(***************************************************************************)
(* Container on every stream of at most three tokens of a scaled format,   *)
(* cut at every byte, with every length a caller can give.                 *)
(***************************************************************************)
EXTENDS Container, FiniteSets

MCLitLens == {0, 1, 2}
MCMatchLens == {1, 2}
MCDistances == {1, 2}
MCSuffixes == {2, 3}
MCSizes == 0 .. 8

\* The cursors after each token, and the length of the whole stream.
Length(tokens, suffix) ==
  LET bytes[n \in 0 .. Len(tokens)] ==
        IF n = 0 THEN ExtHeaderSize + suffix
        ELSE bytes[n - 1] + TokenLen + ExtBytes(tokens[n].lit) + tokens[n].lit
  IN  bytes[Len(tokens)]

TokenStream(size, suffix, tokens) ==
  LET len0 == Length(tokens, suffix)
      at[n \in 0 .. Len(tokens)] ==
        IF n = 0 THEN Start([src |-> len0, dst |-> size, suffix |-> suffix])
        ELSE Advance(at[n - 1], tokens[n])
  IN  [size |-> size, suffix |-> suffix, len |-> len0, tokens |-> tokens, at |-> at]

RawStream(size) ==
  [size |-> size, suffix |-> 0, len |-> HeaderSize + size, tokens |-> <<>>, at |-> <<>>]

TokenSeqs == UNION {[1 .. n -> Tokens] : n \in 0 .. 3}

MCStreams ==
  {RawStream(size) : size \in 0 .. RawLimit} \cup
  {s \in {TokenStream(size, suffix, tokens) :
            size \in RawLimit + 1 .. 8, suffix \in Suffixes, tokens \in TokenSeqs} :
     Written(s)}
=============================================================================
