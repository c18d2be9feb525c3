------------------------------- MODULE LiveSet -------------------------------
(***************************************************************************)
(* The set of suffix-array ranks of crates/encode/src/sa.rs: a bitset l0   *)
(* with two levels of summary.  A level is the set of its one bits, and    *)
(* Word of them make a word; a bit of l1 or l2 stands for a word below     *)
(* that is not zero.  Insert and Remove stop at the first level whose word *)
(* was, or is still, not zero.                                             *)
(***************************************************************************)
EXTENDS Integers, FiniteSetsExt

CONSTANT Word  \* bits of a word

ASSUME WordAssumption == Word \in Nat \ {0}

LiveSet(l0, l1, l2) == [l0 |-> l0, l1 |-> l1, l2 |-> l2]

\* The bits of the word that bit b is in.
WordOf(level, b) == {i \in level : i \div Word = b \div Word}

\* The bits of word w.
Bits(level, w) == {i \in level : i \div Word = w}

(* summarize: the words that are not zero. *)
Summary(level) == {i \div Word : i \in level}

(* build: the ranks r with sa[r] below end. *)
Build(sa, end) ==
  LET l0 == {r \in DOMAIN sa : sa[r] < end} IN
    LiveSet(l0, Summary(l0), Summary(Summary(l0)))

(* set. *)
Insert(s, rank) ==
  LET w0 == rank \div Word
      w1 == w0 \div Word
  IN  LiveSet(s.l0 \cup {rank},
              IF WordOf(s.l0, rank) # {} THEN s.l1 ELSE s.l1 \cup {w0},
              IF WordOf(s.l0, rank) # {} \/ WordOf(s.l1, w0) # {} THEN s.l2
              ELSE s.l2 \cup {w1})

(* clear. *)
Remove(s, rank) ==
  LET w0 == rank \div Word
      w1 == w0 \div Word
      l0 == s.l0 \ {rank}
      l1 == IF WordOf(l0, rank) # {} THEN s.l1 ELSE s.l1 \ {w0}
  IN  LiveSet(l0, l1,
              IF WordOf(l0, rank) # {} \/ WordOf(l1, w0) # {} THEN s.l2
              ELSE s.l2 \ {w1})

----------------------------------------------------------------------------
NoRank == -1

(* prev: the highest member below rank.  Its own word is searched, then    *)
(* the words of its l1 word, then the l2 words from its own downwards.     *)
Below(s, rank) ==
  LET w0 == rank \div Word
      w1 == w0 \div Word
      below0 == {i \in WordOf(s.l0, rank) : i < rank}
      below1 == {w \in WordOf(s.l1, w0) : w < w0}
      below2 == {w \in s.l2 : w < w1}
  IN  CASE below0 # {} -> Max(below0)
        [] below0 = {} /\ below1 # {} -> Max(Bits(s.l0, Max(below1)))
        [] below0 = {} /\ below1 = {} /\ below2 # {} ->
             Max(Bits(s.l0, Max(Bits(s.l1, Max(below2)))))
        [] OTHER -> NoRank

(* next: the lowest member above rank. *)
Above(s, rank) ==
  LET w0 == rank \div Word
      w1 == w0 \div Word
      above0 == {i \in WordOf(s.l0, rank) : i > rank}
      above1 == {w \in WordOf(s.l1, w0) : w > w0}
      above2 == {w \in s.l2 : w > w1}
  IN  CASE above0 # {} -> Min(above0)
        [] above0 = {} /\ above1 # {} -> Min(Bits(s.l0, Min(above1)))
        [] above0 = {} /\ above1 = {} /\ above2 # {} ->
             Min(Bits(s.l0, Min(Bits(s.l1, Min(above2)))))
        [] OTHER -> NoRank

(* Each bit of l1 and l2 marks a word below that is not zero. *)
Consistent(s) == s.l1 = Summary(s.l0) /\ s.l2 = Summary(s.l1)
=============================================================================
