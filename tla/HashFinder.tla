----------------------------- MODULE HashFinder -----------------------------
(***************************************************************************)
(* The hash-table match finders of light levels -1 to 2                    *)
(* (crates/encode/src/light/matchers.rs).                                  *)
(*                                                                         *)
(* A table keeps a position modulo Wrap and gets it Lag bytes late, in     *)
(* batches.  A probe recovers the position from what is left of it: the    *)
(* latest one that is MinDistance back.  Nothing but the lag and the order *)
(* of the probes keeps that position inside the input.                     *)
(***************************************************************************)
EXTENDS ParseFormat

CONSTANTS
  Lag,                 \* HASHTAB_LAG
  Wrap,                \* positions a 16-bit entry tells apart
  Batch,               \* positions inserted together
  MaxMatchLen,         \* bytes that a probe compares
  Slots,               \* HASH_SIZE
  Short, Long,         \* bytes that hash4 and hash6 read
  ShortHash(_), LongHash(_)

HashConstraints ==
  /\ {Lag, Wrap, Batch, MaxMatchLen, Short, Long} \subseteq Nat \ {0}
  /\ MinDistance = Lag + 1
  /\ MaxDistance = Lag + Wrap
  /\ MaxMatchLen <= Lag
  /\ MinSuffix = MaxMatchLen
  /\ Short <= Long /\ Long <= MaxMatchLen
  /\ \A w \in [1 .. Short -> Bytes] : ShortHash(w) \in Slots
  /\ \A w \in [1 .. Long -> Bytes] : LongHash(w) \in Slots

ASSUME HashAssumption == HashConstraints

VARIABLES
  finder,      \* "latest", "swift" or "ring"
  width,       \* entries of a bucket of the ring
  latestLong,  \* latest position for a long hash
  latestShort, \* latest even position for a short hash
  ring,        \* last positions for a short hash
  next         \* the positions before it are in the tables

tables == <<latestLong, latestShort, ring, next>>

FinderTypeOK ==
  /\ finder \in {"latest", "swift", "ring"}
  /\ latestLong \in [Slots -> 0 .. Wrap - 1]
  /\ latestShort \in [Slots -> 0 .. Wrap - 1]
  /\ ring \in [Slots -> [entries : [0 .. width - 1 -> 0 .. Wrap - 1],
                         next : 0 .. width - 1]]
  /\ next \in 0 .. size

EmptyBucket == [entries |-> [k \in 0 .. width - 1 |-> 0], next |-> 0]

TablesInit ==
  /\ latestLong = [h \in Slots |-> 0]
  /\ latestShort = [h \in Slots |-> 0]
  /\ ring = [h \in Slots |-> EmptyBucket]
  /\ next = 0

----------------------------------------------------------------------------
(* read_u32, read_u64 and the hashes: the slots of the bytes at pos. *)
Word(pos, n) == [i \in 1 .. n |-> input[pos + i - 1]]

ShortSlot(pos) == ShortHash(Word(pos, Short))

LongSlot(pos) == LongHash(Word(pos, Long))

\* What a table holds where the positions of a set were stored, in order.
Stored(positions, old) ==
  IF positions = {} THEN old ELSE Max(positions) % Wrap

(* insert of a LatestTable, for the positions that have a slot. *)
Newest(table, slot) ==
  [h \in Slots |-> Stored({at \in DOMAIN slot : slot[at] = h}, table[h])]

(* The positions of a batch that enter a bucket enter it one after another,  *)
(* from the cursor of the bucket on and around.                              *)
Entering(h, batch) == {at \in batch : ShortSlot(at) = h}

EntryFor(h, batch, at) ==
  (ring[h].next + Cardinality({p \in Entering(h, batch) : p < at})) % width

Pushed(batch) ==
  [h \in Slots |->
     [entries |-> [e \in 0 .. width - 1 |->
                     Stored({at \in Entering(h, batch) : EntryFor(h, batch, at) = e},
                            ring[h].entries[e])],
      next |-> (ring[h].next + Cardinality(Entering(h, batch))) % width]]

\* Mutant: the batch itself is not part of the lag.
BugDue(pos) == pos >= next + Lag

\* A batch of positions lies Lag bytes behind pos.
Due(pos) == pos >= next + Lag + Batch

(* insert_batches, one batch: the finder in use decides what is stored. *)
InsertBatch ==
  LET batch == next .. next + Batch - 1
      even == {at \in batch : (at - next) % 2 = 0}
  IN /\ latestLong' = IF finder = "ring" THEN latestLong
                      ELSE Newest(latestLong, [at \in batch |-> LongSlot(at)])
     /\ latestShort' = IF finder = "swift"
                       THEN Newest(latestShort, [at \in even |-> ShortSlot(at)])
                       ELSE latestShort
     /\ ring' = IF finder = "ring" THEN Pushed(batch) ELSE ring
     /\ next' = next + Batch

----------------------------------------------------------------------------
None == -1

(* Probe::candidate: the latest position MinDistance back that the entry   *)
(* may stand for, unless that lies before the input.                       *)
Candidate(pos, entry) ==
  LET latest == pos - MinDistance
      back == (latest - entry) % Wrap
  IN  IF back <= latest THEN latest - back ELSE None

NoMatch == Match(0, 0, 0)

(* The match with the candidate of an entry, NoMatch if there is none. *)
Compare(pos, entry) ==
  LET at == Candidate(pos, entry)
      len == IF at = None THEN 0 ELSE Lcp(pos, at, MaxMatchLen)
  IN  IF len = 0 THEN NoMatch ELSE Match(pos, len, pos - at)

\* Mutant: the first bytes are not compared, only the hash.
BugVerify(pos, entry) ==
  LET at == Candidate(pos, entry) IN
    IF at = None THEN NoMatch ELSE Match(pos, Short, pos - at)

(* Probe::verify: nothing unless the first Short bytes agree. *)
Verify(pos, entry) ==
  LET match == Compare(pos, entry) IN
    IF match.len < Short THEN NoMatch ELSE match

(* find of Ring: the longest match of the bucket, the first of equals. *)
FindInRing(pos) ==
  LET entries == ring[ShortSlot(pos)].entries
      match == [k \in 0 .. width - 1 |-> Compare(pos, entries[k])]
      longest == Max({match[k].len : k \in 0 .. width - 1})
  IN  match[Min({k \in 0 .. width - 1 : match[k].len = longest})]

(* Matcher::find: the finder's match at pos, NoMatch if it has none. *)
Find(pos, pending) ==
  LET long == Verify(pos, latestLong[LongSlot(pos)]) IN
    CASE finder = "latest" -> long
      [] finder = "swift"  ->
           IF long # NoMatch \/ pending THEN long
           ELSE Verify(pos, latestShort[ShortSlot(pos)])
      [] finder = "ring"   -> FindInRing(pos)

(* The entries that a probe at pos can read. *)
Entries(pos) ==
  CASE finder = "latest" -> {latestLong[LongSlot(pos)]}
    [] finder = "swift"  -> {latestLong[LongSlot(pos)],
                             latestShort[ShortSlot(pos)]}
    [] finder = "ring"   ->
         {ring[ShortSlot(pos)].entries[k] : k \in 0 .. width - 1}
=============================================================================
