# m77rip: a verification model of the misa77 codec

m77rip is a safe-Rust codec for the misa77 format: LZ77 with byte-aligned
tokens, a *light* format (3-byte tokens, 16-bit distances) for levels -1 to 3
and a *heavy* format (4-byte tokens, 20-bit distances) for level 4. The program
is sequential. What makes it hard is not interleaving but arithmetic spread
over many steps: fast paths that compare nothing inside a group of 16 tokens,
copies that deliberately write past the bytes they mean, streams read from both
ends at once, positions recovered from 16 bits, and reused search state.

## Inventory

| component | state | operations | interacts with | hard behaviour | correct when |
|---|---|---|---|---|---|
| container and API, `crates/decode/src/decode.rs` | none (`Layout` of one call) | `decompressed_size`, `decompress`, `decompress_into`, `Layout::parse/start/finish` | calls the decoders, then `finish` | order of the errors, sizes wider than `usize`, raw payloads | every malformed stream is an error, no access leaves a slice |
| light decoder, `light.rs` | cursor (control, literals, out), group positions, output | `decode`, `groups`, `Group::token`, `checked_step` | called by the API; uses `primitives.rs` | three window placements, no comparison inside a group, wild copies, refused tokens read twice | decodes what a token-by-token decoder decodes, in bounds, and stops |
| heavy decoder, `heavy.rs` | the same, with two phases and per-token windows | `decode`, `phase`, `groups`, `token_in`, `token_window`, `copy`, `checked_step` | the same | conditional match tails, errors found in a group reported by the caller's checked step | the same |
| stream writers, `stream.rs`, `light/writer.rs`, `heavy/writer.rs`, `compress.rs` | token and literal positions in one buffer | `start`, `token`, `finish`, `join`, bounds | called by the compressors | tokens run forward and literals backward in a buffer sized by a bound | the streams never cross; what is written decodes to the input |
| light greedy compressor, `light/greedy.rs` | position, pending literals, candidate, acceleration | `compress`, `select`, `lookahead`, `extend_backward` | finders, writer | candidates used after the position moved, policies that fire late | emitted matches are true, inside the input, and cover it once |
| light match finders, `light/matchers.rs` | hash tables of 16-bit positions, insertion batch | `find`, `insert_batches`, `candidate` | greedy | lag of the insertions, 16-bit wrap | a reported match is a match within the distance limits |
| light optimal compressor, `light/optimal.rs` | parse position | `compress`, `parse_block` | suffix array finder, writer | lazy evaluation over blocks | as greedy |
| suffix array finder, `sa.rs` | sorted suffixes, three-level live bitset, carried match | `find_block`, `scan`, `neighbors`, `LiveSet::{build,set,clear,prev,next}` | libsais, the parsers | summary bits, window sliding, carried matches instead of searches | the longest match within the window for each position |
| heavy parser, `heavy/mod.rs`, `heavy/parse.rs` | cost and arrival arrays, literal run, frontier | `compress`, `relax`, `best_end`, `backtrack` | suffix array finder, heavy writer | reused arrays, literal length extras, block boundaries | the cheapest parse up to ties of literal runs; never gives up on a valid input |
| primitives, `read.rs` | none | `hash`, `lcp`, `read_u32`, `read_u64` | all of encode | word-wise compare at the end | the common prefix length |
| suffix sorting, `sais.rs` | none | wrapper of external libsais | `sa.rs` | external code | a sorted suffix array |

Facades (`crates/encode/src/lib.rs`, `src/src/lib.rs`), SIMD dispatch, benches,
examples, fuzz targets, tests, CI and the vendored C++ codec are not modelled:
they have no state of the codec.

## What is modelled

Decompression from the header to the returned result, both stream writers with
the bound that sizes their buffer, and every parser with its match finder.

| module | models | source |
|---|---|---|
| `TokenFormat` | stream regions, cursors, tokens, the tests of a checked token | `decode.rs` `Layout`, `Cursor`; `checked_step`; `primitives.rs` `read_extension` |
| `TokenDecoder` | abstract: one token at a time with every check | the promise both decoders implement |
| `TokenOutput` | abstract: the bytes of those tokens, copied exactly | the same |
| `LightFormat` | light group constants and what the const assertions require of them | `light.rs:14-48` |
| `LightDecoder` | `decode`, `groups` in its three placements, `Group::token`, `checked_step`, `finish`, on positions | `light.rs`, `decode.rs:58-74` |
| `LightOutput` | `LightDecoder` with the output buffer and the chunk copies | `light.rs`, `primitives.rs` |
| `HeavyFormat` | heavy group and window constants | `heavy.rs:16-66` |
| `HeavyDecoder` | `decode`, `phase`, `groups` in its three placements, `token_in`, `token_window`, `checked_step`, `finish`, on positions | `heavy.rs`, `decode.rs:58-74` |
| `HeavyOutput` | `HeavyDecoder` with the output buffer and `Group::copy` | `heavy.rs`, `primitives.rs` |
| `ChunkCopies` | `load`/`store`, `copy_chunk`, `copy_literals`, `copy_match` on byte maps | `primitives.rs` |
| `Container` | `decompress`, `decompress_into`, their errors in order, raw payloads, on whole and truncated streams | `decode.rs` |
| `WriterFormat` | extension bytes written, the compression bounds | `stream.rs`, `compress.rs:37-52` |
| `StreamWriter` | `start`, `token`, `finish` of both writers, on positions | `light/writer.rs`, `heavy/writer.rs`, `stream.rs` |
| `RoundTrip` | `StreamWriter` with the bytes of the buffer, and a checked decoder reading it back, raw storage included | the same, `checked_step`, `Layout`, the raw payload of `decode.rs` |
| `ParseFormat` | the input, matches, `lcp` and the limits of the format | `encode/src/read.rs`, format constants |
| `Parse` | abstract: what a parser promises the stream writer | the promise of all parsers |
| `HashFinder` | `Latest6`, `Swift`, `Ring`: tables, batched insertion, candidates | `light/matchers.rs` |
| `GreedyParse` | levels -1 to 2: the loop, its three policies, deferred matches, lookahead | `light/greedy.rs` |
| `LiveSet` | the bitset of ranks with its summary levels | `sa.rs` `LiveSet` |
| `SaFinder` | `find_block`, `scan`, `neighbors`, carried matches | `sa.rs` |
| `OptimalParse` | level 3: the block loop and the lazy parse | `light/optimal.rs` |
| `HeavyParse` | level 4: `relax`, the literal run, `best_end`, `backtrack` | `heavy/mod.rs`, `heavy/parse.rs` |
| `..._proofs` | the theorems | |
| `MC...` | instances for TLC; `MCSuffixSort` sorts suffixes by definition | |

`LightDecoder` and `HeavyDecoder` extend `TokenFormat`, and instantiate
`TokenDecoder` to state that they implement it; `LightOutput` and `HeavyOutput`
extend them with bytes and implement `TokenOutput`. `RoundTrip` composes the
writer with the reading half of `TokenFormat`: since both decoders implement
the token-by-token decoder, what it reads back is what they read back.
`Container` decodes with the tests of `TokenFormat` for the same reason.

`GreedyParse` extends its finder `HashFinder`, and `OptimalParse` and
`HeavyParse` extend theirs, `SaFinder`, which extends `LiveSet`. All three
parsers instantiate `Parse` and implement it. `Parse` promises what
`StreamWriter` and `RoundTrip` assume of the tokens they are given: matches in
order, true of the input, of a length and a distance that a token can hold, and
ending before the raw suffix. So the chain from the input to the decoded output
is closed: finder and parser implement `Parse`, `RoundTrip` holds for every
parse of that kind, both decoders implement the decoder that `RoundTrip` uses.

**State of the decoders.** `cursor` is the code's `Cursor`. `group` is the
`Group` struct: the tokens taken so far `n` and its positions. `place` is the
type parameter of `groups::<P>` and `pc` the point reached. `layout` holds the
sizes `Layout::parse` accepted; `cond` is the heavy stream's flag. One action is
one token, or one decision between tokens; `groups`, `phase` and `decode` are
sequences of such actions exactly as in the code. A refused token commits the
group and goes to `pc = "ext"`, the checked step inside `groups`. In the heavy
decoder an error of that step ends the pass only (`BreakGroups`); the caller's
checked step meets the same token again. The heavy `group.at` is the position in
the output; the code keeps it relative to the window of the group.

**Tokens.** The stream is any byte string, so `tok`, the token at the current
control position, is chosen freely whenever the cursor reaches a new position
and kept while it stays: a token the group refused is the token the checked
step reads. The bytes of a token are abstracted to its three lengths and the
number of bytes it occupies. A header cut off by the literals, and an extension
that runs into them, are tokens for which `Accepts` is false. A match of length
0 is the heavy format's invalid code.

**Bytes.** In `TokenOutput`, `LightOutput` and `HeavyOutput` a byte is the
position of the stream it was copied from, or `Stale`: two outputs that are
equal as position maps are equal for every content of the stream, and a byte
the decoder did not write is visible.

**State of the writers.** `tokens` and `literals` are the two positions of the
writer, `cap` the length of the caller's buffer, `at` the input position up to
which tokens were written (`lit` in the parsers and in the heavy writer). Which
token comes next is the parser's choice: any literal run and match that leave
the minimal suffix, true of the input where there are bytes (`TrueMatch`). In
`RoundTrip` a token header is one cell with its fields, and every extension
byte, literal and suffix byte a cell of its own; bit packing is abstracted.

**State of the greedy parser.** `pos`, `lit`, `misses`, `cand` and `regime` are
the locals of `compress` in `greedy.rs`; `latestLong`, `latestShort`, `ring` and
`next` are the tables of the finder in use and its insertion cursor. One action
is one turn of the loop: a batch of insertions, or a probe with what follows
from it. An entry of a table is a position modulo `Wrap`, as 16 bits keep it,
and `Candidate` recovers a position from it as the code does. The hash functions
are constants: any function of the bytes they read. A level is a record of the
policy's constants and its finder, so one specification is all four levels.

**State of the suffix-array finder.** `sa`, `rank`, `maxLen` and `matchDis` are
the reused buffers, `live` the bitset, `at` the position that is scanned and
`carry` the length and distance carried to it. The first call of a thread finds
new buffers, any other one those of an earlier input: `FinderInit` has both. A
bitset level is the set of its one bits; the mask and leading-zero tricks on
words become `Max` and `Min` of the bits of a word, and the level at which
`set`, `clear`, `prev` and `next` stop is kept. One action is one position. The
suffix array itself comes from the external sorter and is the constant `Sort`,
of which the code may assume `Sorts`.

**State of the heavy parser.** `dp` and `arrivalLen` are the arrays of the
relaxation, `lits` its `LiteralRun`, `frontier` and `commit` the committed parse
before and after the block, `boundary` and `tokens` the walk back. `dp` is
cleared for each block and `arrivalLen` is not, as in the code. The length
codes are a table with gaps, like the real one.

**State of a decompression call.** `stream` is a written stream and `len` how
much of it is there. Its tokens are decoded one by one, from literals and a
suffix that are found from the wrong end when `len` is short.

**Errors** return at once and nobody reads the cursor again, so it is left
unchanged; the output keeps what was written.

## Runs

The formats are scaled so that every condition has both sides within a few
tokens: chunks of 1 or 2 bytes, groups of 2 tokens, 1-byte headers, runs from 1
or 3 literals carrying an extension, short distances. The relations between
constants that the code relies on are `FormatConstraints`, `LightConstraints`,
`HeavyConstraints`, `WriterConstraints` and `CostConstraints`; the MC modules make TLC check that
the real constants of both formats (chunk 32, group 16, 65,568 and 1,048,608
bytes of history; level 4 with its table of lengths and inputs up to 300 MB) meet them,
too.

| run | checks | result |
|---|---|---|
| `light_decoder` | `TypeOK`, `CursorsOrdered`, `GroupBudget`, `BorrowsInBounds`, `GroupCopiesInBounds`, `StepCopiesInBounds`, `ImplementsTokenDecoder`, `Termination` | hold |
| `light_output` | `OutputTypeOK`, `ImplementsTokenOutput` | hold |
| `light_long_match` | `AllWritten` | violated: see below |
| `heavy_decoder` | `TypeOK`, `CursorsOrdered`, `GroupBudget`, `GroupInBounds`, `StepInBounds`, `ImplementsTokenDecoder`, `Termination` | hold |
| `heavy_output` | `OutputTypeOK`, `ImplementsTokenOutput` | hold |
| `round_trip` | `TypeOK`, `StreamsApart`, `BoundHolds`, `TripTypeOK`, `RoundTrips` | hold |
| `greedy_parse` | `TypeOK`, `CandidatesExist`, `DeferredValid`, `ImplementsParse`, `Progress` | hold |
| `optimal_parse` | `TypeOK`, `LiveWindow`, `LongestMatch`, `ImplementsParse` | hold |
| `heavy_parse` | `HeavyTypeOK`, `NeverFails`, `PaidFor`, `NearlyCheapest`, `ImplementsParse` | hold |
| `heavy_tie` | `Cheapest` | violated: see below |
| `container` | `TypeOK`, `TruncationDetected` | hold |
| `truncated` | `TruncatedIsTooShort` | violated: see below |

*Bounds.* `light_decoder` (0.4 million states) has streams of 12 to 24 bytes
and outputs of 11 to 23, token lengths 0 to 5, matches 1 and 3, distances 3 and
6. In it a Prefix group, a refused token, a checked step, a Main group and a
successful end occur in one behaviour; outputs below and above `OutWin` occur;
tokens are refused for their length (with one and with two extension bytes) and
for their distance, at the first and at a later place of a group. `light_output`
(1.8 million states, because the bytes remember the whole history) narrows the
token lengths and keeps a full Main group followed by a successful end. Longer
streams repeat the same group with other offsets; the proofs cover all of them.

`heavy_decoder` (0.5 million states) has streams of 11 and 26 bytes and outputs
of 11, 14 and 26, a start window of 12 and a longest distance of 13: outputs
without a start window, with one and no main phase, and with every phase occur.
A run of 12 literals takes the output to the main phase in a step or two. A Main
group never starts at the longest distance exactly, in the code as in the
model: the pass that ends the first phase runs its checked step first.
`heavy_output` (0.6 million states) uses chunks of 2 bytes, so that matches of
1, 3 and 5 bytes span up to three chunks, overlap their source and leave wild
bytes, with and without the flag.

`round_trip` (1.5 million states) has the tighter of the two formats, in which
the token is as long as its shortest match, and no padding in the bound. It runs
over *every* input of two byte values of 2, 7, 10, 11 and 12 bytes, stored raw
or in tokens, and over every true parse of it, with literal runs of 0, 1, 3, 5,
6 and 9 bytes, on both sides of one, two and three extension bytes, in buffers
with and without slack.

`greedy_parse` runs the four levels on *every* input of 14 bytes of two values.
Entries are kept modulo 4 and the longest distance is 7, so that near the end of
an input an entry that is older, or was never written, is read as a younger
position; both hashes collide, batches hold 2 positions, buckets 1 to 3, and a
match is 1 to 3 bytes long. Inserting, accepting, deferring, firing a
deferred match before and behind the cursor, backward extension, lookahead,
skips and both sides of the regime vote occur. The relations the code needs of
its constants (`MinDistance` one more than the lag, no match longer than the
lag, the suffix as long as the longest match) are `HashConstraints`.

`optimal_parse` runs level 3 on every input of 9 and 11 bytes of two values in
one or two blocks of 7, with a window of distances 2 to 4: positions leave the
window within a block and across its boundary, the second block is shorter than
the first and its matches may begin in it, matches reach the length limit and
are carried on, and with words of 2 bits a segment of 11 suffixes has six words,
with three words of summary and a second summary over those. Before the run TLC compares `LiveSet`
with plain sets on all sets of ten ranks. `heavy_parse` runs level 4 on every
input of 10 and 11 bytes in two or three blocks of 5; extension bytes of a
literal run start at 2 bytes and come every fifth after that, so a run that
crosses a block takes up to two, and the length codes leave a gap.
`NearlyCheapest` compares each block with a minimum over all starts of the
literals and all lengths, defined without the code's single literal run.

`container` has every written stream of at most three tokens of a scaled format
and every raw stream, cut at every byte, with every length a caller can give,
and a `usize` smaller than the largest size.

*Fairness.* `Spec` of the decoders assumes `WF_vars(Next)`: the decoder is
straight sequential code that never blocks, so it takes its next step.
`Termination` then says that the loops consume something. `Returned` is the
state of a finished call and is the only step that changes nothing, so TLC's
deadlock check is on in every run. The writers and the container have no
fairness: no liveness is claimed of the parser that drives them or of the caller.
The parsers have none either. That the greedy loop ends is stated as the action
property `Progress` instead: each turn inserts positions, moves the cursor or
consumes literals, all bounded by the input, and nothing goes back. The other
parsers take one position or one token per step.

*Mutants.* The operators named `Bug...` are plausible mistakes in the
definition that follows them; `PROJECT.json` pairs each property with one that
breaks it.

### Finding: the two longest light matches

A light token encodes matches of 3 to 34 bytes, but every match is copied as
one 32-byte chunk (`light.rs:247-249`, `280-281`). A stream with a match of 33 or
34 bytes is accepted and its full size is returned, while `decode.rs:122` says
that `decompress_into` "Returns the number of bytes written to `dst`": up to two
bytes of such a match are never written and keep what the caller's buffer held.
`light_long_match` shows it. The compressor emits at most 32 bytes per match, so
its own streams are not affected, and `light_output` shows that for matches
of at most one chunk all bytes are the promised ones.

### Finding: truncated streams called corrupt

`decode.rs:126-128` promises `Error::InputTooShort` for a truncated stream and
`Error::CorruptInput` for a malformed one. The code knows the length of a stream
only by what it is given: literals and suffix lie at its end, so a stream cut
behind its headers has its literals in the wrong place, and the token that no
longer fits, or `Layout::finish` (`decode.rs:70`), reports `CorruptInput`.
`truncated` shows it. What matters more holds: `TruncationDetected`, no cut
stream ever decompresses, although nothing in the format is there to detect it.

### Finding: ties of the level 4 parse

`DESIGN.md:13-14` says that level 4 "runs an exact shortest-path parse over token
byte costs" (`heavy/parse.rs:1`: "Exact block parse"). `LiteralRun::advance` keeps
one literal run per position and starts a new one at a match end that costs no
more (`reached <= self.cost`, `heavy/parse.rs:84`). At a tie the run it drops may
have paid for its extension byte already, while the new one pays for another when
it reaches the inline limit: 63 literals, a 4-byte match that saves nothing and 63
literals cost one byte more than the same bytes as one run. `heavy_tie` shows it.
`NearlyCheapest` states what holds, and is proved: the parse of a block costs no
more than any other would if a literal run took one extension byte for each
`TokenLitMax` literals. A run of fewer than twice `TokenLitMax` literals takes at
least that many in fact, so no parse of such runs is cheaper.

## Proofs

Every invariant and every refinement that a passing run checks is also a theorem,
for all constants that meet the named assumptions; so is the action property
`Progress`.

`LightDecoder_proofs`, for all constants that satisfy `FormatAssumption` and
`LightAssumption` (any chunk and group size, any sizes of stream and output, any
sets of token lengths within the coded limits), and `HeavyDecoder_proofs`, for
all that satisfy `FormatAssumption` and `HeavyAssumption`, prove:

| theorem | light | heavy |
|---|---|---|
| `Invariance` | `Spec => []Inv`, the inductive invariant | the same |
| `TypeCorrect` | `Spec => []TypeOK` | the same |
| `BudgetKept` | `Spec => []GroupBudget` | the same |
| `CursorsNeverCross` | `Spec => []CursorsOrdered` | the same |
| `MemorySafety` | `Spec => [](BorrowsInBounds /\ GroupCopiesInBounds /\ StepCopiesInBounds)` | `Spec => [](GroupInBounds /\ StepInBounds)` |
| `BorrowsFit`, `StepCopiesFit` / `StepAccessesFit` | `Spec => []BorrowsInBounds`, `Spec => []StepCopiesInBounds` | `Spec => []StepInBounds` |
| `Implements` | `Spec => ImplementsTokenDecoder` | the same |
| `OutputTypeCorrect` | `OutputSpec => []OutputTypeOK` | the same |
| `OutputImplements` | `OutputSpec => ImplementsTokenOutput`, if no match is longer than a chunk | `OutputSpec => ImplementsTokenOutput` |

*The argument.* None of the bounds is inductive by itself: inside a group the
code compares nothing, so a bound on the next copy needs a bound on everything
the group did before. `GroupBudget` is that bound: after `n` tokens at most `n`
times the control bytes, literals and output of the longest group token are
used, and the group started with room for `Group` of them. `Inv` adds that the
committed cursor is ordered and that a refused token leaves stream unread; for
light, that array windows run only on outputs of `OutWin` bytes; for heavy, that
a running group started where its placement fits is part of the budget itself.
`Steps` supplies the products of two constants, which the SMT solver does not
find in context. `TakenAccepted` is the heart of the refinement: what the group
takes without a check passes every check. In the heavy decoder a pass that drops
an error must also leave the abstract decoder where it is, so that the caller's
step can refuse the same token. `TokenFormat_proofs` holds the lemmas both use,
and those on quotients and remainders that the writers need.

For the bytes, `Copied` says what one token does to the buffer in terms of the
exact copy: equal up to the new cursor, whatever lies behind it. Literals and
match are copied in whole chunks, each over what an earlier chunk left wild, so
the lemmas on chunk copies follow a copy chunk by chunk (`Repeated`, `Span`) and
show that a chunk never reads a byte that the copy itself has yet to write: the
shortest distance is longer than a chunk. Light copies one chunk per match, and
its theorem assumes that no match is longer: the first finding above shows that
the code needs it. Heavy needs no such hypothesis.

`StreamWriter_proofs`, for all constants that satisfy `FormatAssumption`,
`WriterAssumption` and `SlackAssumption`, and for every choice of the parser:

| theorem | statement |
|---|---|
| `Invariance` | `Spec => []Inv` |
| `TypeCorrect` | `Spec => []TypeOK` |
| `Apart` | `Spec => []StreamsApart` |
| `Bounded` | `Spec => []BoundHolds` |

*The argument.* `StreamsApart` says nothing of the input still to come, so it is
not inductive. `Paid` is: the bytes in the buffer beyond the header and beyond
the input they stand for are at most one per `BoundDiv` bytes of input covered.
`TokenPaid` shows that each token keeps it, the header and the first extension
byte being paid for by the match (light: 3 + 1 bytes for at least 4) or by the
literals (heavy: 63 literals for a first extension byte), and every further
byte by `ExtMax` literals. At any moment the overhead, what is written and what
is left of the input then fit the bound, so no cursor passes the other.

The same module proves of `RoundTrip`, for the same constants, every input and
every true parse of it:

| theorem | statement |
|---|---|
| `TripTypeCorrect` | `TripSpec => []TripTypeOK` |
| `DecodesToInput` | `TripSpec => []RoundTrips` |

*The argument.* The decoder reads what the writer wrote long before, so the
invariant must remember the tokens. `TripInv` says that there is a set of links,
each a token and the cursor it was written at, that forms a `Chain` from the start
of the stream to the position reached, and that the bytes of every link (its
header, extension, literals) are `Held` where a decoder at that cursor looks for
them, the literals relative to the end of the stream, so that `finish` may move
them. Each link `Repeats` the input at its distance. Writing a token adds a link
and disturbs no other because the streams are apart; the decoder then walks the
chain and has at each cursor the input up to there.

`Container_proofs`, for every set of written streams (`StreamAssumption`) of a
format that meets `FormatAssumption`: `Invariance`, `TypeCorrect` and `NoTruncation`
(`Spec => []TruncationDetected`). `Tracks` is the argument: a cut stream is read
with the tokens of the whole one, and the literal cursor is lower by the bytes
that were cut. At the end of the whole stream both cursors meet with the output
filled; in the cut stream they meet earlier, if at all, and each token left adds
output, so the output is not filled then.

`GreedyParse_proofs`, for every pair of hash functions, table and batch size,
policy and input that meets `HashAssumption` and `LevelAssumption`:
`Invariance`, `TypeCorrect`, `DeferredUsable`, `CandidatesInside`,
`AlwaysForward` and `Implements`. `TablesHeld` says that an entry is zero or the
remainder of a position that was inserted, and inserted positions lie the lag
behind the cursor: that alone keeps a recovered position in the input, whatever
the remainder was taken of. A match is followed from the entry over the
comparison, the lookahead and the wait in `cand` to the backward extension; it
may be emitted because `lit <= cand.pos` survives every step that keeps it.

`SaFinder_proofs` proves of the suffix-array finder and of level 3, for every
sorter that meets `FinderAssumption` and every word, block, window and padding
size (`WordAssumption`, `ParseAssumption`): `Invariance`, `TypeCorrect`,
`WindowExact` (`LiveWindow`), `LongestFound` (`LongestMatch`) and, if a token can
hold every length up to the limit of the finder (`LengthConstraints`), `Implements`. `Levels`,
`InsertSound`, `RemoveSound`, `BelowIsHighest` and `AboveIsLowest` show that the
three levels are one plain set. `Slide` shows that one insertion and one removal
per position keep it equal to the ranks of the window, and across a block boundary
`Build` starts it anew. `Repeats` is the invariant of what is carried: the carried
bytes repeat at the carried distance, although nothing compares them. That needs
the sorter to return a permutation only. `LongestFound` also needs the order:
a suffix between two others shares with each of them at least what they share
(`Precedes`), so the nearest live rank on either side has the longest prefix in
common, and a carried match is as long as a search would find.

The same module proves of level 4, for every input, table of length codes, block
and window size that meets `CostConstraints` as well:

| theorem | statement |
|---|---|
| `HeavyInvariance` | `HeavySpec => []HeavyInv` |
| `HeavyTypeCorrect` | `HeavySpec => []HeavyTypeOK` |
| `NeverGivesUp` | `HeavySpec => []NeverFails` |
| `FrontierPaid` | `HeavySpec => []PaidFor` |
| `HeavyImplements` | `HeavySpec => ImplementsParse` |
| `LevelFourNearlyCheapest` | `HeavySpec => []NearlyCheapest` |

*The argument.* The walk back has costs and lengths only, so the invariant says
what they can be trusted for. Every position with a cost has `Arrived`: its
length is one the finder found at the start of the match, and some reached
position or the frontier explains its cost. `LitsOK` says the same of the literal
run that is kept, and is what makes an offer of `Relax` arrive. Stale lengths do
not matter, for only positions with a cost are read. The walk may take another
origin than the relaxation did, the nearest that explains the cost, and needs only
that there is one. `WalkOK` holds the tokens found so far: placed in order, true,
and each explaining the cost it was found by; `BillOK` turns that into the cost of
the tokens emitted. That `best_end` and the open run at the end of a block leave a
position with a cost closes the circle.

`NearInv`, on top of it, is optimality. `Offered` says that each position relaxed
so far had every encodable length offered, and `NearAt` compares the run that is
kept with every reached position: its origin costs no more than literals from any
position before it would, at one extension byte for `TokenLitMax` of them, and the
run passes every position behind its origin for strictly less than a match reaches
it. `ExtrasBound` and `ExtrasCut` are the arithmetic of a run that is cut or
starts again. `CommitNear` carries the bound over to the end
of a block. `ReachedExists` shows that the recursive minimum of `NoneCheaper` has
a solution at all, by a least counterexample. `Inf`, `usize::MAX` in the code,
must exceed the cost of the whole input (`CostConstraints`): true of any slice on
a 64-bit target, and below 700 MB on a 32-bit one.

`ParseFormat_proofs` has the facts about extrema and common prefixes that the
parsers use; a maximum exists by the library's `WFMin`.

*Only model-checked:* `Termination` (liveness under fairness is out of the
prover's reach); the three violated properties, which are counterexamples; that
`LiveSet` agrees with plain sets on all sets of ten ranks, and that the real
constants meet the constraints of the modules, which TLC evaluates.
`CostConstraints` and `LengthConstraints` are hypotheses of the theorems that
need them, and TLC evaluates them for the instances, too. That `ExtBytes` and `ExtWritten` are the lengths of what
`read_extension` reads and `write_extension` writes is read off the code.

## Not modelled

- The sum of a token's literals and its extension on a 32-bit target
  (`light.rs:265`): it overflows only with a run of 4 GiB less a few bytes. The
  models use natural numbers.
- The refusal of a short buffer and of a bad level by the compressors, and the
  saturation of the bounds near the largest `usize`: tests of one argument each.
- Bit packing: the fields of a token header are abstracted in reader and writer
  alike, with the heavy writer's length codes and its choice of the flag; the
  table of floor lengths (`HEAVY_LEN_FLOOR`), which repeats the other two.
- `sais.rs`: the sorter is external, `Sorts` is what is assumed of it.
- The multiplications of the hashes (any function will do) and the words that
  `lcp` compares at a time (by what it returns).
- SIMD dispatch (the same code compiled more than once), the facade crates
  (re-exports), and everything that is not the codec: benches, examples, fuzz
  targets, tests, CI and the vendored C++ codec.

## What is left

A composition of one parser with `RoundTrip` in a single specification, in place
of the two that meet at `Parse`; a bound on how many bytes ties can cost a whole
input; liveness, should the prover come to support it.
