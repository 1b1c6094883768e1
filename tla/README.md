# TLA+ specifications of delharc

delharc reads LHA/LZH archives: it parses file headers from a stream,
decompresses the files' data and verifies their checksums. This directory holds
TLA+ models of the parts of it that keep state, TLC configurations that check
them on small instances, and TLAPS proofs of the most important results for
every instance.

All line numbers refer to the files of the repository; `PROJECT.json` maps each
definition to the lines it stands for.

## 1. Inventory

| part | state | operations | what makes it correct |
|---|---|---|---|
| ring buffer (`ringbuf.rs`) | array of 2^k bytes, cursor | push, set_cursor, iter_from_offset, iter_from_pos, HistoryIter::next | the array is the last 2^k bytes, across wrap-arounds and while a copy reads what it writes |
| window decoders (`lhv1.rs`, `lhv2.rs`, `lzs.rs`, `lz5.rs`) | ring buffer, `copy_progress`, reader of the compressed data | fill_buffer, copy_from_history | the output does not depend on how the caller cuts it into buffers |
| blocks of lh4 to lhx (`lhv2.rs`) | two trees, `remaining_commands` | begin_new_block and the three tree readers, read_command, read_offset | codes are only read from trees of the current block that are complete |
| static Huffman tree (`statictree.rs`) | array of nodes | set_single, build_tree, read_entry | accepts exactly the complete prefix codes, decodes the canonical code, unchecked indexing stays inside |
| adaptive Huffman tree (`lhv1/dyntree.rs`) | array of nodes, leaf index, groups and their leaders | new, read_entry, increment_for_value, rebuild_tree, promote_to_leader, increment_frequency | order, groups, links and sums agree; codes are optimal; 16-bit counts and the group allocator suffice |
| decode reader (`decode.rs`) | header, checksum, output length, decoder with its stream | new, begin_new, begin_with_header_and_decoder, next_file, read, take_inner, into_inner, crc_is_ok | next_file ends up behind the current file's data; streams are never lost; a matching checksum means the caller has the file |
| I/O adaptors (`stub_io.rs`) | Take: limit and inner stream | read_all, read_exact, discard_to_end | the limit is what is left of the file's data |
| extraction loop (`lib.rs`, `examples/extract.rs`) | the caller's | open, copy, skip, next_file | ends, and is offered every file |
| bit reader (`bitstream.rs`) | 32 or 64 bits with an end mark | read_bit, read_bits | bits come in order, none lost or repeated |
| header parser (`header/parser.rs`) | bytes counted, summed and digested so far, extra headers collected | LhaHeader::read for levels 0 to 3, iter_extra | consumes the header and nothing else; sums and digests cover it exactly; iter_extra finds what read found |
| header accessors (`header.rs`, `header/*.rs`) | none | path names, comments, dates, methods, systems | both path functions agree, components are names, dates are the instants stored |
| checksum (`crc.rs`) | 16 bits | digest, reset | CRC-16/ARC |

How they interact: the caller owns a stream and gives it to the decode reader,
which wraps it in a `Take` limited to the file's compressed size and gives that
to a decoder; `next_file` takes it apart again. `read` calls the decoder's
`fill_buffer` for exactly the bytes it will return, then counts and digests
them. A decoder takes bits from its reader, commands from its trees, and bytes
from its ring buffer. Everything is sequential, in one thread; there are no
callbacks. What is hard is the state that survives between calls:

* copies that do not fit the caller's buffer are interrupted and resumed;
* every read of the stream can fail after consuming bytes, a caller may go on
  after an error, and the stream travels inside errors;
* the header of one file may be left in place beside the decoder of another;
* the adaptive tree is reordered while it is walked, and rebuilt in between;
* static trees are rebuilt in place, so that a failure leaves half of one;
* a header has up to four lengths that count different bytes, compared in sums
  that may wrap around, and is changed in place (the CRC-16 is cleared) between
  being checked and being walked again.

`PROJECT.json` lists these hazards at their lines under "hazards".

## 2. Modules

| module | models | extends |
|---|---|---|
| `RingBuf` | `ringbuf.rs` as operators on records | |
| `LzHistory` | abstract: what a window decoder promises | |
| `LzDecoder` | fill_buffer, copy_from_history, HistoryIter of all four decoders | `RingBuf`; instantiates `LzHistory` |
| `LzDecoderProofs` | theorems about `LzDecoder`, the refinement of `LzHistory` among them | `LzDecoder` |
| `Lhv2Decoder` | the blocks of lh4 to lhx around `LzDecoder` | `LzDecoder` |
| `Lz5Decoder` | the flag bits of lz5 around `LzDecoder` | `LzDecoder` |
| `MethodProofs` | theorems about `Lhv2Decoder` and `Lz5Decoder` | both, `LzDecoderProofs` |
| `HuffTree` | `statictree.rs` | |
| `HuffTreeProofs` | theorems about `HuffTree` | `HuffTree` |
| `DynTree` | `lhv1/dyntree.rs` | |
| `DynTreeProofs` | theorems about `DynTree` | `DynTree` |
| `BitStream` | `bitstream.rs` | |
| `BitStreamProofs` | theorems about `BitStream` | `BitStream` |
| `ArchiveReader` | `decode.rs` over `stub_io.rs` | |
| `ArchiveReaderProofs` | theorems about `ArchiveReader` | `ArchiveReader` |
| `ExtractLoop` | the caller's loop | `ArchiveReader` |
| `ExtractLoopProofs` | theorem about `ExtractLoop` | `ExtractLoop`, `ArchiveReaderProofs` |
| `HeaderParser` | `LhaHeader::read` of `header/parser.rs` | |
| `HeaderAccess` | iter_extra and the methods of `header.rs` on the headers that read accepts | `HeaderParser` |
| `HeaderProofs` | theorems about both | `HeaderAccess` |
| `MC*` | constants and reference definitions for TLC | |

**RingBuf, LzDecoder.** `fill_buffer` is cut into steps: the call (resuming a
copy), one literal, the beginning of a copy, one byte of a copy, the end of a
copy, the return. Nothing else runs in between, so the cut only serves to state
what holds inside the loops. `Addressing` selects the two forms of the code:
offsets from the last byte (lh1, lh4 to lhx), which an interrupted copy keeps
because the cursor moves along, and positions in the ring buffer (lzs, lz5),
which it must advance. The next command is any literal or copy, or an error,
which returns at once and loses the bytes already written in that call. A copy
takes its first slot from the iterator and then rebuilds the iterator from the
index of that slot, as the code does (`CopyIndex`): a wrong index would skip
slots, with the stale bytes of the caller's buffer, or write them twice. `hist`,
`out` and `failed` are auxiliary: all bytes pushed, all bytes delivered by
successful calls, and whether some call failed.

**LzHistory** has no ring buffer and no calls: a history that only grows, and at
most one pending copy given by its distance. `LzDecoder!PendingCopy` is the
refinement mapping: inside the copy loop the pending copy is the iterator and
what will be saved, otherwise it is `copy_progress`.

**Lhv2Decoder.** A tree is a record of its status, its purpose and the block it
was read in. `offset_tree` first holds the temporary tree, as in the code.
`build_tree` failing leaves an empty or a partial tree. `Retry` says whether the
caller reads on after an error.

**Lz5Decoder.** `bitmap` is the field, `local` the variable of the same name in
`fill_buffer`, which is taken from the field when a call has resumed its copy and
stored when the call returns Ok. Both hold the unused flags below an end mark, as
in the code; `FlagBits` stands for 8. Any read can fail, and loses the local
variable. `flags` and `kinds` are auxiliary: the flags in the data and the
commands carried out, until a call fails. After a failed call lz5 goes on with
the flags of an earlier call, so that nothing is claimed about its commands
then; the window and the copies are still those of `LzDecoder`.

**HuffTree.** `build_tree` runs one level per step, `read_entry` one bit per
step over every sequence of bits. The tables of lengths are given by the MC module.
`OverflowChecks` is the set of builds: in one with overflow checks the range of
lengths, a u8, panics when it gives out 255 (`LengthOverflows`); in the others it
wraps around and is not asked again.

**DynTree.** `read_entry` is cut into bits on the way down, nodes on the way up
and turns of the loop of `rebuild_tree`. `NumLeaves` and `ReorderLimit` stand for
314 and 32768. The array arithmetic (second child stored, first child before it)
is the code's. `OutputLength` and `HuffmanLength` are reference definitions: the
weighted path length of the tree, and what Huffman's construction makes of the
same frequencies. `dyntree` runs the module itself.

**BitStream.** A word is a function from bit positions to bits, so that shifts,
merging and the end mark are the code's. `next_bits` is the set of its outcomes;
an action is a call of `read_bit` or `read_bits`. `taken`, `at`, `lost` and
`last` are auxiliary: the bits of the stream that reached the word, how many of
them were handed out, whether an I/O error lost bytes, and the last answer.

**ArchiveReader.** A stream is a tape: for every byte, what a header parser
would meet if it started there, in the middle of file data too, so that a
session that loses its place finds something. Decoded bytes are their numbers in
the file. `fill_buffer` is the set of its outcomes: how many bytes leave the
stream, how many of those are taken off the limit, how many bytes are decoded,
and success or failure. The two numbers of bytes differ when a read fails: after
an I/O error, and without one when lz5 asks for the two bytes of a copy where the
stream has only one left (`CutShort`). `last`, `delivered`, `clean` and the decoder's `end` and
`slip` are auxiliary.

**HeaderParser.** One action per field or group of fields, in the order of
`read`; whatever the stream holds is chosen when it is read, so that every
combination of lengths that disagree is met. Kept are all lengths, in the code's
units and with the widths of the sums (`as u32`, `usize` of 32 and 64 bits), the
identifiers of the extra headers, and for each checksum which bytes went into
it; whether it matches is left open. Left out are the bytes that `read` only
stores. `pos` is how far the stream was consumed; every read can fail after
taking part of what it wanted, an extra header can fail to be allocated, and an
error drops what was parsed. Additions wrap around as in release builds; with
overflow checks the same inputs panic.

**HeaderAccess** takes a header that `read` accepted and walks its extra headers
like `iter_extra`, for all methods of `header.rs` at once, since each does the
same walk and they share nothing else. The walk follows the stored lengths and is
`lost` as soon as it is not where the parser was. The contents of names and dates
are chosen there. A text is a sequence of characters that stand for the classes
the code tells apart (letter, dot, the two separators, 0xFF, nil); the
conversions are the code's, for a target whose separator is `/`. The comment is
that of the first comment header with a text, the name that of the last filename
header.

**ExtractLoop** drives `ArchiveReader` the way `examples/extract.rs` does, with
the choice left open which files are copied and whether the caller goes on with
the next file after a failed read.

## 3. Runs

| run | configuration | shows |
|---|---|---|
| `lz5` | window 4, two byte values, all four positions, a cursor that starts below zero, copies of 3 and 6 bytes, buffers of 0, 1, 3, 4, two flags in a byte, five new bytes before no more commands are read, callers that go on after an error | commands follow the flags of the data; the window, resumed copies, the bound on the saved position, and the refinement of `LzHistory` for copies addressed by position, as in lzs |
| `lhv2` | window 4, two byte values, offsets 0, 2, 3 and 5 (wraps), copies of 1, 3 and 6 bytes, the same buffers, at most 3 blocks of 0 to 2 commands, callers that stop at an error | trees are complete and of the current block when used; calls end; delivery, and the refinement of `LzHistory` for copies addressed by offset, as in lh1 |
| `lhv2_retry` | the same with window 2 and callers that read on | violation, see 5 |
| `huff` | all tables of up to 3 lengths up to 4, of 4 lengths up to 3, ordered ones of 5, and hand-picked ones (gaps, length 255, too many lengths) for an index range of 17, builds with and without overflow checks | build_tree accepts what Kraft's sum says, read_entry decodes the canonical code and stays in the array |
| `dyntree` | 4 leaves, rebuild at 11 | order, groups, links, sums in the middle of walks too; rebuild never lacks a leaf; codes as short as Huffman's |
| `bits` | bytes of 2 bits, words of 2 bytes, receiving types of 1 and 2 bytes, requests of 0 to 5 bits, all streams of up to 4 bytes | answers are the next bits, the word holds what is left, also after failures; the end of the stream is not reported early |
| `archive` | two streams with stored, compressed, unsupported and truncated files, buffers of 0 to 2 bytes, every read may fail after any number of bytes | see the properties of `ArchiveReader` |
| `archive_skip_after_io_error` | the same | violation, see 5 |
| `archive_narrow_usize` | usize of one bit | violation, see 5 |
| `header` | bytes of 32 values, streams of 0, 30 and a little over 2^w bytes for w-bit lengths, usize as wide as a length and wider, at most 2 extra headers of twelve lengths, all header levels and three systems, sample texts and dates | an accepted header of levels 0 to 2 ends where its lengths say, and one of levels 2 and 3 does not pass its limit; sums and digests cover it; iter_extra follows read; both path functions agree and yield names; the comment is the first; dates are exact |
| `header_filename_dots` | the same | violation, see 5 |
| `extract` | four archives with unsupported, empty and malformed files, and files cut off, a stored and a compressed one | every file is offered; the loop ends |

**Bounds.** The window of 4 bytes with copies of up to 6 makes copies wrap and
overlap, be interrupted more than once and end exactly at a buffer's end; five
new bytes overwrite the whole window. Eleven counts on four leaves let one leaf
outweigh all others, which is where the rebuild has its boundary case, and
rebuild more than once. The tapes are short but every byte answers; a session
can reopen a stream where it was left. An index range of 17 makes every error of
`build_tree` reachable. Words of two bytes and streams of up to four make the end
mark take every position, requests span two refills and end in a short one. Two
flags in a byte let calls end before, between and after them.

In the run `header` a byte has 32 values because the smallest header of level 0
needs a first byte of 22: the fixed fields keep their real sizes and only the
range of the lengths shrinks. The lengths are chosen around the boundaries:
too short, just an identifier, names, sizes, dates, one whose low bytes are
zero (so that clearing a CRC-16 that overlaps it changes nothing), and two that make the
sums of 32 bits wrap around. Two extra headers are enough for a second common
header, for a name before and after a path, and for a short common header
followed by another. Ticks, seconds and 2^32 are scaled with 2^32 at least
three times the nanoseconds of a second kept, which is what makes negative
remainders recognisable.

**Fairness.** The code is sequential: while a call has a step to take it takes
it. `LoopSpec` and `BlockSpec` therefore assume weak fairness of the whole
next-state relation, and nothing about which of the alternatives (data read,
errors) happens. The liveness results rest on progress the model makes
explicit: the bytes left in a file, the archive's end, the number of blocks.

**Symmetry** is not used: byte values appear as prefill, and positions are
ordered.

Deadlock is checked in all runs; where a caller may really stop (`Ended`) the
model stutters there.

## 4. Proofs

`LzDecoderProofs` proves, for every window size, prefill, set of addresses and
counts and sequence of buffers, that `LzDecoder` satisfies the invariants of
`lz5` and `lhv2` that are defined there, that a copy fills the caller's buffer and
stops at its end (`CopyStaysInBuffer`), and that it implements `LzHistory`.

* The mask is arithmetic modulo N. `MaskOneRound` and `MaskSteps` handle indices
  below 2N and suffice for `push`; `MaskShift`, `MaskAdd` and `MaskSub` are the
  congruences that the distances of the refinement need.
* `PushShifts` is the heart of `WindowIsHistory`: a push makes the new byte the
  newest and every other one place older.
* `IndInv` is the conjunction of the checked invariants with `BufferIsFresh`
  (a call starts with nothing written; otherwise `DeliveredIsDecoded` does not
  survive `FillBuffer`) and `ResumeFits` (the bound on the saved position, said
  of the copy in progress; otherwise it does not survive `CopyEnd`).
* The refinement needs `ResumePointsOn` as well: the address that will be saved
  names the byte that the copy loop will have reached. `DistanceStep` says that
  cursor and iterator move together, `CopySource` that the byte under the
  iterator is the one that its distance names in the history.

The assumptions are those of the modules: `N` positive, addresses natural
numbers (indices of the window when they are positions), counts positive.

`ArchiveReaderProofs` proves the invariants of the run `archive` for every set
of streams, every contents, every width of usize, with and without I/O errors, and
that Ok(0) means the end of the file (`ZeroMeansEndOfFile`) if `FilesFitUsize`,
without which it is false (see 5).

* `HeaderReadOutcome` and `FillOutcome` say all that the argument uses of the
  parser and the decoders: they stay inside the stream, take off the limit no
  more than they took from the stream, and succeed only with a full buffer.
* `Session` is the part of the inductive invariant about the session itself,
  `Returned` and `NextFilePassesData` the part about the call that just ended.
  `LimitReachesDataEnd` gives the exact skip: `DiscardReachesEnd`.
* The checksum properties are not inductive: they speak of whole files.
  `DigestIsDelivered` (what is digested is what is handed out) and
  `DigestIsPrefix` (without a failed read, what is digested is the file's first
  bytes and the decoder stands behind them) are; `NumbersGrow` is their step.
* `SessionBegins` and `SessionStops` are the two ways in which operations replace
  the session's state; every operation but `read` is one of them.

`ExtractLoopProofs` proves `OffersEveryFile` on top of that, for every archive,
buffer and choice of files, on streams that do not fail (`~IoErrors`, as in the
run: after an I/O error it is false, see 5). Files cut off are included, also in
the middle of a copy of lz5, where bytes are used and not counted (`CutShort`).

* `Contents` is a recursive function. That it exists and satisfies its equation
  is `FilesFromIsTable`: there is no last byte from which no table can be given
  (`Smallest`), because a table looks ahead only (a header is not empty).
* `LoopInv`: the files offered so far followed by the table from the end of the
  current file's data are the table of the archive. It needs to know that
  `next_file` will look there: either no failed read moved the stream (`slip` is
  0), or the data does not end inside the stream, which is where a read
  can fail to lower the limit without an I/O error (`FillWithoutErrors`): then no
  header follows.

`MethodProofs` proves `TreesAreSane` for callers that stop at the first error
(`~Retry`; with retries it is false, see 5) and `CommandsFollowFlags` for bytes
of eight flags (`FlagBits = 8`: the end mark is 2^8, and the provers know the
powers of literal exponents only). Both components restrict `LzDecoder`, so that
its refinement of `LzHistory` carries over.

* `BlockInv` is `TreesInPlace` (while commands remain, both trees are of the
  current block and whole) as long as nothing failed, and that nothing runs after
  a failure; `TreesAreSane` alone does not say what happens between two commands.
* `Lz5Inv` relates the flags of the data to the chain of halvings of the local
  bitmap down to the end mark: `CommandsFollowFlags` speaks of the commands only,
  not of the flags that are still to come.

`HuffTreeProofs` proves all invariants of `HuffTree` for every table of lengths
and every largest index: reading stays in the array (`StaysInTree`), the bits that
lead to a value are its canonical code (`ReadsCanonicalCodes`), and `build_tree`
accepts exactly the complete codes, if it returns, and panics for no table without
a length of 255 (`BuildAcceptsCompleteCodes`). `TypeOK` says that the indices of
nodes fit an entry and that no level past 255 is ever filled.

* The inductive invariant `TreeInv` says that there is a depth for every node
  that some branch promises (`Depths`): the root has depth 0, the children of a
  branch are one deeper, leaves have the depth of their length, and the nodes of
  the level being filled are those promised and not yet there. Nothing weaker
  tells that a build which succeeds has no promise left.
* The code's loop over the values of one length is `Values`, the members of a set
  in order; `Least` and `BeforeSteps` give its properties.
* `CodesInv` adds that every node has a path from the root, a number of as many
  bits as the node is deep: at the level being filled these paths are numbered in
  a row, behind the codes of the leaves above (`RoomTaken`); a leaf's path is the
  canonical code of its value (`CodeSplits`: what the shorter codes take, then
  the smaller values of the same length).
* `CountInv` counts the nodes that are promised and missing: two to the level, less
  the room that the shorter codes take, and relates the length of the tree to the
  leaves placed. The checks of a level then compare Kraft's sum so far with one.
  That none of them is too strict is `CompleteBelow`: on the way to a complete code
  there is always room, with two leaves to come for each free node, so that the
  index range suffices.
* The sums and powers of the reference definitions are recursive functions; that
  they exist and satisfy their equations is `SumAdds` and `Powers`. Induction is
  by the least number for which a statement fails, as a member of a set.

`DynTreeProofs` proves the seven invariants of `DynTree` for every number of leaves
from two on and every limit above it (`ReorderLimit > NumLeaves`, 32768 and 314 in
the code: a rebuild halves the frequencies rounding up, which leaves the root at
no more than half of the limit and the number of leaves together).

* The invariant is `Sound`. Between the calls, and in the middle of a walk at
  node `cur`, the tree is whole (`TreeOK`): `Linked`, `Falling`, `Grouped`,
  `Allotted` and `Summed` are the parts that the properties name, `Summed` with
  the root ahead and `cur` behind by one. The parts are stated about functions
  (frequencies, entries, parents, groups) instead of about the array of records,
  and a lemma for each says what a promotion and a count do to it.
* The properties alone are not inductive. That no frequency passes the limit
  after a rebuild needs to know that the leaves together count no more than the
  root: `Weighed` counts them as a set of tokens, one for each time a value was
  counted, since a sum over the leaves would have to be defined by recursion.
  `HalvesFit` shows that halving brings them below the limit.
* In the middle of rebuild_tree the nodes from `target` on are built
  (`RebuildOK`, `Built`): with m branches and w leaves to place, w is at most m
  (or nothing was placed yet), the placed nodes are in order and none is more
  frequent than a waiting leaf, the nodes without parents and the waiting leaves
  make up the whole. `StepNeeds` and `MoreExists` show that the loop finds the
  leaves it takes.
* The new tree (`InitTree`) comes from a recursive function; `FreshExists` shows
  that there is one that satisfies its equation, and `FreshRoot` that the root
  counts every leaf.
* `CodesAreOptimal` follows from `Sound` between two entries. `Cut` at m is the
  forest that is left of the tree when the siblings behind m are joined: at the end
  of the array it is the leaves, at its beginning the root. `CutStep` shows that the
  last two nodes of a cut are its rarest, because frequencies fall and siblings are
  neighbours, and that their parent takes their place, so that Huffman's step
  (`JoinRarest`, which knows only how many trees of each frequency there are) leads
  from one cut to the next (`JoinsSiblings`). It costs as much as the leaves get
  nearer to the roots of the forest (`PathJoins`), all in all the weighted path
  length of the tree (`HuffmanJoins`). That Huffman's code is the shortest of all is
  taken as the definition of optimal.

`BitStreamProofs` proves `BufferIsWhatIsLeft`, `AnswersAreNextBits` and
`EofOnlyAtEnd` for every number of bits in a byte, bytes in a word and stream.

* `Marked(v, k)` says that the last one of a word is at position k; `LastOne`
  finds it, and the lemmas about `Shl`, `Shr`, `Or`, `ClearLastOne` and
  `Refilled` say where it goes. `MergeBits` is the word that a request puts
  together from buffered and new bits.
* `BitInv` adds to the properties that without a failed request all that was
  read was taken (otherwise the end of the stream might be met early), and that
  what was taken is the stream's beginning unless bytes were lost.

`HeaderProofs` proves `EndsWhereLengthsSay`, `LongLengthIsLimit`,
`ChecksumsCoverHeader`, `IterFollowsParser`, `DateIsExact`, `PathsAgree` and `ComponentsAreNames` for every
stream, width of usize, text, number and lengths of extra headers. The assumptions
are those of the modules: a byte has at least three values, the widths are as the
code relates them, the instants fit the types that hold them.

* `ParserInv` keeps, field by field, how far the stream was consumed, how many
  bytes went into the sum and the digest, and that the extra headers form a chain
  whose lengths add up to what was counted; the properties only speak of the end.
* `WalkFollows` says that the walk of `iter_extra` is at the beginning of an
  extra header of that chain, although the CRC-16 was cleared inside it.
* `PathInv` relates the two paths while they are put together: both are empty, or
  the text split at its separators is the sequence of components (`Joined`), and
  the components are names (`NameSet`) in printed characters. `PushJoined` shows
  that a name without a separator is added to both alike. The loops over
  characters and parts are recursive functions; that they exist and what one more
  turn does to them is `SplitAppend`, `AddPartsAppend` and `AddPartsToStrAppend`,
  and `SeqInduction` is the induction over texts and parts, with a set of
  sequences in place of a predicate.
* `DataSizeIsNatural` is a by-product: the size of the data in level 1 does not
  underflow (`NoUnderflow`).
* `DateIsExact` says what is answered and what may be refused: seconds since 1970
  never, MS-DOS words only if they are no date (`DatesAreAnswered`), a FILETIME if
  it is out of range or a fraction of a second before 1970 (see 5).

Only model-checked:

* liveness (`LoopEnds`, `CallEnds`), which the prover does not handle;
* `CommentIsFirst`. Every other invariant that a passing run checks is also stated
  by a theorem.

## 5. Where the code and its documentation disagree

* **Skipping after an I/O error.** `Take` does not reduce its limit by what a
  failed inner read consumed (`stub_io.rs`, 111 and 123). `next_file` then skips
  too much. `NextFilePassesData` states what does hold: never too little, and too
  much by exactly those bytes.
* **Length cut to usize.** On a target with a 32-bit `usize`, `read` answers
  Ok(0) when a multiple of 4 GiB is left (`decode.rs`, 328).
* **Reading on after a failed block.** `begin_new_block` stores
  `remaining_commands` before the trees are read (`lhv2.rs`, 210); a caller that
  reads on after the error gets commands from trees that were not built.
* **Dots in a filename header.** `parse_pathname` promises to strip the components
  `..` and `.` (`header.rs`, 135), but the name in a filename header is pushed as
  it is (`header.rs`, 155). `ComponentsAreNames` states what holds: no separator,
  no control character, and no dots from any other header.

Others have no run of their own, and are stated in the properties:

* **Size of a table.** `build_tree` promises an error for a table with
  `MAX_INDEX / 2` entries or more (`statictree.rs`, 86), but refuses only more than
  that (`statictree.rs`, 92). `huff` has tables of just that size (eight lengths):
  `BuildAcceptsCompleteCodes` takes the check as it is in the code, and
  `StaysInTree` shows that the size it lets through is harmless.
* **Lengths of 255.** `1u8..` computes the length after the one it gives out
  (`statictree.rs`, 101). In a build with overflow checks that panics when it gives
  out 255, where an error is promised for a table that is no code
  (`statictree.rs`, 84). A table such as 1, 1, 255 comes to that, and
  `read_code_length` admits it (`lhv2.rs`, 76). `BuildAcceptsCompleteCodes` says
  that it takes a length of 255.
* **Length of level 3 headers.** `read` "validates all length and checksum
  fields" (`parser.rs`, 157), but after the loop only level 2 is rejected when
  the length of the whole header is not what was read (`parser.rs`, 338), so that
  a header of level 3 can end before its length. `EndsWhereLengthsSay` is therefore
  about levels 0 to 2; `LongLengthIsLimit` states what does hold: it cannot exceed
  its length by more than two bytes.
* **Level 3 headers of length 0.** The sum of 32 bits that the length is compared
  with can wrap around to 0 (`parser.rs`, 265), for a first extra header of
  2^32 - 32 bytes, and then a length of 0 passes. It limits nothing, and
  `LongLengthIsLimit` leaves it out.
* **Fractions of a second before 1970.** `parse_win_filetime` answers None for
  them, or panics in builds with overflow checks (`header.rs`, 285).
  `DateIsExact` says that no other date is refused and none is changed.

## 6. Not modelled, and the plan

Not modelled: the coding of commands in lzs and lh1 (with lh1's table of offset
codes) and the code-length tables of lhv2, where the models choose freely; the
CRC-16 table; the tables of compression methods, systems and attributes; the
slice reader of `no_std` builds. Formatting and the conversions of `chrono`
beyond the ranges they accept are left out for good.

`ArchiveReader` keeps its tape in place of `HeaderParser`: a session only
depends on where a header ends and which sizes it gives, which is what
`EndsWhereLengthsSay`, `LongLengthIsLimit` and `ReadFails` say about the parser.

Next: lhv2's tables of code lengths between `BitStream` and `HuffTree`, and lh1's
offset codes.
