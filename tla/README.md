# SUFFIX_RANK in TLA+

SUFFIX_RANK builds the suffix array of one file that is larger than memory. It
ranks every position by its first *k* bytes, sorts every chunk of the text
locally, and then doubles the length of the prefixes that the ranks stand for
until no two positions tie. Six sequential programs, run by a shell script,
exchange everything through files. The modules here model these programs, the
loop and the script, check them with TLC and prove the central facts with
TLAPS. Paths below are relative to `src/src/`.

Nothing in this system runs concurrently. What is hard about it:

* state is spread over five files per chunk and a file of windows, written by one
  program and read by another, in part an iteration later, so that streams which
  must describe the same entries are produced far apart;
* positions are dropped, windows tightened and whole chunks skipped, for speed,
  and each of these is right only because of a fact about the whole text;
* merge writes its output into the buffer it still reads its input from;
* the ends of things: the end of the text inside a window, files whose length is
  a multiple of a buffer, counts of exactly 255, chunks smaller than a buffer;
* the script takes every status other than 0, 1 and 2 for success, except
  verify's, so that after a program was killed the next one meets files that no
  run without faults would leave.

## Inventory

| component | code | state it keeps | operations | what makes it correct |
|---|---|---|---|---|
| Driver | `suffixrank.sh` | `L`, `MORE_RUNS`, the directories | runs the programs, doubles `L`, ends on EMPTY | ends, and only when the ranks are final |
| init, k-mer ranks | `init.cpp:75-371` | rolling key, histogram | choose *k*, pass B, pass C | ranks are the ranks of *k*-prefixes |
| init, local sort | `init.cpp:374-541`, `srank.hpp`, `bitvector.hpp` | chunk, next chunk, gt bits | Z transform, divsufsort, seeds `sa`, `currents`, `bounds` | `sa_<id>` is in the order of the *text's* suffixes |
| refine | `refine.cpp` | `next_ranks_buffer`, run buffer | read the window's next ranks, scan `sa_<id>` into `nexts_<id>` | runs describe the suffix array; EMPTY is told truly |
| merge | `merge.c`, `merge.h` | two buffers and a cursor per chunk, heap, last triple, rank, pair count | refill, decode, joint walk, pop, resolve, write over the nexts buffer, flush | output is the new rank of every run; nothing unread is overwritten |
| update | `update.c` | window, suffix array, streams | apply ranks, compact, write the window back, tighten it, emit `currents_<id>` | files fit one another in the next iteration |
| run records | `algorithm.h` | — | `rankrun_emit`, `next_rank_loc` | an escape pair fits; refine and update agree on EMPTY |
| create_pairs, invert | `create_pairs.c`, `invert.c` | bucket starts, pair files | route by rank, invert | output is the inverse permutation of the ranks |
| verify | `verify.c`, `input_stream.c` | partition files, seen bits, carry | partition, counting sort, neighbour check | accepts only the suffix array |
| utilities | `utils.c`, `utils.h` | `bounds` file | I/O wrappers, parsing, `bounds_load/store` | — |

How they interact: init writes `ranks_<id>`, `sa_<id>`, `currents_<id>`, `bounds`
and `kmer_length`. In an iteration refine reads `ranks`, `sa`, `bounds` and
writes `nexts_<id>`; merge reads `nexts` and `currents` of all chunks and writes
`global_<id>`; update reads `global` and rewrites `ranks`, `sa`, `currents` and
`bounds`. The script wipes `tmp` (`nexts`, `global`) before each refine, doubles
`L` after each iteration, and leaves the loop when refine returns EMPTY. Then
create_pairs and invert turn ranks into the suffix array and verify may check it.

The hazards, each at its line and with the properties that watch it, are listed
in `PROJECT.json`.

## Modules

| module | models | correspondence to the code |
|---|---|---|
| `SuffixText` | text, prefixes, chunks | reference orders `PrefixLess`, `SuffixLess`, `PrefixRank`, `SuffixRank`; `next_rank_loc`'s `is_empty` as `PastTextEnd` |
| `PrefixDoubling` | the loop's promise | one action per iteration, on a rank per position; abstract specification for `RankLoop` |
| `RunStreams` | streams of (rank, count) runs | run-length encoding as `Runs`, the entries a stream covers as `Slots`, the joint walk as `Triples`, merge's result as `Resolved`: `RunOf` of each triple; what merge makes of streams in any order as `MergedInTurn` |
| `RankLoop` | refine, update and the script on their files | one variable per kind of file, one action per chunk; merge is one step. Refines `PrefixDoubling` |
| `RankRunBuffers` | one buffer of merge | fields named as in `Manager`; `Refill`, `Ready`/`Taken` (`get_phys_rankrun`), `PutCurrent`, `Flushed` |
| `NextsOverlay` | the nexts buffer used in every possible order | reads and writes interleaved freely: more than merge does |
| `MergeHeap` | the binary heap | `Insert`, `ReplaceTop`, `PopTop` on a sequence |
| `RunEncoding` | the escape pair | `rankrun_emit`, `write_output` |
| `Merge` | the merge program | `FillBuffers`, `FillHeap`, `EndFill` (`init_merge`), `MergeStep` (one turn of `merge_runs`), `FlushAll` |
| `RunWriter` | buffered emission of runs in init, update and refine | `LeastCapacity` 2 is init and update, 0 is refine |
| `KmerRanks` | init's passes 1, B and C | one symbol fed to the window (`kwin_feed`) is one step; `Scan`, `GrowK`/`EndSearch` (the search for *k*), `CountKmer`, `RankKmer`, the chunk files being cut as they fill |
| `LocalSort` | init's pass 3 and `srank.hpp` | one action per stage of a chunk, from the last chunk to the first; one turn of the matcher's loop is one step of `CompareWithNext` (`compute_gt_eof_bv`) or `CompareWithHead` (`compute_new_gt_head_bv`); `Transform`, `Sort` |
| `MemoryBudget` | sizes of buffers | from a limit through script, `parse_chunk_size` and the open-file limit to merge's `setup`, `int` arithmetic with a width |
| `Inversion` | create_pairs and invert | operators on one chunk: `PairsSlice`, `Placed`, `WrittenChunk` |
| `VerifyFiles` | verify's arithmetic | operators on one chunk (`PartitionFails`, `VerifyRecord`, `VerifyRecords`, `Fits`, `InOrder`) and the verdict on all (`Accepts`) |
| `Verify` | the verify program | `Partition` per ranks file, `EndPartition`, `Check` per suffix array file |
| `Pipeline` | the script from init's files to its exit code | `RankLoop`'s actions, merge on whatever streams there are, create_pairs, invert, verify, and the ways in which each may be killed |
| `RunStreamTheorems` | lemmas | prefix orders, doubling, ranks, positions by chunk; streams of runs of every length; merge's order on streams; inversion |
| `PrefixDoublingProofs`, `RankLoopProofs`, `MergeProofs`, `NextsOverlayProofs`, `VerifyProofs`, `RunWriterProofs`, `KmerRanksProofs` | theorems | see below |
| `MC*` | instances for TLC | |

How the pieces meet. `PrefixDoubling` says what an iteration does to the ranks of
the text. `RankLoop` reaches the same ranks through files: `rank` is refined to
the `ranks` files, `live` to the `sa` files, and chunks that update has not yet
come to show what it is about to write (`Pending`). `RankLoop` takes merge as one
step whose result is `Resolved`. `Merge` starts from any streams that are
`Mergeable` and must write exactly `Encoded(Resolved(...))`, record by record;
that `RankLoop` only ever hands it such streams is a theorem
(`MergeFindsMergeable`).
`NextsOverlay` takes the one delicate object out of `Merge`, the shared buffer,
and lets reads and writes come in any order, so that what is proved about it
holds for whatever merge does with it. In front of the loop, `KmerRanks` ends with
`ranks` files that hold `PrefixRank(Text, k, _)`, and `LocalSort`, given these and
the chunks of bytes, ends in a state that satisfies `RankLoop!Init` (`HandsOver`,
an `INSTANCE RankLoop`): the loop's initial state is what init writes, not a
convention. Behind the loop, `Pipeline` extends `RankLoop`, `Inversion` and
`VerifyFiles`. `Verify` goes through the files as the program does and must come to
the verdict of `Accepts`, which `Pipeline` takes as one step.

Abstractions. A text is a sequence of natural numbers: only the order of bytes
matters in the loop. `int40` is a natural number (a rank is less than 2^40 by the
size of the input). Files are sequences of logical runs in `RankLoop` and of
records in `Merge`, `NextsOverlay` and `RunWriter`. I/O errors end a program at
once (`exit(1)`) and are left out. divsufsort is a library and is modelled
by what it promises, the order of a string's suffixes. An empty input is excluded by
assumption from everything behind `KmerRanks`, because init does not get past it.
update's copy of `bounds` and the file are one variable; its write at the end of
the program (`update.c:206`) cannot be told from one per chunk while programs are
not killed; `Pipeline`, where they are, keeps the file apart (`stored_bounds`).
`KmerRanks` leaves out the blocks in which input is read and `Verify` the batches
of its readers, which leave no trace in the result.

A kill in `Pipeline` leaves closed files whole, a first part of each stream being
written, and the old file, or none, where the program had not come to it. Two
assumptions keep the choices few: what update writes of one chunk fits stdio's
buffers, so that a file it has not closed is empty (or, for `ranks`, as it was),
and `bounds`, written last by init, makes a killed init show up in refine, so that
init is left out. A merge that is killed may not have come to the place where the streams
of a chunk disagree: it leaves what it has written by then (`ComesToWrite`), update goes on
to the chunk that this is too short for, and fails there if it is not killed before.
`LosePairs` is not a kill: create_pairs ignores what `fwrite`
returns (`create_pairs.c:46`). After a lost iteration the streams of a chunk need
not be in order and `Resolved`, which groups equal triples wherever they are, would
be kinder than the program: `Pipeline` therefore has `MergedInTurn`, which pops the
smallest head (`PopOrder`) and compares it with the triple before it alone; the
program's two running counters are counts over the triples popped since the group and
since the pair began. On streams in order it writes what `Resolved` says, which is proved
(`MergedInOrder`).

The streams `Merge` may be given are a constant, `Inputs`, of which the module
assumes no more than `Mergeable`: no run is empty, there is a current rank for every
next one, the triples of a chunk come in the order in which merge takes them, and
some chunk has one. For TLC, `MCMerge` derives
them from a text: `Live` says which positions earlier iterations have left
(`DroppedAreUnique` and its converse) and `NextRankRead` which next ranks refine
reads, leftovers included, in the iteration that follows 0, 1 or 2 others.

## Runs

| run | question | bounds |
|---|---|---|
| `prefix_doubling` | does skipping chunks and dropping positions leave the ranks right, and does the loop end? | all texts of 1 to 6 symbols over 2 letters, chunk sizes 1, 2, 3, 4, 7, starting prefix lengths 1, 2, 3 |
| `rank_loop` | do the files implement prefix doubling? | all texts of 1 to 5 symbols, chunk sizes 1 to 4, *k* as init chooses it |
| `nexts_overlay` | can overlay, refill and flush destroy input or output? | files of 0 to 5 records, capacities 1 to 4, up to 6 writes of two kinds |
| `merge` | does merge write exactly the resolved runs, and never fail or stall? | all texts of 1 to 6 symbols, chunk sizes 1, 2, 3, 4, 7, iterations 0 to 2, currents buffers of 1 to 3 records, `COUNT_ESCAPE` 2 |
| `run_writer` | does every run find room and reach its file? | chunk sizes 1 to 10, every sequence of runs, `COUNT_ESCAPE` 3 |
| `refine_run_room` | does refine leave room for an escape pair? | chunk sizes 1 to 10, `COUNT_ESCAPE` 255: **violated** |
| `kmer_ranks` | are the first ranks those of *k*-prefixes, and do passes B and C cut the same chunks? | inputs of 1 to 4 bytes over 0, 97, 253, 254 and of 8 and 9 bytes over 0 and 253; chunk sizes 1, 2, 3, 4, 9, 16, 27 |
| `kmer_empty` | does the search for *k* end? | the empty input, *k* modulo 128: **violated** |
| `local_sort` | do the gt bits compare the text's suffixes, and is the loop's initial state what init writes? | all texts of 1 to 8 bytes over 1 and 254 with chunk sizes 1 to 5; with chunk size 10, texts of 16 and 20 bytes that are periodic but for one byte |
| `verify` | does verify accept nothing but the suffix array, and that always? | texts of 1 to 3 symbols; every contents of the ranks files (up to 4 ranks in all) and of the suffix array files (up to one entry too many); chunk sizes 1 to 3 |
| `pipeline` | is the exit code true, whatever is killed, and does the script end? | texts of 1 to 4 symbols, chunk sizes 2 and 3, up to 2 faults, with and without `--verify` |
| `merge_budget` | is merge's nexts buffer twice its currents buffer? | `int` of 8 bits, limits from 14 to 4000, pinned chunk sizes from 1 to 128, up to 301 chunks: **violated** |

Why the bounds are enough for the cases that matter. With six symbols and chunk
sizes from 1 to beyond the text there are texts in one chunk and in seven, last
chunks that are full and ones that hold the sentinel alone, prefix lengths that
are less than, a multiple of, coprime to and larger than the chunk size, windows
on both sides of the split, chunks that are skipped, ones that resolve entirely
and ones that never do before the end (texts of one repeated letter need every
iteration). `COUNT_ESCAPE` is lowered to 2 or 3 so that escapes occur in texts
this short; no operator depends on its value except through comparisons. Merge's
capacities of 1 to 3 records, doubled for nexts, make escape pairs straddle
refills and flushes and make the write cursor meet the read cursor. With chunk sizes 9, 16 and 27
*k* is 2 or 3 for two and three byte values, and 8 and 9 symbols then make full
chunks and leave a last one with the sentinel alone. In `local_sort` a match is
skipped along its period when it is three periods long, which chunks of 10 bytes
with periods 1 to 3 reach on both sides of the mismatch; the short texts take the
other branch and up to eight chunks. `verify` meets ranks that are not final, that
occur twice and that are out of range, and suffix array files of any length. Two
faults in `pipeline` are the least with which verify can be killed after an
iteration went wrong. An `int` of 8 bits overflows as one of 32 does; the limits are
on both sides of each clamp.
The proofs
take the places that depend on such bounds most beyond them: prefix doubling, the
loop on its files, merge, the overlay, the verdict of verify, the writing of runs,
the rolling key, and the exit code of the whole script under faults.

Properties, by what they watch:

* *The right result.* `RanksArePrefixRanks`, `FinalRanksAreSuffixRanks`,
  `ImplementsDoubling`, `WrittenIsResolved`, `DoneIsComplete`, `RanksWritten`,
  `HandsOver`.
* *Shortcuts.* `DroppedAreUnique` (dropping), `FinishedAreUnique` (ending on
  EMPTY), `WindowCoversLive` (windows), `CurrentsFollowRanks` (streams written an
  iteration ahead), `TriplesInOrder` and `OrderNeverInverted` (sorting once).
  `TriplesInOrder` includes the stale next ranks: a position whose next rank is
  past the text shares its rank with nobody, so what stands in for it cannot
  disturb the order.
* *Programs that refuse each other's files.* `NeverFails` in `RankLoop` and `Merge`.
* *Buffers.* `ReadsTheFile`, `DrainedAtEnd`, `OutputInOrder`, `RoomForPair`,
  `AllRunsWritten`.
* *The heap.* `HeapIsSound`, `PopsInOrder`.
* *init.* `KeyInHistogram` (the rolling key cannot write past the histogram),
  `ChunksCutAlike` (two passes with separate buffers agree, and no byte wraps),
  `BitsCompareSuffixes` (bits that were copied from elsewhere, and bits of the next
  chunk that stand for all the text behind it).
* *verify.* `AcceptsOnlySuffixArrays` on arbitrary files, `AcceptsRightFiles`.
* *Faults.* `ExitCodeIsTrue`: with `--verify` an exit with 0 means that the output
  is the suffix array, whatever was killed; without, this holds only when nothing
  was; and a run without faults never exits with 1. `Exits`: the script ends all
  the same, because `L` doubles in an iteration that did nothing, too.
* *Progress.* `LoopEnds`, `Terminates`; for merge, deadlock checking (`Ended` is
  the only idle step) and `PopsInOrder`, by which every turn moves on to a larger
  triple, of which there are finitely many.

Each property has a mutant in `PROJECT.json`: a slip of the code (the operators
with a suffix after `_`) with which TLC finds that property violated. The
properties of the runs marked violated are what the code's own comments say.

Fairness. `FairSpec` is weak fairness of the whole next-state relation. The
programs are sequential, started one after the other by the script, and wait for
nothing but the disk: a step that can be taken is taken. No fairness between
actions is assumed. In `Pipeline` the steps of the programs are fair and the faults
are not: a program may be killed, and never has to be. Fairness of merge and of
verify, each one step there, is stated as "the program ends" (`WF_pc`), whatever it
leaves. Deadlock is not checked where a run ends by design
(`finished`, `closed`).

### Findings

*refine's run buffer.* `refine.cpp:148` takes a third of the chunk size as the capacity of its run
buffer, and `refine.cpp:188` allocates as much. `init.cpp:402` and `update.c:181`
raise theirs to two records; refine does not. `algorithm.h:84-85` asks callers of
`rankrun_emit` to have room for two records. With chunk sizes 3 to 5 the room is
one record (harmless, since no count that small escapes), with 1 and 2 it is none
and the record is written past the buffer. The script accepts such sizes
(`suffixrank.sh:81`). `refine_run_room` shows the shortest case.

*The search for k on an empty input.* `init.cpp:318` promises the largest *k* with
B^k entries in the budget. B is one more than the number of distinct bytes, so 1 for
an empty input, and the loop at `init.cpp:323` never leaves. `suffixrank.sh:63` asks
for a regular file, not for one with contents. `kmer_empty` shows the loop.

*The capacity of merge's nexts buffer.* `merge.c:480-481` wants it twice the currents
buffer. Both are `int`, and the budget is a `long` that may be any size
(`utils.c:67-69`): `2 * cur_capacity` overflows when a chunk's share of the budget is
more than 2^30 records of 18 bytes, about 19.3 GB. The negative capacity is
converted to `size_t`, the allocation fails and merge exits with 1. The buffers are
not wrong, there are none. `merge_budget` shows it with an `int` of 8 bits, where the
conversion of the quotient itself may lose bits as well.

Three more things, none of which has a run that is expected to fail:

* without `--verify`, a program killed at the wrong moment leaves a wrong suffix
  array and the script exits with 0 (the antecedent of `ExitCodeIsTrue`);
* verify takes the position of a rank from its file's number and the symbol from how
  many ranks it has read (`verify.c:147`): were a ranks file other than the last not
  full, it could accept a wrong array. No program writes such a file (`Shaped`);
* verify accepts ranks that are no permutation of 0..N-1, such as 0, 2, 3 with chunk
  size 2, as long as they order the positions rightly and the files fit them, although
  its head comment says that it checks for a permutation (`verify.c:13-15`). The array
  is right all the same.

## Proofs

`PrefixDoublingProofs` proves, for every set of texts (the empty one included) and
all positive chunk sizes and starting prefix lengths, which is what the module
assumes of its constants:

* `TypeCorrect`, `RanksExact`, `DropsOnlyUnique`, `StopsOnlyWhenUnique`,
  `FinalRanks`, `OrderKept`.

The inductive invariant `IInv` conjoins the type invariant, "every rank is the
rank of the position's prefix", "every dropped position is unique" and "when the
loop has ended all are unique". `RanksArePrefixRanks` alone is not inductive: an
iteration leaves the ranks of dropped positions as they are, which is right
only because nothing can tie with them any more (`UniqueStays`, `UniqueRank`), and
it leaves skipped chunks alone, which is right only because a position whose next
rank is past the text has the sentinel within its prefix and is unique
(`InactiveAreUnique`, from `SentinelDecides`). For the others `DoubleRank` says
that the rank of a prefix of length 2L is the rank of its first half plus the
number of tied positions with a smaller second half, and `BeforeIsTied` that the
code's group, which holds active positions only, misses none of them.

`RunStreamTheorems` begins with the order lemmas these rest on (least difference,
trichotomy, transitivity, congruence, doubling of equality and order, ranks
decide order), and the arithmetic of chunks and windows: quotient and remainder by
a chunk size, the order of positions in different chunks, the slots of a ring. It
declares no variables, so its facts are about all texts.

`RankLoopProofs` proves, for every set of nonempty texts and all positive chunk
sizes, that the loop on its files implements `PrefixDoubling` (`Implements`), and
with it `TypeCorrect`, `Succeeds`, `CurrentsExact`, `OrderedTriples` and
`WindowWide`. `MergeFindsMergeable` says that whenever the loop has come to merge its
streams are what `Merge` assumes of them, the leftovers that refine reads behind the
end of the text included. The last theorem, `FilesHoldSuffixRanks`, says what it comes to: when
the loop ends, entry *i* of `ranks_<c>` is the rank of the suffix at position
*c* · chunk_size + *i*.

Its inductive invariant `IInv` has five parts, and none of the properties is inductive
without most of them:

* `Shape`, the types;
* `D!IInv`, the invariant of `PrefixDoublingProofs` on the ranks that update has
  written or is about to write (`rank_then`): the streams' contents are right because
  the ranks are, so the refinement cannot be proved after the invariant but is part
  of it;
* `FilesOK`: every suffix array is in the order of the text's suffixes, and the
  window covers it without leaving the chunk. Order is needed to know that entries of
  equal rank and of equal next rank are neighbours, so that refine's and merge's runs
  of them are whole;
* `CurrentOK`, that `currents_<c>` spells out the ranks of `sa_<c>` in rising runs, none of them empty, or,
  where update has yet to come (`Pending`), `MergedOK`, that `global_<c>` covers `sa_<c>`;
* `PassOK`, what refine has left of the chunks it has passed (`RefinedOK`): next ranks
  for the whole suffix array, which are right wherever the text has not ended and may
  be anything elsewhere.

The step that counts is merge's. The triples of a chunk carry its entries, each
once and in order (`TriplesAt`, `Carries`); those of all chunks together stand for the
active positions, once each (`MergeSpread`, `StandsOnce`), although a triple has ranks and a
count and no position. So a sum of counts is a number of positions (`EntriesCount`),
`RunOf` is the rank that `PrefixDoubling` gives, and its count is 0 for exactly the positions
it drops (`Resolves`, `MergeIterates`). An entry whose next rank is stale is alone with its
rank (`TiedEntries`), so that neither order nor counts depend on what it reads. update
then takes the same entries out of the suffix array and of the stream
(`FilterExpand`), and what is left is `CurrentOK` again (`UpdatedFiles`, `MergedChunk`).

`RunStreamTheorems` has the facts on streams this needs, for streams of every length:
`FlattenSeq` puts each part where its stretch is (`FlattenAt`, `FlattenLast`),
`Selected` lists what it selects in order, `Expand` brings back what `Runs` has cut
(`RunsFit`, `ExpandFits`), and `InSuffixOrder` lists every position once
(`SuffixOrderLists`). The induction is over a set of naturals (`Induction`), from the
well-foundedness of their order, because the library's rules take operators.

`MergeProofs` proves, for every number of chunks, all streams that are `Mergeable`
and every capacity of the buffers, that the merge program writes `Resolved`:
`TypeCorrect`, `Succeeds`, `HeapStaysSound`, `WritesTheRanks`, `Completes` and
`InOrder`. None of these is inductive. The invariant (`Inductive`) says that there
are numbers `popped[c]` of triples that have left the heap, such that

* the buffers and the cursor of a chunk stand behind its first `popped[c]` triples,
  or one more while one is in the heap (`Standing`): what they have not
  given yet is the rest of the two streams, which no write has touched;
* what is on disk and written over the nexts buffer is the encoding of the right runs
  for the chunk's triples that were popped, but for the last popped of all, which
  waits for its successor (`ChunkInv`);
* the heap is a heap of the next triple of every chunk that has one (`HeapInv`), so that
  its top is the least of all that are to come;
* the last triple popped is the greatest so far, `updated_rank` is the rank that
  `RunOf` gives it and `pair_count` the number of entries of its pair popped so far
  (`Known`): one triple of lookahead must be enough to tell whether an entry is alone
  with its pair.

The heap's lemmas (`SiftDownSound`, for instance) go down the way on which an element
sinks, given as a function on the indices, so that heaps of every size are covered. What the buffers
keep is taken from `NextsOverlayProofs` (`INSTANCE`), whose interleavings include merge's.

The second half of `RankLoopProofs` goes on to the script's exit code. `ExitCodeTold`
(`ExitCodeIsTrue`) holds for every text and chunk size, however many programs are killed
and writes are lost, a kill leaving the files that `Pipeline` says it leaves (see the two
assumptions above; for verify's verdict they do not matter, since it is proved of any
contents of the files of the suffix array, and of ranks files of the right length): status 0 means that the output is the suffix array if verify was asked
for or nothing went wrong, and a run without faults never ends with 1. The
invariant `PInv` has two halves, for the two ways in which this can be known.

* `Typed` holds whatever was killed: files hold what their types say, in any order and of
  any length. That much is needed to apply to them what `VerifyProofs` proves of verify
  for any contents of the files (`INSTANCE`): what it accepts is the suffix
  array (`AcceptedWhole`). It speaks of ranks files that are full but for the last
  (`Shaped`), and `GivenFiles` shows that these are, since no fault changes the length of a
  ranks file.
* `Undisturbed` holds while there has been no fault. In the loop it is `IInv`: merge in
  turn is the step of `RankLoop` (`MergeAsOne`), since the triples are in order
  (`TriplesRise`). Behind the loop the ranks are final (`RanksFinal`); every pairs file
  holds the pairs of the chunks that create_pairs has passed, chunk by chunk (`PairsReach`,
  from `PairsAppended`); the chunks that invert has passed hold the suffix array's
  (`FinalOutput`, from `BucketInverted`); and verify accepts these files
  (`FinalFilesAccepted`), so that the status is 0.

What makes inversion right is that the ranks are 0 to the text's length, once each: a pairs
file has one pair for every slot, in whatever order the chunks come, and invert's buffer,
of which a slot could be written twice or not at all, is written once in each. What makes
`MergedInOrder` right is that chunks in order leave the heap in order of the pair
(`PopOrder` lists every triple once, none before a smaller one), so that the triples of a
group, and those of a pair, are neighbours.

`NextsOverlayProofs` proves for every capacity, file contents, output and
interleaving: `TypeCorrect`, `OverlayKeepsInput`, `DrainedOnlyAtEnd`,
`OverlayKeepsOutput`. The inductive invariant adds to the properties where the
buffer stands in the file: its unread slots hold the next records of the file,
the file position is the number of records read plus the unread ones (or the end
is met), and output never reaches past the read cursor unless the stream is
drained. `ReadsTheFile` alone says nothing of the slots that are still to be
read, which is what an overlay could destroy.

`VerifyProofs` proves, for all texts, chunk sizes and contents of the files:
`VerifyTypeCorrect` and `AcceptedIsSorted`, which says that what verify accepts is
the suffix array if every ranks file but the last is full (`Shaped`; every program
leaves such files). The inductive invariant `IInv` follows the program: the records
filed are those of the chunks of ranks read so far, each in the bucket its rank
names (`Partitioned`); the buckets checked so far are sorted, each record less than
the next across buckets, the carry is the last of them, and the files name the
records' positions (`CheckedInOrder`). From it the verdict follows in two steps.
Tests of neighbours decide the order of all pairs (`NeighboursDecide`,
`CheckKeepsSorted`). And ranks that order every pair of positions by first symbol
and next rank order their suffixes (`ConsistentRanksOrderSuffixes`): while the
symbols of two positions agree the order of their ranks is passed on to the
positions behind them (`RankOrderPassedOn`), so it cannot contradict the first
difference. That the ranks are a permutation is used nowhere, which is why verify
may go without checking it.

`RightFilesAccepted` (`AcceptsRightFiles`) is the other half, again for all texts,
chunk sizes and contents of the files. Files of final ranks are never rejected
(`RightFilesKept`): they have the shape that the partition expects
(`FinalRanksShape`, `RightRanksPartitioned`), the ranks of suffixes are 0 to the
text's length, once each (`SuffixRankDecides`, `EveryRankTaken`), so the records of a
bucket are those of the file of the suffix array that goes with it, slot by slot
(`FinalChunkPasses`); and of two suffixes the smaller one passes the test of
neighbours (`SmallerSuffixPasses`), the carry included. The verdict is that of
`Accepts`, which looks at the files as a whole and computes symbols read, records and
carries anew from all of them: the invariant `VInv` says of every step how much of
`Accepts` it has settled (`Booked`, `FilesPassed`), and `AcceptsStepwise` that nothing
else is left. This holds for files of any shape. `Pipeline`, which takes verify as the
one test `Accepts`, is justified by it; `AcceptedWhole` and `FinalFilesAccepted` state both
halves for `Accepts` alone, as `RankLoopProofs` uses them.

`RunWriterProofs` proves `EveryRunWritten` for every chunk size, capacity and sequence of
runs: file and buffer together are the encoding of what was emitted (`WrittenInv`),
refine's included, which is short of room and still loses nothing. `WriterTypeCorrect` and
`AlwaysRoomForPair` follow from the assumption that the least capacity is two
records, which is what `init.cpp:402` and `update.c:181` see to and `refine.cpp:148`
does not. `RoomForPair` is inductive only together with the types of the runs and
the fact that a pending run covers entries of the chunk that no run before it did.

`KmerRanksProofs` proves `KeyStaysInHistogram` for every input and chunk size, from the
assumption that every chunk size is less than the number of values of the counter
*k* (`KWrap`): both are `int` and `utils.c:60` rejects larger chunks. With an empty
input the search wraps all the same (see the findings), but never reaches the window. The
invariant (`IInv`) says that the key is the value, in base B, of the codes in the ring
read from the oldest to the newest, each of them less than B. Then the subtraction takes
out exactly the oldest code, and what is left has room for the next.

From there to the files, under the same assumption: `WritesRanks` (`RanksWritten`),
`CutsAlike` (`ChunksCutAlike`) and `TypeCorrect` (`TypeOK`), from the conjunction
`Ranked`, one part for each thing that init keeps. The ring holds the last *k* symbols
fed, zeros before the first and after the last (`HoldsLast`, `FedHolds`), so a key is the
number that the *k* digits from a position on make (`WindowIsKmer`). Two such numbers
compare as their first different digits do (`KmersCompare`), dense codes as the bytes
do, the sentinel's 0 below all (`CodesKeepOrder`): keys order positions as
`PrefixLess` does (`KeysCompare`). The histogram counts the positions with each key
(`KeyedGrows`), its cumulative sum those with a smaller one (`BucketStarts`), and 1 more
for the sentinel makes a rank (`KmerRank`, `StartOfBucket`). A chunk file is a piece of
`chunk_size` values of what was appended, the last one what is left (`AppendedIsCut`,
`ClosedIsClosed`), which gives X and the ranks, both of the text's length and 1, the
same pieces whatever order the two passes close them in. Of *k* nothing is needed but
that it is the *k* of the histogram's size: not that the search found the largest.

Only model-checked: liveness (`LoopEnds`, `Terminates`, `Exits`), which needs fairness
and `ENABLED`; `LocalSort`, so that `RankLoop!Init` is what init leaves is proved as far
as the ranks go and not for the order of the local arrays (its matcher skips along
periods of the text by the theory of maximal suffixes, which would have to be
formalised first); `PTypeOK` of `Pipeline`, which says that ranks stay within the text
after an iteration was lost: the entries that are left would have to be counted, rank by
rank, through every later merge and update. `ExitCodeTold` does without it: `Typed` is the
part of it that the verdict needs.

## Plan

Done: `PrefixDoubling`, `RankLoop` and its refinement, `NextsOverlay`, `Verify`,
`RunWriter`, `KmerRanks`, `Merge`, and `Pipeline` with `Inversion`, with their proofs;
`LocalSort` and `MemoryBudget`. Left, in order of importance:

1. Proofs: that `LocalSort` hands over the order of the text's suffixes.
2. Kills in update at the grain of stdio's buffers, for chunks larger than these.

## Not modelled

Argument parsing, page-cache advice and progress output (`suffixrank.sh:25-115`,
`utils.c`), which decide nothing that the properties are about; the batches in
which verify reads and writes, and files whose size is no whole number of entries;
`tsort` (`utils.c:137-203`), which nothing calls; divsufsort, an external library,
but for its promise; the Makefile.

## Running

In this directory, `tlc -config MCRankLoop.cfg MCRankLoop.tla` and likewise for the
other instances (`RunWriter.tla` is checked with `MCRunWriter.cfg` and
`MCRefineWriter.cfg`, `MCKmerRanks.tla` with `MCKmerEmpty.cfg` too, and
`MemoryBudget.tla` with `MCMemoryBudget.cfg`); `tlapm` proves
`RunStreamTheorems.tla`, `PrefixDoublingProofs.tla`, `RankLoopProofs.tla`, `MergeProofs.tla`,
`NextsOverlayProofs.tla`, `VerifyProofs.tla`, `RunWriterProofs.tla` and
`KmerRanksProofs.tla`. The longest runs take about a minute, the proofs of `RankLoop`
fifteen, the others up to ten.
