------------------------------- MODULE Merge -------------------------------
(***************************************************************************)
(* The merge program, one iteration of the loop: for every chunk, two      *)
(* streams of runs are decoded and walked together into triples, the       *)
(* chunks' triples are merged by a heap, and each triple's rank is written *)
(* back once its successor is known, over the nexts buffer of its chunk.   *)
(*                                                                         *)
(* currents and nexts are the logical runs of the chunks' input files.     *)
(* What init, update and refine leave for an iteration is Mergeable, as    *)
(* RankLoop shows; merge is given streams that are, and no more is known.  *)
(***************************************************************************)
EXTENDS RankRunBuffers, RunEncoding, RunStreams, MergeHeap

CONSTANTS
  Inputs,           \* pairs of the currents and the nexts of an iteration
  CurCapacities     \* cur_capacity

ASSUME InputsAssumption == \A input \in Inputs : Mergeable(input.currents, input.nexts)
ASSUME CapacitiesAssumption == CurCapacities \subseteq Nat \ {0}

VARIABLES
  currents, nexts,  \* chunk -> the runs of currents_<id> and nexts_<id>
  resolved,         \* chunk -> the records global_<id> is to hold in the end
  buffers,          \* chunk -> its two buffers and its cursor
  heap,
  last,             \* last_transferred, or None
  updated_rank, pair_count,
  pc,               \* setup, fill, merge; done or failed
  chunk             \* the next chunk to take its first triple from

inputs == <<currents, nexts, resolved>>
vars == <<inputs, buffers, heap, last, updated_rank, pair_count, pc, chunk>>

AllChunks == DOMAIN nexts

TotalChunks == Cardinality(AllChunks)

None == [chunk |-> -1]

-----------------------------------------------------------------------------
(* setup: all buffers empty, at the start of their files.                  *)
Init ==
  \E input \in Inputs, n \in CurCapacities :
    /\ currents = input.currents
    /\ nexts = input.nexts
    /\ buffers = [c \in AllChunks |->
         [nexts |-> Opened(Encoded(nexts[c]), 2 * n),
          currents |-> Opened(Encoded(currents[c]), n),
          cursor |-> [cur_rank |-> 0, cur_rem |-> 0, next_rank |-> 0, next_rem |-> 0]]]
    /\ resolved = [c \in AllChunks |->
         Encoded(Resolved([d \in AllChunks |-> Triples(currents[d], nexts[d])])[c])]
    /\ heap = <<>> /\ last = None
    /\ updated_rank = 0 /\ pair_count = 0
    /\ pc = "setup" /\ chunk = 0

-----------------------------------------------------------------------------
(* decode_rankrun on a buffer: the buffer after it and, if it found one,   *)
(* the run.                                                                *)
Decode(b) ==
  LET first == Ready(b)
      second == Ready(Taken(first))
  IN  IF Drained(first)
      THEN [result |-> "EMPTY", buffer |-> first]
      ELSE IF Record(first).count # COUNT_ESCAPE
      THEN [result |-> "SUCCESS", buffer |-> Taken(first), run |-> Record(first)]
      ELSE IF Drained(second)
      THEN [result |-> "FAILURE", buffer |-> second]
      ELSE [result |-> "SUCCESS", buffer |-> Taken(second),
            run |-> [rank |-> Record(first).rank, count |-> Record(second).rank]]

(* What is left of a run that a cursor has started on, or the next run.    *)
Advance(b, rank, rem) ==
  IF rem # 0 THEN [result |-> "SUCCESS", buffer |-> b, run |-> [rank |-> rank, count |-> rem]]
  ELSE Decode(b)

(* The cursor after a triple of so many entries.                           *)
Rest(taken, c, n) ==
  [cur_rank |-> c.rank, cur_rem |-> c.count - taken,
   next_rank |-> n.rank, next_rem |-> n.count - taken]

(* next_triplet and get_next_run: the chunk's next triple.  The nexts run  *)
(* is decoded first, so a chunk without nexts is left alone.               *)
NextTriplet(b, c) ==
  LET n == Advance(b.nexts, b.cursor.next_rank, b.cursor.next_rem)
      m == Advance(b.currents, b.cursor.cur_rank, b.cursor.cur_rem)
      taken == IF m.run.count < n.run.count THEN m.run.count ELSE n.run.count
  IN  IF n.result # "SUCCESS"
      THEN [result |-> n.result, buffers |-> [b EXCEPT !.nexts = n.buffer]]
      ELSE IF m.result # "SUCCESS"
      THEN [result |-> "FAILURE", buffers |-> b]
      ELSE [result |-> "SUCCESS",
            buffers |-> [nexts |-> n.buffer, currents |-> m.buffer,
                         cursor |-> Rest(taken, m.run, n.run)],
            element |-> [current |-> m.run.rank, next |-> n.run.rank,
                         count |-> taken, chunk |-> c]]

(* setup's streams get their first records: init_merge's first loop.       *)
FillBuffers ==
  /\ pc = "setup"
  /\ buffers' = [c \in AllChunks |->
       [buffers[c] EXCEPT !.nexts = Refill(@), !.currents = Refill(@)]]
  /\ pc' = "fill"
  /\ UNCHANGED <<inputs, heap, last, updated_rank, pair_count, chunk>>

(* init_merge's second loop: the chunk's first triple goes into the heap.  *)
FillHeap ==
  /\ pc = "fill"
  /\ chunk < TotalChunks
  /\ LET t == NextTriplet(buffers[chunk], chunk)
     IN  /\ buffers' = [buffers EXCEPT ![chunk] = t.buffers]
         /\ IF t.result = "FAILURE" \/ (t.result = "SUCCESS" /\ Len(heap) = TotalChunks)
            THEN pc' = "failed" /\ UNCHANGED <<heap, chunk>>
            ELSE /\ heap' = IF t.result = "SUCCESS" THEN Insert(heap, t.element) ELSE heap
                 /\ chunk' = chunk + 1
                 /\ UNCHANGED pc
  /\ UNCHANGED <<inputs, last, updated_rank, pair_count>>

EndFill ==
  /\ pc = "fill"
  /\ chunk = TotalChunks
  /\ pc' = IF heap = <<>> THEN "failed" ELSE "merge"
  /\ UNCHANGED <<inputs, buffers, heap, last, updated_rank, pair_count, chunk>>

-----------------------------------------------------------------------------
(* write_output: the records of a run, put one by one into a chunk's nexts *)
(* buffer.                                                                 *)
WriteOutput(b, run) ==
  LET records == Encode(run)
      once == PutCurrent(b.nexts, records[1])
  IN  [b EXCEPT !.nexts = IF Len(records) = 1 THEN once ELSE PutCurrent(once, records[2])]

SamePair(a, b) == a.current = b.current /\ a.next = b.next

(* A slip: a triple of one entry resolved although another chunk shares    *)
(* its pair.                                                               *)
ResolvedRun_Local(t, total) == [rank |-> updated_rank, count |-> IF t.count = 1 THEN 0 ELSE t.count]

(* The run for a triple, its pair's entries being counted: a count of 0    *)
(* says that there is only one.                                            *)
ResolvedRun(t, total) == [rank |-> updated_rank, count |-> IF total = 1 THEN 0 ELSE t.count]

(* heap_to_output and the first iteration: the rank of the pair of the     *)
(* triple just popped.  A new group starts at its current rank.            *)
NextRank(smallest) ==
  IF last = None \/ smallest.current # last.current THEN smallest.current
  ELSE IF smallest.next = last.next THEN updated_rank
  ELSE updated_rank + pair_count

PairCount(smallest) ==
  IF last # None /\ SamePair(smallest, last) THEN pair_count + smallest.count ELSE smallest.count

(* heap_to_output: what is written of the triple popped before.            *)
WriteLast(bs, smallest) ==
  IF last = None THEN bs
  ELSE LET run == IF SamePair(smallest, last)
                  THEN [rank |-> updated_rank, count |-> last.count]
                  ELSE ResolvedRun(last, pair_count)
       IN  [bs EXCEPT ![last.chunk] = WriteOutput(@, run)]

(* heap_to_output_last: the last triple of all is written as well.         *)
WriteFinal(bs, smallest) ==
  LET single == smallest.count = 1 /\ ~ (last # None /\ SamePair(smallest, last))
      run == [rank |-> updated_rank', count |-> IF single THEN 0 ELSE smallest.count]
  IN  [bs EXCEPT ![smallest.chunk] = WriteOutput(@, run)]

(* One turn of merge_runs's loop: the smallest triple is popped, the next  *)
(* one of its chunk takes its place, and the one popped before is written. *)
MergeStep ==
  /\ pc = "merge"
  /\ heap # <<>>
  /\ LET smallest == heap[1]
         t == NextTriplet(buffers[smallest.chunk], smallest.chunk)
         read == [buffers EXCEPT ![smallest.chunk] = t.buffers]
     IN  IF t.result = "FAILURE"
         THEN pc' = "failed" /\ buffers' = read
              /\ UNCHANGED <<heap, last, updated_rank, pair_count>>
         ELSE /\ heap' = IF t.result = "SUCCESS" THEN ReplaceTop(heap, t.element) ELSE PopTop(heap)
              /\ updated_rank' = NextRank(smallest)
              /\ pair_count' = PairCount(smallest)
              /\ buffers' = IF heap' = <<>> THEN WriteFinal(WriteLast(read, smallest), smallest)
                            ELSE WriteLast(read, smallest)
              /\ last' = smallest
              /\ UNCHANGED pc
  /\ UNCHANGED <<inputs, chunk>>

(* merge_runs's last loop.                                                 *)
FlushAll ==
  /\ pc = "merge"
  /\ heap = <<>>
  /\ buffers' = [c \in AllChunks |-> [buffers[c] EXCEPT !.nexts = Flushed(@)]]
  /\ pc' = "done"
  /\ UNCHANGED <<inputs, heap, last, updated_rank, pair_count, chunk>>

(* The program has ended.  Anywhere else, having no step is a deadlock.    *)
Ended == pc \in {"done", "failed"} /\ UNCHANGED vars

Next == FillBuffers \/ FillHeap \/ EndFill \/ MergeStep \/ FlushAll \/ Ended

Spec == Init /\ [][Next]_vars

-----------------------------------------------------------------------------
IsElement(t) == t.current \in Nat /\ t.next \in Nat /\ t.count \in Nat \ {0} /\ t.chunk \in AllChunks

TypeOK ==
  /\ \A c \in AllChunks :
       /\ buffers[c].nexts.pos \in -1 .. buffers[c].nexts.len
       /\ buffers[c].nexts.out_pos \in 0 .. buffers[c].nexts.capacity
       /\ buffers[c].currents.pos \in -1 .. buffers[c].currents.len
       /\ buffers[c].currents.out_pos = 0
       /\ buffers[c].cursor.cur_rem \in Nat /\ buffers[c].cursor.next_rem \in Nat
  /\ \A t \in Range(heap) : IsElement(t)
  /\ last = None \/ IsElement(last)
  /\ updated_rank \in Nat /\ pair_count \in Nat
  /\ pc \in {"setup", "fill", "merge", "done", "failed"}
  /\ chunk \in 0 .. TotalChunks

(* No stream ends inside an escape pair, currents cover nexts, and the heap*)
(* neither overflows nor starts empty: merge never reports a failure.      *)
NeverFails == pc # "failed"

(* The array is a heap and holds at most one triple of a chunk.            *)
HeapIsSound ==
  /\ IsHeap(heap)
  /\ \A i, j \in DOMAIN heap : heap[i].chunk = heap[j].chunk => i = j

(* The triples leave the heap in the order of the whole text, whatever     *)
(* chunk they come from: the counts of a pair and of a group are complete  *)
(* when the next one starts.  Every turn of the loop moves on to a larger  *)
(* one, so the loop ends.                                                  *)
PopsInOrder ==
  [][pc = "merge" /\ pc' = "merge" /\ last # None =>
      \/ last.current < last'.current
      \/ last.current = last'.current /\ last.next < last'.next
      \/ SamePair(last, last') /\ last.chunk < last'.chunk]_vars

Written(c) == buffers[c].nexts.out \o Overlay(buffers[c].nexts)

(* Whatever has been written of a chunk's output, on disk or still over    *)
(* its nexts buffer, is the start of the right one: no record is written   *)
(* before its rank is known, twice or over an unread one.                  *)
WrittenIsResolved ==
  \A c \in AllChunks : IsPrefix(Written(c), resolved[c])

(* When merge is done every chunk's global file is complete: update finds  *)
(* a run for every entry.                                                  *)
DoneIsComplete ==
  pc = "done" =>
    \A c \in AllChunks : buffers[c].nexts.out = resolved[c]
=============================================================================
