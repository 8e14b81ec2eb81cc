----------------------------- MODULE MergeHeap -----------------------------
(***************************************************************************)
(* merge's binary heap: the smallest of the chunks' next triples on top.   *)
(* heap[i] of the code is heap[i + 1] here, current_heap_size is Len(heap).*)
(* An element is a triple with the chunk it comes from.                    *)
(***************************************************************************)
EXTENDS Integers, Sequences

(* A slip: triples that differ in the next rank alone taken in the order   *)
(* of the chunks.                                                          *)
Less_NoNext(a, b) ==
  \/ a.current < b.current
  \/ a.current = b.current /\ a.chunk < b.chunk

(* compare_heap_elements: by current rank, next rank and chunk.            *)
Less(a, b) ==
  \/ a.current < b.current
  \/ a.current = b.current /\ a.next < b.next
  \/ a.current = b.current /\ a.next = b.next /\ a.chunk < b.chunk

(* A slip: only ever the left child looked at.                             *)
SmallerChild_LeftOnly(heap, j) == 2 * j

SmallerChild(heap, j) ==
  IF 2 * j < Len(heap) /\ Less(heap[2 * j + 1], heap[2 * j]) THEN 2 * j + 1 ELSE 2 * j

(* Whether item, to be put in slot j, lets j's smaller child up instead.   *)
Yields(heap, item, j) == 2 * j <= Len(heap) /\ Less(heap[SmallerChild(heap, j)], item)

(* The slots that item comes by from the root down.                        *)
WayDown(heap, item) ==
  LET passed[j \in DOMAIN heap] ==
        \/ j = 1
        \/ /\ passed[j \div 2]
           /\ Yields(heap, item, j \div 2)
           /\ j = SmallerChild(heap, j \div 2)
  IN  passed

(* The root replaced by item: the smaller children on its way move up.     *)
SiftDown(heap, item) ==
  [j \in DOMAIN heap |->
    IF ~ WayDown(heap, item)[j] THEN heap[j]
    ELSE IF Yields(heap, item, j) THEN heap[SmallerChild(heap, j)]
    ELSE item]

(* replace_top_heap_element and pop_top_heap_element.                      *)
ReplaceTop(heap, item) == SiftDown(heap, item)

PopTop(heap) ==
  LET n == Len(heap)
  IN  IF n = 1 THEN <<>> ELSE SiftDown(SubSeq(heap, 1, n - 1), heap[n])

(* The slots that item comes by from the first free one up.                *)
WayUp(heap, item) ==
  LET n == Len(heap) + 1
      passed[j \in 1 .. n] ==
        \/ j = n
        \/ Less(item, heap[j]) /\ \E child \in {2 * j, 2 * j + 1} : child <= n /\ passed[child]
  IN  passed

(* insert_into_heap: the larger parents on the way up move down.           *)
Insert(heap, item) ==
  [j \in 1 .. Len(heap) + 1 |->
    IF ~ WayUp(heap, item)[j] THEN heap[j]
    ELSE IF j > 1 /\ Less(item, heap[j \div 2]) THEN heap[j \div 2]
    ELSE item]

(* The heap property.                                                      *)
IsHeap(heap) == \A j \in 2 .. Len(heap) : Less(heap[j \div 2], heap[j])
=============================================================================
