----------------------------- MODULE RunStreams -----------------------------
(***************************************************************************)
(* The (rank, count) streams that init, refine, merge and update pass      *)
(* around (RankRun in algorithm.h), as sequences of logical runs over the  *)
(* entries of a chunk's local suffix array, and what merge makes of them.  *)
(* The escape encoding of large counts is left to Merge.                   *)
(***************************************************************************)
EXTENDS SuffixText, SequencesExt

(* The largest k with base^k <= chunk_size (1 if there is none), base - 1  *)
(* being the number of symbols that occur: run_passes_1_and_2.             *)
KmerLength(text, S) ==
  LET base == Cardinality(Range(text)) + 1
  IN  Max({1} \cup {k \in 1 .. S : base ^ k <= S})

(* divsufsort on the Z-transformed chunk: its suffixes in text order.      *)
InSuffixOrder(text, positions) ==
  LET Before(p) == {q \in positions : SuffixLess(text, q, p)}
  IN  [n \in 1 .. Cardinality(positions) |->
        CHOOSE p \in positions : Cardinality(Before(p)) = n - 1]

-----------------------------------------------------------------------------
(* The elements of a sequence at some of its indices, in their order.      *)
Selected(s, indices) ==
  FlattenSeq([i \in DOMAIN s |-> IF i \in indices THEN <<s[i]>> ELSE <<>>])

(* The run-length encoding of a sequence: a run starts where the value     *)
(* changes and ends where the next one starts.                             *)
Runs(s) ==
  LET starts == {i \in DOMAIN s : i = 1 \/ s[i] # s[i - 1]}
      End(i) == Min({k \in starts : k > i} \cup {Len(s) + 1})
  IN  Selected([i \in DOMAIN s |-> [rank |-> s[i], count |-> End(i) - i]], starts)

(* How many entries a run covers: a count of 0 signals a resolved one.     *)
Width(run) == IF run.count = 0 THEN 1 ELSE run.count

(* For each entry the stream covers, the index of its run.                 *)
Slots(runs) ==
  FlattenSeq([j \in DOMAIN runs |-> [i \in 1 .. Width(runs[j]) |-> j]])

(* The rank of each entry the stream covers.                               *)
Expand(runs) == [i \in DOMAIN Slots(runs) |-> runs[Slots(runs)[i]].rank]

(* next_triplet: walk the two streams together, as far as both of them go; *)
(* a triple ends where a run of either does.                               *)
Triples(currents, nexts) ==
  LET c == Slots(currents)
      n == Slots(nexts)
      overlaps == Runs([i \in DOMAIN n \cap DOMAIN c |-> <<c[i], n[i]>>])
  IN  [j \in DOMAIN overlaps |->
        [current |-> currents[overlaps[j].rank[1]].rank,
         next    |-> nexts[overlaps[j].rank[2]].rank,
         count   |-> overlaps[j].count]]

(* next_triplet fails where nexts has entries left and currents none.      *)
StreamsDisagree(currents, nexts) == Len(Slots(currents)) < Len(Slots(nexts))

(* What merge relies on of an iteration's streams, the two of each chunk:  *)
(* there is a current rank for every next one, and a chunk's triples come  *)
(* in the order in which merge takes them.                                 *)
Mergeable(currents, nexts) ==
  LET chunks == DOMAIN nexts
      IsStream(runs) == runs \in Seq([rank : Nat, count : Nat \ {0}])
  IN  /\ IsFiniteSet(chunks) /\ chunks = 0 .. Cardinality(chunks) - 1
      /\ DOMAIN currents = chunks
      /\ \A c \in chunks :
           /\ IsStream(currents[c]) /\ IsStream(nexts[c])
           /\ ~ StreamsDisagree(currents[c], nexts[c])
           /\ LET triples == Triples(currents[c], nexts[c])
              IN  \A j \in 2 .. Len(triples) :
                    \/ triples[j - 1].current < triples[j].current
                    \/ /\ triples[j - 1].current = triples[j].current
                       /\ triples[j - 1].next < triples[j].next
      /\ \E c \in chunks : nexts[c] # <<>>

-----------------------------------------------------------------------------
(* The triples of all chunks, each by its chunk and its index there, and   *)
(* the entries that some of them stand for.                                *)
TripleIds(triples) == UNION {{c} \X DOMAIN triples[c] : c \in DOMAIN triples}

EntriesOf(triples, ids) == UNION {{x} \X (1 .. triples[x[1]][x[2]].count) : x \in ids}

(* The triples of t's group with a smaller next rank, and those of its pair*)
GroupBefore(triples, t) ==
  {x \in TripleIds(triples) :
    triples[x[1]][x[2]].current = t.current /\ triples[x[1]][x[2]].next < t.next}

SamePairs(triples, t) ==
  {x \in TripleIds(triples) :
    triples[x[1]][x[2]].current = t.current /\ triples[x[1]][x[2]].next = t.next}

(* The run that merge writes for a triple: the group's rank plus the       *)
(* entries of the group with a smaller next rank; a count of 0 for a pair  *)
(* that stands for a single entry of the whole text.                       *)
RunOf(triples, t) ==
  [rank  |-> t.current + Cardinality(EntriesOf(triples, GroupBefore(triples, t))),
   count |-> IF Cardinality(EntriesOf(triples, SamePairs(triples, t))) = 1 THEN 0 ELSE t.count]

(* What merge writes to global_<c>, triple by triple.                      *)
Resolved(triples) ==
  [c \in DOMAIN triples |-> [j \in DOMAIN triples[c] |-> RunOf(triples, triples[c][j])]]

-----------------------------------------------------------------------------
(* merge, on streams that need not be in order when an iteration was lost. *)

Precedes(t, u) == t.current < u.current \/ (t.current = u.current /\ t.next < u.next)

(* The triples in the order in which they leave the heap, each by its      *)
(* chunk and its index there: the smallest of the chunks' next ones, of    *)
(* equal ones the first chunk's.                                           *)
PopOrder(triples) ==
  LET ids == TripleIds(triples)
      T(x) == triples[x[1]][x[2]]
      Heads(gone) == {x \in ids \ gone : x[2] = 1 \/ <<x[1], x[2] - 1>> \in gone}
      Smallest(heads) == CHOOSE x \in heads : \A y \in heads \ {x} :
        Precedes(T(x), T(y)) \/ (x[1] < y[1] /\ ~ Precedes(T(y), T(x)))
      popped[n \in 0 .. Cardinality(ids)] ==
        IF n = 0 THEN <<>>
        ELSE LET before == popped[n - 1]
             IN  Append(before, Smallest(Heads(Range(before))))
  IN  popped[Cardinality(ids)]

(* What merge writes: a triple is compared with the one before it alone.   *)
(* updated_rank is the group's rank and what it has counted of the group's *)
(* pairs before this one; pair_count what it has counted of this one.      *)
MergedInTurn(triples) ==
  LET order == PopOrder(triples)
      T(n) == triples[order[n][1]][order[n][2]]
      SameGroup(n) == n > 1 /\ T(n).current = T(n - 1).current
      SamePair(n) == SameGroup(n) /\ T(n).next = T(n - 1).next
      GroupStart(n) == Max({m \in 1 .. n : ~ SameGroup(m)})
      PairStart(n) == Max({m \in 1 .. n : ~ SamePair(m)})
      Counted(m, n) == Cardinality(EntriesOf(triples, {order[k] : k \in m .. n}))
      updated_rank(n) == T(n).current + Counted(GroupStart(n), PairStart(n) - 1)
      pair_count(n) == Counted(PairStart(n), n)
      Single(n) == pair_count(n) = 1 /\ ~ (n < Len(order) /\ SamePair(n + 1))
      runs == [n \in DOMAIN order |->
        [rank |-> updated_rank(n), count |-> IF Single(n) THEN 0 ELSE T(n).count]]
  IN  [c \in DOMAIN triples |-> Selected(runs, {n \in DOMAIN order : order[n][1] = c})]
=============================================================================
