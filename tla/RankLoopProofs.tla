---------------------------- MODULE RankLoopProofs ----------------------------
(***************************************************************************)
(* For every text and every chunk size: the loop on its files implements   *)
(* PrefixDoubling.  The files that refine, merge and update write one      *)
(* after the other fit one another in every iteration, although each       *)
(* program drops part of what it reads.                                    *)
(*                                                                         *)
(* Then the script around the loop: create_pairs and invert make the       *)
(* suffix array of the loop's last ranks, and the exit code is true        *)
(* whatever programs were killed, verify's verdict being what VerifyProofs *)
(* says of it.                                                             *)
(***************************************************************************)
EXTENDS Pipeline, RunStreamTheorems

D == INSTANCE PrefixDoublingProofs WITH
  KmerLengths <- Nat \ {0},
  prefix_len <- prefix_len_then,
  rank <- rank_then,
  live <- live_then,
  more_runs <- pc # "finished"

(* The position of a chunk's i-th place.                                   *)
At(c, i) == c * chunk_size + i

-----------------------------------------------------------------------------
(* The types of what the programs hand to one another.                     *)
Shape ==
  /\ text \in Texts /\ chunk_size \in ChunkSizes
  /\ prefix_len \in Nat \ {0}
  /\ pc \in {"refine", "merge", "update", "finished"}
  /\ chunk \in 0 .. TotalChunks
  /\ next_ranks_buffer \in [0 .. chunk_size - 1 -> Nat]
  /\ status \in {"SUCCESS", "EMPTY"}
  /\ DOMAIN ranks = AllChunks /\ DOMAIN sa = AllChunks /\ DOMAIN currents = AllChunks
  /\ DOMAIN bounds = AllChunks /\ DOMAIN nexts = AllChunks /\ DOMAIN global = AllChunks

(* A suffix array is in the order of the suffixes.                         *)
Sorted(c, order) ==
  /\ order \in Seq(Local(c))
  /\ \A a, b \in 1 .. Len(order) : a < b => SuffixLess(text, At(c, order[a]), At(c, order[b]))

(* A chunk's files, whatever program runs.                                 *)
FilesOK(c) ==
  /\ ranks[c] \in [Local(c) -> Nat]
  /\ Sorted(c, sa[c])
  /\ Range(sa[c]) \subseteq Window(c)
  /\ Window(c) \subseteq Local(c)
  /\ currents[c] \in Seq(RunSet(Nat))
  /\ nexts[c] \in Seq(RunSet(Nat))
  /\ global[c] \in Seq(RunSet(Nat))

(* The ranks of a suffix array's entries.                                  *)
RankList(c) == [j \in DOMAIN sa[c] |-> ranks[c][sa[c][j]]]

(* A stream of live runs: none of its counts signals a resolved one.       *)
Live(runs) == \A j \in 1 .. Len(runs) : runs[j].count # 0

(* A chunk that update has done with, or leaves alone.                     *)
CurrentOK(c) ==
  Rising(currents[c]) /\ Live(currents[c]) /\ Expand(currents[c]) = RankList(c)

(* A chunk that update has yet to come to.                                 *)
MergedOK(c) == Rising(global[c]) /\ Len(Slots(global[c])) = Len(sa[c])

NextList(c) == Expand(nexts[c])

(* What refine leaves of a chunk: next ranks for the whole suffix array,   *)
(* right ones wherever the text has not ended.                             *)
RefinedOK(c) ==
  IF IsEmpty(c) THEN nexts[c] = <<>>
  ELSE /\ NextList(c) \in Seq(Nat)
       /\ nexts[c] = Runs(NextList(c))
       /\ Len(NextList(c)) = Len(sa[c])
       /\ \A j \in 1 .. Len(sa[c]) :
            At(c, sa[c][j]) + prefix_len \in Positions(text) =>
              NextList(c)[j] = PrefixRank(text, prefix_len, At(c, sa[c][j]) + prefix_len)

HasRun(c) == ~ IsEmpty(c) /\ sa[c] # <<>>

Done == {c \in AllChunks : c < chunk}

(* What refine's pass over the chunks has established.                     *)
PassOK ==
  /\ \A c \in Done : RefinedOK(c)
  /\ \A c \in AllChunks \ Done : nexts[c] = <<>>
  /\ status = "EMPTY" <=> \A c \in Done : ~ HasRun(c)
  /\ pc = "merge" => chunk = TotalChunks /\ status = "SUCCESS"

(* The loop's invariant: the files fit, and what update is about to write  *)
(* or has written is a state of PrefixDoubling that satisfies its own.     *)
IInv ==
  /\ Shape
  /\ D!IInv
  /\ \A c \in AllChunks : FilesOK(c)
  /\ \A c \in AllChunks : IF Pending(c) THEN MergedOK(c) ELSE CurrentOK(c)
  /\ pc \in {"refine", "merge"} => PassOK

-----------------------------------------------------------------------------
(* Positions and their places in the chunks.                               *)
InText == text \in Texts /\ chunk_size \in ChunkSizes

LEMMA TextPlaces ==
  InText =>
    /\ text \in CodedText /\ chunk_size \in Nat \ {0} /\ Positions(text) \subseteq Nat
    /\ IsFiniteSet(Positions(text))
    /\ TotalChunks \in Nat \ {0} /\ AllChunks = 0 .. TotalChunks - 1 /\ AllChunks \subseteq Nat
    /\ \A p \in Positions(text) :
         /\ ChunkOf(chunk_size, p) \in AllChunks
         /\ p % chunk_size \in Local(ChunkOf(chunk_size, p))
         /\ At(ChunkOf(chunk_size, p), p % chunk_size) = p
    /\ \A c \in AllChunks : \A i \in Local(c) :
         /\ i \in 0 .. chunk_size - 1
         /\ At(c, i) \in Positions(text)
         /\ ChunkOf(chunk_size, At(c, i)) = c /\ At(c, i) % chunk_size = i
<1> SUFFICES ASSUME InText
             PROVE  /\ text \in CodedText /\ chunk_size \in Nat \ {0} /\ Positions(text) \subseteq Nat
                    /\ IsFiniteSet(Positions(text))
                    /\ TotalChunks \in Nat \ {0} /\ AllChunks = 0 .. TotalChunks - 1 /\ AllChunks \subseteq Nat
                    /\ \A p \in Positions(text) :
                         /\ ChunkOf(chunk_size, p) \in AllChunks
                         /\ p % chunk_size \in Local(ChunkOf(chunk_size, p))
                         /\ At(ChunkOf(chunk_size, p), p % chunk_size) = p
                    /\ \A c \in AllChunks : \A i \in Local(c) :
                         /\ i \in 0 .. chunk_size - 1
                         /\ At(c, i) \in Positions(text)
                         /\ ChunkOf(chunk_size, At(c, i)) = c /\ At(c, i) % chunk_size = i
  OBVIOUS
<1> DEFINE S == chunk_size
           n == Len(text)
<1>1. text \in CodedText /\ S \in Nat \ {0}
  BY TextsAssumption, ChunkSizesAssumption DEF InText, CodedText
<1>2. /\ n \in Nat /\ Positions(text) = 0 .. n /\ Positions(text) \subseteq Nat
      /\ IsFiniteSet(Positions(text))
  BY <1>1, PositionsType
<1>3. ChunkOf(S, n) \in Nat /\ n = ChunkOf(S, n) * S + (n % S) /\ n % S \in 0 .. S - 1
  BY <1>1, <1>2, Division DEF ChunkOf
<1>4. TotalChunks = ChunkOf(S, n) + 1 /\ AllChunks = 0 .. ChunkOf(S, n)
  BY DEF TotalChunks, AllChunks, Chunks
<1>5. TotalChunks \in Nat \ {0} /\ AllChunks = 0 .. TotalChunks - 1 /\ AllChunks \subseteq Nat
  BY <1>3, <1>4
<1>6. ASSUME NEW p \in Positions(text)
      PROVE  /\ ChunkOf(S, p) \in AllChunks
             /\ p % S \in Local(ChunkOf(S, p))
             /\ At(ChunkOf(S, p), p % S) = p
  <2>1. p \in Nat /\ p <= n
    BY <1>2
  <2>2. ChunkOf(S, p) \in Nat /\ p = ChunkOf(S, p) * S + (p % S) /\ p % S \in 0 .. S - 1
    BY <1>1, <2>1, Division DEF ChunkOf
  <2>3. ~ (ChunkOf(S, n) < ChunkOf(S, p))
    <3> DEFINE c == ChunkOf(S, n)
               d == ChunkOf(S, p)
               i == n % S
               j == p % S
    <3>1. /\ c \in Nat /\ d \in Nat /\ i \in 0 .. S - 1 /\ j \in Nat /\ S \in Nat \ {0}
          /\ n = c * S + i /\ p = d * S + j
      BY <1>1, <1>3, <2>2
    <3> HIDE DEF c, d, i, j, S
    <3>2. c < d => c * S + i < d * S + j
      BY <3>1, ChunkFirst
    <3>3. c < d => n < p
      BY <3>1, <3>2
    <3>4. ~ (c < d)
      BY <1>2, <2>1, <3>3
    <3> QED
      BY <3>4 DEF c, d, S
  <2>4. ChunkOf(S, p) \in AllChunks
    BY <1>3, <1>4, <2>2, <2>3
  <2>5. p % S \in Local(ChunkOf(S, p))
    BY <2>2 DEF Local
  <2> QED
    BY <2>2, <2>4, <2>5 DEF At
<1>7. ASSUME NEW c \in AllChunks, NEW i \in Local(c)
      PROVE  /\ i \in 0 .. S - 1
             /\ At(c, i) \in Positions(text)
             /\ ChunkOf(S, At(c, i)) = c /\ At(c, i) % S = i
  <2>1. i \in 0 .. S - 1 /\ At(c, i) \in Positions(text) /\ c \in Nat
    BY <1>5 DEF Local, At
  <2> QED
    BY <1>1, <2>1, DivisionUnique DEF At, ChunkOf
<1> QED
  BY <1>1, <1>2, <1>5, <1>6, <1>7

LEMMA Places ==
  Shape =>
    /\ text \in CodedText /\ chunk_size \in Nat \ {0} /\ Positions(text) \subseteq Nat
    /\ IsFiniteSet(Positions(text))
    /\ TotalChunks \in Nat \ {0} /\ AllChunks = 0 .. TotalChunks - 1 /\ AllChunks \subseteq Nat
    /\ \A p \in Positions(text) :
         /\ ChunkOf(chunk_size, p) \in AllChunks
         /\ p % chunk_size \in Local(ChunkOf(chunk_size, p))
         /\ At(ChunkOf(chunk_size, p), p % chunk_size) = p
    /\ \A c \in AllChunks : \A i \in Local(c) :
         /\ i \in 0 .. chunk_size - 1
         /\ At(c, i) \in Positions(text)
         /\ ChunkOf(chunk_size, At(c, i)) = c /\ At(c, i) % chunk_size = i
  BY TextPlaces DEF Shape, InText

(* PrefixDoubling's text is RankLoop's.                                    *)
LEMMA SameText ==
  /\ \A S : D!Cardinality(S) = Cardinality(S)
  /\ \A t : D!Positions(t) = Positions(t)
  /\ \A t, L, p, q : D!PrefixEq(t, L, p, q) <=> PrefixEq(t, L, p, q)
  /\ \A t, L, p : D!PrefixRank(t, L, p) = PrefixRank(t, L, p)
  /\ \A t, p : D!SuffixRank(t, p) = SuffixRank(t, p)
  /\ \A S, p : D!ChunkOf(S, p) = ChunkOf(S, p)
  /\ \A t, S, L, c : D!PastTextEnd(t, S, L, c) <=> PastTextEnd(t, S, L, c)
<1>1. \A t : D!Positions(t) = Positions(t)
  BY DEF D!Positions, Positions
<1>9. \A S : D!Cardinality(S) = Cardinality(S)
  BY DEF D!Cardinality, Cardinality
<1>7. \A t, i : D!Symbol(t, i) = Symbol(t, i)
  BY DEF D!Symbol, Symbol
<1>2. ASSUME NEW t, NEW L, NEW p, NEW q
      PROVE  D!PrefixEq(t, L, p, q) <=> PrefixEq(t, L, p, q)
  BY <1>7 DEF D!PrefixEq, PrefixEq
<1>8. ASSUME NEW t, NEW L, NEW p, NEW q
      PROVE  D!PrefixLess(t, L, p, q) <=> PrefixLess(t, L, p, q)
  BY <1>2, <1>7 DEF D!PrefixLess, PrefixLess
<1>3. ASSUME NEW t, NEW L, NEW p
      PROVE  D!PrefixRank(t, L, p) = PrefixRank(t, L, p)
  <2> DEFINE A == {q \in D!Positions(t) : D!PrefixLess(t, L, q, p)}
             B == {q \in Positions(t) : PrefixLess(t, L, q, p)}
  <2>3. \A q : q \in A <=> q \in B
    BY <1>1, <1>8
  <2>1. A = B
    <3> HIDE DEF A, B
    <3> QED
      BY <2>3
  <2>2. D!PrefixRank(t, L, p) = D!Cardinality(A) /\ PrefixRank(t, L, p) = Cardinality(B)
    BY DEF D!PrefixRank, PrefixRank
  <2> HIDE DEF A, B
  <2> QED
    BY <1>9, <2>1, <2>2
<1>4. ASSUME NEW t, NEW p
      PROVE  D!SuffixRank(t, p) = SuffixRank(t, p)
  <2> DEFINE A == {q \in D!Positions(t) : D!SuffixLess(t, q, p)}
             B == {q \in Positions(t) : SuffixLess(t, q, p)}
  <2>3. \A q : q \in A <=> q \in B
    BY <1>1, <1>8 DEF D!SuffixLess, SuffixLess
  <2>1. A = B
    <3> HIDE DEF A, B
    <3> QED
      BY <2>3
  <2>2. D!SuffixRank(t, p) = D!Cardinality(A) /\ SuffixRank(t, p) = Cardinality(B)
    BY DEF D!SuffixRank, SuffixRank
  <2> HIDE DEF A, B
  <2> QED
    BY <1>9, <2>1, <2>2
<1>5. \A S, p : D!ChunkOf(S, p) = ChunkOf(S, p)
  BY DEF D!ChunkOf, ChunkOf
<1>6. \A t, S, L, c : D!PastTextEnd(t, S, L, c) <=> PastTextEnd(t, S, L, c)
  BY DEF D!PastTextEnd, PastTextEnd, D!BaseChunk, BaseChunk, D!ChunkOf, ChunkOf
<1> QED
  BY <1>1, <1>2, <1>3, <1>4, <1>5, <1>6, <1>9

(* What PrefixDoubling's invariant says of the ranks, and of two positions *)
(* that tie.                                                               *)
LEMMA DoublingFacts ==
  ASSUME D!IInv
  PROVE  /\ D!Pos = Positions(text)
         /\ \A p \in Positions(text) : rank_then[p] = PrefixRank(text, prefix_len_then, p)
         /\ \A p \in Positions(text) :
              PrefixRank(text, 2 * prefix_len_then, p) =
                IF p \in D!Active THEN rank_then[p] + Cardinality(D!Before(p)) ELSE rank_then[p]
         /\ \A p, q \in Positions(text) :
              p # q /\ PrefixEq(text, prefix_len_then, p, q) =>
                /\ p \in D!Active /\ q \in D!Active
                /\ p + prefix_len_then \in Positions(text) /\ q + prefix_len_then \in Positions(text)
                /\ D!NextRank(p) = PrefixRank(text, prefix_len_then, p + prefix_len_then)
                /\ D!NextRank(q) = PrefixRank(text, prefix_len_then, q + prefix_len_then)
<1>1. D!Pos = Positions(text)
  BY SameText DEF D!Pos
<1>2. \A p \in D!Pos : rank_then[p] = PrefixRank(text, prefix_len_then, p)
  BY SameText DEF D!IInv, D!RanksArePrefixRanks
<1>3. ASSUME NEW p \in D!Pos
      PROVE  PrefixRank(text, 2 * prefix_len_then, p) =
                IF p \in D!Active THEN rank_then[p] + Cardinality(D!Before(p)) ELSE rank_then[p]
  <2> DEFINE M == 2 * prefix_len_then
  <2>1. D!PrefixRank(text, M, p) =
          IF p \in D!Active THEN rank_then[p] + Cardinality(D!Before(p)) ELSE rank_then[p]
    <3>1. D!TextsAssumption /\ D!ChunkSizesAssumption /\ D!KmerLengthsAssumption
      BY TextsAssumption, ChunkSizesAssumption DEF D!TextsAssumption, D!ChunkSizesAssumption, D!KmerLengthsAssumption
    <3> QED
      BY <3>1, SameText, D!NewRank
  <2> HIDE DEF M
  <2>2. D!PrefixRank(text, M, p) = PrefixRank(text, M, p)
    BY SameText
  <2> QED
    BY <2>1, <2>2 DEF M
<1>4. ASSUME NEW p \in D!Pos, NEW q \in D!Pos, p # q, PrefixEq(text, prefix_len_then, p, q)
      PROVE  /\ p \in D!Active /\ q \in D!Active
             /\ p + prefix_len_then \in D!Pos /\ q + prefix_len_then \in D!Pos
             /\ D!NextRank(p) = PrefixRank(text, prefix_len_then, p + prefix_len_then)
             /\ D!NextRank(q) = PrefixRank(text, prefix_len_then, q + prefix_len_then)
  BY <1>4, D!TiedAreActive, SameText, TextsAssumption, ChunkSizesAssumption
<1> QED
  BY <1>1, <1>2, <1>3, <1>4

-----------------------------------------------------------------------------
(* No place comes twice in a suffix array.                                 *)
LEMMA SortedOnce ==
  ASSUME Shape, NEW c \in AllChunks, NEW o, Sorted(c, o),
         NEW a \in 1 .. Len(o), NEW b \in 1 .. Len(o), o[a] = o[b]
  PROVE  a = b
<1>1. text \in CodedText /\ Positions(text) \subseteq Nat
  BY Places
<1>2. o \in Seq(Local(c)) /\ Len(o) \in Nat
  BY DEF Sorted
<1>3. o[a] \in Local(c)
  BY <1>2, ElementOfSeq
<1>4. At(c, o[a]) \in Nat
  BY <1>1, <1>3, Places
<1>5. ~ SuffixLess(text, At(c, o[a]), At(c, o[a]))
  <2>1. Len(text) + 1 \in Nat
    BY <1>1 DEF CodedText
  <2> QED
    BY <1>1, <1>4, <2>1, NoInversion DEF SuffixLess
<1>6. ~ (a < b) /\ ~ (b < a)
  BY <1>5 DEF Sorted
<1> QED
  BY <1>2, <1>6

(* Part of a suffix array is one.                                          *)
LEMMA SortedSelected ==
  ASSUME NEW c, NEW o, Sorted(c, o), NEW K \in SUBSET (1 .. Len(o))
  PROVE  Sorted(c, Selected(o, K))
<1> DEFINE m == Len(Selected(o, K))
<1>1. o \in Seq(Local(c))
  BY DEF Sorted
<1>2. /\ Selected(o, K) \in Seq(Local(c))
      /\ \E at : Lists(at, m, K) /\ \A a \in 1 .. m : Selected(o, K)[a] = o[at[a]]
  BY <1>1, SelectedLists
<1>3. PICK at : Lists(at, m, K) /\ \A a \in 1 .. m : Selected(o, K)[a] = o[at[a]]
  BY <1>2
<1> HIDE DEF m
<1>4. ASSUME NEW a \in 1 .. m, NEW b \in 1 .. m, a < b
      PROVE  SuffixLess(text, At(c, Selected(o, K)[a]), At(c, Selected(o, K)[b]))
  <2>1. at[a] \in 1 .. Len(o) /\ at[b] \in 1 .. Len(o) /\ at[a] < at[b]
    BY <1>3, <1>4 DEF Lists
  <2> QED
    BY <1>3, <2>1 DEF Sorted
<1> QED
  BY <1>2, <1>4 DEF Sorted, m

(* A chunk's places are an interval: so is whatever lies between two.      *)
LEMMA LocalConvex ==
  ASSUME Shape, NEW c \in AllChunks, NEW i \in Local(c), NEW k \in Local(c)
  PROVE  i .. k \subseteq Local(c)
<1>1. /\ chunk_size \in Nat \ {0} /\ c \in Nat /\ text \in CodedText
  BY Places
<1>2. Len(text) \in Nat /\ Positions(text) = 0 .. Len(text)
  BY <1>1, PositionsType
<1>3. c * chunk_size \in Nat
  BY <1>1
<1> DEFINE b == c * chunk_size
<1>4. /\ i \in 0 .. chunk_size - 1 /\ k \in 0 .. chunk_size - 1
      /\ b + i \in 0 .. Len(text) /\ b + k \in 0 .. Len(text)
  BY <1>2 DEF Local
<1>5. Local(c) = {x \in 0 .. chunk_size - 1 : b + x \in 0 .. Len(text)}
  BY <1>2 DEF Local
<1> HIDE DEF b
<1>6. b \in Nat
  BY <1>3 DEF b
<1>7. ASSUME NEW x \in i .. k PROVE x \in Local(c)
  <2>1. x \in 0 .. chunk_size - 1 /\ b + x \in 0 .. Len(text)
    BY <1>1, <1>2, <1>4, <1>6
  <2> QED
    BY <1>5, <2>1
<1> QED
  BY <1>7

(* The window that update writes holds what it left in the suffix array.   *)
LEMMA TightenedHolds ==
  ASSUME Shape, NEW c \in AllChunks, NEW T \in SUBSET Local(c)
  PROVE  /\ T \subseteq Tightened(T)[1] .. Tightened(T)[2]
         /\ Tightened(T)[1] .. Tightened(T)[2] \subseteq Local(c)
<1>1. CASE T = {}
  BY <1>1 DEF Tightened, Empty
<1>2. CASE T # {}
  <2>1. chunk_size \in Nat \ {0} /\ chunk_size - 1 \in Nat
    BY Places
  <2>2. T \in SUBSET (0 .. chunk_size - 1)
    BY Places
  <2>3. Min(T) \in T /\ Max(T) \in T /\ T \subseteq Min(T) .. Max(T)
    BY <1>2, <2>1, <2>2, Extremes
  <2>4. Min(T) .. Max(T) \subseteq Local(c)
    BY <2>3, LocalConvex
  <2>5. Tightened(T)[1] = Min(T) /\ Tightened(T)[2] = Max(T)
    BY <1>2 DEF Tightened
  <2> QED
    BY <2>3, <2>4, <2>5
<1> QED
  BY <1>1, <1>2

Surviving(c) == {j \in 1 .. Len(sa[c]) : Survives(global[c][Slots(global[c])[j]])}

(* What update makes of a chunk that merge has resolved: the ranks of the  *)
(* runs where they belong, and files that fit one another again.           *)
UpdateOK(c) ==
  /\ UpdatedRanks(c) \in [Local(c) -> Nat]
  /\ \A j \in 1 .. Len(sa[c]) : UpdatedRanks(c)[sa[c][j]] = Expand(global[c])[j]
  /\ \A i \in Local(c) \ Range(sa[c]) : UpdatedRanks(c)[i] = ranks[c][i]
  /\ Sorted(c, UpdatedSA(c))
  /\ Range(UpdatedSA(c)) = {sa[c][j] : j \in Surviving(c)}
  /\ UpdatedCurrents(c) \in Seq(RunSet(Nat))
  /\ Rising(UpdatedCurrents(c)) /\ Live(UpdatedCurrents(c))
  /\ Expand(UpdatedCurrents(c)) = [j \in DOMAIN UpdatedSA(c) |-> UpdatedRanks(c)[UpdatedSA(c)[j]]]

LEMMA UpdatedFiles ==
  Shape => \A c \in AllChunks : FilesOK(c) /\ MergedOK(c) => UpdateOK(c)
<1> SUFFICES ASSUME Shape, NEW c \in AllChunks, FilesOK(c), MergedOK(c)
             PROVE  UpdateOK(c)
  OBVIOUS
<1> DEFINE g == global[c]
           s == sa[c]
           slot == Slots(g)
           n == Len(s)
           e == Expand(g)
           J == {j \in DOMAIN g : Survives(g[j])}
           K == {j \in DOMAIN s : Survives(g[slot[j]])}
           Slot(i) == slot[CHOOSE j \in DOMAIN s : s[j] = i]
<1>1. /\ g \in Seq(RunSet(Nat)) /\ Rising(g) /\ Len(slot) = n
      /\ Sorted(c, s) /\ s \in Seq(Local(c))
      /\ ranks[c] \in [Local(c) -> Nat] /\ Range(s) \subseteq Window(c)
  BY DEF FilesOK, MergedOK, Sorted
<1>2. /\ n \in Nat /\ DOMAIN s = 1 .. n /\ Range(s) \subseteq Local(c)
      /\ \A j \in 1 .. n : s[j] \in Local(c) /\ s[j] \in Range(s)
  <2> HIDE DEF s
  <2>1. n \in Nat /\ DOMAIN s = 1 .. n
    BY <1>1, LenProperties
  <2>2. \A j \in 1 .. n : s[j] \in Local(c)
    BY <1>1, ElementOfSeq
  <2> QED
    BY <2>1, <2>2 DEF Range
<1>3. PICK st : Cuts(st, Widths(g), Len(g))
  BY <1>1, StreamCut
<1>4. /\ DOMAIN slot = 1 .. n /\ \A j \in 1 .. n : slot[j] \in 1 .. Len(g)
  <2>1. slot \in Seq(1 .. Len(g))
    BY <1>1, <1>3, SlotsAt
  <2> HIDE DEF slot, g
  <2> QED
    BY <1>1, <1>2, <2>1, LenProperties, ElementOfSeq
<1>5. DOMAIN g = 1 .. Len(g) /\ \A j \in 1 .. Len(g) : g[j].rank \in Nat
  BY <1>1, WidthsType, LenProperties
<1>6. e = [i \in 1 .. n |-> g[slot[i]].rank]
  BY <1>4 DEF Expand
<1>7. \A j \in 1 .. n : e[j] = g[slot[j]].rank /\ e[j] \in Nat
  BY <1>4, <1>5, <1>6
<1>8. UpdatedRanks(c) = [i \in Local(c) |->
                          IF i \in Window(c) \cap Range(s) THEN g[Slot(i)].rank ELSE ranks[c][i]]
  BY DEF UpdatedRanks
<1>9. UpdatedSA(c) = Selected(s, K)
  BY DEF UpdatedSA
<1>10. UpdatedCurrents(c) = Selected(g, J)
  BY DEF UpdatedCurrents
<1>11. Surviving(c) = K /\ K \in SUBSET (1 .. n)
  BY <1>2 DEF Surviving
<1>12. J \in SUBSET (1 .. Len(g)) /\ K = {i \in 1 .. Len(slot) : slot[i] \in J}
  BY <1>1, <1>2, <1>4, <1>5
<1> HIDE DEF g, s, slot, n, e, J, K
<1>13. ASSUME NEW j \in 1 .. n PROVE Slot(s[j]) = slot[j]
  <2> DEFINE k == CHOOSE k \in DOMAIN s : s[k] = s[j]
  <2>1. k \in 1 .. n /\ s[k] = s[j]
    BY <1>2
  <2> HIDE DEF k
  <2>2. k = j
    BY <1>1, <2>1, SortedOnce DEF n
  <2> QED
    BY <2>2 DEF k
<1>14. \A j \in 1 .. n : UpdatedRanks(c)[s[j]] = e[j]
  <2> SUFFICES ASSUME NEW j \in 1 .. n PROVE UpdatedRanks(c)[s[j]] = e[j]
    OBVIOUS
  <2>1. s[j] \in Window(c) \cap Range(s) /\ s[j] \in Local(c)
    BY <1>1, <1>2
  <2> QED
    BY <1>7, <1>8, <1>13, <2>1
<1>15. \A i \in Local(c) \ Range(s) : UpdatedRanks(c)[i] = ranks[c][i]
  BY <1>8
<1>16. UpdatedRanks(c) \in [Local(c) -> Nat]
  <2>1. ASSUME NEW i \in Local(c) PROVE UpdatedRanks(c)[i] \in Nat
    <3>1. CASE i \in Range(s)
      <4>1. PICK j \in 1 .. n : s[j] = i
        BY <1>2, <3>1 DEF Range
      <4> QED
        BY <1>7, <1>14, <4>1
    <3>2. CASE i \notin Range(s)
      BY <1>1, <1>15, <3>2
    <3> QED
      BY <3>1, <3>2
  <2> QED
    BY <1>8, <2>1
<1>17. Sorted(c, Selected(s, K)) /\ Range(Selected(s, K)) = {s[j] : j \in K}
  BY <1>1, <1>11, SortedSelected, SelectedRange DEF n
<1>18. Selected(g, J) \in Seq(RunSet(Nat)) /\ Rising(Selected(g, J))
  BY <1>1, <1>12, SelectedLists, RisingSelected
<1>19. Expand(Selected(g, J)) = Selected(e, K)
  BY <1>1, <1>12, FilterExpand DEF e, slot
<1>20. e = [j \in DOMAIN s |-> UpdatedRanks(c)[s[j]]]
  BY <1>2, <1>6, <1>7, <1>14
<1>21. Selected(e, K) =
         [j \in DOMAIN Selected(s, K) |-> UpdatedRanks(c)[Selected(s, K)[j]]]
  <2> DEFINE r == UpdatedRanks(c)
             V == Local(c)
  <2>1. s \in Seq(V) /\ K \in SUBSET (1 .. Len(s))
    BY <1>1, <1>11 DEF n
  <2> HIDE DEF r, V
  <2>2. Selected(Values(r, s), K) = Values(r, Selected(s, K))
    BY <2>1, SelectedMap
  <2>3. e = Values(r, s)
    BY <1>20 DEF r, Values
  <2>4. Selected(e, K) = [a \in DOMAIN Selected(s, K) |-> r[Selected(s, K)[a]]]
    BY <2>2, <2>3 DEF Values
  <2> QED
    BY <2>4 DEF r
<1>22. Live(Selected(g, J))
  <2> DEFINE sel == Selected(g, J)
  <2>1. sel \in Seq(RunSet(Nat)) /\ Range(sel) = {g[j] : j \in J}
    BY <1>1, <1>12, <1>18, SelectedRange
  <2>2. \A j \in J : g[j].count # 0
    BY DEF J, Survives
  <2> HIDE DEF sel
  <2>3. \A a \in 1 .. Len(sel) : sel[a] \in Range(sel)
    BY <2>1, LenProperties DEF Range
  <2>4. Live(sel)
    BY <2>1, <2>2, <2>3 DEF Live
  <2> QED
    BY <2>4 DEF sel
<1> QED
  BY <1>9, <1>10, <1>11, <1>14, <1>15, <1>16, <1>17, <1>18, <1>19, <1>21, <1>22
     DEF UpdateOK, g, s, n, e

-----------------------------------------------------------------------------
(* Where update is not at work, what is then is what is now.               *)
LEMMA ThenIsNow ==
  ASSUME pc # "update"
  PROVE  /\ prefix_len_then = prefix_len
         /\ \A c : ~ Pending(c) /\ sa_then(c) = sa[c] /\ ranks_then(c) = ranks[c]
  BY DEF prefix_len_then, Pending, sa_then, ranks_then

(* PrefixDoubling's ranks and positions, place by place.                   *)
LEMMA RankThenAt ==
  Shape => \A c \in AllChunks : \A i \in Local(c) : rank_then[At(c, i)] = ranks_then(c)[i]
<1> SUFFICES ASSUME Shape, NEW c \in AllChunks, NEW i \in Local(c)
             PROVE  rank_then[At(c, i)] = ranks_then(c)[i]
  OBVIOUS
<1>1. /\ At(c, i) \in Positions(text)
      /\ ChunkOf(chunk_size, At(c, i)) = c /\ At(c, i) % chunk_size = i
  BY Places
<1> QED
  BY <1>1 DEF rank_then

(* A place is called by one name.                                          *)
LEMMA SamePlace ==
  ASSUME Shape, NEW c \in AllChunks, NEW d \in AllChunks, NEW i \in Local(c), NEW k \in Local(d),
         At(c, i) = At(d, k)
  PROVE  c = d /\ i = k
  BY Places

(* The positions that have a run: those of the suffix arrays of chunks     *)
(* that refine does not find empty.                                        *)
LEMMA ActivePlaces ==
  ASSUME Shape, pc # "update", \A c \in AllChunks : sa[c] \in Seq(Local(c))
  PROVE  D!Active = {p \in Positions(text) : \E c \in AllChunks : \E j \in 1 .. Len(sa[c]) :
                       ~ IsEmpty(c) /\ p = At(c, sa[c][j])}
<1>1. \A c \in AllChunks : \A j \in 1 .. Len(sa[c]) : sa[c][j] \in Local(c)
  BY ElementOfSeq
<1>2. ASSUME NEW p
      PROVE  p \in live_then <=>
               \E c \in AllChunks : \E j \in 1 .. Len(sa[c]) : p = At(c, sa[c][j])
  <2>1. p \in live_then <=> \E c \in AllChunks : \E i \in Range(sa[c]) : p = At(c, i)
    BY ThenIsNow DEF live_then, At
  <2>2. \A c \in AllChunks : DOMAIN sa[c] = 1 .. Len(sa[c])
    BY LenProperties
  <2>3. \A c \in AllChunks : \A i : i \in Range(sa[c]) <=> \E j \in 1 .. Len(sa[c]) : i = sa[c][j]
    BY <2>2 DEF Range
  <2>4. ASSUME NEW c \in AllChunks, NEW i \in Range(sa[c]), p = At(c, i)
        PROVE  \E j \in 1 .. Len(sa[c]) : p = At(c, sa[c][j])
    BY <2>3, <2>4
  <2>5. ASSUME NEW c \in AllChunks, NEW j \in 1 .. Len(sa[c]), p = At(c, sa[c][j])
        PROVE  \E i \in Range(sa[c]) : p = At(c, i)
    <3>1. sa[c][j] \in Range(sa[c])
      BY <2>3
    <3> QED
      BY <2>5, <3>1
  <2> QED
    BY <2>1, <2>4, <2>5
<1>3. ASSUME NEW p
      PROVE  p \in D!Active <=>
               p \in live_then /\ ~ PastTextEnd(text, chunk_size, prefix_len, ChunkOf(chunk_size, p))
  BY SameText, ThenIsNow DEF D!Active
<1>4. ASSUME NEW c \in AllChunks, NEW j \in 1 .. Len(sa[c])
      PROVE  /\ At(c, sa[c][j]) \in Positions(text)
             /\ PastTextEnd(text, chunk_size, prefix_len, ChunkOf(chunk_size, At(c, sa[c][j]))) <=> IsEmpty(c)
  BY <1>1, Places DEF IsEmpty
<1>5. ASSUME NEW p
      PROVE  p \in D!Active <=>
               p \in Positions(text) /\ \E c \in AllChunks : \E j \in 1 .. Len(sa[c]) :
                                          ~ IsEmpty(c) /\ p = At(c, sa[c][j])
  BY <1>2, <1>3, <1>4
<1> QED
  BY <1>5

-----------------------------------------------------------------------------
(* The triples that merge meets, the stretch of a chunk's suffix array     *)
(* that each stands for, and the positions there.                          *)
StretchAt ==
  [c \in AllChunks |-> CHOOSE st : Carries(st, AllTriples[c], RankList(c), NextList(c))]

PositionAt ==
  [c \in AllChunks |-> [i \in 1 .. Len(NextList(c)) |-> At(c, sa[c][i])]]

Stands(x) == StandsFor(StretchAt, PositionAt, x)

(* merge starts when refine has done with every chunk and found a run.     *)
Merging ==
  /\ IInv /\ pc = "merge"

LEMMA MergingFacts ==
  ASSUME Merging
  PROVE  /\ Shape /\ D!IInv /\ pc # "update" /\ prefix_len_then = prefix_len
         /\ \A c \in AllChunks : /\ FilesOK(c) /\ CurrentOK(c) /\ RefinedOK(c)
                                 /\ sa[c] \in Seq(Local(c)) /\ sa_then(c) = sa[c]
                                 /\ ranks_then(c) = ranks[c]
                                 /\ Len(sa[c]) \in Nat /\ DOMAIN sa[c] = 1 .. Len(sa[c])
                                 /\ \A j \in 1 .. Len(sa[c]) : sa[c][j] \in Local(c)
<1>1. Shape /\ D!IInv /\ pc # "update" /\ prefix_len_then = prefix_len
  BY ThenIsNow DEF Merging, IInv
<1>2. ASSUME NEW c \in AllChunks
      PROVE  /\ FilesOK(c) /\ CurrentOK(c) /\ RefinedOK(c)
             /\ sa_then(c) = sa[c] /\ ranks_then(c) = ranks[c]
  <2>1. FilesOK(c) /\ CurrentOK(c)
    BY <1>1, ThenIsNow DEF Merging, IInv
  <2>2. chunk = TotalChunks /\ \A d \in Done : RefinedOK(d)
    BY DEF Merging, IInv, PassOK
  <2>3. c \in Done
    BY <1>1, <2>2, Places DEF Done
  <2> QED
    BY <1>1, <2>1, <2>2, <2>3, ThenIsNow
<1>3. ASSUME NEW c \in AllChunks
      PROVE  /\ sa[c] \in Seq(Local(c)) /\ Len(sa[c]) \in Nat /\ DOMAIN sa[c] = 1 .. Len(sa[c])
             /\ \A j \in 1 .. Len(sa[c]) : sa[c][j] \in Local(c)
  <2>1. sa[c] \in Seq(Local(c))
    BY <1>2 DEF FilesOK, Sorted
  <2> QED
    BY <2>1, LenProperties, ElementOfSeq
<1> QED
  BY <1>1, <1>2, <1>3

(* Every chunk's triples carry its ranks and its next ranks.               *)
LEMMA CarriedTriples ==
  ASSUME Merging, NEW c \in AllChunks
  PROVE  /\ Carries(StretchAt[c], AllTriples[c], RankList(c), NextList(c))
         /\ NextList(c) \in Seq(Nat)
         /\ Len(NextList(c)) = IF IsEmpty(c) THEN 0 ELSE Len(sa[c])
         /\ \A j \in 1 .. Len(sa[c]) : RankList(c)[j] = ranks[c][sa[c][j]]
<1>1. /\ Shape /\ FilesOK(c) /\ CurrentOK(c) /\ RefinedOK(c)
      /\ sa[c] \in Seq(Local(c)) /\ Len(sa[c]) \in Nat /\ DOMAIN sa[c] = 1 .. Len(sa[c])
      /\ \A j \in 1 .. Len(sa[c]) : sa[c][j] \in Local(c)
  BY MergingFacts
<1>2. AllTriples[c] = Triples(currents[c], nexts[c])
  BY DEF AllTriples
<1>3. /\ RankList(c) = [j \in 1 .. Len(sa[c]) |-> ranks[c][sa[c][j]]]
  BY <1>1 DEF RankList
<1>4. RankList(c) \in Seq(Nat) /\ Len(RankList(c)) = Len(sa[c])
  <2>1. ranks[c] \in [Local(c) -> Nat]
    BY <1>1 DEF FilesOK
  <2>2. RankList(c) \in [1 .. Len(sa[c]) -> Nat]
    BY <1>1, <1>3, <2>1
  <2>3. RankList(c) \in Seq(Nat)
    BY <1>1, <2>2
  <2>4. DOMAIN RankList(c) = 1 .. Len(sa[c])
    BY <1>3
  <2> QED
    BY <1>1, <2>3, <2>4, LenProperties
<1>5. /\ \E st : Carries(st, AllTriples[c], RankList(c), NextList(c))
      /\ NextList(c) \in Seq(Nat)
      /\ Len(NextList(c)) = IF IsEmpty(c) THEN 0 ELSE Len(sa[c])
  <2>1. CASE IsEmpty(c)
    <3>1. nexts[c] = <<>>
      BY <1>1, <2>1 DEF RefinedOK
    <3>2. AllTriples[c] = <<>> /\ NextList(c) = <<>>
      BY <1>2, <3>1, NoTriples DEF NextList
    <3>3. Carries([i \in 1 .. 1 |-> 1], <<>>, RankList(c), <<>>)
      BY DEF Carries, Cuts, Counts
    <3>4. <<>> \in Seq(Nat) /\ Len(<<>>) = 0
      OBVIOUS
    <3> QED
      BY <2>1, <3>2, <3>3, <3>4
  <2>2. CASE ~ IsEmpty(c)
    <3>1. /\ NextList(c) \in Seq(Nat) /\ nexts[c] = Runs(NextList(c))
          /\ Len(NextList(c)) = Len(sa[c])
      BY <1>1, <2>2 DEF RefinedOK
    <3>2. currents[c] \in Seq(RunSet(Nat)) /\ Rising(currents[c]) /\ Expand(currents[c]) = RankList(c)
      BY <1>1 DEF FilesOK, CurrentOK
    <3>3. \E st : Carries(st, Triples(currents[c], Runs(NextList(c))), RankList(c), NextList(c))
      BY <1>4, <3>1, <3>2, TriplesAt
    <3> QED
      BY <1>2, <2>2, <3>1, <3>3
  <2> QED
    BY <2>1, <2>2
<1>6. StretchAt[c] = CHOOSE st : Carries(st, AllTriples[c], RankList(c), NextList(c))
  BY DEF StretchAt
<1>7. \A j \in 1 .. Len(sa[c]) : RankList(c)[j] = ranks[c][sa[c][j]]
  BY <1>3
<1> QED
  BY <1>5, <1>6, <1>7

(* The triples' stretches cover the positions that have a run, once each.  *)
LEMMA MergeSpread ==
  ASSUME Merging
  PROVE  Spread(AllTriples, StretchAt, PositionAt, D!Active)
<1>1. DOMAIN AllTriples = AllChunks
  BY DEF AllTriples
<1>2. ASSUME NEW c \in AllChunks
      PROVE  /\ AllTriples[c] \in Seq(TripleSet)
             /\ Cuts(StretchAt[c], Counts(AllTriples[c]), Len(AllTriples[c]))
             /\ StretchAt[c][Len(AllTriples[c]) + 1] = Len(NextList(c)) + 1
             /\ Len(NextList(c)) \in Nat
             /\ \A i \in 1 .. Len(NextList(c)) :
                  /\ ~ IsEmpty(c) /\ i \in 1 .. Len(sa[c])
                  /\ PositionAt[c][i] = At(c, sa[c][i])
                  /\ sa[c][i] \in Local(c)
  <2>1. /\ AllTriples[c] \in Seq(TripleSet)
        /\ Cuts(StretchAt[c], Counts(AllTriples[c]), Len(AllTriples[c]))
        /\ StretchAt[c][Len(AllTriples[c]) + 1] = Len(NextList(c)) + 1
    BY CarriedTriples DEF Carries
  <2>2. Len(NextList(c)) = IF IsEmpty(c) THEN 0 ELSE Len(sa[c])
    BY CarriedTriples
  <2>3. Len(sa[c]) \in Nat /\ \A j \in 1 .. Len(sa[c]) : sa[c][j] \in Local(c)
    BY MergingFacts
  <2>4. ASSUME NEW i \in 1 .. Len(NextList(c))
        PROVE  PositionAt[c][i] = At(c, sa[c][i])
    BY DEF PositionAt
  <2> QED
    BY <2>1, <2>2, <2>3, <2>4
<1>3. D!Active = {p \in Positions(text) : \E c \in AllChunks : \E j \in 1 .. Len(sa[c]) :
                    ~ IsEmpty(c) /\ p = At(c, sa[c][j])}
  BY MergingFacts, ActivePlaces
<1>4. ASSUME NEW c \in AllChunks
      PROVE  1 .. StretchAt[c][Len(AllTriples[c]) + 1] - 1 = 1 .. Len(NextList(c))
  <2> DEFINE n == Len(NextList(c))
             h == StretchAt[c][Len(AllTriples[c]) + 1]
  <2>1. n \in Nat /\ h = n + 1
    BY <1>2
  <2> HIDE DEF n, h
  <2>2. h - 1 = n
    BY <2>1
  <2> QED
    BY <2>2 DEF n, h
<1>5. ASSUME NEW c \in AllChunks, NEW i \in 1 .. Len(NextList(c))
      PROVE  PositionAt[c][i] \in D!Active
  <2>1. At(c, sa[c][i]) \in Positions(text)
    BY <1>2, MergingFacts, Places
  <2> QED
    BY <1>2, <1>3, <2>1
<1>6. ASSUME NEW c \in AllChunks, NEW d \in AllChunks,
             NEW i \in 1 .. Len(NextList(c)), NEW k \in 1 .. Len(NextList(d)),
             PositionAt[c][i] = PositionAt[d][k]
      PROVE  c = d /\ i = k
  <2>1. /\ i \in 1 .. Len(sa[c]) /\ k \in 1 .. Len(sa[d])
        /\ sa[c][i] \in Local(c) /\ sa[d][k] \in Local(d)
        /\ At(c, sa[c][i]) = At(d, sa[d][k])
    BY <1>2, <1>6
  <2>2. c = d /\ sa[c][i] = sa[d][k]
    BY <2>1, MergingFacts, SamePlace
  <2>3. Sorted(c, sa[c])
    BY MergingFacts DEF FilesOK
  <2> QED
    BY <2>1, <2>2, <2>3, MergingFacts, SortedOnce
<1>7. ASSUME NEW c \in AllChunks
      PROVE  /\ AllTriples[c] \in Seq(TripleSet)
             /\ Cuts(StretchAt[c], Counts(AllTriples[c]), Len(AllTriples[c]))
             /\ \A i \in 1 .. StretchAt[c][Len(AllTriples[c]) + 1] - 1 : PositionAt[c][i] \in D!Active
  <2>1. \A i \in 1 .. StretchAt[c][Len(AllTriples[c]) + 1] - 1 : i \in 1 .. Len(NextList(c))
    BY <1>4
  <2> QED
    BY <1>2, <1>5, <2>1
<1>8. ASSUME NEW c \in AllChunks, NEW d \in AllChunks,
             NEW i \in 1 .. StretchAt[c][Len(AllTriples[c]) + 1] - 1,
             NEW k \in 1 .. StretchAt[d][Len(AllTriples[d]) + 1] - 1,
             PositionAt[c][i] = PositionAt[d][k]
      PROVE  c = d /\ i = k
  <2>1. i \in 1 .. Len(NextList(c)) /\ k \in 1 .. Len(NextList(d))
    BY <1>4
  <2> QED
    BY <1>6, <1>8, <2>1
<1> QED
  BY <1>1, <1>7, <1>8 DEF Spread

(* A triple stands for entries of its chunk, with its rank and, where the  *)
(* text goes on, with the rank a prefix length further.                    *)
LEMMA StandsFacts ==
  ASSUME Merging, NEW x \in TripleIds(AllTriples), NEW p \in Stands(x)
  PROVE  /\ p \in D!Active /\ p \in Positions(text)
         /\ x[1] \in AllChunks
         /\ AllTriples[x[1]][x[2]].current = PrefixRank(text, prefix_len, p)
         /\ p + prefix_len \in Positions(text) =>
              AllTriples[x[1]][x[2]].next = PrefixRank(text, prefix_len, p + prefix_len)
<1> DEFINE c == x[1]
           j == x[2]
           st == StretchAt[c]
<1>1. Spread(AllTriples, StretchAt, PositionAt, D!Active)
  BY MergeSpread
<1>2. /\ c \in AllChunks /\ j \in 1 .. Len(AllTriples[c])
      /\ st[j] \in Nat /\ 1 <= st[j] /\ st[j + 1] \in Nat
      /\ st[j + 1] <= st[Len(AllTriples[c]) + 1]
      /\ st[Len(AllTriples[c]) + 1] \in Nat
  <2>1. DOMAIN AllTriples = AllChunks
    BY DEF AllTriples
  <2> QED
    BY <1>1, <2>1, TripleStretch
<1>3. PICK i \in st[j] .. st[j + 1] - 1 : p = PositionAt[c][i]
  BY DEF Stands, StandsFor
<1> HIDE DEF c, j, st
<1>4. /\ Carries(st, AllTriples[c], RankList(c), NextList(c))
      /\ Len(NextList(c)) = IF IsEmpty(c) THEN 0 ELSE Len(sa[c])
      /\ \A k \in 1 .. Len(sa[c]) : RankList(c)[k] = ranks[c][sa[c][k]]
  BY <1>2, CarriedTriples DEF st
<1>5. /\ Shape /\ D!IInv /\ RefinedOK(c) /\ ranks_then(c) = ranks[c] /\ prefix_len_then = prefix_len
      /\ Len(sa[c]) \in Nat /\ \A k \in 1 .. Len(sa[c]) : sa[c][k] \in Local(c)
  BY <1>2, MergingFacts
<1>6. st[Len(AllTriples[c]) + 1] = Len(NextList(c)) + 1
  BY <1>4 DEF Carries
<1>7. i \in 1 .. Len(NextList(c))
  <2>1. Len(NextList(c)) \in Nat
    BY <1>4, <1>5
  <2> DEFINE a == st[j]
             b == st[j + 1]
             h == st[Len(AllTriples[c]) + 1]
             n == Len(NextList(c))
  <2>2. a \in Nat /\ 1 <= a /\ b \in Nat /\ b <= h /\ h \in Nat /\ n \in Nat /\ h = n + 1 /\ i \in a .. b - 1
    BY <1>2, <1>3, <1>6, <2>1
  <2> HIDE DEF a, b, h, n
  <2>3. i \in 1 .. n
    BY <2>2
  <2> QED
    BY <2>3 DEF n
<1>8. ~ IsEmpty(c) /\ i \in 1 .. Len(sa[c])
  BY <1>4, <1>5, <1>7
<1>9. p = At(c, sa[c][i]) /\ sa[c][i] \in Local(c) /\ p \in Positions(text)
  BY <1>2, <1>3, <1>5, <1>7, <1>8, Places DEF PositionAt
<1>10. /\ AllTriples[c][j].current = ranks[c][sa[c][i]]
       /\ AllTriples[c][j].next = NextList(c)[i]
  BY <1>2, <1>3, <1>4, <1>8 DEF Carries
<1>11. ranks[c][sa[c][i]] = PrefixRank(text, prefix_len, p)
  <2>1. rank_then[p] = ranks[c][sa[c][i]]
    BY <1>2, <1>5, <1>9, RankThenAt
  <2>2. rank_then[p] = PrefixRank(text, prefix_len, p)
    BY <1>5, <1>9, DoublingFacts
  <2> QED
    BY <2>1, <2>2
<1>12. p + prefix_len \in Positions(text) =>
         NextList(c)[i] = PrefixRank(text, prefix_len, p + prefix_len)
  BY <1>5, <1>8, <1>9 DEF RefinedOK
<1>13. p \in D!Active
  <2>1. i \in 1 .. st[Len(AllTriples[c]) + 1] - 1
    <3>1. Len(NextList(c)) \in Nat
      BY <1>4, <1>5
    <3> DEFINE n == Len(NextList(c))
               h == st[Len(AllTriples[c]) + 1]
    <3>2. n \in Nat /\ h = n + 1 /\ i \in 1 .. n
      BY <1>6, <1>7, <3>1
    <3> HIDE DEF n, h
    <3>3. i \in 1 .. h - 1
      BY <3>2
    <3> QED
      BY <3>3 DEF h
  <2>2. DOMAIN AllTriples = AllChunks
    BY DEF AllTriples
  <2> QED
    BY <1>1, <1>2, <1>3, <2>1, <2>2 DEF Spread, st
<1> QED
  BY <1>2, <1>9, <1>10, <1>11, <1>12, <1>13 DEF c, j

(* Every position that has a run is stood for, by one triple.              *)
LEMMA StoodFor ==
  ASSUME Merging, NEW p \in D!Active
  PROVE  \E x \in TripleIds(AllTriples) : p \in Stands(x)
<1>10. PICK c \in AllChunks : \E i \in 1 .. Len(sa[c]) : ~ IsEmpty(c) /\ p = At(c, sa[c][i])
  BY MergingFacts, ActivePlaces
<1>1. PICK i \in 1 .. Len(sa[c]) : ~ IsEmpty(c) /\ p = At(c, sa[c][i])
  BY <1>10
<1> DEFINE st == StretchAt[c]
           m == Len(AllTriples[c])
           w == Counts(AllTriples[c])
<1>2. /\ Carries(st, AllTriples[c], RankList(c), NextList(c))
      /\ Len(NextList(c)) = Len(sa[c]) /\ Len(sa[c]) \in Nat
  BY <1>1, CarriedTriples, MergingFacts
<1>3. AllTriples[c] \in Seq(TripleSet) /\ Cuts(st, w, m) /\ st[m + 1] = Len(sa[c]) + 1
  BY <1>2 DEF Carries
<1>4. m \in Nat /\ DOMAIN AllTriples[c] = 1 .. m /\ w \in [1 .. m -> Nat]
  <2>1. m \in Nat /\ DOMAIN AllTriples[c] = 1 .. m
    BY <1>3, LenProperties
  <2>3. \A j \in 1 .. m : AllTriples[c][j] \in TripleSet
    BY <1>3, ElementOfSeq
  <2>2. \A j \in 1 .. m : AllTriples[c][j].count \in Nat
    BY <2>3 DEF TripleSet
  <2> QED
    BY <2>1, <2>2 DEF Counts
<1>5. i \in 1 .. st[m + 1] - 1
  <2> DEFINE h == st[m + 1]
             n == Len(sa[c])
  <2>1. n \in Nat /\ h = n + 1 /\ i \in 1 .. n
    BY <1>2, <1>3
  <2> HIDE DEF h, n
  <2>2. i \in 1 .. h - 1
    BY <2>1
  <2> QED
    BY <2>2 DEF h
<1> HIDE DEF st, m, w
<1>6. PICK j \in 1 .. m : i \in st[j] .. st[j + 1] - 1
  BY <1>3, <1>4, <1>5, CutCovers
<1>7. <<c, j>> \in TripleIds(AllTriples)
  <2>1. DOMAIN AllTriples = AllChunks
    BY DEF AllTriples
  <2>2. <<c, j>> \in {c} \X DOMAIN AllTriples[c]
    BY <1>4, <1>6
  <2> QED
    BY <2>1, <2>2 DEF TripleIds
<1>8. PositionAt[c][i] = p
  BY <1>1, <1>2 DEF PositionAt
<1>9. p \in Stands(<<c, j>>)
  BY <1>6, <1>8 DEF Stands, StandsFor, st
<1> QED
  BY <1>7, <1>9

(* A position is stood for by one triple alone.                            *)
LEMMA StandsOnce ==
  ASSUME Merging, NEW x \in TripleIds(AllTriples), NEW y \in TripleIds(AllTriples),
         NEW p \in Stands(x), p \in Stands(y)
  PROVE  x = y
<1>1. Spread(AllTriples, StretchAt, PositionAt, D!Active)
  BY MergeSpread
<1>2. /\ x = <<x[1], x[2]>> /\ x[1] \in DOMAIN AllTriples
      /\ x[2] \in 1 .. Len(AllTriples[x[1]])
      /\ StretchAt[x[1]][x[2]] \in Nat /\ 1 <= StretchAt[x[1]][x[2]]
      /\ StretchAt[x[1]][x[2] + 1] <= StretchAt[x[1]][Len(AllTriples[x[1]]) + 1]
      /\ StretchAt[x[1]][x[2] + 1] = StretchAt[x[1]][x[2]] + AllTriples[x[1]][x[2]].count
      /\ AllTriples[x[1]][x[2]].count \in Nat
      /\ StretchAt[x[1]][Len(AllTriples[x[1]]) + 1] \in Nat
      /\ Len(AllTriples[x[1]]) \in Nat
      /\ Counts(AllTriples[x[1]]) \in [1 .. Len(AllTriples[x[1]]) -> Nat]
  BY <1>1, TripleStretch
<1>3. /\ y = <<y[1], y[2]>> /\ y[1] \in DOMAIN AllTriples
      /\ y[2] \in 1 .. Len(AllTriples[y[1]])
      /\ StretchAt[y[1]][y[2]] \in Nat /\ 1 <= StretchAt[y[1]][y[2]]
      /\ StretchAt[y[1]][y[2] + 1] <= StretchAt[y[1]][Len(AllTriples[y[1]]) + 1]
      /\ StretchAt[y[1]][y[2] + 1] = StretchAt[y[1]][y[2]] + AllTriples[y[1]][y[2]].count
      /\ AllTriples[y[1]][y[2]].count \in Nat
      /\ StretchAt[y[1]][Len(AllTriples[y[1]]) + 1] \in Nat
  BY <1>1, TripleStretch
<1>4. PICK i \in StretchAt[x[1]][x[2]] .. StretchAt[x[1]][x[2] + 1] - 1 : p = PositionAt[x[1]][i]
  BY DEF Stands, StandsFor
<1>5. PICK k \in StretchAt[y[1]][y[2]] .. StretchAt[y[1]][y[2] + 1] - 1 : p = PositionAt[y[1]][k]
  BY DEF Stands, StandsFor
<1> DEFINE c == x[1]
           d == y[1]
<1>6. i \in 1 .. StretchAt[c][Len(AllTriples[c]) + 1] - 1
  <2> DEFINE a == StretchAt[c][x[2]]
             b == StretchAt[c][x[2] + 1]
             h == StretchAt[c][Len(AllTriples[c]) + 1]
  <2>1. a \in Nat /\ 1 <= a /\ b \in Nat /\ b <= h /\ h \in Nat /\ i \in a .. b - 1
    BY <1>2, <1>4
  <2> HIDE DEF a, b, h
  <2>2. i \in 1 .. h - 1
    BY <2>1
  <2> QED
    BY <2>2 DEF h
<1>7. k \in 1 .. StretchAt[d][Len(AllTriples[d]) + 1] - 1
  <2> DEFINE a == StretchAt[d][y[2]]
             b == StretchAt[d][y[2] + 1]
             h == StretchAt[d][Len(AllTriples[d]) + 1]
  <2>1. a \in Nat /\ 1 <= a /\ b \in Nat /\ b <= h /\ h \in Nat /\ k \in a .. b - 1
    BY <1>3, <1>5
  <2> HIDE DEF a, b, h
  <2>2. k \in 1 .. h - 1
    BY <2>1
  <2> QED
    BY <2>2 DEF h
<1>8. c \in DOMAIN AllTriples /\ d \in DOMAIN AllTriples /\ PositionAt[c][i] = PositionAt[d][k]
  BY <1>2, <1>3, <1>4, <1>5
<1>9. c = d /\ i = k /\ Cuts(StretchAt[c], Counts(AllTriples[c]), Len(AllTriples[c]))
  <2> HIDE DEF c, d
  <2> QED
    BY <1>1, <1>6, <1>7, <1>8 DEF Spread
<1>10. x[2] = y[2]
  <2> DEFINE m == Len(AllTriples[c])
             w == Counts(AllTriples[c])
             st == StretchAt[c]
             j == x[2]
             l == y[2]
  <2>1. /\ m \in Nat /\ w \in [1 .. m -> Nat] /\ j \in 1 .. m /\ l \in 1 .. m /\ Cuts(st, w, m)
        /\ i \in st[j] .. st[j + 1] - 1 /\ i \in st[l] .. st[l + 1] - 1
    BY <1>2, <1>3, <1>4, <1>5, <1>9
  <2> HIDE DEF m, w, st, j, l
  <2>2. j = l
    BY <2>1, CutOnce
  <2> QED
    BY <2>2 DEF j, l
<1> QED
  BY <1>2, <1>3, <1>9, <1>10

(* Entries of one group find the next ranks that PrefixDoubling finds,     *)
(* whatever refine's buffer held where the text has ended.                 *)
LEMMA TiedEntries ==
  ASSUME Merging, NEW x \in TripleIds(AllTriples), NEW y \in TripleIds(AllTriples),
         NEW p \in Stands(x), NEW q \in Stands(y), p # q
  PROVE  /\ AllTriples[x[1]][x[2]].current = AllTriples[y[1]][y[2]].current
              <=> rank_then[p] = rank_then[q]
         /\ rank_then[p] = rank_then[q] =>
              /\ PrefixEq(text, prefix_len, p, q)
              /\ AllTriples[x[1]][x[2]].next = D!NextRank(p)
              /\ AllTriples[y[1]][y[2]].next = D!NextRank(q)
<1>1. /\ Shape /\ D!IInv /\ prefix_len_then = prefix_len /\ text \in CodedText /\ prefix_len \in Nat
  BY MergingFacts, Places DEF Shape
<1>2. /\ p \in Positions(text) /\ q \in Positions(text)
      /\ AllTriples[x[1]][x[2]].current = PrefixRank(text, prefix_len, p)
      /\ AllTriples[y[1]][y[2]].current = PrefixRank(text, prefix_len, q)
      /\ p + prefix_len \in Positions(text) =>
           AllTriples[x[1]][x[2]].next = PrefixRank(text, prefix_len, p + prefix_len)
      /\ q + prefix_len \in Positions(text) =>
           AllTriples[y[1]][y[2]].next = PrefixRank(text, prefix_len, q + prefix_len)
  BY StandsFacts
<1>3. rank_then[p] = PrefixRank(text, prefix_len, p) /\ rank_then[q] = PrefixRank(text, prefix_len, q)
  BY <1>1, <1>2, DoublingFacts
<1>4. ASSUME rank_then[p] = rank_then[q]
      PROVE  /\ PrefixEq(text, prefix_len, p, q)
             /\ AllTriples[x[1]][x[2]].next = D!NextRank(p)
             /\ AllTriples[y[1]][y[2]].next = D!NextRank(q)
  <2>1. PrefixEq(text, prefix_len, p, q)
    BY <1>1, <1>2, <1>3, <1>4, RankDecides
  <2>2. /\ p + prefix_len \in Positions(text) /\ q + prefix_len \in Positions(text)
        /\ D!NextRank(p) = PrefixRank(text, prefix_len, p + prefix_len)
        /\ D!NextRank(q) = PrefixRank(text, prefix_len, q + prefix_len)
    BY <1>1, <1>2, <2>1, DoublingFacts
  <2> QED
    BY <1>2, <2>1, <2>2
<1> QED
  BY <1>2, <1>3, <1>4

(* The rank that merge gives a triple is the one that PrefixDoubling gives *)
(* its entries, and it resolves those that share it with no other.         *)
LEMMA Resolves ==
  ASSUME Merging, NEW x \in TripleIds(AllTriples), NEW p \in Stands(x)
  PROVE  /\ RunOf(AllTriples, AllTriples[x[1]][x[2]]).rank = PrefixRank(text, 2 * prefix_len, p)
         /\ RunOf(AllTriples, AllTriples[x[1]][x[2]]).count =
              IF D!Shared(p) THEN AllTriples[x[1]][x[2]].count ELSE 0
         /\ \A q \in Stands(x) : ~ D!Shared(p) => q = p
<1> DEFINE T == AllTriples
           t == T[x[1]][x[2]]
           before == GroupBefore(T, t)
           same == SamePairs(T, t)
           A == {q \in D!Active : \E y \in before : q \in Stands(y)}
           B == {q \in D!Active : \E y \in same : q \in Stands(y)}
<1>1. /\ Shape /\ D!IInv /\ prefix_len_then = prefix_len /\ text \in CodedText /\ prefix_len \in Nat
      /\ IsFiniteSet(Positions(text))
  BY MergingFacts, Places DEF Shape
<1>2. p \in D!Active /\ p \in Positions(text) /\ t.current = PrefixRank(text, prefix_len, p)
  BY StandsFacts
<1>3. /\ before = {y \in TripleIds(T) : T[y[1]][y[2]].current = t.current /\ T[y[1]][y[2]].next < t.next}
      /\ same = {y \in TripleIds(T) : T[y[1]][y[2]].current = t.current /\ T[y[1]][y[2]].next = t.next}
  BY DEF GroupBefore, SamePairs
<1>4. D!Active \subseteq Positions(text) /\ IsFiniteSet(D!Active)
  <2>1. D!Active \subseteq Positions(text)
    BY MergingFacts, ActivePlaces
  <2> QED
    BY <1>1, <2>1, FS_Subset
<1>5. /\ Cardinality(EntriesOf(T, before)) = Cardinality(A)
      /\ Cardinality(EntriesOf(T, same)) = Cardinality(B)
  <2>1. Spread(T, StretchAt, PositionAt, D!Active)
    BY MergeSpread
  <2>2. before \in SUBSET TripleIds(T) /\ same \in SUBSET TripleIds(T)
    BY <1>3
  <2>3. /\ A = {q \in D!Active : \E y \in before : q \in StandsFor(StretchAt, PositionAt, y)}
        /\ B = {q \in D!Active : \E y \in same : q \in StandsFor(StretchAt, PositionAt, y)}
    BY DEF Stands
  <2> HIDE DEF T, before, same, A, B
  <2> QED
    BY <1>4, <2>1, <2>2, <2>3, EntriesCount
<1>6. t.next \in Nat
  <2>1. t \in TripleSet
    BY MergeSpread, TripleStretch
  <2> QED
    BY <2>1 DEF TripleSet
<1>7. rank_then[p] = PrefixRank(text, prefix_len, p) /\ PrefixRank(text, prefix_len, p) \in Nat
  BY <1>1, <1>2, DoublingFacts, PrefixRankType
<1>8. \A q : q \in D!Group(p) <=> q \in D!Active /\ rank_then[q] = rank_then[p]
  BY DEF D!Group
<1>9. ~ (D!NextRank(p) < D!NextRank(p))
  <2>1. ASSUME NEW q, q \in Positions(text) PROVE rank_then[q] \in Nat
    <3>1. rank_then[q] = PrefixRank(text, prefix_len, q)
      BY <1>1, <2>1, DoublingFacts
    <3>2. PrefixRank(text, prefix_len, q) \in Nat
      BY <1>1, <2>1, PrefixRankType
    <3> QED
      BY <3>1, <3>2
  <2>2. D!Pos = Positions(text)
    BY <1>1, DoublingFacts
  <2>3. D!NextRank(p) \in Nat
    BY <2>1, <2>2 DEF D!NextRank
  <2> QED
    BY <2>3
<1> HIDE DEF t, T
<1>10. ASSUME NEW q \in A PROVE q \in D!Before(p)
  <2>1. PICK y \in before : q \in Stands(y)
    OBVIOUS
  <2>2. y \in TripleIds(T) /\ T[y[1]][y[2]].current = t.current /\ T[y[1]][y[2]].next < t.next
    BY <1>3, <2>1
  <2>3. q # p
    <3>1. y # x
      BY <1>6, <2>2 DEF t
    <3> QED
      BY <2>1, <2>2, <3>1, StandsOnce DEF T
  <2>4. /\ rank_then[q] = rank_then[p]
        /\ t.next = D!NextRank(p) /\ T[y[1]][y[2]].next = D!NextRank(q)
    BY <2>1, <2>2, <2>3, TiedEntries DEF t, T
  <2> QED
    BY <1>8, <2>2, <2>4 DEF D!Before
<1>11. ASSUME NEW q \in D!Before(p) PROVE q \in A
  <2>1. q \in D!Active /\ rank_then[q] = rank_then[p] /\ D!NextRank(q) < D!NextRank(p)
    BY <1>8 DEF D!Before
  <2>2. q # p
    BY <1>9, <2>1
  <2>3. PICK y \in TripleIds(T) : q \in Stands(y)
    BY <2>1, StoodFor DEF T
  <2>4. /\ T[y[1]][y[2]].current = t.current
        /\ t.next = D!NextRank(p) /\ T[y[1]][y[2]].next = D!NextRank(q)
    BY <2>1, <2>2, <2>3, TiedEntries DEF t, T
  <2>5. y \in before
    BY <1>3, <2>1, <2>3, <2>4
  <2> QED
    BY <2>1, <2>3, <2>5
<1>12. A = D!Before(p)
  BY <1>10, <1>11
<1>13. x \in same /\ p \in B
  <2>1. x \in same
    BY <1>3 DEF t, T
  <2> QED
    BY <1>2, <2>1
<1>14. ASSUME NEW q \in B, q # p PROVE D!Shared(p)
  <2>1. PICK y \in same : q \in Stands(y)
    OBVIOUS
  <2>2. y \in TripleIds(T) /\ T[y[1]][y[2]].current = t.current /\ T[y[1]][y[2]].next = t.next
    BY <1>3, <2>1
  <2>4. /\ rank_then[q] = rank_then[p]
        /\ t.next = D!NextRank(p) /\ T[y[1]][y[2]].next = D!NextRank(q)
    BY <1>14, <2>1, <2>2, TiedEntries DEF t, T
  <2>5. q \in D!Group(p) \ {p}
    BY <1>8, <1>14, <2>4
  <2> QED
    BY <2>2, <2>4, <2>5 DEF D!Shared
<1>15. ASSUME D!Shared(p) PROVE \E q \in B : q # p
  <2>1. PICK q \in D!Group(p) \ {p} : D!NextRank(q) = D!NextRank(p)
    BY <1>15 DEF D!Shared
  <2>2. q \in D!Active /\ rank_then[q] = rank_then[p] /\ q # p
    BY <1>8, <2>1
  <2>3. PICK y \in TripleIds(T) : q \in Stands(y)
    BY <2>2, StoodFor DEF T
  <2>4. /\ T[y[1]][y[2]].current = t.current
        /\ t.next = D!NextRank(p) /\ T[y[1]][y[2]].next = D!NextRank(q)
    BY <2>2, <2>3, TiedEntries DEF t, T
  <2>5. y \in same
    BY <1>3, <2>1, <2>3, <2>4
  <2> QED
    BY <2>2, <2>3, <2>5
<1> HIDE DEF A, B, before, same
<1>16. Cardinality(B) = 1 <=> ~ D!Shared(p)
  <2>1. IsFiniteSet(B)
    BY <1>4, FS_Subset DEF B
  <2>2. Cardinality(B) = 1 <=> \E q : B = {q}
    BY <2>1, FS_Singleton
  <2>3. (\E q : B = {q}) <=> B = {p}
    BY <1>13
  <2>4. B = {p} <=> ~ D!Shared(p)
    BY <1>13, <1>14, <1>15
  <2> QED
    BY <2>2, <2>3, <2>4
<1>17. PrefixRank(text, 2 * prefix_len, p) = rank_then[p] + Cardinality(D!Before(p))
  BY <1>1, <1>2, DoublingFacts
<1>18. /\ RunOf(T, t).rank = t.current + Cardinality(EntriesOf(T, before))
       /\ RunOf(T, t).count = IF Cardinality(EntriesOf(T, same)) = 1 THEN 0 ELSE t.count
  BY DEF RunOf, before, same
<1>19. RunOf(T, t).rank = PrefixRank(text, 2 * prefix_len, p)
  BY <1>2, <1>5, <1>7, <1>12, <1>17, <1>18
<1>20. RunOf(T, t).count = IF D!Shared(p) THEN t.count ELSE 0
  BY <1>5, <1>16, <1>18
<1>21. ASSUME NEW q \in Stands(x), ~ D!Shared(p) PROVE q = p
  <2>1. q \in B
    BY <1>13, StandsFacts DEF B, T
  <2> QED
    BY <1>14, <1>21, <2>1
<1> QED
  BY <1>19, <1>20, <1>21 DEF t, T

-----------------------------------------------------------------------------
(* Along a suffix array, ranks by prefixes of any length never fall.       *)
LEMMA SortedRanks ==
  ASSUME Shape, NEW c \in AllChunks, NEW o, Sorted(c, o),
         NEW a \in 1 .. Len(o), NEW b \in 1 .. Len(o), a < b, NEW M \in Nat
  PROVE  /\ At(c, o[a]) \in Positions(text) /\ At(c, o[b]) \in Positions(text)
         /\ ~ PrefixLess(text, M, At(c, o[b]), At(c, o[a]))
         /\ At(c, o[a]) # At(c, o[b])
<1> DEFINE p == At(c, o[a])
           q == At(c, o[b])
<1>1. o[a] \in Local(c) /\ o[b] \in Local(c)
  BY ElementOfSeq DEF Sorted
<1>2. p \in Positions(text) /\ q \in Positions(text) /\ text \in CodedText /\ Positions(text) \subseteq Nat
  BY <1>1, Places
<1>3. PrefixLess(text, Len(text) + 1, p, q) /\ Len(text) + 1 \in Nat
  BY <1>2, PositionsType DEF Sorted, SuffixLess
<1> HIDE DEF p, q
<1>4. ~ PrefixLess(text, M, q, p)
  BY <1>2, <1>3, NoInversion
<1>5. p # q
  BY <1>2, <1>3, NoInversion
<1> QED
  BY <1>2, <1>4, <1>5 DEF p, q

(* The entries that a triple stands for.                                   *)
LEMMA TripleEntries ==
  ASSUME Merging, NEW c \in AllChunks, NEW j \in 1 .. Len(AllTriples[c])
  PROVE  /\ <<c, j>> \in TripleIds(AllTriples)
         /\ ~ IsEmpty(c)
         /\ AllTriples[c][j] \in TripleSet /\ AllTriples[c][j].count # 0
         /\ StretchAt[c][j] \in Nat /\ 1 <= StretchAt[c][j]
         /\ StretchAt[c][j + 1] = StretchAt[c][j] + AllTriples[c][j].count
         /\ \A i \in StretchAt[c][j] .. StretchAt[c][j + 1] - 1 :
              i \in 1 .. Len(sa[c]) /\ At(c, sa[c][i]) \in Stands(<<c, j>>)
<1> DEFINE st == StretchAt[c]
           m == Len(AllTriples[c])
           N == Len(sa[c])
           x == <<c, j>>
<1>1. /\ Carries(st, AllTriples[c], RankList(c), NextList(c))
      /\ Len(NextList(c)) = IF IsEmpty(c) THEN 0 ELSE N
      /\ N \in Nat
  BY CarriedTriples, MergingFacts
<1>2. DOMAIN AllTriples = AllChunks /\ DOMAIN AllTriples[c] = 1 .. m
  BY <1>1, LenProperties DEF AllTriples, Carries
<1>3. x \in TripleIds(AllTriples)
  <2>1. x \in {c} \X DOMAIN AllTriples[c]
    BY <1>2
  <2> QED
    BY <1>2, <2>1 DEF TripleIds
<1>4. x[1] = c /\ x[2] = j
  OBVIOUS
<1>5. /\ AllTriples[c][j] \in TripleSet /\ AllTriples[c][j].count \in Nat
      /\ st[j] \in Nat /\ 1 <= st[j] /\ st[j + 1] = st[j] + AllTriples[c][j].count
      /\ st[j + 1] <= st[m + 1] /\ st[m + 1] \in Nat
  <2> HIDE DEF x
  <2> QED
    BY <1>3, <1>4, MergeSpread, TripleStretch
<1>6. AllTriples[c][j].count # 0 /\ st[m + 1] = Len(NextList(c)) + 1
  BY <1>1 DEF Carries
<1>7. ASSUME NEW i \in st[j] .. st[j + 1] - 1
      PROVE  i \in 1 .. Len(NextList(c))
  <2> DEFINE u == st[j]
             v == st[j + 1]
             h == st[m + 1]
             n == Len(NextList(c))
  <2>1. /\ u \in Nat /\ 1 <= u /\ v \in Int /\ v <= h /\ h = n + 1 /\ n \in Nat /\ i \in u .. v - 1
    BY <1>1, <1>5, <1>6
  <2> HIDE DEF u, v, h, n
  <2>2. i \in 1 .. n
    BY <2>1
  <2> QED
    BY <2>2 DEF n
<1>8. ~ IsEmpty(c)
  <2> DEFINE u == st[j]
             v == st[j + 1]
             k == AllTriples[c][j].count
  <2>1. u \in Nat /\ v = u + k /\ k \in Nat /\ k # 0
    BY <1>5, <1>6
  <2> HIDE DEF u, v, k
  <2>2. u \in u .. v - 1
    BY <2>1
  <2>3. st[j] \in st[j] .. st[j + 1] - 1
    BY <2>2 DEF u, v
  <2>4. 1 .. Len(NextList(c)) # {}
    BY <1>7, <2>3
  <2> QED
    BY <1>1, <2>4
<1>9. ASSUME NEW i \in st[j] .. st[j + 1] - 1
      PROVE  i \in 1 .. N /\ At(c, sa[c][i]) \in Stands(x)
  <2>1. i \in 1 .. Len(NextList(c)) /\ i \in 1 .. N
    BY <1>1, <1>7, <1>8, <1>9
  <2>2. PositionAt[c][i] = At(c, sa[c][i])
    BY <2>1 DEF PositionAt
  <2>3. i \in StretchAt[x[1]][x[2]] .. StretchAt[x[1]][x[2] + 1] - 1
    BY <1>4, <1>9
  <2> QED
    BY <1>4, <2>1, <2>2, <2>3 DEF Stands, StandsFor
<1> QED
  BY <1>3, <1>5, <1>6, <1>8, <1>9

(* The triples of a chunk come in the order of their pairs, and so do the  *)
(* ranks that merge gives them.                                            *)
LEMMA TriplesRise ==
  ASSUME Merging, NEW c \in AllChunks, NEW j \in 2 .. Len(AllTriples[c])
  PROVE  /\ LET t == AllTriples[c][j - 1]
                u == AllTriples[c][j]
            IN  t.current < u.current \/ (t.current = u.current /\ t.next < u.next)
         /\ RunOf(AllTriples, AllTriples[c][j - 1]).rank < RunOf(AllTriples, AllTriples[c][j]).rank
<1> DEFINE st == StretchAt[c]
           m == Len(AllTriples[c])
           k == j - 1
           t == AllTriples[c][k]
           u == AllTriples[c][j]
           a == st[k]
           b == st[j]
           p == At(c, sa[c][a])
           q == At(c, sa[c][b])
           x == <<c, k>>
           y == <<c, j>>
           L == prefix_len
<1>1. /\ Shape /\ D!IInv /\ prefix_len_then = L /\ text \in CodedText /\ L \in Nat /\ 2 * L \in Nat
      /\ Positions(text) \subseteq Nat
  BY MergingFacts, Places DEF Shape
<1>2. Carries(st, AllTriples[c], RankList(c), NextList(c))
  BY CarriedTriples
<1>3. m \in Nat /\ k \in 1 .. m /\ j \in 1 .. m /\ k + 1 = j
  BY <1>2, LenProperties DEF Carries
<1>4. /\ x \in TripleIds(AllTriples) /\ t \in TripleSet /\ t.count # 0
      /\ a \in Nat /\ st[k + 1] = a + t.count
      /\ \A i \in a .. st[k + 1] - 1 : i \in 1 .. Len(sa[c]) /\ At(c, sa[c][i]) \in Stands(x)
  BY <1>3, TripleEntries
<1>5. /\ y \in TripleIds(AllTriples) /\ u \in TripleSet /\ u.count # 0
      /\ b \in Nat /\ st[j + 1] = b + u.count
      /\ \A i \in b .. st[j + 1] - 1 : i \in 1 .. Len(sa[c]) /\ At(c, sa[c][i]) \in Stands(y)
  BY <1>3, TripleEntries
<1>6. t.count \in Nat /\ u.count \in Nat /\ t.current \in Nat /\ u.current \in Nat
      /\ t.next \in Nat /\ u.next \in Nat
  BY <1>4, <1>5 DEF TripleSet
<1>7. a \in 1 .. Len(sa[c]) /\ p \in Stands(x)
  <2> DEFINE v == st[k + 1]
             n == t.count
  <2>1. a \in Nat /\ n \in Nat /\ n # 0 /\ v = a + n
    BY <1>4, <1>6
  <2> HIDE DEF a, v, n
  <2>2. a \in a .. v - 1
    BY <2>1
  <2>3. a \in a .. st[k + 1] - 1
    BY <2>2 DEF v
  <2> QED
    BY <1>4, <2>3
<1>8. b \in 1 .. Len(sa[c]) /\ q \in Stands(y)
  <2> DEFINE v == st[j + 1]
             n == u.count
  <2>1. b \in Nat /\ n \in Nat /\ n # 0 /\ v = b + n
    BY <1>5, <1>6
  <2> HIDE DEF b, v, n
  <2>2. b \in b .. v - 1
    BY <2>1
  <2>3. b \in b .. st[j + 1] - 1
    BY <2>2 DEF v
  <2> QED
    BY <1>5, <2>3
<1>9. a < b
  <2>1. b = a + t.count
    BY <1>3, <1>4
  <2> DEFINE n == t.count
  <2>2. a \in Nat /\ b = a + n /\ n \in Nat /\ n # 0
    BY <1>4, <1>6, <2>1
  <2> HIDE DEF a, b, n
  <2> QED
    BY <2>2
<1>10. /\ p \in Positions(text) /\ q \in Positions(text) /\ p # q
       /\ ~ PrefixLess(text, 2 * L, q, p)
  <2>1. Sorted(c, sa[c])
    BY MergingFacts DEF FilesOK
  <2> HIDE DEF a, b
  <2> QED
    BY <1>1, <1>7, <1>8, <1>9, <2>1, SortedRanks
<1>11. /\ t.current = PrefixRank(text, L, p)
       /\ u.current = PrefixRank(text, L, q)
  <2>1. x[1] = c /\ x[2] = k /\ y[1] = c /\ y[2] = j
    OBVIOUS
  <2> HIDE DEF x, y
  <2> QED
    BY <1>4, <1>5, <1>7, <1>8, <2>1, StandsFacts
<1>12. /\ RunOf(AllTriples, t).rank = PrefixRank(text, 2 * L, p)
       /\ RunOf(AllTriples, u).rank = PrefixRank(text, 2 * L, q)
  <2>1. x[1] = c /\ x[2] = k /\ y[1] = c /\ y[2] = j
    OBVIOUS
  <2> HIDE DEF x, y
  <2> QED
    BY <1>4, <1>5, <1>7, <1>8, <2>1, Resolves
<1>13. t.current = u.current =>
         /\ PrefixEq(text, L, p, q)
         /\ p + L \in Positions(text) /\ q + L \in Positions(text)
         /\ t.next = PrefixRank(text, L, p + L) /\ u.next = PrefixRank(text, L, q + L)
  <2> SUFFICES ASSUME t.current = u.current
               PROVE  /\ PrefixEq(text, L, p, q)
                      /\ p + L \in Positions(text) /\ q + L \in Positions(text)
                      /\ t.next = PrefixRank(text, L, p + L) /\ u.next = PrefixRank(text, L, q + L)
    OBVIOUS
  <2>1. PrefixEq(text, L, p, q)
    BY <1>1, <1>10, <1>11, RankDecides, ZenonT(40)
  <2>2. p + L \in Positions(text) /\ q + L \in Positions(text)
    BY <1>1, <1>10, <2>1, SentinelDecides
  <2>3. x[1] = c /\ x[2] = k /\ y[1] = c /\ y[2] = j
    OBVIOUS
  <2>4. t.next = PrefixRank(text, L, p + L) /\ u.next = PrefixRank(text, L, q + L)
    <3> HIDE DEF x, y, p, q
    <3> QED
      BY <1>4, <1>5, <1>7, <1>8, <2>2, <2>3, StandsFacts
  <2> QED
    BY <2>1, <2>2, <2>4
<1>14. t.current < u.current \/ (t.current = u.current /\ t.next # u.next)
  BY <1>2 DEF Carries
<1> HIDE DEF t, u, p, q, L
<1>15. CASE t.current < u.current
  <2>1. PrefixLess(text, L, p, q)
    BY <1>1, <1>10, <1>11, <1>15, RankDecides
  <2>2. PrefixLess(text, 2 * L, p, q)
    BY <1>1, <1>10, <2>1, DoubleLess
  <2>3. PrefixRank(text, 2 * L, p) < PrefixRank(text, 2 * L, q)
    BY <1>1, <1>10, <2>2, LessRank
  <2> QED
    BY <1>12, <1>15, <2>3 DEF t, u
<1>16. CASE t.current = u.current /\ t.next # u.next
  <2>1. /\ PrefixEq(text, L, p, q) /\ PrefixEq(text, L, q, p)
        /\ p + L \in Positions(text) /\ q + L \in Positions(text)
        /\ t.next = PrefixRank(text, L, p + L) /\ u.next = PrefixRank(text, L, q + L)
    BY <1>1, <1>10, <1>13, <1>16, PrefixEqEquivalence
  <2>2. ~ PrefixEq(text, L, p + L, q + L)
    BY <1>1, <1>16, <2>1, RankDecides
  <2>3. ~ PrefixLess(text, L, q + L, p + L)
    BY <1>1, <1>10, <2>1, DoubleLess
  <2>4. PrefixLess(text, L, p + L, q + L)
    BY <1>1, <2>1, <2>2, <2>3, Trichotomy
  <2>5. t.next < u.next
    BY <1>1, <2>1, <2>4, RankDecides
  <2>6. PrefixLess(text, 2 * L, p, q)
    BY <1>1, <1>10, <2>1, <2>4, DoubleLess
  <2>7. PrefixRank(text, 2 * L, p) < PrefixRank(text, 2 * L, q)
    BY <1>1, <1>10, <2>6, LessRank
  <2> QED
    BY <1>12, <1>16, <2>5, <2>7 DEF t, u
<1> QED
  BY <1>14, <1>15, <1>16

(* What merge writes for a chunk that has runs: a stream that covers its   *)
(* suffix array, says the doubled ranks, and marks what nothing shares.    *)
MergedStream(c) == Resolved(AllTriples)[c]

LEMMA MergedChunk ==
  ASSUME Merging, NEW c \in AllChunks
  PROVE  /\ MergedStream(c) \in Seq(RunSet(Nat))
         /\ Rising(MergedStream(c))
         /\ IsEmpty(c) => MergedStream(c) = <<>>
         /\ ~ IsEmpty(c) =>
              /\ Len(Slots(MergedStream(c))) = Len(sa[c])
              /\ \A i \in 1 .. Len(sa[c]) :
                   /\ Expand(MergedStream(c))[i] = PrefixRank(text, 2 * prefix_len, At(c, sa[c][i]))
                   /\ MergedStream(c)[Slots(MergedStream(c))[i]].count # 0
                        <=> D!Shared(At(c, sa[c][i]))
<1> DEFINE st == StretchAt[c]
           m == Len(AllTriples[c])
           g == MergedStream(c)
           N == Len(sa[c])
<1>1. /\ Shape /\ text \in CodedText /\ 2 * prefix_len \in Nat /\ N \in Nat
      /\ Positions(text) \subseteq Nat
  BY MergingFacts, Places DEF Shape
<1>2. /\ Carries(st, AllTriples[c], RankList(c), NextList(c))
      /\ Len(NextList(c)) = IF IsEmpty(c) THEN 0 ELSE N
  BY CarriedTriples
<1>3. m \in Nat /\ DOMAIN AllTriples[c] = 1 .. m
  BY <1>2, LenProperties DEF Carries
<1>4. g = [j \in 1 .. m |-> RunOf(AllTriples, AllTriples[c][j])]
  <2>1. c \in DOMAIN AllTriples
    BY DEF AllTriples
  <2> QED
    BY <1>3, <2>1 DEF MergedStream, Resolved
<1>5. Cuts(st, Counts(AllTriples[c]), m) /\ st[m + 1] = Len(NextList(c)) + 1
  BY <1>2 DEF Carries
<1> DEFINE First(j) == At(c, sa[c][st[j]])
<1>6. ASSUME NEW j \in 1 .. m
      PROVE  /\ First(j) \in Stands(<<c, j>>)
             /\ AllTriples[c][j].count \in Nat \ {0}
             /\ st[j] \in Nat /\ st[j + 1] = st[j] + AllTriples[c][j].count
             /\ \A i \in st[j] .. st[j + 1] - 1 : i \in 1 .. N /\ At(c, sa[c][i]) \in Stands(<<c, j>>)
  <2>1. /\ AllTriples[c][j] \in TripleSet /\ AllTriples[c][j].count # 0
        /\ st[j] \in Nat /\ st[j + 1] = st[j] + AllTriples[c][j].count
        /\ \A i \in st[j] .. st[j + 1] - 1 : i \in 1 .. N /\ At(c, sa[c][i]) \in Stands(<<c, j>>)
    BY TripleEntries
  <2>2. AllTriples[c][j].count \in Nat \ {0}
    BY <2>1 DEF TripleSet
  <2>3. st[j] \in st[j] .. st[j + 1] - 1
    <3> DEFINE u == st[j]
               v == st[j + 1]
               k == AllTriples[c][j].count
    <3>1. u \in Nat /\ k \in Nat \ {0} /\ v = u + k
      BY <2>1, <2>2
    <3> HIDE DEF u, v, k
    <3>2. u \in u .. v - 1
      BY <3>1
    <3> QED
      BY <3>2 DEF u, v
  <2> QED
    BY <2>1, <2>2, <2>3
<1>7. ASSUME NEW j \in 1 .. m, NEW p \in Stands(<<c, j>>)
      PROVE  /\ g[j].rank = PrefixRank(text, 2 * prefix_len, p)
             /\ g[j].rank \in Nat
             /\ g[j].count = IF D!Shared(p) THEN AllTriples[c][j].count ELSE 0
             /\ \A q \in Stands(<<c, j>>) : ~ D!Shared(p) => q = p
  <2> DEFINE x == <<c, j>>
  <2>1. x[1] = c /\ x[2] = j /\ x \in TripleIds(AllTriples) /\ p \in Stands(x)
    BY TripleEntries
  <2>2. g[j] = RunOf(AllTriples, AllTriples[c][j])
    BY <1>4
  <2> HIDE DEF x, g
  <2>3. /\ g[j].rank = PrefixRank(text, 2 * prefix_len, p)
        /\ g[j].count = IF D!Shared(p) THEN AllTriples[c][j].count ELSE 0
        /\ \A q \in Stands(x) : ~ D!Shared(p) => q = p
    BY <2>1, <2>2, Resolves
  <2>4. p \in Positions(text)
    BY <2>1, StandsFacts
  <2>5. PrefixRank(text, 2 * prefix_len, p) \in Nat
    BY <1>1, <2>4, PrefixRankType
  <2> QED
    BY <2>3, <2>5 DEF x
<1>8. ASSUME NEW j \in 1 .. m
      PROVE  g[j] \in RunSet(Nat) /\ Width(g[j]) = AllTriples[c][j].count
  <2> DEFINE p == First(j)
             k == AllTriples[c][j].count
  <2>1. /\ p \in Stands(<<c, j>>) /\ k \in Nat \ {0}
        /\ st[j] \in Nat /\ st[j + 1] = st[j] + k
        /\ \A i \in st[j] .. st[j + 1] - 1 : i \in 1 .. N /\ At(c, sa[c][i]) \in Stands(<<c, j>>)
    BY <1>6
  <2> HIDE DEF p
  <2>2. /\ g[j].rank \in Nat /\ g[j].count = IF D!Shared(p) THEN k ELSE 0
        /\ \A q \in Stands(<<c, j>>) : ~ D!Shared(p) => q = p
    BY <1>7, <2>1
  <2>3. g[j] = [rank |-> g[j].rank, count |-> g[j].count]
    BY <1>4 DEF RunOf
  <2>4. g[j] \in RunSet(Nat)
    BY <2>1, <2>2, <2>3 DEF RunSet
  <2>5. k = 1 \/ D!Shared(p)
    <3> SUFFICES ASSUME k # 1, ~ D!Shared(p) PROVE FALSE
      OBVIOUS
    <3> DEFINE u == st[j]
               v == st[j + 1]
    <3>1. u \in Nat /\ k \in Nat /\ k # 0 /\ k # 1 /\ v = u + k
      BY <2>1
    <3> HIDE DEF u, v, k
    <3>2. u \in u .. v - 1 /\ u + 1 \in u .. v - 1 /\ u < u + 1
      BY <3>1
    <3>3. /\ u \in 1 .. N /\ u + 1 \in 1 .. N
          /\ At(c, sa[c][u]) \in Stands(<<c, j>>) /\ At(c, sa[c][u + 1]) \in Stands(<<c, j>>)
      BY <2>1, <3>2 DEF u, v, k
    <3>4. At(c, sa[c][u]) = At(c, sa[c][u + 1])
      BY <2>2, <3>3
    <3>5. Sorted(c, sa[c])
      BY MergingFacts DEF FilesOK
    <3> QED
      BY <1>1, <3>2, <3>3, <3>4, <3>5, SortedRanks DEF N
  <2>6. Width(g[j]) = k
    BY <2>1, <2>2, <2>5 DEF Width
  <2> QED
    BY <2>4, <2>6
<1>9. g \in Seq(RunSet(Nat)) /\ Len(g) = m
  <2>1. g \in [1 .. m -> RunSet(Nat)]
    BY <1>4, <1>8
  <2> HIDE DEF g, m
  <2> QED
    BY <1>3, <2>1, LenProperties
<1>10. Rising(g)
  <2> SUFFICES ASSUME NEW j \in 2 .. Len(g) PROVE g[j - 1].rank < g[j].rank
    BY DEF Rising
  <2>1. j \in 2 .. m /\ j \in 1 .. m /\ j - 1 \in 1 .. m
    BY <1>3, <1>9
  <2>2. g[j - 1] = RunOf(AllTriples, AllTriples[c][j - 1]) /\ g[j] = RunOf(AllTriples, AllTriples[c][j])
    BY <1>4, <2>1
  <2> QED
    BY <2>1, <2>2, TriplesRise
<1>11. ASSUME IsEmpty(c) PROVE g = <<>>
  <2>1. m = 0
    <3> SUFFICES ASSUME m # 0 PROVE FALSE
      OBVIOUS
    <3>1. 1 \in 1 .. m
      BY <1>3
    <3> QED
      BY <1>11, <3>1, TripleEntries
  <2>2. g = [j \in 1 .. 0 |-> RunOf(AllTriples, AllTriples[c][j])]
    BY <1>4, <2>1
  <2> QED
    BY <2>2
<1>12. Cuts(st, Widths(g), Len(g))
  <2>1. Widths(g) = Counts(AllTriples[c])
    <3> HIDE DEF g
    <3> QED
      BY <1>8, <1>9 DEF Widths, Counts
  <2> QED
    BY <1>5, <1>9, <2>1
<1>13. ASSUME ~ IsEmpty(c)
       PROVE  /\ Len(Slots(g)) = N
              /\ \A i \in 1 .. N :
                   /\ Expand(g)[i] = PrefixRank(text, 2 * prefix_len, At(c, sa[c][i]))
                   /\ g[Slots(g)[i]].count # 0 <=> D!Shared(At(c, sa[c][i]))
  <2>1. Len(Slots(g)) = N /\ Slots(g) \in Seq(1 .. Len(g))
    <3> HIDE DEF g, st, m, N
    <3>1. Len(Slots(g)) = st[m + 1] - 1 /\ Slots(g) \in Seq(1 .. Len(g))
      BY <1>9, <1>12, SlotsAt
    <3>2. st[m + 1] = N + 1
      BY <1>2, <1>5, <1>13
    <3> QED
      BY <1>1, <3>1, <3>2
  <2>2. DOMAIN Slots(g) = 1 .. N
    <3> HIDE DEF g, N
    <3> QED
      BY <2>1, LenProperties
  <2>3. ASSUME NEW i \in 1 .. N
        PROVE  /\ Expand(g)[i] = PrefixRank(text, 2 * prefix_len, At(c, sa[c][i]))
               /\ g[Slots(g)[i]].count # 0 <=> D!Shared(At(c, sa[c][i]))
    <3> DEFINE j == Slots(g)[i]
               p == At(c, sa[c][i])
    <3>1. j \in 1 .. m /\ i \in st[j] .. st[j + 1] - 1
      <4> HIDE DEF g, st, m, N
      <4> QED
        BY <1>9, <1>12, <2>1, SlotOf
    <3>2. Expand(g)[i] = g[j].rank
      BY <2>2 DEF Expand
    <3> HIDE DEF j, g
    <3>3. p \in Stands(<<c, j>>) /\ AllTriples[c][j].count # 0
      BY <1>6, <3>1
    <3> HIDE DEF p
    <3>4. /\ g[j].rank = PrefixRank(text, 2 * prefix_len, p)
          /\ g[j].count = IF D!Shared(p) THEN AllTriples[c][j].count ELSE 0
      BY <1>7, <3>1, <3>3
    <3> QED
      BY <3>2, <3>3, <3>4 DEF j, p
  <2> QED
    BY <2>1, <2>3
<1> QED
  BY <1>9, <1>10, <1>11, <1>13

-----------------------------------------------------------------------------
(* A stream that says a list's ranks covers it entry by entry.             *)
LEMMA ExpandLength ==
  ASSUME NEW runs \in Seq(RunSet(Nat)), NEW n \in Nat, DOMAIN Expand(runs) = 1 .. n
  PROVE  Len(Slots(runs)) = n
<1>1. PICK st : Cuts(st, Widths(runs), Len(runs))
  BY StreamCut
<1>2. Slots(runs) \in Seq(1 .. Len(runs))
  BY <1>1, SlotsAt
<1>3. Len(Slots(runs)) \in Nat /\ DOMAIN Slots(runs) = 1 .. Len(Slots(runs))
  BY <1>2, LenProperties
<1>4. 1 .. Len(Slots(runs)) = 1 .. n
  BY <1>3 DEF Expand
<1> QED
  BY <1>3, <1>4, SameInterval

(* merge meets streams that fit one another, and a heap that is not empty. *)
LEMMA MergeSucceeds ==
  ASSUME Merging
  PROVE  /\ \A c \in AllChunks : ~ StreamsDisagree(currents[c], nexts[c])
         /\ AllTriples # [c \in AllChunks |-> <<>>]
         /\ D!Active # {}
<1>1. ASSUME NEW c \in AllChunks PROVE ~ StreamsDisagree(currents[c], nexts[c])
  <2>1. /\ currents[c] \in Seq(RunSet(Nat)) /\ nexts[c] \in Seq(RunSet(Nat))
        /\ Expand(currents[c]) = RankList(c)
        /\ Len(sa[c]) \in Nat /\ DOMAIN RankList(c) = 1 .. Len(sa[c])
    BY MergingFacts DEF FilesOK, CurrentOK, RankList
  <2>2. Len(Slots(currents[c])) = Len(sa[c])
    BY <2>1, ExpandLength
  <2>3. NextList(c) \in Seq(Nat) /\ Len(NextList(c)) = IF IsEmpty(c) THEN 0 ELSE Len(sa[c])
    BY CarriedTriples
  <2>4. Len(NextList(c)) \in Nat /\ DOMAIN Expand(nexts[c]) = 1 .. Len(NextList(c))
    BY <2>3, LenProperties DEF NextList
  <2>5. Len(Slots(nexts[c])) = Len(NextList(c))
    BY <2>1, <2>4, ExpandLength
  <2>6. ~ (Len(sa[c]) < Len(NextList(c)))
    BY <2>1, <2>3
  <2> QED
    BY <2>2, <2>5, <2>6 DEF StreamsDisagree
<1>2. PICK c \in AllChunks : HasRun(c)
  BY DEF Merging, IInv, PassOK, Done
<1>3. ~ IsEmpty(c) /\ sa[c] # <<>> /\ sa[c] \in Seq(Local(c)) /\ Len(sa[c]) \in Nat
  BY <1>2, MergingFacts DEF HasRun
<1>4. 1 \in 1 .. Len(sa[c])
  BY <1>3, EmptySeq
<1>5. At(c, sa[c][1]) \in D!Active
  <2>1. At(c, sa[c][1]) \in Positions(text)
    BY <1>4, MergingFacts, Places
  <2> QED
    BY <1>3, <1>4, <2>1, MergingFacts, ActivePlaces
<1>6. PICK x \in TripleIds(AllTriples) : At(c, sa[c][1]) \in Stands(x)
  BY <1>5, StoodFor
<1>7. AllTriples # [d \in AllChunks |-> <<>>]
  <2> SUFFICES ASSUME AllTriples = [d \in AllChunks |-> <<>>] PROVE FALSE
    OBVIOUS
  <2>1. TripleIds(AllTriples) = {}
    BY DEF TripleIds
  <2> QED
    BY <1>6, <2>1
<1> QED
  BY <1>1, <1>5, <1>7

(* What an iteration of PrefixDoubling does to the places of a chunk is    *)
(* what update will make of what merge has written.                        *)
LEMMA MergeFiles ==
  ASSUME Merging, MergeRuns
  PROVE  /\ Shape' /\ AllChunks' = AllChunks /\ pc' = "update"
         /\ UNCHANGED <<text, chunk_size, prefix_len, files>>
         /\ \A c \in AllChunks :
              /\ FilesOK(c)' /\ Local(c)' = Local(c)
              /\ Pending(c)' => /\ ~ IsEmpty(c) /\ global'[c] = MergedStream(c)
                                /\ MergedOK(c)' /\ UpdateOK(c)'
              /\ ~ Pending(c)' => CurrentOK(c)' /\ (IsEmpty(c) \/ sa[c] = <<>>)
<1>1. /\ pc' = "update" /\ chunk' = 0 /\ global' = Resolved(AllTriples)
      /\ UNCHANGED <<text, chunk_size, prefix_len, files, nexts, next_ranks_buffer, status>>
  BY MergeSucceeds DEF MergeRuns
<1>2. /\ text' = text /\ chunk_size' = chunk_size /\ prefix_len' = prefix_len
      /\ ranks' = ranks /\ sa' = sa /\ currents' = currents /\ bounds' = bounds
      /\ nexts' = nexts /\ next_ranks_buffer' = next_ranks_buffer /\ status' = status
  BY <1>1 DEF files
<1>3. AllChunks' = AllChunks /\ TotalChunks' = TotalChunks /\ (\A c : Local(c)' = Local(c))
  BY <1>2 DEF AllChunks, TotalChunks, Local
<1>4. DOMAIN global' = AllChunks
  BY <1>1 DEF Resolved, AllTriples
<1>5. Shape'
  <2>1. 0 \in 0 .. TotalChunks
    BY MergingFacts, Places
  <2> QED
    BY <1>1, <1>2, <1>3, <1>4, <2>1, MergingFacts DEF Shape
<1>6. ASSUME NEW c \in AllChunks
      PROVE  FilesOK(c)' /\ global'[c] = MergedStream(c)
  <2>1. global'[c] = MergedStream(c) /\ global'[c] \in Seq(RunSet(Nat))
    BY <1>1, MergedChunk DEF MergedStream
  <2>2. Window(c)' = Window(c) /\ Sorted(c, sa[c])' /\ FilesOK(c)
    <3>1. FilesOK(c) /\ Sorted(c, sa[c])
      BY MergingFacts DEF FilesOK
    <3> QED
      BY <1>2, <1>3, <3>1 DEF Window, Sorted, At
  <2> QED
    BY <1>2, <1>3, <2>1, <2>2 DEF FilesOK
<1>7. \A c : IsEmpty(c)' <=> IsEmpty(c)
  BY <1>2 DEF IsEmpty
<1>8. ASSUME NEW c \in AllChunks
      PROVE  Pending(c)' <=> ~ IsEmpty(c) /\ global'[c] # <<>>
  <2>1. 0 <= c
    BY MergingFacts, Places
  <2> QED
    BY <1>1, <1>7, <2>1 DEF Pending, Skips
<1>11. Shape' => \A c \in AllChunks' : FilesOK(c)' /\ MergedOK(c)' => UpdateOK(c)'
  <2>1. (Shape => \A c \in AllChunks : FilesOK(c) /\ MergedOK(c) => UpdateOK(c))'
    BY UpdatedFiles, PTL
  <2> QED
    BY <2>1
<1>9. ASSUME NEW c \in AllChunks, Pending(c)'
      PROVE  ~ IsEmpty(c) /\ MergedOK(c)' /\ UpdateOK(c)'
  <2>1. ~ IsEmpty(c) /\ global'[c] = MergedStream(c)
    BY <1>6, <1>8, <1>9
  <2>2. Rising(MergedStream(c)) /\ Len(Slots(MergedStream(c))) = Len(sa[c])
    BY <2>1, MergedChunk
  <2>3. MergedOK(c)'
    BY <1>2, <2>1, <2>2 DEF MergedOK
  <2> QED
    BY <1>3, <1>5, <1>6, <1>11, <2>1, <2>3
<1>10. ASSUME NEW c \in AllChunks, ~ Pending(c)'
       PROVE  CurrentOK(c)' /\ (IsEmpty(c) \/ sa[c] = <<>>)
  <2>1. CurrentOK(c)'
    BY <1>2, MergingFacts DEF CurrentOK, RankList
  <2>2. IsEmpty(c) \/ sa[c] = <<>>
    <3> SUFFICES ASSUME ~ IsEmpty(c) PROVE sa[c] = <<>>
      OBVIOUS
    <3>1. MergedStream(c) = <<>>
      BY <1>6, <1>8, <1>10
    <3>2. Len(sa[c]) = 0
      BY <3>1, MergedChunk, NoTriples
    <3>3. sa[c] \in Seq(Local(c))
      BY MergingFacts
    <3> QED
      BY <3>2, <3>3, EmptySeq
  <2> QED
    BY <2>1, <2>2
<1> QED
  BY <1>1, <1>3, <1>5, <1>6, <1>9, <1>10

LEMMA MergeIterates ==
  ASSUME Merging, MergeRuns
  PROVE  D!Iterate
<1>1. /\ Shape /\ D!IInv /\ pc # "update" /\ prefix_len_then = prefix_len
      /\ \A c \in AllChunks : /\ FilesOK(c) /\ sa[c] \in Seq(Local(c))
                              /\ ranks_then(c) = ranks[c]
                              /\ Len(sa[c]) \in Nat /\ DOMAIN sa[c] = 1 .. Len(sa[c])
                              /\ \A j \in 1 .. Len(sa[c]) : sa[c][j] \in Local(c)
  BY MergingFacts
<1>2. /\ Shape' /\ AllChunks' = AllChunks /\ pc' = "update"
      /\ text' = text /\ chunk_size' = chunk_size /\ prefix_len' = prefix_len
      /\ ranks' = ranks /\ sa' = sa
  BY MergeFiles DEF files
<1>3. D!Active = {p \in Positions(text) : \E c \in AllChunks : \E j \in 1 .. Len(sa[c]) :
                    ~ IsEmpty(c) /\ p = At(c, sa[c][j])}
  BY <1>1, ActivePlaces
<1>4. ASSUME NEW c \in AllChunks, NEW i \in Local(c)
      PROVE  /\ At(c, i) \in Positions(text)
             /\ At(c, i) \in D!Active <=> ~ IsEmpty(c) /\ \E j \in 1 .. Len(sa[c]) : i = sa[c][j]
  <2>1. At(c, i) \in Positions(text)
    BY <1>1, Places
  <2>2. ASSUME At(c, i) \in D!Active
        PROVE  ~ IsEmpty(c) /\ \E j \in 1 .. Len(sa[c]) : i = sa[c][j]
    <3>1. PICK d \in AllChunks : \E j \in 1 .. Len(sa[d]) : ~ IsEmpty(d) /\ At(c, i) = At(d, sa[d][j])
      BY <1>3, <2>2
    <3>2. PICK j \in 1 .. Len(sa[d]) : ~ IsEmpty(d) /\ At(c, i) = At(d, sa[d][j])
      BY <3>1
    <3>3. c = d /\ i = sa[d][j]
      BY <1>1, <3>2, SamePlace
    <3> QED
      BY <3>2, <3>3
  <2> QED
    BY <1>3, <2>1, <2>2
<1>5. ASSUME NEW c \in AllChunks, NEW i \in Local(c)
      PROVE  ranks_then(c)'[i] = PrefixRank(text, 2 * prefix_len, At(c, i))
  <2> DEFINE p == At(c, i)
  <2>1. /\ p \in Positions(text)
        /\ p \in D!Active <=> ~ IsEmpty(c) /\ \E j \in 1 .. Len(sa[c]) : i = sa[c][j]
    BY <1>4
  <2>2. rank_then[p] = ranks[c][i]
    BY <1>1, RankThenAt
  <2>3. p \notin D!Active => PrefixRank(text, 2 * prefix_len, p) = ranks[c][i]
    BY <1>1, <2>1, <2>2, DoublingFacts
  <2>4. CASE Pending(c)'
    <3>1. ~ IsEmpty(c) /\ global'[c] = MergedStream(c) /\ UpdateOK(c)' /\ Local(c)' = Local(c)
      BY <2>4, MergeFiles
    <3>2. ranks_then(c)' = UpdatedRanks(c)'
      BY <2>4 DEF ranks_then
    <3>3. /\ \A j \in 1 .. Len(sa[c]) : UpdatedRanks(c)'[sa[c][j]] = Expand(global'[c])[j]
          /\ \A k \in Local(c) \ Range(sa[c]) : UpdatedRanks(c)'[k] = ranks[c][k]
      BY <1>2, <3>1 DEF UpdateOK
    <3>4. CASE \E j \in 1 .. Len(sa[c]) : i = sa[c][j]
      <4>1. PICK j \in 1 .. Len(sa[c]) : i = sa[c][j]
        BY <3>4
      <4>2. Expand(MergedStream(c))[j] = PrefixRank(text, 2 * prefix_len, At(c, sa[c][j]))
        BY <3>1, MergedChunk
      <4> QED
        BY <3>1, <3>2, <3>3, <4>1, <4>2
    <3>5. CASE ~ \E j \in 1 .. Len(sa[c]) : i = sa[c][j]
      <4>1. i \notin Range(sa[c])
        BY <1>1, <3>5 DEF Range
      <4>2. PrefixRank(text, 2 * prefix_len, p) = ranks[c][i]
        BY <2>1, <2>3, <3>5
      <4> QED
        BY <3>2, <3>3, <4>1, <4>2
    <3> QED
      BY <3>4, <3>5
  <2>5. CASE ~ Pending(c)'
    <3>1. ranks_then(c)' = ranks[c]
      BY <1>2, <2>5 DEF ranks_then
    <3>2. p \notin D!Active
      BY <2>1, <2>5, MergeFiles
    <3> QED
      BY <2>3, <3>1, <3>2
  <2> QED
    BY <2>4, <2>5
<1>6. rank_then' = [p \in D!Pos |->
         IF p \in D!Active THEN rank_then[p] + D!Cardinality(D!Before(p)) ELSE rank_then[p]]
  <2>1. rank_then' = [p \in Positions(text) |-> rank_then'[p]]
    BY <1>2 DEF rank_then
  <2>4. ASSUME NEW p \in Positions(text), NEW c, c = ChunkOf(chunk_size, p)
        PROVE  rank_then'[p] = ranks_then(c)'[p % chunk_size]
    BY <1>2, <2>4 DEF rank_then
  <2>2. D!Pos = Positions(text)
    BY SameText DEF D!Pos
  <2>3. ASSUME NEW p \in Positions(text)
        PROVE  rank_then'[p] =
                 IF p \in D!Active THEN rank_then[p] + D!Cardinality(D!Before(p)) ELSE rank_then[p]
    <3>1. /\ ChunkOf(chunk_size, p) \in AllChunks
          /\ p % chunk_size \in Local(ChunkOf(chunk_size, p))
          /\ At(ChunkOf(chunk_size, p), p % chunk_size) = p
      BY <1>1, Places
    <3>5. PICK c : c = ChunkOf(chunk_size, p)
      OBVIOUS
    <3>2. rank_then'[p] = PrefixRank(text, 2 * prefix_len, p)
      BY <1>5, <2>4, <3>1, <3>5
    <3>3. PrefixRank(text, 2 * prefix_len, p) =
            IF p \in D!Active THEN rank_then[p] + Cardinality(D!Before(p)) ELSE rank_then[p]
      BY <1>1, DoublingFacts
    <3>4. D!Cardinality(D!Before(p)) = Cardinality(D!Before(p))
      BY SameText
    <3> QED
      BY <3>2, <3>3, <3>4
  <2> QED
    BY <2>1, <2>2, <2>3
<1>7. ASSUME NEW c \in AllChunks, NEW i
      PROVE  i \in Range(sa_then(c)') <=>
               \E j \in 1 .. Len(sa[c]) :
                 i = sa[c][j] /\ ~ (At(c, i) \in D!Active /\ ~ D!Shared(At(c, i)))
  <2>1. CASE Pending(c)'
    <3>1. ~ IsEmpty(c) /\ global'[c] = MergedStream(c) /\ UpdateOK(c)'
      BY <2>1, MergeFiles
    <3>2. sa_then(c)' = UpdatedSA(c)'
      BY <2>1 DEF sa_then
    <3>3. Range(UpdatedSA(c)') = {sa[c][j] : j \in Surviving(c)'}
      BY <1>2, <3>1 DEF UpdateOK
    <3>4. Surviving(c)' = {j \in 1 .. Len(sa[c]) :
                             global'[c][Slots(global'[c])[j]].count # 0}
      BY <1>2 DEF Surviving, Survives
    <3>5. \A j \in 1 .. Len(sa[c]) : /\ j \in Surviving(c)' <=> D!Shared(At(c, sa[c][j]))
                                     /\ At(c, sa[c][j]) \in D!Active
      BY <1>1, <1>4, <3>1, <3>4, MergedChunk
    <3> QED
      BY <3>2, <3>3, <3>4, <3>5
  <2>2. CASE ~ Pending(c)'
    <3>1. sa_then(c)' = sa[c]
      BY <1>2, <2>2 DEF sa_then
    <3>2. IsEmpty(c) \/ sa[c] = <<>>
      BY <2>2, MergeFiles
    <3>3. \A j \in 1 .. Len(sa[c]) : At(c, sa[c][j]) \notin D!Active
      <4>1. CASE IsEmpty(c)
        BY <1>1, <1>4, <4>1
      <4>2. CASE sa[c] = <<>>
        BY <4>2
      <4> QED
        BY <3>2, <4>1, <4>2
    <3>4. i \in Range(sa[c]) <=> \E j \in 1 .. Len(sa[c]) : i = sa[c][j]
      BY <1>1 DEF Range
    <3> QED
      BY <3>1, <3>3, <3>4
  <2> QED
    BY <2>1, <2>2
<1>8. ASSUME NEW p
      PROVE  p \in live_then' <=> p \in live_then /\ ~ (p \in D!Active /\ ~ D!Shared(p))
  <2>1. p \in live_then' <=> \E c \in AllChunks : \E i \in Range(sa_then(c)') : p = At(c, i)
    BY <1>2 DEF live_then, At
  <2>2. p \in live_then <=> \E c \in AllChunks : \E i \in Range(sa[c]) : p = At(c, i)
    BY <1>1, ThenIsNow DEF live_then, At
  <2>3. \A c \in AllChunks : \A i : i \in Range(sa[c]) <=> \E j \in 1 .. Len(sa[c]) : i = sa[c][j]
    BY <1>1 DEF Range
  <2>4. ASSUME NEW c \in AllChunks, NEW i \in Range(sa_then(c)'), p = At(c, i)
        PROVE  p \in live_then /\ ~ (p \in D!Active /\ ~ D!Shared(p))
    BY <1>7, <2>2, <2>3, <2>4
  <2>5. ASSUME NEW c \in AllChunks, NEW i \in Range(sa[c]), p = At(c, i),
               ~ (p \in D!Active /\ ~ D!Shared(p))
        PROVE  p \in live_then'
    BY <1>7, <2>1, <2>3, <2>5
  <2> QED
    BY <2>1, <2>2, <2>4, <2>5
<1>9. live_then' = live_then \ {p \in D!Active : ~ D!Shared(p)}
  <2> DEFINE A == live_then'
             B == live_then \ {p \in D!Active : ~ D!Shared(p)}
  <2>1. \A p : p \in A <=> p \in B
    BY <1>8
  <2> HIDE DEF A, B
  <2>2. A = B
    BY <2>1
  <2> QED
    BY <2>2 DEF A, B
<1>10. prefix_len_then' = D!Doubled(prefix_len_then)
  BY <1>1, <1>2 DEF prefix_len_then, Doubled, D!Doubled
<1>11. pc # "finished" /\ pc' # "finished"
  BY <1>2 DEF Merging
<1> QED
  BY <1>2, <1>6, <1>9, <1>10, <1>11, MergeSucceeds DEF D!Iterate

LEMMA MergeInv ==
  ASSUME IInv, MergeRuns
  PROVE  IInv' /\ D!Iterate
<1>1. Merging
  BY DEF Merging, MergeRuns
<1>2. D!Iterate
  BY <1>1, MergeIterates
<1>3. D!IInv'
  <2>1. D!TextsAssumption /\ D!ChunkSizesAssumption /\ D!KmerLengthsAssumption
    BY TextsAssumption, ChunkSizesAssumption DEF D!TextsAssumption, D!ChunkSizesAssumption, D!KmerLengthsAssumption
  <2> QED
    BY <1>2, <2>1, D!IterateInv DEF IInv
<1>4. /\ Shape' /\ AllChunks' = AllChunks /\ pc' = "update"
      /\ \A c \in AllChunks : /\ FilesOK(c)'
                              /\ Pending(c)' => MergedOK(c)'
                              /\ ~ Pending(c)' => CurrentOK(c)'
  BY <1>1, MergeFiles
<1> QED
  BY <1>2, <1>3, <1>4 DEF IInv

-----------------------------------------------------------------------------
(* The other programs' steps do not show in PrefixDoubling.                *)
LEMMA Stutters ==
  ASSUME IInv, text' = text, chunk_size' = chunk_size,
         prefix_len_then' = prefix_len_then, pc # "finished" <=> pc' # "finished",
         \A c \in AllChunks : ranks_then(c)' = ranks_then(c) /\ sa_then(c)' = sa_then(c)
  PROVE  UNCHANGED D!vars /\ D!IInv'
<1>1. AllChunks' = AllChunks
  BY DEF AllChunks
<1>2. rank_then' = rank_then
  <2>1. /\ rank_then' = [p \in Positions(text) |-> rank_then'[p]]
        /\ rank_then = [p \in Positions(text) |-> rank_then[p]]
    BY DEF rank_then
  <2>2. ASSUME NEW p \in Positions(text)
        PROVE  rank_then'[p] = rank_then[p]
    <3>1. PICK c : c = ChunkOf(chunk_size, p)
      OBVIOUS
    <3>2. c \in AllChunks
      BY <3>1, Places DEF IInv
    <3>3. rank_then'[p] = ranks_then(c)'[p % chunk_size]
      BY <3>1 DEF rank_then
    <3>4. rank_then[p] = ranks_then(c)[p % chunk_size]
      BY <3>1 DEF rank_then
    <3> QED
      BY <3>2, <3>3, <3>4
  <2> QED
    BY <2>1, <2>2
<1>3. live_then' = live_then
  <2>1. live_then' = UNION {{c * chunk_size + i : i \in Range(sa_then(c)')} : c \in AllChunks}
    BY <1>1 DEF live_then
  <2> QED
    BY <2>1 DEF live_then
<1>4. UNCHANGED D!vars
  <2>1. (pc # "finished")' = (pc # "finished")
    OBVIOUS
  <2> QED
    BY <1>2, <1>3, <2>1 DEF D!vars
<1>5. D!IInv /\ UNCHANGED D!vars => D!IInv'
  BY D!StutterInv, TextsAssumption, ChunkSizesAssumption
<1> QED
  BY <1>4, <1>5 DEF IInv

LEMMA Distributes ==
  ASSUME NEW a \in Nat, NEW b \in Nat, NEW S \in Nat
  PROVE  (a + b) * S = a * S + b * S
  OBVIOUS

(* Where a position's next rank is looked up is where it is.               *)
LEMMA NextRankPlace ==
  ASSUME Shape, NEW c \in AllChunks, NEW p \in Local(c)
  PROVE  /\ NextRankAt(c, p)[1] \in Nat
         /\ At(c, p) + prefix_len \in Positions(text) =>
              /\ NextRankAt(c, p)[1] < TotalChunks
              /\ NextRankAt(c, p)[2] \in Local(NextRankAt(c, p)[1])
              /\ At(NextRankAt(c, p)[1], NextRankAt(c, p)[2]) = At(c, p) + prefix_len
<1> DEFINE S == chunk_size
           L == prefix_len
           q == L \div S
           r == L % S
           a == NextRankAt(c, p)[1]
           b == NextRankAt(c, p)[2]
<1>1. S \in Nat \ {0} /\ L \in Nat /\ c \in Nat /\ p \in 0 .. S - 1
  BY Places DEF Shape
<1>2. q \in Nat /\ r \in 0 .. S - 1 /\ L = q * S + r
  BY <1>1, Division
<1>3. /\ r + p < S => a = c + q /\ b = r + p
      /\ ~ (r + p < S) => a = c + q + 1 /\ b = r + p - S
  <2>1. CASE r + p < S
    <3>1. NextRankAt(c, p) = <<BaseChunk(S, L, c), r + p>>
      BY <2>1 DEF NextRankAt
    <3> QED
      BY <2>1, <3>1 DEF BaseChunk
  <2>2. CASE ~ (r + p < S)
    <3>1. NextRankAt(c, p) = <<BaseChunk(S, L, c) + 1, r + p - S>>
      BY <1>1, <1>2, <2>2 DEF NextRankAt, BaseChunk
    <3>2. BaseChunk(S, L, c) = c + q
      BY DEF BaseChunk
    <3> HIDE DEF q, r, S
    <3> QED
      BY <2>2, <3>1, <3>2
  <2> QED
    BY <2>1, <2>2
<1> HIDE DEF q, r, a, b
<1>4. a \in Nat /\ b \in 0 .. S - 1
  BY <1>1, <1>2, <1>3
<1>5. At(a, b) = At(c, p) + L
  <2>1. (c + q) * S = c * S + q * S /\ (c + q + 1) * S = (c + q) * S + 1 * S /\ 1 * S = S
    BY <1>1, <1>2, Distributes
  <2>2. c * S \in Nat /\ q * S \in Nat
    BY <1>1, <1>2
  <2> DEFINE x == c * S
             y == q * S
             z == a * S
  <2>3. /\ r + p < S => z = x + y
        /\ ~ (r + p < S) => z = x + y + S
    BY <1>3, <2>1
  <2>4. x \in Nat /\ y \in Nat /\ L = y + r
    BY <1>2, <2>2
  <2>5. z + b = x + p + L
    <3> HIDE DEF x, y, z
    <3> QED
      BY <1>1, <1>2, <1>3, <2>3, <2>4
  <2> QED
    BY <2>5 DEF At
<1>6. ASSUME At(c, p) + L \in Positions(text)
      PROVE  a < TotalChunks /\ b \in Local(a)
  <2>1. ChunkOf(S, At(a, b)) = a /\ At(a, b) % S = b
    BY <1>1, <1>4, DivisionUnique DEF ChunkOf, At
  <2>2. a \in AllChunks /\ b \in Local(a)
    BY <1>5, <1>6, <2>1, Places
  <2> QED
    BY <1>4, <2>2, Places
<1> QED
  BY <1>4, <1>5, <1>6 DEF a, b

(* What refine makes of a chunk: next ranks for every entry, right ones    *)
(* wherever the text goes on.                                              *)
LEMMA RefinedChunk ==
  ASSUME IInv, pc = "refine", NEW c \in AllChunks, NEW buf, buf = ReadNextRanks(c),
         NEW z, z = [j \in DOMAIN sa[c] |-> buf[sa[c][j]]]
  PROVE  /\ buf \in [0 .. chunk_size - 1 -> Nat]
         /\ z \in Seq(Nat) /\ Len(z) = Len(sa[c])
         /\ Runs(z) \in Seq(RunSet(Nat)) /\ Expand(Runs(z)) = z
         /\ \A j \in 1 .. Len(sa[c]) :
              At(c, sa[c][j]) + prefix_len \in Positions(text) =>
                z[j] = PrefixRank(text, prefix_len, At(c, sa[c][j]) + prefix_len)
<1>1. /\ Shape /\ D!IInv /\ prefix_len_then = prefix_len
      /\ \A d \in AllChunks : FilesOK(d) /\ ranks_then(d) = ranks[d]
  BY ThenIsNow DEF IInv
<1>2. TotalChunks \in Nat /\ AllChunks = 0 .. TotalChunks - 1
  BY <1>1, Places
<1>3. /\ sa[c] \in Seq(Local(c)) /\ Len(sa[c]) \in Nat /\ DOMAIN sa[c] = 1 .. Len(sa[c])
      /\ Range(sa[c]) \subseteq Window(c)
      /\ \A j \in 1 .. Len(sa[c]) : sa[c][j] \in Local(c) /\ sa[c][j] \in Window(c)
  <2>1. sa[c] \in Seq(Local(c)) /\ Range(sa[c]) \subseteq Window(c)
    BY <1>1 DEF FilesOK, Sorted
  <2>2. Len(sa[c]) \in Nat /\ DOMAIN sa[c] = 1 .. Len(sa[c]) /\ \A j \in 1 .. Len(sa[c]) : sa[c][j] \in Local(c)
    BY <2>1, LenProperties, ElementOfSeq
  <2>3. \A j \in 1 .. Len(sa[c]) : sa[c][j] \in Range(sa[c])
    BY <2>2 DEF Range
  <2> QED
    BY <2>1, <2>2, <2>3
<1>4. ASSUME NEW p \in 0 .. chunk_size - 1
      PROVE  /\ buf[p] \in Nat
             /\ p \in Window(c) /\ NextRankAt(c, p)[1] < TotalChunks
                /\ NextRankAt(c, p)[2] \in Local(NextRankAt(c, p)[1]) =>
                  buf[p] = ranks[NextRankAt(c, p)[1]][NextRankAt(c, p)[2]]
  <2> DEFINE a == NextRankAt(c, p)[1]
             b == NextRankAt(c, p)[2]
  <2>1. buf[p] = IF p \in Window(c) /\ a < TotalChunks /\ b \in Local(a)
                 THEN ranks[a][b] ELSE next_ranks_buffer[p]
    BY DEF ReadNextRanks
  <2>2. next_ranks_buffer[p] \in Nat
    BY <1>1 DEF Shape
  <2>3. ASSUME p \in Window(c), a < TotalChunks, b \in Local(a)
        PROVE  ranks[a][b] \in Nat
    <3>1. p \in Local(c)
      BY <1>1, <2>3 DEF FilesOK
    <3>2. a \in Nat
      BY <1>1, <3>1, NextRankPlace
    <3>3. a \in AllChunks
      BY <1>2, <2>3, <3>2
    <3>4. ranks[a] \in [Local(a) -> Nat]
      BY <1>1, <3>3 DEF FilesOK
    <3> QED
      BY <2>3, <3>4
  <2> QED
    BY <2>1, <2>2, <2>3
<1>5. buf \in [0 .. chunk_size - 1 -> Nat]
  <2>1. buf = [p \in 0 .. chunk_size - 1 |-> buf[p]]
    BY DEF ReadNextRanks
  <2> QED
    BY <1>4, <2>1
<1>6. z \in [1 .. Len(sa[c]) -> Nat]
  <2>1. \A j \in 1 .. Len(sa[c]) : sa[c][j] \in 0 .. chunk_size - 1
    BY <1>1, <1>3, Places
  <2> QED
    BY <1>3, <1>5, <2>1
<1>7. z \in Seq(Nat) /\ Len(z) = Len(sa[c])
  <2>1. z \in Seq(Nat)
    BY <1>3, <1>6
  <2>2. DOMAIN z = 1 .. Len(sa[c])
    BY <1>6
  <2> QED
    BY <1>3, <2>1, <2>2, LenProperties
<1>8. Runs(z) \in Seq(RunSet(Nat)) /\ Expand(Runs(z)) = z
  BY <1>7, RunsFit, ExpandFits
<1>9. ASSUME NEW j \in 1 .. Len(sa[c]), At(c, sa[c][j]) + prefix_len \in Positions(text)
      PROVE  z[j] = PrefixRank(text, prefix_len, At(c, sa[c][j]) + prefix_len)
  <2> DEFINE p == sa[c][j]
             a == NextRankAt(c, p)[1]
             b == NextRankAt(c, p)[2]
  <2>1. p \in Local(c) /\ p \in Window(c) /\ p \in 0 .. chunk_size - 1
    BY <1>1, <1>3, Places
  <2>2. a \in Nat /\ a < TotalChunks /\ b \in Local(a) /\ At(a, b) = At(c, p) + prefix_len
    <3> HIDE DEF p
    <3> QED
      BY <1>1, <1>9, <2>1, NextRankPlace DEF p
  <2>3. a \in AllChunks
    BY <1>2, <2>2
  <2>4. z[j] = ranks[a][b]
    <3> HIDE DEF p
    <3>1. z[j] = buf[p]
      BY <1>3 DEF p
    <3> QED
      BY <1>4, <2>1, <2>2, <3>1
  <2> HIDE DEF a, b, p
  <2>5. ranks[a][b] = rank_then[At(a, b)]
    BY <1>1, <2>2, <2>3, RankThenAt
  <2>6. rank_then[At(a, b)] = PrefixRank(text, prefix_len, At(a, b))
    BY <1>1, <1>9, <2>2, DoublingFacts DEF p
  <2> QED
    BY <2>2, <2>4, <2>5, <2>6 DEF p
<1> QED
  BY <1>5, <1>7, <1>8, <1>9

(* A chunk whose files stay keeps what they say.                           *)
LEMMA SameFiles ==
  ASSUME text' = text, chunk_size' = chunk_size, NEW c,
         ranks'[c] = ranks[c], sa'[c] = sa[c], currents'[c] = currents[c],
         bounds'[c] = bounds[c], global'[c] = global[c]
  PROVE  /\ FilesOK(c) /\ nexts'[c] \in Seq(RunSet(Nat)) => FilesOK(c)'
         /\ CurrentOK(c) => CurrentOK(c)'
         /\ MergedOK(c) => MergedOK(c)'
<1>1. Local(c)' = Local(c) /\ Window(c)' = Window(c)
  BY DEF Local, Window
<1>2. Sorted(c, sa[c]) => Sorted(c, sa[c])'
  BY <1>1 DEF Sorted, At
<1>3. CurrentOK(c) => CurrentOK(c)'
  BY DEF CurrentOK, RankList
<1>4. MergedOK(c) => MergedOK(c)'
  BY DEF MergedOK
<1>5. FilesOK(c) /\ nexts'[c] \in Seq(RunSet(Nat)) => FilesOK(c)'
  BY <1>1, <1>2 DEF FilesOK
<1> QED
  BY <1>3, <1>4, <1>5

(* refine's next chunk.                                                    *)
LEMMA RefineInv ==
  ASSUME IInv, Refine
  PROVE  IInv' /\ UNCHANGED D!vars
<1>0. PICK d : d = chunk
  OBVIOUS
<1>1. /\ pc = "refine" /\ pc' = "refine" /\ d < TotalChunks /\ chunk' = d + 1
      /\ text' = text /\ chunk_size' = chunk_size /\ prefix_len' = prefix_len
      /\ ranks' = ranks /\ sa' = sa /\ currents' = currents /\ bounds' = bounds
      /\ global' = global
  BY <1>0 DEF Refine, files
<1>2. /\ Shape /\ PassOK
      /\ \A c \in AllChunks : FilesOK(c) /\ CurrentOK(c)
  BY <1>1, ThenIsNow DEF IInv
<1>3. /\ TotalChunks \in Nat /\ AllChunks = 0 .. TotalChunks - 1
      /\ d \in Nat /\ d \in AllChunks /\ d + 1 \in 0 .. TotalChunks
  <2>1. TotalChunks \in Nat /\ AllChunks = 0 .. TotalChunks - 1 /\ d \in 0 .. TotalChunks
    BY <1>0, <1>2, Places DEF Shape
  <2> QED
    BY <1>1, <2>1
<1>4. /\ AllChunks' = AllChunks /\ TotalChunks' = TotalChunks
      /\ \A c : (IsEmpty(c)' <=> IsEmpty(c)) /\ (HasRun(c)' <=> HasRun(c))
  BY <1>1 DEF AllChunks, TotalChunks, IsEmpty, HasRun
<1>5. d \notin Done /\ Done' = Done \cup {d}
  <2>1. d \notin Done
    BY <1>0, <1>3 DEF Done
  <2>2. \A c \in AllChunks : c < d + 1 <=> c < d \/ c = d
    BY <1>3
  <2> QED
    BY <1>0, <1>1, <1>3, <1>4, <2>1, <2>2 DEF Done
<1>6. ASSUME IsEmpty(d)
      PROVE  Shape' /\ PassOK' /\ \A c \in AllChunks : nexts'[c] \in Seq(RunSet(Nat))
  <2>1. next_ranks_buffer' = next_ranks_buffer /\ nexts' = nexts /\ status' = status
    BY <1>0, <1>6 DEF Refine
  <2>2. nexts[d] = <<>> /\ ~ HasRun(d)
    BY <1>2, <1>3, <1>5, <1>6 DEF PassOK, HasRun
  <2>3. RefinedOK(d)'
    BY <1>4, <1>6, <2>1, <2>2 DEF RefinedOK
  <2>4. ASSUME NEW c \in Done PROVE RefinedOK(c)'
    BY <1>1, <1>2, <1>4, <2>1, <2>4 DEF PassOK, RefinedOK, NextList, At
  <2>5. Shape'
    BY <1>1, <1>2, <1>3, <1>4, <2>1 DEF Shape
  <2>6. PassOK'
    BY <1>1, <1>2, <1>4, <1>5, <2>1, <2>2, <2>3, <2>4 DEF PassOK
  <2>7. \A c \in AllChunks : nexts'[c] \in Seq(RunSet(Nat))
    BY <1>2, <2>1 DEF FilesOK
  <2> QED
    BY <2>5, <2>6, <2>7
<1>7. ASSUME ~ IsEmpty(d)
      PROVE  Shape' /\ PassOK' /\ \A c \in AllChunks : nexts'[c] \in Seq(RunSet(Nat))
  <2> DEFINE buf == ReadNextRanks(d)
             z == [j \in DOMAIN sa[d] |-> buf[sa[d][j]]]
  <2>1. /\ next_ranks_buffer' = buf
        /\ nexts' = [nexts EXCEPT ![d] = Runs(z)]
        /\ status' = IF sa[d] = <<>> THEN status ELSE "SUCCESS"
    BY <1>0, <1>7 DEF Refine
  <2>2. /\ buf \in [0 .. chunk_size - 1 -> Nat]
        /\ z \in Seq(Nat) /\ Len(z) = Len(sa[d])
        /\ Runs(z) \in Seq(RunSet(Nat)) /\ Expand(Runs(z)) = z
        /\ \A j \in 1 .. Len(sa[d]) :
             At(d, sa[d][j]) + prefix_len \in Positions(text) =>
               z[j] = PrefixRank(text, prefix_len, At(d, sa[d][j]) + prefix_len)
    BY <1>1, <1>3, RefinedChunk
  <2> HIDE DEF buf, z
  <2>3. DOMAIN nexts = AllChunks /\ DOMAIN nexts' = AllChunks /\ nexts'[d] = Runs(z)
    BY <1>2, <1>3, <2>1 DEF Shape
  <2>4. \A c \in AllChunks \ {d} : nexts'[c] = nexts[c]
    BY <1>2, <2>1 DEF Shape
  <2>5. RefinedOK(d)'
    <3>1. ~ IsEmpty(d)' /\ NextList(d)' = z
      BY <1>4, <1>7, <2>2, <2>3 DEF NextList
    <3> QED
      BY <1>1, <2>2, <2>3, <3>1 DEF RefinedOK, At
  <2>6. ASSUME NEW c \in Done PROVE RefinedOK(c)'
    <3>1. c \in AllChunks \ {d}
      BY <1>5 DEF Done
    <3>2. NextList(c)' = NextList(c)
      BY <2>4, <3>1 DEF NextList
    <3> QED
      BY <1>1, <1>2, <1>4, <2>4, <3>1, <3>2 DEF PassOK, RefinedOK, At
  <2>7. Shape'
    <3>1. status' \in {"SUCCESS", "EMPTY"}
      BY <1>2, <2>1 DEF Shape
    <3> QED
      BY <1>1, <1>2, <1>3, <1>4, <2>1, <2>2, <2>3, <3>1 DEF Shape
  <2>8. status' = "EMPTY" <=> \A c \in Done' : ~ HasRun(c)'
    <3>1. HasRun(d) <=> sa[d] # <<>>
      BY <1>7 DEF HasRun
    <3>2. status = "EMPTY" <=> \A c \in Done : ~ HasRun(c)
      BY <1>2 DEF PassOK
    <3> QED
      BY <1>4, <1>5, <2>1, <3>1, <3>2
  <2>9. PassOK'
    <3>1. \A c \in Done' : RefinedOK(c)'
      BY <1>5, <2>5, <2>6
    <3>2. \A c \in AllChunks' \ Done' : nexts'[c] = <<>>
      BY <1>2, <1>4, <1>5, <2>4 DEF PassOK
    <3> QED
      BY <1>1, <2>8, <3>1, <3>2 DEF PassOK
  <2>10. \A c \in AllChunks : nexts'[c] \in Seq(RunSet(Nat))
    BY <1>2, <2>2, <2>3, <2>4 DEF FilesOK
  <2> QED
    BY <2>7, <2>9, <2>10
<1>8. Shape' /\ PassOK' /\ \A c \in AllChunks : nexts'[c] \in Seq(RunSet(Nat))
  BY <1>6, <1>7
<1>9. \A c \in AllChunks : FilesOK(c)' /\ CurrentOK(c)'
  BY <1>1, <1>2, <1>8, SameFiles
<1>10. \A c : ~ Pending(c)' /\ ~ Pending(c)
  BY <1>1 DEF Pending
<1>11. UNCHANGED D!vars /\ D!IInv'
  <2>1. prefix_len_then' = prefix_len_then
    BY <1>1 DEF prefix_len_then
  <2>2. \A c \in AllChunks : ranks_then(c)' = ranks_then(c) /\ sa_then(c)' = sa_then(c)
    BY <1>1, <1>10 DEF ranks_then, sa_then
  <2>3. pc # "finished" /\ pc' # "finished"
    BY <1>1
  <2> QED
    BY <1>1, <2>1, <2>2, <2>3, Stutters
<1> QED
  BY <1>4, <1>8, <1>9, <1>10, <1>11 DEF IInv

(* refine's pass ends: the loop is over when no chunk has a run.           *)
LEMMA EndRefineInv ==
  ASSUME IInv, EndRefine
  PROVE  IInv' /\ (D!Finish \/ UNCHANGED D!vars)
<1>1. /\ pc = "refine" /\ chunk = TotalChunks /\ chunk' = chunk
      /\ text' = text /\ chunk_size' = chunk_size
      /\ ranks' = ranks /\ sa' = sa /\ currents' = currents /\ bounds' = bounds
      /\ nexts' = nexts /\ global' = global /\ next_ranks_buffer' = next_ranks_buffer
      /\ status' = status
  BY DEF EndRefine, files
<1>2. /\ Shape /\ PassOK /\ D!IInv /\ pc # "update" /\ prefix_len_then = prefix_len
      /\ \A c \in AllChunks : FilesOK(c) /\ CurrentOK(c) /\ sa[c] \in Seq(Local(c))
  BY <1>1, ThenIsNow DEF IInv, FilesOK, Sorted
<1>3. /\ AllChunks' = AllChunks /\ TotalChunks' = TotalChunks
      /\ \A c : Local(c)' = Local(c)
  BY <1>1 DEF AllChunks, TotalChunks, Local
<1>4. \A c \in AllChunks : FilesOK(c)' /\ CurrentOK(c)'
  BY <1>1, <1>2, SameFiles DEF FilesOK
<1>5. pc' \in {"finished", "merge"} /\ prefix_len' \in Nat \ {0}
  BY <1>2 DEF EndRefine, Doubled, Shape
<1>6. Shape' /\ \A c : ~ Pending(c)' /\ ~ Pending(c)
  BY <1>1, <1>2, <1>3, <1>5 DEF Shape, Pending
<1>7. CASE status = "EMPTY"
  <2>1. pc' = "finished" /\ prefix_len' = Doubled(prefix_len)
    BY <1>7 DEF EndRefine
  <2>2. Done = AllChunks
    BY <1>1, <1>2, Places DEF Done
  <2>3. \A c \in AllChunks : IsEmpty(c) \/ sa[c] = <<>>
    BY <1>2, <1>7, <2>2 DEF PassOK, HasRun
  <2>4. D!Active = {}
    <3>1. D!Active = {p \in Positions(text) : \E c \in AllChunks : \E j \in 1 .. Len(sa[c]) :
                        ~ IsEmpty(c) /\ p = At(c, sa[c][j])}
      BY <1>2, ActivePlaces
    <3>2. ASSUME NEW c \in AllChunks, NEW j \in 1 .. Len(sa[c]) PROVE IsEmpty(c)
      BY <2>3
    <3> QED
      BY <3>1, <3>2
  <2>5. rank_then' = rank_then /\ live_then' = live_then
    <3>1. \A c : ranks_then(c)' = ranks_then(c) /\ sa_then(c)' = sa_then(c)
      BY <1>1, <1>6 DEF ranks_then, sa_then
    <3>2. live_then' = live_then
      <4>1. live_then' = UNION {{c * chunk_size + i : i \in Range(sa_then(c)')} : c \in AllChunks}
        BY <1>1, <1>3 DEF live_then
      <4> QED
        BY <3>1, <4>1 DEF live_then
    <3>3. /\ rank_then' = [p \in Positions(text) |-> rank_then'[p]]
          /\ rank_then = [p \in Positions(text) |-> rank_then[p]]
      BY <1>1 DEF rank_then
    <3>4. ASSUME NEW p \in Positions(text) PROVE rank_then'[p] = rank_then[p]
      <4>1. PICK c : c = ChunkOf(chunk_size, p)
        OBVIOUS
      <4>2. rank_then'[p] = ranks_then(c)'[p % chunk_size]
        BY <1>1, <4>1 DEF rank_then
      <4>3. rank_then[p] = ranks_then(c)[p % chunk_size]
        BY <4>1 DEF rank_then
      <4> QED
        BY <3>1, <4>2, <4>3
    <3> QED
      BY <3>2, <3>3, <3>4
  <2>6. prefix_len_then' = D!Doubled(prefix_len_then)
    BY <1>2, <2>1 DEF prefix_len_then, Doubled, D!Doubled
  <2>7. D!Finish
    BY <1>1, <2>1, <2>4, <2>5, <2>6 DEF D!Finish
  <2>8. D!IInv'
    BY <1>2, <2>7, D!FinishInv, TextsAssumption, ChunkSizesAssumption
  <2> QED
    BY <1>3, <1>4, <1>6, <2>1, <2>7, <2>8 DEF IInv
<1>8. CASE status # "EMPTY"
  <2>1. pc' = "merge" /\ prefix_len' = prefix_len /\ status = "SUCCESS"
    BY <1>2, <1>8 DEF EndRefine, Shape
  <2>2. PassOK'
    <3>1. Done' = Done
      BY <1>1, <1>3 DEF Done
    <3>2. \A c : (RefinedOK(c)' <=> RefinedOK(c)) /\ (HasRun(c)' <=> HasRun(c))
      BY <1>1, <2>1 DEF RefinedOK, HasRun, NextList, IsEmpty, At
    <3> QED
      BY <1>1, <1>2, <1>3, <2>1, <3>1, <3>2 DEF PassOK
  <2>3. UNCHANGED D!vars /\ D!IInv'
    <3>1. prefix_len_then' = prefix_len_then
      BY <1>2, <2>1 DEF prefix_len_then
    <3>2. \A c \in AllChunks : ranks_then(c)' = ranks_then(c) /\ sa_then(c)' = sa_then(c)
      BY <1>1, <1>6 DEF ranks_then, sa_then
    <3>3. pc # "finished" /\ pc' # "finished"
      BY <1>1, <2>1
    <3> QED
      BY <1>1, <3>1, <3>2, <3>3, Stutters
  <2> QED
    BY <1>3, <1>4, <1>6, <2>2, <2>3 DEF IInv
<1> QED
  BY <1>7, <1>8

(* update's next chunk.                                                    *)
LEMMA UpdateInv ==
  ASSUME IInv, Update
  PROVE  IInv' /\ UNCHANGED D!vars
<1>0. PICK d : d = chunk
  OBVIOUS
<1>1. /\ pc = "update" /\ d < TotalChunks
      /\ text' = text /\ chunk_size' = chunk_size /\ prefix_len' = prefix_len
      /\ nexts' = nexts /\ global' = global /\ next_ranks_buffer' = next_ranks_buffer
      /\ status' = status
  BY <1>0 DEF Update
<1>2. Shape /\ \A c \in AllChunks : FilesOK(c)
  BY DEF IInv
<1>3. /\ TotalChunks \in Nat /\ AllChunks = 0 .. TotalChunks - 1
      /\ d \in Nat /\ d \in AllChunks /\ d + 1 \in 0 .. TotalChunks
  <2>1. TotalChunks \in Nat /\ AllChunks = 0 .. TotalChunks - 1 /\ d \in 0 .. TotalChunks
    BY <1>0, <1>2, Places DEF Shape
  <2> QED
    BY <1>1, <2>1
<1>4. /\ AllChunks' = AllChunks /\ TotalChunks' = TotalChunks
      /\ \A c : Skips(c)' <=> Skips(c)
  BY <1>1 DEF AllChunks, TotalChunks, Skips, IsEmpty
<1>5. Pending(d) <=> ~ Skips(d)
  BY <1>0, <1>1, <1>3 DEF Pending
<1>6. ~ Skips(d) => MergedOK(d) /\ UpdateOK(d) /\ Len(Slots(global[d])) = Len(sa[d])
  <2> SUFFICES ASSUME ~ Skips(d)
               PROVE  MergedOK(d) /\ UpdateOK(d) /\ Len(Slots(global[d])) = Len(sa[d])
    OBVIOUS
  <2>1. MergedOK(d)
    BY <1>3, <1>5 DEF IInv
  <2>2. UpdateOK(d)
    BY <1>2, <1>3, <2>1, UpdatedFiles
  <2> QED
    BY <2>1, <2>2 DEF MergedOK
<1>7. /\ pc' = "update" /\ chunk' = d + 1
      /\ Skips(d) => UNCHANGED files
      /\ ~ Skips(d) => /\ ranks' = [ranks EXCEPT ![d] = UpdatedRanks(d)]
                       /\ sa' = [sa EXCEPT ![d] = UpdatedSA(d)]
                       /\ currents' = [currents EXCEPT ![d] = UpdatedCurrents(d)]
                       /\ bounds' = [bounds EXCEPT ![d] = Tightened(Range(UpdatedSA(d)))]
  BY <1>0, <1>1, <1>6 DEF Update
<1>8. /\ \A c \in AllChunks \ {d} : ranks'[c] = ranks[c] /\ sa'[c] = sa[c]
                                    /\ currents'[c] = currents[c] /\ bounds'[c] = bounds[c]
      /\ DOMAIN ranks' = AllChunks /\ DOMAIN sa' = AllChunks
      /\ DOMAIN currents' = AllChunks /\ DOMAIN bounds' = AllChunks
  <2>1. /\ DOMAIN ranks = AllChunks /\ DOMAIN sa = AllChunks
        /\ DOMAIN currents = AllChunks /\ DOMAIN bounds = AllChunks
    BY <1>2 DEF Shape
  <2>2. CASE Skips(d)
    BY <1>7, <2>1, <2>2 DEF files
  <2>3. CASE ~ Skips(d)
    BY <1>7, <2>1, <2>3
  <2> QED
    BY <2>2, <2>3
<1>9. Shape'
  BY <1>1, <1>2, <1>3, <1>4, <1>7, <1>8 DEF Shape
<1>10. ASSUME NEW c \in AllChunks \ {d}
       PROVE  Pending(c)' <=> Pending(c)
  <2>1. c \in Nat /\ c # d
    BY <1>3
  <2>2. d + 1 <= c <=> d <= c
    BY <1>3, <2>1
  <2> QED
    BY <1>0, <1>1, <1>4, <1>7, <2>2 DEF Pending
<1>11. ~ Pending(d)'
  <2>1. ~ (d + 1 <= d)
    BY <1>3
  <2> QED
    BY <1>7, <2>1 DEF Pending
<1>12. ASSUME NEW c \in AllChunks \ {d}
       PROVE  /\ FilesOK(c)' /\ IF Pending(c)' THEN MergedOK(c)' ELSE CurrentOK(c)'
              /\ ranks_then(c)' = ranks_then(c) /\ sa_then(c)' = sa_then(c)
  <2>1. /\ ranks'[c] = ranks[c] /\ sa'[c] = sa[c] /\ currents'[c] = currents[c]
        /\ bounds'[c] = bounds[c] /\ global'[c] = global[c] /\ nexts'[c] = nexts[c]
    BY <1>1, <1>8
  <2>2. FilesOK(c)
    BY <1>2
  <2>3. IF Pending(c) THEN MergedOK(c) ELSE CurrentOK(c)
    BY DEF IInv
  <2>4. FilesOK(c)' /\ (CurrentOK(c) => CurrentOK(c)') /\ (MergedOK(c) => MergedOK(c)')
    BY <1>1, <2>1, <2>2, SameFiles DEF FilesOK
  <2>5. ranks_then(c)' = ranks_then(c) /\ sa_then(c)' = sa_then(c)
    <3>1. Window(c)' = Window(c) /\ Local(c)' = Local(c)
      BY <1>1, <2>1 DEF Window, Local
    <3>2. UpdatedRanks(c)' = UpdatedRanks(c)
      BY <2>1, <3>1 DEF UpdatedRanks
    <3>3. UpdatedSA(c)' = UpdatedSA(c)
      BY <2>1 DEF UpdatedSA
    <3> QED
      BY <1>10, <2>1, <3>2, <3>3 DEF ranks_then, sa_then
  <2> QED
    BY <1>10, <2>3, <2>4, <2>5
<1>13. /\ FilesOK(d)' /\ CurrentOK(d)'
       /\ ranks_then(d)' = ranks_then(d) /\ sa_then(d)' = sa_then(d)
  <2>1. CASE Skips(d)
    <3>1. /\ ranks'[d] = ranks[d] /\ sa'[d] = sa[d] /\ currents'[d] = currents[d]
          /\ bounds'[d] = bounds[d] /\ global'[d] = global[d] /\ nexts'[d] = nexts[d]
      BY <1>1, <1>7, <2>1 DEF files
    <3>2. FilesOK(d) /\ CurrentOK(d)
      BY <1>2, <1>3, <1>5, <2>1 DEF IInv
    <3>3. FilesOK(d)' /\ CurrentOK(d)'
      BY <1>1, <3>1, <3>2, SameFiles DEF FilesOK
    <3> QED
      BY <1>5, <1>11, <2>1, <3>1, <3>3 DEF ranks_then, sa_then
  <2>2. CASE ~ Skips(d)
    <3>1. UpdateOK(d) /\ Pending(d) /\ FilesOK(d)
      BY <1>2, <1>3, <1>5, <1>6, <2>2
    <3>2. /\ ranks'[d] = UpdatedRanks(d) /\ sa'[d] = UpdatedSA(d)
          /\ currents'[d] = UpdatedCurrents(d) /\ bounds'[d] = Tightened(Range(UpdatedSA(d)))
      BY <1>2, <1>3, <1>7, <2>2 DEF Shape
    <3>3. ranks_then(d)' = ranks_then(d) /\ sa_then(d)' = sa_then(d)
      BY <1>11, <3>1, <3>2 DEF ranks_then, sa_then
    <3>4. Local(d)' = Local(d)
      BY <1>1 DEF Local
    <3>5. Sorted(d, UpdatedSA(d)) /\ Range(UpdatedSA(d)) \in SUBSET Local(d)
      <4>1. Sorted(d, UpdatedSA(d)) /\ UpdatedSA(d) \in Seq(Local(d))
        BY <3>1 DEF UpdateOK, Sorted
      <4>2. \A i \in DOMAIN UpdatedSA(d) : UpdatedSA(d)[i] \in Local(d)
        BY <4>1, LenProperties, ElementOfSeq
      <4> QED
        BY <4>1, <4>2 DEF Range
    <3>6. /\ Range(UpdatedSA(d)) \subseteq Window(d)'
          /\ Window(d)' \subseteq Local(d)
      BY <1>2, <1>3, <3>2, <3>5, TightenedHolds DEF Window
    <3>7. Sorted(d, sa[d])'
      BY <1>1, <3>2, <3>4, <3>5 DEF Sorted, At
    <3>8. /\ ranks'[d] \in [Local(d) -> Nat]
          /\ currents'[d] \in Seq(RunSet(Nat))
          /\ nexts'[d] \in Seq(RunSet(Nat)) /\ global'[d] \in Seq(RunSet(Nat))
      BY <1>1, <3>1, <3>2 DEF UpdateOK, FilesOK
    <3>9. FilesOK(d)'
      BY <3>2, <3>4, <3>6, <3>7, <3>8 DEF FilesOK
    <3>10. CurrentOK(d)'
      BY <3>1, <3>2 DEF CurrentOK, RankList, UpdateOK
    <3> QED
      BY <3>3, <3>9, <3>10
  <2> QED
    BY <2>1, <2>2
<1>14. UNCHANGED D!vars /\ D!IInv'
  <2>1. prefix_len_then' = prefix_len_then /\ pc # "finished" /\ pc' # "finished"
    BY <1>1, <1>7 DEF prefix_len_then, Doubled
  <2>2. \A c \in AllChunks : ranks_then(c)' = ranks_then(c) /\ sa_then(c)' = sa_then(c)
    BY <1>12, <1>13
  <2> QED
    BY <1>1, <2>1, <2>2, Stutters
<1>15. \A c \in AllChunks : FilesOK(c)' /\ IF Pending(c)' THEN MergedOK(c)' ELSE CurrentOK(c)'
  BY <1>11, <1>12, <1>13
<1> QED
  BY <1>4, <1>7, <1>9, <1>14, <1>15 DEF IInv

(* The next iteration starts from what update has written.                 *)
LEMMA EndUpdateInv ==
  ASSUME IInv, EndUpdate
  PROVE  IInv' /\ UNCHANGED D!vars
<1>1. /\ pc = "update" /\ chunk = TotalChunks /\ pc' = "refine" /\ chunk' = 0 /\ status' = "EMPTY"
      /\ prefix_len' = Doubled(prefix_len)
      /\ nexts' = [c \in AllChunks |-> <<>>] /\ global' = [c \in AllChunks |-> <<>>]
      /\ next_ranks_buffer' = [i \in 0 .. chunk_size - 1 |-> 0]
      /\ text' = text /\ chunk_size' = chunk_size
      /\ ranks' = ranks /\ sa' = sa /\ currents' = currents /\ bounds' = bounds
  BY DEF EndUpdate, files
<1>2. Shape /\ \A c \in AllChunks : FilesOK(c)
  BY DEF IInv
<1>3. TotalChunks \in Nat /\ AllChunks = 0 .. TotalChunks - 1
  BY <1>2, Places
<1>4. AllChunks' = AllChunks /\ TotalChunks' = TotalChunks
  BY <1>1 DEF AllChunks, TotalChunks
<1>5. \A c \in AllChunks : ~ Pending(c) /\ ~ Pending(c)'
  <2>1. \A c \in AllChunks : ~ (TotalChunks <= c)
    BY <1>3
  <2> QED
    BY <1>1, <2>1 DEF Pending
<1>6. \A c \in AllChunks : FilesOK(c) /\ CurrentOK(c)
  BY <1>2, <1>5 DEF IInv
<1>7. ASSUME NEW c \in AllChunks PROVE FilesOK(c)' /\ CurrentOK(c)'
  <2>1. /\ Local(c)' = Local(c) /\ Window(c)' = Window(c)
    BY <1>1 DEF Local, Window
  <2>2. Sorted(c, sa[c])'
    BY <1>1, <1>6, <2>1 DEF FilesOK, Sorted, At
  <2>3. <<>> \in Seq(RunSet(Nat))
    OBVIOUS
  <2>4. nexts'[c] = <<>> /\ global'[c] = <<>>
    BY <1>1
  <2>5. FilesOK(c)'
    BY <1>1, <1>6, <2>1, <2>2, <2>3, <2>4 DEF FilesOK
  <2>6. CurrentOK(c)'
    BY <1>1, <1>6 DEF CurrentOK, RankList
  <2> QED
    BY <2>5, <2>6
<1>8. Shape'
  <2>1. prefix_len' \in Nat \ {0} /\ chunk' \in 0 .. TotalChunks
    BY <1>1, <1>2, <1>3 DEF Shape, Doubled
  <2>2. next_ranks_buffer' \in [0 .. chunk_size - 1 -> Nat]
    BY <1>1
  <2> QED
    BY <1>1, <1>2, <1>4, <2>1, <2>2 DEF Shape
<1>9. PassOK'
  <2>1. Done' = {}
    <3>1. \A c \in AllChunks : ~ (c < 0)
      BY <1>3
    <3> QED
      BY <1>1, <1>4, <3>1 DEF Done
  <2> QED
    BY <1>1, <1>4, <2>1 DEF PassOK
<1>10. UNCHANGED D!vars /\ D!IInv'
  <2>1. prefix_len_then' = prefix_len_then /\ pc # "finished" /\ pc' # "finished"
    BY <1>1 DEF prefix_len_then
  <2>2. \A c \in AllChunks : ranks_then(c)' = ranks_then(c) /\ sa_then(c)' = sa_then(c)
    BY <1>1, <1>5 DEF ranks_then, sa_then
  <2> QED
    BY <1>1, <2>1, <2>2, Stutters
<1> QED
  BY <1>4, <1>5, <1>7, <1>8, <1>9, <1>10 DEF IInv

-----------------------------------------------------------------------------
(* What init leaves behind.                                                *)
LEMMA KmerLengthType ==
  ASSUME NEW t, NEW S \in Nat \ {0}
  PROVE  KmerLength(t, S) \in Nat \ {0}
<1> DEFINE T == {1} \cup {k \in 1 .. S : (Cardinality(Range(t)) + 1) ^ k <= S}
<1>1. KmerLength(t, S) = Max(T)
  BY DEF KmerLength
<1>2. T \in SUBSET (0 .. S) /\ T # {} /\ \A k \in T : k \in Nat \ {0}
  OBVIOUS
<1> HIDE DEF T
<1>3. Max(T) \in T
  BY <1>2, Extremes
<1> QED
  BY <1>1, <1>2, <1>3

(* A chunk's places are numbered from 0 on.                                *)
LEMMA LocalInterval ==
  ASSUME InText, NEW c \in AllChunks
  PROVE  Local(c) = 0 .. Cardinality(Local(c)) - 1
<1>1. /\ chunk_size \in Nat \ {0} /\ c \in Nat /\ text \in CodedText
      /\ TotalChunks \in Nat /\ AllChunks = 0 .. TotalChunks - 1
  BY TextPlaces
<1>2. Len(text) \in Nat /\ Positions(text) = 0 .. Len(text)
  BY <1>1, PositionsType
<1> DEFINE S == chunk_size
           n == Len(text)
           b == c * S
           m == IF n - b <= S - 1 THEN n - b ELSE S - 1
<1>3. b \in Nat /\ b <= n
  <2>1. n = ChunkOf(S, n) * S + (n % S) /\ ChunkOf(S, n) \in Nat /\ n % S \in 0 .. S - 1
    BY <1>1, <1>2, Division DEF ChunkOf
  <2>2. c <= ChunkOf(S, n)
    BY <1>1, <2>1 DEF TotalChunks
  <2>3. CASE c = ChunkOf(S, n)
    <3>1. b \in Nat
      BY <1>1
    <3>2. n = b + (n % S)
      BY <2>1, <2>3
    <3> DEFINE r == n % S
    <3> HIDE DEF b, n, r
    <3>3. b \in Nat /\ n = b + r /\ r \in Nat
      BY <2>1, <3>1, <3>2 DEF r, n
    <3> QED
      BY <3>3
  <2>4. CASE c < ChunkOf(S, n)
    <3>1. c * S + 0 < ChunkOf(S, n) * S + (n % S)
      BY <1>1, <2>1, <2>4, ChunkFirst
    <3>2. b \in Nat
      BY <1>1
    <3>3. b + 0 < n
      BY <2>1, <3>1
    <3> HIDE DEF b, n
    <3> QED
      BY <1>2, <3>2, <3>3 DEF n
  <2> QED
    BY <1>1, <2>1, <2>2, <2>3, <2>4
<1>4. Local(c) = {i \in 0 .. S - 1 : b + i \in 0 .. n}
  BY <1>2 DEF Local
<1> HIDE DEF b, n, S
<1>5. S \in Nat \ {0} /\ n \in Nat
  BY <1>1, <1>2 DEF S, n
<1>6. m \in Nat /\ \A i : i \in Local(c) <=> i \in 0 .. m
  BY <1>3, <1>4, <1>5
<1> HIDE DEF m
<1>7. Local(c) = 0 .. m
  BY <1>6
<1>8. Cardinality(0 .. m) = m + 1
  <2>1. Cardinality(0 .. m) = IF 0 > m THEN 0 ELSE m - 0 + 1
    BY <1>6, FS_Interval
  <2> QED
    BY <1>6, <2>1
<1>9. (m + 1) - 1 = m
  BY <1>6
<1> QED
  BY <1>7, <1>8, <1>9

(* The suffix array that divsufsort makes of a chunk.                      *)
LEMMA LocalOrder ==
  ASSUME Shape, NEW c \in AllChunks, NEW o, o = LocalSA(text, chunk_size, c)
  PROVE  Sorted(c, o) /\ Range(o) = Local(c)
<1> DEFINE P == {p \in Positions(text) : ChunkOf(chunk_size, p) = c}
           order == InSuffixOrder(text, P)
           n == Len(order)
<1>1. text \in CodedText /\ chunk_size \in Nat \ {0} /\ c \in Nat /\ Positions(text) \subseteq Nat
  BY Places
<1>2. /\ order \in Seq(P)
      /\ \A a, b \in 1 .. n : a < b => SuffixLess(text, order[a], order[b])
      /\ \A p \in P : \E a \in 1 .. n : order[a] = p
  <2>1. P \in SUBSET Positions(text)
    OBVIOUS
  <2> HIDE DEF P
  <2> QED
    BY <1>1, <2>1, SuffixOrderLists
<1>3. o = [a \in DOMAIN order |-> order[a] - c * chunk_size]
  BY DEF LocalSA
<1>4. n \in Nat /\ DOMAIN order = 1 .. n /\ \A a \in 1 .. n : order[a] \in P
  <2> HIDE DEF P, order
  <2> QED
    BY <1>2, LenProperties, ElementOfSeq
<1> HIDE DEF order, n
<1>5. ASSUME NEW a \in 1 .. n
      PROVE  o[a] \in Local(c) /\ At(c, o[a]) = order[a]
  <2>1. order[a] \in Positions(text) /\ ChunkOf(chunk_size, order[a]) = c
    BY <1>4
  <2>2. order[a] % chunk_size \in Local(c) /\ At(c, order[a] % chunk_size) = order[a]
    BY <2>1, Places
  <2>3. o[a] = order[a] - c * chunk_size
    BY <1>3, <1>4
  <2>4. order[a] % chunk_size \in 0 .. chunk_size - 1
    BY <2>2, Places
  <2> DEFINE x == order[a]
             r == order[a] % chunk_size
             b == c * chunk_size
  <2>5. x \in Nat /\ r \in Nat /\ b \in Nat /\ b + r = x /\ o[a] = x - b
    BY <1>1, <2>1, <2>2, <2>3, <2>4 DEF At
  <2> HIDE DEF x, r, b
  <2>6. o[a] = r
    BY <2>5
  <2> QED
    BY <2>2, <2>6 DEF r
<1>6. o \in Seq(Local(c)) /\ Len(o) = n /\ DOMAIN o = 1 .. n
  <2>1. o \in [1 .. n -> Local(c)]
    BY <1>3, <1>4, <1>5
  <2>2. o \in Seq(Local(c)) /\ DOMAIN o = 1 .. n
    BY <1>4, <2>1
  <2> QED
    BY <1>4, <2>2, LenProperties
<1>7. Sorted(c, o)
  BY <1>2, <1>5, <1>6 DEF Sorted
<1>8. ASSUME NEW i \in Local(c) PROVE i \in Range(o)
  <2>1. At(c, i) \in P
    BY Places
  <2>2. PICK a \in 1 .. n : order[a] = At(c, i)
    BY <1>2, <2>1
  <2>3. o[a] \in Local(c) /\ At(c, o[a]) = At(c, i)
    BY <1>5, <2>2
  <2>4. o[a] = i
    BY <2>3, SamePlace
  <2> QED
    BY <1>6, <2>4 DEF Range
<1>9. ASSUME NEW i \in Range(o) PROVE i \in Local(c)
  BY <1>5, <1>6 DEF Range
<1> QED
  BY <1>7, <1>8, <1>9

(* The runs of a sorted chunk's ranks come in their order.                 *)
LEMMA RunsRise ==
  ASSUME Shape, NEW c \in AllChunks, NEW o, Sorted(c, o), NEW L \in Nat,
         NEW e \in Seq(Nat), Len(e) = Len(o),
         \A j \in 1 .. Len(o) : e[j] = PrefixRank(text, L, At(c, o[j]))
  PROVE  /\ Runs(e) \in Seq(RunSet(Nat)) /\ Rising(Runs(e)) /\ Live(Runs(e))
         /\ Expand(Runs(e)) = e
<1> DEFINE r == Runs(e)
           m == Len(r)
<1>1. /\ r \in Seq(RunSet(Nat))
      /\ \A j \in 2 .. m : r[j].rank # r[j - 1].rank
      /\ \E st : Spans(st, r, e)
  BY RunsFit
<1>2. PICK st : Spans(st, r, e)
  BY <1>1
<1>3. Expand(r) = e
  <2> HIDE DEF r
  <2> QED
    BY <1>1, <1>2, ExpandFits
<1> HIDE DEF r
<1>4. /\ m \in Nat /\ Widths(r) \in [1 .. m -> Nat]
      /\ \A j \in 1 .. m : r[j].rank \in Nat /\ Widths(r)[j] = Width(r[j]) /\ 1 <= Width(r[j])
  BY <1>1, WidthsType
<1>5. Cuts(st, Widths(r), m) /\ st[m + 1] = Len(e) + 1
      /\ \A j \in 1 .. m : \A i \in st[j] .. st[j + 1] - 1 : e[i] = r[j].rank
  BY <1>2 DEF Spans
<1>6. /\ \A j \in 1 .. m + 1 : st[j] \in Nat /\ 1 <= st[j] /\ st[j] <= st[m + 1]
      /\ \A j \in 1 .. m : st[j + 1] = st[j] + Widths(r)[j] /\ Widths(r)[j] \in Nat
  <2> HIDE DEF m
  <2> QED
    BY <1>4, <1>5, CutBounds
<1>7. Len(e) \in Nat
  BY LenProperties
<1>8. ASSUME NEW j \in 1 .. m
      PROVE  st[j] \in 1 .. Len(e) /\ e[st[j]] = r[j].rank /\ st[j] < st[j + 1] /\ st[j] \in Nat
  <2> DEFINE a == st[j]
             b == st[j + 1]
             h == st[m + 1]
             w == Widths(r)[j]
             n == Len(e)
  <2>1. j \in 1 .. m + 1 /\ j + 1 \in 1 .. m + 1
    BY <1>4
  <2>2. a \in Nat /\ 1 <= a /\ b \in Nat /\ b <= h /\ h = n + 1 /\ n \in Nat /\ b = a + w /\ w \in Nat /\ 1 <= w
    BY <1>4, <1>5, <1>6, <1>7, <2>1
  <2> HIDE DEF a, b, h, w, n
  <2>3. a \in a .. b - 1 /\ a \in 1 .. n /\ a < b
    BY <2>2
  <2>4. st[j] \in st[j] .. st[j + 1] - 1 /\ st[j] \in 1 .. Len(e) /\ st[j] < st[j + 1] /\ st[j] \in Nat
    BY <2>2, <2>3 DEF a, b, n
  <2> QED
    BY <1>5, <2>4
<1>9. ASSUME NEW j \in 2 .. m PROVE r[j - 1].rank < r[j].rank
  <2>1. j \in 1 .. m /\ j - 1 \in 1 .. m /\ (j - 1) + 1 = j
    BY <1>4
  <2> DEFINE a == st[j - 1]
             b == st[j]
  <2>2. a \in 1 .. Len(o) /\ b \in 1 .. Len(o) /\ a < b /\ e[a] = r[j - 1].rank /\ e[b] = r[j].rank
    BY <1>8, <2>1
  <2> HIDE DEF a, b
  <2>3. /\ At(c, o[a]) \in Positions(text) /\ At(c, o[b]) \in Positions(text)
        /\ ~ PrefixLess(text, L, At(c, o[b]), At(c, o[a]))
    BY <2>2, SortedRanks
  <2>4. ~ (e[b] < e[a])
    <3> DEFINE p == At(c, o[a])
               q == At(c, o[b])
    <3>1. /\ text \in CodedText /\ p \in Positions(text) /\ q \in Positions(text)
          /\ ~ PrefixLess(text, L, q, p)
          /\ e[a] = PrefixRank(text, L, p) /\ e[b] = PrefixRank(text, L, q)
      BY <2>2, <2>3, Places
    <3> HIDE DEF p, q
    <3>2. PrefixRank(text, L, q) < PrefixRank(text, L, p) <=> PrefixLess(text, L, q, p)
      BY <3>1, RankDecides
    <3> QED
      BY <3>1, <3>2
  <2>5. e[a] # e[b] /\ e[a] \in Nat /\ e[b] \in Nat
    BY <1>1, <1>4, <2>1, <2>2 DEF r
  <2> DEFINE u == e[a]
             v == e[b]
  <2>6. u = r[j - 1].rank /\ v = r[j].rank /\ ~ (v < u) /\ u # v /\ u \in Nat /\ v \in Nat
    BY <2>2, <2>4, <2>5
  <2> HIDE DEF u, v
  <2>7. u < v
    BY <2>6
  <2> QED
    BY <2>6, <2>7
<1>10. Rising(r)
  BY <1>9 DEF Rising
<1>11. Live(r)
  BY RunsFit DEF Live, r
<1> QED
  BY <1>1, <1>3, <1>10, <1>11 DEF r

(* The loop starts where PrefixDoubling does, on files that fit.           *)
LEMMA InitInv == Init => IInv /\ D!Init
<1> SUFFICES ASSUME Init PROVE IInv /\ D!Init
  OBVIOUS
<1>1. /\ text \in Texts /\ chunk_size \in ChunkSizes /\ chunk_size \in Nat \ {0}
      /\ prefix_len = KmerLength(text, chunk_size)
      /\ pc = "refine" /\ chunk = 0 /\ status = "EMPTY"
      /\ ranks = [c \in AllChunks |-> [i \in Local(c) |->
                    PrefixRank(text, prefix_len, c * chunk_size + i)]]
      /\ sa = [c \in AllChunks |-> LocalSA(text, chunk_size, c)]
      /\ currents = [c \in AllChunks |-> Runs([j \in DOMAIN sa[c] |-> ranks[c][sa[c][j]]])]
      /\ bounds = [c \in AllChunks |-> <<0, Cardinality(Local(c)) - 1>>]
      /\ nexts = [c \in AllChunks |-> <<>>] /\ global = [c \in AllChunks |-> <<>>]
      /\ next_ranks_buffer = [i \in 0 .. chunk_size - 1 |-> 0]
  BY ChunkSizesAssumption DEF Init
<1>2. prefix_len \in Nat \ {0} /\ prefix_len \in Nat
  BY <1>1, KmerLengthType
<1>3. Shape
  <2>1. text \in CodedText
    BY <1>1, TextsAssumption DEF CodedText
  <2>2. 0 \in 0 .. TotalChunks
    <3>1. Len(text) \in Nat
      BY <2>1, PositionsType
    <3>2. ChunkOf(chunk_size, Len(text)) \in Nat
      BY <1>1, <3>1, Division DEF ChunkOf
    <3> QED
      BY <3>2 DEF TotalChunks
  <2>3. next_ranks_buffer \in [0 .. chunk_size - 1 -> Nat]
    BY <1>1
  <2> QED
    BY <1>1, <1>2, <2>2, <2>3 DEF Shape
<1>4. /\ text \in CodedText /\ TotalChunks \in Nat /\ AllChunks = 0 .. TotalChunks - 1
      /\ Positions(text) \subseteq Nat
  BY <1>3, Places
<1>5. ASSUME NEW c \in AllChunks
      PROVE  Sorted(c, sa[c]) /\ Range(sa[c]) = Local(c)
  <2>1. sa[c] = LocalSA(text, chunk_size, c)
    BY <1>1
  <2> QED
    BY <1>3, <2>1, LocalOrder
<1>6. ASSUME NEW c \in AllChunks
      PROVE  /\ ranks[c] \in [Local(c) -> Nat]
             /\ \A i \in Local(c) : ranks[c][i] = PrefixRank(text, prefix_len, At(c, i))
  <2>1. ranks[c] = [i \in Local(c) |-> PrefixRank(text, prefix_len, At(c, i))]
    BY <1>1 DEF At
  <2>2. \A i \in Local(c) : PrefixRank(text, prefix_len, At(c, i)) \in Nat
    BY <1>2, <1>3, <1>4, Places, PrefixRankType
  <2> QED
    BY <2>1, <2>2
<1>7. ASSUME NEW c \in AllChunks
      PROVE  FilesOK(c) /\ CurrentOK(c)
  <2> DEFINE e == RankList(c)
             N == Len(sa[c])
  <2>1. currents[c] = Runs(e)
    BY <1>1 DEF RankList
  <2>2. /\ sa[c] \in Seq(Local(c)) /\ N \in Nat /\ DOMAIN sa[c] = 1 .. N
        /\ \A j \in 1 .. N : sa[c][j] \in Local(c)
    <3>1. sa[c] \in Seq(Local(c))
      BY <1>5 DEF Sorted
    <3> QED
      BY <3>1, LenProperties, ElementOfSeq
  <2>3. e = [j \in 1 .. N |-> ranks[c][sa[c][j]]]
    BY <2>2 DEF RankList
  <2>4. e \in [1 .. N -> Nat] /\ \A j \in 1 .. N : e[j] = PrefixRank(text, prefix_len, At(c, sa[c][j]))
    BY <1>6, <2>2, <2>3
  <2> HIDE DEF e, N
  <2>5. e \in Seq(Nat) /\ Len(e) = N
    <3>1. e \in Seq(Nat) /\ DOMAIN e = 1 .. N
      BY <2>2, <2>4
    <3> QED
      BY <2>2, <3>1, LenProperties
  <2>6. /\ Runs(e) \in Seq(RunSet(Nat)) /\ Rising(Runs(e)) /\ Live(Runs(e))
        /\ Expand(Runs(e)) = e
    BY <1>2, <1>3, <1>5, <2>4, <2>5, RunsRise DEF N
  <2>7. CurrentOK(c)
    BY <2>1, <2>6 DEF CurrentOK, e
  <2>8. Window(c) = Local(c)
    <3>1. bounds[c] = <<0, Cardinality(Local(c)) - 1>>
      BY <1>1
    <3>2. Window(c) = 0 .. Cardinality(Local(c)) - 1
      BY <3>1 DEF Window
    <3> QED
      BY <1>3, <3>2, LocalInterval DEF Shape, InText
  <2>9. nexts[c] \in Seq(RunSet(Nat)) /\ global[c] \in Seq(RunSet(Nat))
    <3>1. nexts[c] = <<>> /\ global[c] = <<>>
      BY <1>1
    <3>2. <<>> \in Seq(RunSet(Nat))
      OBVIOUS
    <3> QED
      BY <3>1, <3>2
  <2>10. FilesOK(c)
    BY <1>5, <1>6, <2>1, <2>6, <2>8, <2>9 DEF FilesOK
  <2> QED
    BY <2>7, <2>10
<1>8. /\ prefix_len_then = prefix_len
      /\ \A c : ~ Pending(c) /\ sa_then(c) = sa[c] /\ ranks_then(c) = ranks[c]
  BY <1>1, ThenIsNow
<1>9. PassOK
  <2>1. Done = {}
    <3>1. \A c \in AllChunks : ~ (c < 0)
      BY <1>4
    <3> QED
      BY <1>1, <3>1 DEF Done
  <2> QED
    BY <1>1, <2>1 DEF PassOK
<1>10. D!Pos = Positions(text)
  BY SameText DEF D!Pos
<1>11. rank_then = [p \in D!Pos |-> D!PrefixRank(text, prefix_len_then, p)]
  <2>1. rank_then = [p \in Positions(text) |-> rank_then[p]]
    BY DEF rank_then
  <2>2. ASSUME NEW p \in Positions(text)
        PROVE  rank_then[p] = D!PrefixRank(text, prefix_len_then, p)
    <3>1. /\ ChunkOf(chunk_size, p) \in AllChunks
          /\ p % chunk_size \in Local(ChunkOf(chunk_size, p))
          /\ At(ChunkOf(chunk_size, p), p % chunk_size) = p
      BY <1>3, Places
    <3>2. rank_then[p] = ranks[ChunkOf(chunk_size, p)][p % chunk_size]
      BY <1>8 DEF rank_then
    <3>3. rank_then[p] = PrefixRank(text, prefix_len, p)
      BY <1>6, <3>1, <3>2
    <3>4. D!PrefixRank(text, prefix_len_then, p) = PrefixRank(text, prefix_len_then, p)
      BY SameText
    <3> QED
      BY <1>8, <3>3, <3>4
  <2> QED
    BY <1>10, <2>1, <2>2
<1>12. live_then = D!Pos
  <2>1. ASSUME NEW p
        PROVE  p \in live_then <=> \E c \in AllChunks : \E i \in Local(c) : p = At(c, i)
    BY <1>5, <1>8 DEF live_then, At
  <2>2. ASSUME NEW p
        PROVE  p \in Positions(text) <=> \E c \in AllChunks : \E i \in Local(c) : p = At(c, i)
    BY <1>3, Places
  <2>3. \A p : p \in live_then <=> p \in Positions(text)
    BY <2>1, <2>2
  <2> DEFINE A == live_then
             B == Positions(text)
  <2>4. \A p : p \in A <=> p \in B
    BY <2>3
  <2> HIDE DEF A, B
  <2>5. A = B
    BY <2>4
  <2> QED
    BY <1>10, <2>5 DEF A, B
<1>13. D!Init
  BY <1>1, <1>2, <1>8, <1>11, <1>12 DEF D!Init
<1>14. D!IInv
  BY <1>13, D!InitInv, TextsAssumption, ChunkSizesAssumption
<1> QED
  BY <1>3, <1>7, <1>8, <1>9, <1>13, <1>14 DEF IInv

-----------------------------------------------------------------------------
(* Every step keeps the invariant, and is one of PrefixDoubling's or none  *)
(* of them.                                                                *)
LEMMA NextInv ==
  ASSUME IInv, [Next]_vars
  PROVE  IInv' /\ [D!Next]_(D!vars)
<1>1. CASE Refine
  BY <1>1, RefineInv
<1>2. CASE EndRefine
  BY <1>2, EndRefineInv DEF D!Next
<1>3. CASE MergeRuns
  BY <1>3, MergeInv DEF D!Next
<1>4. CASE Update
  BY <1>4, UpdateInv
<1>5. CASE EndUpdate
  BY <1>5, EndUpdateInv
<1>6. CASE UNCHANGED vars
  <2>1. /\ text' = text /\ chunk_size' = chunk_size /\ prefix_len' = prefix_len
        /\ pc' = pc /\ chunk' = chunk /\ ranks' = ranks /\ sa' = sa
        /\ currents' = currents /\ bounds' = bounds /\ nexts' = nexts /\ global' = global
        /\ next_ranks_buffer' = next_ranks_buffer /\ status' = status
    BY <1>6 DEF vars, files
  <2>2. /\ AllChunks' = AllChunks /\ TotalChunks' = TotalChunks /\ Done' = Done
        /\ \A c : /\ IsEmpty(c)' <=> IsEmpty(c)
                 /\ Local(c)' = Local(c) /\ Window(c)' = Window(c)
    BY <2>1 DEF AllChunks, TotalChunks, Done, IsEmpty, Local, Window
  <2>3. \A c : Pending(c)' <=> Pending(c)
    BY <2>1, <2>2 DEF Pending, Skips
  <2>4. \A c : UpdatedRanks(c)' = UpdatedRanks(c) /\ UpdatedSA(c)' = UpdatedSA(c)
    BY <2>1, <2>2 DEF UpdatedRanks, UpdatedSA
  <2>5. \A c : ranks_then(c)' = ranks_then(c) /\ sa_then(c)' = sa_then(c)
    BY <2>1, <2>3, <2>4 DEF ranks_then, sa_then
  <2>6. prefix_len_then' = prefix_len_then
    BY <2>1 DEF prefix_len_then
  <2>7. UNCHANGED D!vars /\ D!IInv'
    BY <2>1, <2>5, <2>6, Stutters
  <2>8. \A c \in AllChunks : FilesOK(c)' /\ IF Pending(c)' THEN MergedOK(c)' ELSE CurrentOK(c)'
    <3>1. SUFFICES ASSUME NEW c \in AllChunks
                   PROVE  FilesOK(c)' /\ IF Pending(c)' THEN MergedOK(c)' ELSE CurrentOK(c)'
      OBVIOUS
    <3>2. FilesOK(c) /\ nexts'[c] \in Seq(RunSet(Nat)) /\ IF Pending(c) THEN MergedOK(c) ELSE CurrentOK(c)
      BY <2>1 DEF IInv, FilesOK
    <3> QED
      BY <2>1, <2>3, <3>2, SameFiles
  <2>9. Shape'
    BY <2>1, <2>2 DEF IInv, Shape
  <2>10. PassOK' <=> PassOK
    <3>1. \A c : (RefinedOK(c)' <=> RefinedOK(c)) /\ (HasRun(c)' <=> HasRun(c))
      BY <2>1, <2>2 DEF RefinedOK, HasRun, NextList, At
    <3> QED
      BY <2>1, <2>2, <3>1 DEF PassOK
  <2> QED
    BY <2>1, <2>2, <2>7, <2>8, <2>9, <2>10 DEF IInv
<1> QED
  BY <1>1, <1>2, <1>3, <1>4, <1>5, <1>6 DEF Next

(* RankLoop's PrefixDoubling is the one that has been proved about.        *)
LEMMA SameDoubling ==
  /\ D!Init => Doubling!Init
  /\ D!Next => Doubling!Next
  /\ D!vars = Doubling!vars /\ (UNCHANGED D!vars => UNCHANGED Doubling!vars)
<1>1. \A S : D!Cardinality(S) = Doubling!Cardinality(S)
  BY DEF D!Cardinality, Doubling!Cardinality
<1>2. \A t : D!Positions(t) = Doubling!Positions(t)
  BY DEF D!Positions, Doubling!Positions
<1>3. \A t, i : D!Symbol(t, i) = Doubling!Symbol(t, i)
  BY DEF D!Symbol, Doubling!Symbol
<1>4. \A t, L, p, q : D!PrefixEq(t, L, p, q) <=> Doubling!PrefixEq(t, L, p, q)
  BY <1>3 DEF D!PrefixEq, Doubling!PrefixEq
<1>5. \A t, L, p, q : D!PrefixLess(t, L, p, q) <=> Doubling!PrefixLess(t, L, p, q)
  BY <1>3, <1>4 DEF D!PrefixLess, Doubling!PrefixLess
<1>6. ASSUME NEW t, NEW L, NEW p
      PROVE  D!PrefixRank(t, L, p) = Doubling!PrefixRank(t, L, p)
  <2> DEFINE A == {q \in D!Positions(t) : D!PrefixLess(t, L, q, p)}
             B == {q \in Doubling!Positions(t) : Doubling!PrefixLess(t, L, q, p)}
  <2>1. \A q : q \in A <=> q \in B
    BY <1>2, <1>5
  <2>2. A = B
    <3> HIDE DEF A, B
    <3> QED
      BY <2>1
  <2>3. D!PrefixRank(t, L, p) = D!Cardinality(A) /\ Doubling!PrefixRank(t, L, p) = Doubling!Cardinality(B)
    BY DEF D!PrefixRank, Doubling!PrefixRank
  <2> HIDE DEF A, B
  <2> QED
    BY <1>1, <2>2, <2>3
<1>7. D!Pos = Doubling!Pos
  BY <1>2 DEF D!Pos, Doubling!Pos
<1>8. D!vars = Doubling!vars /\ (UNCHANGED D!vars => UNCHANGED Doubling!vars)
  BY DEF D!vars, Doubling!vars
<1>9. D!Init => Doubling!Init
  <2> SUFFICES ASSUME D!Init PROVE Doubling!Init
    OBVIOUS
  <2>1. rank_then = [p \in D!Pos |-> D!PrefixRank(text, prefix_len_then, p)]
    BY DEF D!Init
  <2>2. rank_then = [p \in Doubling!Pos |-> Doubling!PrefixRank(text, prefix_len_then, p)]
    BY <1>6, <1>7, <2>1
  <2> QED
    BY <1>7, <2>2 DEF D!Init, Doubling!Init
<1>10. ASSUME NEW p
       PROVE  p \in D!Active <=> p \in Doubling!Active
  BY DEF D!Active, Doubling!Active, D!PastTextEnd, Doubling!PastTextEnd,
         D!BaseChunk, Doubling!BaseChunk, D!ChunkOf, Doubling!ChunkOf
<1>11. D!Active = Doubling!Active
  <2> DEFINE A == D!Active
             B == Doubling!Active
  <2>1. \A p : p \in A <=> p \in B
    BY <1>10
  <2> HIDE DEF A, B
  <2>2. A = B
    BY <2>1
  <2> QED
    BY <2>2 DEF A, B
<1>12. \A p : D!NextRank(p) = Doubling!NextRank(p)
  BY <1>7 DEF D!NextRank, Doubling!NextRank
<1>13. \A p : D!Group(p) = Doubling!Group(p)
  BY <1>11 DEF D!Group, Doubling!Group
<1>14. \A p : D!Before(p) = Doubling!Before(p)
  BY <1>12, <1>13 DEF D!Before, Doubling!Before
<1>15. \A p : D!Shared(p) <=> Doubling!Shared(p)
  BY <1>12, <1>13 DEF D!Shared, Doubling!Shared
<1>16. D!Doubled(prefix_len_then) = Doubling!Doubled(prefix_len_then)
  BY DEF D!Doubled, Doubling!Doubled
<1>17. D!Finish => Doubling!Finish
  BY <1>11, <1>16 DEF D!Finish, Doubling!Finish
<1>18. D!Iterate => Doubling!Iterate
  <2> SUFFICES ASSUME D!Iterate PROVE Doubling!Iterate
    OBVIOUS
  <2>1. rank_then' = [p \in D!Pos |->
           IF p \in D!Active THEN rank_then[p] + D!Cardinality(D!Before(p)) ELSE rank_then[p]]
    BY DEF D!Iterate
  <2>2. rank_then' = [p \in Doubling!Pos |->
           IF p \in Doubling!Active
           THEN rank_then[p] + Doubling!Cardinality(Doubling!Before(p)) ELSE rank_then[p]]
    BY <1>1, <1>7, <1>11, <1>14, <2>1
  <2>3. {p \in D!Active : ~ D!Shared(p)} = {p \in Doubling!Active : ~ Doubling!Shared(p)}
    BY <1>11, <1>15
  <2>4. live_then' = live_then \ {p \in Doubling!Active : ~ Doubling!Shared(p)}
    BY <2>3 DEF D!Iterate
  <2> QED
    BY <1>11, <1>16, <2>2, <2>4 DEF D!Iterate, Doubling!Iterate
<1> QED
  BY <1>8, <1>9, <1>17, <1>18 DEF D!Next, Doubling!Next

-----------------------------------------------------------------------------
(* The inductive invariant holds for every text and every chunk size.      *)
THEOREM Inductive == Spec => []IInv
<1>1. Init => IInv
  BY InitInv
<1>2. IInv /\ [Next]_vars => IInv'
  BY NextInv
<1> QED
  BY <1>1, <1>2, PTL DEF Spec

(* The files keep their types, and no program leaves its window's slice.   *)
THEOREM TypeCorrect == Spec => []TypeOK
<1>1. ASSUME IInv PROVE TypeOK
  <2>1. Shape /\ \A c \in AllChunks : FilesOK(c)
    BY <1>1 DEF IInv
  <2>2. ASSUME NEW runs \in Seq(RunSet(Nat)) PROVE IsRuns(runs)
    <3>1. \A j \in DOMAIN runs : runs[j] \in RunSet(Nat)
      BY LenProperties, ElementOfSeq
    <3>2. \A run \in RunSet(Nat) : run.rank \in Nat /\ run.count \in Nat
      BY DEF RunSet
    <3> QED
      BY <3>1, <3>2 DEF IsRuns
  <2>3. ASSUME NEW c \in AllChunks
        PROVE  /\ ranks[c] \in [Local(c) -> Nat]
               /\ Range(sa[c]) \subseteq Local(c)
               /\ IsRuns(currents[c]) /\ IsRuns(nexts[c]) /\ IsRuns(global[c])
               /\ Window(c) \subseteq Local(c)
    <3>1. /\ ranks[c] \in [Local(c) -> Nat]
          /\ currents[c] \in Seq(RunSet(Nat)) /\ nexts[c] \in Seq(RunSet(Nat))
          /\ global[c] \in Seq(RunSet(Nat))
          /\ Range(sa[c]) \subseteq Window(c) /\ Window(c) \subseteq Local(c)
      BY <2>1 DEF FilesOK
    <3> QED
      BY <2>2, <3>1
  <2> QED
    BY <2>1, <2>3 DEF TypeOK, Shape
<1> QED
  BY Inductive, <1>1, PTL

(* Neither merge nor update ever meets streams that do not fit: what       *)
(* update left in currents and sa iterations ago still covers, entry by    *)
(* entry, the runs that refine makes now.                                  *)
THEOREM Succeeds == Spec => []NeverFails
<1>1. IInv => NeverFails
  BY DEF IInv, Shape, NeverFails
<1> QED
  BY Inductive, <1>1, PTL

(* Whenever refine or merge runs, the currents files say the ranks of the  *)
(* suffix arrays' entries, although no program but update has written them.*)
THEOREM CurrentsExact == Spec => []CurrentsFollowRanks
<1>1. ASSUME IInv PROVE CurrentsFollowRanks
  <2> SUFFICES ASSUME pc \in {"refine", "merge"}, NEW c \in AllChunks
               PROVE  Expand(currents[c]) = [j \in DOMAIN sa[c] |-> ranks[c][sa[c][j]]]
    BY DEF CurrentsFollowRanks
  <2>1. CurrentOK(c)
    BY <1>1, ThenIsNow DEF IInv
  <2> QED
    BY <2>1 DEF CurrentOK, RankList
<1> QED
  BY Inductive, <1>1, PTL

(* merge's heap need not sort within a chunk: its triples come in the      *)
(* order of their pairs, whatever refine's buffer held past the text's end.*)
THEOREM OrderedTriples == Spec => []TriplesInOrder
<1>1. ASSUME IInv PROVE TriplesInOrder
  <2> SUFFICES ASSUME pc = "merge", NEW c \in AllChunks, NEW j \in 2 .. Len(AllTriples[c])
               PROVE  LET t == AllTriples[c][j - 1]
                          u == AllTriples[c][j]
                      IN  t.current < u.current \/ (t.current = u.current /\ t.next < u.next)
    BY DEF TriplesInOrder
  <2>1. Merging
    BY <1>1 DEF Merging
  <2> QED
    BY <2>1, TriplesRise
<1> QED
  BY Inductive, <1>1, PTL

(* The files that merge finds are such as MergeProofs starts from: what    *)
(* is proved of Merge there holds of the merge of every iteration.         *)
THEOREM MergeFindsMergeable == Spec => [](pc = "merge" => Mergeable(currents, nexts))
<1>1. ASSUME IInv, pc = "merge" PROVE Mergeable(currents, nexts)
  <2>1. Merging /\ Shape
    BY <1>1 DEF Merging, IInv
  <2>2. /\ TotalChunks \in Nat \ {0} /\ AllChunks = 0 .. TotalChunks - 1
        /\ DOMAIN currents = AllChunks /\ DOMAIN nexts = AllChunks
    BY <2>1, Places DEF Shape
  <2>3. IsFiniteSet(AllChunks) /\ AllChunks = 0 .. Cardinality(AllChunks) - 1
    BY <2>2, FS_Interval
  <2>4. ASSUME NEW runs \in Seq(RunSet(Nat)), Live(runs)
        PROVE  runs \in Seq([rank : Nat, count : Nat \ {0}])
    <3> DEFINE V == [rank : Nat, count : Nat \ {0}]
               n == Len(runs)
    <3>1. n \in Nat /\ runs \in [1 .. n -> RunSet(Nat)]
      OBVIOUS
    <3>2. \A j \in 1 .. n : runs[j] \in RunSet(Nat) /\ runs[j].count # 0
      BY <2>4, <3>1 DEF Live
    <3>3. \A j \in 1 .. n : runs[j] \in V
      BY <3>2 DEF RunSet
    <3> HIDE DEF V, n
    <3>4. runs \in [1 .. n -> V]
      BY <3>1, <3>3
    <3>5. runs \in Seq(V)
      BY <3>1, <3>4
    <3> QED
      BY <3>5 DEF V
  <2>5. ASSUME NEW c \in AllChunks
        PROVE  /\ currents[c] \in Seq([rank : Nat, count : Nat \ {0}])
               /\ nexts[c] \in Seq([rank : Nat, count : Nat \ {0}])
               /\ ~ StreamsDisagree(currents[c], nexts[c])
    <3>1. FilesOK(c) /\ CurrentOK(c) /\ RefinedOK(c)
      BY <2>1, MergingFacts
    <3>2. Live(nexts[c])
      <4>1. CASE IsEmpty(c)
        BY <3>1, <4>1 DEF RefinedOK, Live
      <4>2. CASE ~ IsEmpty(c)
        <5>1. NextList(c) \in Seq(Nat) /\ nexts[c] = Runs(NextList(c))
          BY <3>1, <4>2 DEF RefinedOK
        <5> QED
          BY <5>1, RunsFit DEF Live
      <4> QED
        BY <4>1, <4>2
    <3>3. currents[c] \in Seq(RunSet(Nat)) /\ nexts[c] \in Seq(RunSet(Nat)) /\ Live(currents[c])
      BY <3>1 DEF FilesOK, CurrentOK
    <3> QED
      BY <2>1, <2>4, <3>2, <3>3, MergeSucceeds
  <2>6. ASSUME NEW c \in AllChunks, NEW j \in 2 .. Len(Triples(currents[c], nexts[c]))
        PROVE  LET t == Triples(currents[c], nexts[c])[j - 1]
                   u == Triples(currents[c], nexts[c])[j]
               IN  t.current < u.current \/ (t.current = u.current /\ t.next < u.next)
    <3>1. AllTriples[c] = Triples(currents[c], nexts[c])
      BY DEF AllTriples
    <3> QED
      BY <2>1, <2>6, <3>1, TriplesRise
  <2>7. \E c \in AllChunks : nexts[c] # <<>>
    <3> SUFFICES ASSUME \A c \in AllChunks : nexts[c] = <<>> PROVE FALSE
      OBVIOUS
    <3>1. \A c \in AllChunks : AllTriples[c] = <<>>
      BY NoTriples DEF AllTriples
    <3>2. AllTriples = [c \in AllChunks |-> <<>>]
      BY <3>1 DEF AllTriples
    <3> QED
      BY <2>1, <3>2, MergeSucceeds
  <2> QED
    BY <2>2, <2>3, <2>5, <2>6, <2>7 DEF Mergeable
<1> QED
  BY Inductive, <1>1, PTL

(* The window that refine loads and update writes back holds every         *)
(* position that is still in the suffix array.                             *)
THEOREM WindowWide == Spec => []WindowCoversLive
<1>1. IInv => WindowCoversLive
  BY DEF IInv, FilesOK, WindowCoversLive
<1> QED
  BY Inductive, <1>1, PTL

(* The loop on files, with its runs, windows and local suffix arrays,      *)
(* implements PrefixDoubling, which has none of them.                      *)
THEOREM Implements == Spec => ImplementsDoubling
<1>1. Init => Doubling!Init
  BY InitInv, SameDoubling
<1>2. IInv /\ [Next]_vars => [Doubling!Next]_(Doubling!vars)
  BY NextInv, SameDoubling
<1> QED
  BY Inductive, <1>1, <1>2, PTL DEF Spec, ImplementsDoubling, Doubling!Spec

(* The ranks that the loop is after.                                       *)
RanksFinal ==
  \A c \in AllChunks : \A i \in Local(c) : ranks[c][i] = SuffixRank(text, c * chunk_size + i)

(* The loop's last ranks.                                                  *)
LEMMA FinishedRanks ==
  ASSUME IInv, pc = "finished"
  PROVE  RanksFinal
<1> SUFFICES ASSUME NEW c \in AllChunks, NEW i \in Local(c)
             PROVE  ranks[c][i] = SuffixRank(text, c * chunk_size + i)
  BY DEF RanksFinal
<1>1. D!FinalRanksAreSuffixRanks
  BY D!FinalFacts, TextsAssumption, ChunkSizesAssumption DEF IInv
<1>2. Shape /\ At(c, i) \in D!Pos
  BY Places, SameText DEF IInv, D!Pos
<1>3. rank_then[At(c, i)] = SuffixRank(text, At(c, i))
  BY <1>1, <1>2, SameText DEF D!FinalRanksAreSuffixRanks
<1>4. rank_then[At(c, i)] = ranks[c][i]
  BY <1>2, RankThenAt, ThenIsNow
<1> QED
  BY <1>3, <1>4 DEF At

(* When the loop ends, the ranks files hold every suffix's index in the    *)
(* suffix array of the text, whatever the chunk size.                      *)
THEOREM FilesHoldSuffixRanks ==
  Spec => [](pc = "finished" =>
               \A c \in AllChunks : \A i \in Local(c) :
                 ranks[c][i] = SuffixRank(text, c * chunk_size + i))
<1>1. IInv => (pc = "finished" =>
                 \A c \in AllChunks : \A i \in Local(c) :
                   ranks[c][i] = SuffixRank(text, c * chunk_size + i))
  BY FinishedRanks DEF RanksFinal
<1> QED
  BY Inductive, <1>1, PTL

-----------------------------------------------------------------------------
(* Pipeline.  What the files are, whatever program was killed.             *)
RanksTyped(f) == DOMAIN f = AllChunks /\ \A c \in AllChunks : f[c] \in [Local(c) -> Nat]

OrdersTyped(f) == DOMAIN f = AllChunks /\ \A c \in AllChunks : f[c] \in Seq(Local(c))

StreamsTyped(f) == f \in [AllChunks -> Seq(RunSet(Nat))]

BufferTyped(f) == f \in [0 .. chunk_size - 1 -> Nat]

PairsTyped(f) == f \in [AllChunks -> Seq(PairSet)]

OutputTyped(f) == f \in [AllChunks -> Seq(Nat)]

Typed ==
  /\ InText
  /\ prefix_len \in Nat \ {0} /\ chunk \in 0 .. TotalChunks /\ faults \in Nat
  /\ RanksTyped(ranks) /\ OrdersTyped(sa)
  /\ StreamsTyped(currents) /\ StreamsTyped(nexts) /\ StreamsTyped(global)
  /\ BufferTyped(next_ranks_buffer) /\ BufferTyped(suffixarray)
  /\ PairsTyped(pairs) /\ OutputTyped(output)

(* What a step must leave for the files to keep their types.               *)
LEMMA TypedAfter ==
  ASSUME InText, text' = text, chunk_size' = chunk_size,
         prefix_len' \in Nat \ {0}, chunk' \in 0 .. TotalChunks, faults' \in Nat,
         RanksTyped(ranks'), OrdersTyped(sa'),
         StreamsTyped(currents'), StreamsTyped(nexts'), StreamsTyped(global'),
         BufferTyped(next_ranks_buffer'), BufferTyped(suffixarray'),
         PairsTyped(pairs'), OutputTyped(output')
  PROVE  Typed' /\ AllChunks' = AllChunks /\ TotalChunks' = TotalChunks
<1>1. InText' /\ AllChunks' = AllChunks /\ TotalChunks' = TotalChunks
  BY DEF InText, AllChunks, TotalChunks
<1>2. \A c : Local(c)' = Local(c)
  BY DEF Local
<1>3. RanksTyped(ranks)' /\ OrdersTyped(sa)'
  BY <1>1, <1>2 DEF RanksTyped, OrdersTyped
<1>4. StreamsTyped(currents)' /\ StreamsTyped(nexts)' /\ StreamsTyped(global)'
  BY <1>1 DEF StreamsTyped
<1>5. BufferTyped(next_ranks_buffer)' /\ BufferTyped(suffixarray)'
  BY DEF BufferTyped
<1>6. PairsTyped(pairs)' /\ OutputTyped(output)'
  BY <1>1 DEF PairsTyped, OutputTyped
<1> QED
  BY <1>1, <1>3, <1>4, <1>5, <1>6 DEF Typed

(* A part of a sequence.                                                   *)
LEMMA PartTyped ==
  ASSUME NEW V, NEW s \in Seq(V), NEW n \in Nat, n <= Len(s)
  PROVE  SubSeq(s, 1, n) \in Seq(V)
  OBVIOUS

(* refine, on files of whatever kind.                                      *)
LEMMA ReadTyped ==
  ASSUME Typed, NEW c \in AllChunks
  PROVE  BufferTyped(ReadNextRanks(c))
<1>1. /\ chunk_size \in Nat \ {0} /\ AllChunks = 0 .. TotalChunks - 1 /\ TotalChunks \in Nat
      /\ prefix_len \in Nat
  BY TextPlaces DEF Typed
<1> DEFINE S == chunk_size
           L == prefix_len
           at(p) == NextRankAt(c, p)
<1>2. ASSUME NEW p \in 0 .. S - 1 PROVE ReadNextRanks(c)[p] \in Nat
  <2>1. next_ranks_buffer[p] \in Nat
    BY <1>2 DEF Typed, BufferTyped
  <2>2. CASE ~ (p \in Window(c) /\ at(p)[1] < TotalChunks /\ at(p)[2] \in Local(at(p)[1]))
    BY <2>1, <2>2 DEF ReadNextRanks
  <2>3. CASE p \in Window(c) /\ at(p)[1] < TotalChunks /\ at(p)[2] \in Local(at(p)[1])
    <3>0. L \div S \in Nat
      BY <1>1, Division
    <3>1. L \div S \in Nat /\ c \in Nat
      BY <1>1, <3>0
    <3>2. BaseChunk(S, L, c) \in Nat
      <4> DEFINE d == L \div S
      <4>1. d \in Nat /\ BaseChunk(S, L, c) = c + d
        BY <3>1 DEF BaseChunk
      <4> HIDE DEF d
      <4> QED
        BY <3>1, <4>1
    <3>3. at(p)[1] \in Nat
      BY <3>2 DEF NextRankAt
    <3>4. at(p)[1] \in AllChunks
      BY <1>1, <2>3, <3>3
    <3>5. ranks[at(p)[1]] \in [Local(at(p)[1]) -> Nat]
      BY <3>4 DEF Typed, RanksTyped
    <3>6. ReadNextRanks(c)[p] = ranks[at(p)[1]][at(p)[2]]
      BY <2>3 DEF ReadNextRanks
    <3> HIDE DEF at
    <3> QED
      BY <2>3, <3>5, <3>6
  <2> QED
    BY <2>2, <2>3
<1>3. ReadNextRanks(c) = [p \in 0 .. S - 1 |-> ReadNextRanks(c)[p]]
  BY DEF ReadNextRanks
<1> QED
  BY <1>2, <1>3 DEF BufferTyped

(* refine writes streams, whatever it finds in its window.                 *)
LEMMA RefinedTyped ==
  ASSUME Typed, NEW c \in AllChunks, NEW buffer, BufferTyped(buffer)
  PROVE  Runs([j \in DOMAIN sa[c] |-> buffer[sa[c][j]]]) \in Seq(RunSet(Nat))
<1> DEFINE s == sa[c]
           n == Len(s)
           r == [j \in DOMAIN s |-> buffer[s[j]]]
<1>1. s \in Seq(Local(c)) /\ \A i \in Local(c) : i \in 0 .. chunk_size - 1
  BY DEF Typed, OrdersTyped, Local
<1> HIDE DEF s
<1>2. n \in Nat /\ DOMAIN s = 1 .. n /\ \A j \in 1 .. n : s[j] \in Local(c)
  BY <1>1
<1>3. \A j \in 1 .. n : buffer[s[j]] \in Nat
  BY <1>1, <1>2 DEF BufferTyped
<1> HIDE DEF n
<1>4. r \in Seq(Nat)
  BY <1>2, <1>3
<1> HIDE DEF r
<1>5. Runs(r) \in Seq(RunSet(Nat))
  BY <1>4, RunsFit
<1> QED
  BY <1>5 DEF r, s

(* merge, on streams of whatever kind.                                     *)
LEMMA TripleListsAll ==
  ASSUME Typed
  PROVE  TripleLists(AllTriples)
<1>1. AllChunks \subseteq Nat /\ IsFiniteSet(AllChunks)
  <2>1. AllChunks \subseteq Nat /\ AllChunks = 0 .. TotalChunks - 1 /\ TotalChunks \in Nat
    BY TextPlaces DEF Typed
  <2> QED
    BY <2>1, FS_Interval
<1>2. DOMAIN AllTriples = AllChunks /\ \A c \in AllChunks : AllTriples[c] = Triples(currents[c], nexts[c])
  BY DEF AllTriples
<1>3. ASSUME NEW c \in AllChunks
      PROVE  /\ AllTriples[c] \in Seq(TripleSet)
             /\ \A j \in 1 .. Len(AllTriples[c]) : AllTriples[c][j].count # 0
  <2>1. currents[c] \in Seq(RunSet(Nat)) /\ nexts[c] \in Seq(RunSet(Nat))
    BY DEF Typed, StreamsTyped
  <2> QED
    BY <1>2, <2>1, TriplesTyped
<1> QED
  BY <1>1, <1>2, <1>3 DEF TripleLists

(* merge writes streams, whatever the order of the triples.                *)
LEMMA MergedTyped ==
  ASSUME Typed
  PROVE  StreamsTyped(MergedInTurn(AllTriples))
<1>1. DOMAIN AllTriples = AllChunks
  BY DEF AllTriples
<1>2. /\ DOMAIN MergedInTurn(AllTriples) = AllChunks
      /\ \A c \in AllChunks : MergedInTurn(AllTriples)[c] \in Seq(RunSet(Nat))
  BY <1>1, TripleListsAll, MergedType
<1>3. MergedInTurn(AllTriples) = [c \in AllChunks |-> MergedInTurn(AllTriples)[c]]
  BY <1>1 DEF MergedInTurn
<1> QED
  BY <1>2, <1>3 DEF StreamsTyped

(* update, on streams that cover the suffix array.                         *)
LEMMA UpdatedTyped ==
  ASSUME Typed, NEW c \in AllChunks, Len(Slots(global[c])) = Len(sa[c])
  PROVE  /\ UpdatedRanks(c) \in [Local(c) -> Nat]
         /\ UpdatedSA(c) \in Seq(Local(c))
         /\ UpdatedCurrents(c) \in Seq(RunSet(Nat))
<1> DEFINE g == global[c]
           s == sa[c]
           slot == Slots(g)
           n == Len(s)
           Slot(i) == slot[CHOOSE j \in DOMAIN s : s[j] = i]
<1>1. g \in Seq(RunSet(Nat)) /\ s \in Seq(Local(c)) /\ ranks[c] \in [Local(c) -> Nat]
  BY DEF Typed, StreamsTyped, OrdersTyped, RanksTyped
<1>2. Len(slot) = n
  OBVIOUS
<1> HIDE DEF g, s, slot
<1>3. n \in Nat /\ DOMAIN s = 1 .. n /\ DOMAIN g = 1 .. Len(g)
  BY <1>1
<1>4. slot \in Seq(1 .. Len(g)) 
  <2>1. \E st : Cuts(st, Widths(g), Len(g))
    BY <1>1, StreamCut
  <2> QED
    BY <1>1, <2>1, SlotsAt DEF slot
<1>5. \A j \in 1 .. n : slot[j] \in 1 .. Len(g)
  BY <1>2, <1>4
<1>6. UpdatedSA(c) \in Seq(Local(c))
  <2> DEFINE K == {j \in DOMAIN s : Survives(g[slot[j]])}
  <2>1. K \in SUBSET (1 .. Len(s))
    BY <1>3
  <2>2. UpdatedSA(c) = Selected(s, K)
    BY DEF UpdatedSA, s, g, slot
  <2> HIDE DEF K
  <2> QED
    BY <1>1, <2>1, <2>2, SelectedLists
<1>7. UpdatedCurrents(c) \in Seq(RunSet(Nat))
  <2> DEFINE K == {j \in DOMAIN g : Survives(g[j])}
  <2>1. K \in SUBSET (1 .. Len(g))
    BY <1>3
  <2>2. UpdatedCurrents(c) = Selected(g, K)
    BY DEF UpdatedCurrents, g
  <2> HIDE DEF K
  <2> QED
    BY <1>1, <2>1, <2>2, SelectedLists
<1>8. UpdatedRanks(c) =
        [i \in Local(c) |-> IF i \in Window(c) \cap Range(s) THEN g[Slot(i)].rank ELSE ranks[c][i]]
  BY DEF UpdatedRanks, s, g, slot
<1>9. ASSUME NEW i \in Range(s) PROVE g[Slot(i)].rank \in Nat
  <2>1. \E j \in DOMAIN s : s[j] = i
    BY <1>9 DEF Range
  <2>2. (CHOOSE j \in DOMAIN s : s[j] = i) \in 1 .. n
    BY <1>3, <2>1
  <2>3. Slot(i) \in 1 .. Len(g)
    BY <1>5, <2>2
  <2> HIDE DEF Slot
  <2>4. g[Slot(i)] \in RunSet(Nat)
    BY <1>1, <2>3
  <2> QED
    BY <2>4 DEF RunSet
<1> HIDE DEF Slot
<1>10. \A i \in Local(c) : (IF i \in Window(c) \cap Range(s) THEN g[Slot(i)].rank ELSE ranks[c][i]) \in Nat
  BY <1>1, <1>9
<1> DEFINE z(i) == IF i \in Window(c) \cap Range(s) THEN g[Slot(i)].rank ELSE ranks[c][i]
<1>11. UpdatedRanks(c) = [i \in Local(c) |-> z(i)] /\ \A i \in Local(c) : z(i) \in Nat
  BY <1>8, <1>10
<1> HIDE DEF z
<1> QED
  BY <1>6, <1>7, <1>11

(* A chunk's ranks as create_pairs and verify read them.                   *)
LEMMA ChunkRanksTyped ==
  ASSUME Typed, NEW c \in AllChunks
  PROVE  /\ ChunkRanks(c) \in Seq(Nat)
         /\ Len(ChunkRanks(c)) = ChunkLength(text, chunk_size, c)
         /\ Local(c) = 0 .. ChunkLength(text, chunk_size, c) - 1
         /\ c \in 0 .. Len(text) \div chunk_size
<1> DEFINE S == chunk_size
           l == ChunkLength(text, S, c)
           last == Len(text) \div S
           members == {p \in Positions(text) : ChunkOf(S, p) = c}
           m == Cardinality(Local(c))
<1>1. /\ text \in CodedText /\ S \in Nat \ {0} /\ AllChunks \subseteq Nat
      /\ Local(c) = 0 .. m - 1 /\ InText
      /\ \A i \in Local(c) : At(c, i) \in Positions(text) /\ ChunkOf(S, At(c, i)) = c
      /\ \A p \in Positions(text) :
           p % S \in Local(ChunkOf(S, p)) /\ At(ChunkOf(S, p), p % S) = p
  BY TextPlaces, LocalInterval DEF Typed
<1>2. c \in 0 .. last /\ last \in Nat
  <2>1. Len(text) \in Nat
    BY <1>1, PositionsType
  <2>2. last \in Nat
    BY <1>1, <2>1, Division
  <2> QED
    BY <2>2 DEF AllChunks, Chunks, ChunkOf
<1>3. /\ l \in 1 .. S /\ Cardinality(members) = l
      /\ \A i \in 0 .. l - 1 : c * S + i \in Positions(text)
  BY <1>1, <1>2, ChunkCounted
<1>4. m \in Nat /\ Local(c) \subseteq 0 .. S - 1 /\ IsFiniteSet(Local(c))
  <2>1. Local(c) \subseteq 0 .. S - 1 /\ IsFiniteSet(0 .. S - 1)
    BY <1>1, FS_Interval DEF Local
  <2> QED
    BY <2>1, FS_Subset, FS_CardinalityType
<1> HIDE DEF l, m
<1>5. \A i \in 0 .. S - 1 : i \in Local(c) <=> c * S + i \in Positions(text)
  <2> DEFINE P(i) == c * S + i \in Positions(text)
  <2>1. Local(c) = {i \in 0 .. S - 1 : P(i)}
    BY DEF Local
  <2> HIDE DEF P, S
  <2>2. \A i \in 0 .. S - 1 : i \in Local(c) <=> P(i)
    BY <2>1
  <2> QED
    BY <2>2 DEF P
<1>6. \A i \in 0 .. l - 1 : i \in Local(c)
  <2> SUFFICES ASSUME NEW i \in 0 .. l - 1 PROVE i \in Local(c)
    OBVIOUS
  <2>0. S \in Nat \ {0} /\ l \in 1 .. S
    BY <1>1, <1>3
  <2>1. i \in 0 .. S - 1
    BY <2>0
  <2>2. c * S + i \in Positions(text)
    BY <1>3
  <2> QED
    BY <1>5, <2>1, <2>2
<1>7. \A p \in Positions(text) : ChunkOf(S, p) = c => p \in c * S .. c * S + l - 1
  BY <1>1, <1>2, ChunkCounted DEF l
<1>8. \A i \in Local(c) : i \in 0 .. l - 1
  <2> SUFFICES ASSUME NEW i \in Local(c) PROVE i \in 0 .. l - 1
    OBVIOUS
  <2> DEFINE x == c * S
  <2>1. x + i \in Positions(text) /\ ChunkOf(S, x + i) = c
    BY <1>1 DEF At
  <2>2. x + i \in x .. x + l - 1
    BY <1>7, <2>1
  <2>3. x \in Nat /\ i \in Nat
    BY <1>1, <1>4
  <2> HIDE DEF x
  <2> QED
    BY <1>3, <2>2, <2>3
<1>9. Local(c) = 0 .. l - 1
  BY <1>6, <1>8
<1>10. m = l
  <2>1. 0 .. m - 1 = 0 .. l - 1 /\ l \in Nat
    BY <1>1, <1>3, <1>9
  <2>2. \A i \in Nat : i < m <=> i < l
    BY <1>3, <1>4, <2>1
  <2> QED
    BY <1>3, <1>4, <2>2
<1>11. ChunkRanks(c) = [i \in 1 .. l |-> ranks[c][i - 1]]
  BY <1>10 DEF ChunkRanks, m
<1>12. \A i \in 1 .. l : ranks[c][i - 1] \in Nat
  <2> SUFFICES ASSUME NEW i \in 1 .. l PROVE ranks[c][i - 1] \in Nat
    OBVIOUS
  <2>1. i - 1 \in Local(c)
    BY <1>3, <1>9
  <2> QED
    BY <2>1 DEF Typed, RanksTyped
<1> DEFINE z(i) == ranks[c][i - 1]
<1>13. l \in Nat /\ ChunkRanks(c) = [i \in 1 .. l |-> z(i)] /\ \A i \in 1 .. l : z(i) \in Nat
  BY <1>3, <1>11, <1>12
<1> HIDE DEF z
<1>14. ChunkRanks(c) \in Seq(Nat) /\ Len(ChunkRanks(c)) = l
  BY <1>13
<1> QED
  BY <1>2, <1>9, <1>14 DEF l

(* create_pairs appends pairs to any files of pairs.                       *)
LEMMA AppendedTyped ==
  ASSUME Typed, chunk < TotalChunks, NEW buckets
  PROVE  PairsTyped(AppendedPairs(ChunkBuffer, buckets))
<1> DEFINE R == ChunkRanks(chunk)
           q(k) == PairsSlice(chunk_size, ChunkBuffer, R, k)
<1>1. /\ chunk_size \in Nat \ {0} /\ TotalChunks \in Nat \ {0}
      /\ AllChunks = 0 .. TotalChunks - 1 /\ chunk \in 0 .. TotalChunks
  BY TextPlaces DEF Typed
<1>2. chunk \in AllChunks /\ chunk \in Nat
  BY <1>1
<1>3. R \in Seq(Nat)
  BY <1>2, ChunkRanksTyped
<1>4. ASSUME NEW k \in AllChunks PROVE q(k) \in Seq(PairSet)
  <2> HIDE DEF R
  <2>1. k \in 0 .. TotalChunks - 1
    BY <1>1
  <2>2. PairsSlice(chunk_size,
          InverseBuffer(chunk_size, TotalChunks, InverseRecords(chunk_size, chunk, R)), R, k)
        \in Seq(PairSet)
    BY <1>1, <1>2, <1>3, <2>1, SliceTyped
  <2> QED
    BY <2>2 DEF ChunkBuffer, R
<1>5. \A k \in AllChunks : pairs[k] \in Seq(PairSet)
  BY DEF Typed, PairsTyped
<1>6. AppendedPairs(ChunkBuffer, buckets) =
        [k \in AllChunks |-> IF k \in buckets THEN pairs[k] \o q(k) ELSE pairs[k]]
  BY DEF AppendedPairs
<1> HIDE DEF q
<1>7. ASSUME NEW k \in AllChunks
      PROVE  (IF k \in buckets THEN pairs[k] \o q(k) ELSE pairs[k]) \in Seq(PairSet)
  <2>1. pairs[k] \in Seq(PairSet) /\ q(k) \in Seq(PairSet)
    BY <1>4, <1>5
  <2>2. pairs[k] \o q(k) \in Seq(PairSet)
    BY <2>1, ConcatAt
  <2> QED
    BY <2>1, <2>2
<1> DEFINE z(k) == IF k \in buckets THEN pairs[k] \o q(k) ELSE pairs[k]
<1>8. /\ AppendedPairs(ChunkBuffer, buckets) = [k \in AllChunks |-> z(k)]
      /\ \A k \in AllChunks : z(k) \in Seq(PairSet)
  BY <1>6, <1>7
<1> HIDE DEF z
<1> QED
  BY <1>8 DEF PairsTyped

(* A file replaced.                                                        *)
LEMMA ReplacedTyped ==
  ASSUME NEW c \in AllChunks, NEW x
  PROVE  /\ \A f : RanksTyped(f) /\ x \in [Local(c) -> Nat] => RanksTyped([f EXCEPT ![c] = x])
         /\ \A f : OrdersTyped(f) /\ x \in Seq(Local(c)) => OrdersTyped([f EXCEPT ![c] = x])
         /\ \A f : StreamsTyped(f) /\ x \in Seq(RunSet(Nat)) => StreamsTyped([f EXCEPT ![c] = x])
         /\ \A f : OutputTyped(f) /\ x \in Seq(Nat) => OutputTyped([f EXCEPT ![c] = x])
<1>1. \A f : RanksTyped(f) /\ x \in [Local(c) -> Nat] => RanksTyped([f EXCEPT ![c] = x])
  BY DEF RanksTyped
<1>2. \A f : OrdersTyped(f) /\ x \in Seq(Local(c)) => OrdersTyped([f EXCEPT ![c] = x])
  BY DEF OrdersTyped
<1>3. \A f : StreamsTyped(f) /\ x \in Seq(RunSet(Nat)) => StreamsTyped([f EXCEPT ![c] = x])
  BY DEF StreamsTyped
<1>4. \A f : OutputTyped(f) /\ x \in Seq(Nat) => OutputTyped([f EXCEPT ![c] = x])
  BY DEF OutputTyped
<1> QED
  BY <1>1, <1>2, <1>3, <1>4

(* What a wiped TEMP_DIR leaves.                                           *)
LEMMA WipedTyped ==
  ASSUME Typed
  PROVE  /\ StreamsTyped([c \in AllChunks |-> <<>>]) /\ PairsTyped([c \in AllChunks |-> <<>>])
         /\ OutputTyped([c \in AllChunks |-> <<>>])
         /\ BufferTyped([i \in 0 .. chunk_size - 1 |-> 0])
         /\ Doubled(prefix_len) \in Nat \ {0}
         /\ 0 \in 0 .. TotalChunks /\ (chunk < TotalChunks => chunk + 1 \in 0 .. TotalChunks)
         /\ (chunk < TotalChunks => chunk \in AllChunks)
         /\ TotalChunks \in Nat \ {0} /\ AllChunks = 0 .. TotalChunks - 1
         /\ TotalChunks - 1 \in AllChunks
<1>1. TotalChunks \in Nat \ {0} /\ AllChunks = 0 .. TotalChunks - 1 /\ chunk \in 0 .. TotalChunks
  BY TextPlaces DEF Typed
<1>2. StreamsTyped([c \in AllChunks |-> <<>>]) /\ PairsTyped([c \in AllChunks |-> <<>>])
      /\ OutputTyped([c \in AllChunks |-> <<>>])
  BY DEF StreamsTyped, PairsTyped, OutputTyped
<1>3. BufferTyped([i \in 0 .. chunk_size - 1 |-> 0])
  BY DEF BufferTyped
<1>4. Doubled(prefix_len) \in Nat \ {0}
  BY DEF Doubled, Typed
<1> QED
  BY <1>1, <1>2, <1>3, <1>4

-----------------------------------------------------------------------------
(* No step, not even a killed program's, leaves anything else.             *)
LEMMA RefineTypes == Typed /\ Refine /\ UNCHANGED <<faults, tail_vars>> => Typed'
<1> SUFFICES ASSUME Typed, Refine, UNCHANGED <<faults, tail_vars>> PROVE Typed'
  OBVIOUS
<1>1. chunk \in AllChunks /\ chunk + 1 \in 0 .. TotalChunks
  BY WipedTyped DEF Refine
<1>2. /\ text' = text /\ chunk_size' = chunk_size /\ prefix_len' = prefix_len /\ chunk' = chunk + 1
      /\ ranks' = ranks /\ sa' = sa /\ currents' = currents /\ global' = global
      /\ faults' = faults /\ suffixarray' = suffixarray /\ pairs' = pairs /\ output' = output
  BY DEF Refine, tail_vars, files
<1>3. StreamsTyped(nexts') /\ BufferTyped(next_ranks_buffer')
  <2>1. CASE IsEmpty(chunk)
    BY <2>1 DEF Refine, Typed
  <2>2. CASE ~ IsEmpty(chunk)
    <3> DEFINE r == Runs([j \in DOMAIN sa[chunk] |-> next_ranks_buffer'[sa[chunk][j]]])
    <3>1. next_ranks_buffer' = ReadNextRanks(chunk) /\ nexts' = [nexts EXCEPT ![chunk] = r]
      BY <2>2 DEF Refine
    <3>2. BufferTyped(next_ranks_buffer')
      BY <1>1, <3>1, ReadTyped
    <3>3. r \in Seq(RunSet(Nat))
      BY <1>1, <3>2, RefinedTyped
    <3> HIDE DEF r
    <3>4. StreamsTyped(nexts)
      BY DEF Typed
    <3>5. StreamsTyped(nexts')
      BY <1>1, <3>1, <3>3, <3>4, ReplacedTyped
    <3> QED
      BY <3>2, <3>5
  <2> QED
    BY <2>1, <2>2
<1> QED
  BY <1>1, <1>2, <1>3, TypedAfter DEF Typed

(* One lemma per action.  update, of any streams:                          *)
LEMMA UpdateTypes == Typed /\ Update /\ UNCHANGED <<faults, tail_vars>> => Typed'
<1> SUFFICES ASSUME Typed, Update, UNCHANGED <<faults, tail_vars>> PROVE Typed'
  OBVIOUS
<1>1. chunk \in AllChunks /\ chunk + 1 \in 0 .. TotalChunks
  BY WipedTyped DEF Update
<1>2. /\ text' = text /\ chunk_size' = chunk_size /\ prefix_len' = prefix_len
      /\ nexts' = nexts /\ global' = global /\ next_ranks_buffer' = next_ranks_buffer
      /\ faults' = faults /\ suffixarray' = suffixarray /\ pairs' = pairs /\ output' = output
  BY DEF Update, tail_vars
<1>3. chunk' \in 0 .. TotalChunks
  BY <1>1 DEF Update, Typed
<1>4. RanksTyped(ranks') /\ OrdersTyped(sa') /\ StreamsTyped(currents')
  <2>1. CASE UNCHANGED files
    BY <2>1 DEF files, Typed
  <2>2. CASE ~ UNCHANGED files
    <3>1. /\ Len(Slots(global[chunk])) = Len(sa[chunk])
          /\ ranks' = [ranks EXCEPT ![chunk] = UpdatedRanks(chunk)]
          /\ sa' = [sa EXCEPT ![chunk] = UpdatedSA(chunk)]
          /\ currents' = [currents EXCEPT ![chunk] = UpdatedCurrents(chunk)]
      BY <2>2 DEF Update
    <3>2. /\ UpdatedRanks(chunk) \in [Local(chunk) -> Nat]
          /\ UpdatedSA(chunk) \in Seq(Local(chunk))
          /\ UpdatedCurrents(chunk) \in Seq(RunSet(Nat))
      BY <1>1, <3>1, UpdatedTyped
    <3>3. RanksTyped(ranks) /\ OrdersTyped(sa) /\ StreamsTyped(currents)
      BY DEF Typed
    <3> QED
      BY <1>1, <3>1, <3>2, <3>3, ReplacedTyped
  <2> QED
    BY <2>1, <2>2
<1> QED
  BY <1>2, <1>3, <1>4, TypedAfter DEF Typed

(* the wipe between two iterations,                                        *)
LEMMA EndUpdateTypes == Typed /\ EndUpdate /\ UNCHANGED <<faults, tail_vars>> => Typed'
<1> SUFFICES ASSUME Typed, EndUpdate, UNCHANGED <<faults, tail_vars>> PROVE Typed'
  OBVIOUS
<1>1. /\ text' = text /\ chunk_size' = chunk_size /\ prefix_len' = Doubled(prefix_len) /\ chunk' = 0
      /\ ranks' = ranks /\ sa' = sa /\ currents' = currents
      /\ nexts' = [c \in AllChunks |-> <<>>] /\ global' = [c \in AllChunks |-> <<>>]
      /\ next_ranks_buffer' = [i \in 0 .. chunk_size - 1 |-> 0]
      /\ faults' = faults /\ suffixarray' = suffixarray /\ pairs' = pairs /\ output' = output
  BY DEF EndUpdate, tail_vars, files
<1> QED
  BY <1>1, WipedTyped, TypedAfter DEF Typed

(* merge, of triples in any order,                                         *)
LEMMA MergeTypes == Typed /\ MergeInTurn => Typed'
<1> SUFFICES ASSUME Typed, MergeInTurn PROVE Typed'
  OBVIOUS
<1>1. /\ text' = text /\ chunk_size' = chunk_size /\ prefix_len' = prefix_len
      /\ ranks' = ranks /\ sa' = sa /\ currents' = currents /\ nexts' = nexts
      /\ next_ranks_buffer' = next_ranks_buffer
      /\ faults' = faults /\ suffixarray' = suffixarray /\ pairs' = pairs /\ output' = output
  BY DEF MergeInTurn, tail_vars, files
<1>2. chunk' \in 0 .. TotalChunks /\ StreamsTyped(global')
  <2>1. CASE UNCHANGED <<chunk, global>>
    BY <2>1 DEF Typed
  <2>2. CASE ~ UNCHANGED <<chunk, global>>
    <3>1. chunk' = 0 /\ global' = MergedInTurn(AllTriples)
      BY <2>2 DEF MergeInTurn
    <3> QED
      BY <3>1, MergedTyped, WipedTyped
  <2> QED
    BY <2>1, <2>2
<1> QED
  BY <1>1, <1>2, TypedAfter DEF Typed

(* invert, of any pairs,                                                   *)
LEMMA InvertTypes == Typed /\ Invert => Typed'
<1> SUFFICES ASSUME Typed, Invert PROVE Typed'
  OBVIOUS
<1>1. chunk \in AllChunks /\ chunk + 1 \in 0 .. TotalChunks
  BY WipedTyped DEF Invert
<1>2. /\ text' = text /\ chunk_size' = chunk_size /\ prefix_len' = prefix_len /\ chunk' = chunk + 1
      /\ ranks' = ranks /\ sa' = sa /\ currents' = currents /\ nexts' = nexts /\ global' = global
      /\ next_ranks_buffer' = next_ranks_buffer /\ faults' = faults /\ pairs' = pairs
      /\ suffixarray' = Placed(chunk_size, suffixarray, pairs[chunk])
      /\ output' = [output EXCEPT ![chunk] = WrittenChunk(chunk_size, suffixarray, pairs[chunk])]
  BY DEF Invert, files
<1>3. /\ chunk_size \in Nat \ {0} /\ pairs[chunk] \in Seq(PairSet)
      /\ suffixarray \in [0 .. chunk_size - 1 -> Nat]
  BY <1>1, TextPlaces DEF Typed, PairsTyped, BufferTyped
<1>4. /\ Placed(chunk_size, suffixarray, pairs[chunk]) \in [0 .. chunk_size - 1 -> Nat]
      /\ WrittenChunk(chunk_size, suffixarray, pairs[chunk]) \in Seq(Nat)
  BY <1>3, PlacedTyped
<1>5. BufferTyped(suffixarray') /\ OutputTyped(output')
  <2>1. OutputTyped(output)
    BY DEF Typed
  <2> QED
    BY <1>1, <1>2, <1>4, <2>1, ReplacedTyped DEF BufferTyped
<1> QED
  BY <1>1, <1>2, <1>5, TypedAfter DEF Typed

(* create_pairs, all buckets appended or some of them.                     *)
LEMMA AppendTypes ==
  ASSUME Typed, chunk < TotalChunks, NEW buckets, pairs' = AppendedPairs(ChunkBuffer, buckets),
         chunk' \in {0, chunk + 1}, faults' \in Nat,
         UNCHANGED <<text, chunk_size, prefix_len, files, nexts, global, next_ranks_buffer, status,
                     suffixarray, output>>
  PROVE  Typed'
<1>1. /\ text' = text /\ chunk_size' = chunk_size /\ prefix_len' = prefix_len
      /\ ranks' = ranks /\ sa' = sa /\ currents' = currents /\ nexts' = nexts /\ global' = global
      /\ next_ranks_buffer' = next_ranks_buffer /\ suffixarray' = suffixarray /\ output' = output
  BY DEF files
<1>2. PairsTyped(pairs')
  BY AppendedTyped
<1>3. chunk' \in 0 .. TotalChunks
  BY WipedTyped
<1> QED
  BY <1>1, <1>2, <1>3, TypedAfter DEF Typed

(* and what is left where refine,                                          *)
LEMMA KillRefineTypes == Typed /\ KillRefine => Typed'
<1> SUFFICES ASSUME Typed, KillRefine PROVE Typed'
  OBVIOUS
<1>1. /\ text' = text /\ chunk_size' = chunk_size /\ prefix_len' = prefix_len /\ chunk' = chunk
      /\ ranks' = ranks /\ sa' = sa /\ currents' = currents /\ global' = global
      /\ next_ranks_buffer' = next_ranks_buffer
      /\ faults' = faults + 1 /\ suffixarray' = suffixarray /\ pairs' = pairs /\ output' = output
  BY DEF KillRefine, Fault, tail_vars, files
<1>2. StreamsTyped(nexts')
  <2>1. CASE UNCHANGED nexts
    BY <2>1 DEF Typed
  <2>2. CASE ~ UNCHANGED nexts
    <3> DEFINE r == Runs([j \in DOMAIN sa[chunk] |-> ReadNextRanks(chunk)[sa[chunk][j]]])
    <3>1. /\ chunk = TotalChunks - 1
          /\ \E part \in FirstParts(r) : nexts' = [nexts EXCEPT ![chunk] = part]
      BY <2>2 DEF KillRefine
    <3>2. chunk \in AllChunks
      BY <3>1, WipedTyped
    <3>3. BufferTyped(ReadNextRanks(chunk))
      BY <3>2, ReadTyped
    <3>4. r \in Seq(RunSet(Nat))
      BY <3>2, <3>3, RefinedTyped
    <3> HIDE DEF r
    <3>5. PICK part \in FirstParts(r) : nexts' = [nexts EXCEPT ![chunk] = part]
      BY <3>1
    <3>6. PICK n \in 0 .. Len(r) : part = SubSeq(r, 1, n)
      BY DEF FirstParts
    <3>7. part \in Seq(RunSet(Nat))
      BY <3>4, <3>6, PartTyped
    <3>8. StreamsTyped(nexts)
      BY DEF Typed
    <3> QED
      BY <3>2, <3>5, <3>7, <3>8, ReplacedTyped
  <2> QED
    BY <2>1, <2>2
<1> QED
  BY <1>1, <1>2, TypedAfter DEF Typed

(* merge                                                                   *)
LEMMA KillMergeTypes == Typed /\ KillMerge => Typed'
<1> SUFFICES ASSUME Typed, KillMerge PROVE Typed'
  OBVIOUS
<1>1. /\ text' = text /\ chunk_size' = chunk_size /\ prefix_len' = prefix_len
      /\ ranks' = ranks /\ sa' = sa /\ currents' = currents /\ nexts' = nexts
      /\ next_ranks_buffer' = next_ranks_buffer
      /\ faults' = faults + 1 /\ suffixarray' = suffixarray /\ pairs' = pairs /\ output' = output
  BY DEF KillMerge, Fault, tail_vars, files
<1>2. chunk' \in 0 .. TotalChunks /\ StreamsTyped(global')
  <2>1. CASE UNCHANGED <<chunk, global>>
    BY <2>1 DEF Typed
  <2>2. CASE ~ UNCHANGED <<chunk, global>>
    <3> DEFINE m == MergedInTurn(AllTriples)
    <3>1. /\ chunk' = 0
          /\ \E length \in [AllChunks -> 0 .. chunk_size] :
               /\ \A c \in AllChunks : length[c] <= Len(m[c])
               /\ global' = [c \in AllChunks |-> SubSeq(m[c], 1, length[c])]
      <4>1. /\ chunk' = 0
            /\ \E resolved \in {m}, length \in [AllChunks -> 0 .. chunk_size] :
                 /\ \A c \in AllChunks : length[c] <= Len(resolved[c])
                 /\ \A c \in AllChunks : length[c] = 0 \/ ComesToWrite(c, length[c])
                 /\ global' = [c \in AllChunks |-> SubSeq(resolved[c], 1, length[c])]
        BY <2>2 DEF KillMerge
      <4> HIDE DEF m
      <4> QED
        BY <4>1
    <3>2. \A c \in AllChunks : m[c] \in Seq(RunSet(Nat))
      BY <3>1, MergedTyped DEF StreamsTyped
    <3> HIDE DEF m
    <3>3. PICK length \in [AllChunks -> 0 .. chunk_size] :
            /\ \A c \in AllChunks : length[c] <= Len(m[c])
            /\ global' = [c \in AllChunks |-> SubSeq(m[c], 1, length[c])]
      BY <3>1
    <3>4. \A c \in AllChunks : SubSeq(m[c], 1, length[c]) \in Seq(RunSet(Nat))
      <4> SUFFICES ASSUME NEW c \in AllChunks PROVE SubSeq(m[c], 1, length[c]) \in Seq(RunSet(Nat))
        OBVIOUS
      <4>1. length[c] \in Nat /\ length[c] <= Len(m[c])
        BY <3>3
      <4> QED
        BY <3>2, <4>1, PartTyped
    <3> DEFINE z(c) == SubSeq(m[c], 1, length[c])
    <3>5. global' = [c \in AllChunks |-> z(c)] /\ \A c \in AllChunks : z(c) \in Seq(RunSet(Nat))
      BY <3>3, <3>4
    <3> HIDE DEF z
    <3>6. StreamsTyped(global')
      BY <3>5 DEF StreamsTyped
    <3> QED
      BY <3>1, <3>6, WipedTyped
  <2> QED
    BY <2>1, <2>2
<1> QED
  BY <1>1, <1>2, TypedAfter DEF Typed

(* or update were killed.                                                  *)
LEMMA KillUpdateTypes == Typed /\ KillUpdate => Typed'
<1> SUFFICES ASSUME Typed, KillUpdate PROVE Typed'
  OBVIOUS
<1>1. /\ text' = text /\ chunk_size' = chunk_size /\ prefix_len' = Doubled(prefix_len) /\ chunk' = 0
      /\ nexts' = [c \in AllChunks |-> <<>>] /\ global' = [c \in AllChunks |-> <<>>]
      /\ next_ranks_buffer' = [i \in 0 .. chunk_size - 1 |-> 0]
      /\ faults' = faults + 1 /\ suffixarray' = suffixarray /\ pairs' = pairs /\ output' = output
  BY DEF KillUpdate, AfterKilledUpdate, Fault, tail_vars
<1>2. RanksTyped(ranks') /\ OrdersTyped(sa') /\ StreamsTyped(currents')
  <2>0. RanksTyped(ranks) /\ OrdersTyped(sa) /\ StreamsTyped(currents)
    BY DEF Typed
  <2>1. CASE UNCHANGED <<ranks, sa, currents>>
    BY <2>0, <2>1
  <2>2. CASE ~ UNCHANGED <<ranks, sa, currents>>
    <3>1. /\ chunk < TotalChunks /\ Len(Slots(global[chunk])) = Len(sa[chunk])
          /\ currents' = [currents EXCEPT ![chunk] = <<>>]
          /\ \/ UNCHANGED <<ranks, sa>>
             \/ sa' = [sa EXCEPT ![chunk] = <<>>] /\ UNCHANGED ranks
             \/ /\ ranks' = [ranks EXCEPT ![chunk] = UpdatedRanks(chunk)]
                /\ \E rest \in {<<>>, UpdatedSA(chunk)} : sa' = [sa EXCEPT ![chunk] = rest]
      BY <2>2 DEF KillUpdate
    <3>2. chunk \in AllChunks
      BY <3>1, WipedTyped
    <3>3. UpdatedRanks(chunk) \in [Local(chunk) -> Nat] /\ UpdatedSA(chunk) \in Seq(Local(chunk))
      BY <3>1, <3>2, UpdatedTyped
    <3>4. <<>> \in Seq(RunSet(Nat)) /\ <<>> \in Seq(Local(chunk))
      OBVIOUS
    <3>5. StreamsTyped(currents')
      BY <2>0, <3>1, <3>2, <3>4, ReplacedTyped
    <3>6. RanksTyped(ranks')
      BY <2>0, <3>1, <3>2, <3>3, ReplacedTyped
    <3>7. OrdersTyped(sa')
      <4>1. \A x : x \in Seq(Local(chunk)) => OrdersTyped([sa EXCEPT ![chunk] = x])
        BY <2>0, <3>2, ReplacedTyped
      <4>2. CASE UNCHANGED sa
        BY <2>0, <4>2
      <4>3. CASE \E rest \in {<<>>, UpdatedSA(chunk)} : sa' = [sa EXCEPT ![chunk] = rest]
        BY <3>3, <3>4, <4>1, <4>3
      <4> QED
        BY <3>1, <3>4, <4>1, <4>2, <4>3
    <3> QED
      BY <3>5, <3>6, <3>7
  <2> QED
    BY <2>1, <2>2
<1> QED
  BY <1>1, <1>2, WipedTyped, TypedAfter DEF Typed

-----------------------------------------------------------------------------
(* What is proved of verify, on these files.                               *)
AnyRanks(S) == Seq(Seq(Nat))
AnySA(S) == Seq(Int)

V == INSTANCE VerifyProofs WITH
  W <- chunk_size, RankFiles <- AnyRanks, SAFiles <- AnySA,
  ranks <- Files([c \in AllChunks |-> ChunkRanks(c)]), sa <- Files(output),
  chunk_id <- chunk, stream <- 0, verify_files <- <<>>, carry <- <<>>

(* Its operators are those of Pipeline.                                    *)
LEMMA SameOrder ==
  /\ \A t : V!Positions(t) = Positions(t)
  /\ \A t, i : V!Symbol(t, i) = Symbol(t, i)
  /\ \A t, p, q : V!SuffixLess(t, p, q) <=> SuffixLess(t, p, q)
  /\ \A t, p : V!SuffixRank(t, p) = SuffixRank(t, p)
  /\ \A t, P : V!InSuffixOrder(t, P) = InSuffixOrder(t, P)
<1>1. \A t : V!Positions(t) = Positions(t)
  BY DEF Positions, V!Positions
<1>2. \A t, i : V!Symbol(t, i) = Symbol(t, i)
  BY DEF Symbol, V!Symbol
<1>3. \A T : V!Cardinality(T) = Cardinality(T)
  BY DEF Cardinality, V!Cardinality
<1>4. \A t, L, p, q : V!PrefixEq(t, L, p, q) <=> PrefixEq(t, L, p, q)
  BY <1>2 DEF PrefixEq, V!PrefixEq
<1>5. \A t, L, p, q : V!PrefixLess(t, L, p, q) <=> PrefixLess(t, L, p, q)
  BY <1>2, <1>4 DEF PrefixLess, V!PrefixLess
<1>6. \A t, p, q : V!SuffixLess(t, p, q) <=> SuffixLess(t, p, q)
  BY <1>5 DEF SuffixLess, V!SuffixLess
<1>7. \A t, p : V!SuffixRank(t, p) = SuffixRank(t, p)
  BY <1>1, <1>3, <1>6 DEF SuffixRank, V!SuffixRank
<1>8. \A t, P : V!InSuffixOrder(t, P) = InSuffixOrder(t, P)
  BY DEF InSuffixOrder, V!InSuffixOrder, SuffixLess, V!SuffixLess, PrefixLess, V!PrefixLess,
         PrefixEq, V!PrefixEq, Symbol, V!Symbol, Cardinality, V!Cardinality
<1> QED
  BY <1>1, <1>2, <1>6, <1>7, <1>8

(* What VerifyProofs calls final are the same files.                       *)
LEMMA SameFinal ==
  /\ \A t, S, l, k : V!FinalFile(t, S, l, k) = FinalFile(t, S, l, k)
  /\ \A t, S : V!FinalRankFiles(t, S) = FinalRankFiles(t, S)
  /\ V!Files = Seq(Seq(Nat)) /\ V!CodedText = CodedText
  /\ \A S, R : V!Full(S, R) <=> \A d \in 1 .. Len(R) - 1 : Len(R[d]) = S
<1>1. \A t, S, l, k : V!FinalFile(t, S, l, k) = FinalFile(t, S, l, k)
  BY SameOrder DEF FinalFile, V!FinalFile
<1>2. \A S, p : V!ChunkOf(S, p) = ChunkOf(S, p)
  BY DEF ChunkOf, V!ChunkOf
<1>3. \A T : V!Cardinality(T) = Cardinality(T)
  BY DEF Cardinality, V!Cardinality
<1>4. \A t, S : V!FinalRankFiles(t, S) = FinalRankFiles(t, S)
  BY SameOrder, <1>2, <1>3 DEF FinalRankFiles, V!FinalRankFiles
<1>5. V!Files = Seq(Seq(Nat)) /\ V!CodedText = CodedText
  BY DEF V!Files, V!CodedText, CodedText
<1>6. \A S, R : V!Full(S, R) <=> \A d \in 1 .. Len(R) - 1 : Len(R[d]) = S
  BY DEF V!Full
<1> QED
  BY <1>1, <1>4, <1>5, <1>6

(* So is the verdict on files.                                             *)
LEMMA SameVerdict ==
  /\ \A s : V!FlattenSeq(s) = FlattenSeq(s)
  /\ \A t, S, R, f : V!Accepts(t, S, R, f) <=> Accepts(t, S, R, f)
<1>1. \A s : V!FlattenSeq(s) = FlattenSeq(s)
  BY DEF FlattenSeq, V!FlattenSeq
<1>2. \A S, file : V!ReadRanks(S, file) = ReadRanks(S, file)
  BY DEF ReadRanks, V!ReadRanks
<1>3. \A S, R, c, i : V!NextRank(S, R, c, i) = NextRank(S, R, c, i)
  BY <1>2 DEF NextRank, V!NextRank
<1>4. \A t, S, R, stream_then, c, i :
        V!VerifyRecord(t, S, R, stream_then, c, i) = VerifyRecord(t, S, R, stream_then, c, i)
  BY <1>3, SameOrder DEF VerifyRecord, V!VerifyRecord, EncodeFirstKey, V!EncodeFirstKey
<1>5. \A t, S, R, stream_then, c :
        V!VerifyRecords(t, S, R, stream_then, c) = VerifyRecords(t, S, R, stream_then, c)
  BY <1>2, <1>4 DEF VerifyRecords, V!VerifyRecords
<1>6. \A t, S, R, stream_then, c :
        V!PartitionFails(t, S, R, stream_then, c) <=> PartitionFails(t, S, R, stream_then, c)
  BY <1>2 DEF PartitionFails, V!PartitionFails
<1>7. \A T : V!Cardinality(T) = Cardinality(T)
  BY DEF Cardinality, V!Cardinality
<1>8. \A S, file, records : V!Fits(S, file, records) <=> Fits(S, file, records)
  BY <1>7 DEF Fits, V!Fits
<1>9. \A records : V!InSlotOrder(records) = InSlotOrder(records)
  BY <1>7 DEF InSlotOrder, V!InSlotOrder
<1>10. \A r, s : V!LexLessStrict(r, s) <=> LexLessStrict(r, s)
  BY DEF LexLessStrict, V!LexLessStrict
<1>11. \A file, placed, before : V!InOrder(file, placed, before) <=> InOrder(file, placed, before)
  BY <1>10 DEF InOrder, V!InOrder
<1>12. \A s : V!Last(s) = Last(s)
  BY DEF Last, V!Last
<1>13. \A t, S, R, f : V!Accepts(t, S, R, f) <=> Accepts(t, S, R, f)
  BY <1>1, <1>2, <1>5, <1>6, <1>8, <1>9, <1>11, <1>12, SMTT(60) DEF Accepts, V!Accepts
<1> QED
  BY <1>1, <1>13

-----------------------------------------------------------------------------
(* The files that verify reads.                                            *)
GivenRanks == Files([c \in AllChunks |-> ChunkRanks(c)])

(* Whatever was killed, a ranks file is as long as its chunk: all but the  *)
(* last are full.                                                          *)
LEMMA GivenFiles ==
  ASSUME Typed
  PROVE  /\ GivenRanks = [c \in 1 .. TotalChunks |-> ChunkRanks(c - 1)]
         /\ GivenRanks \in Seq(Seq(Nat)) /\ Len(GivenRanks) = TotalChunks
         /\ \A c \in 1 .. TotalChunks :
              /\ c - 1 \in AllChunks /\ c - 1 \in 0 .. Len(text) \div chunk_size
              /\ Len(GivenRanks[c]) = ChunkLength(text, chunk_size, c - 1)
         /\ \A d \in 1 .. Len(GivenRanks) - 1 : Len(GivenRanks[d]) = chunk_size
         /\ Files(output) \in [1 .. Len(GivenRanks) -> Seq(Int)]
<1>1. TotalChunks \in Nat \ {0} /\ AllChunks = 0 .. TotalChunks - 1
  BY WipedTyped
<1>2. \A c \in 1 .. TotalChunks : c - 1 \in AllChunks
  BY <1>1
<1>3. GivenRanks = [c \in 1 .. TotalChunks |-> ChunkRanks(c - 1)]
  BY <1>2 DEF GivenRanks, Files
<1>4. ASSUME NEW c \in 1 .. TotalChunks
      PROVE  /\ c - 1 \in AllChunks /\ c - 1 \in 0 .. Len(text) \div chunk_size
             /\ ChunkRanks(c - 1) \in Seq(Nat)
             /\ Len(ChunkRanks(c - 1)) = ChunkLength(text, chunk_size, c - 1)
  BY <1>2, ChunkRanksTyped
<1>5. GivenRanks \in Seq(Seq(Nat)) /\ Len(GivenRanks) = TotalChunks
  BY <1>1, <1>3, <1>4
<1>6. \A c \in 1 .. TotalChunks : Len(GivenRanks[c]) = ChunkLength(text, chunk_size, c - 1)
  BY <1>3, <1>4
<1>7. ASSUME NEW d \in 1 .. Len(GivenRanks) - 1 PROVE Len(GivenRanks[d]) = chunk_size
  <2>1. d \in 1 .. TotalChunks /\ d - 1 < TotalChunks - 1
    BY <1>1, <1>5
  <2> DEFINE last == Len(text) \div chunk_size
  <2>2. text \in CodedText /\ chunk_size \in Nat \ {0}
    BY TextPlaces DEF Typed
  <2>3. Len(text) \in Nat
    BY <2>2, PositionsType
  <2>4. last \in Nat
    BY <2>2, <2>3, Division
  <2>5. TotalChunks = last + 1
    BY DEF TotalChunks, ChunkOf
  <2> HIDE DEF last
  <2>6. d - 1 < last
    BY <2>1, <2>4, <2>5
  <2> QED
    BY <1>6, <2>1, <2>6 DEF ChunkLength, last
<1>8. Files(output) \in [1 .. Len(GivenRanks) -> Seq(Int)]
  <2>1. \A c \in 1 .. TotalChunks : output[c - 1] \in Seq(Nat)
    BY <1>2 DEF Typed, OutputTyped
  <2>2. Files(output) = [c \in 1 .. TotalChunks |-> output[c - 1]]
    BY DEF Files
  <2>3. \A s \in Seq(Nat) : s \in Seq(Int)
    <3> SUFFICES ASSUME NEW s \in Seq(Nat) PROVE s \in Seq(Int)
      OBVIOUS
    <3>1. Len(s) \in Nat /\ s = [i \in 1 .. Len(s) |-> s[i]] /\ \A i \in 1 .. Len(s) : s[i] \in Int
      OBVIOUS
    <3> QED
      BY <3>1
  <2> QED
    BY <1>5, <2>1, <2>2, <2>3
<1> QED
  BY <1>3, <1>4, <1>5, <1>6, <1>7, <1>8

(* What VerifyProofs assumes of its constants holds here.                  *)
LEMMA Assumed ==
  /\ V!TextsAssumption /\ V!ChunkSizesAssumption /\ V!FilesAssumption
<1>1. Texts \subseteq Seq(Nat \ {0})
  BY TextsAssumption
<1>2. \A S \in ChunkSizes : AnyRanks(S) \subseteq Seq(Seq(Nat)) /\ AnySA(S) \subseteq Seq(Int)
  BY DEF AnyRanks, AnySA
<1> QED
  BY <1>1, <1>2, ChunkSizesAssumption DEF V!TextsAssumption, V!ChunkSizesAssumption, V!FilesAssumption

(* Files that verify accepts hold the suffix array.                        *)
LEMMA OutputAccepted ==
  ASSUME Typed, Accepts(text, chunk_size, GivenRanks, Files(output))
  PROVE  FlattenSeq(Files(output)) = SuffixArray
<1> DEFINE t == text
           S == chunk_size
           R == GivenRanks
           f == Files(output)
<1>1. t \in V!CodedText /\ S \in Nat \ {0}
  BY TextPlaces, SameFinal DEF Typed
<1>2. R \in V!Files /\ V!Full(S, R) /\ f \in [1 .. Len(R) -> Seq(Int)]
  BY GivenFiles, SameFinal
<1>3. V!Accepts(t, S, R, f)
  BY SameVerdict
<1> HIDE DEF t, S, R, f
<1>4. V!FlattenSeq(f) = V!InSuffixOrder(t, V!Positions(t))
  BY <1>1, <1>2, <1>3, V!AcceptedWhole, TextsAssumption, ChunkSizesAssumption, Assumed
     DEF V!TextsAssumption, V!ChunkSizesAssumption, V!FilesAssumption
<1>5. FlattenSeq(f) = InSuffixOrder(t, Positions(t))
  BY <1>4, SameOrder, SameVerdict
<1> QED
  BY <1>5 DEF SuffixArray, f, t

-----------------------------------------------------------------------------
(* What a run without faults comes to.                                     *)
FinalOutput(k) ==
  output[k] = FinalFile(text, chunk_size, ChunkLength(text, chunk_size, k), k + 1)

(* Final ranks make the files that VerifyProofs calls final.               *)
LEMMA RanksOfFinal ==
  ASSUME Typed, RanksFinal, NEW c \in AllChunks
  PROVE  ChunkRanks(c) = RanksOfChunk(text, chunk_size, c)
<1> DEFINE S == chunk_size
           l == ChunkLength(text, S, c)
           r(i) == SuffixRank(text, c * S + i - 1)
<1>1. l \in Nat /\ Local(c) = 0 .. l - 1 /\ c \in Nat /\ S \in Nat
  <2>1. Local(c) = 0 .. l - 1 /\ c \in 0 .. Len(text) \div S
    BY ChunkRanksTyped
  <2>2. text \in CodedText /\ S \in Nat \ {0} /\ AllChunks \subseteq Nat
    BY TextPlaces DEF Typed
  <2>3. l \in 1 .. S
    BY <2>1, <2>2, ChunkCounted
  <2> QED
    BY <2>1, <2>2, <2>3
<1>2. Len(ChunkRanks(c)) = l /\ ChunkRanks(c) = [i \in 1 .. Cardinality(Local(c)) |-> ranks[c][i - 1]]
      /\ ChunkRanks(c) \in Seq(Nat)
  BY ChunkRanksTyped DEF ChunkRanks
<1>3. ChunkRanks(c) = [i \in 1 .. l |-> ChunkRanks(c)[i]] /\ DOMAIN ChunkRanks(c) = 1 .. l
  <2> DEFINE s == ChunkRanks(c)
  <2>1. s \in Seq(Nat) /\ Len(s) = l
    BY <1>2
  <2> HIDE DEF s, l
  <2>2. s = [i \in 1 .. l |-> s[i]] /\ DOMAIN s = 1 .. l
    BY <2>1
  <2> QED
    BY <2>2 DEF s
<1>4. ASSUME NEW i \in 1 .. l PROVE ChunkRanks(c)[i] = r(i)
  <2> DEFINE x == c * S
  <2>0. i \in Nat
    BY <1>1
  <2>1. i - 1 \in Local(c)
    BY <1>1
  <2>2. x \in Nat
    BY <1>1
  <2>3. x + (i - 1) = x + i - 1
    <3> HIDE DEF x
    <3> QED
      BY <2>0, <2>2
  <2>4. ranks[c][i - 1] = SuffixRank(text, x + (i - 1))
    BY <2>1 DEF RanksFinal
  <2>5. ChunkRanks(c)[i] = ranks[c][i - 1]
    BY <1>2, <1>3
  <2> QED
    BY <2>3, <2>4, <2>5
<1> HIDE DEF l, r
<1>5. ChunkRanks(c) = [i \in 1 .. l |-> r(i)]
  BY <1>3, <1>4
<1> QED
  BY <1>5 DEF RanksOfChunk, r, l

(* verify accepts what a run without faults leaves.                        *)
LEMMA FinalAccepted ==
  ASSUME Typed, RanksFinal, \A k \in AllChunks : FinalOutput(k)
  PROVE  Accepts(text, chunk_size, GivenRanks, Files(output))
<1> DEFINE t == text
           S == chunk_size
           R == GivenRanks
           f == Files(output)
<1>1. t \in V!CodedText /\ S \in Nat \ {0} /\ t \in CodedText
  BY TextPlaces, SameFinal DEF Typed
<1>2. f \in [1 .. Len(R) -> Seq(Int)] /\ Len(R) = TotalChunks
  BY GivenFiles
<1>3. R = FinalRankFiles(t, S)
  <2>1. R = [c \in 1 .. TotalChunks |-> ChunkRanks(c - 1)]
    BY GivenFiles
  <2>2. ASSUME NEW c \in 1 .. TotalChunks
        PROVE  ChunkRanks(c - 1) =
                 [i \in 1 .. Cardinality({p \in Positions(t) : ChunkOf(S, p) = c - 1}) |->
                    SuffixRank(t, (c - 1) * S + i - 1)]
    <3>1. c - 1 \in AllChunks /\ c - 1 \in 0 .. Len(t) \div S
      BY GivenFiles
    <3>2. ChunkRanks(c - 1) = RanksOfChunk(t, S, c - 1)
      BY <3>1, RanksOfFinal
    <3>3. Cardinality({p \in Positions(t) : ChunkOf(S, p) = c - 1}) = ChunkLength(t, S, c - 1)
      BY <1>1, <3>1, ChunkCounted
    <3> QED
      BY <3>2, <3>3 DEF RanksOfChunk
  <2> HIDE DEF t, S, R
  <2>3. [c \in 1 .. TotalChunks |-> ChunkRanks(c - 1)] =
          [c \in 1 .. TotalChunks |->
             [i \in 1 .. Cardinality({p \in Positions(t) : ChunkOf(S, p) = c - 1}) |->
                SuffixRank(t, (c - 1) * S + i - 1)]]
    BY <2>2
  <2>4. TotalChunks = ChunkOf(S, Len(t)) + 1
    BY DEF TotalChunks, S, t
  <2> QED
    BY <2>1, <2>3, <2>4 DEF FinalRankFiles
<1>4. \A k \in 1 .. Len(R) : f[k] = FinalFile(t, S, Len(R[k]), k)
  <2> SUFFICES ASSUME NEW k \in 1 .. Len(R) PROVE f[k] = FinalFile(t, S, Len(R[k]), k)
    OBVIOUS
  <2>1. k - 1 \in AllChunks /\ Len(R[k]) = ChunkLength(t, S, k - 1)
    BY <1>2, GivenFiles
  <2>2. f[k] = output[k - 1]
    BY <1>2 DEF Files
  <2>3. k \in Nat /\ (k - 1) + 1 = k
    <3>1. TotalChunks \in Nat
      BY WipedTyped
    <3> QED
      BY <1>2, <3>1
  <2>4. FinalOutput(k - 1)
    BY <2>1
  <2>5. output[k - 1] = FinalFile(t, S, ChunkLength(t, S, k - 1), k)
    BY <2>3, <2>4 DEF FinalOutput
  <2> QED
    BY <2>1, <2>2, <2>5
<1> HIDE DEF t, S, R, f
<1>5. R = V!FinalRankFiles(t, S) /\ \A k \in 1 .. Len(R) : f[k] = V!FinalFile(t, S, Len(R[k]), k)
  BY <1>3, <1>4, SameFinal
<1>6. V!Accepts(t, S, R, f)
  BY <1>1, <1>2, <1>5, V!FinalFilesAccepted, TextsAssumption, ChunkSizesAssumption, Assumed
     DEF V!TextsAssumption, V!ChunkSizesAssumption, V!FilesAssumption
<1> QED
  BY <1>6, SameVerdict DEF t, S, R, f

-----------------------------------------------------------------------------
(* The steps that leave the files alone.                                   *)
LEMMA RestTypes ==
  ASSUME Typed, prefix_len' \in {prefix_len, Doubled(prefix_len)}, chunk' \in {chunk, 0},
         faults' \in {faults, faults + 1},
         UNCHANGED <<text, chunk_size, ranks, sa, currents, nexts, global, next_ranks_buffer,
                     pairs, suffixarray, output>>
  PROVE  Typed'
<1>1. /\ text' = text /\ chunk_size' = chunk_size /\ prefix_len' \in Nat \ {0}
      /\ chunk' \in 0 .. TotalChunks /\ faults' \in Nat
  BY WipedTyped DEF Typed
<1>2. /\ ranks' = ranks /\ sa' = sa /\ currents' = currents /\ nexts' = nexts /\ global' = global
      /\ next_ranks_buffer' = next_ranks_buffer /\ pairs' = pairs
      /\ suffixarray' = suffixarray /\ output' = output
  OBVIOUS
<1> QED
  BY <1>1, <1>2, TypedAfter DEF Typed

(* No step, no kill and no lost write breaks the types.                    *)
LEMMA NextTypes ==
  ASSUME Typed, [PNext]_all_vars
  PROVE  Typed'
<1>1. CASE LoopStep
  <2>1. CASE Refine
    BY <1>1, <2>1, RefineTypes DEF LoopStep
  <2>2. CASE Update
    BY <1>1, <2>2, UpdateTypes DEF LoopStep
  <2>3. CASE EndUpdate
    BY <1>1, <2>3, EndUpdateTypes DEF LoopStep
  <2>4. CASE EndRefine
    BY <1>1, <2>4, RestTypes DEF LoopStep, EndRefine, files, tail_vars
  <2> QED
    BY <1>1, <2>1, <2>2, <2>3, <2>4 DEF LoopStep
<1>2. CASE MergeInTurn
  BY <1>2, MergeTypes
<1>3. CASE Failure
  BY <1>3, RestTypes DEF Failure, loop_vars, files
<1>4. CASE StartPairs
  BY <1>4, RestTypes DEF StartPairs, files, tail_vars
<1>5. CASE CreatePairs
  <2>1. pairs' = AppendedPairs(ChunkBuffer, AllChunks) /\ faults' \in Nat
    BY <1>5 DEF CreatePairs, Typed
  <2> QED
    BY <1>5, <2>1, AppendTypes DEF CreatePairs
<1>6. CASE EndPairs
  BY <1>6, RestTypes DEF EndPairs, files, tail_vars
<1>7. CASE Invert
  BY <1>7, InvertTypes
<1>8. CASE EndInvert
  BY <1>8, RestTypes DEF EndInvert, loop_vars, files
<1>9. CASE RunVerify
  BY <1>9, RestTypes DEF RunVerify, VerifyEnds, loop_vars, files
<1>10. CASE KillRefine
  BY <1>10, KillRefineTypes
<1>11. CASE KillMerge
  BY <1>11, KillMergeTypes
<1>12. CASE KillUpdate
  BY <1>12, KillUpdateTypes
<1>13. CASE KillStore
  BY <1>13, RestTypes DEF KillStore, Fault, loop_vars, files, tail_vars
<1>14. CASE KillPairs
  <2>1. faults' \in Nat
    BY <1>14 DEF KillPairs, Fault, Typed
  <2>2. CASE chunk = 0
    BY <1>14, <2>2, RestTypes DEF KillPairs, Fault, files
  <2>3. CASE chunk # 0
    <3>1. PICK b \in AllChunks : pairs' = AppendedPairs(ChunkBuffer, 0 .. b - 1)
      BY <1>14, <2>3 DEF KillPairs
    <3>2. chunk' = 0 /\ chunk < TotalChunks
      BY <1>14, <2>3 DEF KillPairs
    <3> QED
      BY <1>14, <2>1, <3>1, <3>2, AppendTypes DEF KillPairs
  <2> QED
    BY <2>2, <2>3
<1>15. CASE LosePairs
  <2>1. faults' \in Nat
    BY <1>15 DEF LosePairs, Fault, Typed
  <2>2. PICK b \in AllChunks : pairs' = AppendedPairs(ChunkBuffer, AllChunks \ {b})
    BY <1>15 DEF LosePairs
  <2> QED
    BY <1>15, <2>1, <2>2, AppendTypes DEF LosePairs
<1>16. CASE KillInvert
  BY <1>16, RestTypes DEF KillInvert, Fault, loop_vars, files
<1>17. CASE KillVerify
  BY <1>17, RestTypes DEF KillVerify, Fault, VerifyEnds, loop_vars, files
<1>18. CASE UNCHANGED all_vars
  BY <1>18, RestTypes DEF all_vars, vars, files, tail_vars
<1> QED
  BY <1>1, <1>2, <1>3, <1>4, <1>5, <1>6, <1>7, <1>8, <1>9, <1>10, <1>11, <1>12, <1>13,
     <1>14, <1>15, <1>16, <1>17, <1>18 DEF PNext

(* What init leaves has these types.                                       *)
LEMMA InitTypes ==
  ASSUME PInit
  PROVE  Typed /\ IInv
<1>1. Init
  BY DEF PInit
<1>2. IInv
  BY <1>1, InitInv
<1>3. Shape /\ \A c \in AllChunks : FilesOK(c)
  BY <1>2 DEF IInv
<1>4. InText /\ prefix_len \in Nat \ {0} /\ chunk \in 0 .. TotalChunks /\ faults \in Nat
  BY <1>3 DEF Shape, InText, PInit
<1>5. RanksTyped(ranks)
  BY <1>3 DEF Shape, FilesOK, RanksTyped
<1>6. OrdersTyped(sa)
  BY <1>3 DEF Shape, FilesOK, Sorted, OrdersTyped
<1>7. StreamsTyped(currents)
  <2>1. \A c \in AllChunks : currents[c] \in Seq(RunSet(Nat))
    BY <1>3 DEF FilesOK
  <2>2. currents = [c \in AllChunks |-> currents[c]]
    BY <1>1 DEF Init
  <2> QED
    BY <2>1, <2>2 DEF StreamsTyped
<1>8. /\ StreamsTyped(nexts) /\ StreamsTyped(global) /\ PairsTyped(pairs) /\ OutputTyped(output)
  BY <1>1 DEF Init, PInit, StreamsTyped, PairsTyped, OutputTyped
<1>9. BufferTyped(next_ranks_buffer) /\ BufferTyped(suffixarray)
  BY <1>1 DEF Init, PInit, BufferTyped
<1> QED
  BY <1>2, <1>4, <1>5, <1>6, <1>7, <1>8, <1>9 DEF Typed

-----------------------------------------------------------------------------
(* A run without faults.  In the loop it is a run of RankLoop, after it the *)
(* ranks are final and the files of pairs and of the suffix array are what *)
(* they should be as far as they have been written.                        *)
PairsReach(n) == \A k \in AllChunks : Paired(text, chunk_size, n, k, pairs[k])

Undisturbed ==
  IF pc \in {"refine", "merge", "update", "finished"}
  THEN IInv /\ \A k \in AllChunks : pairs[k] = <<>>
  ELSE /\ pc # "failed"
       /\ RanksFinal
       /\ pc = "create_pairs" => PairsReach(chunk)
       /\ pc = "invert" => PairsReach(TotalChunks) /\ \A k \in 0 .. chunk - 1 : FinalOutput(k)
       /\ pc \in {"verify", "exited"} => \A k \in AllChunks : FinalOutput(k)

PInv ==
  /\ Typed
  /\ faults = 0 => Undisturbed
  /\ pc # "exited" => exit_code = -1
  /\ ExitCodeIsTrue

(* merge, having its triples in order, writes what RankLoop says.          *)
LEMMA MergeAsOne ==
  ASSUME Typed, IInv, MergeInTurn
  PROVE  MergeRuns
<1>1. Merging
  BY DEF Merging, MergeInTurn
<1>2. /\ \A c \in AllChunks : ~ StreamsDisagree(currents[c], nexts[c])
      /\ AllTriples # [c \in AllChunks |-> <<>>]
  BY <1>1, MergeSucceeds
<1>3. TripleLists(AllTriples)
  BY TripleListsAll
<1>4. DOMAIN AllTriples = AllChunks
  BY DEF AllTriples
<1>5. Ordered(AllTriples)
  <2>1. ASSUME NEW c \in AllChunks, NEW j \in 2 .. Len(AllTriples[c])
        PROVE  Precedes(AllTriples[c][j - 1], AllTriples[c][j])
    BY <1>1, TriplesRise DEF Precedes
  <2> QED
    BY <1>4, <2>1 DEF Ordered
<1>6. MergedInTurn(AllTriples) = Resolved(AllTriples)
  BY <1>3, <1>5, MergedInOrder
<1>7. /\ pc' = "update" /\ chunk' = 0 /\ global' = Resolved(AllTriples)
      /\ UNCHANGED <<text, chunk_size, prefix_len, files, nexts, next_ranks_buffer, status>>
  BY <1>2, <1>6 DEF MergeInTurn
<1> QED
  BY <1>1, <1>2, <1>7 DEF MergeRuns, Merging

(* What does not change.                                                   *)
LEMMA KeepsFinal ==
  ASSUME UNCHANGED <<text, chunk_size, ranks>>
  PROVE  /\ AllChunks' = AllChunks /\ TotalChunks' = TotalChunks
         /\ RanksFinal' <=> RanksFinal
         /\ output' = output => \A k : FinalOutput(k)' <=> FinalOutput(k)
         /\ pairs' = pairs => \A n : PairsReach(n)' <=> PairsReach(n)
<1>1. AllChunks' = AllChunks /\ TotalChunks' = TotalChunks /\ \A c : Local(c)' = Local(c)
  BY DEF AllChunks, TotalChunks, Local
<1>2. RanksFinal' <=> RanksFinal
  BY <1>1 DEF RanksFinal
<1>3. output' = output => \A k : FinalOutput(k)' <=> FinalOutput(k)
  BY DEF FinalOutput
<1>4. pairs' = pairs => \A n : PairsReach(n)' <=> PairsReach(n)
  BY <1>1 DEF PairsReach
<1> QED
  BY <1>1, <1>2, <1>3, <1>4

(* create_pairs.                                                           *)
LEMMA PairsStep ==
  ASSUME Typed, RanksFinal, PairsReach(chunk), CreatePairs
  PROVE  PairsReach(chunk)'
<1> DEFINE S == chunk_size
<1>1. /\ chunk \in AllChunks /\ chunk' = chunk + 1 /\ text' = text /\ chunk_size' = chunk_size
      /\ pairs' = AppendedPairs(ChunkBuffer, AllChunks)
  BY WipedTyped DEF CreatePairs
<1>2. text \in CodedText /\ S \in Nat \ {0}
  BY TextPlaces DEF Typed
<1>3. ChunkRanks(chunk) = RanksOfChunk(text, S, chunk)
  BY <1>1, RanksOfFinal
<1>4. ASSUME NEW k \in AllChunks PROVE Paired(text, S, chunk + 1, k, pairs'[k])
  <2>1. pairs'[k] = pairs[k] \o PairsSlice(S, ChunkBuffer, ChunkRanks(chunk), k)
    BY <1>1 DEF AppendedPairs
  <2>2. PairsSlice(S, ChunkBuffer, ChunkRanks(chunk), k) = Slice(text, S, chunk, k)
    BY <1>3 DEF Slice, ChunkBuffer, TotalChunks
  <2>3. chunk \in 0 .. Len(text) \div S /\ k \in 0 .. Len(text) \div S
    BY <1>1, ChunkRanksTyped
  <2>4. Paired(text, S, chunk, k, pairs[k])
    BY DEF PairsReach
  <2> QED
    BY <1>2, <2>1, <2>2, <2>3, <2>4, PairsAppended
<1>5. AllChunks' = AllChunks
  BY <1>1 DEF AllChunks
<1> QED
  BY <1>1, <1>4, <1>5 DEF PairsReach

(* Before create_pairs has passed a chunk, empty files are right.          *)
LEMMA NoPairs ==
  ASSUME Typed, NEW k \in AllChunks
  PROVE  Paired(text, chunk_size, 0, k, <<>>)
<1> DEFINE S == chunk_size
<1>1. text \in CodedText /\ S \in Nat \ {0} /\ Positions(text) \subseteq Nat
  BY TextPlaces DEF Typed
<1>2. \A p \in Positions(text) : ~ (ChunkOf(S, p) < 0)
  <2> SUFFICES ASSUME NEW p \in Positions(text) PROVE ~ (ChunkOf(S, p) < 0)
    OBVIOUS
  <2>1. p \in Nat
    BY <1>1
  <2>2. p \div S \in Nat
    BY <1>1, <2>1, Division
  <2> QED
    BY <2>2 DEF ChunkOf
<1>3. PairedIn(text, S, 0, k) = {}
  BY <1>2 DEF PairedIn
<1> QED
  BY <1>3 DEF Paired

(* invert.                                                                 *)
LEMMA InvertStep ==
  ASSUME Typed, PairsReach(TotalChunks), \A k \in 0 .. chunk - 1 : FinalOutput(k), Invert
  PROVE  \A k \in 0 .. chunk' - 1 : FinalOutput(k)'
<1> DEFINE S == chunk_size
<1>1. /\ chunk \in AllChunks /\ chunk' = chunk + 1 /\ text' = text /\ chunk_size' = chunk_size
      /\ output' = [output EXCEPT ![chunk] = WrittenChunk(chunk_size, suffixarray, pairs[chunk])]
  BY WipedTyped DEF Invert
<1>2. text \in CodedText /\ S \in Nat \ {0} /\ suffixarray \in [0 .. S - 1 -> Nat]
  BY TextPlaces DEF Typed, BufferTyped
<1>3. chunk \in Nat /\ 0 .. chunk - 1 \subseteq AllChunks
  BY <1>1, WipedTyped
<1>4. WrittenChunk(S, suffixarray, pairs[chunk])
        = FinalFile(text, S, ChunkLength(text, S, chunk), chunk + 1)
  <2>1. chunk \in 0 .. Len(text) \div S
    BY <1>1, ChunkRanksTyped
  <2>2. Paired(text, S, TotalChunks, chunk, pairs[chunk])
    BY <1>1 DEF PairsReach
  <2>3. TotalChunks = ChunkOf(S, Len(text)) + 1
    BY DEF TotalChunks
  <2> QED
    BY <1>2, <2>1, <2>2, <2>3, BucketInverted
<1>5. DOMAIN output = AllChunks
  BY DEF Typed, OutputTyped
<1>6. output'[chunk] = FinalFile(text, S, ChunkLength(text, S, chunk), chunk + 1)
  BY <1>1, <1>4, <1>5
<1>7. SUFFICES ASSUME NEW k \in 0 .. chunk' - 1
               PROVE  output'[k] = FinalFile(text, S, ChunkLength(text, S, k), k + 1)
  BY <1>1 DEF FinalOutput
<1>8. CASE k = chunk
  BY <1>6, <1>8
<1>9. CASE k # chunk
  <2>1. k \in 0 .. chunk - 1
    BY <1>1, <1>3, <1>9
  <2>2. output'[k] = output[k]
    BY <1>1, <1>3, <1>5, <2>1
  <2>3. FinalOutput(k)
    BY <2>1
  <2> QED
    BY <2>2, <2>3 DEF FinalOutput
<1> QED
  BY <1>8, <1>9

-----------------------------------------------------------------------------
(* A step of a run without faults.                                         *)
LEMMA LoopUndisturbed ==
  ASSUME Typed, Undisturbed, LoopStep \/ MergeInTurn
  PROVE  Undisturbed'
<1>1. /\ pc \in {"refine", "merge", "update", "finished"}
      /\ pairs' = pairs /\ text' = text /\ chunk_size' = chunk_size
  BY DEF LoopStep, MergeInTurn, Refine, EndRefine, Update, EndUpdate, tail_vars
<1>2. IInv /\ \A k \in AllChunks : pairs[k] = <<>>
  BY <1>1 DEF Undisturbed
<1>3. Next
  BY <1>2, MergeAsOne DEF LoopStep, Next
<1>4. IInv'
  BY <1>2, <1>3, NextInv
<1>5. pc' \in {"refine", "merge", "update", "finished"}
  BY <1>4 DEF IInv, Shape
<1>6. \A k \in AllChunks' : pairs'[k] = <<>>
  BY <1>1, <1>2 DEF AllChunks
<1> QED
  BY <1>4, <1>5, <1>6 DEF Undisturbed

(* create_pairs, invert and verify, none of them disturbed.                *)
LEMMA TailUndisturbed ==
  ASSUME Typed, Undisturbed,
         StartPairs \/ CreatePairs \/ EndPairs \/ Invert \/ EndInvert \/ RunVerify
  PROVE  Undisturbed'
<1>1. text' = text /\ chunk_size' = chunk_size /\ ranks' = ranks
  BY DEF StartPairs, CreatePairs, EndPairs, Invert, EndInvert, RunVerify, VerifyEnds,
         loop_vars, files
<1>2. /\ AllChunks' = AllChunks /\ TotalChunks' = TotalChunks
      /\ RanksFinal' <=> RanksFinal
      /\ output' = output => \A k : FinalOutput(k)' <=> FinalOutput(k)
      /\ pairs' = pairs => \A n : PairsReach(n)' <=> PairsReach(n)
  BY <1>1, KeepsFinal
<1>3. TotalChunks \in Nat \ {0} /\ AllChunks = 0 .. TotalChunks - 1
  BY WipedTyped
<1>4. CASE StartPairs
  <2>1. /\ pc = "finished" /\ pc' = "create_pairs" /\ chunk' = 0 /\ pairs' = pairs
    BY <1>4 DEF StartPairs, tail_vars
  <2>2. IInv /\ \A k \in AllChunks : pairs[k] = <<>>
    BY <2>1 DEF Undisturbed
  <2>3. RanksFinal'
    BY <1>2, <2>1, <2>2, FinishedRanks
  <2>4. PairsReach(0)
    BY <2>2, NoPairs DEF PairsReach
  <2>5. PairsReach(chunk)'
    BY <1>1, <1>2, <2>1, <2>4 DEF PairsReach
  <2> QED
    BY <2>1, <2>3, <2>5 DEF Undisturbed
<1>5. CASE CreatePairs
  <2>1. pc = "create_pairs" /\ pc' = "create_pairs"
    BY <1>5 DEF CreatePairs
  <2>2. RanksFinal /\ PairsReach(chunk)
    BY <2>1 DEF Undisturbed
  <2>3. PairsReach(chunk)' /\ RanksFinal'
    BY <1>2, <1>5, <2>2, PairsStep
  <2> QED
    BY <2>1, <2>3 DEF Undisturbed
<1>6. CASE EndPairs
  <2>1. /\ pc = "create_pairs" /\ pc' = "invert" /\ chunk = TotalChunks /\ chunk' = 0
        /\ pairs' = pairs
    BY <1>6 DEF EndPairs, tail_vars
  <2>2. RanksFinal /\ PairsReach(TotalChunks)
    BY <2>1 DEF Undisturbed
  <2>3. PairsReach(TotalChunks)' /\ RanksFinal'
    BY <1>1, <1>2, <2>1, <2>2 DEF PairsReach
  <2>4. 0 .. chunk' - 1 = {}
    BY <2>1
  <2>5. \A k \in (0 .. chunk - 1)' : FinalOutput(k)'
    BY <2>4
  <2> QED
    BY <2>1, <2>3, <2>5 DEF Undisturbed
<1>7. CASE Invert
  <2>1. pc = "invert" /\ pc' = "invert" /\ pairs' = pairs
    BY <1>7 DEF Invert
  <2>2. RanksFinal /\ PairsReach(TotalChunks) /\ \A k \in 0 .. chunk - 1 : FinalOutput(k)
    BY <2>1 DEF Undisturbed
  <2>3. PairsReach(TotalChunks)' /\ RanksFinal'
    BY <1>1, <1>2, <2>1, <2>2 DEF PairsReach
  <2>4. \A k \in 0 .. chunk' - 1 : FinalOutput(k)'
    BY <1>7, <2>2, InvertStep
  <2> QED
    BY <2>1, <2>3, <2>4 DEF Undisturbed
<1>8. CASE EndInvert
  <2>1. /\ pc = "invert" /\ pc' \in {"verify", "exited"} /\ chunk = TotalChunks /\ output' = output
    BY <1>8 DEF EndInvert
  <2>2. RanksFinal /\ \A k \in AllChunks : FinalOutput(k)
    BY <1>3, <2>1 DEF Undisturbed
  <2>3. RanksFinal' /\ \A k \in AllChunks' : FinalOutput(k)'
    BY <1>2, <2>1, <2>2
  <2> QED
    BY <2>1, <2>3 DEF Undisturbed
<1>9. CASE RunVerify
  <2>1. pc = "verify" /\ pc' = "exited" /\ output' = output
    BY <1>9 DEF RunVerify, VerifyEnds
  <2>2. RanksFinal /\ \A k \in AllChunks : FinalOutput(k)
    BY <2>1 DEF Undisturbed
  <2>3. RanksFinal' /\ \A k \in AllChunks' : FinalOutput(k)'
    BY <1>2, <2>1, <2>2
  <2> QED
    BY <2>1, <2>3 DEF Undisturbed
<1> QED
  BY <1>4, <1>5, <1>6, <1>7, <1>8, <1>9

(* A step that changes nothing leaves a run undisturbed.                   *)
LEMMA StutterUndisturbed ==
  ASSUME Typed, Undisturbed, UNCHANGED all_vars
  PROVE  Undisturbed'
<1>1. /\ UNCHANGED vars /\ pairs' = pairs /\ output' = output
      /\ text' = text /\ chunk_size' = chunk_size /\ ranks' = ranks /\ pc' = pc /\ chunk' = chunk
  BY DEF all_vars, vars, files, tail_vars
<1>2. /\ AllChunks' = AllChunks /\ TotalChunks' = TotalChunks
      /\ RanksFinal' <=> RanksFinal
      /\ \A k : FinalOutput(k)' <=> FinalOutput(k)
      /\ \A n : PairsReach(n)' <=> PairsReach(n)
  BY <1>1, KeepsFinal
<1>3. CASE pc \in {"refine", "merge", "update", "finished"}
  <2>1. IInv /\ \A k \in AllChunks : pairs[k] = <<>>
    BY <1>3 DEF Undisturbed
  <2>2. IInv'
    BY <1>1, <2>1, NextInv
  <2> QED
    BY <1>1, <1>2, <1>3, <2>1, <2>2 DEF Undisturbed
<1>4. CASE pc \notin {"refine", "merge", "update", "finished"}
  <2>1. /\ pc # "failed" /\ RanksFinal
        /\ pc = "create_pairs" => PairsReach(chunk)
        /\ pc = "invert" => PairsReach(TotalChunks) /\ \A k \in 0 .. chunk - 1 : FinalOutput(k)
        /\ pc \in {"verify", "exited"} => \A k \in AllChunks : FinalOutput(k)
    BY <1>4 DEF Undisturbed
  <2>2. pc' = "create_pairs" => PairsReach(chunk)'
    BY <1>1, <2>1 DEF PairsReach, AllChunks
  <2>3. pc' = "invert" => PairsReach(TotalChunks)' /\ \A k \in (0 .. chunk - 1)' : FinalOutput(k)'
    <3>1. SUFFICES ASSUME pc = "invert"
                   PROVE  PairsReach(TotalChunks)' /\ \A k \in 0 .. chunk - 1 : FinalOutput(k)'
      BY <1>1
    <3>2. PairsReach(TotalChunks)'
      BY <1>1, <1>2, <2>1, <3>1 DEF PairsReach
    <3> QED
      BY <1>2, <2>1, <3>1, <3>2
  <2>4. pc' \in {"verify", "exited"} => \A k \in AllChunks' : FinalOutput(k)'
    BY <1>1, <1>2, <2>1
  <2> QED
    BY <1>1, <1>2, <1>4, <2>1, <2>2, <2>3, <2>4 DEF Undisturbed
<1> QED
  BY <1>3, <1>4

(* A program killed, or a write lost.                                      *)
Faulty == KillRefine \/ KillMerge \/ KillUpdate \/ KillStore \/ KillPairs \/ LosePairs
          \/ KillInvert \/ KillVerify

(* What is killed or lost is counted.                                      *)
LEMMA FaultCounted ==
  ASSUME Typed, Faulty
  PROVE  faults' # 0 /\ pc # "exited"
<1>1. faults' = faults + 1 /\ pc # "exited"
  BY DEF Faulty, KillRefine, KillMerge, KillUpdate, KillStore, KillPairs, LosePairs, KillInvert,
         KillVerify, VerifyEnds, Fault
<1> QED
  BY <1>1 DEF Typed

(* A step that is no fault leaves a run undisturbed.                       *)
LEMMA NextUndisturbed ==
  ASSUME Typed, faults = 0 => Undisturbed, [PNext]_all_vars
  PROVE  faults' = 0 => Undisturbed'
<1>1. CASE Faulty
  BY <1>1, FaultCounted
<1>2. CASE ~ Faulty /\ PNext
  <2>1. faults' = faults
    BY <1>2 DEF Faulty, PNext, LoopStep, MergeInTurn, Failure, StartPairs, CreatePairs, EndPairs,
                Invert, EndInvert, RunVerify
  <2>2. SUFFICES ASSUME faults = 0 PROVE Undisturbed'
    BY <2>1
  <2>3. Undisturbed
    BY <2>2
  <2>4. ~ Failure
    BY <2>3 DEF Undisturbed, Failure
  <2> QED
    BY <1>2, <2>3, <2>4, LoopUndisturbed, TailUndisturbed DEF PNext, Faulty
<1>3. CASE UNCHANGED all_vars
  <2>1. faults' = faults
    BY <1>3 DEF all_vars
  <2> QED
    BY <1>3, <2>1, StutterUndisturbed
<1> QED
  BY <1>1, <1>2, <1>3

(* The exit code is set once, and by four of the steps.                    *)
LEMMA ExitSet ==
  ASSUME Typed, faults = 0 => Undisturbed, pc # "exited" => exit_code = -1, PNext
  PROVE  /\ pc' # "exited" => exit_code' = -1
         /\ ExitCodeIsTrue'
<1>1. exit_code = -1 /\ pc # "exited"
  BY DEF PNext, LoopStep, Refine, EndRefine, Update, EndUpdate, MergeInTurn, Failure, StartPairs,
         CreatePairs, EndPairs, Invert, EndInvert, RunVerify, KillRefine, KillMerge, KillUpdate,
         KillStore, KillPairs, LosePairs, KillInvert, KillVerify, VerifyEnds
<1>2. CASE Failure
  <2>1. /\ pc = "failed" /\ pc' = "exited" /\ exit_code' = 1 /\ faults' = faults
    BY <1>2 DEF Failure
  <2>2. faults # 0
    BY <2>1 DEF Undisturbed
  <2>3. faults' > 0
    BY <2>1, <2>2 DEF Typed
  <2> QED
    BY <2>1, <2>3 DEF ExitCodeIsTrue
<1>3. CASE EndInvert
  <2>1. CASE run_verify
    <3>1. pc' = "verify" /\ exit_code' = -1
      BY <1>1, <1>3, <2>1 DEF EndInvert
    <3> QED
      BY <3>1 DEF ExitCodeIsTrue
  <2>2. CASE ~ run_verify
    <3>1. /\ pc' = "exited" /\ exit_code' = 0 /\ run_verify' = run_verify /\ faults' = faults
          /\ output' = output /\ text' = text /\ chunk_size' = chunk_size
      BY <1>3, <2>2 DEF EndInvert, loop_vars
    <3>2. ASSUME faults = 0 PROVE FlattenSeq(Files(output)) = SuffixArray
      <4>1. Undisturbed /\ pc = "invert" /\ chunk = TotalChunks
        BY <1>3, <3>2 DEF EndInvert
      <4>2. TotalChunks \in Nat \ {0} /\ AllChunks = 0 .. TotalChunks - 1
        BY WipedTyped
      <4>3. RanksFinal /\ \A k \in AllChunks : FinalOutput(k)
        BY <4>1, <4>2 DEF Undisturbed
      <4> QED
        BY <4>3, FinalAccepted, OutputAccepted
    <3>3. Files(output)' = Files(output) /\ SuffixArray' = SuffixArray
      BY <3>1 DEF Files, SuffixArray, TotalChunks
    <3> QED
      BY <2>2, <3>1, <3>2, <3>3 DEF ExitCodeIsTrue
  <2> QED
    BY <2>1, <2>2
<1>4. CASE RunVerify
  <2>1. /\ pc = "verify" /\ pc' = "exited" /\ faults' = faults /\ run_verify' = run_verify
        /\ output' = output /\ text' = text /\ chunk_size' = chunk_size
        /\ exit_code' = IF Accepts(text, chunk_size, GivenRanks, Files(output)) THEN 0 ELSE 1
    BY <1>4 DEF RunVerify, VerifyEnds, GivenRanks, loop_vars
  <2>2. Files(output)' = Files(output) /\ SuffixArray' = SuffixArray
    BY <2>1 DEF Files, SuffixArray, TotalChunks
  <2>3. ASSUME exit_code' = 0 PROVE FlattenSeq(Files(output)) = SuffixArray
    BY <2>1, <2>3, OutputAccepted
  <2>4. ASSUME exit_code' = 1 PROVE faults > 0
    <3>1. ~ Accepts(text, chunk_size, GivenRanks, Files(output))
      BY <2>1, <2>4
    <3>2. faults # 0
      BY <2>1, <3>1, FinalAccepted DEF Undisturbed
    <3> QED
      BY <3>2 DEF Typed
  <2> QED
    BY <2>1, <2>2, <2>3, <2>4 DEF ExitCodeIsTrue
<1>5. CASE KillInvert
  <2>1. /\ faults' # 0
        /\ run_verify' = run_verify
        /\ IF run_verify THEN pc' = "verify" /\ exit_code' = -1
                         ELSE pc' = "exited" /\ exit_code' = 0
    BY <1>1, <1>5, FaultCounted DEF KillInvert, Faulty
  <2> QED
    BY <2>1 DEF ExitCodeIsTrue
<1>6. CASE KillVerify
  <2>1. pc' = "exited" /\ exit_code' = 1 /\ faults' = faults + 1
    BY <1>6 DEF KillVerify, VerifyEnds, KilledVerifyExit, Fault
  <2>2. faults' > 0
    BY <2>1 DEF Typed
  <2> QED
    BY <2>1, <2>2 DEF ExitCodeIsTrue
<1>7. CASE ~ (Failure \/ EndInvert \/ RunVerify \/ KillInvert \/ KillVerify)
  <2>1. exit_code' = exit_code
    BY <1>7 DEF PNext, LoopStep, MergeInTurn, StartPairs, CreatePairs, EndPairs, Invert,
                KillRefine, KillMerge, KillUpdate, KillStore, KillPairs, LosePairs, tail_vars
  <2> QED
    BY <1>1, <2>1 DEF ExitCodeIsTrue
<1> QED
  BY <1>2, <1>3, <1>4, <1>5, <1>6, <1>7

(* Both halves together, and the exit code with them.                      *)
LEMMA PInvInductive ==
  ASSUME PInv, [PNext]_all_vars
  PROVE  PInv'
<1>1. Typed' /\ (faults' = 0 => Undisturbed')
  BY NextTypes, NextUndisturbed DEF PInv
<1>2. CASE PNext
  BY <1>1, <1>2, ExitSet DEF PInv
<1>3. CASE UNCHANGED all_vars
  <2>1. /\ pc' = pc /\ exit_code' = exit_code /\ faults' = faults /\ run_verify' = run_verify
        /\ output' = output /\ text' = text /\ chunk_size' = chunk_size
    BY <1>3 DEF all_vars, vars, tail_vars
  <2>2. Files(output)' = Files(output) /\ SuffixArray' = SuffixArray
    BY <2>1 DEF Files, SuffixArray, TotalChunks
  <2>3. ExitCodeIsTrue'
    BY <2>1, <2>2 DEF PInv, ExitCodeIsTrue
  <2> QED
    BY <1>1, <2>1, <2>3 DEF PInv
<1> QED
  BY <1>2, <1>3

(* The exit code tells the truth, for every text, every chunk size and any *)
(* number of programs killed and writes lost.                              *)
THEOREM ExitCodeTold == PSpec => []ExitCodeIsTrue
<1>1. PInit => PInv
  <2> SUFFICES ASSUME PInit PROVE PInv
    OBVIOUS
  <2>1. Typed /\ IInv
    BY InitTypes
  <2>2. Undisturbed
    <3>1. pc = "refine" /\ pairs = [k \in AllChunks |-> <<>>]
      BY DEF PInit, Init
    <3> QED
      BY <2>1, <3>1 DEF Undisturbed
  <2>3. exit_code = -1
    BY DEF PInit
  <2>4. ExitCodeIsTrue
    BY <2>3 DEF ExitCodeIsTrue
  <2> QED
    BY <2>1, <2>2, <2>3, <2>4 DEF PInv
<1>2. PInv /\ [PNext]_all_vars => PInv'
  BY PInvInductive
<1>3. PInv => ExitCodeIsTrue
  BY DEF PInv
<1> QED
  BY <1>1, <1>2, <1>3, PTL DEF PSpec
=============================================================================
