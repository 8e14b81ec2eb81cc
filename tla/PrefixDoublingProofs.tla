----------------------- MODULE PrefixDoublingProofs -----------------------
(***************************************************************************)
(* For every text, every chunk size and every initial prefix length: an    *)
(* iteration of the loop keeps every rank equal to the number of smaller   *)
(* prefixes, drops a position only when nothing ties with it, and leaves   *)
(* the loop only when the ranks are those of the suffix array.             *)
(***************************************************************************)
EXTENDS PrefixDoubling, RunStreamTheorems

(* What the loop keeps true: none of the parts is inductive alone.  Ranks  *)
(* stay exact because a dropped position is unique, and positions are      *)
(* dropped correctly because ranks are exact.                              *)
IInv ==
  /\ TypeOK
  /\ RanksArePrefixRanks
  /\ DroppedAreUnique
  /\ FinishedAreUnique

(* No other position has the same prefix.                                  *)
Unique(t, L, p) == \A q \in Positions(t) \ {p} : ~ PrefixEq(t, L, p, q)

-----------------------------------------------------------------------------
(* The variables' types as the lemmas about texts need them.               *)
LEMMA TypeFacts ==
  ASSUME TypeOK
  PROVE  /\ text \in CodedText
         /\ chunk_size \in Nat \ {0}
         /\ prefix_len \in Nat
         /\ 2 * prefix_len \in Nat
         /\ Pos = Positions(text)
         /\ Pos \subseteq Nat
         /\ live \subseteq Pos
<1>1. Pos \subseteq Nat
  BY PositionsType, TextsAssumption DEF TypeOK, Pos, CodedText
<1> QED
  BY <1>1, TextsAssumption, ChunkSizesAssumption DEF TypeOK, Pos, CodedText

(* A position that is unique at some length stays so, with its rank.       *)
LEMMA UniqueStays ==
  ASSUME NEW t \in CodedText, NEW L \in Nat, NEW p \in Positions(t), Unique(t, L, p)
  PROVE  /\ Unique(t, 2 * L, p)
         /\ PrefixRank(t, 2 * L, p) = PrefixRank(t, L, p)
<1>1. Positions(t) \subseteq Nat /\ 2 * L \in Nat
  BY PositionsType
<1>2. Unique(t, 2 * L, p)
  BY <1>1, DoubleEq DEF Unique
<1>3. PrefixRank(t, 2 * L, p) = PrefixRank(t, L, p)
  BY <1>1, <1>2, UniqueRank DEF Unique
<1> QED
  BY <1>2, <1>3

(* Whoever is left out of an iteration is unique already: it was dropped   *)
(* from the suffix array, or next_rank_loc found its chunk empty.          *)
LEMMA InactiveAreUnique ==
  ASSUME IInv, NEW p \in Pos \ Active
  PROVE  Unique(text, prefix_len, p)
<1>1. CASE p \notin live
  BY <1>1 DEF IInv, DroppedAreUnique, Unique, Pos
<1>2. CASE p \in live
  <2>1. PastTextEnd(text, chunk_size, prefix_len, ChunkOf(chunk_size, p))
    BY <1>2 DEF Active
  <2>2. p + prefix_len \notin Positions(text)
    BY <2>1, TypeFacts, NotPastTextEnd DEF IInv, Pos
  <2>3. SUFFICES ASSUME NEW q \in Positions(text) \ {p}, PrefixEq(text, prefix_len, p, q)
                 PROVE  FALSE
    BY DEF Unique
  <2> QED
    BY <2>2, <2>3, TypeFacts, SentinelDecides DEF IInv, Pos
<1> QED
  BY <1>1, <1>2

(* Two positions with equal prefixes both take part, and both find the     *)
(* next rank of a position of the text.                                    *)
LEMMA TiedAreActive ==
  ASSUME IInv, NEW p \in Pos, NEW q \in Pos, p # q, PrefixEq(text, prefix_len, p, q)
  PROVE  /\ p \in Active /\ q \in Active
         /\ p + prefix_len \in Pos /\ q + prefix_len \in Pos
         /\ NextRank(p) = PrefixRank(text, prefix_len, p + prefix_len)
         /\ NextRank(q) = PrefixRank(text, prefix_len, q + prefix_len)
<1>1. PrefixEq(text, prefix_len, q, p)
  BY TypeFacts, PrefixEqEquivalence DEF IInv
<1>2. p + prefix_len \in Pos /\ q + prefix_len \in Pos
  BY TypeFacts, SentinelDecides DEF IInv
<1>3. p \in Active /\ q \in Active
  <2>1. ~ Unique(text, prefix_len, p) /\ ~ Unique(text, prefix_len, q)
    BY <1>1, TypeFacts DEF Unique, IInv
  <2> QED
    BY <2>1, InactiveAreUnique
<1> QED
  BY <1>2, <1>3 DEF NextRank, IInv, RanksArePrefixRanks

(* The positions of p's group with a smaller next rank are those whose     *)
(* prefix ties with p's and whose second half is smaller.                  *)
LEMMA BeforeIsTied ==
  ASSUME IInv, NEW p \in Active
  PROVE  Before(p) = {q \in Positions(text) :
                        /\ PrefixEq(text, prefix_len, q, p)
                        /\ PrefixLess(text, prefix_len, q + prefix_len, p + prefix_len)}
<1> DEFINE L == prefix_len
<1>1. p \in Pos /\ Active \subseteq Pos /\ Pos = Positions(text) /\ Pos \subseteq Nat
  BY TypeFacts DEF Active, IInv
<1>2. text \in CodedText /\ L \in Nat
  BY TypeFacts DEF IInv
<1>3. \A q \in Active : rank[q] = rank[p] <=> PrefixEq(text, L, q, p)
  BY <1>1, <1>2, RankDecides DEF IInv, RanksArePrefixRanks
<1>4. ASSUME NEW q \in Pos, q # p, PrefixEq(text, L, q, p)
      PROVE  q \in Active /\ (NextRank(q) < NextRank(p) <=> PrefixLess(text, L, q + L, p + L))
  <2>1. /\ q \in Active
        /\ q + L \in Pos /\ p + L \in Pos
        /\ NextRank(q) = PrefixRank(text, L, q + L)
        /\ NextRank(p) = PrefixRank(text, L, p + L)
    BY <1>1, <1>4, TiedAreActive
  <2> QED
    BY <1>1, <1>2, <2>1, RankDecides
<1>5. ~ (NextRank(p) < NextRank(p))
  <2>1. NextRank(p) \in Nat
    BY <1>1 DEF NextRank, IInv, TypeOK
  <2> QED
    BY <2>1
<1>6. ~ PrefixLess(text, L, p + L, p + L)
  <2>1. p + L \in Nat
    BY <1>1, <1>2
  <2> QED
    BY <1>2, <2>1, NoInversion
<1>7. ASSUME NEW q
      PROVE  q \in Before(p) <=>
               q \in Pos /\ PrefixEq(text, L, q, p) /\ PrefixLess(text, L, q + L, p + L)
  <2>1. q \in Before(p) <=> q \in Active /\ rank[q] = rank[p] /\ NextRank(q) < NextRank(p)
    BY DEF Before, Group
  <2>2. CASE q = p
    BY <2>1, <2>2, <1>5, <1>6
  <2>3. CASE q # p
    BY <2>1, <2>3, <1>1, <1>3, <1>4
  <2> QED
    BY <2>2, <2>3
<1> QED
  BY <1>1, <1>7
-----------------------------------------------------------------------------
(* The rank merge resolves and update writes is the rank by prefixes twice *)
(* as long, for the positions of this iteration and for all the others.    *)
LEMMA NewRank ==
  ASSUME IInv, NEW p \in Pos
  PROVE  PrefixRank(text, 2 * prefix_len, p) =
           IF p \in Active THEN rank[p] + Cardinality(Before(p)) ELSE rank[p]
<1>1. /\ text \in CodedText /\ prefix_len \in Nat /\ Pos = Positions(text)
      /\ rank[p] = PrefixRank(text, prefix_len, p)
  BY TypeFacts DEF IInv, RanksArePrefixRanks
<1>2. CASE p \in Active
  BY <1>1, <1>2, BeforeIsTied, DoubleRank
<1>3. CASE p \notin Active
  BY <1>1, <1>3, InactiveAreUnique, UniqueStays
<1> QED
  BY <1>2, <1>3

(* What update drops is unique from then on, and stays so.                 *)
LEMMA DroppedNow ==
  ASSUME IInv, NEW p \in Pos, p \notin live \ {x \in Active : ~ Shared(x)}
  PROVE  Unique(text, 2 * prefix_len, p)
<1> DEFINE L == prefix_len
<1>1. text \in CodedText /\ L \in Nat /\ Pos = Positions(text) /\ Pos \subseteq Nat
  BY TypeFacts DEF IInv
<1>2. CASE p \notin Active
  BY <1>1, <1>2, InactiveAreUnique, UniqueStays
<1>3. CASE p \in Active
  <2>1. ~ Shared(p)
    BY <1>3 DEF Active
  <2>2. SUFFICES ASSUME NEW q \in Pos, q # p, PrefixEq(text, 2 * L, p, q)
                 PROVE  FALSE
    BY <1>1 DEF Unique
  <2>3. PrefixEq(text, L, p, q) /\ PrefixEq(text, L, p + L, q + L)
    BY <1>1, <2>2, DoubleEq
  <2>4. /\ q \in Active
        /\ p + L \in Pos /\ q + L \in Pos
        /\ NextRank(p) = PrefixRank(text, L, p + L)
        /\ NextRank(q) = PrefixRank(text, L, q + L)
    BY <2>2, <2>3, TiedAreActive
  <2>5. NextRank(p) = NextRank(q)
    BY <1>1, <2>3, <2>4, RankDecides
  <2>6. rank[p] = rank[q]
    BY <1>1, <2>3, RankDecides DEF IInv, RanksArePrefixRanks
  <2> QED
    BY <2>1, <2>2, <2>4, <2>5, <2>6 DEF Shared, Group
<1> QED
  BY <1>2, <1>3

-----------------------------------------------------------------------------
LEMMA InitInv == Init => IInv
<1>1. SUFFICES ASSUME Init PROVE IInv
  OBVIOUS
<1>2. text \in CodedText /\ prefix_len \in Nat \ {0} /\ Pos = Positions(text)
  BY <1>1, TextsAssumption, KmerLengthsAssumption DEF Init, CodedText, Pos
<1>3. \A p \in Pos : PrefixRank(text, prefix_len, p) \in Nat
  BY <1>2, PrefixRankType
<1>4. TypeOK
  BY <1>1, <1>2, <1>3 DEF Init, TypeOK
<1>5. RanksArePrefixRanks
  BY <1>1 DEF Init, RanksArePrefixRanks
<1>6. DroppedAreUnique /\ FinishedAreUnique
  BY <1>1 DEF Init, DroppedAreUnique, FinishedAreUnique
<1> QED
  BY <1>4, <1>5, <1>6 DEF IInv

LEMMA IterateInv == IInv /\ Iterate => IInv'
<1>1. SUFFICES ASSUME IInv, Iterate PROVE IInv'
  OBVIOUS
<1>2. /\ text \in CodedText /\ prefix_len \in Nat \ {0} /\ 2 * prefix_len \in Nat \ {0}
      /\ Pos = Positions(text)
  BY <1>1, TypeFacts DEF IInv, TypeOK
<1>3. text' = text /\ Pos' = Pos /\ prefix_len' = 2 * prefix_len /\ more_runs' = TRUE
  BY <1>1 DEF Iterate, Doubled, Pos, IInv, TypeOK
<1>4. \A p \in Pos : rank'[p] = PrefixRank(text, 2 * prefix_len, p)
  BY <1>1, NewRank DEF Iterate
<1>5. TypeOK'
  <2>1. rank' \in [Pos -> Nat]
    <3>1. \A p \in Pos : rank'[p] \in Nat
      BY <1>2, <1>4, PrefixRankType
    <3>2. rank' = [p \in Pos |-> IF p \in Active THEN rank[p] + Cardinality(Before(p)) ELSE rank[p]]
      BY <1>1 DEF Iterate
    <3> HIDE DEF IInv
    <3> QED
      BY <3>1, <3>2
  <2>2. live' \in SUBSET Pos
    BY <1>1 DEF Iterate, IInv, TypeOK
  <2>3. text' \in Texts /\ chunk_size' \in ChunkSizes /\ more_runs' \in BOOLEAN
    BY <1>1 DEF Iterate, IInv, TypeOK
  <2> QED
    BY <1>2, <1>3, <2>1, <2>2, <2>3 DEF TypeOK
<1>6. RanksArePrefixRanks'
  BY <1>3, <1>4 DEF RanksArePrefixRanks
<1>7. DroppedAreUnique'
  <2>1. SUFFICES ASSUME NEW p \in Pos \ live'
                 PROVE  Unique(text, 2 * prefix_len, p)
    BY <1>2, <1>3 DEF DroppedAreUnique, Unique
  <2>2. p \notin live \ {x \in Active : ~ Shared(x)}
    BY <1>1, <2>1 DEF Iterate
  <2> QED
    BY <1>1, <2>2, DroppedNow
<1>8. FinishedAreUnique'
  BY <1>3 DEF FinishedAreUnique
<1> QED
  BY <1>5, <1>6, <1>7, <1>8 DEF IInv

LEMMA FinishInv == IInv /\ Finish => IInv'
<1>1. SUFFICES ASSUME IInv, Finish PROVE IInv'
  OBVIOUS
<1>2. /\ text \in CodedText /\ prefix_len \in Nat \ {0} /\ 2 * prefix_len \in Nat \ {0}
      /\ Pos = Positions(text)
  BY <1>1, TypeFacts DEF IInv, TypeOK
<1>3. /\ text' = text /\ Pos' = Pos /\ prefix_len' = 2 * prefix_len
      /\ rank' = rank /\ live' = live /\ chunk_size' = chunk_size /\ more_runs' = FALSE
  BY <1>1 DEF Finish, Doubled, Pos
<1>4. ASSUME NEW p \in Pos
      PROVE  /\ Unique(text, 2 * prefix_len, p)
             /\ rank[p] = PrefixRank(text, 2 * prefix_len, p)
  <2>1. Unique(text, prefix_len, p)
    BY <1>1, InactiveAreUnique DEF Finish
  <2>2. rank[p] = PrefixRank(text, prefix_len, p)
    BY <1>1 DEF IInv, RanksArePrefixRanks
  <2> QED
    BY <1>2, <2>1, <2>2, UniqueStays
<1>5. TypeOK'
  BY <1>1, <1>2, <1>3 DEF TypeOK, IInv
<1>6. RanksArePrefixRanks'
  BY <1>3, <1>4 DEF RanksArePrefixRanks
<1>7. DroppedAreUnique' /\ FinishedAreUnique'
  BY <1>2, <1>3, <1>4 DEF DroppedAreUnique, FinishedAreUnique, Unique
<1> QED
  BY <1>5, <1>6, <1>7 DEF IInv

LEMMA StutterInv == IInv /\ UNCHANGED vars => IInv'
  BY DEF IInv, TypeOK, RanksArePrefixRanks, DroppedAreUnique, FinishedAreUnique, Pos, vars

(* The inductive invariant holds for every text, chunk size and initial    *)
(* prefix length.                                                          *)
THEOREM Inductive == Spec => []IInv
<1>1. IInv /\ [Next]_vars => IInv'
  BY IterateInv, FinishInv, StutterInv DEF Next
<1> QED
  BY InitInv, <1>1, PTL DEF Spec

(* The variables keep their types: ranks are naturals over all positions.  *)
THEOREM TypeCorrect == Spec => []TypeOK
<1>1. IInv => TypeOK
  BY DEF IInv
<1> QED
  BY Inductive, <1>1, PTL

(* After every iteration of refine, merge and update the rank of every     *)
(* position, rewritten or not, counts the smaller prefixes of length L.    *)
THEOREM RanksExact == Spec => []RanksArePrefixRanks
<1>1. IInv => RanksArePrefixRanks
  BY DEF IInv
<1> QED
  BY Inductive, <1>1, PTL

(* update never drops a position that could still tie with another.        *)
THEOREM DropsOnlyUnique == Spec => []DroppedAreUnique
<1>1. IInv => DroppedAreUnique
  BY DEF IInv
<1> QED
  BY Inductive, <1>1, PTL

(* refine finds no run only when no two positions tie.                     *)
THEOREM StopsOnlyWhenUnique == Spec => []FinishedAreUnique
<1>1. IInv => FinishedAreUnique
  BY DEF IInv
<1> QED
  BY Inductive, <1>1, PTL

(* Once nothing ties, what a prefix decides is what the suffixes decide.   *)
LEMMA FinalFacts ==
  ASSUME IInv
  PROVE  FinalRanksAreSuffixRanks
<1>1. SUFFICES ASSUME ~ more_runs, NEW p \in Pos
               PROVE  rank[p] = SuffixRank(text, p)
  BY DEF FinalRanksAreSuffixRanks
<1>2. /\ text \in CodedText /\ prefix_len \in Nat /\ Pos = Positions(text)
      /\ Len(text) + 1 \in Nat /\ Positions(text) = 0 .. Len(text)
  BY TypeFacts, PositionsType DEF IInv
<1>3. Unique(text, prefix_len, p)
  BY <1>1, <1>2 DEF IInv, FinishedAreUnique, Unique
<1>4. Unique(text, Len(text) + 1, p)
  <2>1. SUFFICES ASSUME NEW q \in Positions(text) \ {p}, PrefixEq(text, Len(text) + 1, p, q)
                 PROVE  FALSE
    BY DEF Unique
  <2>2. p + (Len(text) + 1) \in 0 .. Len(text)
    BY <1>2, <2>1, SentinelDecides
  <2> QED
    BY <1>2, <2>2
<1>5. PrefixRank(text, prefix_len, p) = PrefixRank(text, Len(text) + 1, p)
  BY <1>2, <1>3, <1>4, UniqueRank DEF Unique
<1> QED
  BY <1>5 DEF IInv, RanksArePrefixRanks, PrefixRank, SuffixRank, SuffixLess

(* When the loop ends, the ranks are the indices of the suffixes in the    *)
(* suffix array: what create_pairs and invert take for granted.            *)
THEOREM FinalRanks == Spec => []FinalRanksAreSuffixRanks
<1>1. IInv => FinalRanksAreSuffixRanks
  BY FinalFacts
<1> QED
  BY Inductive, <1>1, PTL

(* No iteration inverts the order of two ranks: the suffix arrays init     *)
(* sorted stay sorted although nothing ever sorts them again.              *)
THEOREM OrderKept == Spec => OrderNeverInverted
<1>1. ASSUME IInv, IInv', [Next]_vars
      PROVE  [\A p, q \in Pos : rank[p] < rank[q] => rank'[p] < rank'[q]]_vars
  <2>1. SUFFICES ASSUME Next, NEW p \in Pos, NEW q \in Pos, rank[p] < rank[q]
                 PROVE  rank'[p] < rank'[q]
    BY <1>1
  <2>2. /\ text \in CodedText /\ prefix_len \in Nat /\ 2 * prefix_len \in Nat
        /\ Pos = Positions(text) /\ p \in Nat /\ q \in Nat
    BY <1>1, TypeFacts DEF IInv
  <2>3. text' = text /\ Pos' = Pos /\ prefix_len' = 2 * prefix_len
    BY <2>1 DEF Next, Iterate, Finish, Doubled, Pos
  <2>4. PrefixLess(text, prefix_len, p, q)
    BY <1>1, <2>1, <2>2, RankDecides DEF IInv, RanksArePrefixRanks
  <2>5. PrefixLess(text, 2 * prefix_len, p, q)
    BY <2>2, <2>4, DoubleLess
  <2>6. PrefixRank(text, 2 * prefix_len, p) < PrefixRank(text, 2 * prefix_len, q)
    BY <2>2, <2>5, RankDecides
  <2> QED
    BY <1>1, <2>3, <2>6 DEF IInv, RanksArePrefixRanks
<1> QED
  BY Inductive, <1>1, PTL DEF Spec, OrderNeverInverted
=============================================================================
