-------------------------- MODULE RunStreamTheorems --------------------------
(***************************************************************************)
(* Facts about the order of SuffixText that hold for every text, and that  *)
(* the prefix-doubling loop rests on: the order is total, the sentinel     *)
(* makes equal prefixes end before it, a prefix of length 2L is decided by *)
(* the one of length L and the one L further on, and a rank that counts    *)
(* smaller prefixes says which prefixes are equal and which are smaller.   *)
(*                                                                         *)
(* Then facts about the streams of RunStreams, for streams of every        *)
(* length: how a stream cuts the entries of a chunk into the stretches of  *)
(* its runs, and what comes back when it is expanded, walked along another *)
(* stream, or left by the runs that are resolved; and the order in which   *)
(* merge takes the triples of streams, in order or not.                    *)
(*                                                                         *)
(* Last, Inversion: the chunks of final ranks as create_pairs and invert   *)
(* take them, one after the other, become the chunks of the suffix array.  *)
(***************************************************************************)
EXTENDS Inversion, TLAPS, FiniteSetTheorems, WellFoundedInduction, SequenceTheorems

(* The texts that init's codes make.                                       *)
CodedText == Seq(Nat \ {0})

(* A symbol is 0 exactly from the sentinel on: init's codes of real bytes  *)
(* start at 1.                                                             *)
LEMMA SymbolType ==
  ASSUME NEW t \in CodedText, NEW i \in Nat
  PROVE  /\ Symbol(t, i) \in Nat
         /\ Symbol(t, i) = 0 <=> i >= Len(t)
<1>1. Len(t) \in Nat /\ \A j \in 1 .. Len(t) : t[j] \in Nat \ {0}
  BY DEF CodedText
<1>2. CASE i < Len(t)
  <2>1. i + 1 \in 1 .. Len(t)
    BY <1>1, <1>2
  <2>2. t[i + 1] \in Nat \ {0}
    BY <1>1, <2>1
  <2> QED
    BY <1>1, <1>2, <2>2 DEF Symbol
<1>3. CASE ~ (i < Len(t))
  BY <1>1, <1>3 DEF Symbol
<1> QED
  BY <1>2, <1>3

(* The positions of a text are the naturals up to its length.              *)
LEMMA PositionsType ==
  ASSUME NEW t \in CodedText
  PROVE  /\ Len(t) \in Nat
         /\ Positions(t) = 0 .. Len(t)
         /\ IsFiniteSet(Positions(t))
<1>1. Len(t) \in Nat
  BY DEF CodedText
<1>2. IsFiniteSet(0 .. Len(t))
  BY <1>1, FS_Interval
<1> QED
  BY <1>1, <1>2 DEF Positions

-----------------------------------------------------------------------------
(* Two prefixes that are not equal differ first somewhere.                 *)
LEMMA LeastDifference ==
  ASSUME NEW t \in CodedText, NEW L \in Nat, NEW p \in Nat, NEW q \in Nat,
         ~ PrefixEq(t, L, p, q)
  PROVE  \E d \in 0 .. L - 1 :
           /\ Symbol(t, p + d) # Symbol(t, q + d)
           /\ PrefixEq(t, d, p, q)
<1> DEFINE T == {d \in 0 .. L - 1 : Symbol(t, p + d) # Symbol(t, q + d)}
<1>1. T # {}
  BY DEF PrefixEq
<1>2. T \subseteq Nat
  OBVIOUS
<1> HIDE DEF T
<1>3. PICK d \in T : \A e \in T : ~ (<<e, d>> \in OpToRel(<, Nat))
  BY <1>1, <1>2, WFMin, NatLessThanWellFounded
<1>4. \A e \in T : ~ (e < d)
  BY <1>2, <1>3 DEF OpToRel
<1>5. d \in 0 .. L - 1 /\ Symbol(t, p + d) # Symbol(t, q + d)
  BY DEF T
<1>6. PrefixEq(t, d, p, q)
  <2>1. SUFFICES ASSUME NEW e \in 0 .. d - 1
                 PROVE  Symbol(t, p + e) = Symbol(t, q + e)
    BY DEF PrefixEq
  <2>2. e \in 0 .. L - 1 /\ e < d
    BY <1>5
  <2> QED
    BY <1>4, <2>2 DEF T
<1> QED
  BY <1>5, <1>6

(* Equality of prefixes is symmetric and transitive, and shorter prefixes  *)
(* of equal prefixes are equal.                                            *)
LEMMA PrefixEqEquivalence ==
  ASSUME NEW t \in CodedText, NEW L \in Nat, NEW p \in Nat, NEW q \in Nat, NEW r \in Nat
  PROVE  /\ PrefixEq(t, L, p, p)
         /\ PrefixEq(t, L, p, q) => PrefixEq(t, L, q, p)
         /\ PrefixEq(t, L, p, q) /\ PrefixEq(t, L, q, r) => PrefixEq(t, L, p, r)
         /\ \A M \in 0 .. L : PrefixEq(t, L, p, q) => PrefixEq(t, M, p, q)
  BY DEF PrefixEq

(* Prefixes are equal, or one of the two is smaller.                       *)
LEMMA Trichotomy ==
  ASSUME NEW t \in CodedText, NEW L \in Nat, NEW p \in Nat, NEW q \in Nat
  PROVE  PrefixEq(t, L, p, q) \/ PrefixLess(t, L, p, q) \/ PrefixLess(t, L, q, p)
<1>1. SUFFICES ASSUME ~ PrefixEq(t, L, p, q)
               PROVE  PrefixLess(t, L, p, q) \/ PrefixLess(t, L, q, p)
  OBVIOUS
<1>2. PICK d \in 0 .. L - 1 : Symbol(t, p + d) # Symbol(t, q + d) /\ PrefixEq(t, d, p, q)
  BY <1>1, LeastDifference
<1>3. PrefixEq(t, d, q, p)
  BY <1>2, PrefixEqEquivalence
<1>4. Symbol(t, p + d) \in Nat /\ Symbol(t, q + d) \in Nat
  BY SymbolType
<1>5. Symbol(t, p + d) < Symbol(t, q + d) \/ Symbol(t, q + d) < Symbol(t, p + d)
  BY <1>2, <1>4
<1> QED
  BY <1>2, <1>3, <1>5 DEF PrefixLess

(* The order does not depend on the length of the prefixes compared: no    *)
(* length inverts what another decides.                                    *)
LEMMA NoInversion ==
  ASSUME NEW t \in CodedText, NEW L \in Nat, NEW M \in Nat, NEW p \in Nat, NEW q \in Nat,
         PrefixLess(t, L, p, q)
  PROVE  ~ PrefixLess(t, M, q, p)
<1>1. SUFFICES ASSUME PrefixLess(t, M, q, p) PROVE FALSE
  OBVIOUS
<1>2. PICK d \in 0 .. L - 1 : Symbol(t, p + d) < Symbol(t, q + d) /\ PrefixEq(t, d, p, q)
  BY DEF PrefixLess
<1>3. PICK e \in 0 .. M - 1 : Symbol(t, q + e) < Symbol(t, p + e) /\ PrefixEq(t, e, q, p)
  BY <1>1 DEF PrefixLess
<1>4. /\ Symbol(t, p + d) \in Nat /\ Symbol(t, q + d) \in Nat
      /\ Symbol(t, p + e) \in Nat /\ Symbol(t, q + e) \in Nat
  BY SymbolType, SMTT(20)
<1>5. CASE d < e
  BY <1>2, <1>3, <1>4, <1>5 DEF PrefixEq
<1>6. CASE e < d
  BY <1>2, <1>3, <1>4, <1>6 DEF PrefixEq
<1>7. CASE d = e
  BY <1>2, <1>3, <1>4, <1>7
<1> QED
  BY <1>5, <1>6, <1>7

(* Smaller and equal exclude each other.                                   *)
LEMMA LessNotEqual ==
  ASSUME NEW t \in CodedText, NEW L \in Nat, NEW p \in Nat, NEW q \in Nat,
         PrefixLess(t, L, p, q)
  PROVE  ~ PrefixEq(t, L, p, q) /\ ~ PrefixEq(t, L, q, p)
<1>1. PICK d \in 0 .. L - 1 : Symbol(t, p + d) < Symbol(t, q + d)
  BY DEF PrefixLess
<1>2. Symbol(t, p + d) \in Nat /\ Symbol(t, q + d) \in Nat
  BY SymbolType
<1> QED
  BY <1>1, <1>2 DEF PrefixEq

(* The order is transitive.                                                *)
LEMMA LessTransitive ==
  ASSUME NEW t \in CodedText, NEW L \in Nat, NEW p \in Nat, NEW q \in Nat, NEW r \in Nat,
         PrefixLess(t, L, p, q), PrefixLess(t, L, q, r)
  PROVE  PrefixLess(t, L, p, r)
<1>1. PICK d \in 0 .. L - 1 : Symbol(t, p + d) < Symbol(t, q + d) /\ PrefixEq(t, d, p, q)
  BY DEF PrefixLess
<1>2. PICK e \in 0 .. L - 1 : Symbol(t, q + e) < Symbol(t, r + e) /\ PrefixEq(t, e, q, r)
  BY DEF PrefixLess
<1>3. /\ Symbol(t, p + d) \in Nat /\ Symbol(t, q + d) \in Nat /\ Symbol(t, r + d) \in Nat
      /\ Symbol(t, p + e) \in Nat /\ Symbol(t, q + e) \in Nat /\ Symbol(t, r + e) \in Nat
  <2>1. \A i \in Nat : Symbol(t, i) \in Nat
    BY SymbolType
  <2>2. /\ p + d \in Nat /\ q + d \in Nat /\ r + d \in Nat
        /\ p + e \in Nat /\ q + e \in Nat /\ r + e \in Nat
    OBVIOUS
  <2> QED
    BY <2>1, <2>2
<1>4. CASE d < e
  <2>1. Symbol(t, p + d) < Symbol(t, r + d)
    BY <1>1, <1>2, <1>3, <1>4 DEF PrefixEq
  <2>2. PrefixEq(t, d, p, r)
    BY <1>1, <1>2, <1>4 DEF PrefixEq
  <2> QED
    BY <2>1, <2>2 DEF PrefixLess
<1>5. CASE ~ (d < e)
  <2>1. Symbol(t, p + e) < Symbol(t, r + e)
    BY <1>1, <1>2, <1>3, <1>5 DEF PrefixEq
  <2>2. PrefixEq(t, e, p, r)
    BY <1>1, <1>2, <1>5 DEF PrefixEq
  <2> QED
    BY <2>1, <2>2 DEF PrefixLess
<1> QED
  BY <1>4, <1>5

(* Equal prefixes compare alike with every other.                          *)
LEMMA LessCongruent ==
  ASSUME NEW t \in CodedText, NEW L \in Nat, NEW p \in Nat, NEW q \in Nat, NEW r \in Nat,
         PrefixEq(t, L, p, q), PrefixLess(t, L, r, p)
  PROVE  PrefixLess(t, L, r, q)
<1>1. PICK d \in 0 .. L - 1 : Symbol(t, r + d) < Symbol(t, p + d) /\ PrefixEq(t, d, r, p)
  BY DEF PrefixLess
<1>2. Symbol(t, r + d) < Symbol(t, q + d)
  BY <1>1 DEF PrefixEq
<1>3. PrefixEq(t, d, r, q)
  BY <1>1 DEF PrefixEq
<1> QED
  BY <1>2, <1>3 DEF PrefixLess
-----------------------------------------------------------------------------
(* The sentinel is unique: two positions whose prefixes are equal both     *)
(* have their whole prefix before it, so the position L further on is one  *)
(* of the text.  (init.cpp: "any window touching it yields a unique K".)   *)
LEMMA SentinelDecides ==
  ASSUME NEW t \in CodedText, NEW L \in Nat,
         NEW p \in Positions(t), NEW q \in Positions(t),
         p # q, PrefixEq(t, L, p, q)
  PROVE  p + L \in Positions(t) /\ q + L \in Positions(t)
<1>1. /\ Len(t) \in Nat
      /\ p \in 0 .. Len(t)
      /\ q \in 0 .. Len(t)
  BY PositionsType
<1>2. ASSUME NEW x \in 0 .. Len(t), NEW y \in 0 .. Len(t), x < y, PrefixEq(t, L, x, y)
      PROVE  y + L <= Len(t)
  <2>1. SUFFICES ASSUME y + L > Len(t) PROVE FALSE
    BY <1>1
  <2> DEFINE d == Len(t) - y
  <2>2. d \in 0 .. L - 1 /\ x + d \in Nat /\ y + d \in Nat /\ y + d = Len(t) /\ x + d < Len(t)
    BY <1>1, <1>2, <2>1
  <2>3. Symbol(t, y + d) = 0 /\ Symbol(t, x + d) # 0
    BY <1>1, <2>2, SymbolType
  <2>4. Symbol(t, x + d) = Symbol(t, y + d)
    BY <1>2, <2>2 DEF PrefixEq
  <2> QED
    BY <2>3, <2>4
<1>3. PrefixEq(t, L, q, p)
  BY <1>1, PrefixEqEquivalence
<1>4. CASE p < q
  <2>1. q + L <= Len(t)
    BY <1>1, <1>2, <1>4
  <2> QED
    BY <1>1, <1>4, <2>1, PositionsType
<1>5. CASE q < p
  <2>1. p + L <= Len(t)
    BY <1>1, <1>2, <1>3, <1>5
  <2> QED
    BY <1>1, <1>5, <2>1, PositionsType
<1> QED
  BY <1>1, <1>4, <1>5

(* Prefix doubling: two prefixes of length 2L are equal when both halves   *)
(* are.                                                                    *)
LEMMA DoubleEq ==
  ASSUME NEW t \in CodedText, NEW L \in Nat, NEW p \in Nat, NEW q \in Nat
  PROVE  PrefixEq(t, 2 * L, p, q) <=>
           PrefixEq(t, L, p, q) /\ PrefixEq(t, L, p + L, q + L)
<1>1. ASSUME PrefixEq(t, 2 * L, p, q)
      PROVE  PrefixEq(t, L, p, q) /\ PrefixEq(t, L, p + L, q + L)
  <2>1. PrefixEq(t, L, p, q)
    BY <1>1 DEF PrefixEq
  <2>2. ASSUME NEW d \in 0 .. L - 1
        PROVE  Symbol(t, (p + L) + d) = Symbol(t, (q + L) + d)
    <3>1. L + d \in 0 .. 2 * L - 1 /\ (p + L) + d = p + (L + d) /\ (q + L) + d = q + (L + d)
      OBVIOUS
    <3> QED
      BY <1>1, <3>1 DEF PrefixEq
  <2> QED
    BY <2>1, <2>2 DEF PrefixEq
<1>2. ASSUME PrefixEq(t, L, p, q), PrefixEq(t, L, p + L, q + L)
      PROVE  PrefixEq(t, 2 * L, p, q)
  <2>1. SUFFICES ASSUME NEW d \in 0 .. 2 * L - 1
                 PROVE  Symbol(t, p + d) = Symbol(t, q + d)
    BY DEF PrefixEq
  <2>2. CASE d < L
    BY <1>2, <2>2 DEF PrefixEq
  <2>3. CASE d >= L
    <3>1. d - L \in 0 .. L - 1 /\ (p + L) + (d - L) = p + d /\ (q + L) + (d - L) = q + d
      BY <2>3
    <3>2. Symbol(t, (p + L) + (d - L)) = Symbol(t, (q + L) + (d - L))
      BY <1>2, <3>1 DEF PrefixEq
    <3> QED
      BY <3>1, <3>2
  <2> QED
    BY <2>2, <2>3
<1> QED
  BY <1>1, <1>2

(* Prefix doubling: a prefix of length 2L is smaller when its first half   *)
(* is, or the first halves are equal and the second one is smaller.        *)
LEMMA DoubleLess ==
  ASSUME NEW t \in CodedText, NEW L \in Nat, NEW p \in Nat, NEW q \in Nat
  PROVE  PrefixLess(t, 2 * L, p, q) <=>
           \/ PrefixLess(t, L, p, q)
           \/ PrefixEq(t, L, p, q) /\ PrefixLess(t, L, p + L, q + L)
<1>1. p + L \in Nat /\ q + L \in Nat /\ 2 * L \in Nat
  OBVIOUS
<1>2. PrefixLess(t, L, p, q) => PrefixLess(t, 2 * L, p, q)
  BY DEF PrefixLess
<1>3. PrefixLess(t, L, q, p) => PrefixLess(t, 2 * L, q, p)
  BY DEF PrefixLess
<1>4. ASSUME PrefixEq(t, L, p, q), PrefixLess(t, L, p + L, q + L)
      PROVE  PrefixLess(t, 2 * L, p, q)
  <2>1. PICK e \in 0 .. L - 1 : /\ Symbol(t, (p + L) + e) < Symbol(t, (q + L) + e)
                                /\ PrefixEq(t, e, p + L, q + L)
    BY <1>4 DEF PrefixLess
  <2>2. PrefixEq(t, L + e, p, q)
    <3>1. SUFFICES ASSUME NEW f \in 0 .. (L + e) - 1
                   PROVE  Symbol(t, p + f) = Symbol(t, q + f)
      BY DEF PrefixEq
    <3>2. CASE f < L
      BY <1>4, <3>2 DEF PrefixEq
    <3>3. CASE f >= L
      <4>1. f - L \in 0 .. e - 1 /\ (p + L) + (f - L) = p + f /\ (q + L) + (f - L) = q + f
        BY <3>3
      <4>2. Symbol(t, (p + L) + (f - L)) = Symbol(t, (q + L) + (f - L))
        BY <2>1, <4>1 DEF PrefixEq
      <4> QED
        BY <4>1, <4>2
    <3> QED
      BY <3>2, <3>3
  <2>3. L + e \in 0 .. 2 * L - 1 /\ (p + L) + e = p + (L + e) /\ (q + L) + e = q + (L + e)
    OBVIOUS
  <2>4. Symbol(t, p + (L + e)) < Symbol(t, q + (L + e))
    BY <2>1, <2>3
  <2> QED
    BY <2>2, <2>3, <2>4 DEF PrefixLess
<1>5. ASSUME PrefixEq(t, L, p, q), PrefixLess(t, L, q + L, p + L)
      PROVE  ~ PrefixLess(t, 2 * L, p, q)
  <2>1. SUFFICES ASSUME PrefixLess(t, 2 * L, p, q) PROVE FALSE
    OBVIOUS
  <2>2. PICK d \in 0 .. 2 * L - 1 : Symbol(t, p + d) < Symbol(t, q + d) /\ PrefixEq(t, d, p, q)
    BY <2>1 DEF PrefixLess
  <2>3. Symbol(t, p + d) \in Nat /\ Symbol(t, q + d) \in Nat
    BY SymbolType
  <2>4. d >= L
    BY <1>5, <2>2, <2>3 DEF PrefixEq
  <2>5. d - L \in 0 .. L - 1 /\ (p + L) + (d - L) = p + d /\ (q + L) + (d - L) = q + d
    BY <2>4
  <2>6. PrefixEq(t, d - L, p + L, q + L)
    <3>1. SUFFICES ASSUME NEW f \in 0 .. (d - L) - 1
                   PROVE  Symbol(t, (p + L) + f) = Symbol(t, (q + L) + f)
      BY DEF PrefixEq
    <3>2. L + f \in 0 .. d - 1 /\ (p + L) + f = p + (L + f) /\ (q + L) + f = q + (L + f)
      OBVIOUS
    <3> QED
      BY <2>2, <3>2 DEF PrefixEq
  <2>7. PrefixLess(t, L, p + L, q + L)
    BY <2>2, <2>5, <2>6 DEF PrefixLess
  <2> QED
    BY <1>1, <1>5, <2>7, NoInversion
<1>6. ASSUME PrefixLess(t, 2 * L, p, q), ~ PrefixLess(t, L, p, q)
      PROVE  PrefixEq(t, L, p, q) /\ PrefixLess(t, L, p + L, q + L)
  <2>1. PrefixEq(t, L, p, q)
    BY <1>1, <1>3, <1>6, Trichotomy, NoInversion
  <2>2. ~ PrefixEq(t, L, p + L, q + L)
    BY <1>1, <1>6, <2>1, DoubleEq, LessNotEqual
  <2> QED
    BY <1>1, <1>5, <1>6, <2>1, <2>2, Trichotomy
<1> QED
  BY <1>2, <1>4, <1>6
-----------------------------------------------------------------------------
(* A rank counts the positions with a smaller prefix.                      *)
LEMMA PrefixRankType ==
  ASSUME NEW t \in CodedText, NEW L \in Nat, NEW p \in Positions(t)
  PROVE  /\ PrefixRank(t, L, p) \in Nat
         /\ IsFiniteSet({q \in Positions(t) : PrefixLess(t, L, q, p)})
<1> DEFINE S == {q \in Positions(t) : PrefixLess(t, L, q, p)}
<1>1. IsFiniteSet(Positions(t)) /\ S \in SUBSET Positions(t)
  BY PositionsType
<1> HIDE DEF S
<1>2. IsFiniteSet(S)
  BY <1>1, FS_Subset
<1>3. Cardinality(S) \in Nat
  BY <1>2, FS_CardinalityType
<1> QED
  BY <1>2, <1>3 DEF S, PrefixRank

(* A smaller prefix has a smaller rank.                                    *)
LEMMA LessRank ==
  ASSUME NEW t \in CodedText, NEW L \in Nat,
         NEW p \in Positions(t), NEW q \in Positions(t),
         PrefixLess(t, L, p, q)
  PROVE  PrefixRank(t, L, p) < PrefixRank(t, L, q)
<1> DEFINE P == {r \in Positions(t) : PrefixLess(t, L, r, p)}
           Q == {r \in Positions(t) : PrefixLess(t, L, r, q)}
<1>1. Positions(t) \subseteq Nat
  BY PositionsType
<1>2. P \in SUBSET Q
  <2>1. SUFFICES ASSUME NEW r \in P PROVE r \in Q
    OBVIOUS
  <2>2. r \in Nat /\ p \in Nat /\ q \in Nat
    BY <1>1
  <2> QED
    BY <2>2, LessTransitive
<1>3. p \in Q /\ p \notin P
  BY <1>1, NoInversion
<1>4. IsFiniteSet(P) /\ IsFiniteSet(Q)
  BY PrefixRankType
<1> HIDE DEF P, Q
<1>5. Cardinality(P) <= Cardinality(Q) /\ Cardinality(P) # Cardinality(Q)
  BY <1>2, <1>3, <1>4, FS_Subset
<1>6. Cardinality(P) \in Nat /\ Cardinality(Q) \in Nat
  BY <1>4, FS_CardinalityType
<1>7. Cardinality(P) < Cardinality(Q)
  BY <1>5, <1>6
<1> QED
  BY <1>7 DEF P, Q, PrefixRank

(* Equal prefixes have equal ranks.                                        *)
LEMMA EqRank ==
  ASSUME NEW t \in CodedText, NEW L \in Nat,
         NEW p \in Positions(t), NEW q \in Positions(t),
         PrefixEq(t, L, p, q)
  PROVE  PrefixRank(t, L, p) = PrefixRank(t, L, q)
<1>1. Positions(t) \subseteq Nat
  BY PositionsType
<1>2. PrefixEq(t, L, q, p)
  BY <1>1, PrefixEqEquivalence
<1>3. \A r \in Positions(t) : PrefixLess(t, L, r, p) <=> PrefixLess(t, L, r, q)
  BY <1>1, <1>2, LessCongruent
<1>4. {r \in Positions(t) : PrefixLess(t, L, r, p)} = {r \in Positions(t) : PrefixLess(t, L, r, q)}
  BY <1>3
<1> QED
  BY <1>4 DEF PrefixRank

(* Ranks tell prefixes apart: equal ranks are equal prefixes, smaller      *)
(* ranks smaller prefixes.  merge compares nothing but ranks.              *)
LEMMA RankDecides ==
  ASSUME NEW t \in CodedText, NEW L \in Nat,
         NEW p \in Positions(t), NEW q \in Positions(t)
  PROVE  /\ PrefixRank(t, L, p) = PrefixRank(t, L, q) <=> PrefixEq(t, L, p, q)
         /\ PrefixRank(t, L, p) < PrefixRank(t, L, q) <=> PrefixLess(t, L, p, q)
<1>1. p \in Nat /\ q \in Nat
  BY PositionsType
<1>2. PrefixRank(t, L, p) \in Nat /\ PrefixRank(t, L, q) \in Nat
  BY PrefixRankType
<1>3. PrefixEq(t, L, p, q) => PrefixRank(t, L, p) = PrefixRank(t, L, q)
  BY EqRank
<1>4. PrefixLess(t, L, p, q) => PrefixRank(t, L, p) < PrefixRank(t, L, q)
  BY LessRank
<1>5. PrefixLess(t, L, q, p) => PrefixRank(t, L, q) < PrefixRank(t, L, p)
  BY LessRank
<1>6. PrefixEq(t, L, p, q) \/ PrefixLess(t, L, p, q) \/ PrefixLess(t, L, q, p)
  BY <1>1, Trichotomy
<1> QED
  BY <1>2, <1>3, <1>4, <1>5, <1>6

(* The rank by prefixes of length 2L is the one by prefixes of length L,   *)
(* plus the positions that tie at length L and whose second half is        *)
(* smaller: what merge's pair counts add to a group's rank.                *)
LEMMA DoubleRank ==
  ASSUME NEW t \in CodedText, NEW L \in Nat, NEW p \in Positions(t)
  PROVE  PrefixRank(t, 2 * L, p) =
           PrefixRank(t, L, p) +
           Cardinality({q \in Positions(t) : PrefixEq(t, L, q, p) /\ PrefixLess(t, L, q + L, p + L)})
<1> DEFINE A == {q \in Positions(t) : PrefixLess(t, L, q, p)}
           B == {q \in Positions(t) : PrefixEq(t, L, q, p) /\ PrefixLess(t, L, q + L, p + L)}
           C == {q \in Positions(t) : PrefixLess(t, 2 * L, q, p)}
<1>1. Positions(t) \subseteq Nat
  BY PositionsType
<1>2. C = A \cup B
  BY <1>1, DoubleLess
<1>3. A \cap B = {}
  BY <1>1, LessNotEqual
<1>4. IsFiniteSet(A) /\ IsFiniteSet(B)
  <2>1. A \in SUBSET Positions(t) /\ B \in SUBSET Positions(t)
    OBVIOUS
  <2> HIDE DEF A, B
  <2> QED
    BY <2>1, PositionsType, FS_Subset
<1> HIDE DEF A, B, C
<1>5. Cardinality(C) = Cardinality(A) + Cardinality(B) - 0
  BY <1>2, <1>3, <1>4, FS_Union, FS_EmptySet
<1>6. Cardinality(A) \in Nat /\ Cardinality(B) \in Nat
  BY <1>4, FS_CardinalityType
<1>7. Cardinality(C) = Cardinality(A) + Cardinality(B)
  BY <1>5, <1>6
<1> QED
  BY <1>7 DEF A, B, C, PrefixRank

(* Once no position ties with p, longer prefixes do not change its rank.   *)
LEMMA UniqueRank ==
  ASSUME NEW t \in CodedText, NEW L \in Nat, NEW M \in Nat, NEW p \in Positions(t),
         \A q \in Positions(t) \ {p} : ~ PrefixEq(t, L, p, q) /\ ~ PrefixEq(t, M, p, q)
  PROVE  PrefixRank(t, L, p) = PrefixRank(t, M, p)
<1>1. Positions(t) \subseteq Nat
  BY PositionsType
<1>2. ASSUME NEW q \in Positions(t)
      PROVE  PrefixLess(t, L, q, p) <=> PrefixLess(t, M, q, p)
  <2>1. p \in Nat /\ q \in Nat
    BY <1>1
  <2>2. CASE q = p
    BY <2>1, <2>2, NoInversion
  <2>3. CASE q # p
    <3>1. ~ PrefixEq(t, L, p, q) /\ ~ PrefixEq(t, M, p, q)
      BY <2>3
    <3> QED
      BY <2>1, <3>1, Trichotomy, NoInversion
  <2> QED
    BY <2>2, <2>3
<1>3. {q \in Positions(t) : PrefixLess(t, L, q, p)} = {q \in Positions(t) : PrefixLess(t, M, q, p)}
  BY <1>2
<1> QED
  BY <1>3 DEF PrefixRank

(* next_rank_loc's is_empty is safe: a position L before one of the text   *)
(* is never in a chunk it skips.                                           *)
LEMMA NotPastTextEnd ==
  ASSUME NEW t \in CodedText, NEW S \in Nat \ {0}, NEW L \in Nat, NEW p \in Positions(t),
         p + L \in Positions(t)
  PROVE  ~ PastTextEnd(t, S, L, ChunkOf(S, p))
<1>1. p \in Nat /\ Len(t) \in Nat /\ p + L <= Len(t)
  BY PositionsType
<1>2. (p \div S) + (L \div S) <= Len(t) \div S
  <2> DEFINE a == p \div S
             b == L \div S
             c == Len(t) \div S
  <2>1. a \in Nat /\ b \in Nat /\ c \in Nat
    BY <1>1
  <2>2. S * a <= p /\ S * b <= L /\ Len(t) < S * c + S
    BY <1>1
  <2> HIDE DEF a, b, c
  <2>3. S * (a + b) < S * (c + 1)
    BY <1>1, <2>1, <2>2
  <2>4. a + b < c + 1
    BY <2>1, <2>3
  <2> QED
    BY <2>1, <2>4 DEF a, b, c
<1>3. (p \div S) \in Int /\ (L \div S) \in Int /\ (Len(t) \div S) \in Int
  BY <1>1
<1> QED
  BY <1>2, <1>3 DEF PastTextEnd, BaseChunk, ChunkOf
-----------------------------------------------------------------------------
(* Quotient and remainder, as the code uses them all over: a rank or a     *)
(* position is a chunk and an offset in it, a ring's slot is an index      *)
(* modulo the ring's size, a rolling key is divided by its base.           *)

(* The chunk and the offset of a number.                                   *)
LEMMA Division ==
  ASSUME NEW S \in Nat \ {0}, NEW n \in Nat
  PROVE  /\ n \div S \in Nat /\ n % S \in 0 .. S - 1
         /\ n = (n \div S) * S + (n % S)
  OBVIOUS

LEMMA ChunkFirst ==
  ASSUME NEW S \in Nat \ {0}, NEW c \in Nat, NEW d \in Nat, c < d,
         NEW i \in 0 .. S - 1, NEW j \in Nat
  PROVE  c * S + i < d * S + j
<1>1. PICK e \in Nat : d = c + 1 + e
  <2>1. d - c - 1 \in Nat /\ d = c + 1 + (d - c - 1)
    OBVIOUS
  <2> QED
    BY <2>1
<1>2. d * S = c * S + S + e * S
  BY <1>1
<1>3. e * S \in Nat /\ c * S \in Nat
  OBVIOUS
<1> QED
  BY <1>2, <1>3

LEMMA DivisionUnique ==
  ASSUME NEW S \in Nat \ {0}, NEW c \in Nat, NEW i \in 0 .. S - 1
  PROVE  (c * S + i) \div S = c /\ (c * S + i) % S = i
<1> DEFINE n == c * S + i
           q == n \div S
           r == n % S
<1>1. n \in Nat
  OBVIOUS
<1>2. q \in Nat /\ r \in 0 .. S - 1 /\ n = q * S + r
  BY <1>1, Division
<1>3. n = c * S + i
  OBVIOUS
<1> HIDE DEF n, q, r
<1>4. ~ (q < c)
  BY <1>2, <1>3, ChunkFirst
<1>5. ~ (c < q)
  BY <1>2, <1>3, ChunkFirst
<1>6. q = c
  BY <1>2, <1>4, <1>5
<1>7. r = i
  BY <1>2, <1>3, <1>6
<1> QED
  BY <1>6, <1>7 DEF n, q, r

(* A ring of S slots: S indices on is the same slot, fewer on another.     *)
LEMMA NextRound ==
  ASSUME NEW S \in Nat \ {0}, NEW n \in Nat
  PROVE  (n + S) % S = n % S
<1> DEFINE q == n \div S
           r == n % S
<1>1. q \in Nat /\ r \in 0 .. S - 1 /\ n = q * S + r
  BY Division
<1> HIDE DEF q, r
<1>2. q + 1 \in Nat /\ (q + 1) * S = q * S + S
  BY <1>1
<1>3. n + S = (q + 1) * S + r
  <2> DEFINE a == q * S
  <2>1. a \in Nat /\ n = a + r /\ (q + 1) * S = a + S
    BY <1>1, <1>2
  <2> HIDE DEF a
  <2> QED
    BY <1>1, <2>1
<1>4. ((q + 1) * S + r) % S = r
  BY <1>1, <1>2, DivisionUnique
<1> QED
  BY <1>3, <1>4 DEF r

LEMMA OtherSlot ==
  ASSUME NEW S \in Nat \ {0}, NEW n \in Nat, NEW i \in 1 .. S - 1
  PROVE  (n + i) % S # n % S
<1> DEFINE q == n \div S
           r == n % S
<1>1. q \in Nat /\ r \in 0 .. S - 1 /\ n = q * S + r
  BY Division
<1> HIDE DEF q, r
<1> DEFINE a == q * S
<1>2. a \in Nat /\ n = a + r /\ q + 1 \in Nat /\ (q + 1) * S = a + S
  BY <1>1
<1>3. CASE r + i < S
  <2>1. r + i \in 0 .. S - 1
    BY <1>1, <1>3
  <2>2. (q * S + (r + i)) % S = r + i
    BY <1>1, <2>1, DivisionUnique
  <2>3. n + i = q * S + (r + i)
    <3>1. n + i = a + (r + i)
      <4> HIDE DEF a
      <4> QED
        BY <1>1, <1>2
    <3> QED
      BY <3>1
  <2> QED
    BY <1>1, <2>2, <2>3 DEF r
<1>4. CASE ~ (r + i < S)
  <2>1. (r + i) - S \in 0 .. S - 1 /\ (r + i) - S # r
    BY <1>1, <1>4
  <2>2. ((q + 1) * S + ((r + i) - S)) % S = (r + i) - S
    BY <1>2, <2>1, DivisionUnique
  <2>3. n + i = (q + 1) * S + ((r + i) - S)
    <3>1. n + i = (a + S) + ((r + i) - S)
      <4> HIDE DEF a
      <4> QED
        BY <1>1, <1>2
    <3> QED
      BY <1>2, <3>1
  <2> QED
    BY <2>1, <2>2, <2>3 DEF r
<1> QED
  BY <1>3, <1>4

-----------------------------------------------------------------------------
(* Every set of naturals has a least element, if any.                      *)
LEMMA Least ==
  ASSUME NEW T \in SUBSET Nat, T # {}
  PROVE  \E d \in T : \A e \in T : d <= e
<1>1. PICK d \in T : \A e \in T : ~ (<<e, d>> \in OpToRel(<, Nat))
  BY WFMin, NatLessThanWellFounded
<1>2. \A e \in T : ~ (e < d)
  BY <1>1 DEF OpToRel
<1> QED
  BY <1>2

(* Induction, for a set in the place of a property.                        *)
LEMMA Induction ==
  ASSUME NEW T, 0 \in T, \A n \in Nat : n \in T => n + 1 \in T
  PROVE  Nat \subseteq T
<1>1. SUFFICES ASSUME Nat \ T # {} PROVE FALSE
  OBVIOUS
<1>2. PICK d \in Nat \ T : \A e \in Nat \ T : d <= e
  BY <1>1, Least
<1>3. d - 1 \in Nat /\ (d - 1) + 1 = d
  BY <1>2
<1> QED
  BY <1>2, <1>3

(* What grows at every step grows.                                         *)
LEMMA Growing ==
  ASSUME NEW m \in Nat, NEW f \in [1 .. m -> Nat],
         \A j \in 1 .. m : j + 1 \in 1 .. m => f[j] < f[j + 1],
         NEW j \in 1 .. m, NEW k \in 1 .. m, j < k
  PROVE  f[j] < f[k]
<1> DEFINE T == {n \in Nat : j + 1 + n \in 1 .. m => f[j] < f[j + 1 + n]}
<1>1. 0 \in T
  OBVIOUS
<1>2. ASSUME NEW n \in Nat, n \in T PROVE n + 1 \in T
  <2>1. SUFFICES ASSUME j + 1 + (n + 1) \in 1 .. m PROVE f[j] < f[j + 1 + (n + 1)]
    OBVIOUS
  <2>2. j + 1 + n \in 1 .. m /\ (j + 1 + n) + 1 = j + 1 + (n + 1)
    BY <2>1
  <2>3. f[j] < f[j + 1 + n] /\ f[j + 1 + n] < f[j + 1 + (n + 1)]
    BY <1>2, <2>1, <2>2
  <2>4. f[j] \in Nat /\ f[j + 1 + n] \in Nat /\ f[j + 1 + (n + 1)] \in Nat
    BY <2>1, <2>2
  <2> QED
    BY <2>3, <2>4
<1> HIDE DEF T
<1>3. Nat \subseteq T
  BY <1>1, <1>2, Induction
<1>4. k - j - 1 \in T /\ j + 1 + (k - j - 1) = k
  BY <1>3
<1> QED
  BY <1>4 DEF T

(* f lists the m numbers of K in ascending order.                          *)
Lists(f, m, K) ==
  /\ f \in [1 .. m -> K]
  /\ \A a, b \in 1 .. m : a < b => f[a] < f[b]
  /\ \A x \in K : \E a \in 1 .. m : f[a] = x

(* There is one way to do that.                                            *)
LEMMA SameNext ==
  ASSUME NEW m \in Nat, NEW n \in Nat, NEW K \in SUBSET Nat,
         NEW f, NEW g, Lists(f, m, K), Lists(g, n, K),
         NEW d \in 1 .. m,
         \A e \in 1 .. d - 1 : e \in 1 .. m /\ e \in 1 .. n /\ f[e] = g[e]
  PROVE  d \in 1 .. n /\ f[d] = g[d]
<1>1. /\ \A a \in 1 .. m : f[a] \in K /\ f[a] \in Nat
      /\ \A a, b \in 1 .. m : a < b => f[a] < f[b]
  BY DEF Lists
<1>2. /\ \A a \in 1 .. n : g[a] \in K /\ g[a] \in Nat
      /\ \A a, b \in 1 .. n : a < b => g[a] < g[b]
  BY DEF Lists
<1>3. PICK b \in 1 .. n : g[b] = f[d]
  BY <1>1 DEF Lists
<1>4. ~ (b < d)
  <2>1. SUFFICES ASSUME b < d PROVE FALSE
    OBVIOUS
  <2>2. b \in 1 .. d - 1
    BY <2>1
  <2>3. b \in 1 .. m /\ f[b] = g[b]
    BY <2>2
  <2>4. f[b] < f[d]
    BY <1>1, <2>1, <2>3
  <2> QED
    BY <1>1, <1>3, <2>3, <2>4
<1>5. d \in 1 .. n
  BY <1>4
<1>6. PICK c \in 1 .. m : f[c] = g[d]
  BY <1>2, <1>5 DEF Lists
<1>7. ~ (c < d)
  <2>1. SUFFICES ASSUME c < d PROVE FALSE
    OBVIOUS
  <2>2. c \in 1 .. d - 1
    BY <2>1
  <2>3. c \in 1 .. n /\ f[c] = g[c]
    BY <2>2
  <2>4. g[c] < g[d]
    BY <1>2, <1>5, <2>1, <2>3
  <2> QED
    BY <1>2, <1>5, <1>6, <2>3, <2>4
<1>8. g[d] <= g[b]
  <2>1. d = b \/ d < b
    BY <1>4, <1>5
  <2> QED
    BY <1>2, <1>5, <2>1
<1>9. f[d] <= f[c]
  <2>1. d = c \/ d < c
    BY <1>7
  <2> QED
    BY <1>1, <2>1
<1> QED
  BY <1>1, <1>3, <1>5, <1>6, <1>8, <1>9

LEMMA AscendingUnique ==
  ASSUME NEW m \in Nat, NEW n \in Nat, NEW K \in SUBSET Nat,
         NEW f, NEW g, Lists(f, m, K), Lists(g, n, K)
  PROVE  m = n /\ f = g
<1> DEFINE Agree(a) == a \in 1 .. m /\ a \in 1 .. n /\ f[a] = g[a]
           T == {a \in Nat : (a \in 1 .. m \/ a \in 1 .. n) /\ ~ Agree(a)}
<1>1. ASSUME T # {} PROVE FALSE
  <2>1. PICK d \in T : \A e \in T : d <= e
    <3> HIDE DEF Agree
    <3> QED
      BY <1>1, Least
  <2>2. \A e \in 1 .. d - 1 : Agree(e)
    <3>1. SUFFICES ASSUME NEW e \in 1 .. d - 1 PROVE Agree(e)
      OBVIOUS
    <3>2. e \in Nat /\ e \notin T /\ (e \in 1 .. m \/ e \in 1 .. n)
      BY <2>1
    <3> QED
      BY <3>2
  <2> HIDE DEF T
  <2>3. ASSUME d \in 1 .. m PROVE Agree(d)
    <3>1. \A e \in 1 .. d - 1 : e \in 1 .. m /\ e \in 1 .. n /\ f[e] = g[e]
      BY <2>2
    <3>2. d \in 1 .. n /\ f[d] = g[d]
      BY <2>3, <3>1, SameNext
    <3> QED
      BY <2>3, <3>2
  <2>4. ASSUME d \in 1 .. n PROVE Agree(d)
    <3>1. \A e \in 1 .. d - 1 : e \in 1 .. n /\ e \in 1 .. m /\ g[e] = f[e]
      BY <2>2
    <3>2. d \in 1 .. m /\ g[d] = f[d]
      BY <2>4, <3>1, SameNext
    <3> QED
      BY <2>4, <3>2
  <2> QED
    BY <2>1, <2>3, <2>4 DEF T
<1>2. \A a \in 1 .. m : a \in 1 .. n /\ f[a] = g[a]
  BY <1>1
<1>3. \A a \in 1 .. n : a \in 1 .. m
  BY <1>1
<1>4. m = n
  BY <1>2, <1>3
<1> QED
  BY <1>2, <1>4 DEF Lists

-----------------------------------------------------------------------------
(* st cuts the numbers from 1 on into m stretches, the j-th w[j] long:     *)
(* st[j] is where it starts, and st[m + 1] what comes after the last.      *)
Cuts(st, w, m) ==
  /\ st \in [1 .. m + 1 -> Nat]
  /\ st[1] = 1
  /\ \A j \in 1 .. m : st[j + 1] = st[j] + w[j]

LEMMA CutExists ==
  ASSUME NEW m \in Nat, NEW w \in [1 .. m -> Nat]
  PROVE  \E st : Cuts(st, w, m)
<1> DEFINE T == {n \in Nat : n <= m => \E st : Cuts(st, w, n)}
<1>1. 0 \in T
  <2>1. Cuts([j \in 1 .. 0 + 1 |-> 1], w, 0)
    BY DEF Cuts
  <2> QED
    BY <2>1
<1>2. ASSUME NEW n \in Nat, n \in T PROVE n + 1 \in T
  <2>1. SUFFICES ASSUME n + 1 <= m PROVE \E st : Cuts(st, w, n + 1)
    OBVIOUS
  <2>2. PICK st : Cuts(st, w, n)
    BY <1>2, <2>1
  <2> DEFINE su == [j \in 1 .. (n + 1) + 1 |-> IF j <= n + 1 THEN st[j] ELSE st[n + 1] + w[n + 1]]
  <2>3. st \in [1 .. n + 1 -> Nat] /\ w[n + 1] \in Nat
    BY <2>1, <2>2 DEF Cuts
  <2>4. su \in [1 .. (n + 1) + 1 -> Nat] /\ su[1] = 1
    <3>1. \A j \in 1 .. n + 1 : st[j] \in Nat
      BY <2>3
    <3>2. \A j \in 1 .. (n + 1) + 1 : (IF j <= n + 1 THEN st[j] ELSE st[n + 1] + w[n + 1]) \in Nat
      BY <2>3, <3>1
    <3>3. st[1] = 1 /\ 1 \in 1 .. (n + 1) + 1
      BY <2>2 DEF Cuts
    <3> QED
      BY <3>2, <3>3
  <2>5. ASSUME NEW j \in 1 .. n + 1 PROVE su[j + 1] = su[j] + w[j]
    <3>1. CASE j \in 1 .. n
      BY <2>2, <3>1 DEF Cuts
    <3>2. CASE j = n + 1
      BY <3>2
    <3> QED
      BY <3>1, <3>2
  <2> QED
    BY <2>4, <2>5 DEF Cuts
<1> HIDE DEF T
<1>3. m \in T
  BY <1>1, <1>2, Induction
<1> QED
  BY <1>3 DEF T

(* The stretches come one after the other.                                 *)
LEMMA CutGrows ==
  ASSUME NEW m \in Nat, NEW w \in [1 .. m -> Nat], NEW st, Cuts(st, w, m),
         NEW j \in 1 .. m, NEW k \in 1 .. m + 1, j < k
  PROVE  st[j + 1] <= st[k]
<1> DEFINE T == {n \in Nat : j + 1 + n \in 1 .. m + 1 => st[j + 1] <= st[j + 1 + n]}
<1>1. \A i \in 1 .. m : st[i] \in Nat /\ st[i + 1] \in Nat /\ w[i] \in Nat /\ st[i + 1] = st[i] + w[i]
  BY DEF Cuts
<1>2. 0 \in T
  BY <1>1
<1>3. ASSUME NEW n \in Nat, n \in T PROVE n + 1 \in T
  <2>1. SUFFICES ASSUME j + 1 + (n + 1) \in 1 .. m + 1
                 PROVE  st[j + 1] <= st[j + 1 + (n + 1)]
    OBVIOUS
  <2> DEFINE i == j + 1 + n
  <2>2. i \in 1 .. m /\ i + 1 = j + 1 + (n + 1)
    BY <2>1
  <2>3. st[j + 1] <= st[i]
    BY <1>3, <2>2
  <2>4. st[i] \in Nat /\ w[i] \in Nat /\ st[i + 1] = st[i] + w[i] /\ st[j + 1] \in Nat
    BY <1>1, <2>2
  <2>5. st[j + 1 + (n + 1)] = st[i + 1]
    BY <2>2
  <2> HIDE DEF i
  <2>6. st[j + 1] <= st[i + 1]
    BY <2>3, <2>4
  <2> QED
    BY <2>5, <2>6
<1> HIDE DEF T
<1>4. Nat \subseteq T
  BY <1>2, <1>3, Induction
<1>5. k - j - 1 \in T /\ j + 1 + (k - j - 1) = k
  BY <1>4
<1> QED
  BY <1>5 DEF T

LEMMA CutBounds ==
  ASSUME NEW m \in Nat, NEW w \in [1 .. m -> Nat], NEW st, Cuts(st, w, m)
  PROVE  /\ \A j \in 1 .. m + 1 : st[j] \in Nat /\ 1 <= st[j] /\ st[j] <= st[m + 1]
         /\ \A j \in 1 .. m : st[j + 1] = st[j] + w[j] /\ w[j] \in Nat
<1>1. /\ \A j \in 1 .. m + 1 : st[j] \in Nat
      /\ st[1] = 1
      /\ \A j \in 1 .. m : st[j + 1] = st[j] + w[j] /\ w[j] \in Nat
  BY DEF Cuts
<1>2. ASSUME NEW j \in 1 .. m + 1 PROVE 1 <= st[j]
  <2>1. CASE j = 1
    BY <1>1, <2>1
  <2>2. CASE j # 1
    <3>1. 1 \in 1 .. m /\ 1 < j
      BY <2>2
    <3>2. st[1 + 1] <= st[j]
      BY <3>1, CutGrows
    <3>3. st[1 + 1] = 1 + w[1] /\ w[1] \in Nat
      BY <1>1, <3>1
    <3> QED
      BY <1>1, <3>2, <3>3
  <2> QED
    BY <2>1, <2>2
<1>3. ASSUME NEW j \in 1 .. m + 1 PROVE st[j] <= st[m + 1]
  <2>1. CASE j = m + 1
    BY <1>1, <2>1
  <2>2. CASE j # m + 1
    <3>1. j \in 1 .. m /\ m + 1 \in 1 .. m + 1 /\ j < m + 1
      BY <2>2
    <3>2. st[j + 1] <= st[m + 1]
      BY <3>1, CutGrows
    <3>3. st[j + 1] = st[j] + w[j] /\ w[j] \in Nat /\ st[j] \in Nat /\ st[m + 1] \in Nat
      BY <1>1, <3>1
    <3> QED
      BY <3>2, <3>3
  <2> QED
    BY <2>1, <2>2
<1> QED
  BY <1>1, <1>2, <1>3

(* No number is in two of them.                                            *)
LEMMA CutOnce ==
  ASSUME NEW m \in Nat, NEW w \in [1 .. m -> Nat], NEW st, Cuts(st, w, m),
         NEW j \in 1 .. m, NEW k \in 1 .. m,
         NEW i \in st[j] .. st[j + 1] - 1, i \in st[k] .. st[k + 1] - 1
  PROVE  j = k
<1>1. st[j] \in Nat /\ st[j + 1] \in Nat /\ st[k] \in Nat /\ st[k + 1] \in Nat
  BY DEF Cuts
<1>2. ~ (j < k)
  <2>1. j < k => st[j + 1] <= st[k]
    BY CutGrows, SMTT(20)
  <2> QED
    BY <1>1, <2>1
<1>3. ~ (k < j)
  <2>1. k < j => st[k + 1] <= st[j]
    BY CutGrows
  <2> QED
    BY <1>1, <2>1
<1> QED
  BY <1>2, <1>3

(* Every number up to the end is in one.                                   *)
LEMMA CutCovers ==
  ASSUME NEW m \in Nat, NEW w \in [1 .. m -> Nat], NEW st, Cuts(st, w, m),
         NEW i \in 1 .. st[m + 1] - 1
  PROVE  \E j \in 1 .. m : i \in st[j] .. st[j + 1] - 1
<1>1. \A j \in 1 .. m + 1 : st[j] \in Nat
  BY DEF Cuts
<1> DEFINE T == {n \in Nat : n \in 1 .. m + 1 /\ i < st[n]}
<1>2. m + 1 \in T
  BY <1>1
<1>3. PICK d \in T : \A e \in T : d <= e
  BY <1>2, Least
<1>4. d # 1
  BY <1>3 DEF Cuts
<1> DEFINE j == d - 1
<1>5. j \in 1 .. m /\ j + 1 = d /\ j \notin T
  BY <1>3, <1>4
<1>6. st[j] <= i /\ i < st[j + 1]
  BY <1>1, <1>3, <1>5
<1> HIDE DEF j
<1> QED
  BY <1>1, <1>5, <1>6

-----------------------------------------------------------------------------
(* FlattenSeq's recursion.                                                 *)
LEMMA FlattenExists ==
  ASSUME NEW seqs, NEW m \in Nat
  PROVE  \E f : f = [i \in 1 .. m |-> IF i = 1 THEN seqs[i] ELSE f[i - 1] \o seqs[i]]
<1> DEFINE Is(f, n) == f = [i \in 1 .. n |-> IF i = 1 THEN seqs[i] ELSE f[i - 1] \o seqs[i]]
           T == {n \in Nat : \E f : Is(f, n)}
<1>1. 0 \in T
  <2>1. Is([i \in 1 .. 0 |-> 0], 0)
    OBVIOUS
  <2> QED
    BY <2>1
<1>2. ASSUME NEW n \in Nat, n \in T PROVE n + 1 \in T
  <2>1. PICK f : Is(f, n)
    BY <1>2
  <2> DEFINE g == [i \in 1 .. n + 1 |->
                    IF i <= n THEN f[i] ELSE IF i = 1 THEN seqs[i] ELSE f[n] \o seqs[i]]
             h == [i \in 1 .. n + 1 |-> IF i = 1 THEN seqs[i] ELSE g[i - 1] \o seqs[i]]
  <2>5. \A i \in 1 .. n : f[i] = IF i = 1 THEN seqs[i] ELSE f[i - 1] \o seqs[i]
    BY <2>1
  <2>2. ASSUME NEW i \in 1 .. n + 1 PROVE g[i] = h[i]
    <3>1. CASE i <= n
      <4>1. f[i] = IF i = 1 THEN seqs[i] ELSE f[i - 1] \o seqs[i]
        BY <2>5, <3>1
      <4>2. i # 1 => g[i - 1] = f[i - 1]
        BY <3>1
      <4> QED
        BY <3>1, <4>1, <4>2
    <3>2. CASE i = n + 1
      <4>1. i # 1 => g[n] = f[n]
        BY <3>2
      <4> QED
        BY <3>2, <4>1
    <3> QED
      BY <3>1, <3>2
  <2>3. g = h
    BY <2>2
  <2>4. Is(g, n + 1)
    BY <2>3
  <2> HIDE DEF g, h, Is
  <2> QED
    BY <2>4
<1> HIDE DEF T
<1>3. m \in T
  BY <1>1, <1>2, Induction
<1> QED
  BY <1>3 DEF T

LEMMA ConcatAt ==
  ASSUME NEW V, NEW s \in Seq(V), NEW t \in Seq(V)
  PROVE  /\ s \o t \in Seq(V)
         /\ Len(s) \in Nat /\ Len(t) \in Nat /\ Len(s \o t) = Len(s) + Len(t)
         /\ \A i \in 1 .. Len(s) : (s \o t)[i] = s[i]
         /\ \A i \in 1 .. Len(t) : (s \o t)[Len(s) + i] = t[i]
  OBVIOUS

(* w has the lengths of m sequences over V.                                *)
Lengths(w, seqs, m, V) ==
  /\ seqs \in [1 .. m -> Seq(V)]
  /\ w \in [1 .. m -> Nat]
  /\ \A j \in 1 .. m : w[j] = Len(seqs[j])

(* FlattenSeq puts each sequence where its stretch is.                     *)
LEMMA FlattenAt ==
  ASSUME NEW V, NEW m \in Nat, NEW seqs, NEW w, NEW st,
         Lengths(w, seqs, m, V), Cuts(st, w, m)
  PROVE  /\ FlattenSeq(seqs) \in Seq(V)
         /\ Len(FlattenSeq(seqs)) = st[m + 1] - 1
         /\ \A j \in 1 .. m : \A k \in 1 .. Len(seqs[j]) :
              FlattenSeq(seqs)[st[j] + k - 1] = seqs[j][k]
<1>5. seqs \in [1 .. m -> Seq(V)] /\ w \in [1 .. m -> Nat]
  BY DEF Lengths
<1>1. Len(seqs) = m /\ seqs \in Seq(Seq(V))
  BY <1>5
<1>2. /\ \A j \in 1 .. m + 1 : st[j] \in Nat
      /\ st[1] = 1
      /\ \A j \in 1 .. m : st[j + 1] = st[j] + Len(seqs[j]) /\ Len(seqs[j]) \in Nat
  BY <1>5 DEF Cuts, Lengths
<1>6. \A j \in 1 .. m + 1 : st[j] \in Nat /\ 1 <= st[j]
  BY <1>5, CutBounds
<1>3. CASE m = 0
  BY <1>1, <1>2, <1>3 DEF FlattenSeq
<1>4. CASE m # 0
  <2> DEFINE Is(f) == f = [i \in 1 .. m |-> IF i = 1 THEN seqs[i] ELSE f[i - 1] \o seqs[i]]
             flatten == CHOOSE f : Is(f)
  <2>1. Is(flatten)
    BY FlattenExists
  <2>2. FlattenSeq(seqs) = flatten[m]
    BY <1>1, <1>4 DEF FlattenSeq
  <2> HIDE DEF flatten
  <2>3. \A i \in 1 .. m : flatten[i] = IF i = 1 THEN seqs[i] ELSE flatten[i - 1] \o seqs[i]
    BY <2>1
  <2> HIDE DEF Is
  <2> DEFINE Good(n) == /\ flatten[n] \in Seq(V)
                        /\ Len(flatten[n]) = st[n + 1] - 1
                        /\ \A j \in 1 .. n : \A k \in 1 .. Len(seqs[j]) :
                             flatten[n][st[j] + k - 1] = seqs[j][k]
             T == {n \in Nat : n + 1 \in 1 .. m => Good(n + 1)}
  <2>4. 0 \in T
    <3>1. flatten[1] = seqs[1] /\ seqs[1] \in Seq(V)
      BY <1>4, <1>5, <2>3
    <3>2. st[1 + 1] = 1 + Len(seqs[1]) /\ Len(seqs[1]) \in Nat
      BY <1>2, <1>4
    <3>3. \A k \in 1 .. Len(seqs[1]) : st[1] + k - 1 = k
      BY <1>2, <3>2
    <3>4. Good(1)
      BY <3>1, <3>2, <3>3
    <3> HIDE DEF Good
    <3> QED
      BY <3>4
  <2>5. ASSUME NEW n \in Nat, n \in T PROVE n + 1 \in T
    <3>1. SUFFICES ASSUME (n + 1) + 1 \in 1 .. m PROVE Good((n + 1) + 1)
      OBVIOUS
    <3> DEFINE a == n + 1
               b == a + 1
    <3>2. a \in 1 .. m /\ b \in 1 .. m /\ b # 1 /\ b - 1 = a
      BY <3>1
    <3>3. Good(a)
      BY <2>5, <3>2
    <3>4. flatten[b] = flatten[a] \o seqs[b]
      BY <2>3, <3>2
    <3> HIDE DEF a
    <3>5. seqs[b] \in Seq(V) /\ st[b] \in Nat /\ st[b + 1] = st[b] + Len(seqs[b]) /\ Len(seqs[b]) \in Nat
      BY <1>2, <1>5, <3>2, SMTT(20)
    <3> DEFINE F == flatten[a]
               s == seqs[b]
    <3>8. F \in Seq(V) /\ Len(F) = st[b] - 1 /\ s \in Seq(V) /\ flatten[b] = F \o s
      BY <3>3, <3>4, <3>5
    <3>9. /\ F \o s \in Seq(V) /\ Len(F) \in Nat /\ Len(F \o s) = Len(F) + Len(s)
          /\ \A i \in 1 .. Len(F) : (F \o s)[i] = F[i]
          /\ \A i \in 1 .. Len(s) : (F \o s)[Len(F) + i] = s[i]
      <4> HIDE DEF F, s
      <4>1. F \in Seq(V) /\ s \in Seq(V)
        BY <3>8
      <4> QED
        BY <4>1, ConcatAt
    <3>6. flatten[b] \in Seq(V) /\ Len(flatten[b]) = st[b + 1] - 1
      <4>1. Len(F \o s) = (st[b] - 1) + Len(s) /\ st[b + 1] = st[b] + Len(s) /\ Len(s) \in Nat
        BY <3>5, <3>8, <3>9
      <4>2. st[b] \in Nat
        BY <3>5
      <4> HIDE DEF F, s
      <4> QED
        BY <3>8, <3>9, <4>1, <4>2
    <3>7. ASSUME NEW j \in 1 .. b, NEW k \in 1 .. Len(seqs[j])
          PROVE  flatten[b][st[j] + k - 1] = seqs[j][k]
      <4>1. CASE j = b
        <5>1. (F \o s)[Len(F) + k] = s[k]
          BY <3>9, <4>1
        <5>2. Len(F) + k = st[j] + k - 1
          BY <3>5, <3>8, <4>1
        <5> QED
          BY <3>8, <4>1, <5>1, <5>2
      <4>2. CASE j \in 1 .. a
        <5>1. flatten[a][st[j] + k - 1] = seqs[j][k]
          BY <3>3, <4>2
        <5>2. j \in 1 .. m /\ st[j] \in Nat /\ st[j + 1] = st[j] + Len(seqs[j]) /\ Len(seqs[j]) \in Nat
          BY <1>2, <3>2, <4>2
        <5>3. st[j + 1] <= st[b]
          <6>1. j \in 1 .. m /\ b \in 1 .. m + 1 /\ j < b
            BY <3>2, <4>2
          <6> QED
            BY <1>5, <6>1, CutGrows
        <5>4. st[j] >= 1
          BY <1>6, <5>2
        <5>5. st[j] + k - 1 \in 1 .. Len(F)
          <6> DEFINE x == st[j]
                     y == st[b]
                     l == Len(seqs[j])
          <6>1. x \in Nat /\ l \in Nat /\ y \in Nat /\ x + l <= y /\ x >= 1 /\ k \in 1 .. l
            BY <3>5, <5>2, <5>3, <5>4
          <6>2. Len(F) = y - 1
            BY <3>8
          <6> HIDE DEF x, y, l, F
          <6>3. x + k - 1 \in 1 .. Len(F)
            BY <6>1, <6>2
          <6> QED
            BY <6>3 DEF x
        <5>6. (F \o s)[st[j] + k - 1] = F[st[j] + k - 1]
          BY <3>9, <5>5
        <5> QED
          BY <3>8, <5>1, <5>6
      <4> QED
        BY <3>2, <4>1, <4>2
    <3> QED
      BY <3>6, <3>7 DEF a
  <2> HIDE DEF T
  <2>6. Nat \subseteq T
    BY <2>4, <2>5, Induction
  <2>7. m - 1 \in T /\ (m - 1) + 1 = m
    BY <1>4, <2>6
  <2>8. Good(m)
    <3> HIDE DEF Good
    <3> QED
      BY <1>4, <2>7 DEF T
  <2> QED
    BY <2>2, <2>8
<1> QED
  BY <1>3, <1>4

(* Two sequences with the same elements at the same indices.               *)
LEMMA SameElements ==
  ASSUME NEW V, NEW s \in Seq(V), NEW t \in Seq(V), Len(s) = Len(t),
         \A i \in 1 .. Len(s) : s[i] = t[i]
  PROVE  s = t
  OBVIOUS

(* A last sequence comes after what the ones before it give.               *)
LEMMA FlattenJoin ==
  ASSUME NEW V, NEW m \in Nat, NEW n \in Nat, n = m + 1,
         NEW seqs, NEW w, NEW st, Lengths(w, seqs, n, V), Cuts(st, w, n),
         NEW front, NEW v, NEW su, Lengths(v, front, m, V), Cuts(su, v, m),
         \A j \in 1 .. m : front[j] = seqs[j],
         \A j \in 1 .. n : su[j] = st[j]
  PROVE  /\ FlattenSeq(front) \in Seq(V)
         /\ FlattenSeq(seqs) = FlattenSeq(front) \o seqs[n]
<1> DEFINE F == FlattenSeq(seqs)
           G == FlattenSeq(front)
           last == seqs[n]
<1>1. /\ n \in 1 .. n /\ n \in 1 .. n + 1 /\ m + 1 = n
      /\ \A j \in 1 .. n : j # n => j \in 1 .. m /\ j < n
  OBVIOUS
<1>2. w \in [1 .. n -> Nat] /\ \A j \in 1 .. n : seqs[j] \in Seq(V) /\ w[j] = Len(seqs[j])
  BY DEF Lengths
<1>3. \A j \in 1 .. n : /\ st[j] \in Nat /\ st[j + 1] \in Nat
                        /\ st[j + 1] = st[j] + Len(seqs[j]) /\ Len(seqs[j]) \in Nat
  <2>1. \A j \in 1 .. n : st[j] \in Nat /\ st[j + 1] \in Nat /\ st[j + 1] = st[j] + w[j]
    BY DEF Cuts
  <2>2. \A j \in 1 .. n : Len(seqs[j]) \in Nat
    BY <1>2
  <2> QED
    BY <1>2, <2>1, <2>2
<1>4. /\ F \in Seq(V) /\ Len(F) = st[n + 1] - 1
      /\ \A j \in 1 .. n : \A k \in 1 .. Len(seqs[j]) : F[st[j] + k - 1] = seqs[j][k]
  BY FlattenAt
<1>5. /\ G \in Seq(V) /\ Len(G) = su[m + 1] - 1
      /\ \A j \in 1 .. m : \A k \in 1 .. Len(front[j]) : G[su[j] + k - 1] = front[j][k]
  BY FlattenAt
<1>6. su[m + 1] = st[n]
  BY <1>1
<1>7. \A i \in 1 .. st[n + 1] - 1 : \E j \in 1 .. n : i \in st[j] .. st[j + 1] - 1
  BY <1>2, CutCovers
<1>8. last \in Seq(V) /\ Len(last) \in Nat /\ st[n] \in Nat /\ st[n + 1] = st[n] + Len(last)
  BY <1>1, <1>2, <1>3
<1> HIDE DEF F, G
<1>9. G \in Seq(V) /\ last \in Seq(V)
  BY <1>5, <1>8
<1> HIDE DEF last
<1>10. /\ G \o last \in Seq(V) /\ Len(G) \in Nat /\ Len(G \o last) = Len(G) + Len(last)
       /\ \A i \in 1 .. Len(G) : (G \o last)[i] = G[i]
       /\ \A i \in 1 .. Len(last) : (G \o last)[Len(G) + i] = last[i]
  BY <1>9, ConcatAt
<1> DEFINE H == G \o last
<1>11. /\ H \in Seq(V) /\ Len(G) \in Nat /\ Len(H) = Len(G) + Len(last)
       /\ \A i \in 1 .. Len(G) : H[i] = G[i]
       /\ \A i \in 1 .. Len(last) : H[Len(G) + i] = last[i]
  BY <1>10
<1> HIDE DEF H
<1>12. Len(G) = st[n] - 1 /\ Len(H) = Len(F) /\ Len(F) \in Nat
  BY <1>4, <1>5, <1>6, <1>8, <1>11, SMTT(20)
<1>13. ASSUME NEW i \in 1 .. Len(F) PROVE F[i] = H[i]
  <2>1. i \in 1 .. st[n + 1] - 1
    BY <1>4
  <2>2. PICK j \in 1 .. n : i \in st[j] .. st[j + 1] - 1
    BY <1>7, <2>1
  <2>3. /\ st[j] \in Nat /\ st[j + 1] \in Nat
        /\ st[j + 1] = st[j] + Len(seqs[j]) /\ Len(seqs[j]) \in Nat
    BY <1>3
  <2>4. PICK k \in 1 .. Len(seqs[j]) : st[j] + k - 1 = i
    <3> DEFINE x == st[j]
               l == Len(seqs[j])
    <3>2. x \in Nat /\ l \in Nat /\ i \in x .. (x + l) - 1
      BY <2>2, <2>3
    <3> HIDE DEF x, l
    <3>3. i - x + 1 \in 1 .. l /\ x + (i - x + 1) - 1 = i
      BY <3>2
    <3>1. i - st[j] + 1 \in 1 .. Len(seqs[j]) /\ st[j] + (i - st[j] + 1) - 1 = i
      BY <3>3 DEF x, l
    <3> QED
      BY <3>1
  <2>5. F[i] = seqs[j][k]
    BY <1>4, <2>4
  <2>6. CASE j = n
    <3>1. k \in 1 .. Len(last) /\ seqs[j][k] = last[k]
      BY <2>4, <2>6 DEF last
    <3>2. H[Len(G) + k] = last[k]
      BY <1>11, <3>1
    <3>3. Len(G) + k = i
      BY <1>8, <1>12, <2>4, <2>6
    <3> QED
      BY <2>5, <3>1, <3>2, <3>3
  <2>7. CASE j # n
    <3>1. j \in 1 .. m /\ j < n /\ front[j] = seqs[j] /\ su[j] = st[j]
      BY <1>1, <2>7
    <3>2. G[st[j] + k - 1] = front[j][k]
      BY <1>5, <2>4, <3>1
    <3>3. st[j + 1] <= st[n]
      BY <1>1, <1>2, <3>1, CutGrows
    <3>4. i \in 1 .. Len(G)
      BY <1>8, <1>12, <2>2, <2>3, <3>3
    <3>5. H[i] = G[i]
      BY <1>11, <3>4
    <3> QED
      BY <2>4, <2>5, <3>1, <3>2, <3>5
  <2> QED
    BY <2>6, <2>7
<1>14. F = H
  BY <1>4, <1>11, <1>12, <1>13, SameElements
<1> QED
  BY <1>5, <1>14 DEF F, G, H, last

LEMMA FlattenLast ==
  ASSUME NEW V, NEW m \in Nat, NEW seqs \in [1 .. m + 1 -> Seq(V)]
  PROVE  /\ FlattenSeq([j \in 1 .. m |-> seqs[j]]) \in Seq(V)
         /\ FlattenSeq(seqs) = FlattenSeq([j \in 1 .. m |-> seqs[j]]) \o seqs[m + 1]
<1> DEFINE front == [j \in 1 .. m |-> seqs[j]]
           w == [j \in 1 .. m + 1 |-> Len(seqs[j])]
           v == [j \in 1 .. m |-> Len(seqs[j])]
<1>1. Lengths(w, seqs, m + 1, V)
  <2>1. \A j \in 1 .. m + 1 : Len(seqs[j]) \in Nat
    OBVIOUS
  <2> QED
    BY <2>1 DEF Lengths
<1>2. Lengths(v, front, m, V)
  <2>1. \A j \in 1 .. m : seqs[j] \in Seq(V) /\ Len(seqs[j]) \in Nat
    OBVIOUS
  <2> QED
    BY <2>1 DEF Lengths
<1>3. PICK st : Cuts(st, w, m + 1)
  <2>1. w \in [1 .. m + 1 -> Nat] /\ m + 1 \in Nat
    BY <1>1 DEF Lengths
  <2> HIDE DEF w
  <2> QED
    BY <2>1, CutExists
<1> DEFINE su == [j \in 1 .. m + 1 |-> st[j]]
<1>4. Cuts(su, v, m)
  <2>1. /\ st \in [1 .. (m + 1) + 1 -> Nat] /\ st[1] = 1
        /\ \A j \in 1 .. m + 1 : st[j + 1] = st[j] + w[j]
    BY <1>3 DEF Cuts
  <2>2. su \in [1 .. m + 1 -> Nat] /\ su[1] = 1
    BY <2>1
  <2>3. \A j \in 1 .. m : su[j + 1] = su[j] + v[j]
    BY <2>1
  <2> QED
    BY <2>2, <2>3 DEF Cuts
<1>5. /\ \A j \in 1 .. m : front[j] = seqs[j]
      /\ \A j \in 1 .. m + 1 : su[j] = st[j]
  OBVIOUS
<1> HIDE DEF w, v, su, front
<1>6. /\ FlattenSeq(front) \in Seq(V)
      /\ FlattenSeq(seqs) = FlattenSeq(front) \o seqs[m + 1]
  BY <1>1, <1>2, <1>3, <1>4, <1>5, FlattenJoin
<1> QED
  BY <1>6 DEF front

-----------------------------------------------------------------------------
(* What is selected comes in the order of its indices.                     *)
LEMMA SelectedLists ==
  ASSUME NEW V, NEW s \in Seq(V), NEW K \in SUBSET (1 .. Len(s))
  PROVE  /\ Selected(s, K) \in Seq(V)
         /\ \E at : /\ Lists(at, Len(Selected(s, K)), K)
                    /\ \A a \in 1 .. Len(Selected(s, K)) : Selected(s, K)[a] = s[at[a]]
<1> DEFINE n == Len(s)
           seqs == [i \in 1 .. n |-> IF i \in K THEN <<s[i]>> ELSE <<>>]
           w == [j \in 1 .. n |-> Len(seqs[j])]
           sel == Selected(s, K)
<1>1. n \in Nat
  OBVIOUS
<1>14. DOMAIN s = 1 .. n /\ \A i \in 1 .. n : s[i] \in V
  BY LenProperties
<1>2. sel = FlattenSeq(seqs)
  BY <1>14 DEF Selected
<1>3. ASSUME NEW i \in 1 .. n
      PROVE  /\ seqs[i] \in Seq(V)
             /\ i \in K => Len(seqs[i]) = 1 /\ seqs[i][1] = s[i]
             /\ i \notin K => Len(seqs[i]) = 0
  <2>1. s[i] \in V
    BY <1>14
  <2> QED
    BY <2>1
<1>4. seqs \in [1 .. n -> Seq(V)]
  BY <1>3
<1>5. w \in [1 .. n -> Nat]
  BY <1>3
<1>15. \A j \in 1 .. n : (j \in K => w[j] = 1) /\ (j \notin K => w[j] = 0)
  BY <1>3
<1> HIDE DEF n, seqs, sel
<1>6. PICK st : Cuts(st, w, n)
  BY <1>1, <1>5, CutExists
<1>7. /\ sel \in Seq(V) /\ Len(sel) = st[n + 1] - 1
      /\ \A j \in 1 .. n : \A k \in 1 .. Len(seqs[j]) : sel[st[j] + k - 1] = seqs[j][k]
  <2>1. Lengths(w, seqs, n, V)
    BY <1>4, <1>5 DEF Lengths
  <2> HIDE DEF w
  <2>2. /\ FlattenSeq(seqs) \in Seq(V) /\ Len(FlattenSeq(seqs)) = st[n + 1] - 1
        /\ \A j \in 1 .. n : \A k \in 1 .. Len(seqs[j]) :
             FlattenSeq(seqs)[st[j] + k - 1] = seqs[j][k]
    BY <1>1, <1>6, <2>1, FlattenAt
  <2> QED
    BY <1>2, <2>2
<1> HIDE DEF w
<1>8. /\ \A j \in 1 .. n + 1 : st[j] \in Nat /\ 1 <= st[j] /\ st[j] <= st[n + 1]
      /\ \A j \in 1 .. n : st[j + 1] = st[j] + w[j]
  BY <1>1, <1>5, <1>6, CutBounds
<1> DEFINE at == [a \in 1 .. Len(sel) |-> CHOOSE j \in 1 .. n : a \in st[j] .. st[j + 1] - 1]
<1>9. ASSUME NEW a \in 1 .. Len(sel)
      PROVE  at[a] \in K /\ st[at[a]] = a /\ sel[a] = s[at[a]]
  <2>1. a \in 1 .. st[n + 1] - 1
    BY <1>7
  <2>2. \E j \in 1 .. n : a \in st[j] .. st[j + 1] - 1
    BY <1>1, <1>5, <1>6, <2>1, CutCovers
  <2>3. PICK j \in 1 .. n : j = at[a] /\ a \in st[j] .. st[j + 1] - 1
    BY <2>2
  <2> HIDE DEF at
  <2>4. j \in K /\ st[j] = a
    <3>0. /\ j \in 1 .. n + 1 /\ j + 1 \in 1 .. n + 1
          /\ st[j] \in Nat /\ st[j + 1] \in Nat /\ st[j + 1] = st[j] + w[j]
      BY <1>1, <1>8
    <3>1. st[j] \in Nat /\ st[j + 1] = st[j] + w[j] /\ st[j] <= a /\ a < st[j + 1]
      BY <2>3, <3>0
    <3>2. j \in K
      BY <1>15, <3>1
    <3>3. w[j] = 1
      BY <1>15, <3>2
    <3> QED
      BY <3>1, <3>2, <3>3
  <2>5. Len(seqs[j]) = 1 /\ seqs[j][1] = s[j]
    BY <1>3, <2>4
  <2>6. sel[st[j] + 1 - 1] = seqs[j][1]
    BY <1>7, <2>5
  <2>7. st[j] + 1 - 1 = a
    BY <2>4
  <2> QED
    BY <2>3, <2>4, <2>5, <2>6, <2>7
<1> DEFINE len == Len(sel)
<1>10. at \in [1 .. len -> K]
  BY <1>9
<1> HIDE DEF at
<1>11. ASSUME NEW a \in 1 .. len, NEW b \in 1 .. len, a < b PROVE at[a] < at[b]
  <2>1. at[a] \in 1 .. n /\ at[b] \in 1 .. n /\ st[at[a]] = a /\ st[at[b]] = b
    BY <1>9 DEF n
  <2>2. ~ (at[b] < at[a])
    <3>1. SUFFICES ASSUME at[b] < at[a] PROVE FALSE
      OBVIOUS
    <3>2. st[at[b] + 1] <= st[at[a]]
      <4>1. at[a] \in 1 .. n + 1
        BY <1>1, <2>1
      <4> QED
        BY <1>1, <1>5, <1>6, <2>1, <3>1, <4>1, CutGrows
    <3>3. st[at[b] + 1] = b + 1
      BY <1>8, <1>9, <1>15, <2>1
    <3> QED
      BY <1>11, <2>1, <3>2, <3>3
  <2>3. at[a] # at[b]
    BY <1>11, <2>1
  <2> QED
    BY <2>1, <2>2, <2>3
<1>12. ASSUME NEW x \in K PROVE \E a \in 1 .. len : at[a] = x
  <2>1. x \in 1 .. n /\ w[x] = 1 /\ x \in 1 .. n + 1 /\ x + 1 \in 1 .. n + 1
    BY <1>1, <1>15 DEF n
  <2>2. st[x] \in Nat /\ 1 <= st[x] /\ st[x + 1] = st[x] + 1 /\ st[x + 1] <= st[n + 1]
    BY <1>8, <2>1
  <2>3. st[x] \in 1 .. len
    <3>1. len = st[n + 1] - 1 /\ st[n + 1] \in Nat
      BY <1>1, <1>7, <1>8
    <3> HIDE DEF len
    <3> QED
      BY <2>2, <3>1
  <2>4. st[at[st[x]]] = st[x] /\ at[st[x]] \in K
    BY <1>9, <2>3
  <2>5. at[st[x]] \in 1 .. n
    BY <2>4 DEF n
  <2>6. st[at[st[x]] + 1] = st[x] + 1
    BY <1>8, <1>15, <2>4, <2>5
  <2>7. st[x] \in st[x] .. st[x + 1] - 1 /\ st[x] \in st[at[st[x]]] .. st[at[st[x]] + 1] - 1
    BY <2>2, <2>4, <2>6
  <2>8. at[st[x]] = x
    BY <1>1, <1>5, <1>6, <2>1, <2>5, <2>7, CutOnce
  <2> QED
    BY <2>3, <2>8
<1>13. Lists(at, len, K)
  BY <1>10, <1>11, <1>12 DEF Lists
<1> QED
  BY <1>7, <1>9, <1>13 DEF sel

-----------------------------------------------------------------------------
(* The runs over a set of ranks, and the widths of a stream of them.       *)
RunSet(V) == [rank : V, count : Nat]

Widths(runs) == [j \in 1 .. Len(runs) |-> Width(runs[j])]

(* The stretches st of the runs make up s.                                 *)
Spans(st, runs, s) ==
  /\ Cuts(st, Widths(runs), Len(runs))
  /\ st[Len(runs) + 1] = Len(s) + 1
  /\ \A j \in 1 .. Len(runs) : \A i \in st[j] .. st[j + 1] - 1 : s[i] = runs[j].rank

LEMMA WidthsType ==
  ASSUME NEW V, NEW runs \in Seq(RunSet(V))
  PROVE  /\ Len(runs) \in Nat
         /\ Widths(runs) \in [1 .. Len(runs) -> Nat]
         /\ \A j \in 1 .. Len(runs) :
              /\ runs[j] \in RunSet(V) /\ runs[j].rank \in V /\ runs[j].count \in Nat
              /\ Widths(runs)[j] = Width(runs[j])
              /\ Width(runs[j]) \in Nat /\ 1 <= Width(runs[j])
<1>1. Len(runs) \in Nat
  OBVIOUS
<1>2. ASSUME NEW j \in 1 .. Len(runs)
      PROVE  /\ runs[j] \in RunSet(V) /\ runs[j].rank \in V /\ runs[j].count \in Nat
             /\ Width(runs[j]) \in Nat /\ 1 <= Width(runs[j])
  <2>1. runs[j] \in RunSet(V)
    BY ElementOfSeq
  <2>2. runs[j].rank \in V /\ runs[j].count \in Nat
    BY <2>1 DEF RunSet
  <2> QED
    BY <2>1, <2>2 DEF Width
<1>3. Widths(runs) \in [1 .. Len(runs) -> Nat]
  BY <1>2 DEF Widths
<1>4. \A j \in 1 .. Len(runs) : Widths(runs)[j] = Width(runs[j])
  BY DEF Widths
<1> QED
  BY <1>1, <1>2, <1>3, <1>4

(* Runs cuts a sequence where its value changes.                           *)
LEMMA RunsFit ==
  ASSUME NEW V, NEW s \in Seq(V)
  PROVE  /\ Runs(s) \in Seq(RunSet(V))
         /\ \A j \in 1 .. Len(Runs(s)) : Runs(s)[j].count # 0
         /\ \A j \in 2 .. Len(Runs(s)) : Runs(s)[j].rank # Runs(s)[j - 1].rank
         /\ \E st : Spans(st, Runs(s), s)
<1> DEFINE n == Len(s)
           starts == {i \in 1 .. n : i = 1 \/ s[i] # s[i - 1]}
           Next(i) == {k \in starts : k > i} \cup {n + 1}
           End(i) == Min(Next(i))
           cand == [i \in 1 .. n |-> [rank |-> s[i], count |-> End(i) - i]]
           runs == Selected(cand, starts)
           m == Len(runs)
<1>1. n \in Nat
  OBVIOUS
<1>2. DOMAIN s = 1 .. n /\ \A i \in 1 .. n : s[i] \in V
  BY LenProperties
<1>3. Runs(s) = runs
  BY <1>2 DEF Runs
<1>4. ASSUME NEW i \in 1 .. n
      PROVE  /\ End(i) \in Next(i) /\ \A k \in Next(i) : End(i) <= k
             /\ End(i) \in i + 1 .. n + 1
             /\ \A k \in starts : k > i => End(i) <= k
             /\ End(i) # n + 1 => End(i) \in starts
  <2>1. Next(i) \in SUBSET Nat /\ Next(i) # {} /\ Next(i) \subseteq i + 1 .. n + 1
    BY <1>1
  <2> HIDE DEF Next
  <2>2. \E x \in Next(i) : \A y \in Next(i) : x <= y
    BY <2>1, Least
  <2>3. End(i) \in Next(i) /\ \A k \in Next(i) : End(i) <= k
    BY <2>2 DEF Min
  <2> HIDE DEF End
  <2> QED
    BY <2>1, <2>3 DEF Next
<1> HIDE DEF End, Next
<1>5. \A i \in 1 .. n : End(i) - i \in Nat /\ End(i) - i # 0
  BY <1>1, <1>4
<1>6. cand \in Seq(RunSet(V)) /\ Len(cand) = n
  <2>1. \A i \in 1 .. n : [rank |-> s[i], count |-> End(i) - i] \in RunSet(V)
    BY <1>2, <1>5 DEF RunSet
  <2> QED
    BY <1>1, <2>1
<1>21. \A i \in 1 .. n : cand[i].rank = s[i] /\ cand[i].count = End(i) - i
  OBVIOUS
<1> HIDE DEF cand
<1>7. starts \in SUBSET (1 .. Len(cand))
  BY <1>6
<1> HIDE DEF starts
<1>8. /\ runs \in Seq(RunSet(V))
      /\ \E at : Lists(at, m, starts) /\ \A a \in 1 .. m : runs[a] = cand[at[a]]
  BY <1>6, <1>7, SelectedLists
<1>9. PICK at : Lists(at, m, starts) /\ \A a \in 1 .. m : runs[a] = cand[at[a]]
  BY <1>8
<1> HIDE DEF runs
<1>10. m \in Nat
  BY <1>8
<1> HIDE DEF m
<1>11. /\ \A a \in 1 .. m : at[a] \in starts /\ at[a] \in 1 .. n
       /\ \A a, b \in 1 .. m : a < b => at[a] < at[b]
       /\ \A x \in starts : \E a \in 1 .. m : at[a] = x
  BY <1>6, <1>7, <1>9 DEF Lists
<1>12. \A a \in 1 .. m : runs[a].rank = s[at[a]] /\ runs[a].count = End(at[a]) - at[a]
  BY <1>9, <1>11, <1>21
<1> DEFINE st == [j \in 1 .. m + 1 |-> IF j <= m THEN at[j] ELSE n + 1]
<1>13. st \in [1 .. m + 1 -> Nat] /\ st[m + 1] = n + 1 /\ \A j \in 1 .. m : st[j] = at[j]
  BY <1>1, <1>10, <1>11
<1> HIDE DEF st
<1>14. st[1] = 1
  <2>1. CASE n = 0
    <3>1. m = 0
      BY <1>10, <1>11, <2>1
    <3> QED
      BY <1>13, <2>1, <3>1
  <2>2. CASE n # 0
    <3>1. 1 \in starts
      BY <1>1, <2>2 DEF starts
    <3>2. PICK a \in 1 .. m : at[a] = 1
      BY <1>11, <3>1
    <3>3. 1 \in 1 .. m /\ at[1] \in 1 .. n
      BY <1>10, <1>11, <3>2
    <3>4. ~ (1 < a)
      BY <1>11, <3>2, <3>3
    <3>5. a = 1
      BY <3>2, <3>4
    <3> QED
      BY <1>13, <3>2, <3>3, <3>5
  <2> QED
    BY <2>1, <2>2
<1>15. ASSUME NEW j \in 1 .. m PROVE st[j + 1] = End(at[j])
  <2>1. at[j] \in 1 .. n
    BY <1>11
  <2>2. /\ End(at[j]) \in at[j] + 1 .. n + 1
        /\ \A k \in starts : k > at[j] => End(at[j]) <= k
        /\ End(at[j]) # n + 1 => End(at[j]) \in starts
    BY <1>4, <2>1
  <2>3. ASSUME End(at[j]) # n + 1 PROVE j # m /\ at[j + 1] <= End(at[j])
    <3>1. PICK b \in 1 .. m : at[b] = End(at[j])
      BY <1>11, <2>2, <2>3
    <3>2. at[j] < at[b]
      BY <2>1, <2>2, <3>1
    <3>3. ~ (b < j) /\ b # j
      BY <1>11, <2>1, <3>2
    <3>4. j + 1 \in 1 .. m /\ (j + 1 = b \/ j + 1 < b)
      BY <1>10, <3>1, <3>3
    <3> QED
      BY <1>11, <3>1, <3>4
  <2>4. ASSUME j # m PROVE End(at[j]) <= at[j + 1] /\ at[j + 1] \in 1 .. n
    <3>1. j + 1 \in 1 .. m /\ j < j + 1
      BY <1>10, <2>4
    <3>2. at[j + 1] \in starts /\ at[j + 1] > at[j] /\ at[j + 1] \in 1 .. n
      BY <1>11, <2>1, <3>1
    <3> QED
      BY <2>2, <3>2
  <2>5. CASE j = m
    BY <1>13, <2>3, <2>5
  <2>6. CASE j # m
    <3>1. st[j + 1] = at[j + 1] /\ at[j + 1] \in 1 .. n
      BY <1>10, <1>13, <2>4, <2>6
    <3> QED
      BY <1>1, <2>1, <2>2, <2>3, <2>4, <2>6, <3>1
  <2> QED
    BY <2>5, <2>6
<1>16. \A j \in 1 .. m : Widths(runs)[j] = runs[j].count /\ runs[j].count # 0
  BY <1>5, <1>11, <1>12 DEF Widths, Width, m
<1>17. Cuts(st, Widths(runs), m)
  <2>1. ASSUME NEW j \in 1 .. m PROVE st[j + 1] = st[j] + Widths(runs)[j]
    <3>1. /\ st[j + 1] = End(at[j]) /\ st[j] = at[j] /\ Widths(runs)[j] = End(at[j]) - at[j]
          /\ at[j] \in 1 .. n /\ End(at[j]) \in at[j] + 1 .. n + 1
      BY <1>4, <1>11, <1>12, <1>13, <1>15, <1>16
    <3> QED
      BY <1>1, <3>1
  <2> QED
    BY <1>13, <1>14, <2>1 DEF Cuts
<1>18. ASSUME NEW j \in 1 .. m, NEW i \in st[j] .. st[j + 1] - 1
       PROVE  s[i] = runs[j].rank
  <2> DEFINE a == at[j]
             T == {d \in Nat : a + d < End(a) => s[a + d] = s[a]}
  <2>1. a \in 1 .. n /\ End(a) \in a + 1 .. n + 1 /\ \A k \in starts : k > a => End(a) <= k
    BY <1>4, <1>11
  <2> HIDE DEF a
  <2>2. 0 \in T
    BY <2>1
  <2>3. ASSUME NEW d \in Nat, d \in T PROVE d + 1 \in T
    <3>1. SUFFICES ASSUME a + (d + 1) < End(a) PROVE s[a + (d + 1)] = s[a]
      OBVIOUS
    <3>2. a + d < End(a) /\ (a + (d + 1)) - 1 = a + d
      BY <2>1, <3>1
    <3>3. s[a + d] = s[a]
      BY <2>3, <3>2
    <3>4. a + (d + 1) \in 1 .. n /\ a + (d + 1) \notin starts /\ a + (d + 1) # 1
      BY <1>1, <2>1, <3>1
    <3>5. s[a + (d + 1)] = s[(a + (d + 1)) - 1]
      BY <3>4 DEF starts
    <3> QED
      BY <3>2, <3>3, <3>5
  <2> HIDE DEF T
  <2>4. Nat \subseteq T
    BY <2>2, <2>3, Induction
  <2>5. st[j] = a /\ st[j + 1] = End(a)
    BY <1>13, <1>15 DEF a
  <2>6. i - a \in T /\ a + (i - a) = i /\ i < End(a)
    BY <1>1, <2>1, <2>4, <2>5
  <2>7. s[i] = s[a]
    BY <2>6 DEF T
  <2> QED
    BY <1>12, <2>7 DEF a
<1>19. ASSUME NEW j \in 2 .. m PROVE runs[j].rank # runs[j - 1].rank
  <2>1. j \in 1 .. m /\ j - 1 \in 1 .. m /\ (j - 1) + 1 = j
    BY <1>10
  <2>2. st[j] = at[j] /\ at[j] \in starts /\ st[j - 1] = at[j - 1] /\ at[j - 1] < at[j]
    BY <1>11, <1>13, <2>1
  <2>3. at[j] \in 1 .. n /\ at[j - 1] \in 1 .. n
    BY <1>11, <2>1
  <2>4. s[at[j]] # s[at[j] - 1]
    BY <2>2, <2>3 DEF starts
  <2>5. at[j] - 1 \in st[j - 1] .. st[(j - 1) + 1] - 1
    BY <2>1, <2>2, <2>3
  <2>6. s[at[j] - 1] = runs[j - 1].rank
    BY <1>18, <2>1, <2>5
  <2> QED
    BY <1>12, <2>1, <2>4, <2>6
<1>20. Spans(st, runs, s)
  BY <1>13, <1>17, <1>18 DEF Spans, m, n
<1> QED
  BY <1>3, <1>8, <1>16, <1>19, <1>20 DEF m

(* The runs of a stream have a cut.                                        *)
LEMMA StreamCut ==
  ASSUME NEW V, NEW runs \in Seq(RunSet(V))
  PROVE  \E st : Cuts(st, Widths(runs), Len(runs))
<1>1. Len(runs) \in Nat /\ Widths(runs) \in [1 .. Len(runs) -> Nat]
  BY WidthsType
<1> QED
  BY <1>1, CutExists

(* A constant sequence.                                                    *)
LEMMA ConstantList ==
  ASSUME NEW K, NEW j \in K, NEW n \in Nat, NEW q, q = [i \in 1 .. n |-> j]
  PROVE  q \in Seq(K) /\ Len(q) = n /\ \A k \in 1 .. n : q[k] = j
<1>1. q \in [1 .. n -> K]
  OBVIOUS
<1>2. q \in Seq(K)
  BY <1>1
<1>3. DOMAIN q = 1 .. n
  BY <1>1
<1>4. Len(q) = n
  BY <1>2, <1>3, LenProperties
<1> QED
  BY <1>2, <1>4

(* Slots says which stretch an entry is in.                                *)
LEMMA SlotsAt ==
  ASSUME NEW V, NEW runs \in Seq(RunSet(V)), NEW st, Cuts(st, Widths(runs), Len(runs))
  PROVE  /\ Slots(runs) \in Seq(1 .. Len(runs))
         /\ Len(Slots(runs)) = st[Len(runs) + 1] - 1
         /\ \A j \in 1 .. Len(runs) : \A i \in st[j] .. st[j + 1] - 1 : Slots(runs)[i] = j
<1> DEFINE m == Len(runs)
           seqs == [j \in 1 .. m |-> [i \in 1 .. Width(runs[j]) |-> j]]
           w == Widths(runs)
<1>1. /\ m \in Nat /\ w \in [1 .. m -> Nat]
      /\ \A j \in 1 .. m : w[j] = Width(runs[j]) /\ Width(runs[j]) \in Nat
  BY WidthsType
<1>2. DOMAIN runs = 1 .. m
  BY LenProperties
<1>3. Slots(runs) = FlattenSeq(seqs)
  BY <1>2 DEF Slots
<1>4. ASSUME NEW j \in 1 .. m
      PROVE  /\ seqs[j] \in Seq(1 .. m) /\ Len(seqs[j]) = w[j]
             /\ \A k \in 1 .. w[j] : seqs[j][k] = j
  <2>1. w[j] = Width(runs[j]) /\ w[j] \in Nat
    BY <1>1
  <2>2. seqs[j] = [i \in 1 .. w[j] |-> j]
    BY <2>1
  <2> DEFINE q == seqs[j]
             n == w[j]
             K == 1 .. m
  <2>3. j \in K /\ n \in Nat /\ q = [i \in 1 .. n |-> j]
    BY <2>1, <2>2
  <2> HIDE DEF w, seqs, m, q, n, K
  <2>4. q \in Seq(K) /\ Len(q) = n /\ \A k \in 1 .. n : q[k] = j
    BY <2>3, ConstantList
  <2> QED
    BY <2>4 DEF q, n, K
<1>5. Lengths(w, seqs, m, 1 .. m)
  <2>1. seqs \in [1 .. m -> Seq(1 .. m)]
    BY <1>4
  <2> HIDE DEF seqs, w, m
  <2> QED
    BY <1>1, <1>4, <2>1 DEF Lengths
<1> HIDE DEF seqs
<1>6. /\ FlattenSeq(seqs) \in Seq(1 .. m)
      /\ Len(FlattenSeq(seqs)) = st[m + 1] - 1
      /\ \A j \in 1 .. m : \A k \in 1 .. Len(seqs[j]) : FlattenSeq(seqs)[st[j] + k - 1] = seqs[j][k]
  BY <1>1, <1>5, FlattenAt, SMTT(20)
<1>7. \A j \in 1 .. m : st[j] \in Nat /\ st[j + 1] = st[j] + w[j] /\ w[j] \in Nat
  <2>1. \A j \in 1 .. m : j \in 1 .. m + 1
    BY <1>1
  <2> QED
    BY <1>1, <2>1, CutBounds
<1> HIDE DEF w
<1>8. ASSUME NEW j \in 1 .. m, NEW i \in st[j] .. st[j + 1] - 1
      PROVE  FlattenSeq(seqs)[i] = j
  <2> DEFINE k == i - st[j] + 1
  <2>1. st[j] \in Nat /\ st[j + 1] = st[j] + w[j] /\ w[j] \in Nat
    BY <1>7
  <2>2. k \in 1 .. w[j] /\ st[j] + k - 1 = i
    BY <2>1
  <2> HIDE DEF k
  <2>3. k \in 1 .. Len(seqs[j]) /\ seqs[j][k] = j
    BY <1>4, <2>2
  <2>4. FlattenSeq(seqs)[st[j] + k - 1] = seqs[j][k]
    BY <1>6, <2>3
  <2> QED
    BY <2>2, <2>3, <2>4
<1> QED
  BY <1>3, <1>6, <1>8

(* An entry is in a stretch, and its slot says in which.                   *)
LEMMA SlotOf ==
  ASSUME NEW V, NEW runs \in Seq(RunSet(V)), NEW st, Cuts(st, Widths(runs), Len(runs)),
         NEW i \in 1 .. Len(Slots(runs))
  PROVE  /\ Slots(runs)[i] \in 1 .. Len(runs)
         /\ i \in st[Slots(runs)[i]] .. st[Slots(runs)[i] + 1] - 1
<1>1. Len(runs) \in Nat /\ Widths(runs) \in [1 .. Len(runs) -> Nat]
  BY WidthsType
<1>2. /\ Len(Slots(runs)) = st[Len(runs) + 1] - 1
      /\ \A j \in 1 .. Len(runs) : \A k \in st[j] .. st[j + 1] - 1 : Slots(runs)[k] = j
  BY SlotsAt
<1>3. PICK j \in 1 .. Len(runs) : i \in st[j] .. st[j + 1] - 1
  <2>1. i \in 1 .. st[Len(runs) + 1] - 1
    BY <1>2
  <2> QED
    BY <1>1, <2>1, CutCovers
<1>4. Slots(runs)[i] = j
  BY <1>2, <1>3
<1> QED
  BY <1>3, <1>4

(* What is cut into runs comes back when it is expanded, and the other way *)
(* round.                                                                  *)
LEMMA ExpandFits ==
  ASSUME NEW V, NEW runs \in Seq(RunSet(V)), NEW s \in Seq(V), NEW st
  PROVE  Spans(st, runs, s) <=>
           Cuts(st, Widths(runs), Len(runs)) /\ Expand(runs) = s
<1> DEFINE slots == Slots(runs)
           n == Len(slots)
<1>1. SUFFICES ASSUME Cuts(st, Widths(runs), Len(runs))
               PROVE  Spans(st, runs, s) <=> Expand(runs) = s
  BY DEF Spans
<1>2. /\ slots \in Seq(1 .. Len(runs)) /\ n = st[Len(runs) + 1] - 1 /\ n \in Nat
      /\ \A j \in 1 .. Len(runs) : \A i \in st[j] .. st[j + 1] - 1 : slots[i] = j
  BY <1>1, SlotsAt
<1>3. DOMAIN slots = 1 .. n
  BY <1>2, LenProperties
<1>4. Expand(runs) = [i \in 1 .. n |-> runs[slots[i]].rank]
  BY <1>3 DEF Expand
<1>5. \A i \in 1 .. n : slots[i] \in 1 .. Len(runs) /\ i \in st[slots[i]] .. st[slots[i] + 1] - 1
  BY <1>1, SlotOf
<1>6. s \in [1 .. Len(s) -> V] /\ Len(s) \in Nat
  BY LenProperties
<1>7. st[Len(runs) + 1] \in Nat
  <2>1. Len(runs) \in Nat /\ Len(runs) + 1 \in 1 .. Len(runs) + 1
    BY WidthsType
  <2> QED
    BY <1>1, <2>1 DEF Cuts
<1> HIDE DEF slots, n
<1>8. ASSUME Spans(st, runs, s) PROVE Expand(runs) = s
  <2>1. n = Len(s)
    BY <1>2, <1>6, <1>7, <1>8 DEF Spans
  <2>2. \A i \in 1 .. n : s[i] = runs[slots[i]].rank
    BY <1>5, <1>8 DEF Spans
  <2> QED
    BY <1>4, <1>6, <2>1, <2>2
<1>9. ASSUME Expand(runs) = s PROVE Spans(st, runs, s)
  <2>1. DOMAIN s = 1 .. n /\ DOMAIN s = 1 .. Len(s)
    BY <1>4, <1>6, <1>9
  <2>2. n = Len(s)
    BY <1>2, <1>6, <2>1
  <2>3. ASSUME NEW j \in 1 .. Len(runs), NEW i \in st[j] .. st[j + 1] - 1
        PROVE  s[i] = runs[j].rank
    <3>1. slots[i] = j
      BY <1>2
    <3>2. i \in 1 .. n
      <4>1. /\ Len(runs) \in Nat /\ j \in 1 .. Len(runs) + 1 /\ j + 1 \in 1 .. Len(runs) + 1
            /\ Widths(runs) \in [1 .. Len(runs) -> Nat]
        BY WidthsType
      <4>2. /\ 1 <= st[j] /\ st[j] \in Nat /\ st[j + 1] \in Nat
            /\ st[j + 1] <= st[Len(runs) + 1]
        BY <1>1, <4>1, CutBounds
      <4> QED
        BY <1>2, <1>7, <4>2
    <3> QED
      BY <1>4, <1>9, <3>1, <3>2
  <2> QED
    BY <1>1, <1>2, <1>7, <2>2, <2>3 DEF Spans
<1> QED
  BY <1>8, <1>9

(* A stretch has one length.                                               *)
LEMMA SameInterval ==
  ASSUME NEW m \in Nat, NEW n \in Nat, 1 .. m = 1 .. n
  PROVE  m = n
<1>1. m \in 1 .. m \/ m = 0
  OBVIOUS
<1>2. n \in 1 .. n \/ n = 0
  OBVIOUS
<1> QED
  BY <1>1, <1>2

(* Arithmetic on a stretch from x to y and one from z on.                  *)
LEMMA Shifted ==
  ASSUME NEW x \in Nat, NEW v \in Nat, NEW z \in Nat, NEW i \in x .. (x + v) - 1
  PROVE  /\ z + (i - x) \in z .. (z + v) - 1
         /\ x + ((z + (i - x)) - z) = i
  OBVIOUS

(* From an entry to the next one, the slot stays or moves on by one.       *)
LEMMA SlotsStep ==
  ASSUME NEW V, NEW runs \in Seq(RunSet(V)),
         NEW i \in 1 .. Len(Slots(runs)), i + 1 \in 1 .. Len(Slots(runs))
  PROVE  \/ Slots(runs)[i + 1] = Slots(runs)[i]
         \/ Slots(runs)[i + 1] = Slots(runs)[i] + 1
<1> DEFINE m == Len(runs)
           slots == Slots(runs)
           w == Widths(runs)
           j == slots[i]
           k == slots[i + 1]
<1>1. m \in Nat /\ w \in [1 .. m -> Nat] /\ \A a \in 1 .. m : 1 <= w[a]
  BY WidthsType
<1>2. PICK st : Cuts(st, w, m)
  BY StreamCut
<1>3. j \in 1 .. m /\ i \in st[j] .. st[j + 1] - 1
  BY <1>2, SlotOf
<1>4. k \in 1 .. m /\ i + 1 \in st[k] .. st[k + 1] - 1
  BY <1>2, SlotOf
<1> HIDE DEF m, slots, w, j, k
<1>5. /\ st[j] \in Nat /\ st[j + 1] \in Nat /\ st[k] \in Nat /\ st[k + 1] \in Nat
  <2>1. j \in 1 .. m + 1 /\ j + 1 \in 1 .. m + 1 /\ k \in 1 .. m + 1 /\ k + 1 \in 1 .. m + 1
    BY <1>1, <1>3, <1>4
  <2> QED
    BY <1>1, <1>2, <2>1, CutBounds
<1>6. ~ (k < j)
  <2>1. SUFFICES ASSUME k < j PROVE FALSE
    OBVIOUS
  <2>2. j \in 1 .. m + 1
    BY <1>1, <1>3
  <2>3. st[k + 1] <= st[j]
    BY <1>1, <1>2, <1>4, <2>1, <2>2, CutGrows
  <2> QED
    BY <1>3, <1>4, <1>5, <2>3
<1>7. ~ (j + 1 < k)
  <2>1. SUFFICES ASSUME j + 1 < k PROVE FALSE
    OBVIOUS
  <2>2. k \in 1 .. m + 1 /\ j + 1 \in 1 .. m /\ (j + 1) + 1 \in 1 .. m + 1
    BY <1>1, <1>3, <1>4, <2>1
  <2>3. st[(j + 1) + 1] <= st[k]
    BY <1>1, <1>2, <2>1, <2>2, CutGrows
  <2>4. st[(j + 1) + 1] = st[j + 1] + w[j + 1] /\ 1 <= w[j + 1] /\ w[j + 1] \in Nat
        /\ st[(j + 1) + 1] \in Nat
    BY <1>1, <1>2, <2>2, CutBounds
  <2> DEFINE x == st[j + 1]
             y == st[(j + 1) + 1]
             z == st[k]
             v == w[j + 1]
  <2>5. /\ x \in Nat /\ y \in Nat /\ z \in Nat /\ v \in Nat
        /\ y <= z /\ y = x + v /\ 1 <= v
    BY <1>5, <2>3, <2>4
  <2>6. i <= x - 1 /\ z <= i + 1 /\ i \in Int
    BY <1>3, <1>4, <1>5
  <2> HIDE DEF x, y, z, v
  <2> QED
    BY <2>5, <2>6
<1>8. j \in Nat /\ k \in Nat
  BY <1>3, <1>4
<1>9. k = j \/ k = j + 1
  BY <1>6, <1>7, <1>8
<1> QED
  BY <1>9 DEF slots, j, k

-----------------------------------------------------------------------------
(* The values that r has along s.                                          *)
Values(r, s) == [j \in DOMAIN s |-> r[s[j]]]

(* What is selected from the values along s are the values along what is   *)
(* selected from s.                                                        *)
LEMMA SelectedMap ==
  ASSUME NEW V, NEW s \in Seq(V), NEW r, NEW K \in SUBSET (1 .. Len(s))
  PROVE  Selected(Values(r, s), K) = Values(r, Selected(s, K))
<1> USE DEF Values
<1> DEFINE W == {r[s[j]] : j \in 1 .. Len(s)}
           e == [j \in DOMAIN s |-> r[s[j]]]
           m == Len(Selected(s, K))
           n == Len(Selected(e, K))
<1>1. DOMAIN s = 1 .. Len(s) /\ Len(s) \in Nat /\ \A j \in 1 .. Len(s) : s[j] \in V
  BY LenProperties
<1>2. e \in Seq(W) /\ Len(e) = Len(s)
  <2>1. e \in [1 .. Len(s) -> W]
    BY <1>1
  <2>2. e \in Seq(W)
    BY <1>1, <2>1
  <2>3. DOMAIN e = 1 .. Len(s)
    BY <1>1
  <2> QED
    BY <1>1, <2>2, <2>3, LenProperties
<1>3. /\ Selected(s, K) \in Seq(V)
      /\ \E at : Lists(at, m, K) /\ \A a \in 1 .. m : Selected(s, K)[a] = s[at[a]]
  BY SelectedLists
<1>4. \A j \in 1 .. Len(s) : e[j] = r[s[j]]
  BY <1>1
<1> HIDE DEF e
<1>5. /\ Selected(e, K) \in Seq(W)
      /\ \E at : Lists(at, n, K) /\ \A a \in 1 .. n : Selected(e, K)[a] = e[at[a]]
  <2>1. K \in SUBSET (1 .. Len(e))
    BY <1>2
  <2> QED
    BY <1>2, <2>1, SelectedLists
<1>6. PICK at : Lists(at, m, K) /\ \A a \in 1 .. m : Selected(s, K)[a] = s[at[a]]
  BY <1>3
<1>7. PICK by : Lists(by, n, K) /\ \A a \in 1 .. n : Selected(e, K)[a] = e[by[a]]
  BY <1>5
<1>8. m \in Nat /\ DOMAIN Selected(s, K) = 1 .. m
  BY <1>3, LenProperties
<1>9. n \in Nat /\ DOMAIN Selected(e, K) = 1 .. n /\ Selected(e, K) \in [1 .. n -> W]
  BY <1>5, LenProperties
<1>10. m = n /\ at = by
  <2>1. K \in SUBSET Nat
    BY <1>1
  <2> HIDE DEF m, n
  <2> QED
    BY <1>6, <1>7, <1>8, <1>9, <2>1, AscendingUnique
<1>11. ASSUME NEW a \in 1 .. m PROVE Selected(e, K)[a] = r[Selected(s, K)[a]]
  <2>1. at[a] \in 1 .. Len(s)
    BY <1>6 DEF Lists
  <2> QED
    BY <1>4, <1>6, <1>7, <1>10, <2>1
<1>12. Selected(e, K) = [a \in 1 .. m |-> r[Selected(s, K)[a]]]
  BY <1>9, <1>10, <1>11
<1> QED
  BY <1>8, <1>12 DEF e

(* The runs that are kept cover the entries of theirs that are kept.       *)
LEMMA FilterExpand ==
  ASSUME NEW V, NEW runs \in Seq(RunSet(V)), NEW J \in SUBSET (1 .. Len(runs))
  PROVE  Expand(Selected(runs, J)) =
           Selected(Expand(runs), {i \in 1 .. Len(Slots(runs)) : Slots(runs)[i] \in J})
<1> DEFINE m == Len(runs)
           sub == Selected(runs, J)
           q == Len(sub)
           slots == Slots(runs)
           subslots == Slots(sub)
           n == Len(slots)
           h == Len(subslots)
           K == {i \in 1 .. n : slots[i] \in J}
           e == Expand(runs)
<1>1. m \in Nat /\ Widths(runs) \in [1 .. m -> Nat]
      /\ \A j \in 1 .. m : Widths(runs)[j] = Width(runs[j]) /\ runs[j].rank \in V
  BY WidthsType
<1>2. sub \in Seq(RunSet(V)) /\ \E at : Lists(at, q, J) /\ \A a \in 1 .. q : sub[a] = runs[at[a]]
  BY SelectedLists
<1>3. PICK at : Lists(at, q, J) /\ \A a \in 1 .. q : sub[a] = runs[at[a]]
  BY <1>2
<1>4. q \in Nat /\ Widths(sub) \in [1 .. q -> Nat]
      /\ \A a \in 1 .. q : Widths(sub)[a] = Width(sub[a])
  BY <1>2, WidthsType
<1>5. PICK st : Cuts(st, Widths(runs), m)
  BY StreamCut
<1>6. PICK to : Cuts(to, Widths(sub), q)
  BY <1>2, StreamCut
<1>7. /\ slots \in Seq(1 .. m) /\ n = st[m + 1] - 1 /\ n \in Nat /\ DOMAIN slots = 1 .. n
      /\ \A j \in 1 .. m : \A i \in st[j] .. st[j + 1] - 1 : slots[i] = j
  BY <1>5, SlotsAt, LenProperties
<1>8. \A i \in 1 .. n : slots[i] \in 1 .. m /\ i \in st[slots[i]] .. st[slots[i] + 1] - 1
  BY <1>5, SlotOf
<1>9. /\ subslots \in Seq(1 .. q) /\ h = to[q + 1] - 1 /\ h \in Nat /\ DOMAIN subslots = 1 .. h
      /\ \A a \in 1 .. q : \A i \in to[a] .. to[a + 1] - 1 : subslots[i] = a
  BY <1>2, <1>6, SlotsAt, LenProperties
<1>10. \A i \in 1 .. h : subslots[i] \in 1 .. q /\ i \in to[subslots[i]] .. to[subslots[i] + 1] - 1
  BY <1>2, <1>6, SlotOf
<1>11. e = [i \in 1 .. n |-> runs[slots[i]].rank]
  BY <1>7 DEF Expand
<1>12. e \in Seq(V) /\ Len(e) = n
  <2>1. e \in [1 .. n -> V]
    BY <1>1, <1>8, <1>11
  <2>2. e \in Seq(V)
    BY <1>7, <2>1
  <2>3. DOMAIN e = 1 .. n
    BY <1>11
  <2> QED
    BY <1>7, <2>2, <2>3, LenProperties
<1>13. Expand(sub) = [i \in 1 .. h |-> sub[subslots[i]].rank]
  BY <1>9 DEF Expand
<1>14. \A a \in 1 .. q : /\ at[a] \in J /\ at[a] \in 1 .. m
                         /\ Widths(sub)[a] = Widths(runs)[at[a]]
  BY <1>1, <1>3, <1>4 DEF Lists
<1>15. /\ \A j \in 1 .. m : /\ st[j] \in Nat /\ 1 <= st[j] /\ st[j + 1] \in Nat
                            /\ st[j + 1] = st[j] + Widths(runs)[j]
                            /\ st[j + 1] <= st[m + 1]
       /\ st[m + 1] \in Nat
  <2>1. \A j \in 1 .. m : j \in 1 .. m + 1 /\ j + 1 \in 1 .. m + 1
    BY <1>1
  <2>2. m + 1 \in 1 .. m + 1
    BY <1>1
  <2> QED
    BY <1>1, <1>5, <2>1, <2>2, CutBounds
<1>16. \A a \in 1 .. q : /\ to[a] \in Nat /\ 1 <= to[a] /\ to[a + 1] \in Nat
                         /\ to[a + 1] = to[a] + Widths(sub)[a] /\ to[a + 1] <= to[q + 1]
  <2>1. \A a \in 1 .. q : a \in 1 .. q + 1 /\ a + 1 \in 1 .. q + 1
    BY <1>4
  <2> QED
    BY <1>4, <1>6, <2>1, CutBounds
<1>17. to[q + 1] \in Nat
  <2>1. q + 1 \in 1 .. q + 1
    BY <1>4
  <2> QED
    BY <1>4, <1>6, <2>1, CutBounds
<1> DEFINE spot == [i \in 1 .. h |-> st[at[subslots[i]]] + (i - to[subslots[i]])]
<1> HIDE DEF sub, q, slots, subslots, n, h, e, m
<1>18. ASSUME NEW i \in 1 .. h
       PROVE  /\ spot[i] \in st[at[subslots[i]]] .. st[at[subslots[i]] + 1] - 1
              /\ spot[i] \in 1 .. n /\ slots[spot[i]] = at[subslots[i]] /\ spot[i] \in K
  <2> DEFINE a == subslots[i]
  <2>1. a \in 1 .. q /\ i \in to[a] .. to[a + 1] - 1
    BY <1>10
  <2>2. at[a] \in J /\ at[a] \in 1 .. m /\ Widths(sub)[a] = Widths(runs)[at[a]]
    BY <1>14, <2>1
  <2>3. Widths(runs)[at[a]] \in Nat
    BY <1>1, <2>2
  <2>4. /\ st[at[a]] \in Nat /\ 1 <= st[at[a]] /\ st[at[a] + 1] \in Nat
        /\ st[at[a] + 1] = st[at[a]] + Widths(runs)[at[a]]
        /\ st[at[a] + 1] <= st[m + 1]
    BY <1>15, <2>2
  <2>5. to[a] \in Nat /\ to[a + 1] = to[a] + Widths(sub)[a]
    BY <1>16, <2>1
  <2>6. spot[i] = st[at[a]] + (i - to[a])
    OBVIOUS
  <2> HIDE DEF spot, a
  <2> DEFINE x == to[a]
             v == Widths(runs)[at[a]]
             z == st[at[a]]
  <2>10. x \in Nat /\ v \in Nat /\ z \in Nat /\ to[a + 1] = x + v /\ st[at[a] + 1] = z + v
    BY <2>2, <2>3, <2>4, <2>5
  <2>11. i \in x .. (x + v) - 1
    BY <2>1, <2>10
  <2>12. z + (i - x) \in z .. (z + v) - 1
    <3> HIDE DEF x, v, z
    <3> QED
      BY <2>10, <2>11, Shifted
  <2>7. spot[i] \in st[at[a]] .. st[at[a] + 1] - 1
    <3>1. spot[i] = z + (i - x)
      BY <2>6
    <3>2. spot[i] \in z .. (z + v) - 1
      BY <2>12, <3>1
    <3> QED
      BY <2>10, <3>2
  <2>8. spot[i] \in 1 .. n
    BY <1>7, <1>15, <2>4, <2>7
  <2>9. slots[spot[i]] = at[a]
    BY <1>7, <2>2, <2>7
  <2> QED
    BY <2>2, <2>7, <2>8, <2>9 DEF a
<1>19. ASSUME NEW i \in 1 .. h, NEW k \in 1 .. h, i < k PROVE spot[i] < spot[k]
  <2> DEFINE a == subslots[i]
             b == subslots[k]
  <2>1. a \in 1 .. q /\ i \in to[a] .. to[a + 1] - 1 /\ b \in 1 .. q /\ k \in to[b] .. to[b + 1] - 1
    BY <1>10
  <2>2. spot[i] = st[at[a]] + (i - to[a]) /\ spot[k] = st[at[b]] + (k - to[b])
    OBVIOUS
  <2>3. spot[i] \in st[at[a]] .. st[at[a] + 1] - 1 /\ spot[k] \in st[at[b]] .. st[at[b] + 1] - 1
    BY <1>18
  <2>4. at[a] \in 1 .. m /\ at[b] \in 1 .. m
    BY <1>14, <2>1
  <2>5. /\ st[at[a]] \in Nat /\ st[at[a] + 1] \in Nat /\ st[at[b]] \in Nat /\ st[at[b] + 1] \in Nat
    BY <1>15, <2>4
  <2>6. to[a] \in Nat /\ to[b] \in Nat /\ to[a + 1] \in Nat /\ to[b + 1] \in Nat
    BY <1>16, <2>1
  <2> HIDE DEF spot, a, b
  <2>7. CASE a = b
    <3> DEFINE x == to[a]
               z == st[at[a]]
    <3>1. x \in Nat /\ z \in Nat /\ spot[i] = z + (i - x) /\ spot[k] = z + (k - x)
      BY <2>2, <2>5, <2>6, <2>7
    <3>2. i \in Int /\ k \in Int /\ i < k
      BY <1>9, <1>19
    <3> HIDE DEF x, z
    <3> QED
      BY <3>1, <3>2
  <2>8. CASE a < b
    <3>1. at[a] < at[b]
      BY <1>3, <2>1, <2>8 DEF Lists
    <3>2. at[b] \in 1 .. m + 1
      BY <1>1, <2>4
    <3>3. st[at[a] + 1] <= st[at[b]]
      BY <1>1, <1>5, <2>4, <3>1, <3>2, CutGrows
    <3> QED
      BY <2>3, <2>5, <3>3
  <2>9. CASE b < a
    <3>1. a \in 1 .. q + 1
      BY <1>4, <2>1
    <3>2. to[b + 1] <= to[a]
      BY <1>4, <1>6, <2>1, <2>9, <3>1, CutGrows
    <3> DEFINE x == to[a]
               y == to[b + 1]
    <3>3. x \in Nat /\ y \in Nat /\ y <= x /\ x <= i /\ k <= y - 1
      BY <2>1, <2>6, <3>2
    <3>4. i \in Int /\ k \in Int /\ i < k
      BY <1>9, <1>19
    <3> HIDE DEF x, y
    <3> QED
      BY <3>3, <3>4
  <2>10. a \in Nat /\ b \in Nat
    BY <2>1
  <2> QED
    BY <2>7, <2>8, <2>9, <2>10
<1>20. ASSUME NEW x \in K PROVE \E i \in 1 .. h : spot[i] = x
  <2>1. x \in 1 .. n /\ slots[x] \in J
    OBVIOUS
  <2>2. PICK a \in 1 .. q : at[a] = slots[x]
    BY <1>3, <2>1 DEF Lists
  <2>3. at[a] \in 1 .. m /\ x \in st[at[a]] .. st[at[a] + 1] - 1
    BY <1>8, <2>1, <2>2
  <2> DEFINE i == to[a] + (x - st[at[a]])
  <2>4. /\ st[at[a]] \in Nat /\ st[at[a] + 1] = st[at[a]] + Widths(runs)[at[a]]
        /\ Widths(runs)[at[a]] \in Nat /\ Widths(sub)[a] = Widths(runs)[at[a]]
    BY <1>1, <1>14, <1>15, <2>3
  <2>5. /\ to[a] \in Nat /\ 1 <= to[a] /\ to[a + 1] \in Nat
        /\ to[a + 1] = to[a] + Widths(sub)[a] /\ to[a + 1] <= to[q + 1]
    BY <1>16
  <2>6. i \in to[a] .. to[a + 1] - 1 /\ st[at[a]] + (i - to[a]) = x
    <3> DEFINE u == st[at[a]]
               v == Widths(runs)[at[a]]
               z == to[a]
    <3>1. u \in Nat /\ v \in Nat /\ z \in Nat /\ to[a + 1] = z + v /\ st[at[a] + 1] = u + v
      BY <2>4, <2>5
    <3>2. x \in u .. (u + v) - 1
      BY <2>3, <3>1
    <3>3. z + (x - u) \in z .. (z + v) - 1 /\ u + ((z + (x - u)) - z) = x
      <4> HIDE DEF u, v, z
      <4> QED
        BY <3>1, <3>2, Shifted
    <3> QED
      BY <3>1, <3>3
  <2> HIDE DEF i
  <2>7. i \in 1 .. h
    BY <1>9, <1>17, <2>5, <2>6
  <2>8. subslots[i] = a
    BY <1>9, <2>6
  <2> QED
    BY <2>6, <2>7, <2>8
<1>21. Lists(spot, h, K)
  <2>1. spot \in [1 .. h -> K]
    BY <1>18
  <2> HIDE DEF spot, K
  <2> QED
    BY <1>19, <1>20, <2>1 DEF Lists
<1>22. /\ Selected(e, K) \in Seq(V)
       /\ \E by : Lists(by, Len(Selected(e, K)), K)
                  /\ \A a \in 1 .. Len(Selected(e, K)) : Selected(e, K)[a] = e[by[a]]
  <2>1. K \in SUBSET (1 .. Len(e))
    BY <1>12
  <2> HIDE DEF K
  <2> QED
    BY <1>12, <2>1, SelectedLists
<1>23. PICK by : Lists(by, Len(Selected(e, K)), K)
                 /\ \A a \in 1 .. Len(Selected(e, K)) : Selected(e, K)[a] = e[by[a]]
  BY <1>22
<1>24. Len(Selected(e, K)) \in Nat /\ Selected(e, K) \in [1 .. Len(Selected(e, K)) -> V]
  BY <1>22, LenProperties
<1>25. h = Len(Selected(e, K)) /\ spot = by
  <2>1. K \in SUBSET Nat
    BY <1>7
  <2>2. h \in Nat
    BY <1>9
  <2> HIDE DEF K, spot
  <2> QED
    BY <1>21, <1>23, <1>24, <2>1, <2>2, AscendingUnique
<1>26. ASSUME NEW i \in 1 .. h PROVE Selected(e, K)[i] = sub[subslots[i]].rank
  <2>1. Selected(e, K)[i] = e[spot[i]]
    BY <1>23, <1>25
  <2>2. e[spot[i]] = runs[at[subslots[i]]].rank
    BY <1>11, <1>18
  <2> QED
    BY <1>3, <1>10, <2>1, <2>2
<1>27. Selected(e, K) = Expand(sub)
  <2> HIDE DEF K, spot
  <2> QED
    BY <1>13, <1>24, <1>25, <1>26
<1> QED
  BY <1>27 DEF sub, e, n, slots

-----------------------------------------------------------------------------
(* The runs of a stream come in the order of their ranks.                  *)
Rising(runs) == \A j \in 2 .. Len(runs) : runs[j - 1].rank < runs[j].rank

TripleSet == [current : Nat, next : Nat, count : Nat]

Counts(triples) == [j \in 1 .. Len(triples) |-> triples[j].count]

(* The stretches st of the triples say the ranks e and the next ranks z of *)
(* a chunk's entries, and two triples in a row are not of the same pair.   *)
Carries(st, triples, e, z) ==
  /\ triples \in Seq(TripleSet)
  /\ Cuts(st, Counts(triples), Len(triples))
  /\ st[Len(triples) + 1] = Len(z) + 1
  /\ \A j \in 1 .. Len(triples) :
       /\ triples[j].count # 0
       /\ \A i \in st[j] .. st[j + 1] - 1 : triples[j].current = e[i] /\ triples[j].next = z[i]
  /\ \A j \in 2 .. Len(triples) :
       \/ triples[j - 1].current < triples[j].current
       \/ triples[j - 1].current = triples[j].current /\ triples[j - 1].next # triples[j].next

(* Where currents covers what nexts covers the walk ends with nexts.       *)
LEMMA WalkedTogether ==
  ASSUME NEW cur, NEW nxt, DOMAIN Slots(nxt) \subseteq DOMAIN Slots(cur)
  PROVE  LET ov == Runs([i \in DOMAIN Slots(nxt) |-> <<Slots(cur)[i], Slots(nxt)[i]>>])
         IN  Triples(cur, nxt) =
               [j \in DOMAIN ov |->
                 [current |-> cur[ov[j].rank[1]].rank,
                  next    |-> nxt[ov[j].rank[2]].rank,
                  count   |-> ov[j].count]]
<1>1. DOMAIN Slots(nxt) \cap DOMAIN Slots(cur) = DOMAIN Slots(nxt)
  OBVIOUS
<1> QED
  BY <1>1 DEF Triples

(* next_triplet loses no entry and invents none: what it returns carries   *)
(* the two streams it walks.                                               *)
LEMMA TriplesAt ==
  ASSUME NEW cur \in Seq(RunSet(Nat)), Rising(cur), NEW z \in Seq(Nat),
         NEW e \in Seq(Nat), Expand(cur) = e, Len(e) = Len(z)
  PROVE  \E st : Carries(st, Triples(cur, Runs(z)), e, z)
<1> DEFINE c == Slots(cur)
           nx == Runs(z)
           n == Slots(nx)
           N == Len(z)
           pairs == [i \in DOMAIN n |-> <<c[i], n[i]>>]
           W == (1 .. Len(cur)) \X (1 .. Len(nx))
           ov == Runs(pairs)
           m == Len(ov)
           tr == Triples(cur, nx)
<1>1. N \in Nat /\ z \in [1 .. N -> Nat] /\ e \in [1 .. N -> Nat] /\ DOMAIN e = 1 .. N
  BY LenProperties
<1>2. /\ nx \in Seq(RunSet(Nat))
      /\ \A j \in 2 .. Len(nx) : nx[j].rank # nx[j - 1].rank
      /\ \E st : Spans(st, nx, z)
  BY RunsFit
<1>3. Expand(nx) = z
  BY <1>2, ExpandFits
<1>4. PICK sc : Cuts(sc, Widths(cur), Len(cur))
  BY StreamCut
<1>5. PICK sn : Cuts(sn, Widths(nx), Len(nx))
  BY <1>2, StreamCut
<1>6. /\ DOMAIN c = 1 .. Len(c) /\ Len(c) \in Nat
      /\ \A i \in 1 .. Len(c) : c[i] \in 1 .. Len(cur)
  BY <1>4, SlotsAt, SlotOf, LenProperties
<1>7. /\ DOMAIN n = 1 .. Len(n) /\ Len(n) \in Nat
      /\ \A i \in 1 .. Len(n) : n[i] \in 1 .. Len(nx)
  <2>1. n \in Seq(1 .. Len(nx))
    BY <1>2, <1>5, SlotsAt
  <2> HIDE DEF n, nx
  <2> QED
    BY <2>1, LenProperties
<1>8. /\ Len(c) = N /\ DOMAIN c = 1 .. N
      /\ \A i \in 1 .. N : e[i] = cur[c[i]].rank
  <2>1. e = [i \in 1 .. Len(c) |-> cur[c[i]].rank]
    BY <1>6 DEF Expand
  <2>2. 1 .. Len(c) = 1 .. N
    BY <1>1, <2>1
  <2>3. Len(c) = N
    BY <1>1, <1>6, <2>2, SameInterval
  <2> QED
    BY <1>6, <2>1, <2>3
<1>9. /\ Len(n) = N /\ DOMAIN n = 1 .. N
      /\ \A i \in 1 .. N : z[i] = nx[n[i]].rank
  <2>1. z = [i \in 1 .. Len(n) |-> nx[n[i]].rank]
    BY <1>3, <1>7 DEF Expand
  <2>2. 1 .. Len(n) = 1 .. N
    BY <1>1, <2>1
  <2>3. Len(n) = N
    BY <1>1, <1>7, <2>2, SameInterval
  <2> QED
    BY <1>7, <2>1, <2>3
<1>10. \A i \in 1 .. N : c[i] \in 1 .. Len(cur) /\ n[i] \in 1 .. Len(nx)
  BY <1>6, <1>7, <1>8, <1>9
<1>11. Len(cur) \in Nat /\ \A a \in 1 .. Len(cur) : cur[a].rank \in Nat
  BY WidthsType
<1>12. Len(nx) \in Nat /\ \A a \in 1 .. Len(nx) : nx[a].rank \in Nat
  BY <1>2, WidthsType
<1>13. \A i \in 1 .. N : i + 1 \in 1 .. N => c[i + 1] = c[i] \/ c[i + 1] = c[i] + 1
  BY <1>8, SlotsStep
<1>14. \A i \in 1 .. N : i + 1 \in 1 .. N => n[i + 1] = n[i] \/ n[i + 1] = n[i] + 1
  BY <1>2, <1>9, SlotsStep
<1>15. tr = [j \in DOMAIN ov |->
               [current |-> cur[ov[j].rank[1]].rank,
                next    |-> nx[ov[j].rank[2]].rank,
                count   |-> ov[j].count]]
  <2>1. DOMAIN n \subseteq DOMAIN c
    BY <1>8, <1>9
  <2> QED
    BY <2>1, WalkedTogether
<1> HIDE DEF c, n, nx, N, tr
<1>16. /\ pairs \in Seq(W) /\ Len(pairs) = N
       /\ \A i \in 1 .. N : pairs[i] = <<c[i], n[i]>>
  <2>1. pairs \in [1 .. N -> W]
    BY <1>9, <1>10
  <2>2. pairs \in Seq(W)
    BY <1>1, <2>1
  <2>3. DOMAIN pairs = 1 .. N
    BY <1>9
  <2> QED
    BY <1>1, <1>9, <2>2, <2>3, LenProperties, SMTT(20)
<1> HIDE DEF pairs
<1>17. /\ ov \in Seq(RunSet(W))
       /\ \A j \in 1 .. m : ov[j].count # 0
       /\ \A j \in 2 .. m : ov[j].rank # ov[j - 1].rank
       /\ \E st : Spans(st, ov, pairs)
  <2> HIDE DEF W
  <2> QED
    BY <1>16, RunsFit
<1>18. PICK st : Spans(st, ov, pairs)
  BY <1>17
<1>19. /\ m \in Nat /\ DOMAIN ov = 1 .. m
       /\ \A j \in 1 .. m : /\ ov[j].rank \in W /\ ov[j].count \in Nat
                            /\ Widths(ov)[j] = ov[j].count
  <2> HIDE DEF W
  <2> QED
    BY <1>17, WidthsType, LenProperties DEF Width
<1> HIDE DEF ov, m
<1>20. \A j \in 1 .. m : /\ tr[j].current = cur[ov[j].rank[1]].rank
                         /\ tr[j].next = nx[ov[j].rank[2]].rank
                         /\ tr[j].count = ov[j].count
                         /\ tr[j] \in TripleSet
  <2> SUFFICES ASSUME NEW j \in 1 .. m
               PROVE  /\ tr[j].current = cur[ov[j].rank[1]].rank
                      /\ tr[j].next = nx[ov[j].rank[2]].rank
                      /\ tr[j].count = ov[j].count
                      /\ tr[j] \in TripleSet
    OBVIOUS
  <2>1. tr[j] = [current |-> cur[ov[j].rank[1]].rank,
                 next    |-> nx[ov[j].rank[2]].rank,
                 count   |-> ov[j].count]
    BY <1>15, <1>19
  <2>2. ov[j].rank[1] \in 1 .. Len(cur) /\ ov[j].rank[2] \in 1 .. Len(nx) /\ ov[j].count \in Nat
    BY <1>19
  <2>3. cur[ov[j].rank[1]].rank \in Nat /\ nx[ov[j].rank[2]].rank \in Nat
    BY <1>11, <1>12, <2>2
  <2> QED
    BY <2>1, <2>2, <2>3 DEF TripleSet
<1>21. tr \in Seq(TripleSet) /\ Len(tr) = m
  <2>1. tr \in [1 .. m -> TripleSet]
    BY <1>15, <1>19, <1>20
  <2>2. tr \in Seq(TripleSet)
    BY <1>19, <2>1
  <2>3. DOMAIN tr = 1 .. m
    BY <1>15, <1>19
  <2> QED
    BY <1>19, <2>2, <2>3, LenProperties
<1>22. Cuts(st, Counts(tr), m) /\ st[m + 1] = N + 1
  <2>1. Cuts(st, Widths(ov), m) /\ st[m + 1] = N + 1
    BY <1>16, <1>18 DEF Spans, m
  <2>2. \A j \in 1 .. m : Counts(tr)[j] = Widths(ov)[j]
    BY <1>19, <1>20, <1>21 DEF Counts
  <2> QED
    BY <2>1, <2>2 DEF Cuts
<1>23. \A j \in 1 .. m : tr[j].count # 0 /\ tr[j].count \in Nat
  BY <1>17, <1>19, <1>20 DEF m
<1>24. \A j \in 1 .. m : /\ st[j] \in Nat /\ st[j + 1] \in Nat /\ 1 <= st[j]
                         /\ st[j] < st[j + 1] /\ st[j + 1] <= N + 1
  <2> SUFFICES ASSUME NEW j \in 1 .. m
               PROVE  /\ st[j] \in Nat /\ st[j + 1] \in Nat /\ 1 <= st[j]
                      /\ st[j] < st[j + 1] /\ st[j + 1] <= N + 1
    OBVIOUS
  <2>1. Counts(tr) \in [1 .. m -> Nat] /\ Counts(tr)[j] = tr[j].count
    BY <1>21, <1>23 DEF Counts
  <2>2. j \in 1 .. m + 1 /\ j + 1 \in 1 .. m + 1
    BY <1>19
  <2>3. /\ st[j] \in Nat /\ 1 <= st[j] /\ st[j + 1] \in Nat /\ st[j + 1] <= st[m + 1]
        /\ st[j + 1] = st[j] + Counts(tr)[j]
    BY <1>19, <1>22, <2>1, <2>2, CutBounds
  <2> QED
    BY <1>22, <1>23, <2>1, <2>3
<1>25. ASSUME NEW j \in 1 .. m, NEW i \in st[j] .. st[j + 1] - 1
       PROVE  /\ i \in 1 .. N /\ <<c[i], n[i]>> = ov[j].rank
              /\ tr[j].current = e[i] /\ tr[j].next = z[i]
  <2>1. i \in 1 .. N
    BY <1>1, <1>24
  <2>2. pairs[i] = ov[j].rank
    BY <1>18 DEF Spans, m
  <2>3. ov[j].rank[1] = c[i] /\ ov[j].rank[2] = n[i]
    BY <1>16, <2>1, <2>2
  <2> QED
    BY <1>8, <1>9, <1>16, <1>20, <2>1, <2>2, <2>3, ZenonT(40)
<1>26. ASSUME NEW j \in 2 .. m
       PROVE  \/ tr[j - 1].current < tr[j].current
              \/ tr[j - 1].current = tr[j].current /\ tr[j - 1].next # tr[j].next
  <2> DEFINE i == st[j] - 1
             k == i + 1
  <2>1. j \in 1 .. m /\ j - 1 \in 1 .. m /\ (j - 1) + 1 = j
    BY <1>19
  <2>2. i \in st[j - 1] .. st[(j - 1) + 1] - 1 /\ k \in st[j] .. st[j + 1] - 1
    BY <1>24, <2>1
  <2> HIDE DEF i
  <2>3. /\ i \in 1 .. N /\ k \in 1 .. N
        /\ tr[j - 1].current = e[i] /\ tr[j - 1].next = z[i]
        /\ tr[j].current = e[k] /\ tr[j].next = z[k]
        /\ <<c[i], n[i]>> = ov[j - 1].rank /\ <<c[k], n[k]>> = ov[j].rank
    BY <1>25, <2>1, <2>2
  <2>4. c[k] # c[i] \/ n[k] # n[i]
    BY <1>17, <2>3 DEF m
  <2>5. /\ c[i] \in 1 .. Len(cur) /\ c[k] \in 1 .. Len(cur)
        /\ n[i] \in 1 .. Len(nx) /\ n[k] \in 1 .. Len(nx)
    BY <1>10, <2>3
  <2>6. CASE c[k] # c[i]
    <3>1. c[k] = c[i] + 1
      BY <1>13, <2>3, <2>6
    <3> HIDE DEF k
    <3> DEFINE x == c[i]
               y == c[k]
               l == Len(cur)
    <3>4. l \in Nat /\ x \in 1 .. l /\ y \in 1 .. l /\ y = x + 1
      BY <1>11, <2>5, <3>1
    <3>2. y \in 2 .. l /\ y - 1 = x
      <4> HIDE DEF x, y, l
      <4> QED
        BY <3>4
    <3>3. cur[c[i]].rank < cur[c[k]].rank
      BY <3>2 DEF Rising
    <3> QED
      BY <1>8, <2>3, <3>3
  <2>7. CASE c[k] = c[i]
    <3>1. n[k] = n[i] + 1
      BY <1>14, <2>3, <2>4, <2>7
    <3> HIDE DEF k
    <3>2. n[k] \in 2 .. Len(nx) /\ n[k] - 1 = n[i]
      BY <1>12, <2>5, <3>1
    <3>3. nx[n[i]].rank # nx[n[k]].rank
      BY <1>2, <3>2 DEF nx
    <3> QED
      BY <1>8, <1>9, <2>3, <2>7, <3>3
  <2> QED
    BY <2>6, <2>7
<1>27. Carries(st, tr, e, z)
  BY <1>21, <1>22, <1>23, <1>25, <1>26 DEF Carries, N
<1> QED
  BY <1>27 DEF tr, nx

-----------------------------------------------------------------------------
(* The entries of a chunk that triple x stands for, by where the stretches *)
(* st put them and what at calls them.                                     *)
StandsFor(st, at, x) ==
  {at[x[1]][i] : i \in st[x[1]][x[2]] .. st[x[1]][x[2] + 1] - 1}

(* The triples of all chunks stand for the elements of P, once each.       *)
Spread(triples, st, at, P) ==
  /\ \A c \in DOMAIN triples :
       /\ triples[c] \in Seq(TripleSet)
       /\ Cuts(st[c], Counts(triples[c]), Len(triples[c]))
       /\ \A i \in 1 .. st[c][Len(triples[c]) + 1] - 1 : at[c][i] \in P
  /\ \A c, d \in DOMAIN triples :
       \A i \in 1 .. st[c][Len(triples[c]) + 1] - 1, k \in 1 .. st[d][Len(triples[d]) + 1] - 1 :
         at[c][i] = at[d][k] => c = d /\ i = k

(* The stretch of a triple, and what its chunk's streams say of it.        *)
LEMMA TripleStretch ==
  ASSUME NEW triples, NEW st, NEW at, NEW P, Spread(triples, st, at, P),
         NEW x \in TripleIds(triples)
  PROVE  /\ x = <<x[1], x[2]>>
         /\ x[1] \in DOMAIN triples
         /\ x[2] \in 1 .. Len(triples[x[1]])
         /\ triples[x[1]][x[2]] \in TripleSet
         /\ triples[x[1]][x[2]].count \in Nat
         /\ st[x[1]][x[2]] \in Nat /\ 1 <= st[x[1]][x[2]]
         /\ st[x[1]][x[2] + 1] = st[x[1]][x[2]] + triples[x[1]][x[2]].count
         /\ st[x[1]][x[2] + 1] <= st[x[1]][Len(triples[x[1]]) + 1]
         /\ st[x[1]][Len(triples[x[1]]) + 1] \in Nat
         /\ Len(triples[x[1]]) \in Nat
         /\ Counts(triples[x[1]]) \in [1 .. Len(triples[x[1]]) -> Nat]
<1>1. PICK c \in DOMAIN triples : x \in {c} \X DOMAIN triples[c]
  BY DEF TripleIds
<1>2. x = <<x[1], x[2]>> /\ x[1] = c /\ x[2] \in DOMAIN triples[c]
  BY <1>1
<1> DEFINE s == triples[c]
           m == Len(s)
           j == x[2]
<1>3. s \in Seq(TripleSet) /\ Cuts(st[c], Counts(s), m)
  BY DEF Spread
<1>4. m \in Nat /\ DOMAIN s = 1 .. m /\ \A k \in 1 .. m : s[k] \in TripleSet /\ s[k].count \in Nat
  <2> HIDE DEF s
  <2>1. m \in Nat /\ DOMAIN s = 1 .. m
    BY <1>3, LenProperties
  <2>2. \A k \in 1 .. m : s[k] \in TripleSet
    BY <1>3, ElementOfSeq
  <2> QED
    BY <2>1, <2>2 DEF TripleSet
<1>5. j \in 1 .. m
  BY <1>2, <1>4
<1> HIDE DEF m, s, j
<1>6. Counts(s) \in [1 .. m -> Nat] /\ Counts(s)[j] = s[j].count
  BY <1>4, <1>5 DEF Counts, m
<1>7. j \in 1 .. m + 1 /\ j + 1 \in 1 .. m + 1 /\ m + 1 \in 1 .. m + 1
  BY <1>4, <1>5
<1>8. /\ st[c][j] \in Nat /\ 1 <= st[c][j] /\ st[c][j + 1] = st[c][j] + Counts(s)[j]
      /\ st[c][j + 1] <= st[c][m + 1] /\ st[c][m + 1] \in Nat
  BY <1>3, <1>4, <1>5, <1>6, <1>7, CutBounds
<1>9. /\ s[j] \in TripleSet /\ s[j].count \in Nat
      /\ st[c][j + 1] = st[c][j] + s[j].count
  BY <1>4, <1>5, <1>6, <1>8
<1> QED
  BY <1>2, <1>4, <1>5, <1>6, <1>8, <1>9 DEF s, m, j

(* The entries that merge adds up for some triples are those they stand    *)
(* for.                                                                    *)
LEMMA EntriesCount ==
  ASSUME NEW triples, NEW st, NEW at, NEW P, IsFiniteSet(P), Spread(triples, st, at, P),
         NEW ids \in SUBSET TripleIds(triples)
  PROVE  Cardinality(EntriesOf(triples, ids)) =
           Cardinality({p \in P : \E x \in ids : p \in StandsFor(st, at, x)})
<1> DEFINE Q == {p \in P : \E x \in ids : p \in StandsFor(st, at, x)}
           E == EntriesOf(triples, ids)
           f == [y \in E |-> at[y[1][1]][st[y[1][1]][y[1][2]] + y[2] - 1]]
<1>1. \A x \in ids :
        /\ x = <<x[1], x[2]>> /\ x[1] \in DOMAIN triples /\ x[2] \in 1 .. Len(triples[x[1]])
        /\ triples[x[1]][x[2]].count \in Nat
        /\ st[x[1]][x[2]] \in Nat /\ 1 <= st[x[1]][x[2]]
        /\ st[x[1]][x[2] + 1] = st[x[1]][x[2]] + triples[x[1]][x[2]].count
        /\ st[x[1]][x[2] + 1] <= st[x[1]][Len(triples[x[1]]) + 1]
        /\ st[x[1]][Len(triples[x[1]]) + 1] \in Nat
        /\ Len(triples[x[1]]) \in Nat
        /\ Counts(triples[x[1]]) \in [1 .. Len(triples[x[1]]) -> Nat]
  BY TripleStretch
<1>2. ASSUME NEW y \in E
      PROVE  /\ y = <<y[1], y[2]>> /\ y[1] \in ids
             /\ y[2] \in 1 .. triples[y[1][1]][y[1][2]].count
             /\ st[y[1][1]][y[1][2]] + y[2] - 1
                  \in st[y[1][1]][y[1][2]] .. st[y[1][1]][y[1][2] + 1] - 1
             /\ st[y[1][1]][y[1][2]] + y[2] - 1
                  \in 1 .. st[y[1][1]][Len(triples[y[1][1]]) + 1] - 1
  <2>1. PICK x \in ids : y \in {x} \X (1 .. triples[x[1]][x[2]].count)
    BY DEF EntriesOf
  <2>2. y = <<y[1], y[2]>> /\ y[1] = x /\ y[2] \in 1 .. triples[x[1]][x[2]].count
    BY <2>1
  <2> DEFINE a == st[x[1]][x[2]]
             b == st[x[1]][x[2] + 1]
             n == triples[x[1]][x[2]].count
             h == st[x[1]][Len(triples[x[1]]) + 1]
             k == y[2]
  <2>3. a \in Nat /\ 1 <= a /\ n \in Nat /\ b = a + n /\ b <= h /\ h \in Nat /\ k \in 1 .. n
    BY <1>1, <2>2
  <2>4. a + k - 1 \in a .. b - 1 /\ a + k - 1 \in 1 .. h - 1
    <3> HIDE DEF a, b, n, h, k
    <3> QED
      BY <2>3
  <2> QED
    BY <2>2, <2>4
<1>3. ASSUME NEW y \in E PROVE f[y] \in Q
  <2>1. f[y] \in StandsFor(st, at, y[1])
    BY <1>2 DEF StandsFor
  <2>2. f[y] \in P
    BY <1>1, <1>2 DEF Spread
  <2> QED
    BY <1>2, <2>1, <2>2
<1>4. ASSUME NEW y \in E, NEW z \in E, f[y] = f[z] PROVE y = z
  <2> DEFINE x == y[1]
             u == z[1]
             i == st[x[1]][x[2]] + y[2] - 1
             k == st[u[1]][u[2]] + z[2] - 1
  <2>1. /\ x \in ids /\ u \in ids /\ y = <<x, y[2]>> /\ z = <<u, z[2]>>
        /\ y[2] \in 1 .. triples[x[1]][x[2]].count /\ z[2] \in 1 .. triples[u[1]][u[2]].count
        /\ i \in st[x[1]][x[2]] .. st[x[1]][x[2] + 1] - 1
        /\ k \in st[u[1]][u[2]] .. st[u[1]][u[2] + 1] - 1
        /\ i \in 1 .. st[x[1]][Len(triples[x[1]]) + 1] - 1
        /\ k \in 1 .. st[u[1]][Len(triples[u[1]]) + 1] - 1
    BY <1>2
  <2>2. f[y] = at[x[1]][i] /\ f[z] = at[u[1]][k]
    OBVIOUS
  <2>8. st[x[1]][x[2]] \in Nat /\ st[u[1]][u[2]] \in Nat /\ y[2] \in Int /\ z[2] \in Int
    <3>1. x \in ids /\ u \in ids /\ y[2] \in Int /\ z[2] \in Int
      BY <2>1
    <3> HIDE DEF x, u
    <3>2. st[x[1]][x[2]] \in Nat /\ st[u[1]][u[2]] \in Nat
      BY <1>1, <3>1
    <3> QED
      BY <3>1, <3>2
  <2>9. i = k /\ x = u => y[2] = z[2]
    <3> DEFINE v == st[x[1]][x[2]]
               p == y[2]
               q == z[2]
    <3>1. i = k /\ x = u => v + p - 1 = v + q - 1
      OBVIOUS
    <3>2. v \in Nat /\ p \in Int /\ q \in Int
      BY <2>8
    <3> HIDE DEF v, p, q, i, k, x, u
    <3>3. v + p - 1 = v + q - 1 => p = q
      BY <3>2
    <3> QED
      BY <3>1, <3>3 DEF p, q
  <2> HIDE DEF i, k, x, u, f
  <2>10. x[1] \in DOMAIN triples /\ u[1] \in DOMAIN triples
    BY <1>1, <2>1
  <2>3. x[1] = u[1] /\ i = k
    <3> DEFINE c == x[1]
               d == u[1]
    <3>1. /\ c \in DOMAIN triples /\ d \in DOMAIN triples
          /\ i \in 1 .. st[c][Len(triples[c]) + 1] - 1
          /\ k \in 1 .. st[d][Len(triples[d]) + 1] - 1
          /\ at[c][i] = at[d][k]
      BY <1>4, <2>1, <2>2, <2>10
    <3> HIDE DEF c, d
    <3>2. c = d /\ i = k
      BY <3>1 DEF Spread
    <3> QED
      BY <3>2 DEF c, d
  <2>4. Cuts(st[x[1]], Counts(triples[x[1]]), Len(triples[x[1]]))
    BY <1>1, <2>1 DEF Spread
  <2>5. x[2] = u[2]
    <3> DEFINE c == x[1]
               m == Len(triples[c])
               w == Counts(triples[c])
               j == x[2]
               l == u[2]
    <3>1. m \in Nat /\ w \in [1 .. m -> Nat] /\ j \in 1 .. m
      BY <1>1, <2>1
    <3>2. l \in 1 .. m /\ i \in st[c][j] .. st[c][j + 1] - 1 /\ i \in st[c][l] .. st[c][l + 1] - 1
      BY <1>1, <2>1, <2>3
    <3> HIDE DEF c, m, w, j, l
    <3>3. Cuts(st[c], w, m)
      BY <2>4 DEF c, w, m
    <3>4. j = l
      BY <3>1, <3>2, <3>3, CutOnce
    <3> QED
      BY <3>4 DEF j, l
  <2>6. x = u
    BY <1>1, <2>1, <2>3, <2>5
  <2> QED
    BY <2>1, <2>3, <2>6, <2>9
<1>5. ASSUME NEW p \in Q PROVE \E y \in E : f[y] = p
  <2>1. PICK x \in ids : p \in StandsFor(st, at, x)
    OBVIOUS
  <2>2. PICK i \in st[x[1]][x[2]] .. st[x[1]][x[2] + 1] - 1 : p = at[x[1]][i]
    BY <2>1 DEF StandsFor
  <2> DEFINE a == st[x[1]][x[2]]
             b == st[x[1]][x[2] + 1]
             n == triples[x[1]][x[2]].count
             y == <<x, i - a + 1>>
  <2>3. a \in Nat /\ n \in Nat /\ b = a + n /\ i \in a .. b - 1
    BY <1>1, <2>2
  <2>4. i - a + 1 \in 1 .. n /\ a + (i - a + 1) - 1 = i
    <3> HIDE DEF a, b, n
    <3> QED
      BY <2>3
  <2>5. y \in E
    BY <2>4 DEF EntriesOf
  <2>6. f[y] = at[x[1]][a + (i - a + 1) - 1]
    BY <2>5
  <2> QED
    BY <2>2, <2>4, <2>5, <2>6
<1>6. f \in Injection(E, Q)
  <2>1. f \in [E -> Q]
    BY <1>3
  <2> HIDE DEF f, E, Q
  <2> QED
    BY <1>4, <2>1 DEF Injection, IsInjective
<1>7. f \in Surjection(E, Q)
  <2>1. f \in [E -> Q]
    BY <1>3
  <2> HIDE DEF f, E, Q
  <2> QED
    BY <1>5, <2>1 DEF Surjection
<1>8. IsFiniteSet(Q)
  BY FS_Subset
<1> HIDE DEF f, E, Q
<1>9. Cardinality(E) = Cardinality(Q)
  BY <1>6, <1>7, <1>8, FS_Injection
<1> QED
  BY <1>9 DEF E, Q

-----------------------------------------------------------------------------
(* divsufsort's order lists the positions it is given, by their suffixes.  *)
LEMMA SuffixOrderLists ==
  ASSUME NEW t \in CodedText, NEW P \in SUBSET Positions(t)
  PROVE  /\ InSuffixOrder(t, P) \in Seq(P)
         /\ \A a, b \in 1 .. Len(InSuffixOrder(t, P)) :
              a < b => SuffixLess(t, InSuffixOrder(t, P)[a], InSuffixOrder(t, P)[b])
         /\ \A p \in P : \E a \in 1 .. Len(InSuffixOrder(t, P)) : InSuffixOrder(t, P)[a] = p
<1> DEFINE B(p) == {q \in P : SuffixLess(t, q, p)}
           N == Cardinality(P)
           r == [p \in P |-> Cardinality(B(p))]
           o == InSuffixOrder(t, P)
           L == Len(t) + 1
<1>1. P \subseteq Nat /\ IsFiniteSet(P) /\ N \in Nat /\ L \in Nat /\ Positions(t) = 0 .. Len(t)
  BY PositionsType, FS_Subset, FS_CardinalityType
<1>2. o = [n \in 1 .. N |-> CHOOSE p \in P : Cardinality(B(p)) = n - 1]
  BY DEF InSuffixOrder
<1>3. \A p \in P : IsFiniteSet(B(p)) /\ Cardinality(B(p)) \in Nat
  BY <1>1, FS_Subset, FS_CardinalityType
<1> HIDE DEF o, N, L
<1>4. ASSUME NEW p \in P, NEW q \in P, SuffixLess(t, p, q)
      PROVE  Cardinality(B(p)) < Cardinality(B(q))
  <2>1. p \in B(q) /\ p \notin B(p)
    BY <1>1, <1>4, NoInversion DEF SuffixLess, L
  <2>2. B(p) \subseteq B(q)
    BY <1>1, <1>4, LessTransitive DEF SuffixLess, L
  <2>3. B(p) # B(q)
    BY <2>1
  <2> HIDE DEF B
  <2> QED
    BY <1>3, <2>2, <2>3, FS_Subset
<1>5. ASSUME NEW p \in P, NEW q \in P, p # q
      PROVE  SuffixLess(t, p, q) \/ SuffixLess(t, q, p)
  <2>1. ~ PrefixEq(t, L, p, q)
    <3>1. SUFFICES ASSUME PrefixEq(t, L, p, q) PROVE FALSE
      OBVIOUS
    <3>2. p + L \in Positions(t)
      BY <1>1, <1>5, <3>1, SentinelDecides
    <3> QED
      BY <1>1, <3>2, PositionsType DEF L
  <2> QED
    BY <1>1, <2>1, Trichotomy DEF SuffixLess, L
<1>6. ASSUME NEW p \in P PROVE Cardinality(B(p)) \in 0 .. N - 1
  <2>1. p \notin B(p)
    BY <1>1, NoInversion DEF SuffixLess, L
  <2>2. B(p) \subseteq P /\ B(p) # P
    BY <2>1
  <2> HIDE DEF B
  <2>3. Cardinality(B(p)) <= N /\ Cardinality(B(p)) # N
    BY <1>1, <2>2, FS_Subset DEF N
  <2> QED
    BY <1>1, <1>3, <2>3
<1>7. \A p \in P : r[p] = Cardinality(B(p))
  OBVIOUS
<1> HIDE DEF B
<1>8. r \in Injection(P, 0 .. N - 1)
  <2>1. r \in [P -> 0 .. N - 1]
    BY <1>6
  <2>2. ASSUME NEW p \in P, NEW q \in P, r[p] = r[q] PROVE p = q
    BY <1>3, <1>4, <1>5, <1>7, <2>2
  <2> HIDE DEF r
  <2> QED
    BY <2>1, <2>2 DEF Injection, IsInjective
<1>9. IsFiniteSet(0 .. N - 1) /\ Cardinality(0 .. N - 1) = N
  <2>1. 0 \in Int /\ N - 1 \in Int
    BY <1>1
  <2>2. /\ IsFiniteSet(0 .. N - 1)
        /\ Cardinality(0 .. N - 1) = IF 0 > N - 1 THEN 0 ELSE (N - 1) - 0 + 1
    BY <2>1, FS_Interval
  <2> QED
    BY <1>1, <2>2
<1> HIDE DEF r
<1>10. r \in Surjection(P, 0 .. N - 1)
  BY <1>1, <1>8, <1>9, FS_Injection DEF N
<1>11. ASSUME NEW n \in 1 .. N PROVE o[n] \in P /\ r[o[n]] = n - 1
  <2>1. n - 1 \in 0 .. N - 1
    BY <1>1
  <2>2. PICK p \in P : r[p] = n - 1
    BY <1>10, <2>1 DEF Surjection
  <2>3. o[n] = CHOOSE x \in P : Cardinality(B(x)) = n - 1
    BY <1>2
  <2>4. o[n] \in P /\ Cardinality(B(o[n])) = n - 1
    BY <1>7, <2>2, <2>3
  <2> QED
    BY <1>7, <2>4
<1>12. o \in Seq(P) /\ Len(o) = N
  <2>1. o \in [1 .. N -> P]
    BY <1>2, <1>11
  <2>2. o \in Seq(P)
    BY <1>1, <2>1
  <2>3. DOMAIN o = 1 .. N
    BY <1>2
  <2> QED
    BY <1>1, <2>2, <2>3, LenProperties
<1>13. ASSUME NEW a \in 1 .. N, NEW b \in 1 .. N, a < b PROVE SuffixLess(t, o[a], o[b])
  <2>1. o[a] \in P /\ o[b] \in P /\ r[o[a]] = a - 1 /\ r[o[b]] = b - 1
    BY <1>11
  <2>2. o[a] # o[b] /\ ~ SuffixLess(t, o[b], o[a])
    <3>1. a \in Int /\ b \in Int /\ a < b
      BY <1>1, <1>13
    <3>2. ~ (r[o[b]] < r[o[a]]) /\ r[o[a]] # r[o[b]]
      BY <2>1, <3>1
    <3> QED
      BY <1>4, <1>7, <2>1, <3>2
  <2> QED
    BY <1>5, <2>1, <2>2
<1>14. ASSUME NEW p \in P PROVE \E a \in 1 .. N : o[a] = p
  <2>1. r[p] \in 0 .. N - 1
    BY <1>6, <1>7
  <2>2. r[p] + 1 \in 1 .. N /\ (r[p] + 1) - 1 = r[p]
    BY <1>1, <2>1
  <2>3. o[r[p] + 1] \in P /\ r[o[r[p] + 1]] = r[p]
    BY <1>11, <2>2
  <2>4. o[r[p] + 1] = p
    BY <1>8, <2>3 DEF Injection, IsInjective
  <2> QED
    BY <2>2, <2>4
<1> QED
  BY <1>12, <1>13, <1>14 DEF o

(* What is selected is what stands at the indices.                         *)
LEMMA SelectedRange ==
  ASSUME NEW V, NEW s \in Seq(V), NEW K \in SUBSET (1 .. Len(s))
  PROVE  Range(Selected(s, K)) = {s[j] : j \in K}
<1> DEFINE m == Len(Selected(s, K))
<1>1. /\ Selected(s, K) \in Seq(V)
      /\ \E at : Lists(at, m, K) /\ \A a \in 1 .. m : Selected(s, K)[a] = s[at[a]]
  BY SelectedLists
<1>2. PICK at : Lists(at, m, K) /\ \A a \in 1 .. m : Selected(s, K)[a] = s[at[a]]
  BY <1>1
<1>3. DOMAIN Selected(s, K) = 1 .. m
  BY <1>1, LenProperties
<1> HIDE DEF m
<1>4. ASSUME NEW x \in Range(Selected(s, K)) PROVE x \in {s[j] : j \in K}
  <2>1. PICK a \in 1 .. m : x = Selected(s, K)[a]
    BY <1>3 DEF Range
  <2>2. at[a] \in K
    BY <1>2 DEF Lists
  <2> QED
    BY <1>2, <2>1, <2>2
<1>5. ASSUME NEW j \in K PROVE s[j] \in Range(Selected(s, K))
  <2>1. PICK a \in 1 .. m : at[a] = j
    BY <1>2 DEF Lists
  <2> QED
    BY <1>2, <1>3, <2>1 DEF Range
<1> QED
  BY <1>4, <1>5

(* Runs that are kept stay in order.                                       *)
LEMMA RisingSelected ==
  ASSUME NEW runs \in Seq(RunSet(Nat)), Rising(runs), NEW J \in SUBSET (1 .. Len(runs))
  PROVE  Rising(Selected(runs, J))
<1> DEFINE m == Len(runs)
           q == Len(Selected(runs, J))
           f == [j \in 1 .. m |-> runs[j].rank]
<1>1. m \in Nat /\ \A j \in 1 .. m : runs[j].rank \in Nat
  BY WidthsType
<1>2. /\ Selected(runs, J) \in Seq(RunSet(Nat))
      /\ \E at : Lists(at, q, J) /\ \A a \in 1 .. q : Selected(runs, J)[a] = runs[at[a]]
  BY SelectedLists
<1>3. PICK at : Lists(at, q, J) /\ \A a \in 1 .. q : Selected(runs, J)[a] = runs[at[a]]
  BY <1>2
<1>4. q \in Nat
  BY <1>2, LenProperties
<1>5. f \in [1 .. m -> Nat] /\ \A j \in 1 .. m : f[j] = runs[j].rank
  BY <1>1
<1> HIDE DEF f, q
<1>6. ASSUME NEW j \in 1 .. m, j + 1 \in 1 .. m PROVE f[j] < f[j + 1]
  <2>1. j + 1 \in 2 .. m /\ (j + 1) - 1 = j
    BY <1>1, <1>6
  <2>2. runs[(j + 1) - 1].rank < runs[j + 1].rank
    BY <2>1 DEF Rising
  <2> QED
    BY <1>5, <1>6, <2>1, <2>2
<1>7. ASSUME NEW a \in 2 .. q
      PROVE  Selected(runs, J)[a - 1].rank < Selected(runs, J)[a].rank
  <2>1. a \in 1 .. q /\ a - 1 \in 1 .. q /\ a - 1 < a
    BY <1>4
  <2>2. at[a - 1] \in 1 .. m /\ at[a] \in 1 .. m /\ at[a - 1] < at[a]
    BY <1>3, <2>1 DEF Lists
  <2> HIDE DEF m
  <2>3. f[at[a - 1]] < f[at[a]]
    BY <1>1, <1>5, <1>6, <2>2, Growing
  <2> QED
    BY <1>3, <1>5, <2>1, <2>2, <2>3
<1> QED
  BY <1>7 DEF Rising, q

(* A bounded set of naturals lies between its least and its greatest       *)
(* element.                                                                *)
LEMMA Extremes ==
  ASSUME NEW n \in Nat, NEW T \in SUBSET (0 .. n), T # {}
  PROVE  /\ Min(T) \in T /\ Max(T) \in T
         /\ T \subseteq Min(T) .. Max(T)
<1>1. \E d \in T : \A e \in T : d <= e
  BY Least
<1>2. Min(T) \in T /\ \A e \in T : Min(T) <= e
  BY <1>1 DEF Min
<1> DEFINE U == {n - e : e \in T}
<1>3. U \in SUBSET Nat /\ U # {}
  <2>1. \A e \in T : n - e \in Nat
    OBVIOUS
  <2>2. PICK e \in T : TRUE
    OBVIOUS
  <2>3. n - e \in U
    OBVIOUS
  <2> QED
    BY <2>1, <2>3
<1>4. PICK d \in U : \A e \in U : d <= e
  BY <1>3, Least
<1>5. PICK x \in T : d = n - x
  BY <1>4
<1>6. \A e \in T : x >= e
  BY <1>4, <1>5
<1>7. Max(T) \in T /\ \A e \in T : Max(T) >= e
  BY <1>6 DEF Max
<1> QED
  BY <1>2, <1>7

(* Where nexts is empty merge meets no triple.                             *)
LEMMA NoTriples ==
  ASSUME NEW cur
  PROVE  Triples(cur, <<>>) = <<>> /\ Expand(<<>>) = <<>> /\ Len(Slots(<<>>)) = 0
<1> DEFINE none == <<>>
           n == Slots(none)
           pairs == [i \in DOMAIN n \cap DOMAIN Slots(cur) |-> <<Slots(cur)[i], n[i]>>]
           ov == Runs(pairs)
<1>1. none \in Seq(RunSet({})) /\ Len(none) = 0
  OBVIOUS
<1>2. PICK st : Cuts(st, Widths(none), Len(none))
  BY <1>1, StreamCut
<1>3. Len(n) = st[Len(none) + 1] - 1 /\ n \in Seq(1 .. Len(none))
  BY <1>1, <1>2, SlotsAt
<1>4. st[1] = 1
  BY <1>2 DEF Cuts
<1> HIDE DEF none, n
<1>5. Len(n) = 0
  <2>1. Len(none) + 1 = 1
    BY <1>1
  <2>2. Len(n) = st[1] - 1
    BY <1>3, <2>1
  <2> QED
    BY <1>4, <2>2
<1>6. DOMAIN n = {}
  BY <1>3, <1>5, LenProperties
<1>7. pairs \in Seq({}) /\ Len(pairs) = 0
  <2>0. DOMAIN n \cap DOMAIN Slots(cur) = {}
    BY <1>6
  <2> DEFINE D == DOMAIN n \cap DOMAIN Slots(cur)
             f == [i \in D |-> <<Slots(cur)[i], n[i]>>]
  <2>1. pairs = <<>>
    <3> HIDE DEF D
    <3>1. D = {}
      BY <2>0 DEF D
    <3>2. f = <<>>
      BY <3>1
    <3> QED
      BY <3>2 DEF D
  <2> HIDE DEF pairs
  <2> QED
    BY <2>1
<1> HIDE DEF pairs
<1>8. PICK st2 : Spans(st2, ov, pairs)
  BY <1>7, RunsFit
<1>9. ov \in Seq(RunSet({}))
  BY <1>7, RunsFit
<1> HIDE DEF ov
<1>10. Len(ov) \in Nat /\ \A j \in 1 .. Len(ov) : ov[j].rank \in {}
  BY <1>9, WidthsType
<1>11. Len(ov) = 0
  BY <1>10
<1>12. DOMAIN ov = {}
  BY <1>9, <1>11, LenProperties
<1>13. Triples(cur, none) = <<>>
  BY <1>12 DEF Triples, ov, pairs, n
<1>14. Expand(none) = <<>>
  BY <1>6 DEF Expand, n
<1> QED
  BY <1>5, <1>13, <1>14 DEF none, n

-----------------------------------------------------------------------------
(* The interval 1 .. n has n elements.                                     *)
LEMMA FirstNumbers ==
  ASSUME NEW n \in Nat
  PROVE  IsFiniteSet(1 .. n) /\ Cardinality(1 .. n) = n
<1>1. 1 \in Int /\ n \in Int
  OBVIOUS
<1>2. IsFiniteSet(1 .. n) /\ Cardinality(1 .. n) = IF 1 > n THEN 0 ELSE n - 1 + 1
  BY <1>1, FS_Interval
<1>3. (IF 1 > n THEN 0 ELSE n - 1 + 1) = n
  OBVIOUS
<1> QED
  BY <1>2, <1>3

(* Finitely many finite sets have a finite union.                          *)
LEMMA FiniteUnion ==
  ASSUME NEW S, IsFiniteSet(S), NEW f, DOMAIN f = S, \A x \in S : IsFiniteSet(f[x])
  PROVE  IsFiniteSet(UNION {f[x] : x \in S})
<1> DEFINE U == {f[x] : x \in S}
           g == [x \in S |-> f[x]]
<1>1. g \in Surjection(S, U)
  BY DEF Surjection
<1>2. IsFiniteSet(U)
  BY <1>1, FS_Surjection
<1> QED
  BY <1>2, FS_UNION

(* The triples of the chunks.                                              *)
TripleLists(T) ==
  /\ IsFiniteSet(DOMAIN T) /\ DOMAIN T \subseteq Nat
  /\ \A c \in DOMAIN T :
       T[c] \in Seq(TripleSet) /\ \A j \in 1 .. Len(T[c]) : T[c][j].count # 0

(* They are finitely many.                                                 *)
LEMMA TripleIdsType ==
  ASSUME NEW T, TripleLists(T)
  PROVE  /\ IsFiniteSet(TripleIds(T))
         /\ \A x \in TripleIds(T) :
              /\ x = <<x[1], x[2]>> /\ x[1] \in DOMAIN T /\ x[2] \in 1 .. Len(T[x[1]])
              /\ T[x[1]][x[2]] \in TripleSet
              /\ T[x[1]][x[2]].current \in Nat /\ T[x[1]][x[2]].next \in Nat
              /\ T[x[1]][x[2]].count \in Nat \ {0}
         /\ \A c \in DOMAIN T : \A j \in 1 .. Len(T[c]) : <<c, j>> \in TripleIds(T)
<1> DEFINE f == [c \in DOMAIN T |-> {c} \X DOMAIN T[c]]
<1>1. \A c \in DOMAIN T : Len(T[c]) \in Nat /\ DOMAIN T[c] = 1 .. Len(T[c])
  BY DEF TripleLists
<1>2. ASSUME NEW c \in DOMAIN T PROVE IsFiniteSet(f[c])
  <2>1. IsFiniteSet({c}) /\ IsFiniteSet(1 .. Len(T[c]))
    BY <1>1, FS_Singleton, FirstNumbers
  <2>2. IsFiniteSet({c} \X (1 .. Len(T[c])))
    BY <2>1, FS_Product
  <2> QED
    BY <1>1, <2>2
<1>3. IsFiniteSet(UNION {f[c] : c \in DOMAIN T})
  <2>1. DOMAIN f = DOMAIN T
    OBVIOUS
  <2> HIDE DEF f
  <2> QED
    BY <1>2, <2>1, FiniteUnion DEF TripleLists
<1>4. UNION {f[c] : c \in DOMAIN T} = TripleIds(T)
  BY DEF TripleIds
<1>5. ASSUME NEW x \in TripleIds(T)
      PROVE  x = <<x[1], x[2]>> /\ x[1] \in DOMAIN T /\ x[2] \in 1 .. Len(T[x[1]])
  BY <1>1 DEF TripleIds
<1>6. ASSUME NEW x \in TripleIds(T)
      PROVE  /\ T[x[1]][x[2]] \in TripleSet
             /\ T[x[1]][x[2]].current \in Nat /\ T[x[1]][x[2]].next \in Nat
             /\ T[x[1]][x[2]].count \in Nat \ {0}
  <2>1. T[x[1]][x[2]] \in TripleSet /\ T[x[1]][x[2]].count # 0 /\ x[1] \in Nat
    BY <1>1, <1>5 DEF TripleLists
  <2> QED
    BY <2>1 DEF TripleSet
<1>7. ASSUME NEW c \in DOMAIN T, NEW j \in 1 .. Len(T[c]) PROVE <<c, j>> \in TripleIds(T)
  BY <1>1 DEF TripleIds
<1> QED
  BY <1>3, <1>4, <1>5, <1>6, <1>7

(* How many entries some triples stand for.                                *)
Total(T, ids) == Cardinality(EntriesOf(T, ids))

(* The entries of some triples are finitely many.                          *)
LEMMA TotalType ==
  ASSUME NEW T, TripleLists(T), NEW ids \in SUBSET TripleIds(T)
  PROVE  IsFiniteSet(EntriesOf(T, ids)) /\ Total(T, ids) \in Nat
<1> DEFINE f == [x \in ids |-> {x} \X (1 .. T[x[1]][x[2]].count)]
<1>1. IsFiniteSet(ids)
  BY TripleIdsType, FS_Subset
<1>2. ASSUME NEW x \in ids PROVE IsFiniteSet(f[x])
  <2>1. T[x[1]][x[2]].count \in Nat
    BY TripleIdsType
  <2>2. IsFiniteSet({x}) /\ IsFiniteSet(1 .. T[x[1]][x[2]].count)
    BY <2>1, FS_Singleton, FirstNumbers
  <2> QED
    BY <2>2, FS_Product
<1>3. IsFiniteSet(UNION {f[x] : x \in ids})
  <2>1. DOMAIN f = ids
    OBVIOUS
  <2> HIDE DEF f
  <2> QED
    BY <1>1, <1>2, <2>1, FiniteUnion
<1>4. UNION {f[x] : x \in ids} = EntriesOf(T, ids)
  BY DEF EntriesOf
<1> QED
  BY <1>3, <1>4, FS_CardinalityType DEF Total

(* Triples that are different stand for different entries.                 *)
LEMMA TotalAdds ==
  ASSUME NEW T, TripleLists(T), NEW A \in SUBSET TripleIds(T), NEW C \in SUBSET TripleIds(T),
         A \cap C = {}
  PROVE  Total(T, A \cup C) = Total(T, A) + Total(T, C)
<1>1. IsFiniteSet(EntriesOf(T, A)) /\ IsFiniteSet(EntriesOf(T, C)) /\ Total(T, A) \in Nat /\ Total(T, C) \in Nat
  BY TotalType
<1>2. EntriesOf(T, A \cup C) = EntriesOf(T, A) \cup EntriesOf(T, C)
  BY DEF EntriesOf
<1>3. EntriesOf(T, A) \cap EntriesOf(T, C) = {}
  <2>1. SUFFICES ASSUME NEW y \in EntriesOf(T, A), y \in EntriesOf(T, C) PROVE FALSE
    OBVIOUS
  <2>2. y[1] \in A
    BY DEF EntriesOf
  <2>3. y[1] \in C
    BY <2>1 DEF EntriesOf
  <2> QED
    BY <2>2, <2>3
<1>4. Cardinality({}) = 0
  BY FS_EmptySet
<1> DEFINE E == EntriesOf(T, A)
           F == EntriesOf(T, C)
<1>5. IsFiniteSet(E) /\ IsFiniteSet(F) /\ Cardinality(E) \in Nat /\ Cardinality(F) \in Nat
  BY <1>1 DEF Total
<1> HIDE DEF E, F
<1>6. Cardinality(E \cup F) = Cardinality(E) + Cardinality(F) - Cardinality(E \cap F)
  BY <1>5, FS_Union
<1>7. Cardinality(E \cap F) = 0
  BY <1>3, <1>4 DEF E, F
<1>8. Cardinality(E \cup F) = Cardinality(E) + Cardinality(F)
  BY <1>5, <1>6, <1>7
<1> QED
  BY <1>2, <1>8 DEF Total, E, F

(* One triple stands for as many entries as it counts.                     *)
LEMMA TotalOfOne ==
  ASSUME NEW T, TripleLists(T), NEW x \in TripleIds(T)
  PROVE  Total(T, {x}) = T[x[1]][x[2]].count
<1> DEFINE n == T[x[1]][x[2]].count
<1>1. n \in Nat \ {0}
  BY TripleIdsType
<1>2. EntriesOf(T, {x}) = {x} \X (1 .. n)
  BY DEF EntriesOf
<1> HIDE DEF n
<1>3. IsFiniteSet({x}) /\ Cardinality({x}) = 1 /\ IsFiniteSet(1 .. n) /\ Cardinality(1 .. n) = n
  BY <1>1, FS_Singleton, FirstNumbers
<1>4. Cardinality({x} \X (1 .. n)) = Cardinality({x}) * Cardinality(1 .. n)
  BY <1>3, FS_Product
<1>5. Cardinality({x} \X (1 .. n)) = n
  BY <1>1, <1>3, <1>4
<1> QED
  BY <1>2, <1>5 DEF Total, n

(* No triple, no entries.                                                  *)
LEMMA TotalOfNone ==
  ASSUME NEW T
  PROVE  Total(T, {}) = 0
<1>1. EntriesOf(T, {}) = {}
  BY DEF EntriesOf
<1> QED
  BY <1>1, FS_EmptySet DEF Total

(* A triple and another one stand for more than one entry.                 *)
LEMMA TotalOfTwo ==
  ASSUME NEW T, TripleLists(T), NEW A \in SUBSET TripleIds(T),
         NEW x \in A
  PROVE  /\ Total(T, A) = T[x[1]][x[2]].count + Total(T, A \ {x})
         /\ Total(T, A) \in Nat \ {0}
         /\ \A y \in A : y # x => Total(T, A) # 1
<1>1. ASSUME NEW C \in SUBSET TripleIds(T), NEW y \in C
      PROVE  /\ Total(T, C) = T[y[1]][y[2]].count + Total(T, C \ {y})
             /\ T[y[1]][y[2]].count \in Nat \ {0} /\ Total(T, C \ {y}) \in Nat
  <2>1. C = {y} \cup (C \ {y}) /\ {y} \cap (C \ {y}) = {}
    OBVIOUS
  <2>2. {y} \in SUBSET TripleIds(T) /\ C \ {y} \in SUBSET TripleIds(T)
    OBVIOUS
  <2>3. Total(T, {y} \cup (C \ {y})) = Total(T, {y}) + Total(T, C \ {y})
    BY <2>1, <2>2, TotalAdds
  <2>4. T[y[1]][y[2]].count \in Nat \ {0}
    BY TripleIdsType
  <2> QED
    BY <2>1, <2>2, <2>3, <2>4, TotalOfOne, TotalType
<1>2. ASSUME NEW y \in A, y # x PROVE Total(T, A) # 1
  <2>1. A \ {x} \in SUBSET TripleIds(T) /\ y \in A \ {x}
    BY <1>2
  <2>2. /\ Total(T, A) = T[x[1]][x[2]].count + Total(T, A \ {x})
        /\ T[x[1]][x[2]].count \in Nat \ {0}
    BY <1>1
  <2>3. /\ Total(T, A \ {x}) = T[y[1]][y[2]].count + Total(T, (A \ {x}) \ {y})
        /\ T[y[1]][y[2]].count \in Nat \ {0} /\ Total(T, (A \ {x}) \ {y}) \in Nat
    BY <1>1, <2>1
  <2> DEFINE a == T[x[1]][x[2]].count
             d == T[y[1]][y[2]].count
             v == Total(T, A)
             w == Total(T, A \ {x})
             u == Total(T, (A \ {x}) \ {y})
  <2>4. v = a + w /\ w = d + u /\ a \in Nat \ {0} /\ d \in Nat \ {0} /\ u \in Nat
    BY <2>2, <2>3
  <2> HIDE DEF a, d, v, w, u
  <2>5. v # 1
    BY <2>4
  <2> QED
    BY <2>5 DEF v
<1>3. Total(T, A) \in Nat \ {0}
  <2> DEFINE a == T[x[1]][x[2]].count
             v == Total(T, A)
             w == Total(T, A \ {x})
  <2>1. v = a + w /\ a \in Nat \ {0} /\ w \in Nat
    BY <1>1
  <2> HIDE DEF a, v, w
  <2>2. v \in Nat \ {0}
    BY <2>1
  <2> QED
    BY <2>2 DEF v
<1> QED
  BY <1>1, <1>2, <1>3

(* The sequences of a sequence, one after the other.                       *)
LaidOut(s, seqs, st, m) ==
  \A j \in 1 .. m : \A k \in 1 .. Len(seqs[j]) : s[st[j] + k - 1] = seqs[j][k]

LEMMA FlattenLaidOut ==
  ASSUME NEW V, NEW m \in Nat, NEW seqs, NEW w, NEW st,
         Lengths(w, seqs, m, V), Cuts(st, w, m)
  PROVE  /\ FlattenSeq(seqs) \in Seq(V)
         /\ Len(FlattenSeq(seqs)) = st[m + 1] - 1
         /\ LaidOut(FlattenSeq(seqs), seqs, st, m)
  BY FlattenAt DEF LaidOut

-----------------------------------------------------------------------------
(* Ranks of suffixes are the numbers up to the text's length, once each.   *)
LEMMA SuffixRankBound ==
  ASSUME NEW t \in CodedText, NEW p \in Positions(t)
  PROVE  SuffixRank(t, p) \in 0 .. Len(t)
<1> DEFINE n == Len(t)
           smaller == {q \in Positions(t) : SuffixLess(t, q, p)}
<1>1. n \in Nat /\ Positions(t) = 0 .. n /\ IsFiniteSet(Positions(t)) /\ p \in Nat /\ n + 1 \in Nat
  BY PositionsType
<1>2. p \notin smaller
  BY <1>1, NoInversion DEF SuffixLess
<1>3. smaller \subseteq Positions(t) \ {p}
  BY <1>2
<1>4. Cardinality(Positions(t)) = n + 1
  <2>1. Cardinality(0 .. n) = IF 0 > n THEN 0 ELSE n - 0 + 1
    BY <1>1, FS_Interval
  <2> QED
    BY <1>1, <2>1
<1>5. IsFiniteSet(Positions(t) \ {p}) /\ Cardinality(Positions(t) \ {p}) = n
  <2>1. /\ IsFiniteSet(Positions(t) \ {p})
        /\ Cardinality(Positions(t) \ {p}) = Cardinality(Positions(t)) - 1
    BY <1>1, FS_RemoveElement
  <2> QED
    BY <1>1, <1>4, <2>1
<1> DEFINE others == Positions(t) \ {p}
<1>6. smaller \subseteq others /\ IsFiniteSet(others) /\ Cardinality(others) = n
  BY <1>3, <1>5
<1>7. SuffixRank(t, p) = Cardinality(smaller)
  BY DEF SuffixRank
<1> HIDE DEF smaller, others
<1>8. IsFiniteSet(smaller) /\ Cardinality(smaller) <= Cardinality(others)
  BY <1>6, FS_Subset
<1>9. Cardinality(smaller) \in Nat
  BY <1>8, FS_CardinalityType
<1> QED
  BY <1>1, <1>6, <1>7, <1>8, <1>9

LEMMA SuffixRankDecides ==
  ASSUME NEW t \in CodedText, NEW p \in Positions(t), NEW q \in Positions(t)
  PROVE  /\ SuffixRank(t, p) = SuffixRank(t, q) => p = q
         /\ SuffixRank(t, p) < SuffixRank(t, q) <=> SuffixLess(t, p, q)
<1> DEFINE n == Len(t) + 1
<1>1. n \in Nat /\ SuffixRank(t, p) = PrefixRank(t, n, p) /\ SuffixRank(t, q) = PrefixRank(t, n, q)
  BY PositionsType DEF SuffixRank, PrefixRank, SuffixLess
<1>2. SuffixLess(t, p, q) <=> PrefixLess(t, n, p, q)
  BY DEF SuffixLess
<1>3. p \in Nat /\ Len(t) \in Nat /\ Positions(t) = 0 .. Len(t)
  BY PositionsType
<1>4. ~ (p + n \in Positions(t))
  BY <1>3
<1> HIDE DEF n
<1>5. /\ PrefixRank(t, n, p) = PrefixRank(t, n, q) <=> PrefixEq(t, n, p, q)
      /\ PrefixRank(t, n, p) < PrefixRank(t, n, q) <=> PrefixLess(t, n, p, q)
  BY <1>1, RankDecides
<1>6. PrefixEq(t, n, p, q) => p = q
  BY <1>1, <1>4, SentinelDecides
<1> QED
  BY <1>1, <1>2, <1>5, <1>6

LEMMA EveryRankTaken ==
  ASSUME NEW t \in CodedText, NEW r \in 0 .. Len(t)
  PROVE  \E p \in Positions(t) : SuffixRank(t, p) = r
<1> DEFINE P == Positions(t)
           f == [p \in P |-> SuffixRank(t, p)]
<1>1. P = 0 .. Len(t) /\ IsFiniteSet(P)
  BY PositionsType
<1>2. f \in Injection(P, P)
  <2>1. f \in [P -> P]
    BY <1>1, SuffixRankBound
  <2>2. \A p, q \in P : f[p] = f[q] => p = q
    BY SuffixRankDecides
  <2> QED
    BY <2>1, <2>2 DEF Injection, IsInjective
<1>3. f \in Surjection(P, P)
  BY <1>1, <1>2, FS_Injection
<1>4. r \in P
  BY <1>1
<1> QED
  BY <1>3, <1>4 DEF Surjection

(* The files of ranks that a run without faults leaves.                    *)
FinalRankFiles(t, S) ==
  [c \in 1 .. ChunkOf(S, Len(t)) + 1 |->
    [i \in 1 .. Cardinality({p \in Positions(t) : ChunkOf(S, p) = c - 1}) |->
      SuffixRank(t, (c - 1) * S + i - 1)]]

ChunkLength(t, S, c) == IF c < Len(t) \div S THEN S ELSE (Len(t) % S) + 1

LEMMA ChunkCounted ==
  ASSUME NEW t \in CodedText, NEW S \in Nat \ {0}, NEW c \in 0 .. Len(t) \div S
  PROVE  /\ ChunkLength(t, S, c) \in 1 .. S
         /\ Cardinality({p \in Positions(t) : ChunkOf(S, p) = c}) = ChunkLength(t, S, c)
         /\ \A i \in 0 .. ChunkLength(t, S, c) - 1 : c * S + i \in Positions(t)
         /\ \A p \in Positions(t) :
              ChunkOf(S, p) = c => p \in c * S .. c * S + ChunkLength(t, S, c) - 1
<1> DEFINE n == Len(t)
           last == n \div S
           r == n % S
           l == ChunkLength(t, S, c)
           a == c * S
           b == last * S
<1>1. n \in Nat /\ Positions(t) = 0 .. n
  BY PositionsType
<1>2. last \in Nat /\ r \in 0 .. S - 1 /\ n = b + r /\ b \in Nat
  <2>1. last \in Nat /\ r \in 0 .. S - 1 /\ n = last * S + r
    BY <1>1, Division
  <2> HIDE DEF last
  <2> QED
    BY <2>1
<1>3. c \in Nat /\ c <= last /\ a \in Nat
  BY <1>2
<1>4. l = IF c < last THEN S ELSE r + 1
  BY DEF ChunkLength
<1>5. l \in 1 .. S
  <2> HIDE DEF l, r, last
  <2> QED
    BY <1>2, <1>4
<1>6. \A i \in 0 .. l - 1 : i \in 0 .. S - 1 /\ a + i \in 0 .. n
  <2>1. SUFFICES ASSUME NEW i \in 0 .. l - 1 PROVE i \in 0 .. S - 1 /\ a + i \in 0 .. n
    OBVIOUS
  <2>2. i \in 0 .. S - 1
    <3> HIDE DEF l
    <3> QED
      BY <1>5
  <2>3. CASE c < last
    <3>1. a + i < b + r
      <4>1. r \in Nat
        BY <1>2
      <4> QED
        BY <1>2, <1>3, <2>2, <2>3, <4>1, ChunkFirst
    <3> HIDE DEF a, b, l, n, r
    <3> QED
      BY <1>1, <1>2, <1>3, <2>2, <3>1
  <2>4. CASE ~ (c < last)
    <3>1. c = last
      <4> HIDE DEF last
      <4> QED
        BY <1>2, <1>3, <2>4
    <3>2. a = b /\ i <= r
      <4>1. a = b
        BY <3>1
      <4>2. l = r + 1
        BY <1>4, <2>4
      <4> HIDE DEF l, r, a, b
      <4> QED
        BY <1>2, <4>1, <4>2
    <3> HIDE DEF a, b, l, n, r
    <3> QED
      BY <1>1, <1>2, <1>3, <2>2, <3>2
  <2> QED
    BY <2>3, <2>4
<1> DEFINE members == {p \in Positions(t) : ChunkOf(S, p) = c}
<1>7. members = a .. a + l - 1
  <2>1. ASSUME NEW p \in members PROVE p \in a .. a + l - 1
    <3> DEFINE i == p % S
    <3>1. p \in 0 .. n /\ p \in Nat /\ p \div S = c
      BY <1>1 DEF ChunkOf
    <3>2. p = c * S + i /\ i \in 0 .. S - 1
      BY <3>1, Division
    <3>3. CASE c < last
      <4>1. l = S /\ p = a + i
        BY <1>4, <3>2, <3>3
      <4> HIDE DEF a, l, i
      <4> QED
        BY <1>3, <3>2, <4>1
    <3>4. CASE ~ (c < last)
      <4>1. c = last
        <5> HIDE DEF last
        <5> QED
          BY <1>2, <1>3, <3>4
      <4>2. l = r + 1 /\ p = a + i /\ a = b /\ p <= n
        BY <1>4, <3>1, <3>2, <3>4, <4>1
      <4> HIDE DEF a, b, l, i, r, n
      <4> QED
        BY <1>1, <1>2, <1>3, <3>2, <4>2
    <3> QED
      BY <3>3, <3>4
  <2>2. ASSUME NEW p \in a .. a + l - 1 PROVE p \in members
    <3> DEFINE i == p - a
    <3>1. i \in 0 .. l - 1 /\ p = a + i
      <4> HIDE DEF a, l
      <4> QED
        BY <1>3, <1>5
    <3> HIDE DEF i
    <3>2. i \in 0 .. S - 1 /\ a + i \in 0 .. n
      BY <1>6, <3>1
    <3>3. (c * S + i) \div S = c
      BY <1>3, <3>2, DivisionUnique
    <3> QED
      BY <1>1, <3>1, <3>2, <3>3 DEF ChunkOf
  <2> HIDE DEF members, l, a
  <2> QED
    BY <2>1, <2>2
<1>8. Cardinality(members) = l
  <2> HIDE DEF a, l, members
  <2>1. a \in Int /\ a + l - 1 \in Int
    BY <1>3, <1>5
  <2>2. Cardinality(a .. a + l - 1) = IF a > a + l - 1 THEN 0 ELSE (a + l - 1) - a + 1
    BY <2>1, FS_Interval
  <2> QED
    BY <1>3, <1>5, <1>7, <2>2
<1>9. ASSUME NEW p \in Positions(t), ChunkOf(S, p) = c PROVE p \in a .. a + l - 1
  <2>1. p \in members
    BY <1>9
  <2> HIDE DEF members, a, l
  <2> QED
    BY <1>7, <2>1
<1> QED
  BY <1>1, <1>5, <1>6, <1>8, <1>9
FinalFile(t, S, l, k) ==
  [n \in 1 .. l |-> CHOOSE p \in Positions(t) : SuffixRank(t, p) = (k - 1) * S + n - 1]

-----------------------------------------------------------------------------
(* The order in which merge takes the triples, one after the other.        *)
HeadsOf(T, gone) ==
  {x \in TripleIds(T) \ gone : x[2] = 1 \/ <<x[1], x[2] - 1>> \in gone}

Foremost(T, heads, x) ==
  \A y \in heads \ {x} :
    \/ Precedes(T[x[1]][x[2]], T[y[1]][y[2]])
    \/ x[1] < y[1] /\ ~ Precedes(T[y[1]][y[2]], T[x[1]][x[2]])

NextPop(T, s) ==
  Append(s, CHOOSE x \in HeadsOf(T, Range(s)) : Foremost(T, HeadsOf(T, Range(s)), x))

LEMMA PoppedExists ==
  ASSUME NEW T, NEW m \in Nat
  PROVE  \E f : f = [n \in 0 .. m |-> IF n = 0 THEN <<>> ELSE NextPop(T, f[n - 1])]
<1> DEFINE Is(f, k) == f = [n \in 0 .. k |-> IF n = 0 THEN <<>> ELSE NextPop(T, f[n - 1])]
           N == {n \in Nat : \E f : Is(f, n)}
<1>1. 0 \in N
  <2>1. Is([n \in 0 .. 0 |-> <<>>], 0)
    OBVIOUS
  <2> QED
    BY <2>1
<1>2. ASSUME NEW k \in Nat, k \in N PROVE k + 1 \in N
  <2>1. PICK f : Is(f, k)
    BY <1>2
  <2> DEFINE g == [n \in 0 .. k + 1 |-> IF n <= k THEN f[n] ELSE NextPop(T, f[k])]
             h == [n \in 0 .. k + 1 |-> IF n = 0 THEN <<>> ELSE NextPop(T, g[n - 1])]
  <2>2. \A n \in 0 .. k : f[n] = IF n = 0 THEN <<>> ELSE NextPop(T, f[n - 1])
    BY <2>1
  <2>3. ASSUME NEW n \in 0 .. k + 1 PROVE g[n] = h[n]
    <3>1. CASE n <= k
      <4>1. n # 0 => g[n - 1] = f[n - 1]
        BY <3>1
      <4> QED
        BY <2>2, <3>1, <4>1
    <3>2. CASE n = k + 1
      <4>1. g[k] = f[k] /\ n # 0 /\ n - 1 = k /\ ~ (n <= k)
        BY <3>2
      <4> QED
        BY <4>1
    <3> QED
      BY <3>1, <3>2
  <2>4. g = h
    BY <2>3
  <2>5. Is(g, k + 1)
    BY <2>4
  <2> HIDE DEF g, h, Is
  <2> QED
    BY <2>5
<1> HIDE DEF N
<1>3. m \in N
  BY <1>1, <1>2, Induction
<1> QED
  BY <1>3 DEF N

(* As long as a triple is left, there is a smallest head.                  *)
PopClosed(gone) == \A x \in gone : \A i \in 1 .. x[2] - 1 : <<x[1], i>> \in gone

LEMMA HeadThere ==
  ASSUME NEW T, TripleLists(T), NEW gone, PopClosed(gone), NEW z \in TripleIds(T), z \notin gone
  PROVE  \E x \in HeadsOf(T, gone) : Foremost(T, HeadsOf(T, gone), x)
<1> DEFINE Ids == TripleIds(T)
           At(x) == T[x[1]][x[2]]
           heads == HeadsOf(T, gone)
<1>1. \A x \in Ids : /\ x = <<x[1], x[2]>> /\ x[1] \in DOMAIN T /\ x[2] \in 1 .. Len(T[x[1]])
                     /\ At(x).current \in Nat /\ At(x).next \in Nat /\ x[1] \in Nat
  BY TripleIdsType DEF TripleLists
<1>2. \A c \in DOMAIN T : Len(T[c]) \in Nat /\ \A j \in 1 .. Len(T[c]) : <<c, j>> \in Ids
  BY TripleIdsType DEF TripleLists
<1>3. \E x \in Ids : x \in heads
  <2> DEFINE c == z[1]
             J == {j \in 1 .. Len(T[c]) : <<c, j>> \notin gone}
  <2>1. z[2] \in J /\ c \in DOMAIN T /\ Len(T[c]) \in Nat
    BY <1>1, <1>2
  <2>2. J \in SUBSET Nat /\ J # {}
    BY <2>1
  <2>3. PICK j \in J : \A i \in J : j <= i
    BY <2>2, Least
  <2>4. j \in 1 .. Len(T[c]) /\ <<c, j>> \in Ids /\ <<c, j>> \notin gone
    BY <1>2, <2>1
  <2>5. j = 1 \/ <<c, j - 1>> \in gone
    <3>1. SUFFICES ASSUME j # 1 PROVE <<c, j - 1>> \in gone
      OBVIOUS
    <3>2. j - 1 \in 1 .. Len(T[c]) /\ ~ (j <= j - 1)
      BY <2>1, <2>4, <3>1
    <3> QED
      BY <2>3, <3>2
  <2>6. <<c, j>> \in heads
    BY <2>4, <2>5 DEF HeadsOf
  <2> QED
    BY <2>4, <2>6
<1>4. heads \subseteq Ids
  BY DEF HeadsOf
<1> HIDE DEF heads
<1> DEFINE A == {At(x).current : x \in heads}
<1>5. PICK a \in A : \A e \in A : a <= e
  <2>1. A \in SUBSET Nat /\ A # {}
    BY <1>1, <1>3, <1>4
  <2> HIDE DEF A
  <2> QED
    BY <2>1, Least
<1> DEFINE HA == {x \in heads : At(x).current = a}
           B == {At(x).next : x \in HA}
<1>6. PICK b \in B : \A e \in B : b <= e
  <2>1. HA # {}
    BY <1>5
  <2>2. B \in SUBSET Nat /\ B # {}
    BY <1>1, <1>4, <2>1
  <2> HIDE DEF B
  <2> QED
    BY <2>2, Least
<1> DEFINE HB == {x \in HA : At(x).next = b}
           C == {x[1] : x \in HB}
<1>7. PICK c \in C : \A e \in C : c <= e
  <2>1. HB # {}
    BY <1>6
  <2>2. C \in SUBSET Nat /\ C # {}
    BY <1>1, <1>4, <2>1
  <2> HIDE DEF C
  <2> QED
    BY <2>2, Least
<1>8. PICK x \in HB : x[1] = c
  BY <1>7
<1>9. ASSUME NEW y \in heads, y # x
      PROVE  Precedes(At(x), At(y)) \/ (x[1] < y[1] /\ ~ Precedes(At(y), At(x)))
  <2>1. /\ At(x).current = a /\ At(x).next = b /\ x[1] = c
        /\ x \in heads
    BY <1>8
  <2>2. /\ a \in Nat /\ b \in Nat /\ c \in Nat
        /\ At(y).current \in Nat /\ At(y).next \in Nat /\ y[1] \in Nat
    BY <1>1, <1>4, <1>9, <2>1
  <2>3. a <= At(y).current
    BY <1>5, <1>9
  <2>4. At(y).current = a => b <= At(y).next
    BY <1>6, <1>9
  <2>5. At(y).current = a /\ At(y).next = b => c <= y[1]
    BY <1>7, <1>9
  <2>6. y[1] # x[1]
    <3> SUFFICES ASSUME y[1] = x[1] PROVE FALSE
      OBVIOUS
    <3>1. /\ x \in Ids /\ x \notin gone /\ (x[2] = 1 \/ <<x[1], x[2] - 1>> \in gone)
          /\ y \in Ids /\ y \notin gone /\ (y[2] = 1 \/ <<y[1], y[2] - 1>> \in gone)
      BY <1>9, <2>1 DEF heads, HeadsOf
    <3>2. /\ x = <<x[1], x[2]>> /\ y = <<x[1], y[2]>> /\ x[2] # y[2]
          /\ x[2] \in Nat /\ y[2] \in Nat /\ 1 <= x[2] /\ 1 <= y[2]
      <4>1. x[2] \in 1 .. Len(T[x[1]]) /\ y[2] \in 1 .. Len(T[x[1]]) /\ Len(T[x[1]]) \in Nat
        BY <1>1, <1>2, <3>1
      <4> QED
        BY <1>1, <1>9, <3>1, <4>1
    <3>3. ~ (x[2] < y[2])
      <4> SUFFICES ASSUME x[2] < y[2] PROVE FALSE
        OBVIOUS
      <4>1. <<x[1], y[2] - 1>> \in gone
        BY <3>1, <3>2
      <4> DEFINE u == <<x[1], y[2] - 1>>
      <4>2. u \in gone /\ u[1] = x[1] /\ u[2] = y[2] - 1
        BY <4>1
      <4> HIDE DEF u
      <4>3. x[2] \in 1 .. u[2] - 1 \/ x[2] = u[2]
        BY <3>2, <4>2
      <4>4. <<x[1], x[2]>> \in gone
        <5>1. CASE x[2] = u[2]
          BY <4>1, <4>2, <5>1
        <5>2. CASE x[2] \in 1 .. u[2] - 1
          BY <4>2, <5>2 DEF PopClosed
        <5> QED
          BY <4>3, <5>1, <5>2
      <4> QED
        BY <3>1, <3>2, <4>4
    <3>4. ~ (y[2] < x[2])
      <4> SUFFICES ASSUME y[2] < x[2] PROVE FALSE
        OBVIOUS
      <4>1. <<x[1], x[2] - 1>> \in gone
        BY <3>1, <3>2
      <4> DEFINE u == <<x[1], x[2] - 1>>
      <4>2. u \in gone /\ u[1] = x[1] /\ u[2] = x[2] - 1
        BY <4>1
      <4> HIDE DEF u
      <4>3. y[2] \in 1 .. u[2] - 1 \/ y[2] = u[2]
        BY <3>2, <4>2
      <4>4. <<x[1], y[2]>> \in gone
        <5>1. CASE y[2] = u[2]
          BY <4>1, <4>2, <5>1
        <5>2. CASE y[2] \in 1 .. u[2] - 1
          BY <4>2, <5>2 DEF PopClosed
        <5> QED
          BY <4>3, <5>1, <5>2
      <4> QED
        BY <3>1, <3>2, <4>4
    <3> QED
      BY <3>2, <3>3, <3>4
  <2> HIDE DEF At
  <2> QED
    BY <2>1, <2>2, <2>3, <2>4, <2>5, <2>6 DEF Precedes
<1> QED
  BY <1>8, <1>9 DEF Foremost, heads

(* What the heap has let go so far: each triple was the foremost of those  *)
(* that were next in their chunks.                                         *)
PoppedBefore(s, n) == {s[k] : k \in 1 .. n - 1}

Popping(T, s) ==
  /\ s \in Seq(TripleIds(T))
  /\ \A i, j \in 1 .. Len(s) : s[i] = s[j] => i = j
  /\ \A n \in 1 .. Len(s) :
       /\ s[n] \in HeadsOf(T, PoppedBefore(s, n)) /\ Foremost(T, HeadsOf(T, PoppedBefore(s, n)), s[n])
       /\ \A i \in 1 .. s[n][2] - 1 : <<s[n][1], i>> \in PoppedBefore(s, n)

LEMMA PopStep ==
  ASSUME NEW T, TripleLists(T), NEW s, Popping(T, s), Len(s) < Cardinality(TripleIds(T))
  PROVE  Popping(T, NextPop(T, s)) /\ Len(NextPop(T, s)) = Len(s) + 1
<1> DEFINE Ids == TripleIds(T)
           gone == Range(s)
           n == Len(s)
           heads == HeadsOf(T, gone)
           r == NextPop(T, s)
<1>1. /\ s \in Seq(Ids) /\ n \in Nat /\ DOMAIN s = 1 .. n /\ gone = {s[k] : k \in 1 .. n}
      /\ \A k \in 1 .. n : s[k] \in Ids
  BY DEF Popping, Range
<1>2. \A x \in Ids : x = <<x[1], x[2]>> /\ x[2] \in Nat /\ 1 <= x[2]
  <2> SUFFICES ASSUME NEW x \in Ids PROVE x = <<x[1], x[2]>> /\ x[2] \in Nat /\ 1 <= x[2]
    OBVIOUS
  <2>1. x = <<x[1], x[2]>> /\ x[1] \in DOMAIN T /\ x[2] \in 1 .. Len(T[x[1]])
    BY TripleIdsType
  <2>2. Len(T[x[1]]) \in Nat
    BY <2>1 DEF TripleLists
  <2> QED
    BY <2>1, <2>2
<1>3. PopClosed(gone)
  <2> SUFFICES ASSUME NEW x \in gone, NEW i \in 1 .. x[2] - 1 PROVE <<x[1], i>> \in gone
    BY DEF PopClosed
  <2>1. PICK k \in 1 .. n : x = s[k]
    BY <1>1
  <2>2. <<x[1], i>> \in PoppedBefore(s, k)
    BY <2>1 DEF Popping
  <2>3. PICK j \in 1 .. k - 1 : <<x[1], i>> = s[j]
    BY <2>2 DEF PoppedBefore
  <2>4. j \in 1 .. n
    BY <1>1
  <2> QED
    BY <1>1, <2>3, <2>4
<1>4. PICK z \in Ids : z \notin gone
  <2> SUFFICES ASSUME Ids \subseteq gone PROVE FALSE
    OBVIOUS
  <2>1. s \in Surjection(1 .. n, gone)
    BY <1>1 DEF Surjection
  <2>2. IsFiniteSet(1 .. n) /\ Cardinality(1 .. n) = n
    BY <1>1, FirstNumbers
  <2>3. IsFiniteSet(gone) /\ Cardinality(gone) <= n
    BY <2>1, <2>2, FS_Surjection
  <2>4. gone = Ids
    BY <1>1
  <2>5. n < Cardinality(Ids) /\ Cardinality(Ids) \in Nat
    BY TripleIdsType, FS_CardinalityType
  <2>6. Cardinality(Ids) <= n
    BY <2>3, <2>4
  <2> HIDE DEF n, Ids
  <2> QED
    BY <1>1, <2>5, <2>6
<1> DEFINE x == CHOOSE y \in heads : Foremost(T, heads, y)
<1>5. x \in heads /\ Foremost(T, heads, x)
  <2>1. \E y \in heads : Foremost(T, heads, y)
    BY <1>3, <1>4, HeadThere
  <2> QED
    BY <2>1
<1>6. r = Append(s, x)
  BY DEF NextPop
<1> HIDE DEF x, r
<1>7. x \in Ids /\ x \notin gone /\ (x[2] = 1 \/ <<x[1], x[2] - 1>> \in gone)
  BY <1>5 DEF HeadsOf
<1>8. /\ r \in Seq(Ids) /\ Len(r) = n + 1 /\ r[n + 1] = x
      /\ \A k \in 1 .. n : r[k] = s[k]
  BY <1>1, <1>6, <1>7
<1>9. \A m \in 1 .. n + 1 : PoppedBefore(r, m) = PoppedBefore(s, m)
  <2> SUFFICES ASSUME NEW m \in 1 .. n + 1 PROVE PoppedBefore(r, m) = PoppedBefore(s, m)
    OBVIOUS
  <2>1. \A k \in 1 .. m - 1 : r[k] = s[k]
    BY <1>1, <1>8
  <2> QED
    BY <2>1 DEF PoppedBefore
<1>10. PoppedBefore(s, n + 1) = gone
  <2>1. (n + 1) - 1 = n
    BY <1>1
  <2> QED
    BY <1>1, <2>1 DEF PoppedBefore
<1>11. \A i \in 1 .. x[2] - 1 : <<x[1], i>> \in gone
  <2> SUFFICES ASSUME NEW i \in 1 .. x[2] - 1 PROVE <<x[1], i>> \in gone
    OBVIOUS
  <2> DEFINE u == <<x[1], x[2] - 1>>
  <2>1. u \in gone /\ u[1] = x[1] /\ u[2] = x[2] - 1
    BY <1>2, <1>7
  <2> HIDE DEF u
  <2>2. i = u[2] \/ i \in 1 .. u[2] - 1
    BY <1>2, <1>7, <2>1
  <2>3. u = <<x[1], u[2]>>
    BY <2>1 DEF u
  <2> QED
    BY <1>3, <2>1, <2>2, <2>3 DEF PopClosed
<1>12. ASSUME NEW i \in 1 .. n + 1, NEW j \in 1 .. n + 1, r[i] = r[j] PROVE i = j
  <2>1. i \in 1 .. n \/ i = n + 1
    BY <1>1
  <2>2. j \in 1 .. n \/ j = n + 1
    BY <1>1
  <2>3. \A k \in 1 .. n : r[k] # x
    BY <1>1, <1>7, <1>8
  <2>4. \A k, l \in 1 .. n : r[k] = r[l] => k = l
    BY <1>8 DEF Popping
  <2> QED
    BY <1>8, <1>12, <2>1, <2>2, <2>3, <2>4
<1>13. ASSUME NEW m \in 1 .. n + 1
       PROVE  /\ r[m] \in HeadsOf(T, PoppedBefore(r, m)) /\ Foremost(T, HeadsOf(T, PoppedBefore(r, m)), r[m])
              /\ \A i \in 1 .. r[m][2] - 1 : <<r[m][1], i>> \in PoppedBefore(r, m)
  <2>1. CASE m = n + 1
    BY <1>5, <1>8, <1>9, <1>10, <1>11, <2>1
  <2>2. CASE m \in 1 .. n
    <3>1. r[m] = s[m] /\ PoppedBefore(r, m) = PoppedBefore(s, m)
      BY <1>8, <1>9, <2>2
    <3> QED
      BY <2>2, <3>1 DEF Popping
  <2>3. m = n + 1 \/ m \in 1 .. n
    BY <1>1
  <2> QED
    BY <2>1, <2>2, <2>3
<1>14. Popping(T, r)
  BY <1>8, <1>12, <1>13 DEF Popping
<1> QED
  BY <1>8, <1>14 DEF r

(* Every triple leaves the heap, once.                                     *)
LEMMA PopOrderGoes ==
  ASSUME NEW T, TripleLists(T)
  PROVE  /\ Popping(T, PopOrder(T))
         /\ \A x \in TripleIds(T) : \E n \in 1 .. Len(PopOrder(T)) : PopOrder(T)[n] = x
<1> DEFINE Ids == TripleIds(T)
           N == Cardinality(Ids)
           Is(f) == f = [n \in 0 .. N |-> IF n = 0 THEN <<>> ELSE NextPop(T, f[n - 1])]
           popped == CHOOSE f : Is(f)
<1>1. IsFiniteSet(Ids) /\ N \in Nat
  BY TripleIdsType, FS_CardinalityType
<1>2. Is(popped)
  <2>1. \E f : Is(f)
    BY <1>1, PoppedExists
  <2> QED
    BY <2>1
<1>3. PopOrder(T) = popped[N]
  BY DEF PopOrder, NextPop, HeadsOf, Foremost
<1> HIDE DEF popped
<1>4. \A n \in 0 .. N : popped[n] = IF n = 0 THEN <<>> ELSE NextPop(T, popped[n - 1])
  BY <1>2
<1> HIDE DEF Is
<1> DEFINE D == {n \in Nat : n <= N => Popping(T, popped[n]) /\ Len(popped[n]) = n}
<1>5. 0 \in D
  <2>1. popped[0] = <<>>
    BY <1>1, <1>4
  <2>2. Popping(T, <<>>)
    BY DEF Popping
  <2>3. Len(<<>>) = 0
    OBVIOUS
  <2>4. Popping(T, popped[0]) /\ Len(popped[0]) = 0
    BY <2>1, <2>2, <2>3, Zenon
  <2> QED
    BY <2>4
<1>6. ASSUME NEW n \in Nat, n \in D PROVE n + 1 \in D
  <2>1. SUFFICES ASSUME n + 1 <= N
                 PROVE  Popping(T, popped[n + 1]) /\ Len(popped[n + 1]) = n + 1
    OBVIOUS
  <2>2. n < N /\ n + 1 \in 0 .. N /\ n + 1 # 0 /\ (n + 1) - 1 = n
    BY <1>1, <2>1
  <2>3. Popping(T, popped[n]) /\ Len(popped[n]) = n
    BY <1>1, <1>6, <2>2
  <2>4. popped[n + 1] = NextPop(T, popped[n])
    BY <1>4, <2>2
  <2> QED
    BY <2>2, <2>3, <2>4, PopStep
<1> HIDE DEF D
<1>7. N \in D
  BY <1>1, <1>5, <1>6, Induction
<1>8. Popping(T, popped[N]) /\ Len(popped[N]) = N
  BY <1>1, <1>7 DEF D
<1> DEFINE s == popped[N]
           R == {s[k] : k \in 1 .. N}
<1>9. R = Ids
  <2>1. /\ DOMAIN s = 1 .. N /\ R \in SUBSET Ids /\ \A i, j \in 1 .. N : s[i] = s[j] => i = j
        /\ s \in Seq(Ids)
    BY <1>8 DEF Popping
  <2>2. s \in Surjection(1 .. N, R) /\ s \in Injection(1 .. N, R)
    <3>1. s \in [1 .. N -> Ids] /\ \A k \in 1 .. N : s[k] \in R
      <4>1. Len(s) = N /\ s \in Seq(Ids)
        BY <1>8, <2>1
      <4>2. \A k \in 1 .. N : s[k] \in R
        OBVIOUS
      <4> HIDE DEF s, R, Ids, N
      <4> QED
        BY <4>1, <4>2
    <3>2. \A y \in R : \E k \in 1 .. N : s[k] = y
      OBVIOUS
    <3> HIDE DEF s, R
    <3>3. s \in [1 .. N -> R]
      BY <3>1
    <3>4. s \in Surjection(1 .. N, R)
      BY <3>2, <3>3 DEF Surjection
    <3>5. s \in Injection(1 .. N, R)
      BY <2>1, <3>3 DEF Injection, IsInjective
    <3> QED
      BY <3>4, <3>5
  <2>3. IsFiniteSet(1 .. N) /\ Cardinality(1 .. N) = N
    BY <1>1, FirstNumbers
  <2> HIDE DEF s, R
  <2>4. Cardinality(R) = N
    BY <2>2, <2>3, FS_Surjection
  <2> QED
    BY <1>1, <2>1, <2>4, FS_Subset
<1> QED
  BY <1>3, <1>8, <1>9

-----------------------------------------------------------------------------
(* What merge writes for the n-th triple that it takes.                    *)
Popped(T, n) == T[PopOrder(T)[n][1]][PopOrder(T)[n][2]]

InGroup(T, n) == n > 1 /\ Popped(T, n).current = Popped(T, n - 1).current

InPair(T, n) == InGroup(T, n) /\ Popped(T, n).next = Popped(T, n - 1).next

GroupFrom(T, n) == Max({m \in 1 .. n : ~ InGroup(T, m)})

PairFrom(T, n) == Max({m \in 1 .. n : ~ InPair(T, m)})

CountedOf(T, m, n) == Total(T, {PopOrder(T)[k] : k \in m .. n})

AloneAt(T, n) ==
  CountedOf(T, PairFrom(T, n), n) = 1 /\ ~ (n < Len(PopOrder(T)) /\ InPair(T, n + 1))

RunAt(T, n) ==
  [rank  |-> Popped(T, n).current + CountedOf(T, GroupFrom(T, n), PairFrom(T, n) - 1),
   count |-> IF AloneAt(T, n) THEN 0 ELSE Popped(T, n).count]

LEMMA MergedIs ==
  ASSUME NEW T
  PROVE  MergedInTurn(T) =
           [c \in DOMAIN T |->
             Selected([n \in DOMAIN PopOrder(T) |-> RunAt(T, n)],
                      {n \in DOMAIN PopOrder(T) : PopOrder(T)[n][1] = c})]
  BY DEF MergedInTurn, Popped, InGroup, InPair, GroupFrom, PairFrom, CountedOf, AloneAt, RunAt,
         Total

LEMMA PoppedType ==
  ASSUME NEW T, TripleLists(T)
  PROVE  /\ PopOrder(T) \in Seq(TripleIds(T))
         /\ Len(PopOrder(T)) \in Nat /\ DOMAIN PopOrder(T) = 1 .. Len(PopOrder(T))
         /\ \A n \in 1 .. Len(PopOrder(T)) :
              LET x == PopOrder(T)[n]
              IN  /\ x \in TripleIds(T) /\ x = <<x[1], x[2]>>
                  /\ x[1] \in DOMAIN T /\ x[2] \in 1 .. Len(T[x[1]])
                  /\ Popped(T, n) = T[x[1]][x[2]] /\ Popped(T, n) \in TripleSet
                  /\ Popped(T, n).current \in Nat /\ Popped(T, n).next \in Nat
                  /\ Popped(T, n).count \in Nat \ {0}
<1>1. PopOrder(T) \in Seq(TripleIds(T))
  BY PopOrderGoes DEF Popping
<1>2. Len(PopOrder(T)) \in Nat /\ DOMAIN PopOrder(T) = 1 .. Len(PopOrder(T))
  BY <1>1
<1>3. ASSUME NEW n \in 1 .. Len(PopOrder(T)), NEW x, x = PopOrder(T)[n]
      PROVE  /\ x \in TripleIds(T) /\ x = <<x[1], x[2]>>
             /\ x[1] \in DOMAIN T /\ x[2] \in 1 .. Len(T[x[1]])
             /\ Popped(T, n) = T[x[1]][x[2]] /\ Popped(T, n) \in TripleSet
             /\ Popped(T, n).current \in Nat /\ Popped(T, n).next \in Nat
             /\ Popped(T, n).count \in Nat \ {0}
  <2>1. x \in TripleIds(T)
    BY <1>1, <1>3
  <2>2. Popped(T, n) = T[x[1]][x[2]]
    BY <1>3 DEF Popped
  <2> QED
    BY <2>1, <2>2, TripleIdsType
<1> QED
  BY <1>1, <1>2, <1>3

(* Where a group and a pair start among what was taken.                    *)
LEMMA Starts ==
  ASSUME NEW T, TripleLists(T), NEW n \in 1 .. Len(PopOrder(T))
  PROVE  /\ GroupFrom(T, n) \in 1 .. n /\ ~ InGroup(T, GroupFrom(T, n))
         /\ \A m \in GroupFrom(T, n) + 1 .. n : InGroup(T, m)
         /\ PairFrom(T, n) \in 1 .. n /\ ~ InPair(T, PairFrom(T, n))
         /\ \A m \in PairFrom(T, n) + 1 .. n : InPair(T, m)
<1>1. Len(PopOrder(T)) \in Nat
  BY PoppedType
<1>2. n \in Nat /\ 1 \in 1 .. n
  BY <1>1
<1>3. ASSUME NEW Q \in SUBSET (1 .. n), 1 \notin Q, NEW x, x = Max({m \in 1 .. n : m \notin Q})
      PROVE  x \in 1 .. n /\ x \notin Q /\ \A m \in x + 1 .. n : m \in Q
  <2> DEFINE F == {m \in 1 .. n : m \notin Q}
  <2>1. F \in SUBSET (0 .. n) /\ F # {}
    BY <1>2, <1>3
  <2>2. Max(F) \in F /\ F \subseteq Min(F) .. Max(F)
    BY <1>2, <2>1, Extremes
  <2>3. x \in F /\ \A m \in F : m <= x
    BY <1>3, <2>2
  <2>4. \A m \in x + 1 .. n : m \in 1 .. n /\ ~ (m <= x)
    BY <1>2, <2>3
  <2> QED
    BY <2>3, <2>4
<1>4. ~ InGroup(T, 1) /\ ~ InPair(T, 1)
  BY DEF InGroup, InPair
<1> DEFINE G == {m \in 1 .. n : InGroup(T, m)}
           P == {m \in 1 .. n : InPair(T, m)}
<1>5. {m \in 1 .. n : m \notin G} = {m \in 1 .. n : ~ InGroup(T, m)}
  OBVIOUS
<1>6. {m \in 1 .. n : m \notin P} = {m \in 1 .. n : ~ InPair(T, m)}
  OBVIOUS
<1>7. 1 \notin G /\ 1 \notin P /\ G \in SUBSET (1 .. n) /\ P \in SUBSET (1 .. n)
  BY <1>4
<1>8. /\ GroupFrom(T, n) = Max({m \in 1 .. n : m \notin G})
      /\ PairFrom(T, n) = Max({m \in 1 .. n : m \notin P})
  BY <1>5, <1>6 DEF GroupFrom, PairFrom
<1>9. \A x : x \in 1 .. n => (x \notin G <=> ~ InGroup(T, x)) /\ (x \notin P <=> ~ InPair(T, x))
  OBVIOUS
<1> HIDE DEF G, P
<1>10. /\ GroupFrom(T, n) \in 1 .. n /\ GroupFrom(T, n) \notin G
       /\ \A m \in GroupFrom(T, n) + 1 .. n : m \in G
  BY <1>3, <1>7, <1>8
<1>11. /\ PairFrom(T, n) \in 1 .. n /\ PairFrom(T, n) \notin P
       /\ \A m \in PairFrom(T, n) + 1 .. n : m \in P
  BY <1>3, <1>7, <1>8
<1> QED
  BY <1>9, <1>10, <1>11 DEF G, P

LEMMA CountedType ==
  ASSUME NEW T, TripleLists(T), NEW n \in 1 .. Len(PopOrder(T)),
         NEW a \in Nat \ {0}, NEW b \in Int, b <= n
  PROVE  CountedOf(T, a, b) \in Nat
<1>1. Len(PopOrder(T)) \in Nat /\ \A k \in 1 .. Len(PopOrder(T)) : PopOrder(T)[k] \in TripleIds(T)
  BY PoppedType
<1>2. \A k \in a .. b : k \in 1 .. Len(PopOrder(T))
  BY <1>1
<1>3. {PopOrder(T)[k] : k \in a .. b} \in SUBSET TripleIds(T)
  BY <1>1, <1>2
<1> QED
  BY <1>3, TotalType DEF CountedOf

(* Whatever the order of the streams, runs are written.                    *)
LEMMA MergedType ==
  ASSUME NEW T, TripleLists(T)
  PROVE  /\ DOMAIN MergedInTurn(T) = DOMAIN T
         /\ \A c \in DOMAIN T : MergedInTurn(T)[c] \in Seq(RunSet(Nat))
<1> DEFINE s == PopOrder(T)
           N == Len(s)
           runs == [n \in 1 .. N |-> RunAt(T, n)]
<1>1. N \in Nat /\ DOMAIN s = 1 .. N
  BY PoppedType
<1>2. ASSUME NEW n \in 1 .. N PROVE RunAt(T, n) \in RunSet(Nat)
  <2>1. Popped(T, n).current \in Nat /\ Popped(T, n).count \in Nat
    BY PoppedType
  <2>2. /\ GroupFrom(T, n) \in 1 .. n /\ PairFrom(T, n) \in 1 .. n
    BY Starts
  <2>3. n \in Nat
    BY <1>1
  <2> DEFINE a == GroupFrom(T, n)
             b == PairFrom(T, n) - 1
  <2>4. a \in Nat \ {0} /\ b \in Int /\ b <= n
    BY <2>2, <2>3
  <2> HIDE DEF a, b
  <2>5. CountedOf(T, a, b) \in Nat
    BY <2>4, CountedType
  <2>6. RunAt(T, n).rank \in Nat /\ RunAt(T, n).count \in Nat
    BY <2>1, <2>5 DEF RunAt, a, b
  <2> QED
    BY <2>6 DEF RunAt, RunSet
<1>3. runs \in Seq(RunSet(Nat)) /\ Len(runs) = N
  BY <1>1, <1>2
<1>4. MergedInTurn(T) = [c \in DOMAIN T |-> Selected(runs, {n \in 1 .. N : s[n][1] = c})]
  BY <1>1, MergedIs
<1>5. ASSUME NEW c \in DOMAIN T PROVE MergedInTurn(T)[c] \in Seq(RunSet(Nat))
  <2> DEFINE K == {n \in 1 .. N : s[n][1] = c}
  <2>1. K \in SUBSET (1 .. Len(runs))
    BY <1>3
  <2> HIDE DEF K, runs
  <2>2. Selected(runs, K) \in Seq(RunSet(Nat))
    BY <1>3, <2>1, SelectedLists
  <2> QED
    BY <1>4, <2>2 DEF K
<1> QED
  BY <1>4, <1>5

-----------------------------------------------------------------------------
(* On streams that are in order the triples leave in order.                *)
Ordered(T) == \A c \in DOMAIN T : \A j \in 2 .. Len(T[c]) : Precedes(T[c][j - 1], T[c][j])

LEMMA NextNotBefore ==
  ASSUME NEW T, TripleLists(T), Ordered(T), NEW n \in 2 .. Len(PopOrder(T))
  PROVE  ~ Precedes(Popped(T, n), Popped(T, n - 1))
<1> DEFINE s == PopOrder(T)
           m == n - 1
           x == s[m]
           y == s[n]
           gone == PoppedBefore(s, m)
<1>1. n \in 1 .. Len(s) /\ m \in 1 .. Len(s) /\ m \in Nat /\ n = m + 1
  BY PoppedType
<1>2. /\ Popped(T, n) = T[y[1]][y[2]] /\ Popped(T, m) = T[x[1]][x[2]]
      /\ Popped(T, n).current \in Nat /\ Popped(T, n).next \in Nat
      /\ Popped(T, m).current \in Nat /\ Popped(T, m).next \in Nat
      /\ y = <<y[1], y[2]>> /\ y[1] \in DOMAIN T /\ y[2] \in 1 .. Len(T[y[1]])
      /\ y \in TripleIds(T)
  BY <1>1, PoppedType
<1>3. Popping(T, s)
  BY PopOrderGoes
<1>4. /\ y \in HeadsOf(T, PoppedBefore(s, n))
      /\ Foremost(T, HeadsOf(T, gone), x)
      /\ y # x
  <2>1. y # x
    BY <1>1, <1>3 DEF Popping
  <2> QED
    BY <1>1, <1>3, <2>1 DEF Popping
<1>5. PoppedBefore(s, n) = gone \cup {x}
  <2>1. \A k : k \in 1 .. n - 1 <=> k \in 1 .. m - 1 \/ k = m
    BY <1>1
  <2> QED
    BY <2>1 DEF PoppedBefore
<1> DEFINE t == T[x[1]][x[2]]
           u == T[y[1]][y[2]]
<1>6. CASE y \in HeadsOf(T, gone)
  <2>1. Precedes(t, u) \/ ~ Precedes(u, t)
    BY <1>4, <1>6 DEF Foremost
  <2> HIDE DEF t, u
  <2>2. ~ Precedes(u, t)
    BY <1>2, <2>1 DEF Precedes, t, u
  <2> QED
    BY <1>2, <2>2 DEF t, u
<1>7. CASE y \notin HeadsOf(T, gone)
  <2>1. y[2] # 1 /\ <<y[1], y[2] - 1>> = x
    BY <1>4, <1>5, <1>7 DEF HeadsOf
  <2>2. x[1] = y[1] /\ x[2] = y[2] - 1
    BY <2>1
  <2>3. y[2] \in 2 .. Len(T[y[1]])
    <3>1. Len(T[y[1]]) \in Nat
      BY <1>2 DEF TripleLists
    <3> QED
      BY <1>2, <2>1, <3>1
  <2>4. Precedes(t, u)
    BY <1>2, <2>2, <2>3 DEF Ordered
  <2> HIDE DEF t, u
  <2>5. ~ Precedes(u, t)
    BY <1>2, <2>4 DEF Precedes, t, u
  <2> QED
    BY <1>2, <2>5 DEF t, u
<1> QED
  BY <1>6, <1>7

LEMMA PoppedInOrder ==
  ASSUME NEW T, TripleLists(T), Ordered(T),
         NEW a \in 1 .. Len(PopOrder(T)), NEW b \in 1 .. Len(PopOrder(T)), a <= b
  PROVE  ~ Precedes(Popped(T, b), Popped(T, a))
<1> DEFINE N == Len(PopOrder(T))
           D == {d \in Nat : a + d \in 1 .. N => ~ Precedes(Popped(T, a + d), Popped(T, a))}
<1>1. N \in Nat /\ \A k \in 1 .. N : Popped(T, k).current \in Nat /\ Popped(T, k).next \in Nat
  BY PoppedType
<1>2. a \in Nat /\ b \in Nat
  BY <1>1
<1>3. 0 \in D
  <2>1. a + 0 = a /\ Popped(T, a).current \in Nat /\ Popped(T, a).next \in Nat
    BY <1>1, <1>2
  <2> QED
    BY <2>1 DEF Precedes
<1>4. ASSUME NEW d \in Nat, d \in D PROVE d + 1 \in D
  <2>1. SUFFICES ASSUME a + (d + 1) \in 1 .. N
                 PROVE  ~ Precedes(Popped(T, a + (d + 1)), Popped(T, a))
    OBVIOUS
  <2> DEFINE k == a + d
             l == a + (d + 1)
  <2>2. k \in 1 .. N /\ l \in 2 .. N /\ l - 1 = k /\ l \in 1 .. N
    BY <1>1, <1>2, <2>1
  <2>3. ~ Precedes(Popped(T, k), Popped(T, a))
    BY <1>4, <2>2
  <2>4. ~ Precedes(Popped(T, l), Popped(T, l - 1))
    BY <2>2, NextNotBefore
  <2> HIDE DEF k, l
  <2>5. ~ Precedes(Popped(T, l), Popped(T, k))
    BY <2>2, <2>4
  <2>6. ~ Precedes(Popped(T, l), Popped(T, a))
    BY <1>1, <2>2, <2>3, <2>5 DEF Precedes
  <2> QED
    BY <2>6 DEF l
<1> HIDE DEF D
<1>5. b - a \in D
  <2>1. b - a \in Nat
    BY <1>2
  <2> QED
    BY <1>3, <1>4, <2>1, Induction
<1>6. a + (b - a) = b
  BY <1>2
<1> QED
  BY <1>1, <1>5, <1>6 DEF D

(* The triples that belong to a taken one's group before its pair, and to  *)
(* its pair, in what was taken.                                            *)
LEMMA Neighbourhood ==
  ASSUME NEW T, TripleLists(T), Ordered(T), NEW n \in 1 .. Len(PopOrder(T))
  PROVE  /\ GroupBefore(T, Popped(T, n)) =
              {PopOrder(T)[k] : k \in GroupFrom(T, n) .. PairFrom(T, n) - 1}
         /\ ~ (n < Len(PopOrder(T)) /\ InPair(T, n + 1)) =>
              SamePairs(T, Popped(T, n)) = {PopOrder(T)[k] : k \in PairFrom(T, n) .. n}
         /\ n < Len(PopOrder(T)) /\ InPair(T, n + 1) =>
              {PopOrder(T)[n], PopOrder(T)[n + 1]} \subseteq SamePairs(T, Popped(T, n))
<1> DEFINE s == PopOrder(T)
           N == Len(s)
           cur(k) == Popped(T, k).current
           nxt(k) == Popped(T, k).next
           g == GroupFrom(T, n)
           p == PairFrom(T, n)
<1>1. /\ N \in Nat /\ n \in Nat
      /\ \A k \in 1 .. N : /\ s[k] \in TripleIds(T) /\ Popped(T, k) = T[s[k][1]][s[k][2]]
                           /\ cur(k) \in Nat /\ nxt(k) \in Nat
  BY PoppedType
<1>2. /\ g \in 1 .. n /\ ~ InGroup(T, g) /\ \A m \in g + 1 .. n : InGroup(T, m)
      /\ p \in 1 .. n /\ ~ InPair(T, p) /\ \A m \in p + 1 .. n : InPair(T, m)
  BY Starts
<1>3. \A a, b \in 1 .. N : a <= b =>
        cur(a) < cur(b) \/ (cur(a) = cur(b) /\ nxt(a) <= nxt(b))
  <2> SUFFICES ASSUME NEW a \in 1 .. N, NEW b \in 1 .. N, a <= b
               PROVE  cur(a) < cur(b) \/ (cur(a) = cur(b) /\ nxt(a) <= nxt(b))
    OBVIOUS
  <2>1. ~ Precedes(Popped(T, b), Popped(T, a))
    BY PoppedInOrder
  <2>2. cur(a) \in Nat /\ cur(b) \in Nat /\ nxt(a) \in Nat /\ nxt(b) \in Nat
    BY <1>1
  <2> QED
    BY <2>1, <2>2 DEF Precedes
<1>4. \A k : InGroup(T, k) <=> k > 1 /\ cur(k) = cur(k - 1)
  BY DEF InGroup
<1>5. \A k : InPair(T, k) <=> k > 1 /\ cur(k) = cur(k - 1) /\ nxt(k) = nxt(k - 1)
  BY DEF InPair, InGroup
<1>6. \A x : x \in TripleIds(T) <=> \E k \in 1 .. N : x = s[k]
  BY <1>1, PopOrderGoes
<1>7. ASSUME NEW x
      PROVE  /\ x \in GroupBefore(T, Popped(T, n)) <=>
                  \E k \in 1 .. N : x = s[k] /\ cur(k) = cur(n) /\ nxt(k) < nxt(n)
             /\ x \in SamePairs(T, Popped(T, n)) <=>
                  \E k \in 1 .. N : x = s[k] /\ cur(k) = cur(n) /\ nxt(k) = nxt(n)
  <2> DEFINE c == T[x[1]][x[2]].current
             d == T[x[1]][x[2]].next
  <2>1. /\ x \in GroupBefore(T, Popped(T, n)) <=>
             x \in TripleIds(T) /\ c = cur(n) /\ d < nxt(n)
        /\ x \in SamePairs(T, Popped(T, n)) <=>
             x \in TripleIds(T) /\ c = cur(n) /\ d = nxt(n)
    BY DEF GroupBefore, SamePairs
  <2>2. \A k \in 1 .. N : x = s[k] => c = cur(k) /\ d = nxt(k)
    BY <1>1
  <2> HIDE DEF c, d, cur, nxt, s, N
  <2> QED
    BY <1>6, <2>1, <2>2
<1> HIDE DEF cur, nxt, s, g, p, N
(* From the start of the group on there is one current rank, from the      *)
(* start of the pair on one next rank; before them there is another one.   *)
<1>8. ASSUME NEW k \in 1 .. n
      PROVE  /\ k >= g <=> cur(k) = cur(n)
             /\ k >= p <=> cur(k) = cur(n) /\ nxt(k) = nxt(n)
  <2>0. k \in Nat /\ k \in 1 .. N /\ n \in 1 .. N
    BY <1>1 DEF N, s
  <2> DEFINE D == {d \in Nat : /\ n - d >= g => cur(n - d) = cur(n)
                               /\ n - d >= p => cur(n - d) = cur(n) /\ nxt(n - d) = nxt(n)}
  <2>1. 0 \in D
    <3>1. n - 0 = n
      BY <1>1
    <3> QED
      BY <3>1
  <2>2. ASSUME NEW d \in Nat, d \in D PROVE d + 1 \in D
    <3> DEFINE a == n - d
               b == n - (d + 1)
    <3>1. b = a - 1 /\ a \in Int /\ g \in Nat /\ p \in Nat /\ 1 <= g /\ 1 <= p /\ a <= n
      BY <1>1, <1>2
    <3>2. /\ a >= g => cur(a) = cur(n)
          /\ a >= p => cur(a) = cur(n) /\ nxt(a) = nxt(n)
      BY <2>2
    <3> HIDE DEF a, b
    <3>3. b >= g => cur(b) = cur(n)
      <4> SUFFICES ASSUME b >= g PROVE cur(b) = cur(n)
        OBVIOUS
      <4>1. a \in g + 1 .. n /\ a >= g
        BY <3>1
      <4>2. cur(a) = cur(a - 1)
        BY <1>2, <1>4, <4>1
      <4> QED
        BY <3>1, <3>2, <4>1, <4>2
    <3>4. b >= p => cur(b) = cur(n) /\ nxt(b) = nxt(n)
      <4> SUFFICES ASSUME b >= p PROVE cur(b) = cur(n) /\ nxt(b) = nxt(n)
        OBVIOUS
      <4>1. a \in p + 1 .. n /\ a >= p
        BY <3>1
      <4>2. cur(a) = cur(a - 1) /\ nxt(a) = nxt(a - 1)
        BY <1>2, <1>5, <4>1
      <4> QED
        BY <3>1, <3>2, <4>1, <4>2
    <3> QED
      BY <3>3, <3>4 DEF b
  <2> HIDE DEF D
  <2>3. n - k \in D
    <3>1. n - k \in Nat
      BY <1>1, <2>0
    <3> QED
      BY <2>1, <2>2, <3>1, Induction
  <2>4. n - (n - k) = k
    BY <1>1, <2>0
  <2>5. /\ k >= g => cur(k) = cur(n)
        /\ k >= p => cur(k) = cur(n) /\ nxt(k) = nxt(n)
    BY <2>3, <2>4 DEF D
  <2>6. g \in Nat /\ p \in Nat /\ 1 <= g /\ 1 <= p /\ g <= n /\ p <= n
    BY <1>1, <1>2
  <2>7. ASSUME k < g PROVE cur(k) # cur(n)
    <3>1. g - 1 \in 1 .. N /\ g \in 1 .. N /\ k <= g - 1 /\ g - 1 <= g /\ g <= n /\ g > 1
      BY <1>1, <2>0, <2>6, <2>7
    <3>2. cur(g) # cur(g - 1)
      BY <1>2, <1>4, <3>1
    <3> DEFINE c1 == cur(k)
               c2 == cur(g - 1)
               c3 == cur(g)
               c4 == cur(n)
    <3>3. c1 <= c2 /\ c2 <= c3 /\ c3 <= c4 /\ c2 # c3
          /\ c1 \in Nat /\ c2 \in Nat /\ c3 \in Nat /\ c4 \in Nat
      <4>1. c1 \in Nat /\ c2 \in Nat /\ c3 \in Nat /\ c4 \in Nat
        BY <1>1, <2>0, <3>1
      <4>2. c1 < c2 \/ c1 = c2
        BY <1>3, <2>0, <3>1
      <4>3. c2 < c3 \/ c2 = c3
        BY <1>3, <3>1
      <4>4. c3 < c4 \/ c3 = c4
        BY <1>3, <2>0, <3>1
      <4> HIDE DEF c1, c2, c3, c4
      <4>5. c2 # c3
        BY <3>2 DEF c2, c3
      <4> QED
        BY <4>1, <4>2, <4>3, <4>4, <4>5
    <3> HIDE DEF c1, c2, c3, c4
    <3>4. c1 # c4
      BY <3>3
    <3> QED
      BY <3>4 DEF c1, c4
  <2>8. ASSUME k < p PROVE ~ (cur(k) = cur(n) /\ nxt(k) = nxt(n))
    <3> SUFFICES ASSUME cur(k) = cur(n), nxt(k) = nxt(n) PROVE FALSE
      OBVIOUS
    <3>1. p - 1 \in 1 .. N /\ p \in 1 .. N /\ k <= p - 1 /\ p - 1 <= p /\ p <= n /\ p > 1
      BY <1>1, <2>0, <2>6, <2>8
    <3>2. ~ (cur(p) = cur(p - 1) /\ nxt(p) = nxt(p - 1))
      BY <1>2, <1>5, <3>1
    <3> DEFINE c1 == cur(k)
               c2 == cur(p - 1)
               c3 == cur(p)
               d1 == nxt(k)
               d2 == nxt(p - 1)
               d3 == nxt(p)
               c4 == cur(n)
               d4 == nxt(n)
    <3>3. /\ c1 \in Nat /\ c2 \in Nat /\ c3 \in Nat /\ c4 \in Nat
          /\ d1 \in Nat /\ d2 \in Nat /\ d3 \in Nat /\ d4 \in Nat
      BY <1>1, <2>0, <3>1
    <3>4. c1 < c2 \/ (c1 = c2 /\ d1 <= d2)
      BY <1>3, <2>0, <3>1
    <3>5. c2 < c3 \/ (c2 = c3 /\ d2 <= d3)
      BY <1>3, <3>1
    <3>6. c3 < c4 \/ (c3 = c4 /\ d3 <= d4)
      BY <1>3, <2>0, <3>1
    <3>7. c1 = c4 /\ d1 = d4 /\ ~ (c3 = c2 /\ d3 = d2)
      BY <3>2
    <3> HIDE DEF c1, c2, c3, c4, d1, d2, d3, d4
    <3> QED
      BY <3>3, <3>4, <3>5, <3>6, <3>7
  <2> QED
    BY <2>0, <2>5, <2>6, <2>7, <2>8
<1>9. ASSUME NEW k \in 1 .. N
      PROVE  /\ cur(k) = cur(n) /\ nxt(k) < nxt(n) <=> k \in g .. p - 1
             /\ ~ (n < N /\ InPair(T, n + 1)) =>
                  (cur(k) = cur(n) /\ nxt(k) = nxt(n) <=> k \in p .. n)
  <2>0. /\ n \in 1 .. N /\ k \in Nat /\ g \in Nat /\ p \in Nat /\ p <= n /\ g <= n
        /\ cur(k) \in Nat /\ cur(n) \in Nat /\ nxt(k) \in Nat /\ nxt(n) \in Nat
    BY <1>1, <1>2 DEF N, s
  <2>1. CASE k <= n
    <3>1. k \in 1 .. n
      BY <2>0, <2>1
    <3>2. cur(k) < cur(n) \/ (cur(k) = cur(n) /\ nxt(k) <= nxt(n))
      BY <1>3, <2>0, <2>1
    <3>3. /\ k >= g <=> cur(k) = cur(n)
          /\ k >= p <=> cur(k) = cur(n) /\ nxt(k) = nxt(n)
      BY <1>8, <3>1
    <3>4. nxt(k) < nxt(n) <=> (nxt(k) <= nxt(n) /\ nxt(k) # nxt(n))
      BY <2>0
    <3>5. cur(k) = cur(n) => nxt(k) <= nxt(n)
      BY <2>0, <3>2
    <3>6. k \in g .. p - 1 <=> k >= g /\ ~ (k >= p)
      BY <2>0
    <3>7. k \in p .. n <=> k >= p
      BY <2>0, <2>1
    <3> QED
      BY <3>3, <3>4, <3>5, <3>6, <3>7
  <2>2. CASE k > n
    <3>1. k \notin g .. p - 1 /\ k \notin p .. n
      BY <1>1, <2>0, <2>2
    <3>2. n <= k /\ n + 1 \in 1 .. N /\ n + 1 <= k /\ n < N /\ n <= n + 1 /\ n + 1 > 1 /\ (n + 1) - 1 = n
      BY <1>1, <2>0, <2>2
    <3>3. cur(n) < cur(k) \/ (cur(n) = cur(k) /\ nxt(n) <= nxt(k))
      BY <1>3, <2>0, <3>2
    <3>4. ~ (cur(k) = cur(n) /\ nxt(k) < nxt(n))
      BY <2>0, <3>3
    <3>5. ASSUME cur(k) = cur(n), nxt(k) = nxt(n) PROVE InPair(T, n + 1)
      <4> DEFINE c1 == cur(n)
                 c2 == cur(n + 1)
                 c3 == cur(k)
                 d1 == nxt(n)
                 d2 == nxt(n + 1)
                 d3 == nxt(k)
      <4>1. c1 < c2 \/ (c1 = c2 /\ d1 <= d2)
        BY <1>3, <2>0, <3>2
      <4>2. c2 < c3 \/ (c2 = c3 /\ d2 <= d3)
        BY <1>3, <2>0, <3>2
      <4>3. c1 \in Nat /\ c2 \in Nat /\ c3 \in Nat /\ d1 \in Nat /\ d2 \in Nat /\ d3 \in Nat
        BY <1>1, <2>0, <3>2
      <4>4. c1 = c3 /\ d1 = d3
        BY <3>5
      <4> HIDE DEF c1, c2, c3, d1, d2, d3
      <4>5. c2 = c1 /\ d2 = d1
        BY <4>1, <4>2, <4>3, <4>4
      <4>6. cur(n + 1) = cur((n + 1) - 1) /\ nxt(n + 1) = nxt((n + 1) - 1)
        BY <3>2, <4>5 DEF c1, c2, d1, d2
      <4> QED
        BY <1>5, <3>2, <4>6
    <3> QED
      BY <3>1, <3>2, <3>4, <3>5
  <2>3. k <= n \/ k > n
    BY <1>1, <2>0
  <2> QED
    BY <2>1, <2>2, <2>3
<1>10. \A k \in g .. p - 1 : k \in 1 .. N
  BY <1>1, <1>2 DEF N, s
<1>11. \A k \in p .. n : k \in 1 .. N
  BY <1>1, <1>2 DEF N, s
<1>12. GroupBefore(T, Popped(T, n)) = {s[k] : k \in g .. p - 1}
  BY <1>7, <1>9, <1>10
<1>13. ~ (n < N /\ InPair(T, n + 1)) => SamePairs(T, Popped(T, n)) = {s[k] : k \in p .. n}
  BY <1>7, <1>9, <1>11
<1>14. ASSUME n < N, InPair(T, n + 1)
       PROVE  {s[n], s[n + 1]} \subseteq SamePairs(T, Popped(T, n))
  <2>1. n \in 1 .. N /\ n + 1 \in 1 .. N /\ (n + 1) - 1 = n
    BY <1>1, <1>14 DEF N, s
  <2>2. cur(n + 1) = cur(n) /\ nxt(n + 1) = nxt(n)
    BY <1>5, <1>14, <2>1
  <2> QED
    BY <1>7, <2>1, <2>2
<1> QED
  BY <1>12, <1>13, <1>14 DEF s, g, p, N

LEMMA RunAtIs ==
  ASSUME NEW T, TripleLists(T), Ordered(T), NEW n \in 1 .. Len(PopOrder(T))
  PROVE  RunAt(T, n) = RunOf(T, Popped(T, n))
<1> DEFINE s == PopOrder(T)
           N == Len(s)
           t == Popped(T, n)
           More == n < N /\ InPair(T, n + 1)
<1>1. CountedOf(T, GroupFrom(T, n), PairFrom(T, n) - 1) = Cardinality(EntriesOf(T, GroupBefore(T, t)))
  BY Neighbourhood DEF CountedOf, Total
<1>2. AloneAt(T, n) <=> Cardinality(EntriesOf(T, SamePairs(T, t))) = 1
  <2>1. CASE ~ More
    <3>1. SamePairs(T, t) = {s[k] : k \in PairFrom(T, n) .. n}
      BY <2>1, Neighbourhood
    <3>2. CountedOf(T, PairFrom(T, n), n) = Cardinality(EntriesOf(T, SamePairs(T, t)))
      BY <3>1 DEF CountedOf, Total
    <3> QED
      BY <2>1, <3>2 DEF AloneAt
  <2>2. CASE More
    <3>1. N \in Nat /\ n \in 1 .. N /\ n + 1 \in 1 .. N /\ n # n + 1
      BY <2>2, PoppedType
    <3>2. s[n] # s[n + 1]
      BY <3>1, PopOrderGoes DEF Popping
    <3>3. s[n] \in SamePairs(T, t) /\ s[n + 1] \in SamePairs(T, t)
      BY <2>2, Neighbourhood
    <3>4. SamePairs(T, t) \in SUBSET TripleIds(T)
      BY DEF SamePairs
    <3>5. Total(T, SamePairs(T, t)) # 1
      <4> HIDE DEF t, s
      <4> QED
        BY <3>2, <3>3, <3>4, TotalOfTwo
    <3> QED
      BY <2>2, <3>5 DEF AloneAt, Total
  <2> QED
    BY <2>1, <2>2
<1> QED
  BY <1>1, <1>2 DEF RunAt, RunOf

(* A chunk's triples are taken one after the other.                        *)
LEMMA ChunkInTurn ==
  ASSUME NEW T, TripleLists(T), NEW c \in DOMAIN T,
         NEW at, NEW l \in Nat,
         Lists(at, l, {n \in 1 .. Len(PopOrder(T)) : PopOrder(T)[n][1] = c})
  PROVE  l = Len(T[c]) /\ \A a \in 1 .. l : PopOrder(T)[at[a]] = <<c, a>>
<1> DEFINE s == PopOrder(T)
           N == Len(s)
           K == {n \in 1 .. N : s[n][1] = c}
           L == Len(T[c])
           f == [a \in 1 .. l |-> s[at[a]][2]]
           id == [a \in 1 .. L |-> a]
<1>1. /\ N \in Nat /\ L \in Nat
      /\ \A n \in 1 .. N : /\ s[n] = <<s[n][1], s[n][2]>>
                           /\ s[n][1] = c => s[n][2] \in 1 .. L
  <2>1. L \in Nat
    BY DEF TripleLists
  <2> QED
    BY <2>1, PoppedType
<1>2. /\ at \in [1 .. l -> K]
      /\ \A a, b \in 1 .. l : a < b => at[a] < at[b]
      /\ \A x \in K : \E a \in 1 .. l : at[a] = x
  BY DEF Lists
<1>3. \A a \in 1 .. l : at[a] \in 1 .. N /\ s[at[a]][1] = c /\ s[at[a]] = <<c, s[at[a]][2]>>
                        /\ s[at[a]][2] \in 1 .. L
  BY <1>1, <1>2
<1>4. Popping(T, s) /\ \A x \in TripleIds(T) : \E n \in 1 .. N : s[n] = x
  BY PopOrderGoes
<1>5. ASSUME NEW a \in 1 .. l, NEW b \in 1 .. l, a < b PROVE f[a] < f[b]
  <2> DEFINE m == at[a]
             n == at[b]
             i == s[m][2]
             j == s[n][2]
  <2>1. m \in 1 .. N /\ n \in 1 .. N /\ m < n /\ s[m] = <<c, i>> /\ s[n] = <<c, j>>
    BY <1>2, <1>3, <1>5
  <2>2. i \in 1 .. L /\ j \in 1 .. L
    BY <1>3
  <2>3. s[m] # s[n]
    <3>1. m # n
      BY <1>1, <2>1
    <3> HIDE DEF m, n
    <3> QED
      BY <1>4, <2>1, <3>1 DEF Popping
  <2>4. ~ (j < i)
    <3> SUFFICES ASSUME j < i PROVE FALSE
      OBVIOUS
    <3>1. s[m][2] = i /\ s[m][1] = c
      BY <1>3
    <3>2. j \in 1 .. s[m][2] - 1
      BY <1>1, <2>2
    <3>3. <<s[m][1], j>> \in PoppedBefore(s, m)
      <4> HIDE DEF m, j, i
      <4> QED
        BY <1>4, <2>1, <3>2 DEF Popping
    <3>4. PICK k \in 1 .. m - 1 : s[k] = <<c, j>>
      BY <3>1, <3>3 DEF PoppedBefore
    <3>5. k \in 1 .. N /\ k # n /\ s[k] = s[n]
      <4> HIDE DEF m, n, i, j
      <4> QED
        BY <1>1, <2>1, <3>4
    <3> HIDE DEF n
    <3> QED
      BY <1>4, <2>1, <3>5 DEF Popping
  <2>5. i # j
    BY <2>1, <2>3
  <2>6. f[a] = i /\ f[b] = j
    OBVIOUS
  <2> HIDE DEF i, j, f
  <2> QED
    BY <1>1, <2>2, <2>4, <2>5, <2>6
<1>6. Lists(f, l, 1 .. L)
  <2>1. f \in [1 .. l -> 1 .. L]
    BY <1>3
  <2>2. \A x \in 1 .. L : \E a \in 1 .. l : f[a] = x
    <3> SUFFICES ASSUME NEW x \in 1 .. L PROVE \E a \in 1 .. l : f[a] = x
      OBVIOUS
    <3>1. <<c, x>> \in TripleIds(T)
      BY TripleIdsType
    <3>2. PICK n \in 1 .. N : s[n] = <<c, x>>
      BY <1>4, <3>1
    <3>3. n \in K
      BY <3>2
    <3>4. PICK a \in 1 .. l : at[a] = n
      BY <1>2, <3>3
    <3> QED
      BY <3>2, <3>4
  <2> HIDE DEF f
  <2> QED
    BY <1>5, <2>1, <2>2 DEF Lists
<1>7. Lists(id, L, 1 .. L)
  BY <1>1 DEF Lists
<1>8. 1 .. L \in SUBSET Nat
  BY <1>1
<1>9. l = L /\ f = id
  <2> HIDE DEF f, id, L
  <2> QED
    BY <1>1, <1>6, <1>7, <1>8, AscendingUnique
<1>10. \A a \in 1 .. l : s[at[a]][2] = a
  <2> SUFFICES ASSUME NEW a \in 1 .. l PROVE s[at[a]][2] = a
    OBVIOUS
  <2>1. f[a] = s[at[a]][2] /\ (a \in 1 .. L => id[a] = a)
    OBVIOUS
  <2> HIDE DEF f, id
  <2> QED
    BY <1>9, <2>1
<1> QED
  BY <1>3, <1>9, <1>10

(* merge writes for a triple what the whole text's triples say, although   *)
(* it has only compared it with the one before it.                         *)
THEOREM MergedInOrder ==
  ASSUME NEW T, TripleLists(T), Ordered(T)
  PROVE  MergedInTurn(T) = Resolved(T)
<1> DEFINE s == PopOrder(T)
           N == Len(s)
           runs == [n \in 1 .. N |-> RunAt(T, n)]
           R == {RunAt(T, n) : n \in 1 .. N}
<1>1. N \in Nat /\ DOMAIN s = 1 .. N
  BY PoppedType
<1>2. MergedInTurn(T) = [c \in DOMAIN T |-> Selected(runs, {n \in 1 .. N : s[n][1] = c})]
  BY <1>1, MergedIs
<1>3. runs \in Seq(R) /\ Len(runs) = N /\ \A n \in 1 .. N : runs[n] = RunAt(T, n)
  BY <1>1
<1>4. ASSUME NEW c \in DOMAIN T
      PROVE  Selected(runs, {n \in 1 .. N : s[n][1] = c}) = [j \in DOMAIN T[c] |-> RunOf(T, T[c][j])]
  <2> DEFINE K == {n \in 1 .. N : s[n][1] = c}
             q == Selected(runs, K)
             r == [j \in DOMAIN T[c] |-> RunOf(T, T[c][j])]
             L == Len(T[c])
  <2>1. K \in SUBSET (1 .. Len(runs))
    BY <1>3
  <2> HIDE DEF runs, R
  <2>2. /\ q \in Seq(R)
        /\ \E at : Lists(at, Len(q), K) /\ \A a \in 1 .. Len(q) : q[a] = runs[at[a]]
    <3> HIDE DEF K
    <3> QED
      BY <1>3, <2>1, SelectedLists
  <2>3. PICK at : Lists(at, Len(q), K) /\ \A a \in 1 .. Len(q) : q[a] = runs[at[a]]
    BY <2>2
  <2>4. Len(q) \in Nat
    BY <2>2
  <2>5. Len(q) = L /\ \A a \in 1 .. Len(q) : s[at[a]] = <<c, a>>
    <3> HIDE DEF q
    <3> QED
      BY <2>3, <2>4, ChunkInTurn
  <2>6. L \in Nat /\ DOMAIN T[c] = 1 .. L
    BY DEF TripleLists
  <2>7. ASSUME NEW a \in 1 .. L PROVE q[a] = RunOf(T, T[c][a])
    <3>1. a \in 1 .. Len(q)
      BY <2>5
    <3>2. at[a] \in 1 .. N
      BY <2>3, <3>1 DEF Lists
    <3>3. s[at[a]] = <<c, a>>
      BY <2>5, <3>1
    <3>4. Popped(T, at[a]) = T[c][a]
      BY <3>3 DEF Popped
    <3>5. RunAt(T, at[a]) = RunOf(T, T[c][a])
      BY <3>2, <3>4, RunAtIs
    <3> HIDE DEF q
    <3> QED
      BY <1>3, <2>3, <3>1, <3>2, <3>5
  <2>8. q = [a \in 1 .. L |-> q[a]]
    <3>1. q = [a \in 1 .. Len(q) |-> q[a]]
      <4> HIDE DEF q
      <4> QED
        BY <2>2
    <3> HIDE DEF q
    <3> QED
      BY <2>5, <3>1
  <2>9. r = [a \in 1 .. L |-> RunOf(T, T[c][a])]
    BY <2>6
  <2> HIDE DEF q, r, K
  <2>10. q = r
    BY <2>7, <2>8, <2>9
  <2> QED
    BY <2>10 DEF q, r, K
<1> HIDE DEF runs
<1> QED
  BY <1>2, <1>4 DEF Resolved

-----------------------------------------------------------------------------
(* Two streams make triples, in whatever order they are.                   *)
LEMMA TriplesTyped ==
  ASSUME NEW cur \in Seq(RunSet(Nat)), NEW nxt \in Seq(RunSet(Nat))
  PROVE  /\ Triples(cur, nxt) \in Seq(TripleSet)
         /\ \A j \in 1 .. Len(Triples(cur, nxt)) : Triples(cur, nxt)[j].count # 0
<1> DEFINE V == (1 .. Len(cur)) \X (1 .. Len(nxt))
           z == [i \in DOMAIN Slots(nxt) \cap DOMAIN Slots(cur) |-> <<Slots(cur)[i], Slots(nxt)[i]>>]
           o == Runs(z)
           t == Triples(cur, nxt)
<1>1. Slots(cur) \in Seq(1 .. Len(cur)) /\ Slots(nxt) \in Seq(1 .. Len(nxt))
  <2>1. \E st : Cuts(st, Widths(cur), Len(cur))
    BY StreamCut
  <2>2. \E st : Cuts(st, Widths(nxt), Len(nxt))
    BY StreamCut
  <2> QED
    BY <2>1, <2>2, SlotsAt
<1>2. \E k \in Nat :
        /\ DOMAIN Slots(nxt) \cap DOMAIN Slots(cur) = 1 .. k
        /\ \A i \in 1 .. k : Slots(cur)[i] \in 1 .. Len(cur) /\ Slots(nxt)[i] \in 1 .. Len(nxt)
  <2> DEFINE a == Slots(cur)
             b == Slots(nxt)
             k == IF Len(a) < Len(b) THEN Len(a) ELSE Len(b)
  <2>1. /\ DOMAIN a = 1 .. Len(a) /\ Len(a) \in Nat /\ \A i \in 1 .. Len(a) : a[i] \in 1 .. Len(cur)
        /\ DOMAIN b = 1 .. Len(b) /\ Len(b) \in Nat /\ \A i \in 1 .. Len(b) : b[i] \in 1 .. Len(nxt)
    BY <1>1, LenProperties
  <2> HIDE DEF a, b
  <2>2. k \in Nat /\ \A i : i \in 1 .. k <=> i \in 1 .. Len(a) /\ i \in 1 .. Len(b)
    BY <2>1
  <2>3. DOMAIN b \cap DOMAIN a = 1 .. k /\ \A i \in 1 .. k : a[i] \in 1 .. Len(cur) /\ b[i] \in 1 .. Len(nxt)
    BY <2>1, <2>2
  <2> QED
    BY <2>2, <2>3 DEF a, b
<1>3. z \in Seq(V)
  <2>1. PICK k \in Nat :
          /\ DOMAIN Slots(nxt) \cap DOMAIN Slots(cur) = 1 .. k
          /\ \A i \in 1 .. k : Slots(cur)[i] \in 1 .. Len(cur) /\ Slots(nxt)[i] \in 1 .. Len(nxt)
    BY <1>2
  <2>2. z = [i \in 1 .. k |-> <<Slots(cur)[i], Slots(nxt)[i]>>]
    BY <2>1
  <2>3. \A i \in 1 .. k : <<Slots(cur)[i], Slots(nxt)[i]>> \in V
    BY <2>1
  <2> HIDE DEF V, z
  <2> QED
    BY <2>2, <2>3
<1>4. t = [j \in DOMAIN o |->
            [current |-> cur[o[j].rank[1]].rank, next |-> nxt[o[j].rank[2]].rank,
             count |-> o[j].count]]
  BY DEF Triples
<1> HIDE DEF z, V
<1>5. o \in Seq(RunSet(V)) /\ \A j \in 1 .. Len(o) : o[j].count # 0
  BY <1>3, RunsFit
<1> HIDE DEF o, t
<1>6. ASSUME NEW j \in 1 .. Len(o)
      PROVE  /\ cur[o[j].rank[1]].rank \in Nat /\ nxt[o[j].rank[2]].rank \in Nat
             /\ o[j].count \in Nat /\ o[j].count # 0
  <2>1. o[j] \in RunSet(V)
    BY <1>5
  <2>2. o[j].rank \in V /\ o[j].count \in Nat
    BY <2>1 DEF RunSet
  <2>3. o[j].rank[1] \in 1 .. Len(cur) /\ o[j].rank[2] \in 1 .. Len(nxt)
    BY <2>2 DEF V
  <2>4. \A a \in 1 .. Len(cur) : cur[a].rank \in Nat
    BY WidthsType
  <2>5. \A a \in 1 .. Len(nxt) : nxt[a].rank \in Nat
    BY WidthsType
  <2> QED
    BY <1>5, <2>2, <2>3, <2>4, <2>5
<1>7. DOMAIN o = 1 .. Len(o) /\ Len(o) \in Nat
  BY <1>5
<1>8. t \in Seq(TripleSet) /\ Len(t) = Len(o)
  BY <1>4, <1>6, <1>7 DEF TripleSet
<1>9. \A j \in 1 .. Len(t) : t[j].count # 0
  BY <1>4, <1>6, <1>7, <1>8
<1> QED
  BY <1>8, <1>9 DEF t

-----------------------------------------------------------------------------
(* create_pairs: the slice that is appended to a bucket's file.            *)
PairSet == [index : Nat, value : Nat]

InBucket(S, ranks, b) == {i \in 1 .. Len(ranks) : Bucket(S, ranks[i]) = b}

LEMMA SelectedLength ==
  ASSUME NEW V, NEW s \in Seq(V), NEW K \in SUBSET (1 .. Len(s))
  PROVE  IsFiniteSet(K) /\ Cardinality(K) = Len(Selected(s, K))
<1> DEFINE q == Selected(s, K)
           m == Len(q)
<1>1. q \in Seq(V) /\ \E at : Lists(at, m, K)
  BY SelectedLists
<1>2. m \in Nat
  BY <1>1
<1>3. PICK at : Lists(at, m, K)
  BY <1>1
<1> HIDE DEF m
<1>4. at \in Surjection(1 .. m, K)
  BY <1>3 DEF Lists, Surjection
<1>5. at \in Injection(1 .. m, K)
  <2>1. \A a, b \in 1 .. m : at[a] = at[b] => a = b
    <3> SUFFICES ASSUME NEW a \in 1 .. m, NEW b \in 1 .. m, at[a] = at[b], a # b PROVE FALSE
      OBVIOUS
    <3>1. a < b \/ b < a
      BY <1>2
    <3>2. at[a] < at[b] \/ at[b] < at[a]
      BY <1>3, <3>1 DEF Lists
    <3>3. at[a] \in K /\ at[b] \in K
      BY <1>3 DEF Lists
    <3> DEFINE n == Len(s)
    <3>0. n \in Nat /\ K \in SUBSET (1 .. n)
      OBVIOUS
    <3> HIDE DEF n
    <3>4. \A x \in K : x \in Int
      BY <3>0
    <3>5. at[a] \in Int /\ at[b] \in Int
      BY <3>3, <3>4
    <3> DEFINE x == at[a]
               y == at[b]
    <3>6. x = y /\ x \in Int /\ y \in Int /\ (x < y \/ y < x)
      BY <3>2, <3>5
    <3> HIDE DEF x, y
    <3> QED
      BY <3>6
  <2> QED
    BY <1>3, <2>1 DEF Lists, Injection, IsInjective
<1>6. IsFiniteSet(1 .. m) /\ Cardinality(1 .. m) = m
  BY <1>2, FirstNumbers
<1> QED
  BY <1>4, <1>5, <1>6, FS_Surjection DEF m

(* The records of a chunk's ranks, and the slice that is cut out of them.  *)
Sliced(S, n, c, ranks, b) ==
  LET records == InverseRecords(S, c, ranks)
  IN  /\ records \in Seq(PairSet) /\ Len(records) = Len(ranks)
      /\ \A i \in 1 .. Len(ranks) :
           records[i] = [index |-> i - 1 + c * S, value |-> ranks[i]]
      /\ PairsSlice(S, InverseBuffer(S, n, records), ranks, b) =
           Selected(records, InBucket(S, ranks, b))

LEMMA SliceIsBucket ==
  ASSUME NEW S \in Nat \ {0}, NEW n \in Nat \ {0}, NEW c \in Nat, NEW ranks \in Seq(Nat),
         NEW b \in 0 .. n - 1
  PROVE  Sliced(S, n, c, ranks, b)
<1> DEFINE records == InverseRecords(S, c, ranks)
           m == Len(ranks)
           K(d) == InBucket(S, ranks, d)
           U(d) == {i \in 1 .. m : Bucket(S, ranks[i]) <= d}
           parts == [j \in 1 .. n |-> Selected(records, K(j - 1))]
           w == [j \in 1 .. n |-> Len(Selected(records, K(j - 1)))]
           F == FlattenSeq(parts)
<1>1. m \in Nat /\ DOMAIN ranks = 1 .. m /\ \A i \in 1 .. m : ranks[i] \in Nat
  OBVIOUS
<1>2. \A i \in 1 .. m : Bucket(S, ranks[i]) \in Nat
  <2> SUFFICES ASSUME NEW i \in 1 .. m PROVE Bucket(S, ranks[i]) \in Nat
    OBVIOUS
  <2>1. ranks[i] \in Nat
    BY <1>1
  <2> QED
    BY <2>1, Division DEF Bucket
<1>3. /\ records = [i \in 1 .. m |-> [index |-> i - 1 + c * S, value |-> ranks[i]]]
      /\ records \in Seq(PairSet) /\ Len(records) = m
      /\ \A i \in 1 .. m : records[i] = [index |-> i - 1 + c * S, value |-> ranks[i]]
  <2>1. records = [i \in 1 .. m |-> [index |-> i - 1 + c * S, value |-> ranks[i]]]
    BY <1>1 DEF InverseRecords
  <2>2. c * S \in Nat
    OBVIOUS
  <2> DEFINE x == c * S
  <2>3. \A i \in 1 .. m : i - 1 + x \in Nat
    BY <1>1, <2>2
  <2>4. \A i \in 1 .. m : [index |-> i - 1 + x, value |-> ranks[i]] \in PairSet
    BY <1>1, <2>3 DEF PairSet
  <2> HIDE DEF x
  <2>5. records = [i \in 1 .. m |-> [index |-> i - 1 + x, value |-> ranks[i]]]
    BY <2>1 DEF x
  <2> HIDE DEF records
  <2>6. records \in Seq(PairSet) /\ Len(records) = m
    BY <1>1, <2>4, <2>5
  <2> QED
    BY <2>1, <2>6
<1> HIDE DEF records, m
<1>4. \A d : K(d) \in SUBSET (1 .. Len(records))
  BY <1>3 DEF InBucket, m
<1>5. \A d : /\ Selected(records, K(d)) \in Seq(PairSet)
             /\ IsFiniteSet(K(d)) /\ Cardinality(K(d)) = Len(Selected(records, K(d)))
             /\ Len(Selected(records, K(d))) \in Nat
  <2> SUFFICES ASSUME NEW d
               PROVE  /\ Selected(records, K(d)) \in Seq(PairSet)
                      /\ IsFiniteSet(K(d)) /\ Cardinality(K(d)) = Len(Selected(records, K(d)))
                      /\ Len(Selected(records, K(d))) \in Nat
    OBVIOUS
  <2> DEFINE X == K(d)
  <2>1. X \in SUBSET (1 .. Len(records))
    BY <1>4
  <2> HIDE DEF X
  <2>2. Selected(records, X) \in Seq(PairSet)
    BY <1>3, <2>1, SelectedLists
  <2>3. IsFiniteSet(X) /\ Cardinality(X) = Len(Selected(records, X))
    BY <1>3, <2>1, SelectedLength
  <2>4. Len(Selected(records, X)) \in Nat
    BY <2>2
  <2> QED
    BY <2>2, <2>3, <2>4 DEF X
<1>6. F = InverseBuffer(S, n, records)
  <2>1. \A d : {i \in DOMAIN records : Bucket(S, records[i].value) = d} = K(d)
    <3>1. DOMAIN records = 1 .. m
      BY <1>3
    <3>2. \A i \in 1 .. m : records[i].value = ranks[i]
      BY <1>3
    <3> QED
      BY <3>1, <3>2 DEF InBucket, m
  <2> HIDE DEF K
  <2>2. parts = [j \in 1 .. n |->
                   Selected(records, {i \in DOMAIN records : Bucket(S, records[i].value) = j - 1})]
    BY <2>1
  <2> HIDE DEF parts
  <2> QED
    BY <2>2 DEF InverseBuffer
<1>7. parts \in [1 .. n -> Seq(PairSet)] /\ w \in [1 .. n -> Nat] /\ Lengths(w, parts, n, PairSet)
  <2>1. parts \in [1 .. n -> Seq(PairSet)] /\ w \in [1 .. n -> Nat]
    BY <1>5
  <2>2. \A j \in 1 .. n : w[j] = Len(parts[j])
    OBVIOUS
  <2> HIDE DEF parts, w
  <2> QED
    BY <2>1, <2>2 DEF Lengths
<1>8. \A j \in 1 .. n : w[j] = Cardinality(K(j - 1)) /\ parts[j] = Selected(records, K(j - 1))
  BY <1>5
<1> HIDE DEF parts, w
<1>9. PICK st : Cuts(st, w, n)
  BY <1>7, CutExists
<1>10. /\ F \in Seq(PairSet) /\ Len(F) = st[n + 1] - 1
       /\ \A j \in 1 .. n : \A k \in 1 .. Len(parts[j]) : F[st[j] + k - 1] = parts[j][k]
  <2>1. /\ F \in Seq(PairSet) /\ Len(F) = st[n + 1] - 1
        /\ LaidOut(F, parts, st, n)
    BY <1>7, <1>9, FlattenLaidOut
  <2>2. \A j \in 1 .. n : \A k \in 1 .. Len(parts[j]) : F[st[j] + k - 1] = parts[j][k]
    BY <2>1, Zenon DEF LaidOut
  <2> QED
    BY <2>1, <2>2
<1> HIDE DEF F
<1>11. \A d : IsFiniteSet(U(d)) /\ Cardinality(U(d)) \in Nat
  <2> SUFFICES ASSUME NEW d PROVE IsFiniteSet(U(d)) /\ Cardinality(U(d)) \in Nat
    OBVIOUS
  <2>1. U(d) \in SUBSET (1 .. m) /\ IsFiniteSet(1 .. m)
    BY <1>1, FirstNumbers
  <2> HIDE DEF U
  <2> QED
    BY <2>1, FS_Subset, FS_CardinalityType
<1> DEFINE D == {j \in Nat : j + 1 \in 1 .. n + 1 => st[j + 1] = Cardinality(U(j - 1)) + 1}
<1>12. 0 \in D
  <2>1. U(0 - 1) = {}
    BY <1>2
  <2>2. Cardinality({}) = 0
    BY FS_EmptySet
  <2>3. st[1] = 1 /\ 0 + 1 = 1
    BY <1>9 DEF Cuts
  <2>4. Cardinality(U(0 - 1)) = 0
    BY <2>1, <2>2
  <2> HIDE DEF U
  <2>5. st[0 + 1] = Cardinality(U(0 - 1)) + 1
    BY <2>3, <2>4
  <2> QED
    BY <2>5
<1>13. ASSUME NEW j \in Nat, j \in D PROVE j + 1 \in D
  <2>1. SUFFICES ASSUME (j + 1) + 1 \in 1 .. n + 1
                 PROVE  st[(j + 1) + 1] = Cardinality(U((j + 1) - 1)) + 1
    OBVIOUS
  <2> DEFINE k == j + 1
  <2>2. k \in 1 .. n /\ k \in 1 .. n + 1 /\ k - 1 = j /\ (j + 1) - 1 = j
    BY <2>1
  <2>3. st[k] = Cardinality(U(j - 1)) + 1
    BY <1>13, <2>2
  <2>4. st[k + 1] = st[k] + Cardinality(K(j))
    BY <1>8, <1>9, <2>2 DEF Cuts
  <2>5. U(j) = U(j - 1) \cup K(j) /\ U(j - 1) \cap K(j) = {}
    <3>1. \A i \in 1 .. m : Bucket(S, ranks[i]) <= j <=> Bucket(S, ranks[i]) <= j - 1 \/ Bucket(S, ranks[i]) = j
      BY <1>2
    <3>2. \A i \in 1 .. m : ~ (Bucket(S, ranks[i]) <= j - 1 /\ Bucket(S, ranks[i]) = j)
      BY <1>2
    <3> QED
      BY <3>1, <3>2 DEF InBucket, m
  <2>6. Cardinality(U(j)) = Cardinality(U(j - 1)) + Cardinality(K(j))
    <3> DEFINE A == U(j - 1)
               B == K(j)
    <3>1. IsFiniteSet(A) /\ IsFiniteSet(B) /\ A \cap B = {} /\ U(j) = A \cup B
      BY <1>5, <1>11, <2>5
    <3> HIDE DEF A, B, U
    <3>2. Cardinality(A \cup B) = Cardinality(A) + Cardinality(B) - Cardinality(A \cap B)
      BY <3>1, FS_Union
    <3>3. Cardinality(A \cap B) = 0 /\ Cardinality(A) \in Nat /\ Cardinality(B) \in Nat
      BY <3>1, FS_EmptySet, FS_CardinalityType
    <3>4. Cardinality(A \cup B) = Cardinality(A) + Cardinality(B)
      BY <3>2, <3>3
    <3> QED
      BY <3>1, <3>4 DEF A, B
  <2>7. Cardinality(U(j - 1)) \in Nat /\ Cardinality(K(j)) \in Nat
    BY <1>5, <1>11
  <2> HIDE DEF U, K
  <2> QED
    BY <2>2, <2>3, <2>4, <2>6, <2>7
<1> HIDE DEF D
<1>14. Nat \subseteq D
  BY <1>12, <1>13, Induction
<1>15. /\ BucketEnd(S, ranks, b - 1) + 1 = st[b + 1]
       /\ BucketEnd(S, ranks, b) = st[b + 2] - 1
  <2>1. BucketEnd(S, ranks, b - 1) = Cardinality(U(b - 1)) /\ BucketEnd(S, ranks, b) = Cardinality(U(b))
    BY <1>1 DEF BucketEnd, m
  <2>2. b \in Nat /\ b + 1 \in Nat /\ b + 1 \in 1 .. n + 1 /\ (b + 1) + 1 \in 1 .. n + 1
        /\ (b + 1) - 1 = b /\ (b + 1) + 1 = b + 2
    OBVIOUS
  <2>3. Cardinality(U(b - 1)) \in Nat /\ Cardinality(U(b)) \in Nat
    BY <1>11
  <2> HIDE DEF U
  <2>4. st[b + 1] = Cardinality(U(b - 1)) + 1 /\ st[(b + 1) + 1] = Cardinality(U((b + 1) - 1)) + 1
    BY <1>14, <2>2 DEF D
  <2>5. st[b + 2] = Cardinality(U(b)) + 1
    BY <2>2, <2>4
  <2> QED
    BY <2>1, <2>3, <2>4, <2>5
<1> DEFINE q == Selected(records, K(b))
           x == st[b + 1]
           y == st[b + 2]
           l == Len(q)
<1>16. /\ b + 1 \in 1 .. n /\ (b + 1) - 1 = b /\ (b + 1) + 1 = b + 2
       /\ b + 1 \in 1 .. n + 1 /\ b + 2 \in 1 .. n + 1 /\ n + 1 \in 1 .. n + 1
  OBVIOUS
<1>17. /\ x \in Nat /\ 1 <= x /\ y = x + l /\ l \in Nat /\ y - 1 <= Len(F)
       /\ q \in Seq(PairSet)
       /\ \A k \in 1 .. l : F[x + k - 1] = q[k]
  <2>1. x \in Nat /\ 1 <= x /\ y <= st[n + 1] /\ st[n + 1] \in Nat /\ y \in Nat
    BY <1>7, <1>9, <1>16, CutBounds
  <2>2. y = x + w[b + 1] /\ w[b + 1] = Len(parts[b + 1]) /\ parts[b + 1] = q
    BY <1>7, <1>8, <1>9, <1>16 DEF Cuts, Lengths
  <2>3. q \in Seq(PairSet) /\ l \in Nat
    BY <1>5
  <2>4. \A k \in 1 .. Len(parts[b + 1]) : F[st[b + 1] + k - 1] = parts[b + 1][k]
    BY <1>10, <1>16
  <2> DEFINE z == st[n + 1]
  <2>5. Len(F) = z - 1
    BY <1>10
  <2> HIDE DEF x, y, q, z
  <2>6. y - 1 <= Len(F)
    BY <2>1, <2>5 DEF z
  <2> QED
    BY <2>1, <2>2, <2>3, <2>4, <2>6 DEF x
<1>18. PairsSlice(S, F, ranks, b) = SubSeq(F, x, y - 1)
  BY <1>15 DEF PairsSlice
<1> HIDE DEF q, x, y, l
<1>19. SubSeq(F, x, y - 1) = q
  <2> DEFINE r == SubSeq(F, x, y - 1)
  <2>1. /\ r \in Seq(PairSet) /\ Len(r) = l /\ \A k \in 1 .. l : r[k] = F[x + k - 1]
    <3>1. \A k \in x .. y - 1 : k \in 1 .. Len(F)
      BY <1>10, <1>17
    <3>2. y - 1 - x + 1 = l
      BY <1>17
    <3>3. r = [k \in 1 .. l |-> F[x + k - 1]]
      BY <1>10, <1>17
    <3>4. \A k \in 1 .. l : x + k - 1 \in x .. y - 1
      BY <1>17
    <3>5. \A k \in 1 .. l : F[x + k - 1] \in PairSet
      BY <1>10, <3>1, <3>4
    <3> HIDE DEF r
    <3> QED
      BY <1>17, <3>3, <3>5
  <2>2. Len(q) = l
    BY DEF l
  <2> HIDE DEF r
  <2>3. r = q
    BY <1>17, <2>1, <2>2, SameElements
  <2> QED
    BY <2>3 DEF r
<1> QED
  BY <1>3, <1>6, <1>18, <1>19 DEF Sliced, records, q, m

-----------------------------------------------------------------------------
(* The pairs of bucket k when create_pairs has been through n chunks of    *)
(* final ranks.                                                            *)
PairOf(t, p) == [index |-> p, value |-> SuffixRank(t, p)]

PairedIn(t, S, n, k) ==
  {p \in Positions(t) : ChunkOf(S, p) < n /\ Bucket(S, SuffixRank(t, p)) = k}

Paired(t, S, n, k, list) ==
  /\ list \in Seq(PairSet)
  /\ \A m \in 1 .. Len(list) :
       list[m].index \in PairedIn(t, S, n, k) /\ list[m].value = SuffixRank(t, list[m].index)
  /\ \A a, b \in 1 .. Len(list) : a < b => list[a].index < list[b].index
  /\ \A p \in PairedIn(t, S, n, k) : \E m \in 1 .. Len(list) : list[m].index = p

(* The ranks of a chunk as create_pairs reads them.                        *)
RanksOfChunk(t, S, c) ==
  [i \in 1 .. ChunkLength(t, S, c) |-> SuffixRank(t, c * S + i - 1)]

Slice(t, S, c, k) ==
  LET ranks == RanksOfChunk(t, S, c)
  IN  PairsSlice(S, InverseBuffer(S, ChunkOf(S, Len(t)) + 1, InverseRecords(S, c, ranks)), ranks, k)

(* What a chunk adds to them.                                              *)
AddedBy(t, S, c, k, q) ==
  /\ q \in Seq(PairSet)
  /\ \A m \in 1 .. Len(q) :
       /\ q[m].index \in Positions(t) /\ ChunkOf(S, q[m].index) = c
       /\ Bucket(S, q[m].value) = k /\ q[m].value = SuffixRank(t, q[m].index)
  /\ \A a, b \in 1 .. Len(q) : a < b => q[a].index < q[b].index
  /\ \A p \in Positions(t) :
       ChunkOf(S, p) = c /\ Bucket(S, SuffixRank(t, p)) = k => \E m \in 1 .. Len(q) : q[m].index = p

LEMMA SliceOfFinal ==
  ASSUME NEW t \in CodedText, NEW S \in Nat \ {0}, NEW c \in 0 .. Len(t) \div S,
         NEW k \in 0 .. Len(t) \div S
  PROVE  AddedBy(t, S, c, k, Slice(t, S, c, k))
<1> DEFINE q == Slice(t, S, c, k)
           m == Len(q)
           l == ChunkLength(t, S, c)
           R == RanksOfChunk(t, S, c)
           n == ChunkOf(S, Len(t)) + 1
           K == InBucket(S, R, k)
           records == InverseRecords(S, c, R)
           x == c * S
<1>1. /\ n \in Nat \ {0} /\ k \in 0 .. n - 1 /\ c \in Nat /\ x \in Nat
  <2>1. Len(t) \div S \in Nat
    BY PositionsType, Division
  <2> QED
    BY <2>1 DEF ChunkOf
<1>2. /\ l \in 1 .. S
      /\ \A i \in 0 .. l - 1 : x + i \in Positions(t)
      /\ \A p \in Positions(t) : ChunkOf(S, p) = c => p \in x .. x + l - 1
  BY ChunkCounted
<1> HIDE DEF l
<1>3. \A i \in 1 .. l : /\ x + i - 1 \in Positions(t) /\ ChunkOf(S, x + i - 1) = c
                        /\ SuffixRank(t, x + i - 1) \in Nat
  <2> SUFFICES ASSUME NEW i \in 1 .. l
               PROVE  /\ x + i - 1 \in Positions(t) /\ ChunkOf(S, x + i - 1) = c
                      /\ SuffixRank(t, x + i - 1) \in Nat
    OBVIOUS
  <2> DEFINE j == i - 1
  <2>1. j \in 0 .. l - 1 /\ j \in 0 .. S - 1
    BY <1>2
  <2>2. x + j = x + i - 1
    BY <1>1
  <2> HIDE DEF j
  <2>3. x + j \in Positions(t)
    BY <1>2, <2>1
  <2>4. ChunkOf(S, x + j) = c
    BY <1>1, <2>1, DivisionUnique DEF ChunkOf
  <2>5. SuffixRank(t, x + j) \in Nat
    BY <2>3, SuffixRankBound
  <2> QED
    BY <2>2, <2>3, <2>4, <2>5
<1>4. /\ R = [i \in 1 .. l |-> SuffixRank(t, x + i - 1)]
      /\ R \in Seq(Nat) /\ Len(R) = l
  <2>1. R = [i \in 1 .. l |-> SuffixRank(t, x + i - 1)]
    BY DEF RanksOfChunk, l
  <2>2. l \in Nat
    BY <1>2
  <2> DEFINE g(i) == SuffixRank(t, x + i - 1)
  <2>3. R = [i \in 1 .. l |-> g(i)] /\ \A i \in 1 .. l : g(i) \in Nat
    BY <1>3, <2>1
  <2> HIDE DEF R, g
  <2>4. R \in Seq(Nat) /\ Len(R) = l
    BY <2>2, <2>3
  <2> QED
    BY <2>1, <2>4
<1>5. /\ records \in Seq(PairSet) /\ Len(records) = l
      /\ \A i \in 1 .. l : records[i] = [index |-> i - 1 + x, value |-> R[i]]
      /\ q = Selected(records, K)
  <2> HIDE DEF R, n
  <2>1. /\ records \in Seq(PairSet) /\ Len(records) = Len(R)
        /\ \A i \in 1 .. Len(R) : records[i] = [index |-> i - 1 + c * S, value |-> R[i]]
        /\ PairsSlice(S, InverseBuffer(S, n, records), R, k) = Selected(records, K)
    <3>1. S \in Nat \ {0} /\ n \in Nat \ {0} /\ c \in Nat /\ R \in Seq(Nat) /\ k \in 0 .. n - 1
      BY <1>1, <1>4
    <3>2. Sliced(S, n, c, R, k)
      BY <3>1, SliceIsBucket
    <3> QED
      BY <3>2 DEF Sliced
  <2> QED
    BY <1>4, <2>1 DEF Slice, R, n
<1>6. \A i \in 1 .. l : /\ records[i].index = x + i - 1
                        /\ records[i].value = SuffixRank(t, x + i - 1)
  <2>1. \A i \in 1 .. l : records[i].index = i - 1 + x /\ records[i].value = R[i]
    BY <1>5
  <2>2. \A i \in 1 .. l : i - 1 + x = x + i - 1
    BY <1>1
  <2> HIDE DEF x, records
  <2> QED
    BY <1>4, <2>1, <2>2
<1>7. K = {i \in 1 .. l : Bucket(S, SuffixRank(t, x + i - 1)) = k}
  <2> HIDE DEF R, x
  <2> QED
    BY <1>4 DEF InBucket
<1> HIDE DEF R, records, K, q, x, n
<1>8. K \in SUBSET (1 .. Len(records))
  BY <1>5, <1>7
<1>9. /\ q \in Seq(PairSet)
      /\ \E at : Lists(at, m, K) /\ \A a \in 1 .. m : q[a] = records[at[a]]
  <2> DEFINE s == Selected(records, K)
  <2>1. /\ s \in Seq(PairSet)
        /\ \E at : Lists(at, Len(s), K) /\ \A a \in 1 .. Len(s) : s[a] = records[at[a]]
    BY <1>5, <1>8, SelectedLists
  <2>2. q = s
    BY <1>5
  <2> HIDE DEF s
  <2> QED
    BY <2>1, <2>2
<1>10. PICK at : Lists(at, m, K) /\ \A a \in 1 .. m : q[a] = records[at[a]]
  BY <1>9
<1>11. m \in Nat
  BY <1>9
<1> HIDE DEF m
<1>12. \A a \in 1 .. m : /\ at[a] \in K /\ at[a] \in 1 .. l
                         /\ q[a].index = x + at[a] - 1
                         /\ q[a].value = SuffixRank(t, x + at[a] - 1)
                         /\ Bucket(S, SuffixRank(t, x + at[a] - 1)) = k
  BY <1>6, <1>7, <1>10 DEF Lists
<1>13. ASSUME NEW a \in 1 .. m
       PROVE  /\ q[a].index \in Positions(t) /\ ChunkOf(S, q[a].index) = c
              /\ Bucket(S, q[a].value) = k /\ q[a].value = SuffixRank(t, q[a].index)
  <2>1. x + at[a] - 1 \in Positions(t) /\ ChunkOf(S, x + at[a] - 1) = c
    BY <1>3, <1>12
  <2> QED
    BY <1>12, <2>1
<1>14. ASSUME NEW a \in 1 .. m, NEW b \in 1 .. m, a < b
       PROVE  q[a].index < q[b].index
  <2> DEFINE u == at[a]
             v == at[b]
  <2>1. u < v
    BY <1>10, <1>14 DEF Lists
  <2>2. u \in 1 .. l /\ v \in 1 .. l /\ q[a].index = x + u - 1 /\ q[b].index = x + v - 1
    BY <1>12
  <2> HIDE DEF u, v
  <2> QED
    BY <1>1, <2>1, <2>2
<1>15. ASSUME NEW p \in Positions(t), ChunkOf(S, p) = c, Bucket(S, SuffixRank(t, p)) = k
       PROVE  \E a \in 1 .. m : q[a].index = p
  <2>1. p \in x .. x + l - 1
    BY <1>2, <1>15
  <2> DEFINE i == p - x + 1
  <2>2. i \in 1 .. l /\ x + i - 1 = p
    BY <1>1, <1>2, <2>1
  <2> HIDE DEF i
  <2>3. i \in K
    BY <1>7, <1>15, <2>2
  <2>4. PICK a \in 1 .. m : at[a] = i
    BY <1>10, <2>3 DEF Lists
  <2>5. q[a].index = p
    BY <1>12, <2>2, <2>4
  <2> QED
    BY <2>5
<1>16. AddedBy(t, S, c, k, q)
  BY <1>9, <1>13, <1>14, <1>15 DEF AddedBy, m
<1> QED
  BY <1>16 DEF q

LEMMA PairsAppended ==
  ASSUME NEW t \in CodedText, NEW S \in Nat \ {0}, NEW c \in 0 .. Len(t) \div S,
         NEW k \in 0 .. Len(t) \div S, NEW list, Paired(t, S, c, k, list)
  PROVE  Paired(t, S, c + 1, k, list \o Slice(t, S, c, k))
<1> DEFINE q == Slice(t, S, c, k)
           m == Len(q)
           n == Len(list)
           z == list \o q
<1>1. /\ q \in Seq(PairSet)
      /\ \A a \in 1 .. m :
           /\ q[a].index \in Positions(t)
           /\ ChunkOf(S, q[a].index) = c
           /\ Bucket(S, q[a].value) = k
           /\ q[a].value = SuffixRank(t, q[a].index)
      /\ \A a, b \in 1 .. m : a < b => q[a].index < q[b].index
      /\ \A p \in Positions(t) :
           ChunkOf(S, p) = c /\ Bucket(S, SuffixRank(t, p)) = k => \E a \in 1 .. m : q[a].index = p
  <2>1. AddedBy(t, S, c, k, q)
    BY SliceOfFinal
  <2> HIDE DEF q
  <2> QED
    BY <2>1 DEF AddedBy
<1> HIDE DEF q
<1>2. /\ list \in Seq(PairSet)
      /\ \A a \in 1 .. n :
           list[a].index \in PairedIn(t, S, c, k) /\ list[a].value = SuffixRank(t, list[a].index)
      /\ \A a, b \in 1 .. n : a < b => list[a].index < list[b].index
      /\ \A p \in PairedIn(t, S, c, k) : \E a \in 1 .. n : list[a].index = p
  BY DEF Paired
<1>3. /\ z \in Seq(PairSet) /\ n \in Nat /\ m \in Nat /\ Len(z) = n + m
      /\ \A i \in 1 .. n : z[i] = list[i]
      /\ \A i \in 1 .. m : z[n + i] = q[i]
  BY <1>1, <1>2, ConcatAt
<1>4. c \in Nat /\ Positions(t) \subseteq Nat
  <2>1. Len(t) \div S \in Nat
    BY PositionsType, Division
  <2> QED
    BY <2>1, PositionsType
<1>5. \A p \in Positions(t) : ChunkOf(S, p) \in Nat
  BY <1>4, Division DEF ChunkOf
<1> HIDE DEF z, m, n
<1>6. \A p : p \in PairedIn(t, S, c + 1, k) <=>
             p \in PairedIn(t, S, c, k) \/ (p \in Positions(t) /\ ChunkOf(S, p) = c /\ Bucket(S, SuffixRank(t, p)) = k)
  <2> SUFFICES ASSUME NEW p \in Positions(t)
               PROVE  ChunkOf(S, p) < c + 1 <=> ChunkOf(S, p) < c \/ ChunkOf(S, p) = c
    BY DEF PairedIn
  <2> QED
    BY <1>4, <1>5
<1>7. \A i \in 1 .. n + m : i \in 1 .. n \/ (i - n \in 1 .. m /\ n + (i - n) = i)
  BY <1>3
<1>8. ASSUME NEW i \in 1 .. n + m
      PROVE  z[i].index \in PairedIn(t, S, c + 1, k) /\ z[i].value = SuffixRank(t, z[i].index)
  <2>1. CASE i \in 1 .. n
    BY <1>2, <1>3, <1>6, <2>1
  <2>2. CASE i - n \in 1 .. m /\ n + (i - n) = i
    <3> DEFINE a == i - n
    <3>1. a \in 1 .. m /\ z[i] = q[a]
      BY <1>3, <2>2
    <3> HIDE DEF a
    <3> QED
      BY <1>1, <1>6, <3>1
  <2> QED
    BY <1>7, <2>1, <2>2
<1>9. ASSUME NEW i \in 1 .. n + m, NEW j \in 1 .. n + m, i < j
      PROVE  z[i].index < z[j].index
  <2>1. CASE j \in 1 .. n
    <3>1. i \in 1 .. n
      BY <1>3, <1>9, <2>1
    <3> QED
      BY <1>2, <1>3, <1>9, <2>1, <3>1
  <2>2. CASE i - n \in 1 .. m /\ n + (i - n) = i
    <3> DEFINE a == i - n
               b == j - n
    <3>1. a \in 1 .. m /\ b \in 1 .. m /\ n + a = i /\ n + b = j /\ a < b
      BY <1>3, <1>9, <2>2
    <3> HIDE DEF a, b
    <3>2. z[i] = q[a] /\ z[j] = q[b]
      BY <1>3, <3>1
    <3> QED
      BY <1>1, <3>1, <3>2
  <2>3. CASE i \in 1 .. n /\ ~ (j \in 1 .. n)
    <3> DEFINE b == j - n
               u == list[i].index
               v == q[b].index
    <3>1. b \in 1 .. m /\ n + b = j
      BY <1>7, <2>3
    <3> HIDE DEF b
    <3>2. z[i] = list[i] /\ z[j] = q[b]
      BY <1>3, <2>3, <3>1
    <3>3. u \in Positions(t) /\ ChunkOf(S, u) < c
      BY <1>2, <2>3 DEF PairedIn
    <3>4. v \in Positions(t) /\ ChunkOf(S, v) = c
      BY <1>1, <3>1
    <3> HIDE DEF u, v
    <3>5. u \in Nat /\ v \in Nat
      BY <1>4, <3>3, <3>4
    <3>6. /\ u \div S \in Nat /\ u % S \in 0 .. S - 1 /\ u = (u \div S) * S + (u % S)
          /\ v \div S \in Nat /\ v % S \in 0 .. S - 1 /\ v = (v \div S) * S + (v % S)
      BY <3>5, Division
    <3>7. u \div S < v \div S
      BY <3>3, <3>4 DEF ChunkOf
    <3> DEFINE d == u \div S
               e == v \div S
               g == u % S
               h == v % S
    <3>8. d \in Nat /\ e \in Nat /\ g \in 0 .. S - 1 /\ h \in Nat /\ d < e
      BY <3>6, <3>7
    <3>9. u = d * S + g /\ v = e * S + h
      BY <3>6
    <3> HIDE DEF d, e, g, h
    <3>10. d * S + g < e * S + h
      BY <3>8, ChunkFirst
    <3>11. u < v
      BY <3>9, <3>10
    <3> QED
      BY <3>2, <3>11 DEF u, v
  <2> QED
    BY <1>7, <2>1, <2>2, <2>3
<1>10. ASSUME NEW p \in PairedIn(t, S, c + 1, k)
       PROVE  \E i \in 1 .. n + m : z[i].index = p
  <2>1. CASE p \in PairedIn(t, S, c, k)
    <3>1. PICK a \in 1 .. n : list[a].index = p
      BY <1>2, <2>1
    <3>2. a \in 1 .. n + m /\ z[a].index = p
      BY <1>3, <3>1
    <3> QED
      BY <3>2
  <2>2. CASE p \in Positions(t) /\ ChunkOf(S, p) = c /\ Bucket(S, SuffixRank(t, p)) = k
    <3>1. PICK a \in 1 .. m : q[a].index = p
      BY <1>1, <2>2
    <3>2. n + a \in 1 .. n + m /\ z[n + a].index = p
      <4>1. n \in Nat /\ m \in Nat /\ z[n + a] = q[a]
        BY <1>3
      <4>2. n + a \in 1 .. n + m
        BY <4>1
      <4> QED
        BY <3>1, <4>1, <4>2
    <3> QED
      BY <3>2
  <2> QED
    BY <1>6, <2>1, <2>2
<1>11. Len(z) = n + m /\ z \in Seq(PairSet)
  BY <1>3
<1>12. Paired(t, S, c + 1, k, z)
  BY <1>8, <1>9, <1>10, <1>11 DEF Paired
<1> QED
  BY <1>12 DEF z, q

-----------------------------------------------------------------------------
(* When all chunks have been appended the pairs of a bucket are as many as *)
(* the chunk of the suffix array has places.                               *)
LEMMA BucketFull ==
  ASSUME NEW t \in CodedText, NEW S \in Nat \ {0}, NEW n, n = ChunkOf(S, Len(t)) + 1,
         NEW k \in 0 .. Len(t) \div S, NEW list, Paired(t, S, n, k, list)
  PROVE  /\ list \in Seq(PairSet) /\ Len(list) = ChunkLength(t, S, k)
         /\ \A m \in 1 .. Len(list) :
              /\ list[m].index \in Positions(t)
              /\ list[m].value = SuffixRank(t, list[m].index)
              /\ Bucket(S, list[m].value) = k
         /\ \A p \in Positions(t) :
              Bucket(S, SuffixRank(t, p)) = k => \E m \in 1 .. Len(list) : list[m].index = p
<1> DEFINE L == Len(list)
           members == {r \in Positions(t) : ChunkOf(S, r) = k}
           f == [m \in 1 .. L |-> list[m].value]
<1>1. /\ Positions(t) = 0 .. Len(t) /\ Len(t) \in Nat /\ IsFiniteSet(Positions(t))
      /\ Cardinality(members) = ChunkLength(t, S, k)
  BY PositionsType, ChunkCounted
<1>2. /\ list \in Seq(PairSet)
      /\ \A m \in 1 .. L :
           list[m].index \in PairedIn(t, S, n, k) /\ list[m].value = SuffixRank(t, list[m].index)
      /\ \A a, b \in 1 .. L : a < b => list[a].index < list[b].index
      /\ \A p \in PairedIn(t, S, n, k) : \E m \in 1 .. L : list[m].index = p
  BY DEF Paired
<1>3. \A p \in Positions(t) : ChunkOf(S, p) < n
  <2> SUFFICES ASSUME NEW p \in Positions(t) PROVE ChunkOf(S, p) < n
    OBVIOUS
  <2> DEFINE N == Len(t)
             a == p \div S
             b == N \div S
             i == p % S
             j == N % S
  <2>1. /\ p \in Nat /\ N \in Nat /\ p <= N
        /\ a \in Nat /\ i \in 0 .. S - 1 /\ p = a * S + i
        /\ b \in Nat /\ j \in 0 .. S - 1 /\ N = b * S + j
    <3>1. p \in Nat /\ N \in Nat /\ p <= N
      BY <1>1
    <3>2. p \div S \in Nat /\ p % S \in 0 .. S - 1 /\ p = (p \div S) * S + (p % S)
      BY <3>1, Division
    <3> HIDE DEF N
    <3>3. N \div S \in Nat /\ N % S \in 0 .. S - 1 /\ N = (N \div S) * S + (N % S)
      BY <3>1, Division
    <3> QED
      BY <3>1, <3>2, <3>3
  <2>2. n = b + 1 /\ ChunkOf(S, p) = a
    BY DEF ChunkOf
  <2> HIDE DEF N, a, b, i, j
  <2>3. ~ (b < a)
    <3> SUFFICES ASSUME b < a PROVE FALSE
      OBVIOUS
    <3>1. i \in Nat
      BY <2>1
    <3>2. b * S + j < a * S + i
      BY <2>1, <3>1, ChunkFirst
    <3>3. N < p
      BY <2>1, <3>2
    <3> QED
      BY <2>1, <3>3
  <2> QED
    BY <2>1, <2>2, <2>3
<1>4. \A p : p \in PairedIn(t, S, n, k) <=> p \in Positions(t) /\ Bucket(S, SuffixRank(t, p)) = k
  BY <1>3 DEF PairedIn
<1>5. L \in Nat
  BY <1>2
<1> HIDE DEF L
<1>6. \A m \in 1 .. L : /\ list[m].index \in Positions(t)
                        /\ list[m].value = SuffixRank(t, list[m].index)
                        /\ Bucket(S, list[m].value) = k
  BY <1>2, <1>4
<1>7. \A p \in Positions(t) : Bucket(S, SuffixRank(t, p)) = k => \E m \in 1 .. L : list[m].index = p
  BY <1>2, <1>4
<1>8. f \in [1 .. L -> members]
  <2> SUFFICES ASSUME NEW m \in 1 .. L PROVE f[m] \in members
    OBVIOUS
  <2>1. f[m] = SuffixRank(t, list[m].index) /\ list[m].index \in Positions(t)
    BY <1>6
  <2>2. f[m] \in Positions(t)
    BY <1>1, <2>1, SuffixRankBound
  <2>3. ChunkOf(S, f[m]) = k
    BY <1>6 DEF ChunkOf, Bucket
  <2> QED
    BY <2>2, <2>3
<1>9. \A a, b \in 1 .. L : f[a] = f[b] => a = b
  <2> SUFFICES ASSUME NEW a \in 1 .. L, NEW b \in 1 .. L, f[a] = f[b], a # b PROVE FALSE
    OBVIOUS
  <2> DEFINE x == list[a].index
             y == list[b].index
  <2>1. x \in Positions(t) /\ y \in Positions(t) /\ SuffixRank(t, x) = SuffixRank(t, y)
    BY <1>6
  <2>2. a < b \/ b < a
    BY <1>5
  <2>3. x < y \/ y < x
    BY <1>2, <2>2 DEF L
  <2> HIDE DEF x, y
  <2>4. x = y
    BY <2>1, SuffixRankDecides
  <2> QED
    BY <1>1, <2>1, <2>3, <2>4
<1>10. \A r \in members : \E m \in 1 .. L : f[m] = r
  <2> SUFFICES ASSUME NEW r \in members PROVE \E m \in 1 .. L : f[m] = r
    OBVIOUS
  <2>1. r \in 0 .. Len(t) /\ ChunkOf(S, r) = k
    BY <1>1
  <2>2. PICK p \in Positions(t) : SuffixRank(t, p) = r
    BY <2>1, EveryRankTaken
  <2>3. Bucket(S, SuffixRank(t, p)) = k
    BY <2>1, <2>2 DEF Bucket, ChunkOf
  <2>4. PICK m \in 1 .. L : list[m].index = p
    BY <1>7, <2>3
  <2>5. f[m] = r
    BY <1>6, <2>2, <2>4
  <2> QED
    BY <2>5
<1>11. L = Cardinality(members)
  <2> HIDE DEF f, members
  <2>1. f \in Surjection(1 .. L, members)
    BY <1>8, <1>10 DEF Surjection
  <2>2. f \in Injection(1 .. L, members)
    BY <1>8, <1>9 DEF Injection, IsInjective
  <2>3. IsFiniteSet(1 .. L) /\ Cardinality(1 .. L) = L
    BY <1>5, FirstNumbers
  <2> QED
    BY <2>1, <2>2, <2>3, FS_Surjection
<1> QED
  BY <1>1, <1>2, <1>6, <1>7, <1>11 DEF L

(* invert puts the positions where their ranks say.                        *)
LEMMA BucketInverted ==
  ASSUME NEW t \in CodedText, NEW S \in Nat \ {0}, NEW n, n = ChunkOf(S, Len(t)) + 1,
         NEW k \in 0 .. Len(t) \div S, NEW list, Paired(t, S, n, k, list),
         NEW buffer \in [0 .. S - 1 -> Nat]
  PROVE  WrittenChunk(S, buffer, list) = FinalFile(t, S, ChunkLength(t, S, k), k + 1)
<1> DEFINE L == ChunkLength(t, S, k)
           x == k * S
           placed == Placed(S, buffer, list)
           hits(slot) == {m \in 1 .. L : list[m].value % S = slot}
<1>1. /\ list \in Seq(PairSet) /\ Len(list) = L
      /\ \A m \in 1 .. L :
           /\ list[m].index \in Positions(t)
           /\ list[m].value = SuffixRank(t, list[m].index)
           /\ Bucket(S, list[m].value) = k
      /\ \A p \in Positions(t) :
           Bucket(S, SuffixRank(t, p)) = k => \E m \in 1 .. L : list[m].index = p
  BY BucketFull
<1>2. L \in 1 .. S /\ \A i \in 0 .. L - 1 : x + i \in Positions(t)
  BY ChunkCounted
<1>3. k \in Nat /\ x \in Nat /\ Positions(t) = 0 .. Len(t) /\ Len(t) \in Nat
  <2>1. Len(t) \in Nat /\ Positions(t) = 0 .. Len(t)
    BY PositionsType
  <2>2. Len(t) \div S \in Nat
    BY <2>1, Division
  <2> QED
    BY <2>1, <2>2
<1> HIDE DEF L
<1>4. ReadPairs(S, list) = list
  <2>1. Len(list) <= S
    BY <1>1, <1>2
  <2>2. (IF Len(list) < S THEN Len(list) ELSE S) = Len(list)
    BY <1>1, <1>2
  <2>3. SubSeq(list, 1, Len(list)) = list
    BY <1>1
  <2> QED
    BY <2>2, <2>3 DEF ReadPairs
<1>5. placed = [slot \in 0 .. S - 1 |->
                 IF hits(slot) = {} THEN buffer[slot] ELSE list[Max(hits(slot))].index]
  <2>1. DOMAIN list = 1 .. L /\ DOMAIN buffer = 0 .. S - 1
    BY <1>1
  <2> QED
    BY <1>4, <2>1 DEF Placed
<1>6. WrittenChunk(S, buffer, list) = [j \in 1 .. L |-> placed[j - 1]]
  BY <1>1, <1>4 DEF WrittenChunk
<1> HIDE DEF placed
<1>7. ASSUME NEW j \in 1 .. L
      PROVE  placed[j - 1] = CHOOSE p \in Positions(t) : SuffixRank(t, p) = ((k + 1) - 1) * S + j - 1
  <2> DEFINE i == j - 1
             H == hits(i)
             h == Max(H)
             C == CHOOSE p \in Positions(t) : SuffixRank(t, p) = x + i
  <2>1. i \in 0 .. L - 1 /\ i \in 0 .. S - 1
    BY <1>2
  <2>2. ((k + 1) - 1) * S + j - 1 = x + i
    <3>1. (k + 1) - 1 = k
      BY <1>3
    <3>2. x + j - 1 = x + i
      BY <1>3
    <3> QED
      BY <3>1, <3>2
  <2>3. x + i \in 0 .. Len(t)
    BY <1>2, <1>3, <2>1
  <2> HIDE DEF i
  <2>4. PICK p \in Positions(t) : SuffixRank(t, p) = x + i
    BY <2>3, EveryRankTaken
  <2>5. (x + i) \div S = k /\ (x + i) % S = i
    BY <1>3, <2>1, DivisionUnique
  <2>6. PICK m \in 1 .. L : list[m].index = p
    <3>1. Bucket(S, SuffixRank(t, p)) = k
      BY <2>4, <2>5 DEF Bucket
    <3> QED
      BY <1>1, <3>1
  <2>7. m \in H
    BY <1>1, <2>4, <2>5, <2>6
  <2>8. h \in H
    <3>1. H \in SUBSET (0 .. L) /\ H # {} /\ L \in Nat
      <4>1. L \in Nat
        BY <1>2
      <4>2. \A b \in 1 .. L : b \in 0 .. L
        BY <4>1
      <4>3. H \subseteq 1 .. L
        OBVIOUS
      <4> HIDE DEF H
      <4> QED
        BY <2>7, <4>1, <4>2, <4>3
    <3> HIDE DEF H
    <3> QED
      BY <3>1, Extremes
  <2>9. h \in 1 .. L /\ list[h].value % S = i
    BY <2>8
  <2>10. placed[i] = list[h].index
    <3>1. hits(i) # {}
      BY <2>7
    <3> HIDE DEF hits
    <3> QED
      BY <1>5, <2>1, <3>1
  <2> HIDE DEF h, H
  <2> DEFINE q == list[h].index
             v == list[h].value
  <2>11. q \in Positions(t) /\ v = SuffixRank(t, q) /\ v \div S = k /\ v % S = i
    BY <1>1, <2>9 DEF Bucket
  <2>12. v \in Nat
    BY <2>11, SuffixRankBound
  <2> HIDE DEF q, v
  <2>13. v = x + i
    <3>1. v = (v \div S) * S + (v % S)
      BY <2>12, Division
    <3> QED
      BY <2>11, <3>1
  <2>14. C \in Positions(t) /\ SuffixRank(t, C) = x + i
    BY <2>4
  <2> HIDE DEF C
  <2>15. C = q
    BY <2>11, <2>13, <2>14, SuffixRankDecides
  <2>16. placed[j - 1] = C
    BY <2>10, <2>15 DEF i, q
  <2> QED
    BY <2>2, <2>16 DEF C
<1> QED
  BY <1>6, <1>7 DEF FinalFile, L

-----------------------------------------------------------------------------
(* What the two programs leave of files of whatever kind.                  *)
LEMMA SliceTyped ==
  ASSUME NEW S \in Nat \ {0}, NEW n \in Nat \ {0}, NEW c \in Nat, NEW ranks \in Seq(Nat),
         NEW k \in 0 .. n - 1
  PROVE  PairsSlice(S, InverseBuffer(S, n, InverseRecords(S, c, ranks)), ranks, k) \in Seq(PairSet)
<1> DEFINE records == InverseRecords(S, c, ranks)
           K == InBucket(S, ranks, k)
<1>1. /\ records \in Seq(PairSet) /\ Len(records) = Len(ranks)
      /\ PairsSlice(S, InverseBuffer(S, n, records), ranks, k) = Selected(records, K)
  <2>1. Sliced(S, n, c, ranks, k)
    BY SliceIsBucket
  <2> QED
    BY <2>1 DEF Sliced
<1>2. K \in SUBSET (1 .. Len(records))
  <2> HIDE DEF records
  <2> QED
    BY <1>1 DEF InBucket
<1> HIDE DEF records, K
<1>3. Selected(records, K) \in Seq(PairSet)
  BY <1>1, <1>2, SelectedLists
<1> QED
  BY <1>1, <1>3 DEF records

LEMMA PlacedTyped ==
  ASSUME NEW S \in Nat \ {0}, NEW list \in Seq(PairSet), NEW buffer \in [0 .. S - 1 -> Nat]
  PROVE  /\ Placed(S, buffer, list) \in [0 .. S - 1 -> Nat]
         /\ WrittenChunk(S, buffer, list) \in Seq(Nat)
<1> DEFINE read == ReadPairs(S, list)
           L == Len(read)
           hits(slot) == {m \in 1 .. L : read[m].value % S = slot}
           placed == Placed(S, buffer, list)
<1>1. read \in Seq(PairSet) /\ L \in Nat /\ L <= S
  <2> DEFINE l == IF Len(list) < S THEN Len(list) ELSE S
  <2>1. l \in 0 .. Len(list) /\ l <= S /\ read = SubSeq(list, 1, l)
    BY DEF ReadPairs
  <2> HIDE DEF l, read
  <2>2. l <= Len(list) /\ l \in Nat
    BY <2>1
  <2>3. read \in Seq(PairSet) /\ Len(read) = l
    BY <2>1, <2>2
  <2> QED
    BY <2>1, <2>3
<1>2. DOMAIN read = 1 .. L
  BY <1>1
<1>3. placed = [slot \in 0 .. S - 1 |->
                 IF hits(slot) = {} THEN buffer[slot] ELSE read[Max(hits(slot))].index]
  BY <1>2 DEF Placed
<1> HIDE DEF read, L
<1>4. ASSUME NEW slot \in 0 .. S - 1 PROVE placed[slot] \in Nat
  <2> DEFINE H == hits(slot)
  <2>1. CASE H = {}
    BY <1>3, <2>1
  <2>2. CASE H # {}
    <3>1. H \in SUBSET (0 .. L)
      BY <1>1
    <3>2. Max(H) \in H
      <4> HIDE DEF H
      <4> QED
        BY <1>1, <2>2, <3>1, Extremes
    <3>3. Max(H) \in 1 .. L
      BY <3>2
    <3>4. placed[slot] = read[Max(H)].index
      BY <1>3, <2>2
    <3> HIDE DEF H
    <3>5. read[Max(H)] \in PairSet
      BY <1>1, <3>3 DEF L
    <3> QED
      BY <3>4, <3>5 DEF PairSet
  <2> QED
    BY <2>1, <2>2
<1>5. placed \in [0 .. S - 1 -> Nat]
  <2> HIDE DEF placed
  <2>1. placed = [slot \in 0 .. S - 1 |-> placed[slot]]
    BY <1>3
  <2> QED
    BY <1>4, <2>1
<1>6. WrittenChunk(S, buffer, list) = [j \in 1 .. L |-> placed[j - 1]]
  BY DEF WrittenChunk, read, L
<1> HIDE DEF placed
<1>7. \A j \in 1 .. L : placed[j - 1] \in Nat
  <2> SUFFICES ASSUME NEW j \in 1 .. L PROVE placed[j - 1] \in Nat
    OBVIOUS
  <2>1. j - 1 \in 0 .. S - 1
    BY <1>1
  <2> QED
    BY <1>5, <2>1
<1> DEFINE g(j) == placed[j - 1]
<1>8. WrittenChunk(S, buffer, list) = [j \in 1 .. L |-> g(j)] /\ \A j \in 1 .. L : g(j) \in Nat
  BY <1>6, <1>7
<1> HIDE DEF g
<1>9. WrittenChunk(S, buffer, list) \in Seq(Nat)
  BY <1>1, <1>8
<1> QED
  BY <1>5, <1>9 DEF placed
=============================================================================
