---------------------------- MODULE VerifyProofs ----------------------------
(***************************************************************************)
(* Whatever files verify is given, it accepts nothing but the suffix array.*)
(* Verify compares neighbours alone, by a symbol and by ranks that it has  *)
(* no reason to trust.  That is enough: ranks that order all positions     *)
(* consistently with their own next ranks can only be in suffix order.     *)
(* Nor does it reject the suffix array, and its steps come to the verdict  *)
(* that Accepts gives of the files as a whole.                             *)
(***************************************************************************)
EXTENDS Verify, RunStreamTheorems

(* The test that verify makes of two positions, with the ranks given.      *)
Consistent(t, rank, p, q) ==
  LET next(i) == IF i = Len(t) THEN -1 ELSE rank[i + 1]
  IN  \/ Symbol(t, p) < Symbol(t, q)
      \/ Symbol(t, p) = Symbol(t, q) /\ next(p) < next(q)

(* While the symbols of two positions agree, their order by rank is passed *)
(* on to the positions that follow.                                        *)
LEMMA RankOrderPassedOn ==
  ASSUME NEW t \in CodedText, NEW rank \in [Positions(t) -> Nat],
         \A p, q \in Positions(t) : rank[p] < rank[q] => Consistent(t, rank, p, q),
         NEW p \in Positions(t), NEW q \in Positions(t), rank[p] < rank[q],
         NEW d \in Nat, PrefixEq(t, d, p, q),
         p + d \in Positions(t), q + d \in Positions(t)
  PROVE  rank[p + d] < rank[q + d]
<1> DEFINE T == {j \in 0 .. d : ~ (rank[p + j] < rank[q + j])}
<1>1. SUFFICES ASSUME ~ (rank[p + d] < rank[q + d]) PROVE FALSE
  OBVIOUS
<1>2. T # {} /\ T \subseteq Nat
  BY <1>1
<1> HIDE DEF T
<1>3. PICK j \in T : \A e \in T : ~ (<<e, j>> \in OpToRel(<, Nat))
  BY <1>2, WFMin, NatLessThanWellFounded
<1>4. \A e \in T : ~ (e < j)
  BY <1>2, <1>3 DEF OpToRel
<1>5. j \in 0 .. d /\ ~ (rank[p + j] < rank[q + j])
  BY DEF T
<1>6. /\ Len(t) \in Nat /\ Positions(t) = 0 .. Len(t)
      /\ p \in Nat /\ q \in Nat
  BY PositionsType
<1>7. j # 0
  BY <1>5, <1>6
<1>8. PICK i \in 0 .. d : i < d /\ i < j /\ j = i + 1
  <2>1. j - 1 \in 0 .. d /\ j - 1 < d /\ j - 1 < j /\ j = (j - 1) + 1
    BY <1>5, <1>7
  <2> QED
    BY <2>1
<1>9. rank[p + i] < rank[q + i]
  BY <1>4, <1>8 DEF T
<1>10. Symbol(t, p + i) = Symbol(t, q + i)
  BY <1>8 DEF PrefixEq
<1>11. /\ p + i \in Positions(t) /\ q + i \in Positions(t)
       /\ p + i # Len(t) /\ q + i # Len(t)
       /\ (p + i) + 1 = p + j /\ (q + i) + 1 = q + j
  BY <1>6, <1>8
<1>12. Symbol(t, p + i) \in Nat /\ Symbol(t, q + i) \in Nat
  BY <1>6, <1>11, SymbolType
<1>13. Consistent(t, rank, p + i, q + i)
  BY <1>9, <1>11
<1> QED
  BY <1>5, <1>10, <1>11, <1>12, <1>13 DEF Consistent

(* Ranks without ties that pass verify's test on all pairs of positions    *)
(* order these as their suffixes, whatever the ranks are.                  *)
LEMMA ConsistentRanksOrderSuffixes ==
  ASSUME NEW t \in CodedText, NEW rank \in [Positions(t) -> Nat],
         \A p, q \in Positions(t) : rank[p] < rank[q] => Consistent(t, rank, p, q),
         NEW p \in Positions(t), NEW q \in Positions(t), rank[p] < rank[q]
  PROVE  SuffixLess(t, p, q)
<1>1. /\ Len(t) \in Nat /\ Positions(t) = 0 .. Len(t)
      /\ p \in Nat /\ q \in Nat /\ Len(t) + 1 \in Nat /\ p # q
  BY PositionsType
<1>2. ~ PrefixEq(t, Len(t) + 1, p, q)
  <2>1. ~ (p + (Len(t) + 1) \in Positions(t))
    BY <1>1
  <2> QED
    BY <1>1, <2>1, SentinelDecides
<1>3. SUFFICES ASSUME PrefixLess(t, Len(t) + 1, q, p) PROVE FALSE
  BY <1>1, <1>2, Trichotomy DEF SuffixLess
<1>4. PICK d \in 0 .. (Len(t) + 1) - 1 :
        Symbol(t, q + d) < Symbol(t, p + d) /\ PrefixEq(t, d, q, p)
  BY <1>3 DEF PrefixLess
<1>5. d \in Nat /\ PrefixEq(t, d, p, q)
  BY <1>1, <1>4, PrefixEqEquivalence
<1>6. p + d \in Positions(t) /\ q + d \in Positions(t)
  BY <1>1, <1>5, SentinelDecides
<1>7. rank[p + d] < rank[q + d]
  BY <1>5, <1>6, RankOrderPassedOn
<1>8. Consistent(t, rank, p + d, q + d)
  BY <1>6, <1>7
<1>9. Symbol(t, p + d) \in Nat /\ Symbol(t, q + d) \in Nat
  BY <1>1, <1>6, SymbolType
<1> QED
  BY <1>4, <1>8, <1>9 DEF Consistent

-----------------------------------------------------------------------------
(* Sequences of records in which each is less than the next are sorted.    *)
LEMMA NeighboursDecide ==
  ASSUME NEW n \in Nat, NEW s,
         \A i \in 1 .. n : s[i].first_key \in Int /\ s[i].next_rank \in Int,
         \A i \in 2 .. n : LexLessStrict(s[i - 1], s[i])
  PROVE  \A i, j \in 1 .. n : i < j => LexLessStrict(s[i], s[j])
<1>1. SUFFICES ASSUME NEW i \in 1 .. n, NEW k \in 1 .. n, i < k, ~ LexLessStrict(s[i], s[k])
               PROVE  FALSE
  OBVIOUS
<1> DEFINE T == {j \in 1 .. n : i < j /\ ~ LexLessStrict(s[i], s[j])}
<1>2. T # {} /\ T \subseteq Nat
  BY <1>1
<1> HIDE DEF T
<1>3. PICK j \in T : \A e \in T : ~ (<<e, j>> \in OpToRel(<, Nat))
  BY <1>2, WFMin, NatLessThanWellFounded
<1>4. \A e \in T : ~ (e < j)
  BY <1>2, <1>3 DEF OpToRel
<1>5. j \in 1 .. n /\ i < j /\ ~ LexLessStrict(s[i], s[j])
  BY DEF T
<1> DEFINE h == j - 1
<1>6. h \in 1 .. n /\ j \in 2 .. n /\ h < j
  BY <1>5
<1>7. LexLessStrict(s[h], s[j])
  BY <1>6
<1>8. i # h
  BY <1>5, <1>7
<1>9. i < h
  BY <1>5, <1>6, <1>8
<1>10. LexLessStrict(s[i], s[h])
  BY <1>4, <1>6, <1>9 DEF T
<1>11. /\ s[i].first_key \in Int /\ s[i].next_rank \in Int
       /\ s[h].first_key \in Int /\ s[h].next_rank \in Int
       /\ s[j].first_key \in Int /\ s[j].next_rank \in Int
  BY <1>5, <1>6
<1> HIDE DEF h
<1> QED
  BY <1>5, <1>7, <1>10, <1>11 DEF LexLessStrict

-----------------------------------------------------------------------------
(* The records of a chunk.                                                 *)
Record == [position : Nat, next_rank : Nat \cup {-1}, target : Nat, slot : Nat, first_key : Nat]

Files == Seq(Seq(Nat))

LEMMA RecordFields ==
  ASSUME NEW r \in Record
  PROVE  r.first_key \in Int /\ r.next_rank \in Int /\ r.target \in Nat /\ r.slot \in Nat
  BY DEF Record

LEMMA ReadRanksType ==
  ASSUME NEW S \in Nat \ {0}, NEW file \in Seq(Nat)
  PROVE  /\ Len(ReadRanks(S, file)) \in 0 .. S
         /\ Len(ReadRanks(S, file)) <= Len(file)
         /\ Len(file) <= S => Len(ReadRanks(S, file)) = Len(file)
         /\ DOMAIN ReadRanks(S, file) = 1 .. Len(ReadRanks(S, file))
         /\ \A i \in DOMAIN ReadRanks(S, file) :
              /\ ReadRanks(S, file)[i] = file[i]
              /\ i \in DOMAIN file /\ file[i] \in Nat
  BY DEF ReadRanks

(* One record: what the partition writes of the c-th chunk's i-th rank.    *)
LEMMA RecordType ==
  ASSUME NEW t \in CodedText, NEW S \in Nat \ {0}, NEW R \in Files, NEW n \in Nat,
         NEW c \in 0 .. Len(R) - 1, ~ PartitionFails(t, S, R, n, c),
         NEW i \in DOMAIN ReadRanks(S, R[c + 1])
  PROVE  /\ VerifyRecord(t, S, R, n, c, i) \in Record
         /\ VerifyRecord(t, S, R, n, c, i).slot < S
         /\ VerifyRecord(t, S, R, n, c, i).target < Len(R)
<1>1. Len(R) \in Nat /\ c + 1 \in DOMAIN R /\ R[c + 1] \in Seq(Nat) /\ c \in Nat
  BY DEF Files
<1>2. /\ i \in 1 .. S /\ i \in DOMAIN R[c + 1] /\ R[c + 1][i] \in Nat
      /\ ReadRanks(S, R[c + 1])[i] = R[c + 1][i]
  <2> DEFINE file == R[c + 1]
  <2>1. file \in Seq(Nat) /\ i \in DOMAIN ReadRanks(S, file)
    BY <1>1
  <2> HIDE DEF file
  <2>2. /\ ReadRanks(S, file)[i] = file[i] /\ i \in DOMAIN file /\ file[i] \in Nat
        /\ Len(ReadRanks(S, file)) \in 0 .. S
        /\ DOMAIN ReadRanks(S, file) = 1 .. Len(ReadRanks(S, file))
    BY <2>1, ReadRanksType
  <2>3. i \in 1 .. S
    BY <2>1, <2>2
  <2> QED
    BY <2>2, <2>3 DEF file
<1>3. /\ R[c + 1][i] \div S \in Nat
      /\ R[c + 1][i] % S \in 0 .. S - 1
      /\ R[c + 1][i] \div S < Len(R)
  <2>1. ~ (R[c + 1][i] \div S >= Len(R))
    BY <1>2 DEF PartitionFails
  <2>2. R[c + 1][i] \div S \in Nat /\ R[c + 1][i] % S \in 0 .. S - 1
    BY <1>2, Division
  <2> QED
    BY <1>1, <2>1, <2>2
<1>4. c * S + i - 1 \in Nat
  <2>1. c * S \in Nat
    BY <1>1
  <2> QED
    BY <1>2, <2>1
<1>5. NextRank(S, R, c, i) \in Nat \cup {-1}
  <2>1. CASE i < Len(ReadRanks(S, R[c + 1]))
    <3> DEFINE file == R[c + 1]
    <3>1. file \in Seq(Nat)
      BY <1>1
    <3>2. NextRank(S, R, c, i) = ReadRanks(S, file)[i + 1]
      BY <2>1 DEF NextRank
    <3> HIDE DEF file
    <3>3. /\ DOMAIN ReadRanks(S, file) = 1 .. Len(ReadRanks(S, file))
          /\ Len(ReadRanks(S, file)) \in Nat
      BY <3>1, ReadRanksType
    <3>4. i + 1 \in DOMAIN ReadRanks(S, file)
      BY <1>2, <2>1, <3>3 DEF file
    <3>5. ReadRanks(S, file)[i + 1] = file[i + 1] /\ file[i + 1] \in Nat
      BY <3>1, <3>4, ReadRanksType
    <3> QED
      BY <3>2, <3>5
  <2>2. CASE ~ (i < Len(ReadRanks(S, R[c + 1]))) /\ c + 1 < Len(R)
    <3>1. R[c + 2] \in Seq(Nat) /\ R[c + 2] # <<>>
      BY <1>1, <2>2 DEF PartitionFails, Files
    <3>2. R[c + 2][1] \in Nat
      BY <3>1
    <3> QED
      BY <2>2, <3>2 DEF NextRank
  <2>3. CASE ~ (i < Len(ReadRanks(S, R[c + 1]))) /\ ~ (c + 1 < Len(R))
    BY <2>3 DEF NextRank
  <2> QED
    BY <2>1, <2>2, <2>3
<1>6. EncodeFirstKey(Symbol(t, n + i - 1)) \in Nat
  <2>1. n + i - 1 \in Nat
    BY <1>2
  <2>2. Symbol(t, n + i - 1) \in Nat
    BY <2>1, SymbolType
  <2> QED
    BY <2>2 DEF EncodeFirstKey
<1> QED
  BY <1>3, <1>4, <1>5, <1>6 DEF VerifyRecord, Record

LEMMA RecordsFinite ==
  ASSUME NEW t, NEW S \in Nat \ {0}, NEW R \in Files, NEW n,
         NEW c \in 0 .. Len(R) - 1
  PROVE  IsFiniteSet(VerifyRecords(t, S, R, n, c))
<1> DEFINE D == DOMAIN ReadRanks(S, R[c + 1])
           T == VerifyRecords(t, S, R, n, c)
           f == [i \in D |-> VerifyRecord(t, S, R, n, c, i)]
<1>1. R[c + 1] \in Seq(Nat)
  BY DEF Files
<1>2. D = 1 .. Len(ReadRanks(S, R[c + 1])) /\ Len(ReadRanks(S, R[c + 1])) \in Nat
  BY <1>1, ReadRanksType
<1>3. IsFiniteSet(D)
  BY <1>2, FS_Interval
<1>4. f \in Surjection(D, T)
  BY DEF Surjection, VerifyRecords
<1> QED
  BY <1>3, <1>4, FS_Surjection

-----------------------------------------------------------------------------
(* A file that fits its records: every slot has one record.                *)
LEMMA SlotsFilled ==
  ASSUME NEW S \in Nat, NEW file \in Seq(Int), NEW records \in SUBSET Record,
         IsFiniteSet(records), Fits(S, file, records)
  PROVE  /\ Cardinality(records) = Len(file)
         /\ \A n \in 1 .. Len(file) :
              /\ InSlotOrder(records)[n] \in records
              /\ InSlotOrder(records)[n].slot = n - 1
         /\ \A r \in records : r.slot + 1 \in 1 .. Len(file) /\ InSlotOrder(records)[r.slot + 1] = r
<1> DEFINE L == Len(file)
           f == [r \in records |-> r.slot]
<1>1. L \in Nat /\ Cardinality(records) = L
  BY DEF Fits
<1>2. \A r \in records : r.slot \in 0 .. L - 1
  BY <1>1 DEF Fits, Record
<1>3. f \in Injection(records, 0 .. L - 1)
  <2>1. f \in [records -> 0 .. L - 1]
    BY <1>2
  <2>2. \A r, q \in records : f[r] = f[q] => r = q
    BY DEF Fits
  <2> QED
    BY <2>1, <2>2 DEF Injection, IsInjective
<1>4. IsFiniteSet(0 .. L - 1) /\ Cardinality(0 .. L - 1) = L
  <2>1. 0 \in Int /\ L - 1 \in Int /\ (0 > L - 1 => L = 0) /\ (L - 1) - 0 + 1 = L
    BY <1>1
  <2> HIDE DEF L
  <2> QED
    BY <2>1, FS_Interval
<1>5. f \in Surjection(records, 0 .. L - 1)
  BY <1>1, <1>3, <1>4, FS_Injection
<1>6. \A n \in 1 .. L : \E r \in records : r.slot = n - 1
  <2>1. SUFFICES ASSUME NEW n \in 1 .. L PROVE \E r \in records : r.slot = n - 1
    OBVIOUS
  <2>2. n - 1 \in 0 .. L - 1
    BY <1>1
  <2> QED
    BY <1>5, <2>2 DEF Surjection
<1>7. \A n \in 1 .. L :
        InSlotOrder(records)[n] = CHOOSE r \in records : r.slot = n - 1
  BY <1>1 DEF InSlotOrder
<1>8. \A n \in 1 .. L :
        InSlotOrder(records)[n] \in records /\ InSlotOrder(records)[n].slot = n - 1
  BY <1>6, <1>7
<1>9. ASSUME NEW r \in records
      PROVE  r.slot + 1 \in 1 .. L /\ InSlotOrder(records)[r.slot + 1] = r
  <2>1. r.slot \in 0 .. L - 1
    BY <1>2
  <2>2. r.slot + 1 \in 1 .. L /\ (r.slot + 1) - 1 = r.slot
    BY <1>1, <2>1
  <2>3. /\ InSlotOrder(records)[r.slot + 1] \in records
        /\ InSlotOrder(records)[r.slot + 1].slot = r.slot
    BY <1>8, <2>2
  <2> QED
    BY <2>2, <2>3 DEF Fits
<1> QED
  BY <1>1, <1>8, <1>9

(* What the check of one file establishes of its records, and of the carry *)
(* before and after.                                                       *)
LEMMA FileChecked ==
  ASSUME NEW S \in Nat, NEW file \in Seq(Int), NEW records \in SUBSET Record,
         NEW before \in Seq(Record), Len(before) <= 1,
         IsFiniteSet(records), Fits(S, file, records),
         InOrder(file, InSlotOrder(records), before)
  PROVE  /\ \A r, q \in records : r.slot < q.slot => LexLessStrict(r, q)
         /\ \A r \in records : before # <<>> => LexLessStrict(before[1], r)
         /\ \A r \in records : file[r.slot + 1] = r.position
         /\ records = {} => CarryAfter(InSlotOrder(records), before) = before
         /\ records # {} =>
              \E last \in records :
                /\ CarryAfter(InSlotOrder(records), before) = <<last>>
                /\ \A r \in records : r.slot <= last.slot
<1> DEFINE n == Len(file)
           placed == InSlotOrder(records)
           neighbours == before \o placed
           b == Len(before)
<1>1. n \in Nat /\ b \in 0 .. 1
  OBVIOUS
<1>2. Cardinality(records) = n
  BY SlotsFilled
<1>3. \A i \in 1 .. n : placed[i] \in records /\ placed[i].slot = i - 1
  BY SlotsFilled
<1>4. \A r \in records : r.slot + 1 \in 1 .. n /\ placed[r.slot + 1] = r /\ r.slot \in Nat
  BY SlotsFilled DEF Record
<1>5. placed \in Seq(Record) /\ Len(placed) = n
  <2>1. placed = [i \in 1 .. n |-> placed[i]]
    BY <1>2 DEF InSlotOrder
  <2> HIDE DEF placed
  <2>2. \A i \in 1 .. n : placed[i] \in Record
    BY <1>3
  <2> QED
    BY <1>1, <2>1, <2>2
<1> HIDE DEF placed
<1>6. /\ Len(neighbours) = b + n
      /\ \A i \in 1 .. n : neighbours[b + i] = placed[i]
      /\ b = 1 => neighbours[1] = before[1]
  BY <1>1, <1>5
<1>7. \A i \in 1 .. b + n : neighbours[i] \in Record
  BY <1>1, <1>5
<1>8. /\ \A i \in 1 .. n : placed[i].position = file[i]
      /\ \A i \in 2 .. b + n : LexLessStrict(neighbours[i - 1], neighbours[i])
  <2>1. /\ \A i \in DOMAIN placed : placed[i].position = file[i]
        /\ \A i \in 2 .. Len(neighbours) : LexLessStrict(neighbours[i - 1], neighbours[i])
    BY DEF InOrder, placed
  <2>2. DOMAIN placed = 1 .. n
    BY <1>5
  <2> HIDE DEF neighbours, n, b
  <2> QED
    BY <1>6, <2>1, <2>2
<1> HIDE DEF neighbours, n, b
<1>9. \A i, j \in 1 .. b + n : i < j => LexLessStrict(neighbours[i], neighbours[j])
  <2>1. b + n \in Nat
    BY <1>1
  <2>2. \A i \in 1 .. b + n : neighbours[i].first_key \in Int /\ neighbours[i].next_rank \in Int
    BY <1>7 DEF Record
  <2> QED
    BY <1>8, <2>1, <2>2, NeighboursDecide
<1>10. ASSUME NEW r \in records, NEW q \in records, r.slot < q.slot
       PROVE  LexLessStrict(r, q)
  <2>1. /\ neighbours[b + (r.slot + 1)] = r /\ neighbours[b + (q.slot + 1)] = q
    BY <1>4, <1>6
  <2>2. /\ b + (r.slot + 1) \in 1 .. b + n /\ b + (q.slot + 1) \in 1 .. b + n
        /\ b + (r.slot + 1) < b + (q.slot + 1)
    <3> DEFINE x == r.slot
               y == q.slot
    <3>1. x \in Nat /\ y \in Nat /\ x < y /\ x + 1 \in 1 .. n /\ y + 1 \in 1 .. n
      BY <1>1, <1>4, <1>10
    <3> HIDE DEF x, y
    <3>2. /\ b + (x + 1) \in 1 .. b + n /\ b + (y + 1) \in 1 .. b + n
          /\ b + (x + 1) < b + (y + 1)
      BY <1>1, <3>1
    <3> QED
      BY <3>2 DEF x, y
  <2> QED
    BY <1>9, <2>1, <2>2
<1>11. ASSUME NEW r \in records, before # <<>>
       PROVE  LexLessStrict(before[1], r)
  <2>1. b = 1
    BY <1>1, <1>11 DEF b
  <2>2. neighbours[1 + (r.slot + 1)] = r /\ neighbours[1] = before[1]
    BY <1>4, <1>6, <2>1
  <2>3. 1 \in 1 .. b + n /\ 1 + (r.slot + 1) \in 1 .. b + n /\ 1 < 1 + (r.slot + 1)
    BY <1>1, <1>4, <2>1
  <2> QED
    BY <1>9, <2>2, <2>3
<1>12. ASSUME NEW r \in records
       PROVE  file[r.slot + 1] = r.position
  BY <1>4, <1>8
<1>13. ASSUME records = {}
       PROVE  CarryAfter(placed, before) = before
  <2>1. n = 0
    BY <1>1, <1>3, <1>13
  <2>2. placed = <<>>
    BY <1>5, <2>1
  <2> QED
    BY <2>2 DEF CarryAfter
<1>14. ASSUME records # {}
       PROVE  \E last \in records :
                CarryAfter(placed, before) = <<last>> /\ \A r \in records : r.slot <= last.slot
  <2>1. n \in 1 .. n
    BY <1>1, <1>4, <1>14
  <2>2. placed # <<>> /\ Last(placed) = placed[n]
    BY <1>1, <1>5, <2>1 DEF Last
  <2>3. placed[n] \in records /\ placed[n].slot = n - 1
    BY <1>3, <2>1
  <2>4. \A r \in records : r.slot <= n - 1
    BY <1>1, <1>4
  <2> QED
    BY <2>2, <2>3, <2>4 DEF CarryAfter
<1> QED
  BY <1>10, <1>11, <1>12, <1>13, <1>14 DEF placed

-----------------------------------------------------------------------------
(* The records of the files that have been checked, by the ranks they stem *)
(* from.                                                                   *)
RankOf(S, record) == record.target * S + record.slot

WellFiled(S, filed, K) ==
  /\ filed \in [1 .. K -> SUBSET Record]
  /\ \A k \in 1 .. K :
       /\ IsFiniteSet(filed[k])
       /\ \A r \in filed[k] : r.target = k - 1 /\ r.slot < S

Checked(filed, c) == UNION {filed[k] : k \in 1 .. c}

(* They are in order, and the carry is the last of them.                   *)
Sorted(S, filed, c, last) ==
  /\ \A r, q \in Checked(filed, c) : RankOf(S, r) < RankOf(S, q) => LexLessStrict(r, q)
  /\ last = <<>> => Checked(filed, c) = {}
  /\ last # <<>> =>
       /\ last[1] \in Checked(filed, c)
       /\ \A r \in Checked(filed, c) : r = last[1] \/ RankOf(S, r) < RankOf(S, last[1])

(* The file names the records' positions, in the order of their slots.     *)
Matches(file, records) ==
  /\ \A r \in records : r.slot + 1 \in DOMAIN file /\ file[r.slot + 1] = r.position
  /\ \A n \in DOMAIN file : \E r \in records : r.slot = n - 1

(* The test of neighbours and the carry extend the order by one file.      *)
LEMMA CheckKeepsSorted ==
  ASSUME NEW S \in Nat \ {0}, NEW K \in Nat, NEW filed, WellFiled(S, filed, K),
         NEW c \in 0 .. K - 1, NEW file \in Seq(Int),
         NEW before \in Seq(Record), Len(before) <= 1, Sorted(S, filed, c, before),
         Fits(S, file, filed[c + 1]),
         InOrder(file, InSlotOrder(filed[c + 1]), before)
  PROVE  LET after == CarryAfter(InSlotOrder(filed[c + 1]), before)
         IN  /\ after \in Seq(Record) /\ Len(after) <= 1
             /\ Sorted(S, filed, c + 1, after)
             /\ Matches(file, filed[c + 1])
<1> DEFINE new == filed[c + 1]
           old == Checked(filed, c)
           after == CarryAfter(InSlotOrder(new), before)
<1>1. /\ c \in Nat /\ c + 1 \in 1 .. K
      /\ new \in SUBSET Record /\ IsFiniteSet(new)
      /\ \A r \in new : r.target = c /\ r.slot \in 0 .. S - 1
  BY DEF WellFiled, Record
<1>2. \A r \in old : r \in Record /\ r.target < c /\ r.target \in Nat /\ r.slot \in 0 .. S - 1
  <2>1. SUFFICES ASSUME NEW k \in 1 .. c, NEW r \in filed[k]
                 PROVE  r \in Record /\ r.target < c /\ r.target \in Nat /\ r.slot \in 0 .. S - 1
    BY DEF Checked
  <2>2. k \in 1 .. K
    BY <1>1
  <2> QED
    BY <2>1, <2>2 DEF WellFiled, Record
<1>3. Checked(filed, c + 1) = old \cup new
  <2>1. 1 .. c + 1 = (1 .. c) \cup {c + 1}
    BY <1>1
  <2> QED
    BY <2>1 DEF Checked
<1>4. S \in Nat /\ Fits(S, file, new) /\ InOrder(file, InSlotOrder(new), before)
  OBVIOUS
<1> HIDE DEF new, old
<1>5. /\ \A r, q \in new : r.slot < q.slot => LexLessStrict(r, q)
      /\ \A r \in new : before # <<>> => LexLessStrict(before[1], r)
      /\ \A r \in new : file[r.slot + 1] = r.position
      /\ new = {} => after = before
      /\ new # {} =>
           \E last \in new : after = <<last>> /\ \A r \in new : r.slot <= last.slot
  BY <1>1, <1>4, FileChecked
<1>6. /\ \A n \in 1 .. Len(file) :
           InSlotOrder(new)[n] \in new /\ InSlotOrder(new)[n].slot = n - 1
      /\ \A r \in new : r.slot + 1 \in 1 .. Len(file)
  <2>1. /\ \A n \in 1 .. Len(file) :
             /\ InSlotOrder(new)[n] \in new
             /\ InSlotOrder(new)[n].slot = n - 1
        /\ \A r \in new : r.slot + 1 \in 1 .. Len(file) /\ InSlotOrder(new)[r.slot + 1] = r
    <3> HIDE DEF after
    <3> QED
      BY <1>1, <1>4, SlotsFilled, SMTT(20)
  <2> QED
    BY <2>1
<1>7. \A r, q \in new : r.slot = q.slot => r = q
  BY <1>4 DEF Fits
<1> HIDE DEF after
<1>8. ASSUME NEW r \in old, NEW q \in new
      PROVE  RankOf(S, r) < RankOf(S, q)
  <2>1. /\ r.target \in Nat /\ r.target < c /\ r.slot \in 0 .. S - 1
        /\ q.target = c /\ c \in Nat /\ q.slot \in Nat
    BY <1>1, <1>2
  <2>2. r.target * S + r.slot < c * S + q.slot
    BY <2>1, ChunkFirst
  <2> QED
    BY <2>1, <2>2 DEF RankOf
<1>9. ASSUME NEW r \in old \cup new
      PROVE  RankOf(S, r) \in Nat
  <2>1. r.target \in Nat /\ r.slot \in Nat
    BY <1>1, <1>2
  <2>2. r.target * S \in Nat
    BY <2>1
  <2> QED
    BY <2>1, <2>2, SMTT(20) DEF RankOf
<1>10. \A r, q \in new : RankOf(S, r) < RankOf(S, q) <=> r.slot < q.slot
  BY <1>1 DEF RankOf
<1>11. Matches(file, new)
  <2>1. DOMAIN file = 1 .. Len(file)
    OBVIOUS
  <2> QED
    BY <1>5, <1>6, <2>1 DEF Matches
<1>12. ASSUME NEW r \in old \cup new, NEW q \in old \cup new, RankOf(S, r) < RankOf(S, q)
       PROVE  LexLessStrict(r, q)
  <2>1. CASE r \in old /\ q \in old
    BY <1>12, <2>1 DEF Sorted, old
  <2>2. CASE r \in new /\ q \in new
    BY <1>5, <1>10, <1>12, <2>2
  <2>3. CASE r \in new /\ q \in old
    <3>1. RankOf(S, q) < RankOf(S, r)
      BY <1>8, <2>3
    <3> QED
      BY <1>9, <1>12, <3>1
  <2>4. CASE r \in old /\ q \in new
    <3>1. before # <<>>
      BY <2>4 DEF Sorted, old
    <3>2. /\ before[1] \in old
          /\ r = before[1] \/ RankOf(S, r) < RankOf(S, before[1])
      BY <2>4, <3>1 DEF Sorted, old
    <3>3. LexLessStrict(before[1], q)
      BY <1>5, <2>4, <3>1
    <3>4. r = before[1] \/ LexLessStrict(r, before[1])
      BY <2>4, <3>2 DEF Sorted, old
    <3>5. r \in Record /\ q \in Record /\ before[1] \in Record
      BY <1>1, <1>2, <2>4, <3>2
    <3>6. /\ r.first_key \in Int /\ r.next_rank \in Int
          /\ q.first_key \in Int /\ q.next_rank \in Int
          /\ before[1].first_key \in Int /\ before[1].next_rank \in Int
      BY <3>5, RecordFields
    <3> QED
      BY <3>3, <3>4, <3>6, SMTT(20) DEF LexLessStrict
  <2> QED
    BY <2>1, <2>2, <2>3, <2>4
<1>13. CASE new = {}
  <2>1. after = before /\ Checked(filed, c + 1) = Checked(filed, c)
    BY <1>3, <1>5, <1>13 DEF old
  <2> QED
    BY <1>11, <2>1 DEF Sorted, new, after
<1>14. CASE new # {}
  <2>1. PICK last \in new : after = <<last>> /\ \A r \in new : r.slot <= last.slot
    BY <1>5, <1>14
  <2>2. last \in Record
    BY <1>1
  <2>3. after \in Seq(Record) /\ Len(after) = 1 /\ after # <<>> /\ after[1] = last
    BY <2>1, <2>2
  <2>4. ASSUME NEW r \in old \cup new
        PROVE  r = last \/ RankOf(S, r) < RankOf(S, last)
    <3>1. CASE r \in old
      BY <1>8, <3>1
    <3>2. CASE r \in new /\ r # last
      <4>1. r.slot # last.slot /\ r.slot <= last.slot
        BY <1>7, <2>1, <3>2
      <4>2. r.slot < last.slot
        BY <1>1, <3>2, <4>1
      <4> QED
        BY <1>10, <3>2, <4>2
    <3> QED
      BY <3>1, <3>2
  <2>5. Sorted(S, filed, c + 1, after)
    BY <1>3, <1>12, <2>3, <2>4 DEF Sorted
  <2> QED
    BY <1>11, <2>3, <2>5 DEF new, after
<1> QED
  BY <1>13, <1>14

-----------------------------------------------------------------------------
(* The inductive invariant.                                                *)

(* What every state is made of.                                            *)
Typed ==
  /\ text \in Texts /\ W \in ChunkSizes /\ ranks \in RankFiles(W)
  /\ sa \in Seq(Seq(Int))
  /\ pc \in {"partition", "check", "accepted", "rejected"}
  /\ chunk_id \in 0 .. total_chunks
  /\ stream \in 0 .. Len(text) + 1
  /\ pc = "partition" => sa = <<>> /\ carry = <<>>
  /\ pc \in {"check", "accepted"} => Len(sa) = chunk_id
  /\ Len(sa) \in {chunk_id, chunk_id + 1, 0}
  /\ WellFiled(W, verify_files, total_chunks)
  /\ carry \in Seq(Record) /\ Len(carry) <= 1

(* The records of the first n chunks when each of these starts where the   *)
(* one before it, being full, has ended; and how many symbols that takes.  *)
AllRecords(t, S, R, n) == UNION {VerifyRecords(t, S, R, c * S, c) : c \in 0 .. n - 1}

StreamAfter(S, R, n) == IF n = 0 THEN 0 ELSE (n - 1) * S + Len(ReadRanks(S, R[n]))

(* The partition has filed the records of the chunks so far.               *)
Partitioned ==
  pc # "rejected" /\ Shaped =>
    LET n == IF pc = "partition" THEN chunk_id ELSE total_chunks
    IN  /\ stream = StreamAfter(W, ranks, n)
        /\ pc # "partition" => stream = Len(text) + 1
        /\ \A d \in 2 .. n + 1 : d <= total_chunks => ranks[d] # <<>>
        /\ \A k \in 1 .. total_chunks :
             verify_files[k] = {r \in AllRecords(text, W, ranks, n) : r.target = k - 1}
        /\ \A r \in AllRecords(text, W, ranks, n) : r.target < total_chunks

(* The files checked so far are in order and are the records' positions.   *)
CheckedInOrder ==
  pc \in {"check", "accepted"} =>
    /\ pc = "accepted" => chunk_id = total_chunks
    /\ Sorted(W, verify_files, chunk_id, carry)
    /\ \A k \in 1 .. chunk_id : Matches(sa[k], verify_files[k])

IInv == Typed /\ Partitioned /\ CheckedInOrder

(* What the assumptions on the constants say of a state.                   *)
LEMMA Parameters ==
  ASSUME Typed
  PROVE  /\ text \in CodedText /\ W \in Nat \ {0} /\ ranks \in Files
         /\ total_chunks \in Nat /\ Len(text) \in Nat
         /\ SAFiles(W) \subseteq Seq(Int)
<1>1. text \in CodedText /\ W \in Nat \ {0}
  BY TextsAssumption, ChunkSizesAssumption DEF Typed, CodedText
<1>2. ranks \in Files /\ SAFiles(W) \subseteq Seq(Int)
  BY FilesAssumption DEF Typed, Files
<1> QED
  BY <1>1, <1>2 DEF total_chunks, CodedText, Files

LEMMA InitEstablishes == Init => IInv
<1> SUFFICES ASSUME Init PROVE IInv
  OBVIOUS
<1>1. text \in CodedText /\ W \in Nat \ {0} /\ ranks \in Files
  BY TextsAssumption, ChunkSizesAssumption, FilesAssumption DEF Init, CodedText, Files
<1>2. total_chunks \in Nat /\ Len(text) \in Nat
  BY <1>1 DEF total_chunks, CodedText, Files
<1>3. WellFiled(W, verify_files, total_chunks)
  <2>1. verify_files = [k \in 1 .. total_chunks |-> {}]
    BY DEF Init
  <2>2. IsFiniteSet({})
    BY FS_EmptySet
  <2> QED
    BY <2>1, <2>2 DEF WellFiled
<1>4. Typed
  BY <1>2, <1>3 DEF Init, Typed
<1>5. Partitioned
  <2>1. AllRecords(text, W, ranks, 0) = {}
    BY DEF AllRecords
  <2> QED
    BY <2>1 DEF Init, Partitioned, StreamAfter
<1>6. CheckedInOrder
  BY DEF Init, CheckedInOrder
<1> QED
  BY <1>4, <1>5, <1>6 DEF IInv

(* Full chunks before it make a chunk start at a multiple of the size.     *)
LEMMA StreamAtChunk ==
  ASSUME NEW S \in Nat \ {0}, NEW R \in Files, NEW c \in 0 .. Len(R) - 1,
         \A d \in 1 .. Len(R) - 1 : Len(R[d]) = S
  PROVE  StreamAfter(S, R, c) = c * S
<1>1. c \in Nat /\ Len(R) \in Nat
  BY DEF Files
<1>2. CASE c = 0
  BY <1>2 DEF StreamAfter
<1>3. CASE c # 0
  <2>1. c \in 1 .. Len(R) - 1 /\ c \in DOMAIN R /\ R[c] \in Seq(Nat)
    BY <1>1, <1>3 DEF Files
  <2>2. Len(R[c]) = S
    BY <2>1
  <2> DEFINE file == R[c]
  <2> HIDE DEF file
  <2>3. Len(ReadRanks(S, file)) = S
    BY <2>1, <2>2, ReadRanksType DEF file
  <2>4. StreamAfter(S, R, c) = (c - 1) * S + S
    BY <1>3, <2>3 DEF StreamAfter, file
  <2>5. (c - 1) * S + S = c * S
    BY <1>1
  <2> QED
    BY <2>4, <2>5
<1> QED
  BY <1>2, <1>3

LEMMA PartitionKeeps == IInv /\ Partition => IInv'
<1> SUFFICES ASSUME IInv, Partition PROVE IInv'
  OBVIOUS
<1> DEFINE new == VerifyRecords(text, W, ranks, stream, chunk_id)
           R == ReadRanks(W, ranks[chunk_id + 1])
<1>1. Typed /\ Partitioned /\ CheckedInOrder
  BY DEF IInv
<1>2. /\ text \in CodedText /\ W \in Nat \ {0} /\ ranks \in Files
      /\ total_chunks \in Nat /\ Len(text) \in Nat /\ total_chunks = Len(ranks)
  BY <1>1, Parameters DEF total_chunks
<1>3. /\ chunk_id \in 0 .. total_chunks - 1 /\ chunk_id \in Nat /\ stream \in Nat
      /\ pc = "partition" /\ sa = <<>>
      /\ chunk_id + 1 \in 0 .. total_chunks
      /\ ranks[chunk_id + 1] \in Seq(Nat)
  BY <1>1, <1>2 DEF Partition, Typed, Files
<1>4. /\ text' = text /\ W' = W /\ ranks' = ranks /\ sa' = sa /\ carry' = carry
      /\ total_chunks' = total_chunks
  BY DEF Partition, total_chunks
<1>5. CheckedInOrder'
  BY <1>3 DEF Partition, Reject, CheckedInOrder
<1>6. CASE PartitionFails(text, W, ranks, stream, chunk_id)
  <2>1. pc' = "rejected" /\ UNCHANGED <<chunk_id, stream, verify_files>>
    BY <1>6 DEF Partition, Reject
  <2>2. Typed'
    BY <1>1, <1>3, <1>4, <2>1 DEF Typed, WellFiled
  <2>3. Partitioned'
    BY <2>1 DEF Partitioned
  <2> QED
    BY <1>5, <2>2, <2>3 DEF IInv
<1>7. CASE ~ PartitionFails(text, W, ranks, stream, chunk_id)
  <2>1. /\ pc' = "partition"
        /\ verify_files' = [k \in 1 .. total_chunks |->
             verify_files[k] \cup {r \in new : r.target = k - 1}]
        /\ stream' = stream + Len(R)
        /\ chunk_id' = chunk_id + 1
    BY <1>3, <1>7 DEF Partition
  <2>2. \A r \in new : r \in Record /\ r.slot < W /\ r.target < total_chunks
    <3>1. SUFFICES ASSUME NEW i \in DOMAIN R
                   PROVE  LET r == VerifyRecord(text, W, ranks, stream, chunk_id, i)
                          IN  r \in Record /\ r.slot < W /\ r.target < total_chunks
      BY DEF VerifyRecords
    <3> QED
      BY <1>2, <1>3, <1>7, <3>1, RecordType
  <2>3. IsFiniteSet(new)
    BY <1>2, <1>3, RecordsFinite
  <2>4. Len(R) \in Nat
    BY <1>2, <1>3, ReadRanksType
  <2>5. stream + Len(R) <= Len(text) + 1
    BY <1>2, <1>3, <1>7, <2>4 DEF PartitionFails
  <2> HIDE DEF new, R
  <2>6. WellFiled(W', verify_files', total_chunks')
    <3>1. WellFiled(W, verify_files, total_chunks)
      BY <1>1 DEF Typed
    <3>2. ASSUME NEW k \in 1 .. total_chunks
          PROVE  /\ verify_files'[k] \in SUBSET Record
                 /\ IsFiniteSet(verify_files'[k])
                 /\ \A r \in verify_files'[k] : r.target = k - 1 /\ r.slot < W
      <4> DEFINE old == verify_files[k]
                 routed == {r \in new : r.target = k - 1}
      <4>1. verify_files'[k] = old \cup routed
        BY <2>1
      <4>2. /\ old \in SUBSET Record /\ IsFiniteSet(old)
            /\ \A r \in old : r.target = k - 1 /\ r.slot < W
        BY <3>1 DEF WellFiled
      <4>3. routed \in SUBSET new
        OBVIOUS
      <4>4. /\ routed \in SUBSET Record
            /\ \A r \in routed : r.target = k - 1 /\ r.slot < W
        BY <2>2
      <4> HIDE DEF old, routed
      <4>5. IsFiniteSet(routed)
        BY <2>3, <4>3, FS_Subset
      <4>6. IsFiniteSet(old \cup routed)
        BY <4>2, <4>5, FS_Union
      <4> QED
        BY <4>1, <4>2, <4>4, <4>6
    <3>3. verify_files' \in [1 .. total_chunks -> SUBSET Record]
      BY <2>1, <3>2
    <3> QED
      BY <1>4, <3>2, <3>3 DEF WellFiled
  <2>7. Typed'
    <3>1. stream' \in 0 .. Len(text) + 1
      BY <1>2, <1>3, <2>1, <2>4, <2>5
    <3> QED
      BY <1>1, <1>3, <1>4, <2>1, <2>6, <3>1 DEF Typed
  <2>8. Partitioned'
    <3> DEFINE All(n) == AllRecords(text, W, ranks, n)
    <3>1. SUFFICES ASSUME Shaped
                   PROVE  /\ stream' = StreamAfter(W, ranks, chunk_id + 1)
                          /\ \A d \in 2 .. (chunk_id + 1) + 1 :
                               d <= total_chunks => ranks[d] # <<>>
                          /\ \A k \in 1 .. total_chunks :
                               verify_files'[k] = {r \in All(chunk_id + 1) : r.target = k - 1}
                          /\ \A r \in All(chunk_id + 1) : r.target < total_chunks
      BY <1>4, <2>1 DEF Partitioned, Shaped
    <3>2. /\ stream = StreamAfter(W, ranks, chunk_id)
          /\ \A d \in 2 .. chunk_id + 1 : d <= total_chunks => ranks[d] # <<>>
          /\ \A k \in 1 .. total_chunks : verify_files[k] = {r \in All(chunk_id) : r.target = k - 1}
          /\ \A r \in All(chunk_id) : r.target < total_chunks
      BY <1>1, <1>3, <3>1 DEF Partitioned
    <3>3. stream = chunk_id * W
      BY <1>2, <1>3, <3>1, <3>2, StreamAtChunk DEF Shaped
    <3>4. All(chunk_id + 1) = All(chunk_id) \cup new
      <4>1. 0 .. (chunk_id + 1) - 1 = (0 .. chunk_id - 1) \cup {chunk_id}
        BY <1>3
      <4> QED
        BY <3>3, <4>1 DEF AllRecords, new
    <3>5. stream' = StreamAfter(W, ranks, chunk_id + 1)
      BY <1>3, <2>1, <3>3 DEF StreamAfter, R
    <3> HIDE DEF All
    <3>6. ASSUME NEW k \in 1 .. total_chunks
          PROVE  verify_files'[k] = {r \in All(chunk_id + 1) : r.target = k - 1}
      BY <2>1, <3>2, <3>4
    <3>7. \A r \in All(chunk_id + 1) : r.target < total_chunks
      BY <2>2, <3>2, <3>4
    <3>8. ASSUME NEW d \in 2 .. (chunk_id + 1) + 1, d <= total_chunks
          PROVE  ranks[d] # <<>>
      <4>1. CASE d \in 2 .. chunk_id + 1
        BY <3>2, <3>8, <4>1
      <4>2. CASE ~ (d \in 2 .. chunk_id + 1)
        <5>1. d = chunk_id + 2 /\ chunk_id + 1 < Len(ranks)
          BY <1>2, <1>3, <3>8, <4>2
        <5> QED
          BY <1>7, <5>1 DEF PartitionFails
      <4> QED
        BY <4>1, <4>2
    <3> QED
      BY <3>5, <3>6, <3>7, <3>8
  <2> QED
    BY <1>5, <2>7, <2>8 DEF IInv
<1> QED
  BY <1>6, <1>7

LEMMA EndPartitionKeeps == IInv /\ EndPartition => IInv'
<1> SUFFICES ASSUME IInv, EndPartition PROVE IInv'
  OBVIOUS
<1>1. Typed /\ Partitioned
  BY DEF IInv
<1>2. /\ text \in CodedText /\ W \in Nat \ {0} /\ ranks \in Files
      /\ total_chunks \in Nat /\ Len(text) \in Nat
  BY <1>1, Parameters
<1>3. /\ text' = text /\ W' = W /\ ranks' = ranks /\ sa' = sa /\ carry' = carry
      /\ stream' = stream /\ verify_files' = verify_files /\ total_chunks' = total_chunks
      /\ pc = "partition" /\ chunk_id = total_chunks /\ sa = <<>>
  BY <1>1 DEF EndPartition, total_chunks, Typed
<1>4. CASE stream # Len(text) + 1
  <2>1. pc' = "rejected" /\ chunk_id' = chunk_id
    BY <1>4 DEF EndPartition, Reject
  <2> QED
    BY <1>1, <1>3, <2>1 DEF IInv, Typed, WellFiled, Partitioned, CheckedInOrder
<1>5. CASE stream = Len(text) + 1
  <2>1. pc' = "check" /\ chunk_id' = 0
    BY <1>5 DEF EndPartition
  <2>2. Typed'
    BY <1>1, <1>2, <1>3, <2>1 DEF Typed, WellFiled
  <2>3. Partitioned'
    BY <1>1, <1>3, <1>5, <2>1 DEF Partitioned, Shaped
  <2>4. CheckedInOrder'
    <3>1. Checked(verify_files, 0) = {}
      BY DEF Checked
    <3>2. carry = <<>>
      BY <1>1, <1>3 DEF Typed
    <3> QED
      BY <1>3, <2>1, <3>1, <3>2 DEF CheckedInOrder, Sorted
  <2> QED
    BY <2>2, <2>3, <2>4 DEF IInv
<1> QED
  BY <1>4, <1>5

LEMMA CheckKeeps == IInv /\ Check => IInv'
<1> SUFFICES ASSUME IInv, Check PROVE IInv'
  OBVIOUS
<1>1. Typed /\ Partitioned /\ CheckedInOrder
  BY DEF IInv
<1>2. /\ text \in CodedText /\ W \in Nat \ {0} /\ ranks \in Files
      /\ total_chunks \in Nat /\ Len(text) \in Nat /\ SAFiles(W) \subseteq Seq(Int)
  BY <1>1, Parameters
<1> DEFINE records == verify_files[chunk_id + 1]
           after == CarryAfter(InSlotOrder(records), carry)
<1>3. PICK file \in SAFiles(W) :
        /\ sa' = Append(sa, file)
        /\ IF Fits(W, file, records) /\ InOrder(file, InSlotOrder(records), carry)
           THEN carry' = after /\ chunk_id' = chunk_id + 1 /\ UNCHANGED pc
           ELSE Reject /\ UNCHANGED <<carry, chunk_id>>
  BY DEF Check
<1>4. /\ text' = text /\ W' = W /\ ranks' = ranks /\ stream' = stream
      /\ verify_files' = verify_files /\ total_chunks' = total_chunks
      /\ pc = "check" /\ chunk_id \in 0 .. total_chunks - 1 /\ chunk_id \in Nat
      /\ Len(sa) = chunk_id
  BY <1>1, <1>2 DEF Check, total_chunks, Typed
<1>5. /\ file \in Seq(Int) /\ sa' \in Seq(Seq(Int)) /\ Len(sa') = chunk_id + 1
      /\ sa'[chunk_id + 1] = file
      /\ \A k \in 1 .. chunk_id : sa'[k] = sa[k]
  BY <1>1, <1>2, <1>3, <1>4 DEF Typed
<1> HIDE DEF records, after
<1>6. CASE ~ (Fits(W, file, records) /\ InOrder(file, InSlotOrder(records), carry))
  <2>1. pc' = "rejected" /\ chunk_id' = chunk_id /\ carry' = carry
    BY <1>3, <1>6 DEF Reject
  <2> QED
    BY <1>1, <1>4, <1>5, <2>1 DEF IInv, Typed, WellFiled, Partitioned, CheckedInOrder
<1>7. CASE Fits(W, file, records) /\ InOrder(file, InSlotOrder(records), carry)
  <2>1. pc' = "check" /\ chunk_id' = chunk_id + 1 /\ carry' = after
    BY <1>3, <1>4, <1>7
  <2>2. /\ after \in Seq(Record) /\ Len(after) <= 1
        /\ Sorted(W, verify_files, chunk_id + 1, after)
        /\ Matches(file, records)
    <3>1. /\ WellFiled(W, verify_files, total_chunks)
          /\ carry \in Seq(Record) /\ Len(carry) <= 1
          /\ Sorted(W, verify_files, chunk_id, carry)
      BY <1>1, <1>4 DEF Typed, CheckedInOrder
    <3> QED
      BY <1>2, <1>4, <1>5, <1>7, <3>1, CheckKeepsSorted DEF records, after
  <2>3. Typed'
    <3>1. chunk_id + 1 \in 0 .. total_chunks
      BY <1>2, <1>4
    <3> QED
      BY <1>1, <1>4, <1>5, <2>1, <2>2, <3>1 DEF Typed, WellFiled
  <2>4. Partitioned'
    BY <1>1, <1>4, <2>1 DEF Partitioned, Shaped
  <2>5. CheckedInOrder'
    <3>1. ASSUME NEW k \in 1 .. chunk_id + 1
          PROVE  Matches(sa'[k], verify_files[k])
      <4>1. CASE k = chunk_id + 1
        BY <1>5, <2>2, <4>1 DEF records
      <4>2. CASE k # chunk_id + 1
        <5>1. k \in 1 .. chunk_id
          BY <1>4, <4>2
        <5> QED
          BY <1>1, <1>4, <1>5, <5>1 DEF CheckedInOrder
      <4> QED
        BY <4>1, <4>2
    <3> QED
      BY <1>4, <2>1, <2>2, <3>1 DEF CheckedInOrder
  <2> QED
    BY <2>3, <2>4, <2>5 DEF IInv
<1> QED
  BY <1>6, <1>7

LEMMA AcceptKeeps == IInv /\ Accept => IInv'
  BY DEF IInv, Accept, Typed, WellFiled, Partitioned, CheckedInOrder, Shaped, total_chunks

LEMMA IInvHolds == Spec => []IInv
<1>1. IInv /\ [Next]_vars => IInv'
  <2> SUFFICES ASSUME IInv, [Next]_vars PROVE IInv'
    OBVIOUS
  <2>1. CASE Partition
    BY <2>1, PartitionKeeps
  <2>2. CASE EndPartition
    BY <2>2, EndPartitionKeeps
  <2>3. CASE Check
    BY <2>3, CheckKeeps
  <2>4. CASE Accept
    BY <2>4, AcceptKeeps
  <2>5. CASE UNCHANGED vars
    BY <2>5 DEF IInv, vars, Typed, WellFiled, Partitioned, CheckedInOrder, Shaped, total_chunks
  <2> QED
    BY <2>1, <2>2, <2>3, <2>4, <2>5 DEF Next
<1> QED
  BY <1>1, InitEstablishes, PTL DEF Spec

-----------------------------------------------------------------------------
(* Once the partition has ended, the records are those of the positions of *)
(* the text, with the ranks as one function of the position.               *)
RankAt(t, S, R) == [p \in Positions(t) |-> R[(p \div S) + 1][(p % S) + 1]]

PositionRecord(t, S, R, p) ==
  [position |-> p,
   next_rank |-> IF p = Len(t) THEN -1 ELSE RankAt(t, S, R)[p + 1],
   target |-> RankAt(t, S, R)[p] \div S,
   slot |-> RankAt(t, S, R)[p] % S,
   first_key |-> EncodeFirstKey(Symbol(t, p))]

LEMMA RecordAt ==
  ASSUME NEW t \in CodedText, NEW S \in Nat \ {0}, NEW R \in Files,
         \A d \in 1 .. Len(R) - 1 : Len(R[d]) = S,
         \A d \in 2 .. Len(R) : R[d] # <<>>,
         StreamAfter(S, R, Len(R)) = Len(t) + 1,
         NEW c \in 0 .. Len(R) - 1, NEW i \in DOMAIN ReadRanks(S, R[c + 1])
  PROVE  /\ c * S + i - 1 \in Positions(t)
         /\ RankAt(t, S, R)[c * S + i - 1] = R[c + 1][i]
         /\ R[c + 1][i] \in Nat
         /\ VerifyRecord(t, S, R, c * S, c, i) = PositionRecord(t, S, R, c * S + i - 1)
<1> DEFINE K == Len(R)
           len(d) == Len(ReadRanks(S, R[d + 1]))
<1>1. /\ K \in Nat /\ K # 0 /\ S \in Nat /\ c \in Nat /\ c < K /\ Len(t) \in Nat /\ Positions(t) = 0 .. Len(t)
      /\ \A d \in 0 .. K - 1 : R[d + 1] \in Seq(Nat)
  <2>1. Len(R) \in Nat /\ \A d \in 1 .. Len(R) : R[d] \in Seq(Nat)
    BY DEF Files
  <2>2. c \in Nat /\ c < Len(R) /\ Len(R) # 0
    BY <2>1
  <2>3. Len(t) \in Nat /\ Positions(t) = 0 .. Len(t)
    BY PositionsType
  <2>4. ASSUME NEW d \in 0 .. Len(R) - 1 PROVE R[d + 1] \in Seq(Nat)
    <3>1. d + 1 \in 1 .. Len(R)
      BY <2>1
    <3> QED
      BY <2>1, <3>1
  <2> QED
    BY <2>2, <2>3, <2>1, <2>4
<1>2. ASSUME NEW d \in 0 .. K - 1
      PROVE  /\ len(d) \in 0 .. S /\ DOMAIN ReadRanks(S, R[d + 1]) = 1 .. len(d)
             /\ \A j \in 1 .. len(d) : ReadRanks(S, R[d + 1])[j] = R[d + 1][j] /\ R[d + 1][j] \in Nat
  <2> DEFINE file == R[d + 1]
  <2>1. file \in Seq(Nat)
    BY <1>1
  <2> HIDE DEF file
  <2>2. /\ Len(ReadRanks(S, file)) \in 0 .. S
        /\ DOMAIN ReadRanks(S, file) = 1 .. Len(ReadRanks(S, file))
        /\ \A j \in DOMAIN ReadRanks(S, file) :
             ReadRanks(S, file)[j] = file[j] /\ file[j] \in Nat
    BY <2>1, ReadRanksType
  <2> QED
    BY <2>2 DEF file
<1>3. ASSUME NEW d \in 0 .. K - 1, d < K - 1
      PROVE  len(d) = S
  <2> DEFINE file == R[d + 1]
  <2>1. file \in Seq(Nat) /\ d + 1 \in 1 .. K - 1
    BY <1>1, <1>3
  <2>2. Len(file) = S
    BY <2>1
  <2> HIDE DEF file, K, len
  <2>3. Len(file) <= S => Len(ReadRanks(S, file)) = Len(file)
    BY <2>1, ReadRanksType
  <2>4. Len(ReadRanks(S, file)) = S
    BY <2>2, <2>3
  <2> QED
    BY <2>4 DEF file, len
<1>4. Len(t) + 1 = (K - 1) * S + len(K - 1)
  <2>1. StreamAfter(S, R, Len(R)) = (Len(R) - 1) * S + Len(ReadRanks(S, R[Len(R)]))
    BY <1>1 DEF StreamAfter
  <2>2. (Len(R) - 1) + 1 = Len(R)
    BY <1>1
  <2> QED
    BY <2>1, <2>2
<1> HIDE DEF len, K
<1>5. len(K - 1) \in 1 .. S
  <2>1. K - 1 \in 0 .. K - 1 /\ len(K - 1) \in 0 .. S
    BY <1>1, <1>2
  <2>2. CASE K = 1
    BY <1>1, <1>4, <2>1, <2>2
  <2>3. CASE K # 1
    <3> DEFINE file == R[(K - 1) + 1]
    <3>1. (K - 1) + 1 \in 2 .. Len(R)
      <4>1. K \in Nat /\ K # 0 /\ K # 1
        BY <1>1, <2>3
      <4>2. (K - 1) + 1 \in 2 .. K
        BY <4>1
      <4> QED
        BY <4>2 DEF K
    <3>2. file \in Seq(Nat) /\ file # <<>>
      BY <1>1, <2>1, <3>1
    <3> HIDE DEF file
    <3>3. Len(ReadRanks(S, file)) # 0
      <4>1. Len(file) # 0 /\ Len(file) \in Nat
        BY <3>2
      <4> QED
        BY <3>2, <4>1 DEF ReadRanks
    <3> QED
      BY <2>1, <3>3 DEF file, len
  <2> QED
    BY <2>2, <2>3
<1>6. ASSUME NEW d \in 0 .. K - 1, NEW j \in 1 .. len(d)
      PROVE  /\ d * S + (j - 1) \in Positions(t)
             /\ RankAt(t, S, R)[d * S + (j - 1)] = R[d + 1][j]
             /\ R[d + 1][j] \in Nat
             /\ d * S + (j - 1) = Len(t) <=> d = K - 1 /\ j = len(d)
  <2>1. d \in Nat /\ len(d) \in 0 .. S /\ R[d + 1][j] \in Nat
    <3>1. len(d) \in 0 .. S /\ R[d + 1][j] \in Nat
      BY <1>2
    <3>2. d \in Nat
      BY <1>1
    <3> QED
      BY <3>1, <3>2
  <2>2. j \in 1 .. S /\ j - 1 \in 0 .. S - 1 /\ (j - 1) + 1 = j
    BY <2>1
  <2>3. /\ d * S + (j - 1) \in 0 .. Len(t)
        /\ d * S + (j - 1) = Len(t) <=> d = K - 1 /\ j = len(K - 1)
    <3> DEFINE N == Len(t)
               last == len(K - 1)
    <3>1. d = K - 1 => j <= last
      BY <2>1
    <3>2. K \in Nat /\ K # 0 /\ N \in Nat
      BY <1>1
    <3>3. N + 1 = (K - 1) * S + last /\ last \in 1 .. S
      BY <1>4, <1>5
    <3> HIDE DEF N, last
    <3>4. /\ d * S + (j - 1) \in 0 .. N
          /\ d * S + (j - 1) = N <=> d = K - 1 /\ j = last
      <4>1. /\ K - 1 \in Nat /\ d \in Nat /\ j \in Nat /\ last \in Nat /\ S \in Nat
            /\ j - 1 \in 0 .. S - 1 /\ last - 1 \in Nat
        BY <2>1, <2>2, <3>2, <3>3
      <4>2. d * S \in Nat /\ (K - 1) * S \in Nat
        BY <4>1
      <4>3. N = (K - 1) * S + (last - 1)
        BY <3>2, <3>3, <4>1, <4>2
      <4> DEFINE a == d * S
                 b == (K - 1) * S
      <4>4. d < K - 1 => a + (j - 1) < b + (last - 1)
        BY <4>1, ChunkFirst
      <4>5. d = K - 1 => a = b
        OBVIOUS
      <4>6. d = K - 1 \/ d < K - 1
        BY <3>2, <4>1
      <4>7. /\ a \in Nat /\ b \in Nat /\ N = b + (last - 1)
            /\ N \in Nat /\ j \in Nat /\ last \in Nat /\ K - 1 \in Nat /\ d \in Nat
            /\ j - 1 \in Nat /\ last - 1 \in Nat
        BY <3>2, <4>1, <4>2, <4>3
      <4> HIDE DEF a, b
      <4>8. a + (j - 1) \in 0 .. N /\ (a + (j - 1) = N <=> d = K - 1 /\ j = last)
        <5>1. CASE d = K - 1
          BY <3>1, <4>5, <4>7, <5>1
        <5>2. CASE d < K - 1
          BY <4>4, <4>7, <5>2
        <5> QED
          BY <4>6, <5>1, <5>2
      <4> QED
        BY <4>8 DEF a
    <3> QED
      BY <3>4 DEF N, last
  <2>4. (d * S + (j - 1)) \div S = d /\ (d * S + (j - 1)) % S = j - 1
    BY <2>1, <2>2, DivisionUnique
  <2>5. RankAt(t, S, R)[d * S + (j - 1)] = R[d + 1][j]
    BY <1>1, <2>2, <2>3, <2>4 DEF RankAt
  <2> QED
    BY <1>1, <2>1, <2>3, <2>5
<1>7. c \in 0 .. K - 1 /\ i \in 1 .. len(c) /\ i \in Nat /\ len(c) \in Nat /\ c * S \in Nat
  <2>1. c \in 0 .. K - 1 /\ i \in 1 .. len(c) /\ len(c) \in Nat
    BY <1>1, <1>2 DEF K
  <2> QED
    BY <1>1, <2>1
<1> DEFINE p == c * S + (i - 1)
<1>8. /\ p \in Positions(t) /\ RankAt(t, S, R)[p] = R[c + 1][i] /\ R[c + 1][i] \in Nat
      /\ p = Len(t) <=> c = K - 1 /\ i = len(c)
  BY <1>6, <1>7
<1>9. c * S + i - 1 = p
  BY <1>7
<1>10. NextRank(S, R, c, i) = IF p = Len(t) THEN -1 ELSE RankAt(t, S, R)[p + 1]
  <2>1. CASE i < len(c)
    <3>1. i + 1 \in 1 .. len(c) /\ p # Len(t) /\ c * S + ((i + 1) - 1) = p + 1
      BY <1>7, <1>8, <2>1
    <3>2. NextRank(S, R, c, i) = R[c + 1][i + 1]
      BY <1>2, <1>7, <2>1, <3>1 DEF NextRank, len, K
    <3>3. RankAt(t, S, R)[p + 1] = R[c + 1][i + 1]
      BY <1>6, <1>7, <3>1
    <3> QED
      BY <3>1, <3>2, <3>3
  <2>2. CASE i = len(c) /\ c < K - 1
    <3>1. NextRank(S, R, c, i) = R[c + 2][1]
      BY <1>1, <1>7, <2>2 DEF NextRank, len, K
    <3>2. i = S /\ p # Len(t)
      BY <1>3, <1>7, <1>8, <2>2
    <3>3. c + 1 \in 0 .. K - 1 /\ 1 \in 1 .. len(c + 1) /\ (c + 1) + 1 = c + 2
      <4>1. c + 1 \in 0 .. K - 1 /\ (c + 1) + 1 = c + 2
        BY <1>1, <2>2
      <4>2. CASE c + 1 = K - 1
        BY <1>5, <4>1, <4>2
      <4>3. CASE c + 1 # K - 1
        <5>1. c + 1 < K - 1
          BY <1>1, <4>1, <4>3
        <5> QED
          BY <1>3, <4>1, <5>1
      <4> QED
        BY <4>2, <4>3
    <3>4. (c + 1) * S + (1 - 1) = p + 1
      BY <1>1, <3>2
    <3>5. RankAt(t, S, R)[p + 1] = R[c + 2][1]
      BY <1>6, <3>3, <3>4
    <3> QED
      BY <3>1, <3>2, <3>5
  <2>3. CASE i = len(c) /\ c = K - 1
    BY <1>1, <1>7, <1>8, <2>3 DEF NextRank, len, K
  <2> QED
    BY <1>1, <1>7, <2>1, <2>2, <2>3
<1> HIDE DEF p
<1> QED
  BY <1>8, <1>9, <1>10 DEF VerifyRecord, PositionRecord

(* What the partition has made sure of at its end, init's files given.     *)
Whole(t, S, R) ==
  /\ \A d \in 1 .. Len(R) - 1 : Len(R[d]) = S
  /\ \A d \in 2 .. Len(R) : R[d] # <<>>
  /\ StreamAfter(S, R, Len(R)) = Len(t) + 1

(* A position's chunk and its index in it.                                 *)
LEMMA PositionInChunk ==
  ASSUME NEW t \in CodedText, NEW S \in Nat \ {0}, NEW R \in Files, Whole(t, S, R),
         NEW p \in Positions(t)
  PROVE  /\ p \div S \in 0 .. Len(R) - 1
         /\ (p % S) + 1 \in DOMAIN ReadRanks(S, R[(p \div S) + 1])
         /\ p = (p \div S) * S + (p % S)
<1> DEFINE K == Len(R)
           c == p \div S
           r == p % S
           n == Len(t)
           last == Len(ReadRanks(S, R[K]))
<1>1. n \in Nat /\ K \in Nat /\ p \in Nat /\ p <= n /\ S \in Nat
  BY PositionsType DEF Files
<1>2. c \in Nat /\ r \in 0 .. S - 1 /\ p = c * S + r
  BY <1>1, Division
<1>3. K # 0
  <2>1. StreamAfter(S, R, K) # 0
    BY <1>1 DEF Whole
  <2> QED
    BY <2>1 DEF StreamAfter
<1>4. n + 1 = (K - 1) * S + last
  BY <1>3 DEF Whole, StreamAfter
<1>5. last \in 0 .. S /\ DOMAIN ReadRanks(S, R[K]) = 1 .. last
  <2>1. R[K] \in Seq(Nat)
    BY <1>1, <1>3 DEF Files
  <2> QED
    BY <2>1, ReadRanksType
<1> HIDE DEF c, r, n, last
<1>6. ~ (K - 1 < c)
  <2>1. SUFFICES ASSUME K - 1 < c PROVE FALSE
    OBVIOUS
  <2>2. K - 1 \in Nat
    BY <1>1, <1>3
  <2>3. CASE last - 1 \in 0 .. S - 1
    <3>1. (K - 1) * S + (last - 1) < c * S + r
      BY <1>1, <1>2, <2>1, <2>2, <2>3, ChunkFirst
    <3> DEFINE b == (K - 1) * S
    <3>2. b \in Nat /\ n + 1 = b + last /\ b + (last - 1) < p
      BY <1>1, <1>2, <1>4, <2>2, <3>1
    <3> HIDE DEF b
    <3> QED
      BY <1>1, <1>5, <3>2
  <2>4. CASE last = 0
    <3>1. SUFFICES ASSUME K # 1 PROVE FALSE
      <4>1. K = 1 => (K - 1) * S = 0
        BY <1>1
      <4>2. (K - 1) * S # 0
        <5> DEFINE b == (K - 1) * S
        <5>1. n + 1 = b + last
          BY <1>4
        <5> HIDE DEF b
        <5>2. b # 0
          BY <1>1, <2>4, <5>1
        <5> QED
          BY <5>2 DEF b
      <4> QED
        BY <4>1, <4>2
    <3>2. R[K] # <<>> /\ R[K] \in Seq(Nat)
      <4>1. K \in 2 .. Len(R) /\ K \in DOMAIN R
        <5>1. K \in Nat /\ K # 0 /\ K # 1
          BY <1>1, <1>3, <3>1
        <5>2. DOMAIN R = 1 .. K
          BY DEF Files
        <5>3. K = Len(R)
          OBVIOUS
        <5> HIDE DEF K
        <5>4. K \in 2 .. K /\ K \in 1 .. K
          BY <5>1
        <5> QED
          BY <5>2, <5>3, <5>4
      <4>2. \A d \in 2 .. Len(R) : R[d] # <<>>
        BY DEF Whole
      <4>3. R \in Seq(Seq(Nat))
        BY DEF Files
      <4> HIDE DEF K
      <4> QED
        BY <4>1, <4>2, <4>3
    <3> DEFINE file == R[K]
    <3>3. last = Len(ReadRanks(S, file)) /\ file # <<>> /\ file \in Seq(Nat)
      BY <3>2 DEF last
    <3> HIDE DEF file
    <3>4. Len(file) # 0 /\ Len(file) \in Nat
      BY <3>3
    <3> QED
      BY <2>4, <3>3, <3>4 DEF ReadRanks
  <2> QED
    BY <1>1, <1>5, <2>3, <2>4
<1>7. c \in 0 .. K - 1
  BY <1>1, <1>2, <1>6
<1>8. CASE c = K - 1
  <2> DEFINE b == (K - 1) * S
  <2>1. b \in Nat /\ n + 1 = b + last /\ p = b + r
    BY <1>1, <1>2, <1>3, <1>4, <1>8
  <2> HIDE DEF b
  <2>2. r + 1 \in 1 .. last
    BY <1>1, <1>2, <1>5, <2>1
  <2>3. c + 1 = K
    BY <1>1, <1>8
  <2> QED
    BY <1>2, <1>5, <1>7, <2>2, <2>3 DEF c, r
<1>9. CASE c # K - 1
  <2>1. c + 1 \in 1 .. K - 1
    BY <1>1, <1>2, <1>7, <1>9
  <2> DEFINE file == R[c + 1]
  <2>2. file \in Seq(Nat) /\ Len(file) = S
    BY <1>1, <2>1 DEF Whole, Files
  <2> HIDE DEF file
  <2>3. DOMAIN ReadRanks(S, file) = 1 .. S
    BY <2>2, ReadRanksType
  <2>4. r + 1 \in 1 .. S
    BY <1>1, <1>2
  <2> QED
    BY <1>2, <1>7, <2>3, <2>4 DEF c, r, file
<1> QED
  BY <1>8, <1>9

LEMMA RecordsOfPositions ==
  ASSUME NEW t \in CodedText, NEW S \in Nat \ {0}, NEW R \in Files, Whole(t, S, R)
  PROVE  /\ RankAt(t, S, R) \in [Positions(t) -> Nat]
         /\ AllRecords(t, S, R, Len(R)) = {PositionRecord(t, S, R, p) : p \in Positions(t)}
<1>1. ASSUME NEW c \in 0 .. Len(R) - 1, NEW i \in DOMAIN ReadRanks(S, R[c + 1])
      PROVE  /\ c * S + i - 1 \in Positions(t)
             /\ RankAt(t, S, R)[c * S + i - 1] = R[c + 1][i]
             /\ R[c + 1][i] \in Nat
             /\ VerifyRecord(t, S, R, c * S, c, i) = PositionRecord(t, S, R, c * S + i - 1)
  BY RecordAt, ZenonT(40) DEF Whole
<1>2. ASSUME NEW p \in Positions(t)
      PROVE  \E c \in 0 .. Len(R) - 1 : \E i \in DOMAIN ReadRanks(S, R[c + 1]) : p = c * S + i - 1
  <2> DEFINE c == p \div S
             i == (p % S) + 1
  <2>1. /\ c \in 0 .. Len(R) - 1 /\ i \in DOMAIN ReadRanks(S, R[c + 1])
        /\ p = c * S + (p % S)
    BY PositionInChunk
  <2>2. p = c * S + i - 1
    <3>1. p \in Nat /\ c \in Nat /\ p % S \in Nat
      <4>1. p \in Nat
        BY PositionsType
      <4>2. c \in Nat /\ p % S \in 0 .. S - 1
        BY <4>1, Division
      <4> QED
        BY <4>1, <4>2
    <3>2. c * S \in Nat
      BY <3>1
    <3> HIDE DEF c
    <3> QED
      BY <2>1, <3>1, <3>2
  <2> QED
    BY <2>1, <2>2
<1>3. RankAt(t, S, R) \in [Positions(t) -> Nat]
  <2>1. ASSUME NEW p \in Positions(t) PROVE RankAt(t, S, R)[p] \in Nat
    <3>1. PICK c \in 0 .. Len(R) - 1 : \E i \in DOMAIN ReadRanks(S, R[c + 1]) : p = c * S + i - 1
      BY <1>2
    <3>2. PICK i \in DOMAIN ReadRanks(S, R[c + 1]) : p = c * S + i - 1
      BY <3>1
    <3>3. RankAt(t, S, R)[c * S + i - 1] = R[c + 1][i] /\ R[c + 1][i] \in Nat
      BY <1>1
    <3> DEFINE q == c * S + i - 1
    <3>4. p = q /\ RankAt(t, S, R)[q] \in Nat
      BY <3>2, <3>3
    <3> HIDE DEF q
    <3> QED
      BY <3>4
  <2> QED
    BY <2>1 DEF RankAt
<1>4. \A r \in AllRecords(t, S, R, Len(R)) : \E p \in Positions(t) : r = PositionRecord(t, S, R, p)
  <2>1. SUFFICES ASSUME NEW c \in 0 .. Len(R) - 1, NEW i \in DOMAIN ReadRanks(S, R[c + 1])
                 PROVE  \E p \in Positions(t) :
                          VerifyRecord(t, S, R, c * S, c, i) = PositionRecord(t, S, R, p)
    BY DEF AllRecords, VerifyRecords
  <2> QED
    BY <1>1, <2>1
<1>5. ASSUME NEW p \in Positions(t)
      PROVE  PositionRecord(t, S, R, p) \in AllRecords(t, S, R, Len(R))
  <2>1. PICK c \in 0 .. Len(R) - 1 : \E i \in DOMAIN ReadRanks(S, R[c + 1]) : p = c * S + i - 1
    BY <1>2
  <2>2. PICK i \in DOMAIN ReadRanks(S, R[c + 1]) : p = c * S + i - 1
    BY <2>1
  <2>3. VerifyRecord(t, S, R, c * S, c, i) = PositionRecord(t, S, R, c * S + i - 1)
    BY <1>1
  <2> DEFINE q == c * S + i - 1
  <2>4. p = q /\ VerifyRecord(t, S, R, c * S, c, i) = PositionRecord(t, S, R, q)
    BY <2>2, <2>3
  <2> HIDE DEF q
  <2>5. VerifyRecord(t, S, R, c * S, c, i) = PositionRecord(t, S, R, p)
    BY <2>4
  <2>6. VerifyRecord(t, S, R, c * S, c, i) \in AllRecords(t, S, R, Len(R))
    BY <2>2 DEF AllRecords, VerifyRecords
  <2> QED
    BY <2>5, <2>6
<1> QED
  BY <1>3, <1>4, <1>5

LEMMA RankOfPosition ==
  ASSUME NEW t \in CodedText, NEW S \in Nat \ {0}, NEW R \in Files, Whole(t, S, R),
         NEW p \in Positions(t)
  PROVE  RankOf(S, PositionRecord(t, S, R, p)) = RankAt(t, S, R)[p]
<1> DEFINE r == RankAt(t, S, R)[p]
<1>1. r \in Nat
  BY RecordsOfPositions
<1>2. RankOf(S, PositionRecord(t, S, R, p)) = (r \div S) * S + (r % S)
  BY DEF RankOf, PositionRecord
<1> HIDE DEF r
<1>3. (r \div S) * S + (r % S) = r
  BY <1>1, Division
<1> QED
  BY <1>2, <1>3 DEF r

(* Records in the order of their ranks, each less than the later ones,     *)
(* order the positions they name as the suffixes there.                    *)
LEMMA OrderedRecordsSort ==
  ASSUME NEW t \in CodedText, NEW S \in Nat \ {0}, NEW R \in Files, Whole(t, S, R),
         \A r, q \in AllRecords(t, S, R, Len(R)) :
           RankOf(S, r) < RankOf(S, q) => LexLessStrict(r, q)
  PROVE  \A p, q \in Positions(t) :
           RankAt(t, S, R)[p] < RankAt(t, S, R)[q] => SuffixLess(t, p, q)
<1> DEFINE rank == RankAt(t, S, R)
<1>1. /\ rank \in [Positions(t) -> Nat]
      /\ AllRecords(t, S, R, Len(R)) = {PositionRecord(t, S, R, p) : p \in Positions(t)}
  BY RecordsOfPositions
<1>2. ASSUME NEW p \in Positions(t), NEW q \in Positions(t), rank[p] < rank[q]
      PROVE  Consistent(t, rank, p, q)
  <2> DEFINE r == PositionRecord(t, S, R, p)
             s == PositionRecord(t, S, R, q)
  <2>1. RankOf(S, r) < RankOf(S, s)
    BY <1>2, RankOfPosition
  <2>2. LexLessStrict(r, s)
    BY <1>1, <2>1
  <2>3. /\ r.first_key = EncodeFirstKey(Symbol(t, p)) /\ s.first_key = EncodeFirstKey(Symbol(t, q))
        /\ r.next_rank = (IF p = Len(t) THEN -1 ELSE rank[p + 1])
        /\ s.next_rank = (IF q = Len(t) THEN -1 ELSE rank[q + 1])
    BY DEF PositionRecord
  <2>4. Symbol(t, p) \in Nat /\ Symbol(t, q) \in Nat
    BY PositionsType, SymbolType
  <2> HIDE DEF r, s, rank
  <2>5. IF r.first_key # s.first_key THEN r.first_key < s.first_key
        ELSE r.next_rank < s.next_rank
    BY <2>2 DEF LexLessStrict
  <2>6. CASE r.first_key # s.first_key
    <3>1. EncodeFirstKey(Symbol(t, p)) < EncodeFirstKey(Symbol(t, q))
      BY <2>3, <2>5, <2>6
    <3>2. Symbol(t, p) < Symbol(t, q)
      BY <2>4, <3>1 DEF EncodeFirstKey
    <3> QED
      BY <3>2 DEF Consistent
  <2>7. CASE r.first_key = s.first_key
    <3>1. Symbol(t, p) = Symbol(t, q)
      BY <2>3, <2>4, <2>7 DEF EncodeFirstKey
    <3>2. r.next_rank < s.next_rank
      BY <2>5, <2>7
    <3> QED
      BY <2>3, <3>1, <3>2 DEF Consistent
  <2> QED
    BY <2>6, <2>7
<1> HIDE DEF rank
<1>3. ASSUME NEW p \in Positions(t), NEW q \in Positions(t), rank[p] < rank[q]
      PROVE  SuffixLess(t, p, q)
  BY <1>1, <1>2, <1>3, ConsistentRanksOrderSuffixes
<1> QED
  BY <1>3 DEF rank

LEMMA AcceptedFilesSorted == IInv => AcceptsOnlySuffixArrays
<1> SUFFICES ASSUME IInv, pc = "accepted", Shaped
             PROVE  /\ \A p \in Positions(text) :
                         \E k \in DOMAIN sa : \E n \in DOMAIN sa[k] : sa[k][n] = p
                    /\ \A k \in DOMAIN sa : \A n \in DOMAIN sa[k] :
                         /\ sa[k][n] \in Positions(text)
                         /\ \A l \in DOMAIN sa : \A m \in DOMAIN sa[l] :
                              k < l \/ (k = l /\ n < m) => SuffixLess(text, sa[k][n], sa[l][m])
  BY DEF AcceptsOnlySuffixArrays
<1> DEFINE K == total_chunks
           All == AllRecords(text, W, ranks, K)
           rank == RankAt(text, W, ranks)
           At(p) == PositionRecord(text, W, ranks, p)
<1>1. Typed /\ Partitioned /\ CheckedInOrder
  BY DEF IInv
<1>2. /\ text \in CodedText /\ W \in Nat \ {0} /\ ranks \in Files
      /\ K \in Nat /\ Len(text) \in Nat /\ K = Len(ranks)
  BY <1>1, Parameters DEF total_chunks
<1>3. /\ \A k \in 1 .. K : verify_files[k] = {r \in All : r.target = k - 1}
      /\ \A r \in All : r.target < K
      /\ stream = StreamAfter(W, ranks, K) /\ stream = Len(text) + 1
      /\ \A d \in 2 .. K + 1 : d <= K => ranks[d] # <<>>
  BY <1>1 DEF Partitioned
<1>4. Whole(text, W, ranks)
  <2>1. \A d \in 1 .. Len(ranks) - 1 : Len(ranks[d]) = W
    BY <1>2 DEF Shaped
  <2>2. \A d \in 2 .. Len(ranks) : ranks[d] # <<>>
    <3>1. \A d \in 2 .. K : d \in 2 .. K + 1 /\ d <= K
      BY <1>2
    <3> QED
      BY <1>2, <1>3, <3>1
  <2>3. StreamAfter(W, ranks, Len(ranks)) = Len(text) + 1
    BY <1>2, <1>3
  <2> QED
    BY <2>1, <2>2, <2>3 DEF Whole
<1>5. /\ rank \in [Positions(text) -> Nat]
      /\ All = {At(p) : p \in Positions(text)}
  BY <1>2, <1>4, RecordsOfPositions
<1>6. /\ Sorted(W, verify_files, K, carry)
      /\ \A k \in 1 .. K : Matches(sa[k], verify_files[k])
      /\ DOMAIN sa = 1 .. K
      /\ \A k \in 1 .. K : sa[k] \in Seq(Int)
  <2>1. chunk_id = K
    BY <1>1 DEF CheckedInOrder
  <2>2. sa \in Seq(Seq(Int)) /\ Len(sa) = K
    BY <1>1, <2>1 DEF Typed
  <2> QED
    BY <1>1, <2>1, <2>2 DEF CheckedInOrder
<1> HIDE DEF K, All
<1>7. ASSUME NEW p \in Positions(text)
      PROVE  /\ At(p) \in All /\ At(p).position = p
             /\ At(p).target = rank[p] \div W /\ At(p).slot = rank[p] % W
             /\ At(p).target + 1 \in 1 .. K
             /\ At(p) \in verify_files[At(p).target + 1]
  <2>1. /\ At(p) \in All /\ At(p).position = p
        /\ At(p).target = rank[p] \div W /\ At(p).slot = rank[p] % W
    BY <1>5 DEF PositionRecord
  <2>2. At(p).target \in Nat /\ At(p).target < K
    <3>1. rank[p] \in Nat
      BY <1>5
    <3> HIDE DEF rank, At
    <3>2. rank[p] \div W \in Nat
      BY <1>2, <3>1, Division
    <3> QED
      BY <1>3, <2>1, <3>2
  <2> HIDE DEF At, rank
  <2>3. At(p).target + 1 \in 1 .. K /\ (At(p).target + 1) - 1 = At(p).target
    BY <1>2, <2>2
  <2> QED
    BY <1>3, <2>1, <2>3
<1>8. ASSUME NEW p \in Positions(text), NEW q \in Positions(text), rank[p] < rank[q]
      PROVE  SuffixLess(text, p, q)
  <2>1. All \subseteq Checked(verify_files, K)
    BY <1>5, <1>7 DEF Checked
  <2>2. \A r, s \in All : RankOf(W, r) < RankOf(W, s) => LexLessStrict(r, s)
    BY <1>6, <2>1 DEF Sorted
  <2>3. \A r, s \in AllRecords(text, W, ranks, Len(ranks)) :
          RankOf(W, r) < RankOf(W, s) => LexLessStrict(r, s)
    BY <1>2, <2>2 DEF All
  <2> QED
    BY <1>2, <1>4, <1>8, <2>3, OrderedRecordsSort
<1>9. ASSUME NEW p \in Positions(text)
      PROVE  \E k \in DOMAIN sa : \E n \in DOMAIN sa[k] : sa[k][n] = p
  <2> DEFINE r == At(p)
             k == r.target + 1
  <2>1. r \in verify_files[k] /\ k \in 1 .. K /\ r.position = p
    BY <1>7
  <2> HIDE DEF r, k
  <2>2. r.slot + 1 \in DOMAIN sa[k] /\ sa[k][r.slot + 1] = r.position
    BY <1>6, <2>1 DEF Matches
  <2> QED
    BY <1>6, <2>1, <2>2
<1>10. ASSUME NEW k \in 1 .. K, NEW n \in DOMAIN sa[k]
       PROVE  /\ sa[k][n] \in Positions(text)
              /\ rank[sa[k][n]] = (k - 1) * W + (n - 1)
              /\ n - 1 \in 0 .. W - 1 /\ k - 1 \in Nat
  <2>1. PICK r \in verify_files[k] : r.slot = n - 1
    BY <1>6 DEF Matches
  <2>2. r.slot + 1 = n /\ k - 1 \in Nat
    <3>1. n \in Nat
      BY <1>6
    <3> QED
      BY <1>2, <2>1, <3>1
  <2>3. sa[k][n] = r.position
    BY <1>6, <2>2 DEF Matches
  <2>4. r \in All /\ r.target = k - 1
    BY <1>3
  <2>5. PICK p \in Positions(text) : r = At(p)
    BY <1>5, <2>4
  <2>6. sa[k][n] = p
    BY <1>7, <2>3, <2>5
  <2>7. RankOf(W, r) = rank[p]
    BY <1>2, <1>4, <2>5, RankOfPosition
  <2>8. RankOf(W, r) = (k - 1) * W + (n - 1)
    BY <2>1, <2>4 DEF RankOf
  <2>9. n - 1 \in 0 .. W - 1
    <3>1. rank[p] \in Nat
      BY <1>5
    <3>2. r.slot = rank[p] % W
      BY <1>7, <2>5
    <3> HIDE DEF rank
    <3>3. rank[p] % W \in 0 .. W - 1
      BY <1>2, <3>1, Division
    <3> QED
      BY <2>1, <3>2, <3>3
  <2> QED
    BY <2>2, <2>6, <2>7, <2>8, <2>9
<1>11. ASSUME NEW k \in 1 .. K, NEW n \in DOMAIN sa[k],
              NEW l \in 1 .. K, NEW m \in DOMAIN sa[l],
              k < l \/ (k = l /\ n < m)
       PROVE  SuffixLess(text, sa[k][n], sa[l][m])
  <2>1. /\ sa[k][n] \in Positions(text) /\ rank[sa[k][n]] = (k - 1) * W + (n - 1)
        /\ sa[l][m] \in Positions(text) /\ rank[sa[l][m]] = (l - 1) * W + (m - 1)
        /\ n - 1 \in 0 .. W - 1 /\ m - 1 \in 0 .. W - 1
        /\ k - 1 \in Nat /\ l - 1 \in Nat
    BY <1>10
  <2>2. n \in Nat /\ m \in Nat
    BY <1>6
  <2>3. (k - 1) * W + (n - 1) < (l - 1) * W + (m - 1)
    <3>1. CASE k < l
      <4>1. k - 1 < l - 1 /\ m - 1 \in Nat
        BY <1>2, <2>1, <3>1
      <4> QED
        BY <1>2, <2>1, <4>1, ChunkFirst
    <3>2. CASE k = l /\ n < m
      <4> DEFINE b == (k - 1) * W
      <4>1. b \in Nat /\ (l - 1) * W = b
        BY <1>2, <2>1, <3>2
      <4> HIDE DEF b
      <4>2. b + (n - 1) < b + (m - 1)
        BY <2>2, <3>2, <4>1
      <4> QED
        BY <4>1, <4>2 DEF b
    <3> QED
      BY <1>11, <3>1, <3>2
  <2> HIDE DEF rank
  <2> QED
    BY <1>8, <2>1, <2>3
<1> QED
  BY <1>6, <1>9, <1>10, <1>11

(* verify accepts the suffix array and nothing else, on every text, with   *)
(* every chunk size and whatever the files of ranks and of the suffix      *)
(* array hold.                                                             *)
THEOREM AcceptedIsSorted == Spec => []AcceptsOnlySuffixArrays
  BY IInvHolds, AcceptedFilesSorted, PTL

(* The records filed and the bounds of the counters, for the same files.   *)
THEOREM VerifyTypeCorrect == Spec => []TypeOK
<1>1. IInv => TypeOK
  <2> SUFFICES ASSUME IInv PROVE TypeOK
    OBVIOUS
  <2>1. Typed
    BY DEF IInv
  <2>2. W \in Nat \ {0} /\ total_chunks \in Nat
    BY <2>1, Parameters
  <2>3. /\ DOMAIN verify_files = 1 .. total_chunks
        /\ \A k \in 1 .. total_chunks : \A r \in verify_files[k] :
             r \in Record /\ r.target = k - 1 /\ r.slot < W
    BY <2>1 DEF Typed, WellFiled
  <2>4. ASSUME NEW k \in DOMAIN verify_files, NEW r \in verify_files[k]
        PROVE  r.target = k - 1 /\ r.slot \in 0 .. W - 1 /\ r.next_rank \in Nat \cup {-1}
    <3>1. r \in Record /\ r.target = k - 1 /\ r.slot < W
      BY <2>3
    <3>2. r.slot \in Nat /\ r.next_rank \in Nat \cup {-1}
      BY <3>1 DEF Record
    <3> QED
      BY <2>2, <3>1, <3>2
  <2> QED
    BY <2>1, <2>4 DEF Typed, TypeOK
<1> QED
  BY <1>1, IInvHolds, PTL
-----------------------------------------------------------------------------
(* The other half: the suffix array is accepted.  With the ranks that a    *)
(* run without faults leaves, no test of verify fails.                     *)

(* The test of neighbours is passed by positions in the order of their     *)
(* suffixes, the ranks being those of the suffixes.                        *)
LEMMA SmallerSuffixPasses ==
  ASSUME NEW t \in CodedText, NEW rank, \A p \in Positions(t) : rank[p] = SuffixRank(t, p),
         NEW p \in Positions(t), NEW q \in Positions(t), SuffixLess(t, p, q)
  PROVE  Consistent(t, rank, p, q)
<1> DEFINE n == Len(t)
<1>1. n \in Nat /\ Positions(t) = 0 .. n /\ p \in Nat /\ q \in Nat /\ p <= n /\ q <= n /\ n + 1 \in Nat
  BY PositionsType
<1>2. PICK d \in 0 .. n :
        Symbol(t, p + d) < Symbol(t, q + d) /\ PrefixEq(t, d, p, q)
  BY <1>1 DEF SuffixLess, PrefixLess
<1>3. /\ Symbol(t, p) \in Nat /\ Symbol(t, q) \in Nat
      /\ Symbol(t, p) = 0 <=> p >= n
      /\ Symbol(t, q) = 0 <=> q >= n
  BY <1>1, SymbolType
<1>4. CASE d = 0
  BY <1>1, <1>2, <1>4 DEF Consistent
<1>5. CASE d # 0
  <2>1. d - 1 \in 0 .. n /\ d - 1 \in Nat /\ 0 \in 0 .. d - 1 /\ p + 0 = p /\ q + 0 = q
    BY <1>1, <1>5
  <2>2. Symbol(t, p) = Symbol(t, q)
    BY <1>2, <2>1 DEF PrefixEq
  <2>3. p # q
    <3>1. ~ PrefixLess(t, n + 1, p, p)
      <4>1. SUFFICES ASSUME PrefixLess(t, n + 1, p, p) PROVE FALSE
        OBVIOUS
      <4> QED
        BY <1>1, <4>1, NoInversion
    <3> QED
      BY <3>1 DEF SuffixLess
  <2>4. p # n /\ q # n
    BY <1>1, <1>3, <2>2, <2>3
  <2>5. p + 1 \in Positions(t) /\ q + 1 \in Positions(t)
    BY <1>1, <2>4
  <2>6. (p + 1) + (d - 1) = p + d /\ (q + 1) + (d - 1) = q + d
    BY <1>1, <2>1
  <2>7. PrefixEq(t, d - 1, p + 1, q + 1)
    <3>1. SUFFICES ASSUME NEW e \in 0 .. (d - 1) - 1
                   PROVE  Symbol(t, (p + 1) + e) = Symbol(t, (q + 1) + e)
      BY DEF PrefixEq
    <3>2. e + 1 \in 0 .. d - 1 /\ (p + 1) + e = p + (e + 1) /\ (q + 1) + e = q + (e + 1)
      BY <1>1, <2>1
    <3> QED
      BY <1>2, <3>2 DEF PrefixEq
  <2>8. SuffixLess(t, p + 1, q + 1)
    <3>1. d - 1 \in 0 .. (n + 1) - 1
      BY <1>1, <2>1
    <3>2. /\ Symbol(t, (p + 1) + (d - 1)) < Symbol(t, (q + 1) + (d - 1))
          /\ PrefixEq(t, d - 1, p + 1, q + 1)
      BY <1>2, <2>6, <2>7
    <3> QED
      BY <3>1, <3>2 DEF SuffixLess, PrefixLess
  <2>9. rank[p + 1] < rank[q + 1]
    BY <2>5, <2>8, SuffixRankDecides
  <2> QED
    BY <2>2, <2>4, <2>9 DEF Consistent
<1> QED
  BY <1>4, <1>5

LEMMA ConsistentRecords ==
  ASSUME NEW t \in CodedText, NEW S \in Nat \ {0}, NEW R,
         NEW p \in Positions(t), NEW q \in Positions(t),
         Consistent(t, RankAt(t, S, R), p, q)
  PROVE  LexLessStrict(PositionRecord(t, S, R, p), PositionRecord(t, S, R, q))
<1> DEFINE rank == RankAt(t, S, R)
           r == PositionRecord(t, S, R, p)
           s == PositionRecord(t, S, R, q)
<1>1. /\ r.first_key = EncodeFirstKey(Symbol(t, p)) /\ s.first_key = EncodeFirstKey(Symbol(t, q))
      /\ r.next_rank = (IF p = Len(t) THEN -1 ELSE rank[p + 1])
      /\ s.next_rank = (IF q = Len(t) THEN -1 ELSE rank[q + 1])
  BY DEF PositionRecord
<1>2. Symbol(t, p) \in Nat /\ Symbol(t, q) \in Nat
  BY PositionsType, SymbolType
<1>3. \/ Symbol(t, p) < Symbol(t, q)
      \/ Symbol(t, p) = Symbol(t, q) /\ r.next_rank < s.next_rank
  BY <1>1 DEF Consistent
<1> HIDE DEF r, s, rank
<1>4. CASE Symbol(t, p) < Symbol(t, q)
  <2>1. EncodeFirstKey(Symbol(t, p)) < EncodeFirstKey(Symbol(t, q))
    BY <1>2, <1>4 DEF EncodeFirstKey
  <2>2. EncodeFirstKey(Symbol(t, p)) # EncodeFirstKey(Symbol(t, q))
    BY <1>2, <1>4 DEF EncodeFirstKey
  <2>3. LexLessStrict(r, s)
    BY <1>1, <2>1, <2>2 DEF LexLessStrict
  <2> QED
    BY <2>3 DEF r, s
<1>5. CASE Symbol(t, p) = Symbol(t, q) /\ r.next_rank < s.next_rank
  <2>1. LexLessStrict(r, s)
    BY <1>1, <1>5 DEF LexLessStrict
  <2> QED
    BY <2>1 DEF r, s
<1> QED
  BY <1>3, <1>4, <1>5

-----------------------------------------------------------------------------
(* The files of ranks that a run without faults leaves.                    *)
LEMMA FinalRanksShape ==
  ASSUME NEW t \in CodedText, NEW S \in Nat \ {0}, NEW R, R = FinalRankFiles(t, S)
  PROVE  /\ Len(R) = Len(t) \div S + 1 /\ R \in Files
         /\ \A c \in 0 .. Len(t) \div S :
              /\ Len(R[c + 1]) = ChunkLength(t, S, c)
              /\ ReadRanks(S, R[c + 1]) = R[c + 1]
              /\ DOMAIN R[c + 1] = 1 .. ChunkLength(t, S, c)
              /\ \A i \in 1 .. ChunkLength(t, S, c) :
                   /\ c * S + i - 1 \in Positions(t)
                   /\ R[c + 1][i] = SuffixRank(t, c * S + i - 1)
<1> DEFINE last == Len(t) \div S
           l(c) == ChunkLength(t, S, c)
<1>1. last \in Nat
  BY PositionsType, Division
<1>2. ASSUME NEW c \in 0 .. last
      PROVE  /\ l(c) \in 1 .. S
             /\ \A i \in 1 .. l(c) : c * S + i - 1 \in Positions(t)
             /\ R[c + 1] = [i \in 1 .. l(c) |-> SuffixRank(t, c * S + i - 1)]
  <2>1. /\ l(c) \in 1 .. S
        /\ Cardinality({p \in Positions(t) : ChunkOf(S, p) = c}) = l(c)
        /\ \A i \in 0 .. l(c) - 1 : c * S + i \in Positions(t)
    BY ChunkCounted
  <2>2. c + 1 \in 1 .. last + 1 /\ (c + 1) - 1 = c /\ c \in Nat /\ c * S \in Nat
    BY <1>1
  <2>3. R[c + 1] = [i \in 1 .. l(c) |-> SuffixRank(t, c * S + i - 1)]
    BY <2>1, <2>2 DEF FinalRankFiles, ChunkOf
  <2>4. ASSUME NEW i \in 1 .. l(c) PROVE c * S + i - 1 \in Positions(t)
    <3> DEFINE a == c * S
               m == l(c)
    <3>1. a \in Nat /\ m \in Nat /\ i \in 1 .. m
      BY <2>1, <2>2
    <3> HIDE DEF a, m
    <3>2. i - 1 \in 0 .. m - 1 /\ a + i - 1 = a + (i - 1)
      BY <3>1
    <3>3. a + (i - 1) \in Positions(t)
      BY <2>1, <3>2 DEF a, m
    <3> QED
      BY <3>2, <3>3 DEF a
  <2> QED
    BY <2>1, <2>3, <2>4
<1>3. R = [c \in 1 .. last + 1 |-> R[c]]
  BY DEF FinalRankFiles, ChunkOf
<1>4. ASSUME NEW c \in 0 .. last
      PROVE  R[c + 1] \in Seq(Nat) /\ Len(R[c + 1]) = l(c)
  <2> DEFINE m == l(c)
             g(i) == SuffixRank(t, c * S + i - 1)
  <2>1. m \in Nat /\ R[c + 1] = [i \in 1 .. m |-> g(i)] /\ \A i \in 1 .. m : g(i) \in Nat
    <3>1. \A i \in 1 .. m : c * S + i - 1 \in Positions(t)
      BY <1>2
    <3>2. \A p \in Positions(t) : SuffixRank(t, p) \in Nat
      BY SuffixRankBound
    <3> QED
      BY <1>2, <3>1, <3>2
  <2> HIDE DEF m, g
  <2>2. R[c + 1] \in Seq(Nat) /\ Len(R[c + 1]) = m
    BY <2>1
  <2> QED
    BY <2>2 DEF m
<1> HIDE DEF last
<1>5. R \in Files /\ Len(R) = last + 1
  <2>1. ASSUME NEW c \in 1 .. last + 1 PROVE R[c] \in Seq(Nat)
    <3>1. c - 1 \in 0 .. last /\ (c - 1) + 1 = c
      BY <1>1
    <3>2. R[(c - 1) + 1] \in Seq(Nat)
      BY <1>4, <3>1
    <3> QED
      BY <3>1, <3>2
  <2>2. R \in [1 .. last + 1 -> Seq(Nat)] /\ last + 1 \in Nat
    BY <1>1, <1>3, <2>1
  <2> QED
    BY <2>2 DEF Files
<1>6. ASSUME NEW c \in 0 .. last
      PROVE  /\ ReadRanks(S, R[c + 1]) = R[c + 1]
             /\ DOMAIN R[c + 1] = 1 .. l(c)
  <2> DEFINE file == R[c + 1]
             m == l(c)
  <2>1. file \in Seq(Nat) /\ Len(file) = m /\ m \in 1 .. S
    BY <1>2, <1>4
  <2> HIDE DEF file, m
  <2>2. ReadRanks(S, file) = file
    <3>1. SubSeq(file, 1, Len(file)) = file
      BY <2>1
    <3>2. (IF Len(file) < S THEN Len(file) ELSE S) = Len(file)
      BY <2>1
    <3> QED
      BY <3>1, <3>2 DEF ReadRanks
  <2> QED
    BY <2>1, <2>2 DEF file, m
<1>7. ASSUME NEW c \in 0 .. last, NEW i \in 1 .. l(c)
      PROVE  c * S + i - 1 \in Positions(t) /\ R[c + 1][i] = SuffixRank(t, c * S + i - 1)
  BY <1>2
<1> HIDE DEF l
<1> QED
  BY <1>4, <1>5, <1>6, <1>7 DEF last, l

LEMMA FinalRanksWhole ==
  ASSUME NEW t \in CodedText, NEW S \in Nat \ {0}, NEW R, R = FinalRankFiles(t, S)
  PROVE  /\ Whole(t, S, R)
         /\ \A p \in Positions(t) : RankAt(t, S, R)[p] = SuffixRank(t, p)
<1> DEFINE n == Len(t)
           last == n \div S
           r == n % S
<1>1. /\ Len(R) = last + 1 /\ R \in Files
      /\ \A c \in 0 .. last :
           /\ Len(R[c + 1]) = ChunkLength(t, S, c)
           /\ ReadRanks(S, R[c + 1]) = R[c + 1]
           /\ \A i \in 1 .. ChunkLength(t, S, c) :
                R[c + 1][i] = SuffixRank(t, c * S + i - 1)
  BY FinalRanksShape
<1>2. n \in Nat /\ last \in Nat /\ r \in 0 .. S - 1 /\ n = last * S + r
  BY PositionsType, Division
<1>3. \A c \in 0 .. last : ChunkLength(t, S, c) \in 1 .. S
  BY ChunkCounted
<1> HIDE DEF last
<1>9. Len(R) - 1 = last
  <2>1. Len(R) = last + 1
    BY <1>1
  <2> QED
    BY <1>2, <2>1
<1>4. ASSUME NEW d \in 1 .. Len(R) - 1 PROVE Len(R[d]) = S
  <2>1. d - 1 \in 0 .. last /\ (d - 1) + 1 = d /\ d - 1 < last
    <3>1. d \in 1 .. last
      BY <1>9
    <3> QED
      BY <1>2, <3>1
  <2>2. Len(R[(d - 1) + 1]) = ChunkLength(t, S, d - 1)
    BY <1>1, <2>1
  <2> QED
    BY <2>1, <2>2 DEF ChunkLength, last
<1>5. ASSUME NEW d \in 2 .. Len(R) PROVE R[d] # <<>>
  <2>1. d - 1 \in 0 .. last /\ (d - 1) + 1 = d
    BY <1>1, <1>2
  <2>2. Len(R[(d - 1) + 1]) = ChunkLength(t, S, d - 1) /\ ChunkLength(t, S, d - 1) \in 1 .. S
    BY <1>1, <1>3, <2>1
  <2>3. Len(R[d]) # 0
    BY <2>1, <2>2
  <2> QED
    BY <2>3
<1>6. StreamAfter(S, R, Len(R)) = n + 1
  <2>1. last \in 0 .. last /\ ~ (last < last)
    BY <1>2
  <2>2. Len(ReadRanks(S, R[last + 1])) = r + 1
    BY <1>1, <2>1 DEF ChunkLength, last
  <2>3. Len(R) # 0 /\ Len(R) - 1 = last
    BY <1>1, <1>2
  <2>4. StreamAfter(S, R, Len(R)) = last * S + (r + 1)
    BY <1>1, <2>2, <2>3 DEF StreamAfter
  <2> DEFINE b == last * S
  <2>5. b \in Nat /\ n = b + r
    BY <1>2
  <2> HIDE DEF b, r, n
  <2>6. b + (r + 1) = n + 1
    BY <1>2, <2>5
  <2> QED
    BY <2>4, <2>6 DEF b
<1>7. Whole(t, S, R)
  BY <1>4, <1>5, <1>6 DEF Whole
<1>8. ASSUME NEW p \in Positions(t) PROVE RankAt(t, S, R)[p] = SuffixRank(t, p)
  <2> DEFINE c == p \div S
             i == (p % S) + 1
  <2>1. /\ c \in 0 .. Len(R) - 1 /\ i \in DOMAIN ReadRanks(S, R[c + 1])
        /\ p = c * S + (p % S)
    BY <1>1, <1>7, PositionInChunk
  <2>2. c \in 0 .. last
    <3>1. c \in 0 .. Len(R) - 1
      BY <2>1
    <3> HIDE DEF c
    <3> QED
      BY <1>9, <3>1
  <2>3. p \in Nat /\ p % S \in Nat
    <3>1. p \in Nat
      BY PositionsType
    <3>2. p % S \in 0 .. S - 1
      BY <3>1, Division
    <3> QED
      BY <3>1, <3>2
  <2>4. p = c * S + i - 1
    <3> DEFINE a == c * S
               j == p % S
    <3>1. a \in Nat /\ j \in Nat /\ p = a + j
      BY <2>1, <2>2, <2>3
    <3> HIDE DEF a, j
    <3>2. p = a + (j + 1) - 1
      BY <3>1
    <3> QED
      BY <3>2 DEF a, j
  <2>5. DOMAIN R[c + 1] = 1 .. ChunkLength(t, S, c) /\ ReadRanks(S, R[c + 1]) = R[c + 1]
    BY <2>2, FinalRanksShape DEF last
  <2>6. R[c + 1][i] = SuffixRank(t, c * S + i - 1)
    BY <1>1, <2>1, <2>2, <2>5
  <2>7. RankAt(t, S, R)[p] = R[c + 1][i]
    BY DEF RankAt
  <2> QED
    BY <2>4, <2>6, <2>7
<1> QED
  BY <1>7, <1>8

-----------------------------------------------------------------------------
(* The k-th chunk's share of the records and of the suffix array, and a    *)
(* carry that stems from a smaller suffix.                                 *)
RecordsIn(t, S, R, k) ==
  {r \in {PositionRecord(t, S, R, p) : p \in Positions(t)} : r.target = k - 1}

CarriesSmaller(t, S, R, k, before) ==
  before # <<>> =>
    \E q \in Positions(t) :
      before[1] = PositionRecord(t, S, R, q) /\ SuffixRank(t, q) < (k - 1) * S

(* The file of the suffix array that goes with a chunk of final ranks.     *)
LEMMA FinalChunkPasses ==
  ASSUME NEW t \in CodedText, NEW S \in Nat \ {0}, NEW R, R = FinalRankFiles(t, S),
         NEW k \in 1 .. Len(R),
         NEW records, records = RecordsIn(t, S, R, k),
         NEW file, file = FinalFile(t, S, Len(R[k]), k),
         NEW before \in Seq(Record), Len(before) <= 1, CarriesSmaller(t, S, R, k, before)
  PROVE  Fits(S, file, records) /\ InOrder(file, InSlotOrder(records), before)
<1> DEFINE c == k - 1
           a == c * S
           l == ChunkLength(t, S, c)
           At(p) == PositionRecord(t, S, R, p)
           rank(p) == SuffixRank(t, p)
<1>1. /\ c \in 0 .. Len(t) \div S /\ c \in Nat /\ c + 1 = k
      /\ Len(t) \in Nat /\ Positions(t) = 0 .. Len(t)
  <2>1. Len(R) = Len(t) \div S + 1 /\ Len(t) \in Nat /\ Positions(t) = 0 .. Len(t)
    BY FinalRanksShape, PositionsType
  <2>2. Len(t) \div S \in Nat
    BY <2>1, Division
  <2> QED
    BY <2>1, <2>2
<1>2. /\ l \in 1 .. S /\ Len(R[k]) = l
      /\ \A i \in 0 .. l - 1 : a + i \in Positions(t)
      /\ \A p \in Positions(t) : p \div S = c => p \in a .. a + l - 1
  <2>1. /\ l \in 1 .. S
        /\ \A i \in 0 .. l - 1 : a + i \in Positions(t)
        /\ \A p \in Positions(t) : ChunkOf(S, p) = c => p \in a .. a + l - 1
    BY <1>1, ChunkCounted
  <2>2. Len(R[c + 1]) = l
    <3>1. \A d \in 0 .. Len(t) \div S : Len(R[d + 1]) = ChunkLength(t, S, d)
      BY FinalRanksShape
    <3> HIDE DEF c
    <3> QED
      BY <1>1, <3>1
  <2> QED
    BY <1>1, <2>1, <2>2 DEF ChunkOf
<1>3. a \in Nat
  BY <1>1
<1>4. \A p \in Positions(t) :
        /\ At(p).position = p /\ At(p).target = rank(p) \div S /\ At(p).slot = rank(p) % S
        /\ rank(p) \in Positions(t)
  <2>1. \A p \in Positions(t) : RankAt(t, S, R)[p] = rank(p)
    BY FinalRanksWhole
  <2>2. \A p \in Positions(t) : rank(p) \in Positions(t)
    BY <1>1, SuffixRankBound
  <2> HIDE DEF rank
  <2> QED
    BY <2>1, <2>2 DEF PositionRecord
<1>5. records \subseteq {At(p) : p \in Positions(t)}
      /\ \A p \in Positions(t) : At(p) \in records <=> rank(p) \div S = c
  <2>1. \A p \in Positions(t) : At(p).target = rank(p) \div S
    BY <1>4
  <2> HIDE DEF At, rank
  <2>2. records = {r \in {At(p) : p \in Positions(t)} : r.target = c}
    BY DEF At, RecordsIn
  <2> HIDE DEF c
  <2> QED
    BY <2>1, <2>2
<1>6. \A n \in 1 .. l : file[n] \in Positions(t) /\ rank(file[n]) = a + (n - 1)
  <2>1. SUFFICES ASSUME NEW n \in 1 .. l
                 PROVE  file[n] \in Positions(t) /\ rank(file[n]) = a + (n - 1)
    OBVIOUS
  <2>2. n - 1 \in 0 .. l - 1 /\ a + n - 1 = a + (n - 1)
    <3> HIDE DEF a, l
    <3> QED
      BY <1>2, <1>3
  <2>3. a + (n - 1) \in 0 .. Len(t)
    BY <1>1, <1>2, <2>2
  <2>4. \E p \in Positions(t) : rank(p) = a + (n - 1)
    BY <2>3, EveryRankTaken
  <2>5. n \in 1 .. Len(R[k])
    BY <1>2
  <2>6. file[n] = CHOOSE p \in Positions(t) : rank(p) = a + (n - 1)
    BY <2>2, <2>5 DEF FinalFile
  <2> HIDE DEF a, rank
  <2> QED
    BY <2>4, <2>6
<1>7. /\ DOMAIN file = 1 .. l /\ Len(file) = l
  <2>1. file = [n \in 1 .. l |-> file[n]]
    BY <1>2 DEF FinalFile
  <2> HIDE DEF l
  <2> QED
    BY <1>2, <2>1
<1> DEFINE new(n) == At(file[n])
<1>8. \A n \in 1 .. l :
        /\ new(n) \in records /\ new(n).slot = n - 1
        /\ new(n).position = file[n]
  <2>1. SUFFICES ASSUME NEW n \in 1 .. l
                 PROVE  /\ new(n) \in records /\ new(n).slot = n - 1
                        /\ new(n).position = file[n]
    OBVIOUS
  <2>2. n - 1 \in 0 .. S - 1
    <3> HIDE DEF l
    <3> QED
      BY <1>2
  <2>3. (c * S + (n - 1)) \div S = c /\ (c * S + (n - 1)) % S = n - 1
    BY <1>1, <2>2, DivisionUnique
  <2>4. rank(file[n]) \div S = c /\ rank(file[n]) % S = n - 1 /\ file[n] \in Positions(t)
    BY <1>6, <2>3
  <2> HIDE DEF At, rank, c, a
  <2> QED
    BY <1>4, <1>5, <2>4
<1>9. \A r \in records : \E n \in 1 .. l : r = new(n)
  <2>1. SUFFICES ASSUME NEW r \in records
                 PROVE  \E n \in 1 .. l : r = new(n)
    OBVIOUS
  <2>7. PICK p \in Positions(t) : r = At(p)
    <3>1. r \in {At(p) : p \in Positions(t)}
      BY <1>5
    <3> HIDE DEF At
    <3> QED
      BY <3>1
  <2>8. At(p) \in records
    BY <2>7
  <2>2. rank(p) \div S = c /\ rank(p) \in Positions(t)
    BY <1>4, <1>5, <2>8
  <2>3. rank(p) \in a .. a + l - 1
    BY <1>2, <2>2
  <2> DEFINE n == rank(p) - a + 1
  <2>4. n \in 1 .. l /\ a + (n - 1) = rank(p)
    <3> HIDE DEF a, l, rank
    <3> QED
      BY <1>2, <1>3, <2>3
  <2> HIDE DEF n
  <2>5. file[n] \in Positions(t) /\ rank(file[n]) = rank(p)
    BY <1>6, <2>4
  <2>6. file[n] = p
    BY <2>5, SuffixRankDecides
  <2>9. r = new(n)
    BY <2>6, <2>7
  <2> QED
    BY <2>4, <2>9
<1> HIDE DEF new, At, rank, l, a, c
<1>18. l \in Nat
  BY <1>2
<1>19. \A n, m \in 1 .. l : n - 1 = m - 1 => n = m
  BY <1>18
<1>10. \A n, m \in 1 .. l : new(n) = new(m) => n = m
  <2>1. SUFFICES ASSUME NEW n \in 1 .. l, NEW m \in 1 .. l, new(n) = new(m) PROVE n = m
    OBVIOUS
  <2>2. new(n).slot = n - 1 /\ new(m).slot = m - 1
    BY <1>8
  <2>3. n - 1 = m - 1
    BY <2>1, <2>2
  <2> QED
    BY <1>19, <2>3
<1>11. Cardinality(records) = l
  <2> DEFINE f == [n \in 1 .. l |-> new(n)]
  <2>1. f \in [1 .. l -> records]
    BY <1>8
  <2>2. \A n, m \in 1 .. l : f[n] = f[m] => n = m
    BY <1>10
  <2>3. \A r \in records : \E n \in 1 .. l : f[n] = r
    BY <1>9
  <2>4. f \in Bijection(1 .. l, records)
    BY <2>1, <2>2, <2>3 DEF Bijection, Injection, Surjection, IsInjective
  <2>5. IsFiniteSet(1 .. l) /\ Cardinality(1 .. l) = l
    <3>1. 1 \in Int /\ l \in Int /\ ~ (1 > l) /\ l - 1 + 1 = l
      BY <1>2
    <3> QED
      BY <3>1, FS_Interval
  <2>6. ExistsBijection(1 .. l, records)
    BY <2>4 DEF ExistsBijection
  <2> QED
    BY <2>5, <2>6, FS_Bijection
<1>12. Fits(S, file, records)
  <2>1. Len(file) <= S
    BY <1>2, <1>7
  <2>2. \A r \in records : r.slot < Len(file)
    <3>1. SUFFICES ASSUME NEW r \in records PROVE r.slot < l
      BY <1>7
    <3>2. PICK n \in 1 .. l : r = new(n)
      BY <1>9
    <3>3. r.slot = n - 1
      BY <1>8, <3>2
    <3>4. n - 1 < l
      BY <1>18
    <3> QED
      BY <3>3, <3>4
  <2>3. \A r, s \in records : r.slot = s.slot => r = s
    <3>1. SUFFICES ASSUME NEW r \in records, NEW s \in records, r.slot = s.slot
                   PROVE  r = s
      OBVIOUS
    <3>2. PICK n \in 1 .. l : r = new(n)
      BY <1>9
    <3>3. PICK m \in 1 .. l : s = new(m)
      BY <1>9
    <3>4. r.slot = n - 1 /\ s.slot = m - 1
      BY <1>8, <3>2, <3>3
    <3>5. n - 1 = m - 1
      BY <3>1, <3>4
    <3>6. n = m
      BY <1>19, <3>5
    <3> QED
      BY <3>2, <3>3, <3>6
  <2> QED
    BY <1>7, <1>11, <2>1, <2>2, <2>3 DEF Fits
<1> DEFINE placed == InSlotOrder(records)
<1>13. DOMAIN placed = 1 .. l /\ Len(placed) = l /\ \A n \in 1 .. l : placed[n] = new(n)
  <2>1. placed = [n \in 1 .. l |-> CHOOSE r \in records : r.slot = n - 1]
    BY <1>11 DEF InSlotOrder
  <2>2. ASSUME NEW n \in 1 .. l PROVE (CHOOSE r \in records : r.slot = n - 1) = new(n)
    <3>1. new(n) \in records /\ new(n).slot = n - 1
      BY <1>8
    <3>2. \A r \in records : r.slot = n - 1 => r = new(n)
      BY <1>12, <3>1 DEF Fits
    <3> QED
      BY <3>1, <3>2
  <2> HIDE DEF placed
  <2>3. DOMAIN placed = 1 .. l /\ Len(placed) = l
    BY <1>18, <2>1
  <2>4. ASSUME NEW n \in 1 .. l PROVE placed[n] = new(n)
    <3>1. placed[n] = CHOOSE r \in records : r.slot = n - 1
      BY <2>1
    <3> QED
      BY <2>2, <3>1
  <2> QED
    BY <2>3, <2>4
<1>14. ASSUME NEW p \in Positions(t), NEW q \in Positions(t), rank(p) < rank(q)
       PROVE  LexLessStrict(At(p), At(q))
  <2>1. SuffixLess(t, p, q)
    BY <1>14, SuffixRankDecides DEF rank
  <2>2. \A i \in Positions(t) : RankAt(t, S, R)[i] = SuffixRank(t, i)
    BY FinalRanksWhole
  <2>3. Consistent(t, RankAt(t, S, R), p, q)
    BY <2>1, <2>2, SmallerSuffixPasses
  <2> QED
    BY <2>3, ConsistentRecords DEF At
<1> DEFINE neighbours == before \o placed
           b == Len(before)
<1>15. /\ b \in 0 .. 1 /\ Len(neighbours) = b + l
       /\ \A i \in 1 .. l : neighbours[b + i] = placed[i]
       /\ b = 1 => neighbours[1] = before[1]
  <2> DEFINE V == Record \cup {placed[n] : n \in 1 .. l}
  <2>0. placed = [n \in 1 .. l |-> placed[n]]
    <3>1. placed = [n \in 1 .. l |-> CHOOSE r \in records : r.slot = n - 1]
      BY <1>11 DEF InSlotOrder
    <3> HIDE DEF placed
    <3> QED
      BY <3>1
  <2> HIDE DEF placed
  <2>1. placed \in Seq(V)
    <3>1. \A n \in 1 .. l : placed[n] \in V
      OBVIOUS
    <3> HIDE DEF V
    <3> QED
      BY <1>18, <2>0, <3>1
  <2>2. before \in Seq(V)
    OBVIOUS
  <2> HIDE DEF V
  <2>3. /\ Len(before) \in Nat /\ Len(before \o placed) = Len(before) + Len(placed)
        /\ \A i \in 1 .. Len(before) : (before \o placed)[i] = before[i]
        /\ \A i \in 1 .. Len(placed) : (before \o placed)[Len(before) + i] = placed[i]
    BY <2>1, <2>2, ConcatAt
  <2>4. Len(placed) = l
    BY <1>13
  <2>5. b \in 0 .. 1
    <3>1. b \in Nat /\ b <= 1
      BY <2>3
    <3> HIDE DEF b
    <3> QED
      BY <3>1
  <2>6. /\ Len(neighbours) = b + l
        /\ \A i \in 1 .. b : neighbours[i] = before[i]
        /\ \A i \in 1 .. l : neighbours[b + i] = placed[i]
    BY <2>3, <2>4
  <2> HIDE DEF neighbours, b
  <2> QED
    BY <2>5, <2>6
<1> HIDE DEF placed, neighbours
<1>16. ASSUME NEW i \in 2 .. Len(neighbours)
       PROVE  LexLessStrict(neighbours[i - 1], neighbours[i])
  <2>1. l \in Nat /\ b \in 0 .. 1 /\ i \in 2 .. b + l
    BY <1>2, <1>15
  <2>2. CASE i - 1 > b
    <3> DEFINE m == i - b
    <3>1. m \in 1 .. l /\ m - 1 \in 1 .. l /\ b + m = i /\ b + (m - 1) = i - 1
      BY <2>1, <2>2
    <3> HIDE DEF m, b
    <3>2. neighbours[i] = new(m) /\ neighbours[i - 1] = new(m - 1)
      BY <1>13, <1>15, <3>1
    <3>3. /\ file[m] \in Positions(t) /\ rank(file[m]) = a + (m - 1)
          /\ file[m - 1] \in Positions(t) /\ rank(file[m - 1]) = a + ((m - 1) - 1)
      BY <1>6, <3>1
    <3>4. rank(file[m - 1]) < rank(file[m])
      BY <1>2, <1>3, <3>1, <3>3
    <3> QED
      BY <1>14, <3>2, <3>3, <3>4 DEF new
  <2>3. CASE ~ (i - 1 > b)
    <3>1. b = 1 /\ i = 2 /\ 1 \in 1 .. l /\ b + 1 = i
      <4> HIDE DEF b
      <4> QED
        BY <2>1, <2>3
    <3>2. neighbours[i] = new(1) /\ neighbours[i - 1] = before[1] /\ before # <<>>
      <4>1. neighbours[b + 1] = placed[1] /\ placed[1] = new(1)
        BY <1>13, <1>15, <3>1
      <4>2. neighbours[1] = before[1] /\ i - 1 = 1
        BY <1>15, <3>1
      <4>3. before # <<>>
        <5>1. Len(<<>>) = 0
          OBVIOUS
        <5>2. Len(before) # 0
          BY <3>1
        <5> QED
          BY <5>1, <5>2, Zenon
      <4> HIDE DEF b
      <4> QED
        BY <3>1, <4>1, <4>2, <4>3
    <3>3. PICK q \in Positions(t) : before[1] = At(q) /\ rank(q) < a
      BY <3>2 DEF At, rank, a, c, CarriesSmaller
    <3>4. file[1] \in Positions(t) /\ rank(file[1]) = a + (1 - 1)
      BY <1>6, <3>1
    <3>5. rank(q) < rank(file[1])
      BY <1>3, <3>3, <3>4
    <3> QED
      BY <1>14, <3>2, <3>3, <3>4, <3>5 DEF new
  <2> QED
    BY <2>2, <2>3
<1>17. \A n \in DOMAIN placed : placed[n].position = file[n]
  BY <1>8, <1>13
<1> QED
  BY <1>12, <1>16, <1>17 DEF InOrder, neighbours, placed

-----------------------------------------------------------------------------
LEMMA QuotientMonotonic ==
  ASSUME NEW S \in Nat \ {0}, NEW n \in Nat, NEW m \in 0 .. n
  PROVE  m \div S <= n \div S
<1> DEFINE a == m \div S
           b == n \div S
           i == m % S
           j == n % S
<1>1. /\ a \in Nat /\ i \in 0 .. S - 1 /\ m = a * S + i
      /\ b \in Nat /\ j \in 0 .. S - 1 /\ n = b * S + j
  <2>1. m \in Nat
    OBVIOUS
  <2> QED
    BY <2>1, Division
<1> HIDE DEF a, b, i, j
<1>2. ~ (b < a)
  <2>1. SUFFICES ASSUME b < a PROVE FALSE
    OBVIOUS
  <2>2. b * S + j < a * S + i
    <3>1. i \in Nat
      BY <1>1
    <3> QED
      BY <1>1, <2>1, <3>1, ChunkFirst
  <2>3. n < m
    BY <1>1, <2>2
  <2> QED
    BY <2>3
<1>3. a <= b
  BY <1>1, <1>2
<1> QED
  BY <1>3 DEF a, b

(* verify has rejected no files that a run without faults leaves.          *)
RightFilesKept == pc = "rejected" => ~ (RightRanks /\ RightSA)

LEMMA RightFilesFacts ==
  ASSUME Typed, RightRanks
  PROVE  /\ ranks = FinalRankFiles(text, W) /\ total_chunks = Len(ranks)
         /\ Whole(text, W, ranks) /\ Shaped
         /\ total_chunks = Len(text) \div W + 1
         /\ \A p \in Positions(text) : RankAt(text, W, ranks)[p] = SuffixRank(text, p)
<1>1. text \in CodedText /\ W \in Nat \ {0} /\ total_chunks = Len(ranks)
  BY Parameters DEF total_chunks
<1>2. ranks = FinalRankFiles(text, W)
  BY DEF RightRanks, FinalRankFiles
<1>3. Len(ranks) = Len(text) \div W + 1
  BY <1>1, <1>2, FinalRanksShape
<1>4. /\ Whole(text, W, ranks)
      /\ \A p \in Positions(text) : RankAt(text, W, ranks)[p] = SuffixRank(text, p)
  BY <1>1, <1>2, FinalRanksWhole
<1>5. Shaped
  BY <1>1, <1>4 DEF Whole, Shaped
<1> QED
  BY <1>1, <1>2, <1>3, <1>4, <1>5

LEMMA RightRanksPartitioned ==
  ASSUME IInv, RightRanks, pc = "partition", chunk_id < total_chunks
  PROVE  ~ PartitionFails(text, W, ranks, stream, chunk_id)
<1>1. Typed /\ Partitioned
  BY DEF IInv
<1>2. /\ text \in CodedText /\ W \in Nat \ {0} /\ ranks \in Files
      /\ total_chunks \in Nat /\ Len(text) \in Nat
  BY <1>1, Parameters
<1>3. /\ ranks = FinalRankFiles(text, W) /\ total_chunks = Len(ranks)
      /\ Whole(text, W, ranks) /\ Shaped
      /\ total_chunks = Len(text) \div W + 1
  BY <1>1, RightFilesFacts
<1> DEFINE c == chunk_id
           l == ChunkLength(text, W, c)
           R == ReadRanks(W, ranks[c + 1])
<1>4. Len(text) \div W \in Nat
  BY <1>2, Division
<1>5. c \in 0 .. Len(text) \div W /\ c \in 0 .. Len(ranks) - 1 /\ c \in Nat
  <2>1. c \in 0 .. total_chunks - 1 /\ c \in Nat /\ total_chunks - 1 = Len(text) \div W
    <3>1. c \in 0 .. total_chunks /\ c < total_chunks
      BY <1>1 DEF Typed
    <3>2. total_chunks - 1 = Len(text) \div W
      BY <1>2, <1>3, <1>4
    <3> HIDE DEF c
    <3>3. c \in 0 .. total_chunks - 1 /\ c \in Nat
      BY <1>2, <3>1
    <3> QED
      BY <3>2, <3>3
  <2> QED
    BY <1>3, <2>1
<1>6. stream = c * W
  <2>1. stream = StreamAfter(W, ranks, c)
    BY <1>1, <1>3 DEF Partitioned
  <2>2. \A d \in 1 .. Len(ranks) - 1 : Len(ranks[d]) = W
    BY <1>3 DEF Whole
  <2> QED
    BY <1>2, <1>5, <2>1, <2>2, StreamAtChunk
<1>7. /\ R = ranks[c + 1] /\ Len(R) = l /\ DOMAIN R = 1 .. l /\ l \in 1 .. W
      /\ \A i \in 1 .. l :
           c * W + i - 1 \in Positions(text) /\ R[i] = SuffixRank(text, c * W + i - 1)
  <2>1. l \in 1 .. W
    BY <1>2, <1>5, ChunkCounted
  <2>2. \A d \in 0 .. Len(text) \div W :
              /\ Len(ranks[d + 1]) = ChunkLength(text, W, d)
              /\ ReadRanks(W, ranks[d + 1]) = ranks[d + 1]
              /\ DOMAIN ranks[d + 1] = 1 .. ChunkLength(text, W, d)
              /\ \A i \in 1 .. ChunkLength(text, W, d) :
                   /\ d * W + i - 1 \in Positions(text)
                   /\ ranks[d + 1][i] = SuffixRank(text, d * W + i - 1)
    BY <1>2, <1>3, FinalRanksShape
  <2>3.  /\ Len(ranks[c + 1]) = l
         /\ R = ranks[c + 1]
         /\ DOMAIN ranks[c + 1] = 1 .. l
         /\ \A i \in 1 .. l :
                   /\ c * W + i - 1 \in Positions(text)
                   /\ ranks[c + 1][i] = SuffixRank(text, c * W + i - 1)
    BY <1>5, <2>2, Zenon
  <2> QED
    BY <2>1, <2>3
<1>8. ~ (c + 1 < Len(ranks) /\ ranks[c + 2] = <<>>)
  <2>1. SUFFICES ASSUME c + 1 < Len(ranks) PROVE ranks[c + 2] # <<>>
    OBVIOUS
  <2>2. c + 2 \in 2 .. Len(ranks)
    <3> HIDE DEF c
    <3> QED
      BY <1>2, <1>3, <1>5, <2>1
  <2> QED
    BY <1>3, <2>2 DEF Whole
<1>9. ~ (stream + Len(R) > Len(text) + 1)
  <2> DEFINE a == c * W
             n == Len(text)
             m == Len(R)
  <2>1. a \in Nat /\ m \in Nat /\ a + m - 1 \in 0 .. n
    <3>1. a \in Nat /\ l \in 1 .. l
      BY <1>2, <1>5, <1>7
    <3>2. a + l - 1 \in Positions(text)
      BY <1>7, <3>1
    <3>3. Positions(text) = 0 .. n
      BY <1>2, PositionsType
    <3>4. m = l /\ l \in Nat
      BY <1>7
    <3> HIDE DEF m, l, a, n
    <3> QED
      BY <3>1, <3>2, <3>3, <3>4
  <2>2. stream = a /\ n \in Nat
    BY <1>2, <1>6
  <2> HIDE DEF a, n, m
  <2>3. ~ (stream + m > n + 1)
    BY <2>1, <2>2
  <2> QED
    BY <2>3 DEF n, m
<1>10. ASSUME NEW i \in DOMAIN R PROVE ~ (R[i] \div W >= Len(ranks))
  <2> DEFINE x == R[i]
             n == Len(text)
  <2>1. i \in 1 .. l
    BY <1>7
  <2>2. c * W + i - 1 \in Positions(text) /\ x = SuffixRank(text, c * W + i - 1)
    BY <1>7, <2>1
  <2>3. x \in 0 .. n /\ n \in Nat
    BY <1>2, <2>2, SuffixRankBound
  <2> HIDE DEF x
  <2>4. x \div W <= n \div W
    BY <1>2, <2>3, QuotientMonotonic
  <2>5. x \div W \in Nat
    <3>1. x \in Nat
      BY <2>3
    <3> QED
      BY <1>2, <3>1, Division
  <2> DEFINE y == x \div W
             z == n \div W
  <2>6. y \in Nat /\ z \in Nat /\ y <= z /\ Len(ranks) = z + 1
    BY <1>3, <1>4, <2>4, <2>5
  <2> HIDE DEF y, z
  <2>7. ~ (y >= Len(ranks))
    BY <2>6
  <2> QED
    BY <2>7 DEF x, y
<1>11. PartitionFails(text, W, ranks, stream, c) =
         (\/ c + 1 < Len(ranks) /\ ranks[c + 2] = <<>>
          \/ stream + Len(R) > Len(text) + 1
          \/ \E i \in DOMAIN R : R[i] \div W >= Len(ranks))
  BY DEF PartitionFails
<1> HIDE DEF R, c
<1> QED
  BY <1>8, <1>9, <1>10, <1>11 DEF c

LEMMA RightChunkChecked ==
  ASSUME IInv, RightRanks, pc = "check", chunk_id < total_chunks,
         NEW file \in SAFiles(W),
         file = FinalFile(text, W, Len(ranks[chunk_id + 1]), chunk_id + 1)
  PROVE  LET records == verify_files[chunk_id + 1]
         IN  Fits(W, file, records) /\ InOrder(file, InSlotOrder(records), carry)
<1> DEFINE K == total_chunks
           k == chunk_id + 1
           records == verify_files[k]
<1>1. Typed /\ Partitioned /\ CheckedInOrder
  BY DEF IInv
<1>2. /\ text \in CodedText /\ W \in Nat \ {0} /\ ranks \in Files
      /\ K \in Nat /\ Len(text) \in Nat
  BY <1>1, Parameters
<1>3. /\ ranks = FinalRankFiles(text, W) /\ K = Len(ranks)
      /\ Whole(text, W, ranks) /\ Shaped
      /\ \A p \in Positions(text) : RankAt(text, W, ranks)[p] = SuffixRank(text, p)
  BY <1>1, RightFilesFacts
<1>4. k \in 1 .. K /\ chunk_id \in Nat /\ k - 1 = chunk_id
  BY <1>1, <1>2 DEF Typed
<1> DEFINE At(p) == PositionRecord(text, W, ranks, p)
           rank(p) == SuffixRank(text, p)
<1>5. AllRecords(text, W, ranks, K) = {At(p) : p \in Positions(text)}
  BY <1>2, <1>3, RecordsOfPositions
<1>6. \A j \in 1 .. K : verify_files[j] = RecordsIn(text, W, ranks, j)
  <2>1. \A j \in 1 .. K : verify_files[j] = {r \in AllRecords(text, W, ranks, K) : r.target = j - 1}
    BY <1>1, <1>3 DEF Partitioned
  <2> HIDE DEF K, At
  <2>2. \A j \in 1 .. K : verify_files[j] = {r \in {At(p) : p \in Positions(text)} : r.target = j - 1}
    BY <1>5, <2>1, Zenon
  <2> QED
    BY <2>2, Zenon DEF RecordsIn, At
<1>7. carry \in Seq(Record) /\ Len(carry) <= 1
  BY <1>1 DEF Typed
<1>8. ASSUME carry # <<>>
      PROVE  \E q \in Positions(text) : carry[1] = At(q) /\ rank(q) < (k - 1) * W
  <2>1. carry[1] \in Checked(verify_files, chunk_id)
    BY <1>1, <1>8 DEF CheckedInOrder, Sorted
  <2>2. PICK j \in 1 .. chunk_id : carry[1] \in verify_files[j]
    BY <2>1 DEF Checked
  <2>3. j \in 1 .. K /\ j - 1 \in Nat /\ j - 1 < chunk_id
    BY <1>2, <1>4
  <2>4. carry[1] \in RecordsIn(text, W, ranks, j)
    BY <1>6, <2>2, <2>3
  <2>5. carry[1].target = j - 1 /\ \E q \in Positions(text) : carry[1] = At(q)
    BY <2>4 DEF RecordsIn
  <2>6. PICK q \in Positions(text) : carry[1] = At(q)
    BY <2>5
  <2>7. At(q).target = rank(q) \div W
    BY <1>3 DEF PositionRecord
  <2>8. rank(q) \in Nat
    BY <1>2, SuffixRankBound
  <2> DEFINE x == rank(q)
             i == x % W
  <2>9. x \div W = j - 1
    BY <2>5, <2>6, <2>7
  <2> HIDE DEF x
  <2>10. x = (j - 1) * W + i /\ i \in 0 .. W - 1
    BY <1>2, <2>8, <2>9, Division DEF x
  <2> HIDE DEF i
  <2>11. (j - 1) * W + i < chunk_id * W + 0
    BY <1>2, <1>4, <2>3, <2>10, ChunkFirst
  <2>12. rank(q) < (k - 1) * W
    <3> DEFINE b == chunk_id * W
    <3>1. b \in Nat /\ (j - 1) * W + i < b + 0
      BY <1>2, <1>4, <2>11
    <3> HIDE DEF b
    <3>2. x < b
      BY <2>10, <3>1
    <3> QED
      BY <1>4, <3>2 DEF x, b
  <2> QED
    BY <2>6, <2>12
<1>9. CarriesSmaller(text, W, ranks, k, carry)
  BY <1>8 DEF CarriesSmaller
<1>10. records = RecordsIn(text, W, ranks, k) /\ file = FinalFile(text, W, Len(ranks[k]), k)
       /\ k \in 1 .. Len(ranks)
  BY <1>3, <1>4, <1>6
<1> HIDE DEF k, records
<1>11. Fits(W, file, records) /\ InOrder(file, InSlotOrder(records), carry)
  BY <1>2, <1>3, <1>7, <1>9, <1>10, FinalChunkPasses
<1> QED
  BY <1>11 DEF records, k

LEMMA RightFilesKeep == IInv /\ RightFilesKept /\ [Next]_vars => RightFilesKept'
<1> SUFFICES ASSUME IInv, RightFilesKept, [Next]_vars, pc' = "rejected", RightRanks', RightSA'
             PROVE  FALSE
  BY DEF RightFilesKept
<1>1. Typed /\ Partitioned
  BY DEF IInv
<1>2. text' = text /\ W' = W /\ ranks' = ranks /\ RightRanks
  <2>1. text' = text /\ W' = W /\ ranks' = ranks
    BY DEF Next, vars, Partition, EndPartition, Check, Accept
  <2>2. RightRanks <=> ranks = FinalRankFiles(text, W)
    BY DEF RightRanks, FinalRankFiles
  <2>3. RightRanks' <=> ranks' = FinalRankFiles(text', W')
    BY DEF RightRanks, FinalRankFiles
  <2>4. ranks' = FinalRankFiles(text', W')
    BY <2>3
  <2> QED
    BY <2>1, <2>2, <2>4
<1>3. CASE Partition
  <2>1. ~ PartitionFails(text, W, ranks, stream, chunk_id)
    BY <1>2, <1>3, RightRanksPartitioned DEF Partition
  <2> QED
    BY <1>3, <2>1 DEF Partition
<1>4. CASE EndPartition
  <2>1. pc = "partition" /\ chunk_id = total_chunks /\ stream # Len(text) + 1
    BY <1>4 DEF EndPartition
  <2>2. Shaped /\ Whole(text, W, ranks) /\ total_chunks = Len(ranks)
    BY <1>1, <1>2, RightFilesFacts
  <2>3. stream = StreamAfter(W, ranks, total_chunks)
    BY <1>1, <2>1, <2>2 DEF Partitioned
  <2> QED
    BY <2>1, <2>2, <2>3 DEF Whole
<1>5. CASE Check
  <2> DEFINE k == chunk_id + 1
  <2>1. PICK file \in SAFiles(W) :
          /\ sa' = Append(sa, file)
          /\ ~ (Fits(W, file, verify_files[k])
                /\ InOrder(file, InSlotOrder(verify_files[k]), carry))
    BY <1>5 DEF Check
  <2>2. pc = "check" /\ chunk_id < total_chunks
    BY <1>5 DEF Check
  <2>3. Len(sa) = chunk_id /\ sa \in Seq(Seq(Int)) /\ file \in Seq(Int)
    BY <1>1, <2>2, Parameters DEF Typed
  <2>4. k \in DOMAIN sa' /\ sa'[k] = file
    <3>1. Append(sa, file) \in Seq(Seq(Int)) /\ Len(Append(sa, file)) = k
          /\ Append(sa, file)[k] = file
      BY <2>3
    <3>2. k \in 1 .. k
      BY <1>1, <2>2 DEF Typed
    <3> QED
      BY <2>1, <3>1, <3>2
  <2>5. sa'[k] = FinalFile(text, W, Len(ranks[k]), k)
    BY <1>2, <2>4 DEF RightSA, FinalFile
  <2>6. /\ Fits(W, file, verify_files[k])
        /\ InOrder(file, InSlotOrder(verify_files[k]), carry)
    BY <1>2, <2>2, <2>4, <2>5, RightChunkChecked
  <2> QED
    BY <2>1, <2>6
<1>6. CASE Accept
  BY <1>6 DEF Accept
<1>7. CASE UNCHANGED vars
  <2>1. pc = "rejected" /\ RightSA
    BY <1>7 DEF vars, RightSA
  <2> QED
    BY <1>2, <2>1 DEF RightFilesKept
<1> QED
  BY <1>3, <1>4, <1>5, <1>6, <1>7 DEF Next

-----------------------------------------------------------------------------
(* What the steps so far have done of the one test that Accepts is: the    *)
(* symbols read before a chunk, the records filed of the first n chunks,   *)
(* and the last record before a chunk of the suffix array.                 *)
SymbolsRead(S, R, c) == Len(FlattenSeq([j \in 1 .. c |-> ReadRanks(S, R[j])]))

Filed(t, S, R, n) ==
  UNION {VerifyRecords(t, S, R, SymbolsRead(S, R, c), c) : c \in 0 .. n - 1}

PlacedBefore(filed, n) == FlattenSeq([j \in 1 .. n |-> InSlotOrder(filed[j])])

CarryAt(filed, n) ==
  IF PlacedBefore(filed, n) = <<>> THEN <<>> ELSE <<Last(PlacedBefore(filed, n))>>

PassesAt(S, files, filed, k) ==
  Fits(S, files[k], filed[k]) /\ InOrder(files[k], InSlotOrder(filed[k]), CarryAt(filed, k - 1))

LEMMA NothingFlattened ==
  ASSUME NEW seqs, Len(seqs) = 0
  PROVE  FlattenSeq(seqs) = <<>>
  BY DEF FlattenSeq

LEMMA SymbolsReadStep ==
  ASSUME NEW S \in Nat \ {0}, NEW R \in Files, NEW c \in 0 .. Len(R) - 1
  PROVE  /\ SymbolsRead(S, R, 0) = 0
         /\ SymbolsRead(S, R, c + 1) = SymbolsRead(S, R, c) + Len(ReadRanks(S, R[c + 1]))
<1>1. c \in Nat /\ \A j \in 1 .. c + 1 : j \in 1 .. Len(R) /\ R[j] \in Seq(Nat)
  <2>1. Len(R) \in Nat /\ \A j \in 1 .. Len(R) : R[j] \in Seq(Nat)
    BY DEF Files
  <2>2. c \in Nat /\ \A j \in 1 .. c + 1 : j \in 1 .. Len(R)
    BY <2>1
  <2> QED
    BY <2>1, <2>2
<1> DEFINE seqs == [j \in 1 .. c + 1 |-> ReadRanks(S, R[j])]
           front == [j \in 1 .. c |-> seqs[j]]
<1>2. ASSUME NEW j \in 1 .. c + 1 PROVE ReadRanks(S, R[j]) \in Seq(Nat)
  <2> DEFINE file == R[j]
  <2>1. file \in Seq(Nat)
    BY <1>1
  <2> HIDE DEF file
  <2>2. /\ Len(file) \in Nat
        /\ SubSeq(file, 1, Len(file)) \in Seq(Nat)
        /\ S < Len(file) => SubSeq(file, 1, S) \in Seq(Nat)
    BY <2>1
  <2>3. ReadRanks(S, file) \in Seq(Nat)
    <3>1. CASE Len(file) < S
      BY <2>2, <3>1 DEF ReadRanks
    <3>2. CASE ~ (Len(file) < S)
      <4>1. S = Len(file) \/ S < Len(file)
        BY <2>2, <3>2
      <4> QED
        BY <2>2, <3>2, <4>1 DEF ReadRanks
    <3> QED
      BY <3>1, <3>2
  <2> QED
    BY <2>3 DEF file
<1>3. seqs \in [1 .. c + 1 -> Seq(Nat)]
  BY <1>2
<1>4. front = [j \in 1 .. c |-> ReadRanks(S, R[j])]
  BY <1>1
<1>5. seqs[c + 1] = ReadRanks(S, R[c + 1]) /\ seqs[c + 1] \in Seq(Nat)
  <2>1. c + 1 \in 1 .. c + 1
    BY <1>1
  <2> QED
    BY <1>2, <2>1
<1>6. SymbolsRead(S, R, c + 1) = Len(FlattenSeq(seqs)) /\ SymbolsRead(S, R, c) = Len(FlattenSeq(front))
  BY <1>4 DEF SymbolsRead
<1> HIDE DEF seqs
<1>7. FlattenSeq(front) \in Seq(Nat) /\ FlattenSeq(seqs) = FlattenSeq(front) \o seqs[c + 1]
  BY <1>1, <1>3, FlattenLast
<1>8. Len(FlattenSeq(seqs)) = Len(FlattenSeq(front)) + Len(seqs[c + 1])
  BY <1>5, <1>7, ConcatAt
<1>9. SymbolsRead(S, R, 0) = 0
  <2>1. Len([j \in 1 .. 0 |-> ReadRanks(S, R[j])]) = 0
    OBVIOUS
  <2>2. FlattenSeq([j \in 1 .. 0 |-> ReadRanks(S, R[j])]) = <<>>
    BY <2>1, NothingFlattened
  <2> QED
    BY <2>2 DEF SymbolsRead
<1> QED
  BY <1>5, <1>6, <1>8, <1>9

LEMMA CarryStep ==
  ASSUME NEW filed, NEW c \in Nat,
         \A j \in 1 .. c + 1 : InSlotOrder(filed[j]) \in Seq(Record)
  PROVE  CarryAt(filed, c + 1) = CarryAfter(InSlotOrder(filed[c + 1]), CarryAt(filed, c))
<1> DEFINE seqs == [j \in 1 .. c + 1 |-> InSlotOrder(filed[j])]
           front == [j \in 1 .. c |-> seqs[j]]
           F == PlacedBefore(filed, c)
           G == PlacedBefore(filed, c + 1)
           s == InSlotOrder(filed[c + 1])
<1>1. seqs \in [1 .. c + 1 -> Seq(Record)] /\ seqs[c + 1] = s /\ s \in Seq(Record)
  <2>1. c + 1 \in 1 .. c + 1
    OBVIOUS
  <2> QED
    BY <2>1
<1>2. front = [j \in 1 .. c |-> InSlotOrder(filed[j])]
  OBVIOUS
<1>3. G = FlattenSeq(seqs) /\ F = FlattenSeq(front)
  BY <1>2 DEF PlacedBefore
<1> HIDE DEF seqs, F, G, s
<1>4. F \in Seq(Record) /\ G = F \o s
  BY <1>1, <1>3, FlattenLast
<1>5. CASE s = <<>>
  <2>1. G = F
    BY <1>4, <1>5
  <2> QED
    BY <1>5, <2>1 DEF CarryAt, CarryAfter, F, G, s
<1>6. CASE s # <<>>
  <2> DEFINE n == Len(s)
             m == Len(F)
  <2>1. n \in Nat /\ n # 0 /\ m \in Nat
    BY <1>1, <1>4, <1>6
  <2>2. /\ Len(G) = m + n /\ G \in Seq(Record)
        /\ \A i \in 1 .. n : G[m + i] = s[i]
    BY <1>1, <1>4, ConcatAt
  <2>3. n \in 1 .. n
    BY <2>1
  <2>4. G[Len(G)] = s[n] /\ Len(G) # 0
    <3> HIDE DEF n, m
    <3> QED
      BY <2>1, <2>2, <2>3
  <2>5. Last(G) = Last(s) /\ G # <<>>
    <3>1. Len(<<>>) = 0
      OBVIOUS
    <3> QED
      BY <2>4, <3>1 DEF Last
  <2> QED
    BY <1>6, <2>5 DEF CarryAt, CarryAfter, G, s
<1> QED
  BY <1>5, <1>6

(* Accepts is made of the tests of verify's steps.                         *)
LEMMA AcceptsStepwise ==
  ASSUME NEW t \in CodedText, NEW S \in Nat \ {0}, NEW R \in Files, NEW files, NEW filed,
         filed = [k \in 1 .. Len(R) |-> {r \in Filed(t, S, R, Len(R)) : r.target = k - 1}]
  PROVE  Accepts(t, S, R, files) <=>
           /\ \A c \in 0 .. Len(R) - 1 : ~ PartitionFails(t, S, R, SymbolsRead(S, R, c), c)
           /\ SymbolsRead(S, R, Len(R)) = Len(t) + 1
           /\ \A k \in 1 .. Len(R) : PassesAt(S, files, filed, k)
<1> DEFINE K == Len(R)
           symbols == [c \in 0 .. K |-> Len(FlattenSeq([j \in 1 .. c |-> ReadRanks(S, R[j])]))]
           records == UNION {VerifyRecords(t, S, R, symbols[c], c) : c \in 0 .. K - 1}
           routed == [k \in 1 .. K |-> {record \in records : record.target = k - 1}]
           placed == [k \in 1 .. K |-> InSlotOrder(routed[k])]
           carried == [k \in 1 .. K |-> LET before == FlattenSeq(SubSeq(placed, 1, k - 1))
                                        IN  IF before = <<>> THEN <<>> ELSE <<Last(before)>>]
<1>1. Accepts(t, S, R, files) <=>
        /\ \A c \in 0 .. K - 1 : ~ PartitionFails(t, S, R, symbols[c], c)
        /\ symbols[K] = Len(t) + 1
        /\ \A k \in 1 .. K : Fits(S, files[k], routed[k])
        /\ \A k \in 1 .. K : InOrder(files[k], placed[k], carried[k])
  BY DEF Accepts
<1>2. K \in Nat
  BY DEF Files
<1>3. \A c \in 0 .. K : symbols[c] = SymbolsRead(S, R, c)
  BY DEF SymbolsRead
<1>4. /\ \A c \in 0 .. K - 1 : symbols[c] = SymbolsRead(S, R, c)
      /\ symbols[K] = SymbolsRead(S, R, K)
  <2>1. \A c \in 0 .. K - 1 : c \in 0 .. K
    BY <1>2
  <2>2. K \in 0 .. K
    BY <1>2
  <2> QED
    BY <1>3, <2>1, <2>2
<1> HIDE DEF symbols
<1>5. records = Filed(t, S, R, K)
  BY <1>4 DEF Filed
<1>6. routed = filed
  <2> HIDE DEF records
  <2> QED
    BY <1>5
<1> HIDE DEF records, routed
<1>7. \A k \in 1 .. K : placed[k] = InSlotOrder(filed[k])
  BY <1>6
<1>8. ASSUME NEW k \in 1 .. K PROVE carried[k] = CarryAt(filed, k - 1)
  <2> DEFINE V == {placed[j] : j \in 1 .. K}
             front == [j \in 1 .. k - 1 |-> InSlotOrder(filed[j])]
  <2>1. placed \in Seq(V) /\ Len(placed) = K
    <3>1. placed \in [1 .. K -> V]
      OBVIOUS
    <3> HIDE DEF V, placed, K
    <3> QED
      BY <1>2, <3>1
  <2>2. SubSeq(placed, 1, k - 1) = [j \in 1 .. k - 1 |-> placed[j]]
    <3> HIDE DEF V, placed, K
    <3>1. k - 1 \in 0 .. Len(placed) /\ k - 1 \in Nat
      BY <1>2, <2>1
    <3> DEFINE m == k - 1
    <3>2. m \in 0 .. Len(placed) /\ m \in Nat
      BY <3>1
    <3> HIDE DEF m
    <3>3. SubSeq(placed, 1, m) = [j \in 1 .. m |-> placed[j]]
      BY <2>1, <3>2
    <3> QED
      BY <3>3 DEF m
  <2>3. \A j \in 1 .. k - 1 : j \in 1 .. K
    BY <1>2
  <2>4. SubSeq(placed, 1, k - 1) = front
    BY <1>7, <2>2, <2>3
  <2>5. carried[k] = LET before == FlattenSeq(SubSeq(placed, 1, k - 1))
                     IN  IF before = <<>> THEN <<>> ELSE <<Last(before)>>
    OBVIOUS
  <2>6. CarryAt(filed, k - 1) = IF FlattenSeq(front) = <<>> THEN <<>> ELSE <<Last(FlattenSeq(front))>>
    BY DEF CarryAt, PlacedBefore
  <2> HIDE DEF placed, carried, front
  <2> QED
    BY <2>4, <2>5, <2>6
<1> HIDE DEF placed, carried, K
<1>9. \A k \in 1 .. K :
        Fits(S, files[k], routed[k]) /\ InOrder(files[k], placed[k], carried[k])
          <=> PassesAt(S, files, filed, k)
  BY <1>6, <1>7, <1>8 DEF PassesAt
<1> QED
  BY <1>1, <1>4, <1>9 DEF K

-----------------------------------------------------------------------------
(* The partition as far as it has come, and the files that have passed.    *)
Booked ==
  pc # "rejected" =>
    LET n == IF pc = "partition" THEN chunk_id ELSE total_chunks
    IN  /\ stream = SymbolsRead(W, ranks, n)
        /\ \A c \in 0 .. n - 1 :
             ~ PartitionFails(text, W, ranks, SymbolsRead(W, ranks, c), c)
        /\ pc # "partition" => stream = Len(text) + 1
        /\ verify_files =
             [k \in 1 .. total_chunks |-> {r \in Filed(text, W, ranks, n) : r.target = k - 1}]

FilesPassed ==
  pc \in {"check", "accepted"} =>
    /\ pc = "accepted" => chunk_id = total_chunks
    /\ \A k \in 1 .. chunk_id : PassesAt(W, sa, verify_files, k)
    /\ carry = CarryAt(verify_files, chunk_id)

Decided ==
  Len(sa) = total_chunks /\ pc \in {"accepted", "rejected"} =>
    (pc = "accepted" <=> Accepts(text, W, ranks, sa))

VInv == Booked /\ FilesPassed /\ Decided /\ RightFilesKept

LEMMA ReadNothing == \A S, R : SymbolsRead(S, R, 0) = 0
<1> SUFFICES ASSUME NEW S, NEW R PROVE SymbolsRead(S, R, 0) = 0
  OBVIOUS
<1>1. Len([j \in 1 .. 0 |-> ReadRanks(S, R[j])]) = 0
  OBVIOUS
<1>2. FlattenSeq([j \in 1 .. 0 |-> ReadRanks(S, R[j])]) = <<>>
  BY <1>1, NothingFlattened
<1> QED
  BY <1>2 DEF SymbolsRead

LEMMA CarryNothing == \A filed : CarryAt(filed, 0) = <<>>
<1> SUFFICES ASSUME NEW filed PROVE CarryAt(filed, 0) = <<>>
  OBVIOUS
<1>1. Len([j \in 1 .. 0 |-> InSlotOrder(filed[j])]) = 0
  OBVIOUS
<1>2. FlattenSeq([j \in 1 .. 0 |-> InSlotOrder(filed[j])]) = <<>>
  BY <1>1, NothingFlattened
<1> QED
  BY <1>2 DEF CarryAt, PlacedBefore

LEMMA InitBooks == Init => VInv
<1> SUFFICES ASSUME Init PROVE VInv
  OBVIOUS
<1>1. Filed(text, W, ranks, 0) = {}
  BY DEF Filed
<1>2. pc = "partition" /\ chunk_id = 0 /\ stream = 0
      /\ verify_files = [k \in 1 .. total_chunks |-> {}]
  BY DEF Init
<1>3. Booked
  <2>1. stream = SymbolsRead(W, ranks, 0)
    BY <1>2, ReadNothing
  <2>2. verify_files =
          [k \in 1 .. total_chunks |-> {r \in Filed(text, W, ranks, 0) : r.target = k - 1}]
    BY <1>1, <1>2
  <2>3. \A c \in 0 .. 0 - 1 : FALSE
    OBVIOUS
  <2> QED
    BY <1>2, <2>1, <2>2, <2>3 DEF Booked
<1> QED
  BY <1>2, <1>3 DEF VInv, FilesPassed, Decided, RightFilesKept

LEMMA PartitionBooks == IInv /\ VInv /\ Partition => Booked' /\ FilesPassed' /\ Decided'
<1> SUFFICES ASSUME IInv, VInv, Partition PROVE Booked' /\ FilesPassed' /\ Decided'
  OBVIOUS
<1>1. Typed /\ Booked
  BY DEF IInv, VInv
<1>2. /\ text \in CodedText /\ W \in Nat \ {0} /\ ranks \in Files
      /\ total_chunks \in Nat /\ total_chunks = Len(ranks)
  BY <1>1, Parameters DEF total_chunks
<1>3. /\ text' = text /\ W' = W /\ ranks' = ranks /\ sa' = sa /\ carry' = carry
      /\ total_chunks' = total_chunks
      /\ pc = "partition" /\ chunk_id < total_chunks
  BY DEF Partition, total_chunks
<1>4. chunk_id \in Nat /\ chunk_id \in 0 .. Len(ranks) - 1 /\ Len(sa) = 0
  <2>1. chunk_id \in 0 .. total_chunks /\ sa = <<>>
    BY <1>1, <1>3 DEF Typed
  <2> QED
    BY <1>2, <1>3, <2>1
<1>5. CASE PartitionFails(text, W, ranks, stream, chunk_id)
  <2>1. pc' = "rejected"
    BY <1>5 DEF Partition, Reject
  <2>2. Len(sa') # total_chunks'
    BY <1>2, <1>3, <1>4
  <2> QED
    BY <2>1, <2>2 DEF Booked, FilesPassed, Decided
<1>6. CASE ~ PartitionFails(text, W, ranks, stream, chunk_id)
  <2> DEFINE c == chunk_id
             K == total_chunks
             new == VerifyRecords(text, W, ranks, stream, c)
             all(n) == Filed(text, W, ranks, n)
             read(n) == SymbolsRead(W, ranks, n)
  <2>1. /\ pc' = "partition"
        /\ verify_files' = [k \in 1 .. K |-> verify_files[k] \cup {r \in new : r.target = k - 1}]
        /\ stream' = stream + Len(ReadRanks(W, ranks[c + 1]))
        /\ chunk_id' = c + 1
    BY <1>3, <1>6 DEF Partition
  <2>2. /\ stream = read(c)
        /\ \A d \in 0 .. c - 1 : ~ PartitionFails(text, W, ranks, read(d), d)
        /\ verify_files = [k \in 1 .. K |-> {r \in all(c) : r.target = k - 1}]
    BY <1>1, <1>3 DEF Booked
  <2>3. 0 .. (c + 1) - 1 = (0 .. c - 1) \cup {c}
    BY <1>4
  <2>4. all(c + 1) = all(c) \cup new
    BY <2>2, <2>3 DEF Filed
  <2>5. stream' = read(c + 1)
    BY <1>2, <1>4, <2>1, <2>2, SymbolsReadStep
  <2>6. \A d \in 0 .. (c + 1) - 1 : ~ PartitionFails(text, W, ranks, read(d), d)
    BY <1>6, <2>2, <2>3
  <2> HIDE DEF new, all, read, K
  <2>7. verify_files' = [k \in 1 .. K |-> {r \in all(c + 1) : r.target = k - 1}]
    <3>1. \A k \in 1 .. K : verify_files[k] \cup {r \in new : r.target = k - 1}
                              = {r \in all(c + 1) : r.target = k - 1}
      BY <2>2, <2>4
    <3> QED
      BY <2>1, <3>1
  <2>8. Booked'
    BY <1>3, <2>1, <2>5, <2>6, <2>7 DEF Booked, all, read, K
  <2>9. FilesPassed' /\ Decided'
    BY <2>1 DEF FilesPassed, Decided
  <2> QED
    BY <2>8, <2>9
<1> QED
  BY <1>5, <1>6

LEMMA EndPartitionBooks == IInv /\ VInv /\ EndPartition => Booked' /\ FilesPassed' /\ Decided'
<1> SUFFICES ASSUME IInv, VInv, EndPartition PROVE Booked' /\ FilesPassed' /\ Decided'
  OBVIOUS
<1>1. Typed /\ Booked
  BY DEF IInv, VInv
<1>2. /\ text \in CodedText /\ W \in Nat \ {0} /\ ranks \in Files
      /\ total_chunks \in Nat /\ total_chunks = Len(ranks)
  BY <1>1, Parameters DEF total_chunks
<1>3. /\ text' = text /\ W' = W /\ ranks' = ranks /\ sa' = sa /\ carry' = carry
      /\ stream' = stream /\ verify_files' = verify_files /\ total_chunks' = total_chunks
      /\ pc = "partition" /\ chunk_id = total_chunks /\ carry = <<>>
  BY <1>1 DEF EndPartition, total_chunks, Typed
<1>4. /\ stream = SymbolsRead(W, ranks, total_chunks)
      /\ \A c \in 0 .. total_chunks - 1 :
           ~ PartitionFails(text, W, ranks, SymbolsRead(W, ranks, c), c)
      /\ verify_files = [k \in 1 .. total_chunks |->
           {r \in Filed(text, W, ranks, total_chunks) : r.target = k - 1}]
  BY <1>1, <1>3 DEF Booked
<1>5. CASE stream # Len(text) + 1
  <2>1. pc' = "rejected"
    BY <1>5 DEF EndPartition, Reject
  <2>2. ~ Accepts(text, W, ranks, sa)
    BY <1>2, <1>4, <1>5, AcceptsStepwise
  <2> QED
    BY <1>3, <2>1, <2>2 DEF Booked, FilesPassed, Decided
<1>6. CASE stream = Len(text) + 1
  <2>1. pc' = "check" /\ chunk_id' = 0
    BY <1>6 DEF EndPartition
  <2>2. Booked'
    BY <1>3, <1>4, <1>6, <2>1 DEF Booked
  <2>3. FilesPassed'
    BY <1>3, <2>1, CarryNothing DEF FilesPassed
  <2>4. Decided'
    BY <2>1 DEF Decided
  <2> QED
    BY <2>2, <2>3, <2>4
<1> QED
  BY <1>5, <1>6

(* A file that fits its records has these in order, one to a slot.         *)
LEMMA PlacedType ==
  ASSUME NEW S \in Nat, NEW file \in Seq(Int), NEW records \in SUBSET Record,
         IsFiniteSet(records), Fits(S, file, records)
  PROVE  InSlotOrder(records) \in Seq(Record)
<1> DEFINE placed == InSlotOrder(records)
           n == Cardinality(records)
<1>1. n = Len(file) /\ n \in Nat
  BY SlotsFilled
<1>2. placed = [i \in 1 .. n |-> placed[i]]
  BY DEF InSlotOrder
<1> HIDE DEF placed
<1>3. \A i \in 1 .. n : placed[i] \in Record
  <2>1. \A i \in 1 .. Len(file) : placed[i] \in records
    BY SlotsFilled DEF placed
  <2> QED
    BY <1>1, <2>1
<1> HIDE DEF n
<1>4. placed \in Seq(Record)
  BY <1>1, <1>2, <1>3
<1> QED
  BY <1>4 DEF placed

LEMMA CheckBooks == IInv /\ VInv /\ Check => Booked' /\ FilesPassed' /\ Decided'
<1> SUFFICES ASSUME IInv, VInv, Check PROVE Booked' /\ FilesPassed' /\ Decided'
  OBVIOUS
<1>1. Typed /\ Booked /\ FilesPassed
  BY DEF IInv, VInv
<1>2. /\ text \in CodedText /\ W \in Nat \ {0} /\ ranks \in Files
      /\ total_chunks \in Nat /\ total_chunks = Len(ranks)
      /\ SAFiles(W) \subseteq Seq(Int)
  BY <1>1, Parameters DEF total_chunks
<1> DEFINE c == chunk_id
           k == c + 1
           K == total_chunks
           records == verify_files[k]
<1>3. PICK file \in SAFiles(W) :
        /\ sa' = Append(sa, file)
        /\ IF Fits(W, file, records) /\ InOrder(file, InSlotOrder(records), carry)
           THEN carry' = CarryAfter(InSlotOrder(records), carry) /\ chunk_id' = k /\ UNCHANGED pc
           ELSE Reject /\ UNCHANGED <<carry, chunk_id>>
  BY DEF Check
<1>4. /\ text' = text /\ W' = W /\ ranks' = ranks /\ stream' = stream
      /\ verify_files' = verify_files /\ K' = K /\ pc = "check"
      /\ c < K /\ c \in Nat /\ k \in 1 .. K /\ k - 1 = c /\ Len(sa) = c
  <2>1. /\ text' = text /\ W' = W /\ ranks' = ranks /\ stream' = stream
        /\ verify_files' = verify_files /\ K' = K /\ pc = "check" /\ c < K
    BY DEF Check, total_chunks
  <2>2. c \in 0 .. K /\ Len(sa) = c
    BY <1>1, <2>1 DEF Typed
  <2> HIDE DEF K, c
  <2> QED
    BY <1>2, <2>1, <2>2 DEF K
<1>5. /\ file \in Seq(Int) /\ Len(sa') = k /\ sa'[k] = file
      /\ \A j \in 1 .. c : sa'[j] = sa[j]
  <2>1. sa \in Seq(Seq(Int)) /\ file \in Seq(Int)
    BY <1>1, <1>2 DEF Typed
  <2> QED
    BY <1>3, <1>4, <2>1
<1>6. /\ \A j \in 1 .. c : PassesAt(W, sa, verify_files, j)
      /\ carry = CarryAt(verify_files, c)
  BY <1>1, <1>4 DEF FilesPassed
<1>7. \A j \in 1 .. c : PassesAt(W, sa', verify_files, j)
  BY <1>5, <1>6 DEF PassesAt
<1>8. PassesAt(W, sa', verify_files, k)
        <=> Fits(W, file, records) /\ InOrder(file, InSlotOrder(records), carry)
  BY <1>4, <1>5, <1>6 DEF PassesAt
<1>9. /\ stream = SymbolsRead(W, ranks, K) /\ stream = Len(text) + 1
      /\ \A d \in 0 .. K - 1 : ~ PartitionFails(text, W, ranks, SymbolsRead(W, ranks, d), d)
      /\ verify_files = [j \in 1 .. K |-> {r \in Filed(text, W, ranks, K) : r.target = j - 1}]
  BY <1>1, <1>4 DEF Booked
<1> HIDE DEF records
<1>10. CASE ~ PassesAt(W, sa', verify_files, k)
  <2>1. pc' = "rejected"
    BY <1>3, <1>8, <1>10 DEF Reject
  <2>2. ~ Accepts(text, W, ranks, sa')
    <3> DEFINE files == sa'
    <3>1. Accepts(text, W, ranks, files) => \A j \in 1 .. Len(ranks) : PassesAt(W, files, verify_files, j)
      <4> HIDE DEF files
      <4> QED
        BY <1>2, <1>9, AcceptsStepwise
    <3> QED
      BY <1>2, <1>4, <1>10, <3>1
  <2> QED
    BY <1>4, <2>1, <2>2 DEF Booked, FilesPassed, Decided
<1>11. CASE PassesAt(W, sa', verify_files, k)
  <2>1. /\ pc' = "check" /\ chunk_id' = k
        /\ carry' = CarryAfter(InSlotOrder(records), carry)
    BY <1>3, <1>4, <1>8, <1>11
  <2>2. \A j \in 1 .. k : PassesAt(W, sa', verify_files, j)
    <3>1. \A j \in 1 .. k : j \in 1 .. c \/ j = k
      BY <1>4
    <3> QED
      BY <1>7, <1>11, <3>1
  <2>3. ASSUME NEW j \in 1 .. k PROVE InSlotOrder(verify_files[j]) \in Seq(Record)
    <3> DEFINE f == sa'[j]
               R == verify_files[j]
    <3>1. Fits(W, f, R)
      BY <2>2 DEF PassesAt
    <3>2. j \in 1 .. K
      BY <1>2, <1>4
    <3>3. R \in SUBSET Record /\ IsFiniteSet(R)
      BY <1>1, <3>2 DEF Typed, WellFiled
    <3>4. f \in Seq(Int)
      <4>1. sa \in Seq(Seq(Int))
        BY <1>1 DEF Typed
      <4>2. CASE j = k
        BY <1>5, <4>2
      <4>3. CASE j # k
        <5>1. j \in 1 .. c
          BY <1>4, <4>3
        <5>2. f = sa[j]
          BY <1>5, <5>1
        <5>3. j \in 1 .. Len(sa)
          BY <1>4, <5>1
        <5>4. sa[j] \in Seq(Int)
          BY <4>1, <5>3
        <5> QED
          BY <5>2, <5>4
      <4> QED
        BY <4>2, <4>3
    <3> HIDE DEF f, R
    <3>5. InSlotOrder(R) \in Seq(Record)
      BY <1>2, <3>1, <3>3, <3>4, PlacedType
    <3> QED
      BY <3>5 DEF R
  <2>4. carry' = CarryAt(verify_files, k)
    <3>1. CarryAt(verify_files, c + 1) =
            CarryAfter(InSlotOrder(verify_files[c + 1]), CarryAt(verify_files, c))
      BY <1>4, <2>3, CarryStep
    <3> QED
      BY <1>6, <2>1, <3>1 DEF records
  <2>5. Booked'
    BY <1>1, <1>4, <2>1 DEF Booked
  <2>6. FilesPassed'
    BY <1>4, <2>1, <2>2, <2>4 DEF FilesPassed
  <2>7. Decided'
    BY <2>1 DEF Decided
  <2> QED
    BY <2>5, <2>6, <2>7
<1> QED
  BY <1>10, <1>11

LEMMA AcceptBooks == IInv /\ VInv /\ Accept => Booked' /\ FilesPassed' /\ Decided'
<1> SUFFICES ASSUME IInv, VInv, Accept PROVE Booked' /\ FilesPassed' /\ Decided'
  OBVIOUS
<1>1. Typed /\ Booked /\ FilesPassed
  BY DEF IInv, VInv
<1>2. /\ text \in CodedText /\ W \in Nat \ {0} /\ ranks \in Files
      /\ total_chunks \in Nat /\ total_chunks = Len(ranks)
  BY <1>1, Parameters DEF total_chunks
<1>3. /\ UNCHANGED <<text, W, ranks, sa, chunk_id, stream, verify_files, carry>>
      /\ total_chunks' = total_chunks
      /\ pc = "check" /\ pc' = "accepted" /\ chunk_id = total_chunks
  BY DEF Accept, total_chunks
<1>4. /\ stream = SymbolsRead(W, ranks, total_chunks) /\ stream = Len(text) + 1
      /\ \A d \in 0 .. total_chunks - 1 :
           ~ PartitionFails(text, W, ranks, SymbolsRead(W, ranks, d), d)
      /\ verify_files = [j \in 1 .. total_chunks |->
           {r \in Filed(text, W, ranks, total_chunks) : r.target = j - 1}]
  BY <1>1, <1>3 DEF Booked
<1>5. \A k \in 1 .. total_chunks : PassesAt(W, sa, verify_files, k)
  BY <1>1, <1>3 DEF FilesPassed
<1>6. Accepts(text, W, ranks, sa)
  BY <1>2, <1>4, <1>5, AcceptsStepwise
<1>7. Booked'
  BY <1>3, <1>4 DEF Booked
<1>8. FilesPassed'
  BY <1>1, <1>3 DEF FilesPassed
<1>9. Decided'
  BY <1>3, <1>6 DEF Decided
<1> QED
  BY <1>7, <1>8, <1>9

(* verify never rejects the files of a run without faults, and its verdict *)
(* on any files is that of Accepts: for every text, every chunk size and   *)
(* whatever the files hold.                                                *)
THEOREM RightFilesAccepted == Spec => []AcceptsRightFiles
<1>1. IInv /\ VInv /\ [Next]_vars => VInv'
  <2> SUFFICES ASSUME IInv, VInv, [Next]_vars PROVE VInv'
    OBVIOUS
  <2>1. RightFilesKept'
    BY RightFilesKeep DEF VInv
  <2>2. Booked' /\ FilesPassed' /\ Decided'
    <3>1. CASE Partition
      BY <3>1, PartitionBooks
    <3>2. CASE EndPartition
      BY <3>2, EndPartitionBooks
    <3>3. CASE Check
      BY <3>3, CheckBooks
    <3>4. CASE Accept
      BY <3>4, AcceptBooks
    <3>5. CASE UNCHANGED vars
      BY <3>5 DEF vars, total_chunks, VInv, Booked, FilesPassed, Decided
    <3> QED
      BY <3>1, <3>2, <3>3, <3>4, <3>5 DEF Next
  <2> QED
    BY <2>1, <2>2 DEF VInv
<1>2. VInv => AcceptsRightFiles
  BY DEF VInv, Decided, RightFilesKept, AcceptsRightFiles
<1> QED
  BY <1>1, <1>2, InitBooks, IInvHolds, PTL DEF Spec

-----------------------------------------------------------------------------
(* The verdict of Accepts, of the files as a whole.                        *)
Full(S, R) == \A d \in 1 .. Len(R) - 1 : Len(R[d]) = S

Filing(t, S, R) == [k \in 1 .. Len(R) |-> {r \in Filed(t, S, R, Len(R)) : r.target = k - 1}]

LEMMA SymbolsOfFull ==
  ASSUME NEW S \in Nat \ {0}, NEW R \in Files, Full(S, R), NEW c \in 0 .. Len(R)
  PROVE  SymbolsRead(S, R, c) = StreamAfter(S, R, c)
<1>1. Len(R) \in Nat /\ \A d \in 1 .. Len(R) - 1 : Len(R[d]) = S
  BY DEF Files, Full
<1> DEFINE T == {d \in Nat : d <= Len(R) => SymbolsRead(S, R, d) = StreamAfter(S, R, d)}
<1>2. 0 \in T
  BY ReadNothing DEF StreamAfter
<1>3. ASSUME NEW d \in Nat, d \in T PROVE d + 1 \in T
  <2>1. SUFFICES ASSUME d + 1 <= Len(R)
                 PROVE  SymbolsRead(S, R, d + 1) = StreamAfter(S, R, d + 1)
    OBVIOUS
  <2>2. d \in 0 .. Len(R) - 1 /\ d <= Len(R) /\ (d + 1) - 1 = d /\ d + 1 # 0
    BY <1>1, <2>1
  <2>3. SymbolsRead(S, R, d) = StreamAfter(S, R, d)
    BY <1>3, <2>2
  <2>4. StreamAfter(S, R, d) = d * S
    BY <1>1, <2>2, StreamAtChunk
  <2>5. SymbolsRead(S, R, d + 1) = SymbolsRead(S, R, d) + Len(ReadRanks(S, R[d + 1]))
    BY <2>2, SymbolsReadStep
  <2>6. StreamAfter(S, R, d + 1) = d * S + Len(ReadRanks(S, R[d + 1]))
    BY <2>2 DEF StreamAfter
  <2> QED
    BY <2>3, <2>4, <2>5, <2>6
<1> HIDE DEF T
<1>4. Nat \subseteq T
  BY <1>2, <1>3, Induction
<1>5. c \in Nat /\ c <= Len(R)
  BY <1>1
<1> QED
  BY <1>4, <1>5 DEF T

LEMMA FiledOfFull ==
  ASSUME NEW t, NEW S \in Nat \ {0}, NEW R \in Files, Full(S, R)
  PROVE  Filed(t, S, R, Len(R)) = AllRecords(t, S, R, Len(R))
<1>1. Len(R) \in Nat
  BY DEF Files
<1>2. ASSUME NEW c \in 0 .. Len(R) - 1 PROVE SymbolsRead(S, R, c) = c * S
  <2>1. c \in 0 .. Len(R)
    BY <1>1
  <2>2. StreamAfter(S, R, c) = c * S
    BY StreamAtChunk DEF Full
  <2> QED
    BY <2>1, <2>2, SymbolsOfFull
<1> QED
  BY <1>2 DEF Filed, AllRecords

(* A partition that does not fail.                                         *)
LEMMA PartitionedWhole ==
  ASSUME NEW t \in CodedText, NEW S \in Nat \ {0}, NEW R \in Files, Full(S, R),
         \A c \in 0 .. Len(R) - 1 : ~ PartitionFails(t, S, R, SymbolsRead(S, R, c), c),
         SymbolsRead(S, R, Len(R)) = Len(t) + 1
  PROVE  /\ Whole(t, S, R)
         /\ WellFiled(S, Filing(t, S, R), Len(R))
         /\ \A k \in 1 .. Len(R) :
              Filing(t, S, R)[k] = {r \in AllRecords(t, S, R, Len(R)) : r.target = k - 1}
         /\ \A r \in AllRecords(t, S, R, Len(R)) : r.target < Len(R)
<1> DEFINE K == Len(R)
           All == AllRecords(t, S, R, K)
           filed == Filing(t, S, R)
           Of(c) == VerifyRecords(t, S, R, SymbolsRead(S, R, c), c)
<1>1. K \in Nat
  BY DEF Files
<1>2. Whole(t, S, R)
  <2>1. ASSUME NEW d \in 2 .. K PROVE R[d] # <<>>
    <3>1. d - 2 \in 0 .. K - 1 /\ (d - 2) + 1 < K /\ (d - 2) + 2 = d
      BY <1>1
    <3> DEFINE c == d - 2
    <3>2. ~ PartitionFails(t, S, R, SymbolsRead(S, R, c), c)
      BY <3>1
    <3>3. c + 1 < Len(R) /\ R[c + 2] = R[d]
      BY <3>1
    <3> HIDE DEF c
    <3> QED
      BY <3>2, <3>3 DEF PartitionFails
  <2>2. K \in 0 .. K
    BY <1>1
  <2>3. StreamAfter(S, R, K) = Len(t) + 1
    BY <2>2, SymbolsOfFull
  <2> QED
    BY <2>1, <2>3 DEF Whole, Full
<1>3. Filed(t, S, R, K) = All
  BY FiledOfFull
<1>4. \A k \in 1 .. K : filed[k] = {r \in All : r.target = k - 1}
  BY <1>3 DEF Filing
<1>5. ASSUME NEW c \in 0 .. K - 1, NEW r \in Of(c)
      PROVE  r \in Record /\ r.slot < S /\ r.target < K
  <2>1. SymbolsRead(S, R, c) \in Nat
    <3>1. c \in 0 .. K /\ c \in Nat
      BY <1>1
    <3>2. SymbolsRead(S, R, c) = c * S
      BY <3>1, SymbolsOfFull, StreamAtChunk DEF Full
    <3> QED
      BY <3>1, <3>2
  <2> DEFINE n == SymbolsRead(S, R, c)
  <2>2. n \in Nat /\ ~ PartitionFails(t, S, R, n, c)
    BY <2>1
  <2>3. PICK i \in DOMAIN ReadRanks(S, R[c + 1]) : r = VerifyRecord(t, S, R, n, c, i)
    BY DEF VerifyRecords
  <2> HIDE DEF n
  <2> QED
    BY <2>2, <2>3, RecordType
<1>6. All = UNION {Of(c) : c \in 0 .. K - 1}
  BY <1>3 DEF Filed
<1>7. \A r \in All : r \in Record /\ r.slot < S /\ r.target < K
  BY <1>5, <1>6
<1>8. IsFiniteSet(All)
  <2> DEFINE f == [c \in 0 .. K - 1 |-> Of(c)]
             D == 0 .. K - 1
  <2>1. IsFiniteSet(D)
    BY <1>1, FS_Interval
  <2>2. \A c \in D : IsFiniteSet(f[c])
    BY RecordsFinite
  <2>3. UNION {f[c] : c \in D} = All
    BY <1>6
  <2>4. DOMAIN f = D
    OBVIOUS
  <2> HIDE DEF f, D
  <2>5. IsFiniteSet(UNION {f[c] : c \in D})
    BY <2>1, <2>2, <2>4, FiniteUnion
  <2> QED
    BY <2>3, <2>5
<1> HIDE DEF All, filed, Of
<1>9. ASSUME NEW k \in 1 .. K
      PROVE  /\ filed[k] \in SUBSET Record /\ IsFiniteSet(filed[k])
             /\ \A r \in filed[k] : r.target = k - 1 /\ r.slot < S
  <2>1. filed[k] \subseteq All
    BY <1>4
  <2>2. IsFiniteSet(filed[k])
    BY <1>8, <2>1, FS_Subset
  <2> QED
    BY <1>4, <1>7, <2>2
<1>10. WellFiled(S, filed, K)
  <2>1. filed \in [1 .. K -> SUBSET Record]
    BY <1>9 DEF filed, Filing
  <2> QED
    BY <1>9, <2>1 DEF WellFiled
<1> QED
  BY <1>2, <1>4, <1>7, <1>10 DEF filed, All, K

(* The first c files have passed: what the carry is good for.              *)
Steady(S, filed, c) ==
  /\ CarryAt(filed, c) \in Seq(Record) /\ Len(CarryAt(filed, c)) <= 1
  /\ Sorted(S, filed, c, CarryAt(filed, c))
  /\ \A j \in 1 .. c : InSlotOrder(filed[j]) \in Seq(Record)

LEMMA SteadyStart ==
  ASSUME NEW S, NEW filed
  PROVE  Steady(S, filed, 0)
<1>1. CarryAt(filed, 0) = <<>>
  BY CarryNothing
<1>2. Checked(filed, 0) = {}
  BY DEF Checked
<1>3. Sorted(S, filed, 0, <<>>)
  BY <1>2 DEF Sorted
<1>4. <<>> \in Seq(Record) /\ Len(<<>>) <= 1 /\ \A j \in 1 .. 0 : FALSE
  OBVIOUS
<1>5. /\ CarryAt(filed, 0) \in Seq(Record) /\ Len(CarryAt(filed, 0)) <= 1
      /\ Sorted(S, filed, 0, CarryAt(filed, 0))
      /\ \A j \in 1 .. 0 : InSlotOrder(filed[j]) \in Seq(Record)
  BY <1>1, <1>3, <1>4
<1> QED
  BY <1>5, Zenon DEF Steady

LEMMA SteadyStep ==
  ASSUME NEW S \in Nat \ {0}, NEW K \in Nat, NEW filed, WellFiled(S, filed, K),
         NEW c \in 0 .. K - 1, NEW files, files[c + 1] \in Seq(Int),
         Steady(S, filed, c), PassesAt(S, files, filed, c + 1)
  PROVE  Steady(S, filed, c + 1) /\ Matches(files[c + 1], filed[c + 1])
<1> DEFINE k == c + 1
           file == files[k]
           new == filed[k]
           before == CarryAt(filed, c)
           after == CarryAfter(InSlotOrder(new), before)
<1>1. c \in Nat /\ k \in 1 .. K /\ k - 1 = c /\ S \in Nat
  OBVIOUS
<1>2. file \in Seq(Int) /\ Fits(S, file, new) /\ InOrder(file, InSlotOrder(new), before)
  BY <1>1 DEF PassesAt
<1>3. new \in SUBSET Record /\ IsFiniteSet(new)
  BY <1>1 DEF WellFiled
<1>4. before \in Seq(Record) /\ Len(before) <= 1 /\ Sorted(S, filed, c, before)
  BY DEF Steady
<1>5. InSlotOrder(new) \in Seq(Record)
  <2> HIDE DEF file, new
  <2> QED
    BY <1>1, <1>2, <1>3, PlacedType
<1>6. /\ after \in Seq(Record) /\ Len(after) <= 1
      /\ Sorted(S, filed, k, after)
      /\ Matches(file, new)
  <2> HIDE DEF file, before
  <2> QED
    BY <1>2, <1>4, CheckKeepsSorted
<1>7. \A j \in 1 .. k : InSlotOrder(filed[j]) \in Seq(Record)
  <2>1. \A j \in 1 .. k : j \in 1 .. c \/ j = k
    BY <1>1
  <2> QED
    BY <1>5, <2>1 DEF Steady
<1>8. CarryAt(filed, k) = after
  BY <1>1, <1>7, CarryStep
<1> QED
  BY <1>6, <1>7, <1>8 DEF Steady

-----------------------------------------------------------------------------
(* Files that name the positions of the records, which are in order, are   *)
(* in the order of the suffixes, every position in one of them.            *)
Enumerates(t, files, K) ==
  /\ \A p \in Positions(t) : \E k \in 1 .. K : \E n \in 1 .. Len(files[k]) : files[k][n] = p
  /\ \A k \in 1 .. K : \A n \in 1 .. Len(files[k]) :
       /\ files[k][n] \in Positions(t)
       /\ \A l \in 1 .. K : \A m \in 1 .. Len(files[l]) :
            k < l \/ (k = l /\ n < m) => SuffixLess(t, files[k][n], files[l][m])

LEMMA MatchedFilesSort ==
  ASSUME NEW t \in CodedText, NEW S \in Nat \ {0}, NEW R \in Files, Whole(t, S, R),
         NEW K \in Nat, K = Len(R), NEW filed, NEW last, Sorted(S, filed, K, last),
         \A k \in 1 .. K : filed[k] = {r \in AllRecords(t, S, R, K) : r.target = k - 1},
         \A r \in AllRecords(t, S, R, K) : r.target < K,
         NEW files, \A k \in 1 .. K : files[k] \in Seq(Int) /\ Matches(files[k], filed[k])
  PROVE  Enumerates(t, files, K)
<1> DEFINE All == AllRecords(t, S, R, K)
           rank == RankAt(t, S, R)
           At(p) == PositionRecord(t, S, R, p)
<1>1. /\ \A k \in 1 .. K : filed[k] = {r \in All : r.target = k - 1}
      /\ \A r \in All : r.target < K
      /\ \A k \in 1 .. K : files[k] \in Seq(Int) /\ Matches(files[k], filed[k])
      /\ \A k \in 1 .. K : DOMAIN files[k] = 1 .. Len(files[k]) /\ Len(files[k]) \in Nat
  OBVIOUS
<1>5. /\ rank \in [Positions(t) -> Nat]
      /\ All = {At(p) : p \in Positions(t)}
  BY RecordsOfPositions
<1> HIDE DEF All
<1>7. ASSUME NEW p \in Positions(t)
      PROVE  /\ At(p) \in All /\ At(p).position = p
             /\ At(p).target = rank[p] \div S /\ At(p).slot = rank[p] % S
             /\ At(p).target + 1 \in 1 .. K
             /\ At(p) \in filed[At(p).target + 1]
  <2>1. /\ At(p) \in All /\ At(p).position = p
        /\ At(p).target = rank[p] \div S /\ At(p).slot = rank[p] % S
    BY <1>5 DEF PositionRecord
  <2>2. At(p).target \in Nat /\ At(p).target < K
    <3>1. rank[p] \in Nat
      BY <1>5
    <3> HIDE DEF rank, At
    <3>2. rank[p] \div S \in Nat
      BY <3>1, Division
    <3> QED
      BY <1>1, <2>1, <3>2
  <2> HIDE DEF At, rank
  <2>3. At(p).target + 1 \in 1 .. K /\ (At(p).target + 1) - 1 = At(p).target
    BY <2>2
  <2> QED
    BY <1>1, <2>1, <2>3
<1>8. ASSUME NEW p \in Positions(t), NEW q \in Positions(t), rank[p] < rank[q]
      PROVE  SuffixLess(t, p, q)
  <2>1. All \subseteq Checked(filed, K)
    <3> SUFFICES ASSUME NEW x \in Positions(t) PROVE At(x) \in Checked(filed, K)
      BY <1>5
    <3> DEFINE k == At(x).target + 1
    <3>1. k \in 1 .. K /\ At(x) \in filed[k]
      BY <1>7
    <3> HIDE DEF k, At
    <3> QED
      BY <3>1 DEF Checked
  <2>2. \A r, s \in All : RankOf(S, r) < RankOf(S, s) => LexLessStrict(r, s)
    BY <2>1 DEF Sorted
  <2>3. \A r, s \in AllRecords(t, S, R, Len(R)) :
          RankOf(S, r) < RankOf(S, s) => LexLessStrict(r, s)
    BY <2>2 DEF All
  <2> QED
    BY <1>8, <2>3, OrderedRecordsSort
<1>9. ASSUME NEW p \in Positions(t)
      PROVE  \E k \in 1 .. K : \E n \in 1 .. Len(files[k]) : files[k][n] = p
  <2> DEFINE r == At(p)
             k == r.target + 1
  <2>1. r \in filed[k] /\ k \in 1 .. K /\ r.position = p
    BY <1>7
  <2> HIDE DEF r, k
  <2>2. r.slot + 1 \in DOMAIN files[k] /\ files[k][r.slot + 1] = r.position
    BY <1>1, <2>1 DEF Matches
  <2> QED
    BY <1>1, <2>1, <2>2
<1>10. ASSUME NEW k \in 1 .. K, NEW n \in 1 .. Len(files[k])
       PROVE  /\ files[k][n] \in Positions(t)
              /\ rank[files[k][n]] = (k - 1) * S + (n - 1)
              /\ n - 1 \in 0 .. S - 1 /\ k - 1 \in Nat
  <2>1. PICK r \in filed[k] : r.slot = n - 1
    BY <1>1 DEF Matches
  <2>2. r.slot + 1 = n /\ k - 1 \in Nat
    <3>1. n \in Nat
      BY <1>1
    <3> QED
      BY <2>1, <3>1
  <2>3. files[k][n] = r.position
    BY <1>1, <2>2 DEF Matches
  <2>4. r \in All /\ r.target = k - 1
    BY <1>1
  <2>5. PICK p \in Positions(t) : r = At(p)
    BY <1>5, <2>4
  <2>6. files[k][n] = p
    BY <1>7, <2>3, <2>5
  <2>7. RankOf(S, r) = rank[p]
    BY <2>5, RankOfPosition
  <2>8. RankOf(S, r) = (k - 1) * S + (n - 1)
    BY <2>1, <2>4 DEF RankOf
  <2>9. n - 1 \in 0 .. S - 1
    <3>1. rank[p] \in Nat
      BY <1>5
    <3>2. r.slot = rank[p] % S
      BY <1>7, <2>5
    <3> HIDE DEF rank
    <3>3. rank[p] % S \in 0 .. S - 1
      BY <3>1, Division
    <3> QED
      BY <2>1, <3>2, <3>3
  <2> QED
    BY <2>2, <2>6, <2>7, <2>8, <2>9
<1>11. ASSUME NEW k \in 1 .. K, NEW n \in 1 .. Len(files[k]),
              NEW l \in 1 .. K, NEW m \in 1 .. Len(files[l]),
              k < l \/ (k = l /\ n < m)
       PROVE  SuffixLess(t, files[k][n], files[l][m])
  <2>1. /\ files[k][n] \in Positions(t) /\ rank[files[k][n]] = (k - 1) * S + (n - 1)
        /\ files[l][m] \in Positions(t) /\ rank[files[l][m]] = (l - 1) * S + (m - 1)
        /\ n - 1 \in 0 .. S - 1 /\ m - 1 \in 0 .. S - 1
        /\ k - 1 \in Nat /\ l - 1 \in Nat
    BY <1>10
  <2>2. n \in Nat /\ m \in Nat
    BY <1>1
  <2>3. (k - 1) * S + (n - 1) < (l - 1) * S + (m - 1)
    <3>1. CASE k < l
      <4>1. k - 1 < l - 1 /\ m - 1 \in Nat
        BY <2>1, <3>1
      <4> QED
        BY <2>1, <4>1, ChunkFirst
    <3>2. CASE k = l /\ n < m
      <4> DEFINE b == (k - 1) * S
      <4>1. b \in Nat /\ (l - 1) * S = b
        BY <2>1, <3>2
      <4> HIDE DEF b
      <4>2. b + (n - 1) < b + (m - 1)
        BY <2>2, <3>2, <4>1
      <4> QED
        BY <4>1, <4>2 DEF b
    <3> QED
      BY <1>11, <3>1, <3>2
  <2> HIDE DEF rank
  <2> QED
    BY <1>8, <2>1, <2>3
<1> QED
  BY <1>9, <1>10, <1>11 DEF Enumerates

(* One after the other they are the suffix array.                          *)
LEMMA FilesFlattened ==
  ASSUME NEW t \in CodedText, NEW K \in Nat, NEW files \in [1 .. K -> Seq(Int)],
         Enumerates(t, files, K)
  PROVE  FlattenSeq(files) = InSuffixOrder(t, Positions(t))
<1> DEFINE w == [k \in 1 .. K |-> Len(files[k])]
           F == FlattenSeq(files)
           O == InSuffixOrder(t, Positions(t))
           m == Len(F)
           n == Len(O)
           f == [a \in 1 .. m |-> SuffixRank(t, F[a])]
           g == [a \in 1 .. n |-> SuffixRank(t, O[a])]
           Ranks == 0 .. Len(t)
<1>0. files = [k \in 1 .. K |-> files[k]]
  OBVIOUS
<1>1. w \in [1 .. K -> Nat] /\ \A k \in 1 .. K : w[k] = Len(files[k])
  OBVIOUS
<1> HIDE DEF w
<1>2. PICK st : Cuts(st, w, K)
  BY <1>1, CutExists
<1>3. Lengths(w, files, K, Int)
  <2>1. files = [k \in 1 .. K |-> files[k]]
    BY <1>0
  <2>2. files \in [1 .. K -> Seq(Int)]
    BY <2>1
  <2> QED
    BY <1>1, <2>2 DEF Lengths
<1>4. /\ F \in Seq(Int) /\ m = st[K + 1] - 1
      /\ \A k \in 1 .. K : \A i \in 1 .. Len(files[k]) : F[st[k] + i - 1] = files[k][i]
  <2>1. /\ FlattenSeq(files) \in Seq(Int) /\ Len(FlattenSeq(files)) = st[K + 1] - 1
        /\ LaidOut(FlattenSeq(files), files, st, K)
    BY <1>2, <1>3, FlattenLaidOut
  <2>2. \A k \in 1 .. K : \A i \in 1 .. Len(files[k]) :
          FlattenSeq(files)[st[k] + i - 1] = files[k][i]
    BY <2>1, Zenon DEF LaidOut
  <2> QED
    BY <2>1, <2>2
<1>5. /\ \A k \in 1 .. K + 1 : st[k] \in Nat /\ 1 <= st[k] /\ st[k] <= st[K + 1]
      /\ \A k \in 1 .. K : st[k + 1] = st[k] + Len(files[k]) /\ Len(files[k]) \in Nat
  BY <1>1, <1>2, CutBounds
<1>6. /\ O \in Seq(Positions(t)) /\ n \in Nat
      /\ \A a, b \in 1 .. n : a < b => SuffixLess(t, O[a], O[b])
      /\ \A p \in Positions(t) : \E a \in 1 .. n : O[a] = p
  BY SuffixOrderLists
<1>7. m \in Nat
  BY <1>4
<1> HIDE DEF F, O
(* An entry's place.                                                       *)
<1>8. ASSUME NEW a \in 1 .. m
      PROVE  \E k \in 1 .. K : \E i \in 1 .. Len(files[k]) : a = st[k] + i - 1 /\ F[a] = files[k][i]
  <2>1. a \in 1 .. st[K + 1] - 1
    BY <1>4
  <2>2. PICK k \in 1 .. K : a \in st[k] .. st[k + 1] - 1
    BY <1>1, <1>2, <2>1, CutCovers
  <2> DEFINE x == st[k]
             l == Len(files[k])
  <2>3. x \in Nat /\ l \in Nat /\ a \in x .. (x + l) - 1
    <3>1. k \in 1 .. K + 1
      OBVIOUS
    <3> QED
      BY <1>5, <2>2, <3>1
  <2> HIDE DEF x, l
  <2> DEFINE i == a - x + 1
  <2>4. i \in 1 .. l /\ a = x + i - 1
    BY <2>3
  <2> HIDE DEF i
  <2>5. F[x + i - 1] = files[k][i]
    BY <1>4, <2>4 DEF x, l
  <2>6. F[a] = files[k][i]
    BY <2>4, <2>5
  <2> QED
    BY <2>4, <2>6 DEF x, l
<1>9. ASSUME NEW a \in 1 .. m, NEW b \in 1 .. m, a < b
      PROVE  /\ F[a] \in Positions(t) /\ F[b] \in Positions(t)
             /\ SuffixLess(t, F[a], F[b])
  <2>1. PICK k \in 1 .. K : \E i \in 1 .. Len(files[k]) : a = st[k] + i - 1 /\ F[a] = files[k][i]
    BY <1>8
  <2>1a. PICK i \in 1 .. Len(files[k]) : a = st[k] + i - 1 /\ F[a] = files[k][i]
    BY <2>1
  <2>2. PICK l \in 1 .. K : \E j \in 1 .. Len(files[l]) : b = st[l] + j - 1 /\ F[b] = files[l][j]
    BY <1>8
  <2>2a. PICK j \in 1 .. Len(files[l]) : b = st[l] + j - 1 /\ F[b] = files[l][j]
    BY <2>2
  <2> DEFINE x == st[k]
             y == st[l]
             z == st[l + 1]
             h == Len(files[l])
  <2>3. /\ x \in Nat /\ y \in Nat /\ z = y + h /\ h \in Nat
        /\ a = x + i - 1 /\ b = y + j - 1 /\ i \in Nat /\ i >= 1 /\ j \in 1 .. h
    <3>1. k \in 1 .. K + 1 /\ l \in 1 .. K + 1
      OBVIOUS
    <3>2. x \in Nat /\ y \in Nat /\ z = y + h /\ h \in Nat
      BY <1>5, <3>1
    <3>3. i \in Nat /\ i >= 1
      BY <1>5
    <3> QED
      BY <2>1a, <2>2a, <3>2, <3>3
  <2>4. l < k => z <= x
    <3>1. k \in 1 .. K + 1
      OBVIOUS
    <3> QED
      BY <1>1, <1>2, <3>1, CutGrows
  <2>5. k = l => x = y
    OBVIOUS
  <2> HIDE DEF x, y, z, h
  <2>6. k < l \/ (k = l /\ i < j)
    BY <1>9, <2>3, <2>4, <2>5
  <2> QED
    BY <2>1a, <2>2a, <2>6 DEF Enumerates
<1>10. \A a \in 1 .. m : F[a] \in Positions(t)
  <2> SUFFICES ASSUME NEW a \in 1 .. m PROVE F[a] \in Positions(t)
    OBVIOUS
  <2>1. PICK k \in 1 .. K : \E i \in 1 .. Len(files[k]) : a = st[k] + i - 1 /\ F[a] = files[k][i]
    BY <1>8
  <2>1a. PICK i \in 1 .. Len(files[k]) : a = st[k] + i - 1 /\ F[a] = files[k][i]
    BY <2>1
  <2> QED
    BY <2>1a DEF Enumerates
<1>11. \A p \in Positions(t) : \E a \in 1 .. m : F[a] = p
  <2> SUFFICES ASSUME NEW p \in Positions(t) PROVE \E a \in 1 .. m : F[a] = p
    OBVIOUS
  <2>1. PICK k \in 1 .. K : \E i \in 1 .. Len(files[k]) : files[k][i] = p
    BY DEF Enumerates
  <2>1a. PICK i \in 1 .. Len(files[k]) : files[k][i] = p
    BY <2>1
  <2>2. F[st[k] + i - 1] = p
    BY <1>4, <2>1a
  <2>3. st[k] + i - 1 \in 1 .. m
    <3>1. k \in 1 .. K + 1 /\ k + 1 \in 1 .. K + 1
      OBVIOUS
    <3>2. st[k] \in Nat /\ 1 <= st[k] /\ st[k + 1] <= st[K + 1] /\ st[K + 1] \in Nat
      BY <1>5, <3>1
    <3> DEFINE x == st[k]
               y == st[k + 1]
               z == st[K + 1]
               h == Len(files[k])
    <3>3. /\ x \in Nat /\ 1 <= x /\ y = x + h /\ h \in Nat /\ i \in 1 .. h
          /\ y <= z /\ z \in Nat /\ m = z - 1
      BY <1>4, <1>5, <3>2
    <3> HIDE DEF x, y, z, h, m
    <3>4. x + i - 1 \in 1 .. m
      BY <3>3
    <3> QED
      BY <3>4 DEF x
  <2> QED
    BY <2>2, <2>3
<1>12. Len(t) \in Nat /\ Ranks \in SUBSET Nat
  BY PositionsType
<1>13. Lists(f, m, Ranks)
  <2>1. f \in [1 .. m -> Ranks]
    BY <1>10, SuffixRankBound
  <2>2. \A a, b \in 1 .. m : a < b => f[a] < f[b]
    BY <1>9, SuffixRankDecides
  <2>3. \A r \in Ranks : \E a \in 1 .. m : f[a] = r
    <3> SUFFICES ASSUME NEW r \in Ranks PROVE \E a \in 1 .. m : f[a] = r
      OBVIOUS
    <3>1. PICK p \in Positions(t) : SuffixRank(t, p) = r
      BY EveryRankTaken
    <3> QED
      BY <1>11, <3>1
  <2> QED
    BY <2>1, <2>2, <2>3 DEF Lists
<1>14. Lists(g, n, Ranks)
  <2>0. \A a \in 1 .. n : O[a] \in Positions(t)
    BY <1>6
  <2>1. g \in [1 .. n -> Ranks]
    BY <2>0, SuffixRankBound
  <2>2. \A a, b \in 1 .. n : a < b => g[a] < g[b]
    BY <1>6, <2>0, SuffixRankDecides
  <2>3. \A r \in Ranks : \E a \in 1 .. n : g[a] = r
    <3> SUFFICES ASSUME NEW r \in Ranks PROVE \E a \in 1 .. n : g[a] = r
      OBVIOUS
    <3>1. PICK p \in Positions(t) : SuffixRank(t, p) = r
      BY EveryRankTaken
    <3> QED
      BY <1>6, <3>1
  <2> QED
    BY <2>1, <2>2, <2>3 DEF Lists
<1> HIDE DEF Ranks
<1>15. m = n /\ f = g
  <2> HIDE DEF f, g
  <2> QED
    BY <1>6, <1>7, <1>12, <1>13, <1>14, AscendingUnique
<1>16. \A a \in 1 .. m : F[a] = O[a]
  <2> SUFFICES ASSUME NEW a \in 1 .. m PROVE F[a] = O[a]
    OBVIOUS
  <2>1. F[a] \in Positions(t) /\ O[a] \in Positions(t)
    BY <1>6, <1>10, <1>15
  <2>2. f[a] = SuffixRank(t, F[a]) /\ g[a] = SuffixRank(t, O[a])
    BY <1>15
  <2> HIDE DEF f, g
  <2>3. SuffixRank(t, F[a]) = SuffixRank(t, O[a])
    BY <1>15, <2>2
  <2> QED
    BY <2>1, <2>3, SuffixRankDecides
<1>17. O \in Seq(Int)
  <2>1. \A p \in Positions(t) : p \in Int
    BY PositionsType
  <2> QED
    BY <1>6, <2>1
<1>18. F = O
  BY <1>4, <1>15, <1>16, <1>17, SameElements
<1> QED
  BY <1>18 DEF F, O

-----------------------------------------------------------------------------
(* Ranks that a run without faults leaves are partitioned.                 *)
LEMMA FinalRanksPartitioned ==
  ASSUME NEW t \in CodedText, NEW S \in Nat \ {0}, NEW F, F = FinalRankFiles(t, S),
         NEW c \in 0 .. Len(F) - 1, NEW stream_then, stream_then = c * S
  PROVE  ~ PartitionFails(t, S, F, stream_then, c)
<1> DEFINE l == ChunkLength(t, S, c)
           R == ReadRanks(S, F[c + 1])
<1>2. Len(t) \in Nat
  BY PositionsType
<1>3. Whole(t, S, F) /\ Len(F) = Len(t) \div S + 1
  BY FinalRanksShape, FinalRanksWhole
<1>4. Len(t) \div S \in Nat
  BY <1>2, Division
<1>5. c \in 0 .. Len(t) \div S /\ c \in Nat
  BY <1>3, <1>4
<1>6. stream_then = c * S
  OBVIOUS
<1>7. /\ R = F[c + 1] /\ Len(R) = l /\ DOMAIN R = 1 .. l /\ l \in 1 .. S
      /\ \A i \in 1 .. l :
           c * S + i - 1 \in Positions(t) /\ R[i] = SuffixRank(t, c * S + i - 1)
  <2>1. l \in 1 .. S
    BY <1>5, ChunkCounted
  <2>2. \A d \in 0 .. Len(t) \div S :
              /\ Len(F[d + 1]) = ChunkLength(t, S, d)
              /\ ReadRanks(S, F[d + 1]) = F[d + 1]
              /\ DOMAIN F[d + 1] = 1 .. ChunkLength(t, S, d)
              /\ \A i \in 1 .. ChunkLength(t, S, d) :
                   /\ d * S + i - 1 \in Positions(t)
                   /\ F[d + 1][i] = SuffixRank(t, d * S + i - 1)
    <3>1. t \in CodedText /\ S \in Nat \ {0} /\ F = FinalRankFiles(t, S)
      OBVIOUS
    <3> HIDE DEF l, R
    <3> QED
      BY <3>1, FinalRanksShape, SMTT(60)
  <2>3.  /\ Len(F[c + 1]) = l
         /\ R = F[c + 1]
         /\ DOMAIN F[c + 1] = 1 .. l
         /\ \A i \in 1 .. l :
                   /\ c * S + i - 1 \in Positions(t)
                   /\ F[c + 1][i] = SuffixRank(t, c * S + i - 1)
    BY <1>5, <2>2, Zenon
  <2> QED
    BY <2>1, <2>3
<1>8. ~ (c + 1 < Len(F) /\ F[c + 2] = <<>>)
  <2>1. SUFFICES ASSUME c + 1 < Len(F) PROVE F[c + 2] # <<>>
    OBVIOUS
  <2>2. c + 2 \in 2 .. Len(F)
    BY <1>4, <1>3, <1>5, <2>1
  <2> QED
    BY <1>3, <2>2 DEF Whole
<1>9. ~ (stream_then + Len(R) > Len(t) + 1)
  <2> DEFINE a == c * S
             n == Len(t)
             m == Len(R)
  <2>1. a \in Nat /\ m \in Nat /\ a + m - 1 \in 0 .. n
    <3>1. a \in Nat /\ l \in 1 .. l
      BY <1>2, <1>5, <1>7
    <3>2. a + l - 1 \in Positions(t)
      BY <1>7, <3>1
    <3>3. Positions(t) = 0 .. n
      BY <1>2, PositionsType
    <3>4. m = l /\ l \in Nat
      BY <1>7
    <3> HIDE DEF m, l, a, n
    <3> QED
      BY <3>1, <3>2, <3>3, <3>4
  <2>2. stream_then = a /\ n \in Nat
    BY <1>2, <1>6
  <2> HIDE DEF a, n, m
  <2>3. ~ (stream_then + m > n + 1)
    BY <2>1, <2>2
  <2> QED
    BY <2>3 DEF n, m
<1>10. ASSUME NEW i \in DOMAIN R PROVE ~ (R[i] \div S >= Len(F))
  <2> DEFINE x == R[i]
             n == Len(t)
  <2>1. i \in 1 .. l
    BY <1>7
  <2>2. c * S + i - 1 \in Positions(t) /\ x = SuffixRank(t, c * S + i - 1)
    BY <1>7, <2>1
  <2>3. x \in 0 .. n /\ n \in Nat
    BY <1>2, <2>2, SuffixRankBound
  <2> HIDE DEF x
  <2>4. x \div S <= n \div S
    BY <1>2, <2>3, QuotientMonotonic
  <2>5. x \div S \in Nat
    <3>1. x \in Nat
      BY <2>3
    <3> QED
      BY <1>2, <3>1, Division
  <2> DEFINE y == x \div S
             z == n \div S
  <2>6. y \in Nat /\ z \in Nat /\ y <= z /\ Len(F) = z + 1
    BY <1>3, <1>4, <2>4, <2>5
  <2> HIDE DEF y, z
  <2>7. ~ (y >= Len(F))
    BY <2>6
  <2> QED
    BY <2>7 DEF x, y
<1>11. PartitionFails(t, S, F, stream_then, c) =
         (\/ c + 1 < Len(F) /\ F[c + 2] = <<>>
          \/ stream_then + Len(R) > Len(t) + 1
          \/ \E i \in DOMAIN R : R[i] \div S >= Len(F))
  BY DEF PartitionFails
<1> HIDE DEF R
<1> QED
  BY <1>8, <1>9, <1>10, <1>11


(* The last record of chunks of ranks up to c is of a rank in these.       *)
LEMMA LastOfChunks ==
  ASSUME NEW t \in CodedText, NEW S \in Nat \ {0}, NEW R, R = FinalRankFiles(t, S),
         NEW filed, \A j \in 1 .. Len(R) : filed[j] = RecordsIn(t, S, R, j),
         NEW c \in 0 .. Len(R) - 1, NEW before, Sorted(S, filed, c, before)
  PROVE  CarriesSmaller(t, S, R, c + 1, before)
<1> DEFINE At(p) == PositionRecord(t, S, R, p)
           rank(p) == SuffixRank(t, p)
<1>1. /\ Len(R) \in Nat /\ c \in Nat /\ c + 1 - 1 = c
      /\ \A p \in Positions(t) : RankAt(t, S, R)[p] = rank(p)
  BY FinalRanksWhole DEF Whole, Files
<1>2. ASSUME before # <<>>
      PROVE  \E q \in Positions(t) : before[1] = At(q) /\ rank(q) < c * S
  <2>1. before[1] \in Checked(filed, c)
    BY <1>2 DEF Sorted
  <2>2. PICK j \in 1 .. c : before[1] \in filed[j]
    BY <2>1 DEF Checked
  <2>3. j \in 1 .. Len(R) /\ j - 1 \in Nat /\ j - 1 < c
    BY <1>1
  <2>4. before[1] \in RecordsIn(t, S, R, j)
    BY <2>2, <2>3
  <2>5. before[1].target = j - 1 /\ \E q \in Positions(t) : before[1] = At(q)
    BY <2>4 DEF RecordsIn
  <2>6. PICK q \in Positions(t) : before[1] = At(q)
    BY <2>5
  <2>7. At(q).target = rank(q) \div S
    BY <1>1 DEF PositionRecord
  <2>8. rank(q) \in Nat
    BY SuffixRankBound
  <2> DEFINE x == rank(q)
             i == x % S
  <2>9. x \div S = j - 1
    BY <2>5, <2>6, <2>7
  <2> HIDE DEF x
  <2>10. x = (j - 1) * S + i /\ i \in 0 .. S - 1
    BY <2>8, <2>9, Division DEF x
  <2> HIDE DEF i
  <2>11. (j - 1) * S + i < c * S + 0
    BY <1>1, <2>3, <2>10, ChunkFirst
  <2>12. rank(q) < c * S
    <3> DEFINE b == c * S
    <3>1. b \in Nat /\ (j - 1) * S + i < b + 0
      BY <1>1, <2>11
    <3> HIDE DEF b
    <3>2. x < b
      BY <2>10, <3>1
    <3> QED
      BY <3>2 DEF x, b
  <2> QED
    BY <2>6, <2>12
<1> QED
  BY <1>1, <1>2 DEF CarriesSmaller

-----------------------------------------------------------------------------
(* verify's verdict on a suffix array's files, of ranks of whatever kind.  *)
LEMMA AcceptedWhole ==
  ASSUME NEW t \in CodedText, NEW S \in Nat \ {0}, NEW R \in Files, Full(S, R),
         NEW files \in [1 .. Len(R) -> Seq(Int)], Accepts(t, S, R, files)
  PROVE  FlattenSeq(files) = InSuffixOrder(t, Positions(t))
<1> DEFINE K == Len(R)
           filed == Filing(t, S, R)
<1>1. K \in Nat
  BY DEF Files
<1>2. /\ \A c \in 0 .. K - 1 : ~ PartitionFails(t, S, R, SymbolsRead(S, R, c), c)
      /\ SymbolsRead(S, R, K) = Len(t) + 1
      /\ \A k \in 1 .. K : PassesAt(S, files, filed, k)
  BY AcceptsStepwise DEF Filing
<1>3. /\ Whole(t, S, R)
      /\ WellFiled(S, filed, K)
      /\ \A k \in 1 .. K : filed[k] = {r \in AllRecords(t, S, R, K) : r.target = k - 1}
      /\ \A r \in AllRecords(t, S, R, K) : r.target < K
  BY <1>2, PartitionedWhole
<1> HIDE DEF filed
<1> DEFINE T == {c \in Nat : c <= K =>
                   Steady(S, filed, c) /\ \A k \in 1 .. c : Matches(files[k], filed[k])}
<1>4. 0 \in T
  BY SteadyStart
<1>5. ASSUME NEW c \in Nat, c \in T PROVE c + 1 \in T
  <2>1. SUFFICES ASSUME c + 1 <= K
                 PROVE  Steady(S, filed, c + 1) /\ \A k \in 1 .. c + 1 : Matches(files[k], filed[k])
    OBVIOUS
  <2>2. c \in 0 .. K - 1 /\ c <= K /\ c + 1 \in 1 .. K
    BY <1>1, <2>1
  <2>3. Steady(S, filed, c) /\ \A k \in 1 .. c : Matches(files[k], filed[k])
    BY <1>5, <2>2
  <2>4. files[c + 1] \in Seq(Int) /\ PassesAt(S, files, filed, c + 1)
    BY <1>2, <2>2
  <2>5. Steady(S, filed, c + 1) /\ Matches(files[c + 1], filed[c + 1])
    BY <1>1, <1>3, <2>2, <2>3, <2>4, SteadyStep
  <2>6. \A k \in 1 .. c + 1 : k \in 1 .. c \/ k = c + 1
    OBVIOUS
  <2> QED
    BY <2>3, <2>5, <2>6
<1> HIDE DEF T
<1>6. Nat \subseteq T
  BY <1>4, <1>5, Induction
<1>7. Steady(S, filed, K) /\ \A k \in 1 .. K : Matches(files[k], filed[k])
  BY <1>1, <1>6 DEF T
<1>8. Sorted(S, filed, K, CarryAt(filed, K))
  BY <1>7 DEF Steady
<1>9. Enumerates(t, files, K)
  <2>1. \A k \in 1 .. K : files[k] \in Seq(Int) /\ Matches(files[k], filed[k])
    BY <1>7
  <2> HIDE DEF K
  <2> QED
    BY <1>1, <1>3, <1>8, <2>1, MatchedFilesSort DEF K
<1> QED
  BY <1>1, <1>9, FilesFlattened

(* Its verdict on the files that a run without faults leaves.              *)
LEMMA FinalFilesAccepted ==
  ASSUME NEW t \in CodedText, NEW S \in Nat \ {0}, NEW R, R = FinalRankFiles(t, S),
         NEW files \in [1 .. Len(R) -> Seq(Int)],
         \A k \in 1 .. Len(R) : files[k] = FinalFile(t, S, Len(R[k]), k)
  PROVE  Accepts(t, S, R, files)
<1> DEFINE K == Len(R)
           filed == Filing(t, S, R)
<1>1. K \in Nat /\ R \in Files
  BY FinalRanksShape DEF Files
<1>2. Whole(t, S, R) /\ Full(S, R)
  BY FinalRanksWhole DEF Whole, Full
<1>3. \A c \in 0 .. K : SymbolsRead(S, R, c) = StreamAfter(S, R, c)
  BY <1>1, <1>2, SymbolsOfFull
<1>4. SymbolsRead(S, R, K) = Len(t) + 1
  BY <1>1, <1>2, <1>3 DEF Whole
<1>5. ASSUME NEW c \in 0 .. K - 1 PROVE ~ PartitionFails(t, S, R, SymbolsRead(S, R, c), c)
  <2>1. c \in 0 .. K
    BY <1>1
  <2>2. SymbolsRead(S, R, c) = c * S
    BY <1>1, <1>2, <1>3, <2>1, StreamAtChunk DEF Full
  <2> QED
    BY <2>2, FinalRanksPartitioned
<1>6. /\ WellFiled(S, filed, K)
      /\ \A k \in 1 .. K : filed[k] = {r \in AllRecords(t, S, R, K) : r.target = k - 1}
  BY <1>1, <1>2, <1>4, <1>5, PartitionedWhole
<1> HIDE DEF filed
<1>7. \A k \in 1 .. K : filed[k] = RecordsIn(t, S, R, k)
  <2>1. AllRecords(t, S, R, K) = {PositionRecord(t, S, R, p) : p \in Positions(t)}
    BY <1>1, <1>2, RecordsOfPositions
  <2> QED
    BY <1>6, <2>1 DEF RecordsIn
<1> DEFINE T == {c \in Nat : c <= K =>
                   Steady(S, filed, c) /\ \A k \in 1 .. c : PassesAt(S, files, filed, k)}
<1>8. 0 \in T
  BY SteadyStart
<1>9. ASSUME NEW c \in Nat, c \in T PROVE c + 1 \in T
  <2>1. SUFFICES ASSUME c + 1 <= K
                 PROVE  /\ Steady(S, filed, c + 1)
                        /\ \A k \in 1 .. c + 1 : PassesAt(S, files, filed, k)
    OBVIOUS
  <2>2. c \in 0 .. K - 1 /\ c <= K /\ c + 1 \in 1 .. K /\ (c + 1) - 1 = c
    BY <1>1, <2>1
  <2>3. Steady(S, filed, c) /\ \A k \in 1 .. c : PassesAt(S, files, filed, k)
    BY <1>9, <2>2
  <2> DEFINE k == c + 1
             before == CarryAt(filed, c)
             records == filed[k]
             file == files[k]
  <2>4. /\ before \in Seq(Record) /\ Len(before) <= 1
        /\ Sorted(S, filed, c, before)
    BY <2>3 DEF Steady
  <2>5. CarriesSmaller(t, S, R, k, before)
    <3> HIDE DEF before
    <3> QED
      BY <1>7, <2>2, <2>4, LastOfChunks
  <2>6. records = RecordsIn(t, S, R, k) /\ file = FinalFile(t, S, Len(R[k]), k) /\ k \in 1 .. Len(R)
    BY <1>7, <2>2
  <2>7. Fits(S, file, records) /\ InOrder(file, InSlotOrder(records), before)
    <3> HIDE DEF before, records, file, k
    <3> QED
      BY <2>4, <2>5, <2>6, FinalChunkPasses
  <2>8. PassesAt(S, files, filed, c + 1)
    BY <2>2, <2>7 DEF PassesAt
  <2>9. files[c + 1] \in Seq(Int)
    BY <2>2
  <2>10. Steady(S, filed, c + 1)
    BY <1>1, <1>6, <2>2, <2>3, <2>8, <2>9, SteadyStep
  <2>11. \A j \in 1 .. c + 1 : j \in 1 .. c \/ j = c + 1
    OBVIOUS
  <2> QED
    BY <2>3, <2>8, <2>10, <2>11
<1> HIDE DEF T
<1>10. Nat \subseteq T
  BY <1>8, <1>9, Induction
<1>11. \A k \in 1 .. K : PassesAt(S, files, filed, k)
  BY <1>1, <1>10 DEF T
<1>12. filed = [k \in 1 .. Len(R) |-> {r \in Filed(t, S, R, Len(R)) : r.target = k - 1}]
  BY DEF filed, Filing
<1> QED
  BY <1>1, <1>4, <1>5, <1>11, <1>12, AcceptsStepwise
=============================================================================
