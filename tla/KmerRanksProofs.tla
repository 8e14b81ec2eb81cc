--------------------------- MODULE KmerRanksProofs ---------------------------
(***************************************************************************)
(* What init's passes over the input leave behind, on any input of bytes   *)
(* and with any budget that the counter k can hold.                        *)
(* First the rolling key, at which init writes to its histogram without a  *)
(* look at it: it is the value of the window's codes as digits to the base *)
(* B, and taking out the digit that leaves keeps it so.  Then what the key *)
(* says of the text: the ring holds the last k symbols fed (HoldsLast), so *)
(* the key of a position orders it as its prefix of k symbols does; the    *)
(* histogram counts keys, its cumulative sum the smaller ones, and 1 more  *)
(* than that is the rank (StartOfBucket).  Last the chunk files, which hold*)
(* what was appended, cut every chunk_size values (IsCut, IsClosed).       *)
(***************************************************************************)
EXTENDS KmerRanks, RunStreamTheorems

(* The powers of a base, without an operator for them: P[j] is base^j.     *)
IsPowers(base, n, P) ==
  /\ P \in [0 .. n -> Nat \ {0}]
  /\ P[0] = 1
  /\ \A j \in 0 .. n - 1 : P[j + 1] = P[j] * base

(* value[j] is the number that the oldest j digits of a ring of n make,    *)
(* the oldest one being in the slot that is written next.                  *)
IsValue(base, n, ring, p, value) ==
  /\ value \in [0 .. n -> Int]
  /\ value[0] = 0
  /\ \A j \in 0 .. n - 1 : value[j + 1] = value[j] * base + ring[(p + j) % n]

Rings(base, n) == [0 .. n - 1 -> 0 .. base - 1]

(* The number that n digits make is below the base's n-th power.           *)
LEMMA ValueBelowPower ==
  ASSUME NEW b \in Nat \ {0}, NEW n \in Nat \ {0},
         NEW P, IsPowers(b, n, P),
         NEW ring \in Rings(b, n), NEW p \in Nat,
         NEW f, IsValue(b, n, ring, p, f)
  PROVE  f[n] \in 0 .. P[n] - 1
<1> DEFINE T == {j \in 0 .. n : ~ (f[j] \in 0 .. P[j] - 1)}
<1>1. SUFFICES ASSUME ~ (f[n] \in 0 .. P[n] - 1) PROVE FALSE
  OBVIOUS
<1>2. T # {} /\ T \subseteq Nat
  BY <1>1
<1> HIDE DEF T
<1>3. PICK j \in T : \A e \in T : ~ (<<e, j>> \in OpToRel(<, Nat))
  BY <1>2, WFMin, NatLessThanWellFounded
<1>4. \A e \in T : ~ (e < j)
  BY <1>2, <1>3 DEF OpToRel
<1>5. j \in 0 .. n /\ ~ (f[j] \in 0 .. P[j] - 1)
  BY DEF T
<1>6. f[0] = 0 /\ P[0] = 1
  BY DEF IsValue, IsPowers
<1>7. j # 0
  BY <1>5, <1>6
<1>8. PICK i \in 0 .. n - 1 : i < j /\ j = i + 1
  <2>1. j - 1 \in 0 .. n - 1 /\ j - 1 < j /\ j = (j - 1) + 1
    BY <1>5, <1>7
  <2> QED
    BY <2>1
<1> DEFINE d == ring[(p + i) % n]
           x == f[i]
           y == P[i]
<1>9. x \in 0 .. y - 1 /\ y \in Nat
  <2>1. i \in 0 .. n
    BY <1>8
  <2> QED
    BY <1>4, <1>8, <2>1 DEF T, IsPowers
<1>10. d \in 0 .. b - 1
  <2>1. p + i \in Nat
    BY <1>8
  <2>2. (p + i) % n \in 0 .. n - 1
    BY <2>1, Division
  <2> QED
    BY <2>2 DEF Rings
<1>11. f[j] = x * b + d /\ P[j] = y * b
  BY <1>8 DEF IsValue, IsPowers
<1> HIDE DEF d, x, y
<1>12. x * b + d < y * b + 0
  BY <1>9, <1>10, ChunkFirst
<1>13. x * b + d \in Nat /\ y * b \in Nat
  <2>1. x * b \in Nat
    BY <1>9
  <2> QED
    BY <1>9, <1>10, <2>1
<1> DEFINE s == x * b + d
           t == y * b
<1>14. s \in Nat /\ t \in Nat /\ s < t + 0 /\ f[j] = s /\ P[j] = t
  BY <1>11, <1>12, <1>13
<1> HIDE DEF s, t
<1> QED
  BY <1>5, <1>14

(* A digit enters the ring, and the oldest one leaves it and the value.    *)
LEMMA FeedKeepsValue ==
  ASSUME NEW b \in Nat \ {0}, NEW n \in Nat \ {0},
         NEW P, IsPowers(b, n, P),
         NEW ring \in Rings(b, n), NEW p \in Nat, NEW e \in 0 .. b - 1,
         NEW f, IsValue(b, n, ring, p, f)
  PROVE  LET old == ring[p % n]
             fed == [ring EXCEPT ![p % n] = e]
         IN  /\ fed \in Rings(b, n)
             /\ \E g : /\ IsValue(b, n, fed, p + 1, g)
                       /\ g[n] = (f[n] - old * (P[n] \div b)) * b + e
<1> DEFINE slot == p % n
           old == ring[slot]
           fed == [ring EXCEPT ![slot] = e]
           m == n - 1
           g == [j \in 0 .. n |-> IF j = n THEN (f[n] - old * P[m]) * b + e
                                  ELSE f[j + 1] - old * P[j]]
<1>1. slot \in 0 .. n - 1 /\ old \in 0 .. b - 1 /\ fed \in Rings(b, n)
  <2>1. slot \in 0 .. n - 1
    BY Division
  <2> HIDE DEF slot
  <2> QED
    BY <2>1 DEF Rings
<1>2. /\ m \in 0 .. n - 1 /\ m \in Nat /\ m + 1 = n
      /\ \A j \in 0 .. n : P[j] \in Nat /\ f[j] \in Int
      /\ b \in Nat /\ old \in Nat /\ e \in Nat
  <2>1. m \in 0 .. n - 1 /\ m \in Nat /\ m + 1 = n
    OBVIOUS
  <2>2. \A j \in 0 .. n : P[j] \in Nat /\ f[j] \in Int
    BY DEF IsPowers, IsValue
  <2>3. b \in Nat /\ old \in Nat /\ e \in Nat
    <3> HIDE DEF old
    <3> QED
      BY <1>1
  <2> QED
    BY <2>1, <2>2, <2>3
<1>3. P[n] \div b = P[m]
  <2> DEFINE y == P[m]
  <2>1. P[n] = y * b /\ y \in Nat
    BY <1>2 DEF IsPowers
  <2> HIDE DEF y
  <2>2. 0 \in 0 .. b - 1 /\ y * b + 0 = y * b
    BY <2>1
  <2>3. (y * b + 0) \div b = y
    BY <2>1, <2>2, DivisionUnique
  <2> QED
    BY <2>1, <2>2, <2>3 DEF y
<1>4. \A j \in 0 .. n - 1 : fed[((p + 1) + j) % n] =
                              IF j = m THEN e ELSE ring[(p + (j + 1)) % n]
  <2>1. SUFFICES ASSUME NEW j \in 0 .. n - 1
                 PROVE  fed[((p + 1) + j) % n] = IF j = m THEN e ELSE ring[(p + (j + 1)) % n]
    OBVIOUS
  <2>2. (p + 1) + j = p + (j + 1) /\ p + (j + 1) \in Nat
    BY <2>1
  <2>3. (p + (j + 1)) % n \in 0 .. n - 1
    BY <2>2, Division
  <2>4. CASE j = m
    <3>1. p + (j + 1) = p + n
      BY <1>2, <2>4
    <3>2. (p + n) % n = slot
      BY NextRound
    <3> QED
      BY <1>1, <2>2, <2>4, <3>1, <3>2 DEF Rings
  <2>5. CASE j # m
    <3>1. j + 1 \in 1 .. n - 1
      BY <1>2, <2>1, <2>5
    <3>2. (p + (j + 1)) % n # slot
      BY <3>1, OtherSlot
    <3> HIDE DEF slot
    <3> QED
      BY <1>1, <2>2, <2>3, <2>5, <3>2 DEF Rings
  <2> QED
    BY <2>4, <2>5
<1>5. g \in [0 .. n -> Int]
  <2>1. ASSUME NEW j \in 0 .. n, j # n
        PROVE  f[j + 1] - old * P[j] \in Int
    <3>1. j + 1 \in 0 .. n
      BY <2>1
    <3>2. f[j + 1] \in Int /\ P[j] \in Nat
      BY <1>2, <3>1
    <3>3. old * P[j] \in Int
      BY <1>2, <3>2
    <3> QED
      BY <3>2, <3>3
  <2>2. (f[n] - old * P[m]) * b + e \in Int
    <3>1. f[n] \in Int /\ P[m] \in Nat
      BY <1>2
    <3>2. old * P[m] \in Int
      BY <1>2, <3>1
    <3> DEFINE x == f[n] - old * P[m]
    <3>3. x \in Int
      BY <3>1, <3>2
    <3> HIDE DEF x
    <3>4. x * b + e \in Int
      BY <1>2, <3>3
    <3> QED
      BY <3>4 DEF x
  <2> HIDE DEF old, m
  <2> QED
    BY <2>1, <2>2
<1>6. g[0] = 0
  <2>1. f[1] = f[0] * b + ring[(p + 0) % n] /\ f[0] = 0 /\ P[0] = 1
    <3>1. 0 \in 0 .. n - 1 /\ 0 + 1 = 1
      BY <1>2
    <3> QED
      BY <3>1 DEF IsValue, IsPowers
  <2>2. f[1] = old
    BY <1>2, <2>1
  <2>3. g[0] = f[1] - old * P[0]
    BY <1>2
  <2> HIDE DEF old, g
  <2> QED
    BY <1>2, <2>1, <2>2, <2>3
<1>7. ASSUME NEW j \in 0 .. n - 1
      PROVE  g[j + 1] = g[j] * b + fed[((p + 1) + j) % n]
  <2>1. j \in 0 .. n /\ j # n /\ j + 1 \in 0 .. n
    BY <1>7
  <2>2. g[j] = f[j + 1] - old * P[j]
    BY <2>1
  <2>3. CASE j = m
    <3>1. j + 1 = n
      BY <1>2, <2>3
    <3>2. g[j + 1] = (f[n] - old * P[m]) * b + e
      BY <2>1, <3>1
    <3>3. fed[((p + 1) + j) % n] = e
      BY <1>4, <1>7, <2>3
    <3> HIDE DEF g, old, fed, m
    <3> QED
      BY <2>2, <2>3, <3>1, <3>2, <3>3
  <2>4. CASE j # m
    <3>1. j + 1 # n /\ j + 1 \in 0 .. n - 1
      BY <1>2, <1>7, <2>4
    <3>2. g[j + 1] = f[(j + 1) + 1] - old * P[j + 1]
      BY <2>1, <3>1
    <3> DEFINE r == ring[(p + (j + 1)) % n]
               x == f[j + 1]
               y == P[j]
    <3>3. fed[((p + 1) + j) % n] = r
      BY <1>4, <1>7, <2>4
    <3>4. f[(j + 1) + 1] = x * b + r
      BY <3>1 DEF IsValue
    <3>5. P[j + 1] = y * b
      BY <1>7 DEF IsPowers
    <3>6. r \in Nat
      <4>1. p + (j + 1) \in Nat
        BY <1>7
      <4>2. (p + (j + 1)) % n \in 0 .. n - 1
        BY <4>1, Division
      <4> QED
        BY <4>2 DEF Rings
    <3>7. x \in Int /\ y \in Nat
      BY <1>2, <2>1
    <3> HIDE DEF g, old, fed, m, r, x, y
    <3>8. (x * b + r) - old * (y * b) = (x - old * y) * b + r
      BY <1>2, <3>6, <3>7
    <3> QED
      BY <2>2, <3>2, <3>3, <3>4, <3>5, <3>8 DEF x, y
  <2> QED
    BY <2>3, <2>4
<1>8. g[n] = (f[n] - old * (P[n] \div b)) * b + e
  <2>1. g[n] = (f[n] - old * P[m]) * b + e
    BY <1>2
  <2> QED
    BY <1>3, <2>1
<1>9. IsValue(b, n, fed, p + 1, g)
  <2> HIDE DEF g, fed
  <2> QED
    BY <1>5, <1>6, <1>7 DEF IsValue
<1> HIDE DEF g
<1> QED
  BY <1>1, <1>8, <1>9

-----------------------------------------------------------------------------
(* The dense codes, 0 for the sentinel, are digits to the base B.          *)
LEMMA CodesAreDigits ==
  ASSUME input \in Seq(0 .. 255)
  PROVE  /\ Cardinality(Range(input)) \in Nat
         /\ \A byte \in Range(input) : DenseCode(byte) \in 1 .. Cardinality(Range(input))
<1> DEFINE R == Range(input)
<1>1. IsFiniteSet(R) /\ R \subseteq 0 .. 255
  <2>1. R \subseteq 0 .. 255
    <3> DEFINE Bytes == 0 .. 255
    <3>1. input \in Seq(Bytes)
      OBVIOUS
    <3> HIDE DEF Bytes
    <3>2. DOMAIN input = 1 .. Len(input) /\ \A i \in 1 .. Len(input) : input[i] \in Bytes
      BY <3>1
    <3>3. Range(input) \subseteq Bytes
      BY <3>2 DEF Range
    <3> QED
      BY <3>3 DEF Bytes
  <2>2. IsFiniteSet(0 .. 255)
    <3> DEFINE top == 255
    <3>1. top \in Int /\ 0 \in Int
      OBVIOUS
    <3> HIDE DEF top
    <3>2. IsFiniteSet(0 .. top)
      BY <3>1, FS_Interval
    <3> QED
      BY <3>2 DEF top
  <2> QED
    BY <2>1, <2>2, FS_Subset
<1>2. Cardinality(R) \in Nat
  BY <1>1, FS_CardinalityType
<1>3. ASSUME NEW byte \in R
      PROVE  DenseCode(byte) \in 1 .. Cardinality(R)
  <2> DEFINE smaller == {x \in R : x < byte}
  <2>1. smaller \subseteq R /\ smaller # R
    <3>1. byte \in Int /\ ~ (byte < byte)
      <4> HIDE DEF R
      <4>1. byte \in 0 .. 255
        BY <1>1, <1>3
      <4> QED
        BY <4>1
    <3>2. byte \in R /\ byte \notin smaller
      BY <1>3, <3>1
    <3>3. smaller \subseteq R
      OBVIOUS
    <3> HIDE DEF R, smaller
    <3> QED
      BY <3>2, <3>3
  <2>2. DenseCode(byte) = 1 + Cardinality(smaller)
    BY DEF DenseCode
  <2> HIDE DEF smaller, R
  <2>3. /\ IsFiniteSet(smaller) /\ Cardinality(smaller) <= Cardinality(R)
        /\ Cardinality(smaller) # Cardinality(R)
    BY <1>1, <2>1, FS_Subset
  <2>4. Cardinality(smaller) \in Nat
    BY <2>3, FS_CardinalityType
  <2> QED
    BY <1>2, <2>2, <2>3, <2>4
<1> QED
  BY <1>2, <1>3

(* A window's key is the value of the codes in its ring.                   *)
IsWindow(win, base, n) ==
  /\ win.ring \in Rings(base, n) /\ win.p \in Nat
  /\ \E value : IsValue(base, n, win.ring, win.p, value) /\ value[n] = win.key

(* The size of the histogram is a power of the base.                       *)
IsPower(base, n, size) ==
  \E P : IsPowers(base, n, P) /\ P[n] = size

LEMMA WindowKey ==
  ASSUME NEW b \in Nat \ {0}, NEW n \in Nat \ {0}, NEW size, IsPower(b, n, size),
         NEW win, IsWindow(win, b, n)
  PROVE  win.key \in 0 .. size - 1
<1>1. PICK P : IsPowers(b, n, P) /\ P[n] = size
  BY DEF IsPower
<1>2. PICK f : IsValue(b, n, win.ring, win.p, f) /\ f[n] = win.key
  BY DEF IsWindow
<1>3. win.ring \in Rings(b, n) /\ win.p \in Nat
  BY DEF IsWindow
<1>4. f[n] \in 0 .. P[n] - 1
  BY <1>1, <1>2, <1>3, ValueBelowPower
<1> QED
  BY <1>1, <1>2, <1>4

LEMMA ResetIsWindow ==
  ASSUME NEW b \in Nat \ {0}, NEW n \in Nat \ {0}
  PROVE  IsWindow(KWinReset(n), b, n)
<1> DEFINE win == KWinReset(n)
           zeros == [j \in 0 .. n |-> 0]
<1>1. win.ring = [i \in 0 .. n - 1 |-> 0] /\ win.p = 0 /\ win.key = 0
  BY DEF KWinReset
<1> HIDE DEF win
<1>2. win.ring \in Rings(b, n)
  BY <1>1 DEF Rings
<1>3. ASSUME NEW j \in 0 .. n - 1
      PROVE  win.ring[(win.p + j) % n] = 0
  <2>1. 0 + j \in Nat
    BY <1>3
  <2>2. (0 + j) % n \in 0 .. n - 1
    BY <2>1, Division
  <2> QED
    BY <1>1, <2>2
<1>4. IsValue(b, n, win.ring, win.p, zeros)
  BY <1>3 DEF IsValue
<1>5. zeros[n] = win.key
  BY <1>1
<1> HIDE DEF zeros
<1>6. IsWindow(win, b, n)
  BY <1>1, <1>2, <1>4, <1>5 DEF IsWindow
<1> QED
  BY <1>6 DEF win

LEMMA FedIsWindow ==
  ASSUME B \in Nat \ {0}, k \in Nat \ {0}, IsPower(B, k, hist_size),
         NEW win, IsWindow(win, B, k), NEW e \in 0 .. B - 1
  PROVE  IsWindow(KWinFeed(win, e), B, k)
<1>1. PICK P : IsPowers(B, k, P) /\ P[k] = hist_size
  BY DEF IsPower
<1>2. PICK f : IsValue(B, k, win.ring, win.p, f) /\ f[k] = win.key
  BY DEF IsWindow
<1>3. win.ring \in Rings(B, k) /\ win.p \in Nat
  BY DEF IsWindow
<1> DEFINE old == win.ring[win.p % k]
           fed == [win.ring EXCEPT ![win.p % k] = e]
           after == KWinFeed(win, e)
<1>4. /\ fed \in Rings(B, k)
      /\ \E g : /\ IsValue(B, k, fed, win.p + 1, g)
                /\ g[k] = (f[k] - old * (P[k] \div B)) * B + e
  BY <1>1, <1>2, <1>3, FeedKeepsValue
<1>5. /\ after.ring = fed /\ after.p = win.p + 1
      /\ after.key = (win.key - old * (hist_size \div B)) * B + e
  BY DEF KWinFeed
<1> HIDE DEF fed, after, old
<1>6. IsWindow(after, B, k)
  BY <1>1, <1>2, <1>3, <1>4, <1>5 DEF IsWindow
<1> QED
  BY <1>6 DEF after

-----------------------------------------------------------------------------
(* The search for k.                                                       *)
LEMMA NextPower ==
  ASSUME NEW b \in Nat \ {0}, NEW n \in Nat, NEW size, IsPower(b, n, size)
  PROVE  IsPower(b, n + 1, size * b)
<1>1. PICK P : IsPowers(b, n, P) /\ P[n] = size
  BY DEF IsPower
<1> DEFINE y == size * b
           Q == [j \in 0 .. n + 1 |-> IF j = n + 1 THEN y ELSE P[j]]
<1>2. /\ P \in [0 .. n -> Nat \ {0}] /\ P[0] = 1
      /\ \A j \in 0 .. n - 1 : P[j + 1] = P[j] * b
  BY <1>1 DEF IsPowers
<1>3. size \in Nat \ {0}
  BY <1>1, <1>2
<1>4. y \in Nat \ {0}
  <2>1. y \in Nat
    BY <1>3
  <2>2. 0 * b + 0 < size * b + 0
    BY <1>3, ChunkFirst
  <2> HIDE DEF y
  <2>3. 0 < y
    BY <2>1, <2>2 DEF y
  <2> QED
    BY <2>1, <2>3
<1> HIDE DEF y
<1>5. Q \in [0 .. n + 1 -> Nat \ {0}] /\ Q[0] = 1 /\ Q[n + 1] = y
  BY <1>2, <1>4
<1>6. ASSUME NEW j \in 0 .. (n + 1) - 1
      PROVE  Q[j + 1] = Q[j] * b
  <2>1. CASE j = n
    <3>1. Q[j + 1] = y /\ Q[j] = P[n]
      BY <1>6, <2>1
    <3> HIDE DEF Q
    <3> QED
      BY <1>1, <3>1 DEF y
  <2>2. CASE j # n
    <3>1. j \in 0 .. n - 1 /\ Q[j + 1] = P[j + 1] /\ Q[j] = P[j]
      BY <1>6, <2>2
    <3> HIDE DEF Q
    <3> QED
      BY <1>2, <3>1
  <2> QED
    BY <2>1, <2>2
<1> HIDE DEF Q
<1>7. IsPowers(b, n + 1, Q)
  BY <1>5, <1>6 DEF IsPowers
<1> QED
  BY <1>5, <1>7 DEF IsPower, y

LEMMA FirstPower ==
  ASSUME NEW b \in Nat \ {0}
  PROVE  IsPower(b, 1, b)
<1> DEFINE P == [j \in 0 .. 1 |-> IF j = 0 THEN 1 ELSE b]
<1>1. P \in [0 .. 1 -> Nat \ {0}] /\ P[0] = 1 /\ P[1] = b
  OBVIOUS
<1>2. \A j \in 0 .. 1 - 1 : j = 0 /\ P[j + 1] = P[j] * b
  BY <1>1
<1> HIDE DEF P
<1>3. IsPowers(b, 1, P)
  BY <1>1, <1>2 DEF IsPowers
<1> QED
  BY <1>1, <1>3 DEF IsPower

(* The integer division by which the search stops is the product it means. *)
LEMMA FitsByDivision ==
  ASSUME NEW b \in Nat \ {0}, NEW h \in Nat, NEW S \in Nat
  PROVE  h <= S \div b <=> h * b <= S
<1> DEFINE q == S \div b
           r == S % b
<1>1. q \in Nat /\ r \in 0 .. b - 1 /\ S = q * b + r
  BY Division
<1> HIDE DEF q, r
<1> DEFINE x == h * b
           y == q * b
<1>2. x \in Nat /\ y \in Nat /\ S = y + r
  BY <1>1
<1>3. h < q => x + 0 < y + 0
  BY <1>1, ChunkFirst
<1>4. q < h => y + r < x + 0
  BY <1>1, ChunkFirst
<1>5. h = q => x = y
  OBVIOUS
<1> HIDE DEF x, y
<1>6. h <= q <=> x <= S
  BY <1>1, <1>2, <1>3, <1>4, <1>5
<1> QED
  BY <1>6 DEF q, x

(* k stays below the histogram's size, so it is an int if the budget is.   *)
LEMMA CounterBelow ==
  ASSUME NEW b \in Nat, b >= 2, NEW n \in Nat, NEW h \in Nat, n < h
  PROVE  n + 1 < h * b /\ h * b \in Nat
<1>1. PICK e \in Nat : b = 2 + e
  <2>1. b - 2 \in Nat /\ b = 2 + (b - 2)
    OBVIOUS
  <2> QED
    BY <2>1
<1> DEFINE z == e * h
<1>2. h * b = 2 * h + z /\ z \in Nat
  BY <1>1
<1> HIDE DEF z
<1> QED
  BY <1>2

LEMMA WithinWrap ==
  ASSUME NEW n \in Nat, NEW m \in Nat \ {0}, n < m
  PROVE  n % m = n
<1>1. n \in 0 .. m - 1 /\ 0 * m + n = n
  OBVIOUS
<1>2. (0 * m + n) % m = n
  BY <1>1, DivisionUnique
<1> QED
  BY <1>1, <1>2

-----------------------------------------------------------------------------
(* The inductive invariant.                                                *)
Coded ==
  pc \in {"search", "histogram", "ranks", "done"} =>
    /\ B \in Nat \ {0} /\ k \in Nat /\ hist_size \in Nat \ {0}
    /\ \A byte \in Range(input) : code_of_byte[byte] \in 1 .. B - 1
    /\ B = 1 => hist_size = 1
    /\ B # 1 =>
         /\ k # 0 /\ k < hist_size
         /\ IsPower(B, k, hist_size)
         /\ hist_size <= chunk_size \/ k = 1

Searched ==
  pc \in {"histogram", "ranks", "done"} => B # 1 /\ hist_size * B > chunk_size

Windowed ==
  pc \in {"histogram", "ranks"} =>
    DOMAIN counts = 0 .. hist_size - 1 /\ IsWindow(w, B, k)

(* KeyInHistogram alone is not inductive: that the key stays small when a  *)
(* code is taken out of it rests on the code having been in it, as the     *)
(* digit of the highest power.                                             *)
IInv ==
  /\ input \in Inputs /\ chunk_size \in ChunkSizes
  /\ pc \in {"scan", "search", "histogram", "ranks", "done", "failed"}
  /\ pc = "scan" => k = 1
  /\ Coded /\ Searched /\ Windowed

LEMMA InitEstablishes == Init => IInv
  BY DEF Init, IInv, Coded, Searched, Windowed

LEMMA ScanKeeps ==
  ASSUME IInv, Scan PROVE IInv'
<1>1. /\ input' = input /\ chunk_size' = chunk_size /\ k' = k /\ k = 1
      /\ input \in Seq(0 .. 255) /\ input \in Inputs /\ chunk_size \in ChunkSizes
  BY InputsAssumption DEF Scan, IInv
<1>2. CASE pc' = "failed"
  BY <1>1, <1>2 DEF IInv, Coded, Searched, Windowed
<1>3. CASE pc' # "failed"
  <2>1. /\ pc' = "search"
        /\ code_of_byte' = [byte \in Range(input) |-> DenseCode(byte)]
        /\ B' = Cardinality(Range(input)) + 1
        /\ hist_size' = B'
    BY <1>3 DEF Scan
  <2>2. /\ Cardinality(Range(input)) \in Nat
        /\ \A byte \in Range(input) : DenseCode(byte) \in 1 .. Cardinality(Range(input))
    BY <1>1, CodesAreDigits
  <2> DEFINE card == Cardinality(Range(input))
             R == Range(input)
  <2>3. /\ card \in Nat /\ B' = card + 1
        /\ \A byte \in R : code_of_byte'[byte] \in 1 .. card
    BY <2>1, <2>2
  <2>4. R = Range(input')
    BY <1>1
  <2> HIDE DEF card, R
  <2>5. /\ B' \in Nat \ {0}
        /\ \A byte \in R : code_of_byte'[byte] \in 1 .. B' - 1
    BY <2>3
  <2>6. IsPower(B', 1, B')
    BY <2>5, FirstPower
  <2>7. Coded'
    BY <1>1, <2>1, <2>4, <2>5, <2>6 DEF Coded
  <2> QED
    BY <1>1, <2>1, <2>7 DEF IInv, Searched, Windowed
<1> QED
  BY <1>2, <1>3

LEMMA GrowKKeeps ==
  ASSUME \A S \in ChunkSizes : S < KWrap, IInv, GrowK PROVE IInv'
<1>1. /\ B \in Nat \ {0} /\ k \in Nat /\ hist_size \in Nat \ {0}
      /\ \A byte \in Range(input) : code_of_byte[byte] \in 1 .. B - 1
      /\ B # 1 => k # 0 /\ k < hist_size /\ IsPower(B, k, hist_size)
  BY DEF IInv, Coded, GrowK
<1>2. /\ input' = input /\ chunk_size' = chunk_size /\ pc' = pc /\ pc = "search"
      /\ B' = B /\ code_of_byte' = code_of_byte
      /\ hist_size' = hist_size * B /\ k' = (k + 1) % KWrap
      /\ hist_size <= chunk_size \div B
  BY DEF GrowK, StillFits
<1>3. /\ chunk_size \in ChunkSizes /\ chunk_size \in Nat /\ KWrap \in Nat \ {0}
      /\ chunk_size < KWrap
  BY ChunkSizesAssumption, KWrapAssumption DEF IInv
<1>4. hist_size' \in Nat \ {0}
  <2> DEFINE y == hist_size * B
  <2>1. y \in Nat
    BY <1>1
  <2>2. 0 * B + 0 < hist_size * B + 0
    BY <1>1, ChunkFirst
  <2>3. 0 * B = 0
    BY <1>1
  <2>4. 0 + 0 < y + 0
    BY <2>2, <2>3
  <2>5. hist_size' = y
    BY <1>2
  <2> HIDE DEF y
  <2> QED
    BY <2>1, <2>4, <2>5
<1>5. k' \in Nat
  <2>1. k + 1 \in Nat
    BY <1>1
  <2>2. (k + 1) % KWrap \in 0 .. KWrap - 1
    BY <1>3, <2>1, Division
  <2> QED
    BY <1>2, <2>2
<1>6. ASSUME B # 1
      PROVE  /\ k' # 0 /\ k' < hist_size'
             /\ IsPower(B, k', hist_size')
             /\ hist_size' <= chunk_size
  <2>1. hist_size * B <= chunk_size
    BY <1>1, <1>2, <1>3, FitsByDivision
  <2>2. k + 1 < hist_size * B /\ hist_size * B \in Nat
    <3>1. B \in Nat /\ B >= 2 /\ hist_size \in Nat
      BY <1>1, <1>6
    <3> QED
      BY <1>1, <1>6, <3>1, CounterBelow
  <2> DEFINE y == hist_size * B
  <2>3. y <= chunk_size /\ k + 1 < y /\ y \in Nat /\ hist_size' = y
    BY <1>2, <2>1, <2>2
  <2>4. IsPower(B, k + 1, y)
    BY <1>1, <1>6, NextPower
  <2> HIDE DEF y
  <2>5. k + 1 < KWrap /\ k + 1 \in Nat
    BY <1>1, <1>3, <2>3
  <2>6. k' = k + 1
    BY <1>2, <1>3, <2>5, WithinWrap
  <2> QED
    BY <1>1, <2>3, <2>4, <2>6
<1>7. B = 1 => hist_size' = 1
  <2>1. B = 1 => hist_size = 1
    BY <1>2 DEF IInv, Coded
  <2> QED
    BY <1>2, <2>1
<1>8. Coded'
  BY <1>1, <1>2, <1>4, <1>5, <1>6, <1>7 DEF Coded
<1> QED
  BY <1>2, <1>8 DEF IInv, Searched, Windowed

LEMMA EndSearchKeeps ==
  ASSUME IInv, EndSearch PROVE IInv'
<1>1. Coded /\ pc = "search" /\ chunk_size \in ChunkSizes /\ input \in Inputs
  BY DEF IInv, EndSearch
<1>2. /\ B \in Nat \ {0} /\ k \in Nat /\ hist_size \in Nat \ {0} /\ chunk_size \in Nat \ {0}
  BY <1>1, ChunkSizesAssumption DEF Coded
<1>3. /\ input' = input /\ chunk_size' = chunk_size /\ pc' = "histogram"
      /\ B' = B /\ code_of_byte' = code_of_byte /\ hist_size' = hist_size /\ k' = k
      /\ w' = KWinReset(k) /\ counts' = [K \in 0 .. hist_size - 1 |-> 0]
      /\ ~ (hist_size <= chunk_size \div B)
  BY DEF EndSearch, StillFits
<1>4. hist_size * B > chunk_size
  <2>1. ~ (hist_size * B <= chunk_size)
    BY <1>2, <1>3, FitsByDivision
  <2>2. hist_size * B \in Nat
    BY <1>2
  <2> QED
    BY <1>2, <2>1, <2>2
<1>5. B # 1
  <2>1. SUFFICES ASSUME B = 1 PROVE FALSE
    OBVIOUS
  <2>2. hist_size = 1 /\ hist_size * B = 1
    BY <1>1, <2>1 DEF Coded
  <2> QED
    BY <1>2, <1>4, <2>2
<1>6. Coded'
  BY <1>1, <1>3 DEF Coded
<1>7. Searched'
  BY <1>3, <1>4, <1>5 DEF Searched
<1>8. Windowed'
  <2>1. k \in Nat \ {0}
    BY <1>1, <1>2, <1>5 DEF Coded
  <2>2. IsWindow(KWinReset(k), B, k)
    BY <1>2, <2>1, ResetIsWindow
  <2> QED
    BY <1>3, <2>2 DEF Windowed
<1> QED
  BY <1>1, <1>3, <1>6, <1>7, <1>8 DEF IInv

(* The code of the next symbol, or of a pad, is a digit.                   *)
LEMMA NextCodeType ==
  ASSUME IInv, pc \in {"histogram", "ranks"}
  PROVE  /\ NextCode \in 0 .. B - 1
         /\ B \in Nat \ {0} /\ k \in Nat \ {0} /\ IsPower(B, k, hist_size)
         /\ DOMAIN counts = 0 .. hist_size - 1 /\ IsWindow(w, B, k)
         /\ IsWindow(KWinFeed(w, NextCode), B, k)
<1>1. /\ B \in Nat \ {0} /\ k \in Nat \ {0} /\ IsPower(B, k, hist_size)
      /\ \A byte \in Range(input) : code_of_byte[byte] \in 1 .. B - 1
  BY DEF IInv, Coded, Searched
<1>2. DOMAIN counts = 0 .. hist_size - 1 /\ IsWindow(w, B, k)
  BY DEF IInv, Windowed
<1>3. NextCode \in 0 .. B - 1
  <2>1. CASE w.p < Len(input)
    <3>1. input \in Seq(0 .. 255) /\ w.p \in Nat
      BY <1>2, InputsAssumption DEF IInv, IsWindow
    <3> DEFINE n == Len(input)
    <3>2. DOMAIN input = 1 .. n /\ n \in Nat
      BY <3>1
    <3>3. w.p + 1 \in DOMAIN input
      <4>1. w.p < n
        BY <2>1
      <4> HIDE DEF n
      <4> QED
        BY <3>1, <3>2, <4>1
    <3> HIDE DEF n
    <3>4. input[w.p + 1] \in Range(input)
      BY <3>3 DEF Range
    <3>5. NextCode = code_of_byte[input[w.p + 1]]
      BY <2>1 DEF NextCode
    <3> QED
      BY <1>1, <3>4, <3>5
  <2>2. CASE ~ (w.p < Len(input))
    BY <1>1, <2>2 DEF NextCode
  <2> QED
    BY <2>1, <2>2
<1> QED
  BY <1>1, <1>2, <1>3, FedIsWindow

LEMMA FeedStepsKeep ==
  ASSUME IInv, CountKmer \/ RankKmer PROVE IInv'
<1>1. /\ pc \in {"histogram", "ranks"} /\ pc' = pc
      /\ input' = input /\ chunk_size' = chunk_size /\ code_of_byte' = code_of_byte
      /\ B' = B /\ k' = k /\ hist_size' = hist_size
      /\ w' = KWinFeed(w, NextCode)
      /\ DOMAIN counts' = DOMAIN counts
  BY DEF CountKmer, RankKmer
<1>2. DOMAIN counts = 0 .. hist_size - 1 /\ IsWindow(w', B, k)
  BY <1>1, NextCodeType
<1>3. Coded' /\ Searched'
  BY <1>1 DEF IInv, Coded, Searched
<1>4. Windowed'
  BY <1>1, <1>2 DEF Windowed
<1> QED
  BY <1>1, <1>3, <1>4 DEF IInv

LEMMA EndRanksKeeps ==
  ASSUME IInv, EndRanks PROVE IInv'
<1>1. /\ pc = "ranks" /\ pc' = "done"
      /\ input' = input /\ chunk_size' = chunk_size /\ code_of_byte' = code_of_byte
      /\ B' = B /\ k' = k /\ hist_size' = hist_size
  BY DEF EndRanks
<1> QED
  BY <1>1 DEF IInv, Coded, Searched, Windowed

-----------------------------------------------------------------------------
(* The digit at a position of the padded input, and the number that the n  *)
(* digits from a position on make.                                         *)
Digit(in, code, i) ==
  IF 0 <= i /\ i < Len(in) THEN code[in[i + 1]] ELSE 0

IsKmer(in, code, base, n, p, f) ==
  /\ f \in [0 .. n -> Int]
  /\ f[0] = 0
  /\ \A j \in 0 .. n - 1 : f[j + 1] = f[j] * base + Digit(in, code, p + j)

KeyAt(in, code, base, n, p) ==
  (CHOOSE f : IsKmer(in, code, base, n, p, f))[n]

Digits(in, code, base) == \A i \in Int : Digit(in, code, i) \in 0 .. base - 1

LEMMA KmerExists ==
  ASSUME NEW in, NEW code, NEW b \in Nat \ {0}, NEW n \in Nat, NEW p \in Nat,
         Digits(in, code, b)
  PROVE  \E f : IsKmer(in, code, b, n, p, f)
<1> DEFINE Dig(i) == Digit(in, code, i)
           Solves(f, m) == /\ f \in [0 .. n -> Int] /\ f[0] = 0
                           /\ \A j \in 0 .. m - 1 : f[j + 1] = f[j] * b + Dig(p + j)
           T == {m \in Nat : m <= n => \E f : Solves(f, m)}
<1>1. 0 \in T
  <2>1. Solves([j \in 0 .. n |-> 0], 0)
    OBVIOUS
  <2> HIDE DEF Solves
  <2> QED
    BY <2>1
<1>2. ASSUME NEW m \in Nat, m \in T PROVE m + 1 \in T
  <2>1. SUFFICES ASSUME m + 1 <= n PROVE \E f : Solves(f, m + 1)
    <3> HIDE DEF Solves
    <3> QED
      BY <2>1
  <2>2. PICK f : Solves(f, m)
    <3> HIDE DEF Solves
    <3> QED
      BY <1>2, <2>1
  <2> DEFINE v == f[m] * b + Dig(p + m)
             g == [f EXCEPT ![m + 1] = v]
  <2>3. v \in Int
    <3>1. f[m] \in Int /\ Dig(p + m) \in Int
      BY <2>1, <2>2 DEF Digits
    <3> HIDE DEF Dig
    <3> QED
      BY <3>1
  <2>4. /\ g \in [0 .. n -> Int] /\ g[m + 1] = v
        /\ \A j \in 0 .. m : g[j] = f[j]
    <3> HIDE DEF v, Dig
    <3> QED
      BY <2>1, <2>2, <2>3
  <2> HIDE DEF g, v, Dig
  <2>5. ASSUME NEW j \in 0 .. (m + 1) - 1 PROVE g[j + 1] = g[j] * b + Dig(p + j)
    <3>1. CASE j = m
      BY <2>4, <3>1 DEF v
    <3>2. CASE j # m
      <4>1. j \in 0 .. m - 1 /\ j + 1 \in 0 .. m /\ j \in 0 .. m
        BY <3>2
      <4>2. f[j + 1] = f[j] * b + Dig(p + j)
        BY <2>2, <4>1
      <4> QED
        BY <2>4, <4>1, <4>2
    <3> QED
      BY <3>1, <3>2
  <2>6. g[0] = 0
    BY <2>2, <2>4
  <2>7. Solves(g, m + 1)
    BY <2>4, <2>5, <2>6
  <2> HIDE DEF Solves
  <2> QED
    BY <2>7
<1> HIDE DEF T
<1>3. n \in T
  BY <1>1, <1>2, Induction
<1>4. PICK f : Solves(f, n)
  <2> HIDE DEF Solves
  <2> QED
    BY <1>3 DEF T
<1>5. IsKmer(in, code, b, n, p, f)
  BY <1>4 DEF IsKmer
<1> QED
  BY <1>5

(* The codes order and distinguish the symbols of the text.                *)
CodesOrder(in, code, text) ==
  \A i, j \in Nat :
    /\ Digit(in, code, i) < Digit(in, code, j) <=> Symbol(text, i) < Symbol(text, j)
    /\ Digit(in, code, i) = Digit(in, code, j) <=> Symbol(text, i) = Symbol(text, j)

(* Numbers compare as the prefixes they are made from.                     *)
LEMMA KmersCompare ==
  ASSUME NEW in, NEW code, NEW b \in Nat \ {0}, NEW n \in Nat,
         Digits(in, code, b), NEW text, CodesOrder(in, code, text),
         NEW p \in Nat, NEW q \in Nat,
         NEW f, IsKmer(in, code, b, n, p, f), NEW g, IsKmer(in, code, b, n, q, g)
  PROVE  /\ f[n] \in Nat /\ g[n] \in Nat
         /\ PrefixEq(text, n, p, q) => f[n] = g[n]
         /\ PrefixLess(text, n, p, q) => f[n] < g[n]
<1> DEFINE D(i) == Digit(in, code, i)
           Good(m) == /\ f[m] \in Nat /\ g[m] \in Nat
                      /\ PrefixEq(text, m, p, q) => f[m] = g[m]
                      /\ PrefixLess(text, m, p, q) => f[m] < g[m]
           T == {m \in Nat : m <= n => Good(m)}
<1>1. 0 \in T
  BY DEF IsKmer, PrefixEq, PrefixLess
<1>2. ASSUME NEW m \in Nat, m \in T PROVE m + 1 \in T
  <2>1. SUFFICES ASSUME m + 1 <= n PROVE Good(m + 1)
    <3> HIDE DEF Good
    <3> QED
      BY <2>1
  <2>2. Good(m)
    <3> HIDE DEF Good
    <3> QED
      BY <1>2, <2>1
  <2> DEFINE x == f[m]
             y == g[m]
             d == D(p + m)
             e == D(q + m)
             xb == x * b
             yb == y * b
  <2>3. f[m + 1] = xb + d /\ g[m + 1] = yb + e
    BY <2>1 DEF IsKmer
  <2>4. /\ d \in 0 .. b - 1 /\ e \in 0 .. b - 1
        /\ d < e <=> Symbol(text, p + m) < Symbol(text, q + m)
        /\ d = e <=> Symbol(text, p + m) = Symbol(text, q + m)
    BY DEF Digits, CodesOrder
  <2>5. x \in Nat /\ y \in Nat /\ xb \in Nat /\ yb \in Nat
    <3>1. x \in Nat /\ y \in Nat
      BY <2>2
    <3> HIDE DEF x, y
    <3> QED
      BY <3>1
  <2>6. x < y => xb + d < yb + e
    <3> HIDE DEF x, y, d, e
    <3> QED
      BY <2>4, <2>5, ChunkFirst
  <2>7. /\ PrefixEq(text, m, p, q) => x = y
        /\ PrefixLess(text, m, p, q) => x < y
    BY <2>2
  <2>8. PrefixEq(text, m + 1, p, q) => PrefixEq(text, m, p, q) /\ d = e
    <3> HIDE DEF d, e
    <3> QED
      BY <2>4 DEF PrefixEq
  <2>9. PrefixLess(text, m + 1, p, q) => PrefixLess(text, m, p, q) \/ (PrefixEq(text, m, p, q) /\ d < e)
    <3>1. SUFFICES ASSUME NEW i \in 0 .. (m + 1) - 1,
                          Symbol(text, p + i) < Symbol(text, q + i), PrefixEq(text, i, p, q)
                   PROVE  PrefixLess(text, m, p, q) \/ (PrefixEq(text, m, p, q) /\ d < e)
      BY DEF PrefixLess
    <3>2. CASE i = m
      BY <2>4, <3>1, <3>2
    <3>3. CASE i # m
      <4>1. i \in 0 .. m - 1
        BY <3>3
      <4> QED
        BY <3>1, <4>1 DEF PrefixLess
    <3> QED
      BY <3>2, <3>3
  <2>10. x = y => xb = yb
    OBVIOUS
  <2> HIDE DEF x, y, xb, yb, d, e
  <2>11. xb + d \in Nat /\ yb + e \in Nat
    BY <2>4, <2>5
  <2> QED
    BY <2>3, <2>4, <2>5, <2>6, <2>7, <2>8, <2>9, <2>10, <2>11
<1> HIDE DEF T, Good
<1>3. n \in T
  BY <1>1, <1>2, Induction
<1>4. Good(n)
  BY <1>3 DEF T
<1> QED
  BY <1>4 DEF Good

(* Keys compare as prefixes do, so a rank is a number of smaller keys.     *)
LEMMA KeysCompare ==
  ASSUME NEW in, NEW code, NEW b \in Nat \ {0}, NEW n \in Nat,
         Digits(in, code, b), NEW text \in CodedText, CodesOrder(in, code, text),
         NEW p \in Nat, NEW q \in Nat
  PROVE  /\ KeyAt(in, code, b, n, p) \in Nat
         /\ KeyAt(in, code, b, n, p) < KeyAt(in, code, b, n, q) <=> PrefixLess(text, n, p, q)
         /\ \A f : IsKmer(in, code, b, n, p, f) => f[n] = KeyAt(in, code, b, n, p)
<1> DEFINE F == CHOOSE f : IsKmer(in, code, b, n, p, f)
           G == CHOOSE f : IsKmer(in, code, b, n, q, f)
<1>1. IsKmer(in, code, b, n, p, F) /\ IsKmer(in, code, b, n, q, G)
  BY KmerExists
<1>2. F[n] = KeyAt(in, code, b, n, p) /\ G[n] = KeyAt(in, code, b, n, q)
  BY DEF KeyAt
<1> HIDE DEF F, G
<1>3. /\ F[n] \in Nat /\ G[n] \in Nat
      /\ PrefixEq(text, n, p, q) => F[n] = G[n]
      /\ PrefixLess(text, n, p, q) => F[n] < G[n]
  BY <1>1, KmersCompare
<1>4. PrefixLess(text, n, q, p) => G[n] < F[n]
  BY <1>1, KmersCompare
<1>5. PrefixEq(text, n, p, q) \/ PrefixLess(text, n, p, q) \/ PrefixLess(text, n, q, p)
  BY Trichotomy
<1>6. F[n] < G[n] <=> PrefixLess(text, n, p, q)
  BY <1>3, <1>4, <1>5
<1>7. ASSUME NEW f, IsKmer(in, code, b, n, p, f) PROVE f[n] = F[n]
  <2>1. PrefixEq(text, n, p, p)
    BY PrefixEqEquivalence
  <2> QED
    BY <1>1, <1>7, <2>1, KmersCompare
<1> QED
  BY <1>2, <1>3, <1>6, <1>7

Bytes == 0 .. 255

LEMMA BytesType == Bytes \subseteq Nat /\ IsFiniteSet(Bytes)
<1> DEFINE top == 255
<1>1. top \in Int /\ Bytes = 0 .. top
  BY DEF Bytes
<1> HIDE DEF top
<1> QED
  BY <1>1, FS_Interval

(* The text has the input's length and, one higher, its bytes.             *)
LEMMA TextType ==
  ASSUME input \in Seq(Bytes)
  PROVE  /\ Text \in CodedText /\ Len(Text) = Len(input) /\ Len(input) \in Nat
         /\ \A i \in 1 .. Len(input) : Text[i] = input[i] + 1 /\ input[i] \in Bytes
<1> DEFINE n == Len(input)
<1>2. /\ n \in Nat /\ DOMAIN input = 1 .. n
      /\ \A i \in 1 .. n : input[i] \in Bytes
  OBVIOUS
<1> HIDE DEF n
<1>3. ASSUME NEW i \in 1 .. n PROVE input[i] + 1 \in Nat \ {0}
  <2> DEFINE byte == input[i]
  <2>1. byte \in Nat
    BY <1>2, BytesType
  <2> HIDE DEF byte
  <2>2. byte + 1 \in Nat \ {0}
    BY <2>1
  <2> QED
    BY <2>2 DEF byte
<1>4. Text = [i \in 1 .. n |-> input[i] + 1]
  BY <1>2 DEF Text
<1>5. Text \in [1 .. n -> Nat \ {0}]
  BY <1>3, <1>4
<1>6. Text \in Seq(Nat \ {0}) /\ Len(Text) = n
  <2> HIDE DEF Text
  <2> QED
    BY <1>2, <1>5
<1> QED
  BY <1>2, <1>4, <1>6 DEF CodedText, n

(* Dense codes keep the order of the bytes.                                *)
LEMMA CodesKeepOrder ==
  ASSUME input \in Seq(Bytes),
         NEW x \in Range(input), NEW y \in Range(input), x < y
  PROVE  DenseCode(x) < DenseCode(y)
<1> DEFINE R == Range(input)
           P == {b \in R : b < x}
           Q == {b \in R : b < y}
<1>1. IsFiniteSet(R) /\ R \subseteq Nat
  <2>1. DOMAIN input = 1 .. Len(input) /\ \A i \in 1 .. Len(input) : input[i] \in Bytes
    BY TextType
  <2>2. R \subseteq Bytes
    BY <2>1 DEF Range
  <2> HIDE DEF R
  <2> QED
    BY <2>2, BytesType, FS_Subset
<1>2. x \in R /\ y \in R
  OBVIOUS
<1> HIDE DEF R
<1>3. P \subseteq Q /\ x \in Q /\ x \notin P /\ Q \subseteq R
  <2>1. x \in Nat /\ y \in Nat /\ x < y
    BY <1>1, <1>2
  <2>2. \A b \in R : b \in Nat
    BY <1>1
  <2>3. \A b \in R : b < x => b < y
    BY <2>1, <2>2
  <2>4. P \subseteq Q
    BY <2>3
  <2>5. x \in Q
    BY <1>2, <2>1
  <2>6. x \notin P
    BY <2>1
  <2>7. Q \subseteq R
    OBVIOUS
  <2> HIDE DEF P, Q
  <2> QED
    BY <2>4, <2>5, <2>6, <2>7
<1>4. DenseCode(x) = 1 + Cardinality(P) /\ DenseCode(y) = 1 + Cardinality(Q)
  BY DEF DenseCode, R
<1> HIDE DEF P, Q
<1>5. IsFiniteSet(Q)
  BY <1>1, <1>3, FS_Subset
<1>6. P # Q
  BY <1>3
<1>7. IsFiniteSet(P) /\ Cardinality(P) <= Cardinality(Q) /\ Cardinality(P) # Cardinality(Q)
  BY <1>3, <1>5, <1>6, FS_Subset
<1>8. Cardinality(P) \in Nat /\ Cardinality(Q) \in Nat
  BY <1>5, <1>7, FS_CardinalityType
<1> QED
  BY <1>4, <1>7, <1>8

(* What pass 1 makes of the bytes.                                         *)
ScannedAs(in, code, base) ==
  /\ in \in Seq(Bytes)
  /\ code = [byte \in Range(in) |-> 1 + Cardinality({b \in Range(in) : b < byte})]
  /\ base = Cardinality(Range(in)) + 1

Scanned == ScannedAs(input, code_of_byte, B)

LEMMA CodesOrdered ==
  ASSUME Scanned
  PROVE  /\ B \in Nat \ {0}
         /\ Digits(input, code_of_byte, B)
         /\ CodesOrder(input, code_of_byte, Text)
<1> DEFINE R == Range(input)
           card == Cardinality(Range(input))
           n == Len(input)
           D(i) == Digit(input, code_of_byte, i)
           S(i) == Symbol(Text, i)
<1>1. /\ Text \in CodedText /\ Len(Text) = n /\ n \in Nat /\ DOMAIN input = 1 .. n
      /\ \A i \in 1 .. n : Text[i] = input[i] + 1 /\ input[i] \in Bytes
  BY TextType DEF Scanned, ScannedAs
<1>2. /\ card \in Nat /\ \A byte \in R : DenseCode(byte) \in 1 .. card
  BY CodesAreDigits DEF Scanned, ScannedAs, Bytes
<1>3. B = card + 1 /\ \A byte \in R : code_of_byte[byte] = DenseCode(byte)
  BY DEF Scanned, ScannedAs, DenseCode
<1>4. \A i \in 1 .. n : input[i] \in R
  BY <1>1 DEF Range
<1>5. \A i \in Int : 0 <= i /\ i < n => i + 1 \in 1 .. n
  BY <1>1
<1>6. \A i \in Int : IF 0 <= i /\ i < n THEN D(i) = DenseCode(input[i + 1]) ELSE D(i) = 0
  <2> HIDE DEF n, R
  <2> QED
    BY <1>3, <1>4, <1>5 DEF Digit, n
<1>7. \A i \in Nat : S(i) = IF i < n THEN input[i + 1] + 1 ELSE 0
  <2>1. \A i \in Nat : i < n => Text[i + 1] = input[i + 1] + 1
    BY <1>1
  <2>2. \A i \in Nat : S(i) = IF i < n THEN Text[i + 1] ELSE 0
    BY <1>1 DEF Symbol
  <2> HIDE DEF n, S
  <2> QED
    BY <2>1, <2>2
<1>8. \A i \in Nat : i < n => input[i + 1] \in R /\ input[i + 1] \in Nat /\ DenseCode(input[i + 1]) \in 1 .. card
  <2>1. \A i \in Nat : i < n => i + 1 \in 1 .. n
    BY <1>1
  <2> HIDE DEF n, R, card
  <2> QED
    BY <1>1, <1>2, <1>4, <2>1, BytesType
<1>9. \A x, y \in R : x < y => DenseCode(x) < DenseCode(y)
  BY CodesKeepOrder DEF Scanned, ScannedAs
<1> HIDE DEF n, R, card, D, S
<1>10. B \in Nat \ {0}
  BY <1>2, <1>3
<1>11. \A i \in Int : D(i) \in 0 .. B - 1
  <2>1. \A i \in Int : 0 <= i /\ i < n => DenseCode(input[i + 1]) \in 1 .. card
    BY <1>8
  <2> QED
    BY <1>2, <1>3, <1>6, <2>1
<1>12. ASSUME NEW i \in Nat, NEW j \in Nat
       PROVE  /\ D(i) < D(j) <=> S(i) < S(j)
              /\ D(i) = D(j) <=> S(i) = S(j)
  <2> DEFINE x == input[i + 1]
             y == input[j + 1]
  <2>1. /\ D(i) = IF i < n THEN DenseCode(x) ELSE 0
        /\ D(j) = IF j < n THEN DenseCode(y) ELSE 0
        /\ S(i) = IF i < n THEN x + 1 ELSE 0
        /\ S(j) = IF j < n THEN y + 1 ELSE 0
    BY <1>6, <1>7
  <2>2. /\ i < n => x \in R /\ x \in Nat /\ DenseCode(x) \in 1 .. card
        /\ j < n => y \in R /\ y \in Nat /\ DenseCode(y) \in 1 .. card
    BY <1>8
  <2> HIDE DEF x, y
  <2>3. CASE i < n /\ j < n
    <3>1. /\ x < y => DenseCode(x) < DenseCode(y)
          /\ y < x => DenseCode(y) < DenseCode(x)
      BY <1>9, <2>2, <2>3
    <3>2. x < y \/ y < x \/ x = y
      BY <2>2, <2>3
    <3> DEFINE dx == DenseCode(x)
               dy == DenseCode(y)
    <3>3. dx \in Nat /\ dy \in Nat /\ (x = y => dx = dy)
      BY <1>2, <2>2, <2>3
    <3>4. (x < y => dx < dy) /\ (y < x => dy < dx)
      BY <3>1
    <3>5. D(i) = dx /\ D(j) = dy /\ S(i) = x + 1 /\ S(j) = y + 1 /\ x \in Nat /\ y \in Nat
      BY <2>1, <2>2, <2>3
    <3> HIDE DEF dx, dy
    <3> QED
      BY <3>2, <3>3, <3>4, <3>5
  <2>4. CASE ~ (i < n /\ j < n)
    BY <1>2, <2>1, <2>2, <2>4
  <2> QED
    BY <2>3, <2>4
<1> QED
  BY <1>10, <1>11, <1>12 DEF Digits, CodesOrder, D, S

-----------------------------------------------------------------------------
(* The ring holds the last n digits fed, the oldest where the next goes.   *)
HoldsLast(win, in, code, n) ==
  \A j \in 0 .. n - 1 : win.ring[(win.p + j) % n] = Digit(in, code, win.p - n + j)

LEMMA ResetHolds ==
  ASSUME NEW in, NEW code, NEW n \in Nat \ {0}
  PROVE  HoldsLast(KWinReset(n), in, code, n)
<1> DEFINE win == KWinReset(n)
<1>1. win.ring = [i \in 0 .. n - 1 |-> 0] /\ win.p = 0
  BY DEF KWinReset
<1> HIDE DEF win
<1>2. ASSUME NEW j \in 0 .. n - 1
      PROVE  win.ring[(win.p + j) % n] = Digit(in, code, win.p - n + j)
  <2>1. 0 + j \in Nat
    BY <1>2
  <2>2. (0 + j) % n \in 0 .. n - 1
    BY <2>1, Division
  <2>3. Digit(in, code, 0 - n + j) = 0
    BY <1>2 DEF Digit
  <2> QED
    BY <1>1, <2>2, <2>3
<1>3. HoldsLast(win, in, code, n)
  BY <1>2 DEF HoldsLast
<1> QED
  BY <1>3 DEF win

LEMMA FedHolds ==
  ASSUME NEW in, NEW code, NEW base, k \in Nat \ {0},
         NEW win, HoldsLast(win, in, code, k), win.p \in Nat,
         win.ring \in Rings(base, k)
  PROVE  LET fed == KWinFeed(win, Digit(in, code, win.p))
         IN  HoldsLast(fed, in, code, k) /\ fed.p = win.p + 1
<1> DEFINE fed == KWinFeed(win, Digit(in, code, win.p))
           p == win.p
           ring == win.ring
           D(i) == Digit(in, code, i)
           new == [ring EXCEPT ![p % k] = D(p)]
<1>1. fed.ring = new /\ fed.p = p + 1
  BY DEF KWinFeed
<1>2. DOMAIN ring = 0 .. k - 1 /\ p \in Nat /\ p % k \in 0 .. k - 1
  BY Division DEF Rings
<1>3. \A j \in 0 .. k - 1 : ring[(p + j) % k] = D(p - k + j)
  BY DEF HoldsLast
<1> HIDE DEF fed, p, ring, D
<1>4. ASSUME NEW j \in 0 .. k - 1
      PROVE  new[(p + 1 + j) % k] = D(p + 1 - k + j)
  <2>1. CASE j = k - 1
    <3>1. (p + k) % k = p % k
      BY <1>2, NextRound
    <3>2. p + 1 + j = p + k /\ p + 1 - k + j = p
      BY <1>2, <2>1
    <3> QED
      BY <1>2, <3>1, <3>2
  <2>2. CASE j # k - 1
    <3>1. j + 1 \in 1 .. k - 1 /\ j + 1 \in 0 .. k - 1
      BY <2>2
    <3>2. (p + (j + 1)) % k # p % k
      BY <1>2, <3>1, OtherSlot
    <3>3. ring[(p + (j + 1)) % k] = D(p - k + (j + 1))
      BY <1>3, <3>1
    <3>4. p + 1 + j = p + (j + 1) /\ p + 1 - k + j = p - k + (j + 1)
      BY <1>2
    <3>5. (p + (j + 1)) % k \in 0 .. k - 1
      <4>1. p + (j + 1) \in Nat
        BY <1>2
      <4> HIDE DEF p
      <4> QED
        BY <4>1, Division
    <3>6. new[(p + (j + 1)) % k] = ring[(p + (j + 1)) % k]
      BY <1>2, <3>2, <3>5
    <3> QED
      BY <3>3, <3>4, <3>6
  <2> QED
    BY <2>1, <2>2
<1> HIDE DEF new
<1>5. ASSUME NEW j \in 0 .. k - 1
      PROVE  fed.ring[(fed.p + j) % k] = Digit(in, code, fed.p - k + j)
  <2>1. fed.ring = new /\ fed.p = p + 1
    BY <1>1
  <2>2. new[(p + 1 + j) % k] = D(p + 1 - k + j)
    BY <1>4, Zenon
  <2>3. Digit(in, code, p + 1 - k + j) = D(p + 1 - k + j)
    BY DEF D
  <2>4. new[(p + 1 + j) % k] = Digit(in, code, p + 1 - k + j)
    BY <2>2, <2>3, Zenon
  <2>5. p + 1 - k + j = (p + 1) - k + j
    BY <1>2
  <2>6. new[((p + 1) + j) % k] = Digit(in, code, (p + 1) - k + j)
    BY <2>4, <2>5, Zenon
  <2> QED
    BY <2>1, <2>6, Zenon
<1>6. HoldsLast(fed, in, code, k)
  BY <1>5 DEF HoldsLast
<1> QED
  BY <1>1, <1>6 DEF fed, p

(* From the k-th symbol on the key is that of the position k back.         *)
LEMMA WindowIsKmer ==
  ASSUME NEW in, NEW code, NEW b \in Nat \ {0}, NEW n \in Nat \ {0},
         Digits(in, code, b), NEW text \in CodedText, CodesOrder(in, code, text),
         NEW win, IsWindow(win, b, n), HoldsLast(win, in, code, n), win.p >= n
  PROVE  win.key = KeyAt(in, code, b, n, win.p - n)
<1>1. PICK f : IsValue(b, n, win.ring, win.p, f) /\ f[n] = win.key
  BY DEF IsWindow
<1>2. win.p \in Nat /\ win.p - n \in Nat
  BY DEF IsWindow
<1> DEFINE p == win.p - n
<1>3. \A j \in 0 .. n - 1 : win.ring[(win.p + j) % n] = Digit(in, code, p + j)
  BY DEF HoldsLast
<1>4. IsKmer(in, code, b, n, p, f)
  BY <1>1, <1>3 DEF IsValue, IsKmer
<1> HIDE DEF p
<1>5. p \in Nat
  BY <1>2 DEF p
<1>6. f[n] = KeyAt(in, code, b, n, p)
  BY <1>4, <1>5, KeysCompare
<1> QED
  BY <1>1, <1>6 DEF p

-----------------------------------------------------------------------------
(* A sequence s that is cut into files of S values as it grows, and one    *)
(* whose last file has been closed.                                        *)
IsCut(out, s, S, V) ==
  /\ out = [files |-> out.files, buffer |-> out.buffer]
  /\ s \in Seq(V) /\ out.files \in Seq(Seq(V)) /\ out.buffer \in Seq(V)
  /\ FlattenSeq(out.files) \o out.buffer = s
  /\ \A c \in 1 .. Len(out.files) : Len(out.files[c]) = S
  /\ Len(out.buffer) < S
  /\ Len(s) = Len(out.files) * S + Len(out.buffer)

IsClosed(out, s, S, V) ==
  /\ out.files \in Seq(Seq(V)) /\ out.buffer = <<>>
  /\ FlattenSeq(out.files) = s
  /\ Len(out.files) = (Len(s) - 1) \div S + 1
  /\ \A c \in 1 .. Len(out.files) :
       /\ Len(out.files[c]) \in 1 .. S
       /\ Len(out.files[c]) = IF c < Len(out.files) THEN S ELSE Len(s) - (c - 1) * S

LEMMA OneMore ==
  ASSUME NEW W, NEW s \in Seq(W), NEW v \in W
  PROVE  /\ Append(s, v) \in Seq(W) /\ Len(s) \in Nat
         /\ Len(Append(s, v)) = Len(s) + 1
         /\ Append(s, v) \in [1 .. Len(s) + 1 -> W]
         /\ Append(s, v)[Len(s) + 1] = v
         /\ \A i \in 1 .. Len(s) : Append(s, v)[i] = s[i]
         /\ s = [i \in 1 .. Len(s) |-> Append(s, v)[i]]
<1> DEFINE t == Append(s, v)
           n == Len(s)
<1>1. n \in Nat /\ t \in Seq(W) /\ Len(t) = n + 1 /\ t[n + 1] = v
  OBVIOUS
<1>2. \A i \in 1 .. n : t[i] = s[i]
  OBVIOUS
<1>3. s = [i \in 1 .. n |-> s[i]]
  OBVIOUS
<1> HIDE DEF t, n
<1>4. t \in [1 .. n + 1 -> W]
  BY <1>1
<1>5. [i \in 1 .. n |-> s[i]] = [i \in 1 .. n |-> t[i]]
  BY <1>2
<1> QED
  BY <1>1, <1>2, <1>3, <1>4, <1>5 DEF t, n

(* A file more is put behind what the files before it hold.                *)
LEMMA FlattenAppend ==
  ASSUME NEW V, NEW files \in Seq(Seq(V)), NEW b \in Seq(V)
  PROVE  /\ FlattenSeq(files) \in Seq(V)
         /\ FlattenSeq(Append(files, b)) = FlattenSeq(files) \o b
<1> DEFINE m == Len(files)
           all == Append(files, b)
           W == Seq(V)
<1>1. files \in Seq(W) /\ b \in W
  OBVIOUS
<1> HIDE DEF W
<1>2. /\ m \in Nat /\ all \in [1 .. m + 1 -> W] /\ all[m + 1] = b
      /\ files = [j \in 1 .. m |-> all[j]]
  BY <1>1, OneMore
<1> HIDE DEF m, all
<1>3. /\ FlattenSeq([j \in 1 .. m |-> all[j]]) \in Seq(V)
      /\ FlattenSeq(all) = FlattenSeq([j \in 1 .. m |-> all[j]]) \o all[m + 1]
  BY <1>2, FlattenLast DEF W
<1>4. FlattenSeq(files) \in Seq(V) /\ FlattenSeq(all) = FlattenSeq(files) \o b
  BY <1>2, <1>3
<1> QED
  BY <1>4 DEF all

LEMMA NothingCut ==
  ASSUME NEW S \in Nat \ {0}, NEW V
  PROVE  IsCut(NoOutput, <<>>, S, V)
<1>1. NoOutput.files = <<>> /\ NoOutput.buffer = <<>> /\ NoOutput = [files |-> <<>>, buffer |-> <<>>]
  BY DEF NoOutput
<1>2. FlattenSeq(<<>>) = <<>>
  BY DEF FlattenSeq
<1>3. <<>> \in Seq(V) /\ <<>> \in Seq(Seq(V)) /\ <<>> \o <<>> = <<>> /\ Len(<<>>) = 0
  OBVIOUS
<1> QED
  BY <1>1, <1>2, <1>3 DEF IsCut

LEMMA AppendedIsCut ==
  ASSUME chunk_size \in Nat \ {0}, NEW V, NEW out, NEW s,
         IsCut(out, s, chunk_size, V), NEW value \in V
  PROVE  IsCut(Appended(out, value), Append(s, value), chunk_size, V)
<1> DEFINE fs == out.files
           b == Append(out.buffer, value)
           t == Append(s, value)
           mid == [out EXCEPT !.buffer = Append(@, value)]
           r == Appended(out, value)
           flat == FlattenSeq(fs)
<1>1. /\ out = [files |-> fs, buffer |-> out.buffer]
      /\ s \in Seq(V) /\ fs \in Seq(Seq(V)) /\ out.buffer \in Seq(V)
      /\ flat \o out.buffer = s
      /\ \A c \in 1 .. Len(fs) : Len(fs[c]) = chunk_size
      /\ Len(out.buffer) < chunk_size
      /\ Len(s) = Len(fs) * chunk_size + Len(out.buffer)
  BY DEF IsCut
<1>2. mid = [files |-> fs, buffer |-> b]
  <2>1. \A f, o : LET u == [files |-> f, buffer |-> o]
                  IN  [u EXCEPT !.buffer = Append(@, value)] = [files |-> f, buffer |-> Append(o, value)]
    OBVIOUS
  <2> QED
    BY <1>1, <2>1, Zenon
<1>3. /\ b \in Seq(V) /\ Len(b) = Len(out.buffer) + 1 /\ Len(b) <= chunk_size
      /\ t \in Seq(V) /\ Len(t) = Len(s) + 1
  BY <1>1
<1>4. flat \in Seq(V)
  BY <1>1, <1>3, FlattenAppend
<1>5. flat \o b = t
  <2> HIDE DEF flat
  <2> QED
    BY <1>1, <1>4
<1>6. Len(fs) \in Nat /\ Len(b) \in Nat /\ Len(s) \in Nat
  BY <1>1, <1>3
<1> DEFINE x == Len(fs) * chunk_size
<1>7. x \in Nat /\ Len(s) = x + Len(out.buffer) /\ Len(out.buffer) \in Nat
  BY <1>1, <1>6
<1>8. Len(t) = x + Len(b)
  <2> HIDE DEF x, b, t, fs
  <2> QED
    BY <1>3, <1>7
<1>9. CASE Len(b) = chunk_size
  <2> DEFINE gs == Append(fs, b)
             W == Seq(V)
  <2>1. r = [files |-> gs, buffer |-> <<>>]
    BY <1>2, <1>9 DEF Appended, Flushed
  <2>2. /\ gs \in Seq(W) /\ Len(gs) = Len(fs) + 1 /\ gs[Len(fs) + 1] = b
        /\ \A c \in 1 .. Len(fs) : gs[c] = fs[c]
    <3>1. fs \in Seq(W) /\ b \in W
      BY <1>1, <1>3
    <3> HIDE DEF W, fs, b
    <3> QED
      BY <3>1
  <2>3. FlattenSeq(gs) = t
    BY <1>1, <1>3, <1>5, FlattenAppend
  <2>4. FlattenSeq(gs) \o <<>> = t
    <3> HIDE DEF gs, t
    <3> QED
      BY <1>3, <2>3
  <2>5. \A c \in 1 .. Len(gs) : Len(gs[c]) = chunk_size
    <3>1. \A c \in 1 .. Len(gs) : c \in 1 .. Len(fs) \/ c = Len(fs) + 1
      BY <1>6, <2>2
    <3> HIDE DEF gs, fs, b
    <3> QED
      BY <1>1, <1>9, <2>2, <3>1
  <2>6. Len(t) = Len(gs) * chunk_size + 0
    <3>1. (Len(fs) + 1) * chunk_size = x + chunk_size
      BY <1>6
    <3> HIDE DEF x, gs, fs, b, t
    <3> QED
      BY <1>7, <1>8, <1>9, <2>2, <3>1
  <2>7. Len(<<>>) = 0 /\ <<>> \in Seq(V)
    OBVIOUS
  <2>8. r.files = gs /\ r.buffer = <<>>
    BY <2>1
  <2> HIDE DEF r, gs, t, fs
  <2>9. IsCut(r, t, chunk_size, V)
    BY <1>3, <2>1, <2>2, <2>4, <2>5, <2>6, <2>7, <2>8 DEF IsCut
  <2> QED
    BY <2>9 DEF r, t
<1>10. CASE Len(b) # chunk_size
  <2>1. r = [files |-> fs, buffer |-> b]
    BY <1>2, <1>10 DEF Appended, Flushed
  <2>2. r.files = fs /\ r.buffer = b
    BY <2>1
  <2>3. Len(b) < chunk_size
    BY <1>3, <1>6, <1>10
  <2> HIDE DEF r, t, b, fs
  <2>4. IsCut(r, t, chunk_size, V)
    BY <1>1, <1>3, <1>5, <1>8, <2>1, <2>2, <2>3 DEF IsCut
  <2> QED
    BY <2>4 DEF r, t
<1> QED
  BY <1>9, <1>10

LEMMA ClosedIsClosed ==
  ASSUME NEW S \in Nat \ {0}, NEW V, NEW out, NEW s, IsCut(out, s, S, V), s # <<>>
  PROVE  IsClosed(Closed(out), s, S, V)
<1> DEFINE fs == out.files
           b == out.buffer
           m == Len(fs)
           n == Len(b)
           x == m * S
           r == Closed(out)
<1>1. /\ out = [files |-> fs, buffer |-> b]
      /\ s \in Seq(V) /\ fs \in Seq(Seq(V)) /\ b \in Seq(V)
      /\ FlattenSeq(fs) \o b = s
      /\ \A c \in 1 .. m : Len(fs[c]) = S
      /\ n < S
      /\ Len(s) = x + n
  BY DEF IsCut
<1>2. m \in Nat /\ n \in Nat /\ x \in Nat /\ Len(s) \in Nat \ {0}
  BY <1>1
<1>3. CASE b = <<>>
  <2>1. r = out /\ n = 0
    BY <1>3 DEF Closed
  <2>2. m # 0
    <3>1. m = 0 => x = 0
      OBVIOUS
    <3> HIDE DEF m, n, x
    <3> QED
      BY <1>1, <1>2, <2>1, <3>1
  <2> DEFINE k_ == m - 1
             y == k_ * S
  <2>3. k_ \in Nat /\ x = y + S /\ y \in Nat
    <3> HIDE DEF m
    <3> QED
      BY <1>2, <2>2
  <2>4. (k_ * S + (S - 1)) \div S = k_
    <3>1. S - 1 \in 0 .. S - 1
      OBVIOUS
    <3> HIDE DEF k_
    <3> QED
      BY <2>3, <3>1, DivisionUnique
  <2>5. Len(s) - 1 = k_ * S + (S - 1)
    <3>1. Len(s) - 1 = y + (S - 1)
      <4> HIDE DEF x, y, k_, n
      <4> QED
        BY <1>1, <1>2, <2>1, <2>3
    <3> QED
      BY <3>1
  <2>6. m = (Len(s) - 1) \div S + 1
    <3>1. (Len(s) - 1) \div S = k_
      BY <2>4, <2>5
    <3> QED
      BY <1>2, <3>1
  <2>7. FlattenSeq(fs) = s
    <3>1. FlattenSeq(fs) \in Seq(V)
      BY <1>1, FlattenAppend
    <3> DEFINE flat == FlattenSeq(fs)
    <3> HIDE DEF flat
    <3>2. flat \in Seq(V) /\ flat \o <<>> = s
      BY <1>1, <1>3, <3>1 DEF flat
    <3>3. flat = s
      BY <3>2
    <3> QED
      BY <3>3 DEF flat
  <2>8. ASSUME NEW c \in 1 .. m
        PROVE  /\ Len(fs[c]) \in 1 .. S
               /\ Len(fs[c]) = IF c < m THEN S ELSE Len(s) - (c - 1) * S
    <3>1. Len(fs[c]) = S
      BY <1>1
    <3>2. CASE c < m
      BY <3>1, <3>2
    <3>3. CASE ~ (c < m)
      <4>1. c = m
        <5> HIDE DEF m
        <5> QED
          BY <1>2, <3>3
      <4>2. (c - 1) * S = y
        BY <4>1
      <4>3. Len(s) - y = S
        <5> HIDE DEF x, y, n
        <5> QED
          BY <1>1, <1>2, <2>1, <2>3
      <4>4. Len(s) - (c - 1) * S = S
        BY <4>2, <4>3
      <4> QED
        BY <3>1, <3>3, <4>4
    <3> QED
      BY <3>2, <3>3
  <2>9. r.files = fs /\ r.buffer = <<>>
    BY <1>3, <2>1
  <2> HIDE DEF r, fs
  <2>10. IsClosed(r, s, S, V)
    BY <1>1, <2>6, <2>7, <2>8, <2>9 DEF IsClosed
  <2> QED
    BY <2>10 DEF r
<1>4. CASE b # <<>>
  <2> DEFINE gs == Append(fs, b)
             W == Seq(V)
  <2>1. r = [files |-> gs, buffer |-> <<>>] /\ n # 0
    BY <1>1, <1>4 DEF Closed
  <2>2. /\ gs \in Seq(W) /\ Len(gs) = m + 1 /\ gs[m + 1] = b
        /\ \A c \in 1 .. m : gs[c] = fs[c]
    <3>1. fs \in Seq(W) /\ b \in W
      BY <1>1
    <3> HIDE DEF W, fs, b
    <3> QED
      BY <3>1
  <2>3. FlattenSeq(gs) = s
    BY <1>1, FlattenAppend
  <2>4. n - 1 \in 0 .. S - 1
    <3> HIDE DEF n
    <3> QED
      BY <1>1, <1>2, <2>1
  <2>5. (m * S + (n - 1)) \div S = m
    <3> HIDE DEF m, n
    <3> QED
      BY <1>2, <2>4, DivisionUnique
  <2>6. Len(s) - 1 = m * S + (n - 1)
    <3>1. Len(s) - 1 = x + (n - 1)
      <4> HIDE DEF x, n
      <4> QED
        BY <1>1, <1>2
    <3> QED
      BY <3>1
  <2>7. Len(gs) = (Len(s) - 1) \div S + 1
    <3>1. (Len(s) - 1) \div S = m
      BY <2>5, <2>6
    <3> QED
      BY <2>2, <3>1
  <2>8. ASSUME NEW c \in 1 .. Len(gs)
        PROVE  /\ Len(gs[c]) \in 1 .. S
               /\ Len(gs[c]) = IF c < Len(gs) THEN S ELSE Len(s) - (c - 1) * S
    <3>1. CASE c \in 1 .. m
      <4>1. gs[c] = fs[c] /\ Len(fs[c]) = S
        BY <1>1, <2>2, <3>1
      <4>2. c < Len(gs)
        <5> HIDE DEF gs, m
        <5> QED
          BY <1>2, <2>2, <3>1
      <4> HIDE DEF gs
      <4> QED
        BY <4>1, <4>2
    <3>2. CASE c \notin 1 .. m
      <4>1. c = m + 1
        <5> HIDE DEF gs, m
        <5> QED
          BY <1>2, <2>2, <3>2
      <4>2. (c - 1) * S = x
        <5>1. c - 1 = m
          <6> HIDE DEF m
          <6> QED
            BY <1>2, <4>1
        <5> QED
          BY <5>1
      <4>3. Len(s) - x = n
        <5> HIDE DEF x, n
        <5> QED
          BY <1>1, <1>2
      <4>4. Len(gs[c]) = n /\ Len(gs) = c
        BY <2>2, <4>1
      <4>5. n \in 1 .. S
        <5> HIDE DEF n
        <5> QED
          BY <1>1, <1>2, <2>1
      <4> HIDE DEF gs, n, x
      <4> QED
        BY <4>2, <4>3, <4>4, <4>5
    <3> QED
      BY <3>1, <3>2
  <2>9. r.files = gs /\ r.buffer = <<>>
    BY <2>1
  <2> HIDE DEF r, fs, gs
  <2>10. IsClosed(r, s, S, V)
    BY <2>2, <2>3, <2>7, <2>8, <2>9 DEF IsClosed
  <2> QED
    BY <2>10 DEF r
<1> QED
  BY <1>3, <1>4

-----------------------------------------------------------------------------
(* The key at a position; a kit is <<input, code_of_byte, B, k>>.          *)
KeyOf(kit, q) == KeyAt(kit[1], kit[2], kit[3], kit[4], q)

(* Of the first m positions, those with a key, and those with a smaller one*)
Keyed(kit, m, K) == {q \in 0 .. m - 1 : KeyOf(kit, q) = K}
Below(kit, m, K) == {q \in 0 .. m - 1 : KeyOf(kit, q) < K}

LEMMA CountsType ==
  ASSUME NEW kit, NEW m \in Nat, NEW K
  PROVE  /\ IsFiniteSet(Keyed(kit, m, K)) /\ Cardinality(Keyed(kit, m, K)) \in 0 .. m
         /\ IsFiniteSet(Below(kit, m, K)) /\ Cardinality(Below(kit, m, K)) \in 0 .. m
<1>1. IsFiniteSet(0 .. m - 1) /\ Cardinality(0 .. m - 1) = m
  <2> DEFINE top == m - 1
  <2>1. top \in Int /\ 0 \in Int
    OBVIOUS
  <2> HIDE DEF top
  <2>2. IsFiniteSet(0 .. top) /\ Cardinality(0 .. top) = IF 0 > top THEN 0 ELSE top - 0 + 1
    BY <2>1, FS_Interval
  <2> QED
    BY <2>2 DEF top
<1>2. Keyed(kit, m, K) \subseteq 0 .. m - 1 /\ Below(kit, m, K) \subseteq 0 .. m - 1
  BY DEF Keyed, Below
<1>3. ASSUME NEW S, S \subseteq 0 .. m - 1
      PROVE  IsFiniteSet(S) /\ Cardinality(S) \in 0 .. m
  <2>1. IsFiniteSet(S) /\ Cardinality(S) <= m
    BY <1>1, <1>3, FS_Subset
  <2>2. Cardinality(S) \in Nat
    BY <2>1, FS_CardinalityType
  <2> QED
    BY <2>1, <2>2
<1> QED
  BY <1>2, <1>3

(* One position more counts for its own key.                               *)
LEMMA KeyedGrows ==
  ASSUME NEW kit, NEW m \in Nat, NEW K
  PROVE  Cardinality(Keyed(kit, m + 1, K)) =
           Cardinality(Keyed(kit, m, K)) + (IF KeyOf(kit, m) = K THEN 1 ELSE 0)
<1> DEFINE old == Keyed(kit, m, K)
           new == Keyed(kit, m + 1, K)
<1>1. IsFiniteSet(old) /\ Cardinality(old) \in Nat
  BY CountsType
<1>2. CASE KeyOf(kit, m) = K
  <2>1. new = old \cup {m} /\ m \notin old
    BY <1>2 DEF Keyed
  <2> HIDE DEF old, new
  <2>2. Cardinality(old \cup {m}) = Cardinality(old) + 1
    BY <1>1, <2>1, FS_AddElement
  <2>3. Cardinality(new) = Cardinality(old) + 1
    BY <2>1, <2>2
  <2> QED
    BY <1>2, <2>3 DEF old, new
<1>3. CASE KeyOf(kit, m) # K
  <2>1. new = old
    BY <1>3 DEF Keyed
  <2> HIDE DEF old, new
  <2>2. Cardinality(new) = Cardinality(old) + 0
    BY <1>1, <2>1
  <2> QED
    BY <1>3, <2>2 DEF old, new
<1> QED
  BY <1>2, <1>3

(* One key more takes in the positions that have it.                       *)
LEMMA BelowGrows ==
  ASSUME NEW kit, NEW m \in Nat, NEW K \in Nat, \A q \in Nat : KeyOf(kit, q) \in Nat
  PROVE  Cardinality(Below(kit, m, K + 1)) = Cardinality(Below(kit, m, K)) + Cardinality(Keyed(kit, m, K))
<1> DEFINE a == Below(kit, m, K)
           b == Keyed(kit, m, K)
           c == Below(kit, m, K + 1)
<1>1. IsFiniteSet(a) /\ IsFiniteSet(b) /\ Cardinality(a) \in Nat /\ Cardinality(b) \in Nat
  BY CountsType
<1>2. \A q \in 0 .. m - 1 : KeyOf(kit, q) \in Nat
  OBVIOUS
<1>3. \A q \in 0 .. m - 1 : KeyOf(kit, q) < K + 1 <=> KeyOf(kit, q) < K \/ KeyOf(kit, q) = K
  BY <1>2
<1>4. c = a \cup b
  BY <1>3 DEF Below, Keyed
<1>5. a \cap b = {}
  BY <1>2 DEF Below, Keyed
<1> HIDE DEF a, b, c
<1>6. Cardinality(a \cup b) = Cardinality(a) + Cardinality(b) - Cardinality(a \cap b)
  BY <1>1, FS_Union
<1>7. Cardinality({}) = 0
  BY FS_EmptySet
<1>8. Cardinality(c) = Cardinality(a) + Cardinality(b)
  BY <1>1, <1>4, <1>5, <1>6, <1>7
<1> QED
  BY <1>8 DEF a, b, c

(* The cumulative sum of the histogram counts the smaller keys.            *)
LEMMA BucketStarts ==
  ASSUME NEW kit, NEW m \in Nat, NEW h \in Nat \ {0},
         counts = [K \in 0 .. h - 1 |-> Cardinality(Keyed(kit, m, K))],
         \A q \in Nat : KeyOf(kit, q) \in Nat
  PROVE  BucketStart = [K \in 0 .. h - 1 |-> Cardinality(Below(kit, m, K))]
<1> DEFINE g == [K \in 0 .. h - 1 |-> Cardinality(Below(kit, m, K))]
           Body(f, K) == IF K = 0 THEN 0 ELSE f[K - 1] + counts[K - 1]
           Is(f) == f = [K \in DOMAIN counts |-> Body(f, K)]
<1>1. DOMAIN counts = 0 .. h - 1
  OBVIOUS
<1>3. g[0] = 0
  <2>1. Below(kit, m, 0) = {}
    <3>1. \A q \in 0 .. m - 1 : ~ (KeyOf(kit, q) < 0)
      OBVIOUS
    <3> QED
      BY <3>1 DEF Below
  <2>2. 0 \in 0 .. h - 1
    OBVIOUS
  <2>3. g[0] = Cardinality(Below(kit, m, 0))
    BY <2>2
  <2> HIDE DEF g
  <2> QED
    BY <2>1, <2>3, FS_EmptySet
<1>4. ASSUME NEW K \in 0 .. h - 1, K # 0 PROVE g[K] = g[K - 1] + counts[K - 1]
  <2>1. K - 1 \in Nat /\ K - 1 \in 0 .. h - 1 /\ (K - 1) + 1 = K
    BY <1>4
  <2> DEFINE J == K - 1
  <2>2. Cardinality(Below(kit, m, J + 1)) = Cardinality(Below(kit, m, J)) + Cardinality(Keyed(kit, m, J))
    BY <2>1, BelowGrows
  <2>3. g[K] = Cardinality(Below(kit, m, J + 1))
    BY <2>1
  <2>4. g[J] = Cardinality(Below(kit, m, J)) /\ counts[J] = Cardinality(Keyed(kit, m, J))
    BY <2>1
  <2> HIDE DEF g
  <2> QED
    BY <2>2, <2>3, <2>4
<1>5. Is(g)
  <2>1. \A K \in 0 .. h - 1 : g[K] = Body(g, K)
    <3> HIDE DEF g
    <3> QED
      BY <1>3, <1>4
  <2>2. g = [K \in 0 .. h - 1 |-> g[K]]
    OBVIOUS
  <2> HIDE DEF g, Body
  <2> QED
    BY <1>1, <2>1, <2>2
<1> DEFINE f == CHOOSE f : Is(f)
<1>6. Is(f)
  BY <1>5
<1>7. BucketStart = f
  BY DEF BucketStart
<1> HIDE DEF g
<1>8. f = [K \in 0 .. h - 1 |-> Body(f, K)]
  BY <1>1, <1>6
<1> HIDE DEF f
<1>9. /\ \A K \in 0 .. h - 1 : f[K] = Body(f, K)
      /\ f = [K \in 0 .. h - 1 |-> f[K]]
  <2> HIDE DEF Body
  <2>1. \A K \in 0 .. h - 1 : f[K] = Body(f, K)
    BY <1>8
  <2>2. [K \in 0 .. h - 1 |-> Body(f, K)] = [K \in 0 .. h - 1 |-> f[K]]
    BY <2>1
  <2> QED
    BY <1>8, <2>1, <2>2
<1> DEFINE T == {K \in Nat : K < h => f[K] = g[K]}
<1>10. 0 \in T
  <2>1. 0 \in 0 .. h - 1
    OBVIOUS
  <2>2. f[0] = 0
    BY <1>9, <2>1
  <2> QED
    BY <1>3, <2>2
<1>11. ASSUME NEW K \in Nat, K \in T PROVE K + 1 \in T
  <2>1. SUFFICES ASSUME K + 1 < h PROVE f[K + 1] = g[K + 1]
    OBVIOUS
  <2>2. K + 1 \in 0 .. h - 1 /\ K + 1 # 0 /\ (K + 1) - 1 = K /\ K < h
    BY <2>1
  <2>3. g[K + 1] = g[(K + 1) - 1] + counts[(K + 1) - 1]
    BY <1>4, <2>2
  <2>4. f[K + 1] = f[(K + 1) - 1] + counts[(K + 1) - 1]
    BY <1>9, <2>2
  <2>5. f[K] = g[K]
    BY <1>11, <2>2
  <2> QED
    BY <2>2, <2>3, <2>4, <2>5
<1> HIDE DEF T
<1>12. Nat \subseteq T
  BY <1>10, <1>11, Induction
<1>13. \A K \in 0 .. h - 1 : f[K] = g[K]
  <2>1. \A K \in Nat : K < h => f[K] = g[K]
    BY <1>12 DEF T
  <2>2. \A K \in 0 .. h - 1 : K \in Nat /\ K < h
    OBVIOUS
  <2> QED
    BY <2>1, <2>2
<1>14. g = [K \in 0 .. h - 1 |-> g[K]]
  BY DEF g
<1>15. f = g
  BY <1>9, <1>13, <1>14
<1> QED
  BY <1>7, <1>15 DEF g

(* Rank 0 is the sentinel's, and a real position has one more than the     *)
(* positions of the input with a smaller key.                              *)
LEMMA KmerRank ==
  ASSUME NEW text \in CodedText, NEW kit, kit[4] \in Nat \ {0},
         \A p, q \in Nat : KeyOf(kit, p) < KeyOf(kit, q) <=> PrefixLess(text, kit[4], p, q)
  PROVE  /\ PrefixRank(text, kit[4], Len(text)) = 0
         /\ \A p \in 0 .. Len(text) - 1 :
              PrefixRank(text, kit[4], p) = 1 + Cardinality(Below(kit, Len(text), KeyOf(kit, p)))
<1> DEFINE n == Len(text)
           l == kit[4]
<1>1. n \in Nat /\ Positions(text) = 0 .. n /\ l \in Nat \ {0}
  BY PositionsType
<1> HIDE DEF n, l
<1>2. \A q \in Positions(text) : ~ PrefixLess(text, l, q, n)
  <2>1. SUFFICES ASSUME NEW q \in Positions(text), NEW d \in 0 .. l - 1,
                        Symbol(text, q + d) < Symbol(text, n + d)
                 PROVE  FALSE
    BY DEF PrefixLess
  <2>2. q + d \in Nat /\ n + d \in Nat /\ n + d >= n
    BY <1>1
  <2>3. Symbol(text, q + d) \in Nat /\ Symbol(text, n + d) = 0
    BY <2>2, SymbolType DEF n
  <2> QED
    BY <2>1, <2>3
<1>3. PrefixRank(text, l, n) = 0
  <2>1. {q \in Positions(text) : PrefixLess(text, l, q, n)} = {}
    BY <1>2
  <2> QED
    BY <2>1, FS_EmptySet DEF PrefixRank
<1>4. ASSUME NEW p \in 0 .. n - 1
      PROVE  PrefixRank(text, l, p) = 1 + Cardinality(Below(kit, n, KeyOf(kit, p)))
  <2> DEFINE K == KeyOf(kit, p)
             smaller == {q \in Positions(text) : PrefixLess(text, l, q, p)}
             below == Below(kit, n, K)
  <2>1. PrefixLess(text, l, n, p)
    <3>1. n + 0 \in Nat /\ p + 0 \in Nat /\ n + 0 >= n /\ ~ (p + 0 >= n)
      BY <1>1, <1>4
    <3>2. Symbol(text, n + 0) = 0 /\ Symbol(text, p + 0) \in Nat /\ Symbol(text, p + 0) # 0
      BY <3>1, SymbolType DEF n
    <3>3. Symbol(text, n + 0) < Symbol(text, p + 0)
      BY <3>2
    <3>4. PrefixEq(text, 0, n, p) /\ 0 \in 0 .. l - 1
      BY <1>1 DEF PrefixEq
    <3> QED
      BY <3>3, <3>4 DEF PrefixLess
  <2>2. ASSUME NEW q \in 0 .. n - 1
        PROVE  q \in smaller <=> q \in below
    <3>1. q \in Nat /\ p \in Nat /\ q \in Positions(text)
      BY <1>1, <1>4
    <3>2. KeyOf(kit, q) < K <=> PrefixLess(text, l, q, p)
      BY <3>1 DEF l
    <3> QED
      BY <3>1, <3>2 DEF Below
  <2>3. n \in smaller /\ n \notin below
    BY <1>1, <2>1 DEF Below
  <2>4. smaller \subseteq 0 .. n /\ below \subseteq 0 .. n - 1
    BY <1>1 DEF Below
  <2>5. \A q \in 0 .. n : q = n \/ q \in 0 .. n - 1
    BY <1>1
  <2>6. PrefixRank(text, l, p) = Cardinality(smaller)
    BY DEF PrefixRank
  <2> HIDE DEF smaller, K
  <2>7. IsFiniteSet(below) /\ Cardinality(below) \in Nat
    BY <1>1, CountsType
  <2> HIDE DEF below
  <2>8. \A q : q \in smaller <=> q \in below \cup {n}
    <3>1. ASSUME NEW q \in smaller PROVE q \in below \cup {n}
      BY <2>2, <2>4, <2>5
    <3>2. ASSUME NEW q \in below PROVE q \in smaller
      BY <2>2, <2>4
    <3> QED
      BY <2>3, <3>1, <3>2
  <2>9. smaller = below \cup {n}
    BY <2>8
  <2>10. Cardinality(below \cup {n}) = Cardinality(below) + 1
    BY <2>3, <2>7, FS_AddElement
  <2>11. Cardinality(smaller) = 1 + Cardinality(below)
    BY <2>7, <2>9, <2>10
  <2> QED
    BY <2>6, <2>11 DEF below, K
<1> QED
  BY <1>3, <1>4 DEF n, l

(* A rank is at most the number of the other positions.                    *)
LEMMA RankBound ==
  ASSUME NEW text \in CodedText, NEW l \in Nat, NEW p \in Positions(text)
  PROVE  PrefixRank(text, l, p) \in 0 .. Len(text)
<1> DEFINE n == Len(text)
           smaller == {q \in Positions(text) : PrefixLess(text, l, q, p)}
<1>1. n \in Nat /\ Positions(text) = 0 .. n /\ IsFiniteSet(Positions(text))
  BY PositionsType
<1>2. PrefixRank(text, l, p) \in Nat /\ PrefixRank(text, l, p) = Cardinality(smaller)
  BY PrefixRankType DEF PrefixRank
<1>3. p \notin smaller
  <2>1. p \in Nat
    BY <1>1
  <2> QED
    BY <2>1, NoInversion
<1>4. smaller \subseteq Positions(text) \ {p}
  BY <1>3
<1>5. Cardinality(Positions(text)) = n + 1
  <2>1. Cardinality(0 .. n) = n + 1
    <3>1. Cardinality(0 .. n) = IF 0 > n THEN 0 ELSE n - 0 + 1
      BY <1>1, FS_Interval
    <3> QED
      BY <1>1, <3>1
  <2> QED
    BY <1>1, <2>1
<1>6. IsFiniteSet(Positions(text) \ {p}) /\ Cardinality(Positions(text) \ {p}) = n
  <2>1. /\ IsFiniteSet(Positions(text) \ {p})
        /\ Cardinality(Positions(text) \ {p}) = Cardinality(Positions(text)) - 1
    BY <1>1, FS_RemoveElement
  <2> QED
    BY <1>1, <1>5, <2>1
<1> HIDE DEF smaller, n
<1>7. Cardinality(smaller) <= n
  BY <1>4, <1>6, FS_Subset
<1> QED
  BY <1>1, <1>2, <1>7 DEF n

-----------------------------------------------------------------------------
(* The recursion gives the power there is.                                 *)
LEMMA PowerKnown ==
  ASSUME NEW b \in Nat \ {0}, NEW n \in Nat, NEW size, IsPower(b, n, size)
  PROVE  KmersOf(b, n) = size
<1>1. PICK P : IsPowers(b, n, P) /\ P[n] = size
  BY DEF IsPower
<1> DEFINE Body(f, j) == IF j = 0 THEN 1 ELSE f[j - 1] * b
           Is(f) == f = [j \in 0 .. n |-> Body(f, j)]
           f == CHOOSE f : Is(f)
<1>2. /\ P = [j \in 0 .. n |-> P[j]] /\ P[0] = 1
      /\ \A j \in 0 .. n - 1 : P[j + 1] = P[j] * b
  BY <1>1 DEF IsPowers
<1>3. \A j \in 0 .. n : P[j] = Body(P, j)
  <2>1. SUFFICES ASSUME NEW j \in 0 .. n, j # 0 PROVE P[j] = P[j - 1] * b
    BY <1>2
  <2>2. j - 1 \in 0 .. n - 1 /\ (j - 1) + 1 = j
    BY <2>1
  <2>3. P[(j - 1) + 1] = P[j - 1] * b
    BY <1>2, <2>2
  <2> QED
    BY <2>2, <2>3
<1>4. Is(P)
  <2> HIDE DEF Body
  <2>1. [j \in 0 .. n |-> P[j]] = [j \in 0 .. n |-> Body(P, j)]
    BY <1>3
  <2> QED
    BY <1>2, <2>1
<1>5. Is(f)
  BY <1>4
<1>6. KmersOf(b, n) = f[n]
  BY DEF KmersOf
<1> HIDE DEF f
<1>7. \A j \in 0 .. n : f[j] = Body(f, j)
  <2> HIDE DEF Body
  <2> QED
    BY <1>5
<1> DEFINE T == {j \in Nat : j <= n => f[j] = P[j]}
<1>8. 0 \in T
  <2>1. f[0] = 1
    BY <1>7
  <2> QED
    BY <1>2, <2>1
<1>9. ASSUME NEW j \in Nat, j \in T PROVE j + 1 \in T
  <2>1. SUFFICES ASSUME j + 1 <= n PROVE f[j + 1] = P[j + 1]
    OBVIOUS
  <2>2. j + 1 \in 0 .. n /\ j + 1 # 0 /\ (j + 1) - 1 = j /\ j <= n
    BY <2>1
  <2>3. f[j + 1] = f[(j + 1) - 1] * b
    BY <1>7, <2>2
  <2>4. P[j + 1] = P[(j + 1) - 1] * b
    BY <1>3, <2>2
  <2>5. f[j] = P[j]
    BY <1>9, <2>2
  <2> QED
    BY <2>2, <2>3, <2>4, <2>5
<1> HIDE DEF T
<1>10. n \in T
  BY <1>8, <1>9, Induction
<1>11. f[n] = P[n]
  BY <1>10 DEF T
<1> QED
  BY <1>1, <1>6, <1>11

LEMMA PowerOfOne ==
  ASSUME NEW n \in Nat
  PROVE  IsPower(1, n, 1)
<1> DEFINE P == [j \in 0 .. n |-> 1]
<1>1. /\ P \in [0 .. n -> Nat \ {0}] /\ P[0] = 1 /\ P[n] = 1
      /\ \A j \in 0 .. n - 1 : P[j + 1] = P[j] * 1
  OBVIOUS
<1> HIDE DEF P
<1>2. IsPowers(1, n, P)
  BY <1>1 DEF IsPowers
<1> QED
  BY <1>1, <1>2 DEF IsPower

-----------------------------------------------------------------------------
(* What both passes have made of the input.                                *)
Kit == <<input, code_of_byte, B, k>>

InputLen == Len(input)

(* How many k-mers p symbols have completed, and how many of the symbols   *)
(* are the input's.                                                        *)
Emitted(length, p) == IF p >= length THEN p - length + 1 ELSE 0

FedBytes(p) == IF p < InputLen THEN p ELSE InputLen

XOf(m) == [i \in 1 .. m |-> XByte(input[i])]

RanksOf(m) == [j \in 1 .. m |-> PrefixRank(Text, k, j - 1)]

Coding ==
  pc \in {"search", "histogram", "ranks", "done"} =>
    Scanned /\ \A i \in 1 .. InputLen : input[i] <= MaxAllowedByte

Sized ==
  /\ B \in Nat \ {0} /\ k \in 0 .. KWrap - 1 /\ IsPower(B, k, hist_size)
  /\ pc \in {"scan", "failed"} => B = 1 /\ k = 1 /\ hist_size = 1
  /\ pc \in {"histogram", "ranks", "done"} => k # 0

Unstarted ==
  pc \in {"scan", "search", "failed"} =>
    /\ w = KWinReset(1) /\ counts = <<>> /\ X = NoOutput /\ ranks = NoOutput
    /\ pc # "search" => code_of_byte = <<>>

Rolled ==
  /\ pc \in {"histogram", "ranks"} => HoldsLast(w, input, code_of_byte, k) /\ w.p \in 0 .. Feeds
  /\ pc = "done" => w.p = Feeds /\ w.key \in Nat

Counted ==
  /\ pc = "histogram" =>
       counts = [K \in 0 .. hist_size - 1 |-> Cardinality(Keyed(Kit, Emitted(k, w.p), K))]
  /\ pc \in {"ranks", "done"} =>
       counts = [K \in 0 .. hist_size - 1 |-> Cardinality(Below(Kit, InputLen, K))]

WrittenX ==
  /\ pc = "histogram" => IsCut(X, XOf(FedBytes(w.p)), chunk_size, Bytes)
  /\ pc \in {"ranks", "done"} => IsClosed(X, Append(XOf(InputLen), 0), chunk_size, Bytes)

WrittenRanks ==
  /\ pc = "histogram" => ranks = NoOutput
  /\ pc = "ranks" => IsCut(ranks, RanksOf(Emitted(k, w.p)), chunk_size, 0 .. InputLen)
  /\ pc = "done" => IsClosed(ranks, RanksOf(InputLen + 1), chunk_size, 0 .. InputLen)

(* The histogram and the files are those of the symbols fed so far.        *)
Ranked == Coding /\ Sized /\ Unstarted /\ Rolled /\ Counted /\ WrittenX /\ WrittenRanks

LEMMA InitRanked ==
  ASSUME Init, \A S \in ChunkSizes : S < KWrap
  PROVE  Ranked
<1>1. chunk_size \in Nat \ {0} /\ chunk_size < KWrap /\ KWrap \in Nat
  BY ChunkSizesAssumption, KWrapAssumption DEF Init
<1>2. 1 \in 0 .. KWrap - 1
  BY <1>1
<1>3. IsPower(1, 1, 1)
  BY PowerOfOne
<1>4. Sized
  BY <1>2, <1>3 DEF Init, Sized
<1> QED
  BY <1>4 DEF Init, Ranked, Coding, Unstarted, Rolled, Counted, WrittenX, WrittenRanks

LEMMA InputIsBytes ==
  ASSUME IInv
  PROVE  input \in Seq(Bytes) /\ chunk_size \in Nat \ {0} /\ KWrap \in Nat \ {0}
  BY InputsAssumption, ChunkSizesAssumption, KWrapAssumption DEF IInv, Bytes

LEMMA ScanRanked ==
  ASSUME IInv, Ranked, Scan
  PROVE  Ranked'
<1>1. /\ pc = "scan" /\ B = 1 /\ k = 1 /\ hist_size = 1
      /\ k' = k /\ input' = input /\ chunk_size' = chunk_size
      /\ w' = w /\ counts' = counts /\ X' = X /\ ranks' = ranks
      /\ w = KWinReset(1) /\ counts = <<>> /\ X = NoOutput /\ ranks = NoOutput /\ code_of_byte = <<>>
  BY DEF Scan, Ranked, Sized, Unstarted
<1>2. Sized
  BY DEF Ranked
<1>3. CASE \E byte \in Range(input) : TooLarge(byte)
  <2>1. pc' = "failed" /\ code_of_byte' = code_of_byte /\ B' = B /\ hist_size' = hist_size
    BY <1>3 DEF Scan
  <2>2. Sized'
    BY <1>1, <1>2, <2>1 DEF Sized
  <2>3. Unstarted'
    BY <1>1, <2>1 DEF Unstarted
  <2> QED
    BY <2>1, <2>2, <2>3 DEF Ranked, Coding, Rolled, Counted, WrittenX, WrittenRanks
<1>4. CASE ~ \E byte \in Range(input) : TooLarge(byte)
  <2>1. /\ pc' = "search"
        /\ code_of_byte' = [byte \in Range(input) |-> DenseCode(byte)]
        /\ B' = Cardinality(Range(input)) + 1 /\ hist_size' = B'
    BY <1>4 DEF Scan
  <2>2. input \in Seq(Bytes)
    BY InputIsBytes
  <2>3. Scanned'
    <3>1. ScannedAs(input, code_of_byte', B')
      BY <2>1, <2>2 DEF ScannedAs, DenseCode
    <3> QED
      BY <1>1, <3>1 DEF Scanned
  <2>4. B' \in Nat \ {0}
    <3>1. Cardinality(Range(input)) \in Nat
      BY <2>2, CodesAreDigits DEF Bytes
    <3> QED
      BY <2>1, <3>1
  <2>5. \A i \in 1 .. InputLen : input[i] <= MaxAllowedByte
    <3>1. SUFFICES ASSUME NEW i \in 1 .. Len(input) PROVE input[i] <= MaxAllowedByte
      BY DEF InputLen
    <3>2. DOMAIN input = 1 .. Len(input) /\ input[i] \in Bytes
      BY <2>2, TextType
    <3>3. input[i] \in Range(input)
      BY <3>2 DEF Range
    <3>4. ~ (input[i] > MaxAllowedByte)
      BY <1>4, <3>3 DEF TooLarge
    <3> DEFINE byte == input[i]
    <3>5. byte \in Nat /\ ~ (byte > MaxAllowedByte)
      BY <3>2, <3>4, BytesType
    <3> HIDE DEF byte
    <3>6. byte <= MaxAllowedByte
      BY <3>5 DEF MaxAllowedByte
    <3> QED
      BY <3>6 DEF byte
  <2>6. Coding'
    BY <1>1, <2>1, <2>3, <2>5 DEF Coding, InputLen
  <2>7. IsPower(B', 1, B')
    BY <2>4, FirstPower
  <2>8. Sized'
    BY <1>1, <1>2, <2>1, <2>4, <2>7 DEF Sized
  <2>9. Unstarted'
    BY <1>1, <2>1 DEF Unstarted
  <2> QED
    BY <2>1, <2>6, <2>8, <2>9 DEF Ranked, Rolled, Counted, WrittenX, WrittenRanks
<1> QED
  BY <1>3, <1>4

LEMMA GrowKRanked ==
  ASSUME IInv, Ranked, GrowK, IInv'
  PROVE  Ranked'
<1>1. /\ pc = "search" /\ pc' = pc /\ hist_size' = hist_size * B /\ k' = (k + 1) % KWrap
      /\ input' = input /\ chunk_size' = chunk_size /\ code_of_byte' = code_of_byte /\ B' = B
      /\ w' = w /\ counts' = counts /\ X' = X /\ ranks' = ranks
  BY DEF GrowK
<1>2. B \in Nat \ {0} /\ k \in Nat /\ KWrap \in Nat \ {0}
  BY InputIsBytes DEF Ranked, Sized
<1>3. k' \in 0 .. KWrap - 1
  <2>1. k + 1 \in Nat
    BY <1>2
  <2> QED
    BY <1>1, <1>2, <2>1, Division
<1>4. IsPower(B', k', hist_size')
  <2>1. CASE B = 1
    <3>1. hist_size = 1
      BY <1>1, <2>1 DEF IInv, Coded
    <3>2. hist_size' = 1 /\ k' \in Nat
      BY <1>1, <1>3, <2>1, <3>1
    <3>3. IsPower(1, k', 1)
      BY <3>2, PowerOfOne
    <3> QED
      BY <1>1, <2>1, <3>2, <3>3
  <2>2. CASE B # 1
    BY <1>1, <2>2 DEF IInv, Coded
  <2> QED
    BY <2>1, <2>2
<1>5. Sized'
  BY <1>1, <1>2, <1>3, <1>4 DEF Sized
<1>6. Coding'
  BY <1>1 DEF Ranked, Coding, Scanned, InputLen
<1>7. Unstarted'
  BY <1>1 DEF Ranked, Unstarted
<1> QED
  BY <1>1, <1>5, <1>6, <1>7 DEF Ranked, Rolled, Counted, WrittenX, WrittenRanks

LEMMA EndSearchRanked ==
  ASSUME IInv, Ranked, EndSearch, IInv'
  PROVE  Ranked'
<1>1. /\ pc = "search" /\ pc' = "histogram" /\ hist_size' = hist_size /\ k' = k
      /\ input' = input /\ chunk_size' = chunk_size /\ code_of_byte' = code_of_byte /\ B' = B
      /\ w' = KWinReset(k) /\ counts' = [K \in 0 .. hist_size - 1 |-> 0]
      /\ X' = X /\ ranks' = ranks
  BY DEF EndSearch
<1>2. /\ B \in Nat \ {0} /\ k \in 0 .. KWrap - 1 /\ IsPower(B, k, hist_size) /\ KWrap \in Nat
      /\ X = NoOutput /\ ranks = NoOutput
  BY <1>1, InputIsBytes DEF Ranked, Sized, Unstarted
<1>3. k # 0 /\ k \in Nat \ {0}
  <2>1. B' # 1 /\ k' # 0
    BY <1>1 DEF IInv, Coded, Searched
  <2> QED
    BY <1>1, <1>2, <2>1
<1>4. /\ input \in Seq(Bytes) /\ chunk_size \in Nat \ {0}
      /\ InputLen \in Nat
  BY InputIsBytes, TextType DEF InputLen
<1>5. w'.p = 0
  BY <1>1 DEF KWinReset
<1>6. Sized'
  BY <1>1, <1>2, <1>3 DEF Sized
<1>7. Coding'
  BY <1>1 DEF Ranked, Coding, Scanned, InputLen
<1>8. Rolled'
  <2>1. HoldsLast(KWinReset(k), input, code_of_byte, k)
    BY <1>3, ResetHolds
  <2>2. 0 \in 0 .. Feeds'
    BY <1>1, <1>3, <1>4 DEF Feeds, InputLen
  <2> QED
    BY <1>1, <1>5, <2>1, <2>2 DEF Rolled
<1>9. Counted'
  <2>1. Emitted(k, 0) = 0
    BY <1>3 DEF Emitted
  <2>2. Cardinality({}) = 0
    BY FS_EmptySet
  <2>3. \A K : Cardinality(Keyed(Kit', 0, K)) = 0
    BY <2>2 DEF Keyed
  <2>4. counts' = [K \in 0 .. hist_size - 1 |-> Cardinality(Keyed(Kit', 0, K))]
    BY <1>1, <2>3
  <2> QED
    BY <1>1, <1>5, <2>1, <2>4 DEF Counted
<1>10. WrittenX'
  <2>1. FedBytes(0) = 0
    BY <1>4 DEF FedBytes
  <2>2. XOf(0) = <<>>
    BY DEF XOf
  <2>3. IsCut(NoOutput, <<>>, chunk_size, Bytes)
    BY <1>4, NothingCut
  <2>4. IsCut(X', XOf(FedBytes(0)), chunk_size, Bytes)
    BY <1>1, <1>2, <2>1, <2>2, <2>3
  <2>5. XOf(FedBytes(0))' = XOf(FedBytes(0))
    BY <1>1 DEF XOf, FedBytes, InputLen
  <2>6. XOf(FedBytes(w.p))' = XOf(FedBytes(0))'
    BY <1>5
  <2>7. IsCut(X', XOf(FedBytes(w.p))', chunk_size', Bytes)
    BY <1>1, <2>4, <2>5, <2>6
  <2> QED
    BY <1>1, <2>7 DEF WrittenX
<1>11. WrittenRanks' /\ Unstarted'
  BY <1>1, <1>2 DEF WrittenRanks, Unstarted
<1> QED
  BY <1>6, <1>7, <1>8, <1>9, <1>10, <1>11 DEF Ranked

(* Keys order the positions as prefixes of k symbols do.                   *)
LEMMA KeysKnown ==
  ASSUME IInv, Ranked, pc \in {"histogram", "ranks", "done"}
  PROVE  /\ k \in Nat \ {0} /\ chunk_size \in Nat \ {0}
         /\ Text \in CodedText /\ Len(Text) = InputLen /\ InputLen \in Nat
         /\ \A i \in 1 .. InputLen : Text[i] = input[i] + 1 /\ input[i] \in Bytes /\ input[i] <= MaxAllowedByte
         /\ \A q \in Nat : KeyOf(Kit, q) \in Nat
         /\ \A p, q \in Nat : KeyOf(Kit, p) < KeyOf(Kit, q) <=> PrefixLess(Text, k, p, q)
<1>1. k \in Nat \ {0} /\ KWrap \in Nat /\ chunk_size \in Nat \ {0} /\ input \in Seq(Bytes)
  BY InputIsBytes DEF Ranked, Sized
<1>2. Scanned /\ \A i \in 1 .. InputLen : input[i] <= MaxAllowedByte
  BY DEF Ranked, Coding
<1>3. /\ Text \in CodedText /\ Len(Text) = InputLen /\ InputLen \in Nat
      /\ \A i \in 1 .. InputLen : Text[i] = input[i] + 1 /\ input[i] \in Bytes
  BY <1>1, TextType DEF InputLen
<1>4. /\ B \in Nat \ {0} /\ Digits(input, code_of_byte, B)
      /\ CodesOrder(input, code_of_byte, Text)
  BY <1>2, CodesOrdered
<1>5. \A p, q \in Nat :
        /\ KeyAt(input, code_of_byte, B, k, p) \in Nat
        /\ KeyAt(input, code_of_byte, B, k, p) < KeyAt(input, code_of_byte, B, k, q)
             <=> PrefixLess(Text, k, p, q)
  BY <1>1, <1>3, <1>4, KeysCompare
<1>6. \A q : KeyOf(Kit, q) = KeyAt(input, code_of_byte, B, k, q)
  BY DEF KeyOf, Kit
<1> QED
  BY <1>1, <1>2, <1>3, <1>5, <1>6

(* One symbol more.                                                        *)
LEMMA Feeding ==
  ASSUME IInv, Ranked, pc \in {"histogram", "ranks"}, w.p < Feeds,
         NEW next, next = KWinFeed(w, NextCode)
  PROVE  /\ w.p \in Nat /\ next.p = w.p + 1 /\ next.p \in 0 .. Feeds
         /\ HoldsLast(next, input, code_of_byte, k)
         /\ Emits(next) =>
              /\ Emitted(k, w.p) \in 0 .. InputLen - 1
              /\ Emitted(k, next.p) = Emitted(k, w.p) + 1
              /\ next.key = KeyOf(Kit, Emitted(k, w.p))
              /\ next.key \in 0 .. hist_size - 1
         /\ ~ Emits(next) => Emitted(k, next.p) = 0 /\ Emitted(k, w.p) = 0
<1>1. /\ k \in Nat \ {0} /\ InputLen \in Nat /\ Text \in CodedText
  BY KeysKnown
<1>2. HoldsLast(w, input, code_of_byte, k) /\ w.p \in 0 .. Feeds /\ Feeds = InputLen + k - 1
  BY DEF Ranked, Rolled, Feeds, InputLen
<1>3. /\ B \in Nat \ {0} /\ Digits(input, code_of_byte, B)
      /\ CodesOrder(input, code_of_byte, Text)
  BY CodesOrdered DEF Ranked, Coding
<1>4. /\ IsWindow(w, B, k) /\ IsWindow(next, B, k) /\ IsPower(B, k, hist_size)
  BY NextCodeType
<1>5. w.p \in Nat /\ w.ring \in Rings(B, k)
  BY <1>4 DEF IsWindow
<1>6. NextCode = Digit(input, code_of_byte, w.p)
  BY <1>5 DEF NextCode, Digit
<1>7. HoldsLast(next, input, code_of_byte, k) /\ next.p = w.p + 1
  BY <1>1, <1>2, <1>5, <1>6, FedHolds
<1>8. next.p \in 0 .. Feeds
  BY <1>1, <1>2, <1>5, <1>7
<1>9. next.p >= k => next.key = KeyAt(input, code_of_byte, B, k, next.p - k)
  BY <1>1, <1>3, <1>4, <1>7, WindowIsKmer
<1>10. Emits(next) <=> next.p >= k
  BY DEF Emits
<1>11. ASSUME next.p >= k
       PROVE  /\ Emitted(k, w.p) = next.p - k
              /\ Emitted(k, w.p) \in 0 .. InputLen - 1
              /\ Emitted(k, next.p) = Emitted(k, w.p) + 1
  BY <1>1, <1>2, <1>5, <1>7, <1>11 DEF Emitted
<1>12. \A q : KeyOf(Kit, q) = KeyAt(input, code_of_byte, B, k, q)
  BY DEF KeyOf, Kit
<1>13. next.key \in 0 .. hist_size - 1
  BY <1>1, <1>3, <1>4, WindowKey
<1>14. ASSUME ~ (next.p >= k)
       PROVE  Emitted(k, next.p) = 0 /\ Emitted(k, w.p) = 0
  BY <1>1, <1>5, <1>7, <1>14 DEF Emitted
<1> QED
  BY <1>5, <1>7, <1>8, <1>9, <1>10, <1>11, <1>12, <1>13, <1>14

LEMMA AppendIs ==
  ASSUME NEW V, NEW s \in Seq(V), NEW v \in V
  PROVE  Append(s, v) = [i \in 1 .. Len(s) + 1 |-> IF i = Len(s) + 1 THEN v ELSE s[i]]
<1> DEFINE t == Append(s, v)
           n == Len(s)
<1>1. /\ n \in Nat /\ t \in [1 .. n + 1 -> V] /\ t[n + 1] = v
      /\ \A i \in 1 .. n : t[i] = s[i]
  BY OneMore
<1> HIDE DEF t, n
<1>2. \A i \in 1 .. n + 1 : i = n + 1 \/ i \in 1 .. n
  BY <1>1
<1>3. \A i \in 1 .. n + 1 : t[i] = IF i = n + 1 THEN v ELSE s[i]
  BY <1>1, <1>2
<1>4. t = [i \in 1 .. n + 1 |-> t[i]]
  BY <1>1
<1>5. t = [i \in 1 .. n + 1 |-> IF i = n + 1 THEN v ELSE s[i]]
  BY <1>3, <1>4
<1> QED
  BY <1>5 DEF t, n

(* A sequence one longer that agrees with s and then holds v is Append(s, v). *)
LEMMA AppendIsThe ==
  ASSUME NEW V, NEW s \in Seq(V), NEW v \in V, NEW n, Len(s) = n,
         NEW t, t = [i \in 1 .. n + 1 |-> IF i = n + 1 THEN v ELSE s[i]]
  PROVE  t = Append(s, v)
BY AppendIs

(* One byte, or one rank, more.                                            *)
LEMMA OneByteMore ==
  ASSUME NEW m \in Nat, XOf(m) \in Seq(Bytes), XByte(input[m + 1]) \in Bytes
  PROVE  XOf(m + 1) = Append(XOf(m), XByte(input[m + 1]))
<1> DEFINE s == XOf(m)
           t == XOf(m + 1)
           v == XByte(input[m + 1])
<1>1. Len(s) = m /\ \A i \in 1 .. m : s[i] = XByte(input[i])
  BY DEF XOf
<1>2. DOMAIN t = 1 .. m + 1 /\ \A i \in 1 .. m + 1 : t[i] = XByte(input[i])
  BY DEF XOf
<1>3. t = [i \in 1 .. m + 1 |-> t[i]]
  BY DEF XOf
<1>4. \A i \in 1 .. m + 1 : t[i] = IF i = m + 1 THEN v ELSE s[i]
  <2>1. (m + 1) - 1 = m /\ \A i \in 1 .. m + 1 : i = m + 1 \/ i \in 1 .. m
    OBVIOUS
  <2> HIDE DEF s, t
  <2> QED
    BY <1>1, <1>2, <2>1
<1>5. s \in Seq(Bytes) /\ v \in Bytes
  OBVIOUS
<1> HIDE DEF s, t, v
<1>6. t = [i \in 1 .. m + 1 |-> IF i = m + 1 THEN v ELSE s[i]]
  BY <1>3, <1>4
<1>7. t = Append(s, v)
  BY <1>1, <1>5, <1>6, AppendIsThe
<1> QED
  BY <1>7 DEF s, t, v

LEMMA OneRankMore ==
  ASSUME NEW m \in Nat, NEW V, RanksOf(m) \in Seq(V), PrefixRank(Text, k, m) \in V
  PROVE  RanksOf(m + 1) = Append(RanksOf(m), PrefixRank(Text, k, m))
<1> DEFINE s == RanksOf(m)
           t == RanksOf(m + 1)
           v == PrefixRank(Text, k, m)
<1>1. Len(s) = m /\ \A i \in 1 .. m : s[i] = PrefixRank(Text, k, i - 1)
  BY DEF RanksOf
<1>2. DOMAIN t = 1 .. m + 1 /\ \A i \in 1 .. m + 1 : t[i] = PrefixRank(Text, k, i - 1)
  BY DEF RanksOf
<1>3. t = [i \in 1 .. m + 1 |-> t[i]]
  BY DEF RanksOf
<1>4. \A i \in 1 .. m + 1 : t[i] = IF i = m + 1 THEN v ELSE s[i]
  <2>1. (m + 1) - 1 = m /\ \A i \in 1 .. m + 1 : i = m + 1 \/ i \in 1 .. m
    OBVIOUS
  <2> HIDE DEF s, t
  <2> QED
    BY <1>1, <1>2, <2>1
<1>5. s \in Seq(V) /\ v \in V
  OBVIOUS
<1> HIDE DEF s, t, v
<1>6. t = [i \in 1 .. m + 1 |-> IF i = m + 1 THEN v ELSE s[i]]
  BY <1>3, <1>4
<1>7. t = Append(s, v)
  BY <1>1, <1>5, <1>6, AppendIsThe
<1> QED
  BY <1>7 DEF s, t, v

(* What a step of either pass leaves alone.                                *)
LEMMA PassKeeps ==
  ASSUME Ranked, pc \in {"histogram", "ranks", "done"}, pc' \in {"histogram", "ranks", "done"},
         UNCHANGED <<input, chunk_size, code_of_byte, B, k, hist_size>>
  PROVE  /\ Coding' /\ Sized' /\ Unstarted' /\ Kit' = Kit /\ InputLen' = InputLen /\ Feeds' = Feeds
         /\ \A m : XOf(m)' = XOf(m) /\ RanksOf(m)' = RanksOf(m)
<1>1. Coding'
  BY DEF Ranked, Coding, Scanned, InputLen
<1>2. Sized'
  BY DEF Ranked, Sized
<1>3. Unstarted'
  BY DEF Unstarted
<1>4. Kit' = Kit /\ InputLen' = InputLen /\ Feeds' = Feeds /\ Text' = Text
  BY DEF Kit, InputLen, Feeds, Text
<1>5. \A m : XOf(m)' = XOf(m) /\ RanksOf(m)' = RanksOf(m)
  BY <1>4 DEF XOf, RanksOf
<1> QED
  BY <1>1, <1>2, <1>3, <1>4, <1>5

LEMMA XByteType ==
  ASSUME NEW byte \in Bytes, byte <= MaxAllowedByte
  PROVE  XByte(byte) = byte + 1 /\ byte + 1 \in Bytes /\ byte + 2 < 256
<1>1. byte \in 0 .. 253
  BY DEF Bytes, MaxAllowedByte
<1>2. (1 + byte) % 256 = 1 + byte
  BY <1>1
<1> QED
  BY <1>1, <1>2 DEF XByte, Bytes

LEMMA CountKmerRanked ==
  ASSUME IInv, Ranked, CountKmer
  PROVE  Ranked'
<1>1. /\ pc = "histogram" /\ pc' = pc /\ w.p < Feeds /\ w' = KWinFeed(w, NextCode)
      /\ input' = input /\ chunk_size' = chunk_size /\ code_of_byte' = code_of_byte /\ B' = B
      /\ k' = k /\ hist_size' = hist_size /\ ranks' = ranks
      /\ X' = IF w.p < Len(input) THEN Appended(X, XByte(input[w.p + 1])) ELSE X
      /\ counts' = IF Emits(w') THEN [counts EXCEPT ![w'.key] = @ + 1] ELSE counts
  BY DEF CountKmer
<1>2. /\ Coding' /\ Sized' /\ Unstarted' /\ Kit' = Kit /\ InputLen' = InputLen /\ Feeds' = Feeds
      /\ \A m : XOf(m)' = XOf(m)
  BY <1>1, PassKeeps
<1>3. /\ w.p \in Nat /\ w'.p = w.p + 1 /\ w'.p \in 0 .. Feeds
      /\ HoldsLast(w', input, code_of_byte, k)
      /\ Emits(w') =>
           /\ Emitted(k, w.p) \in 0 .. InputLen - 1
           /\ Emitted(k, w'.p) = Emitted(k, w.p) + 1
           /\ w'.key = KeyOf(Kit, Emitted(k, w.p))
           /\ w'.key \in 0 .. hist_size - 1
      /\ ~ Emits(w') => Emitted(k, w'.p) = 0 /\ Emitted(k, w.p) = 0
  BY <1>1, Feeding
<1>4. /\ chunk_size \in Nat \ {0} /\ InputLen \in Nat
      /\ \A i \in 1 .. InputLen : input[i] \in Bytes /\ input[i] <= MaxAllowedByte
  BY <1>1, KeysKnown
<1>5. /\ counts = [K \in 0 .. hist_size - 1 |-> Cardinality(Keyed(Kit, Emitted(k, w.p), K))]
      /\ IsCut(X, XOf(FedBytes(w.p)), chunk_size, Bytes)
      /\ ranks = NoOutput
  BY <1>1 DEF Ranked, Counted, WrittenX, WrittenRanks
<1>6. Rolled'
  BY <1>1, <1>2, <1>3 DEF Rolled
<1>7. counts' = [K \in 0 .. hist_size - 1 |-> Cardinality(Keyed(Kit, Emitted(k, w'.p), K))]
  <2>1. CASE Emits(w')
    <3> DEFINE e == Emitted(k, w.p)
               key == w'.key
               Old(K) == Cardinality(Keyed(Kit, e, K))
               New(K) == Cardinality(Keyed(Kit, e + 1, K))
    <3>1. e \in Nat /\ key = KeyOf(Kit, e) /\ key \in 0 .. hist_size - 1 /\ Emitted(k, w'.p) = e + 1
      BY <1>3, <2>1
    <3> HIDE DEF e, key
    <3>2. \A K : New(K) = Old(K) + (IF key = K THEN 1 ELSE 0) /\ Old(K) \in Nat
      BY <3>1, KeyedGrows, CountsType
    <3>3. counts = [K \in 0 .. hist_size - 1 |-> Old(K)] /\ counts' = [counts EXCEPT ![key] = @ + 1]
      BY <1>1, <1>5, <2>1 DEF e, key
    <3> HIDE DEF Old, New
    <3>4. counts' = [K \in 0 .. hist_size - 1 |-> IF key = K THEN Old(K) + 1 ELSE Old(K)]
      BY <3>1, <3>3
    <3>5. \A K : New(K) = IF key = K THEN Old(K) + 1 ELSE Old(K)
      BY <3>2
    <3>6. counts' = [K \in 0 .. hist_size - 1 |-> New(K)]
      BY <3>4, <3>5
    <3> QED
      BY <3>1, <3>6 DEF New
  <2>2. CASE ~ Emits(w')
    BY <1>1, <1>3, <1>5, <2>2
  <2> QED
    BY <2>1, <2>2
<1>8. Counted'
  BY <1>1, <1>2, <1>7 DEF Counted
<1>9. IsCut(X', XOf(FedBytes(w'.p)), chunk_size, Bytes)
  <2> DEFINE p == w.p
  <2>1. CASE p < InputLen
    <3>1. FedBytes(p) = p /\ FedBytes(p + 1) = p + 1 /\ p \in Nat /\ p + 1 \in 1 .. InputLen
      BY <1>3, <1>4, <2>1 DEF FedBytes
    <3>2. X' = Appended(X, XByte(input[p + 1]))
      BY <1>1, <2>1 DEF InputLen
    <3>3. XByte(input[p + 1]) \in Bytes
      <4>1. input[p + 1] \in Bytes /\ input[p + 1] <= MaxAllowedByte
        BY <1>4, <3>1
      <4> QED
        BY <4>1, XByteType
    <3>4. IsCut(X, XOf(p), chunk_size, Bytes)
      BY <1>5, <3>1
    <3>5. XOf(p) \in Seq(Bytes)
      BY <3>4 DEF IsCut
    <3>6. XOf(p + 1) = Append(XOf(p), XByte(input[p + 1]))
      BY <3>1, <3>3, <3>5, OneByteMore
    <3>7. IsCut(X', XOf(p + 1), chunk_size, Bytes)
      BY <1>4, <3>2, <3>3, <3>4, <3>6, AppendedIsCut
    <3> QED
      BY <1>3, <3>1, <3>7
  <2>2. CASE ~ (p < InputLen)
    <3>1. FedBytes(p) = InputLen /\ FedBytes(p + 1) = InputLen
      BY <1>3, <1>4, <2>2 DEF FedBytes
    <3>2. X' = X
      BY <1>1, <2>2 DEF InputLen
    <3> QED
      BY <1>3, <1>5, <3>1, <3>2
  <2> QED
    BY <2>1, <2>2
<1>10. WrittenX'
  <2>1. XOf(FedBytes(w.p))' = XOf(FedBytes(w'.p))
    BY <1>2 DEF FedBytes, XOf
  <2> QED
    BY <1>1, <1>9, <2>1 DEF WrittenX
<1>11. WrittenRanks'
  BY <1>1, <1>5 DEF WrittenRanks
<1> QED
  BY <1>2, <1>6, <1>8, <1>10, <1>11 DEF Ranked

LEMMA EndHistogramRanked ==
  ASSUME IInv, Ranked, EndHistogram
  PROVE  Ranked'
<1>1. /\ pc = "histogram" /\ pc' = "ranks" /\ w.p = Feeds /\ w' = KWinReset(k)
      /\ input' = input /\ chunk_size' = chunk_size /\ code_of_byte' = code_of_byte /\ B' = B
      /\ k' = k /\ hist_size' = hist_size /\ ranks' = ranks
      /\ X' = Closed(Appended(X, 0)) /\ counts' = BucketStart
  BY DEF EndHistogram
<1>2. /\ Coding' /\ Sized' /\ Unstarted' /\ Kit' = Kit /\ InputLen' = InputLen /\ Feeds' = Feeds
      /\ \A m : XOf(m)' = XOf(m) /\ RanksOf(m)' = RanksOf(m)
  BY <1>1, PassKeeps
<1>3. /\ chunk_size \in Nat \ {0} /\ InputLen \in Nat /\ k \in Nat \ {0}
      /\ \A q \in Nat : KeyOf(Kit, q) \in Nat
  BY <1>1, KeysKnown
<1>4. /\ counts = [K \in 0 .. hist_size - 1 |-> Cardinality(Keyed(Kit, Emitted(k, w.p), K))]
      /\ IsCut(X, XOf(FedBytes(w.p)), chunk_size, Bytes)
      /\ ranks = NoOutput /\ hist_size \in Nat \ {0}
  BY <1>1 DEF Ranked, Counted, WrittenX, WrittenRanks, IInv, Coded
<1>5. Feeds = InputLen + k - 1 /\ Emitted(k, w.p) = InputLen /\ FedBytes(w.p) = InputLen
  <2>1. Feeds = InputLen + k - 1
    BY DEF Feeds, InputLen
  <2> DEFINE top == InputLen + k - 1
  <2>2. w.p = top /\ Feeds = top
    BY <1>1, <2>1
  <2>3. Emitted(k, top) = InputLen
    BY <1>3 DEF Emitted
  <2>4. FedBytes(top) = InputLen
    BY <1>3 DEF FedBytes
  <2> HIDE DEF top
  <2>5. w.p = top /\ Emitted(k, w.p) = InputLen /\ FedBytes(w.p) = InputLen
    BY <2>2, <2>3, <2>4
  <2> HIDE DEF Emitted, FedBytes
  <2> QED
    BY <2>1, <2>5
<1>6. counts' = [K \in 0 .. hist_size - 1 |-> Cardinality(Below(Kit, InputLen, K))]
  <2>1. counts = [K \in 0 .. hist_size - 1 |-> Cardinality(Keyed(Kit, InputLen, K))]
    BY <1>4, <1>5
  <2> DEFINE kit == Kit
             m == InputLen
             h == hist_size
  <2>2. m \in Nat /\ h \in Nat \ {0} /\ \A q \in Nat : KeyOf(kit, q) \in Nat
    BY <1>3, <1>4
  <2>3. counts = [K \in 0 .. h - 1 |-> Cardinality(Keyed(kit, m, K))]
    BY <2>1
  <2> HIDE DEF kit, m, h
  <2>4. BucketStart = [K \in 0 .. h - 1 |-> Cardinality(Below(kit, m, K))]
    BY <2>2, <2>3, BucketStarts
  <2> QED
    BY <1>1, <2>4 DEF kit, m, h
<1>7. Counted'
  BY <1>1, <1>2, <1>6 DEF Counted
<1>8. IsClosed(X', Append(XOf(InputLen), 0), chunk_size, Bytes)
  <2>1. IsCut(X, XOf(InputLen), chunk_size, Bytes) /\ 0 \in Bytes
    BY <1>4, <1>5 DEF Bytes
  <2>2. IsCut(Appended(X, 0), Append(XOf(InputLen), 0), chunk_size, Bytes)
    BY <1>3, <2>1, AppendedIsCut
  <2>3. Append(XOf(InputLen), 0) # <<>>
    <3>1. XOf(InputLen) \in Seq(Bytes)
      BY <2>1 DEF IsCut
    <3> QED
      BY <3>1
  <2> QED
    BY <1>1, <1>3, <2>2, <2>3, ClosedIsClosed
<1>9. WrittenX'
  <2>1. Append(XOf(InputLen), 0)' = Append(XOf(InputLen), 0)
    BY <1>2 DEF XOf
  <2> QED
    BY <1>1, <1>8, <2>1 DEF WrittenX
<1>10. w'.p = 0 /\ 0 \in 0 .. Feeds /\ Emitted(k, 0) = 0
  BY <1>1, <1>3, <1>5 DEF KWinReset, Emitted
<1>11. Rolled'
  <2>1. HoldsLast(KWinReset(k), input, code_of_byte, k)
    BY <1>3, ResetHolds
  <2> QED
    BY <1>1, <1>2, <1>10, <2>1 DEF Rolled
<1>12. WrittenRanks'
  <2>1. RanksOf(0) = <<>>
    BY DEF RanksOf
  <2>2. IsCut(NoOutput, <<>>, chunk_size, 0 .. InputLen)
    BY <1>3, NothingCut
  <2>3. RanksOf(Emitted(k, w.p))' = RanksOf(0)'
    BY <1>1, <1>10
  <2>4. RanksOf(Emitted(k, w.p))' = <<>>
    BY <1>2, <2>1, <2>3
  <2>5. IsCut(ranks', RanksOf(Emitted(k, w.p))', chunk_size', 0 .. InputLen')
    BY <1>1, <1>2, <1>4, <2>2, <2>4
  <2> QED
    BY <1>1, <2>5 DEF WrittenRanks
<1> QED
  BY <1>2, <1>7, <1>9, <1>11, <1>12 DEF Ranked

LEMMA EndHistogramKeeps ==
  ASSUME IInv, Ranked, EndHistogram PROVE IInv'
<1>1. /\ pc = "histogram" /\ pc' = "ranks"
      /\ input' = input /\ chunk_size' = chunk_size /\ code_of_byte' = code_of_byte
      /\ B' = B /\ k' = k /\ hist_size' = hist_size
      /\ w' = KWinReset(k)
  BY DEF EndHistogram
<1>2. DOMAIN counts' = 0 .. hist_size' - 1
  <2>1. Counted'
    BY EndHistogramRanked DEF Ranked
  <2> QED
    BY <1>1, <2>1 DEF Counted
<1>3. B \in Nat \ {0} /\ k \in Nat \ {0}
  BY <1>1, NextCodeType
<1>4. IsWindow(KWinReset(k), B, k)
  BY <1>3, ResetIsWindow
<1>5. Coded' /\ Searched'
  BY <1>1 DEF IInv, Coded, Searched
<1>6. Windowed'
  BY <1>1, <1>2, <1>4 DEF Windowed
<1> QED
  BY <1>1, <1>5, <1>6 DEF IInv

(* The key of a real position starts its bucket at the position's rank.    *)
LEMMA StartOfBucket ==
  ASSUME IInv, Ranked, pc \in {"ranks", "done"}, NEW q \in 0 .. InputLen - 1,
         KeyOf(Kit, q) \in 0 .. hist_size - 1
  PROVE  1 + counts[KeyOf(Kit, q)] = PrefixRank(Text, k, q)
<1> DEFINE key == KeyOf(Kit, q)
           low(K) == Cardinality(Below(Kit, InputLen, K))
<1>1. counts = [K \in 0 .. hist_size - 1 |-> low(K)]
  BY DEF Ranked, Counted
<1>2. /\ k \in Nat \ {0} /\ Text \in CodedText /\ Len(Text) = InputLen
      /\ \A p_, q_ \in Nat : KeyOf(Kit, p_) < KeyOf(Kit, q_) <=> PrefixLess(Text, k, p_, q_)
  BY KeysKnown
<1>3. Kit[4] = k
  BY DEF Kit
<1>4. PrefixRank(Text, k, q) = 1 + low(key)
  <2> DEFINE kit == Kit
  <2>1. kit[4] = k
    BY <1>3
  <2> HIDE DEF kit
  <2>2. \A p_ \in 0 .. Len(Text) - 1 :
          PrefixRank(Text, kit[4], p_) = 1 + Cardinality(Below(kit, Len(Text), KeyOf(kit, p_)))
    BY <1>2, <2>1, KmerRank DEF kit
  <2>3. PrefixRank(Text, k, q) = 1 + Cardinality(Below(kit, InputLen, KeyOf(kit, q)))
    BY <1>2, <2>1, <2>2
  <2> QED
    BY <2>3 DEF kit
<1> HIDE DEF low, key
<1>5. key \in 0 .. hist_size - 1
  BY DEF key
<1>6. counts[key] = low(key)
  BY <1>1, <1>5
<1>7. 1 + counts[key] = PrefixRank(Text, k, q)
  BY <1>4, <1>6
<1> QED
  BY <1>7 DEF key

LEMMA RankKmerRanked ==
  ASSUME IInv, Ranked, RankKmer
  PROVE  Ranked'
<1>1. /\ pc = "ranks" /\ pc' = pc /\ w.p < Feeds /\ w' = KWinFeed(w, NextCode)
      /\ input' = input /\ chunk_size' = chunk_size /\ code_of_byte' = code_of_byte /\ B' = B
      /\ k' = k /\ hist_size' = hist_size /\ X' = X /\ counts' = counts
      /\ ranks' = IF Emits(w') THEN Appended(ranks, 1 + counts[w'.key]) ELSE ranks
  BY DEF RankKmer
<1>2. /\ Coding' /\ Sized' /\ Unstarted' /\ Kit' = Kit /\ InputLen' = InputLen /\ Feeds' = Feeds
      /\ \A m : XOf(m)' = XOf(m)
  BY <1>1, PassKeeps
<1>3. /\ w.p \in Nat /\ w'.p = w.p + 1 /\ w'.p \in 0 .. Feeds
      /\ HoldsLast(w', input, code_of_byte, k)
      /\ Emits(w') =>
           /\ Emitted(k, w.p) \in 0 .. InputLen - 1
           /\ Emitted(k, w'.p) = Emitted(k, w.p) + 1
           /\ w'.key = KeyOf(Kit, Emitted(k, w.p))
           /\ w'.key \in 0 .. hist_size - 1
      /\ ~ Emits(w') => Emitted(k, w'.p) = 0 /\ Emitted(k, w.p) = 0
  BY <1>1, Feeding
<1>4. /\ chunk_size \in Nat \ {0} /\ InputLen \in Nat /\ k \in Nat \ {0}
      /\ Text \in CodedText /\ Len(Text) = InputLen
  BY <1>1, KeysKnown
<1>5. /\ counts = [K \in 0 .. hist_size - 1 |-> Cardinality(Below(Kit, InputLen, K))]
      /\ IsCut(ranks, RanksOf(Emitted(k, w.p)), chunk_size, 0 .. InputLen)
      /\ IsClosed(X, Append(XOf(InputLen), 0), chunk_size, Bytes)
  BY <1>1 DEF Ranked, Counted, WrittenX, WrittenRanks
<1>6. Rolled'
  BY <1>1, <1>2, <1>3 DEF Rolled
<1>7. Counted'
  BY <1>1, <1>2, <1>5 DEF Counted
<1>8. WrittenX'
  <2>1. Append(XOf(InputLen), 0)' = Append(XOf(InputLen), 0)
    BY <1>2 DEF XOf
  <2> QED
    BY <1>1, <1>5, <2>1 DEF WrittenX
<1>9. IsCut(ranks', RanksOf(Emitted(k, w'.p)), chunk_size, 0 .. InputLen)
  <2>1. CASE Emits(w')
    <3> DEFINE e == Emitted(k, w.p)
               v == PrefixRank(Text, k, e)
               V == 0 .. InputLen
    <3>1. /\ e \in 0 .. InputLen - 1 /\ e \in Nat /\ Emitted(k, w'.p) = e + 1
          /\ w'.key = KeyOf(Kit, e) /\ KeyOf(Kit, e) \in 0 .. hist_size - 1
      <4>1. /\ e \in 0 .. InputLen - 1 /\ Emitted(k, w'.p) = e + 1
            /\ w'.key = KeyOf(Kit, e) /\ w'.key \in 0 .. hist_size - 1
        BY <1>3, <2>1
      <4> HIDE DEF e
      <4> QED
        BY <4>1
    <3>2. IsCut(ranks, RanksOf(e), chunk_size, V)
      BY <1>5
    <3> HIDE DEF e
    <3>3. 1 + counts[KeyOf(Kit, e)] = v
      BY <1>1, <3>1, StartOfBucket
    <3>4. ranks' = Appended(ranks, v)
      BY <1>1, <2>1, <3>1, <3>3
    <3>5. v \in V
      <4>1. e \in Positions(Text) /\ k \in Nat
        BY <1>4, <3>1, PositionsType
      <4> QED
        BY <1>4, <4>1, RankBound
    <3> HIDE DEF V
    <3>6. RanksOf(e) \in Seq(V)
      BY <3>2 DEF IsCut
    <3>7. RanksOf(e + 1) = Append(RanksOf(e), v)
      BY <3>1, <3>5, <3>6, OneRankMore
    <3> HIDE DEF v
    <3>8. IsCut(Appended(ranks, v), Append(RanksOf(e), v), chunk_size, V)
      BY <1>4, <3>2, <3>5, AppendedIsCut
    <3> QED
      BY <3>1, <3>4, <3>7, <3>8 DEF V
  <2>2. CASE ~ Emits(w')
    BY <1>1, <1>3, <1>5, <2>2
  <2> QED
    BY <2>1, <2>2
<1>10. WrittenRanks'
  <2>1. RanksOf(Emitted(k, w.p))' = RanksOf(Emitted(k, w'.p))
    BY <1>1 DEF RanksOf, Emitted, Text
  <2>2. IsCut(ranks', RanksOf(Emitted(k, w.p))', chunk_size', 0 .. InputLen')
    BY <1>1, <1>2, <1>9, <2>1
  <2> QED
    BY <1>1, <2>2 DEF WrittenRanks
<1> QED
  BY <1>2, <1>6, <1>7, <1>8, <1>10 DEF Ranked

LEMMA EndRanksRanked ==
  ASSUME IInv, Ranked, EndRanks
  PROVE  Ranked'
<1>1. /\ pc = "ranks" /\ pc' = "done" /\ w.p = Feeds /\ w' = w
      /\ input' = input /\ chunk_size' = chunk_size /\ code_of_byte' = code_of_byte /\ B' = B
      /\ k' = k /\ hist_size' = hist_size /\ X' = X /\ counts' = counts
      /\ ranks' = Closed(Appended(ranks, 0))
  BY DEF EndRanks
<1>2. /\ Coding' /\ Sized' /\ Unstarted' /\ Kit' = Kit /\ InputLen' = InputLen /\ Feeds' = Feeds
      /\ \A m : XOf(m)' = XOf(m) /\ RanksOf(m)' = RanksOf(m)
  BY <1>1, PassKeeps
<1>3. /\ chunk_size \in Nat \ {0} /\ InputLen \in Nat /\ k \in Nat \ {0}
      /\ Text \in CodedText /\ Len(Text) = InputLen
      /\ \A p, q \in Nat : KeyOf(Kit, p) < KeyOf(Kit, q) <=> PrefixLess(Text, k, p, q)
  BY <1>1, KeysKnown
<1>4. /\ counts = [K \in 0 .. hist_size - 1 |-> Cardinality(Below(Kit, InputLen, K))]
      /\ IsCut(ranks, RanksOf(Emitted(k, w.p)), chunk_size, 0 .. InputLen)
      /\ IsClosed(X, Append(XOf(InputLen), 0), chunk_size, Bytes)
  BY <1>1 DEF Ranked, Counted, WrittenX, WrittenRanks
<1>5. Emitted(k, w.p) = InputLen
  <2> DEFINE top == InputLen + k - 1
  <2>1. w.p = top
    BY <1>1 DEF Feeds, InputLen
  <2>2. Emitted(k, top) = InputLen
    BY <1>3 DEF Emitted
  <2> HIDE DEF top
  <2> QED
    BY <2>1, <2>2
<1>6. Rolled'
  <2>1. /\ B \in Nat \ {0} /\ IsPower(B, k, hist_size) /\ IsWindow(w, B, k)
    BY <1>1, NextCodeType
  <2>2. w.key \in Nat
    BY <1>3, <2>1, WindowKey
  <2> QED
    BY <1>1, <1>2, <2>2 DEF Rolled
<1>7. Counted'
  BY <1>1, <1>2, <1>4 DEF Counted
<1>8. WrittenX'
  <2>1. Append(XOf(InputLen), 0)' = Append(XOf(InputLen), 0)
    BY <1>2 DEF XOf
  <2> QED
    BY <1>1, <1>4, <2>1 DEF WrittenX
<1>9. PrefixRank(Text, k, InputLen) = 0
  <2> DEFINE kit == Kit
  <2>1. kit[4] = k
    BY DEF Kit
  <2>2. \A p, q \in Nat : KeyOf(kit, p) < KeyOf(kit, q) <=> PrefixLess(Text, k, p, q)
    BY <1>3
  <2> HIDE DEF kit
  <2>3. PrefixRank(Text, kit[4], Len(Text)) = 0
    BY <1>3, <2>1, <2>2, KmerRank
  <2> QED
    BY <1>3, <2>1, <2>3
<1>10. IsClosed(ranks', RanksOf(InputLen + 1), chunk_size, 0 .. InputLen)
  <2> DEFINE V == 0 .. InputLen
             n == InputLen
             s == RanksOf(n)
             t == Append(s, 0)
  <2>1. n \in Nat /\ 0 \in V
    BY <1>3
  <2>2. IsCut(ranks, s, chunk_size, V)
    BY <1>4, <1>5
  <2> HIDE DEF V
  <2>3. s \in Seq(V)
    BY <2>2 DEF IsCut
  <2>4. RanksOf(n + 1) = t
    BY <1>9, <2>1, <2>3, OneRankMore
  <2> HIDE DEF s
  <2>5. IsCut(Appended(ranks, 0), t, chunk_size, V)
    BY <1>3, <2>1, <2>2, AppendedIsCut
  <2>6. t # <<>>
    <3>1. Len(t) = Len(s) + 1 /\ Len(s) \in Nat
      BY <2>1, <2>3, OneMore
    <3>2. Len(<<>>) = 0
      OBVIOUS
    <3> HIDE DEF t
    <3> QED
      BY <3>1, <3>2
  <2> HIDE DEF t
  <2>7. IsClosed(Closed(Appended(ranks, 0)), t, chunk_size, V)
    BY <1>3, <2>5, <2>6, ClosedIsClosed
  <2> QED
    BY <1>1, <2>4, <2>7 DEF V
<1>11. WrittenRanks'
  <2>1. RanksOf(InputLen + 1)' = RanksOf(InputLen + 1)
      BY <1>1 DEF RanksOf, InputLen, Text
  <2> QED
    BY <1>1, <1>2, <1>10, <2>1 DEF WrittenRanks
<1> QED
  BY <1>2, <1>6, <1>7, <1>8, <1>11 DEF Ranked

LEMMA StutterRanked ==
  ASSUME Ranked, UNCHANGED vars
  PROVE  Ranked'
<1>1. /\ input' = input /\ chunk_size' = chunk_size /\ code_of_byte' = code_of_byte /\ B' = B
      /\ k' = k /\ hist_size' = hist_size /\ X' = X /\ counts' = counts /\ ranks' = ranks
      /\ pc' = pc /\ w' = w
  BY DEF vars
<1>2. Coding'
  BY <1>1 DEF Ranked, Coding, Scanned, InputLen
<1>3. Sized' /\ Unstarted'
  BY <1>1 DEF Ranked, Sized, Unstarted
<1>4. Rolled'
  BY <1>1 DEF Ranked, Rolled, Feeds
<1>5. Kit' = Kit /\ InputLen' = InputLen /\ Text' = Text
  BY <1>1 DEF Kit, InputLen, Text
<1>6. Counted'
  <2>1. Emitted(k, w.p)' = Emitted(k, w.p)
    BY <1>1 DEF Emitted
  <2> QED
    BY <1>1, <1>5, <2>1 DEF Ranked, Counted, Keyed, Below
<1>7. WrittenX'
  <2>1. XOf(FedBytes(w.p))' = XOf(FedBytes(w.p)) /\ XOf(InputLen)' = XOf(InputLen)
    BY <1>1 DEF XOf, FedBytes, InputLen
  <2> QED
    BY <1>1, <2>1 DEF Ranked, WrittenX
<1>8. WrittenRanks'
  <2>1. /\ RanksOf(Emitted(k, w.p))' = RanksOf(Emitted(k, w.p))
        /\ RanksOf(InputLen + 1)' = RanksOf(InputLen + 1)
    BY <1>1 DEF RanksOf, Emitted, InputLen, Text
  <2> QED
    BY <1>1, <1>5, <2>1 DEF Ranked, WrittenRanks
<1> QED
  BY <1>2, <1>3, <1>4, <1>6, <1>7, <1>8 DEF Ranked

(* The symbols' keys and the outputs so far, all along.                    *)
LEMMA RankedHolds ==
  ASSUME \A S \in ChunkSizes : S < KWrap PROVE Spec => [](IInv /\ Ranked)
<1>1. IInv /\ Ranked /\ [Next]_vars => IInv' /\ Ranked'
  <2> SUFFICES ASSUME IInv, Ranked, [Next]_vars PROVE IInv' /\ Ranked'
    OBVIOUS
  <2>1. CASE Scan
    BY <2>1, ScanKeeps, ScanRanked
  <2>2. CASE GrowK
    BY <2>2, GrowKKeeps, GrowKRanked
  <2>3. CASE EndSearch
    BY <2>3, EndSearchKeeps, EndSearchRanked
  <2>4. CASE CountKmer
    BY <2>4, FeedStepsKeep, CountKmerRanked
  <2>5. CASE EndHistogram
    BY <2>5, EndHistogramKeeps, EndHistogramRanked
  <2>6. CASE RankKmer
    BY <2>6, FeedStepsKeep, RankKmerRanked
  <2>7. CASE EndRanks
    BY <2>7, EndRanksKeeps, EndRanksRanked
  <2>8. CASE UNCHANGED vars
    <3>1. IInv'
      BY <2>8 DEF vars, IInv, Coded, Searched, Windowed
    <3> QED
      BY <2>8, <3>1, StutterRanked
  <2> QED
    BY <2>1, <2>2, <2>3, <2>4, <2>5, <2>6, <2>7, <2>8 DEF Next
<1>2. Init => IInv /\ Ranked
  BY InitEstablishes, InitRanked
<1> QED
  BY <1>1, <1>2, PTL DEF Spec

-----------------------------------------------------------------------------
(* What is cut as it grows is within the bounds of a chunk, and closed too.*)
LEMMA CutIsOutput ==
  ASSUME chunk_size \in Nat \ {0}, NEW V, NEW out, NEW s,
         IsCut(out, s, chunk_size, V) \/ IsClosed(out, s, chunk_size, V)
  PROVE  IsOutput(out, V)
<1> DEFINE fs == out.files
           b == out.buffer
           W == Seq(V)
<1>1. /\ fs \in Seq(W) /\ b \in W
      /\ \A c \in 1 .. Len(fs) : Len(fs[c]) \in 1 .. chunk_size
      /\ Len(b) < chunk_size
  <2>1. CASE IsCut(out, s, chunk_size, V)
    <3>1. /\ fs \in Seq(W) /\ b \in W /\ Len(b) < chunk_size
          /\ \A c \in 1 .. Len(fs) : Len(fs[c]) = chunk_size
      BY <2>1 DEF IsCut
    <3>2. chunk_size \in 1 .. chunk_size
      OBVIOUS
    <3> QED
      BY <3>1, <3>2
  <2>2. CASE IsClosed(out, s, chunk_size, V)
    <3>1. /\ fs \in Seq(W) /\ b = <<>>
          /\ \A c \in 1 .. Len(fs) : Len(fs[c]) \in 1 .. chunk_size
      BY <2>2 DEF IsClosed
    <3>2. Len(<<>>) = 0 /\ 0 < chunk_size /\ <<>> \in W
      OBVIOUS
    <3> QED
      BY <3>1, <3>2
  <2> QED
    BY <2>1, <2>2
<1> HIDE DEF W, fs, b
<1>2. DOMAIN fs = 1 .. Len(fs) /\ \A c \in 1 .. Len(fs) : fs[c] \in W
  BY <1>1
<1> QED
  BY <1>1, <1>2 DEF IsOutput, fs, b, W

LEMMA OutputsTyped ==
  ASSUME IInv, Ranked
  PROVE  IsOutput(X, Bytes) /\ IsOutput(ranks, 0 .. InputLen)
<1>1. chunk_size \in Nat \ {0}
  BY InputIsBytes
<1>2. \A V : IsOutput(NoOutput, V)
  BY <1>1, NothingCut, CutIsOutput
<1>3. CASE pc \in {"scan", "search", "failed"}
  BY <1>2, <1>3 DEF Ranked, Unstarted
<1>4. CASE pc = "histogram"
  <2>1. ranks = NoOutput /\ IsCut(X, XOf(FedBytes(w.p)), chunk_size, Bytes)
    BY <1>4 DEF Ranked, WrittenX, WrittenRanks
  <2> QED
    BY <1>1, <1>2, <2>1, CutIsOutput
<1>5. CASE pc \in {"ranks", "done"}
  <2>1. IsOutput(X, Bytes)
    BY <1>1, <1>5, CutIsOutput DEF Ranked, WrittenX
  <2>2. IsOutput(ranks, 0 .. InputLen)
    BY <1>1, <1>5, CutIsOutput DEF Ranked, WrittenRanks
  <2> QED
    BY <2>1, <2>2
<1> QED
  BY <1>3, <1>4, <1>5 DEF IInv

LEMMA WindowTyped ==
  ASSUME IInv, Ranked
  PROVE  w.p \in 0 .. InputLen + k /\ w.key \in Nat
<1>1. InputLen \in Nat /\ k \in Nat
  BY InputIsBytes, TextType DEF InputLen, Ranked, Sized
<1>2. CASE pc \in {"scan", "search", "failed"}
  <2>1. w.p = 0 /\ w.key = 0
    BY <1>2 DEF Ranked, Unstarted, KWinReset
  <2> QED
    BY <1>1, <2>1
<1>3. CASE pc \in {"histogram", "ranks", "done"}
  <2>1. w.p \in 0 .. InputLen + k - 1
    <3>1. w.p \in 0 .. Feeds
      <4>1. Feeds \in 0 .. Feeds
        <5>1. Feeds = InputLen + k - 1 /\ k # 0
          BY <1>3 DEF Feeds, InputLen, Ranked, Sized
        <5> QED
          BY <1>1, <5>1
      <4> QED
        BY <1>3, <4>1 DEF Ranked, Rolled
    <3> QED
      BY <3>1 DEF Feeds, InputLen
  <2>2. w.key \in Nat
    <3>1. CASE pc = "done"
      BY <3>1 DEF Ranked, Rolled
    <3>2. CASE pc # "done"
      <4>1. pc \in {"histogram", "ranks"}
        BY <1>3, <3>2
      <4>2. B \in Nat \ {0} /\ k \in Nat \ {0} /\ IsPower(B, k, hist_size) /\ IsWindow(w, B, k)
        BY <4>1, NextCodeType
      <4> QED
        BY <4>2, WindowKey
    <3> QED
      BY <3>1, <3>2
  <2> QED
    BY <1>1, <2>1, <2>2
<1> QED
  BY <1>2, <1>3 DEF IInv

LEMMA CountsTyped ==
  ASSUME IInv, Ranked
  PROVE  \A K \in DOMAIN counts : counts[K] \in 0 .. InputLen
<1>1. CASE pc \in {"scan", "search", "failed"}
  <2>1. counts = <<>>
    BY <1>1 DEF Ranked, Unstarted
  <2>2. DOMAIN <<>> = {}
    OBVIOUS
  <2> QED
    BY <2>1, <2>2
<1>2. CASE pc \in {"histogram", "ranks", "done"}
  <2>1. InputLen \in Nat /\ k \in Nat \ {0}
    BY <1>2, KeysKnown
  <2>2. CASE pc = "histogram"
    <3> DEFINE m == Emitted(k, w.p)
    <3>1. m \in 0 .. InputLen
      <4>1. w.p \in 0 .. Feeds /\ Feeds = InputLen + k - 1
        BY <2>2 DEF Ranked, Rolled, Feeds, InputLen
      <4> QED
        BY <2>1, <4>1 DEF Emitted
    <3>2. counts = [K \in 0 .. hist_size - 1 |-> Cardinality(Keyed(Kit, m, K))]
      BY <2>2 DEF Ranked, Counted
    <3> HIDE DEF m
    <3>3. \A K : Cardinality(Keyed(Kit, m, K)) \in 0 .. m
      BY <2>1, <3>1, CountsType
    <3> DEFINE num(K) == Cardinality(Keyed(Kit, m, K))
    <3>4. \A K : num(K) \in 0 .. InputLen
      <4> SUFFICES ASSUME NEW K PROVE num(K) \in 0 .. InputLen
        OBVIOUS
      <4>1. num(K) \in 0 .. m
        BY <3>3
      <4> HIDE DEF num
      <4> QED
        BY <2>1, <3>1, <4>1
    <3> QED
      BY <3>2, <3>4
  <2>3. CASE pc \in {"ranks", "done"}
    <3>1. counts = [K \in 0 .. hist_size - 1 |-> Cardinality(Below(Kit, InputLen, K))]
      BY <2>3 DEF Ranked, Counted
    <3>2. \A K : Cardinality(Below(Kit, InputLen, K)) \in 0 .. InputLen
      BY <2>1, CountsType
    <3> QED
      BY <3>1, <3>2
  <2> QED
    BY <1>2, <2>2, <2>3
<1> QED
  BY <1>1, <1>2 DEF IInv

LEMMA CodesTyped ==
  ASSUME IInv, Ranked
  PROVE  \A byte \in DOMAIN code_of_byte : code_of_byte[byte] \in 1 .. B - 1
<1>1. CASE pc \in {"scan", "failed"}
  <2>1. code_of_byte = <<>>
    BY <1>1 DEF Ranked, Unstarted
  <2>2. DOMAIN <<>> = {}
    OBVIOUS
  <2> QED
    BY <2>1, <2>2
<1>2. CASE pc \in {"search", "histogram", "ranks", "done"}
  <2>1. \A byte \in Range(input) : code_of_byte[byte] \in 1 .. B - 1
    BY <1>2 DEF IInv, Coded
  <2>2. DOMAIN code_of_byte = Range(input)
    BY <1>2 DEF Ranked, Coding, Scanned, ScannedAs
  <2> QED
    BY <2>1, <2>2
<1> QED
  BY <1>1, <1>2 DEF IInv

(* k and the size of the histogram fit, the histogram has no more k-mers   *)
(* than the text has positions, and both outputs stay within a chunk: for  *)
(* every input and every budget that the counter k can hold.               *)
THEOREM TypeCorrect ==
  ASSUME \A S \in ChunkSizes : S < KWrap PROVE Spec => []TypeOK
<1>1. IInv /\ Ranked => TypeOK
  <2> SUFFICES ASSUME IInv, Ranked PROVE TypeOK
    OBVIOUS
  <2>1. /\ input \in Inputs /\ chunk_size \in ChunkSizes
        /\ pc \in {"scan", "search", "histogram", "ranks", "done", "failed"}
    BY DEF IInv
  <2>2. hist_size = KmersOf(B, k) /\ k \in 0 .. KWrap - 1
    <3>1. B \in Nat \ {0} /\ k \in 0 .. KWrap - 1 /\ IsPower(B, k, hist_size)
      BY DEF Ranked, Sized
    <3> QED
      BY <3>1, InputIsBytes, PowerKnown
  <2>3. IsOutput(X, 0 .. 255)
    <3>1. IsOutput(X, Bytes)
      BY OutputsTyped
    <3>2. Bytes = 0 .. 255
      BY DEF Bytes
    <3> QED
      BY <3>1, <3>2
  <2>4. /\ IsOutput(ranks, 0 .. Len(input))
        /\ w.p \in 0 .. Len(input) + k /\ w.key \in Nat
        /\ \A K \in DOMAIN counts : counts[K] \in 0 .. Len(input)
    BY OutputsTyped, WindowTyped, CountsTyped DEF InputLen
  <2> QED
    BY <2>1, <2>2, <2>3, <2>4, CodesTyped, Zenon DEF TypeOK
<1> QED
  BY <1>1, RankedHolds, PTL

(* What pass C has written is, at every position passed, the number of     *)
(* positions with a smaller prefix of k symbols, in the order of the       *)
(* positions, and at the end of all of them: what the loop starts from.    *)
THEOREM WritesRanks ==
  ASSUME \A S \in ChunkSizes : S < KWrap PROVE Spec => []RanksWritten
<1>1. IInv /\ Ranked => RanksWritten
  <2> SUFFICES ASSUME IInv, Ranked, pc \in {"ranks", "done"}
               PROVE  LET written == FlattenSeq(ranks.files) \o ranks.buffer
                      IN  /\ written = [j \in DOMAIN written |-> PrefixRank(Text, k, j - 1)]
                          /\ pc = "done" => Len(written) = Len(input) + 1
    BY DEF RanksWritten
  <2> DEFINE written == FlattenSeq(ranks.files) \o ranks.buffer
  <2>1. \A m : RanksOf(m) = [j \in 1 .. m |-> PrefixRank(Text, k, j - 1)]
    BY DEF RanksOf
  <2>2. CASE pc = "ranks"
    <3>1. written = RanksOf(Emitted(k, w.p))
      BY <2>2 DEF Ranked, WrittenRanks, IsCut
    <3> HIDE DEF written
    <3>2. DOMAIN written = 1 .. Emitted(k, w.p)
      BY <2>1, <3>1
    <3>3. written = [j \in DOMAIN written |-> PrefixRank(Text, k, j - 1)]
      BY <2>1, <3>1, <3>2
    <3> QED
      BY <2>2, <3>3 DEF written
  <2>3. CASE pc = "done"
    <3>1. InputLen \in Nat
      BY InputIsBytes, TextType DEF InputLen
    <3> DEFINE flat == FlattenSeq(ranks.files)
               V == 0 .. InputLen
    <3>2. flat = RanksOf(InputLen + 1) /\ ranks.buffer = <<>> /\ ranks.files \in Seq(Seq(V))
      BY <2>3 DEF Ranked, WrittenRanks, IsClosed
    <3> HIDE DEF V
    <3>3. flat \in Seq(V)
      <4>1. <<>> \in Seq(V)
        OBVIOUS
      <4> QED
        BY <3>2, <4>1, FlattenAppend
    <3>4. flat \o <<>> = flat
      <4> HIDE DEF flat
      <4> QED
        BY <3>3
    <3>5. written = RanksOf(InputLen + 1)
      BY <3>2, <3>4
    <3> HIDE DEF written, flat
    <3>6. DOMAIN written = 1 .. InputLen + 1
      BY <2>1, <3>5
    <3>7. written = [j \in DOMAIN written |-> PrefixRank(Text, k, j - 1)]
      BY <2>1, <3>5, <3>6
    <3>8. Len(written) = InputLen + 1
      <4>1. written = flat
        BY <3>2, <3>5
      <4> DEFINE n == InputLen + 1
      <4>2. n \in Nat /\ DOMAIN written = 1 .. n /\ written \in Seq(V)
        BY <3>1, <3>3, <3>6, <4>1
      <4> HIDE DEF n
      <4>3. Len(written) = n
        BY <4>2, LenProperties
      <4> QED
        BY <4>3 DEF n
    <3> QED
      BY <3>7, <3>8 DEF written, InputLen
  <2> QED
    BY <2>2, <2>3
<1> QED
  BY <1>1, RankedHolds, PTL

(* X_<id> and ranks_<id> have as many files and each the same length, one  *)
(* per chunk of the text, and X holds the text with its sentinel and no    *)
(* symbol too large for the Z transform.                                   *)
THEOREM CutsAlike ==
  ASSUME \A S \in ChunkSizes : S < KWrap PROVE Spec => []ChunksCutAlike
<1>1. IInv /\ Ranked => ChunksCutAlike
  <2> SUFFICES ASSUME IInv, Ranked, pc = "done"
               PROVE  /\ Len(X.files) = Cardinality(Chunks(Text, chunk_size))
                      /\ [c \in DOMAIN X.files |-> Len(X.files[c])] =
                         [c \in DOMAIN ranks.files |-> Len(ranks.files[c])]
                      /\ FlattenSeq(X.files) = Append(Text, 0)
                      /\ \A i \in DOMAIN Text : Text[i] + 1 < 256
    BY DEF ChunksCutAlike
  <2> DEFINE n == InputLen
             S == chunk_size
             s == Append(XOf(n), 0)
             t == RanksOf(n + 1)
             xs == X.files
             rs == ranks.files
             V == 0 .. n
  <2>1. /\ S \in Nat \ {0} /\ n \in Nat /\ Len(Text) = n /\ Text \in CodedText
        /\ \A i \in 1 .. n : Text[i] = input[i] + 1 /\ input[i] \in Bytes /\ input[i] <= MaxAllowedByte
    BY KeysKnown
  <2>2. /\ xs \in Seq(Seq(Bytes)) /\ FlattenSeq(xs) = s
        /\ Len(xs) = (Len(s) - 1) \div S + 1
        /\ \A c \in 1 .. Len(xs) : Len(xs[c]) = IF c < Len(xs) THEN S ELSE Len(s) - (c - 1) * S
    BY DEF Ranked, WrittenX, IsClosed
  <2>3. /\ rs \in Seq(Seq(V)) /\ FlattenSeq(rs) = t
        /\ Len(rs) = (Len(t) - 1) \div S + 1
        /\ \A c \in 1 .. Len(rs) : Len(rs[c]) = IF c < Len(rs) THEN S ELSE Len(t) - (c - 1) * S
    BY DEF Ranked, WrittenRanks, IsClosed
  <2>4. DOMAIN input = 1 .. n /\ DOMAIN Text = 1 .. n
    BY InputIsBytes, TextType DEF InputLen, Text
  <2>5. XOf(n) = Text /\ \A i \in 1 .. n : Text[i] + 1 < 256 /\ Text[i] \in Bytes
    <3>1. ASSUME NEW i \in 1 .. n
          PROVE  XByte(input[i]) = input[i] + 1 /\ input[i] + 2 < 256 /\ input[i] + 1 \in Bytes
                 /\ Text[i] = input[i] + 1 /\ (input[i] + 1) + 1 = input[i] + 2
      <4> DEFINE byte == input[i]
      <4>1. byte \in Bytes /\ byte <= MaxAllowedByte /\ Text[i] = byte + 1
        BY <2>1
      <4> HIDE DEF byte
      <4>2. byte \in Nat
        BY <4>1, BytesType
      <4>3. XByte(byte) = byte + 1 /\ byte + 1 \in Bytes /\ byte + 2 < 256
        BY <4>1, XByteType
      <4> QED
        BY <4>1, <4>2, <4>3 DEF byte
    <3>2. XOf(n) = [i \in 1 .. n |-> XByte(input[i])] /\ Text = [i \in 1 .. n |-> input[i] + 1]
      BY <2>4 DEF XOf, Text
    <3>3. [i \in 1 .. n |-> XByte(input[i])] = [i \in 1 .. n |-> input[i] + 1]
      BY <3>1
    <3> QED
      BY <3>1, <3>2, <3>3
  <2>6. s = Append(Text, 0) /\ Len(s) = n + 1
    <3>1. Text \in Seq(Nat) /\ 0 \in Nat
      BY <2>1 DEF CodedText
    <3>2. Len(Append(Text, 0)) = Len(Text) + 1
      BY <3>1, OneMore
    <3> QED
      BY <2>1, <2>5, <3>2
  <2> HIDE DEF V
  <2>7. Len(t) = n + 1
    <3>1. t \in Seq(V)
      <4>1. <<>> \in Seq(V)
        OBVIOUS
      <4> QED
        BY <2>3, <4>1, FlattenAppend
    <3> DEFINE l == n + 1
    <3>2. DOMAIN t = 1 .. l /\ l \in Nat
      BY <2>1 DEF RanksOf
    <3> HIDE DEF t, l
    <3>3. Len(t) = l
      BY <3>1, <3>2, LenProperties
    <3> QED
      BY <3>3 DEF l
  <2>8. DOMAIN xs = 1 .. Len(xs) /\ DOMAIN rs = 1 .. Len(rs)
    <3> DEFINE Vx == Seq(Bytes)
               Vr == Seq(V)
    <3>1. xs \in Seq(Vx) /\ rs \in Seq(Vr)
      BY <2>2, <2>3
    <3> HIDE DEF Vx, Vr, xs, rs
    <3> QED
      BY <3>1
  <2>9. Len(xs) = Len(rs)
    BY <2>2, <2>3, <2>6, <2>7
  <2>10. Len(xs) = n \div S + 1
    <3>1. (n + 1) - 1 = n
      BY <2>1
    <3> QED
      BY <2>2, <2>6, <3>1
  <2> HIDE DEF n, S, s, t, xs, rs
  <2>11. \A c \in 1 .. Len(xs) : Len(xs[c]) = Len(rs[c])
    BY <2>2, <2>3, <2>6, <2>7, <2>9
  <2>12. [c \in DOMAIN xs |-> Len(xs[c])] = [c \in DOMAIN rs |-> Len(rs[c])]
    BY <2>8, <2>9, <2>11
  <2>13. Cardinality(Chunks(Text, S)) = n \div S + 1
    <3> DEFINE top == n \div S
    <3>1. top \in Nat
      BY <2>1
    <3>2. Chunks(Text, S) = 0 .. top
      BY <2>1 DEF Chunks, ChunkOf
    <3> HIDE DEF top
    <3>3. Cardinality(0 .. top) = IF 0 > top THEN 0 ELSE top - 0 + 1
      BY <3>1, FS_Interval
    <3>4. Cardinality(0 .. top) = top + 1
      BY <3>1, <3>3
    <3> QED
      BY <3>2, <3>4 DEF top
  <2> QED
    BY <2>2, <2>4, <2>5, <2>6, <2>10, <2>12, <2>13 DEF S, s, xs, rs
<1> QED
  BY <1>1, RankedHolds, PTL

(* The rolling key is always the index of an entry of the histogram, and   *)
(* the histogram as large as the budget allows, for every input and every  *)
(* budget that the counter k can hold.                                     *)
THEOREM KeyStaysInHistogram ==
  ASSUME \A S \in ChunkSizes : S < KWrap PROVE Spec => []KeyInHistogram
<1>1. IInv => KeyInHistogram
  <2> SUFFICES ASSUME IInv PROVE KeyInHistogram
    OBVIOUS
  <2>1. pc \in {"histogram", "ranks"} => w.key \in DOMAIN counts
    <3> SUFFICES ASSUME pc \in {"histogram", "ranks"} PROVE w.key \in DOMAIN counts
      OBVIOUS
    <3> QED
      BY NextCodeType, WindowKey
  <2>2. pc \in {"histogram", "ranks", "done"} =>
          hist_size * B > chunk_size /\ (hist_size <= chunk_size \/ k = 1)
    BY DEF IInv, Coded, Searched
  <2> QED
    BY <2>1, <2>2 DEF KeyInHistogram
<1> QED
  BY <1>1, RankedHolds, PTL
=============================================================================
