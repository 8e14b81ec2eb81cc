---------------------------- MODULE MergeProofs ----------------------------
(***************************************************************************)
(* merge, for every number of chunks, every pair of streams that the loop  *)
(* may leave for it and every capacity of the buffers.                     *)
(***************************************************************************)
EXTENDS Merge, RunStreamTheorems

(* What the heap holds.                                                    *)
Elements == [current : Nat, next : Nat, count : Nat, chunk : Nat]

(* At most one element of a chunk.                                         *)
OfDistinctChunks(h) ==
  \A i, j \in DOMAIN h : h[i].chunk = h[j].chunk => i = j

(* compare_heap_elements orders the triples of different chunks.           *)
LEMMA LessOrder ==
  ASSUME NEW a \in Elements, NEW b \in Elements, NEW c \in Elements
  PROVE  /\ Less(a, b) /\ Less(b, c) => Less(a, c)
         /\ a.chunk # b.chunk => Less(a, b) \/ Less(b, a)
         /\ Less(a, b) => ~ Less(b, a)
  BY DEF Elements, Less

(* The way down exists, however deep the heap is.                          *)
LEMMA WayDownAt ==
  ASSUME NEW n \in Nat, NEW heap_, NEW item, DOMAIN heap_ = 1 .. n
  PROVE  \A j \in 1 .. n :
           WayDown(heap_, item)[j] <=>
             \/ j = 1
             \/ /\ WayDown(heap_, item)[j \div 2]
                /\ Yields(heap_, item, j \div 2)
                /\ j = SmallerChild(heap_, j \div 2)
<1> DEFINE Body(f, j) == \/ j = 1
                         \/ /\ f[j \div 2]
                            /\ Yields(heap_, item, j \div 2)
                            /\ j = SmallerChild(heap_, j \div 2)
           Is(f) == f = [j \in DOMAIN heap_ |-> Body(f, j)]
           Solves(f, k) == f \in [1 .. n -> BOOLEAN] /\ \A j \in 1 .. k : f[j] = Body(f, j)
           T == {k \in Nat : k <= n => \E f : Solves(f, k)}
<1> HIDE DEF Body
<1>1. 0 \in T
  <2>1. Solves([j \in 1 .. n |-> TRUE], 0)
    OBVIOUS
  <2> HIDE DEF Solves
  <2> QED
    BY <2>1
<1>2. ASSUME NEW k \in Nat, k \in T PROVE k + 1 \in T
  <2>1. SUFFICES ASSUME k + 1 <= n PROVE \E f : Solves(f, k + 1)
    <3> HIDE DEF Solves
    <3> QED
      BY <2>1
  <2>2. PICK f : Solves(f, k)
    <3> HIDE DEF Solves
    <3> QED
      BY <1>2, <2>1
  <2> DEFINE v == Body(f, k + 1)
             g == [f EXCEPT ![k + 1] = v]
  <2>3. v \in BOOLEAN
    BY DEF Body
  <2>4. /\ g \in [1 .. n -> BOOLEAN] /\ g[k + 1] = v
        /\ \A j \in 1 .. n : j # k + 1 => g[j] = f[j]
    BY <2>1, <2>2, <2>3
  <2> HIDE DEF g, v
  <2>5. \A j \in 1 .. k + 1 : j # 1 => j \div 2 \in 1 .. n /\ j \div 2 # k + 1
    BY <2>1
  <2>6. \A j \in 1 .. k + 1 : Body(g, j) = Body(f, j)
    BY <2>4, <2>5 DEF Body
  <2>7. \A j \in 1 .. k + 1 : j = k + 1 \/ (j \in 1 .. k /\ j \in 1 .. n)
    BY <2>1
  <2>8. \A j \in 1 .. k + 1 : g[j] = Body(g, j)
    BY <2>2, <2>4, <2>6, <2>7 DEF v
  <2>9. Solves(g, k + 1)
    BY <2>4, <2>8
  <2> HIDE DEF Solves
  <2> QED
    BY <2>9
<1> HIDE DEF T
<1>3. n \in T
  BY <1>1, <1>2, Induction
<1>4. PICK f : Solves(f, n)
  <2> HIDE DEF Solves
  <2> QED
    BY <1>3 DEF T
<1>5. Is(f)
  BY <1>4
<1>6. Is(CHOOSE g : Is(g))
  BY <1>5
<1>7. WayDown(heap_, item) = CHOOSE g : Is(g)
  BY DEF WayDown, Body
<1>8. Is(WayDown(heap_, item))
  BY <1>6, <1>7
<1>9. \A j \in 1 .. n : WayDown(heap_, item)[j] = Body(WayDown(heap_, item), j)
  BY <1>8
<1> QED
  BY <1>9 DEF Body

(* An element sifted down from the root of what is a heap below it: a heap,*)
(* with the same elements but for the root.                                *)
LEMMA SiftDownSound ==
  ASSUME NEW h \in Seq(Elements), NEW x \in Elements, Len(h) # 0,
         NEW e, e = [h EXCEPT ![1] = x], OfDistinctChunks(e),
         \A j \in 4 .. Len(h) : Less(h[j \div 2], h[j])
  PROVE  /\ SiftDown(h, x) \in Seq(Elements)
         /\ Len(SiftDown(h, x)) = Len(h)
         /\ IsHeap(SiftDown(h, x))
         /\ OfDistinctChunks(SiftDown(h, x))
         /\ Range(SiftDown(h, x)) = Range(e)
<1> DEFINE n == Len(h)
           W == WayDown(h, x)
           Y(j) == Yields(h, x, j)
           C(j) == SmallerChild(h, j)
           r == SiftDown(h, x)
           from(j) == IF ~ W[j] THEN j ELSE IF Y(j) THEN C(j) ELSE 1
<1>1. /\ n \in Nat \ {0} /\ DOMAIN h = 1 .. n
      /\ \A j \in 1 .. n : h[j] \in Elements
      /\ DOMAIN e = 1 .. n /\ e[1] = x
      /\ \A j \in 1 .. n : e[j] \in Elements
      /\ \A j \in 2 .. n : e[j] = h[j]
  OBVIOUS
<1>2. /\ W[1]
      /\ \A j \in 2 .. n : W[j] <=> W[j \div 2] /\ Y(j \div 2) /\ j = C(j \div 2)
  <2>1. n \in Nat /\ DOMAIN h = 1 .. n
    BY <1>1
  <2> HIDE DEF n
  <2>2. \A j \in 1 .. n : W[j] <=> j = 1 \/ (W[j \div 2] /\ Y(j \div 2) /\ j = C(j \div 2))
    BY <2>1, WayDownAt
  <2>3. 1 \in 1 .. n /\ \A j \in 2 .. n : j \in 1 .. n /\ j # 1
    BY <1>1
  <2> HIDE DEF W, Y, C
  <2> QED
    BY <2>2, <2>3, Zenon
<1>3. ASSUME NEW j \in 1 .. n
      PROVE  /\ C(j) \in {2 * j, 2 * j + 1}
             /\ C(j) \div 2 = j /\ C(j) # j
             /\ 2 * j <= n => C(j) \in 2 .. n
             /\ Y(j) <=> 2 * j <= n /\ Less(h[C(j)], x)
  BY <1>1 DEF SmallerChild, Yields
<1>4. \A j \in 1 .. n : r[j] = IF ~ W[j] THEN h[j] ELSE IF Y(j) THEN h[C(j)] ELSE x
  BY <1>1 DEF SiftDown
<1>5. DOMAIN r = 1 .. n
  BY <1>1 DEF SiftDown
<1>6. ASSUME NEW j \in 1 .. n, 2 * j <= n, NEW k \in {2 * j, 2 * j + 1}, k <= n, k # C(j)
      PROVE  Less(h[C(j)], h[k])
  <2>1. C(j) \in 2 .. n /\ k \in 2 .. n
    BY <1>1, <1>3, <1>6
  <2>2. h[C(j)].chunk # h[k].chunk /\ h[C(j)] \in Elements /\ h[k] \in Elements
    BY <1>1, <1>6, <2>1 DEF OfDistinctChunks
  <2>3. CASE 2 * j < n /\ Less(h[2 * j + 1], h[2 * j])
    <3>1. C(j) = 2 * j + 1
      BY <2>3 DEF SmallerChild
    <3> QED
      BY <1>6, <2>3, <3>1
  <2>4. CASE ~ (2 * j < n /\ Less(h[2 * j + 1], h[2 * j]))
    <3>1. C(j) = 2 * j
      BY <2>4 DEF SmallerChild
    <3>2. k = 2 * j + 1
      BY <1>6, <3>1
    <3>3. 2 * j < n
      BY <1>1, <1>6, <3>2
    <3>4. ~ Less(h[k], h[C(j)])
      BY <2>4, <3>1, <3>2, <3>3
    <3> QED
      BY <2>2, <3>4, LessOrder
  <2> QED
    BY <2>3, <2>4
<1> HIDE DEF W, Y, C, r, n
<1>7. ASSUME NEW j \in 1 .. n, W[j], Y(j)
      PROVE  C(j) \in 2 .. n /\ W[C(j)]
  BY <1>2, <1>3, <1>7
(* The way down is one way: of two slots on it the lower one is below the  *)
(* child that the upper one yields to.                                     *)
<1>8. ASSUME NEW i \in 1 .. n, NEW k \in 1 .. n, W[i], W[k], i < k
      PROVE  Y(i) /\ C(i) <= k
  <2> DEFINE T == {j \in 1 .. n : \A a \in 1 .. n : W[a] /\ W[j] /\ a < j => Y(a) /\ C(a) <= j}
  <2>1. ASSUME NEW j \in 1 .. n, \A b \in 1 .. j - 1 : b \in T
        PROVE  j \in T
    <3>1. SUFFICES ASSUME NEW a \in 1 .. n, W[a], W[j], a < j
                   PROVE  Y(a) /\ C(a) <= j
      OBVIOUS
    <3> DEFINE p == j \div 2
    <3>2. p \in 1 .. n /\ p \in 1 .. j - 1 /\ j \in 2 .. n
      BY <1>1, <3>1
    <3>3. W[p] /\ Y(p) /\ j = C(p)
      BY <1>2, <3>1, <3>2
    <3> HIDE DEF p
    <3>4. CASE a < p
      BY <1>1, <1>3, <2>1, <3>1, <3>2, <3>3, <3>4
    <3>5. CASE a = p
      BY <3>1, <3>3, <3>5
    <3>6. CASE p < a
      <4>1. a \in 1 .. j - 1
        BY <1>1, <3>1
      <4>2. C(p) <= a
        BY <2>1, <3>1, <3>2, <3>3, <3>6, <4>1
      <4> QED
        BY <1>1, <3>1, <3>3, <4>2
    <3> QED
      BY <1>1, <3>2, <3>4, <3>5, <3>6
  <2> DEFINE B == {j \in Nat : 1 .. j \cap 1 .. n \subseteq T}
  <2> HIDE DEF T
  <2>2. 0 \in B
    OBVIOUS
  <2>3. ASSUME NEW b \in Nat, b \in B PROVE b + 1 \in B
    <3>1. \A j \in 1 .. b + 1 : j \in 1 .. b \/ j = b + 1
      OBVIOUS
    <3>2. b + 1 \in 1 .. n => b + 1 \in T
      BY <1>1, <2>1, <2>3
    <3> QED
      BY <2>3, <3>1, <3>2
  <2> HIDE DEF B
  <2>4. k \in B
    BY <1>1, <2>2, <2>3, Induction
  <2>5. k \in T
    BY <1>1, <2>4 DEF B
  <2> QED
    BY <1>8, <2>5 DEF T
<1>9. ASSUME NEW j \in 1 .. n
      PROVE  from(j) \in 1 .. n /\ r[j] = e[from(j)]
  <2>1. CASE ~ W[j]
    <3>1. j \in 2 .. n
      BY <1>1, <1>2, <2>1
    <3> QED
      BY <1>1, <1>4, <2>1, <3>1
  <2>2. CASE W[j] /\ Y(j)
    <3>1. C(j) \in 2 .. n
      BY <1>7, <2>2
    <3> QED
      BY <1>1, <1>4, <2>2, <3>1
  <2>3. CASE W[j] /\ ~ Y(j)
    BY <1>1, <1>4, <2>3
  <2> QED
    BY <2>1, <2>2, <2>3
<1>10. ASSUME NEW i \in 1 .. n, NEW j \in 1 .. n, from(i) = from(j), i < j
       PROVE  FALSE
  <2>1. CASE ~ W[i] /\ ~ W[j]
    BY <1>1, <1>10, <2>1
  <2>2. CASE W[i] /\ W[j]
    <3>1. Y(i) /\ from(i) = C(i) /\ C(i) \in 2 .. n
      BY <1>7, <1>8, <1>10, <2>2
    <3>2. Y(j) /\ from(j) = C(j)
      BY <1>10, <2>2, <3>1
    <3> QED
      BY <1>1, <1>3, <1>10, <3>1, <3>2
  <2>3. CASE W[i] /\ ~ W[j]
    BY <1>1, <1>2, <1>7, <1>10, <2>3
  <2>4. CASE ~ W[i] /\ W[j]
    BY <1>1, <1>2, <1>7, <1>10, <2>4
  <2> QED
    BY <2>1, <2>2, <2>3, <2>4
<1>11. ASSUME NEW k \in 1 .. n
       PROVE  \E j \in 1 .. n : from(j) = k
  <2>1. CASE k # 1 /\ ~ W[k]
    BY <2>1
  <2>2. CASE k # 1 /\ W[k]
    <3>1. k \div 2 \in 1 .. n /\ k \in 2 .. n
      BY <1>1, <2>2
    <3> QED
      BY <1>2, <2>2, <3>1
  <2>3. CASE k = 1
    <3> DEFINE Way == {j \in 1 .. n : W[j]}
    <3>1. Way # {} /\ Way \in SUBSET (0 .. n) /\ 1 \in Way
      BY <1>1, <1>2
    <3> HIDE DEF Way
    <3>2. Max(Way) \in Way /\ \A j \in Way : j <= Max(Way)
      <4>1. Max(Way) \in Way /\ Way \subseteq Min(Way) .. Max(Way)
        BY <1>1, <3>1, Extremes
      <4> QED
        BY <4>1
    <3>3. ~ Y(Max(Way))
      <4>1. SUFFICES ASSUME Y(Max(Way)) PROVE FALSE
        OBVIOUS
      <4> DEFINE m == Max(Way)
      <4>2. m \in 1 .. n /\ W[m] /\ Y(m)
        BY <3>2, <4>1 DEF Way
      <4>3. C(m) \in Way /\ C(m) \in {2 * m, 2 * m + 1}
        BY <1>1, <1>3, <1>7, <4>2 DEF Way
      <4> QED
        BY <1>1, <3>2, <4>2, <4>3
    <3> QED
      BY <2>3, <3>2, <3>3 DEF Way
  <2> QED
    BY <2>1, <2>2, <2>3
<1>12. r \in Seq(Elements) /\ Len(r) = n
  <2>1. \A j \in 1 .. n : r[j] \in Elements
    BY <1>1, <1>9
  <2>2. r = [j \in 1 .. n |-> r[j]]
    BY <1>1, <1>5 DEF SiftDown, r
  <2> QED
    BY <1>1, <2>1, <2>2
<1>13. OfDistinctChunks(r)
  <2>1. SUFFICES ASSUME NEW i \in 1 .. n, NEW j \in 1 .. n, r[i].chunk = r[j].chunk, i # j
                 PROVE  FALSE
    BY <1>5 DEF OfDistinctChunks
  <2>2. from(i) = from(j)
    BY <1>1, <1>9, <2>1 DEF OfDistinctChunks
  <2>3. i < j \/ j < i
    BY <1>1, <2>1
  <2> HIDE DEF from
  <2> QED
    BY <1>10, <2>2, <2>3
<1>14. Range(r) = Range(e)
  <2> HIDE DEF from
  <2>1. Range(r) = {r[j] : j \in 1 .. n} /\ Range(e) = {e[j] : j \in 1 .. n}
    BY <1>1, <1>5 DEF Range
  <2>2. \A j \in 1 .. n : \E k \in 1 .. n : r[j] = e[k]
    BY <1>9
  <2>3. \A k \in 1 .. n : \E j \in 1 .. n : r[j] = e[k]
    BY <1>9, <1>11
  <2>4. Range(r) \subseteq Range(e)
    BY <2>1, <2>2
  <2>5. Range(e) \subseteq Range(r)
    BY <2>1, <2>3
  <2> QED
    BY <2>4, <2>5
<1>15. ASSUME NEW j \in 2 .. n
       PROVE  Less(r[j \div 2], r[j])
  <2> DEFINE p == j \div 2
  <2>1. p \in 1 .. n /\ j \in {2 * p, 2 * p + 1} /\ j \in 1 .. n /\ 2 * p <= n
    BY <1>1
  <2>2. W[j] <=> W[p] /\ Y(p) /\ j = C(p)
    BY <1>2
  <2> HIDE DEF p
  <2>3. CASE ~ W[p]
    <3>1. p # 1 /\ ~ W[j]
      BY <1>2, <2>2, <2>3
    <3>2. j \in 4 .. n
      BY <1>1, <2>1, <3>1
    <3> QED
      BY <1>4, <2>1, <2>3, <3>1, <3>2 DEF p, n
  <2>4. CASE W[p] /\ Y(p)
    <3>1. r[p] = h[C(p)] /\ C(p) \in 2 .. n
      BY <1>4, <1>7, <2>1, <2>4
    <3>2. CASE j # C(p)
      <4>1. r[j] = h[j]
        BY <1>4, <2>1, <2>2, <3>2
      <4>2. Less(h[C(p)], h[j])
        <5>1. j <= n
          BY <1>1
        <5> QED
          BY <1>6, <2>1, <3>2, <5>1
      <4> QED
        BY <3>1, <4>1, <4>2 DEF p
    <3>3. CASE j = C(p) /\ Y(j)
      <4>1. r[j] = h[C(j)] /\ C(j) \in 2 .. n /\ C(j) \in {2 * j, 2 * j + 1} /\ C(j) \div 2 = j
        BY <1>3, <1>4, <1>7, <2>1, <2>2, <2>4, <3>3
      <4>2. C(j) \in 4 .. n
        BY <1>1, <4>1
      <4>3. Less(h[j], h[C(j)])
        BY <4>1, <4>2 DEF n
      <4> QED
        BY <3>1, <3>3, <4>1, <4>3 DEF p
    <3>4. CASE j = C(p) /\ ~ Y(j)
      <4>1. r[j] = x
        BY <1>4, <2>1, <2>2, <2>4, <3>4
      <4>2. Less(h[C(p)], x)
        BY <1>3, <2>1, <2>4
      <4> QED
        BY <3>1, <4>1, <4>2 DEF p
    <3> QED
      BY <3>2, <3>3, <3>4
  <2>5. CASE W[p] /\ ~ Y(p)
    <3>1. r[p] = x /\ r[j] = h[j]
      BY <1>4, <2>1, <2>2, <2>5
    <3>2. C(p) \in 2 .. n /\ ~ Less(h[C(p)], x)
      BY <1>3, <2>1, <2>5
    <3>3. h[C(p)] \in Elements /\ h[j] \in Elements /\ h[C(p)].chunk # x.chunk
      BY <1>1, <2>1, <3>2 DEF OfDistinctChunks
    <3>4. Less(x, h[C(p)])
      BY <3>2, <3>3, LessOrder
    <3>5. CASE j = C(p)
      BY <3>1, <3>4, <3>5 DEF p
    <3>6. CASE j # C(p)
      <4>1. Less(h[C(p)], h[j])
        <5>1. j <= n
          BY <1>1
        <5> QED
          BY <1>6, <2>1, <3>6, <5>1
      <4>2. Less(x, h[j])
        BY <3>3, <3>4, <4>1, LessOrder
      <4> QED
        BY <3>1, <4>2 DEF p
    <3> QED
      BY <3>5, <3>6
  <2> QED
    BY <2>3, <2>4, <2>5
<1>16. IsHeap(r)
  BY <1>12, <1>15 DEF IsHeap
<1> QED
  BY <1>12, <1>13, <1>14, <1>16 DEF n, r

(* The root of a heap is its least element.                                *)
LEMMA RootLeast ==
  ASSUME NEW h \in Seq(Elements), IsHeap(h), NEW j \in 2 .. Len(h)
  PROVE  Less(h[1], h[j])
<1> DEFINE n == Len(h)
           B == {b \in Nat : \A i \in 2 .. n : i <= b => Less(h[1], h[i])}
<1>1. /\ n \in Nat
      /\ \A i \in 1 .. n : h[i] \in Elements
      /\ \A i \in 2 .. n : Less(h[i \div 2], h[i])
  BY DEF IsHeap
<1> HIDE DEF n
<1>2. 0 \in B
  OBVIOUS
<1>3. ASSUME NEW b \in Nat, b \in B PROVE b + 1 \in B
  <2>1. SUFFICES ASSUME NEW i \in 2 .. n, i = b + 1 PROVE Less(h[1], h[i])
    BY <1>3
  <2> DEFINE p == i \div 2
  <2>2. p \in 1 .. n /\ p <= b /\ 1 \in 1 .. n /\ i \in 1 .. n
    BY <1>1, <2>1
  <2>3. Less(h[p], h[i])
    BY <1>1
  <2> HIDE DEF p
  <2>4. CASE p = 1
    BY <2>3, <2>4
  <2>5. CASE p # 1
    <3>1. p \in 2 .. n
      BY <1>1, <2>2, <2>5
    <3>2. Less(h[1], h[p])
      BY <1>3, <2>2, <3>1
    <3>3. h[1] \in Elements /\ h[p] \in Elements /\ h[i] \in Elements
      BY <1>1, <2>2
    <3> QED
      BY <2>3, <3>2, <3>3, LessOrder
  <2> QED
    BY <2>4, <2>5
<1> HIDE DEF B
<1>4. j \in B
  BY <1>1, <1>2, <1>3, Induction DEF n
<1> QED
  BY <1>4 DEF B, n

(* The way up exists as well.                                              *)
LEMMA WayUpAt ==
  ASSUME NEW n \in Nat, NEW h, NEW x, n = Len(h) + 1
  PROVE  \A j \in 1 .. n :
           WayUp(h, x)[j] <=>
             \/ j = n
             \/ Less(x, h[j]) /\ \E child \in {2 * j, 2 * j + 1} : child <= n /\ WayUp(h, x)[child]
<1> DEFINE Body(f, j) == \/ j = n
                         \/ Less(x, h[j]) /\ \E child \in {2 * j, 2 * j + 1} : child <= n /\ f[child]
           Is(f) == f = [j \in 1 .. n |-> Body(f, j)]
           Solves(f, k) == /\ f \in [1 .. n -> BOOLEAN]
                           /\ \A j \in 1 .. n : j + k > n => f[j] = Body(f, j)
           T == {k \in Nat : k <= n => \E f : Solves(f, k)}
<1> HIDE DEF Body
<1>1. 0 \in T
  <2>1. \A j \in 1 .. n : ~ (j + 0 > n)
    OBVIOUS
  <2>2. Solves([j \in 1 .. n |-> TRUE], 0)
    BY <2>1
  <2> HIDE DEF Solves
  <2> QED
    BY <2>2
<1>2. ASSUME NEW k \in Nat, k \in T PROVE k + 1 \in T
  <2>1. SUFFICES ASSUME k + 1 <= n PROVE \E f : Solves(f, k + 1)
    <3> HIDE DEF Solves
    <3> QED
      BY <2>1
  <2>2. PICK f : Solves(f, k)
    <3> HIDE DEF Solves
    <3> QED
      BY <1>2, <2>1
  <2> DEFINE a == n - k
             v == Body(f, a)
             g == [f EXCEPT ![a] = v]
  <2>3. a \in 1 .. n /\ v \in BOOLEAN
    BY <2>1 DEF Body
  <2>4. /\ g \in [1 .. n -> BOOLEAN] /\ g[a] = v
        /\ \A j \in 1 .. n : j # a => g[j] = f[j]
    BY <2>2, <2>3
  <2>5. \A j \in 1 .. n : j + (k + 1) > n => j = a \/ j + k > n
    BY <2>1
  <2>6. \A j \in 1 .. n : j >= a =>
          \A child \in {2 * j, 2 * j + 1} : child <= n => child \in 1 .. n /\ child # a
    BY <2>3
  <2>7. \A j \in 1 .. n : j + (k + 1) > n => j >= a
    BY <2>1
  <2> HIDE DEF a, v, g
  <2>8. \A j \in 1 .. n : j >= a => Body(g, j) = Body(f, j)
    BY <2>4, <2>6 DEF Body
  <2>9. \A j \in 1 .. n : j + (k + 1) > n => g[j] = Body(g, j)
    BY <2>2, <2>4, <2>5, <2>7, <2>8 DEF v
  <2>10. Solves(g, k + 1)
    BY <2>4, <2>9
  <2> HIDE DEF Solves
  <2> QED
    BY <2>10
<1> HIDE DEF T
<1>3. n \in T
  BY <1>1, <1>2, Induction
<1>4. PICK f : Solves(f, n)
  <2> HIDE DEF Solves
  <2> QED
    BY <1>3 DEF T
<1>5. Is(f)
  <2>1. \A j \in 1 .. n : f[j] = Body(f, j)
    <3>1. \A j \in 1 .. n : j + n > n
      OBVIOUS
    <3> QED
      BY <1>4, <3>1
  <2> QED
    BY <1>4, <2>1
<1>6. Is(CHOOSE g : Is(g))
  BY <1>5
<1>7. WayUp(h, x) = CHOOSE g : Is(g)
  BY DEF WayUp, Body
<1>8. Is(WayUp(h, x))
  BY <1>6, <1>7
<1>9. \A j \in 1 .. n : WayUp(h, x)[j] = Body(WayUp(h, x), j)
  BY <1>8
<1> QED
  BY <1>9 DEF Body

(* An element of another chunk inserted into a heap.                       *)
LEMMA InsertSound ==
  ASSUME NEW h \in Seq(Elements), NEW x \in Elements,
         IsHeap(h), NEW e, e = Append(h, x), OfDistinctChunks(e)
  PROVE  /\ Insert(h, x) \in Seq(Elements)
         /\ Len(Insert(h, x)) = Len(h) + 1
         /\ IsHeap(Insert(h, x))
         /\ OfDistinctChunks(Insert(h, x))
         /\ Range(Insert(h, x)) = Range(e)
<1> DEFINE n == Len(h) + 1
           W == WayUp(h, x)
           S(j) == j > 1 /\ Less(x, h[j \div 2])
           r == Insert(h, x)
           from(j) == IF ~ W[j] THEN j ELSE IF S(j) THEN j \div 2 ELSE n
<1>1. /\ n \in Nat \ {0} /\ DOMAIN h = 1 .. n - 1 /\ Len(h) = n - 1
      /\ \A j \in 1 .. n - 1 : h[j] \in Elements
      /\ DOMAIN e = 1 .. n /\ e[n] = x
      /\ \A j \in 1 .. n : e[j] \in Elements
      /\ \A j \in 1 .. n - 1 : e[j] = h[j]
  OBVIOUS
<1>2. \A j \in 1 .. n :
        W[j] <=> \/ j = n
                 \/ Less(x, h[j]) /\ \E child \in {2 * j, 2 * j + 1} : child <= n /\ W[child]
  <2>1. n \in Nat /\ n = Len(h) + 1
    BY <1>1
  <2> HIDE DEF n
  <2> QED
    BY <2>1, WayUpAt
<1>3. \A j \in 1 .. n : r[j] = IF ~ W[j] THEN h[j] ELSE IF S(j) THEN h[j \div 2] ELSE x
  BY <1>1 DEF Insert
<1>4. DOMAIN r = 1 .. n /\ r = [j \in 1 .. n |-> r[j]]
  BY <1>1 DEF Insert
<1>5. \A j \in 2 .. n - 1 : Less(h[j \div 2], h[j])
  BY <1>1 DEF IsHeap
<1>6. ASSUME NEW j \in 2 .. n
      PROVE  j \div 2 \in 1 .. n - 1 /\ j \in {2 * (j \div 2), 2 * (j \div 2) + 1}
  BY <1>1
<1>7. n \in 1 .. n /\ W[n]
  <2>1. n \in 1 .. n
    BY <1>1
  <2> HIDE DEF n, W
  <2> QED
    BY <1>2, <2>1
<1> HIDE DEF W, S, r, n
<1>8. ASSUME NEW j \in 1 .. n, W[j], S(j)
      PROVE  j \in 2 .. n /\ W[j \div 2]
  <2> DEFINE p == j \div 2
  <2>1. j \in 2 .. n /\ Less(x, h[p])
    BY <1>1, <1>8 DEF S
  <2>2. p \in 1 .. n /\ j \in {2 * p, 2 * p + 1} /\ j <= n
    BY <1>1, <1>6, <2>1
  <2> HIDE DEF p
  <2>3. W[p]
    BY <1>2, <1>8, <2>1, <2>2
  <2> QED
    BY <2>1, <2>3 DEF p
<1>9. ASSUME NEW j \in 1 .. n, W[j], j # n
      PROVE  \E k \in 2 .. n : k \div 2 = j /\ j < k /\ W[k] /\ S(k)
  <2>1. PICK k \in {2 * j, 2 * j + 1} : Less(x, h[j]) /\ k <= n /\ W[k]
    BY <1>2, <1>9
  <2>2. k \in 2 .. n /\ k \div 2 = j /\ j < k /\ k > 1
    BY <1>1, <2>1
  <2> QED
    BY <2>1, <2>2 DEF S
(* The way up is one way, too.                                             *)
<1>10. ASSUME NEW i \in 1 .. n, NEW k \in 1 .. n, W[i], W[k], i < k
       PROVE  S(k) /\ i <= k \div 2
  <2> DEFINE T == {a \in 1 .. n : \A j \in 1 .. n : W[a] /\ W[j] /\ a < j => S(j) /\ a <= j \div 2}
  <2>1. ASSUME NEW a \in 1 .. n, \A b \in a + 1 .. n : b \in T
        PROVE  a \in T
    <3>1. SUFFICES ASSUME NEW j \in 1 .. n, W[a], W[j], a < j
                   PROVE  S(j) /\ a <= j \div 2
      OBVIOUS
    <3>2. PICK c \in 2 .. n : c \div 2 = a /\ a < c /\ W[c] /\ S(c)
      BY <1>1, <1>9, <3>1
    <3>3. CASE c < j
      <4>1. c \in T
        BY <1>1, <2>1, <3>2
      <4>2. S(j) /\ c <= j \div 2
        BY <3>1, <3>2, <3>3, <4>1
      <4> QED
        BY <1>1, <3>1, <3>2, <4>2
    <3>4. CASE c = j
      BY <3>2, <3>4
    <3>5. CASE j < c
      <4>1. j \in T /\ c \in 1 .. n
        BY <1>1, <2>1, <3>1
      <4>2. j <= c \div 2
        BY <3>1, <3>2, <3>5, <4>1
      <4> QED
        BY <1>1, <3>1, <3>2, <4>2
    <3> QED
      BY <1>1, <3>2, <3>3, <3>4, <3>5
  <2> DEFINE B == {b \in Nat : \A a \in 1 .. n : a + b >= n => a \in T}
  <2> HIDE DEF T
  <2>2. 0 \in B
    <3>1. SUFFICES ASSUME NEW a \in 1 .. n, a + 0 >= n PROVE a \in T
      OBVIOUS
    <3>2. \A b \in a + 1 .. n : b \in T
      BY <1>1, <3>1
    <3> QED
      BY <2>1, <3>2
  <2>3. ASSUME NEW b \in Nat, b \in B PROVE b + 1 \in B
    <3>1. SUFFICES ASSUME NEW a \in 1 .. n, a + (b + 1) >= n PROVE a \in T
      OBVIOUS
    <3>2. \A d \in a + 1 .. n : d \in 1 .. n /\ d + b >= n
      BY <1>1, <3>1
    <3>3. \A d \in a + 1 .. n : d \in T
      BY <2>3, <3>2
    <3> QED
      BY <2>1, <3>3
  <2> HIDE DEF B
  <2>4. n \in B
    BY <1>1, <2>2, <2>3, Induction
  <2>5. i \in T
    <3>1. i + n >= n
      BY <1>1
    <3> QED
      BY <2>4, <3>1 DEF B
  <2> QED
    BY <1>10, <2>5 DEF T
<1>11. ASSUME NEW j \in 1 .. n
       PROVE  from(j) \in 1 .. n /\ r[j] = e[from(j)]
  <2>1. CASE ~ W[j]
    <3>1. j \in 1 .. n - 1
      BY <1>1, <1>7, <2>1
    <3> QED
      BY <1>1, <1>3, <2>1, <3>1
  <2>2. CASE W[j] /\ S(j)
    <3>1. j \div 2 \in 1 .. n - 1
      BY <1>6, <1>8, <2>2
    <3> QED
      BY <1>1, <1>3, <2>2, <3>1
  <2>3. CASE W[j] /\ ~ S(j)
    BY <1>1, <1>3, <1>7, <2>3
  <2> QED
    BY <2>1, <2>2, <2>3
<1>12. ASSUME NEW i \in 1 .. n, NEW j \in 1 .. n, from(i) = from(j), i < j
       PROVE  FALSE
  <2>1. CASE ~ W[i] /\ ~ W[j]
    BY <1>1, <1>12, <2>1
  <2>2. CASE W[i] /\ W[j]
    <3>1. S(j) /\ i <= j \div 2 /\ j \div 2 \in 1 .. n - 1
      BY <1>6, <1>8, <1>10, <1>12, <2>2
    <3> QED
      BY <1>1, <1>12, <2>2, <3>1
  <2>3. CASE W[i] /\ ~ W[j]
    BY <1>1, <1>7, <1>12, <2>3
  <2>4. CASE ~ W[i] /\ W[j]
    BY <1>7, <1>8, <1>12, <2>4
  <2> QED
    BY <2>1, <2>2, <2>3, <2>4
<1>13. ASSUME NEW k \in 1 .. n
       PROVE  \E j \in 1 .. n : from(j) = k
  <2>1. CASE k # n /\ ~ W[k]
    BY <2>1
  <2>2. CASE k # n /\ W[k]
    <3>1. PICK c \in 2 .. n : c \div 2 = k /\ W[c] /\ S(c)
      BY <1>9, <2>2
    <3>2. c \in 1 .. n
      BY <1>1
    <3> QED
      BY <3>1, <3>2
  <2>3. CASE k = n
    <3> DEFINE Way == {j \in 1 .. n : W[j]}
    <3>1. Way # {} /\ Way \in SUBSET Nat
      BY <1>1, <1>7
    <3> HIDE DEF Way
    <3>2. PICK m \in Way : \A j \in Way : m <= j
      BY <3>1, Least
    <3>3. ~ S(m)
      <4>1. SUFFICES ASSUME S(m) PROVE FALSE
        OBVIOUS
      <4>2. m \in 2 .. n /\ W[m \div 2]
        BY <1>8, <3>2, <4>1 DEF Way
      <4>3. m \div 2 \in 1 .. n /\ ~ m <= m \div 2
        BY <1>1, <4>2
      <4> QED
        BY <3>2, <4>2, <4>3 DEF Way
    <3> QED
      BY <2>3, <3>2, <3>3 DEF Way
  <2> QED
    BY <2>1, <2>2, <2>3
<1>14. r \in Seq(Elements) /\ Len(r) = n
  <2>1. \A j \in 1 .. n : r[j] \in Elements
    BY <1>1, <1>11
  <2> QED
    BY <1>1, <1>4, <2>1
<1>15. OfDistinctChunks(r)
  <2>1. SUFFICES ASSUME NEW i \in 1 .. n, NEW j \in 1 .. n, r[i].chunk = r[j].chunk, i # j
                 PROVE  FALSE
    BY <1>4 DEF OfDistinctChunks
  <2>2. from(i) = from(j)
    BY <1>1, <1>11, <2>1 DEF OfDistinctChunks
  <2>3. i < j \/ j < i
    BY <1>1, <2>1
  <2> HIDE DEF from
  <2> QED
    BY <1>12, <2>2, <2>3
<1>16. Range(r) = Range(e)
  <2> HIDE DEF from
  <2>1. Range(r) = {r[j] : j \in 1 .. n} /\ Range(e) = {e[j] : j \in 1 .. n}
    BY <1>1, <1>4 DEF Range
  <2>2. \A j \in 1 .. n : \E k \in 1 .. n : r[j] = e[k]
    BY <1>11
  <2>3. \A k \in 1 .. n : \E j \in 1 .. n : r[j] = e[k]
    BY <1>11, <1>13
  <2>4. Range(r) \subseteq Range(e)
    BY <2>1, <2>2
  <2>5. Range(e) \subseteq Range(r)
    BY <2>1, <2>3
  <2> QED
    BY <2>4, <2>5
<1>17. ASSUME NEW j \in 2 .. n
       PROVE  Less(r[j \div 2], r[j])
  <2> DEFINE p == j \div 2
  <2>1. p \in 1 .. n - 1 /\ p \in 1 .. n /\ j \in {2 * p, 2 * p + 1} /\ j \in 1 .. n /\ p # n /\ j <= n /\ j > 1
    BY <1>1, <1>6
  <2>2. h[p] \in Elements
    BY <1>1, <2>1
  <2>3. S(j) <=> Less(x, h[p])
    BY <2>1 DEF S
  <2>4. p \in 2 .. n - 1 => Less(h[p \div 2], h[p]) /\ h[p \div 2] \in Elements
    BY <1>1, <1>5, <1>6
  <2>5. S(p) => p \in 2 .. n - 1
    BY <1>1, <2>1 DEF S
  <2>6. W[p] => Less(x, h[p])
    BY <1>2, <2>1
  <2> HIDE DEF p
  (* What the parent holds, once it has been passed, is less than before.  *)
  <2>7. W[p] => r[p] \in Elements /\ Less(r[p], h[p])
    <3>1. CASE W[p] /\ S(p)
      BY <1>3, <2>1, <2>4, <2>5, <3>1
    <3>2. CASE W[p] /\ ~ S(p)
      BY <1>3, <2>1, <2>6, <3>2
    <3> QED
      BY <3>1, <3>2
  <2>8. CASE ~ W[j]
    <3>1. j \in 2 .. n - 1 /\ r[j] = h[j] /\ h[j] \in Elements /\ Less(h[p], h[j])
      <4>1. j \in 2 .. n - 1
        BY <1>1, <1>7, <2>8
      <4> QED
        BY <1>1, <1>3, <1>5, <2>1, <2>8, <4>1 DEF p
    <3>2. CASE W[p]
      <4>1. Less(r[p], h[j])
        BY <2>2, <2>7, <3>1, <3>2, LessOrder
      <4> QED
        BY <3>1, <4>1 DEF p
    <3>3. CASE ~ W[p]
      BY <1>3, <2>1, <3>1, <3>3 DEF p
    <3> QED
      BY <3>2, <3>3
  <2>9. CASE W[j] /\ S(j)
    <3>1. W[p] /\ r[j] = h[p]
      BY <1>3, <1>8, <2>1, <2>9 DEF p
    <3> QED
      BY <2>7, <3>1 DEF p
  <2>10. CASE W[j] /\ ~ S(j)
    <3>1. r[j] = x /\ ~ Less(x, h[p])
      BY <1>3, <2>1, <2>3, <2>10
    <3>2. ~ W[p]
      BY <2>6, <3>1
    <3>3. r[p] = h[p]
      BY <1>3, <2>1, <3>2
    <3>4. h[p].chunk # x.chunk
      BY <1>1, <1>7, <2>1 DEF OfDistinctChunks
    <3> QED
      BY <2>2, <3>1, <3>3, <3>4, LessOrder DEF p
  <2> QED
    BY <2>8, <2>9, <2>10
<1>18. IsHeap(r)
  BY <1>14, <1>17 DEF IsHeap
<1> QED
  BY <1>14, <1>15, <1>16, <1>18 DEF n, r

(* What is in the heap after its top has been replaced by the next element *)
(* of the same chunk.                                                      *)
LEMMA ReplaceTopSound ==
  ASSUME NEW h \in Seq(Elements), Len(h) # 0, IsHeap(h), OfDistinctChunks(h),
         NEW x \in Elements, x.chunk = h[1].chunk
  PROVE  /\ ReplaceTop(h, x) \in Seq(Elements)
         /\ Len(ReplaceTop(h, x)) = Len(h)
         /\ IsHeap(ReplaceTop(h, x))
         /\ OfDistinctChunks(ReplaceTop(h, x))
         /\ Range(ReplaceTop(h, x)) = (Range(h) \ {h[1]}) \cup {x}
<1> DEFINE n == Len(h)
           e == [h EXCEPT ![1] = x]
<1>1. /\ n \in Nat \ {0} /\ DOMAIN h = 1 .. n /\ 1 \in 1 .. n
      /\ DOMAIN e = 1 .. n /\ e[1] = x
      /\ \A j \in 2 .. n : e[j] = h[j]
      /\ \A j \in 1 .. n : j = 1 \/ j \in 2 .. n
  OBVIOUS
<1>2. \A j \in 1 .. n : e[j].chunk = h[j].chunk
  BY <1>1
<1>3. \A j \in 4 .. n : Less(h[j \div 2], h[j])
  BY <1>1 DEF IsHeap
<1> HIDE DEF e
<1>4. OfDistinctChunks(e)
  BY <1>1, <1>2 DEF OfDistinctChunks
<1>5. \A j \in 2 .. n : h[j] # h[1]
  BY <1>1 DEF OfDistinctChunks
<1>6. Range(e) \subseteq (Range(h) \ {h[1]}) \cup {x}
  BY <1>1, <1>5 DEF Range
<1>7. (Range(h) \ {h[1]}) \cup {x} \subseteq Range(e)
  <2>1. ASSUME NEW y \in Range(h) \ {h[1]} PROVE y \in Range(e)
    <3>1. PICK j \in 1 .. n : y = h[j]
      BY <1>1 DEF Range
    <3>2. j \in 2 .. n
      BY <1>1, <3>1
    <3> QED
      BY <1>1, <3>1, <3>2 DEF Range
  <2> QED
    BY <1>1, <2>1 DEF Range
<1>8. e = [h EXCEPT ![1] = x]
  BY DEF e
<1> HIDE DEF n
<1>9. /\ SiftDown(h, x) \in Seq(Elements) /\ Len(SiftDown(h, x)) = Len(h)
      /\ IsHeap(SiftDown(h, x)) /\ OfDistinctChunks(SiftDown(h, x))
      /\ Range(SiftDown(h, x)) = Range(e)
  BY <1>3, <1>4, <1>8, SiftDownSound DEF n
<1> QED
  BY <1>6, <1>7, <1>9 DEF ReplaceTop

(* What is in it after the top has been taken away.                        *)
LEMMA PopTopSound ==
  ASSUME NEW h \in Seq(Elements), Len(h) # 0, IsHeap(h), OfDistinctChunks(h)
  PROVE  /\ PopTop(h) \in Seq(Elements)
         /\ Len(PopTop(h)) = Len(h) - 1
         /\ IsHeap(PopTop(h))
         /\ OfDistinctChunks(PopTop(h))
         /\ Range(PopTop(h)) = Range(h) \ {h[1]}
<1> DEFINE n == Len(h)
<1>1. n \in Nat \ {0} /\ DOMAIN h = 1 .. n /\ \A j \in 1 .. n : h[j] \in Elements
  OBVIOUS
<1>2. CASE n = 1
  <2>1. PopTop(h) = <<>>
    BY <1>2 DEF PopTop
  <2>2. Range(h) = {h[1]} /\ Range(<<>>) = {}
    BY <1>1, <1>2 DEF Range
  <2> QED
    BY <1>2, <2>1, <2>2 DEF IsHeap, OfDistinctChunks
<1>3. CASE n # 1
  <2> DEFINE g == SubSeq(h, 1, n - 1)
             x == h[n]
             e == [g EXCEPT ![1] = x]
  <2>1. n \in Nat /\ n > 1 /\ n \in 1 .. n /\ x \in Elements
    BY <1>1, <1>3
  <2>2. /\ g \in Seq(Elements) /\ Len(g) = n - 1 /\ DOMAIN g = 1 .. n - 1
        /\ \A j \in 1 .. n - 1 : g[j] = h[j]
    BY <2>1
  <2> HIDE DEF g, x
  <2>3. /\ DOMAIN e = 1 .. n - 1 /\ e[1] = x
        /\ \A j \in 2 .. n - 1 : e[j] = h[j]
        /\ \A j \in 1 .. n - 1 : j = 1 \/ j \in 2 .. n - 1
    BY <2>1, <2>2
  <2>4. \A j \in 4 .. Len(g) : Less(g[j \div 2], g[j])
    <3>1. SUFFICES ASSUME NEW j \in 4 .. n - 1 PROVE Less(g[j \div 2], g[j])
      BY <2>2
    <3>2. j \in 2 .. n /\ j \div 2 \in 1 .. n - 1 /\ j \in 1 .. n - 1
      BY <2>1
    <3> QED
      BY <2>2, <3>2 DEF IsHeap
  <2>5. e = [g EXCEPT ![1] = x]
    OBVIOUS
  <2> HIDE DEF e, n
  <2>6. OfDistinctChunks(e)
    <3>1. SUFFICES ASSUME NEW i \in 1 .. n - 1, NEW j \in 1 .. n - 1, e[i].chunk = e[j].chunk
                   PROVE  i = j
      BY <2>3 DEF OfDistinctChunks
    <3> DEFINE from(k) == IF k = 1 THEN n ELSE k
    <3>2. \A k \in 1 .. n - 1 : from(k) \in 1 .. n /\ e[k] = h[from(k)]
      BY <2>1, <2>3 DEF x
    <3>3. from(i) = from(j)
      BY <1>1, <3>1, <3>2 DEF OfDistinctChunks
    <3> QED
      BY <2>1, <3>3
  <2>7. \A j \in 2 .. n : h[j] # h[1]
    BY <1>1, <2>1 DEF OfDistinctChunks
  <2>8. Range(e) \subseteq Range(h) \ {h[1]}
    <3>1. SUFFICES ASSUME NEW j \in 1 .. n - 1 PROVE e[j] \in Range(h) \ {h[1]}
      BY <2>3 DEF Range
    <3>2. \E k \in 2 .. n : e[j] = h[k]
      <4>1. CASE j = 1
        <5>1. e[j] = h[n] /\ n \in 2 .. n
          BY <2>1, <2>3, <4>1 DEF x
        <5> QED
          BY <5>1
      <4>2. CASE j # 1
        <5>1. e[j] = h[j] /\ j \in 2 .. n
          BY <2>1, <2>3, <4>2
        <5> QED
          BY <5>1
      <4> QED
        BY <4>1, <4>2
    <3>3. \A k \in 2 .. n : k \in 1 .. n
      BY <2>1
    <3> QED
      BY <1>1, <2>7, <3>2, <3>3 DEF Range
  <2>9. Range(h) \ {h[1]} \subseteq Range(e)
    <3>1. SUFFICES ASSUME NEW k \in 1 .. n, h[k] # h[1] PROVE h[k] \in Range(e)
      BY <1>1 DEF Range
    <3>2. CASE k = n
      <4>1. 1 \in 1 .. n - 1
        BY <2>1
      <4> QED
        BY <2>3, <3>2, <4>1 DEF Range, x
    <3>3. CASE k # n
      <4>1. k \in 2 .. n - 1 /\ k \in 1 .. n - 1
        BY <2>1, <3>1, <3>3
      <4> QED
        BY <2>3, <4>1 DEF Range
    <3> QED
      BY <3>2, <3>3
  <2>10. /\ SiftDown(g, x) \in Seq(Elements) /\ Len(SiftDown(g, x)) = Len(g)
         /\ IsHeap(SiftDown(g, x)) /\ OfDistinctChunks(SiftDown(g, x))
         /\ Range(SiftDown(g, x)) = Range(e)
    <3>1. Len(g) # 0
      BY <2>1, <2>2
    <3> QED
      BY <2>1, <2>2, <2>4, <2>5, <2>6, <3>1, SiftDownSound
  <2>11. PopTop(h) = SiftDown(g, x)
    BY <1>3 DEF PopTop, g, x, n
  <2> QED
    BY <2>2, <2>8, <2>9, <2>10, <2>11 DEF n
<1> QED
  BY <1>2, <1>3

(* What is in it after an insertion.                                       *)
LEMMA InsertRange ==
  ASSUME NEW h \in Seq(Elements), NEW x \in Elements, IsHeap(h), OfDistinctChunks(h),
         \A y \in Range(h) : y.chunk # x.chunk
  PROVE  /\ Insert(h, x) \in Seq(Elements)
         /\ Len(Insert(h, x)) = Len(h) + 1
         /\ IsHeap(Insert(h, x))
         /\ OfDistinctChunks(Insert(h, x))
         /\ Range(Insert(h, x)) = Range(h) \cup {x}
<1> DEFINE n == Len(h)
           e == Append(h, x)
<1>1. /\ n \in Nat /\ DOMAIN h = 1 .. n /\ DOMAIN e = 1 .. n + 1 /\ e[n + 1] = x
      /\ \A j \in 1 .. n : e[j] = h[j]
      /\ \A j \in 1 .. n + 1 : j = n + 1 \/ j \in 1 .. n
      /\ n + 1 \in 1 .. n + 1 /\ \A j \in 1 .. n : j \in 1 .. n + 1
  OBVIOUS
<1>2. e = Append(h, x)
  OBVIOUS
<1> HIDE DEF e, n
<1>3. \A j \in 1 .. n : h[j].chunk # x.chunk
  BY <1>1 DEF Range
<1>4. OfDistinctChunks(e)
  BY <1>1, <1>3 DEF OfDistinctChunks
<1>5. Range(e) \subseteq Range(h) \cup {x}
  BY <1>1 DEF Range
<1>6. Range(h) \cup {x} \subseteq Range(e)
  BY <1>1 DEF Range
<1> QED
  BY <1>2, <1>4, <1>5, <1>6, InsertSound

-----------------------------------------------------------------------------
B == INSTANCE NextsOverlayProofs WITH
  Records <- RunSet(Nat), Files <- {}, Capacities <- {}, Outputs <- {}, MaxWrites <- 0,
  buffer <- 0, consumed <- <<>>, produced <- <<>>, closed <- FALSE

(* merge's buffers are those of NextsOverlay.                              *)
LEMMA SameBuffer ==
  ASSUME NEW b, NEW rec
  PROVE  /\ Overlay(b) = B!Overlay(b) /\ Flushed(b) = B!Flushed(b)
         /\ Refill(b) = B!Refill(b) /\ Ready(b) = B!Ready(b)
         /\ Drained(b) = B!Drained(b) /\ Record(b) = B!Record(b) /\ Taken(b) = B!Taken(b)
         /\ PutCurrent(b, rec) = B!PutCurrent(b, rec)
<1>1. \A x, buf, pos, len, filepos :
        Reading(x, buf, pos, len, filepos) = B!Reading(x, buf, pos, len, filepos)
  BY DEF Reading, B!Reading
<1>2. \A x, buf, out_pos, out : Writing(x, buf, out_pos, out) = B!Writing(x, buf, out_pos, out)
  BY DEF Writing, B!Writing
<1>3. Overlay(b) = B!Overlay(b)
  BY DEF Overlay, B!Overlay
<1>4. \A x : Flushed(x) = B!Flushed(x)
  BY <1>2 DEF Flushed, B!Flushed, Overlay, B!Overlay
<1>5. Got(b) = B!Got(b)
  BY DEF Got, B!Got
<1>6. Loaded(b) = B!Loaded(b) /\ Advanced(b) = B!Advanced(b)
  BY <1>5 DEF Loaded, B!Loaded, Advanced, B!Advanced
<1>7. Refill(b) = B!Refill(b)
  BY <1>1, <1>4, <1>5, <1>6 DEF Refill, B!Refill
<1>8. PutCurrent(b, rec) = B!PutCurrent(b, rec)
  BY <1>2, <1>4 DEF PutCurrent, B!PutCurrent, FreeSlots, B!FreeSlots
<1> QED
  BY <1>1, <1>3, <1>4, <1>7, <1>8
  DEF Ready, B!Ready, Drained, B!Drained, Record, B!Record, Taken, B!Taken

(* What has been written of a chunk's output.                              *)
Put(b) == B!Output(b)

(* The currents buffer is never written to.                                *)
LEMMA StaysUnwritten ==
  ASSUME NEW b, b.out_pos = 0
  PROVE  Refill(b).out_pos = 0 /\ Ready(b).out_pos = 0 /\ Taken(b).out_pos = 0
<1>1. ASSUME NEW x, NEW buf, NEW pos, NEW len, NEW filepos
      PROVE  Reading(x, buf, pos, len, filepos).out_pos = x.out_pos
  BY DEF Reading
<1>2. Flushed(b).out_pos = 0
  BY DEF Flushed, Writing
<1>3. \/ Refill(b) = Reading(b, b.buf, -1, b.len, -1)
      \/ Refill(b) = Reading(Flushed(b), Loaded(b), 0, Got(b), Advanced(b))
      \/ Refill(b) = Reading(Flushed(b), b.buf, -1, b.len, -1)
  BY DEF Refill
<1>4. Refill(b).out_pos = 0
  BY <1>1, <1>2, <1>3
<1>5. Ready(b).out_pos = 0
  BY <1>4 DEF Ready
<1>6. Taken(b).out_pos = 0
  BY <1>1 DEF Taken
<1> QED
  BY <1>4, <1>5, <1>6

-----------------------------------------------------------------------------
(* Where the records of each run lie in a file, and the entries of each.   *)
Sizes(runs) == [j \in 1 .. Len(runs) |-> Len(Encode(runs[j]))]

RecordCut(runs) == CHOOSE st : Cuts(st, Sizes(runs), Len(runs))

RunCut(runs) == CHOOSE st : Cuts(st, Widths(runs), Len(runs))

(* A run is one record, or two where its count escapes.                    *)
LEMMA EncodeType ==
  ASSUME NEW run \in RunSet(Nat)
  PROVE  /\ Encode(run) \in Seq(RunSet(Nat))
         /\ run.count < COUNT_ESCAPE => Len(Encode(run)) = 1 /\ Encode(run)[1] = run
         /\ ~ run.count < COUNT_ESCAPE =>
              /\ Len(Encode(run)) = 2
              /\ Encode(run)[1] = [rank |-> run.rank, count |-> COUNT_ESCAPE]
              /\ Encode(run)[2] = [rank |-> run.count, count |-> 0]
<1>1. COUNT_ESCAPE \in Nat
  BY EscapeAssumption
<1>2. run.rank \in Nat /\ run.count \in Nat
  BY DEF RunSet
<1> DEFINE x == [rank |-> run.rank, count |-> COUNT_ESCAPE]
           y == [rank |-> run.count, count |-> 0]
<1>3. x \in RunSet(Nat) /\ y \in RunSet(Nat)
  BY <1>1, <1>2 DEF RunSet
<1>4. <<run>> \in Seq(RunSet(Nat)) /\ <<x, y>> \in Seq(RunSet(Nat))
  BY <1>3
<1> QED
  BY <1>4 DEF Encode

(* The records of a run lie together, in the order of the runs.            *)
LEMMA EncodedAt ==
  ASSUME NEW runs \in Seq(RunSet(Nat)), NEW st, st = RecordCut(runs)
  PROVE  /\ Cuts(st, Sizes(runs), Len(runs)) /\ Sizes(runs) \in [1 .. Len(runs) -> Nat]
         /\ Encoded(runs) \in Seq(RunSet(Nat))
         /\ Len(Encoded(runs)) = st[Len(runs) + 1] - 1
         /\ \A j \in 1 .. Len(runs) + 1 : st[j] \in Nat /\ 1 <= st[j] /\ st[j] <= st[Len(runs) + 1]
         /\ \A j \in 1 .. Len(runs) :
              /\ st[j + 1] = st[j] + Len(Encode(runs[j]))
              /\ \A k \in 1 .. Len(Encode(runs[j])) :
                   Encoded(runs)[st[j] + k - 1] = Encode(runs[j])[k]
<1> DEFINE m == Len(runs)
           seqs == [j \in 1 .. m |-> Encode(runs[j])]
           w == Sizes(runs)
<1>1. m \in Nat /\ DOMAIN runs = 1 .. m /\ \A j \in 1 .. m : runs[j] \in RunSet(Nat)
  OBVIOUS
<1>2. ASSUME NEW j \in 1 .. m
      PROVE  Encode(runs[j]) \in Seq(RunSet(Nat)) /\ Len(Encode(runs[j])) \in Nat
  <2>1. Encode(runs[j]) \in Seq(RunSet(Nat))
    BY <1>1, EncodeType
  <2> QED
    BY <2>1
<1>3. w \in [1 .. m -> Nat] /\ \A j \in 1 .. m : w[j] = Len(Encode(runs[j]))
  BY <1>2 DEF Sizes
<1>4. Lengths(w, seqs, m, RunSet(Nat))
  BY <1>2, <1>3 DEF Lengths
<1>5. Encoded(runs) = FlattenSeq(seqs) /\ \A j \in 1 .. m : seqs[j] = Encode(runs[j])
  BY <1>1 DEF Encoded
<1>6. st = CHOOSE s : Cuts(s, w, m)
  BY DEF RecordCut
<1> HIDE DEF m, seqs, w
<1>7. Cuts(st, w, m)
  BY <1>1, <1>3, <1>6, CutExists
<1>8. /\ \A j \in 1 .. m + 1 : st[j] \in Nat /\ 1 <= st[j] /\ st[j] <= st[m + 1]
      /\ \A j \in 1 .. m : st[j + 1] = st[j] + w[j]
  BY <1>1, <1>3, <1>7, CutBounds
<1>9. /\ FlattenSeq(seqs) \in Seq(RunSet(Nat))
      /\ Len(FlattenSeq(seqs)) = st[m + 1] - 1
      /\ \A j \in 1 .. m : \A k \in 1 .. Len(seqs[j]) : FlattenSeq(seqs)[st[j] + k - 1] = seqs[j][k]
  BY <1>1, <1>4, <1>7, FlattenAt
<1> QED
  BY <1>3, <1>5, <1>7, <1>8, <1>9 DEF m, w

(* b has given the first j of its stream's runs.                           *)
Given(b, runs, j) ==
  /\ j \in 0 .. Len(runs)
  /\ b.file = Encoded(runs)
  /\ B!BufferInv(b, RecordCut(runs)[j + 1] - 1)
  /\ j # 0 => b.pos # 0

(* A buffer that differs from b at most in how far it is read.             *)
ReadOf(a, b) ==
  /\ a.capacity = b.capacity
  /\ Put(a) = Put(b)
  /\ b.out_pos = 0 => a.out_pos = 0

(* decode_rankrun gives the runs one by one, or finds that there is none.  *)
LEMMA DecodeSound ==
  ASSUME NEW runs \in Seq(RunSet(Nat)), NEW b, NEW j \in Nat, Given(b, runs, j)
  PROVE  /\ ReadOf(Decode(b).buffer, b) /\ Decode(b).buffer.pos # 0
         /\ j = Len(runs) => Decode(b).result = "EMPTY" /\ Given(Decode(b).buffer, runs, j)
         /\ j # Len(runs) =>
              /\ Decode(b).result = "SUCCESS" /\ Decode(b).run = runs[j + 1]
              /\ Given(Decode(b).buffer, runs, j + 1)
<1> DEFINE m == Len(runs)
           st == RecordCut(runs)
           n == st[j + 1] - 1
           first == Ready(b)
           second == Ready(Taken(first))
<1>1. m \in Nat /\ j \in 0 .. m /\ \A i \in 1 .. m : runs[i] \in RunSet(Nat)
  BY DEF Given
<1>2. /\ Len(Encoded(runs)) = st[m + 1] - 1
      /\ \A i \in 1 .. m + 1 : st[i] \in Nat /\ 1 <= st[i] /\ st[i] <= st[m + 1]
      /\ \A i \in 1 .. m :
           /\ st[i + 1] = st[i] + Len(Encode(runs[i]))
           /\ \A k \in 1 .. Len(Encode(runs[i])) : Encoded(runs)[st[i] + k - 1] = Encode(runs[i])[k]
  BY EncodedAt
<1>3. B!BufferInv(b, n) /\ b.file = Encoded(runs)
  BY DEF Given
<1> HIDE DEF st, m
<1>4. st[j + 1] \in Nat /\ n \in Nat /\ n <= Len(Encoded(runs)) /\ Len(Encoded(runs)) \in Nat
  <2>1. j + 1 \in 1 .. m + 1 /\ m + 1 \in 1 .. m + 1
    BY <1>1
  <2>2. st[j + 1] \in Nat /\ 1 <= st[j + 1] /\ st[j + 1] <= st[m + 1] /\ st[m + 1] \in Nat
    BY <1>2, <2>1
  <2> QED
    BY <1>2, <2>2
<1> HIDE DEF n
<1>5. /\ B!BufferInv(first, n) /\ first.file = Encoded(runs) /\ ReadOf(first, b)
      /\ ~ Drained(first) => first.pos # -1 /\ first.pos < first.len
  BY <1>3, <1>4, B!ReadyKeeps, SameBuffer, StaysUnwritten DEF ReadOf, Put, B!Drained
<1> HIDE DEF first
<1>6. CASE j = m
  <2>1. n = Len(Encoded(runs))
    BY <1>2, <1>6 DEF n
  <2>2. Drained(first)
    <3>1. SUFFICES ASSUME ~ Drained(first) PROVE FALSE
      OBVIOUS
    <3>2. n + 1 \in 1 .. Len(first.file)
      BY <1>4, <1>5, <3>1, B!TakenKeeps, SameBuffer
    <3> QED
      BY <1>4, <1>5, <2>1, <3>2
  <2>3. Decode(b) = [result |-> "EMPTY", buffer |-> first]
    BY <2>2 DEF Decode, first
  <2>4. first.pos # 0
    BY <2>2 DEF Drained
  <2> QED
    BY <1>1, <1>5, <1>6, <2>3, <2>4 DEF Given, m, n, st
<1>7. CASE j # m
  <2> DEFINE run == runs[j + 1]
  <2>1. j + 1 \in 1 .. m /\ run \in RunSet(Nat)
    BY <1>1, <1>7
  <2>2. run.rank \in Nat /\ run.count \in Nat /\ run = [rank |-> run.rank, count |-> run.count]
    BY <2>1 DEF RunSet
  <2> HIDE DEF run
  <2>3. Len(Encode(run)) \in {1, 2} /\ st[j + 2] = st[j + 1] + Len(Encode(run)) /\ st[j + 2] <= st[m + 1]
        /\ st[j + 2] \in Nat
    <3>1. Len(Encode(run)) \in {1, 2}
      BY <2>1, EncodeType
    <3>2. j + 2 = (j + 1) + 1 /\ j + 2 \in 1 .. m + 1
      BY <1>1, <2>1
    <3> QED
      BY <1>2, <2>1, <3>1, <3>2 DEF run
  <2>4. \A k \in 1 .. Len(Encode(run)) : Encoded(runs)[n + k] = Encode(run)[k]
    <3>1. SUFFICES ASSUME NEW k \in 1 .. Len(Encode(run))
                   PROVE  Encoded(runs)[n + k] = Encode(run)[k]
      OBVIOUS
    <3>2. k \in Nat
      BY <2>3
    <3>3. st[j + 1] + k - 1 = n + k
      BY <1>4, <3>2 DEF n
    <3>4. Encoded(runs)[st[j + 1] + k - 1] = Encode(run)[k]
      BY <1>2, <2>1 DEF run
    <3> QED
      BY <3>3, <3>4
  <2>5. n + Len(Encode(run)) = st[j + 2] - 1 /\ n + Len(Encode(run)) <= Len(Encoded(runs))
    <3> DEFINE l == Len(Encode(run))
               y == st[j + 1]
               z == st[j + 2]
               end == st[m + 1]
    <3>1. Len(Encoded(runs)) = end - 1 /\ end \in Nat
      <4>1. m + 1 \in 1 .. m + 1
        BY <1>1
      <4> QED
        BY <1>2, <4>1
    <3>2. /\ l \in {1, 2} /\ z = y + l /\ z <= end /\ z \in Nat /\ y \in Nat
          /\ n = y - 1
      BY <1>4, <2>3 DEF n
    <3> HIDE DEF l, y, z, end
    <3>3. n + l = z - 1 /\ n + l <= Len(Encoded(runs))
      BY <3>1, <3>2
    <3> QED
      BY <3>3 DEF l, z
  <2>6. ~ Drained(first)
    <3> DEFINE l == Len(Encode(run))
    <3>3. l \in {1, 2} /\ n + l <= Len(Encoded(runs))
      BY <2>3, <2>5
    <3> HIDE DEF l
    <3>1. n # Len(Encoded(runs))
      BY <1>4, <3>3
    <3> QED
      BY <1>5, <3>1 DEF Drained, B!BufferInv
  <2>7. /\ B!BufferInv(Taken(first), n + 1) /\ Taken(first).file = Encoded(runs)
        /\ ReadOf(Taken(first), b) /\ Taken(first).pos # 0
        /\ Record(first) = Encode(run)[1]
    <3>1. /\ B!BufferInv(Taken(first), n + 1) /\ Taken(first).file = Encoded(runs)
          /\ Taken(first).capacity = first.capacity
          /\ Put(Taken(first)) = Put(first) /\ Taken(first).pos # 0
          /\ Record(first) = Encoded(runs)[n + 1]
      BY <1>4, <1>5, <2>6, B!TakenKeeps, SameBuffer DEF Put
    <3>2. ReadOf(Taken(first), b)
      BY <1>5, <3>1, StaysUnwritten DEF ReadOf
    <3> QED
      BY <2>3, <2>4, <3>1, <3>2
  <2>8. CASE run.count < COUNT_ESCAPE
    <3>1. Len(Encode(run)) = 1 /\ Record(first) = run
      BY <2>1, <2>7, <2>8, EncodeType
    <3>2. run.count # COUNT_ESCAPE
      BY <2>2, <2>8, EscapeAssumption
    <3>3. Decode(b) = [result |-> "SUCCESS", buffer |-> Taken(first), run |-> run]
      BY <2>6, <3>1, <3>2 DEF Decode, first
    <3>4. n + 1 = st[(j + 1) + 1] - 1
      BY <1>1, <2>5, <3>1
    <3> QED
      BY <1>7, <2>1, <2>7, <3>3, <3>4 DEF Given, m, st, run
  <2>9. CASE ~ run.count < COUNT_ESCAPE
    <3>1. /\ Len(Encode(run)) = 2
          /\ Record(first) = [rank |-> run.rank, count |-> COUNT_ESCAPE]
          /\ Encode(run)[2] = [rank |-> run.count, count |-> 0]
      BY <2>1, <2>7, <2>9, EncodeType
    <3>2. /\ B!BufferInv(second, n + 1) /\ second.file = Encoded(runs) /\ ReadOf(second, b)
          /\ ~ Drained(second) => second.pos # -1 /\ second.pos < second.len
      <4>1. n + 1 \in Nat
        BY <1>4
      <4>2. /\ B!BufferInv(second, n + 1) /\ second.file = Encoded(runs)
            /\ second.capacity = Taken(first).capacity /\ Put(second) = Put(Taken(first))
            /\ ~ Drained(second) => second.pos # -1 /\ second.pos < second.len
        BY <2>7, <4>1, B!ReadyKeeps, SameBuffer DEF Put, B!Drained
      <4> QED
        BY <2>7, <4>2, StaysUnwritten DEF ReadOf
    <3> HIDE DEF second
    <3>3. ~ Drained(second)
      BY <1>4, <2>5, <3>1, <3>2 DEF Drained, B!BufferInv
    <3>4. /\ B!BufferInv(Taken(second), (n + 1) + 1) /\ Taken(second).file = Encoded(runs)
          /\ ReadOf(Taken(second), b) /\ Taken(second).pos # 0
          /\ Record(second) = Encode(run)[2]
      <4>1. n + 1 \in Nat /\ (n + 1) + 1 = n + 2
        BY <1>4
      <4>2. /\ B!BufferInv(Taken(second), (n + 1) + 1) /\ Taken(second).file = Encoded(runs)
            /\ Taken(second).capacity = second.capacity
            /\ Put(Taken(second)) = Put(second) /\ Taken(second).pos # 0
            /\ Record(second) = Encoded(runs)[(n + 1) + 1]
        BY <3>2, <3>3, <4>1, B!TakenKeeps, SameBuffer DEF Put
      <4>3. Record(second) = Encode(run)[2]
        BY <2>4, <3>1, <4>1, <4>2
      <4> QED
        BY <3>2, <4>2, <4>3, StaysUnwritten DEF ReadOf
    <3>5. Record(first).count = COUNT_ESCAPE /\ Record(first).rank = run.rank
      BY <3>1
    <3>6. Record(second).rank = run.count
      BY <3>1, <3>4
    <3>7. Decode(b) = [result |-> "SUCCESS", buffer |-> Taken(second), run |-> run]
      BY <2>2, <2>6, <3>3, <3>5, <3>6 DEF Decode, first, second
    <3>8. (n + 1) + 1 = st[(j + 1) + 1] - 1
      BY <1>1, <1>4, <2>5, <3>1
    <3> QED
      BY <1>7, <2>1, <3>4, <3>7, <3>8 DEF Given, m, st, run
  <2> QED
    BY <2>8, <2>9
<1> QED
  BY <1>6, <1>7


(* The entries of a run lie together, too.                                 *)
LEMMA RunCutAt ==
  ASSUME NEW runs \in Seq(RunSet(Nat)), NEW st, st = RunCut(runs)
  PROVE  /\ Len(runs) \in Nat /\ Cuts(st, Widths(runs), Len(runs))
         /\ Len(Slots(runs)) = st[Len(runs) + 1] - 1 /\ Len(Slots(runs)) \in Nat
         /\ \A j \in 1 .. Len(runs) + 1 : st[j] \in Nat /\ 1 <= st[j] /\ st[j] <= st[Len(runs) + 1]
         /\ \A j \in 1 .. Len(runs) :
              /\ Width(runs[j]) \in Nat \ {0} /\ st[j + 1] = st[j] + Width(runs[j])
              /\ st[j] \in Nat /\ st[j + 1] \in Nat /\ st[j + 1] <= st[Len(runs) + 1]
              /\ \A i \in st[j] .. st[j + 1] - 1 : Slots(runs)[i] = j
         /\ \A i \in 1 .. Len(Slots(runs)) :
              /\ Slots(runs)[i] \in 1 .. Len(runs)
              /\ i \in st[Slots(runs)[i]] .. st[Slots(runs)[i] + 1] - 1
<1> DEFINE m == Len(runs)
<1>1. /\ m \in Nat
      /\ Widths(runs) \in [1 .. m -> Nat]
      /\ \A j \in 1 .. m :
           Widths(runs)[j] = Width(runs[j]) /\ Width(runs[j]) \in Nat /\ 1 <= Width(runs[j])
  BY WidthsType
<1>2. st = CHOOSE s : Cuts(s, Widths(runs), m)
  BY DEF RunCut
<1>3. Cuts(st, Widths(runs), m)
  BY <1>1, <1>2, CutExists
<1>4. /\ \A j \in 1 .. m + 1 : st[j] \in Nat /\ 1 <= st[j] /\ st[j] <= st[m + 1]
      /\ \A j \in 1 .. m : st[j + 1] = st[j] + Widths(runs)[j]
  BY <1>1, <1>3, CutBounds
<1>5. /\ Slots(runs) \in Seq(1 .. m)
      /\ Len(Slots(runs)) = st[m + 1] - 1
      /\ \A j \in 1 .. m : \A i \in st[j] .. st[j + 1] - 1 : Slots(runs)[i] = j
  BY <1>3, SlotsAt
<1>6. \A i \in 1 .. Len(Slots(runs)) :
        Slots(runs)[i] \in 1 .. m /\ i \in st[Slots(runs)[i]] .. st[Slots(runs)[i] + 1] - 1
  BY <1>3, SlotOf
<1> HIDE DEF m
<1>7. \A j \in 1 .. m : j \in 1 .. m + 1 /\ j + 1 \in 1 .. m + 1
  BY <1>1
<1>8. Len(Slots(runs)) \in Nat
  BY <1>5
<1> QED
  BY <1>1, <1>3, <1>4, <1>5, <1>6, <1>7, <1>8 DEF m

(* e entries of a stream have been walked: rem entries of rank are left of *)
(* the run that was decoded last.                                          *)
Walks(b, runs, rank, rem, e) ==
  \E j \in 0 .. Len(runs) :
    /\ Given(b, runs, j)
    /\ rem \in Nat /\ e \in Nat
    /\ e + rem = RunCut(runs)[j + 1] - 1
    /\ rem # 0 => j # 0 /\ rank = runs[j].rank /\ rem <= runs[j].count

(* A cursor moves on to the run of the next entry, decoded or not.         *)
LEMMA AdvanceSound ==
  ASSUME NEW runs \in Seq(RunSet(Nat)), \A j \in 1 .. Len(runs) : runs[j].count # 0,
         NEW b, NEW rank, NEW rem, NEW e, Walks(b, runs, rank, rem, e),
         NEW a, a = Advance(b, rank, rem)
  PROVE  /\ ReadOf(a.buffer, b)
         /\ e \in Nat /\ e <= Len(Slots(runs))
         /\ e = Len(Slots(runs)) =>
              a.result = "EMPTY" /\ a.buffer.pos # 0 /\ Walks(a.buffer, runs, rank, rem, e)
         /\ e # Len(Slots(runs)) =>
              /\ a.result = "SUCCESS"
              /\ a.run.rank = runs[Slots(runs)[e + 1]].rank
              /\ a.run.count \in Nat \ {0}
              /\ e + a.run.count = RunCut(runs)[Slots(runs)[e + 1] + 1] - 1
              /\ a.buffer.pos # 0
              /\ \A n \in 1 .. a.run.count :
                   Walks(a.buffer, runs, a.run.rank, a.run.count - n, e + n)
<1> DEFINE st == RunCut(runs)
           m == Len(runs)
<1>1. PICK j \in 0 .. m :
        /\ Given(b, runs, j)
        /\ rem \in Nat /\ e \in Nat
        /\ e + rem = st[j + 1] - 1
        /\ rem # 0 => j # 0 /\ rank = runs[j].rank /\ rem <= runs[j].count
  BY DEF Walks
<1>2. /\ m \in Nat /\ Len(Slots(runs)) = st[m + 1] - 1 /\ Len(Slots(runs)) \in Nat
      /\ \A k \in 1 .. m + 1 : st[k] \in Nat /\ 1 <= st[k] /\ st[k] <= st[m + 1]
      /\ \A k \in 1 .. m :
           /\ Width(runs[k]) \in Nat \ {0} /\ st[k + 1] = st[k] + Width(runs[k])
           /\ st[k] \in Nat /\ st[k + 1] \in Nat /\ st[k + 1] <= st[m + 1]
           /\ \A i \in st[k] .. st[k + 1] - 1 : Slots(runs)[i] = k
  BY RunCutAt
<1>3. \A k \in 1 .. m : Width(runs[k]) = runs[k].count
  BY DEF Width
<1> HIDE DEF st, m
<1>4. /\ j + 1 \in 1 .. m + 1 /\ st[j + 1] \in Nat /\ st[j + 1] <= st[m + 1] /\ st[m + 1] \in Nat
      /\ j \in Nat
  <2>1. j + 1 \in 1 .. m + 1 /\ m + 1 \in 1 .. m + 1 /\ j \in Nat
    BY <1>2
  <2> QED
    BY <1>2, <2>1
<1>5. e <= Len(Slots(runs))
  BY <1>1, <1>2, <1>4
<1>6. j # m => st[j + 1] < st[m + 1]
  <2>1. SUFFICES ASSUME j # m PROVE st[j + 1] < st[m + 1]
    OBVIOUS
  <2>2. j + 1 \in 1 .. m
    BY <1>2, <2>1
  <2> DEFINE x == st[j + 1]
             y == st[(j + 1) + 1]
             v == Width(runs[j + 1])
             z == st[m + 1]
  <2>3. v \in Nat \ {0} /\ y = x + v /\ x \in Nat /\ y \in Nat /\ y <= z /\ z \in Nat
    BY <1>2, <1>4, <2>2
  <2> HIDE DEF x, y, v, z
  <2>4. x < z
    BY <2>3
  <2> QED
    BY <2>4 DEF x, z
<1>7. CASE rem = 0
  <2>1. a = Decode(b)
    BY <1>7 DEF Advance
  <2>2. ReadOf(a.buffer, b) /\ a.buffer.pos # 0
    BY <1>1, <1>4, <2>1, DecodeSound
  <2>3. CASE e = Len(Slots(runs))
    <3>1. j = m
      BY <1>1, <1>2, <1>4, <1>6, <1>7, <2>3
    <3>2. a.result = "EMPTY" /\ Given(a.buffer, runs, j)
      BY <1>1, <1>4, <2>1, <3>1, DecodeSound DEF m
    <3>3. Walks(a.buffer, runs, rank, rem, e)
      BY <1>1, <1>7, <3>2 DEF Walks, st, m
    <3> QED
      BY <1>1, <1>5, <1>7, <2>2, <2>3, <3>2, <3>3
  <2>4. CASE e # Len(Slots(runs))
    <3>1. j # m
      BY <1>1, <1>2, <1>4, <1>7, <2>4
    <3>2. a.result = "SUCCESS" /\ a.run = runs[j + 1] /\ Given(a.buffer, runs, j + 1)
      BY <1>1, <1>4, <2>1, <3>1, DecodeSound DEF m
    <3>3. j + 1 \in 1 .. m
      BY <1>2, <3>1
    <3> DEFINE x == st[j + 1]
               y == st[(j + 1) + 1]
               v == a.run.count
    <3>4. v \in Nat \ {0} /\ y = x + v /\ x \in Nat /\ y \in Nat /\ e = x - 1
      BY <1>1, <1>2, <1>3, <1>7, <3>2, <3>3, SMTT(20)
    <3>5. \A i \in x .. y - 1 : Slots(runs)[i] = j + 1
      BY <1>2, <3>3
    <3> HIDE DEF x, y, v
    <3>6. e + 1 \in x .. y - 1 /\ e + v = y - 1
      BY <1>1, <3>4
    <3>7. Slots(runs)[e + 1] = j + 1
      BY <3>5, <3>6
    <3>8. ASSUME NEW n \in 1 .. v
          PROVE  Walks(a.buffer, runs, a.run.rank, v - n, e + n)
      <4>1. v - n \in Nat /\ e + n \in Nat /\ (e + n) + (v - n) = y - 1 /\ v - n <= v
        BY <1>1, <3>4, <3>6
      <4>2. j + 1 \in 0 .. Len(runs) /\ j + 1 # 0
        BY <1>4, <3>3 DEF m
      <4>3. v - n <= runs[j + 1].count
        BY <3>2, <4>1 DEF v
      <4> QED
        BY <3>2, <4>1, <4>2, <4>3 DEF Walks, y, st
    <3>9. a.buffer.pos # 0
      BY <1>4, <3>2 DEF Given
    <3> QED
      BY <1>1, <1>5, <2>2, <2>4, <3>2, <3>4, <3>6, <3>7, <3>8, <3>9 DEF v, y, st
  <2> QED
    BY <2>3, <2>4
<1>8. CASE rem # 0
  <2>1. a = [result |-> "SUCCESS", buffer |-> b, run |-> [rank |-> rank, count |-> rem]]
    BY <1>8 DEF Advance
  <2>2. ReadOf(a.buffer, b)
    BY <2>1 DEF ReadOf
  <2>3. j \in 1 .. m /\ rank = runs[j].rank /\ rem <= runs[j].count
    BY <1>1, <1>2, <1>8
  <2> DEFINE x == st[j]
             y == st[j + 1]
             v == runs[j].count
  <2>4. v \in Nat \ {0} /\ y = x + v /\ x \in Nat /\ y \in Nat /\ y <= st[m + 1]
    BY <1>2, <1>3, <2>3
  <2>5. \A i \in x .. y - 1 : Slots(runs)[i] = j
    BY <1>2, <2>3
  <2>6. e + rem = y - 1 /\ rem <= v
    BY <1>1, <2>3
  <2> HIDE DEF x, y, v
  <2>7. e + 1 \in x .. y - 1 /\ e # Len(Slots(runs))
    BY <1>1, <1>2, <1>4, <1>8, <2>4, <2>6, SMTT(20)
  <2>8. Slots(runs)[e + 1] = j
    BY <2>5, <2>7
  <2>9. ASSUME NEW n \in 1 .. rem
        PROVE  Walks(b, runs, rank, rem - n, e + n)
    <3>1. rem - n \in Nat /\ e + n \in Nat /\ (e + n) + (rem - n) = y - 1 /\ rem - n <= v
      BY <1>1, <2>4, <2>6, SMTT(20)
    <3>2. j # 0 /\ j \in 0 .. Len(runs) /\ rank = runs[j].rank
      BY <1>1, <1>8 DEF m
    <3> QED
      BY <1>1, <3>1, <3>2 DEF Walks, y, v, st
  <2>10. b.pos # 0
    BY <1>1, <1>8 DEF Given
  <2> QED
    BY <1>1, <1>5, <1>8, <2>1, <2>2, <2>3, <2>6, <2>7, <2>8, <2>9, <2>10 DEF y, st
<1> QED
  BY <1>7, <1>8

-----------------------------------------------------------------------------
TripleCut(triples) == CHOOSE st : Cuts(st, Counts(triples), Len(triples))

(* A triple's stretch starts within a run of either stream, has the ranks  *)
(* of the two, and ends where the first of the two does.                   *)
Follows(tr, st, cur, nxt) ==
  /\ tr \in Seq(TripleSet) /\ Len(tr) \in Nat
  /\ st[1] = 1 /\ st[Len(tr) + 1] = Len(Slots(nxt)) + 1
  /\ Len(Slots(nxt)) \in Nat /\ Len(Slots(cur)) \in Nat /\ Len(Slots(nxt)) <= Len(Slots(cur))
  /\ \A k \in 1 .. Len(tr) :
       /\ tr[k].count \in Nat \ {0} /\ tr[k].current \in Nat /\ tr[k].next \in Nat
       /\ st[k] \in 1 .. Len(Slots(nxt)) /\ st[k + 1] = st[k] + tr[k].count
       /\ tr[k].current = cur[Slots(cur)[st[k]]].rank
       /\ tr[k].next = nxt[Slots(nxt)[st[k]]].rank
       /\ RunCut(cur)[Slots(cur)[st[k]] + 1] \in Nat /\ RunCut(nxt)[Slots(nxt)[st[k]] + 1] \in Nat
       /\ st[k + 1] <= RunCut(cur)[Slots(cur)[st[k]] + 1]
       /\ st[k + 1] <= RunCut(nxt)[Slots(nxt)[st[k]] + 1]
       /\ \/ st[k + 1] = RunCut(cur)[Slots(cur)[st[k]] + 1]
          \/ st[k + 1] = RunCut(nxt)[Slots(nxt)[st[k]] + 1]

(* Triples is this walk.                                                   *)
LEMMA TriplesWalk ==
  ASSUME NEW cur \in Seq(RunSet(Nat)), NEW nxt \in Seq(RunSet(Nat)), ~ StreamsDisagree(cur, nxt),
         NEW tr, tr = Triples(cur, nxt), NEW st, st = TripleCut(tr)
  PROVE  Follows(tr, st, cur, nxt)
<1> DEFINE c == Slots(cur)
           n == Slots(nxt)
           sc == RunCut(cur)
           sn == RunCut(nxt)
           N == Len(n)
           pairs == [i \in DOMAIN n |-> <<c[i], n[i]>>]
           W == (1 .. Len(cur)) \X (1 .. Len(nxt))
           ov == Runs(pairs)
           m == Len(ov)
<1>1. /\ Len(cur) \in Nat /\ Len(c) \in Nat /\ Len(c) = sc[Len(cur) + 1] - 1
      /\ \A j \in 1 .. Len(cur) :
           sc[j] \in Nat /\ sc[j + 1] \in Nat /\ \A i \in sc[j] .. sc[j + 1] - 1 : c[i] = j
      /\ \A i \in 1 .. Len(c) : c[i] \in 1 .. Len(cur) /\ i \in sc[c[i]] .. sc[c[i] + 1] - 1
  BY RunCutAt
<1>2. /\ Len(nxt) \in Nat /\ N \in Nat /\ N = sn[Len(nxt) + 1] - 1
      /\ \A j \in 1 .. Len(nxt) :
           /\ sn[j] \in Nat /\ sn[j + 1] \in Nat /\ sn[j + 1] <= sn[Len(nxt) + 1]
           /\ \A i \in sn[j] .. sn[j + 1] - 1 : n[i] = j
      /\ \A i \in 1 .. N : n[i] \in 1 .. Len(nxt) /\ i \in sn[n[i]] .. sn[n[i] + 1] - 1
  BY RunCutAt
<1>3. DOMAIN n = 1 .. N
  <2>1. PICK s : Cuts(s, Widths(nxt), Len(nxt))
    BY StreamCut
  <2>2. n \in Seq(1 .. Len(nxt))
    BY <2>1, SlotsAt
  <2> HIDE DEF n
  <2> QED
    BY <2>2, LenProperties
<1>4. N <= Len(c)
  BY <1>1, <1>2 DEF StreamsDisagree
<1>5. tr = [j \in DOMAIN ov |->
              [current |-> cur[ov[j].rank[1]].rank,
               next    |-> nxt[ov[j].rank[2]].rank,
               count   |-> ov[j].count]]
  <2>1. c \in Seq(1 .. Len(cur))
    <3>1. PICK s : Cuts(s, Widths(cur), Len(cur))
      BY StreamCut
    <3> QED
      BY <3>1, SlotsAt
  <2>2. DOMAIN c = 1 .. Len(c)
    <3> HIDE DEF c
    <3> QED
      BY <2>1, LenProperties
  <2>3. DOMAIN n \subseteq DOMAIN c
    <3> HIDE DEF c, n, N
    <3> QED
      BY <1>1, <1>2, <1>3, <1>4, <2>2
  <2> QED
    BY <2>3, WalkedTogether
<1>6. (\A a \in 1 .. Len(cur) : cur[a].rank \in Nat) /\ (\A a \in 1 .. Len(nxt) : nxt[a].rank \in Nat)
  BY WidthsType
<1> HIDE DEF c, n, sc, sn, N
<1>7. /\ pairs \in Seq(W) /\ Len(pairs) = N
      /\ \A i \in 1 .. N : pairs[i] = <<c[i], n[i]>> /\ i \in 1 .. Len(c)
  <2>1. ASSUME NEW i \in 1 .. N
        PROVE  i \in 1 .. Len(c) /\ c[i] \in 1 .. Len(cur) /\ n[i] \in 1 .. Len(nxt)
    <3>1. i \in 1 .. Len(c)
      BY <1>1, <1>2, <1>4
    <3> QED
      BY <1>1, <1>2, <3>1
  <2>2. pairs \in [1 .. N -> W] /\ DOMAIN pairs = 1 .. N
    BY <1>3, <2>1
  <2> HIDE DEF W, pairs
  <2>3. N \in Nat
    BY <1>2
  <2>4. pairs \in Seq(W)
    BY <2>2, <2>3
  <2> USE DEF pairs
  <2> QED
    BY <1>2, <1>3, <2>1, <2>2, <2>4, LenProperties
<1> HIDE DEF pairs
<1>8. /\ ov \in Seq(RunSet(W))
      /\ \A j \in 1 .. m : ov[j].count # 0
      /\ \A j \in 2 .. m : ov[j].rank # ov[j - 1].rank
      /\ \E s : Spans(s, ov, pairs)
  <2> HIDE DEF W
  <2> QED
    BY <1>7, RunsFit
<1>9. /\ m \in Nat /\ DOMAIN ov = 1 .. m
      /\ \A j \in 1 .. m : /\ ov[j].rank \in W /\ ov[j].count \in Nat
                           /\ Widths(ov)[j] = ov[j].count
  <2> HIDE DEF W
  <2> QED
    BY <1>8, WidthsType, LenProperties DEF Width
<1>10. PICK s : Spans(s, ov, pairs)
  BY <1>8
<1> HIDE DEF ov, m
<1>11. \A j \in 1 .. m : /\ tr[j].current = cur[ov[j].rank[1]].rank
                         /\ tr[j].next = nxt[ov[j].rank[2]].rank
                         /\ tr[j].count = ov[j].count
                         /\ tr[j] \in TripleSet /\ tr[j].current \in Nat /\ tr[j].next \in Nat
  <2> SUFFICES ASSUME NEW j \in 1 .. m
               PROVE  /\ tr[j].current = cur[ov[j].rank[1]].rank
                      /\ tr[j].next = nxt[ov[j].rank[2]].rank
                      /\ tr[j].count = ov[j].count
                      /\ tr[j] \in TripleSet /\ tr[j].current \in Nat /\ tr[j].next \in Nat
    OBVIOUS
  <2>1. tr[j] = [current |-> cur[ov[j].rank[1]].rank,
                 next    |-> nxt[ov[j].rank[2]].rank,
                 count   |-> ov[j].count]
    BY <1>5, <1>9
  <2>2. ov[j].rank[1] \in 1 .. Len(cur) /\ ov[j].rank[2] \in 1 .. Len(nxt) /\ ov[j].count \in Nat
    BY <1>9
  <2>3. cur[ov[j].rank[1]].rank \in Nat /\ nxt[ov[j].rank[2]].rank \in Nat
    BY <1>6, <2>2
  <2> QED
    BY <2>1, <2>2, <2>3 DEF TripleSet
<1>12. tr \in Seq(TripleSet) /\ Len(tr) = m
  <2>1. tr \in [1 .. m -> TripleSet]
    BY <1>5, <1>9, <1>11
  <2>2. tr \in Seq(TripleSet) /\ DOMAIN tr = 1 .. m
    BY <1>5, <1>9, <2>1, SMTT(20)
  <2> QED
    BY <1>9, <2>2, LenProperties
<1>13. Counts(tr) \in [1 .. m -> Nat] /\ \A j \in 1 .. m : Counts(tr)[j] = Widths(ov)[j]
  BY <1>9, <1>11, <1>12 DEF Counts
<1>14. Cuts(s, Counts(tr), m)
  BY <1>10, <1>13 DEF Spans, Cuts, m
<1>15. Cuts(st, Counts(tr), m)
  BY <1>12, <1>14 DEF TripleCut
<1>16. st = s
  <2> DEFINE A == {j \in Nat : j + 1 \in 1 .. m + 1 => st[j + 1] = s[j + 1]}
  <2>1. 0 \in A
    BY <1>14, <1>15 DEF Cuts
  <2>2. ASSUME NEW j \in Nat, j \in A PROVE j + 1 \in A
    <3>1. SUFFICES ASSUME (j + 1) + 1 \in 1 .. m + 1 PROVE st[(j + 1) + 1] = s[(j + 1) + 1]
      OBVIOUS
    <3>2. j + 1 \in 1 .. m /\ j + 1 \in 1 .. m + 1
      BY <1>9, <3>1
    <3>3. st[j + 1] = s[j + 1]
      BY <2>2, <3>2
    <3> QED
      BY <1>14, <1>15, <3>2, <3>3 DEF Cuts
  <2> HIDE DEF A
  <2>3. Nat \subseteq A
    BY <2>1, <2>2, Induction
  <2>4. ASSUME NEW j \in 1 .. m + 1 PROVE st[j] = s[j]
    <3>1. j - 1 \in Nat /\ (j - 1) + 1 = j
      BY <1>9
    <3> QED
      BY <2>3, <3>1 DEF A
  <2>5. st \in [1 .. m + 1 -> Nat] /\ s \in [1 .. m + 1 -> Nat]
    BY <1>14, <1>15 DEF Cuts
  <2>6. st = [j \in 1 .. m + 1 |-> st[j]] /\ s = [j \in 1 .. m + 1 |-> s[j]]
    BY <2>5
  <2> HIDE DEF A
  <2> QED
    BY <2>4, <2>6
<1>17. st[1] = 1 /\ st[m + 1] = N + 1
  BY <1>7, <1>10, <1>15, <1>16 DEF Spans, Cuts, m
<1>18. \A j \in 1 .. m : \A i \in st[j] .. st[j + 1] - 1 : pairs[i] = ov[j].rank
  BY <1>10, <1>16 DEF Spans, m
<1>counted. \A j \in 1 .. m : tr[j].count \in Nat \ {0} /\ Counts(tr)[j] = tr[j].count
  <2>1. TAKE j \in 1 .. m
  <2>2. tr[j].count \in Nat \ {0}
    <3>1. ov[j].count # 0
      BY <1>8
    <3>2. ov[j].count \in Nat
      BY <1>9
    <3>3. tr[j].count = ov[j].count
      BY <1>11
    <3> QED
      BY <3>1, <3>2, <3>3
  <2>3. DOMAIN Counts(tr) = 1 .. m
    BY <1>13
  <2>4. Counts(tr)[j] = tr[j].count
    BY <1>12, <2>3 DEF Counts
  <2> QED
    BY <2>2, <2>4
<1>19. ASSUME NEW k \in 1 .. m
       PROVE  /\ tr[k].count \in Nat \ {0} /\ tr[k].current \in Nat /\ tr[k].next \in Nat
              /\ st[k] \in 1 .. N /\ st[k + 1] = st[k] + tr[k].count
              /\ tr[k].current = cur[c[st[k]]].rank
              /\ tr[k].next = nxt[n[st[k]]].rank
              /\ sc[c[st[k]] + 1] \in Nat /\ sn[n[st[k]] + 1] \in Nat
              /\ st[k + 1] <= sc[c[st[k]] + 1]
              /\ st[k + 1] <= sn[n[st[k]] + 1]
              /\ st[k + 1] = sc[c[st[k]] + 1] \/ st[k + 1] = sn[n[st[k]] + 1]
  <2> DEFINE x == st[k]
             y == st[k + 1]
             v == tr[k].count
             i == c[x]
             j == n[x]
  <2>1. v \in Nat \ {0} /\ Counts(tr)[k] = v
    BY <1>counted
  <2>2. x \in Nat /\ 1 <= x /\ y = x + v /\ y \in Nat /\ y <= N + 1
    <3>1. k \in 1 .. m + 1 /\ k + 1 \in 1 .. m + 1
      BY <1>9
    <3>2. /\ st[k] \in Nat /\ 1 <= st[k] /\ st[k + 1] \in Nat /\ st[k + 1] <= st[m + 1]
          /\ st[k + 1] = st[k] + Counts(tr)[k]
      BY <1>9, <1>13, <1>15, <3>1, CutBounds, ZenonT(30)
    <3> QED
      BY <1>17, <2>1, <3>2
  <2> HIDE DEF x, y, v
  <2>3. x \in 1 .. N /\ x \in x .. y - 1
    BY <1>2, <2>1, <2>2
  <2>4. ASSUME NEW e \in x .. y - 1
        PROVE  /\ e \in 1 .. N /\ e \in 1 .. Len(c) /\ <<c[e], n[e]>> = ov[k].rank
               /\ c[e] = i /\ n[e] = j
    <3>1. e \in 1 .. N
      BY <1>2, <2>2
    <3>2. pairs[e] = ov[k].rank /\ pairs[x] = ov[k].rank
      BY <1>18, <2>3 DEF x, y
    <3> QED
      BY <1>7, <2>3, <3>1, <3>2, SMTT(20)
  <2>5. /\ i \in 1 .. Len(cur) /\ j \in 1 .. Len(nxt)
        /\ sc[i] \in Nat /\ sc[i + 1] \in Nat /\ sn[j] \in Nat /\ sn[j + 1] \in Nat
        /\ sn[j + 1] <= N + 1
        /\ x \in sc[i] .. sc[i + 1] - 1 /\ x \in sn[j] .. sn[j + 1] - 1
    <3>1. i \in 1 .. Len(cur) /\ j \in 1 .. Len(nxt)
      BY <1>1, <1>2, <2>3, <2>4
    <3>2. sn[j + 1] <= sn[Len(nxt) + 1] /\ sn[Len(nxt) + 1] = N + 1
      <4>1. Len(nxt) + 1 \in Nat
        BY <1>2
      <4>2. sn[Len(nxt) + 1] \in Int
        BY <1>2, <3>1, RunCutAt DEF sn
      <4> QED
        BY <1>2, <3>1, <4>2
    <3> QED
      BY <1>1, <1>2, <2>3, <2>4, <3>1, <3>2
  <2> HIDE DEF i, j
  <2> DEFINE p == sc[i + 1]
             q == sn[j + 1]
  <2>6. y <= p /\ y <= q
    <3> DEFINE e == y - 1
    <3>1. e \in x .. y - 1
      BY <2>1, <2>2
    <3>2. e \in sc[c[e]] .. sc[c[e] + 1] - 1 /\ e \in sn[n[e]] .. sn[n[e] + 1] - 1
      BY <1>1, <1>2, <2>4, <3>1
    <3>3. e \in sc[i] .. p - 1 /\ e \in sn[j] .. q - 1
      BY <2>4, <3>1, <3>2
    <3> QED
      BY <2>2, <2>5, <3>3, SMTT(20)
  <2>7. y = p \/ y = q
    <3>1. SUFFICES ASSUME y # p, y # q PROVE FALSE
      OBVIOUS
    <3> HIDE DEF p, q
    <3>2. p \in Nat /\ q \in Nat /\ q <= N + 1
      BY <2>5 DEF p, q
    <3>3. y < p /\ y < q /\ y \in 1 .. N
      BY <1>2, <2>1, <2>2, <2>6, <3>1, <3>2
    <3>4. y \in sc[i] .. p - 1 /\ y \in sn[j] .. q - 1
      BY <2>1, <2>2, <2>5, <3>2, <3>3, SMTT(20)
    <3>5. c[y] = i /\ n[y] = j
      BY <1>1, <1>2, <2>5, <3>4 DEF p, q
    <3>6. k + 1 # m + 1
      BY <1>2, <1>17, <3>3 DEF y
    <3>7. k + 1 \in 1 .. m /\ k + 1 \in 2 .. m /\ (k + 1) - 1 = k
      BY <1>9, <3>6
    <3>8. y \in st[k + 1] .. st[(k + 1) + 1] - 1
      <4> DEFINE z == st[(k + 1) + 1]
                 u == tr[k + 1].count
      <4>1. u \in Nat \ {0} /\ Counts(tr)[k + 1] = u
        BY <1>counted, <3>7
      <4>2. z = y + u
        BY <1>15, <3>7, <4>1 DEF Cuts, y
      <4> HIDE DEF z, u
      <4>3. y \in y .. z - 1
        BY <2>2, <4>1, <4>2
      <4> QED
        BY <4>3 DEF y, z
    <3>9. pairs[y] = ov[k + 1].rank
      BY <1>18, <3>7, <3>8
    <3>10. pairs[y] = ov[k].rank
      <4>1. <<i, j>> = ov[k].rank
        BY <2>3, <2>4
      <4> QED
        BY <1>7, <3>3, <3>5, <4>1
    <3> QED
      BY <1>8, <3>7, <3>9, <3>10 DEF m
  <2>8. tr[k].current = cur[i].rank /\ tr[k].next = nxt[j].rank /\ tr[k].current \in Nat /\ tr[k].next \in Nat
    <3>1. <<i, j>> = ov[k].rank
      BY <2>3, <2>4
    <3>2. ov[k].rank[1] = i /\ ov[k].rank[2] = j
      BY <3>1
    <3> QED
      BY <1>11, <3>2
  <2> QED
    BY <2>1, <2>2, <2>3, <2>5, <2>6, <2>7, <2>8 DEF x, y, v, i, j
<1> QED
  BY <1>1, <1>2, <1>4, <1>9, <1>12, <1>17, <1>19 DEF Follows, c, n, sc, sn, N, m

IsStream(runs) == runs \in Seq(RunSet(Nat)) /\ \A j \in 1 .. Len(runs) : runs[j].count # 0

(* k triples have been taken from a chunk's two streams.                   *)
Standing(b, cur, nxt, k) ==
  LET e == TripleCut(Triples(cur, nxt))[k + 1] - 1
  IN  /\ b = [nexts |-> b.nexts, currents |-> b.currents, cursor |-> b.cursor]
      /\ Walks(b.nexts, nxt, b.cursor.next_rank, b.cursor.next_rem, e)
      /\ Walks(b.currents, cur, b.cursor.cur_rank, b.cursor.cur_rem, e)
      /\ b.currents.out_pos = 0
      /\ k # 0 => b.nexts.pos # 0

(* next_triplet gives a chunk's triples one by one, and never fails.       *)
LEMMA NextTripletSound ==
  ASSUME NEW cur, NEW nxt, IsStream(cur), IsStream(nxt), ~ StreamsDisagree(cur, nxt),
         NEW tr, tr = Triples(cur, nxt), NEW k \in 0 .. Len(tr),
         NEW b, Standing(b, cur, nxt, k), NEW c, NEW t, t = NextTriplet(b, c)
  PROVE  /\ Put(t.buffers.nexts) = Put(b.nexts)
         /\ k = Len(tr) => t.result = "EMPTY" /\ Standing(t.buffers, cur, nxt, k)
         /\ k # Len(tr) =>
              /\ t.result = "SUCCESS"
              /\ t.element = [current |-> tr[k + 1].current, next |-> tr[k + 1].next,
                              count |-> tr[k + 1].count, chunk |-> c]
              /\ Standing(t.buffers, cur, nxt, k + 1)
<1> DEFINE st == TripleCut(tr)
           e == st[k + 1] - 1
           n == Advance(b.nexts, b.cursor.next_rank, b.cursor.next_rem)
           m == Advance(b.currents, b.cursor.cur_rank, b.cursor.cur_rem)
           N == Len(Slots(nxt))
<1>1. cur \in Seq(RunSet(Nat)) /\ nxt \in Seq(RunSet(Nat))
  BY DEF IsStream
<1>2. /\ Len(tr) \in Nat
      /\ st[1] = 1 /\ st[Len(tr) + 1] = N + 1
      /\ N \in Nat /\ Len(Slots(cur)) \in Nat /\ N <= Len(Slots(cur))
      /\ \A l \in 1 .. Len(tr) :
           /\ tr[l].count \in Nat \ {0} /\ tr[l].current \in Nat /\ tr[l].next \in Nat
           /\ st[l] \in 1 .. N /\ st[l + 1] = st[l] + tr[l].count
           /\ tr[l].current = cur[Slots(cur)[st[l]]].rank
           /\ tr[l].next = nxt[Slots(nxt)[st[l]]].rank
           /\ RunCut(cur)[Slots(cur)[st[l]] + 1] \in Nat /\ RunCut(nxt)[Slots(nxt)[st[l]] + 1] \in Nat
           /\ st[l + 1] <= RunCut(cur)[Slots(cur)[st[l]] + 1]
           /\ st[l + 1] <= RunCut(nxt)[Slots(nxt)[st[l]] + 1]
           /\ \/ st[l + 1] = RunCut(cur)[Slots(cur)[st[l]] + 1]
              \/ st[l + 1] = RunCut(nxt)[Slots(nxt)[st[l]] + 1]
  <2>1. st = TripleCut(tr)
    OBVIOUS
  <2> HIDE DEF st
  <2>2. Follows(tr, st, cur, nxt)
    BY <1>1, <2>1, TriplesWalk
  <2> QED
    BY <2>2 DEF Follows
<1>3. /\ Walks(b.nexts, nxt, b.cursor.next_rank, b.cursor.next_rem, e)
      /\ Walks(b.currents, cur, b.cursor.cur_rank, b.cursor.cur_rem, e)
      /\ b = [nexts |-> b.nexts, currents |-> b.currents, cursor |-> b.cursor]
      /\ b.currents.out_pos = 0 /\ (k # 0 => b.nexts.pos # 0)
  BY DEF Standing
<1> HIDE DEF st, n, m
<1>4. /\ ReadOf(n.buffer, b.nexts)
      /\ e \in Nat /\ e <= N
      /\ e = N =>
           /\ n.result = "EMPTY" /\ n.buffer.pos # 0
           /\ Walks(n.buffer, nxt, b.cursor.next_rank, b.cursor.next_rem, e)
      /\ e # N =>
           /\ n.result = "SUCCESS"
           /\ n.run.rank = nxt[Slots(nxt)[e + 1]].rank
           /\ n.run.count \in Nat \ {0}
           /\ e + n.run.count = RunCut(nxt)[Slots(nxt)[e + 1] + 1] - 1
           /\ n.buffer.pos # 0
           /\ \A d \in 1 .. n.run.count :
                Walks(n.buffer, nxt, n.run.rank, n.run.count - d, e + d)
  BY <1>1, <1>3, AdvanceSound, SMTT(20) DEF IsStream, n
<1>5. /\ ReadOf(m.buffer, b.currents)
      /\ e # Len(Slots(cur)) =>
           /\ m.result = "SUCCESS"
           /\ m.run.rank = cur[Slots(cur)[e + 1]].rank
           /\ m.run.count \in Nat \ {0}
           /\ e + m.run.count = RunCut(cur)[Slots(cur)[e + 1] + 1] - 1
           /\ \A d \in 1 .. m.run.count :
                Walks(m.buffer, cur, m.run.rank, m.run.count - d, e + d)
  BY <1>1, <1>3, AdvanceSound DEF IsStream, m
<1> HIDE DEF N
<1>6. CASE k = Len(tr)
  <2>1. e = N
    BY <1>2, <1>6
  <2>2. t = [result |-> "EMPTY", buffers |-> [b EXCEPT !.nexts = n.buffer]]
    BY <1>4, <2>1 DEF NextTriplet, n
  <2> DEFINE new == t.buffers
  <2>3. new = [nexts |-> n.buffer, currents |-> b.currents, cursor |-> b.cursor]
    BY <1>3, <2>2
  <2>4. n.buffer.pos # 0
    BY <1>4, <2>1
  <2>5. Standing(new, cur, nxt, k)
    BY <1>3, <1>4, <2>1, <2>3, <2>4 DEF Standing, st
  <2> QED
    BY <1>4, <1>6, <2>2, <2>3, <2>5 DEF ReadOf
<1>7. CASE k # Len(tr)
  <2> DEFINE x == st[k + 1]
             y == st[(k + 1) + 1]
             v == tr[k + 1].count
             p == RunCut(cur)[Slots(cur)[x] + 1]
             q == RunCut(nxt)[Slots(nxt)[x] + 1]
             new == t.buffers
  <2>1. k + 1 \in 1 .. Len(tr)
    BY <1>2, <1>7
  <2>2. /\ v \in Nat \ {0} /\ x \in 1 .. N /\ y = x + v /\ y <= p /\ y <= q /\ (y = p \/ y = q)
        /\ p \in Nat /\ q \in Nat
        /\ tr[k + 1].current = cur[Slots(cur)[x]].rank
        /\ tr[k + 1].next = nxt[Slots(nxt)[x]].rank
    BY <1>2, <2>1
  <2>3. /\ e = x - 1 /\ e + 1 = x /\ e # N /\ e # Len(Slots(cur)) /\ e + v = y - 1
        /\ x \in Nat /\ y \in Nat /\ e \in Nat
    <3> DEFINE l == Len(Slots(cur))
    <3>1. N \in Nat /\ l \in Nat /\ N <= l
      BY <1>2
    <3>2. v \in Nat \ {0} /\ x \in 1 .. N /\ y = x + v /\ e = x - 1
      BY <2>2
    <3> HIDE DEF l, x, y, v, e
    <3>3. e = x - 1 /\ e + 1 = x /\ e # N /\ e # l /\ e + v = y - 1 /\ x \in Nat /\ y \in Nat /\ e \in Nat
      BY <3>1, <3>2
    <3> QED
      BY <3>3 DEF l
  <2> DEFINE f == n.run.count
             g == m.run.count
  <2>4. /\ f \in Nat \ {0} /\ g \in Nat \ {0} /\ e + f = q - 1 /\ e + g = p - 1
        /\ n.result = "SUCCESS" /\ m.result = "SUCCESS"
        /\ n.run.rank = tr[k + 1].next /\ m.run.rank = tr[k + 1].current
        /\ n.buffer.pos # 0
    BY <1>4, <1>5, <2>2, <2>3
  <2> HIDE DEF x, y, v, p, q, f, g, e
  <2>5. v = IF g < f THEN g ELSE f
    <3>1. v <= g /\ v <= f /\ (v = g \/ v = f)
      <4>1. y - 1 <= e + f /\ y - 1 <= e + g /\ (y - 1 = e + g \/ y - 1 = e + f)
        BY <2>2, <2>3, <2>4
      <4> QED
        BY <2>2, <2>3, <2>4, <4>1
    <3> QED
      BY <2>2, <2>4, <3>1
  <2>6. v \in 1 .. f /\ v \in 1 .. g
    BY <2>2, <2>4, <2>5
  <2>7. t = [result |-> "SUCCESS",
             buffers |-> [nexts |-> n.buffer, currents |-> m.buffer, cursor |-> Rest(v, m.run, n.run)],
             element |-> [current |-> m.run.rank, next |-> n.run.rank, count |-> v, chunk |-> c]]
    BY <2>4, <2>5 DEF NextTriplet, n, m, f, g
  <2>8. /\ new.nexts = n.buffer /\ new.currents = m.buffer
        /\ new = [nexts |-> new.nexts, currents |-> new.currents, cursor |-> new.cursor]
        /\ new.cursor = [cur_rank |-> m.run.rank, cur_rem |-> g - v,
                         next_rank |-> n.run.rank, next_rem |-> f - v]
    BY <2>7 DEF Rest, f, g
  <2>9. /\ Walks(n.buffer, nxt, n.run.rank, f - v, y - 1)
        /\ Walks(m.buffer, cur, m.run.rank, g - v, y - 1)
    BY <1>4, <1>5, <2>3, <2>6 DEF f, g
  <2>10. m.buffer.out_pos = 0
    BY <1>3, <1>5 DEF ReadOf
  <2>11. Standing(new, cur, nxt, k + 1)
    <3>1. /\ Walks(new.nexts, nxt, new.cursor.next_rank, new.cursor.next_rem, y - 1)
          /\ Walks(new.currents, cur, new.cursor.cur_rank, new.cursor.cur_rem, y - 1)
      BY <2>8, <2>9
    <3> QED
      BY <2>4, <2>8, <2>10, <3>1 DEF Standing, st, y
  <2>12. t.element = [current |-> tr[k + 1].current, next |-> tr[k + 1].next,
                      count |-> tr[k + 1].count, chunk |-> c]
    BY <2>4, <2>7 DEF v
  <2>13. t.result = "SUCCESS" /\ Put(t.buffers.nexts) = Put(b.nexts)
    BY <1>4, <2>7 DEF ReadOf
  <2> QED
    BY <1>7, <2>11, <2>12, <2>13
<1> QED
  BY <1>6, <1>7

-----------------------------------------------------------------------------
(* The element that a triple makes in the heap.                            *)
ElementOf(T, x) ==
  [current |-> T[x[1]][x[2]].current, next |-> T[x[1]][x[2]].next,
   count |-> T[x[1]][x[2]].count, chunk |-> x[1]]

(* The triples of all chunks are elements for the heap.                    *)
LEMMA IdType ==
  ASSUME NEW T, TripleLists(T)
  PROVE  /\ IsFiniteSet(TripleIds(T))
         /\ \A x \in TripleIds(T) :
              /\ x = <<x[1], x[2]>> /\ x[1] \in DOMAIN T /\ x[2] \in 1 .. Len(T[x[1]])
              /\ T[x[1]][x[2]] \in TripleSet
              /\ T[x[1]][x[2]].current \in Nat /\ T[x[1]][x[2]].next \in Nat
              /\ T[x[1]][x[2]].count \in Nat \ {0}
              /\ ElementOf(T, x) \in Elements
         /\ \A c \in DOMAIN T : \A j \in 1 .. Len(T[c]) : <<c, j>> \in TripleIds(T)
<1>1. ASSUME NEW x \in TripleIds(T) PROVE ElementOf(T, x) \in Elements
  <2>1. x[1] \in Nat
    BY TripleIdsType DEF TripleLists
  <2> QED
    BY <2>1, TripleIdsType DEF Elements, ElementOf
<1> QED
  BY <1>1, TripleIdsType

(* The triples P have left the heap, x as the last of them; rank is what   *)
(* its pair is given, and so many entries of its pair have been counted.   *)
Ranked(T, P, x, rank, count) ==
  LET t == T[x[1]][x[2]]
      e == ElementOf(T, x)
  IN  /\ x \in P
      /\ \A y \in P : y = x \/ Less(ElementOf(T, y), e)
      /\ \A y \in TripleIds(T) \ P : Less(e, ElementOf(T, y))
      /\ rank = RunOf(T, t).rank
      /\ count = Total(T, SamePairs(T, t) \cap P)

(* What merge knows when the triples P have left the heap.                 *)
Known(T, P) ==
  \/ last = None /\ P = {}
  \/ \E x \in P : last = ElementOf(T, x) /\ Ranked(T, P, x, updated_rank, pair_count)

(* The pair of the triple that leaves next is ranked and counted right.    *)
LEMMA RankStep ==
  ASSUME NEW T, TripleLists(T), NEW P \in SUBSET TripleIds(T), Known(T, P),
         NEW y \in TripleIds(T) \ P, NEW s, s = ElementOf(T, y),
         \A z \in TripleIds(T) \ P : z = y \/ Less(s, ElementOf(T, z))
  PROVE  Ranked(T, P \cup {y}, y, NextRank(s), PairCount(s))
<1> DEFINE Ids == TripleIds(T)
           E(z) == ElementOf(T, z)
           t == T[y[1]][y[2]]
           new == P \cup {y}
<1>1. \A z \in Ids :
        /\ E(z) \in Elements
        /\ E(z).current = T[z[1]][z[2]].current /\ E(z).next = T[z[1]][z[2]].next
        /\ E(z).count = T[z[1]][z[2]].count /\ E(z).chunk = z[1]
        /\ T[z[1]][z[2]].current \in Nat /\ T[z[1]][z[2]].next \in Nat
        /\ T[z[1]][z[2]].count \in Nat \ {0} /\ z[1] \in Nat
  BY IdType DEF ElementOf, TripleLists
<1>2. /\ y \in Ids /\ new \in SUBSET Ids /\ s \in Elements
      /\ s.current = t.current /\ s.next = t.next /\ s.count = t.count
      /\ t.current \in Nat /\ t.next \in Nat
  BY <1>1
<1> HIDE DEF E, t
<1>3. ASSUME NEW z \in Ids, Less(E(z), s) PROVE z \in P
  <2>1. SUFFICES ASSUME z \notin P PROVE FALSE
    OBVIOUS
  <2>2. z = y \/ Less(s, E(z))
    BY <2>1 DEF E
  <2> QED
    BY <1>1, <1>2, <1>3, <2>2, LessOrder DEF E
<1>4. \A z \in Ids \ new : Less(s, E(z))
  BY DEF E
<1>5. GroupBefore(T, t) \subseteq P
  <2>1. SUFFICES ASSUME NEW z \in GroupBefore(T, t) PROVE z \in P
    OBVIOUS
  <2>2. z \in Ids /\ E(z).current = s.current /\ E(z).next < s.next
    BY <1>1, <1>2 DEF GroupBefore
  <2>3. Less(E(z), s)
    BY <2>2 DEF Less
  <2> QED
    BY <1>3, <2>2, <2>3
<1>6. RunOf(T, t).rank = t.current + Total(T, GroupBefore(T, t))
  BY DEF RunOf, Total
<1>7. {y} \in SUBSET Ids /\ Total(T, {y}) = s.count
  BY <1>2, TotalOfOne DEF t
<1>8. CASE last = None /\ P = {}
  <2>1. NextRank(s) = s.current /\ PairCount(s) = s.count
    BY <1>8 DEF NextRank, PairCount
  <2>2. GroupBefore(T, t) = {} /\ new = {y}
    BY <1>5, <1>8
  <2>3. SamePairs(T, t) \cap new = {y}
    BY <1>2, <2>2 DEF SamePairs, t
  <2>4. NextRank(s) = RunOf(T, t).rank
    BY <1>2, <1>6, <2>1, <2>2, TotalOfNone
  <2>5. PairCount(s) = Total(T, SamePairs(T, t) \cap new)
    BY <1>7, <2>1, <2>3
  <2> QED
    BY <1>4, <2>2, <2>4, <2>5 DEF Ranked, E, t
<1>9. ASSUME NEW x \in P, last = E(x), Ranked(T, P, x, updated_rank, pair_count)
      PROVE  Ranked(T, new, y, NextRank(s), PairCount(s))
  <2> DEFINE u == T[x[1]][x[2]]
  <2>1. /\ x \in Ids /\ last \in Elements
        /\ last.current = u.current /\ last.next = u.next /\ last.chunk = x[1]
        /\ u.current \in Nat /\ u.next \in Nat /\ x[1] \in Nat
    BY <1>1, <1>9
  <2>2. last # None
    BY <2>1 DEF None
  <2>3. /\ \A z \in P : z = x \/ Less(E(z), last)
        /\ \A z \in Ids \ P : Less(last, E(z))
        /\ updated_rank = RunOf(T, u).rank
        /\ pair_count = Total(T, SamePairs(T, u) \cap P)
    BY <1>9 DEF Ranked, E
  <2> HIDE DEF u
  <2>4. Less(last, s)
    BY <2>3 DEF E
  <2>5. \A z \in new : z = y \/ Less(E(z), s)
    BY <1>1, <1>2, <2>1, <2>3, <2>4, LessOrder, <1>9
  <2>6. \A z \in P : E(z).current <= last.current /\ (E(z).current = last.current => E(z).next <= last.next)
    BY <1>1, <1>9, <2>1, <2>3 DEF Less, Elements
  <2>7. RunOf(T, u).rank = u.current + Total(T, GroupBefore(T, u))
    BY DEF RunOf, Total
  <2>8. CASE s.current # last.current
    <3>1. NextRank(s) = s.current /\ PairCount(s) = s.count
      BY <2>8 DEF NextRank, PairCount, SamePair
    <3>2. last.current < s.current
      BY <1>2, <2>1, <2>4, <2>8 DEF Less
    <3>3. \A z \in P : E(z).current # s.current
      BY <1>1, <1>2, <2>1, <2>6, <3>2
    <3>4. GroupBefore(T, t) = {}
      BY <1>1, <1>2, <1>5, <3>3 DEF GroupBefore
    <3>5. SamePairs(T, t) \cap new = {y}
      <4>1. \A z \in P : z \notin SamePairs(T, t)
        BY <1>1, <1>2, <3>3 DEF SamePairs
      <4>2. y \in SamePairs(T, t)
        BY <1>2 DEF SamePairs, t
      <4> QED
        BY <4>1, <4>2
    <3>6. NextRank(s) = RunOf(T, t).rank
      BY <1>2, <1>6, <3>1, <3>4, TotalOfNone
    <3>7. PairCount(s) = Total(T, SamePairs(T, t) \cap new)
      BY <1>7, <3>1, <3>5
    <3> QED
      BY <1>4, <2>5, <3>6, <3>7 DEF Ranked, E, t
  <2>9. CASE s.current = last.current /\ s.next = last.next
    <3>1. NextRank(s) = updated_rank /\ PairCount(s) = pair_count + s.count
      BY <2>2, <2>9 DEF NextRank, PairCount, SamePair
    <3>2. t.current = u.current /\ t.next = u.next
      BY <1>2, <2>1, <2>9
    <3>3. GroupBefore(T, t) = GroupBefore(T, u) /\ SamePairs(T, t) = SamePairs(T, u)
      BY <3>2 DEF GroupBefore, SamePairs
    <3>4. NextRank(s) = RunOf(T, t).rank
      BY <1>6, <2>3, <2>7, <3>1, <3>2, <3>3
    <3> DEFINE A == SamePairs(T, u) \cap P
    <3>5. y \in SamePairs(T, t)
      BY <1>2 DEF SamePairs, t
    <3>6. SamePairs(T, t) \cap new = A \cup {y} /\ A \cap {y} = {} /\ A \in SUBSET Ids
      BY <3>3, <3>5
    <3>7. Total(T, A \cup {y}) = Total(T, A) + Total(T, {y})
      BY <1>7, <3>6, TotalAdds
    <3>8. PairCount(s) = Total(T, SamePairs(T, t) \cap new)
      BY <1>7, <2>3, <3>1, <3>6, <3>7
    <3> QED
      BY <1>4, <2>5, <3>4, <3>8 DEF Ranked, E, t
  <2>10. CASE s.current = last.current /\ s.next # last.next
    <3>1. NextRank(s) = updated_rank + pair_count /\ PairCount(s) = s.count
      BY <2>2, <2>10 DEF NextRank, PairCount, SamePair
    <3>2. last.next < s.next
      BY <1>2, <2>1, <2>4, <2>10 DEF Less
    <3> DEFINE A == GroupBefore(T, u)
               C == SamePairs(T, u)
    <3>3. C \subseteq P
      <4>1. SUFFICES ASSUME NEW z \in C PROVE z \in P
        OBVIOUS
      <4>2. z \in Ids /\ E(z).current = s.current /\ E(z).next < s.next
        BY <1>1, <2>1, <2>10, <3>2 DEF SamePairs
      <4>3. Less(E(z), s)
        BY <4>2 DEF Less
      <4> QED
        BY <1>3, <4>2, <4>3
    <3>4. A \in SUBSET Ids /\ C \in SUBSET Ids /\ A \cap C = {}
      <4>1. ASSUME NEW z \in A PROVE z \in Ids /\ z \notin C
        <5>1. z \in Ids /\ E(z).next < last.next
          BY <1>1, <2>1 DEF GroupBefore
        <5>2. z \in C => E(z).next = last.next
          BY <1>1, <2>1, <5>1 DEF SamePairs
        <5> QED
          BY <1>1, <2>1, <5>1, <5>2 DEF Elements
      <4> QED
        BY <4>1 DEF SamePairs
    <3>5. GroupBefore(T, t) = A \cup C
      <4>1. ASSUME NEW z \in GroupBefore(T, t) PROVE z \in A \cup C
        <5>1. z \in P /\ z \in Ids /\ E(z).current = last.current /\ E(z).next < s.next
          BY <1>1, <1>2, <1>5, <2>10 DEF GroupBefore
        <5>2. E(z).next <= last.next /\ E(z).next \in Nat
          BY <1>1, <2>6, <5>1
        <5>3. E(z).next < last.next \/ E(z).next = last.next
          BY <2>1, <5>2
        <5> QED
          BY <1>1, <2>1, <5>1, <5>3 DEF GroupBefore, SamePairs
      <4>2. ASSUME NEW z \in A \cup C PROVE z \in GroupBefore(T, t)
        <5>1. z \in Ids /\ E(z).current = last.current /\ E(z).next <= last.next /\ E(z).next \in Nat
          BY <1>1, <2>1 DEF GroupBefore, SamePairs
        <5>2. E(z).current = t.current /\ E(z).next < t.next
          BY <1>2, <2>1, <2>10, <3>2, <5>1
        <5> QED
          BY <1>1, <5>1, <5>2 DEF GroupBefore
      <4> QED
        BY <4>1, <4>2
    <3>6. pair_count = Total(T, C)
      <4>1. C \cap P = C
        BY <3>3
      <4> QED
        BY <2>3, <4>1
    <3>7. Total(T, A \cup C) = Total(T, A) + Total(T, C)
      BY <3>4, TotalAdds
    <3>8. Total(T, A) \in Nat /\ Total(T, C) \in Nat
      BY <3>4, TotalType
    <3> HIDE DEF A, C
    <3>9. NextRank(s) = RunOf(T, t).rank
      <4>1. updated_rank = u.current + Total(T, A)
        BY <2>3, <2>7 DEF A
      <4>2. t.current = u.current /\ u.current \in Nat
        BY <1>2, <2>1, <2>10
      <4> QED
        BY <1>6, <3>1, <3>5, <3>6, <3>7, <3>8, <4>1, <4>2
    <3>10. SamePairs(T, t) \cap new = {y}
      <4>1. ASSUME NEW z \in P PROVE z \notin SamePairs(T, t)
        <5>1. z \in Ids /\ (E(z).current = last.current => E(z).next # s.next)
          BY <1>1, <1>2, <2>1, <2>6, <3>2
        <5> QED
          BY <1>1, <1>2, <2>10, <5>1 DEF SamePairs
      <4>2. y \in SamePairs(T, t)
        BY <1>2 DEF SamePairs, t
      <4> QED
        BY <4>1, <4>2
    <3>11. PairCount(s) = Total(T, SamePairs(T, t) \cap new)
      BY <1>7, <3>1, <3>10
    <3> QED
      BY <1>4, <2>5, <3>9, <3>11 DEF Ranked, E, t
  <2> QED
    BY <2>8, <2>9, <2>10
<1> QED
  BY <1>8, <1>9 DEF Known, E

(* What is written of the triple that left last: its run.                  *)
LEMMA LastRun ==
  ASSUME NEW T, TripleLists(T), NEW P \in SUBSET TripleIds(T),
         NEW x \in P, last = ElementOf(T, x), Ranked(T, P, x, updated_rank, pair_count),
         NEW y \in TripleIds(T) \ P, NEW s, s = ElementOf(T, y),
         \A z \in TripleIds(T) \ P : z = y \/ Less(s, ElementOf(T, z))
  PROVE  RunOf(T, T[x[1]][x[2]]) =
           IF SamePair(s, last) THEN [rank |-> updated_rank, count |-> last.count]
           ELSE ResolvedRun(last, pair_count)
<1> DEFINE Ids == TripleIds(T)
           u == T[x[1]][x[2]]
           C == SamePairs(T, u)
<1>1. \A z \in Ids :
        /\ ElementOf(T, z) \in Elements
        /\ ElementOf(T, z).current = T[z[1]][z[2]].current /\ ElementOf(T, z).next = T[z[1]][z[2]].next
        /\ ElementOf(T, z).count = T[z[1]][z[2]].count
        /\ T[z[1]][z[2]].current \in Nat /\ T[z[1]][z[2]].next \in Nat
  BY IdType DEF ElementOf
<1>2. RunOf(T, u) = [rank |-> updated_rank, count |-> IF Total(T, C) = 1 THEN 0 ELSE last.count]
  <2>1. RunOf(T, u).rank = updated_rank
    BY DEF Ranked
  <2>2. last.count = u.count
    BY <1>1
  <2> QED
    BY <2>1, <2>2 DEF RunOf, Total
<1>3. /\ last \in Elements /\ last.current = u.current /\ last.next = u.next
      /\ u.current \in Nat /\ u.next \in Nat
  BY <1>1
<1> HIDE DEF u
<1>4. CASE SamePair(s, last)
  <2>1. x \in C /\ y \in C /\ x # y
    BY <1>1, <1>3, <1>4 DEF SamePair, SamePairs, u
  <2>2. C \in SUBSET Ids
    BY DEF SamePairs
  <2> HIDE DEF C
  <2>3. Total(T, C) # 1
    BY <2>1, <2>2, TotalOfTwo
  <2> QED
    BY <1>2, <1>4, <2>3 DEF u
<1>5. CASE ~ SamePair(s, last)
  <2>1. C \subseteq P
    <3>1. SUFFICES ASSUME NEW z \in C, z \notin P PROVE FALSE
      OBVIOUS
    <3>2. z \in Ids /\ ElementOf(T, z).current = last.current /\ ElementOf(T, z).next = last.next
      BY <1>1, <1>3 DEF SamePairs
    <3>3. Less(last, s)
      BY DEF Ranked
    <3>4. z # y
      BY <1>5, <3>2 DEF SamePair
    <3>5. Less(s, ElementOf(T, z))
      BY <3>1, <3>2, <3>4
    <3>6. s \in Elements
      BY <1>1
    <3> QED
      BY <1>3, <1>5, <3>2, <3>3, <3>5, <3>6 DEF Less, Elements, SamePair
  <2>2. C \cap P = C
    BY <2>1
  <2>3. pair_count = Total(T, C)
    BY <2>2 DEF Ranked, u
  <2> QED
    BY <1>2, <1>5, <2>3 DEF ResolvedRun, u
<1> QED
  BY <1>4, <1>5

(* What is written of the last triple of all.                              *)
LEMMA FinalRun ==
  ASSUME NEW T, TripleLists(T), NEW P \in SUBSET TripleIds(T), Known(T, P),
         NEW y \in TripleIds(T) \ P, NEW s, s = ElementOf(T, y), P \cup {y} = TripleIds(T)
  PROVE  RunOf(T, T[y[1]][y[2]]) =
           [rank |-> NextRank(s),
            count |-> IF s.count = 1 /\ ~ (last # None /\ SamePair(s, last)) THEN 0 ELSE s.count]
<1> DEFINE Ids == TripleIds(T)
           t == T[y[1]][y[2]]
           C == SamePairs(T, t)
<1>1. Ranked(T, P \cup {y}, y, NextRank(s), PairCount(s))
  BY RankStep
<1>2. C \in SUBSET Ids /\ C \cap (P \cup {y}) = C
  BY DEF SamePairs
<1>3. PairCount(s) = Total(T, C) /\ RunOf(T, t).rank = NextRank(s)
  BY <1>1, <1>2 DEF Ranked
<1>4. s.count = t.count /\ t.count \in Nat \ {0}
  BY IdType DEF ElementOf
<1>5. RunOf(T, t) = [rank |-> NextRank(s), count |-> IF Total(T, C) = 1 THEN 0 ELSE s.count]
  BY <1>3, <1>4 DEF RunOf, Total
<1>6. CASE last # None /\ SamePair(s, last)
  <2>1. PICK x \in P : last = ElementOf(T, x)
    BY <1>6 DEF Known
  <2>2. x \in C /\ y \in C /\ x # y
    BY <1>6, <2>1 DEF SamePair, SamePairs, ElementOf
  <2> HIDE DEF C
  <2>3. Total(T, C) # 1
    BY <1>2, <2>2, TotalOfTwo
  <2> QED
    BY <1>5, <1>6, <2>3
<1>7. CASE ~ (last # None /\ SamePair(s, last))
  <2>1. PairCount(s) = s.count
    BY <1>7 DEF PairCount
  <2> QED
    BY <1>3, <1>5, <1>7, <2>1
<1> QED
  BY <1>6, <1>7

(* What is written over a buffer or flushed from it leaves alone: all that *)
(* the reading of its stream depends on.                                   *)
SameReading(a, b) ==
  /\ a.file = b.file /\ a.pos = b.pos
  /\ \A n \in Nat : B!BufferInv(b, n) => B!BufferInv(a, n)

(* Output does not disturb what is still to be read.                       *)
LEMMA StandingKept ==
  ASSUME NEW cur, NEW nxt, NEW k, NEW b, Standing(b, cur, nxt, k),
         NEW n, SameReading(n, b.nexts), NEW a, a = [b EXCEPT !.nexts = n]
  PROVE  Standing(a, cur, nxt, k) /\ a.nexts = n
<1> DEFINE e == TripleCut(Triples(cur, nxt))[k + 1] - 1
<1>1. b = [nexts |-> b.nexts, currents |-> b.currents, cursor |-> b.cursor]
  BY DEF Standing
<1>2. a = [nexts |-> n, currents |-> b.currents, cursor |-> b.cursor]
  BY <1>1
<1>3. a.nexts = n /\ a.currents = b.currents /\ a.cursor = b.cursor
  BY <1>2
<1>4. ASSUME NEW j, Given(b.nexts, nxt, j) PROVE Given(n, nxt, j)
  <2> DEFINE m == RecordCut(nxt)[j + 1] - 1
  <2>1. B!BufferInv(b.nexts, m) /\ b.nexts.file = Encoded(nxt) /\ j \in 0 .. Len(nxt) /\ (j # 0 => b.nexts.pos # 0)
    BY <1>4 DEF Given
  <2> HIDE DEF m
  <2>2. m \in Nat
    BY <2>1 DEF B!BufferInv, B!BufferType
  <2>3. B!BufferInv(n, m) /\ n.file = Encoded(nxt) /\ n.pos = b.nexts.pos
    BY <2>1, <2>2 DEF SameReading
  <2> QED
    BY <2>1, <2>3 DEF Given, m
<1>5. Walks(b.nexts, nxt, b.cursor.next_rank, b.cursor.next_rem, e)
  BY DEF Standing
<1> HIDE DEF e
<1>6. Walks(n, nxt, b.cursor.next_rank, b.cursor.next_rem, e)
  BY <1>4, <1>5 DEF Walks
<1>7. /\ Walks(b.currents, cur, b.cursor.cur_rank, b.cursor.cur_rem, e)
      /\ b.currents.out_pos = 0 /\ (k # 0 => b.nexts.pos # 0)
  BY DEF Standing, e
<1>8. n.pos = b.nexts.pos
  BY DEF SameReading
<1> HIDE DEF Walks
<1> QED
  BY <1>2, <1>3, <1>6, <1>7, <1>8 DEF Standing, e

(* A chunk's buffer of nexts is one.                                       *)
LEMMA StandingBuffer ==
  ASSUME NEW cur, NEW nxt, NEW k, NEW b, Standing(b, cur, nxt, k)
  PROVE  /\ \E n \in Nat : B!BufferInv(b.nexts, n)
         /\ \E n \in Nat : B!BufferInv(b.currents, n)
         /\ Put(b.nexts) \in Seq(B!Slots)
         /\ b.cursor.cur_rem \in Nat /\ b.cursor.next_rem \in Nat
<1>1. /\ \E j : Given(b.nexts, nxt, j)
      /\ \E j : Given(b.currents, cur, j)
      /\ b.cursor.cur_rem \in Nat /\ b.cursor.next_rem \in Nat
  BY DEF Standing, Walks
<1>2. \A n : B!BufferInv(b.nexts, n) \/ B!BufferInv(b.currents, n) => n \in Nat
  BY DEF B!BufferInv, B!BufferType
<1>3. /\ \E n \in Nat : B!BufferInv(b.nexts, n)
      /\ \E n \in Nat : B!BufferInv(b.currents, n)
  BY <1>1, <1>2 DEF Given
<1>4. B!BufferType(b.nexts)
  BY <1>3 DEF B!BufferInv
<1> QED
  BY <1>1, <1>3, <1>4, B!FlushKeeps DEF Put

(* Reading does not change what has been put.                              *)
LEMMA PutReading ==
  ASSUME NEW b, NEW n \in Nat, B!BufferInv(b, n), b.pos # 0, NEW rec \in RunSet(Nat)
  PROVE  /\ SameReading(PutCurrent(b, rec), b)
         /\ Put(PutCurrent(b, rec)) = Append(Put(b), rec)
         /\ Put(b) \in Seq(B!Slots) /\ rec \in B!Slots
<1>1. PutCurrent(b, rec) = B!PutCurrent(b, rec)
  BY SameBuffer
<1>2. \A m \in Nat : B!BufferInv(b, m) =>
        /\ B!BufferInv(B!PutCurrent(b, rec), m)
        /\ B!PutCurrent(b, rec).file = b.file
        /\ B!PutCurrent(b, rec).pos = b.pos
        /\ B!Output(B!PutCurrent(b, rec)) = Append(B!Output(b), rec)
  BY B!PutKeeps
<1>3. B!BufferType(b)
  BY DEF B!BufferInv
<1> QED
  BY <1>1, <1>2, <1>3, B!FlushKeeps DEF Put, SameReading, B!Slots

(* write_output puts the records of a run after those put before.          *)
Adds(a, b, run) == Put(a.nexts) = Put(b.nexts) \o Encode(run)

(* A run is put behind the read cursor, whole and at the end.              *)
LEMMA WriteOutputSound ==
  ASSUME NEW cur, NEW nxt, NEW k, NEW b, Standing(b, cur, nxt, k), b.nexts.pos # 0,
         NEW run \in RunSet(Nat), NEW a, a = WriteOutput(b, run)
  PROVE  Standing(a, cur, nxt, k) /\ Adds(a, b, run)
<1> DEFINE records == Encode(run)
           once == PutCurrent(b.nexts, records[1])
           twice == PutCurrent(once, records[2])
           n == IF Len(records) = 1 THEN once ELSE twice
<1>1. /\ records \in Seq(RunSet(Nat)) /\ Len(records) \in {1, 2}
      /\ records[1] \in RunSet(Nat) /\ (Len(records) = 2 => records[2] \in RunSet(Nat))
  <2>1. records \in Seq(RunSet(Nat)) /\ Len(records) \in {1, 2}
    BY EncodeType
  <2> HIDE DEF records
  <2> QED
    BY <2>1
<1>2. a = [b EXCEPT !.nexts = n]
  BY DEF WriteOutput
<1> HIDE DEF records
<1>3. PICK l \in Nat : B!BufferInv(b.nexts, l)
  BY StandingBuffer
<1>4. /\ SameReading(once, b.nexts) /\ Put(once) = Append(Put(b.nexts), records[1])
      /\ Put(b.nexts) \in Seq(B!Slots) /\ records[1] \in B!Slots
  BY <1>1, <1>3, PutReading
<1> HIDE DEF once
<1>5. B!BufferInv(once, l) /\ once.pos # 0
  BY <1>3, <1>4 DEF SameReading
<1>6. CASE Len(records) = 1
  <2>1. n = once /\ records = <<records[1]>>
    BY <1>1, <1>6
  <2>2. Put(n) = Put(b.nexts) \o <<records[1]>>
    <3> DEFINE p == Put(b.nexts)
               x == records[1]
    <3>1. p \in Seq(B!Slots) /\ x \in B!Slots /\ Put(n) = Append(p, x)
      BY <1>4, <2>1
    <3> HIDE DEF p, x
    <3>2. Append(p, x) = p \o <<x>>
      BY <3>1
    <3> QED
      BY <3>1, <3>2 DEF p, x
  <2>4. SameReading(n, b.nexts)
    BY <1>4, <2>1
  <2> HIDE DEF n
  <2>3. Standing(a, cur, nxt, k) /\ a.nexts = n
    BY <1>2, <2>4, StandingKept
  <2> QED
    BY <2>1, <2>2, <2>3 DEF records, Adds
<1>7. CASE Len(records) = 2
  <2>1. SameReading(twice, once) /\ Put(twice) = Append(Put(once), records[2]) /\ records[2] \in B!Slots
    BY <1>1, <1>5, <1>7, PutReading
  <2>2. n = twice /\ records = <<records[1], records[2]>>
    BY <1>1, <1>7
  <2> HIDE DEF twice
  <2>3. SameReading(n, b.nexts) /\ n.pos # 0
    BY <1>4, <1>5, <2>1, <2>2 DEF SameReading
  <2>4. Put(n) = Put(b.nexts) \o <<records[1], records[2]>>
    <3> DEFINE p == Put(b.nexts)
               x == records[1]
               y == records[2]
    <3>1. p \in Seq(B!Slots) /\ x \in B!Slots /\ y \in B!Slots /\ Put(n) = Append(Append(p, x), y)
      BY <1>4, <2>1, <2>2
    <3> HIDE DEF p, x, y
    <3>2. Append(Append(p, x), y) = p \o <<x, y>>
      BY <3>1
    <3> QED
      BY <3>1, <3>2 DEF p, x, y
  <2>5. Standing(a, cur, nxt, k) /\ a.nexts = n
    BY <1>2, <2>3, StandingKept
  <2> QED
    BY <2>2, <2>4, <2>5 DEF records, Adds
<1> QED
  BY <1>1, <1>6, <1>7

(* The records of the first runs are followed by those of the next one.    *)
LEMMA EncodedNext ==
  ASSUME NEW runs \in Seq(RunSet(Nat)), NEW m \in 1 .. Len(runs)
  PROVE  Encoded(SubSeq(runs, 1, m)) = Encoded(SubSeq(runs, 1, m - 1)) \o Encode(runs[m])
<1> DEFINE n == m - 1
           seqs == [j \in 1 .. n + 1 |-> Encode(runs[j])]
           front == [j \in 1 .. n |-> seqs[j]]
           V == RunSet(Nat)
<1>1. Len(runs) \in Nat /\ n \in Nat /\ n + 1 = m /\ n + 1 <= Len(runs)
  OBVIOUS
<1> HIDE DEF n
<1>2. seqs \in [1 .. n + 1 -> Seq(V)]
  <2>1. ASSUME NEW j \in 1 .. n + 1 PROVE Encode(runs[j]) \in Seq(V)
    <3>1. j \in 1 .. Len(runs)
      BY <1>1
    <3>2. runs[j] \in RunSet(Nat)
      BY <3>1
    <3> QED
      BY <3>2, EncodeType
  <2> QED
    BY <2>1
<1>3. FlattenSeq(seqs) = FlattenSeq(front) \o seqs[n + 1]
  <2> HIDE DEF seqs, V
  <2> QED
    BY <1>1, <1>2, FlattenLast
<1>4. Encoded(SubSeq(runs, 1, m)) = FlattenSeq(seqs)
  <2>1. /\ DOMAIN SubSeq(runs, 1, m) = 1 .. n + 1
        /\ \A j \in 1 .. n + 1 : SubSeq(runs, 1, m)[j] = runs[j]
    BY <1>1
  <2>2. [j \in DOMAIN SubSeq(runs, 1, m) |-> Encode(SubSeq(runs, 1, m)[j])] = seqs
    BY <2>1
  <2> QED
    BY <2>2 DEF Encoded
<1>5. Encoded(SubSeq(runs, 1, m - 1)) = FlattenSeq(front)
  <2>1. /\ DOMAIN SubSeq(runs, 1, m - 1) = 1 .. n
        /\ \A j \in 1 .. n : SubSeq(runs, 1, m - 1)[j] = runs[j] /\ j \in 1 .. n + 1
    BY <1>1
  <2>2. [j \in DOMAIN SubSeq(runs, 1, m - 1) |-> Encode(SubSeq(runs, 1, m - 1)[j])] = front
    BY <2>1
  <2> QED
    BY <2>2 DEF Encoded
<1>6. seqs[n + 1] = Encode(runs[m])
  BY <1>1
<1> QED
  BY <1>3, <1>4, <1>5, <1>6

(* Joining sequences is associative.                                       *)
LEMMA JoinAssociates ==
  ASSUME NEW V, NEW r \in Seq(V), NEW s \in Seq(V), NEW t \in Seq(V)
  PROVE  (r \o s) \o t = r \o (s \o t) /\ s \o t \in Seq(V)
<1>1. /\ s \o t \in Seq(V) /\ r \o s \in Seq(V)
      /\ Len(s \o t) = Len(s) + Len(t) /\ Len(r \o s) = Len(r) + Len(s)
      /\ Len(r) \in Nat /\ Len(s) \in Nat /\ Len(t) \in Nat
  BY ConcatAt
<1> DEFINE a == (r \o s) \o t
           b == r \o (s \o t)
<1>2. /\ a \in Seq(V) /\ b \in Seq(V)
      /\ Len(a) = (Len(r) + Len(s)) + Len(t) /\ Len(b) = Len(r) + (Len(s) + Len(t))
  BY <1>1, ConcatAt
<1>3. ASSUME NEW i \in 1 .. Len(a) PROVE a[i] = b[i]
  BY <1>1, <1>3
<1> HIDE DEF a, b
<1>4. a = b
  BY <1>1, <1>2, <1>3, SameElements, SMTT(20)
<1> QED
  BY <1>1, <1>4 DEF a, b

(* The records of the first runs come first.                               *)
LEMMA EncodedPrefix ==
  ASSUME NEW runs \in Seq(RunSet(Nat)), NEW m \in 0 .. Len(runs)
  PROVE  IsPrefix(Encoded(SubSeq(runs, 1, m)), Encoded(runs))
<1> DEFINE V == RunSet(Nat)
           first(n) == Encoded(SubSeq(runs, 1, n))
           Leads(n) == m + n <= Len(runs) => \E rest \in Seq(V) : first(m + n) = first(m) \o rest
           T == {n \in Nat : Leads(n)}
<1>1. Len(runs) \in Nat /\ m \in Nat
  OBVIOUS
<1>2. ASSUME NEW n \in 0 .. Len(runs) PROVE first(n) \in Seq(V)
  <2>1. SubSeq(runs, 1, n) \in Seq(V)
    BY <1>1
  <2> QED
    BY <2>1, EncodedAt
<1>3. Leads(0)
  <2>1. first(m + 0) = first(m) \o <<>>
    <3> DEFINE f == first(m)
    <3>1. f \in Seq(V)
      BY <1>2
    <3> HIDE DEF f, V
    <3>2. f \o <<>> = f
      BY <3>1
    <3>3. m + 0 = m
      BY <1>1
    <3> QED
      BY <3>2, <3>3 DEF f
  <2>2. <<>> \in Seq(V)
    OBVIOUS
  <2> QED
    BY <2>1, <2>2
<1>4. ASSUME NEW n \in Nat, Leads(n) PROVE Leads(n + 1)
  <2>1. SUFFICES ASSUME m + (n + 1) <= Len(runs)
                 PROVE  \E rest \in Seq(V) : first(m + (n + 1)) = first(m) \o rest
    OBVIOUS
  <2> DEFINE l == m + (n + 1)
  <2>2. l \in 1 .. Len(runs) /\ l - 1 = m + n /\ m + n <= Len(runs) /\ m + n \in 0 .. Len(runs)
    BY <1>1, <1>4, <2>1
  <2> HIDE DEF l
  <2>3. PICK rest \in Seq(V) : first(m + n) = first(m) \o rest
    BY <1>4, <2>2
  <2>4. first(l) = first(m + n) \o Encode(runs[l])
    BY <2>2, EncodedNext
  <2>5. Encode(runs[l]) \in Seq(V)
    <3>1. runs[l] \in RunSet(Nat)
      BY <2>2
    <3> QED
      BY <3>1, EncodeType
  <2>6. first(m) \in Seq(V)
    BY <1>2
  <2>7. first(l) = first(m) \o (rest \o Encode(runs[l])) /\ rest \o Encode(runs[l]) \in Seq(V)
    <3> DEFINE r == first(m)
               t == Encode(runs[l])
               q == first(l)
    <3>1. q = (r \o rest) \o t /\ r \in Seq(V) /\ t \in Seq(V)
      BY <2>3, <2>4, <2>5, <2>6
    <3> HIDE DEF r, t, q, V
    <3>2. (r \o rest) \o t = r \o (rest \o t) /\ rest \o t \in Seq(V)
      BY <3>1, JoinAssociates
    <3> QED
      BY <3>1, <3>2 DEF r, t, q
  <2> QED
    BY <2>7 DEF l
<1> HIDE DEF Leads
<1>5. \A n \in Nat : Leads(n)
  <2>1. 0 \in T /\ \A n \in Nat : n \in T => n + 1 \in T
    BY <1>3, <1>4
  <2> HIDE DEF T
  <2>2. Nat \subseteq T
    BY <2>1, Induction
  <2> QED
    BY <2>2 DEF T
<1> DEFINE d == Len(runs) - m
<1>6. d \in Nat /\ m + d = Len(runs)
  BY <1>1
<1> HIDE DEF d
<1>7. \E rest \in Seq(V) : first(m + d) = first(m) \o rest
  <2>1. Leads(d) /\ m + d <= Len(runs)
    BY <1>1, <1>5, <1>6
  <2> QED
    BY <2>1 DEF Leads
<1>8. first(m + d) = Encoded(runs)
  <2>1. SubSeq(runs, 1, Len(runs)) = runs
    OBVIOUS
  <2> QED
    BY <1>6, <2>1
<1>9. first(m) \in Seq(V)
  BY <1>2
<1> DEFINE s == first(m)
           t == Encoded(runs)
<1> HIDE DEF first, V
<1>10. PICK rest \in Seq(V) : s \in Seq(V) /\ t = s \o rest
  BY <1>7, <1>8, <1>9
<1> HIDE DEF s, t
<1>11. Len(s) <= Len(t) /\ SubSeq(s, 1, Len(s)) = SubSeq(t, 1, Len(s))
  <2>1. /\ Len(t) = Len(s) + Len(rest) /\ Len(s) \in Nat /\ Len(rest) \in Nat /\ t \in Seq(V)
        /\ \A i \in 1 .. Len(s) : t[i] = s[i]
    BY <1>10, ConcatAt
  <2> QED
    BY <1>10, <2>1
<1> QED
  BY <1>11 DEF IsPrefix, s, t, first

-----------------------------------------------------------------------------
(* The triples of all the chunks.                                          *)
AllTriples == [c \in AllChunks |-> Triples(currents[c], nexts[c])]

(* What the proof needs of the streams that merge is given.                *)
StreamsGiven ==
  LET T == AllTriples
  IN  /\ TotalChunks \in Nat \ {0} /\ AllChunks = 0 .. TotalChunks - 1 /\ DOMAIN T = AllChunks
      /\ TripleLists(T)
      /\ \A c \in AllChunks :
           /\ IsStream(currents[c]) /\ IsStream(nexts[c]) /\ ~ StreamsDisagree(currents[c], nexts[c])
           /\ T[c] = Triples(currents[c], nexts[c]) /\ Len(T[c]) \in Nat
           /\ \A i, j \in 1 .. Len(T[c]) :
                i < j => Less(ElementOf(T, <<c, i>>), ElementOf(T, <<c, j>>))
      /\ \E c \in AllChunks : Len(T[c]) # 0

(* A list that grows from each of its triples to the next grows throughout.*)
LEMMA TriplesGrow ==
  ASSUME NEW T, NEW c, NEW n \in Nat, n = Len(T[c]), \A j \in 1 .. n : ElementOf(T, <<c, j>>) \in Elements,
         \A j \in 2 .. n :
           \/ T[c][j - 1].current < T[c][j].current
           \/ T[c][j - 1].current = T[c][j].current /\ T[c][j - 1].next < T[c][j].next
  PROVE  \A i, j \in 1 .. n : i < j => Less(ElementOf(T, <<c, i>>), ElementOf(T, <<c, j>>))
<1> DEFINE E(j) == ElementOf(T, <<c, j>>)
           Grows(d) == \A i \in 1 .. n : i + d \in 1 .. n /\ d # 0 => Less(E(i), E(i + d))
           D == {d \in Nat : Grows(d)}
<1>1. ASSUME NEW i \in 1 .. n, i + 1 \in 1 .. n PROVE Less(E(i), E(i + 1))
  <2> DEFINE j == i + 1
  <2>1. j \in 2 .. n /\ j - 1 = i
    BY <1>1
  <2> HIDE DEF j
  <2>2. \/ T[c][i].current < T[c][j].current
        \/ T[c][i].current = T[c][j].current /\ T[c][i].next < T[c][j].next
    BY <2>1
  <2>3. Less(E(i), E(j))
    BY <2>2 DEF Less, ElementOf
  <2> QED
    BY <2>3 DEF j
<1>2. ASSUME NEW d \in Nat, Grows(d) PROVE Grows(d + 1)
  <2>1. SUFFICES ASSUME NEW i \in 1 .. n, i + (d + 1) \in 1 .. n PROVE Less(E(i), E(i + (d + 1)))
    OBVIOUS
  <2> DEFINE j == i + d
  <2>2. j \in 1 .. n /\ j + 1 \in 1 .. n /\ j + 1 = i + (d + 1) /\ j + 1 = (i + d) + 1
    BY <2>1
  <2>3. d # 0 => Less(E(i), E(j))
    BY <1>2, <2>2
  <2>4. d = 0 => j = i
    OBVIOUS
  <2> HIDE DEF j
  <2>5. Less(E(j), E(j + 1))
    BY <1>1, <2>2
  <2> DEFINE a == E(i)
             b == E(j)
             e == E(j + 1)
  <2>6. a \in Elements /\ b \in Elements /\ e \in Elements
    BY <2>2
  <2> HIDE DEF a, b, e, E
  <2>7. Less(a, e)
    <3>1. Less(b, e) /\ (d # 0 => Less(a, b)) /\ (d = 0 => a = b)
      BY <2>3, <2>4, <2>5 DEF a, b, e
    <3> QED
      BY <2>6, <3>1, LessOrder
  <2> QED
    BY <2>2, <2>7 DEF a, e
<1>3. Grows(0)
  OBVIOUS
<1> HIDE DEF Grows
<1>4. \A d \in Nat : Grows(d)
  <2>1. 0 \in D /\ \A d \in Nat : d \in D => d + 1 \in D
    BY <1>2, <1>3
  <2> HIDE DEF D
  <2>2. Nat \subseteq D
    BY <2>1, Induction
  <2> QED
    BY <2>2 DEF D
<1>5. ASSUME NEW i \in 1 .. n, NEW j \in 1 .. n, i < j PROVE Less(E(i), E(j))
  <2> DEFINE d == j - i
  <2>1. d \in Nat /\ d # 0 /\ i + d = j
    BY <1>5
  <2> HIDE DEF d, E
  <2>2. Less(E(i), E(i + d))
    BY <1>4, <2>1 DEF Grows
  <2> QED
    BY <2>1, <2>2
<1> QED
  BY <1>5

(* Every pair of inputs is one of this kind.                               *)
LEMMA GivenStreams ==
  ASSUME Mergeable(currents, nexts)
  PROVE  StreamsGiven
<1> DEFINE T == AllTriples
<1>1. /\ IsFiniteSet(AllChunks) /\ AllChunks = 0 .. TotalChunks - 1
      /\ \A c \in AllChunks :
           /\ currents[c] \in Seq([rank : Nat, count : Nat \ {0}])
           /\ nexts[c] \in Seq([rank : Nat, count : Nat \ {0}])
           /\ ~ StreamsDisagree(currents[c], nexts[c])
           /\ \A j \in 2 .. Len(Triples(currents[c], nexts[c])) :
                \/ Triples(currents[c], nexts[c])[j - 1].current < Triples(currents[c], nexts[c])[j].current
                \/ /\ Triples(currents[c], nexts[c])[j - 1].current = Triples(currents[c], nexts[c])[j].current
                   /\ Triples(currents[c], nexts[c])[j - 1].next < Triples(currents[c], nexts[c])[j].next
      /\ \E c \in AllChunks : nexts[c] # <<>>
  BY DEF Mergeable, AllChunks, TotalChunks
<1>2. TotalChunks \in Nat \ {0}
  <2>1. TotalChunks \in Nat
    BY <1>1, FS_CardinalityType DEF TotalChunks
  <2>2. AllChunks # {}
    BY <1>1
  <2> QED
    BY <1>1, <2>1, <2>2
<1>3. DOMAIN T = AllChunks /\ \A c \in AllChunks : T[c] = Triples(currents[c], nexts[c])
  BY DEF AllTriples
<1> HIDE DEF T
<1>4. ASSUME NEW c \in AllChunks PROVE IsStream(currents[c]) /\ IsStream(nexts[c])
  <2>1. \A s \in Seq([rank : Nat, count : Nat \ {0}]) : IsStream(s)
    <3>1. SUFFICES ASSUME NEW s \in Seq([rank : Nat, count : Nat \ {0}]) PROVE IsStream(s)
      OBVIOUS
    <3>2. \A j \in 1 .. Len(s) : s[j] \in [rank : Nat, count : Nat \ {0}]
      <4> DEFINE V == [rank : Nat, count : Nat \ {0}]
      <4>1. s \in Seq(V)
        OBVIOUS
      <4> HIDE DEF V
      <4>2. \A j \in 1 .. Len(s) : s[j] \in V
        BY <4>1
      <4> QED
        BY <4>2 DEF V
    <3>3. \A j \in 1 .. Len(s) : s[j] \in RunSet(Nat) /\ s[j].count # 0
      BY <3>2 DEF RunSet
    <3>4. s \in Seq(RunSet(Nat))
      <4>1. s = [j \in 1 .. Len(s) |-> s[j]] /\ Len(s) \in Nat
        OBVIOUS
      <4> QED
        BY <3>3, <4>1
    <3> QED
      BY <3>3, <3>4 DEF IsStream
  <2> QED
    BY <1>1, <2>1
<1>5. ASSUME NEW c \in AllChunks
      PROVE  /\ T[c] \in Seq(TripleSet) /\ Len(T[c]) \in Nat
             /\ \A j \in 1 .. Len(T[c]) : T[c][j].count # 0
             /\ nexts[c] # <<>> => Len(T[c]) # 0
  <2> DEFINE cur == currents[c]
             nxt == nexts[c]
             tr == T[c]
             st == TripleCut(tr)
  <2>1. /\ cur \in Seq(RunSet(Nat)) /\ nxt \in Seq(RunSet(Nat)) /\ ~ StreamsDisagree(cur, nxt)
        /\ \A j \in 1 .. Len(nxt) : nxt[j].count # 0
    BY <1>1, <1>4 DEF IsStream
  <2>2. tr = Triples(cur, nxt) /\ st = TripleCut(tr)
    BY <1>3
  <2> HIDE DEF cur, nxt, tr, st
  <2>3. Follows(tr, st, cur, nxt)
    BY <2>1, <2>2, TriplesWalk
  <2>4. /\ tr \in Seq(TripleSet) /\ Len(tr) \in Nat /\ st[1] = 1 /\ st[Len(tr) + 1] = Len(Slots(nxt)) + 1
        /\ Len(Slots(nxt)) \in Nat /\ \A k \in 1 .. Len(tr) : tr[k].count # 0
    BY <2>3 DEF Follows
  <2>5. ASSUME nxt # <<>> PROVE Len(Slots(nxt)) # 0
    <3> DEFINE cut == RunCut(nxt)
    <3>1. Len(nxt) \in Nat /\ 1 \in 1 .. Len(nxt)
      BY <2>1, <2>5
    <3>2. cut = RunCut(nxt)
      OBVIOUS
    <3> HIDE DEF cut
    <3>3. /\ Len(Slots(nxt)) = cut[Len(nxt) + 1] - 1
          /\ Width(nxt[1]) \in Nat \ {0} /\ cut[1 + 1] = cut[1] + Width(nxt[1])
          /\ cut[1] \in Nat /\ 1 <= cut[1] /\ cut[1 + 1] <= cut[Len(nxt) + 1] /\ cut[Len(nxt) + 1] \in Nat
      <4>1. 1 \in 1 .. Len(nxt) + 1 /\ Len(nxt) + 1 \in 1 .. Len(nxt) + 1
        BY <3>1
      <4>2. /\ Len(Slots(nxt)) = cut[Len(nxt) + 1] - 1
            /\ \A j \in 1 .. Len(nxt) + 1 : cut[j] \in Nat /\ 1 <= cut[j] /\ cut[j] <= cut[Len(nxt) + 1]
            /\ \A j \in 1 .. Len(nxt) :
                 /\ Width(nxt[j]) \in Nat \ {0} /\ cut[j + 1] = cut[j] + Width(nxt[j])
                 /\ cut[j + 1] <= cut[Len(nxt) + 1]
        BY <2>1, <3>2, RunCutAt, SMTT(30)
      <4> QED
        BY <3>1, <4>1, <4>2
    <3> QED
      BY <3>3
  <2>6. nxt # <<>> => Len(tr) # 0
    BY <2>4, <2>5
  <2> QED
    BY <2>4, <2>6 DEF tr, nxt
<1>6. TripleLists(T)
  BY <1>1, <1>2, <1>3, <1>5 DEF TripleLists
<1>7. ASSUME NEW c \in AllChunks
      PROVE  \A i, j \in 1 .. Len(T[c]) : i < j => Less(ElementOf(T, <<c, i>>), ElementOf(T, <<c, j>>))
  <2> DEFINE n == Len(T[c])
  <2>1. n \in Nat /\ n = Len(T[c])
    BY <1>5
  <2>2. \A j \in 1 .. n : ElementOf(T, <<c, j>>) \in Elements
    BY <1>3, <1>6, IdType
  <2>3. \A j \in 2 .. n :
          \/ T[c][j - 1].current < T[c][j].current
          \/ T[c][j - 1].current = T[c][j].current /\ T[c][j - 1].next < T[c][j].next
    BY <1>1, <1>3
  <2> HIDE DEF n
  <2>4. \A i, j \in 1 .. n : i < j => Less(ElementOf(T, <<c, i>>), ElementOf(T, <<c, j>>))
    BY <2>1, <2>2, <2>3, TriplesGrow
  <2> QED
    BY <2>4 DEF n
<1> QED
  BY <1>1, <1>2, <1>3, <1>4, <1>5, <1>6, <1>7 DEF StreamsGiven, T

-----------------------------------------------------------------------------
(* The runs a chunk is to be given, and how many of them are written: one  *)
(* for each of its triples that has left the heap, but the very last one   *)
(* waits for its successor.                                                *)
RightRuns(c) == Resolved(AllTriples)[c]

RunsWritten(popped, c) ==
  IF heap # <<>> /\ last # None /\ last.chunk = c THEN popped[c] - 1 ELSE popped[c]

(* How many triples have been taken from a chunk's streams: one more than  *)
(* have left the heap, once the chunk has come in and while it has any.    *)
Taking(popped, c) ==
  IF c < chunk /\ popped[c] < Len(AllTriples[c]) THEN popped[c] + 1 ELSE popped[c]

(* The triples that have left the heap, and those in it.                   *)
Gone(popped) == {x \in TripleIds(AllTriples) : x[2] <= popped[x[1]]}

Ahead(popped) == {x \in TripleIds(AllTriples) : x[1] < chunk /\ x[2] = popped[x[1]] + 1}

-----------------------------------------------------------------------------
Counted(popped) ==
  /\ popped \in [AllChunks -> Nat]
  /\ \A c \in AllChunks : popped[c] <= Len(AllTriples[c]) /\ (c < chunk \/ popped[c] = 0)

ChunkInv(popped, c) ==
  /\ Standing(buffers[c], currents[c], nexts[c], Taking(popped, c))
  /\ Put(buffers[c].nexts) = Encoded(SubSeq(RightRuns(c), 1, RunsWritten(popped, c)))

HeapInv(popped) ==
  /\ heap \in Seq(Elements) /\ IsHeap(heap) /\ OfDistinctChunks(heap)
  /\ Len(heap) <= chunk
  /\ Range(heap) = {ElementOf(AllTriples, x) : x \in Ahead(popped)}

Unread(b) == b.pos = 0 /\ b.len = 0

PhaseInv(popped) ==
  /\ pc \in {"setup", "fill", "merge", "done"}
  /\ pc = "setup" =>
       chunk = 0 /\ \A c \in AllChunks : Unread(buffers[c].nexts) /\ Unread(buffers[c].currents)
  /\ pc \in {"setup", "fill"} => last = None /\ \A c \in AllChunks : popped[c] = 0
  /\ pc \in {"merge", "done"} => chunk = TotalChunks
  /\ pc = "done" => heap = <<>> /\ \A c \in AllChunks : buffers[c].nexts.out = resolved[c]

At(popped) ==
  /\ Counted(popped)
  /\ \A c \in AllChunks : ChunkInv(popped, c)
  /\ HeapInv(popped)
  /\ Known(AllTriples, Gone(popped))
  /\ PhaseInv(popped)

(* The inductive invariant: popped[c] of each chunk's triples have left    *)
(* the heap, the next of every chunk that has one is in it, and all that   *)
(* left has been ranked.                                                   *)
IInv ==
  /\ Mergeable(currents, nexts)
  /\ resolved = [c \in AllChunks |-> Encoded(RightRuns(c))]
  /\ DOMAIN buffers = AllChunks
  /\ chunk \in 0 .. TotalChunks
  /\ updated_rank \in Nat /\ pair_count \in Nat
  /\ \E popped : At(popped)

-----------------------------------------------------------------------------
(* A resolved triple is a run.                                             *)
LEMMA RunOfType ==
  ASSUME NEW T, TripleLists(T), NEW x \in TripleIds(T)
  PROVE  RunOf(T, T[x[1]][x[2]]) \in RunSet(Nat)
<1> DEFINE t == T[x[1]][x[2]]
           n == Total(T, GroupBefore(T, t))
<1>1. t.current \in Nat /\ t.count \in Nat
  BY IdType
<1>2. GroupBefore(T, t) \in SUBSET TripleIds(T)
  BY DEF GroupBefore
<1> HIDE DEF t
<1>3. n \in Nat
  BY <1>2, TotalType
<1>4. RunOf(T, t).rank = t.current + n /\ RunOf(T, t).count \in {0, t.count}
      /\ RunOf(T, t) = [rank |-> RunOf(T, t).rank, count |-> RunOf(T, t).count]
  BY DEF RunOf, Total
<1> HIDE DEF n
<1> DEFINE r == RunOf(T, t)
<1> HIDE DEF r
<1>5. r.rank \in Nat /\ r.count \in Nat /\ r = [rank |-> r.rank, count |-> r.count]
  BY <1>1, <1>3, <1>4 DEF r
<1>6. r \in RunSet(Nat)
  BY <1>5 DEF RunSet
<1> QED
  BY <1>6 DEF r, t

(* The right runs of a chunk are those of its triples, in order.           *)
LEMMA RightRunsAt ==
  ASSUME StreamsGiven, NEW c \in AllChunks
  PROVE  /\ RightRuns(c) \in Seq(RunSet(Nat))
         /\ Len(RightRuns(c)) = Len(AllTriples[c])
         /\ \A j \in 1 .. Len(AllTriples[c]) :
              RightRuns(c)[j] = RunOf(AllTriples, AllTriples[c][j])
<1> DEFINE T == AllTriples
           n == Len(T[c])
<1>1. TripleLists(T) /\ DOMAIN T = AllChunks /\ n \in Nat /\ T[c] \in Seq(TripleSet)
  BY DEF StreamsGiven, TripleLists
<1>2. RightRuns(c) = [j \in 1 .. n |-> RunOf(T, T[c][j])]
  <2>1. DOMAIN T[c] = 1 .. n
    BY <1>1
  <2> QED
    BY <1>1, <2>1 DEF RightRuns, Resolved
<1>3. ASSUME NEW j \in 1 .. n PROVE RunOf(T, T[c][j]) \in RunSet(Nat)
  <2>1. <<c, j>> \in TripleIds(T)
    BY <1>1, IdType
  <2> DEFINE x == <<c, j>>
  <2>2. x[1] = c /\ x[2] = j
    OBVIOUS
  <2> HIDE DEF x, T
  <2>3. RunOf(T, T[x[1]][x[2]]) \in RunSet(Nat)
    BY <1>1, <2>1, RunOfType DEF x
  <2> QED
    BY <2>2, <2>3
<1> HIDE DEF T, n
<1>4. RightRuns(c) \in Seq(RunSet(Nat)) /\ Len(RightRuns(c)) = n
  BY <1>1, <1>2, <1>3
<1> QED
  BY <1>2, <1>4 DEF T, n

(* No runs, no records.                                                    *)
LEMMA NothingEncoded ==
  ASSUME NEW runs \in Seq(RunSet(Nat))
  PROVE  Encoded(SubSeq(runs, 1, 0)) = <<>>
<1> DEFINE r == SubSeq(runs, 1, 0)
           st == RecordCut(r)
<1>1. r \in Seq(RunSet(Nat)) /\ Len(r) = 0 /\ st = RecordCut(r)
  OBVIOUS
<1> HIDE DEF r, st
<1>2. Encoded(r) \in Seq(RunSet(Nat)) /\ Len(Encoded(r)) = st[Len(r) + 1] - 1 /\ st[1] = 1
  BY <1>1, EncodedAt DEF Cuts
<1>3. Len(Encoded(r)) = 0
  BY <1>1, <1>2
<1> QED
  BY <1>2, <1>3 DEF r

(* A buffer just opened has read nothing.                                  *)
LEMMA OpenedSound ==
  ASSUME NEW runs \in Seq(RunSet(Nat)), NEW n \in Nat \ {0}, NEW b, b = Opened(Encoded(runs), n)
  PROVE  Given(b, runs, 0) /\ Put(b) = <<>> /\ b.out_pos = 0 /\ Unread(b)
<1> DEFINE f == Encoded(runs)
           st == RecordCut(runs)
<1>1. f \in Seq(RunSet(Nat)) /\ st[1] = 1 /\ Len(runs) \in Nat
  BY EncodedAt DEF Cuts
<1>2. f \in Seq(B!Slots) /\ <<>> \in Seq(B!Slots) /\ <<>> \in B!Slots /\ Len(f) \in Nat
  <2> HIDE DEF f
  <2> QED
    BY <1>1 DEF B!Slots
<1> HIDE DEF f, st
<1>3. /\ b.file = f /\ b.capacity = n /\ b.buf = [i \in 0 .. n - 1 |-> <<>>] /\ b.out = <<>>
      /\ b.pos = 0 /\ b.len = 0 /\ b.filepos = 0 /\ b.out_pos = 0
  BY DEF Opened, f
<1>4. B!BufferType(b)
  BY <1>2, <1>3 DEF B!BufferType
<1>5. B!BufferInv(b, 0)
  BY <1>2, <1>3, <1>4 DEF B!BufferInv
<1>6. Given(b, runs, 0)
  BY <1>1, <1>3, <1>5 DEF Given, f, st
<1>7. Put(b) = <<>>
  BY <1>3, <1>4, B!NoOverlay DEF Put
<1> QED
  BY <1>3, <1>6, <1>7 DEF Unread

(* merge starts in its invariant.                                          *)
LEMMA InitIInv == Init => IInv
<1> SUFFICES ASSUME Init PROVE IInv
  OBVIOUS
<1>1. PICK input \in Inputs, n \in CurCapacities :
        /\ currents = input.currents
        /\ nexts = input.nexts
        /\ buffers = [c \in AllChunks |->
             [nexts |-> Opened(Encoded(nexts[c]), 2 * n),
              currents |-> Opened(Encoded(currents[c]), n),
              cursor |-> [cur_rank |-> 0, cur_rem |-> 0, next_rank |-> 0, next_rem |-> 0]]]
  BY DEF Init
<1>2. /\ resolved = [c \in AllChunks |-> Encoded(RightRuns(c))]
      /\ heap = <<>> /\ last = None /\ updated_rank = 0 /\ pair_count = 0
      /\ pc = "setup" /\ chunk = 0
  BY DEF Init, RightRuns, AllTriples
<1>3. Mergeable(currents, nexts)
  BY <1>1, InputsAssumption
<1>4. StreamsGiven
  BY <1>3, GivenStreams
<1>5. n \in Nat \ {0} /\ 2 * n \in Nat \ {0}
  <2>1. n \in Nat \ {0}
    BY <1>1, CapacitiesAssumption
  <2> QED
    BY <2>1
<1>6. PICK popped : popped = [c \in AllChunks |-> 0]
  OBVIOUS
<1>7. TotalChunks \in Nat /\ \A c \in AllChunks : c \in Nat /\ Len(AllTriples[c]) \in Nat
  BY <1>4 DEF StreamsGiven
<1>8. Counted(popped)
  BY <1>6, <1>7 DEF Counted
<1>9. ASSUME NEW c \in AllChunks
      PROVE  ChunkInv(popped, c) /\ Unread(buffers[c].nexts) /\ Unread(buffers[c].currents)
  <2> DEFINE cur == currents[c]
             nxt == nexts[c]
             tr == AllTriples[c]
             st == TripleCut(tr)
             b == buffers[c]
  <2>1. /\ cur \in Seq(RunSet(Nat)) /\ nxt \in Seq(RunSet(Nat)) /\ ~ StreamsDisagree(cur, nxt)
        /\ tr = Triples(cur, nxt) /\ st = TripleCut(tr)
    BY <1>4 DEF StreamsGiven, IsStream
  <2>2. b = [nexts |-> Opened(Encoded(nxt), 2 * n), currents |-> Opened(Encoded(cur), n),
             cursor |-> [cur_rank |-> 0, cur_rem |-> 0, next_rank |-> 0, next_rem |-> 0]]
    BY <1>1
  <2>3. Taking(popped, c) = 0 /\ RunsWritten(popped, c) = 0
    BY <1>2, <1>6, <1>7 DEF Taking, RunsWritten
  <2>4. Put(b.nexts) = Encoded(SubSeq(RightRuns(c), 1, 0))
    <3>1. Put(Opened(Encoded(nxt), 2 * n)) = <<>>
      BY <1>5, <2>1, OpenedSound
    <3>2. Encoded(SubSeq(RightRuns(c), 1, 0)) = <<>>
      BY <1>4, RightRunsAt, NothingEncoded
    <3> QED
      BY <2>2, <3>1, <3>2
  <2> HIDE DEF cur, nxt, tr, st, b
  <2>5. st[1] = 1
    <3>1. Follows(tr, st, cur, nxt)
      BY <2>1, TriplesWalk
    <3> QED
      BY <3>1 DEF Follows
  <2>6. /\ RunCut(cur)[1] = 1 /\ RunCut(nxt)[1] = 1
        /\ Len(cur) \in Nat /\ Len(nxt) \in Nat
    BY <2>1, RunCutAt DEF Cuts
  <2> DEFINE x == Opened(Encoded(nxt), 2 * n)
             y == Opened(Encoded(cur), n)
  <2>7. Given(x, nxt, 0) /\ Given(y, cur, 0) /\ y.out_pos = 0 /\ Unread(x) /\ Unread(y)
    BY <1>5, <2>1, OpenedSound
  <2>8. b.nexts = x /\ b.currents = y
        /\ b.cursor = [cur_rank |-> 0, cur_rem |-> 0, next_rank |-> 0, next_rem |-> 0]
        /\ b = [nexts |-> b.nexts, currents |-> b.currents, cursor |-> b.cursor]
    BY <2>2
  <2> HIDE DEF x, y
  <2>9. Walks(x, nxt, 0, 0, 0) /\ Walks(y, cur, 0, 0, 0)
    <3>1. 0 \in 0 .. Len(nxt) /\ 0 \in 0 .. Len(cur)
      BY <2>6
    <3> QED
      BY <2>6, <2>7, <3>1 DEF Walks
  <2>10. Standing(b, cur, nxt, 0)
    <3>1. TripleCut(Triples(cur, nxt))[0 + 1] - 1 = 0
      BY <2>1, <2>5
    <3> HIDE DEF Walks
    <3> QED
      BY <2>7, <2>8, <2>9, <3>1 DEF Standing
  <2> QED
    BY <2>3, <2>4, <2>7, <2>8, <2>10 DEF ChunkInv, cur, nxt, b
<1>10. Ahead(popped) = {} /\ Gone(popped) = {}
  <2>1. \A x \in TripleIds(AllTriples) : x[1] \in AllChunks /\ x[2] \in Nat /\ 1 <= x[2]
    <3>1. \A x \in TripleIds(AllTriples) : x[1] \in DOMAIN AllTriples /\ x[2] \in 1 .. Len(AllTriples[x[1]])
      BY <1>4, IdType DEF StreamsGiven
    <3> QED
      BY <1>4, <3>1 DEF StreamsGiven
  <2>2. Ahead(popped) = {}
    BY <1>2, <1>7, <2>1 DEF Ahead
  <2>3. Gone(popped) = {}
    BY <1>6, <2>1 DEF Gone
  <2> QED
    BY <2>2, <2>3
<1>11. HeapInv(popped)
  <2>1. heap \in Seq(Elements) /\ Len(heap) = 0
    BY <1>2
  <2>2. Range(heap) = {}
    BY <1>2 DEF Range
  <2>3. IsHeap(heap) /\ OfDistinctChunks(heap)
    BY <1>2 DEF IsHeap, OfDistinctChunks
  <2> QED
    BY <1>2, <1>10, <2>1, <2>2, <2>3 DEF HeapInv
<1>12. Known(AllTriples, Gone(popped))
  BY <1>2, <1>10 DEF Known
<1>13. PhaseInv(popped)
  BY <1>2, <1>6, <1>9 DEF PhaseInv
<1>14. DOMAIN buffers = AllChunks /\ chunk \in 0 .. TotalChunks
  BY <1>1, <1>2, <1>7
<1>15. At(popped)
  BY <1>8, <1>9, <1>11, <1>12, <1>13 DEF At
<1> QED
  BY <1>2, <1>3, <1>14, <1>15 DEF IInv

-----------------------------------------------------------------------------
(* What is in the heap, or has left it.                                    *)
LEMMA HeapElement ==
  ASSUME StreamsGiven, NEW popped, HeapInv(popped), NEW t \in Range(heap)
  PROVE  /\ IsElement(t)
         /\ \E x \in Ahead(popped) : t = ElementOf(AllTriples, x) /\ x \in TripleIds(AllTriples)
<1>1. PICK x \in Ahead(popped) : t = ElementOf(AllTriples, x)
  BY DEF HeapInv
<1>2. x \in TripleIds(AllTriples)
  BY DEF Ahead
<1>3. IsElement(t)
  BY <1>1, <1>2, IdType DEF StreamsGiven, IsElement, ElementOf
<1> QED
  BY <1>1, <1>2, <1>3

(* What was popped last is an element.                                     *)
LEMMA LastElement ==
  ASSUME StreamsGiven, NEW popped, Known(AllTriples, Gone(popped)), last # None
  PROVE  IsElement(last)
<1>1. PICK x \in Gone(popped) : last = ElementOf(AllTriples, x)
  BY DEF Known
<1>2. x \in TripleIds(AllTriples)
  BY DEF Gone
<1> QED
  BY <1>1, <1>2, IdType DEF StreamsGiven, IsElement, ElementOf

(* The invariant has the types in it.                                      *)
LEMMA TypeOKHolds == IInv => TypeOK
<1> SUFFICES ASSUME IInv PROVE TypeOK
  OBVIOUS
<1>1. StreamsGiven
  BY GivenStreams DEF IInv
<1>2. PICK popped : At(popped)
  BY DEF IInv
<1>3. ASSUME NEW c \in AllChunks
      PROVE  /\ buffers[c].nexts.pos \in -1 .. buffers[c].nexts.len
             /\ buffers[c].nexts.out_pos \in 0 .. buffers[c].nexts.capacity
             /\ buffers[c].currents.pos \in -1 .. buffers[c].currents.len
             /\ buffers[c].currents.out_pos = 0
             /\ buffers[c].cursor.cur_rem \in Nat /\ buffers[c].cursor.next_rem \in Nat
  <2> DEFINE b == buffers[c]
             cur == currents[c]
             nxt == nexts[c]
             k == Taking(popped, c)
  <2>1. Standing(b, cur, nxt, k)
    BY <1>2 DEF At, ChunkInv
  <2> HIDE DEF b, cur, nxt, k
  <2>2. /\ \E n \in Nat : B!BufferInv(b.nexts, n)
        /\ \E n \in Nat : B!BufferInv(b.currents, n)
        /\ b.cursor.cur_rem \in Nat /\ b.cursor.next_rem \in Nat
    BY <2>1, StandingBuffer
  <2>3. b.currents.out_pos = 0
    BY <2>1 DEF Standing
  <2>4. B!BufferType(b.nexts) /\ B!BufferType(b.currents)
    BY <2>2 DEF B!BufferInv
  <2> QED
    BY <2>2, <2>3, <2>4 DEF B!BufferType, b
<1>4. \A t \in Range(heap) : IsElement(t)
  BY <1>1, <1>2, HeapElement DEF At
<1>5. last = None \/ IsElement(last)
  BY <1>1, <1>2, LastElement DEF At
<1> QED
  BY <1>2, <1>3, <1>4, <1>5 DEF TypeOK, IInv, At, PhaseInv

(* What has been written is the start of what is right.                    *)
LEMMA WrittenIsResolvedHolds == IInv => WrittenIsResolved
<1> SUFFICES ASSUME IInv, NEW c \in AllChunks PROVE IsPrefix(Written(c), resolved[c])
  BY DEF WrittenIsResolved
<1>1. StreamsGiven
  BY GivenStreams DEF IInv
<1>2. PICK popped : At(popped)
  BY DEF IInv
<1> DEFINE runs == RightRuns(c)
           m == RunsWritten(popped, c)
<1>3. Written(c) = Encoded(SubSeq(runs, 1, m))
  BY <1>2, SameBuffer DEF At, ChunkInv, Written, Put, B!Output
<1>4. resolved[c] = Encoded(runs)
  BY DEF IInv
<1>5. runs \in Seq(RunSet(Nat)) /\ Len(runs) = Len(AllTriples[c]) /\ Len(runs) \in Nat
  BY <1>1, RightRunsAt DEF StreamsGiven
<1>6. m \in 0 .. Len(runs)
  <2>1. popped[c] \in Nat /\ popped[c] <= Len(runs)
    BY <1>2, <1>5 DEF At, Counted
  <2>2. ASSUME heap # <<>>, last # None, last.chunk = c PROVE popped[c] # 0
    <3>1. PICK x \in Gone(popped) : last = ElementOf(AllTriples, x)
      BY <1>2, <2>2 DEF At, Known
    <3>2. x[1] = c /\ x[2] \in Nat /\ 1 <= x[2] /\ x[2] <= popped[x[1]]
      <4>1. x \in TripleIds(AllTriples) /\ x[2] <= popped[x[1]]
        BY DEF Gone
      <4>2. x[1] \in DOMAIN AllTriples /\ x[2] \in 1 .. Len(AllTriples[x[1]])
        BY <1>1, <4>1, IdType DEF StreamsGiven
      <4>3. x[1] = c
        BY <2>2, <3>1 DEF ElementOf
      <4> QED
        BY <1>1, <4>1, <4>2, <4>3 DEF StreamsGiven
    <3> QED
      BY <3>2
  <2> QED
    BY <1>5, <2>1, <2>2 DEF RunsWritten
<1> HIDE DEF runs, m
<1>7. IsPrefix(Encoded(SubSeq(runs, 1, m)), Encoded(runs))
  BY <1>5, <1>6, EncodedPrefix
<1> QED
  BY <1>3, <1>4, <1>7

(* The invariant has the other properties in it.                           *)
LEMMA InvariantsHold == IInv => NeverFails /\ HeapIsSound /\ DoneIsComplete
<1> SUFFICES ASSUME IInv PROVE NeverFails /\ HeapIsSound /\ DoneIsComplete
  OBVIOUS
<1>1. PICK popped : At(popped)
  BY DEF IInv
<1>2. NeverFails
  BY <1>1 DEF At, PhaseInv, NeverFails
<1>3. HeapIsSound
  BY <1>1 DEF At, HeapInv, HeapIsSound, OfDistinctChunks
<1>4. DoneIsComplete
  BY <1>1 DEF At, PhaseInv, DoneIsComplete
<1> QED
  BY <1>2, <1>3, <1>4

-----------------------------------------------------------------------------
(* The streams stay what they are.                                         *)
LEMMA InputsStay ==
  ASSUME UNCHANGED inputs
  PROVE  /\ currents' = currents /\ nexts' = nexts /\ resolved' = resolved
         /\ AllChunks' = AllChunks /\ TotalChunks' = TotalChunks /\ AllTriples' = AllTriples
         /\ \A c : RightRuns(c)' = RightRuns(c)
  BY DEF inputs, AllChunks, TotalChunks, AllTriples, RightRuns

(* The first read of a buffer.                                             *)
LEMMA FirstRefill ==
  ASSUME NEW runs, NEW j, NEW b, Given(b, runs, j), Unread(b)
  PROVE  /\ Given(Refill(b), runs, j)
         /\ Put(Refill(b)) = Put(b)
         /\ b.out_pos = 0 => Refill(b).out_pos = 0
<1> DEFINE n == RecordCut(runs)[j + 1] - 1
<1>1. b.file = Encoded(runs) /\ B!BufferInv(b, n) /\ j \in 0 .. Len(runs) /\ (j # 0 => b.pos # 0)
  BY DEF Given
<1> HIDE DEF n
<1>2. n \in Nat
  BY <1>1 DEF B!BufferInv, B!BufferType
<1>3. b.pos = b.len /\ j = 0
  BY <1>1 DEF Unread
<1>4. B!BufferInv(Refill(b), n) /\ Refill(b).file = b.file /\ Put(Refill(b)) = Put(b)
  BY <1>1, <1>2, <1>3, B!RefillKeeps, SameBuffer DEF Put
<1>5. Given(Refill(b), runs, j)
  BY <1>1, <1>3, <1>4 DEF Given, n
<1> QED
  BY <1>4, <1>5, StaysUnwritten

(* init_merge's first loop keeps the invariant: the first refills.         *)
LEMMA FillBuffersKeeps == IInv /\ FillBuffers => IInv'
<1> SUFFICES ASSUME IInv, FillBuffers PROVE IInv'
  OBVIOUS
<1>1. /\ pc = "setup" /\ pc' = "fill" /\ UNCHANGED inputs
      /\ heap' = heap /\ last' = last /\ updated_rank' = updated_rank /\ pair_count' = pair_count
      /\ chunk' = chunk
      /\ DOMAIN buffers' = AllChunks
      /\ \A c \in AllChunks :
           buffers'[c] = [buffers[c] EXCEPT !.nexts = Refill(@), !.currents = Refill(@)]
  BY DEF FillBuffers
<1>2. PICK p : At(p)
  BY DEF IInv
<1>3. /\ \A c \in AllChunks : Unread(buffers[c].nexts) /\ Unread(buffers[c].currents)
      /\ last = None /\ \A c \in AllChunks : p[c] = 0
  BY <1>1, <1>2 DEF At, PhaseInv
<1>4. ASSUME NEW c \in AllChunks PROVE ChunkInv(p, c)'
  <2> DEFINE b == buffers[c]
             cur == currents[c]
             nxt == nexts[c]
             k == Taking(p, c)
             e == TripleCut(Triples(cur, nxt))[k + 1] - 1
             a == [b EXCEPT !.nexts = Refill(@), !.currents = Refill(@)]
  <2>1. Standing(b, cur, nxt, k) /\ Put(b.nexts) = Encoded(SubSeq(RightRuns(c), 1, RunsWritten(p, c)))
    BY <1>2 DEF At, ChunkInv
  <2>2. Unread(b.nexts) /\ Unread(b.currents)
    BY <1>3
  <2>3. k = 0
    <3>1. chunk = 0
      BY <1>1, <1>2 DEF At, PhaseInv
    <3>2. StreamsGiven
      BY GivenStreams DEF IInv
    <3>3. c \in Nat
      BY <3>2 DEF StreamsGiven
    <3> QED
      BY <1>3, <3>1, <3>3 DEF Taking
  <2> HIDE DEF b, cur, nxt, k, e
  <2>4. /\ b = [nexts |-> b.nexts, currents |-> b.currents, cursor |-> b.cursor]
        /\ Walks(b.nexts, nxt, b.cursor.next_rank, b.cursor.next_rem, e)
        /\ Walks(b.currents, cur, b.cursor.cur_rank, b.cursor.cur_rem, e)
        /\ b.currents.out_pos = 0
    BY <2>1 DEF Standing, e
  <2>5. a = [nexts |-> Refill(b.nexts), currents |-> Refill(b.currents), cursor |-> b.cursor]
    <3>1. a = [b EXCEPT !.nexts = Refill(b.nexts), !.currents = Refill(b.currents)]
      OBVIOUS
    <3> DEFINE v == Refill(b.nexts)
               w == Refill(b.currents)
    <3> HIDE DEF v, w, a
    <3>2. a = [b EXCEPT !.nexts = v, !.currents = w]
      BY <3>1 DEF v, w
    <3>3. a = [nexts |-> v, currents |-> w, cursor |-> b.cursor]
      BY <2>4, <3>2
    <3> QED
      BY <3>3 DEF v, w
  <2>6. \A runs, j : /\ Given(b.nexts, runs, j) => Given(Refill(b.nexts), runs, j) /\ Put(Refill(b.nexts)) = Put(b.nexts)
                     /\ Given(b.currents, runs, j) =>
                          Given(Refill(b.currents), runs, j) /\ Refill(b.currents).out_pos = 0
    BY <2>2, <2>4, FirstRefill
  <2>7. /\ Walks(Refill(b.nexts), nxt, b.cursor.next_rank, b.cursor.next_rem, e)
        /\ Put(Refill(b.nexts)) = Put(b.nexts)
        /\ Walks(Refill(b.currents), cur, b.cursor.cur_rank, b.cursor.cur_rem, e)
        /\ Refill(b.currents).out_pos = 0
    BY <2>4, <2>6 DEF Walks
  <2> DEFINE x == Refill(b.nexts)
             y == Refill(b.currents)
  <2>8. a = [nexts |-> x, currents |-> y, cursor |-> b.cursor] /\ a.nexts = x /\ a.currents = y /\ a.cursor = b.cursor
    BY <2>5
  <2> HIDE DEF x, y, a
  <2>9. Standing(a, cur, nxt, k)
    BY <2>3, <2>7, <2>8 DEF Standing, e, x, y
  <2>10. Put(a.nexts) = Put(b.nexts)
    BY <2>7, <2>8 DEF x
  <2>11. buffers'[c] = a
    BY <1>1 DEF a, b
  <2>12. Taking(p, c)' = k /\ RunsWritten(p, c)' = RunsWritten(p, c) /\ RightRuns(c)' = RightRuns(c)
         /\ currents'[c] = cur /\ nexts'[c] = nxt
    BY <1>1, InputsStay DEF Taking, RunsWritten, k, cur, nxt
  <2> QED
    BY <2>1, <2>9, <2>10, <2>11, <2>12 DEF ChunkInv
<1>5. /\ AllChunks' = AllChunks /\ AllTriples' = AllTriples /\ TotalChunks' = TotalChunks
      /\ currents' = currents /\ nexts' = nexts /\ resolved' = resolved
      /\ \A c : RightRuns(c)' = RightRuns(c)
  BY <1>1, InputsStay
<1>6. Counted(p)' /\ HeapInv(p)' /\ Known(AllTriples, Gone(p))' /\ PhaseInv(p)'
  <2>1. Counted(p) /\ HeapInv(p) /\ Known(AllTriples, Gone(p))
    BY <1>2 DEF At
  <2>2. Counted(p)'
    BY <1>1, <1>5, <2>1 DEF Counted
  <2>3. HeapInv(p)'
    BY <1>1, <1>5, <2>1 DEF HeapInv, Ahead
  <2>4. Known(AllTriples, Gone(p))'
    BY <1>1, <1>5, <2>1 DEF Known, Gone
  <2>5. PhaseInv(p)'
    BY <1>1, <1>3, <1>5 DEF PhaseInv
  <2> QED
    BY <2>2, <2>3, <2>4, <2>5
<1>7. At(p)'
  BY <1>4, <1>5, <1>6 DEF At
<1>8. /\ Mergeable(currents, nexts)' /\ chunk' \in 0 .. TotalChunks' /\ DOMAIN buffers' = AllChunks'
      /\ updated_rank' \in Nat /\ pair_count' \in Nat
      /\ resolved' = [c \in AllChunks' |-> Encoded(RightRuns(c)')]
  BY <1>1, <1>5 DEF IInv
<1> QED
  BY <1>7, <1>8 DEF IInv

(* Nothing changes the invariant but the variables.                        *)
LEMMA StutterKeeps == IInv /\ UNCHANGED vars => IInv'
<1> SUFFICES ASSUME IInv, UNCHANGED vars PROVE IInv'
  OBVIOUS
<1>1. /\ UNCHANGED inputs
      /\ buffers' = buffers /\ heap' = heap /\ last' = last /\ updated_rank' = updated_rank
      /\ pair_count' = pair_count /\ pc' = pc /\ chunk' = chunk
  BY DEF vars
<1>2. /\ AllChunks' = AllChunks /\ AllTriples' = AllTriples /\ TotalChunks' = TotalChunks
      /\ currents' = currents /\ nexts' = nexts /\ resolved' = resolved
      /\ \A c : RightRuns(c)' = RightRuns(c)
  BY <1>1, InputsStay
<1>3. ASSUME NEW p, At(p) PROVE At(p)'
  <2>1. ASSUME NEW c \in AllChunks PROVE ChunkInv(p, c)'
    BY <1>1, <1>2, <1>3 DEF At, ChunkInv, Taking, RunsWritten
  <2>2. Counted(p)'
    BY <1>1, <1>2, <1>3 DEF At, Counted
  <2>3. HeapInv(p)'
    BY <1>1, <1>2, <1>3 DEF At, HeapInv, Ahead
  <2>4. Known(AllTriples, Gone(p))'
    BY <1>1, <1>2, <1>3 DEF At, Known, Gone
  <2>5. PhaseInv(p)'
    BY <1>1, <1>2, <1>3 DEF At, PhaseInv
  <2> QED
    BY <1>2, <2>1, <2>2, <2>3, <2>4, <2>5 DEF At
<1> QED
  BY <1>1, <1>2, <1>3 DEF IInv

(* While the heap is filled, a chunk with a triple gives its first.        *)
LEMMA EndFillKeeps == IInv /\ EndFill => IInv'
<1> SUFFICES ASSUME IInv, EndFill PROVE IInv'
  OBVIOUS
<1>1. /\ pc = "fill" /\ chunk = TotalChunks /\ UNCHANGED inputs
      /\ pc' = IF heap = <<>> THEN "failed" ELSE "merge"
      /\ buffers' = buffers /\ heap' = heap /\ last' = last /\ updated_rank' = updated_rank
      /\ pair_count' = pair_count /\ chunk' = chunk
  BY DEF EndFill
<1>2. /\ AllChunks' = AllChunks /\ AllTriples' = AllTriples /\ TotalChunks' = TotalChunks
      /\ currents' = currents /\ nexts' = nexts /\ resolved' = resolved
      /\ \A c : RightRuns(c)' = RightRuns(c)
  BY <1>1, InputsStay
<1>3. PICK p : At(p)
  BY DEF IInv
<1>4. StreamsGiven
  BY GivenStreams DEF IInv
<1>5. pc' = "merge"
  <2>1. PICK c \in AllChunks : Len(AllTriples[c]) # 0
    BY <1>4 DEF StreamsGiven
  <2> DEFINE x == <<c, 1>>
  <2>2. c < chunk /\ p[c] = 0
    <3>1. p[c] = 0
      BY <1>1, <1>3 DEF At, PhaseInv
    <3>2. c < chunk
      BY <1>1, <1>4 DEF StreamsGiven
    <3> QED
      BY <3>1, <3>2
  <2>3. x \in TripleIds(AllTriples)
    <3>1. TripleLists(AllTriples) /\ c \in DOMAIN AllTriples /\ 1 \in 1 .. Len(AllTriples[c])
      BY <1>4, <2>1 DEF StreamsGiven
    <3> QED
      BY <3>1, IdType
  <2>4. x[1] = c /\ x[2] = 1
    OBVIOUS
  <2> HIDE DEF x
  <2>5. x \in Ahead(p)
    BY <2>2, <2>3, <2>4 DEF Ahead
  <2>6. ElementOf(AllTriples, x) \in Range(heap)
    BY <1>3, <2>5 DEF At, HeapInv
  <2>7. heap # <<>>
    BY <2>6 DEF Range
  <2> QED
    BY <1>1, <2>7
<1>6. ASSUME NEW c \in AllChunks PROVE ChunkInv(p, c)'
  BY <1>1, <1>2, <1>3 DEF At, ChunkInv, Taking, RunsWritten
<1>7. Counted(p)' /\ HeapInv(p)' /\ Known(AllTriples, Gone(p))' /\ PhaseInv(p)'
  <2>1. Counted(p)'
    BY <1>1, <1>2, <1>3 DEF At, Counted
  <2>2. HeapInv(p)'
    BY <1>1, <1>2, <1>3 DEF At, HeapInv, Ahead
  <2>3. Known(AllTriples, Gone(p))'
    BY <1>1, <1>2, <1>3 DEF At, Known, Gone
  <2>4. PhaseInv(p)'
    BY <1>1, <1>2, <1>5 DEF PhaseInv
  <2> QED
    BY <2>1, <2>2, <2>3, <2>4
<1>8. At(p)'
  BY <1>2, <1>6, <1>7 DEF At
<1> QED
  BY <1>1, <1>2, <1>8 DEF IInv

(* init_merge's turn for a chunk: it never fails, and its first triple, if *)
(* it has one, is in the heap with those of the chunks before.             *)
LEMMA FillHeapKeeps == IInv /\ FillHeap => IInv'
<1> SUFFICES ASSUME IInv, FillHeap PROVE IInv'
  OBVIOUS
<1>1. PICK d : d = chunk
  OBVIOUS
<1>2. PICK t : t = NextTriplet(buffers[d], d)
  OBVIOUS
<1>3. PICK p : At(p)
  BY DEF IInv
<1>4. StreamsGiven
  BY GivenStreams DEF IInv
<1>5. /\ pc = "fill" /\ d < TotalChunks /\ UNCHANGED inputs
      /\ buffers' = [buffers EXCEPT ![d] = t.buffers]
      /\ t.result # "FAILURE" /\ ~ (t.result = "SUCCESS" /\ Len(heap) = TotalChunks) =>
           /\ heap' = IF t.result = "SUCCESS" THEN Insert(heap, t.element) ELSE heap
           /\ chunk' = d + 1
           /\ pc' = pc
      /\ last' = last /\ updated_rank' = updated_rank /\ pair_count' = pair_count
  BY <1>1, <1>2 DEF FillHeap
<1>6. /\ AllChunks' = AllChunks /\ AllTriples' = AllTriples /\ TotalChunks' = TotalChunks
      /\ currents' = currents /\ nexts' = nexts /\ resolved' = resolved
      /\ \A c : RightRuns(c)' = RightRuns(c)
  BY <1>5, InputsStay
<1> DEFINE T == AllTriples
           cur == currents[d]
           nxt == nexts[d]
           tr == Triples(cur, nxt)
<1>7. /\ d \in AllChunks /\ d \in Nat /\ TotalChunks \in Nat /\ AllChunks = 0 .. TotalChunks - 1
      /\ T[d] = tr /\ Len(tr) \in Nat /\ TripleLists(T) /\ DOMAIN T = AllChunks
      /\ IsStream(cur) /\ IsStream(nxt) /\ ~ StreamsDisagree(cur, nxt)
  <2>1. d \in 0 .. TotalChunks /\ TotalChunks \in Nat /\ AllChunks = 0 .. TotalChunks - 1
    BY <1>1, <1>4 DEF IInv, StreamsGiven
  <2>2. d \in AllChunks /\ d \in Nat
    BY <1>5, <2>1
  <2> QED
    BY <1>4, <2>1, <2>2 DEF StreamsGiven
<1>8. /\ last = None /\ \A c \in AllChunks : p[c] = 0
      /\ p \in [AllChunks -> Nat]
  BY <1>3, <1>5 DEF At, PhaseInv, Counted
<1>9. /\ Standing(buffers[d], cur, nxt, 0)
      /\ Put(buffers[d].nexts) = Encoded(SubSeq(RightRuns(d), 1, 0))
  <2>1. Taking(p, d) = 0 /\ RunsWritten(p, d) = 0
    BY <1>1, <1>7, <1>8 DEF Taking, RunsWritten
  <2> QED
    BY <1>3, <1>7, <2>1 DEF At, ChunkInv
<1>10. /\ Put(t.buffers.nexts) = Put(buffers[d].nexts)
       /\ 0 = Len(tr) => t.result = "EMPTY" /\ Standing(t.buffers, cur, nxt, 0)
       /\ 0 # Len(tr) =>
            /\ t.result = "SUCCESS"
            /\ t.element = [current |-> tr[0 + 1].current, next |-> tr[0 + 1].next,
                            count |-> tr[0 + 1].count, chunk |-> d]
            /\ Standing(t.buffers, cur, nxt, 0 + 1)
  <2> HIDE DEF cur, nxt
  <2>1. tr = Triples(cur, nxt) /\ 0 \in 0 .. Len(tr)
    BY <1>7
  <2> HIDE DEF tr
  <2> QED
    BY <1>2, <1>7, <1>9, <2>1, NextTripletSound
<1> HIDE DEF cur, nxt, tr
<1>11. Len(heap) <= d /\ Len(heap) \in Nat
  BY <1>1, <1>3 DEF At, HeapInv
<1>12. /\ heap' = IF Len(tr) # 0 THEN Insert(heap, t.element) ELSE heap
       /\ chunk' = d + 1 /\ pc' = pc
  BY <1>5, <1>7, <1>10, <1>11
<1>13. Counted(p)'
  BY <1>3, <1>1, <1>6, <1>7, <1>8, <1>12 DEF At, Counted
<1>14. ASSUME NEW c \in AllChunks PROVE ChunkInv(p, c)'
  <2>1. RunsWritten(p, c)' = RunsWritten(p, c) /\ RunsWritten(p, c) = 0
    BY <1>5, <1>8 DEF RunsWritten
  <2>2. CASE c # d
    <3>1. buffers'[c] = buffers[c]
      BY <1>5, <2>2
    <3>2. Taking(p, c)' = Taking(p, c)
      BY <1>1, <1>6, <1>7, <1>12, <2>2 DEF Taking
    <3> QED
      BY <1>3, <1>6, <2>1, <3>1, <3>2 DEF At, ChunkInv
  <2>3. CASE c = d
    <3>1. buffers'[d] = t.buffers
      BY <1>5, <1>7 DEF IInv
    <3>2. Taking(p, d)' = IF Len(tr) # 0 THEN 1 ELSE 0
      BY <1>6, <1>7, <1>8, <1>12 DEF Taking
    <3>3. Standing(t.buffers, cur, nxt, Taking(p, d)')
      BY <1>10, <3>2
    <3>4. currents'[d] = cur /\ nxt = nexts'[d]
      BY <1>6 DEF cur, nxt
    <3> QED
      BY <1>6, <1>9, <1>10, <2>1, <2>3, <3>1, <3>3, <3>4 DEF ChunkInv
  <2> QED
    BY <2>2, <2>3
<1>15. HeapInv(p)'
  <2>1. /\ heap \in Seq(Elements) /\ IsHeap(heap) /\ OfDistinctChunks(heap)
        /\ Range(heap) = {ElementOf(T, x) : x \in Ahead(p)}
    BY <1>3 DEF At, HeapInv
  <2>2. \A x \in TripleIds(T) : /\ x = <<x[1], x[2]>> /\ x[1] \in AllChunks /\ x[1] \in Nat
                                /\ x[2] \in 1 .. Len(T[x[1]]) /\ x[2] \in Nat
    BY <1>7, IdType
  <2>3. \A x \in TripleIds(T) : x[1] < d + 1 <=> x[1] < d \/ x[1] = d
    BY <1>7, <2>2
  <2>4. CASE Len(tr) = 0
    <3>1. Ahead(p)' = Ahead(p)
      <4>1. \A x \in TripleIds(T) : x[1] # d
        BY <1>7, <2>2, <2>4
      <4> QED
        BY <1>1, <1>6, <1>12, <2>3, <4>1 DEF Ahead
    <3> QED
      BY <1>6, <1>7, <1>11, <1>12, <2>1, <2>4, <3>1 DEF HeapInv
  <2>5. CASE Len(tr) # 0
    <3> DEFINE y == <<d, 1>>
               e == ElementOf(T, y)
    <3>1. y[1] = d /\ y[2] = 1 /\ y \in TripleIds(T)
      <4>1. 1 \in 1 .. Len(T[d])
        BY <1>7, <2>5
      <4> QED
        BY <1>7, <4>1, IdType
    <3>2. \A x : x = <<d, 1>> => x = y
      OBVIOUS
    <3> HIDE DEF y
    <3>3. e \in Elements /\ e.chunk = d
      BY <1>7, <3>1, IdType DEF ElementOf
    <3>4. t.element = e
      BY <1>7, <1>10, <2>5, <3>1 DEF ElementOf
    <3>5. Ahead(p)' = Ahead(p) \cup {y}
      <4>1. \A x \in TripleIds(T) : x[1] = d /\ x[2] = p[x[1]] + 1 <=> x = y
        <5>1. \A x \in TripleIds(T) : x[1] = d /\ x[2] = 1 => x = y
          BY <2>2, <3>2
        <5> QED
          BY <1>7, <1>8, <3>1, <5>1
      <4>2. Ahead(p)' = {x \in TripleIds(T) : x[1] < d + 1 /\ x[2] = p[x[1]] + 1}
        BY <1>6, <1>12 DEF Ahead
      <4>3. Ahead(p) = {x \in TripleIds(T) : x[1] < d /\ x[2] = p[x[1]] + 1}
        BY <1>1 DEF Ahead
      <4> QED
        BY <2>3, <3>1, <4>1, <4>2, <4>3
    <3>6. \A z \in Range(heap) : z.chunk # e.chunk
      <4>1. SUFFICES ASSUME NEW x \in Ahead(p) PROVE ElementOf(T, x).chunk # e.chunk
        BY <2>1
      <4>2. x[1] \in Nat /\ x[1] < d
        BY <1>1, <2>2 DEF Ahead
      <4> QED
        BY <1>7, <3>3, <4>2 DEF ElementOf
    <3> HIDE DEF e
    <3>7. /\ Insert(heap, e) \in Seq(Elements) /\ Len(Insert(heap, e)) = Len(heap) + 1
          /\ IsHeap(Insert(heap, e)) /\ OfDistinctChunks(Insert(heap, e))
          /\ Range(Insert(heap, e)) = Range(heap) \cup {e}
      BY <2>1, <3>3, <3>6, InsertRange
    <3>8. heap' = Insert(heap, e)
      BY <1>12, <2>5, <3>4
    <3>9. Range(heap') = {ElementOf(T, x) : x \in Ahead(p)'}
      BY <2>1, <3>5, <3>7, <3>8 DEF e
    <3>10. Len(heap') <= chunk'
      BY <1>7, <1>11, <1>12, <3>7, <3>8
    <3> QED
      BY <1>6, <3>7, <3>8, <3>9, <3>10 DEF HeapInv
  <2> QED
    BY <2>4, <2>5
<1>16. Known(AllTriples, Gone(p))'
  BY <1>3, <1>5, <1>6 DEF At, Known, Gone
<1>17. PhaseInv(p)'
  BY <1>5, <1>6, <1>8, <1>12 DEF PhaseInv
<1>18. At(p)'
  BY <1>6, <1>13, <1>14, <1>15, <1>16, <1>17 DEF At
<1>19. chunk' \in 0 .. TotalChunks' /\ DOMAIN buffers' = AllChunks'
  <2>1. DOMAIN buffers' = AllChunks'
    BY <1>5, <1>6 DEF IInv
  <2> QED
    BY <1>5, <1>6, <1>7, <1>12, <2>1
<1> QED
  BY <1>5, <1>6, <1>18, <1>19 DEF IInv

-----------------------------------------------------------------------------
(* x is on top of the heap: of all that has not left it, or is not even    *)
(* read yet, it comes first.                                               *)
OnTop(popped, x) ==
  /\ x \in Ahead(popped) /\ heap[1] = ElementOf(AllTriples, x)
  /\ \A z \in TripleIds(AllTriples) \ Gone(popped) :
       z = x \/ Less(heap[1], ElementOf(AllTriples, z))

(* An index of a triple, and the order of a chunk's triples.               *)
LEMMA GivenId ==
  ASSUME StreamsGiven, NEW x \in TripleIds(AllTriples)
  PROVE  /\ x = <<x[1], x[2]>> /\ x[1] \in AllChunks /\ x[1] \in Nat
         /\ x[2] \in 1 .. Len(AllTriples[x[1]]) /\ x[2] \in Nat /\ 1 <= x[2]
         /\ ElementOf(AllTriples, x) \in Elements /\ ElementOf(AllTriples, x).chunk = x[1]
         /\ \A z \in TripleIds(AllTriples) :
              x[1] = z[1] =>
                /\ x[2] = z[2] => x = z
                /\ x[2] < z[2] => Less(ElementOf(AllTriples, x), ElementOf(AllTriples, z))
<1> DEFINE T == AllTriples
<1>1. \A z \in TripleIds(T) :
        z = <<z[1], z[2]>> /\ z[1] \in AllChunks /\ z[2] \in 1 .. Len(T[z[1]]) /\ ElementOf(T, z) \in Elements
  BY IdType DEF StreamsGiven
<1>2. x[1] \in Nat /\ Len(T[x[1]]) \in Nat
  BY <1>1 DEF StreamsGiven
<1>3. ElementOf(T, x).chunk = x[1]
  BY DEF ElementOf
<1>4. ASSUME NEW z \in TripleIds(T), x[1] = z[1]
      PROVE  (x[2] = z[2] => x = z) /\ (x[2] < z[2] => Less(ElementOf(T, x), ElementOf(T, z)))
  <2>1. x[2] = z[2] => x = z
    BY <1>1, <1>4
  <2>2. \A i, j \in 1 .. Len(T[x[1]]) : i < j => Less(ElementOf(T, <<x[1], i>>), ElementOf(T, <<x[1], j>>))
    BY <1>1 DEF StreamsGiven
  <2>3. x = <<x[1], x[2]>> /\ z = <<x[1], z[2]>> /\ x[2] \in 1 .. Len(T[x[1]]) /\ z[2] \in 1 .. Len(T[x[1]])
    BY <1>1, <1>4
  <2>4. ASSUME x[2] < z[2] PROVE Less(ElementOf(T, x), ElementOf(T, z))
    <3>1. PICK i \in 1 .. Len(T[x[1]]), j \in 1 .. Len(T[x[1]]) : i = x[2] /\ j = z[2]
      BY <2>3
    <3>2. Less(ElementOf(T, <<x[1], i>>), ElementOf(T, <<x[1], j>>))
      BY <2>2, <2>4, <3>1
    <3> QED
      BY <2>3, <3>1, <3>2
  <2> QED
    BY <2>1, <2>4
<1> QED
  BY <1>1, <1>2, <1>3, <1>4

(* The top of the heap is the smallest of the triples not yet popped.      *)
LEMMA TopOfHeap ==
  ASSUME StreamsGiven, NEW p, Counted(p), HeapInv(p), chunk = TotalChunks, heap # <<>>
  PROVE  \E x : OnTop(p, x)
<1> DEFINE T == AllTriples
           s == heap[1]
           E(z) == ElementOf(T, z)
<1>1. /\ heap \in Seq(Elements) /\ IsHeap(heap) /\ OfDistinctChunks(heap)
      /\ Range(heap) = {E(x) : x \in Ahead(p)}
      /\ 1 \in 1 .. Len(heap) /\ Len(heap) \in Nat /\ DOMAIN heap = 1 .. Len(heap)
  BY DEF HeapInv
<1>2. s \in Range(heap)
  BY <1>1 DEF Range
<1>3. PICK x \in Ahead(p) : s = E(x)
  BY <1>1, <1>2
<1>4. x \in TripleIds(T) /\ x[2] = p[x[1]] + 1
  BY DEF Ahead
<1>5. ASSUME NEW z \in TripleIds(T) \ Gone(p) PROVE z = x \/ Less(s, E(z))
  <2> DEFINE c == z[1]
             y == <<c, p[c] + 1>>
  <2>1. c \in AllChunks /\ c < chunk /\ p[c] \in Nat /\ z[2] \in 1 .. Len(T[c]) /\ Len(T[c]) \in Nat
    <3>1. c \in AllChunks /\ z[2] \in 1 .. Len(T[c])
      BY GivenId
    <3> QED
      BY <3>1 DEF StreamsGiven, Counted
  <2>2. ~ z[2] <= p[c]
    BY DEF Gone
  <2>3. y \in TripleIds(T)
    <3>1. p[c] + 1 \in 1 .. Len(T[c])
      BY <2>1, <2>2
    <3>2. TripleLists(T) /\ c \in DOMAIN T
      BY <2>1 DEF StreamsGiven
    <3> HIDE DEF c
    <3> QED
      BY <3>1, <3>2, IdType
  <2>4. y[1] = c /\ y[2] = p[c] + 1
    OBVIOUS
  <2> HIDE DEF y
  <2>5. y \in Ahead(p)
    BY <2>1, <2>3, <2>4 DEF Ahead
  <2>6. z = y \/ Less(E(y), E(z))
    <3>1. z[2] = y[2] \/ y[2] < z[2]
      BY <2>1, <2>2, <2>4
    <3> HIDE DEF E
    <3> QED
      BY <2>3, <2>4, <3>1, GivenId DEF E
  <2>7. y = x \/ Less(s, E(y))
    <3>1. E(y) \in Range(heap)
      BY <1>1, <2>5
    <3>2. PICK j \in 1 .. Len(heap) : heap[j] = E(y)
      BY <1>1, <3>1 DEF Range
    <3>3. CASE j = 1
      <4>1. E(y) = E(x)
        BY <1>3, <3>2, <3>3
      <4>2. x[1] = y[1] /\ x[2] = y[2]
        <5>1. E(y).chunk = y[1] /\ E(x).chunk = x[1]
          BY DEF ElementOf
        <5>2. x[1] = y[1]
          BY <4>1, <5>1
        <5> QED
          BY <1>4, <2>4, <5>2
      <4> QED
        BY <1>4, <2>3, <4>2, GivenId
    <3>4. CASE j # 1
      <4>1. j \in 2 .. Len(heap)
        BY <1>1, <3>4
      <4> QED
        BY <1>1, <3>2, <4>1, RootLeast
    <3> QED
      BY <3>3, <3>4
  <2>8. s \in Elements /\ E(y) \in Elements /\ E(z) \in Elements
    BY <1>3, <1>4, <2>3, GivenId
  <2> HIDE DEF E, s
  <2>9. CASE y = x
    BY <1>3, <2>6, <2>9
  <2>10. CASE z = y
    BY <2>7, <2>10
  <2>11. CASE Less(s, E(y)) /\ Less(E(y), E(z))
    <3> DEFINE a == E(y)
               b == E(z)
    <3> HIDE DEF a, b
    <3>1. Less(s, a) /\ Less(a, b) /\ s \in Elements /\ a \in Elements /\ b \in Elements
      BY <2>8, <2>11 DEF a, b
    <3>2. Less(s, b)
      BY <3>1, LessOrder
    <3> QED
      BY <3>2 DEF b
  <2> QED
    BY <2>6, <2>7, <2>9, <2>10, <2>11
<1> QED
  BY <1>3, <1>5 DEF OnTop

(* The triple that left the heap last is the last of its chunk to have.    *)
LastOut(popped, y) ==
  /\ y \in Gone(popped) /\ last = ElementOf(AllTriples, y)
  /\ Ranked(AllTriples, Gone(popped), y, updated_rank, pair_count)
  /\ y[2] = popped[y[1]]

(* last is the triple popped last, and the last of its chunk to go.        *)
LEMMA LastToLeave ==
  ASSUME StreamsGiven, NEW p, Counted(p), Known(AllTriples, Gone(p)), last # None
  PROVE  \E y : LastOut(p, y)
<1> DEFINE T == AllTriples
<1>1. PICK y \in Gone(p) : last = ElementOf(T, y) /\ Ranked(T, Gone(p), y, updated_rank, pair_count)
  BY DEF Known
<1>2. y \in TripleIds(T) /\ y[2] <= p[y[1]]
  BY DEF Gone
<1> DEFINE c == y[1]
           z == <<c, p[c]>>
<1>3. c \in AllChunks /\ p[c] \in Nat /\ p[c] <= Len(T[c]) /\ y[2] \in Nat /\ 1 <= y[2] /\ Len(T[c]) \in Nat
  <2>1. c \in AllChunks /\ y[2] \in Nat /\ 1 <= y[2]
    BY <1>2, GivenId
  <2> QED
    BY <2>1 DEF Counted, StreamsGiven
<1>4. z \in TripleIds(T)
  <2>1. p[c] \in 1 .. Len(T[c])
    BY <1>2, <1>3
  <2>2. TripleLists(T) /\ c \in DOMAIN T
    BY <1>3 DEF StreamsGiven
  <2> HIDE DEF c
  <2> QED
    BY <2>1, <2>2, IdType
<1>5. z[1] = c /\ z[2] = p[c]
  OBVIOUS
<1> HIDE DEF z
<1>6. z \in Gone(p)
  BY <1>3, <1>4, <1>5 DEF Gone
<1>7. y[2] = p[c]
  <2>1. SUFFICES ASSUME y[2] # p[c] PROVE FALSE
    OBVIOUS
  <2> DEFINE a == ElementOf(T, y)
             b == ElementOf(T, z)
  <2>2. Less(a, b)
    <3>1. y[2] < z[2] /\ y[1] = z[1]
      BY <1>2, <1>3, <1>5, <2>1
    <3> QED
      BY <1>2, <1>4, <3>1, GivenId
  <2>3. z = y \/ Less(b, a)
    BY <1>1, <1>6 DEF Ranked
  <2>4. a \in Elements /\ b \in Elements /\ z # y
    BY <1>2, <1>4, <1>5, <2>1, GivenId
  <2> HIDE DEF a, b
  <2> QED
    BY <2>2, <2>3, <2>4, LessOrder
<1> QED
  BY <1>1, <1>7 DEF LastOut

-----------------------------------------------------------------------------
(* x has left the heap and the next of its chunk, if there is one, follows.*)
Follower(p, q, x) ==
  \A z \in TripleIds(AllTriples) :
    z \in Ahead(q) <=> \/ z \in Ahead(p) /\ z # x
                       \/ z[1] = x[1] /\ z[2] = x[2] + 1

(* One more triple of a chunk leaves the heap.                             *)
LEMMA OneMoreGone ==
  ASSUME StreamsGiven, NEW p, Counted(p), NEW x \in Ahead(p), NEW q, q = [p EXCEPT ![x[1]] = x[2]]
  PROVE  /\ x \in TripleIds(AllTriples) \ Gone(p) /\ x[2] = p[x[1]] + 1 /\ x[1] < chunk
         /\ Counted(q) /\ Gone(q) = Gone(p) \cup {x}
         /\ Follower(p, q, x)
<1> DEFINE T == AllTriples
           Ids == TripleIds(T)
<1>1. x \in Ids /\ x[2] = p[x[1]] + 1 /\ x[1] < chunk
  BY DEF Ahead
<1>2. /\ p \in [AllChunks -> Nat]
      /\ \A c \in AllChunks : p[c] \in Nat /\ p[c] <= Len(T[c]) /\ (c < chunk \/ p[c] = 0)
  BY DEF Counted
<1>3. x[1] \in AllChunks /\ x[2] \in Nat /\ x[2] \in 1 .. Len(T[x[1]])
  BY <1>1, GivenId
<1>4. /\ q \in [AllChunks -> Nat] /\ q[x[1]] = x[2] /\ \A c \in AllChunks : c # x[1] => q[c] = p[c]
  BY <1>2, <1>3
<1>5. x \notin Gone(p)
  BY <1>1, <1>2, <1>3 DEF Gone
<1>6. Counted(q)
  <2>1. ASSUME NEW c \in AllChunks PROVE q[c] <= Len(T[c]) /\ (c < chunk \/ q[c] = 0)
    <3>1. CASE c = x[1]
      <4>1. x[2] <= Len(T[x[1]])
        BY <1>3 DEF StreamsGiven
      <4> QED
        BY <1>1, <1>4, <3>1, <4>1
    <3>2. CASE c # x[1]
      BY <1>2, <1>4, <3>2
    <3> QED
      BY <3>1, <3>2
  <2> QED
    BY <1>4, <2>1 DEF Counted
<1>7. ASSUME NEW z \in Ids
      PROVE  /\ z \in Gone(q) <=> z \in Gone(p) \/ z = x
             /\ z \in Ahead(q) <=> \/ z \in Ahead(p) /\ z # x
                                   \/ z[1] = x[1] /\ z[2] = x[2] + 1
  <2>1. /\ z[1] \in AllChunks /\ z[2] \in Nat /\ (z[1] = x[1] /\ z[2] = x[2] => z = x)
    BY <1>1, GivenId
  <2>2. p[z[1]] \in Nat
    BY <1>2, <2>1
  <2>3. z \in Gone(p) <=> z[2] <= p[z[1]]
    BY DEF Gone
  <2>4. z \in Gone(q) <=> z[2] <= q[z[1]]
    BY DEF Gone
  <2>5. z \in Ahead(p) <=> z[1] < chunk /\ z[2] = p[z[1]] + 1
    BY DEF Ahead
  <2>6. z \in Ahead(q) <=> z[1] < chunk /\ z[2] = q[z[1]] + 1
    BY DEF Ahead
  <2>7. CASE z[1] = x[1]
    <3>1. p[z[1]] + 1 = x[2] /\ q[z[1]] = x[2] /\ z[1] < chunk
      BY <1>1, <1>4, <2>7
    <3>2. z = x <=> z[2] = x[2]
      BY <2>1, <2>7
    <3>3. z[2] <= x[2] <=> z[2] <= p[z[1]] \/ z[2] = x[2]
      BY <2>1, <2>2, <3>1
    <3> QED
      BY <2>3, <2>4, <2>5, <2>6, <2>7, <3>1, <3>2, <3>3
  <2>8. CASE z[1] # x[1]
    <3>1. q[z[1]] = p[z[1]] /\ z # x
      BY <1>4, <2>1, <2>8
    <3> QED
      BY <2>3, <2>4, <2>5, <2>6, <2>8, <3>1
  <2> QED
    BY <2>7, <2>8
<1>8. Gone(q) = Gone(p) \cup {x}
  <2>1. Gone(q) \subseteq Ids /\ Gone(p) \subseteq Ids
    BY DEF Gone
  <2> QED
    BY <1>1, <1>7, <2>1
<1> QED
  BY <1>1, <1>5, <1>6, <1>7, <1>8 DEF Follower

(* The heap after a turn of merge_runs.                                    *)
HeapFor(h, popped) ==
  /\ h \in Seq(Elements) /\ IsHeap(h) /\ OfDistinctChunks(h) /\ Len(h) <= Len(heap)
  /\ Range(h) = {ElementOf(AllTriples, z) : z \in Ahead(popped)}

(* The heap after a turn holds the first triple of each chunk again.       *)
LEMMA HeapAfter ==
  ASSUME StreamsGiven, NEW p, Counted(p), HeapInv(p), heap # <<>>,
         NEW x, OnTop(p, x), NEW q, q = [p EXCEPT ![x[1]] = x[2]],
         NEW e, x[2] < Len(AllTriples[x[1]]) => e = ElementOf(AllTriples, <<x[1], x[2] + 1>>),
         NEW h, h = IF x[2] < Len(AllTriples[x[1]]) THEN ReplaceTop(heap, e) ELSE PopTop(heap)
  PROVE  HeapFor(h, q)
<1> DEFINE T == AllTriples
           E(z) == ElementOf(T, z)
           s == heap[1]
<1>1. /\ heap \in Seq(Elements) /\ IsHeap(heap) /\ OfDistinctChunks(heap)
      /\ Range(heap) = {E(z) : z \in Ahead(p)} /\ Len(heap) # 0 /\ Len(heap) \in Nat
  BY DEF HeapInv
<1>2. x \in Ahead(p) /\ s = E(x)
  BY DEF OnTop
<1>3. /\ x \in TripleIds(T)
      /\ \A z \in TripleIds(T) :
           z \in Ahead(q) <=> \/ z \in Ahead(p) /\ z # x
                              \/ z[1] = x[1] /\ z[2] = x[2] + 1
  <2>1. x \in TripleIds(T) /\ Follower(p, q, x)
    BY <1>2, OneMoreGone
  <2> QED
    BY <2>1 DEF Follower
<1>4. Ahead(q) \subseteq TripleIds(T) /\ Ahead(p) \subseteq TripleIds(T)
  BY DEF Ahead
<1>5. x[1] \in AllChunks /\ x[2] \in Nat /\ x[2] \in 1 .. Len(T[x[1]]) /\ Len(T[x[1]]) \in Nat
  <2>1. x[1] \in AllChunks /\ x[2] \in Nat /\ x[2] \in 1 .. Len(T[x[1]])
    BY <1>3, GivenId
  <2> QED
    BY <2>1 DEF StreamsGiven
<1>6. Range(heap) \ {s} = {E(z) : z \in Ahead(p) \ {x}}
  <2>1. ASSUME NEW z \in Ahead(p), E(z) = s PROVE z = x
    <3>1. z[1] = x[1]
      BY <1>2, <2>1 DEF ElementOf
    <3>2. z[2] = p[z[1]] + 1 /\ x[2] = p[x[1]] + 1
      BY <1>2 DEF Ahead
    <3> QED
      BY <1>3, <1>4, <3>1, <3>2, GivenId
  <2> HIDE DEF E, s
  <2> QED
    BY <1>1, <1>2, <2>1
<1>7. CASE x[2] < Len(T[x[1]])
  <2> DEFINE y == <<x[1], x[2] + 1>>
  <2>1. y[1] = x[1] /\ y[2] = x[2] + 1 /\ y \in TripleIds(T)
    <3>1. x[2] + 1 \in 1 .. Len(T[x[1]]) /\ x[1] \in DOMAIN T /\ TripleLists(T)
      BY <1>5, <1>7 DEF StreamsGiven
    <3> QED
      BY <3>1, IdType
  <2>2. e = E(y)
    BY <1>7
  <2> HIDE DEF y
  <2>3. e \in Elements /\ e.chunk = s.chunk
    <3>1. E(y) \in Elements /\ E(y).chunk = y[1] /\ E(x).chunk = x[1]
      BY <1>3, <2>1, GivenId
    <3> HIDE DEF E, s
    <3> QED
      BY <1>2, <2>1, <2>2, <3>1
  <2>4. /\ h \in Seq(Elements) /\ IsHeap(h) /\ OfDistinctChunks(h) /\ Len(h) = Len(heap)
        /\ Range(h) = (Range(heap) \ {s}) \cup {e}
    BY <1>1, <1>7, <2>3, ReplaceTopSound
  <2>5. Ahead(q) = (Ahead(p) \ {x}) \cup {y}
    <3>1. \A z \in TripleIds(T) : z[1] = x[1] /\ z[2] = x[2] + 1 <=> z = y
      BY <2>1, GivenId
    <3> QED
      BY <1>3, <1>4, <2>1, <3>1
  <2>6. Range(h) = {E(z) : z \in Ahead(q)}
    <3> HIDE DEF E, s
    <3> QED
      BY <1>6, <2>2, <2>4, <2>5
  <2>7. Len(h) <= Len(heap)
    BY <1>1, <2>4
  <2> HIDE DEF E
  <2> QED
    BY <2>4, <2>6, <2>7 DEF E, HeapFor
<1>8. CASE ~ x[2] < Len(T[x[1]])
  <2>1. /\ h \in Seq(Elements) /\ IsHeap(h) /\ OfDistinctChunks(h) /\ Len(h) = Len(heap) - 1
        /\ Range(h) = Range(heap) \ {s}
    BY <1>1, <1>8, PopTopSound
  <2>2. Ahead(q) = Ahead(p) \ {x}
    <3>1. ASSUME NEW z \in TripleIds(T), z[1] = x[1], z[2] = x[2] + 1 PROVE FALSE
      <4>1. z[2] \in 1 .. Len(T[x[1]])
        BY <3>1, GivenId
      <4> QED
        BY <1>5, <1>8, <3>1, <4>1
    <3> QED
      BY <1>3, <1>4, <3>1
  <2>3. Range(h) = {E(z) : z \in Ahead(q)}
    <3> HIDE DEF E, s
    <3> QED
      BY <1>6, <2>1, <2>2
  <2>4. Len(h) <= Len(heap)
    BY <1>1, <2>1
  <2> HIDE DEF E
  <2> QED
    BY <2>1, <2>3, <2>4 DEF E, HeapFor
<1> QED
  BY <1>7, <1>8

(* With the heap empty, all triples have left it.                          *)
LEMMA AllGone ==
  ASSUME StreamsGiven, NEW p, Counted(p), chunk = TotalChunks, Ahead(p) = {}
  PROVE  /\ Gone(p) = TripleIds(AllTriples)
         /\ \A c \in AllChunks : p[c] = Len(AllTriples[c])
<1> DEFINE T == AllTriples
<1>1. ASSUME NEW c \in AllChunks PROVE p[c] = Len(T[c]) /\ p[c] \in Nat
  <2>1. p[c] \in Nat /\ p[c] <= Len(T[c]) /\ Len(T[c]) \in Nat /\ c < chunk
    BY DEF StreamsGiven, Counted
  <2>2. SUFFICES ASSUME p[c] < Len(T[c]) PROVE FALSE
    BY <2>1
  <2> DEFINE y == <<c, p[c] + 1>>
  <2>3. y[1] = c /\ y[2] = p[c] + 1 /\ y \in TripleIds(T)
    <3>1. p[c] + 1 \in 1 .. Len(T[c]) /\ c \in DOMAIN T /\ TripleLists(T)
      BY <2>1, <2>2 DEF StreamsGiven
    <3> QED
      BY <3>1, IdType
  <2> HIDE DEF y
  <2>4. y \in Ahead(p)
    BY <2>1, <2>3 DEF Ahead
  <2> QED
    BY <2>4
<1>2. ASSUME NEW z \in TripleIds(T) PROVE z \in Gone(p)
  <2>1. z[1] \in AllChunks /\ z[2] \in 1 .. Len(T[z[1]])
    BY GivenId
  <2>2. z[2] <= p[z[1]]
    BY <1>1, <2>1
  <2> QED
    BY <2>2 DEF Gone
<1>3. Gone(p) \subseteq TripleIds(T)
  BY DEF Gone
<1> QED
  BY <1>1, <1>2, <1>3

-----------------------------------------------------------------------------
(* Of each chunk's streams so many triples have been taken, and the runs of*)
(* so many have been written.                                              *)
BuffersAt(bs, taken, put) ==
  /\ DOMAIN bs = AllChunks
  /\ taken \in [AllChunks -> Nat] /\ put \in [AllChunks -> Nat]
  /\ \A c \in AllChunks :
       /\ taken[c] <= Len(AllTriples[c])
       /\ Standing(bs[c], currents[c], nexts[c], taken[c])
       /\ Put(bs[c].nexts) = Encoded(SubSeq(RightRuns(c), 1, put[c]))

(* After next_triplet t, for chunk c, of which k of n triples were taken.  *)
OneTaken(bs, a, put, c, t, k, n) ==
  /\ BuffersAt([bs EXCEPT ![c] = t.buffers], a, put)
  /\ t.result = IF k < n THEN "SUCCESS" ELSE "EMPTY"
  /\ k < n => t.element = ElementOf(AllTriples, <<c, k + 1>>)

(* Reading one more triple moves one chunk on and leaves the others.       *)
LEMMA ReadOne ==
  ASSUME StreamsGiven, NEW bs, NEW taken, NEW put, BuffersAt(bs, taken, put),
         NEW c \in AllChunks, NEW t, t = NextTriplet(bs[c], c), NEW k, k = taken[c],
         NEW n, n = Len(AllTriples[c]), NEW a, a = [taken EXCEPT ![c] = IF k < n THEN k + 1 ELSE k]
  PROVE  OneTaken(bs, a, put, c, t, k, n)
<1> DEFINE T == AllTriples
           cur == currents[c]
           nxt == nexts[c]
           tr == T[c]
           new == [bs EXCEPT ![c] = t.buffers]
<1>1. /\ IsStream(cur) /\ IsStream(nxt) /\ ~ StreamsDisagree(cur, nxt)
      /\ tr = Triples(cur, nxt) /\ n = Len(tr) /\ n \in Nat
  BY DEF StreamsGiven
<1>2. /\ k \in Nat /\ k <= n /\ k \in 0 .. Len(tr) /\ Standing(bs[c], cur, nxt, k)
      /\ Put(bs[c].nexts) = Encoded(SubSeq(RightRuns(c), 1, put[c]))
      /\ DOMAIN bs = AllChunks /\ taken \in [AllChunks -> Nat] /\ put \in [AllChunks -> Nat]
  <2>1. /\ k \in Nat /\ k <= n /\ Standing(bs[c], cur, nxt, k)
        /\ Put(bs[c].nexts) = Encoded(SubSeq(RightRuns(c), 1, put[c]))
        /\ DOMAIN bs = AllChunks /\ taken \in [AllChunks -> Nat] /\ put \in [AllChunks -> Nat]
    BY <1>1 DEF BuffersAt
  <2> QED
    BY <1>1, <2>1
<1>3. /\ Put(t.buffers.nexts) = Put(bs[c].nexts)
      /\ k = Len(tr) => t.result = "EMPTY" /\ Standing(t.buffers, cur, nxt, k)
      /\ k # Len(tr) =>
           /\ t.result = "SUCCESS"
           /\ t.element = [current |-> tr[k + 1].current, next |-> tr[k + 1].next,
                           count |-> tr[k + 1].count, chunk |-> c]
           /\ Standing(t.buffers, cur, nxt, k + 1)
  <2> HIDE DEF cur, nxt, tr
  <2> QED
    BY <1>1, <1>2, NextTripletSound
<1>4. t.result = IF k < n THEN "SUCCESS" ELSE "EMPTY"
  BY <1>1, <1>2, <1>3
<1>5. k < n => t.element = ElementOf(T, <<c, k + 1>>)
  <2> DEFINE x == <<c, k + 1>>
  <2>1. x[1] = c /\ x[2] = k + 1
    OBVIOUS
  <2> HIDE DEF x
  <2>2. k < n => t.element = ElementOf(T, x)
    BY <1>1, <1>2, <1>3, <2>1 DEF ElementOf
  <2> QED
    BY <2>2 DEF x
<1>6. a \in [AllChunks -> Nat] /\ a[c] = (IF k < n THEN k + 1 ELSE k) /\ \A d \in AllChunks : d # c => a[d] = taken[d]
  BY <1>1, <1>2
<1>7. a[c] <= n /\ Standing(t.buffers, cur, nxt, a[c])
  BY <1>1, <1>2, <1>3, <1>6
<1>8. DOMAIN new = AllChunks /\ new[c] = t.buffers /\ \A d \in AllChunks : d # c => new[d] = bs[d]
  BY <1>2
<1> HIDE DEF new
<1>9. ASSUME NEW d \in AllChunks
      PROVE  /\ a[d] <= Len(T[d])
             /\ Standing(new[d], currents[d], nexts[d], a[d])
             /\ Put(new[d].nexts) = Encoded(SubSeq(RightRuns(d), 1, put[d]))
  <2>1. CASE d = c
    BY <1>1, <1>2, <1>3, <1>7, <1>8, <2>1
  <2>2. CASE d # c
    BY <1>6, <1>8, <2>2 DEF BuffersAt
  <2> QED
    BY <2>1, <2>2
<1>10. BuffersAt(new, a, put)
  BY <1>2, <1>6, <1>8, <1>9 DEF BuffersAt
<1> QED
  BY <1>4, <1>5, <1>10 DEF new, OneTaken

(* The records put are those of the first m runs.                          *)
PutUpTo(b, runs, m) == Put(b.nexts) = Encoded(SubSeq(runs, 1, m))

(* Writing the next run of a chunk leaves one more of them written.        *)
LEMMA WriteNext ==
  ASSUME NEW cur, NEW nxt, NEW k, NEW b, Standing(b, cur, nxt, k), b.nexts.pos # 0,
         NEW runs \in Seq(RunSet(Nat)), NEW m \in 1 .. Len(runs), NEW run, run = runs[m],
         NEW l, l = m - 1, PutUpTo(b, runs, l), NEW w, w = WriteOutput(b, run)
  PROVE  Standing(w, cur, nxt, k) /\ PutUpTo(w, runs, m)
<1>1. run \in RunSet(Nat)
  OBVIOUS
<1>2. Standing(w, cur, nxt, k) /\ Adds(w, b, run)
  BY <1>1, WriteOutputSound
<1>3. Encoded(SubSeq(runs, 1, m)) = Encoded(SubSeq(runs, 1, m - 1)) \o Encode(runs[m])
  BY EncodedNext
<1> QED
  BY <1>2, <1>3 DEF Adds, PutUpTo

(* Writing one run leaves the other chunks alone.                          *)
LEMMA WriteOne ==
  ASSUME StreamsGiven, NEW bs, NEW taken, NEW put, BuffersAt(bs, taken, put),
         NEW c \in AllChunks, taken[c] # 0, NEW m, m = put[c] + 1, m \in 1 .. Len(AllTriples[c]),
         NEW run, run = RunOf(AllTriples, AllTriples[c][m]), NEW a, a = [put EXCEPT ![c] = m]
  PROVE  BuffersAt([bs EXCEPT ![c] = WriteOutput(@, run)], taken, a)
<1> DEFINE cur == currents[c]
           nxt == nexts[c]
           runs == RightRuns(c)
           b == bs[c]
           w == WriteOutput(b, run)
           new == [bs EXCEPT ![c] = WriteOutput(@, run)]
<1>1. /\ DOMAIN bs = AllChunks /\ taken \in [AllChunks -> Nat] /\ put \in [AllChunks -> Nat]
      /\ Standing(b, cur, nxt, taken[c])
      /\ Put(b.nexts) = Encoded(SubSeq(runs, 1, put[c]))
  BY DEF BuffersAt
<1>2. runs \in Seq(RunSet(Nat)) /\ m \in 1 .. Len(runs) /\ runs[m] = run /\ put[c] = m - 1
  <2>1. runs \in Seq(RunSet(Nat)) /\ Len(runs) = Len(AllTriples[c]) /\ runs[m] = run
    BY RightRunsAt
  <2>2. put[c] \in Nat
    BY <1>1
  <2> HIDE DEF runs
  <2> QED
    BY <2>1, <2>2
<1>3. b.nexts.pos # 0
  BY <1>1 DEF Standing
<1>4. PutUpTo(b, runs, put[c])
  BY <1>1 DEF PutUpTo
<1> HIDE DEF b, cur, nxt, runs, new
<1>5. w = WriteOutput(b, run)
  OBVIOUS
<1> HIDE DEF w
<1>6. Standing(w, cur, nxt, taken[c]) /\ Put(w.nexts) = Encoded(SubSeq(runs, 1, m))
  <2> DEFINE k == taken[c]
             l == put[c]
  <2>1. Standing(b, cur, nxt, k) /\ l = m - 1 /\ PutUpTo(b, runs, l) /\ run = runs[m]
    BY <1>1, <1>2, <1>4
  <2> HIDE DEF k, l
  <2>2. Standing(w, cur, nxt, k) /\ PutUpTo(w, runs, m)
    BY <1>2, <1>3, <1>5, <2>1, WriteNext, ZenonT(30)
  <2> QED
    BY <2>2 DEF k, PutUpTo
<1>8. a \in [AllChunks -> Nat] /\ a[c] = m /\ \A d \in AllChunks : d # c => a[d] = put[d]
  <2>1. m \in Nat
    BY <1>1
  <2> QED
    BY <1>1, <2>1
<1>9. DOMAIN new = AllChunks /\ new[c] = w /\ \A d \in AllChunks : d # c => new[d] = bs[d]
  BY <1>1, <1>5 DEF b, new
<1>10. ASSUME NEW d \in AllChunks
       PROVE  /\ taken[d] <= Len(AllTriples[d])
              /\ Standing(new[d], currents[d], nexts[d], taken[d])
              /\ Put(new[d].nexts) = Encoded(SubSeq(RightRuns(d), 1, a[d]))
  <2>1. taken[d] <= Len(AllTriples[d])
    BY DEF BuffersAt
  <2>2. CASE d = c
    BY <1>6, <1>8, <1>9, <2>1, <2>2 DEF cur, nxt, runs
  <2>3. CASE d # c
    BY <1>8, <1>9, <2>1, <2>3 DEF BuffersAt
  <2> QED
    BY <2>2, <2>3
<1>11. BuffersAt(new, taken, a)
  BY <1>1, <1>8, <1>9, <1>10 DEF BuffersAt
<1> QED
  BY <1>11 DEF new

(* heap_to_output writes the run of the triple popped before the last one. *)
LEMMA LastWritten ==
  ASSUME StreamsGiven, NEW p, Counted(p), Known(AllTriples, Gone(p)), heap # <<>>,
         NEW x, OnTop(p, x), NEW s, s = heap[1],
         NEW bs, NEW taken, NEW put, BuffersAt(bs, taken, put),
         \A c \in AllChunks : p[c] <= taken[c] /\ put[c] = RunsWritten(p, c)
  PROVE  BuffersAt(WriteLast(bs, s), taken, p)
<1> DEFINE T == AllTriples
<1>1. p \in [AllChunks -> Nat] /\ put \in [AllChunks -> Nat] /\ taken \in [AllChunks -> Nat]
  BY DEF Counted, BuffersAt
<1>2. CASE last = None
  <2>1. put = p
    BY <1>1, <1>2 DEF RunsWritten
  <2> QED
    BY <1>2, <2>1 DEF WriteLast
<1>3. CASE last # None
  <2>1. PICK y : LastOut(p, y)
    BY <1>3, LastToLeave
  <2> DEFINE c == y[1]
             m == p[c]
             run == RunOf(T, T[c][m])
  <2>2. /\ y \in Gone(p) /\ y \in TripleIds(T) /\ last = ElementOf(T, y) /\ y[2] = m
        /\ Ranked(T, Gone(p), y, updated_rank, pair_count)
    BY <2>1 DEF LastOut, Gone
  <2>3. c \in AllChunks /\ m \in 1 .. Len(T[c]) /\ m \in Nat /\ m # 0 /\ last.chunk = c
    BY <2>2, GivenId
  <2>4. /\ x \in TripleIds(T) /\ x \in Ahead(p) /\ s = ElementOf(T, x)
        /\ \A z \in TripleIds(T) \ Gone(p) : z = x \/ Less(s, ElementOf(T, z))
    BY DEF OnTop, Ahead
  <2>5. x \notin Gone(p) /\ Gone(p) \in SUBSET TripleIds(T)
    <3>1. x \notin Gone(p)
      <4> DEFINE q == [p EXCEPT ![x[1]] = x[2]]
      <4>1. q = [p EXCEPT ![x[1]] = x[2]]
        OBVIOUS
      <4> HIDE DEF q, T, c, m
      <4> QED
        BY <2>4, <4>1, OneMoreGone
    <3> QED
      BY <3>1 DEF Gone
  <2>6. TripleLists(T)
    BY DEF StreamsGiven
  <2>7. run = IF SamePair(s, last) THEN [rank |-> updated_rank, count |-> last.count]
              ELSE ResolvedRun(last, pair_count)
    <3>1. run = RunOf(T, T[y[1]][y[2]])
      BY <2>2
    <3> HIDE DEF T, c, m, run
    <3>2. RunOf(T, T[y[1]][y[2]]) = IF SamePair(s, last) THEN [rank |-> updated_rank, count |-> last.count]
                                    ELSE ResolvedRun(last, pair_count)
      BY <2>2, <2>4, <2>5, <2>6, LastRun
    <3> QED
      BY <3>1, <3>2
  <2>8. WriteLast(bs, s) = [bs EXCEPT ![c] = WriteOutput(@, run)]
    <3> HIDE DEF c, run
    <3> QED
      BY <1>3, <2>3, <2>7 DEF WriteLast
  <2>9. put[c] + 1 = m /\ taken[c] # 0
    <3>1. put[c] = p[c] - 1 /\ p[c] <= taken[c] /\ taken[c] \in Nat
      BY <1>1, <1>3, <2>3 DEF RunsWritten
    <3> QED
      BY <2>3, <3>1
  <2>10. p = [put EXCEPT ![c] = m]
    <3>1. \A d \in AllChunks : d # c => put[d] = p[d]
      BY <2>3 DEF RunsWritten
    <3> HIDE DEF c
    <3> QED
      BY <1>1, <2>3, <3>1
  <2> HIDE DEF c, m, run
  <2>11. m = put[c] + 1 /\ run = RunOf(AllTriples, AllTriples[c][m])
    BY <2>9 DEF run
  <2>12. BuffersAt([bs EXCEPT ![c] = WriteOutput(@, run)], taken, p)
    <3> HIDE DEF T
    <3>1. m \in 1 .. Len(AllTriples[c])
      BY <2>3 DEF T
    <3> QED
      BY <2>3, <2>9, <2>10, <2>11, <3>1, WriteOne
  <2> QED
    BY <2>8, <2>12
<1> QED
  BY <1>2, <1>3

(* heap_to_output_last writes that of the last triple of all.              *)
LEMMA FinalWritten ==
  ASSUME StreamsGiven, NEW p, Counted(p), Known(AllTriples, Gone(p)),
         NEW x, OnTop(p, x), NEW s, s = heap[1], NEW q, q = [p EXCEPT ![x[1]] = x[2]],
         Gone(q) = TripleIds(AllTriples), updated_rank' = NextRank(s),
         NEW bs, NEW taken, BuffersAt(bs, taken, p), taken[x[1]] # 0
  PROVE  BuffersAt(WriteFinal(bs, s), taken, q)
<1> DEFINE T == AllTriples
           c == x[1]
           m == x[2]
           run == RunOf(T, T[c][m])
<1>1. /\ x \in TripleIds(T) /\ x \in Ahead(p) /\ s = ElementOf(T, x)
      /\ \A z \in TripleIds(T) \ Gone(p) : z = x \/ Less(s, ElementOf(T, z))
  BY DEF OnTop, Ahead
<1>2. /\ x \in TripleIds(T) \ Gone(p) /\ m = p[c] + 1 /\ Gone(q) = Gone(p) \cup {x}
  BY <1>1, OneMoreGone
<1>3. Gone(p) \in SUBSET TripleIds(T) /\ TripleLists(T)
  BY DEF Gone, StreamsGiven
<1>4. c \in AllChunks /\ m \in 1 .. Len(T[c]) /\ s.chunk = c
  BY <1>1, GivenId
<1>5. run = [rank |-> NextRank(s),
             count |-> IF s.count = 1 /\ ~ (last # None /\ SamePair(s, last)) THEN 0 ELSE s.count]
  <2>1. Gone(p) \cup {x} = TripleIds(T)
    BY <1>2
  <2>2. Known(T, Gone(p)) /\ run = RunOf(T, T[x[1]][x[2]])
    OBVIOUS
  <2> HIDE DEF T, c, m, run
  <2>3. RunOf(T, T[x[1]][x[2]]) =
          [rank |-> NextRank(s),
           count |-> IF s.count = 1 /\ ~ (last # None /\ SamePair(s, last)) THEN 0 ELSE s.count]
    BY <1>1, <1>2, <1>3, <2>1, <2>2, FinalRun
  <2> QED
    BY <2>2, <2>3
<1>6. WriteFinal(bs, s) = [bs EXCEPT ![c] = WriteOutput(@, run)]
  <2> HIDE DEF c, run
  <2> QED
    BY <1>4, <1>5 DEF WriteFinal
<1> HIDE DEF run
<1>7. run = RunOf(AllTriples, AllTriples[c][m]) /\ q = [p EXCEPT ![c] = m] /\ m \in 1 .. Len(AllTriples[c])
  BY <1>4 DEF run
<1> HIDE DEF T, c, m
<1>8. taken[c] # 0
  BY DEF c
<1>9. BuffersAt([bs EXCEPT ![c] = WriteOutput(@, run)], taken, q)
  <2>1. m = p[c] + 1 /\ c \in AllChunks
    BY <1>2, <1>4
  <2>2. ASSUME NEW r, r = [p EXCEPT ![c] = m]
        PROVE  BuffersAt([bs EXCEPT ![c] = WriteOutput(@, run)], taken, r)
    <3>1. run = RunOf(AllTriples, AllTriples[c][m]) /\ m \in 1 .. Len(AllTriples[c])
      BY <1>7
    <3> QED
      BY <1>8, <2>1, <2>2, <3>1, WriteOne
  <2> QED
    BY <1>7, <2>2
<1> QED
  BY <1>6, <1>9

-----------------------------------------------------------------------------
(* The buffers, before a turn of merge_runs.                               *)
LEMMA BuffersBefore ==
  ASSUME StreamsGiven, NEW p, At(p), DOMAIN buffers = AllChunks,
         NEW taken, taken = [c \in AllChunks |-> Taking(p, c)],
         NEW put, put = [c \in AllChunks |-> RunsWritten(p, c)]
  PROVE  BuffersAt(buffers, taken, put)
<1>1. \A c \in AllChunks : /\ p[c] \in Nat /\ p[c] <= Len(AllTriples[c]) /\ Len(AllTriples[c]) \in Nat
                           /\ ChunkInv(p, c)
  BY DEF At, Counted, StreamsGiven
<1>2. ASSUME NEW c \in AllChunks PROVE taken[c] \in Nat /\ taken[c] <= Len(AllTriples[c])
  BY <1>1 DEF Taking
<1>3. ASSUME NEW c \in AllChunks PROVE put[c] \in Nat
  <2>1. ASSUME last # None, last.chunk = c PROVE p[c] # 0
    <3>1. PICK y : LastOut(p, y)
      BY <2>1, LastToLeave DEF At
    <3>2. y \in TripleIds(AllTriples) /\ y[2] = p[y[1]] /\ last = ElementOf(AllTriples, y)
      BY <3>1 DEF LastOut, Gone
    <3>3. y[1] = c
      BY <2>1, <3>2, GivenId
    <3> QED
      BY <3>2, <3>3, GivenId
  <2> QED
    BY <1>1, <2>1 DEF RunsWritten
<1>4. taken \in [AllChunks -> Nat] /\ put \in [AllChunks -> Nat]
  BY <1>2, <1>3
<1>5. ASSUME NEW c \in AllChunks
      PROVE  /\ Standing(buffers[c], currents[c], nexts[c], taken[c])
             /\ Put(buffers[c].nexts) = Encoded(SubSeq(RightRuns(c), 1, put[c]))
  BY <1>1 DEF ChunkInv
<1> QED
  BY <1>2, <1>4, <1>5 DEF BuffersAt

(* A turn of merge_runs for the triple x on top of the heap, popped being  *)
(* counted up for its chunk.                                               *)
LEMMA MergeStepKeeps == IInv /\ MergeStep => IInv'
<1> SUFFICES ASSUME IInv, MergeStep PROVE IInv'
  OBVIOUS
<1>1. PICK s : s = heap[1]
  OBVIOUS
<1>2. PICK d : d = s.chunk
  OBVIOUS
<1>3. PICK t : t = NextTriplet(buffers[d], d)
  OBVIOUS
<1>4. PICK read : read = [buffers EXCEPT ![d] = t.buffers]
  OBVIOUS
<1>5. PICK p : At(p)
  BY DEF IInv
<1>6. StreamsGiven
  BY GivenStreams DEF IInv
<1>7. /\ pc = "merge" /\ heap # <<>> /\ UNCHANGED inputs /\ chunk' = chunk
      /\ t.result # "FAILURE" =>
           /\ heap' = IF t.result = "SUCCESS" THEN ReplaceTop(heap, t.element) ELSE PopTop(heap)
           /\ updated_rank' = NextRank(s)
           /\ pair_count' = PairCount(s)
           /\ buffers' = IF heap' = <<>> THEN WriteFinal(WriteLast(read, s), s) ELSE WriteLast(read, s)
           /\ last' = s
           /\ pc' = pc
  BY <1>1, <1>2, <1>3, <1>4 DEF MergeStep
<1>8. /\ AllChunks' = AllChunks /\ AllTriples' = AllTriples /\ TotalChunks' = TotalChunks
      /\ currents' = currents /\ nexts' = nexts /\ resolved' = resolved
      /\ \A c : RightRuns(c)' = RightRuns(c)
  BY <1>7, InputsStay
<1>9. /\ Counted(p) /\ HeapInv(p) /\ Known(AllTriples, Gone(p)) /\ chunk = TotalChunks
  BY <1>5, <1>7 DEF At, PhaseInv
<1>10. PICK x : OnTop(p, x)
  BY <1>6, <1>7, <1>9, TopOfHeap
<1> DEFINE T == AllTriples
           n == Len(T[d])
<1>11. /\ x \in Ahead(p) /\ s = ElementOf(T, x) /\ x \in TripleIds(T)
       /\ \A z \in TripleIds(T) \ Gone(p) : z = x \/ Less(s, ElementOf(T, z))
  BY <1>1, <1>10 DEF OnTop, Ahead
<1>12. /\ d = x[1] /\ d \in AllChunks /\ d \in Nat /\ x[2] \in 1 .. n /\ x[2] \in Nat /\ n \in Nat
  <2>1. d = x[1]
    BY <1>2, <1>6, <1>11, GivenId
  <2> QED
    BY <1>6, <1>11, <2>1, GivenId DEF StreamsGiven
<1>13. PICK q : q = [p EXCEPT ![x[1]] = x[2]]
  OBVIOUS
<1>14. /\ x \in TripleIds(T) \ Gone(p) /\ x[2] = p[x[1]] + 1 /\ x[1] < chunk
       /\ Counted(q) /\ Gone(q) = Gone(p) \cup {x}
  BY <1>6, <1>9, <1>11, <1>13, OneMoreGone
<1>15. /\ p \in [AllChunks -> Nat] /\ q \in [AllChunks -> Nat] /\ q[d] = x[2]
       /\ \A c \in AllChunks : c # d => q[c] = p[c]
  BY <1>9, <1>12, <1>13, <1>14 DEF Counted
<1>16. PICK taken : taken = [c \in AllChunks |-> Taking(p, c)]
  OBVIOUS
<1>17. PICK put : put = [c \in AllChunks |-> RunsWritten(p, c)]
  OBVIOUS
<1>18. PICK a : a = [taken EXCEPT ![d] = IF taken[d] < n THEN taken[d] + 1 ELSE taken[d]]
  OBVIOUS
<1>19. BuffersAt(buffers, taken, put)
  BY <1>5, <1>6, <1>16, <1>17, BuffersBefore DEF IInv
<1>20. taken[d] = x[2]
  <2>1. p[d] \in Nat /\ p[d] < n
    BY <1>12, <1>14, <1>15
  <2>2. Taking(p, d) = p[d] + 1
    BY <1>12, <1>14, <2>1 DEF Taking
  <2> QED
    BY <1>12, <1>14, <1>16, <2>2
<1>21. /\ BuffersAt(read, a, put)
       /\ t.result = IF x[2] < n THEN "SUCCESS" ELSE "EMPTY"
       /\ x[2] < n => t.element = ElementOf(T, <<d, x[2] + 1>>)
  <2> DEFINE k == taken[d]
  <2>1. a = [taken EXCEPT ![d] = IF k < n THEN k + 1 ELSE k] /\ k = x[2]
    BY <1>18, <1>20
  <2> HIDE DEF k, n, T
  <2>2. n = Len(AllTriples[d]) /\ k = taken[d]
    BY DEF n, k, T
  <2>3. OneTaken(buffers, a, put, d, t, k, n)
    BY <1>3, <1>6, <1>12, <1>19, <2>1, <2>2, ReadOne
  <2> QED
    BY <1>4, <2>1, <2>3 DEF T, OneTaken
<1>22. /\ heap' = IF x[2] < n THEN ReplaceTop(heap, t.element) ELSE PopTop(heap)
       /\ updated_rank' = NextRank(s) /\ pair_count' = PairCount(s)
       /\ buffers' = IF heap' = <<>> THEN WriteFinal(WriteLast(read, s), s) ELSE WriteLast(read, s)
       /\ last' = s /\ pc' = "merge"
  BY <1>7, <1>21
<1>23. PICK h : h = IF x[2] < n THEN ReplaceTop(heap, t.element) ELSE PopTop(heap)
  OBVIOUS
<1>24. /\ heap' = h
       /\ h \in Seq(Elements) /\ IsHeap(h) /\ OfDistinctChunks(h) /\ Len(h) <= Len(heap)
       /\ Range(h) = {ElementOf(T, z) : z \in Ahead(q)}
  <2> DEFINE e == t.element
  <2>1. x[2] < Len(AllTriples[x[1]]) => e = ElementOf(AllTriples, <<x[1], x[2] + 1>>)
    BY <1>12, <1>21
  <2>2. h = IF x[2] < Len(AllTriples[x[1]]) THEN ReplaceTop(heap, e) ELSE PopTop(heap)
    BY <1>12, <1>23
  <2> HIDE DEF e, n, T
  <2>3. HeapFor(h, q)
    BY <1>6, <1>7, <1>9, <1>10, <1>13, <2>1, <2>2, HeapAfter
  <2> QED
    BY <1>22, <1>23, <2>3 DEF T, HeapFor
<1>25. HeapInv(q)'
  <2>1. Len(heap) <= chunk /\ Len(heap) \in Nat /\ Len(h) \in Nat /\ chunk \in Nat
    BY <1>6, <1>9, <1>24 DEF HeapInv, StreamsGiven
  <2>2. Len(h) <= chunk
    BY <1>24, <2>1
  <2>3. Ahead(q)' = Ahead(q)
    BY <1>7, <1>8 DEF Ahead
  <2> QED
    BY <1>7, <1>8, <1>24, <2>2, <2>3 DEF HeapInv
<1>26. a \in [AllChunks -> Nat] /\ \A c \in AllChunks : p[c] <= a[c] /\ (c # d => a[c] = taken[c])
  <2>1. a \in [AllChunks -> Nat] /\ taken \in [AllChunks -> Nat]
    BY <1>19, <1>21 DEF BuffersAt
  <2>2. a[d] = (IF x[2] < n THEN x[2] + 1 ELSE x[2]) /\ \A c \in AllChunks : c # d => a[c] = taken[c]
    BY <1>12, <1>18, <1>20, <2>1
  <2>3. \A c \in AllChunks : p[c] <= taken[c]
    BY <1>15, <1>16 DEF Taking
  <2>4. p[d] <= a[d]
    BY <1>12, <1>14, <1>15, <2>2
  <2> QED
    BY <2>1, <2>2, <2>3, <2>4
<1>27. BuffersAt(WriteLast(read, s), a, p)
  <2>1. \A c \in AllChunks : p[c] <= a[c] /\ put[c] = RunsWritten(p, c)
    BY <1>17, <1>26
  <2> QED
    BY <1>1, <1>6, <1>7, <1>9, <1>10, <1>21, <2>1, LastWritten
<1>28. a[d] = IF x[2] < n THEN x[2] + 1 ELSE x[2]
  BY <1>12, <1>18, <1>19, <1>20 DEF BuffersAt
<1>29. heap' = <<>> => BuffersAt(WriteFinal(WriteLast(read, s), s), a, q)
  <2>1. SUFFICES ASSUME heap' = <<>> PROVE BuffersAt(WriteFinal(WriteLast(read, s), s), a, q)
    OBVIOUS
  <2>2. Ahead(q) = {}
    <3>1. Range(h) = {}
      BY <1>24, <2>1 DEF Range
    <3> QED
      BY <1>24, <3>1
  <2>3. Gone(q) = TripleIds(AllTriples)
    BY <1>6, <1>9, <1>14, <2>2, AllGone
  <2>4. a[x[1]] # 0
    BY <1>12, <1>28
  <2> DEFINE bs == WriteLast(read, s)
  <2>5. BuffersAt(bs, a, p)
    BY <1>27
  <2> HIDE DEF bs, T, n
  <2>6. BuffersAt(WriteFinal(bs, s), a, q)
    BY <1>1, <1>6, <1>9, <1>10, <1>13, <1>22, <2>3, <2>4, <2>5, FinalWritten
  <2> QED
    BY <2>6 DEF bs
<1>30. PICK w : w = IF heap' = <<>> THEN q ELSE p
  OBVIOUS
<1>31. BuffersAt(buffers', a, w)
  <2>1. CASE heap' = <<>>
    BY <1>22, <1>29, <1>30, <2>1
  <2>2. CASE heap' # <<>>
    BY <1>22, <1>27, <1>30, <2>2
  <2> QED
    BY <2>1, <2>2
<1>32. last' # None
  <2>1. s.chunk = d /\ None.chunk = -1
    BY <1>2 DEF None
  <2> QED
    BY <1>12, <1>22, <2>1
<1>33. ASSUME NEW c \in AllChunks PROVE ChunkInv(q, c)'
  <2>1. Taking(q, c)' = a[c]
    <3>1. Taking(q, c)' = IF c < chunk /\ q[c] < Len(T[c]) THEN q[c] + 1 ELSE q[c]
      BY <1>7, <1>8 DEF Taking
    <3>2. CASE c = d
      BY <1>12, <1>14, <1>15, <1>28, <3>1, <3>2
    <3>3. CASE c # d
      <4>1. a[c] = Taking(p, c)
        BY <1>16, <1>26, <3>3
      <4> QED
        BY <1>15, <3>1, <3>3, <4>1 DEF Taking
    <3> QED
      BY <3>2, <3>3
  <2>2. RunsWritten(q, c)' = w[c]
    <3>1. RunsWritten(q, c)' = IF heap' # <<>> /\ s.chunk = c THEN q[c] - 1 ELSE q[c]
      BY <1>22, <1>32 DEF RunsWritten
    <3>2. q[d] - 1 = p[d] /\ s.chunk = d
      BY <1>2, <1>12, <1>14, <1>15
    <3>3. CASE heap' = <<>>
      BY <1>30, <3>1, <3>3
    <3>4. CASE heap' # <<>>
      BY <1>15, <1>30, <3>1, <3>2, <3>4
    <3> QED
      BY <3>3, <3>4
  <2>3. /\ Standing(buffers'[c], currents[c], nexts[c], a[c])
        /\ Put(buffers'[c].nexts) = Encoded(SubSeq(RightRuns(c), 1, w[c]))
    BY <1>31 DEF BuffersAt
  <2> QED
    BY <1>8, <2>1, <2>2, <2>3 DEF ChunkInv
<1>34. Ranked(T, Gone(q), x, updated_rank', pair_count')
  <2>1. TripleLists(T) /\ Gone(p) \in SUBSET TripleIds(T)
    BY <1>6 DEF StreamsGiven, Gone
  <2>2. Ranked(T, Gone(p) \cup {x}, x, NextRank(s), PairCount(s))
    <3> HIDE DEF T, n
    <3>1. Known(T, Gone(p))
      BY <1>9 DEF T
    <3> QED
      BY <1>11, <1>14, <2>1, <3>1, RankStep
  <2> QED
    BY <1>14, <1>22, <2>2
<1>35. Known(AllTriples, Gone(q))'
  <2>1. Gone(q)' = Gone(q) /\ x \in Gone(q)
    BY <1>8, <1>14 DEF Gone
  <2> QED
    BY <1>8, <1>11, <1>22, <1>34, <2>1 DEF Known
<1>36. updated_rank' \in Nat /\ pair_count' \in Nat
  <2> DEFINE r == RunOf(T, T[x[1]][x[2]])
             ids == SamePairs(T, T[x[1]][x[2]]) \cap Gone(q)
  <2>1. updated_rank' = r.rank /\ pair_count' = Total(T, ids)
    BY <1>34 DEF Ranked
  <2>2. TripleLists(T) /\ ids \in SUBSET TripleIds(T)
    BY <1>6 DEF StreamsGiven, SamePairs
  <2> HIDE DEF ids, T
  <2>3. r \in RunSet(Nat) /\ Total(T, ids) \in Nat
    BY <1>11, <2>2, RunOfType, TotalType
  <2> HIDE DEF r
  <2>4. r.rank \in Nat
    BY <2>3 DEF RunSet
  <2> QED
    BY <2>1, <2>3, <2>4
<1>37. PhaseInv(q)'
  BY <1>7, <1>8, <1>9, <1>22 DEF PhaseInv
<1>38. Counted(q)'
  BY <1>7, <1>8, <1>14 DEF Counted
<1>39. At(q)'
  BY <1>8, <1>25, <1>33, <1>35, <1>37, <1>38 DEF At
<1>40. DOMAIN buffers' = AllChunks'
  BY <1>8, <1>31 DEF BuffersAt
<1> QED
  BY <1>7, <1>8, <1>36, <1>39, <1>40 DEF IInv

(* The last flush.                                                         *)
LEMMA FlushedReading ==
  ASSUME NEW b, NEW n \in Nat, B!BufferInv(b, n), NEW a, a = Flushed(b)
  PROVE  SameReading(a, b) /\ Put(a) = Put(b) /\ a.out = Put(b)
<1>1. B!BufferType(b)
  BY DEF B!BufferInv
<1>2. a = B!Flushed(b)
  BY SameBuffer
<1>3. /\ B!BufferType(a) /\ B!Output(a) = B!Output(b) /\ a.out = B!Output(b)
  BY <1>1, <1>2, B!FlushKeeps
<1>4. /\ a.file = b.file /\ a.capacity = b.capacity /\ a.buf = b.buf /\ a.pos = b.pos
      /\ a.len = b.len /\ a.filepos = b.filepos /\ a.out_pos = 0
  BY DEF Flushed, Writing
<1>5. ASSUME NEW m \in Nat, B!BufferInv(b, m) PROVE B!BufferInv(a, m)
  <2>1. /\ m \in 0 .. Len(b.file)
        /\ b.pos = -1 => m = Len(b.file)
        /\ b.pos # -1 =>
             /\ b.pos <= m
             /\ m - b.pos + b.len = IF b.filepos = -1 THEN Len(b.file) ELSE b.filepos
             /\ \A i \in b.pos .. b.len - 1 : b.buf[i] = b.file[m - b.pos + i + 1]
    BY <1>5 DEF B!BufferInv
  <2>2. b.pos # -1 => 0 <= b.pos
    BY <1>1 DEF B!BufferType
  <2> QED
    BY <1>3, <1>4, <2>1, <2>2 DEF B!BufferInv
<1> QED
  BY <1>3, <1>4, <1>5 DEF SameReading, Put

(* The last flush keeps the invariant, and completes the files.            *)
LEMMA FlushAllKeeps == IInv /\ FlushAll => IInv'
<1> SUFFICES ASSUME IInv, FlushAll PROVE IInv'
  OBVIOUS
<1>1. /\ pc = "merge" /\ heap = <<>> /\ pc' = "done" /\ UNCHANGED inputs
      /\ heap' = heap /\ last' = last /\ updated_rank' = updated_rank /\ pair_count' = pair_count
      /\ chunk' = chunk
      /\ DOMAIN buffers' = AllChunks
      /\ \A c \in AllChunks : buffers'[c] = [buffers[c] EXCEPT !.nexts = Flushed(@)]
  BY DEF FlushAll
<1>2. PICK p : At(p)
  BY DEF IInv
<1>3. StreamsGiven
  BY GivenStreams DEF IInv
<1>4. /\ AllChunks' = AllChunks /\ AllTriples' = AllTriples /\ TotalChunks' = TotalChunks
      /\ currents' = currents /\ nexts' = nexts /\ resolved' = resolved
      /\ \A c : RightRuns(c)' = RightRuns(c)
  BY <1>1, InputsStay
<1>5. Counted(p) /\ HeapInv(p) /\ Known(AllTriples, Gone(p)) /\ chunk = TotalChunks
  BY <1>1, <1>2 DEF At, PhaseInv
<1>6. \A c \in AllChunks : p[c] = Len(AllTriples[c])
  <2>1. Ahead(p) = {}
    <3>1. Range(heap) = {}
      BY <1>1 DEF Range
    <3> QED
      BY <1>5, <3>1 DEF HeapInv
  <2> QED
    BY <1>3, <1>5, <2>1, AllGone
<1>7. ASSUME NEW c \in AllChunks PROVE ChunkInv(p, c)' /\ buffers'[c].nexts.out = resolved[c]
  <2> DEFINE b == buffers[c]
             cur == currents[c]
             nxt == nexts[c]
             k == Taking(p, c)
             n == Flushed(b.nexts)
             a == buffers'[c]
  <2>1. /\ Standing(b, cur, nxt, k) /\ Put(b.nexts) = Encoded(SubSeq(RightRuns(c), 1, RunsWritten(p, c)))
        /\ a = [b EXCEPT !.nexts = n]
    BY <1>1, <1>2 DEF At, ChunkInv
  <2>2. /\ Taking(p, c)' = k /\ RunsWritten(p, c)' = RunsWritten(p, c)
        /\ currents'[c] = cur /\ nexts'[c] = nxt
    BY <1>1, <1>4 DEF Taking, RunsWritten
  <2> HIDE DEF b, cur, nxt, k
  <2>3. PICK m \in Nat : B!BufferInv(b.nexts, m)
    BY <2>1, StandingBuffer
  <2>4. n = Flushed(b.nexts)
    OBVIOUS
  <2> HIDE DEF n, a
  <2>5. SameReading(n, b.nexts) /\ Put(n) = Put(b.nexts) /\ n.out = Put(b.nexts)
    BY <2>3, <2>4, FlushedReading
  <2>6. Standing(a, cur, nxt, k) /\ a.nexts = n
    BY <2>1, <2>5, StandingKept
  <2>7. Put(b.nexts) = resolved[c]
    <3> DEFINE runs == RightRuns(c)
    <3>1. runs \in Seq(RunSet(Nat)) /\ RunsWritten(p, c) = Len(runs)
      BY <1>1, <1>3, <1>6, RightRunsAt DEF RunsWritten
    <3>2. resolved[c] = Encoded(runs) /\ Put(b.nexts) = Encoded(SubSeq(runs, 1, RunsWritten(p, c)))
      BY <2>1 DEF IInv
    <3> HIDE DEF runs
    <3>3. SubSeq(runs, 1, Len(runs)) = runs
      BY <3>1
    <3> QED
      BY <3>1, <3>2, <3>3
  <2>8. ChunkInv(p, c)'
    BY <1>4, <2>1, <2>2, <2>5, <2>6 DEF ChunkInv, a
  <2> QED
    BY <2>5, <2>6, <2>7, <2>8 DEF a
<1>8. Counted(p)' /\ HeapInv(p)' /\ Known(AllTriples, Gone(p))' /\ PhaseInv(p)'
  <2>1. Counted(p)'
    BY <1>1, <1>4, <1>5 DEF Counted
  <2>2. HeapInv(p)'
    BY <1>1, <1>4, <1>5 DEF HeapInv, Ahead
  <2>3. Known(AllTriples, Gone(p))'
    BY <1>1, <1>4, <1>5 DEF Known, Gone
  <2>4. PhaseInv(p)'
    BY <1>1, <1>4, <1>5, <1>7 DEF PhaseInv
  <2> QED
    BY <2>1, <2>2, <2>3, <2>4
<1>9. At(p)'
  BY <1>4, <1>7, <1>8 DEF At
<1> QED
  BY <1>1, <1>4, <1>9 DEF IInv

(* Every step keeps the invariant.                                         *)
LEMMA NextIInv == IInv /\ [Next]_vars => IInv'
<1> SUFFICES ASSUME IInv, [Next]_vars PROVE IInv'
  OBVIOUS
<1>1. CASE FillBuffers
  BY <1>1, FillBuffersKeeps
<1>2. CASE FillHeap
  BY <1>2, FillHeapKeeps
<1>3. CASE EndFill
  BY <1>3, EndFillKeeps
<1>4. CASE MergeStep
  BY <1>4, MergeStepKeeps
<1>5. CASE FlushAll
  BY <1>5, FlushAllKeeps
<1>6. CASE Ended \/ UNCHANGED vars
  BY <1>6, StutterKeeps DEF Ended
<1> QED
  BY <1>1, <1>2, <1>3, <1>4, <1>5, <1>6 DEF Next

(* The inductive invariant of merge.                                       *)
THEOREM Inductive == Spec => []IInv
<1> QED
  BY InitIInv, NextIInv, PTL DEF Spec

(* The buffers, the heap and the ranks stay in their types.                *)
THEOREM TypeCorrect == Spec => []TypeOK
  BY Inductive, TypeOKHolds, PTL

(* merge never reports a failure on the streams an iteration leaves for it:*)
(* no stream ends early, the heap neither overflows nor starts empty.      *)
THEOREM Succeeds == Spec => []NeverFails
<1>1. IInv => NeverFails
  BY InvariantsHold
<1> QED
  BY <1>1, Inductive, PTL

(* The array is a heap with at most one triple of each chunk.              *)
THEOREM HeapStaysSound == Spec => []HeapIsSound
<1>1. IInv => HeapIsSound
  BY InvariantsHold
<1> QED
  BY <1>1, Inductive, PTL

(* What is written of a chunk's output, on disk or still over its nexts    *)
(* buffer, is at any time the start of the right one.                      *)
THEOREM WritesTheRanks == Spec => []WrittenIsResolved
  BY Inductive, WrittenIsResolvedHolds, PTL

(* When merge is done, every entry of every chunk has its run in global_.  *)
THEOREM Completes == Spec => []DoneIsComplete
<1>1. IInv => DoneIsComplete
  BY InvariantsHold
<1> QED
  BY <1>1, Inductive, PTL

(* The triples come out in the order of the whole text: the loop's turns   *)
(* go from one to a larger one.                                            *)
LEMMA StepsUp ==
  ASSUME IInv, MergeStep, pc' = "merge", last # None
  PROVE  Less(last, last')
<1>1. PICK p : At(p)
  BY DEF IInv
<1>2. StreamsGiven
  BY GivenStreams DEF IInv
<1>3. heap # <<>> /\ last' = heap[1] /\ pc = "merge"
  BY DEF MergeStep
<1>4. Counted(p) /\ HeapInv(p) /\ Known(AllTriples, Gone(p)) /\ chunk = TotalChunks
  BY <1>1, <1>3 DEF At, PhaseInv
<1>5. PICK x : OnTop(p, x)
  BY <1>2, <1>3, <1>4, TopOfHeap
<1>6. PICK y : LastOut(p, y)
  BY <1>2, <1>4, LastToLeave
<1>7. x \in Ahead(p) /\ last' = ElementOf(AllTriples, x)
  BY <1>3, <1>5 DEF OnTop
<1>8. x \in TripleIds(AllTriples) \ Gone(p)
  <2> DEFINE q == [p EXCEPT ![x[1]] = x[2]]
  <2>1. q = [p EXCEPT ![x[1]] = x[2]]
    OBVIOUS
  <2> HIDE DEF q
  <2> QED
    BY <1>2, <1>4, <1>7, <2>1, OneMoreGone
<1> QED
  BY <1>6, <1>7, <1>8 DEF LastOut, Ranked

(* The triples leave the heap in the order of the whole text: what is      *)
(* popped is always greater than what was popped before it.                *)
THEOREM InOrder == Spec => PopsInOrder
<1> DEFINE Up == pc = "merge" /\ pc' = "merge" /\ last # None =>
                   \/ last.current < last'.current
                   \/ last.current = last'.current /\ last.next < last'.next
                   \/ SamePair(last, last') /\ last.chunk < last'.chunk
<1>1. IInv /\ [Next]_vars => [Up]_vars
  <2> SUFFICES ASSUME IInv, [Next]_vars, pc = "merge", pc' = "merge", last # None, vars' # vars
               PROVE  \/ last.current < last'.current
                      \/ last.current = last'.current /\ last.next < last'.next
                      \/ SamePair(last, last') /\ last.chunk < last'.chunk
    OBVIOUS
  <2>1. MergeStep
    BY DEF Next, FillBuffers, FillHeap, EndFill, FlushAll, Ended
  <2>2. Less(last, last')
    BY <2>1, StepsUp
  <2> QED
    BY <2>2 DEF Less, SamePair
<1> QED
  BY <1>1, Inductive, PTL DEF Spec, PopsInOrder
=============================================================================
