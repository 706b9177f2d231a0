-------------------------- MODULE DecodeStepProofs --------------------------
(***************************************************************************)
(* What the selector, the prefetcher and the scheduler promise together,   *)
(* for any blocks, scores and counts, and any order of their calls.        *)
(*                                                                         *)
(* The selector is about ranks: the element of a sorted list at position i *)
(* has i - 1 elements before it, so that a slice of the list is the set of *)
(* those with few enough elements before or after them.  The rest is one   *)
(* invariant, DecodeInv: a result, a plan and the blocks a schedule has    *)
(* still to look at are of the layer's blocks, an evaluated hit is not on  *)
(* the SSD and never returns there, and a schedule that has raised was to  *)
(* compute elsewhere than in VRAM.                                         *)
(***************************************************************************)
EXTENDS DecodeStep, FiniteSetTheorems, TLAPS

(***************************************************************************)
(* Sorting.  An order is a set of pairs, so that one lemma serves both     *)
(* orders of the selector.                                                 *)
(***************************************************************************)
Orders(R, S) ==
  /\ \A a, b \in S : <<a, b>> \in R => <<b, a>> \notin R
  /\ \A a, b \in S : a # b => <<a, b>> \in R \/ <<b, a>> \in R
  /\ \A a, b, c \in S : <<a, b>> \in R /\ <<b, c>> \in R => <<a, c>> \in R

Below(R, S, b) == {a \in S : <<a, b>> \in R}

Above(R, S, b) == {a \in S : <<b, a>> \in R}

FirstRanked(R, S, n) == {b \in S : Cardinality(Below(R, S, b)) < n}

LastRanked(R, S, n) == {b \in S : Cardinality(Above(R, S, b)) < n}

InOrderOf(R, S, s) ==
  /\ s \in [1 .. Cardinality(S) -> S]
  /\ \A i, j \in 1 .. Cardinality(S) : i < j => <<s[i], s[j]>> \in R

(* The rank of an element is the number of elements below it: different    *)
(* elements have different ranks, from 0 to Cardinality(S) - 1.            *)
LEMMA RankGrows ==
  ASSUME NEW S, IsFiniteSet(S), NEW R, Orders(R, S),
         NEW a \in S, NEW b \in S, <<a, b>> \in R
  PROVE  /\ Cardinality(Below(R, S, a)) \in Nat
         /\ Cardinality(Below(R, S, a)) < Cardinality(Below(R, S, b))
         /\ Cardinality(Below(R, S, b)) < Cardinality(S)
<1>1. /\ IsFiniteSet(Below(R, S, b)) /\ Below(R, S, b) \in SUBSET S
      /\ Below(R, S, a) \in SUBSET Below(R, S, b)
      /\ a \in Below(R, S, b) /\ a \notin Below(R, S, a)
      /\ b \notin Below(R, S, b)
  <2>1. Below(R, S, b) \in SUBSET S
    BY DEF Below
  <2>2. QED
    BY <2>1, FS_Subset DEF Orders, Below
<1>2. IsFiniteSet(Below(R, S, a))
  BY <1>1, FS_Subset
<1>3. /\ Cardinality(Below(R, S, a)) <= Cardinality(Below(R, S, b))
      /\ Cardinality(Below(R, S, b)) # Cardinality(Below(R, S, a))
  BY <1>1, FS_Subset
<1>4. /\ Cardinality(Below(R, S, b)) <= Cardinality(S)
      /\ Cardinality(S) # Cardinality(Below(R, S, b))
  BY <1>1, FS_Subset
<1>5. /\ Cardinality(Below(R, S, a)) \in Nat /\ Cardinality(Below(R, S, b)) \in Nat
      /\ Cardinality(S) \in Nat
  BY <1>1, <1>2, FS_CardinalityType
<1>6. QED
  BY <1>3, <1>4, <1>5

LEMMA RankBound ==
  ASSUME NEW S, IsFiniteSet(S), NEW R, Orders(R, S), NEW a \in S
  PROVE  Cardinality(Below(R, S, a)) \in 0 .. Cardinality(S) - 1
<1>1. Below(R, S, a) \in SUBSET S /\ a \notin Below(R, S, a)
  BY DEF Below, Orders
<1>2. /\ IsFiniteSet(Below(R, S, a))
      /\ Cardinality(Below(R, S, a)) <= Cardinality(S)
      /\ Cardinality(S) # Cardinality(Below(R, S, a))
  BY <1>1, FS_Subset
<1>3. Cardinality(Below(R, S, a)) \in Nat /\ Cardinality(S) \in Nat
  BY <1>2, FS_CardinalityType
<1>4. QED
  BY <1>2, <1>3

(* Listing a finite set by rank sorts it.                                  *)
LEMMA SortedExists ==
  ASSUME NEW S, IsFiniteSet(S), NEW R, Orders(R, S)
  PROVE  \E s : InOrderOf(R, S, s)
<1> DEFINE n == Cardinality(S)
           rank == [a \in S |-> Cardinality(Below(R, S, a)) + 1]
<1>1. n \in Nat
  BY FS_CardinalityType
<1>2. rank \in [S -> 1 .. n]
  BY <1>1, RankBound
<1>3. \A a, b \in S : <<a, b>> \in R => rank[a] < rank[b]
  BY RankGrows, RankBound
<1>4. rank \in Injection(S, 1 .. n)
  <2>1. ASSUME NEW a \in S, NEW b \in S, rank[a] = rank[b], a # b
        PROVE  FALSE
    <3>1. <<a, b>> \in R \/ <<b, a>> \in R
      BY <2>1 DEF Orders
    <3>2. rank[a] < rank[b] \/ rank[b] < rank[a]
      BY <1>3, <3>1
    <3>3. rank[a] \in Nat /\ rank[b] \in Nat
      BY <1>2
    <3>4. QED
      BY <2>1, <3>2, <3>3
  <2>2. IsInjective(rank)
    BY <2>1 DEF IsInjective
  <2> HIDE DEF rank
  <2>3. QED
    BY <1>2, <2>2 DEF Injection
<1> HIDE DEF rank
<1>5. IsFiniteSet(1 .. n) /\ Cardinality(1 .. n) = n
  BY <1>1, FS_Interval
<1>6. rank \in Surjection(S, 1 .. n)
  BY <1>4, <1>5, FS_Injection
<1>7. \A i \in 1 .. n : \E a \in S : rank[a] = i
  BY <1>6 DEF Surjection
<1> DEFINE s == [i \in 1 .. n |-> CHOOSE a \in S : rank[a] = i]
<1>8. \A i \in 1 .. n : s[i] \in S /\ rank[s[i]] = i
  BY <1>7
<1>9. s \in [1 .. n -> S]
  BY <1>8
<1>10. ASSUME NEW i \in 1 .. n, NEW j \in 1 .. n, i < j
       PROVE  <<s[i], s[j]>> \in R
  <2>1. s[i] \in S /\ s[j] \in S /\ rank[s[i]] = i /\ rank[s[j]] = j
    BY <1>8
  <2> HIDE DEF s
  <2>2. s[i] # s[j] /\ ~(<<s[j], s[i]>> \in R)
    BY <1>3, <1>10, <2>1
  <2>3. QED
    BY <2>1, <2>2 DEF Orders
<1> HIDE DEF s
<1>11. QED
  BY <1>9, <1>10 DEF InOrderOf

Distinct(s, n) == \A i, j \in 1 .. n : i # j => s[i] # s[j]

Stretch(s, a, b) == {s[j] : j \in a .. b}

(* The elements at a stretch of positions of a sequence without            *)
(* repetitions are as many as the positions.                               *)
LEMMA StretchCount ==
  ASSUME NEW n \in Nat, NEW s, Distinct(s, n),
         NEW a \in 1 .. n + 1, NEW b \in 0 .. n, a <= b + 1
  PROVE  /\ IsFiniteSet(Stretch(s, a, b))
         /\ Cardinality(Stretch(s, a, b)) = b - a + 1
<1> DEFINE f == [j \in a .. b |-> s[j]]
           T == Stretch(s, a, b)
<1>1. f \in [a .. b -> T]
  BY DEF Stretch
<1>2. \A j \in a .. b : j \in 1 .. n
  OBVIOUS
<1>3. f \in Bijection(a .. b, T)
  <2>1. \A i, j \in a .. b : f[i] = f[j] => i = j
    BY <1>2 DEF Distinct
  <2>2. \A t \in T : \E j \in a .. b : f[j] = t
    BY DEF Stretch
  <2> HIDE DEF f
  <2>3. QED
    BY <1>1, <2>1, <2>2 DEF Bijection, Injection, Surjection, IsInjective
<1>4. ExistsBijection(a .. b, T)
  BY <1>3 DEF ExistsBijection
<1>5. /\ IsFiniteSet(a .. b)
      /\ Cardinality(a .. b) = b - a + 1
  <2>1. a \in Int /\ b \in Int
    OBVIOUS
  <2>2. /\ IsFiniteSet(a .. b)
        /\ Cardinality(a .. b) = IF a > b THEN 0 ELSE b - a + 1
    BY <2>1, FS_Interval
  <2>3. (IF a > b THEN 0 ELSE b - a + 1) = b - a + 1
    BY <2>1
  <2>4. QED
    BY <2>2, <2>3
<1>6. QED
  BY <1>4, <1>5, FS_Bijection

(* A sorted sequence lists every element once, and an element has as many  *)
(* elements below it as positions before it, above it as positions after.  *)
LEMMA SortedFacts ==
  ASSUME NEW S, IsFiniteSet(S), NEW R, Orders(R, S), NEW s, InOrderOf(R, S, s)
  PROVE  LET n == Cardinality(S) IN
         /\ n \in Nat
         /\ s \in [1 .. n -> S]
         /\ \A i, j \in 1 .. n : i # j => s[i] # s[j]
         /\ \A b \in S : \E i \in 1 .. n : s[i] = b
         /\ \A i \in 1 .. n : /\ Cardinality(Below(R, S, s[i])) = i - 1
                              /\ Cardinality(Above(R, S, s[i])) = n - i
<1> DEFINE n == Cardinality(S)
<1>1. n \in Nat
  BY FS_CardinalityType
<1>2. /\ s \in [1 .. n -> S]
      /\ \A i, j \in 1 .. n : i < j => <<s[i], s[j]>> \in R
  BY DEF InOrderOf
<1> HIDE DEF n
<1>3. ASSUME NEW i \in 1 .. n, NEW j \in 1 .. n, i # j
      PROVE  s[i] # s[j]
  <2>1. <<s[i], s[j]>> \in R \/ <<s[j], s[i]>> \in R
    BY <1>1, <1>2, <1>3
  <2>2. s[i] \in S /\ s[j] \in S
    BY <1>2
  <2>3. QED
    BY <2>1, <2>2 DEF Orders
<1>4. Distinct(s, n)
  BY <1>3 DEF Distinct
<1>5. \A b \in S : \E i \in 1 .. n : s[i] = b
  <2>1. s \in Injection(1 .. n, S)
    BY <1>2, <1>3 DEF Injection, IsInjective
  <2>2. IsFiniteSet(1 .. n) /\ Cardinality(1 .. n) = Cardinality(S)
    BY <1>1, FS_Interval DEF n
  <2>3. s \in Surjection(1 .. n, S)
    BY <2>1, <2>2, FS_Injection
  <2>4. QED
    BY <2>3 DEF Surjection
<1>6. ASSUME NEW i \in 1 .. n
      PROVE  /\ Cardinality(Below(R, S, s[i])) = i - 1
             /\ Cardinality(Above(R, S, s[i])) = n - i
  <2>1. \A j \in 1 .. n : /\ <<s[j], s[i]>> \in R <=> j < i
                          /\ <<s[i], s[j]>> \in R <=> i < j
    <3>1. \A j \in 1 .. n : s[j] \in S
      BY <1>2
    <3>2. QED
      BY <1>1, <1>2, <3>1 DEF Orders
  <2>2. Below(R, S, s[i]) = {s[j] : j \in 1 .. i - 1}
    <3>1. \A j \in 1 .. i - 1 : j \in 1 .. n /\ j < i
      BY <1>1
    <3>2. {s[j] : j \in 1 .. i - 1} \subseteq Below(R, S, s[i])
      BY <1>2, <2>1, <3>1 DEF Below
    <3>3. ASSUME NEW a \in Below(R, S, s[i]) PROVE a \in {s[j] : j \in 1 .. i - 1}
      <4>1. PICK j \in 1 .. n : s[j] = a
        BY <1>5 DEF Below
      <4>2. j < i
        BY <2>1, <4>1 DEF Below
      <4>3. j \in 1 .. i - 1
        BY <1>1, <4>2
      <4>4. QED
        BY <4>1, <4>3
    <3>4. QED
      BY <3>2, <3>3
  <2>3. Above(R, S, s[i]) = {s[j] : j \in i + 1 .. n}
    <3>1. \A j \in i + 1 .. n : j \in 1 .. n /\ i < j
      BY <1>1
    <3>2. {s[j] : j \in i + 1 .. n} \subseteq Above(R, S, s[i])
      BY <1>2, <2>1, <3>1 DEF Above
    <3>3. ASSUME NEW a \in Above(R, S, s[i]) PROVE a \in {s[j] : j \in i + 1 .. n}
      <4>1. PICK j \in 1 .. n : s[j] = a
        BY <1>5 DEF Above
      <4>2. i < j
        BY <2>1, <4>1 DEF Above
      <4>3. j \in i + 1 .. n
        BY <1>1, <4>2
      <4>4. QED
        BY <4>1, <4>3
    <3>4. QED
      BY <3>2, <3>3
  <2> DEFINE last == i - 1
             first == i + 1
  <2>4. Cardinality(Stretch(s, 1, i - 1)) = i - 1
    <3>1. 1 \in 1 .. n + 1 /\ last \in 0 .. n /\ 1 <= last + 1 /\ last - 1 + 1 = i - 1
      BY <1>1
    <3> HIDE DEF last
    <3>2. Cardinality(Stretch(s, 1, last)) = last - 1 + 1
      BY <1>1, <1>4, <3>1, StretchCount
    <3>3. QED
      BY <3>1, <3>2 DEF last
  <2>5. Cardinality(Stretch(s, i + 1, n)) = n - i
    <3>1. first \in 1 .. n + 1 /\ n \in 0 .. n /\ first <= n + 1 /\ n - first + 1 = n - i
      BY <1>1
    <3> HIDE DEF first
    <3>2. Cardinality(Stretch(s, first, n)) = n - first + 1
      BY <1>1, <1>4, <3>1, StretchCount
    <3>3. QED
      BY <3>1, <3>2 DEF first
  <2>6. QED
    BY <2>2, <2>3, <2>4, <2>5 DEF Stretch
<1>7. QED
  BY <1>1, <1>2, <1>3, <1>5, <1>6 DEF n

(* The first and the last elements of a sorted set.                        *)
LEMMA FirstFacts ==
  ASSUME NEW S, IsFiniteSet(S), NEW R, Orders(R, S), NEW s, InOrderOf(R, S, s),
         NEW m \in Nat
  PROVE  /\ FirstN(s, m) \in Seq(S)
         /\ ToSet(FirstN(s, m)) = FirstRanked(R, S, m)
         /\ Len(FirstN(s, m)) = Cardinality(FirstRanked(R, S, m))
         /\ LastN(s, m) \in Seq(S)
         /\ ToSet(LastN(s, m)) = LastRanked(R, S, m)
         /\ Len(LastN(s, m)) = Cardinality(LastRanked(R, S, m))
<1> DEFINE n == Cardinality(S)
           k == IF m < n THEN m ELSE n
           first == FirstN(s, m)
           last == LastN(s, m)
<1>1. /\ n \in Nat
      /\ s \in [1 .. n -> S]
      /\ \A i, j \in 1 .. n : i # j => s[i] # s[j]
      /\ \A b \in S : \E i \in 1 .. n : s[i] = b
      /\ \A i \in 1 .. n : /\ Cardinality(Below(R, S, s[i])) = i - 1
                           /\ Cardinality(Above(R, S, s[i])) = n - i
  BY SortedFacts
<1> HIDE DEF n
<1>2. Distinct(s, n)
  BY <1>1 DEF Distinct
<1>3. k \in 0 .. n
  BY <1>1
<1>4. s \in Seq(S) /\ Len(s) = n
  BY <1>1
<1>5. /\ first \in Seq(S) /\ DOMAIN first = 1 .. k /\ Len(first) = k
      /\ \A i \in 1 .. k : first[i] = s[i]
  <2>1. first = SubSeq(s, 1, k)
    BY <1>4 DEF FirstN
  <2>2. k <= Len(s) /\ 1 <= k + 1 /\ k \in Nat
    BY <1>3, <1>4
  <2> HIDE DEF first, k
  <2>3. QED
    BY <1>1, <1>4, <2>1, <2>2
<1>6. /\ last \in Seq(S) /\ DOMAIN last = 1 .. k /\ Len(last) = k
      /\ \A i \in 1 .. k : last[i] = s[n - k + i]
  <2>1. last = SubSeq(s, n - k + 1, n)
    <3>1. CASE m < n
      BY <1>4, <3>1 DEF LastN
    <3>2. CASE ~(m < n)
      <4>1. n - k + 1 = 1
        BY <1>1, <3>2
      <4>2. QED
        BY <1>4, <3>2, <4>1 DEF LastN
    <3>3. QED
      BY <3>1, <3>2
  <2>2. /\ n <= Len(s) /\ n - k + 1 \in 1 .. n + 1 /\ k \in Nat
        /\ n - (n - k + 1) + 1 = k /\ \A i \in 1 .. k : (n - k + 1) + i - 1 = n - k + i
    BY <1>1, <1>3, <1>4
  <2> HIDE DEF last, k
  <2>3. QED
    BY <1>1, <1>4, <2>1, <2>2
<1>7. ToSet(first) = {b \in S : Cardinality(Below(R, S, b)) < m}
  <2>1. ToSet(first) = {s[i] : i \in 1 .. k}
    BY <1>5 DEF ToSet
  <2>2. \A i \in 1 .. n : i \in 1 .. k <=> i - 1 < m
    BY <1>1
  <2>3. QED
    BY <1>1, <1>3, <2>1, <2>2
<1>8. ToSet(last) = {b \in S : Cardinality(Above(R, S, b)) < m}
  <2>1. ToSet(last) = {s[n - k + i] : i \in 1 .. k}
    BY <1>6 DEF ToSet
  <2>2. \A i \in 1 .. k : n - k + i \in 1 .. n /\ n - (n - k + i) < m
    BY <1>1, <1>3
  <2>3. \A i \in 1 .. n : n - i < m => i - (n - k) \in 1 .. k /\ n - k + (i - (n - k)) = i
    BY <1>1, <1>3
  <2> HIDE DEF k
  <2>4. ASSUME NEW b \in ToSet(last)
        PROVE  b \in S /\ Cardinality(Above(R, S, b)) < m
    <3>1. PICK i \in 1 .. k : b = s[n - k + i]
      BY <2>1
    <3>2. QED
      BY <1>1, <2>2, <3>1
  <2>5. ASSUME NEW b \in S, Cardinality(Above(R, S, b)) < m
        PROVE  b \in ToSet(last)
    <3>1. PICK i \in 1 .. n : s[i] = b
      BY <1>1
    <3>2. n - i < m
      BY <1>1, <2>5, <3>1
    <3>3. QED
      BY <2>1, <2>3, <3>1, <3>2
  <2>6. QED
    BY <2>4, <2>5
<1>9. Len(first) = Cardinality(ToSet(first))
  <2>1. ToSet(first) = Stretch(s, 1, k)
    BY <1>5 DEF ToSet, Stretch
  <2>2. 1 \in 1 .. n + 1 /\ 1 <= k + 1 /\ k - 1 + 1 = k
    BY <1>1, <1>3
  <2> HIDE DEF k
  <2>3. Cardinality(Stretch(s, 1, k)) = k - 1 + 1
    BY <1>1, <1>2, <1>3, <2>2, StretchCount
  <2>4. QED
    BY <1>5, <2>1, <2>2, <2>3
<1>10. Len(last) = Cardinality(ToSet(last))
  <2>1. ToSet(last) = Stretch(s, n - k + 1, n)
    <3>1. ToSet(last) = {s[n - k + i] : i \in 1 .. k}
      BY <1>6 DEF ToSet
    <3>2. \A i \in 1 .. k : n - k + i \in n - k + 1 .. n
      BY <1>1, <1>3
    <3>3. \A i \in n - k + 1 .. n : i - (n - k) \in 1 .. k /\ n - k + (i - (n - k)) = i
      BY <1>1, <1>3
    <3> HIDE DEF k
    <3>4. {s[n - k + i] : i \in 1 .. k} \subseteq {s[i] : i \in n - k + 1 .. n}
      BY <3>2
    <3>5. ASSUME NEW i \in n - k + 1 .. n
          PROVE  s[i] \in {s[n - k + j] : j \in 1 .. k}
      BY <3>3
    <3>6. QED
      BY <3>1, <3>4, <3>5 DEF Stretch
  <2> DEFINE a == n - k + 1
  <2>2. a \in 1 .. n + 1 /\ n \in 0 .. n /\ a <= n + 1 /\ n - a + 1 = k
    BY <1>1, <1>3
  <2> HIDE DEF a
  <2>3. Cardinality(Stretch(s, a, n)) = n - a + 1
    BY <1>1, <1>2, <2>2, StretchCount
  <2>4. QED
    BY <1>6, <2>1, <2>2, <2>3 DEF a
<1>11. QED
  BY <1>5, <1>6, <1>7, <1>8, <1>9, <1>10 DEF FirstRanked, LastRanked

(***************************************************************************)
(* The selector.                                                           *)
(***************************************************************************)
ByPosition == {p \in Blocks \X Blocks : Earlier(p[1], p[2])}

ByScore == {p \in Blocks \X Blocks : Better(p[1], p[2])}

LEMMA LayerOrders ==
  ASSUME NEW l, NEW now, NEW S \in SUBSET Visible(Blocks, l, now)
  PROVE  /\ IsFiniteSet(S)
         /\ Orders(ByPosition, S)
         /\ Orders(ByScore, S)
<1>1. S \subseteq Blocks
  BY DEF Visible
<1>2. \A b \in S : b.id \in Int /\ b.start \in Int /\ b.score \in Int
  BY <1>1, BlockAssumption
<1>3. \A a, b \in S : a # b => a.id # b.id
  BY BlockAssumption DEF Visible
<1>4. IsFiniteSet(S)
  BY <1>1, BlockAssumption, FS_Subset
<1>5. \A a, b \in S : /\ <<a, b>> \in ByPosition <=> Earlier(a, b)
                      /\ <<a, b>> \in ByScore <=> Better(a, b)
  BY <1>1 DEF ByPosition, ByScore
<1>6. Orders(ByPosition, S)
  BY <1>2, <1>3, <1>5 DEF Orders, Earlier
<1>7. Orders(ByScore, S)
  BY <1>2, <1>3, <1>5 DEF Orders, Better, Earlier
<1>8. QED
  BY <1>4, <1>6, <1>7

LEMMA SortedBlocks ==
  ASSUME NEW l, NEW now, NEW S \in SUBSET Visible(Blocks, l, now)
  PROVE  /\ InOrderOf(ByPosition, S, Sorted(S, Earlier))
         /\ InOrderOf(ByScore, S, Sorted(S, Better))
<1>1. S \subseteq Blocks
  BY DEF Visible
<1>2. /\ \E s : InOrderOf(ByPosition, S, s)
      /\ \E s : InOrderOf(ByScore, S, s)
  BY LayerOrders, SortedExists
<1>3. \A a, b \in S : /\ <<a, b>> \in ByPosition <=> Earlier(a, b)
                      /\ <<a, b>> \in ByScore <=> Better(a, b)
  BY <1>1 DEF ByPosition, ByScore
<1>4. InOrderOf(ByPosition, S, Sorted(S, Earlier))
  <2>1. \E s \in [1 .. Cardinality(S) -> S] : \A i, j \in DOMAIN s : i < j => Earlier(s[i], s[j])
    BY <1>2, <1>3 DEF InOrderOf
  <2>2. QED
    BY <1>3, <2>1 DEF InOrderOf, Sorted
<1>5. InOrderOf(ByScore, S, Sorted(S, Better))
  <2>1. \E s \in [1 .. Cardinality(S) -> S] : \A i, j \in DOMAIN s : i < j => Better(s[i], s[j])
    BY <1>2, <1>3 DEF InOrderOf
  <2>2. QED
    BY <1>3, <2>1 DEF InOrderOf, Sorted
<1>6. QED
  BY <1>4, <1>5

LEMMA FirstOfSorted ==
  ASSUME NEW l, NEW now, NEW S \in SUBSET Visible(Blocks, l, now), NEW m \in Nat
  PROVE  /\ FirstN(Sorted(S, Earlier), m) \in Seq(S)
         /\ ToSet(FirstN(Sorted(S, Earlier), m)) = FirstRanked(ByPosition, S, m)
         /\ Len(FirstN(Sorted(S, Earlier), m)) = Cardinality(FirstRanked(ByPosition, S, m))
         /\ LastN(Sorted(S, Earlier), m) \in Seq(S)
         /\ ToSet(LastN(Sorted(S, Earlier), m)) = LastRanked(ByPosition, S, m)
         /\ Len(LastN(Sorted(S, Earlier), m)) = Cardinality(LastRanked(ByPosition, S, m))
         /\ FirstN(Sorted(S, Better), m) \in Seq(S)
         /\ ToSet(FirstN(Sorted(S, Better), m)) = FirstRanked(ByScore, S, m)
         /\ Len(FirstN(Sorted(S, Better), m)) = Cardinality(FirstRanked(ByScore, S, m))
<1> DEFINE s == Sorted(S, Earlier)
           t == Sorted(S, Better)
<1>1. /\ IsFiniteSet(S) /\ Orders(ByPosition, S) /\ Orders(ByScore, S)
      /\ InOrderOf(ByPosition, S, s) /\ InOrderOf(ByScore, S, t)
  BY LayerOrders, SortedBlocks
<1> HIDE DEF s, t
<1>2. /\ FirstN(s, m) \in Seq(S)
      /\ ToSet(FirstN(s, m)) = FirstRanked(ByPosition, S, m)
      /\ Len(FirstN(s, m)) = Cardinality(FirstRanked(ByPosition, S, m))
      /\ LastN(s, m) \in Seq(S)
      /\ ToSet(LastN(s, m)) = LastRanked(ByPosition, S, m)
      /\ Len(LastN(s, m)) = Cardinality(LastRanked(ByPosition, S, m))
  BY <1>1, FirstFacts
<1>3. /\ FirstN(t, m) \in Seq(S)
      /\ ToSet(FirstN(t, m)) = FirstRanked(ByScore, S, m)
      /\ Len(FirstN(t, m)) = Cardinality(FirstRanked(ByScore, S, m))
  BY <1>1, FirstFacts
<1>4. QED
  BY <1>2, <1>3 DEF s, t

(* The three groups of one selection, by rank and then as sets.            *)
LEMMA SelectGroups ==
  ASSUME NEW c \in Configs, NEW l, NEW now
  PROVE  LET all == Visible(Blocks, l, now)
             result == Select(c, Blocks, l, now)
             init == FirstRanked(ByPosition, all, c.init)
             local == LastRanked(ByPosition, all \ init, c.local)
             selected == FirstRanked(ByScore, all \ (init \cup local), c.selected)
         IN /\ result.init \in Seq(all) /\ ToSet(result.init) = init
            /\ result.local \in Seq(all) /\ ToSet(result.local) = local
            /\ result.selected \in Seq(all) /\ ToSet(result.selected) = selected
            /\ Len(result.init) = Cardinality(init)
            /\ Len(result.local) = Cardinality(local)
            /\ Len(result.selected) = Cardinality(selected)
<1> DEFINE all == Visible(Blocks, l, now)
           result == Select(c, Blocks, l, now)
           init == FirstRanked(ByPosition, all, c.init)
           later == all \ init
           local == LastRanked(ByPosition, later, c.local)
           rest == all \ (init \cup local)
           selected == FirstRanked(ByScore, rest, c.selected)
           first == FirstN(Sorted(all, Earlier), c.init)
           last == LastN(Sorted(later, Earlier), c.local)
           best == FirstN(Sorted(rest, Better), c.selected)
<1>1. /\ c.init \in Nat /\ c.local \in Nat /\ c.selected \in Nat
      /\ all \in SUBSET Visible(Blocks, l, now)
      /\ later \in SUBSET Visible(Blocks, l, now)
      /\ rest \in SUBSET Visible(Blocks, l, now)
  BY DecodeAssumption
<1> HIDE DEF init, later, local, rest, selected
<1>2. /\ first \in Seq(all) /\ ToSet(first) = init /\ Len(first) = Cardinality(init)
  <2> HIDE DEF all
  <2>1. QED
    BY <1>1, FirstOfSorted DEF init
<1>3. /\ last \in Seq(later) /\ ToSet(last) = local /\ Len(last) = Cardinality(local)
  BY <1>1, FirstOfSorted DEF local
<1>4. /\ best \in Seq(rest) /\ ToSet(best) = selected /\ Len(best) = Cardinality(selected)
  BY <1>1, FirstOfSorted DEF selected
<1>5. result = [init |-> first, local |-> last, selected |-> best]
  <2>1. /\ later = all \ ToSet(first)
        /\ rest = all \ (ToSet(first) \cup ToSet(last))
    BY <1>2, <1>3 DEF later, rest
  <2>2. QED
    BY <2>1 DEF Select
<1> HIDE DEF first, last, best, all, result
<1>6. /\ last \in Seq(all) /\ best \in Seq(all)
  BY <1>3, <1>4 DEF later, rest
<1>7. QED
  BY <1>2, <1>3, <1>4, <1>5, <1>6 DEF all, result, init, later, local, rest, selected

(* The selection of a layer is three disjoint groups, by their definition. *)
LEMMA SelectCorrect ==
  ASSUME NEW c \in Configs, NEW l, NEW now
  PROVE  /\ SelectionMeetsReference(Select(c, Blocks, l, now), c, Blocks, l, now)
         /\ Select(c, Blocks, l, now).selected \in Seq(Blocks)
         /\ AllBlocks(Select(c, Blocks, l, now)) \in Seq(Blocks)
<1> DEFINE all == Visible(Blocks, l, now)
           result == Select(c, Blocks, l, now)
           init == FirstRanked(ByPosition, all, c.init)
           later == all \ init
           local == LastRanked(ByPosition, later, c.local)
           rest == all \ (init \cup local)
           selected == FirstRanked(ByScore, rest, c.selected)
<1>1. /\ result.init \in Seq(all) /\ ToSet(result.init) = init
      /\ result.local \in Seq(all) /\ ToSet(result.local) = local
      /\ result.selected \in Seq(all) /\ ToSet(result.selected) = selected
      /\ Len(result.init) = Cardinality(init)
      /\ Len(result.local) = Cardinality(local)
      /\ Len(result.selected) = Cardinality(selected)
  BY SelectGroups
<1>2. all \subseteq Blocks /\ IsFiniteSet(all)
  <2>1. all \in SUBSET Visible(Blocks, l, now)
    OBVIOUS
  <2>2. QED
    BY <2>1, LayerOrders DEF Visible
<1> HIDE DEF all, result
<1>3. \A a, b \in all : /\ <<a, b>> \in ByPosition <=> Earlier(a, b)
                        /\ <<a, b>> \in ByScore <=> Better(a, b)
  BY <1>2 DEF ByPosition, ByScore
<1>4. /\ AmongFirst(all, Earlier, c.init) = init
      /\ AmongFirst(later, Later, c.local) = local
      /\ AmongFirst(rest, Better, c.selected) = selected
  <2>1. later \subseteq all /\ rest \subseteq all
    OBVIOUS
  <2> HIDE DEF later, rest
  <2>2. \A b \in all : {a \in all : Earlier(a, b)} = Below(ByPosition, all, b)
    BY <1>3 DEF Below
  <2>3. \A b \in later : {a \in later : Earlier(b, a)} = Above(ByPosition, later, b)
    BY <1>3, <2>1 DEF Above
  <2>4. \A b \in rest : {a \in rest : Better(a, b)} = Below(ByScore, rest, b)
    BY <1>3, <2>1 DEF Below
  <2>5. QED
    BY <2>2, <2>3, <2>4 DEF AmongFirst, Later, FirstRanked, LastRanked
<1>5. Len(AllBlocks(result)) = Cardinality(init \cup local \cup selected)
  <2>1. /\ init \subseteq all /\ local \subseteq all /\ selected \subseteq all
        /\ init \cap local = {} /\ (init \cup local) \cap selected = {}
    BY DEF FirstRanked, LastRanked
  <2> HIDE DEF init, later, local, rest, selected
  <2>2. IsFiniteSet(init) /\ IsFiniteSet(local) /\ IsFiniteSet(selected)
    BY <1>2, <2>1, FS_Subset
  <2>3. /\ Cardinality({}) = 0
        /\ Cardinality(init) \in Nat /\ Cardinality(local) \in Nat
        /\ Cardinality(selected) \in Nat
    BY <2>2, FS_EmptySet, FS_CardinalityType
  <2> DEFINE both == init \cup local
  <2>4. IsFiniteSet(both) /\ Cardinality(both) = Cardinality(init) + Cardinality(local)
    <3>1. Cardinality(both) = Cardinality(init) + Cardinality(local) - Cardinality(init \cap local)
      BY <2>2, FS_Union
    <3>2. IsFiniteSet(both)
      BY <2>2, FS_Union
    <3>3. Cardinality(init \cap local) = 0
      BY <2>1, <2>3, Zenon
    <3> HIDE DEF both
    <3>4. QED
      BY <2>3, <3>1, <3>2, <3>3
  <2>5. Cardinality(both \cup selected) = Cardinality(both) + Cardinality(selected)
    <3>1. both \cap selected = {}
      BY <2>1
    <3>2. Cardinality(both) \in Nat
      BY <2>3, <2>4
    <3> HIDE DEF both
    <3>3. Cardinality(both \cup selected)
            = Cardinality(both) + Cardinality(selected) - Cardinality(both \cap selected)
      BY <2>2, <2>4, FS_Union
    <3>4. Cardinality(both \cap selected) = 0
      BY <2>3, <3>1, Zenon
    <3>5. QED
      BY <2>3, <3>2, <3>3, <3>4
  <2>6. Len(AllBlocks(result)) = Len(result.init) + Len(result.local) + Len(result.selected)
    <3>1. /\ result.init \in Seq(all) /\ result.local \in Seq(all)
          /\ result.selected \in Seq(all)
      BY <1>1
    <3>2. QED
      BY <3>1 DEF AllBlocks
  <2>7. QED
    BY <1>1, <2>3, <2>4, <2>5, <2>6
<1> HIDE DEF init, local, selected
<1>6. SelectionMeetsReference(result, c, Blocks, l, now)
  <2>1. /\ ToSet(result.init) = AmongFirst(all, Earlier, c.init)
        /\ ToSet(result.local) = AmongFirst(later, Later, c.local)
        /\ ToSet(result.selected) = AmongFirst(rest, Better, c.selected)
    BY <1>1, <1>4
  <2>2. QED
    BY <2>1, <1>4, <1>5 DEF SelectionMeetsReference, all, later, rest
<1>7. result.selected \in Seq(Blocks) /\ AllBlocks(result) \in Seq(Blocks)
  <2>1. /\ result.init \in Seq(Blocks) /\ result.local \in Seq(Blocks)
        /\ result.selected \in Seq(Blocks)
    BY <1>1, <1>2
  <2>2. QED
    BY <2>1 DEF AllBlocks
<1>8. QED
  BY <1>6, <1>7 DEF result

(***************************************************************************)
(* The scheduler.                                                          *)
(***************************************************************************)
Places == {"ssd", "dram", "vram"}

Op == [op : {"schedule_ssd_read", "schedule_dram_to_vram", "schedule_compute"},
       block : Blocks, from : Places, start : Nat, end : Nat]

Stage == [location : [Blocks -> Places], ops : Seq(Op), io : Nat, raised : BOOLEAN]

(* The SSD reads among t.ops that are not among s.ops read what was there. *)
ReadsWereOnSsd(s, t) ==
  \A i \in DOMAIN t.ops : t.ops[i].op = "schedule_ssd_read" =>
    \/ i \in DOMAIN s.ops /\ t.ops[i] = s.ops[i]
    \/ s.location[t.ops[i].block] = "ssd"

LEMMA AddOpFacts ==
  ASSUME NEW s \in Stage, NEW b \in Blocks, NEW latency \in Nat,
         NEW op \in {"schedule_ssd_read", "schedule_dram_to_vram", "schedule_compute"}
  PROVE  /\ AddOp(s, op, b, latency) \in Stage
         /\ AddOp(s, op, b, latency).location = s.location
         /\ AddOp(s, op, b, latency).io = s.io
         /\ AddOp(s, op, b, latency).raised = s.raised
         /\ (op = "schedule_ssd_read" => s.location[b] = "ssd")
              => ReadsWereOnSsd(s, AddOp(s, op, b, latency))
<1> DEFINE new == [op |-> op, block |-> b, from |-> s.location[b],
                   start |-> Clock(s.ops), end |-> Clock(s.ops) + latency]
           t == AddOp(s, op, b, latency)
<1>1. /\ s.location \in [Blocks -> Places] /\ s.ops \in Seq(Op)
      /\ s.io \in Nat /\ s.raised \in BOOLEAN
      /\ s = [location |-> s.location, ops |-> s.ops, io |-> s.io, raised |-> s.raised]
  BY DEF Stage
<1>2. Clock(s.ops) \in Nat
  <2>1. CASE s.ops = <<>>
    BY <2>1 DEF Clock
  <2>2. CASE s.ops # <<>>
    <3>1. s.ops[Len(s.ops)] \in Op
      BY <1>1, <2>2
    <3>2. QED
      BY <2>2, <3>1 DEF Clock, Op
  <2>3. QED
    BY <2>1, <2>2
<1>3. new \in Op
  BY <1>1, <1>2 DEF Op
<1>4. t = [s EXCEPT !.ops = Append(s.ops, new)]
  BY DEF AddOp
<1> HIDE DEF new, t
<1>5. /\ t.ops = Append(s.ops, new) /\ t.location = s.location /\ t.io = s.io
      /\ t.raised = s.raised
      /\ t = [location |-> s.location, ops |-> Append(s.ops, new), io |-> s.io,
               raised |-> s.raised]
  BY <1>1, <1>4
<1>6. /\ t.ops \in Seq(Op)
      /\ DOMAIN t.ops = 1 .. Len(s.ops) + 1
      /\ DOMAIN s.ops = 1 .. Len(s.ops)
      /\ \A i \in 1 .. Len(s.ops) : t.ops[i] = s.ops[i]
      /\ t.ops[Len(s.ops) + 1] = new
  BY <1>1, <1>3, <1>5
<1>7. t \in Stage
  BY <1>1, <1>5, <1>6 DEF Stage
<1>8. ASSUME op = "schedule_ssd_read" => s.location[b] = "ssd"
      PROVE  ReadsWereOnSsd(s, t)
  <2>1. new.op = op /\ new.block = b
    BY DEF new
  <2>2. Len(s.ops) \in Nat
    BY <1>1
  <2>3. QED
    BY <1>6, <1>8, <2>1, <2>2 DEF ReadsWereOnSsd
<1>9. QED
  BY <1>5, <1>7, <1>8 DEF t

SsdBlocks(where) == {b \in Blocks : where[b] = "ssd"}

LEMMA ReadFacts ==
  ASSUME NEW s \in Stage, NEW b \in Blocks, s.location[b] = "ssd"
  PROVE  /\ ReadFromSsd(s, b) \in Stage
         /\ ReadFromSsd(s, b).location = [s.location EXCEPT ![b] = "dram"]
         /\ ReadFromSsd(s, b).io = s.io + 1
         /\ ReadFromSsd(s, b).raised = s.raised
         /\ ReadsWereOnSsd(s, ReadFromSsd(s, b))
<1> DEFINE t == AddOp(s, "schedule_ssd_read", b, SsdReadLatency)
<1>1. /\ t \in Stage /\ t.location = s.location /\ t.io = s.io /\ t.raised = s.raised
      /\ ReadsWereOnSsd(s, t)
  BY SchedulerAssumption, AddOpFacts
<1>2. ReadFromSsd(s, b) = [t EXCEPT !.location[b] = "dram", !.io = s.io + 1]
  BY DEF ReadFromSsd
<1> HIDE DEF t
<1>3. /\ ReadFromSsd(s, b) = [location |-> [s.location EXCEPT ![b] = "dram"],
                              ops |-> t.ops, io |-> s.io + 1, raised |-> s.raised]
      /\ t.ops \in Seq(Op) /\ s.io \in Nat /\ s.raised \in BOOLEAN
      /\ [s.location EXCEPT ![b] = "dram"] \in [Blocks -> Places]
  BY <1>1, <1>2 DEF Stage, Places
<1>4. QED
  BY <1>1, <1>3 DEF Stage, ReadsWereOnSsd

LEMMA CopyFacts ==
  ASSUME NEW s \in Stage, NEW b \in Blocks
  PROVE  /\ CopyToVram(s, b) \in Stage
         /\ CopyToVram(s, b).location = [s.location EXCEPT ![b] = "vram"]
         /\ CopyToVram(s, b).io = s.io
         /\ CopyToVram(s, b).raised = s.raised
         /\ ReadsWereOnSsd(s, CopyToVram(s, b))
<1> DEFINE t == AddOp(s, "schedule_dram_to_vram", b, CopyLatency)
<1>1. /\ t \in Stage /\ t.location = s.location /\ t.io = s.io /\ t.raised = s.raised
      /\ ReadsWereOnSsd(s, t)
  BY SchedulerAssumption, AddOpFacts
<1>2. CopyToVram(s, b) = [t EXCEPT !.location[b] = "vram"]
  BY DEF CopyToVram
<1> HIDE DEF t
<1>3. /\ CopyToVram(s, b) = [location |-> [s.location EXCEPT ![b] = "vram"],
                             ops |-> t.ops, io |-> s.io, raised |-> s.raised]
      /\ t.ops \in Seq(Op) /\ s.io \in Nat /\ s.raised \in BOOLEAN
      /\ [s.location EXCEPT ![b] = "vram"] \in [Blocks -> Places]
  BY <1>1, <1>2 DEF Stage, Places
<1>4. QED
  BY <1>1, <1>3 DEF Stage, ReadsWereOnSsd

LEMMA ReadsChain ==
  ASSUME NEW s \in Stage, NEW t \in Stage, NEW u \in Stage,
         ReadsWereOnSsd(s, t), ReadsWereOnSsd(t, u),
         SsdBlocks(t.location) \subseteq SsdBlocks(s.location)
  PROVE  ReadsWereOnSsd(s, u)
<1>1. \A i \in DOMAIN u.ops : u.ops[i].block \in Blocks
  <2>1. u.ops \in Seq(Op)
    BY DEF Stage
  <2>2. \A i \in DOMAIN u.ops : u.ops[i] \in Op
    BY <2>1
  <2>3. QED
    BY <2>2 DEF Op
<1>2. QED
  BY <1>1 DEF ReadsWereOnSsd, SsdBlocks

(* Loading brings a block to VRAM from wherever it is, and reads it from   *)
(* SSD, once, only if it is there.                                         *)
LEMMA LoadFacts ==
  ASSUME NEW s \in Stage, NEW b \in Blocks
  PROVE  /\ Load(s, b) \in Stage
         /\ Load(s, b).location = [s.location EXCEPT ![b] = "vram"]
         /\ Load(s, b).io = IF s.location[b] = "ssd" THEN s.io + 1 ELSE s.io
         /\ Load(s, b).raised = s.raised
         /\ ReadsWereOnSsd(s, Load(s, b))
<1> DEFINE read == ReadFromSsd(s, b)
<1>1. s.location \in [Blocks -> Places] /\ s.location[b] \in Places /\ s.io \in Nat
  BY DEF Stage
<1>2. CASE s.location[b] = "ssd"
  <2>1. /\ read \in Stage /\ read.location = [s.location EXCEPT ![b] = "dram"]
        /\ read.io = s.io + 1 /\ read.raised = s.raised /\ ReadsWereOnSsd(s, read)
    BY <1>2, ReadFacts
  <2>2. read.location[b] = "dram"
    BY <1>1, <2>1
  <2>3. Load(s, b) = CopyToVram(read, b)
    BY <1>2, <2>2 DEF Load
  <2> HIDE DEF read
  <2>4. SsdBlocks(read.location) \subseteq SsdBlocks(s.location)
    BY <1>1, <2>1 DEF SsdBlocks
  <2>5. /\ CopyToVram(read, b) \in Stage
        /\ CopyToVram(read, b).location = [read.location EXCEPT ![b] = "vram"]
        /\ CopyToVram(read, b).io = read.io
        /\ CopyToVram(read, b).raised = read.raised
        /\ ReadsWereOnSsd(read, CopyToVram(read, b))
    BY <2>1, CopyFacts
  <2>6. ReadsWereOnSsd(s, CopyToVram(read, b))
    BY <2>1, <2>4, <2>5, ReadsChain
  <2>7. [read.location EXCEPT ![b] = "vram"] = [s.location EXCEPT ![b] = "vram"]
    BY <1>1, <2>1
  <2>8. QED
    BY <1>2, <2>1, <2>3, <2>5, <2>6, <2>7
<1>3. CASE s.location[b] = "dram"
  <2>1. Load(s, b) = CopyToVram(s, b)
    BY <1>3 DEF Load
  <2>2. QED
    BY <1>3, <2>1, CopyFacts
<1>4. CASE s.location[b] = "vram"
  <2>1. Load(s, b) = s
    BY <1>4 DEF Load
  <2>2. [s.location EXCEPT ![b] = "vram"] = s.location
    BY <1>1, <1>4
  <2>3. QED
    BY <1>4, <2>1, <2>2 DEF ReadsWereOnSsd
<1>5. QED
  BY <1>1, <1>2, <1>3, <1>4 DEF Places

(* One turn moves blocks only closer to the GPU, counts the reads it does, *)
(* and raises only if it does not compute in VRAM.                         *)
LEMMA TurnFacts ==
  ASSUME NEW where \in [Blocks -> Places], NEW ops \in Seq(Op), NEW b \in Blocks,
         NEW compute \in Places
  PROVE  LET s == [location |-> where, ops |-> ops, io |-> 0, raised |-> FALSE]
             done == Turn(where, ops, b, compute)
         IN /\ s \in Stage /\ done \in Stage
            /\ compute = "vram" => ~done.raised
            /\ done.io + Cardinality(SsdBlocks(done.location)) = Cardinality(SsdBlocks(where))
            /\ SsdBlocks(done.location) \subseteq SsdBlocks(where)
            /\ ReadsWereOnSsd(s, done)
<1> DEFINE s == [location |-> where, ops |-> ops, io |-> 0, raised |-> FALSE]
           loaded == Load(s, b)
           done == Turn(where, ops, b, compute)
<1>1. s \in Stage /\ s.location = where /\ s.io = 0 /\ ~s.raised /\ s.ops = ops
  BY DEF Stage
<1>2. done = IF Seen(ops, b) THEN s
             ELSE IF loaded.location[b] # compute THEN [loaded EXCEPT !.raised = TRUE]
             ELSE AddOp(loaded, "schedule_compute", b, ComputeLatency)
  BY DEF Turn
<1> HIDE DEF s, done
<1>3. /\ loaded \in Stage /\ loaded.location = [where EXCEPT ![b] = "vram"]
      /\ loaded.location \in [Blocks -> Places]
      /\ loaded.io = IF where[b] = "ssd" THEN 1 ELSE 0
      /\ ~loaded.raised /\ ReadsWereOnSsd(s, loaded)
  <2>1. /\ loaded \in Stage /\ loaded.location = [s.location EXCEPT ![b] = "vram"]
        /\ loaded.io = IF s.location[b] = "ssd" THEN s.io + 1 ELSE s.io
        /\ loaded.raised = s.raised /\ ReadsWereOnSsd(s, loaded)
    BY <1>1, LoadFacts
  <2> HIDE DEF loaded
  <2>2. QED
    BY <1>1, <2>1 DEF Stage
<1> HIDE DEF loaded
<1>4. IsFiniteSet(SsdBlocks(where))
  <2>1. SsdBlocks(where) \in SUBSET Blocks
    BY DEF SsdBlocks
  <2>2. QED
    BY <2>1, BlockAssumption, FS_Subset
<1>5. SsdBlocks(loaded.location) = SsdBlocks(where) \ {b}
  BY <1>3 DEF SsdBlocks
<1>6. loaded.io + Cardinality(SsdBlocks(loaded.location)) = Cardinality(SsdBlocks(where))
  <2>1. /\ Cardinality(SsdBlocks(where)) \in Nat
        /\ Cardinality(SsdBlocks(where) \ {b}) =
              IF b \in SsdBlocks(where) THEN Cardinality(SsdBlocks(where)) - 1
              ELSE Cardinality(SsdBlocks(where))
    BY <1>4, FS_RemoveElement, FS_CardinalityType
  <2>2. b \in SsdBlocks(where) <=> where[b] = "ssd"
    BY DEF SsdBlocks
  <2>3. Cardinality(SsdBlocks(loaded.location)) = Cardinality(SsdBlocks(where) \ {b})
    BY <1>5
  <2>4. CASE where[b] = "ssd"
    BY <1>3, <2>1, <2>2, <2>3, <2>4
  <2>5. CASE where[b] # "ssd"
    BY <1>3, <2>1, <2>2, <2>3, <2>5
  <2>6. QED
    BY <2>4, <2>5
<1>7. CASE Seen(ops, b)
  <2>1. Cardinality(SsdBlocks(where)) \in Nat
    BY <1>4, FS_CardinalityType
  <2>2. QED
    BY <1>1, <1>2, <1>7, <2>1 DEF s, done, ReadsWereOnSsd
<1>8. CASE ~Seen(ops, b) /\ loaded.location[b] # compute
  <2>1. done = [loaded EXCEPT !.raised = TRUE]
    BY <1>2, <1>8
  <2>2. /\ done \in Stage /\ done.location = loaded.location /\ done.io = loaded.io
        /\ done.ops = loaded.ops
    BY <1>3, <2>1 DEF Stage
  <2>3. compute # "vram"
    BY <1>3, <1>8
  <2>4. ReadsWereOnSsd(s, done)
    BY <1>3, <2>2 DEF ReadsWereOnSsd
  <2>5. QED
    BY <1>1, <1>5, <1>6, <2>2, <2>3, <2>4 DEF s, done
<1>9. CASE ~Seen(ops, b) /\ ~(loaded.location[b] # compute)
  <2>1. done = AddOp(loaded, "schedule_compute", b, ComputeLatency)
    BY <1>2, <1>9
  <2>2. /\ done \in Stage /\ done.location = loaded.location /\ done.io = loaded.io
        /\ done.raised = loaded.raised /\ ReadsWereOnSsd(loaded, done)
    BY <1>3, <2>1, SchedulerAssumption, AddOpFacts
  <2>3. ReadsWereOnSsd(s, done)
    <3>1. SsdBlocks(loaded.location) \subseteq SsdBlocks(s.location)
      BY <1>1, <1>5
    <3>2. QED
      BY <1>1, <1>3, <2>2, <3>1, ReadsChain
  <2>4. QED
    BY <1>1, <1>3, <1>5, <1>6, <2>2, <2>3 DEF s, done
<1>10. QED
  BY <1>7, <1>8, <1>9

(***************************************************************************)
(* The invariant: every selection is what select returned for its token;   *)
(* plans and the blocks left to schedule are sequences of blocks of the    *)
(* store; a hit is not on SSD, and never comes back there; and the reads   *)
(* of a schedule that is running were of no hit.                           *)
(***************************************************************************)
SelectionsMade ==
  \A l \in Layers : selection[l] # None =>
    selection[l].result = Select(config, Blocks, l, selection[l].token)

HitsOffSsd ==
  \A l \in Layers : evaluation[l] # None =>
    \A b \in evaluation[l].hits : b \in Blocks => location[b] # "ssd"

Timeline == [layer : Layers, todo : Seq(Blocks), ops : Seq(Op), raised : BOOLEAN]

ReadsOfNoHit ==
  \A i \in DOMAIN timeline.ops, l \in Layers :
    timeline.ops[i].op = "schedule_ssd_read" /\ evaluation[l] # None =>
      timeline.ops[i].block \notin evaluation[l].hits

DecodeInv ==
  /\ config \in Configs
  /\ location \in [Blocks -> Places]
  /\ ioOpCount \in Nat
  /\ selection = [l \in Layers |-> selection[l]] /\ SelectionsMade
  /\ plan = [l \in Layers |-> plan[l]]
  /\ \A l \in Layers : plan[l] # None => plan[l] \in Seq(Blocks)
  /\ evaluation = [l \in Layers |-> evaluation[l]] /\ HitsOffSsd
  /\ timeline # None =>
       /\ timeline \in Timeline
       /\ config.compute = "vram" => ~timeline.raised
       /\ timeline.todo # <<>> => ReadsOfNoHit

LEMMA DecodeInvInit == Init => DecodeInv
<1> SUFFICES ASSUME Init PROVE DecodeInv
  OBVIOUS
<1>1. /\ config \in Configs /\ location \in [Blocks -> Places] /\ ioOpCount \in Nat
  BY PlacementAssumption DEF Init, Places
<1>2. \A l \in Layers : selection[l] = None /\ plan[l] = None /\ evaluation[l] = None
  BY DEF Init
<1>3. QED
  BY <1>1, <1>2 DEF Init, DecodeInv, SelectionsMade, HitsOffSsd

LEMMA DecodeInvSelect ==
  ASSUME DecodeInv, ~Scheduling, NEW l \in Layers, SelectLayer(l)
  PROVE  DecodeInv'
<1> DEFINE result == Select(config, Blocks, l, token)
<1>1. /\ selection' = [selection EXCEPT ![l] = [result |-> result, token |-> token]]
      /\ UNCHANGED <<config, location, token, plan, evaluation, timeline, ioOpCount>>
  BY DEF SelectLayer
<1> HIDE DEF result
<1>2. /\ selection'[l].result = result /\ selection'[l].token = token
      /\ \A k \in Layers \ {l} : selection'[k] = selection[k]
      /\ selection' = [k \in Layers |-> selection'[k]]
  BY <1>1 DEF DecodeInv
<1>3. SelectionsMade'
  BY <1>1, <1>2 DEF DecodeInv, SelectionsMade, result
<1>4. HitsOffSsd'
  BY <1>1 DEF DecodeInv, HitsOffSsd
<1>5. QED
  BY <1>1, <1>2, <1>3, <1>4 DEF DecodeInv, Scheduling

(* Every group a caller schedules or prefetches is one that select made.   *)
LEMMA SelectedBlocks ==
  ASSUME DecodeInv, NEW l \in Layers, selection[l] # None
  PROVE  /\ selection[l].result.selected \in Seq(Blocks)
         /\ AllBlocks(selection[l].result) \in Seq(Blocks)
         /\ SelectionMeetsReference(selection[l].result, config, Blocks, l, selection[l].token)
<1> DEFINE result == Select(config, Blocks, l, selection[l].token)
<1>1. config \in Configs /\ selection[l].result = result
  BY DEF DecodeInv, SelectionsMade
<1>2. /\ result.selected \in Seq(Blocks) /\ AllBlocks(result) \in Seq(Blocks)
      /\ SelectionMeetsReference(result, config, Blocks, l, selection[l].token)
  BY <1>1, SelectCorrect
<1>3. QED
  BY <1>1, <1>2

LEMMA DecodeInvPlan ==
  ASSUME DecodeInv, ~Scheduling, NEW l \in Layers, NEW predicted \in Seq(Blocks),
         NEW limit, limit = NoLimit \/ limit \in Nat, PlanPrefetch(l, predicted, limit)
  PROVE  DecodeInv'
<1> DEFINE blocks == IF limit = NoLimit THEN predicted ELSE FirstN(predicted, limit)
<1>1. /\ plan' = [plan EXCEPT ![l] = blocks]
      /\ evaluation' = [evaluation EXCEPT ![l] = None]
      /\ UNCHANGED <<config, location, token, selection, timeline, ioOpCount>>
  BY DEF PlanPrefetch
<1>2. blocks \in Seq(Blocks)
  <2>1. CASE limit = NoLimit
    BY <2>1
  <2>2. CASE limit # NoLimit
    <3>1. blocks = SubSeq(predicted, 1, IF limit < Len(predicted) THEN limit ELSE Len(predicted))
      BY <2>2 DEF FirstN
    <3> DEFINE last == IF limit < Len(predicted) THEN limit ELSE Len(predicted)
    <3>2. last \in 0 .. Len(predicted)
      BY <2>2
    <3> HIDE DEF last, blocks
    <3>3. QED
      BY <3>1, <3>2 DEF last
  <2>3. QED
    BY <2>1, <2>2
<1> HIDE DEF blocks
<1>3. /\ plan' = [k \in Layers |-> plan'[k]]
      /\ \A k \in Layers : plan'[k] # None => plan'[k] \in Seq(Blocks)
  BY <1>1, <1>2 DEF DecodeInv
<1>4. /\ evaluation' = [k \in Layers |-> evaluation'[k]]
      /\ \A k \in Layers : evaluation'[k] # None => evaluation'[k] = evaluation[k]
  BY <1>1 DEF DecodeInv
<1>5. HitsOffSsd'
  BY <1>1, <1>4 DEF DecodeInv, HitsOffSsd
<1>6. SelectionsMade'
  BY <1>1 DEF DecodeInv, SelectionsMade
<1>7. QED
  BY <1>1, <1>3, <1>4, <1>5, <1>6 DEF DecodeInv, Scheduling

LEMMA DecodeInvExecute ==
  ASSUME DecodeInv, ~Scheduling, NEW l \in Layers, ExecutePrefetch(l)
  PROVE  /\ DecodeInv'
         /\ ioOpCount' + Cardinality(OnSsd') = ioOpCount + Cardinality(OnSsd)
<1> DEFINE planned == ToSet(plan[l])
           reads == PlannedReads(plan[l])
<1>1. /\ plan[l] # None /\ plan[l] \in Seq(Blocks)
      /\ location' = [b \in Blocks |-> IF b \in planned THEN config.target ELSE location[b]]
      /\ ioOpCount' = ioOpCount + Cardinality(reads)
      /\ UNCHANGED <<config, token, selection, plan, evaluation, timeline>>
  BY DEF ExecutePrefetch, DecodeInv
<1>2. config.target \in {"dram", "vram"} /\ location \in [Blocks -> Places] /\ ioOpCount \in Nat
  BY DecodeAssumption DEF DecodeInv
<1>3. planned \subseteq Blocks
  BY <1>1 DEF ToSet
<1>4. /\ reads = planned \cap OnSsd
      /\ OnSsd \in SUBSET Blocks
  BY <1>3 DEF PlannedReads, OnSsd
<1> HIDE DEF planned, reads
<1>5. OnSsd' = OnSsd \ planned
  BY <1>1, <1>2 DEF OnSsd
<1>6. /\ Cardinality(OnSsd) = Cardinality(reads) + Cardinality(OnSsd')
      /\ Cardinality(reads) \in Nat /\ Cardinality(OnSsd') \in Nat
  <2>1. IsFiniteSet(OnSsd)
    BY <1>4, BlockAssumption, FS_Subset
  <2>2. /\ Cardinality(OnSsd) = Cardinality(OnSsd \cap planned) + Cardinality(OnSsd \ planned)
        /\ IsFiniteSet(OnSsd \ planned) /\ IsFiniteSet(OnSsd \cap planned)
    <3>1. /\ OnSsd \ planned \in SUBSET OnSsd /\ OnSsd \cap planned \in SUBSET OnSsd
      OBVIOUS
    <3>2. IsFiniteSet(OnSsd \ planned) /\ IsFiniteSet(OnSsd \cap planned)
      BY <2>1, <3>1, FS_Subset
    <3>3. Cardinality(OnSsd \ planned) = Cardinality(OnSsd) - Cardinality(OnSsd \cap planned)
      BY <2>1, FS_Difference
    <3>4. QED
      BY <2>1, <3>2, <3>3, FS_CardinalityType
  <2>3. reads = OnSsd \cap planned
    BY <1>4
  <2>4. QED
    BY <1>5, <2>2, <2>3, FS_CardinalityType
<1>7. location' \in [Blocks -> Places] /\ \A b \in Blocks : location'[b] = "ssd" => location[b] = "ssd"
  BY <1>1, <1>2 DEF Places
<1>8. HitsOffSsd'
  BY <1>1, <1>7 DEF DecodeInv, HitsOffSsd
<1>9. SelectionsMade'
  BY <1>1 DEF DecodeInv, SelectionsMade
<1>10. ioOpCount' \in Nat /\ ioOpCount' + Cardinality(OnSsd') = ioOpCount + Cardinality(OnSsd)
  BY <1>1, <1>2, <1>6
<1>11. DecodeInv'
  BY <1>1, <1>7, <1>8, <1>9, <1>10 DEF DecodeInv, Scheduling
<1>12. QED
  BY <1>10, <1>11

LEMMA DecodeInvEvaluate ==
  ASSUME DecodeInv, ~Scheduling, NEW l \in Layers, EvaluatePrefetch(l)
  PROVE  DecodeInv'
<1> DEFINE required == ToSet(AllBlocks(selection[l].result))
           hits == Hits(ToSet(plan[l]), required)
           new == [hits |-> hits, misses |-> required \ hits, wrong |-> ToSet(plan[l]) \ required]
<1>1. /\ evaluation' = [evaluation EXCEPT ![l] = new]
      /\ UNCHANGED <<config, location, token, selection, plan, timeline, ioOpCount>>
  BY DEF EvaluatePrefetch
<1>2. \A b \in new.hits : location[b] # "ssd"
  <2>1. config.target \in {"dram", "vram"}
    BY DecodeAssumption DEF DecodeInv
  <2>2. QED
    BY <2>1 DEF Hits
<1> HIDE DEF new
<1>3. /\ evaluation' = [k \in Layers |-> evaluation'[k]]
      /\ evaluation'[l] = new
      /\ \A k \in Layers \ {l} : evaluation'[k] = evaluation[k]
  BY <1>1 DEF DecodeInv
<1>4. HitsOffSsd'
  BY <1>1, <1>2, <1>3 DEF DecodeInv, HitsOffSsd
<1>5. SelectionsMade'
  BY <1>1 DEF DecodeInv, SelectionsMade
<1>6. QED
  BY <1>1, <1>3, <1>4, <1>5 DEF DecodeInv, Scheduling

LEMMA DecodeInvBegin ==
  ASSUME DecodeInv, NEW l \in Layers, BeginSchedule(l)
  PROVE  DecodeInv' /\ ReadsOfNoHit'
<1>1. /\ timeline' = [layer |-> l, todo |-> AllBlocks(selection[l].result),
                      ops |-> <<>>, raised |-> FALSE]
      /\ UNCHANGED <<config, location, token, selection, plan, evaluation, ioOpCount>>
      /\ selection[l] # None
  BY DEF BeginSchedule
<1>2. AllBlocks(selection[l].result) \in Seq(Blocks)
  BY <1>1, SelectedBlocks
<1>3. timeline' \in Timeline /\ ~timeline'.raised /\ timeline'.ops = <<>>
  BY <1>1, <1>2 DEF Timeline
<1>4. ReadsOfNoHit'
  BY <1>3 DEF ReadsOfNoHit
<1>5. HitsOffSsd' /\ SelectionsMade'
  BY <1>1 DEF DecodeInv, HitsOffSsd, SelectionsMade
<1>6. QED
  BY <1>1, <1>3, <1>4, <1>5 DEF DecodeInv

LEMMA DecodeInvTurn ==
  ASSUME DecodeInv, ScheduleNext
  PROVE  /\ DecodeInv' /\ ReadsOfNoHit'
         /\ ioOpCount' + Cardinality(OnSsd') = ioOpCount + Cardinality(OnSsd)
<1> DEFINE b == Head(timeline.todo)
           s == [location |-> location, ops |-> timeline.ops, io |-> 0, raised |-> FALSE]
           done == Turn(location, timeline.ops, b, config.compute)
<1>1. /\ timeline # None /\ timeline \in Timeline /\ timeline.todo # <<>>
      /\ config.compute = "vram" => ~timeline.raised
      /\ ReadsOfNoHit
      /\ location \in [Blocks -> Places] /\ ioOpCount \in Nat
      /\ config.compute \in Places
  BY DecodeAssumption DEF ScheduleNext, Scheduling, DecodeInv, Places
<1>2. /\ location' = done.location
      /\ ioOpCount' = ioOpCount + done.io
      /\ timeline' = [timeline EXCEPT
             !.ops = done.ops, !.raised = done.raised,
             !.todo = IF done.raised THEN <<>> ELSE Tail(timeline.todo)]
      /\ UNCHANGED <<config, token, selection, plan, evaluation>>
  BY DEF ScheduleNext
<1>3. /\ timeline.todo \in Seq(Blocks) /\ timeline.ops \in Seq(Op) /\ b \in Blocks
      /\ Tail(timeline.todo) \in Seq(Blocks)
  BY <1>1 DEF Timeline
<1>4. /\ s \in Stage /\ done \in Stage
      /\ config.compute = "vram" => ~done.raised
      /\ done.io + Cardinality(SsdBlocks(done.location)) = Cardinality(SsdBlocks(location))
      /\ SsdBlocks(done.location) \subseteq SsdBlocks(location)
      /\ ReadsWereOnSsd(s, done)
  <2> HIDE DEF b
  <2>1. QED
    BY <1>1, <1>3, TurnFacts
<1> HIDE DEF done, b
<1>5. /\ done.location \in [Blocks -> Places] /\ done.io \in Nat /\ done.ops \in Seq(Op)
      /\ done.raised \in BOOLEAN
  BY <1>4 DEF Stage
<1>6. /\ timeline' \in Timeline /\ timeline'.ops = done.ops /\ timeline'.raised = done.raised
  <2> DEFINE left == IF done.raised THEN <<>> ELSE Tail(timeline.todo)
  <2>1. left \in Seq(Blocks)
    BY <1>3
  <2> HIDE DEF left
  <2>2. timeline' = [timeline EXCEPT !.ops = done.ops, !.raised = done.raised, !.todo = left]
    BY <1>2 DEF left
  <2>3. QED
    BY <1>1, <1>5, <2>1, <2>2 DEF Timeline
<1>7. \A i \in DOMAIN done.ops, l \in Layers :
        done.ops[i].op = "schedule_ssd_read" /\ evaluation[l] # None =>
          done.ops[i].block \notin evaluation[l].hits
  <2>1. \A i \in DOMAIN done.ops : done.ops[i].block \in Blocks
    <3>1. \A i \in DOMAIN done.ops : done.ops[i] \in Op
      BY <1>5
    <3>2. QED
      BY <3>1 DEF Op
  <2>2. HitsOffSsd
    BY DEF DecodeInv
  <2>3. QED
    BY <1>1, <1>4, <2>1, <2>2 DEF ReadsWereOnSsd, ReadsOfNoHit, HitsOffSsd
<1>8. ReadsOfNoHit'
  BY <1>2, <1>6, <1>7 DEF ReadsOfNoHit
<1>9. HitsOffSsd'
  BY <1>2, <1>4 DEF DecodeInv, HitsOffSsd, SsdBlocks
<1>10. SelectionsMade'
  BY <1>2 DEF DecodeInv, SelectionsMade
<1>11. DecodeInv'
  BY <1>1, <1>2, <1>4, <1>5, <1>6, <1>8, <1>9, <1>10 DEF DecodeInv
<1>12. ioOpCount' + Cardinality(OnSsd') = ioOpCount + Cardinality(OnSsd)
  <2>1. OnSsd = SsdBlocks(location) /\ OnSsd' = SsdBlocks(done.location)
    BY <1>2 DEF OnSsd, SsdBlocks
  <2>2. SsdBlocks(location) \in SUBSET Blocks /\ SsdBlocks(done.location) \in SUBSET Blocks
    BY DEF SsdBlocks
  <2>3. /\ Cardinality(SsdBlocks(location)) \in Nat
        /\ Cardinality(SsdBlocks(done.location)) \in Nat
    BY <2>2, BlockAssumption, FS_Subset, FS_CardinalityType
  <2>4. QED
    BY <1>1, <1>2, <1>4, <1>5, <2>1, <2>3
<1>13. QED
  BY <1>8, <1>11, <1>12

LEMMA DecodeInvNext ==
  ASSUME DecodeInv, Next
  PROVE  /\ DecodeInv'
         /\ ioOpCount' + Cardinality(OnSsd') = ioOpCount + Cardinality(OnSsd)
         /\ timeline' # timeline => ReadsOfNoHit'
<1>1. CASE ScheduleNext
  BY <1>1, DecodeInvTurn
<1>2. CASE ~Scheduling /\ \E l \in Layers : ExecutePrefetch(l)
  BY <1>2, DecodeInvExecute DEF ExecutePrefetch
<1>3. ASSUME ~Scheduling, UNCHANGED <<location, ioOpCount>>, DecodeInv',
             timeline' # timeline => ReadsOfNoHit'
      PROVE  /\ DecodeInv'
             /\ ioOpCount' + Cardinality(OnSsd') = ioOpCount + Cardinality(OnSsd)
             /\ timeline' # timeline => ReadsOfNoHit'
  BY <1>3 DEF OnSsd
<1>4. CASE ~Scheduling /\ NextToken
  <2>1. UNCHANGED <<config, location, selection, plan, evaluation, timeline, ioOpCount>>
    BY <1>4 DEF NextToken
  <2>2. DecodeInv'
    BY <1>4, <2>1 DEF DecodeInv, SelectionsMade, HitsOffSsd, Scheduling
  <2>3. QED
    BY <1>3, <1>4, <2>1, <2>2
<1>5. CASE ~Scheduling /\ \E l \in Layers : SelectLayer(l)
  <2>1. UNCHANGED <<location, ioOpCount, timeline>>
    BY <1>5 DEF SelectLayer
  <2>2. QED
    BY <1>3, <1>5, <2>1, DecodeInvSelect
<1>6. ASSUME ~Scheduling, NEW l \in Layers, selection[l] # None,
             NEW limit \in PrefetchLimits, NEW predicted \in Seq(Blocks),
             PlanPrefetch(l, predicted, limit)
      PROVE  /\ DecodeInv'
             /\ ioOpCount' + Cardinality(OnSsd') = ioOpCount + Cardinality(OnSsd)
             /\ timeline' # timeline => ReadsOfNoHit'
  <2>1. UNCHANGED <<location, ioOpCount, timeline>>
    BY <1>6 DEF PlanPrefetch
  <2>2. limit = NoLimit \/ limit \in Nat
    BY DecodeAssumption
  <2>3. DecodeInv'
    BY <1>6, <2>2, DecodeInvPlan
  <2>4. QED
    BY <1>3, <1>6, <2>1, <2>3
<1>7. CASE ~Scheduling /\ \E l \in Layers : selection[l] # None /\ \E limit \in PrefetchLimits :
               \/ PlanPrefetch(l, selection[l].result.selected, limit)
               \/ PlanPrefetch(l, AllBlocks(selection[l].result), limit)
  BY <1>6, <1>7, SelectedBlocks
<1>8. CASE ~Scheduling /\ \E l \in Layers : EvaluatePrefetch(l)
  <2>1. UNCHANGED <<location, ioOpCount, timeline>>
    BY <1>8 DEF EvaluatePrefetch
  <2>2. QED
    BY <1>3, <1>8, <2>1, DecodeInvEvaluate
<1>9. CASE ~Scheduling /\ \E l \in Layers : BeginSchedule(l)
  <2>1. UNCHANGED <<location, ioOpCount>>
    BY <1>9 DEF BeginSchedule
  <2>2. QED
    BY <1>3, <1>9, <2>1, DecodeInvBegin
<1>10. QED
  BY <1>1, <1>2, <1>4, <1>5, <1>7, <1>8, <1>9 DEF Next, Call

LEMMA DecodeInvStutter ==
  ASSUME DecodeInv, UNCHANGED vars
  PROVE  /\ DecodeInv'
         /\ ioOpCount' + Cardinality(OnSsd') = ioOpCount + Cardinality(OnSsd)
<1>1. UNCHANGED <<config, location, selection, plan, evaluation, timeline, ioOpCount>>
  BY DEF vars
<1>2. QED
  BY <1>1 DEF DecodeInv, SelectionsMade, HitsOffSsd, ReadsOfNoHit, OnSsd

THEOREM DecodeInvHolds == Spec => []DecodeInv
<1>1. DecodeInv /\ [Next]_vars => DecodeInv'
  BY DecodeInvNext, DecodeInvStutter
<1>2. QED
  BY <1>1, DecodeInvInit, PTL DEF Spec

(* select returns three disjoint groups, each what its rank definition     *)
(* says, for every store, token and configuration.                         *)
THEOREM SelectionsAreCorrect == Spec => []SelectionCorrect
<1>1. DecodeInv => SelectionCorrect
  BY SelectedBlocks DEF SelectionCorrect
<1>2. QED
  BY <1>1, DecodeInvHolds, PTL

(* No mixture of prefetches and schedules reads a block from SSD twice.    *)
THEOREM BlocksAreReadOnce == Spec => ReadOnce
<1>1. DecodeInv /\ [Next]_vars =>
        [ioOpCount' + Cardinality(OnSsd') = ioOpCount + Cardinality(OnSsd)]_vars
  BY DecodeInvNext, DecodeInvStutter
<1>2. QED
  BY <1>1, DecodeInvHolds, PTL DEF Spec, ReadOnce

(* schedule never raises while it computes in VRAM.                        *)
THEOREM SchedulesDoNotRaise == Spec => []ScheduleNeverRaises
<1>1. DecodeInv => ScheduleNeverRaises
  BY DEF DecodeInv, ScheduleNeverRaises
<1>2. QED
  BY <1>1, DecodeInvHolds, PTL

(* A hit of the last evaluation never makes a schedule wait for the SSD.   *)
THEOREM HitsNeverStall == Spec => HitsDoNotStall
<1>1. DecodeInv /\ [Next]_vars =>
        [timeline' # timeline =>
           \A i \in DOMAIN timeline'.ops, l \in Layers :
             timeline'.ops[i].op = "schedule_ssd_read" /\ evaluation[l] # None =>
               timeline'.ops[i].block \notin evaluation[l].hits]_vars
  <2> SUFFICES ASSUME DecodeInv, Next, timeline' # timeline
               PROVE  \A i \in DOMAIN timeline'.ops, l \in Layers :
                        timeline'.ops[i].op = "schedule_ssd_read" /\ evaluation[l] # None =>
                          timeline'.ops[i].block \notin evaluation[l].hits
    OBVIOUS
  <2>1. ReadsOfNoHit'
    BY DecodeInvNext
  <2>2. evaluation' = evaluation
    BY DEF Next, Call, NextToken, SelectLayer, PlanPrefetch, ExecutePrefetch, EvaluatePrefetch,
           BeginSchedule, ScheduleNext
  <2>3. QED
    BY <2>1, <2>2 DEF ReadsOfNoHit
<1>2. QED
  BY <1>1, DecodeInvHolds, PTL DEF Spec, HitsDoNotStall
=============================================================================
