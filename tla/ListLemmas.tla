----------------------------- MODULE ListLemmas ------------------------------
(***************************************************************************)
(* Lemmas the other proofs share: induction over a set of numbers, what    *)
(* AtPlaces takes out of a sequence of any length, and what gluing a       *)
(* sequence of sequences together gives.                                   *)
(***************************************************************************)
EXTENDS Excerpts, SequencesExt, FiniteSetTheorems, SequenceTheorems, WellFoundedInduction, TLAPS

(***************************************************************************)
(* What a recursive function computes is shown by induction over a set of  *)
(* numbers: the least number outside of it would be a contradiction.       *)
(***************************************************************************)

LEMMA LeastElement ==
  ASSUME NEW T \in SUBSET Nat, T # {}
  PROVE  \E m \in T : \A n \in T : m <= n
<1>1. PICK m \in T : \A n \in T : ~ (<<n, m>> \in OpToRel(<, Nat))
  BY NatLessThanWellFounded, WFMin
<1>2. ASSUME NEW n \in T, n < m
      PROVE  FALSE
  BY <1>1, <1>2 DEF OpToRel
<1>3. \A n \in T : n \in Nat /\ m \in Nat /\ ~ (n < m)
  BY <1>2
<1> QED
  BY <1>3

LEMMA SetInduction ==
  ASSUME NEW T \in SUBSET Nat, 0 \in T, \A n \in T : n + 1 \in T
  PROVE  T = Nat
<1> DEFINE U == Nat \ T
<1>1. SUFFICES ASSUME U # {}
               PROVE  FALSE
  OBVIOUS
<1>2. PICK m \in U : \A n \in U : m <= n
  BY <1>1, LeastElement
<1>3. m # 0 /\ m - 1 \in Nat /\ m - 1 \notin U
  BY <1>2
<1> QED
  BY <1>2, <1>3
------------------------------------------------------------------------------
(* How many of a finite set of places are up to a place.                   *)
LEMMA Ranks ==
  ASSUME NEW S \in SUBSET Nat, IsFiniteSet(S)
  PROVE  /\ Cardinality(S) \in Nat
         /\ \A p \in Nat : Rank(S, p) \in Nat /\ Rank(S, p) <= Cardinality(S)
         /\ \A p \in S : Rank(S, p) \in 1..Cardinality(S)
         /\ \A p, q \in S : p < q => Rank(S, p) < Rank(S, q)
<1> DEFINE U(p) == {q \in S : q <= p}
<1>1. \A p : U(p) \in SUBSET S
  OBVIOUS
<1>2. Cardinality(S) \in Nat
  BY FS_CardinalityType
<1>3. \A p \in Nat : /\ IsFiniteSet(U(p)) /\ Rank(S, p) = Cardinality(U(p))
                     /\ Rank(S, p) \in Nat /\ Rank(S, p) <= Cardinality(S)
  BY <1>1, FS_Subset, FS_CardinalityType DEF Rank
<1>4. ASSUME NEW p \in S
      PROVE  Rank(S, p) \in 1..Cardinality(S)
  <2>1. p \in U(p) /\ p \in Nat
    OBVIOUS
  <2>2. Cardinality(U(p)) # 0
    <3> HIDE DEF U
    <3> QED
      BY <2>1, <1>3, FS_EmptySet
  <2> QED
    BY <1>2, <1>3, <2>1, <2>2
<1>5. ASSUME NEW p \in S, NEW q \in S, p < q
      PROVE  Rank(S, p) < Rank(S, q)
  <2>1. p \in Nat /\ q \in Nat
    OBVIOUS
  <2>2. \A x \in Nat : x <= p => x <= q
    BY <1>5, <2>1
  <2>3. q <= q /\ ~ (q <= p)
    BY <1>5, <2>1
  <2>4. U(p) \in SUBSET U(q) /\ q \in U(q) /\ q \notin U(p)
    BY <2>2, <2>3
  <2> HIDE DEF U
  <2>5. Cardinality(U(p)) <= Cardinality(U(q)) /\ Cardinality(U(p)) # Cardinality(U(q))
    BY <1>3, <2>1, <2>4, FS_Subset
  <2> QED
    BY <1>3, <2>1, <2>5
<1> QED
  BY <1>2, <1>3, <1>4, <1>5

(* A list of places in their order.                                        *)
Enumerates(e, k, S) ==
  /\ e \in [1..k -> S]
  /\ \A i, j \in 1..k : i < j => e[i] < e[j]
  /\ \A p \in S : \E i \in 1..k : e[i] = p

LEMMA PlacesEnumerated ==
  ASSUME NEW S \in SUBSET Nat, IsFiniteSet(S)
  PROVE  /\ Cardinality(S) \in Nat
         /\ Enumerates([r \in 1..Cardinality(S) |-> Place(S, r)], Cardinality(S), S)
<1> DEFINE k == Cardinality(S)
           f == [p \in S |-> Rank(S, p)]
           e == [r \in 1..k |-> Place(S, r)]
<1>1. k \in Nat
  BY Ranks
<1>2. f \in Injection(S, 1..k)
  <2>1. f \in [S -> 1..k]
    BY Ranks
  <2>2. ASSUME NEW p \in S, NEW q \in S, f[p] = f[q]
        PROVE  p = q
    <3>1. p \in Nat /\ q \in Nat /\ Rank(S, p) = Rank(S, q)
          /\ Rank(S, p) \in Nat
      BY <2>2, Ranks
    <3>2. ~ (p < q) /\ ~ (q < p)
      BY <3>1, Ranks
    <3> QED
      BY <3>1, <3>2
  <2> HIDE DEF f
  <2> QED
    BY <2>1, <2>2 DEF Injection, IsInjective
<1>3. f \in Surjection(S, 1..k)
  <2>1. IsFiniteSet(1..k) /\ Cardinality(1..k) = k
    BY <1>1, FS_Interval
  <2> HIDE DEF f
  <2> QED
    BY <1>2, <2>1, FS_Injection
<1>4. ASSUME NEW r \in 1..k
      PROVE  e[r] \in S /\ Rank(S, e[r]) = r
  <2>1. PICK p \in S : f[p] = r
    <3> HIDE DEF f, k
    <3> QED
      BY <1>3 DEF Surjection
  <2>2. Rank(S, p) = r
    BY <2>1
  <2> QED
    BY <2>2 DEF Place
<1>5. ASSUME NEW i \in 1..k, NEW j \in 1..k, i < j
      PROVE  e[i] < e[j]
  <2> DEFINE p == e[i]
             q == e[j]
  <2> HIDE DEF e
  <2>1. p \in S /\ q \in S /\ Rank(S, p) = i /\ Rank(S, q) = j
    BY <1>4
  <2> HIDE DEF p, q, k
  <2>2. i \in Nat /\ j \in Nat /\ p \in Nat /\ q \in Nat /\ ~ (j < i) /\ i # j
    BY <1>1, <1>5, <2>1
  <2>3. p # q /\ ~ (q < p)
    BY <2>1, <2>2, Ranks
  <2>4. p < q
    BY <2>2, <2>3
  <2> QED
    BY <2>4 DEF p, q
<1>6. ASSUME NEW p \in S
      PROVE  \E i \in 1..k : e[i] = p
  <2>1. Rank(S, p) \in 1..k
    BY Ranks
  <2> DEFINE q == e[Rank(S, p)]
  <2>2. q \in S /\ Rank(S, q) = Rank(S, p)
    <3> HIDE DEF e
    <3> QED
      BY <1>4, <2>1
  <2> HIDE DEF e
  <2>3. p \in Nat /\ q \in Nat
    BY <2>2
  <2>4. ~ (p < q) /\ ~ (q < p)
    <3> HIDE DEF q
    <3>1. Rank(S, p) \in Nat
      BY <2>3, Ranks
    <3> QED
      BY <2>2, <3>1, Ranks
  <2> QED
    BY <2>1, <2>3, <2>4
<1> HIDE DEF e, k
<1>7. e \in [1..k -> S]
  BY <1>4 DEF e
<1>8. Enumerates(e, k, S)
  BY <1>5, <1>6, <1>7 DEF Enumerates
<1> QED
  BY <1>1, <1>8 DEF e, k

LEMMA EnumeratedOnce ==
  ASSUME NEW S \in SUBSET Nat, NEW k \in Nat, NEW e, Enumerates(e, k, S)
  PROVE  /\ IsFiniteSet(S) /\ Cardinality(S) = k
         /\ \A r \in 1..k : e[r] \in S /\ Rank(S, e[r]) = r /\ Place(S, r) = e[r]
<1>1. /\ e \in [1..k -> S]
      /\ \A i, j \in 1..k : i < j => e[i] < e[j]
      /\ \A p \in S : \E i \in 1..k : e[i] = p
  BY DEF Enumerates
<1>2. ASSUME NEW i \in 1..k, NEW j \in 1..k
      PROVE  /\ e[i] \in Nat /\ e[j] \in Nat
             /\ e[i] = e[j] => i = j
             /\ e[i] <= e[j] => i <= j
             /\ i <= j => e[i] <= e[j]
  <2>1. e[i] \in Nat /\ e[j] \in Nat /\ i \in Nat /\ j \in Nat
    <3>1. e[i] \in S /\ e[j] \in S
      BY <1>1, Zenon
    <3>2. \A p \in S : p \in Nat
      OBVIOUS
    <3>3. i \in Nat /\ j \in Nat
      OBVIOUS
    <3> QED
      BY <3>1, <3>2, <3>3, Zenon
  <2>2. (i < j => e[i] < e[j]) /\ (j < i => e[j] < e[i])
    BY <1>1
  <2> QED
    BY <2>1, <2>2
<1>3. ASSUME NEW r \in 1..k
      PROVE  IsFiniteSet({q \in S : q <= e[r]}) /\ Rank(S, e[r]) = r
  <2> DEFINE U == {q \in S : q <= e[r]}
             g == [i \in 1..r |-> e[i]]
  <2>1. r \in Nat /\ \A i \in 1..r : i \in 1..k /\ i <= r
    OBVIOUS
  <2>2. \A i \in 1..k : i <= r => i \in 1..r
    BY <2>1
  <2>3. \A i \in 1..r : e[i] \in U
    BY <1>1, <1>2, <2>1
  <2>4. \A p \in U : \E i \in 1..r : e[i] = p
    BY <1>1, <1>2, <2>2
  <2>5. \A i, j \in 1..r : e[i] = e[j] => i = j
    BY <1>2, <2>1
  <2> HIDE DEF U
  <2>6. g \in [1..r -> U]
    BY <2>3
  <2>7. \A p \in U : \E i \in 1..r : g[i] = p
    BY <2>4
  <2>8. \A i, j \in 1..r : g[i] = g[j] => i = j
    BY <2>5
  <2> HIDE DEF g
  <2>9. g \in Bijection(1..r, U)
    BY <2>6, <2>7, <2>8 DEF Bijection, Injection, Surjection, IsInjective
  <2>10. IsFiniteSet(1..r) /\ Cardinality(1..r) = r
    BY <2>1, FS_Interval
  <2>11. IsFiniteSet(U) /\ Cardinality(U) = r
    BY <2>9, <2>10, FS_Bijection DEF ExistsBijection
  <2> QED
    BY <2>11 DEF Rank, U
<1>4. IsFiniteSet(S) /\ Cardinality(S) = k
  <2>1. e \in Bijection(1..k, S)
    BY <1>1, <1>2 DEF Bijection, Injection, Surjection, IsInjective
  <2>2. IsFiniteSet(1..k) /\ Cardinality(1..k) = k
    BY FS_Interval
  <2> QED
    BY <2>1, <2>2, FS_Bijection DEF ExistsBijection
<1>5. ASSUME NEW r \in 1..k
      PROVE  Place(S, r) = e[r]
  <2>1. \A p \in S : Rank(S, p) = r => p = e[r]
    <3> SUFFICES ASSUME NEW p \in S, Rank(S, p) = r
                 PROVE  p = e[r]
      OBVIOUS
    <3>1. PICK i \in 1..k : e[i] = p
      BY <1>1
    <3> QED
      BY <1>3, <3>1
  <2>2. e[r] \in S /\ Rank(S, e[r]) = r
    BY <1>1, <1>3
  <2> QED
    BY <2>1, <2>2 DEF Place
<1> QED
  BY <1>1, <1>3, <1>4, <1>5

LEMMA AtEnumerated ==
  ASSUME NEW S \in SUBSET Nat, NEW k \in Nat, NEW e, Enumerates(e, k, S), NEW seq
  PROVE  AtPlaces(seq, S) = [r \in 1..k |-> seq[e[r]]]
<1>1. Cardinality(S) = k /\ \A r \in 1..k : Place(S, r) = e[r]
  BY EnumeratedOnce
<1> QED
  BY <1>1 DEF AtPlaces
------------------------------------------------------------------------------
(* What is at some places of a sequence.                                   *)
LEMMA Excerpt ==
  ASSUME NEW A, NEW l \in Seq(A), NEW J \in SUBSET (1..Len(l))
  PROVE  /\ AtPlaces(l, J) \in Seq(A)
         /\ Len(AtPlaces(l, J)) = Cardinality(J) /\ Cardinality(J) \in 0..Len(l)
         /\ \A r \in 1..Cardinality(J) :
              AtPlaces(l, J)[r] = l[Place(J, r)] /\ Place(J, r) \in J /\ Rank(J, Place(J, r)) = r
         /\ \A r, s \in 1..Cardinality(J) : r < s => Place(J, r) < Place(J, s)
         /\ \A p \in J : Rank(J, p) \in 1..Cardinality(J) /\ Place(J, Rank(J, p)) = p
<1> DEFINE k == Cardinality(J)
           e == [r \in 1..k |-> Place(J, r)]
           m == AtPlaces(l, J)
<1>1. Len(l) \in Nat /\ J \in SUBSET Nat
  OBVIOUS
<1>2. IsFiniteSet(J) /\ k \in Nat /\ k <= Len(l)
  <2>1. IsFiniteSet(1..Len(l)) /\ Cardinality(1..Len(l)) = Len(l)
    <3> DEFINE n == Len(l)
    <3>1. n \in Nat
      BY <1>1
    <3> HIDE DEF n
    <3>2. IsFiniteSet(1..n) /\ Cardinality(1..n) = n
      BY <3>1, FS_Interval
    <3> QED
      BY <3>2 DEF n
  <2>2. IsFiniteSet(J) /\ Cardinality(J) <= Cardinality(1..Len(l))
    BY <2>1, FS_Subset, Zenon
  <2>3. k \in Nat
    BY <2>2, FS_CardinalityType
  <2> QED
    BY <2>1, <2>2, <2>3
<1>3. Enumerates(e, k, J)
  BY <1>1, <1>2, PlacesEnumerated
<1> HIDE DEF e
<1>4. \A r \in 1..k : e[r] \in J /\ Rank(J, e[r]) = r
  BY <1>1, <1>2, <1>3, EnumeratedOnce
<1>5. \A r \in 1..k : Place(J, r) = e[r] /\ Place(J, r) \in J /\ Rank(J, Place(J, r)) = r
  BY <1>4 DEF e
<1>6. \A r, s \in 1..k : r < s => Place(J, r) < Place(J, s)
  BY <1>3, <1>5 DEF Enumerates
<1>7. ASSUME NEW p \in J
      PROVE  Rank(J, p) \in 1..k /\ Place(J, Rank(J, p)) = p
  <2>1. PICK r \in 1..k : e[r] = p
    BY <1>3 DEF Enumerates
  <2> QED
    BY <1>4, <1>5, <2>1
<1>8. m = [r \in 1..k |-> l[Place(J, r)]]
  BY DEF AtPlaces
<1>9. \A r \in 1..k : l[Place(J, r)] \in A
  <2>1. \A p \in J : l[p] \in A
    OBVIOUS
  <2> QED
    BY <1>5, <2>1
<1> HIDE DEF m, k
<1>10. m \in Seq(A) /\ Len(m) = k /\ \A r \in 1..k : m[r] = l[Place(J, r)]
  BY <1>2, <1>8, <1>9
<1>11. k \in 0..Len(l)
  BY <1>1, <1>2
<1> QED
  BY <1>5, <1>6, <1>7, <1>10, <1>11 DEF k, m

(* Places among places are places, too.                                    *)
LEMMA ExcerptOfExcerpt ==
  ASSUME NEW A, NEW l \in Seq(A), NEW J \in SUBSET (1..Len(l)),
         NEW R \in SUBSET (1..Cardinality(J))
  PROVE  AtPlaces(AtPlaces(l, J), R) = AtPlaces(l, {p \in J : Rank(J, p) \in R})
<1> DEFINE m == AtPlaces(l, J)
           k == Cardinality(R)
           T == {p \in J : Rank(J, p) \in R}
           g == [i \in 1..k |-> Place(J, Place(R, i))]
<1>1. m \in Seq(A) /\ Len(m) = Cardinality(J) /\ T \in SUBSET Nat
  <2>1. \A p \in J : p \in Nat
    OBVIOUS
  <2>2. T \in SUBSET Nat
    BY <2>1
  <2> QED
    BY <2>2, Excerpt
<1>2. R \in SUBSET (1..Len(m))
  BY <1>1
<1>3. /\ k \in Nat
      /\ \A i \in 1..k : Place(R, i) \in R /\ AtPlaces(m, R)[i] = m[Place(R, i)]
      /\ \A i, j \in 1..k : i < j => Place(R, i) < Place(R, j)
      /\ \A r \in R : Rank(R, r) \in 1..k /\ Place(R, Rank(R, r)) = r
  <2> HIDE DEF m
  <2> QED
    BY <1>1, <1>2, Excerpt
<1>4. \A i \in 1..k : /\ Place(R, i) \in 1..Cardinality(J)
                      /\ g[i] \in T /\ m[Place(R, i)] = l[g[i]]
  <2> SUFFICES ASSUME NEW i \in 1..k
               PROVE  /\ Place(R, i) \in 1..Cardinality(J)
                      /\ g[i] \in T /\ m[Place(R, i)] = l[g[i]]
    OBVIOUS
  <2>1. Place(R, i) \in R /\ Place(R, i) \in 1..Cardinality(J)
    BY <1>3
  <2>2. g[i] = Place(J, Place(R, i))
    OBVIOUS
  <2> HIDE DEF g, k
  <2>3. g[i] \in J /\ Rank(J, g[i]) = Place(R, i) /\ m[Place(R, i)] = l[g[i]]
    BY <2>1, <2>2, Excerpt
  <2> QED
    BY <2>1, <2>3
<1>5. \A i, j \in 1..k : i < j => g[i] < g[j]
  BY <1>3, <1>4, Excerpt
<1>6. ASSUME NEW p \in T
      PROVE  \E i \in 1..k : g[i] = p
  <2>1. p \in J /\ Rank(J, p) \in R /\ Place(J, Rank(J, p)) = p
    BY Excerpt
  <2>2. Rank(R, Rank(J, p)) \in 1..k /\ Place(R, Rank(R, Rank(J, p))) = Rank(J, p)
    BY <1>3, <2>1
  <2> QED
    BY <2>1, <2>2
<1> HIDE DEF T
<1>7. g \in [1..k -> T]
  BY <1>4
<1> HIDE DEF g
<1>8. Enumerates(g, k, T)
  BY <1>5, <1>6, <1>7 DEF Enumerates
<1>9. AtPlaces(l, T) = [i \in 1..k |-> l[g[i]]]
  BY <1>1, <1>3, <1>8, AtEnumerated
<1>10. AtPlaces(m, R) = [i \in 1..k |-> m[Place(R, i)]]
  BY DEF AtPlaces
<1>11. AtPlaces(m, R) = AtPlaces(l, T)
  <2> HIDE DEF m, k
  <2> QED
    BY <1>4, <1>9, <1>10
<1> QED
  BY <1>11 DEF T

LEMMA IntervalExcerpt ==
  ASSUME NEW a \in Nat, NEW b \in Nat, NEW seq
  PROVE  AtPlaces(seq, a..b)
           = [i \in 1..(IF a <= b THEN (b - a) + 1 ELSE 0) |-> seq[(a + i) - 1]]
<1> DEFINE n == IF a <= b THEN (b - a) + 1 ELSE 0
           f == [i \in 1..n |-> (a + i) - 1]
<1>1. \A i \in 1..n : f[i] \in a..b /\ f[i] = (a + i) - 1
  OBVIOUS
<1>2. \A i, j \in 1..n : i < j => f[i] < f[j]
  OBVIOUS
<1>3. ASSUME NEW p \in a..b
      PROVE  \E i \in 1..n : f[i] = p
  <2>1. (p - a) + 1 \in 1..n /\ (a + ((p - a) + 1)) - 1 = p
    OBVIOUS
  <2> QED
    BY <2>1
<1>4. f \in [1..n -> a..b]
  BY <1>1
<1>5. n \in Nat /\ a..b \in SUBSET Nat
  OBVIOUS
<1> HIDE DEF f, n
<1>6. PICK k \in Nat : k = n
  BY <1>5
<1>7. PICK e : e = f
  OBVIOUS
<1>8. PICK S \in SUBSET Nat : S = a..b
  BY <1>5
<1>9. Enumerates(e, k, S)
  BY <1>2, <1>3, <1>4, <1>6, <1>7, <1>8 DEF Enumerates
<1>10. Cardinality(S) = k /\ \A i \in 1..k : Place(S, i) = e[i]
  BY <1>9, EnumeratedOnce
<1>11. AtPlaces(seq, S) = [i \in 1..n |-> seq[(a + i) - 1]]
  BY <1>1, <1>6, <1>7, <1>10 DEF AtPlaces
<1> QED
  BY <1>8, <1>11 DEF n

LEMMA PartIsExcerpt ==
  ASSUME NEW A, NEW l \in Seq(A), NEW a \in Nat, NEW b \in Nat, 1 <= a, b <= Len(l)
  PROVE  SubSeq(l, a, b) = AtPlaces(l, a..b)
<1> DEFINE k == IF a <= b THEN (b - a) + 1 ELSE 0
           s == SubSeq(l, a, b)
<1>1. /\ s \in Seq(A) /\ Len(s) = k
      /\ \A i \in 1..k : s[i] = l[(a + i) - 1]
  OBVIOUS
<1>2. \A t \in Seq(A) : t = [i \in 1..Len(t) |-> t[i]]
  OBVIOUS
<1>3. AtPlaces(l, a..b) = [i \in 1..k |-> l[(a + i) - 1]]
  BY IntervalExcerpt
<1> HIDE DEF k, s
<1>4. s = [i \in 1..k |-> l[(a + i) - 1]]
  BY <1>1, <1>2
<1> QED
  BY <1>3, <1>4 DEF s

LEMMA AllIsExcerpt ==
  ASSUME NEW A, NEW l \in Seq(A)
  PROVE  AtPlaces(l, 1..Len(l)) = l
<1>1. SubSeq(l, 1, Len(l)) = l /\ Len(l) \in Nat /\ 1 <= 1 /\ Len(l) <= Len(l)
  OBVIOUS
<1> DEFINE n == Len(l)
<1> HIDE DEF n
<1>2. SubSeq(l, 1, n) = AtPlaces(l, 1..n)
  BY <1>1, PartIsExcerpt DEF n
<1> QED
  BY <1>1, <1>2 DEF n

LEMMA EmptyExcerpt == AtPlaces(<<>>, {}) = <<>>
<1>1. <<>> \in Seq(Nat) /\ {} \in SUBSET (1..Len(<<>>)) /\ Len(<<>>) = 0
  OBVIOUS
<1>2. AtPlaces(<<>>, {}) \in Seq(Nat) /\ Len(AtPlaces(<<>>, {})) \in 0..Len(<<>>)
  <2>1. PICK s, J : s = <<>> /\ J = {}
    OBVIOUS
  <2>2. s \in Seq(Nat) /\ J \in SUBSET (1..Len(s))
    BY <1>1, <2>1
  <2>3. AtPlaces(s, J) \in Seq(Nat) /\ Len(AtPlaces(s, J)) \in 0..Len(s)
    BY <2>2, Excerpt
  <2> QED
    BY <2>1, <2>3
<1>3. \A s \in Seq(Nat) : Len(s) \in 0..0 => s = <<>>
  OBVIOUS
<1> QED
  BY <1>1, <1>2, <1>3

(* If places of one sequence correspond to places of another, in the same  *)
(* order and with the same elements, then the same is there.               *)
LEMMA SameExcerpt ==
  ASSUME NEW A, NEW l \in Seq(A), NEW m \in Seq(A),
         NEW J \in SUBSET (1..Len(l)), NEW K \in SUBSET (1..Len(m)), NEW f,
         \A p \in J : f[p] \in K /\ m[f[p]] = l[p],
         \A p, q \in J : p < q => f[p] < f[q],
         \A q \in K : \E p \in J : f[p] = q
  PROVE  AtPlaces(l, J) = AtPlaces(m, K)
<1>1. Len(l) \in Nat /\ Len(m) \in Nat /\ J \in SUBSET Nat /\ K \in SUBSET Nat
  OBVIOUS
<1>2. IsFiniteSet(J)
  <2>1. IsFiniteSet(1..Len(l))
    BY <1>1, FS_Interval
  <2> QED
    BY <2>1, FS_Subset
<1> DEFINE k == Cardinality(J)
           e == [r \in 1..k |-> Place(J, r)]
           g == [r \in 1..k |-> f[Place(J, r)]]
<1>3. k \in Nat /\ Enumerates(e, k, J)
  BY <1>1, <1>2, PlacesEnumerated
<1>4. \A r \in 1..k : e[r] = Place(J, r) /\ g[r] = f[e[r]] /\ e[r] \in J
  BY <1>3 DEF Enumerates
<1>5. g = [r \in 1..k |-> g[r]]
  OBVIOUS
<1> HIDE DEF k, e, g
<1>6. Enumerates(g, k, K)
  <2>1. \A r \in 1..k : g[r] \in K
    BY <1>4
  <2>2. g \in [1..k -> K]
    BY <1>5, <2>1
  <2>3. \A r, s \in 1..k : r < s => g[r] < g[s]
    BY <1>3, <1>4 DEF Enumerates
  <2>4. ASSUME NEW q \in K
        PROVE  \E r \in 1..k : g[r] = q
    <3>1. PICK p \in J : f[p] = q
      OBVIOUS
    <3>2. PICK r \in 1..k : e[r] = p
      BY <1>3 DEF Enumerates
    <3> QED
      BY <1>4, <3>1, <3>2
  <2> QED
    BY <2>2, <2>3, <2>4 DEF Enumerates
<1>7. AtPlaces(l, J) = [r \in 1..k |-> l[e[r]]]
  BY <1>1, <1>3, AtEnumerated
<1>8. AtPlaces(m, K) = [r \in 1..k |-> m[g[r]]]
  <2>1. k \in Nat /\ K \in SUBSET Nat
    BY <1>1, <1>3
  <2> QED
    BY <2>1, <1>6, AtEnumerated
<1>9. \A r \in 1..k : l[e[r]] = m[g[r]]
  BY <1>4
<1> QED
  BY <1>7, <1>8, <1>9

------------------------------------------------------------------------------
(* A sequence holds its own elements.                                      *)
LEMMA OwnElements ==
  ASSUME NEW S, NEW s \in Seq(S)
  PROVE  s \in Seq(ToSet(s)) /\ ToSet(s) \subseteq S
BY DEF ToSet

LEMMA Appended ==
  ASSUME NEW s, s \in Seq(ToSet(s)), IsInjective(s), NEW e, e \notin ToSet(s)
  PROVE  /\ Append(s, e) \in Seq(ToSet(Append(s, e)))
         /\ ToSet(Append(s, e)) = ToSet(s) \cup {e}
         /\ IsInjective(Append(s, e))
<1> DEFINE S == ToSet(s) \cup {e}
           u == Append(s, e)
<1>1. s \in Seq(S)
  BY SeqMonotonic
<1>2. /\ u \in Seq(S) /\ Len(u) = Len(s) + 1 /\ Len(s) \in Nat
      /\ DOMAIN u = 1..(Len(s) + 1) /\ DOMAIN s = 1..Len(s)
      /\ \A i \in 1..Len(s) : u[i] = s[i]
      /\ u[Len(s) + 1] = e
  BY <1>1
<1> HIDE DEF u
<1>3. \A i \in 1..(Len(s) + 1) : i \in 1..Len(s) \/ i = Len(s) + 1
  BY <1>2
<1>4. ToSet(u) = S
  <2>1. ToSet(u) \subseteq S
    BY <1>2 DEF ToSet
  <2>2. Len(s) + 1 \in DOMAIN u
    BY <1>2
  <2>3. \A i \in DOMAIN s : i \in DOMAIN u /\ u[i] = s[i]
    BY <1>2
  <2> QED
    BY <1>2, <2>1, <2>2, <2>3 DEF ToSet
<1>5. IsInjective(u)
  <2>1. SUFFICES ASSUME NEW i \in DOMAIN u, NEW j \in DOMAIN u, u[i] = u[j]
                 PROVE  i = j
    BY DEF IsInjective
  <2>2. \A k \in DOMAIN s : s[k] # e
    BY DEF ToSet
  <2> QED
    BY <1>2, <1>3, <2>1, <2>2 DEF IsInjective
<1> QED
  BY <1>2, <1>4, <1>5, OwnElements DEF u

LEMMA Concatenated ==
  ASSUME NEW S, NEW s \in Seq(S), NEW t \in Seq(S)
  PROVE  /\ s \o t \in Seq(S)
         /\ ToSet(s \o t) = ToSet(s) \cup ToSet(t)
         /\ IsInjective(s) /\ IsInjective(t) /\ ToSet(s) \cap ToSet(t) = {}
              => IsInjective(s \o t)
<1> DEFINE u == s \o t
<1>1. /\ u \in Seq(S) /\ Len(u) = Len(s) + Len(t) /\ Len(s) \in Nat /\ Len(t) \in Nat
      /\ DOMAIN u = 1..(Len(s) + Len(t)) /\ DOMAIN s = 1..Len(s) /\ DOMAIN t = 1..Len(t)
      /\ \A i \in 1..(Len(s) + Len(t)) :
           u[i] = IF i <= Len(s) THEN s[i] ELSE t[i - Len(s)]
  BY ConcatProperties
<1> HIDE DEF u
<1>2. \A i \in DOMAIN s : i \in DOMAIN u /\ u[i] = s[i]
  BY <1>1
<1>3. \A i \in DOMAIN t : i + Len(s) \in DOMAIN u /\ u[i + Len(s)] = t[i]
  BY <1>1
<1>4. \A i \in DOMAIN u :
        (i \in DOMAIN s /\ u[i] = s[i]) \/ (i - Len(s) \in DOMAIN t /\ u[i] = t[i - Len(s)])
  BY <1>1
<1>5. ToSet(u) = ToSet(s) \cup ToSet(t)
  BY <1>2, <1>3, <1>4 DEF ToSet
<1>6. ASSUME IsInjective(s), IsInjective(t), ToSet(s) \cap ToSet(t) = {}
      PROVE  IsInjective(u)
  <2>1. SUFFICES ASSUME NEW i \in DOMAIN u, NEW j \in DOMAIN u, u[i] = u[j]
                 PROVE  i = j
    BY DEF IsInjective
  <2>2. \A a \in DOMAIN s, b \in DOMAIN t : s[a] # t[b]
    BY <1>6 DEF ToSet
  <2>3. CASE i \in DOMAIN s /\ u[i] = s[i]
    BY <1>4, <1>6, <2>1, <2>2, <2>3 DEF IsInjective
  <2>4. CASE i - Len(s) \in DOMAIN t /\ u[i] = t[i - Len(s)]
    <3>1. j - Len(s) \in DOMAIN t /\ u[j] = t[j - Len(s)]
      BY <1>4, <2>1, <2>2, <2>4
    <3>2. i - Len(s) = j - Len(s)
      BY <1>6, <2>1, <2>4, <3>1 DEF IsInjective
    <3> QED
      BY <1>1, <3>2
  <2> QED
    BY <1>4, <2>3, <2>4
<1> QED
  BY <1>1, <1>5, <1>6 DEF u

(***************************************************************************)
(* FlattenSeq, by its definition: the concatenation of what comes before   *)
(* an element, and of the element.                                         *)
(***************************************************************************)
Flattening(f, seqs) ==
  f = [i \in 1..Len(seqs) |-> IF i = 1 THEN seqs[i] ELSE f[i - 1] \o seqs[i]]

LEMMA FlatteningExists ==
  ASSUME NEW seqs, Len(seqs) \in Nat
  PROVE  \E f : Flattening(f, seqs)
<1> DEFINE Upto(n, f) ==
             f = [i \in 1..n |-> IF i = 1 THEN seqs[i] ELSE f[i - 1] \o seqs[i]]
           T == {n \in Nat : \E f : Upto(n, f)}
<1>1. 0 \in T
  <2>1. Upto(0, [i \in 1..0 |-> i])
    OBVIOUS
  <2> QED
    BY <2>1
<1>2. ASSUME NEW n \in T
      PROVE  n + 1 \in T
  <2>1. PICK f : Upto(n, f)
    OBVIOUS
  <2> DEFINE last == IF n = 0 THEN seqs[1] ELSE f[n] \o seqs[n + 1]
             g == [i \in 1..(n + 1) |-> IF i <= n THEN f[i] ELSE last]
  <2>2. \A i \in 1..n : f[i] = IF i = 1 THEN seqs[i] ELSE f[i - 1] \o seqs[i]
    BY <2>1
  <2> HIDE DEF Upto
  <2>3. n \in Nat
    OBVIOUS
  <2>4. \A i \in 1..n : g[i] = f[i]
    BY <2>3
  <2>5. g[n + 1] = last
    BY <2>3
  <2> HIDE DEF g
  <2>6. ASSUME NEW i \in 1..(n + 1)
        PROVE  g[i] = IF i = 1 THEN seqs[i] ELSE g[i - 1] \o seqs[i]
    <3>1. CASE i \in 1..n
      <4>1. i # 1 => i - 1 \in 1..n
        BY <2>3, <3>1
      <4> QED
        BY <2>2, <2>4, <3>1, <4>1
    <3>2. CASE i = n + 1
      <4>1. n # 0 => n \in 1..n /\ n + 1 # 1 /\ (n + 1) - 1 = n
        BY <2>3
      <4> QED
        BY <2>3, <2>4, <2>5, <3>2, <4>1
    <3> QED
      BY <2>3, <3>1, <3>2
  <2>7. g = [i \in 1..(n + 1) |-> g[i]]
    BY DEF g
  <2>8. Upto(n + 1, g)
    BY <2>6, <2>7 DEF Upto
  <2> QED
    BY <2>3, <2>8
<1>3. Len(seqs) \in T
  BY <1>1, <1>2, SetInduction
<1> QED
  BY <1>3 DEF Flattening

(* FlattenSeq keeps every element of every sequence, and nothing twice.    *)
LEMMA Flattened ==
  ASSUME NEW S, NEW seqs \in Seq(Seq(S)), NEW N \in Nat, Len(seqs) = N
  PROVE  /\ FlattenSeq(seqs) \in Seq(S)
         /\ ToSet(FlattenSeq(seqs)) = UNION {ToSet(seqs[i]) : i \in 1..N}
         /\ (\A i \in 1..N : IsInjective(seqs[i])) /\
            (\A i, j \in 1..N : i # j => ToSet(seqs[i]) \cap ToSet(seqs[j]) = {})
              => IsInjective(FlattenSeq(seqs))
<1> DOMAIN seqs = 1..N /\ \A i \in 1..N : seqs[i] \in Seq(S)
  OBVIOUS
<1>1. CASE N = 0
  <2>1. FlattenSeq(seqs) = <<>>
    BY <1>1 DEF FlattenSeq
  <2> QED
    BY <1>1, <2>1 DEF ToSet, IsInjective
<1>2. CASE N # 0
  <2> DEFINE f == CHOOSE h : Flattening(h, seqs)
             Apart == (\A i \in 1..N : IsInjective(seqs[i])) /\
                      (\A i, j \in 1..N : i # j => ToSet(seqs[i]) \cap ToSet(seqs[j]) = {})
             Before(n) == UNION {ToSet(seqs[i]) : i \in 1..n}
             Good(n) == /\ f[n] \in Seq(S)
                        /\ ToSet(f[n]) = Before(n)
                        /\ Apart => IsInjective(f[n])
             T == {n \in Nat : n \in 1..N => Good(n)}
  <2>1. FlattenSeq(seqs) = f[N]
    BY <1>2 DEF FlattenSeq, Flattening
  <2>2. Flattening(f, seqs)
    BY FlatteningExists
  <2> HIDE DEF f
  <2>3. f[1] = seqs[1]
    BY <1>2, <2>2 DEF Flattening
  <2>4. \A n \in Nat : n >= 1 /\ n + 1 <= N => f[n + 1] = f[n] \o seqs[n + 1]
    <3>1. ASSUME NEW n \in Nat, n >= 1, n + 1 <= N
          PROVE  f[n + 1] = f[n] \o seqs[n + 1]
      <4>1. n + 1 \in 1..N /\ n + 1 # 1 /\ (n + 1) - 1 = n
        BY <3>1
      <4> QED
        BY <2>2, <4>1 DEF Flattening
    <3> QED
      BY <3>1
  <2>5. 0 \in T
    OBVIOUS
  <2>6. ASSUME NEW n \in T
        PROVE  n + 1 \in T
    <3>1. SUFFICES ASSUME n + 1 <= N
                   PROVE  Good(n + 1)
      BY DEF T
    <3>2. CASE n = 0
      <4>1. 1 \in 1..N /\ 1..1 = {1} /\ n + 1 = 1
        BY <1>2, <3>2
      <4>2. Before(1) = ToSet(seqs[1])
        BY <4>1
      <4> HIDE DEF Before
      <4> QED
        BY <2>3, <4>1, <4>2
    <3>3. CASE n # 0
      <4>1. n \in 1..N /\ n + 1 \in 1..N /\ n >= 1
        BY <3>1, <3>3
      <4>2. Good(n)
        BY <4>1
      <4>3. f[n + 1] = f[n] \o seqs[n + 1]
        BY <2>4, <3>1, <4>1
      <4>4. seqs[n + 1] \in Seq(S)
        BY <4>1
      <4>5. Before(n + 1) = Before(n) \cup ToSet(seqs[n + 1])
        <5>1. 1..(n + 1) = (1..n) \cup {n + 1}
          BY <4>1
        <5> QED
          BY <5>1
      <4>6. Apart => Before(n) \cap ToSet(seqs[n + 1]) = {}
        <5>1. \A i \in 1..n : i \in 1..N /\ i # n + 1
          BY <4>1
        <5> QED
          BY <4>1, <5>1
      <4>7. Apart => IsInjective(seqs[n + 1])
        BY <4>1
      <4> HIDE DEF Before, Apart
      <4>8. /\ f[n] \o seqs[n + 1] \in Seq(S)
            /\ ToSet(f[n] \o seqs[n + 1]) = Before(n) \cup ToSet(seqs[n + 1])
            /\ Apart => IsInjective(f[n] \o seqs[n + 1])
        BY <4>2, <4>4, <4>6, <4>7, Concatenated
      <4> QED
        BY <4>3, <4>5, <4>8
    <3> QED
      BY <3>2, <3>3
  <2> HIDE DEF Good
  <2>7. Good(N)
    <3>1. T = Nat
      BY <2>5, <2>6, SetInduction
    <3>2. N \in 1..N
      BY <1>2
    <3> QED
      BY <3>1, <3>2
  <2> QED
    BY <2>1, <2>7 DEF Good
<1> QED
  BY <1>1, <1>2
LEMMA Joined ==
  ASSUME NEW S, NEW s \in Seq(S), NEW t \in Seq(S), NEW u, u = s \o t
  PROVE  /\ u \in Seq(S) /\ Len(s) \in Nat /\ Len(t) \in Nat /\ Len(u) \in Nat
         /\ Len(s) <= Len(u) /\ Len(u) = Len(s) + Len(t)
         /\ \A x \in 1..Len(s) : u[x] = s[x]
         /\ \A x \in 1..Len(t) : u[Len(s) + x] = t[x]
<1>1. /\ s \o t \in Seq(S) /\ Len(s) \in Nat /\ Len(t) \in Nat
      /\ Len(s \o t) = Len(s) + Len(t)
      /\ \A x \in 1..Len(s) : (s \o t)[x] = s[x]
      /\ \A x \in 1..Len(t) : (s \o t)[Len(s) + x] = t[x]
  OBVIOUS
<1>2. Len(u) \in Nat /\ Len(s) <= Len(u) /\ Len(u) = Len(s) + Len(t)
  BY <1>1
<1> QED
  BY <1>1, <1>2

(* Where the elements of each sequence are: those of the p-th stand behind *)
(* those of the sequences before, in their order.                          *)
Offsets(off, seqs) ==
  /\ off \in [0..Len(seqs) -> Nat]
  /\ off[0] = 0 /\ off[Len(seqs)] = Len(FlattenSeq(seqs))
  /\ \A p \in 1..Len(seqs) : off[p] = off[p - 1] + Len(seqs[p])
  /\ \A p \in 1..Len(seqs) : \A j \in 1..Len(seqs[p]) :
       FlattenSeq(seqs)[off[p - 1] + j] = seqs[p][j]

LEMMA FlattenedPlaces ==
  ASSUME NEW S, NEW seqs \in Seq(Seq(S))
  PROVE  \E off : Offsets(off, seqs)
<1> PICK N \in Nat : Len(seqs) = N
  OBVIOUS
<1> DOMAIN seqs = 1..N /\ \A i \in 1..N : seqs[i] \in Seq(S)
  OBVIOUS
<1>1. CASE N = 0
  <2>1. FlattenSeq(seqs) = <<>>
    BY <1>1 DEF FlattenSeq
  <2>2. PICK off \in [0..N -> Nat] : off[0] = 0
    <3>1. [n \in 0..N |-> 0] \in [0..N -> Nat] /\ [n \in 0..N |-> 0][0] = 0
      OBVIOUS
    <3> QED
      BY <3>1
  <2>3. Offsets(off, seqs)
    BY <1>1, <2>1, <2>2 DEF Offsets
  <2> QED
    BY <2>3
<1>2. CASE N # 0
  <2> DEFINE f == CHOOSE h : Flattening(h, seqs)
  <2>1. FlattenSeq(seqs) = f[N]
    BY <1>2 DEF FlattenSeq, Flattening
  <2>2. Flattening(f, seqs)
    BY FlatteningExists
  <2> HIDE DEF f
  <2>3. f[1] = seqs[1]
    BY <1>2, <2>2 DEF Flattening
  <2>4. ASSUME NEW n \in Nat, n >= 1, n + 1 <= N
        PROVE  f[n + 1] = f[n] \o seqs[n + 1]
    <3>1. n + 1 \in 1..N /\ n + 1 # 1 /\ (n + 1) - 1 = n
      BY <2>4
    <3> QED
      BY <2>2, <3>1 DEF Flattening
  <2> DEFINE Good(n) == /\ f[n] \in Seq(S)
                        /\ \A p \in 1..n : \A x \in 1..Len(f[p]) :
                             x <= Len(f[n]) /\ f[n][x] = f[p][x]
             T == {n \in Nat : n \in 1..N => Good(n)}
  <2>5. ASSUME NEW n \in Nat, n \in T
        PROVE  n + 1 \in T
    <3>1. SUFFICES ASSUME n + 1 <= N
                   PROVE  Good(n + 1)
      BY DEF T
    <3>2. CASE n = 0
      <4>1. f[n + 1] \in Seq(S)
        BY <1>2, <2>3, <3>2
      <4>2. Len(f[n + 1]) \in Nat /\ n + 1 = 1 /\ 1..1 = {1}
        BY <3>2, <4>1
      <4> QED
        BY <4>1, <4>2
    <3>3. CASE n # 0
      <4>1. n \in 1..N /\ n + 1 \in 1..N /\ n >= 1
        BY <3>1, <3>3
      <4>2. Good(n)
        BY <2>5, <4>1
      <4>3. f[n + 1] = f[n] \o seqs[n + 1] /\ seqs[n + 1] \in Seq(S) /\ f[n] \in Seq(S)
        BY <2>4, <3>1, <4>1, <4>2
      <4>4. /\ f[n + 1] \in Seq(S) /\ Len(f[n]) \in Nat /\ Len(f[n + 1]) \in Nat
            /\ Len(f[n]) <= Len(f[n + 1])
            /\ \A x \in 1..Len(f[n]) : f[n + 1][x] = f[n][x]
        <5>1. PICK a, b, c : a = f[n] /\ b = seqs[n + 1] /\ c = f[n + 1]
          OBVIOUS
        <5>2. a \in Seq(S) /\ b \in Seq(S) /\ c = a \o b
          BY <4>3, <5>1
        <5> HIDE DEF Good, T
        <5>3. /\ c \in Seq(S) /\ Len(a) \in Nat /\ Len(c) \in Nat /\ Len(a) <= Len(c)
              /\ \A x \in 1..Len(a) : c[x] = a[x]
          BY <5>2, Joined
        <5> QED
          BY <5>1, <5>3
      <4>5. ASSUME NEW p \in 1..(n + 1), NEW x \in 1..Len(f[p])
            PROVE  x <= Len(f[n + 1]) /\ f[n + 1][x] = f[p][x]
        <5>1. CASE p = n + 1
          BY <4>4, <5>1
        <5>2. CASE p \in 1..n
          <6>1. x <= Len(f[n]) /\ f[n][x] = f[p][x] /\ x \in Nat /\ x >= 1
            BY <4>2, <5>2
          <6> QED
            BY <4>4, <6>1
        <5> QED
          BY <4>1, <5>1, <5>2
      <4> QED
        BY <4>4, <4>5
    <3> QED
      BY <3>2, <3>3
  <2>6. T = Nat
    <3>1. 0 \in T
      OBVIOUS
    <3> HIDE DEF T
    <3>2. T \in SUBSET Nat
      BY DEF T
    <3> QED
      BY <2>5, <3>1, <3>2, SetInduction
  <2>7. ASSUME NEW n \in 1..N
        PROVE  Good(n)
    <3> HIDE DEF Good, T
    <3>1. n \in Nat
      OBVIOUS
    <3>2. n \in T
      BY <2>6, <3>1
    <3> QED
      BY <3>2 DEF T
  <2>8. N \in 1..N
    BY <1>2
  <2> DEFINE off == [p \in 0..N |-> IF p = 0 THEN 0 ELSE Len(f[p])]
  <2>9. \A p \in 1..N : f[p] \in Seq(S) /\ Len(f[p]) \in Nat
    BY <2>7
  <2>10. off \in [0..N -> Nat] /\ off[0] = 0 /\ \A p \in 1..N : off[p] = Len(f[p])
    BY <2>9
  <2> HIDE DEF off, T
  <2>11. ASSUME NEW p \in 1..N
         PROVE  /\ off[p] = off[p - 1] + Len(seqs[p])
                /\ \A j \in 1..Len(seqs[p]) : off[p - 1] + j <= Len(f[p])
                                              /\ f[p][off[p - 1] + j] = seqs[p][j]
    <3>1. CASE p = 1
      BY <2>3, <2>10, <3>1
    <3>2. CASE p # 1
      <4>1. PICK n \in Nat : n = p - 1 /\ n \in 1..N /\ n >= 1 /\ n + 1 = p /\ n + 1 <= N
        BY <3>2
      <4>2. f[n + 1] = f[n] \o seqs[n + 1]
        BY <2>4, <4>1
      <4>3. f[n] \in Seq(S) /\ seqs[p] \in Seq(S)
        BY <2>9, <4>1
      <4>4. off[p - 1] = Len(f[n]) /\ off[p] = Len(f[p])
        BY <2>10, <4>1
      <4> HIDE DEF Good
      <4>5. PICK a, b, c, x : a = f[n] /\ b = seqs[p] /\ c = f[p] /\ x = off[p - 1]
        OBVIOUS
      <4>6. a \in Seq(S) /\ b \in Seq(S) /\ c = a \o b /\ x = Len(a) /\ off[p] = Len(c)
        BY <4>1, <4>2, <4>3, <4>4, <4>5
      <4>7. /\ Len(c) = Len(a) + Len(b) /\ Len(a) \in Nat /\ Len(b) \in Nat
            /\ \A j \in 1..Len(b) : c[Len(a) + j] = b[j]
        BY <4>6, Joined
      <4>8. \A j \in 1..Len(b) : x + j <= Len(c) /\ c[x + j] = b[j]
        BY <4>6, <4>7
      <4>9. off[p] = x + Len(b)
        BY <4>6, <4>7
      <4> QED
        BY <4>5, <4>8, <4>9
    <3> QED
      BY <3>1, <3>2
  <2>12. ASSUME NEW p \in 1..N, NEW j \in 1..Len(seqs[p])
         PROVE  f[N][off[p - 1] + j] = seqs[p][j]
    <3>1. p - 1 \in 0..N /\ off[p - 1] \in Nat /\ Len(seqs[p]) \in Nat
      BY <2>10
    <3>2. off[p - 1] + j \in 1..Len(f[p]) /\ f[p][off[p - 1] + j] = seqs[p][j]
      BY <2>9, <2>11, <3>1
    <3>3. Good(N)
      BY <2>7, <2>8
    <3> QED
      BY <3>2, <3>3
  <2>13. off[N] = Len(f[N])
    BY <2>8, <2>10
  <2>14. Offsets(off, seqs)
    BY <2>1, <2>10, <2>11, <2>12, <2>13 DEF Offsets
  <2> QED
    BY <2>14
<1> QED
  BY <1>1, <1>2
==============================================================================
