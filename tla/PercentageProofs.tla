-------------------------- MODULE PercentageProofs ---------------------------
(***************************************************************************)
(* Theorems about Percentage, for files of any length and content.  The    *)
(* inductive invariant is the loops': before the i-th line, match_count    *)
(* counts the lines found so far, and the copy's lines before the j-th are *)
(* known to differ from it.                                                *)
(***************************************************************************)
EXTENDS Percentage, FiniteSetTheorems, SequenceTheorems, TLAPS

LoopInv ==
  /\ TypeOK
  /\ Len(ref) > 0
  /\ pc = "compare" =>
       /\ all_count = i - 1
       /\ match_count = Cardinality(Found(i - 1))
       /\ \A l \in 1..(j - 1) : i <= Len(ref) => ref[i] # copy[l]
  /\ pc = "done" =>
       /\ all_count = Len(ref) + Surplus
       /\ match_count = Cardinality(Found(Len(ref)))
       /\ score = Truncated(match_count, all_count)
------------------------------------------------------------------------------
LEMMA DivMod ==
  ASSUME NEW x \in Nat, NEW n \in Nat, n > 0
  PROVE  /\ x \div n \in Nat /\ x % n \in 0..(n - 1)
         /\ n * (x \div n) + (x % n) = x
<1>1. x \div n \in Nat
  BY SMT
<1>2. x % n \in 0..(n - 1)
  BY SMT
<1>3. n * (x \div n) + (x % n) = x
  BY SMT
<1> QED BY <1>1, <1>2, <1>3

(* The truncated share of m in n: at most 100, and 100 only for the whole. *)
LEMMA ShareBounds ==
  ASSUME NEW m \in Nat, NEW n \in Nat, n > 0, m <= n
  PROVE  LET q == (100 * m) \div n
         IN  /\ q \in 0..100
             /\ Truncated(m, n) \in {q - 1, q}
             /\ Truncated(m, n) \in 0..100
             /\ Truncated(m, n) = 100 => m = n
             /\ m = n => q = 100
<1> DEFINE q == (100 * m) \div n
           r == (100 * m) % n
<1>1. 100 * m \in Nat /\ q \in Nat /\ r \in 0..(n - 1) /\ 100 * m = n * q + r
  BY DivMod
<1> HIDE DEF q, r
<1>2. q <= 100
  <2>1. ASSUME q >= 101 PROVE FALSE
    <3>1. n * q >= n * 101
      BY <1>1, <2>1
    <3> QED BY <1>1, <3>1
  <2> QED BY <1>1, <2>1
<1>3. q = 100 => m = n
  BY <1>1
<1>4. m = n => q = 100
  <2>1. ASSUME m = n, q <= 99 PROVE FALSE
    <3>1. n * q <= n * 99
      BY <1>1, <2>1
    <3> QED BY <1>1, <2>1, <3>1
  <2> QED BY <1>1, <1>2, <2>1
<1>5. Truncated(m, n) \in {q - 1, q} /\ (Truncated(m, n) = q - 1 => m > 0 /\ r = 0)
  BY <1>1 DEF Truncated, q, r
<1>6. m > 0 /\ r = 0 => q > 0
  BY <1>1
<1> QED BY <1>1, <1>2, <1>3, <1>4, <1>5, <1>6 DEF q

(* One more line is found, or is not. *)
LEMMA FoundStep ==
  ASSUME NEW n \in Nat
  PROVE  /\ IsFiniteSet(Found(n)) /\ Cardinality(Found(n)) \in 0..n
         /\ Cardinality(Found(n)) = n => Found(n) = 1..n
         /\ Cardinality(Found(n + 1)) =
              IF \E l \in DOMAIN copy : ref[n + 1] = copy[l]
              THEN Cardinality(Found(n)) + 1 ELSE Cardinality(Found(n))
<1>1. /\ IsFiniteSet(1..n) /\ Cardinality(1..n) = n
  BY FS_Interval
<1>2. /\ IsFiniteSet(Found(n)) /\ Cardinality(Found(n)) <= n
      /\ Cardinality(Found(n)) = n => Found(n) = 1..n
  <2>1. Found(n) \in SUBSET (1..n)
    BY DEF Found
  <2> QED BY <1>1, <2>1, FS_Subset
<1>3. Cardinality(Found(n)) \in Nat
  BY <1>2, FS_CardinalityType
<1>4. CASE \E l \in DOMAIN copy : ref[n + 1] = copy[l]
  <2>1. Found(n + 1) = Found(n) \cup {n + 1}
    BY <1>4 DEF Found
  <2>2. n + 1 \notin Found(n)
    BY DEF Found
  <2>3. Cardinality(Found(n + 1)) = Cardinality(Found(n)) + 1
    BY <1>2, <2>1, <2>2, FS_AddElement
  <2> QED BY <1>2, <1>3, <1>4, <2>3
<1>5. CASE ~ \E l \in DOMAIN copy : ref[n + 1] = copy[l]
  <2>1. Found(n + 1) = Found(n)
    BY <1>5 DEF Found
  <2> QED BY <1>2, <1>3, <1>5, <2>1
<1> QED BY <1>4, <1>5

LEMMA InitLoop == Init => LoopInv
<1> SUFFICES ASSUME Init PROVE LoopInv
  OBVIOUS
<1>1. ref \in Seq(Lines) /\ copy \in Seq(Lines) /\ Len(ref) \in Nat \ {0} /\ Len(copy) \in Nat \ {0}
  BY FilesAssumption, LenProperties DEF Init
<1>2. Found(0) = {}
  BY DEF Found
<1>3. Cardinality(Found(0)) = 0
  BY <1>2, FS_EmptySet
<1>4. i = 1 /\ j = 1 /\ match_count = 0 /\ all_count = 0 /\ score = 0 /\ pc = "compare"
  BY DEF Init
<1>5. TypeOK
  BY <1>1, <1>4 DEF Init, TypeOK
<1> QED BY <1>1, <1>3, <1>4, <1>5 DEF LoopInv

(* The inner loop ends at a match, or after the copy's last line. *)
LEMMA LineStep ==
  ASSUME LoopInv, Match \/ NoMatch
  PROVE  LoopInv'
<1> USE DEF LoopInv, TypeOK, Comparing
<1>1. /\ Comparing /\ UNCHANGED <<signature, ref, copy, pc, score>>
      /\ i' = i + 1 /\ j' = 1 /\ all_count' = all_count + 1
  BY DEF Match, NoMatch
<1>2. /\ Len(ref) \in Nat /\ Len(copy) \in Nat /\ i \in 1..Len(ref) /\ i - 1 \in Nat
      /\ DOMAIN copy = 1..Len(copy) /\ all_count = i - 1
      /\ match_count = Cardinality(Found(i - 1))
  BY <1>1, LenProperties
<1>3. i \in Nat /\ all_count' = i /\ i' - 1 = i
  BY <1>1, <1>2
<1>4. match_count' = Cardinality(Found(i))
  <2>1. (i - 1) + 1 = i
    BY <1>2
  <2>2. Cardinality(Found(i)) = IF \E l \in DOMAIN copy : ref[i] = copy[l]
                                THEN match_count + 1 ELSE match_count
    BY <1>2, <2>1, FoundStep
  <2>3. CASE Match
    BY <2>2, <2>3, <1>2 DEF Match
  <2>4. CASE NoMatch
    <3>1. \A l \in 1..Len(copy) : ref[i] # copy[l]
      BY <2>4, <1>2 DEF NoMatch
    <3> QED BY <2>2, <2>4, <3>1, <1>2 DEF NoMatch
  <2> QED BY <2>3, <2>4
<1>5. (Found(i - 1))' = Found(i)
  BY <1>1, <1>3 DEF Found
<1>6. match_count' \in 0..all_count'
  BY <1>3, <1>4, FoundStep
<1>7. TypeOK'
  <2>1. signature' \in BOOLEAN /\ pc' \in {"compare", "done"} /\ ref' \in Seq(Lines) /\ copy' \in Seq(Lines)
    BY <1>1
  <2>2. i' \in 1..(Len(ref') + 1) /\ j' \in 1..(Len(copy') + 1) /\ all_count' \in Nat /\ score' \in Nat
    BY <1>1, <1>2
  <2> QED BY <1>6, <2>1, <2>2
<1>8. pc' = "compare" /\ \A l \in 1..(j' - 1) : FALSE
  BY <1>1
<1> QED BY <1>1, <1>3, <1>4, <1>5, <1>7, <1>8

LEMMA MismatchStep == ASSUME LoopInv, Mismatch PROVE LoopInv'
<1> USE DEF LoopInv, Comparing, Mismatch
<1>1. /\ j' = j + 1 /\ j \in 1..Len(copy) /\ Len(copy) \in Nat /\ Len(ref) \in Nat
      /\ UNCHANGED <<signature, ref, copy, pc, i, match_count, all_count, score>>
      /\ pc = "compare"
  BY LenProperties DEF TypeOK
<1>2. TypeOK'
  BY <1>1 DEF TypeOK
<1>3. \A l \in 1..j : ref[i] # copy[l]
  BY <1>1
<1>4. (Found(i - 1))' = Found(i - 1)
  BY <1>1 DEF Found
<1> QED BY <1>1, <1>2, <1>3, <1>4

LEMMA FinishStep == ASSUME LoopInv, Finish PROVE LoopInv'
<1>1. /\ UNCHANGED <<signature, ref, copy, i, j, match_count>> /\ pc' = "done"
      /\ all_count' = all_count + Surplus /\ score' = Truncated(match_count, all_count')
  BY DEF Finish
<1>2. /\ Len(ref) \in Nat /\ Len(ref) > 0 /\ i - 1 = Len(ref) /\ i \in Nat
      /\ all_count = Len(ref) /\ match_count = Cardinality(Found(Len(ref)))
  BY LenProperties DEF Finish, LoopInv, TypeOK
<1>3. Surplus \in Nat
  BY LenProperties DEF Surplus, LoopInv, TypeOK
<1>4. match_count \in 0..Len(ref)
  BY <1>2, FoundStep
<1>5. score' \in Nat
  <2>1. match_count \in Nat /\ all_count' \in Nat /\ all_count' > 0 /\ match_count <= all_count'
    BY <1>1, <1>2, <1>3, <1>4
  <2>2. Truncated(match_count, all_count') \in 0..100
    BY <2>1, ShareBounds
  <2> QED BY <1>1, <2>2
<1>6. Surplus' = Surplus /\ (Found(Len(ref)))' = Found(Len(ref))
  BY <1>1 DEF Surplus, Found
<1>7. TypeOK'
  BY <1>1, <1>2, <1>3, <1>4, <1>5 DEF LoopInv, TypeOK
<1> QED BY <1>1, <1>2, <1>6, <1>7 DEF LoopInv

LEMMA Loops == Spec => []LoopInv
<1>1. LoopInv /\ [Next]_vars => LoopInv'
  <2>1. ASSUME LoopInv, UNCHANGED vars PROVE LoopInv'
    BY <2>1 DEF vars, LoopInv, TypeOK, Found, Surplus
  <2> QED BY <2>1, LineStep, MismatchStep, FinishStep DEF Next
<1> QED BY <1>1, InitLoop, PTL DEF Spec

(* What the loops leave: the sizes and the count, and what they bound. *)
LEMMA Returned ==
  ASSUME LoopInv, pc = "done"
  PROVE  /\ Len(ref) \in Nat /\ Len(ref) > 0 /\ DOMAIN ref = 1..Len(ref)
         /\ Surplus \in Nat /\ all_count = Len(ref) + Surplus
         /\ match_count \in Nat /\ match_count <= Len(ref)
         /\ match_count = Len(ref) => Found(Len(ref)) = 1..Len(ref)
         /\ match_count <= all_count /\ all_count \in Nat /\ all_count > 0
         /\ score = Truncated(match_count, all_count)
<1>1. Len(ref) \in Nat /\ Len(ref) > 0 /\ DOMAIN ref = 1..Len(ref) /\ Surplus \in Nat
  BY LenProperties DEF LoopInv, TypeOK, Surplus
<1>2. all_count = Len(ref) + Surplus /\ score = Truncated(match_count, all_count)
  BY DEF LoopInv
<1>3. /\ match_count \in Nat /\ match_count <= Len(ref)
      /\ match_count = Len(ref) => Found(Len(ref)) = 1..Len(ref)
  <2>1. match_count = Cardinality(Found(Len(ref)))
    BY DEF LoopInv
  <2> QED BY <1>1, <2>1, FoundStep
<1>4. match_count <= all_count /\ all_count \in Nat /\ all_count > 0
  <2>1. match_count \in Nat /\ match_count <= Len(ref)
    BY <1>3
  <2>2. all_count = Len(ref) + Surplus
    BY <1>2
  <2> QED BY <1>1, <2>1, <2>2
<1> QED BY <1>1, <1>2, <1>3, <1>4

(* The loops of GetMatchedPercentage and GetMatchPercentage keep their     *)
(* counters within the two files, whatever these hold.                     *)
THEOREM TypeCorrect == Spec => []TypeOK
<1>1. LoopInv => TypeOK
  BY DEF LoopInv
<1> QED BY <1>1, Loops, PTL

LEMMA IntervalSize == ASSUME NEW n \in Nat PROVE Cardinality(1..n) = n
<1> QED BY FS_Interval

(***************************************************************************)
(* What both functions return is the truncated share of the reference's    *)
(* lines that occur in the copy, between 0 and 100, for files of any size. *)
(***************************************************************************)
THEOREM ScoreCorrect == Spec => []ScoreIsTheShare
<1>1. LoopInv => ScoreIsTheShare
  <2> SUFFICES ASSUME LoopInv, pc = "done" PROVE ScoreIsTheShare
    BY DEF ScoreIsTheShare
  <2>0. /\ match_count \in Nat /\ all_count \in Nat /\ all_count > 0 /\ match_count <= all_count
        /\ score = Truncated(match_count, all_count)
    BY Returned
  <2>1. /\ score \in {((100 * match_count) \div all_count) - 1,
                      (100 * match_count) \div all_count}
        /\ score \in 0..100
    BY <2>0, ShareBounds
  <2>2. all_count = Len(ref) + Surplus /\ match_count = Cardinality(Found(Len(ref)))
    BY DEF LoopInv
  <2> QED BY <2>1, <2>2 DEF ScoreIsTheShare
<1> QED BY <1>1, Loops, PTL

(***************************************************************************)
(* A full score is a full match, and the score of a file against itself is *)
(* at most one below it: the rounding of 100.0 / n never costs more.       *)
(***************************************************************************)
THEOREM FullScoreCorrect == Spec => []FullScore
<1>1. LoopInv => FullScore
  <2> SUFFICES ASSUME LoopInv, pc = "done" PROVE FullScore
    BY DEF FullScore
  <2>1. ASSUME score = 100
        PROVE  Found(Len(ref)) = DOMAIN ref /\ (signature => Len(copy) >= Len(ref))
    <3>1. match_count = all_count
      BY <2>1, Returned, ShareBounds
    <3>2. match_count = Len(ref) /\ Surplus = 0
      BY <3>1, Returned
    <3>3. signature => Len(copy) >= Len(ref)
      BY <3>2, LenProperties DEF Surplus, LoopInv, TypeOK
    <3> QED BY <3>2, <3>3, Returned
  <2>2. ASSUME ref = copy PROVE score >= 99
    <3>1. Surplus = 0
      BY <2>2, Returned DEF Surplus
    <3>2. Found(Len(ref)) = 1..Len(ref)
      BY <2>2, Returned DEF Found
    <3>3. Cardinality(1..Len(ref)) = Len(ref)
      BY Returned, IntervalSize
    <3>4. match_count = Len(ref)
      BY <3>2, <3>3 DEF LoopInv
    <3>5. match_count = all_count
      BY <3>1, <3>4, Returned
    <3>6. Truncated(match_count, all_count) \in {99, 100}
      BY <3>5, Returned, ShareBounds
    <3> QED BY <3>6, Returned
  <2> QED BY <2>1, <2>2 DEF FullScore
<1> QED BY <1>1, Loops, PTL
==============================================================================
