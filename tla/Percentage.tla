----------------------------- MODULE Percentage ------------------------------
(***************************************************************************)
(* The scores: SignatureCompare::GetMatchedPercentage                      *)
(* (src/src/src/signaturecompare.cc) and LineCompare::GetMatchPercentage   *)
(* (linecompare.cc), whose loops are the same.  A line only matters for    *)
(* being equal to another one.  Sizes fit size_t by far.                   *)
(***************************************************************************)
EXTENDS Integers, Sequences, FiniteSets, FiniteSetsExt

CONSTANTS
  Lines,   \* prepared lines
  Files    \* prepared files; a file without lines is answered 0 before

ASSUME FilesAssumption ==
  \A file \in Files : file \in Seq(Lines) /\ Len(file) > 0

------------------------------------------------------------------------------
(***************************************************************************)
(* static_cast<int>(100.0 / n * m), in IEEE doubles rounded to nearest.    *)
(* Only when n divides 100 * m can rounding matter: the product is then    *)
(* below that integer or not, and is truncated.                            *)
(***************************************************************************)

(* 2^Exponent(n) <= 100/n < 2^(Exponent(n) + 1), for n up to 100 * 2^20. *)
Exponent(n) ==
  IF n <= 100 THEN Max({u \in 0..6 : n * 2^u <= 100})
              ELSE - Min({t \in 0..20 : 100 * 2^t >= n})

(* 100 * 2^k modulo n: what is left after k binary digits of 100/n. *)
Remainder(n, k) ==
  LET left[d \in 0..k] == IF d = 0 THEN 100 % n ELSE (2 * left[d - 1]) % n
  IN  left[k]

(***************************************************************************)
(* The quotient, cut to 53 digits, is rounded down by r/n of its last one; *)
(* times m, that is more than half a digit of the whole number below 100*m *)
(* / n, whose digits are twice as fine below a power of two.               *)
(***************************************************************************)
RoundsBelow(m, n) ==
  LET whole == (100 * m) \div n
      a     == Exponent(n)
      r     == Remainder(n, 52 - a)
      b     == Max({u \in 0..6 : 2^u <= whole})
  IN  2 * r < n /\ 4 * m * r > n * 2^(b - a + IF whole = 2^b THEN 0 ELSE 1)

(* Mutant: the share is rounded to the nearest whole number. *)
RoundedToNearest(m, n) == (200 * m + n) \div (2 * n)

Truncated(m, n) ==
  LET whole == (100 * m) \div n
  IN  IF m > 0 /\ (100 * m) % n = 0 /\ RoundsBelow(m, n) THEN whole - 1 ELSE whole
------------------------------------------------------------------------------
VARIABLES
  signature,   \* GetMatchedPercentage, or else GetMatchPercentage
  ref, copy,   \* the reference's lines and the peer's
  pc, i, j,
  match_count, all_count,
  score

vars == <<signature, ref, copy, pc, i, j, match_count, all_count, score>>

Init ==
  /\ signature \in BOOLEAN
  /\ ref \in Files /\ copy \in Files
  /\ pc = "compare" /\ i = 1 /\ j = 1
  /\ match_count = 0 /\ all_count = 0 /\ score = 0

Comparing == pc = "compare" /\ i <= Len(ref)

(* Mutant: the inner loop goes on after a match. *)
MatchNoBreak ==
  /\ Comparing /\ j <= Len(copy) /\ ref[i] = copy[j]
  /\ match_count' = match_count + 1
  /\ j' = j + 1
  /\ UNCHANGED <<signature, ref, copy, pc, i, all_count, score>>

(* A match ends the inner loop. *)
Match ==
  /\ Comparing /\ j <= Len(copy) /\ ref[i] = copy[j]
  /\ match_count' = match_count + 1
  /\ i' = i + 1 /\ j' = 1 /\ all_count' = all_count + 1
  /\ UNCHANGED <<signature, ref, copy, pc, score>>

Mismatch ==
  /\ Comparing /\ j <= Len(copy) /\ ref[i] # copy[j]
  /\ j' = j + 1
  /\ UNCHANGED <<signature, ref, copy, pc, i, match_count, all_count, score>>

(* The inner loop has gone through the whole copy. *)
NoMatch ==
  /\ Comparing /\ j > Len(copy)
  /\ i' = i + 1 /\ j' = 1 /\ all_count' = all_count + 1
  /\ UNCHANGED <<signature, ref, copy, pc, match_count, score>>

(* Mutant: the surplus is the copy's. *)
SurplusOfCopy ==
  IF signature /\ Len(copy) > Len(ref) THEN Len(copy) - Len(ref) ELSE 0

(* What a longer reference adds to the whole, in the signature score only. *)
Surplus == IF signature /\ Len(ref) > Len(copy) THEN Len(ref) - Len(copy) ELSE 0

Finish ==
  /\ pc = "compare" /\ i > Len(ref)
  /\ all_count' = all_count + Surplus
  /\ score' = Truncated(match_count, all_count')
  /\ pc' = "done"
  /\ UNCHANGED <<signature, ref, copy, i, j, match_count>>

Next == Match \/ Mismatch \/ NoMatch \/ Finish

Spec == Init /\ [][Next]_vars
------------------------------------------------------------------------------
TypeOK ==
  /\ signature \in BOOLEAN
  /\ ref \in Seq(Lines) /\ copy \in Seq(Lines)
  /\ pc \in {"compare", "done"}
  /\ i \in 1..(Len(ref) + 1) /\ j \in 1..(Len(copy) + 1)
  /\ all_count \in Nat /\ match_count \in 0..all_count /\ score \in Nat

(* The lines of the reference, up to the n-th, that occur in the copy. *)
Found(n) == {k \in 1..n : \E l \in DOMAIN copy : ref[k] = copy[l]}

(***************************************************************************)
(* The loops count each line of the reference that occurs in the copy once,*)
(* and the score is that share, rounded towards zero or one below it, of   *)
(* the reference, or of what it would be with its surplus counted twice.   *)
(***************************************************************************)
ScoreIsTheShare ==
  pc = "done" =>
    LET n == Len(ref) + Surplus
        q == (100 * Cardinality(Found(Len(ref)))) \div n
    IN  score \in {q - 1, q} /\ score \in 0..100

(***************************************************************************)
(* 100 means that every line of the reference occurs in the copy, and in   *)
(* the signature score that the copy is as long; a file compared with      *)
(* itself never falls below 99.                                            *)
(***************************************************************************)
FullScore ==
  pc = "done" =>
    /\ score = 100 => /\ Found(Len(ref)) = DOMAIN ref
                      /\ signature => Len(copy) >= Len(ref)
    /\ ref = copy => score >= 99
==============================================================================
