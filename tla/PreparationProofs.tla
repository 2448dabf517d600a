-------------------------- MODULE PreparationProofs --------------------------
(***************************************************************************)
(* Theorems about Preparation, for any number of objects and any disks of  *)
(* tidy files, with any number of lines of any length.                     *)
(*                                                                         *)
(* What RemoveCommentaries does with a tidy line is known from             *)
(* CommentsProofs.  What is added here says that it does the same with the *)
(* line whose extra blanks are gone, and that it does not matter when the  *)
(* lines that are empty are left out.                                      *)
(***************************************************************************)
EXTENDS Preparation, ListLemmas

Rules == INSTANCE CommentsProofs
  WITH Lines <- {}, inside <- FALSE, line <- <<>>, output <- <<>>

Line == Seq(STRING)
------------------------------------------------------------------------------
(* The operators of CommentRules, as CommentsProofs sees them.             *)
LEMMA SameMarks ==
  ASSUME NEW l
  PROVE  Slashes(l) = Rules!Slashes(l) /\ Opens(l) = Rules!Opens(l)
         /\ Closes(l) = Rules!Closes(l)
BY DEF Slashes, Opens, Closes, Places, Rules!Slashes, Rules!Opens, Rules!Closes,
       Rules!Places

LEMMA SameRules ==
  ASSUME NEW l, NEW c
  PROVE  /\ RemoveCommentaries(c, l) = Rules!RemoveCommentaries(c, l)
         /\ Stripped(c, l) = Rules!Stripped(c, l)
         /\ Tidy(c, l) = Rules!Tidy(c, l)
<1>1. \A S : Min(S) = Rules!Min(S)
  BY DEF Min, Rules!Min
<1>2. \A p : Before(l, p) = Rules!Before(l, p)
  BY DEF Before, Rules!Before
<1>3. \A p, n : Erase(l, p, n) = Rules!Erase(l, p, n)
  BY <1>2 DEF Erase, Rules!Erase
<1>4. Closed(l) = Rules!Closed(l)
  BY <1>1, <1>3, SameMarks DEF Closed, Rules!Closed
<1>5. RemoveCommentaries(c, l) = Rules!RemoveCommentaries(c, l)
  BY <1>1, <1>2, <1>4, SameMarks DEF RemoveCommentaries, Rules!RemoveCommentaries
<1>6. \A p : Behind(l, p) = Rules!Behind(l, p)
  BY <1>1, SameMarks DEF Behind, Rules!Behind
<1>7. Stripped(c, l) = Rules!Stripped(c, l)
  <2> DEFINE Mine(f, p) ==
               IF p = 0 THEN [line |-> <<>>, open |-> TRUE]
               ELSE IF p > Len(l) \/ p \in Slashes(l) THEN [line |-> <<>>, open |-> FALSE]
               ELSE IF p \in Opens(l) THEN f[Behind(l, p + 2)]
               ELSE [line |-> <<l[p]>> \o f[p + 1].line, open |-> f[p + 1].open]
  <2>1. \A f, p : Mine(f, p) = Rules!Rest(l, f, p)
    BY <1>6, SameMarks DEF Rules!Rest
  <2>2. Stripped(c, l) = (CHOOSE f : f = [p \in 0..(Len(l) + 1) |-> Mine(f, p)])[
                            IF c THEN Behind(l, 1) ELSE 1]
    BY DEF Stripped
  <2>3. Rules!Stripped(c, l) = (CHOOSE f : f = [p \in 0..(Len(l) + 1) |-> Rules!Rest(l, f, p)])[
                                  IF c THEN Rules!Behind(l, 1) ELSE 1]
    BY DEF Rules!Stripped, Rules!Rest
  <2> HIDE DEF Mine
  <2>4. \A f : [p \in 0..(Len(l) + 1) |-> Mine(f, p)] = [p \in 0..(Len(l) + 1) |-> Rules!Rest(l, f, p)]
    BY <2>1
  <2>5. (CHOOSE f : f = [p \in 0..(Len(l) + 1) |-> Mine(f, p)])
          = (CHOOSE f : f = [p \in 0..(Len(l) + 1) |-> Rules!Rest(l, f, p)])
    BY <2>4
  <2> QED
    BY <1>6, <2>2, <2>3, <2>5
<1>8. Tidy(c, l) = Rules!Tidy(c, l)
  BY <1>1, SameMarks DEF Tidy, Rules!Tidy
<1> QED
  BY <1>5, <1>7, <1>8

LEMMA TidyLikeC ==
  ASSUME NEW l \in Line, NEW c \in BOOLEAN, Tidy(c, l)
  PROVE  RemoveCommentaries(c, l) = Stripped(c, l) /\ Stripped(c, l).open \in BOOLEAN
<1>1. {} \subseteq Seq(STRING)
  OBVIOUS
<1>2. Rules!Tidy(c, l)
  BY SameRules
<1>3. Rules!RemoveCommentaries(c, l) = Rules!Stripped(c, l)
  BY <1>1, <1>2, Rules!TidyLikeC DEF Line
<1>4. Rules!RemoveCommentaries(c, l).open \in BOOLEAN
  BY <1>1, Rules!OpenIsBoolean
<1> QED
  BY <1>3, <1>4, SameRules

LEMMA MinOf ==
  ASSUME NEW T \in SUBSET Nat, T # {}
  PROVE  Min(T) \in T /\ \A n \in T : Min(T) <= n
BY LeastElement DEF Min
------------------------------------------------------------------------------
(* The lines of a file that are not empty.                                 *)
File    == Seq(Line)
Full(d) == {n \in DOMAIN d : d[n] # <<>>}

LEMMA NonEmptyLines ==
  ASSUME NEW d \in File
  PROVE  /\ Full(d) \in SUBSET (1..Len(d))
         /\ NonEmpty(d) = AtPlaces(d, Full(d))
         /\ NonEmpty(d) \in File /\ Len(NonEmpty(d)) <= Len(d)
         /\ \A n \in DOMAIN NonEmpty(d) : NonEmpty(d)[n] # <<>>
<1>1. Full(d) \in SUBSET (1..Len(d)) /\ Len(d) \in Nat
  BY DEF Full, File
<1>2. NonEmpty(d) = AtPlaces(d, Full(d))
  BY DEF NonEmpty, Full
<1> DEFINE m == AtPlaces(d, Full(d))
           k == Cardinality(Full(d))
<1>3. m \in File /\ Len(m) = k /\ k \in 0..Len(d)
      /\ \A r \in 1..k : m[r] = d[Place(Full(d), r)] /\ Place(Full(d), r) \in Full(d)
  BY <1>1, Excerpt DEF File
<1>4. \A n \in Full(d) : d[n] # <<>>
  BY DEF Full
<1> HIDE DEF m, k
<1>5. DOMAIN m = 1..k /\ Len(m) <= Len(d)
  BY <1>1, <1>3 DEF File
<1>6. \A n \in DOMAIN m : m[n] # <<>>
  BY <1>3, <1>4, <1>5
<1> QED
  BY <1>1, <1>2, <1>3, <1>5, <1>6 DEF m

(* It does not matter if some empty lines are left out before.             *)
LEMMA EmptiesGone ==
  ASSUME NEW d \in File, NEW J \in SUBSET (1..Len(d)), Full(d) \subseteq J
  PROVE  NonEmpty(AtPlaces(d, J)) = NonEmpty(d)
<1> DEFINE m == AtPlaces(d, J)
           k == Cardinality(J)
<1>1. /\ m \in File /\ Len(m) = k
      /\ \A r \in 1..k : m[r] = d[Place(J, r)] /\ Place(J, r) \in J
      /\ \A p \in J : Rank(J, p) \in 1..k /\ Place(J, Rank(J, p)) = p
  BY Excerpt DEF File
<1>2. Full(m) \in SUBSET (1..k) /\ NonEmpty(m) = AtPlaces(m, Full(m))
  <2> HIDE DEF m, k
  <2> QED
    BY <1>1, NonEmptyLines
<1>3. AtPlaces(m, Full(m)) = AtPlaces(d, {p \in J : Rank(J, p) \in Full(m)})
  BY <1>2, ExcerptOfExcerpt DEF File
<1>4. \A p \in J : Rank(J, p) \in Full(m) <=> p \in Full(d)
  <2> SUFFICES ASSUME NEW p \in J
               PROVE  Rank(J, p) \in Full(m) <=> p \in Full(d)
    OBVIOUS
  <2>1. DOMAIN m = 1..k /\ p \in DOMAIN d
    <3> HIDE DEF m
    <3> QED
      BY <1>1 DEF File
  <2>2. Rank(J, p) \in DOMAIN m /\ m[Rank(J, p)] = d[p]
    <3> HIDE DEF m, k
    <3> QED
      BY <1>1, <2>1
  <2> HIDE DEF m
  <2> QED
    BY <2>1, <2>2 DEF Full
<1> HIDE DEF m
<1>5. {p \in J : Rank(J, p) \in Full(m)} = Full(d)
  BY <1>4
<1>6. NonEmpty(d) = AtPlaces(d, Full(d))
  BY NonEmptyLines
<1> QED
  BY <1>2, <1>3, <1>5, <1>6 DEF m

(* What both preparations make of a line is a line; of an empty one, it.   *)
LEMMA Prepared ==
  /\ \A l \in Line : RemoveQuotes(l) \in Line /\ RemoveExtra(l) \in Line
                     /\ Squeeze(l) \in Line /\ NormalizeString(l) \in Line
  /\ Squeeze(<<>>) = <<>> /\ RemoveExtra(<<>>) = <<>> /\ NormalizeString(<<>>) = <<>>
<1>1. ASSUME NEW l \in Line
      PROVE  RemoveQuotes(l) \in Line
  <2> DEFINE quotes == {p \in DOMAIN l : l[p] = Quote}
             n == Len(l)
             first == Min(quotes)
             next == Min((quotes \cup {n + 1}) \ {first})
  <2>1. CASE quotes = {}
    BY <2>1 DEF RemoveQuotes
  <2>2. CASE quotes # {}
    <3>1. n \in Nat /\ DOMAIN l = 1..n /\ quotes \in SUBSET (1..n) /\ quotes \in SUBSET Nat
      BY DEF Line
    <3>2. first \in quotes
      <4> HIDE DEF quotes
      <4> QED
        BY <2>2, <3>1, MinOf
    <3> HIDE DEF quotes, first
    <3>3. first \in 1..n /\ n + 1 # first /\ n + 1 \in Nat
      BY <3>1, <3>2
    <3> DEFINE T == (quotes \cup {n + 1}) \ {first}
    <3>4. T \in SUBSET Nat /\ T # {} /\ T \in SUBSET (1..(n + 1))
      <4>1. \A p \in quotes : p \in 1..n /\ p \in Nat
        BY <3>1
      <4>2. \A p \in 1..n : p \in 1..(n + 1)
        BY <3>1
      <4>3. n + 1 \in T /\ n + 1 \in 1..(n + 1)
        BY <3>1, <3>3
      <4>4. \A p \in T : p \in quotes \/ p = n + 1
        OBVIOUS
      <4> HIDE DEF T
      <4>5. \A p \in T : p \in Nat /\ p \in 1..(n + 1)
        BY <3>3, <4>1, <4>2, <4>3, <4>4
      <4> QED
        BY <4>3, <4>5
    <3>5. next \in T
      <4> HIDE DEF T
      <4>1. Min(T) \in T
        BY <3>4, MinOf
      <4> QED
        BY <4>1 DEF T
    <3>6. next \in 1..(n + 1)
      BY <3>4, <3>5
    <3> HIDE DEF next
    <3>7. RemoveQuotes(l) = SubSeq(l, 1, first) \o SubSeq(l, next, n)
      BY <2>2 DEF RemoveQuotes, quotes, first, next
    <3>8. SubSeq(l, 1, first) \in Seq(STRING) /\ SubSeq(l, next, n) \in Seq(STRING)
      BY <3>1, <3>3, <3>6 DEF Line
    <3> QED
      BY <3>7, <3>8 DEF Line
  <2> QED
    BY <2>1, <2>2
<1>2. ASSUME NEW l \in Line
      PROVE  Squeeze(l) \in Line /\ NormalizeString(l) \in Line
  <2> DEFINE J == {p \in DOMAIN l : Kept(l, p)}
             K == {p \in DOMAIN l : l[p] \notin Forbidden}
  <2>1. DOMAIN l = 1..Len(l)
    BY DEF Line
  <2>2. J \in SUBSET (1..Len(l)) /\ K \in SUBSET (1..Len(l))
    BY <2>1
  <2> HIDE DEF J, K
  <2>3. AtPlaces(l, J) \in Line /\ AtPlaces(l, K) \in Line
    BY <2>2, Excerpt DEF Line
  <2>4. <<>> \in Line
    BY DEF Line
  <2> QED
    BY <2>3, <2>4 DEF Squeeze, NormalizeString, J, K
<1>3. Squeeze(<<>>) = <<>> /\ NormalizeString(<<>>) = <<>>
  <2>1. {p \in DOMAIN <<>> : Kept(<<>>, p)} = {} /\ {p \in DOMAIN <<>> : <<>>[p] \notin Forbidden} = {}
    OBVIOUS
  <2> QED
    BY <2>1, EmptyExcerpt DEF Squeeze, NormalizeString
<1>4. RemoveQuotes(<<>>) = <<>>
  BY DEF RemoveQuotes
<1> QED
  BY <1>1, <1>2, <1>3, <1>4 DEF RemoveExtra
(* Lines that are empty may be left out before lines are transformed.      *)
LEMMA TransformNonEmpty ==
  ASSUME NEW d \in File, NEW f \in [Line -> Line], f[<<>>] = <<>>
  PROVE  NonEmpty([n \in DOMAIN NonEmpty(d) |-> f[NonEmpty(d)[n]]])
           = NonEmpty([n \in DOMAIN d |-> f[d[n]]])
<1> DEFINE m == NonEmpty(d)
           J == Full(d)
           z == [n \in DOMAIN d |-> f[d[n]]]
           w == [n \in DOMAIN m |-> f[m[n]]]
<1>1. /\ J \in SUBSET (1..Len(d)) /\ m = AtPlaces(d, J) /\ m \in File
  BY NonEmptyLines
<1>2. /\ Len(m) = Cardinality(J)
      /\ \A r \in 1..Cardinality(J) : m[r] = d[Place(J, r)] /\ Place(J, r) \in J
  <2> HIDE DEF J
  <2> QED
    BY <1>1, Excerpt DEF File
<1>3. DOMAIN m = 1..Cardinality(J) /\ DOMAIN d = 1..Len(d) /\ Len(d) \in Nat
  <2> HIDE DEF m, J
  <2> QED
    BY <1>1, <1>2 DEF File
<1>4. z \in File /\ Len(z) = Len(d)
  <2>1. \A n \in 1..Len(d) : f[d[n]] \in Line
    BY DEF File
  <2>2. z = [n \in 1..Len(d) |-> f[d[n]]]
    BY <1>3
  <2> HIDE DEF z
  <2> QED
    BY <1>3, <2>1, <2>2 DEF File
<1>5. Full(z) \subseteq J
  <2> SUFFICES ASSUME NEW n \in Full(z)
               PROVE  n \in J
    OBVIOUS
  <2>1. n \in DOMAIN d /\ f[d[n]] # <<>>
    BY DEF Full
  <2> QED
    BY <2>1 DEF Full
<1>6. AtPlaces(z, J) = [r \in 1..Cardinality(J) |-> z[Place(J, r)]]
  BY DEF AtPlaces
<1>7. ASSUME NEW r \in 1..Cardinality(J)
      PROVE  z[Place(J, r)] = f[m[r]]
  <2>1. Place(J, r) \in DOMAIN d /\ m[r] = d[Place(J, r)]
    <3> HIDE DEF m, J
    <3> QED
      BY <1>1, <1>2, <1>3
  <2> QED
    BY <2>1
<1> HIDE DEF z, J, m
<1>8. w = AtPlaces(z, J)
  BY <1>3, <1>6, <1>7
<1>9. NonEmpty(AtPlaces(z, J)) = NonEmpty(z)
  BY <1>1, <1>4, <1>5, EmptiesGone
<1> QED
  BY <1>8, <1>9 DEF z, m

LEMMA NormalizeNonEmpty ==
  ASSUME NEW d \in File
  PROVE  /\ NormalizeLines(NonEmpty(d)) = NormalizeLines(d)
         /\ SignatureNormalize(NonEmpty(d)) = SignatureNormalize(d)
<1>1. NonEmpty(d) \in File
  BY NonEmptyLines
<1>2. \A e \in File : \A n \in DOMAIN e : e[n] \in Line
  BY DEF File
<1>3. NormalizeLines(NonEmpty(d)) = NormalizeLines(d)
  <2> DEFINE f == [l \in Line |-> NormalizeString(l)]
  <2>1. <<>> \in Line
    BY DEF Line
  <2>2. f \in [Line -> Line] /\ f[<<>>] = <<>> /\ \A l \in Line : f[l] = NormalizeString(l)
    BY <2>1, Prepared
  <2> HIDE DEF f
  <2>3. \A e \in File : [n \in DOMAIN e |-> f[e[n]]] = [n \in DOMAIN e |-> NormalizeString(e[n])]
    BY <1>2, <2>2
  <2> QED
    BY <1>1, <2>2, <2>3, TransformNonEmpty DEF NormalizeLines
<1>4. SignatureNormalize(NonEmpty(d)) = SignatureNormalize(d)
  <2> DEFINE f == [l \in Line |-> RemoveExtra(l)]
  <2>1. <<>> \in Line
    BY DEF Line
  <2>2. f \in [Line -> Line] /\ f[<<>>] = <<>> /\ \A l \in Line : f[l] = RemoveExtra(l)
    BY <2>1, Prepared
  <2> HIDE DEF f
  <2>3. \A e \in File : [n \in DOMAIN e |-> f[e[n]]] = [n \in DOMAIN e |-> RemoveExtra(e[n])]
    BY <1>2, <2>2
  <2> QED
    BY <1>1, <2>2, <2>3, TransformNonEmpty DEF SignatureNormalize
<1> QED
  BY <1>3, <1>4

LEMMA PreparedFile ==
  ASSUME NEW d \in File
  PROVE  /\ NormalizeLines(d) \in File /\ SignatureNormalize(d) \in File
         /\ Len(NormalizeLines(d)) <= Len(d) /\ Len(SignatureNormalize(d)) <= Len(d)
         /\ \A n \in DOMAIN NormalizeLines(d) : NormalizeLines(d)[n] # <<>>
         /\ \A n \in DOMAIN SignatureNormalize(d) : SignatureNormalize(d)[n] # <<>>
<1>1. \A n \in DOMAIN d : d[n] \in Line
  BY DEF File
<1>2. DOMAIN d = 1..Len(d) /\ Len(d) \in Nat
  BY DEF File
<1>3. ASSUME NEW f \in [Line -> Line]
      PROVE  [n \in DOMAIN d |-> f[d[n]]] \in File /\ Len([n \in DOMAIN d |-> f[d[n]]]) = Len(d)
  <2>1. \A n \in 1..Len(d) : f[d[n]] \in Line
    BY <1>1, <1>2
  <2> QED
    BY <1>2, <2>1 DEF File
<1>4. [n \in DOMAIN d |-> NormalizeString(d[n])] \in File
      /\ Len([n \in DOMAIN d |-> NormalizeString(d[n])]) = Len(d)
  <2>1. \A n \in 1..Len(d) : NormalizeString(d[n]) \in Line
    BY <1>1, <1>2, Prepared
  <2> QED
    BY <1>2, <2>1 DEF File
<1>5. [n \in DOMAIN d |-> RemoveExtra(d[n])] \in File
      /\ Len([n \in DOMAIN d |-> RemoveExtra(d[n])]) = Len(d)
  <2>1. \A n \in 1..Len(d) : RemoveExtra(d[n]) \in Line
    BY <1>1, <1>2, Prepared
  <2> QED
    BY <1>2, <2>1 DEF File
<1> QED
  BY <1>4, <1>5, NonEmptyLines DEF NormalizeLines, SignatureNormalize------------------------------------------------------------------------------
(* The states after each of the lines follow one another.                  *)
LEMMA OpenFollows ==
  ASSUME NEW d \in File, NEW c
  PROVE  /\ OpenAfter(c, d)[0] = c
         /\ \A n \in 1..Len(d) : OpenAfter(c, d)[n] = RemoveCommentaries(OpenAfter(c, d)[n - 1], d[n]).open
<1> DEFINE n == Len(d)
           Step(f, p) == IF p = 0 THEN c ELSE RemoveCommentaries(f[p - 1], d[p]).open
           Upto(m, f) == f = [p \in 0..m |-> Step(f, p)]
           T == {m \in Nat : m <= n => \E f : Upto(m, f)}
<1>1. n \in Nat
  BY DEF File
<1>2. 0 \in T
  <2> DEFINE f == [p \in 0..0 |-> c]
  <2>1. \A p \in 0..0 : Step(f, p) = c
    OBVIOUS
  <2>2. Upto(0, f)
    BY <2>1
  <2> QED
    BY <2>2
<1>3. ASSUME NEW m \in T
      PROVE  m + 1 \in T
  <2>1. m \in Nat /\ m + 1 \in Nat
    OBVIOUS
  <2>2. SUFFICES ASSUME m + 1 <= n
                 PROVE  \E g : Upto(m + 1, g)
    BY <2>1
  <2>3. PICK f : Upto(m, f)
    <3>1. m <= n
      BY <1>1, <2>1, <2>2
    <3> HIDE DEF Upto
    <3> QED
      BY <3>1
  <2> DEFINE g == [p \in 0..(m + 1) |-> IF p = m + 1 THEN Step(f, p) ELSE f[p]]
  <2>4. \A p \in 0..(m + 1) : p = m + 1 \/ p \in 0..m
    BY <2>1
  <2>5. \A p \in 0..m : g[p] = f[p]
    BY <2>1
  <2>6. \A p \in 0..m : f[p] = Step(f, p)
    BY <2>3
  <2>7. \A p \in 0..(m + 1) : p # 0 => p - 1 \in 0..m
    BY <2>1
  <2>8. \A p \in 0..(m + 1) : g[p] = Step(f, p)
    BY <2>4, <2>5, <2>6
  <2>9. g = [p \in 0..(m + 1) |-> g[p]]
    OBVIOUS
  <2> HIDE DEF g
  <2>10. \A p \in 0..(m + 1) : Step(f, p) = Step(g, p)
    BY <2>5, <2>7
  <2> HIDE DEF Step
  <2>11. Upto(m + 1, g)
    BY <2>8, <2>9, <2>10
  <2> QED
    BY <2>11
<1>4. T = Nat
  <2> HIDE DEF T
  <2>1. T \in SUBSET Nat
    BY DEF T
  <2> QED
    BY <1>2, <1>3, <2>1, SetInduction
<1>5. \E f : Upto(n, f)
  <2>1. n <= n
    BY <1>1
  <2>2. n \in T
    <3> HIDE DEF T
    <3> QED
      BY <1>1, <1>4
  <2> QED
    BY <2>1, <2>2
<1> DEFINE f == OpenAfter(c, d)
<1>6. f = CHOOSE g : Upto(n, g)
  BY DEF OpenAfter
<1> HIDE DEF f
<1>7. Upto(n, f)
  BY <1>5, <1>6
<1>8. \A p \in 0..n : f[p] = Step(f, p)
  BY <1>7
<1>9. 0 \in 0..n /\ \A p \in 1..n : p \in 0..n /\ p # 0
  BY <1>1
<1> QED
  BY <1>8, <1>9 DEF f

LEMMA InsideFollows ==
  ASSUME NEW d \in File
  PROVE  /\ InsideAfter(d)[0] = FALSE
         /\ \A n \in 1..Len(d) : InsideAfter(d)[n] = Stripped(InsideAfter(d)[n - 1], d[n]).open
<1> DEFINE n == Len(d)
           Step(f, p) == IF p = 0 THEN FALSE ELSE Stripped(f[p - 1], d[p]).open
           Upto(m, f) == f = [p \in 0..m |-> Step(f, p)]
           T == {m \in Nat : m <= n => \E f : Upto(m, f)}
<1>1. n \in Nat
  BY DEF File
<1>2. 0 \in T
  <2> DEFINE f == [p \in 0..0 |-> FALSE]
  <2>1. \A p \in 0..0 : Step(f, p) = FALSE
    OBVIOUS
  <2>2. Upto(0, f)
    BY <2>1
  <2> QED
    BY <2>2
<1>3. ASSUME NEW m \in T
      PROVE  m + 1 \in T
  <2>1. m \in Nat /\ m + 1 \in Nat
    OBVIOUS
  <2>2. SUFFICES ASSUME m + 1 <= n
                 PROVE  \E g : Upto(m + 1, g)
    BY <2>1
  <2>3. PICK f : Upto(m, f)
    <3>1. m <= n
      BY <1>1, <2>1, <2>2
    <3> HIDE DEF Upto
    <3> QED
      BY <3>1
  <2> DEFINE g == [p \in 0..(m + 1) |-> IF p = m + 1 THEN Step(f, p) ELSE f[p]]
  <2>4. \A p \in 0..(m + 1) : p = m + 1 \/ p \in 0..m
    BY <2>1
  <2>5. \A p \in 0..m : g[p] = f[p]
    BY <2>1
  <2>6. \A p \in 0..m : f[p] = Step(f, p)
    BY <2>3
  <2>7. \A p \in 0..(m + 1) : p # 0 => p - 1 \in 0..m
    BY <2>1
  <2>8. \A p \in 0..(m + 1) : g[p] = Step(f, p)
    BY <2>4, <2>5, <2>6
  <2>9. g = [p \in 0..(m + 1) |-> g[p]]
    OBVIOUS
  <2> HIDE DEF g
  <2>10. \A p \in 0..(m + 1) : Step(f, p) = Step(g, p)
    BY <2>5, <2>7
  <2> HIDE DEF Step
  <2>11. Upto(m + 1, g)
    BY <2>8, <2>9, <2>10
  <2> QED
    BY <2>11
<1>4. T = Nat
  <2> HIDE DEF T
  <2>1. T \in SUBSET Nat
    BY DEF T
  <2> QED
    BY <1>2, <1>3, <2>1, SetInduction
<1>5. \E f : Upto(n, f)
  <2>1. n <= n
    BY <1>1
  <2>2. n \in T
    <3> HIDE DEF T
    <3> QED
      BY <1>1, <1>4
  <2> QED
    BY <2>1, <2>2
<1> DEFINE f == InsideAfter(d)
<1>6. f = CHOOSE g : Upto(n, g)
  BY DEF InsideAfter
<1> HIDE DEF f
<1>7. Upto(n, f)
  BY <1>5, <1>6
<1>8. \A p \in 0..n : f[p] = Step(f, p)
  BY <1>7
<1>9. 0 \in 0..n /\ \A p \in 1..n : p \in 0..n /\ p # 0
  BY <1>1
<1> QED
  BY <1>8, <1>9 DEF f
(* What RemoveCommentaries leaves is a line; an empty line changes nothing. *)
LEMMA EmptyKeepsState ==
  ASSUME NEW c \in BOOLEAN
  PROVE  RemoveCommentaries(c, <<>>) = [line |-> <<>>, open |-> c]
<1>1. Slashes(<<>>) = {} /\ Opens(<<>>) = {} /\ Closes(<<>>) = {}
  BY DEF Slashes, Opens, Closes, Places
<1>2. CASE c = TRUE
  BY <1>1, <1>2 DEF RemoveCommentaries
<1>3. CASE c = FALSE
  BY <1>1, <1>3 DEF RemoveCommentaries
<1> QED
  BY <1>2, <1>3

(* The marks and the parts of a sequence of any characters.                *)
LEMMA MarkedOf ==
  ASSUME NEW A, NEW l \in Seq(A)
  PROVE  /\ Len(l) \in Nat
         /\ Slashes(l) \in SUBSET Nat /\ Opens(l) \in SUBSET Nat /\ Closes(l) \in SUBSET Nat
         /\ \A p \in Slashes(l) : 1 <= p /\ p <= Len(l) - 1
         /\ \A p \in Opens(l)   : 1 <= p /\ p <= Len(l) - 1
         /\ \A p \in Closes(l)  : 1 <= p /\ p <= Len(l) - 1
<1>1. {} \subseteq Seq(STRING)
  OBVIOUS
<1> QED
  BY <1>1, SameMarks, Rules!MarkPlaces

LEMMA PartsOf ==
  ASSUME NEW A, NEW l \in Seq(A), NEW p \in Nat, p >= 1, NEW q \in Nat
  PROVE  /\ p <= Len(l) + 1 => Before(l, p) \in Seq(A)
         /\ SubSeq(l, p, Len(l)) \in Seq(A)
         /\ p <= Len(l) + 1 => Erase(l, p, q) \in Seq(A)
<1>1. Len(l) \in Nat /\ \A i \in 1..Len(l) : l[i] \in A
  OBVIOUS
<1>2. \A b \in Nat : b >= 1 => SubSeq(l, b, Len(l)) \in Seq(A)
  BY <1>1, SubSeqProperties
<1>3. ASSUME p <= Len(l) + 1
      PROVE  Before(l, p) \in Seq(A)
  <2>1. p - 1 \in Int /\ p - 1 <= Len(l)
    BY <1>1, <1>3
  <2>2. SubSeq(l, 1, p - 1) \in Seq(A)
    BY <1>1, <2>1, SubSeqProperties
  <2> QED
    BY <2>2 DEF Before
<1>4. p + q \in Nat /\ p + q >= 1
  OBVIOUS
<1>5. SubSeq(l, p + q, Len(l)) \in Seq(A)
  BY <1>2, <1>4
<1>6. \A s, t \in Seq(A) : s \o t \in Seq(A)
  OBVIOUS
<1> QED
  BY <1>2, <1>3, <1>5, <1>6 DEF Erase

LEMMA LineLeftOf ==
  ASSUME NEW A, NEW l \in Seq(A), NEW c \in BOOLEAN
  PROVE  RemoveCommentaries(c, l).line \in Seq(A) /\ RemoveCommentaries(c, l).open \in BOOLEAN
<1> DEFINE s == Min(Slashes(l))
           o == Min(Opens(l))
           e == Min(Closes(l))
<1>1. <<>> \in Seq(A)
  OBVIOUS
<1>2. Slashes(l) # {} => Before(l, s) \in Seq(A)
  <2>1. Slashes(l) # {} => s \in Nat /\ s >= 1 /\ s <= Len(l) + 1
    <3>1. Slashes(l) # {} => s \in Slashes(l)
      BY MarkedOf, MinOf
    <3> HIDE DEF s
    <3> QED
      BY <3>1, MarkedOf
  <2> HIDE DEF s
  <2> QED
    BY <2>1, PartsOf
<1>3. Opens(l) # {} => o \in Nat /\ o >= 1 /\ o <= Len(l) + 1
  <2>1. Opens(l) # {} => o \in Opens(l)
    BY MarkedOf, MinOf
  <2> HIDE DEF o
  <2> QED
    BY <2>1, MarkedOf
<1>4. Closes(l) # {} => e + 1 \in Nat
  <2>1. Closes(l) # {} => e \in Closes(l)
    BY MarkedOf, MinOf
  <2> HIDE DEF e
  <2> QED
    BY <2>1, MarkedOf
<1> HIDE DEF s, o, e
<1>5. Opens(l) # {} => Before(l, o) \in Seq(A)
  BY <1>3, PartsOf
<1>6. Closes(l) # {} => Closed(l).line \in Seq(A) /\ Closed(l).open \in BOOLEAN
  <2>1. SUFFICES ASSUME Closes(l) # {}
                 PROVE  Closed(l).line \in Seq(A) /\ Closed(l).open \in BOOLEAN
    OBVIOUS
  <2> DEFINE start == IF Opens(l) # {} THEN o ELSE 1
             k == e + 1
  <2>2. start \in Nat /\ start >= 1 /\ start <= Len(l) + 1
    BY <1>3, MarkedOf
  <2>3. Closed(l) = [line |-> Erase(l, start, k), open |-> Opens(l) # {} /\ start > e]
    BY DEF Closed, o, e
  <2>4. k \in Nat
    BY <1>4, <2>1
  <2> HIDE DEF start, k
  <2>5. Erase(l, start, k) \in Seq(A)
    BY <2>2, <2>4, PartsOf
  <2> QED
    BY <2>3, <2>5
<1>7. CASE Closes(l) # {}
  BY <1>1, <1>2, <1>6, <1>7 DEF RemoveCommentaries, s
<1>8. CASE Closes(l) = {}
  BY <1>1, <1>2, <1>5, <1>8 DEF RemoveCommentaries, s, o
<1> QED
  BY <1>7, <1>8

(* The same of a line.                                                     *)
LEMMA Marked ==
  ASSUME NEW l \in Line
  PROVE  /\ Len(l) \in Nat
         /\ Slashes(l) \in SUBSET Nat /\ Opens(l) \in SUBSET Nat /\ Closes(l) \in SUBSET Nat
         /\ \A p \in Slashes(l) : 1 <= p /\ p <= Len(l) - 1
         /\ \A p \in Opens(l)   : 1 <= p /\ p <= Len(l) - 1
         /\ \A p \in Closes(l)  : 1 <= p /\ p <= Len(l) - 1
BY MarkedOf DEF Line

LEMMA Parts ==
  ASSUME NEW l \in Line, NEW p \in Nat, p >= 1, NEW q \in Nat
  PROVE  /\ p <= Len(l) + 1 => Before(l, p) \in Line
         /\ SubSeq(l, p, Len(l)) \in Line
         /\ p <= Len(l) + 1 => Erase(l, p, q) \in Line
BY PartsOf DEF Line

LEMMA LineLeft ==
  ASSUME NEW l \in Line, NEW c \in BOOLEAN
  PROVE  RemoveCommentaries(c, l).line \in Line /\ RemoveCommentaries(c, l).open \in BOOLEAN
BY LineLeftOf DEF Line
------------------------------------------------------------------------------
(* RemoveCommentaries over the lines of a file.                            *)
LEMMA OpenTyped ==
  ASSUME NEW d \in File, NEW c \in BOOLEAN
  PROVE  /\ \A n \in 0..Len(d) : OpenAfter(c, d)[n] \in BOOLEAN
         /\ StripLines(c, d) \in File /\ Len(StripLines(c, d)) = Len(d)
         /\ \A n \in 1..Len(d) :
              StripLines(c, d)[n] = RemoveCommentaries(OpenAfter(c, d)[n - 1], d[n]).line
         /\ \A n \in 1..Len(d) : d[n] = <<>> => StripLines(c, d)[n] = <<>>
<1> DEFINE f == OpenAfter(c, d)
<1> HIDE DEF f
<1>1. Len(d) \in Nat /\ DOMAIN d = 1..Len(d) /\ \A n \in 1..Len(d) : d[n] \in Line
  BY DEF File
<1>2. f[0] = c /\ \A n \in 1..Len(d) : f[n] = RemoveCommentaries(f[n - 1], d[n]).open
  BY OpenFollows DEF f
<1> DEFINE T == {m \in Nat : m <= Len(d) => f[m] \in BOOLEAN}
<1>3. T = Nat
  <2>1. 0 \in T
    BY <1>2
  <2>2. ASSUME NEW m \in T
        PROVE  m + 1 \in T
    <3>1. SUFFICES ASSUME m + 1 <= Len(d)
                   PROVE  f[m + 1] \in BOOLEAN
      OBVIOUS
    <3>2. m <= Len(d) /\ m + 1 \in 1..Len(d) /\ (m + 1) - 1 = m
      BY <1>1, <3>1
    <3>3. f[m] \in BOOLEAN /\ d[m + 1] \in Line
      BY <1>1, <3>2
    <3> HIDE DEF T
    <3>4. f[m + 1] = RemoveCommentaries(f[m], d[m + 1]).open
      BY <1>2, <3>2
    <3> QED
      BY <3>3, <3>4, LineLeft
  <2> HIDE DEF T
  <2>3. T \in SUBSET Nat
    BY DEF T
  <2> QED
    BY <2>1, <2>2, <2>3, SetInduction
<1>4. \A n \in 0..Len(d) : f[n] \in BOOLEAN
  <2>1. \A n \in 0..Len(d) : n \in Nat /\ n <= Len(d)
    BY <1>1
  <2>2. \A n \in Nat : n \in T
    <3> HIDE DEF T
    <3> QED
      BY <1>3
  <2> QED
    BY <2>1, <2>2
<1>5. \A n \in 1..Len(d) : f[n - 1] \in BOOLEAN
  <2>1. \A n \in 1..Len(d) : n - 1 \in 0..Len(d)
    BY <1>1
  <2> QED
    BY <1>4, <2>1
<1>6. StripLines(c, d) = [n \in 1..Len(d) |-> RemoveCommentaries(f[n - 1], d[n]).line]
  BY <1>1 DEF StripLines, f
<1>7. \A n \in 1..Len(d) : RemoveCommentaries(f[n - 1], d[n]).line \in Line
  BY <1>1, <1>5, LineLeft
<1>8. StripLines(c, d) \in File /\ Len(StripLines(c, d)) = Len(d)
  BY <1>1, <1>6, <1>7 DEF File
<1>9. \A n \in 1..Len(d) : d[n] = <<>> => RemoveCommentaries(f[n - 1], d[n]).line = <<>>
  BY <1>5, EmptyKeepsState
<1> QED
  BY <1>4, <1>6, <1>8, <1>9 DEF f

LEMMA RankStep ==
  ASSUME NEW S \in SUBSET Nat, IsFiniteSet(S)
  PROVE  /\ 0 \notin S => Rank(S, 0) = 0
         /\ \A p \in Nat : Rank(S, p + 1) = IF p + 1 \in S THEN Rank(S, p) + 1 ELSE Rank(S, p)
<1> DEFINE U(p) == {q \in S : q <= p}
<1>1. \A q \in S : q \in Nat
  OBVIOUS
<1>2. 0 \notin S => U(0) = {}
  <2>1. \A q \in Nat : q <= 0 => q = 0
    OBVIOUS
  <2> QED
    BY <1>1, <2>1
<1>3. Cardinality({}) = 0
  BY FS_EmptySet
<1>4. ASSUME NEW p \in Nat
      PROVE  Rank(S, p + 1) = IF p + 1 \in S THEN Rank(S, p) + 1 ELSE Rank(S, p)
  <2>1. \A q \in Nat : q <= p + 1 <=> (q <= p \/ q = p + 1)
    OBVIOUS
  <2>2. U(p + 1) = IF p + 1 \in S THEN U(p) \cup {p + 1} ELSE U(p)
    BY <1>1, <2>1
  <2>3. ~ (p + 1 <= p)
    OBVIOUS
  <2>4. p + 1 \notin U(p) /\ U(p) \in SUBSET S
    BY <2>3
  <2> HIDE DEF U
  <2>5. IsFiniteSet(U(p)) /\ Cardinality(U(p) \cup {p + 1}) = Cardinality(U(p)) + 1
    BY <2>4, FS_Subset, FS_AddElement
  <2>6. Rank(S, p) = Cardinality(U(p)) /\ Rank(S, p + 1) = Cardinality(U(p + 1))
    BY DEF Rank, U
  <2> QED
    BY <2>2, <2>5, <2>6
<1> QED
  BY <1>2, <1>3, <1>4 DEF Rank

LEMMA FullRank ==
  ASSUME NEW d \in File
  PROVE  /\ Rank(Full(d), 0) = 0
         /\ \A p \in Nat : Rank(Full(d), p) \in Nat
         /\ \A p \in Nat : Rank(Full(d), p + 1) =
              IF p + 1 \in Full(d) THEN Rank(Full(d), p) + 1 ELSE Rank(Full(d), p)
         /\ Rank(Full(d), Len(d)) = Len(NonEmpty(d))
         /\ \A p \in Full(d) : Rank(Full(d), p) \in 1..Len(NonEmpty(d))
                               /\ NonEmpty(d)[Rank(Full(d), p)] = d[p]
         /\ \A r \in 1..Len(NonEmpty(d)) : \E p \in Full(d) : Rank(Full(d), p) = r
<1> DEFINE J == Full(d)
<1>1. J \in SUBSET (1..Len(d)) /\ NonEmpty(d) = AtPlaces(d, J) /\ Len(d) \in Nat
  BY NonEmptyLines DEF File
<1> HIDE DEF J
<1>2. J \in SUBSET Nat /\ IsFiniteSet(J) /\ 0 \notin J
  <2>1. IsFiniteSet(1..Len(d))
    BY <1>1, FS_Interval
  <2>2. \A p \in 1..Len(d) : p \in Nat /\ p # 0
    BY <1>1
  <2> QED
    BY <1>1, <2>1, <2>2, FS_Subset
<1>3. /\ Len(NonEmpty(d)) = Cardinality(J)
      /\ \A r \in 1..Cardinality(J) : NonEmpty(d)[r] = d[Place(J, r)] /\ Place(J, r) \in J
                                      /\ Rank(J, Place(J, r)) = r
      /\ \A p \in J : Rank(J, p) \in 1..Cardinality(J) /\ Place(J, Rank(J, p)) = p
  BY <1>1, Excerpt DEF File
<1>4. Rank(J, Len(d)) = Cardinality(J)
  <2>1. \A q \in J : q <= Len(d)
    BY <1>1
  <2>2. {q \in J : q <= Len(d)} = J
    BY <2>1
  <2> QED
    BY <2>2 DEF Rank
<1> QED
  BY <1>2, <1>3, <1>4, Ranks, RankStep DEF J

(* Empty lines do not change what is made of the others.                   *)
LEMMA OpenOfNonEmpty ==
  ASSUME NEW d \in File, NEW c \in BOOLEAN
  PROVE  \A p \in 0..Len(d) :
           OpenAfter(c, d)[p] = OpenAfter(c, NonEmpty(d))[Rank(Full(d), p)]
<1> DEFINE m == NonEmpty(d)
           J == Full(d)
           f == OpenAfter(c, d)
           g == OpenAfter(c, m)
           Good(p) == f[p] = g[Rank(J, p)]
           T == {p \in Nat : p <= Len(d) => Good(p)}
<1>1. Len(d) \in Nat /\ m \in File /\ Len(m) \in Nat
  BY NonEmptyLines DEF File
<1> HIDE DEF m, f, g
<1>2. f[0] = c /\ \A n \in 1..Len(d) : f[n] = RemoveCommentaries(f[n - 1], d[n]).open
      /\ f[n - 1] \in BOOLEAN
  <2>1. \A n \in 1..Len(d) : n - 1 \in 0..Len(d)
    BY <1>1
  <2> QED
    BY <2>1, OpenFollows, OpenTyped DEF f
<1>3. g[0] = c /\ \A n \in 1..Len(m) : g[n] = RemoveCommentaries(g[n - 1], m[n]).open
  BY <1>1, OpenFollows DEF g
<1>4. 0 \in T
  BY <1>2, <1>3, FullRank
<1>5. ASSUME NEW q \in T
      PROVE  q + 1 \in T
  <2>1. SUFFICES ASSUME q + 1 <= Len(d)
                 PROVE  Good(q + 1)
    OBVIOUS
  <2>2. q \in Nat /\ q <= Len(d) /\ q + 1 \in 1..Len(d) /\ (q + 1) - 1 = q
    BY <1>1, <2>1
  <2>3. f[q] = g[Rank(J, q)] /\ f[q] \in BOOLEAN
    BY <1>2, <2>2
  <2>4. f[q + 1] = RemoveCommentaries(f[q], d[q + 1]).open
    BY <1>2, <2>2
  <2> HIDE DEF T
  <2>5. CASE q + 1 \in J
    <3>1. Rank(J, q + 1) = Rank(J, q) + 1 /\ Rank(J, q) \in Nat
      BY <2>2, <2>5, FullRank
    <3>2. Rank(J, q + 1) \in 1..Len(m) /\ m[Rank(J, q + 1)] = d[q + 1]
      BY <2>5, FullRank DEF m
    <3>3. g[Rank(J, q + 1)] = RemoveCommentaries(g[Rank(J, q + 1) - 1], m[Rank(J, q + 1)]).open
      BY <1>3, <3>2
    <3>4. Rank(J, q + 1) - 1 = Rank(J, q)
      BY <3>1
    <3> QED
      BY <2>3, <2>4, <3>2, <3>3, <3>4
  <2>6. CASE q + 1 \notin J
    <3>1. Rank(J, q + 1) = Rank(J, q)
      BY <2>2, <2>6, FullRank
    <3>2. d[q + 1] = <<>>
      BY <1>1, <2>2, <2>6 DEF Full, File
    <3>3. f[q + 1] = f[q]
      BY <2>3, <2>4, <3>2, EmptyKeepsState
    <3> QED
      BY <2>3, <3>1, <3>3
  <2> QED
    BY <2>5, <2>6
<1>6. T = Nat
  <2> HIDE DEF T
  <2>1. T \in SUBSET Nat
    BY DEF T
  <2> QED
    BY <1>4, <1>5, <2>1, SetInduction
<1>7. \A p \in 0..Len(d) : Good(p)
  <2>1. \A p \in 0..Len(d) : p \in Nat /\ p <= Len(d)
    BY <1>1
  <2>2. \A p \in Nat : p \in T
    <3> HIDE DEF T
    <3> QED
      BY <1>6
  <2> HIDE DEF Good
  <2> QED
    BY <2>1, <2>2
<1> QED
  BY <1>7 DEF f, g, m

LEMMA StripOfNonEmpty ==
  ASSUME NEW d \in File, NEW c \in BOOLEAN
  PROVE  Strip(c, NonEmpty(d)) = Strip(c, d)
<1> DEFINE m == NonEmpty(d)
           J == Full(d)
           z == StripLines(c, d)
           w == StripLines(c, m)
<1>1. Len(d) \in Nat /\ m \in File /\ Len(m) \in Nat /\ J \in SUBSET (1..Len(d))
      /\ m = AtPlaces(d, J) /\ DOMAIN m = 1..Len(m)
  BY NonEmptyLines DEF File
<1>2. OpenAfter(c, d)[Len(d)] = OpenAfter(c, m)[Len(m)]
  <2>1. Len(d) \in 0..Len(d) /\ Rank(J, Len(d)) = Len(m)
    BY <1>1, FullRank
  <2> QED
    BY <2>1, OpenOfNonEmpty
<1>3. z \in File /\ Len(z) = Len(d)
  BY OpenTyped
<1>4. Full(z) \subseteq J
  <2> SUFFICES ASSUME NEW n \in DOMAIN z, z[n] # <<>>
               PROVE  n \in J
    BY DEF Full
  <2>1. n \in 1..Len(d) /\ DOMAIN d = 1..Len(d)
    <3> HIDE DEF z
    <3> QED
      BY <1>3 DEF File
  <2>2. d[n] # <<>>
    BY <2>1, OpenTyped
  <2> QED
    BY <2>1, <2>2 DEF Full
<1>5. NonEmpty(AtPlaces(z, J)) = NonEmpty(z)
  <2> HIDE DEF z, J
  <2> QED
    BY <1>1, <1>3, <1>4, EmptiesGone
<1>6. Len(m) = Cardinality(J)
  <2> HIDE DEF m, J
  <2> QED
    BY <1>1, Excerpt DEF File
<1>7. ASSUME NEW r \in 1..Len(m)
      PROVE  w[r] = z[Place(J, r)]
  <2> DEFINE p == Place(J, r)
  <2>1. p \in J /\ Rank(J, p) = r /\ m[r] = d[p]
    <3> HIDE DEF m, J
    <3> QED
      BY <1>1, <1>6, Excerpt DEF File
  <2> HIDE DEF p
  <2>2. p \in 1..Len(d) /\ p - 1 \in 0..Len(d) /\ p - 1 \in Nat /\ (p - 1) + 1 = p
    BY <1>1, <2>1
  <2>3. Rank(J, p - 1) = r - 1
    <3> DEFINE q == p - 1
    <3>1. q \in Nat /\ q + 1 \in J /\ q + 1 = p
      BY <2>1, <2>2
    <3> HIDE DEF q
    <3>2. Rank(J, q) \in Nat /\ Rank(J, p) = Rank(J, q) + 1
      BY <3>1, FullRank
    <3> HIDE DEF J
    <3> QED
      BY <2>1, <3>2 DEF q
  <2>4. OpenAfter(c, d)[p - 1] = OpenAfter(c, m)[r - 1]
    BY <2>2, <2>3, OpenOfNonEmpty
  <2>5. z[p] = RemoveCommentaries(OpenAfter(c, d)[p - 1], d[p]).line
    BY <2>2, OpenTyped
  <2>6. w[r] = RemoveCommentaries(OpenAfter(c, m)[r - 1], m[r]).line
    BY <1>1, OpenTyped
  <2> HIDE DEF z, w, m
  <2> QED
    BY <2>1, <2>4, <2>5, <2>6 DEF p
<1>8. w \in File /\ Len(w) = Len(m)
  BY <1>1, OpenTyped
<1>9. w = AtPlaces(z, J)
  <2> HIDE DEF z, w, J, m
  <2>1. w = [r \in 1..Len(m) |-> w[r]]
    BY <1>1, <1>8 DEF File
  <2>2. AtPlaces(z, J) = [r \in 1..Len(m) |-> z[Place(J, r)]]
    BY <1>6 DEF AtPlaces
  <2> QED
    BY <1>7, <2>1, <2>2
<1> HIDE DEF z, w, m
<1>10. NonEmpty(w) = NonEmpty(z)
  BY <1>5, <1>9
<1> QED
  BY <1>2, <1>10 DEF Strip, z, w, m------------------------------------------------------------------------------
(* Files that are tidy as RemoveCommentaries goes through them.            *)
TidyLine(c, l) == Tidy(c, l) /\ (Contains(l, Quote) => Marks(l) = {} /\ ~ c)

TidyAlong(d) ==
  /\ ~ OpenAfter(FALSE, d)[Len(d)]
  /\ \A n \in 1..Len(d) : TidyLine(OpenAfter(FALSE, d)[n - 1], d[n])

LEMMA StatesAgree ==
  ASSUME NEW d \in File,
         \A n \in 1..Len(d) : \/ Tidy(OpenAfter(FALSE, d)[n - 1], d[n])
                              \/ Tidy(InsideAfter(d)[n - 1], d[n])
  PROVE  /\ \A n \in 0..Len(d) : OpenAfter(FALSE, d)[n] = InsideAfter(d)[n]
         /\ ByTheRules(d) = StripLines(FALSE, d)
<1> DEFINE f == OpenAfter(FALSE, d)
           g == InsideAfter(d)
           T == {p \in Nat : p <= Len(d) => f[p] = g[p]}
<1>1. Len(d) \in Nat /\ DOMAIN d = 1..Len(d) /\ \A n \in 1..Len(d) : d[n] \in Line
  BY DEF File
<1>2. f[0] = FALSE /\ \A n \in 1..Len(d) : f[n] = RemoveCommentaries(f[n - 1], d[n]).open
  <2>1. PICK c : c = FALSE
    OBVIOUS
  <2> QED
    BY <2>1, OpenFollows
<1>3. g[0] = FALSE /\ \A n \in 1..Len(d) : g[n] = Stripped(g[n - 1], d[n]).open
  BY InsideFollows
<1>4. \A n \in 0..Len(d) : f[n] \in BOOLEAN
  <2>1. PICK c : c = FALSE
    OBVIOUS
  <2> QED
    BY <2>1, OpenTyped
<1> HIDE DEF f, g
<1>5. \A n \in 1..Len(d) : Tidy(f[n - 1], d[n]) \/ Tidy(g[n - 1], d[n])
  BY DEF f, g
<1>6. ASSUME NEW n \in 1..Len(d), f[n - 1] = g[n - 1]
      PROVE  RemoveCommentaries(f[n - 1], d[n]) = Stripped(g[n - 1], d[n])
  <2>1. n - 1 \in 0..Len(d)
    BY <1>1
  <2>2. Tidy(f[n - 1], d[n]) /\ f[n - 1] \in BOOLEAN /\ d[n] \in Line
    BY <1>1, <1>4, <1>5, <1>6, <2>1
  <2> QED
    BY <1>6, <2>2, TidyLikeC
<1>7. T = Nat
  <2>1. 0 \in T
    BY <1>2, <1>3
  <2>2. ASSUME NEW q \in T
        PROVE  q + 1 \in T
    <3>1. SUFFICES ASSUME q + 1 <= Len(d)
                   PROVE  f[q + 1] = g[q + 1]
      OBVIOUS
    <3>2. q <= Len(d) /\ q + 1 \in 1..Len(d) /\ (q + 1) - 1 = q
      BY <1>1, <3>1
    <3>3. f[q] = g[q]
      BY <3>2
    <3> HIDE DEF T
    <3>4. RemoveCommentaries(f[q], d[q + 1]) = Stripped(g[q], d[q + 1])
      BY <1>6, <3>2, <3>3
    <3> QED
      BY <1>2, <1>3, <3>2, <3>4
  <2> HIDE DEF T
  <2>3. T \in SUBSET Nat
    BY DEF T
  <2> QED
    BY <2>1, <2>2, <2>3, SetInduction
<1>8. \A n \in 0..Len(d) : f[n] = g[n]
  <2>1. \A n \in 0..Len(d) : n \in Nat /\ n <= Len(d)
    BY <1>1
  <2>2. \A n \in Nat : n \in T
    <3> HIDE DEF T
    <3> QED
      BY <1>7
  <2> QED
    BY <2>1, <2>2
<1>9. \A n \in 1..Len(d) : RemoveCommentaries(f[n - 1], d[n]).line = Stripped(g[n - 1], d[n]).line
  <2>1. \A n \in 1..Len(d) : n - 1 \in 0..Len(d)
    BY <1>1
  <2> QED
    BY <1>6, <1>8, <2>1
<1>10. ByTheRules(d) = StripLines(FALSE, d)
  BY <1>1, <1>9 DEF ByTheRules, StripLines, f, g
<1> QED
  BY <1>8, <1>10 DEF f, g

LEMMA TidyFileAlong ==
  ASSUME NEW d \in File, TidyFile(d)
  PROVE  TidyAlong(d)
<1>1. DOMAIN d = 1..Len(d) /\ Len(d) \in Nat
  BY DEF File
<1>2. /\ ~ InsideAfter(d)[Len(d)]
      /\ \A n \in 1..Len(d) : TidyLine(InsideAfter(d)[n - 1], d[n])
  BY <1>1 DEF TidyFile, TidyLine
<1>3. \A n \in 1..Len(d) : Tidy(InsideAfter(d)[n - 1], d[n])
  BY <1>2 DEF TidyLine
<1>4. \A n \in 0..Len(d) : OpenAfter(FALSE, d)[n] = InsideAfter(d)[n]
  BY <1>3, StatesAgree
<1>5. Len(d) \in 0..Len(d) /\ \A n \in 1..Len(d) : n - 1 \in 0..Len(d)
  BY <1>1
<1> QED
  BY <1>2, <1>4, <1>5 DEF TidyAlong

LEMMA CodeOfTidy ==
  ASSUME NEW d \in File, TidyAlong(d)
  PROVE  /\ Code(d) = SignatureNormalize(StripLines(FALSE, d))
         /\ Code(d) = SignatureNormalize(Strip(FALSE, d).data)
         /\ Strip(FALSE, d).open = FALSE
<1>1. \A n \in 1..Len(d) : Tidy(OpenAfter(FALSE, d)[n - 1], d[n])
  BY DEF TidyAlong, TidyLine
<1>2. ByTheRules(d) = StripLines(FALSE, d)
  BY <1>1, StatesAgree
<1>3. StripLines(FALSE, d) \in File
  <2>1. PICK c : c = FALSE
    OBVIOUS
  <2> QED
    BY <2>1, OpenTyped
<1>4. SignatureNormalize(NonEmpty(StripLines(FALSE, d))) = SignatureNormalize(StripLines(FALSE, d))
  BY <1>3, NormalizeNonEmpty
<1>5. OpenAfter(FALSE, d)[Len(d)] \in BOOLEAN
  <2>1. PICK c : c = FALSE
    OBVIOUS
  <2>2. Len(d) \in 0..Len(d)
    BY DEF File
  <2> QED
    BY <2>1, <2>2, OpenTyped
<1> QED
  BY <1>2, <1>4, <1>5 DEF Code, Strip, TidyAlong

LEMMA TidyNonEmpty ==
  ASSUME NEW d \in File, TidyAlong(d)
  PROVE  TidyAlong(NonEmpty(d)) /\ Code(NonEmpty(d)) = Code(d)
<1> DEFINE m == NonEmpty(d)
           J == Full(d)
<1>1. m \in File /\ Len(d) \in Nat /\ Len(m) \in Nat /\ J \in SUBSET (1..Len(d))
  BY NonEmptyLines DEF File
<1>2. \A p \in 0..Len(d) : OpenAfter(FALSE, d)[p] = OpenAfter(FALSE, m)[Rank(J, p)]
  <2>1. PICK c : c = FALSE
    OBVIOUS
  <2> QED
    BY <2>1, OpenOfNonEmpty
<1>3. OpenAfter(FALSE, m)[Len(m)] = OpenAfter(FALSE, d)[Len(d)]
  <2>1. Len(d) \in 0..Len(d) /\ Rank(J, Len(d)) = Len(m)
    BY <1>1, FullRank
  <2> QED
    BY <1>2, <2>1
<1>4. ASSUME NEW r \in 1..Len(m)
      PROVE  TidyLine(OpenAfter(FALSE, m)[r - 1], m[r])
  <2>1. PICK p \in J : Rank(J, p) = r
    BY FullRank
  <2>2. m[r] = d[p]
    BY <2>1, FullRank
  <2> DEFINE q == p - 1
  <2>3. q \in Nat /\ q \in 0..Len(d) /\ q + 1 \in J /\ q + 1 = p /\ p \in 1..Len(d)
    BY <1>1
  <2> HIDE DEF q
  <2>4. Rank(J, q) \in Nat /\ Rank(J, p) = Rank(J, q) + 1
    BY <2>3, FullRank
  <2>5. Rank(J, q) = r - 1
    <3> HIDE DEF J
    <3> QED
      BY <2>1, <2>4
  <2>6. OpenAfter(FALSE, d)[q] = OpenAfter(FALSE, m)[r - 1]
    BY <1>2, <2>3, <2>5
  <2>7. TidyLine(OpenAfter(FALSE, d)[q], d[p])
    BY <2>3 DEF TidyAlong, q
  <2> QED
    BY <2>2, <2>6, <2>7
<1>5. TidyAlong(m)
  <2> HIDE DEF m
  <2> QED
    BY <1>3, <1>4 DEF TidyAlong
<1>6. Strip(FALSE, m) = Strip(FALSE, d)
  <2>1. PICK c : c = FALSE
    OBVIOUS
  <2> QED
    BY <2>1, StripOfNonEmpty
<1>7. Code(m) = Code(d)
  <2> HIDE DEF m
  <2> QED
    BY <1>1, <1>5, <1>6, CodeOfTidy
<1> QED
  BY <1>5, <1>7------------------------------------------------------------------------------
(* The places of a part of a line that are kept when blanks are removed    *)
(* from the part alone.                                                    *)
KeptIn(l, a, b) ==
  {p \in a..b : \/ l[p] # Blank
                \/ /\ \E q \in a..(p - 1) : l[q] # Blank
                   /\ p < b /\ l[p + 1] # Blank}

KeptPlaces(l) == {p \in DOMAIN l : Kept(l, p)}

LEMMA SqueezeIsExcerpt ==
  ASSUME NEW l \in Line
  PROVE  /\ KeptPlaces(l) = KeptIn(l, 1, Len(l))
         /\ Squeeze(l) = AtPlaces(l, KeptPlaces(l))
         /\ KeptPlaces(l) \in SUBSET (1..Len(l)) /\ KeptPlaces(l) \in SUBSET Nat
         /\ IsFiniteSet(KeptPlaces(l))
<1>1. DOMAIN l = 1..Len(l) /\ Len(l) \in Nat
  BY DEF Line
<1>2. KeptPlaces(l) = KeptIn(l, 1, Len(l))
  BY <1>1 DEF KeptPlaces, KeptIn, Kept
<1>3. KeptPlaces(l) \in SUBSET (1..Len(l))
  BY <1>1 DEF KeptPlaces
<1>4. IsFiniteSet(1..Len(l)) /\ 1..Len(l) \subseteq Nat
  BY <1>1, FS_Interval
<1> QED
  BY <1>2, <1>3, <1>4, FS_Subset DEF Squeeze, KeptPlaces

(* Behind something that is not blank, kept places in a row of which the   *)
(* second is not blank are neighbours.                                     *)
LEMMA Neighbours ==
  ASSUME NEW l \in Line, NEW a \in Nat, NEW b \in Nat, 1 <= a, b <= Len(l),
         NEW J \in SUBSET (a..b), KeptIn(l, a, b) \subseteq J,
         NEW r \in 1..Cardinality(J), r + 1 \in 1..Cardinality(J),
         NEW q \in a..Place(J, r), l[q] # Blank, l[Place(J, r + 1)] # Blank
  PROVE  Place(J, r + 1) = Place(J, r) + 1
<1> DEFINE p == Place(J, r)
           s == Place(J, r + 1)
           x == s - 1
<1>1. Len(l) \in Nat /\ \A j \in a..b : j \in Nat /\ j >= a /\ j <= b /\ j \in 1..Len(l)
  BY DEF Line
<1>2. J \in SUBSET (1..Len(l)) /\ Cardinality(J) \in Nat /\ r \in Nat
  <2>1. J \in SUBSET (1..Len(l))
    BY <1>1
  <2>2. Cardinality(J) \in 0..Len(l)
    BY <2>1, Excerpt DEF Line
  <2> QED
    BY <1>1, <2>1, <2>2
<1>3. r < r + 1
  BY <1>2
<1>4. p \in J /\ s \in J /\ Rank(J, p) = r /\ Rank(J, s) = r + 1 /\ p < s
  BY <1>2, <1>3, Excerpt DEF Line
<1> HIDE DEF p, s
<1>5. p \in a..b /\ s \in a..b /\ p \in Nat /\ s \in Nat
  BY <1>1, <1>4
<1>6. x \in Nat /\ x >= p /\ x + 1 = s /\ x < b /\ x < s /\ x \in a..b /\ q \in a..b /\ q <= p
  BY <1>1, <1>4, <1>5 DEF p
<1> HIDE DEF x
<1>7. SUFFICES ASSUME x # p
               PROVE  FALSE
  BY <1>4, <1>5, <1>6 DEF p, s
<1>8. p < x /\ q \in a..(x - 1)
  BY <1>1, <1>5, <1>6, <1>7
<1>9. x \in KeptIn(l, a, b)
  BY <1>6, <1>8 DEF KeptIn, s
<1>10. x \in J
  BY <1>9
<1>11. J \in SUBSET Nat /\ IsFiniteSet(J)
  <2>1. IsFiniteSet(1..Len(l)) /\ \A j \in 1..Len(l) : j \in Nat
    BY <1>1, FS_Interval
  <2> QED
    BY <1>2, <2>1, FS_Subset
<1>12. Rank(J, p) < Rank(J, x) /\ Rank(J, x) < Rank(J, s) /\ Rank(J, x) \in Nat
  BY <1>4, <1>6, <1>8, <1>10, <1>11, Ranks
<1> QED
  BY <1>2, <1>4, <1>12

(* What is removed before, of a part or of the whole line, is removed      *)
(* anyway.                                                                 *)
LEMMA SqueezeExcerpt ==
  ASSUME NEW l \in Line, NEW a \in Nat, NEW b \in Nat, 1 <= a, b <= Len(l),
         NEW J \in SUBSET (a..b), KeptIn(l, a, b) \subseteq J
  PROVE  Squeeze(AtPlaces(l, J)) = AtPlaces(l, KeptIn(l, a, b))
<1> DEFINE m == AtPlaces(l, J)
           k == Cardinality(J)
           R == KeptPlaces(m)
<1>1. Len(l) \in Nat /\ \A j \in a..b : j \in Nat /\ j >= a /\ j <= b /\ j \in 1..Len(l)
  BY DEF Line
<1>2. J \in SUBSET (1..Len(l)) /\ J \in SUBSET Nat /\ IsFiniteSet(J)
  <2>1. IsFiniteSet(1..Len(l))
    BY <1>1, FS_Interval
  <2>2. J \in SUBSET (1..Len(l)) /\ J \in SUBSET Nat
    BY <1>1
  <2> QED
    BY <2>1, <2>2, FS_Subset
<1>3. /\ m \in Line /\ Len(m) = k /\ k \in 0..Len(l)
      /\ \A r \in 1..k : m[r] = l[Place(J, r)] /\ Place(J, r) \in J /\ Rank(J, Place(J, r)) = r
      /\ \A r, s \in 1..k : r < s => Place(J, r) < Place(J, s)
      /\ \A p \in J : Rank(J, p) \in 1..k /\ Place(J, Rank(J, p)) = p
  BY <1>2, Excerpt DEF Line
<1> HIDE DEF m, k
<1>4. k \in Nat /\ DOMAIN m = 1..k
  BY <1>1, <1>3 DEF Line
<1>5. R \in SUBSET (1..k) /\ Squeeze(m) = AtPlaces(m, R)
  BY <1>3, SqueezeIsExcerpt
<1>6. AtPlaces(m, R) = AtPlaces(l, {p \in J : Rank(J, p) \in R})
  <2> HIDE DEF R
  <2> QED
    BY <1>2, <1>5, ExcerptOfExcerpt DEF m, k, Line
<1>7. ASSUME NEW p \in J
      PROVE  Kept(m, Rank(J, p)) <=> p \in KeptIn(l, a, b)
  <2> DEFINE r == Rank(J, p)
  <2>1. r \in 1..k /\ Place(J, r) = p /\ m[r] = l[p] /\ p \in a..b /\ p \in Nat
    BY <1>1, <1>3
  <2> HIDE DEF r
  <2>2. CASE l[p] # Blank
    BY <2>1, <2>2 DEF Kept, KeptIn, r
  <2>3. CASE l[p] = Blank
    <3>1. ASSUME Kept(m, r)
          PROVE  p \in KeptIn(l, a, b)
      <4>1. PICK s \in 1..(r - 1) : m[s] # Blank
        BY <2>1, <2>3, <3>1 DEF Kept
      <4>2. r < k /\ m[r + 1] # Blank
        BY <1>3, <2>1, <2>3, <3>1 DEF Kept
      <4>3. s \in 1..k /\ s < r /\ r + 1 \in 1..k
        BY <1>4, <2>1, <4>1, <4>2
      <4> DEFINE q == Place(J, s)
      <4>4. q \in J /\ l[q] # Blank /\ q < p
        BY <1>3, <2>1, <4>1, <4>3
      <4> HIDE DEF q
      <4>5. q \in a..p /\ q \in a..(p - 1)
        BY <1>1, <2>1, <4>4
      <4>6. l[Place(J, r + 1)] # Blank
        BY <1>3, <4>2, <4>3
      <4>7. Place(J, r + 1) = p + 1
        BY <2>1, <4>3, <4>4, <4>5, <4>6, Neighbours DEF k
      <4>8. p + 1 \in J /\ l[p + 1] # Blank
        BY <1>3, <4>3, <4>6, <4>7
      <4>9. p < b
        BY <1>1, <2>1, <4>8
      <4> QED
        BY <2>1, <4>4, <4>5, <4>8, <4>9 DEF KeptIn
    <3>2. ASSUME p \in KeptIn(l, a, b)
          PROVE  Kept(m, r)
      <4>1. PICK q \in a..(p - 1) : l[q] # Blank
        BY <2>3, <3>2 DEF KeptIn
      <4>2. p < b /\ l[p + 1] # Blank
        BY <2>3, <3>2 DEF KeptIn
      <4>3. q \in a..b /\ q < p /\ p + 1 \in a..b
        BY <1>1, <2>1, <4>1, <4>2
      <4>4. q \in J /\ p + 1 \in J
        BY <4>1, <4>2, <4>3 DEF KeptIn
      <4>5. Rank(J, q) \in 1..k /\ m[Rank(J, q)] # Blank
        BY <1>3, <4>1, <4>4
      <4>6. Rank(J, q) < r
        BY <1>2, <4>3, <4>4, Ranks DEF r
      <4>7. Rank(J, p + 1) = r + 1
        BY <1>2, <2>1, <4>4, RankStep DEF r
      <4>8. r + 1 \in 1..k /\ m[r + 1] # Blank
        BY <1>3, <4>2, <4>4, <4>7
      <4>9. r < k /\ Rank(J, q) \in 1..(r - 1)
        BY <1>4, <2>1, <4>5, <4>6, <4>8
      <4> QED
        BY <1>3, <4>5, <4>8, <4>9 DEF Kept
    <3> QED
      BY <3>1, <3>2 DEF r
  <2> QED
    BY <2>2, <2>3
<1>8. \A p \in J : Rank(J, p) \in R <=> p \in KeptIn(l, a, b)
  BY <1>3, <1>4, <1>7 DEF KeptPlaces
<1> HIDE DEF R
<1>9. {p \in J : Rank(J, p) \in R} = KeptIn(l, a, b)
  BY <1>8
<1> QED
  BY <1>5, <1>6, <1>9 DEF m

LEMMA SqueezeCut ==
  ASSUME NEW l \in Line, NEW a \in Nat, NEW b \in Nat, 1 <= a, b <= Len(l),
         NEW c \in Nat, NEW d \in Nat, 1 <= c, d <= Len(Squeeze(l)),
         \A p \in KeptPlaces(l) : Rank(KeptPlaces(l), p) \in c..d <=> p \in a..b
  PROVE  Squeeze(SubSeq(Squeeze(l), c, d)) = Squeeze(SubSeq(l, a, b))
<1> DEFINE K == KeptPlaces(l)
           m == Squeeze(l)
           J == {p \in K : Rank(K, p) \in c..d}
<1>1. /\ K = KeptIn(l, 1, Len(l)) /\ m = AtPlaces(l, K)
      /\ K \in SUBSET (1..Len(l)) /\ K \in SUBSET Nat /\ IsFiniteSet(K)
  BY SqueezeIsExcerpt
<1>2. Len(l) \in Nat /\ \A p \in a..b : p \in 1..Len(l)
  BY DEF Line
<1>3. m \in Line /\ Len(m) = Cardinality(K)
  <2> HIDE DEF m, K
  <2> QED
    BY <1>1, Excerpt DEF Line
<1>4. SubSeq(m, c, d) = AtPlaces(m, c..d)
  <2> HIDE DEF m
  <2> QED
    BY <1>3, PartIsExcerpt DEF Line, m
<1>5. AtPlaces(m, c..d) = AtPlaces(l, J)
  <2> DEFINE R == c..d
  <2>1. R \in SUBSET (1..Cardinality(K))
    BY <1>3
  <2> HIDE DEF R, K, m
  <2>2. AtPlaces(m, R) = AtPlaces(l, {p \in K : Rank(K, p) \in R})
    BY <1>1, <2>1, ExcerptOfExcerpt DEF Line
  <2> QED
    BY <2>2 DEF R
<1>6. J = {p \in K : p \in a..b}
  OBVIOUS
<1>7. J \in SUBSET (a..b)
  BY <1>6
<1>8. KeptIn(l, a, b) \subseteq J
  <2> SUFFICES ASSUME NEW p \in KeptIn(l, a, b)
               PROVE  p \in J
    OBVIOUS
  <2>1. p \in a..b /\ p \in 1..Len(l)
    BY <1>2 DEF KeptIn
  <2>2. \A q \in a..(p - 1) : q \in 1..(p - 1)
    OBVIOUS
  <2>3. p < b => p < Len(l)
    BY <1>2, <2>1
  <2>4. p \in K
    BY <1>1, <2>1, <2>2, <2>3 DEF KeptIn
  <2> QED
    BY <1>6, <2>1, <2>4
<1> HIDE DEF J, m
<1>9. Squeeze(SubSeq(m, c, d)) = AtPlaces(l, KeptIn(l, a, b))
  BY <1>4, <1>5, <1>7, <1>8, SqueezeExcerpt
<1>10. Squeeze(SubSeq(l, a, b)) = AtPlaces(l, KeptIn(l, a, b))
  <2> DEFINE I == a..b
  <2>1. SubSeq(l, a, b) = AtPlaces(l, I)
    BY PartIsExcerpt DEF Line
  <2>2. I \in SUBSET (a..b) /\ KeptIn(l, a, b) \subseteq I
    BY DEF KeptIn
  <2> HIDE DEF I
  <2> QED
    BY <2>1, <2>2, SqueezeExcerpt
<1> QED
  BY <1>9, <1>10 DEF m

(* No mark is lost, and none appears, when blanks are removed.             *)
LEMMA MarkAt ==
  ASSUME NEW l \in Line, NEW x, NEW y, NEW p
  PROVE  p \in Places(<<x, y>>, l) <=> p \in 1..(Len(l) - 1) /\ l[p] = x /\ l[p + 1] = y
<1>1. Len(l) \in Nat
  BY DEF Line
<1>2. ASSUME p \in 1..(Len(l) - 1)
      PROVE  SubSeq(l, p, p + 1) = <<l[p], l[p + 1]>>
  <2> DEFINE q == p + 1
             s == SubSeq(l, p, q)
  <2>1. p \in Int /\ q \in Int /\ (q - p) + 1 = 2 /\ p <= q /\ (p + 1) - 1 = p /\ (p + 2) - 1 = q
        /\ \A i \in p..q : i \in 1..Len(l)
    BY <1>1, <1>2
  <2> HIDE DEF q
  <2>2. \A i \in p..q : l[i] \in STRING
    BY <2>1 DEF Line
  <2>3. s \in Seq(STRING) /\ Len(s) = 2 /\ s[1] = l[p] /\ s[2] = l[q]
    BY <2>1, <2>2, SubSeqProperties
  <2> HIDE DEF s
  <2>4. s = <<s[1], s[2]>>
    BY <2>3
  <2> QED
    BY <2>3, <2>4 DEF s, q
<1> QED
  BY <1>2 DEF Places

LEMMA MarksKept ==
  ASSUME NEW l \in Line, NEW x, NEW y, x # Blank, y # Blank
  PROVE  /\ \A p \in Places(<<x, y>>, l) :
              /\ p \in KeptPlaces(l) /\ p + 1 \in KeptPlaces(l)
              /\ Rank(KeptPlaces(l), p + 1) = Rank(KeptPlaces(l), p) + 1
              /\ Rank(KeptPlaces(l), p) \in Places(<<x, y>>, Squeeze(l))
         /\ \A r \in Places(<<x, y>>, Squeeze(l)) :
              \E p \in Places(<<x, y>>, l) : Rank(KeptPlaces(l), p) = r
<1> DEFINE K == KeptPlaces(l)
           m == Squeeze(l)
           k == Cardinality(K)
<1>1. /\ K = KeptIn(l, 1, Len(l)) /\ m = AtPlaces(l, K)
      /\ K \in SUBSET (1..Len(l)) /\ K \in SUBSET Nat /\ IsFiniteSet(K)
  BY SqueezeIsExcerpt
<1>2. Len(l) \in Nat /\ DOMAIN l = 1..Len(l)
  BY DEF Line
<1>3. \A p \in 1..Len(l) : l[p] # Blank => p \in K
  BY <1>2 DEF KeptPlaces, Kept
<1> HIDE DEF m, K
<1>4. /\ m \in Line /\ Len(m) = k /\ k \in 0..Len(l)
      /\ \A r \in 1..k : m[r] = l[Place(K, r)] /\ Place(K, r) \in K /\ Rank(K, Place(K, r)) = r
      /\ \A p \in K : Rank(K, p) \in 1..k /\ Place(K, Rank(K, p)) = p
  BY <1>1, Excerpt DEF Line
<1>5. ASSUME NEW p \in Places(<<x, y>>, l)
      PROVE  /\ p \in K /\ p + 1 \in K
             /\ Rank(K, p + 1) = Rank(K, p) + 1 /\ Rank(K, p) \in Places(<<x, y>>, m)
  <2>1. p \in 1..(Len(l) - 1) /\ l[p] = x /\ l[p + 1] = y
    BY MarkAt
  <2>2. p \in 1..Len(l) /\ p + 1 \in 1..Len(l) /\ p \in Nat
    BY <1>2, <2>1
  <2>3. p \in K /\ p + 1 \in K
    BY <1>3, <2>1, <2>2
  <2>4. Rank(K, p + 1) = Rank(K, p) + 1
    BY <1>1, <2>2, <2>3, RankStep
  <2> DEFINE r == Rank(K, p)
  <2>5. r \in 1..k /\ r + 1 \in 1..k /\ m[r] = x /\ m[r + 1] = y
    BY <1>4, <2>1, <2>3, <2>4
  <2> HIDE DEF r
  <2>6. r \in 1..(Len(m) - 1)
    BY <1>4, <2>5
  <2>7. r \in Places(<<x, y>>, m)
    BY <1>4, <2>5, <2>6, MarkAt
  <2> QED
    BY <2>3, <2>4, <2>7 DEF r
<1>6. ASSUME NEW r \in Places(<<x, y>>, m)
      PROVE  \E p \in Places(<<x, y>>, l) : Rank(K, p) = r
  <2>1. r \in 1..(Len(m) - 1) /\ m[r] = x /\ m[r + 1] = y
    BY <1>4, MarkAt
  <2>2. r \in 1..k /\ r + 1 \in 1..k
    BY <1>2, <1>4, <2>1
  <2> DEFINE p == Place(K, r)
  <2>3. p \in K /\ l[p] = x /\ Rank(K, p) = r /\ l[Place(K, r + 1)] = y
        /\ Place(K, r + 1) \in K
    BY <1>4, <2>1, <2>2
  <2>4. p \in 1..Len(l) /\ p \in 1..p
    BY <1>1, <1>2, <2>3
  <2>5. Place(K, r + 1) = p + 1
    <3> DEFINE n == Len(l)
    <3>1. n \in Nat /\ 1 \in Nat /\ 1 <= 1 /\ n <= Len(l)
      BY <1>2
    <3>2. K \in SUBSET (1..n) /\ KeptIn(l, 1, n) \subseteq K
      BY <1>1
    <3>3. l[p] # Blank /\ l[Place(K, r + 1)] # Blank
      BY <2>3
    <3> HIDE DEF n
    <3> QED
      BY <2>2, <2>4, <3>1, <3>2, <3>3, Neighbours
  <2>6. p + 1 \in 1..Len(l) /\ l[p + 1] = y
    BY <1>1, <2>3, <2>5
  <2> HIDE DEF p
  <2>7. p \in 1..(Len(l) - 1)
    BY <1>2, <2>4, <2>6
  <2>8. p \in Places(<<x, y>>, l)
    BY <2>3, <2>6, <2>7, MarkAt
  <2> QED
    BY <2>3, <2>8
<1> QED
  BY <1>5, <1>6 DEF K, m
(* Marks at P in a line are at Q when only the places K of it are left.    *)
Moved(P, Q, K) ==
  /\ \A p \in P : /\ p \in K /\ p + 1 \in K /\ Rank(K, p + 1) = Rank(K, p) + 1
                  /\ Rank(K, p) \in Q
  /\ \A r \in Q : \E p \in P : Rank(K, p) = r

LEMMA MarksMoved ==
  ASSUME NEW l \in Line
  PROVE  /\ Moved(Slashes(l), Slashes(Squeeze(l)), KeptPlaces(l))
         /\ Moved(Opens(l), Opens(Squeeze(l)), KeptPlaces(l))
         /\ Moved(Closes(l), Closes(Squeeze(l)), KeptPlaces(l))
<1>1. Blank # "/" /\ Blank # "*"
  BY CharactersAssumption
<1> QED
  BY <1>1, MarksKept DEF Moved, Slashes, Opens, Closes

LEMMA FirstMoved ==
  ASSUME NEW K \in SUBSET Nat, IsFiniteSet(K),
         NEW P \in SUBSET Nat, NEW Q \in SUBSET Nat, Moved(P, Q, K)
  PROVE  /\ P = {} <=> Q = {}
         /\ P # {} => Min(P) \in P /\ Min(P) \in K /\ Min(Q) = Rank(K, Min(P))
         /\ \A s : P = {s} => Q = {Rank(K, s)}
<1>1. P = {} <=> Q = {}
  BY DEF Moved
<1>2. \A s : P = {s} => Q = {Rank(K, s)}
  BY DEF Moved
<1>3. ASSUME P # {}
      PROVE  Min(P) \in P /\ Min(P) \in K /\ Min(Q) = Rank(K, Min(P))
  <2>1. Min(P) \in P /\ \A p \in P : Min(P) <= p
    BY <1>3, MinOf
  <2>2. Min(Q) \in Q /\ \A q \in Q : Min(Q) <= q
    BY <1>1, <1>3, MinOf
  <2> DEFINE a == Min(P)
             b == Min(Q)
  <2> HIDE DEF a, b
  <2>3. a \in P /\ a \in K /\ Rank(K, a) \in Q /\ b <= Rank(K, a)
    BY <2>1, <2>2 DEF Moved, a, b
  <2>4. PICK p \in P : Rank(K, p) = b
    BY <2>2 DEF Moved, b
  <2>5. p \in K /\ a <= p /\ p \in Nat /\ a \in Nat
    BY <2>1, <2>3, <2>4 DEF Moved, a
  <2>6. a < p => Rank(K, a) < Rank(K, p)
    BY <2>3, <2>5, Ranks
  <2>7. Rank(K, a) \in Nat /\ b \in Nat
    BY <2>2, <2>3 DEF b
  <2>8. Rank(K, a) = b
    BY <2>3, <2>4, <2>5, <2>6, <2>7
  <2> QED
    BY <2>3, <2>8 DEF a, b
<1> QED
  BY <1>1, <1>2, <1>3

LEMMA SqueezeLength ==
  ASSUME NEW l \in Line
  PROVE  /\ Len(l) \in Nat /\ Len(Squeeze(l)) \in Nat
         /\ Len(Squeeze(l)) = Cardinality(KeptPlaces(l))
<1> DEFINE K == KeptPlaces(l)
<1>1. K \in SUBSET (1..Len(l)) /\ K \in SUBSET Nat /\ IsFiniteSet(K)
      /\ Squeeze(l) = AtPlaces(l, K)
  BY SqueezeIsExcerpt
<1> HIDE DEF K
<1>2. Len(l) \in Nat /\ Len(Squeeze(l)) = Cardinality(K) /\ Cardinality(K) \in Nat
  BY <1>1, Excerpt, Ranks DEF Line
<1> QED
  BY <1>2 DEF K

(* What is before a place, and what is behind a mark.                      *)
LEMMA SqueezeBefore ==
  ASSUME NEW l \in Line, NEW s \in KeptPlaces(l)
  PROVE  Squeeze(Before(Squeeze(l), Rank(KeptPlaces(l), s))) = Squeeze(Before(l, s))
<1> DEFINE K == KeptPlaces(l)
           t == Rank(K, s)
<1>1. /\ K \in SUBSET (1..Len(l)) /\ K \in SUBSET Nat /\ IsFiniteSet(K)
      /\ Squeeze(l) = AtPlaces(l, K)
  BY SqueezeIsExcerpt
<1> HIDE DEF K
<1>2. Len(l) \in Nat /\ Len(Squeeze(l)) = Cardinality(K) /\ Cardinality(K) \in Nat
  BY SqueezeLength DEF K
<1>3. s \in K /\ s \in 1..Len(l) /\ t \in 1..Cardinality(K)
  BY <1>1, Ranks DEF K
<1>4. \A p \in K : /\ Rank(K, p) \in 1..Cardinality(K) /\ p \in Nat /\ p >= 1
                   /\ p < s => Rank(K, p) < t
                   /\ s < p => t < Rank(K, p)
  <2>1. \A p \in 1..Len(l) : p \in Nat /\ p >= 1
    OBVIOUS
  <2> QED
    BY <1>1, <1>3, <2>1, Ranks
<1> DEFINE b == s - 1
           d == t - 1
<1> HIDE DEF t
<1>5. b \in Nat /\ d \in Nat /\ b <= Len(l) /\ d <= Len(Squeeze(l)) /\ 1 \in Nat /\ 1 <= 1
  BY <1>2, <1>3
<1>6. \A p \in K : Rank(K, p) \in 1..d <=> p \in 1..b
  <2> SUFFICES ASSUME NEW p \in K
               PROVE  Rank(K, p) \in 1..d <=> p \in 1..b
    OBVIOUS
  <2> DEFINE r == Rank(K, p)
  <2>1. r \in Nat /\ r >= 1 /\ p \in Nat /\ p >= 1 /\ s \in Nat /\ t \in Nat
        /\ (p < s => r < t) /\ (s < p => t < r) /\ (p = s => r = t)
    BY <1>2, <1>3, <1>4 DEF t
  <2> HIDE DEF r
  <2>2. r \in 1..d <=> p \in 1..b
    BY <2>1
  <2> QED
    BY <2>2 DEF r
<1> HIDE DEF b, d
<1>7. Squeeze(SubSeq(Squeeze(l), 1, d)) = Squeeze(SubSeq(l, 1, b))
  BY <1>5, <1>6, SqueezeCut DEF K
<1> QED
  BY <1>7 DEF Before, b, d, t, K

LEMMA SqueezeBehind ==
  ASSUME NEW l \in Line, NEW e \in Closes(l)
  PROVE  Squeeze(SubSeq(Squeeze(l), Rank(KeptPlaces(l), e) + 2, Len(Squeeze(l))))
           = Squeeze(SubSeq(l, e + 2, Len(l)))
<1> DEFINE K == KeptPlaces(l)
           t == Rank(K, e)
           u == e + 1
<1>1. /\ K \in SUBSET (1..Len(l)) /\ K \in SUBSET Nat /\ IsFiniteSet(K)
      /\ Squeeze(l) = AtPlaces(l, K)
  BY SqueezeIsExcerpt
<1>2. e \in K /\ u \in K /\ Rank(K, u) = t + 1
  BY MarksMoved DEF Moved
<1> HIDE DEF K
<1>3. Len(l) \in Nat /\ Len(Squeeze(l)) = Cardinality(K) /\ Cardinality(K) \in Nat
  BY SqueezeLength DEF K
<1>4. e \in Nat /\ t \in Nat /\ u \in Nat
  BY <1>1, <1>2, Ranks
<1> HIDE DEF u
<1>5. \A p \in K : /\ Rank(K, p) \in 1..Cardinality(K) /\ p \in 1..Len(l)
                   /\ p < u => Rank(K, p) < t + 1
                   /\ u < p => t + 1 < Rank(K, p)
  BY <1>1, <1>2, Ranks
<1> DEFINE a == e + 2
           c == t + 2
           b == Len(l)
           d == Len(Squeeze(l))
<1> HIDE DEF t
<1>6. a \in Nat /\ c \in Nat /\ 1 <= a /\ 1 <= c /\ b <= Len(l) /\ d <= Len(Squeeze(l))
      /\ b \in Nat /\ d \in Nat
  BY <1>3, <1>4
<1>7. \A p \in K : Rank(K, p) \in c..d <=> p \in a..b
  <2> SUFFICES ASSUME NEW p \in K
               PROVE  Rank(K, p) \in c..d <=> p \in a..b
    OBVIOUS
  <2> DEFINE r == Rank(K, p)
  <2>1. r \in 1..d /\ p \in 1..b /\ (p < u => r < t + 1) /\ (u < p => t + 1 < r)
        /\ (p = u => r = t + 1)
    BY <1>2, <1>3, <1>5
  <2> HIDE DEF r, b, d
  <2>2. r \in c..d <=> p \in a..b
    BY <1>4, <1>6, <2>1 DEF u
  <2> QED
    BY <2>2 DEF r
<1> HIDE DEF a, b, c, d
<1>8. Squeeze(SubSeq(Squeeze(l), c, d)) = Squeeze(SubSeq(l, a, b))
  BY <1>6, <1>7, SqueezeCut DEF K
<1> QED
  BY <1>8 DEF a, b, c, d, t, K

LEMMA SqueezeTwice ==
  ASSUME NEW l \in Line
  PROVE  Squeeze(Squeeze(l)) = Squeeze(l) /\ Squeeze(l) \in Line
<1> DEFINE K == KeptPlaces(l)
           b == Len(l)
<1>1. /\ K = KeptIn(l, 1, b) /\ Squeeze(l) = AtPlaces(l, K) /\ K \in SUBSET (1..b)
  BY SqueezeIsExcerpt
<1>2. b \in Nat /\ b <= Len(l) /\ 1 \in Nat /\ 1 <= 1
  BY DEF Line
<1> HIDE DEF b, K
<1>3. Squeeze(AtPlaces(l, K)) = AtPlaces(l, KeptIn(l, 1, b))
  BY <1>1, <1>2, SqueezeExcerpt
<1> QED
  BY <1>1, <1>3, Prepared
(* What erasing leaves at either end of a line.                            *)
LEMMA Erased ==
  ASSUME NEW l \in Line, NEW e \in Nat, NEW s \in Nat, s >= 1, s <= Len(l) + 1
  PROVE  /\ Erase(l, 1, e + 1) = SubSeq(l, e + 2, Len(l))
         /\ e + 1 = Len(l) => Erase(l, s, e + 1) = Before(l, s)
<1>1. Len(l) \in Nat /\ 1 + (e + 1) = e + 2 /\ e + 2 >= 1 /\ e + 2 \in Nat
  BY DEF Line
<1>2. SubSeq(l, e + 2, Len(l)) \in Seq(STRING)
  BY <1>1, Parts DEF Line
<1>3. Before(l, 1) = <<>>
  BY SubSeqEmpty DEF Before
<1>4. Before(l, s) \in Seq(STRING)
  <2>1. 0 \in Nat
    OBVIOUS
  <2> QED
    BY <2>1, Parts DEF Line
<1>5. Erase(l, 1, e + 1) = SubSeq(l, e + 2, Len(l))
  <2> DEFINE r == SubSeq(l, e + 2, Len(l))
  <2>1. Erase(l, 1, e + 1) = <<>> \o r
    BY <1>1, <1>3 DEF Erase
  <2> HIDE DEF r
  <2>2. <<>> \o r = r
    BY <1>2 DEF r
  <2> QED
    BY <2>1, <2>2 DEF r
<1>6. ASSUME e + 1 = Len(l)
      PROVE  Erase(l, s, e + 1) = Before(l, s)
  <2> DEFINE f == Before(l, s)
             n == Len(l)
  <2>1. s + (e + 1) \in Int /\ n \in Int /\ s + (e + 1) > n
    BY <1>1, <1>6
  <2>2. SubSeq(l, s + (e + 1), n) = <<>>
    <3> HIDE DEF n
    <3> QED
      BY <2>1, SubSeqEmpty
  <2>3. Erase(l, s, e + 1) = f \o <<>>
    BY <2>2 DEF Erase
  <2> HIDE DEF f
  <2>4. f \o <<>> = f
    BY <1>4 DEF f
  <2> QED
    BY <2>3, <2>4 DEF f
<1> QED
  BY <1>5, <1>6

(***************************************************************************)
(* A tidy line is stripped alike before and after its extra blanks are     *)
(* removed, but for blanks.                                                *)
(***************************************************************************)
LikeSqueezed(c, l) ==
  /\ RemoveCommentaries(c, Squeeze(l)).open = RemoveCommentaries(c, l).open
  /\ Squeeze(RemoveCommentaries(c, Squeeze(l)).line) = Squeeze(RemoveCommentaries(c, l).line)

(* The first mark of a kind, in the line and in the line without blanks.   *)
LEMMA MarksThere ==
  ASSUME NEW l \in Line
  PROVE  /\ Squeeze(l) \in Line
         /\ Slashes(l) = {} <=> Slashes(Squeeze(l)) = {}
         /\ Opens(l) = {} <=> Opens(Squeeze(l)) = {}
         /\ Closes(l) = {} <=> Closes(Squeeze(l)) = {}
         /\ Slashes(l) # {} =>
              /\ Min(Slashes(l)) \in KeptPlaces(l)
              /\ Min(Slashes(Squeeze(l))) = Rank(KeptPlaces(l), Min(Slashes(l)))
         /\ Opens(l) # {} =>
              /\ Min(Opens(l)) \in KeptPlaces(l) /\ Min(Opens(l)) \in Opens(l)
              /\ Min(Opens(Squeeze(l))) = Rank(KeptPlaces(l), Min(Opens(l)))
         /\ Closes(l) # {} =>
              /\ Min(Closes(l)) \in KeptPlaces(l) /\ Min(Closes(l)) \in Closes(l)
              /\ Min(Closes(Squeeze(l))) = Rank(KeptPlaces(l), Min(Closes(l)))
<1> DEFINE m == Squeeze(l)
           K == KeptPlaces(l)
<1>1. m \in Line
  BY SqueezeTwice
<1>2. K \in SUBSET Nat /\ IsFiniteSet(K)
  BY SqueezeIsExcerpt
<1>3. /\ Moved(Slashes(l), Slashes(m), K) /\ Moved(Opens(l), Opens(m), K)
      /\ Moved(Closes(l), Closes(m), K)
  BY MarksMoved
<1> HIDE DEF m, K
<1>4. /\ Slashes(l) \in SUBSET Nat /\ Opens(l) \in SUBSET Nat /\ Closes(l) \in SUBSET Nat
      /\ Slashes(m) \in SUBSET Nat /\ Opens(m) \in SUBSET Nat /\ Closes(m) \in SUBSET Nat
  BY <1>1, Marked
<1>5. /\ Slashes(l) = {} <=> Slashes(m) = {}
      /\ Slashes(l) # {} => Min(Slashes(l)) \in K /\ Min(Slashes(m)) = Rank(K, Min(Slashes(l)))
  BY <1>2, <1>3, <1>4, FirstMoved
<1>6. /\ Opens(l) = {} <=> Opens(m) = {}
      /\ Opens(l) # {} => /\ Min(Opens(l)) \in Opens(l) /\ Min(Opens(l)) \in K
                          /\ Min(Opens(m)) = Rank(K, Min(Opens(l)))
  BY <1>2, <1>3, <1>4, FirstMoved
<1>7. /\ Closes(l) = {} <=> Closes(m) = {}
      /\ Closes(l) # {} => /\ Min(Closes(l)) \in Closes(l) /\ Min(Closes(l)) \in K
                           /\ Min(Closes(m)) = Rank(K, Min(Closes(l)))
  BY <1>2, <1>3, <1>4, FirstMoved
<1> QED
  BY <1>1, <1>5, <1>6, <1>7 DEF m, K

LEMMA StrippedCases ==
  ASSUME NEW l \in Line, NEW c \in BOOLEAN
  PROVE  /\ c /\ Opens(l) = {} /\ Closes(l) = {} =>
              RemoveCommentaries(c, l) = [line |-> <<>>, open |-> TRUE]
         /\ c /\ Opens(l) = {} /\ Closes(l) # {} =>
              RemoveCommentaries(c, l) =
                [line |-> SubSeq(l, Min(Closes(l)) + 2, Len(l)), open |-> FALSE]
         /\ ~ c /\ Slashes(l) # {} =>
              RemoveCommentaries(c, l) =
                [line |-> Before(l, Min(Slashes(l))), open |-> FALSE]
         /\ ~ c /\ Slashes(l) = {} /\ Opens(l) = {} =>
              RemoveCommentaries(c, l) = [line |-> l, open |-> FALSE]
         /\ ~ c /\ Slashes(l) = {} /\ Opens(l) # {} /\ Closes(l) = {} =>
              RemoveCommentaries(c, l) =
                [line |-> Before(l, Min(Opens(l))), open |-> TRUE]
         /\ ~ c /\ Slashes(l) = {} /\ Opens(l) # {} /\ Closes(l) # {}
            /\ Min(Opens(l)) < Min(Closes(l)) =>
              /\ Min(Opens(l)) = 1 =>
                   RemoveCommentaries(c, l) =
                     [line |-> SubSeq(l, Min(Closes(l)) + 2, Len(l)), open |-> FALSE]
              /\ Min(Closes(l)) + 1 = Len(l) =>
                   RemoveCommentaries(c, l) =
                     [line |-> Before(l, Min(Opens(l))), open |-> FALSE]
<1> DEFINE s == Min(Opens(l))
           e == Min(Closes(l))
<1>1. Opens(l) # {} => s \in Opens(l)
  BY Marked, MinOf
<1>2. Closes(l) # {} => e \in Closes(l)
  BY Marked, MinOf
<1> HIDE DEF s, e
<1>3. Len(l) \in Nat
  BY Marked
<1>4. Opens(l) # {} => s \in Nat /\ s >= 1 /\ s <= Len(l) + 1
  <2>1. Opens(l) # {} => s \in Nat /\ 1 <= s /\ s <= Len(l) - 1
    BY <1>1, Marked
  <2> QED
    BY <1>3, <2>1
<1>5. Closes(l) # {} => e \in Nat
  BY <1>2, Marked
<1>6. Closes(l) # {} => Erase(l, 1, e + 1) = SubSeq(l, e + 2, Len(l))
  <2>1. 1 \in Nat /\ 1 >= 1 /\ 1 <= Len(l) + 1
    BY <1>3
  <2> QED
    BY <1>5, <2>1, Erased
<1>7. Opens(l) # {} /\ Closes(l) # {} /\ e + 1 = Len(l) => Erase(l, s, e + 1) = Before(l, s)
  BY <1>4, <1>5, Erased
<1>8. Opens(l) = {} /\ Closes(l) # {} =>
        Closed(l) = [line |-> SubSeq(l, e + 2, Len(l)), open |-> FALSE]
  BY <1>6 DEF Closed, e
<1>9. ASSUME Opens(l) # {}, Closes(l) # {}, s < e
      PROVE  Closed(l) = [line |-> Erase(l, s, e + 1), open |-> FALSE]
  <2>1. ~ (s > e)
    BY <1>4, <1>5, <1>9
  <2> QED
    BY <1>9, <2>1 DEF Closed, s, e
<1>10. c /\ Opens(l) = {} /\ Closes(l) = {} =>
         RemoveCommentaries(c, l) = [line |-> <<>>, open |-> TRUE]
  BY DEF RemoveCommentaries
<1>11. c /\ Opens(l) = {} /\ Closes(l) # {} => RemoveCommentaries(c, l) = Closed(l)
  BY DEF RemoveCommentaries
<1>12. ~ c /\ Slashes(l) # {} => RemoveCommentaries(c, l) =
                            [line |-> Before(l, Min(Slashes(l))), open |-> FALSE]
  BY DEF RemoveCommentaries
<1>13. ~ c /\ Slashes(l) = {} /\ Opens(l) = {} =>
         RemoveCommentaries(c, l) = [line |-> l, open |-> FALSE]
  BY DEF RemoveCommentaries
<1>14. ~ c /\ Slashes(l) = {} /\ Opens(l) # {} /\ Closes(l) = {} =>
         RemoveCommentaries(c, l) = [line |-> Before(l, s), open |-> TRUE]
  BY DEF RemoveCommentaries, s
<1>15. ~ c /\ Slashes(l) = {} /\ Opens(l) # {} /\ Closes(l) # {} =>
         RemoveCommentaries(c, l) = Closed(l)
  BY DEF RemoveCommentaries
<1>16. ASSUME ~ c, Slashes(l) = {}, Opens(l) # {}, Closes(l) # {}, s < e
       PROVE  /\ s = 1 => RemoveCommentaries(c, l) =
                            [line |-> SubSeq(l, e + 2, Len(l)), open |-> FALSE]
              /\ e + 1 = Len(l) => RemoveCommentaries(c, l) =
                                     [line |-> Before(l, s), open |-> FALSE]
  BY <1>6, <1>7, <1>9, <1>15, <1>16
<1> QED
  BY <1>8, <1>10, <1>11, <1>12, <1>13, <1>14, <1>16 DEF s, e

LEMMA AlikeIf ==
  ASSUME NEW l, NEW c, NEW x, NEW y, Squeeze(x) = Squeeze(y),
         \/ /\ RemoveCommentaries(c, l) = [line |-> y, open |-> FALSE]
            /\ RemoveCommentaries(c, Squeeze(l)) = [line |-> x, open |-> FALSE]
         \/ /\ RemoveCommentaries(c, l) = [line |-> y, open |-> TRUE]
            /\ RemoveCommentaries(c, Squeeze(l)) = [line |-> x, open |-> TRUE]
  PROVE  LikeSqueezed(c, l)
<1> DEFINE r == RemoveCommentaries(c, l)
           q == RemoveCommentaries(c, Squeeze(l))
<1>1. r.line = y /\ q.line = x
  OBVIOUS
<1>2. \A v : /\ r = [line |-> y, open |-> v] /\ q = [line |-> x, open |-> v]
             => q.open = r.open
  OBVIOUS
<1> HIDE DEF r, q
<1>3. q.open = r.open
  BY <1>2 DEF r, q
<1>4. Squeeze(q.line) = Squeeze(r.line)
  BY <1>1
<1> QED
  BY <1>3, <1>4 DEF LikeSqueezed, r, q

LEMMA TidySqueezed ==
  ASSUME NEW l \in Line, NEW c \in BOOLEAN, Tidy(c, l)
  PROVE  LikeSqueezed(c, l)
<1> DEFINE m == Squeeze(l)
           K == KeptPlaces(l)
           h == Min(Slashes(l))
           s == Min(Opens(l))
           e == Min(Closes(l))
<1>1. /\ m \in Line
      /\ Slashes(l) = {} <=> Slashes(m) = {}
      /\ Opens(l) = {} <=> Opens(m) = {}
      /\ Closes(l) = {} <=> Closes(m) = {}
      /\ Slashes(l) # {} => h \in K /\ Min(Slashes(m)) = Rank(K, h)
      /\ Opens(l) # {} => s \in K /\ s \in Opens(l) /\ Min(Opens(m)) = Rank(K, s)
      /\ Closes(l) # {} => e \in K /\ e \in Closes(l) /\ Min(Closes(m)) = Rank(K, e)
  BY MarksThere
<1>2. \A p \in K : Squeeze(Before(m, Rank(K, p))) = Squeeze(Before(l, p))
  BY SqueezeBefore
<1>3. \A p \in Closes(l) :
        Squeeze(SubSeq(m, Rank(K, p) + 2, Len(m))) = Squeeze(SubSeq(l, p + 2, Len(l)))
  BY SqueezeBehind
<1>4. Squeeze(m) = Squeeze(l)
  BY SqueezeTwice
<1> HIDE DEF m, K, h, s, e
<1>5. CASE c
  <2>1. Opens(l) = {}
    BY <1>5 DEF Tidy
  <2>2. CASE Closes(l) = {}
    <3>1. RemoveCommentaries(c, l) = [line |-> <<>>, open |-> TRUE]
      BY <1>5, <2>1, <2>2, StrippedCases
    <3>2. RemoveCommentaries(c, m) = [line |-> <<>>, open |-> TRUE]
      BY <1>1, <1>5, <2>1, <2>2, StrippedCases
    <3> QED
      BY <3>1, <3>2, AlikeIf DEF m
  <2>3. CASE Closes(l) # {}
    <3>1. RemoveCommentaries(c, l) = [line |-> SubSeq(l, e + 2, Len(l)), open |-> FALSE]
      BY <1>5, <2>1, <2>3, StrippedCases DEF e
    <3>2. RemoveCommentaries(c, m) =
            [line |-> SubSeq(m, Rank(K, e) + 2, Len(m)), open |-> FALSE]
      BY <1>1, <1>5, <2>1, <2>3, StrippedCases
    <3> QED
      BY <1>1, <1>3, <2>3, <3>1, <3>2, AlikeIf DEF m
  <2> QED
    BY <2>2, <2>3
<1>6. CASE ~ c
  <2>1. CASE Slashes(l) # {}
    <3>1. RemoveCommentaries(c, l) = [line |-> Before(l, h), open |-> FALSE]
      BY <1>6, <2>1, StrippedCases DEF h
    <3>2. RemoveCommentaries(c, m) = [line |-> Before(m, Rank(K, h)), open |-> FALSE]
      BY <1>1, <1>6, <2>1, StrippedCases
    <3> QED
      BY <1>1, <1>2, <2>1, <3>1, <3>2, AlikeIf DEF m
  <2>2. CASE Slashes(l) = {} /\ Opens(l) = {}
    <3>1. RemoveCommentaries(c, l) = [line |-> l, open |-> FALSE]
      BY <1>6, <2>2, StrippedCases
    <3>2. RemoveCommentaries(c, m) = [line |-> m, open |-> FALSE]
      BY <1>1, <1>6, <2>2, StrippedCases
    <3> QED
      BY <1>4, <3>1, <3>2, AlikeIf DEF m
  <2>3. CASE Slashes(l) = {} /\ Opens(l) # {} /\ Closes(l) = {}
    <3>1. RemoveCommentaries(c, l) = [line |-> Before(l, s), open |-> TRUE]
      BY <1>6, <2>3, StrippedCases DEF s
    <3>2. RemoveCommentaries(c, m) = [line |-> Before(m, Rank(K, s)), open |-> TRUE]
      BY <1>1, <1>6, <2>3, StrippedCases
    <3> QED
      BY <1>1, <1>2, <2>3, <3>1, <3>2, AlikeIf DEF m
  <2>4. CASE Slashes(l) = {} /\ Opens(l) # {} /\ Closes(l) # {}
    <3>1. PICK o, f \in 1..Len(l) : /\ Opens(l) = {o} /\ Closes(l) = {f} /\ f >= o + 2
                                    /\ o = 1 \/ f + 1 = Len(l)
      BY <1>6, <2>4 DEF Tidy
    <3>2. s \in Opens(l) /\ s \in K /\ e \in Closes(l) /\ e \in K /\ o = s /\ f = e
      BY <1>1, <2>4, <3>1
    <3>3. Len(l) \in Nat /\ Len(m) = Cardinality(K) /\ K \in SUBSET (1..Len(l))
          /\ K \in SUBSET Nat /\ IsFiniteSet(K)
      BY SqueezeLength, SqueezeIsExcerpt DEF m, K
    <3>4. s \in Nat /\ e \in Nat /\ s < e
      BY <3>1, <3>2, <3>3
    <3>5. Rank(K, s) < Rank(K, e)
      BY <3>2, <3>3, <3>4, Ranks
    <3>6. CASE s = 1
      <4>1. Rank(K, s) = 1
        <5>1. 0 \notin K /\ 0 \in Nat /\ 0 + 1 = s
          BY <3>3, <3>6
        <5>2. Rank(K, 0) = 0
          BY <3>3, <5>1, RankStep
        <5>3. Rank(K, 0 + 1) = Rank(K, 0) + 1
          BY <3>2, <3>3, <5>1, RankStep
        <5> QED
          BY <5>1, <5>2, <5>3
      <4>2. RemoveCommentaries(c, l) = [line |-> SubSeq(l, e + 2, Len(l)), open |-> FALSE]
        BY <1>6, <2>4, <3>4, <3>6, StrippedCases DEF s, e
      <4>3. RemoveCommentaries(c, m) =
              [line |-> SubSeq(m, Rank(K, e) + 2, Len(m)), open |-> FALSE]
        BY <1>1, <1>6, <2>4, <3>5, <4>1, StrippedCases
      <4> QED
        BY <1>3, <3>2, <4>2, <4>3, AlikeIf DEF m
    <3>7. CASE e + 1 = Len(l)
      <4>1. e + 1 \in K /\ Rank(K, e + 1) = Rank(K, e) + 1
        BY <3>2, MarksMoved DEF Moved, K
      <4>2. Rank(K, e) + 1 = Len(m)
        <5> DEFINE n == e + 1
        <5>1. {p \in K : p <= n} = K
          <6>1. \A p \in 1..Len(l) : p <= n
            BY <3>3, <3>4, <3>7
          <6> HIDE DEF n
          <6> QED
            BY <3>3, <6>1
        <5> QED
          BY <3>3, <4>1, <5>1 DEF Rank
      <4>3. RemoveCommentaries(c, l) = [line |-> Before(l, s), open |-> FALSE]
        BY <1>6, <2>4, <3>4, <3>7, StrippedCases DEF s, e
      <4>4. RemoveCommentaries(c, m) = [line |-> Before(m, Rank(K, s)), open |-> FALSE]
        BY <1>1, <1>6, <2>4, <3>5, <4>2, StrippedCases
      <4> QED
        BY <1>2, <3>2, <4>3, <4>4, AlikeIf DEF m
    <3> QED
      BY <3>1, <3>2, <3>6, <3>7
  <2> QED
    BY <2>1, <2>2, <2>3, <2>4
<1> QED
  BY <1>5, <1>6------------------------------------------------------------------------------
(* Lines without quotes: RemoveExtra only removes blanks.                  *)
Plain == Seq(STRING \ {Quote})

LEMMA Unquoted ==
  ASSUME NEW l \in Plain
  PROVE  /\ RemoveQuotes(l) = l /\ RemoveExtra(l) = Squeeze(l)
         /\ Squeeze(l) \in Plain /\ l \in Line
<1>1. ASSUME NEW x \in Plain
      PROVE  RemoveQuotes(x) = x
  <2>1. \A p \in DOMAIN x : x[p] # Quote
    BY DEF Plain
  <2> QED
    BY <2>1 DEF RemoveQuotes
<1>2. Squeeze(l) \in Plain
  <2> DEFINE J == {p \in DOMAIN l : Kept(l, p)}
             A == STRING \ {Quote}
  <2>1. J \in SUBSET (1..Len(l)) /\ l \in Seq(A)
    BY DEF Plain
  <2> HIDE DEF J, A
  <2>2. AtPlaces(l, J) \in Seq(A)
    BY <2>1, Excerpt
  <2> QED
    BY <2>2 DEF Squeeze, J, A, Plain
<1>3. l \in Line
  BY DEF Plain, Line
<1> QED
  BY <1>1, <1>2, <1>3 DEF RemoveExtra

LEMMA PlainIfNoQuote ==
  ASSUME NEW l \in Line, ~ Contains(l, Quote)
  PROVE  l \in Plain
<1>1. \A i \in 1..Len(l) : l[i] # Quote /\ l[i] \in STRING
  BY DEF Contains, Line
<1>2. Len(l) \in Nat /\ l = [i \in 1..Len(l) |-> l[i]]
  BY DEF Line
<1> QED
  BY <1>1, <1>2 DEF Plain

LEMMA PlainLeft ==
  ASSUME NEW l \in Plain, NEW c \in BOOLEAN
  PROVE  RemoveCommentaries(c, l).line \in Plain
<1> DEFINE A == STRING \ {Quote}
<1>1. l \in Seq(A)
  BY DEF Plain
<1> HIDE DEF A
<1>2. RemoveCommentaries(c, l).line \in Seq(A)
  BY <1>1, LineLeftOf
<1> QED
  BY <1>2 DEF Plain, A

(***************************************************************************)
(* The first string of a line: where it begins, and where the line goes    *)
(* on.                                                                     *)
(***************************************************************************)
FirstString(l, f, g) ==
  /\ f \in 1..Len(l) /\ g \in (f + 1)..(Len(l) + 1)
  /\ l[f] = Quote /\ \A p \in 1..(f - 1) : l[p] # Quote
  /\ g <= Len(l) => l[g] = Quote
  /\ \A p \in (f + 1)..(g - 1) : l[p] # Quote

Halves(l, f, g) == SubSeq(l, 1, f) \o SubSeq(l, g, Len(l))

LEMMA LeastOf ==
  ASSUME NEW T \in SUBSET Nat, NEW m \in T, \A n \in T : m <= n
  PROVE  Min(T) = m
<1>1. Min(T) \in T /\ \A n \in T : Min(T) <= n
  BY MinOf
<1> DEFINE k == Min(T)
<1>2. k \in Nat /\ m \in Nat /\ k <= m /\ m <= k
  BY <1>1
<1> HIDE DEF k
<1>3. k = m
  BY <1>2
<1> QED
  BY <1>3 DEF k

LEMMA QuotesRemoved ==
  ASSUME NEW l \in Line, NEW f, NEW g, FirstString(l, f, g)
  PROVE  RemoveQuotes(l) = Halves(l, f, g)
<1> DEFINE n == Len(l)
           quotes == {p \in DOMAIN l : l[p] = Quote}
           T == (quotes \cup {n + 1}) \ {f}
<1>1. n \in Nat /\ DOMAIN l = 1..n
  BY DEF Line
<1>2. f \in quotes /\ quotes \in SUBSET Nat /\ f \in Nat /\ f >= 1 /\ f <= n
      /\ g \in Nat /\ f < g /\ g <= n + 1
  BY <1>1 DEF FirstString
<1>3. \A p \in quotes : f <= p
  <2> SUFFICES ASSUME NEW p \in quotes, p < f
               PROVE  FALSE
    BY <1>2
  <2>1. p \in 1..(f - 1)
    BY <1>1, <1>2
  <2> QED
    BY <2>1 DEF FirstString
<1>4. g \in T
  BY <1>1, <1>2 DEF FirstString
<1>5. T \in SUBSET Nat
  BY <1>1, <1>2
<1>6. \A p \in T : g <= p
  <2> SUFFICES ASSUME NEW p \in T, p < g
               PROVE  FALSE
    BY <1>2, <1>5
  <2>1. p \in quotes /\ p # f /\ p \in Nat
    BY <1>2, <1>1
  <2>2. f <= p
    BY <1>3, <2>1
  <2>3. p \in (f + 1)..(g - 1)
    BY <1>2, <2>1, <2>2
  <2> QED
    BY <2>1, <2>3 DEF FirstString
<1>7. Min(quotes) = f
  <2> HIDE DEF quotes
  <2> QED
    BY <1>2, <1>3, LeastOf
<1>8. Min(T) = g
  <2> HIDE DEF T
  <2> QED
    BY <1>4, <1>5, <1>6, LeastOf
<1>9. quotes # {}
  BY <1>2
<1> QED
  BY <1>7, <1>8, <1>9 DEF RemoveQuotes, Halves

LEMMA StringThere ==
  ASSUME NEW l \in Line, Contains(l, Quote)
  PROVE  \E f, g : FirstString(l, f, g)
<1> DEFINE n == Len(l)
           quotes == {p \in 1..n : l[p] = Quote}
           f == Min(quotes)
           T == {p \in 1..(n + 1) : p > f /\ (p = n + 1 \/ l[p] = Quote)}
           g == Min(T)
<1>1. n \in Nat
  BY DEF Line
<1>2. quotes # {} /\ quotes \in SUBSET Nat
  BY DEF Contains
<1>3. f \in quotes /\ \A p \in quotes : f <= p
  BY <1>2, MinOf
<1> HIDE DEF f
<1>4. f \in 1..n /\ l[f] = Quote
  BY <1>3
<1>5. T \in SUBSET Nat /\ n + 1 \in T
  BY <1>1, <1>4
<1>6. g \in T /\ \A p \in T : g <= p
  BY <1>5, MinOf
<1> HIDE DEF g
<1>7. g \in (f + 1)..(n + 1) /\ (g <= n => l[g] = Quote)
  BY <1>1, <1>4, <1>6
<1>8. ASSUME NEW p \in 1..(f - 1)
      PROVE  l[p] # Quote
  <2>1. p \in 1..n /\ p < f /\ p \in Nat /\ f \in Nat
    BY <1>1, <1>4
  <2> QED
    BY <1>3, <2>1
<1>9. ASSUME NEW p \in (f + 1)..(g - 1)
      PROVE  l[p] # Quote
  <2>1. p \in 1..(n + 1) /\ p > f /\ p < g /\ p \in Nat /\ g \in Nat
    BY <1>1, <1>4, <1>7
  <2> QED
    BY <1>6, <2>1
<1> QED
  BY <1>4, <1>7, <1>8, <1>9 DEF FirstString

LEMMA HalvesAt ==
  ASSUME NEW l \in Line, NEW f, NEW g, FirstString(l, f, g)
  PROVE  /\ Halves(l, f, g) \in Line
         /\ Len(Halves(l, f, g)) = f + ((Len(l) + 1) - g)
         /\ \A i \in 1..f : Halves(l, f, g)[i] = l[i]
         /\ \A i \in (f + 1)..(f + ((Len(l) + 1) - g)) :
              Halves(l, f, g)[i] = l[(i + g) - (f + 1)]
<1> DEFINE n == Len(l)
           x == SubSeq(l, 1, f)
           y == SubSeq(l, g, n)
           k == (n + 1) - g
<1>1. /\ n \in Nat /\ f \in Nat /\ f >= 1 /\ f <= n /\ g \in Nat /\ f < g /\ g <= n + 1
      /\ \A i \in 1..n : l[i] \in STRING
  BY DEF FirstString, Line
<1>2. x \in Seq(STRING) /\ Len(x) = f /\ \A i \in 1..f : x[i] = l[i]
  <2>1. 1 \in Int /\ f \in Int /\ (1 <= f) /\ (f - 1) + 1 = f
        /\ \A i \in 1..f : l[i] \in STRING
    BY <1>1
  <2>2. x \in Seq(STRING) /\ Len(x) = (f - 1) + 1
        /\ \A i \in 1..((f - 1) + 1) : x[i] = l[1 + i - 1]
    BY <1>1, <2>1, SubSeqProperties
  <2>3. \A i \in 1..f : 1 + i - 1 = i
    OBVIOUS
  <2> HIDE DEF x
  <2> QED
    BY <2>1, <2>2, <2>3
<1>3. y \in Seq(STRING) /\ Len(y) = k /\ k \in Nat /\ \A i \in 1..k : y[i] = l[(g + i) - 1]
  <2>1. g \in Int /\ n \in Int /\ g <= n + 1 /\ (n - g) + 1 = k /\ k \in Nat
        /\ \A i \in g..n : l[i] \in STRING
    BY <1>1
  <2>2. CASE g <= n
    <3>1. y \in Seq(STRING) /\ Len(y) = (n - g) + 1
          /\ \A i \in 1..((n - g) + 1) : y[i] = l[g + i - 1]
      BY <1>1, <2>1, <2>2, SubSeqProperties
    <3> HIDE DEF y
    <3> QED
      BY <2>1, <3>1
  <2>3. CASE g = n + 1
    <3>1. n < g /\ k = 0
      BY <1>1, <2>3
    <3>2. y = <<>>
      <4> HIDE DEF n
      <4> QED
        BY <2>1, <3>1, SubSeqEmpty
    <3> QED
      BY <3>1, <3>2
  <2> QED
    BY <1>1, <2>2, <2>3
<1> HIDE DEF x, y
<1>4. x \o y \in Seq(STRING) /\ Len(x \o y) = f + k
      /\ \A i \in 1..(f + k) : (x \o y)[i] = IF i <= f THEN x[i] ELSE y[i - f]
  <2> HIDE DEF k, n
  <2>1. x \o y \in Seq(STRING) /\ Len(x \o y) = Len(x) + Len(y)
    BY <1>2, <1>3
  <2>2. \A i \in 1..(Len(x) + Len(y)) : (x \o y)[i] = IF i <= Len(x) THEN x[i] ELSE y[i - Len(x)]
    BY <1>2, <1>3
  <2> QED
    BY <1>2, <1>3, <2>1, <2>2
<1>5. Halves(l, f, g) = x \o y
  BY DEF Halves, x, y
<1>6. \A i \in 1..f : (x \o y)[i] = l[i]
  BY <1>1, <1>2, <1>3, <1>4
<1>7. ASSUME NEW i \in (f + 1)..(f + k)
      PROVE  (x \o y)[i] = l[(i + g) - (f + 1)]
  <2>1. i \in 1..(f + k) /\ ~ (i <= f) /\ i - f \in 1..k /\ (g + (i - f)) - 1 = (i + g) - (f + 1)
    BY <1>1, <1>3
  <2>2. (x \o y)[i] = y[i - f]
    BY <1>4, <2>1
  <2>3. y[i - f] = l[(g + (i - f)) - 1]
    BY <1>3, <2>1
  <2> QED
    BY <2>1, <2>2, <2>3
<1> QED
  BY <1>4, <1>5, <1>6, <1>7 DEF Line
(* A line is squeezed when all its places are kept.                        *)
LEMMA AllKept ==
  ASSUME NEW l \in Line
  PROVE  Squeeze(l) = l <=> \A p \in 1..Len(l) : Kept(l, p)
<1> DEFINE K == KeptPlaces(l)
           n == Len(l)
<1>1. /\ Squeeze(l) = AtPlaces(l, K) /\ K \in SUBSET (1..n)
      /\ Len(Squeeze(l)) = Cardinality(K) /\ n \in Nat
  BY SqueezeIsExcerpt, SqueezeLength
<1>2. IsFiniteSet(1..n) /\ Cardinality(1..n) = n
  <2>1. 1 \in Int /\ n \in Int /\ 1 <= n + 1 /\ (n - 1) + 1 = n
    BY <1>1
  <2>2. IsFiniteSet(1..n)
    BY <2>1, FS_Interval
  <2>3. Cardinality(1..n) = IF 1 > n THEN 0 ELSE (n - 1) + 1
    BY <2>1, FS_Interval
  <2> HIDE DEF n
  <2>4. 1 > n => n = 0
    BY <1>1
  <2> QED
    BY <2>1, <2>2, <2>3, <2>4
<1>3. K = {p \in 1..n : Kept(l, p)}
  BY DEF KeptPlaces, Line
<1> HIDE DEF K
<1>4. K = 1..n => Squeeze(l) = l
  BY <1>1, AllIsExcerpt DEF Line
<1>5. Squeeze(l) = l => K = 1..n
  <2> DEFINE I == 1..n
  <2> HIDE DEF I
  <2>1. Squeeze(l) = l => Cardinality(I) = Cardinality(K)
    BY <1>1, <1>2 DEF I
  <2>2. Cardinality(I) = Cardinality(K) => I = K
    BY <1>1, <1>2, FS_Subset DEF I
  <2> QED
    BY <2>1, <2>2 DEF I
<1> QED
  BY <1>3, <1>4, <1>5

(* The line without its first string.                                      *)
LEMMA StringRemoved ==
  ASSUME NEW m \in Line, Squeeze(m) = m, NEW f, NEW g, FirstString(m, f, g)
  PROVE  /\ Halves(m, f, g) \in Line /\ Squeeze(Halves(m, f, g)) = Halves(m, f, g)
         /\ FirstString(Halves(m, f, g), f, f + 1)
<1> DEFINE n == Len(m)
           r == Halves(m, f, g)
           k == f + ((n + 1) - g)
<1>1. /\ n \in Nat /\ f \in Nat /\ f >= 1 /\ f <= n /\ g \in Nat /\ f < g /\ g <= n + 1
      /\ k \in Nat /\ f <= k
  BY DEF FirstString, Line
<1>2. r \in Line /\ Len(r) = k
  BY HalvesAt
<1>3. \A i \in 1..f : r[i] = m[i]
  BY HalvesAt
<1>4. \A i \in (f + 1)..k : r[i] = m[(i + g) - (f + 1)]
  BY HalvesAt
<1>5. \A p \in 1..n : Kept(m, p)
  BY AllKept
<1>6. Quote # Blank
  BY CharactersAssumption
<1>7. m[f] = Quote /\ (\A p \in 1..(f - 1) : m[p] # Quote) /\ (g <= n => m[g] = Quote)
  BY DEF FirstString
<1> HIDE DEF n, r, k
<1>8. r[f] = Quote
  <2>1. f \in 1..f
    BY <1>1
  <2> QED
    BY <1>3, <1>7, <2>1
<1>9. ASSUME NEW p \in 1..k
      PROVE  Kept(r, p)
  <2>1. SUFFICES ASSUME r[p] = Blank
                 PROVE  /\ \E q \in 1..(p - 1) : r[q] # Blank
                        /\ p < k /\ r[p + 1] # Blank
    BY <1>2 DEF Kept
  <2>2. CASE p <= f
    <3>1. p \in 1..n /\ m[p] = Blank /\ p # f /\ p + 1 \in 1..f /\ p < k
      BY <1>1, <1>3, <1>6, <1>8, <2>1, <2>2
    <3>2. PICK q \in 1..(p - 1) : m[q] # Blank
      BY <1>5, <3>1 DEF Kept
    <3>3. m[p + 1] # Blank
      BY <1>5, <3>1 DEF Kept
    <3>4. q \in 1..f
      BY <1>1, <2>2, <3>2
    <3> QED
      BY <1>3, <3>1, <3>2, <3>3, <3>4
  <2>3. CASE ~ (p <= f)
    <3> DEFINE x == (p + g) - (f + 1)
    <3>1. p \in (f + 1)..k /\ x \in 1..n /\ x \in Nat
      BY <1>1, <2>3 DEF k
    <3>2. m[x] = Blank
      BY <1>4, <2>1, <3>1
    <3> HIDE DEF x
    <3>3. x < n /\ m[x + 1] # Blank
      BY <1>5, <3>1, <3>2 DEF Kept, n
    <3>4. p + 1 \in (f + 1)..k /\ p < k /\ ((p + 1) + g) - (f + 1) = x + 1
      BY <1>1, <3>1, <3>3 DEF k, x
    <3>5. r[p + 1] # Blank
      BY <1>4, <3>3, <3>4
    <3>6. f \in 1..(p - 1) /\ r[f] # Blank
      BY <1>1, <1>6, <1>8, <2>3
    <3> QED
      BY <3>4, <3>5, <3>6
  <2> QED
    BY <2>2, <2>3
<1>10. Squeeze(r) = r
  BY <1>2, <1>9, AllKept
<1>11. FirstString(r, f, f + 1)
  <2>1. f \in 1..k /\ f + 1 \in (f + 1)..(k + 1) /\ (f + 1)..((f + 1) - 1) = {}
    BY <1>1
  <2>2. \A p \in 1..(f - 1) : r[p] # Quote
    <3>1. \A p \in 1..(f - 1) : p \in 1..f
      BY <1>1
    <3> QED
      BY <1>3, <1>7, <3>1
  <2>3. ASSUME f + 1 <= k
        PROVE  r[f + 1] = Quote
    <3>1. g <= n /\ f + 1 \in (f + 1)..k /\ ((f + 1) + g) - (f + 1) = g
      BY <1>1, <2>3 DEF k
    <3> QED
      BY <1>4, <1>7, <3>1
  <2> QED
    BY <1>2, <1>8, <2>1, <2>2, <2>3 DEF FirstString
<1> QED
  BY <1>2, <1>10, <1>11 DEF r

(* Nothing is left to remove.                                              *)
LEMMA ExtraTwice ==
  ASSUME NEW l \in Line
  PROVE  RemoveExtra(RemoveExtra(l)) = RemoveExtra(l)
<1> DEFINE m == Squeeze(l)
<1>1. m \in Line /\ Squeeze(m) = m /\ RemoveExtra(l) = RemoveQuotes(m)
  BY SqueezeTwice DEF RemoveExtra
<1> HIDE DEF m
<1>2. CASE ~ Contains(m, Quote)
  <2>1. m \in Plain
    BY <1>1, <1>2, PlainIfNoQuote
  <2>2. RemoveQuotes(m) = m /\ RemoveExtra(m) = Squeeze(m)
    BY <2>1, Unquoted
  <2> QED
    BY <1>1, <2>2
<1>3. CASE Contains(m, Quote)
  <2>1. PICK f, g : FirstString(m, f, g)
    BY <1>1, <1>3, StringThere
  <2> DEFINE r == Halves(m, f, g)
  <2>2. RemoveQuotes(m) = r
    BY <1>1, <2>1, QuotesRemoved
  <2>3. r \in Line /\ Squeeze(r) = r /\ FirstString(r, f, f + 1)
    BY <1>1, <2>1, StringRemoved
  <2> DEFINE h == f + 1
  <2>4. f \in Nat /\ f >= 1 /\ f <= Len(r) /\ Len(r) \in Nat /\ h \in Nat /\ h - 1 = f
    BY <2>3 DEF FirstString, Line
  <2> HIDE DEF r, h
  <2>5. RemoveQuotes(r) = Halves(r, f, h)
    BY <2>3, QuotesRemoved DEF h
  <2>6. Halves(r, f, h) = r
    <3> DEFINE z == Halves(r, f, h)
    <3>1. /\ z \in Line /\ Len(z) = f + ((Len(r) + 1) - h) /\ \A i \in 1..f : z[i] = r[i]
          /\ \A i \in (f + 1)..(f + ((Len(r) + 1) - h)) : z[i] = r[(i + h) - (f + 1)]
      BY <2>3, HalvesAt DEF h
    <3>2. f + ((Len(r) + 1) - h) = Len(r) /\ h = f + 1
      BY <2>4
    <3> HIDE DEF z
    <3>3. \A i \in 1..Len(r) : z[i] = r[i]
      <4> SUFFICES ASSUME NEW i \in 1..Len(r), ~ (i <= f)
                   PROVE  z[i] = r[i]
        BY <2>4, <3>1
      <4>1. i \in (f + 1)..Len(r) /\ (i + h) - (f + 1) = i
        BY <2>4, <3>2
      <4> QED
        BY <3>1, <3>2, <4>1
    <3> QED
      BY <2>3, <3>1, <3>2, <3>3 DEF Line, z
  <2> QED
    BY <1>1, <2>2, <2>3, <2>5, <2>6 DEF RemoveExtra, r
<1> QED
  BY <1>2, <1>3
(* No mark appears where a string was.                                     *)
LEMMA NoMarkAppears ==
  ASSUME NEW m \in Line, NEW f, NEW g, FirstString(m, f, g),
         NEW x, NEW y, x # Quote, y # Quote, Places(<<x, y>>, m) = {}
  PROVE  Places(<<x, y>>, Halves(m, f, g)) = {}
<1> DEFINE n == Len(m)
           r == Halves(m, f, g)
           k == f + ((n + 1) - g)
<1>1. /\ n \in Nat /\ f \in Nat /\ f >= 1 /\ f <= n /\ g \in Nat /\ f < g /\ g <= n + 1
      /\ k \in Nat
  BY DEF FirstString, Line
<1>2. r \in Line /\ Len(r) = k
  BY HalvesAt
<1>3. \A i \in 1..f : r[i] = m[i]
  BY HalvesAt
<1>4. \A i \in (f + 1)..k : r[i] = m[(i + g) - (f + 1)]
  BY HalvesAt
<1>5. m[f] = Quote
  BY DEF FirstString
<1> HIDE DEF n, r, k
<1> SUFFICES ASSUME NEW p \in Places(<<x, y>>, r)
             PROVE  FALSE
  BY DEF r
<1>6. p \in 1..(k - 1) /\ r[p] = x /\ r[p + 1] = y
  BY <1>2, MarkAt
<1>7. CASE p < f
  <2>1. p \in 1..f /\ p + 1 \in 1..f /\ p \in 1..(n - 1)
    BY <1>1, <1>6, <1>7
  <2>2. m[p] = x /\ m[p + 1] = y
    BY <1>3, <1>6, <2>1
  <2>3. p \in Places(<<x, y>>, m)
    BY <2>1, <2>2, MarkAt DEF n
  <2> QED
    BY <2>3
<1>8. CASE p = f
  <2>1. f \in 1..f
    BY <1>1
  <2> QED
    BY <1>3, <1>5, <1>6, <1>8, <2>1
<1>9. CASE p > f
  <2> DEFINE q == (p + g) - (f + 1)
  <2>1. p \in (f + 1)..k /\ p + 1 \in (f + 1)..k /\ q \in 1..(n - 1)
        /\ ((p + 1) + g) - (f + 1) = q + 1
    BY <1>1, <1>6, <1>9 DEF k
  <2>2. m[q] = x
    BY <1>4, <1>6, <2>1
  <2> HIDE DEF q
  <2>3. m[q + 1] = y
    BY <1>4, <1>6, <2>1
  <2>4. q \in Places(<<x, y>>, m)
    BY <2>1, <2>2, <2>3, MarkAt DEF n
  <2> QED
    BY <2>4
<1>10. p \in Nat
  BY <1>1, <1>6
<1> QED
  BY <1>1, <1>7, <1>8, <1>9, <1>10

LEMMA UnmarkedPrepared ==
  ASSUME NEW l \in Line, Marks(l) = {}
  PROVE  Marks(RemoveExtra(l)) = {}
<1> DEFINE m == Squeeze(l)
<1>1. Slashes(l) = {} /\ Opens(l) = {} /\ Closes(l) = {}
  BY DEF Marks
<1>2. m \in Line /\ Slashes(m) = {} /\ Opens(m) = {} /\ Closes(m) = {}
  BY <1>1, MarksThere
<1>3. RemoveExtra(l) = RemoveQuotes(m)
  BY DEF RemoveExtra
<1> HIDE DEF m
<1>4. CASE ~ Contains(m, Quote)
  <2>1. m \in Plain
    BY <1>2, <1>4, PlainIfNoQuote
  <2>2. RemoveExtra(l) = m
    BY <1>3, <2>1, Unquoted
  <2> QED
    BY <1>2, <2>2 DEF Marks
<1>5. CASE Contains(m, Quote)
  <2>1. PICK f, g : FirstString(m, f, g)
    BY <1>2, <1>5, StringThere
  <2>2. RemoveExtra(l) = Halves(m, f, g)
    BY <1>2, <1>3, <2>1, QuotesRemoved
  <2>3. "/" # Quote /\ "*" # Quote
    BY CharactersAssumption
  <2>4. /\ Places(<<"/", "/">>, Halves(m, f, g)) = {}
        /\ Places(<<"/", "*">>, Halves(m, f, g)) = {}
        /\ Places(<<"*", "/">>, Halves(m, f, g)) = {}
    BY <1>2, <2>1, <2>3, NoMarkAppears DEF Slashes, Opens, Closes
  <2> QED
    BY <2>2, <2>4 DEF Marks, Slashes, Opens, Closes
<1> QED
  BY <1>4, <1>5

(* A line without marks, outside of comments, stays as it is.              *)
LEMMA UnmarkedStays ==
  ASSUME NEW l \in Line, Marks(l) = {}, NEW c \in BOOLEAN, ~ c
  PROVE  RemoveCommentaries(c, l) = [line |-> l, open |-> c]
<1>1. RemoveCommentaries(c, l) = [line |-> l, open |-> FALSE]
  BY StrippedCases DEF Marks
<1>2. \A v : [line |-> l, open |-> v].open = v /\ [line |-> l, open |-> v].line = l
  OBVIOUS
<1>3. c = FALSE
  OBVIOUS
<1> QED
  BY <1>1, <1>3

(***************************************************************************)
(* Removing the extra characters of a line first changes neither what is   *)
(* open behind it nor, but for extra characters, what is left of it.       *)
(***************************************************************************)
LEMMA LinePrepared ==
  ASSUME NEW l \in Line, NEW c \in BOOLEAN, TidyLine(c, l)
  PROVE  /\ RemoveCommentaries(c, RemoveExtra(l)).open = RemoveCommentaries(c, l).open
         /\ RemoveExtra(RemoveCommentaries(c, RemoveExtra(l)).line)
              = RemoveExtra(RemoveCommentaries(c, l).line)
<1>1. CASE ~ Contains(l, Quote)
  <2> DEFINE m == Squeeze(l)
             x == RemoveCommentaries(c, m).line
             y == RemoveCommentaries(c, l).line
  <2>1. l \in Plain
    BY <1>1, PlainIfNoQuote
  <2>2. m \in Plain /\ RemoveExtra(l) = m
    BY <2>1, Unquoted
  <2>3. RemoveCommentaries(c, m).open = RemoveCommentaries(c, l).open /\ Squeeze(x) = Squeeze(y)
    BY TidySqueezed DEF LikeSqueezed, TidyLine
  <2> HIDE DEF m
  <2>4. x \in Plain /\ y \in Plain
    BY <2>1, <2>2, PlainLeft
  <2> HIDE DEF x, y
  <2>5. RemoveExtra(x) = Squeeze(x) /\ RemoveExtra(y) = Squeeze(y)
    BY <2>4, Unquoted
  <2>6. RemoveExtra(x) = RemoveExtra(y)
    BY <2>3, <2>5
  <2> QED
    BY <2>2, <2>3, <2>6 DEF x, y
<1>2. CASE Contains(l, Quote)
  <2> DEFINE m == RemoveExtra(l)
  <2>1. Marks(l) = {} /\ ~ c
    BY <1>2 DEF TidyLine
  <2>2. m \in Line /\ Marks(m) = {} /\ RemoveExtra(m) = m
    BY <2>1, Prepared, UnmarkedPrepared, ExtraTwice
  <2> HIDE DEF m
  <2>3. RemoveCommentaries(c, l) = [line |-> l, open |-> c]
    BY <2>1, UnmarkedStays
  <2>4. RemoveCommentaries(c, m) = [line |-> m, open |-> c]
    BY <2>1, <2>2, UnmarkedStays
  <2> QED
    BY <2>2, <2>3, <2>4 DEF m
<1> QED
  BY <1>1, <1>2------------------------------------------------------------------------------
(* The same for the lines of a file.                                       *)
Extras(d) == [n \in DOMAIN d |-> RemoveExtra(d[n])]

TidyFrom(c, d) == \A n \in 1..Len(d) : TidyLine(OpenAfter(c, d)[n - 1], d[n])

LEMMA ExtrasRemoved ==
  ASSUME NEW d \in File
  PROVE  /\ Extras(d) \in File /\ Len(Extras(d)) = Len(d) /\ Len(d) \in Nat
         /\ \A n \in 1..Len(d) : d[n] \in Line /\ Extras(d)[n] = RemoveExtra(d[n])
         /\ SignatureNormalize(d) = NonEmpty(Extras(d))
<1>1. Len(d) \in Nat /\ DOMAIN d = 1..Len(d) /\ \A n \in 1..Len(d) : d[n] \in Line
  BY DEF File
<1>2. \A n \in 1..Len(d) : RemoveExtra(d[n]) \in Line
  BY <1>1, Prepared
<1>3. Extras(d) = [n \in 1..Len(d) |-> RemoveExtra(d[n])]
  BY <1>1 DEF Extras
<1>4. Extras(d) \in File /\ Len(Extras(d)) = Len(d)
  BY <1>1, <1>2, <1>3 DEF File
<1> QED
  BY <1>1, <1>3, <1>4 DEF SignatureNormalize, Extras

LEMMA OpenPrepared ==
  ASSUME NEW d \in File, NEW c \in BOOLEAN, TidyFrom(c, d)
  PROVE  \A n \in 0..Len(d) : OpenAfter(c, Extras(d))[n] = OpenAfter(c, d)[n]
<1> DEFINE x == Extras(d)
           f == OpenAfter(c, d)
           g == OpenAfter(c, x)
           T == {m \in Nat : m <= Len(d) => g[m] = f[m]}
<1>1. /\ x \in File /\ Len(x) = Len(d) /\ Len(d) \in Nat
      /\ \A n \in 1..Len(d) : d[n] \in Line /\ x[n] = RemoveExtra(d[n])
  BY ExtrasRemoved
<1>2. f[0] = c /\ \A n \in 1..Len(d) : f[n] = RemoveCommentaries(f[n - 1], d[n]).open
  BY OpenFollows
<1> HIDE DEF x
<1>3. g[0] = c /\ \A n \in 1..Len(d) : g[n] = RemoveCommentaries(g[n - 1], x[n]).open
  BY <1>1, OpenFollows
<1>4. \A n \in 0..Len(d) : f[n] \in BOOLEAN
  BY OpenTyped
<1>5. \A n \in 1..Len(d) : TidyLine(f[n - 1], d[n])
  BY DEF TidyFrom
<1> HIDE DEF f, g
<1>6. 0 \in T
  BY <1>2, <1>3
<1>7. ASSUME NEW m \in T
      PROVE  m + 1 \in T
  <2>1. SUFFICES ASSUME m + 1 <= Len(d)
                 PROVE  g[m + 1] = f[m + 1]
    OBVIOUS
  <2> DEFINE k == m + 1
  <2>2. m <= Len(d) /\ k \in 1..Len(d) /\ k - 1 = m /\ m \in 0..Len(d)
    BY <1>1, <2>1
  <2>3. g[m] = f[m] /\ f[m] \in BOOLEAN
    BY <1>4, <2>2
  <2> HIDE DEF T, k
  <2>4. f[k] = RemoveCommentaries(f[m], d[k]).open /\ TidyLine(f[m], d[k])
    BY <1>2, <1>5, <2>2
  <2>5. g[k] = RemoveCommentaries(g[m], x[k]).open
    BY <1>3, <2>2
  <2>6. g[k] = RemoveCommentaries(f[m], RemoveExtra(d[k])).open
    BY <1>1, <2>2, <2>3, <2>5
  <2>7. RemoveCommentaries(f[m], RemoveExtra(d[k])).open = RemoveCommentaries(f[m], d[k]).open
    BY <1>1, <2>2, <2>3, <2>4, LinePrepared
  <2> QED
    BY <2>4, <2>6, <2>7 DEF k
<1>8. T = Nat
  <2>1. T \in SUBSET Nat
    OBVIOUS
  <2> HIDE DEF T
  <2> QED
    BY <1>6, <1>7, <2>1, SetInduction
<1>9. \A n \in 0..Len(d) : n \in T /\ n <= Len(d)
  BY <1>1, <1>8
<1> QED
  BY <1>9 DEF f, g, x

LEMMA StripPrepared ==
  ASSUME NEW d \in File, NEW c \in BOOLEAN, TidyFrom(c, d)
  PROVE  /\ Strip(c, SignatureNormalize(d)).open = OpenAfter(c, d)[Len(d)]
         /\ SignatureNormalize(Strip(c, SignatureNormalize(d)).data)
              = SignatureNormalize(StripLines(c, d))
         /\ Strip(c, SignatureNormalize(d)).data = NonEmpty(StripLines(c, Extras(d)))
<1> DEFINE x == Extras(d)
           f == OpenAfter(c, d)
           u == StripLines(c, x)
           v == StripLines(c, d)
<1>1. /\ x \in File /\ Len(x) = Len(d) /\ Len(d) \in Nat
      /\ \A n \in 1..Len(d) : d[n] \in Line /\ x[n] = RemoveExtra(d[n])
      /\ SignatureNormalize(d) = NonEmpty(x)
  BY ExtrasRemoved
<1>2. \A n \in 0..Len(d) : OpenAfter(c, x)[n] = f[n] /\ f[n] \in BOOLEAN
  BY OpenPrepared, OpenTyped
<1>3. /\ v \in File /\ Len(v) = Len(d)
      /\ \A n \in 1..Len(d) : v[n] = RemoveCommentaries(f[n - 1], d[n]).line
  BY OpenTyped
<1>4. \A n \in 1..Len(d) : TidyLine(f[n - 1], d[n])
  BY DEF TidyFrom
<1> HIDE DEF x, f
<1>5. /\ u \in File /\ Len(u) = Len(d)
      /\ \A n \in 1..Len(d) : u[n] = RemoveCommentaries(OpenAfter(c, x)[n - 1], x[n]).line
  <2>1. x \in File /\ Len(x) = Len(d)
    BY <1>1
  <2>2. /\ u \in File /\ Len(u) = Len(x)
        /\ \A n \in 1..Len(x) :
             u[n] = RemoveCommentaries(OpenAfter(c, x)[n - 1], x[n]).line
    BY <2>1, OpenTyped
  <2> HIDE DEF u
  <2> QED
    BY <2>1, <2>2
<1>6. Strip(c, NonEmpty(x)) = Strip(c, x)
  BY <1>1, StripOfNonEmpty
<1>7. Strip(c, x).open = OpenAfter(c, x)[Len(x)] /\ Strip(c, x).data = NonEmpty(u)
  BY DEF Strip
<1> HIDE DEF u, v
<1>8. ASSUME NEW n \in 1..Len(d)
      PROVE  RemoveExtra(u[n]) = RemoveExtra(v[n])
  <2> DEFINE b == n - 1
  <2>1. b \in 0..Len(d)
    BY <1>1
  <2>2. u[n] = RemoveCommentaries(OpenAfter(c, x)[b], x[n]).line
        /\ v[n] = RemoveCommentaries(f[b], d[n]).line /\ TidyLine(f[b], d[n])
    BY <1>3, <1>4, <1>5
  <2> HIDE DEF b
  <2>3. OpenAfter(c, x)[b] = f[b] /\ f[b] \in BOOLEAN
    BY <1>2, <2>1
  <2>4. u[n] = RemoveCommentaries(f[b], RemoveExtra(d[n])).line
    BY <1>1, <2>2, <2>3
  <2>5. RemoveExtra(RemoveCommentaries(f[b], RemoveExtra(d[n])).line)
          = RemoveExtra(RemoveCommentaries(f[b], d[n]).line)
    BY <1>1, <2>2, <2>3, LinePrepared
  <2> QED
    BY <2>2, <2>4, <2>5
<1>9. Extras(u) = Extras(v)
  <2>1. DOMAIN u = 1..Len(d) /\ DOMAIN v = 1..Len(d)
    BY <1>3, <1>5 DEF File
  <2> QED
    BY <1>8, <2>1 DEF Extras
<1>10. SignatureNormalize(u) = SignatureNormalize(v)
  BY <1>3, <1>5, <1>9, ExtrasRemoved
<1>11. SignatureNormalize(NonEmpty(u)) = SignatureNormalize(u)
  BY <1>5, NormalizeNonEmpty
<1>12. Len(d) \in 0..Len(d)
  BY <1>1
<1>13. Strip(c, x).open = f[Len(d)]
  BY <1>1, <1>2, <1>7, <1>12
<1> QED
  BY <1>1, <1>6, <1>7, <1>10, <1>11, <1>13 DEF u, v, x, f

(* Both ways leave the code that the rules of C leave.                     *)
LEMMA CodePrepared ==
  ASSUME NEW d \in File, TidyAlong(d)
  PROVE  /\ SignatureNormalize(Strip(FALSE, SignatureNormalize(d)).data) = Code(d)
         /\ Strip(FALSE, SignatureNormalize(d)).open = FALSE
<1>1. PICK c \in BOOLEAN : c = FALSE
  OBVIOUS
<1>2. Code(d) = SignatureNormalize(StripLines(FALSE, d)) /\ Strip(FALSE, d).open = FALSE
  BY CodeOfTidy
<1>3. Strip(FALSE, d).open = OpenAfter(FALSE, d)[Len(d)]
  BY DEF Strip
<1>4. TidyFrom(FALSE, d)
  BY DEF TidyAlong, TidyFrom
<1>5. TidyFrom(c, d)
  BY <1>1, <1>4
<1>6. /\ Strip(c, SignatureNormalize(d)).open = OpenAfter(c, d)[Len(d)]
      /\ SignatureNormalize(Strip(c, SignatureNormalize(d)).data)
           = SignatureNormalize(StripLines(c, d))
  BY <1>5, StripPrepared
<1> QED
  BY <1>1, <1>2, <1>3, <1>6
(* Without comments nothing is stripped.                                   *)
LEMMA UncommentedStays ==
  ASSUME NEW d \in File, Uncommented(d), NEW c \in BOOLEAN, ~ c
  PROVE  StripLines(c, d) = d
<1> DEFINE f == OpenAfter(c, d)
           T == {m \in Nat : m <= Len(d) => f[m] = c}
           u == StripLines(c, d)
<1>1. /\ Len(d) \in Nat /\ DOMAIN d = 1..Len(d)
      /\ \A n \in 1..Len(d) : d[n] \in Line /\ Marks(d[n]) = {}
  BY DEF File, Uncommented
<1>2. f[0] = c /\ \A n \in 1..Len(d) : f[n] = RemoveCommentaries(f[n - 1], d[n]).open
  BY OpenFollows
<1>3. /\ u \in File /\ Len(u) = Len(d)
      /\ \A n \in 1..Len(d) : u[n] = RemoveCommentaries(f[n - 1], d[n]).line
  BY OpenTyped
<1> HIDE DEF f, u
<1>4. \A n \in 1..Len(d) : RemoveCommentaries(c, d[n]) = [line |-> d[n], open |-> c]
  BY <1>1, UnmarkedStays
<1>5. \A n \in 1..Len(d) : /\ RemoveCommentaries(c, d[n]).line = d[n]
                           /\ RemoveCommentaries(c, d[n]).open = c
  <2> SUFFICES ASSUME NEW n \in 1..Len(d)
               PROVE  /\ RemoveCommentaries(c, d[n]).line = d[n]
                      /\ RemoveCommentaries(c, d[n]).open = c
    OBVIOUS
  <2> DEFINE r == RemoveCommentaries(c, d[n])
  <2>1. r = [line |-> d[n], open |-> c]
    BY <1>4
  <2> HIDE DEF r
  <2>2. r.line = d[n]
    BY <2>1
  <2>3. r.open = c
    BY <2>1, Zenon
  <2> QED
    BY <2>2, <2>3 DEF r
<1>6. 0 \in T
  BY <1>2
<1>7. ASSUME NEW m \in T
      PROVE  m + 1 \in T
  <2>1. SUFFICES ASSUME m + 1 <= Len(d)
                 PROVE  f[m + 1] = c
    OBVIOUS
  <2> DEFINE k == m + 1
  <2>2. m <= Len(d) /\ k \in 1..Len(d) /\ k - 1 = m
    BY <1>1, <2>1
  <2>3. f[m] = c
    BY <2>2
  <2> HIDE DEF T, k
  <2>4. f[k] = RemoveCommentaries(f[m], d[k]).open
    BY <1>2, <2>2
  <2>5. f[k] = RemoveCommentaries(c, d[k]).open
    BY <2>3, <2>4
  <2>6. f[k] = c
    BY <1>5, <2>2, <2>5
  <2> QED
    BY <2>6 DEF k
<1>8. T = Nat
  <2>1. T \in SUBSET Nat
    OBVIOUS
  <2> HIDE DEF T
  <2> QED
    BY <1>6, <1>7, <2>1, SetInduction
<1>9. ASSUME NEW n \in 1..Len(d)
      PROVE  u[n] = d[n]
  <2> DEFINE b == n - 1
  <2>1. b \in T /\ b <= Len(d)
    BY <1>1, <1>8
  <2>2. f[b] = c
    BY <2>1
  <2>3. u[n] = RemoveCommentaries(f[b], d[n]).line
    BY <1>3
  <2> HIDE DEF b
  <2>4. u[n] = RemoveCommentaries(c, d[n]).line
    BY <2>2, <2>3
  <2> QED
    BY <1>5, <2>4
<1> QED
  BY <1>3, <1>9 DEF File, u

LEMMA UncommentedPrepared ==
  ASSUME NEW d \in File, Uncommented(d)
  PROVE  /\ Strip(FALSE, SignatureNormalize(d)).data = SignatureNormalize(d)
         /\ SignatureNormalize(Strip(FALSE, d).data) = SignatureNormalize(d)
<1> DEFINE x == Extras(d)
<1>1. PICK c \in BOOLEAN : c = FALSE
  OBVIOUS
<1>2. /\ x \in File /\ Len(x) = Len(d) /\ Len(d) \in Nat
      /\ \A n \in 1..Len(d) : d[n] \in Line /\ x[n] = RemoveExtra(d[n])
      /\ SignatureNormalize(d) = NonEmpty(x)
  BY ExtrasRemoved
<1> HIDE DEF x
<1>3. Uncommented(x)
  <2>1. \A n \in 1..Len(d) : Marks(d[n]) = {}
    BY DEF Uncommented, File
  <2>2. \A n \in 1..Len(d) : Marks(x[n]) = {}
    BY <1>2, <2>1, UnmarkedPrepared
  <2>3. DOMAIN x = 1..Len(d)
    BY <1>2 DEF File
  <2> QED
    BY <2>2, <2>3 DEF Uncommented
<1>4. StripLines(c, x) = x /\ StripLines(c, d) = d
  BY <1>1, <1>2, <1>3, UncommentedStays
<1>5. Strip(c, x).data = NonEmpty(x) /\ Strip(c, d).data = NonEmpty(d)
  BY <1>4 DEF Strip
<1>6. Strip(c, NonEmpty(x)) = Strip(c, x)
  BY <1>2, StripOfNonEmpty
<1>7. SignatureNormalize(NonEmpty(d)) = SignatureNormalize(d)
  BY NormalizeNonEmpty
<1>8. /\ Strip(c, SignatureNormalize(d)).data = SignatureNormalize(d)
      /\ SignatureNormalize(Strip(c, d).data) = SignatureNormalize(d)
  BY <1>2, <1>5, <1>6, <1>7
<1> QED
  BY <1>1, <1>8

(* A file that is not empty scores in full against itself.                 *)
LEMMA ScoreOfItself ==
  ASSUME NEW x \in File, x # <<>>
  PROVE  Score(x, x) = 100
<1> DEFINE k == Len(x)
<1>1. k \in Nat /\ DOMAIN x = 1..k
  BY DEF File
<1>2. k # 0
  BY DEF File
<1>3. {n \in DOMAIN x : Contains(x, x[n])} = 1..k
  BY <1>1 DEF Contains
<1>4. Cardinality(1..k) = k
  <2>1. 1 \in Int /\ k \in Int /\ (k - 1) + 1 = k
    BY <1>1
  <2>2. Cardinality(1..k) = IF 1 > k THEN 0 ELSE (k - 1) + 1
    BY <2>1, FS_Interval
  <2> HIDE DEF k
  <2>3. ~ (1 > k)
    BY <1>1, <1>2
  <2> QED
    BY <2>1, <2>2, <2>3
<1>5. Score(x, x) = (100 * k) \div (k + 0)
  <2>1. ~ (k > k)
    BY <1>1
  <2> QED
    BY <1>3, <1>4, <2>1 DEF Score
<1> HIDE DEF k
<1>6. (100 * k) \div (k + 0) = 100
  BY <1>1, <1>2
<1> QED
  BY <1>5, <1>6

LEMMA ScoreBounded ==
  ASSUME NEW x \in File, NEW y \in File
  PROVE  Score(x, y) \in 0..100
<1> DEFINE n == Len(x)
           m == Len(y)
           M == {i \in DOMAIN x : Contains(y, x[i])}
           k == Cardinality(M)
           s == IF n > m THEN n - m ELSE 0
<1>1. n \in Nat /\ m \in Nat /\ DOMAIN x = 1..n
  BY DEF File
<1>2. k \in Nat /\ k <= n
  <2>1. M \in SUBSET (1..n)
    BY <1>1
  <2>2. 1 \in Int /\ n \in Int /\ (n - 1) + 1 = n
    BY <1>1
  <2>3. IsFiniteSet(1..n)
    BY <2>2, FS_Interval
  <2>4. Cardinality(1..n) = IF 1 > n THEN 0 ELSE (n - 1) + 1
    BY <2>2, FS_Interval
  <2> HIDE DEF n, M
  <2>5. IsFiniteSet(M) /\ Cardinality(M) <= Cardinality(1..n)
    BY <2>1, <2>3, FS_Subset
  <2>6. Cardinality(M) \in Nat
    BY <2>5, FS_CardinalityType
  <2>7. Cardinality(1..n) <= n /\ Cardinality(1..n) \in Nat
    BY <1>1, <2>2, <2>4
  <2> QED
    BY <1>1, <2>5, <2>6, <2>7 DEF k
<1>3. s \in Nat
  BY <1>1
<1>4. Score(x, y) = IF x = <<>> \/ y = <<>> THEN 0 ELSE (100 * k) \div (n + s)
  BY DEF Score
<1>5. x # <<>> => n # 0
  BY DEF File
<1> HIDE DEF n, m, k, s
<1>6. ASSUME n # 0
      PROVE  (100 * k) \div (n + s) \in 0..100
  <2> DEFINE t == n + s
  <2>1. t \in Nat /\ t > 0 /\ k <= t
    BY <1>1, <1>2, <1>3, <1>6
  <2> HIDE DEF t
  <2>2. 100 * k >= 0 /\ 100 * k <= 100 * t /\ 100 * k \in Nat
    BY <1>2, <2>1
  <2>3. (100 * k) \div t \in 0..100
    BY <2>1, <2>2
  <2> QED
    BY <2>3 DEF t
<1> QED
  BY <1>4, <1>5, <1>6------------------------------------------------------------------------------
(***************************************************************************)
(* The inductive invariant: between the calls no comment is open, every    *)
(* object is prepared from a file of the disk or empty, and each overload  *)
(* has answered for a file and such a source, as if it were the first call *)
(* of all.                                                                 *)
(***************************************************************************)
Sources == {<<>>} \cup {Read(path) : path \in DOMAIN disk}

PreparedObject(s) ==
  [source |-> s, signatureData |-> Strip(FALSE, SignatureNormalize(s)).data,
   lineCompData |-> NormalizeLines(s)]

FileReference(path) == SignatureNormalize(Strip(FALSE, disk[path]).data)
PeerReference(path) == SignatureNormalize(disk[path])

FileAnswer(path, s) ==
  [reference |-> FileReference(path), path |-> path, source |-> s,
   score |-> Score(FileReference(path), SignatureNormalize(s))]

PeerAnswer(path, s) ==
  [reference |-> PeerReference(path), path |-> path, source |-> s,
   score |-> Score(PeerReference(path), Strip(FALSE, SignatureNormalize(s)).data)]

ObjectsInv ==
  /\ DOMAIN objects = Objects
  /\ \A o \in Objects : \E s \in Sources : objects[o] = PreparedObject(s)

FileAnswered ==
  \/ answers["FileData"] = NoAnswer
  \/ \E path \in DOMAIN disk, s \in Sources : answers["FileData"] = FileAnswer(path, s)

PeerAnswered ==
  \/ answers["PeerFileData"] = NoAnswer
  \/ \E path \in DOMAIN disk, s \in Sources : answers["PeerFileData"] = PeerAnswer(path, s)

AnswersInv ==
  DOMAIN answers = {"FileData", "PeerFileData"} /\ FileAnswered /\ PeerAnswered

IInv ==
  disk \in Disks /\ IsOpenCommentary = FALSE /\ ObjectsInv /\ AnswersInv

(* An empty file.                                                          *)
LEMMA EmptyFile ==
  /\ <<>> \in File /\ TidyAlong(<<>>) /\ PreparedObject(<<>>) = NoData
  /\ SignatureNormalize(<<>>) = <<>>
<1>1. <<>> \in File /\ Len(<<>>) = 0 /\ DOMAIN <<>> = {}
  BY DEF File
<1>2. NonEmpty(<<>>) = <<>>
  <2>1. {n \in DOMAIN <<>> : <<>>[n] # <<>>} = {}
    BY <1>1
  <2> QED
    BY <2>1, EmptyExcerpt DEF NonEmpty
<1>3. SignatureNormalize(<<>>) = <<>> /\ NormalizeLines(<<>>) = <<>>
  <2>1. [n \in DOMAIN <<>> |-> RemoveExtra(<<>>[n])] = <<>>
    BY <1>1
  <2>2. [n \in DOMAIN <<>> |-> NormalizeString(<<>>[n])] = <<>>
    BY <1>1
  <2> QED
    BY <1>2, <2>1, <2>2 DEF SignatureNormalize, NormalizeLines
<1>4. Strip(FALSE, <<>>).data = <<>>
  <2>1. StripLines(FALSE, <<>>) = <<>>
    BY <1>1 DEF StripLines
  <2> QED
    BY <1>2, <2>1 DEF Strip
<1>5. TidyAlong(<<>>)
  <2>1. PICK c : c = FALSE
    OBVIOUS
  <2>2. OpenAfter(c, <<>>)[0] = c
    BY <1>1, OpenFollows
  <2>3. ~ OpenAfter(FALSE, <<>>)[0]
    BY <2>1, <2>2
  <2>4. 1..Len(<<>>) = {}
    BY <1>1
  <2> QED
    BY <1>1, <2>3, <2>4 DEF TidyAlong
<1> QED
  BY <1>1, <1>3, <1>4, <1>5 DEF PreparedObject, NoData

(* What a disk holds, and what the objects are made from.                  *)
LEMMA DiskFiles ==
  ASSUME disk \in Disks
  PROVE  /\ \A path \in DOMAIN disk :
              /\ path # NoPath /\ disk[path] \in File /\ TidyAlong(disk[path])
              /\ Read(path) = NonEmpty(disk[path]) /\ Read(path) \in Sources
         /\ \A s \in Sources :
              s \in File /\ TidyAlong(s) /\ \A n \in DOMAIN s : s[n] # <<>>
<1>1. NoPath \notin DOMAIN disk /\ \A path \in DOMAIN disk : disk[path] \in File
  BY DisksAssumption DEF File, Line
<1>2. \A path \in DOMAIN disk : TidyAlong(disk[path])
  BY <1>1, TidyAssumption, TidyFileAlong
<1>3. \A path \in DOMAIN disk : Read(path) = NonEmpty(disk[path]) /\ Read(path) \in Sources
  BY DEF Read, Sources
<1>4. ASSUME NEW s \in Sources
      PROVE  s \in File /\ TidyAlong(s) /\ \A n \in DOMAIN s : s[n] # <<>>
  <2>1. CASE s = <<>>
    BY <2>1, EmptyFile
  <2>2. CASE \E path \in DOMAIN disk : s = Read(path)
    <3>1. PICK path \in DOMAIN disk : s = Read(path)
      BY <2>2
    <3>2. s = NonEmpty(disk[path]) /\ disk[path] \in File /\ TidyAlong(disk[path])
      BY <1>1, <1>2, <3>1 DEF Read
    <3> QED
      BY <3>2, NonEmptyLines, TidyNonEmpty
  <2> QED
    BY <2>1, <2>2 DEF Sources
<1> QED
  BY <1>1, <1>2, <1>3, <1>4

LEMMA InitInv == Init => IInv
<1> SUFFICES ASSUME Init
             PROVE  IInv
  OBVIOUS
<1>1. disk \in Disks /\ IsOpenCommentary = FALSE
  BY DEF Init
<1>2. ObjectsInv
  <2>1. <<>> \in Sources
    BY DEF Sources
  <2>2. DOMAIN objects = Objects /\ \A o \in Objects : objects[o] = NoData
    BY DEF Init
  <2> QED
    BY <2>1, <2>2, EmptyFile DEF ObjectsInv
<1>3. AnswersInv
  <2>1. DOMAIN answers = {"FileData", "PeerFileData"}
        /\ answers["FileData"] = NoAnswer /\ answers["PeerFileData"] = NoAnswer
    BY DEF Init
  <2> QED
    BY <2>1 DEF AnswersInv, FileAnswered, PeerAnswered
<1> QED
  BY <1>1, <1>2, <1>3 DEF IInv

(* While the disk and the answers, or the objects, stay.                   *)
LEMMA AnswersStay ==
  ASSUME AnswersInv, disk' = disk, answers' = answers
  PROVE  AnswersInv'
<1>1. Sources' = Sources
  BY DEF Sources, Read
<1>2. \A path, s : FileAnswer(path, s)' = FileAnswer(path, s)
  BY DEF FileAnswer, FileReference
<1>3. \A path, s : PeerAnswer(path, s)' = PeerAnswer(path, s)
  BY DEF PeerAnswer, PeerReference
<1>4. FileAnswered'
  BY <1>1, <1>2 DEF AnswersInv, FileAnswered
<1>5. PeerAnswered'
  BY <1>1, <1>3 DEF AnswersInv, PeerAnswered
<1> QED
  BY <1>4, <1>5 DEF AnswersInv

LEMMA ObjectsStay ==
  ASSUME ObjectsInv, disk' = disk, objects' = objects
  PROVE  ObjectsInv'
<1>1. Sources' = Sources
  BY DEF Sources, Read
<1> QED
  BY <1>1 DEF ObjectsInv

LEMMA StutterInv == IInv /\ UNCHANGED vars => IInv'
<1> SUFFICES ASSUME IInv, UNCHANGED vars
             PROVE  IInv'
  OBVIOUS
<1>1. disk' = disk /\ IsOpenCommentary' = IsOpenCommentary /\ objects' = objects
      /\ answers' = answers
  BY DEF vars
<1>2. ObjectsInv' /\ AnswersInv'
  BY <1>1, ObjectsStay, AnswersStay DEF IInv
<1> QED
  BY <1>1, <1>2 DEF IInv

LEMMA SetSourceInv ==
  ASSUME IInv, NEW o \in Objects, NEW path \in DOMAIN disk, SetSource(o, path)
  PROVE  IInv'
<1> DEFINE s == Read(path)
           stripped == Strip(IsOpenCommentary, SignatureNormalize(s))
           new == [source |-> s, signatureData |-> stripped.data,
                   lineCompData |-> NormalizeLines(s)]
<1>1. /\ disk' = disk /\ answers' = answers /\ IsOpenCommentary' = stripped.open
      /\ objects' = [objects EXCEPT ![o] = new]
  BY DEF SetSource, AnalyzeSource
<1>2. s \in Sources /\ s \in File /\ TidyAlong(s)
  BY DiskFiles DEF IInv
<1>3. IsOpenCommentary = FALSE
  BY DEF IInv
<1>4. stripped = Strip(FALSE, SignatureNormalize(s))
  BY <1>3
<1>5. stripped.open = FALSE
  BY <1>2, <1>4, CodePrepared
<1>6. new = PreparedObject(s)
  BY <1>4 DEF PreparedObject
<1> HIDE DEF new, stripped, s
<1>7. Sources' = Sources
  BY <1>1 DEF Sources, Read
<1>8. ObjectsInv'
  <2>1. DOMAIN objects' = Objects
    BY <1>1 DEF IInv, ObjectsInv
  <2>2. ASSUME NEW a \in Objects
        PROVE  \E q \in Sources : objects'[a] = PreparedObject(q)
    <3>1. CASE a = o
      <4>1. objects'[a] = new
        BY <1>1, <3>1 DEF IInv, ObjectsInv
      <4> QED
        BY <1>2, <1>6, <4>1
    <3>2. CASE a # o
      BY <1>1, <3>2 DEF IInv, ObjectsInv
    <3> QED
      BY <3>1, <3>2
  <2> QED
    BY <1>7, <2>1, <2>2 DEF ObjectsInv
<1>9. AnswersInv'
  BY <1>1, AnswersStay DEF IInv
<1>10. disk' \in Disks /\ IsOpenCommentary' = FALSE
  BY <1>1, <1>5 DEF IInv
<1> QED
  BY <1>8, <1>9, <1>10 DEF IInv

LEMMA CopyInv ==
  ASSUME IInv, NEW o \in Objects, NEW from \in Objects, Copy(o, from) \/ Move(o, from)
  PROVE  IInv'
<1>1. /\ disk' = disk /\ answers' = answers /\ IsOpenCommentary' = IsOpenCommentary
      /\ DOMAIN objects' = Objects
      /\ \A a \in Objects : \/ objects'[a] = NoData
                            \/ \E b \in Objects : objects'[a] = objects[b]
  <2>1. CASE Copy(o, from)
    BY <2>1 DEF Copy, IInv, ObjectsInv
  <2>2. CASE Move(o, from)
    BY <2>2 DEF Move, IInv, ObjectsInv
  <2> QED
    BY <2>1, <2>2
<1>2. Sources' = Sources
  BY <1>1 DEF Sources, Read
<1>3. <<>> \in Sources /\ PreparedObject(<<>>) = NoData
  BY EmptyFile DEF Sources
<1>4. ObjectsInv'
  BY <1>1, <1>2, <1>3 DEF IInv, ObjectsInv
<1>5. AnswersInv'
  BY <1>1, AnswersStay DEF IInv
<1> QED
  BY <1>1, <1>4, <1>5 DEF IInv

LEMMA CompareFileDataInv ==
  ASSUME IInv, NEW o \in Objects, NEW path \in DOMAIN disk, CompareFileData(path, o)
  PROVE  IInv'
<1> DEFINE stripped == Strip(IsOpenCommentary, disk[path])
           reference == SignatureNormalize(stripped.data)
           s == objects[o].source
           new == [reference |-> reference, path |-> path, source |-> s,
                   score |-> Score(reference, SignatureNormalize(s))]
<1>1. /\ disk' = disk /\ objects' = objects /\ IsOpenCommentary' = stripped.open
      /\ answers' = [answers EXCEPT !["FileData"] = new]
  BY DEF CompareFileData
<1>2. disk[path] \in File /\ TidyAlong(disk[path])
  BY DiskFiles DEF IInv
<1>3. IsOpenCommentary = FALSE
  BY DEF IInv
<1>4. stripped = Strip(FALSE, disk[path])
  BY <1>3
<1>5. stripped.open = FALSE
  BY <1>2, <1>4, CodeOfTidy
<1>6. s \in Sources
  <2>1. PICK q \in Sources : objects[o] = PreparedObject(q)
    BY DEF IInv, ObjectsInv
  <2> QED
    BY <2>1 DEF PreparedObject
<1>7. new = FileAnswer(path, s)
  BY <1>4 DEF FileAnswer, FileReference
<1> HIDE DEF new, stripped, s
<1>8. /\ DOMAIN answers' = {"FileData", "PeerFileData"} /\ answers'["FileData"] = new
      /\ answers'["PeerFileData"] = answers["PeerFileData"]
  BY <1>1 DEF IInv, AnswersInv
<1>9. Sources' = Sources
  BY <1>1 DEF Sources, Read
<1>11. FileAnswered'
  <2>1. \A p, q : FileAnswer(p, q)' = FileAnswer(p, q)
    BY <1>1 DEF FileAnswer, FileReference
  <2>2. \E p \in DOMAIN disk, q \in Sources : answers'["FileData"] = FileAnswer(p, q)
    BY <1>6, <1>7, <1>8
  <2> QED
    BY <1>1, <1>9, <2>1, <2>2 DEF FileAnswered
<1>12. PeerAnswered'
  <2>1. \A p, q : PeerAnswer(p, q)' = PeerAnswer(p, q)
    BY <1>1 DEF PeerAnswer, PeerReference
  <2> QED
    BY <1>1, <1>8, <1>9, <2>1 DEF IInv, AnswersInv, PeerAnswered
<1>13. ObjectsInv'
  BY <1>1, ObjectsStay DEF IInv
<1>14. disk' \in Disks /\ IsOpenCommentary' = FALSE
  BY <1>1, <1>5 DEF IInv
<1> QED
  BY <1>8, <1>11, <1>12, <1>13, <1>14 DEF IInv, AnswersInv

LEMMA ComparePeerFileDataInv ==
  ASSUME IInv, NEW o \in Objects, NEW path \in DOMAIN disk, ComparePeerFileData(path, o)
  PROVE  IInv'
<1> DEFINE reference == SignatureNormalize(disk[path])
           s == objects[o].source
           new == [reference |-> reference, path |-> path, source |-> s,
                   score |-> Score(reference, objects[o].signatureData)]
<1>1. /\ disk' = disk /\ objects' = objects /\ IsOpenCommentary' = IsOpenCommentary
      /\ answers' = [answers EXCEPT !["PeerFileData"] = new]
  BY DEF ComparePeerFileData
<1>2. PICK q \in Sources : objects[o] = PreparedObject(q)
  BY DEF IInv, ObjectsInv
<1>3. s \in Sources /\ objects[o].signatureData = Strip(FALSE, SignatureNormalize(s)).data
  BY <1>2 DEF PreparedObject
<1>4. new = PeerAnswer(path, s)
  BY <1>3 DEF PeerAnswer, PeerReference
<1> HIDE DEF new, s
<1>5. /\ DOMAIN answers' = {"FileData", "PeerFileData"} /\ answers'["PeerFileData"] = new
      /\ answers'["FileData"] = answers["FileData"]
  BY <1>1 DEF IInv, AnswersInv
<1>6. Sources' = Sources
  BY <1>1 DEF Sources, Read
<1>7. FileAnswered'
  <2>1. \A p, r : FileAnswer(p, r)' = FileAnswer(p, r)
    BY <1>1 DEF FileAnswer, FileReference
  <2> QED
    BY <1>1, <1>5, <1>6, <2>1 DEF IInv, AnswersInv, FileAnswered
<1>8. PeerAnswered'
  <2>1. \A p, r : PeerAnswer(p, r)' = PeerAnswer(p, r)
    BY <1>1 DEF PeerAnswer, PeerReference
  <2>2. \E p \in DOMAIN disk, r \in Sources : answers'["PeerFileData"] = PeerAnswer(p, r)
    BY <1>3, <1>4, <1>5
  <2> QED
    BY <1>1, <1>6, <2>1, <2>2 DEF PeerAnswered
<1>9. ObjectsInv'
  BY <1>1, ObjectsStay DEF IInv
<1> QED
  BY <1>1, <1>5, <1>7, <1>8, <1>9 DEF IInv, AnswersInv

(* Every step keeps the invariant.                                         *)
LEMMA NextInv == IInv /\ Next => IInv'
<1> SUFFICES ASSUME IInv, Next
             PROVE  IInv'
  OBVIOUS
<1>1. CASE \E o \in Objects, path \in DOMAIN disk : SetSource(o, path)
  BY <1>1, SetSourceInv
<1>2. CASE \E o \in Objects, path \in DOMAIN disk : CompareFileData(path, o)
  BY <1>2, CompareFileDataInv
<1>3. CASE \E o \in Objects, path \in DOMAIN disk : ComparePeerFileData(path, o)
  BY <1>3, ComparePeerFileDataInv
<1>4. CASE \E o, from \in Objects : Copy(o, from) \/ Move(o, from)
  BY <1>4, CopyInv
<1> QED
  BY <1>1, <1>2, <1>3, <1>4 DEF Next

LEMMA Inductive == Spec => []IInv
<1>1. IInv /\ [Next]_vars => IInv'
  BY NextInv, StutterInv
<1> QED
  BY <1>1, InitInv, PTL DEF Spec------------------------------------------------------------------------------
(* What an object keeps of its file.                                       *)
LEMMA CopiesBounded ==
  ASSUME NEW s \in File, TidyAlong(s)
  PROVE  /\ Strip(FALSE, SignatureNormalize(s)).data \in File
         /\ Len(Strip(FALSE, SignatureNormalize(s)).data) <= Len(s)
         /\ \A n \in DOMAIN Strip(FALSE, SignatureNormalize(s)).data :
              Strip(FALSE, SignatureNormalize(s)).data[n] # <<>>
<1> DEFINE x == Extras(s)
<1>1. PICK c \in BOOLEAN : c = FALSE
  OBVIOUS
<1> DEFINE u == StripLines(c, x)
           w == Strip(c, SignatureNormalize(s)).data
<1>2. TidyFrom(c, s)
  <2>1. TidyFrom(FALSE, s)
    BY DEF TidyAlong, TidyFrom
  <2> QED
    BY <1>1, <2>1
<1>3. w = NonEmpty(u)
  BY <1>2, StripPrepared
<1>4. x \in File /\ Len(x) = Len(s)
  BY ExtrasRemoved
<1> HIDE DEF x
<1>5. u \in File /\ Len(u) = Len(x)
  BY <1>4, OpenTyped
<1> HIDE DEF u, w
<1>6. w \in File /\ Len(w) <= Len(u) /\ \A n \in DOMAIN w : w[n] # <<>>
  BY <1>3, <1>5, NonEmptyLines
<1>7. w \in File /\ Len(w) <= Len(s) /\ \A n \in DOMAIN w : w[n] # <<>>
  BY <1>4, <1>5, <1>6
<1> QED
  BY <1>1, <1>7 DEF w

(* What is known of every object, and of every answer.                     *)
LEMMA ObjectOf ==
  ASSUME IInv, NEW o \in Objects
  PROVE  /\ objects[o] = PreparedObject(objects[o].source)
         /\ objects[o].source \in Sources
         /\ objects[o].signatureData
              = Strip(FALSE, SignatureNormalize(objects[o].source)).data
         /\ objects[o].lineCompData = NormalizeLines(objects[o].source)
<1>1. PICK s \in Sources : objects[o] = PreparedObject(s)
  BY DEF IInv, ObjectsInv
<1>2. /\ PreparedObject(s).source = s /\ PreparedObject(s).lineCompData = NormalizeLines(s)
      /\ PreparedObject(s).signatureData = Strip(FALSE, SignatureNormalize(s)).data
  <2> DEFINE g == Strip(FALSE, SignatureNormalize(s)).data
             h == NormalizeLines(s)
  <2>1. PreparedObject(s) = [source |-> s, signatureData |-> g, lineCompData |-> h]
    BY DEF PreparedObject
  <2> HIDE DEF g, h
  <2> QED
    BY <2>1 DEF g, h
<1> QED
  BY <1>1, <1>2

LEMMA PeerAnswerFields ==
  ASSUME NEW path, NEW s
  PROVE  /\ PeerAnswer(path, s).path = path /\ PeerAnswer(path, s).source = s
         /\ PeerAnswer(path, s).score
              = Score(PeerReference(path), Strip(FALSE, SignatureNormalize(s)).data)
<1> DEFINE k == Score(PeerReference(path), Strip(FALSE, SignatureNormalize(s)).data)
<1>1. PeerAnswer(path, s) = [reference |-> PeerReference(path), path |-> path,
                             source |-> s, score |-> k]
  BY DEF PeerAnswer
<1> HIDE DEF k
<1> QED
  BY <1>1 DEF k

LEMMA TypeOfIInv == IInv => TypeOK
<1> SUFFICES ASSUME IInv
             PROVE  TypeOK
  OBVIOUS
<1>1. ASSUME NEW o \in Objects
      PROVE  /\ DOMAIN objects[o] = {"source", "signatureData", "lineCompData"}
             /\ \A copy \in DOMAIN objects[o] :
                  /\ Len(objects[o][copy]) <= Len(objects[o].source)
                  /\ ~ Contains(objects[o][copy], <<>>)
  <2> DEFINE s == objects[o].source
             g == Strip(FALSE, SignatureNormalize(s)).data
             h == NormalizeLines(s)
  <2>1. objects[o] = PreparedObject(s) /\ s \in Sources
    BY ObjectOf
  <2>2. s \in File /\ TidyAlong(s) /\ \A n \in DOMAIN s : s[n] # <<>>
    BY <2>1, DiskFiles DEF IInv
  <2>3. objects[o] = [source |-> s, signatureData |-> g, lineCompData |-> h]
    BY <2>1 DEF PreparedObject
  <2> HIDE DEF s
  <2>4. g \in File /\ Len(g) <= Len(s) /\ \A n \in DOMAIN g : g[n] # <<>>
    BY <2>2, CopiesBounded
  <2>5. h \in File /\ Len(h) <= Len(s) /\ \A n \in DOMAIN h : h[n] # <<>>
    BY <2>2, PreparedFile
  <2> HIDE DEF g, h
  <2>6. /\ DOMAIN objects[o] = {"source", "signatureData", "lineCompData"}
        /\ objects[o]["source"] = s /\ objects[o]["signatureData"] = g
        /\ objects[o]["lineCompData"] = h
    BY <2>3
  <2>7. Len(s) <= Len(s)
    BY <2>2 DEF File
  <2>8. ~ Contains(s, <<>>) /\ ~ Contains(g, <<>>) /\ ~ Contains(h, <<>>)
    BY <2>2, <2>4, <2>5 DEF Contains, File
  <2> QED
    BY <2>4, <2>5, <2>6, <2>7, <2>8 DEF s
<1>2. answers["FileData"].score \in 0..100
  <2>1. CASE answers["FileData"] = NoAnswer
    BY <2>1 DEF NoAnswer
  <2>2. CASE \E path \in DOMAIN disk, s \in Sources : answers["FileData"] = FileAnswer(path, s)
    <3>1. PICK path \in DOMAIN disk, s \in Sources : answers["FileData"] = FileAnswer(path, s)
      BY <2>2
    <3>2. disk[path] \in File /\ TidyAlong(disk[path]) /\ s \in File
      BY DiskFiles DEF IInv
    <3>3. FileReference(path) = SignatureNormalize(StripLines(FALSE, disk[path]))
      BY <3>2, CodeOfTidy DEF FileReference
    <3>4. StripLines(FALSE, disk[path]) \in File
      <4>1. PICK c \in BOOLEAN : c = FALSE
        OBVIOUS
      <4>2. StripLines(c, disk[path]) \in File
        BY <3>2, OpenTyped
      <4> QED
        BY <4>1, <4>2
    <3>5. FileReference(path) \in File /\ SignatureNormalize(s) \in File
      BY <3>2, <3>3, <3>4, PreparedFile
    <3>6. Score(FileReference(path), SignatureNormalize(s)) \in 0..100
      BY <3>5, ScoreBounded
    <3> QED
      BY <3>1, <3>6 DEF FileAnswer
  <2> QED
    BY <2>1, <2>2 DEF IInv, AnswersInv, FileAnswered
<1>3. answers["PeerFileData"].score \in 0..100
  <2>1. CASE answers["PeerFileData"] = NoAnswer
    BY <2>1 DEF NoAnswer
  <2>2. CASE \E path \in DOMAIN disk, s \in Sources : answers["PeerFileData"] = PeerAnswer(path, s)
    <3>1. PICK path \in DOMAIN disk, s \in Sources : answers["PeerFileData"] = PeerAnswer(path, s)
      BY <2>2
    <3>2. disk[path] \in File /\ s \in File /\ TidyAlong(s)
      BY DiskFiles DEF IInv
    <3>3. PeerReference(path) \in File
      BY <3>2, PreparedFile DEF PeerReference
    <3>4. Strip(FALSE, SignatureNormalize(s)).data \in File
      BY <3>2, CopiesBounded
    <3>5. Score(PeerReference(path), Strip(FALSE, SignatureNormalize(s)).data) \in 0..100
      BY <3>3, <3>4, ScoreBounded
    <3>6. answers["PeerFileData"].score
            = Score(PeerReference(path), Strip(FALSE, SignatureNormalize(s)).data)
      <4> DEFINE k == Score(PeerReference(path), Strip(FALSE, SignatureNormalize(s)).data)
      <4>1. PeerAnswer(path, s).score = k
        BY PeerAnswerFields
      <4> HIDE DEF k
      <4> QED
        BY <3>1, <4>1 DEF k
    <3> QED
      BY <3>5, <3>6
  <2> QED
    BY <2>1, <2>2 DEF IInv, AnswersInv, PeerAnswered
<1>4. DOMAIN answers = {"FileData", "PeerFileData"} /\ IsOpenCommentary \in BOOLEAN
  BY DEF IInv, AnswersInv
<1> QED
  BY <1>1, <1>2, <1>3, <1>4 DEF TypeOK

(***************************************************************************)
(* The objects keep at most as many lines as their files, none of them     *)
(* empty, and every score is between 0 and 100.                            *)
(***************************************************************************)
THEOREM TypeCorrect == Spec => []TypeOK
BY Inductive, TypeOfIInv, PTL

LEMMA LinesOfIInv == IInv => LinesAlike
<1> SUFFICES ASSUME IInv, NEW o \in Objects, NEW path \in DOMAIN disk,
                    objects[o].source = Read(path)
             PROVE  objects[o].lineCompData = NormalizeLines(disk[path])
  BY DEF LinesAlike
<1>1. objects[o].lineCompData = NormalizeLines(objects[o].source)
  BY ObjectOf
<1>2. Read(path) = NonEmpty(disk[path]) /\ disk[path] \in File
  BY DiskFiles DEF IInv
<1> QED
  BY <1>1, <1>2, NormalizeNonEmpty

(***************************************************************************)
(* However an object of a file was made, copied or moved, its lines for    *)
(* the comparison of lines are those of the file as it is on the disk.     *)
(***************************************************************************)
THEOREM LinesStayAlike == Spec => []LinesAlike
BY Inductive, LinesOfIInv, PTL

LEMMA CodeOfIInv == IInv => PreparedLikeC
<1> SUFFICES ASSUME IInv
             PROVE  PreparedLikeC
  OBVIOUS
<1>1. ASSUME NEW o \in Objects
      PROVE  SignatureNormalize(objects[o].signatureData) = Code(objects[o].source)
  <2> DEFINE s == objects[o].source
  <2>1. s \in Sources
    BY ObjectOf
  <2>2. s \in File /\ TidyAlong(s)
    BY <2>1, DiskFiles DEF IInv
  <2>3. objects[o].signatureData = Strip(FALSE, SignatureNormalize(s)).data
    BY ObjectOf
  <2> HIDE DEF s
  <2>4. SignatureNormalize(Strip(FALSE, SignatureNormalize(s)).data) = Code(s)
    BY <2>2, CodePrepared
  <2> QED
    BY <2>3, <2>4 DEF s
<1>2. ASSUME answers["FileData"].path \in DOMAIN disk
      PROVE  answers["FileData"].reference = Code(Read(answers["FileData"].path))
  <2>1. answers["FileData"] # NoAnswer
    BY <1>2, DiskFiles DEF IInv, NoAnswer
  <2>2. PICK path \in DOMAIN disk, s \in Sources : answers["FileData"] = FileAnswer(path, s)
    BY <2>1 DEF IInv, AnswersInv, FileAnswered
  <2>3. answers["FileData"].path = path /\ answers["FileData"].reference = FileReference(path)
    BY <2>2 DEF FileAnswer
  <2>4. disk[path] \in File /\ TidyAlong(disk[path]) /\ Read(path) = NonEmpty(disk[path])
    BY DiskFiles DEF IInv
  <2>5. FileReference(path) = Code(disk[path])
    BY <2>4, CodeOfTidy DEF FileReference
  <2>6. Code(Read(path)) = Code(disk[path])
    BY <2>4, TidyNonEmpty
  <2> QED
    BY <2>3, <2>5, <2>6
<1> QED
  BY <1>1, <1>2 DEF PreparedLikeC

(***************************************************************************)
(* Whatever was prepared before, the static variable of RemoveCommentaries *)
(* included: both ways to prepare a tidy file leave the code that the      *)
(* rules of C leave.                                                       *)
(***************************************************************************)
THEOREM AlwaysPreparedLikeC == Spec => []PreparedLikeC
BY Inductive, CodeOfIInv, PTL

LEMMA UncommentedOfIInv == IInv => UncommentedAlike
<1> DEFINE asked == answers["PeerFileData"]
           other == answers["FileData"]
<1> SUFFICES ASSUME IInv, asked.path \in DOMAIN disk, Uncommented(disk[asked.path]),
                    Uncommented(asked.source)
             PROVE  /\ AskedAlike => other.score = asked.score
                    /\ asked.source = Read(asked.path) /\ Code(asked.source) # <<>> =>
                         asked.score = 100
  BY DEF UncommentedAlike
<1> HIDE DEF asked, other
<1>1. asked # NoAnswer
  BY DiskFiles DEF IInv, NoAnswer
<1>2. PICK path \in DOMAIN disk, s \in Sources : asked = PeerAnswer(path, s)
  BY <1>1 DEF IInv, AnswersInv, PeerAnswered, asked
<1>3. /\ asked.path = path /\ asked.source = s
      /\ asked.score = Score(PeerReference(path), Strip(FALSE, SignatureNormalize(s)).data)
  BY <1>2, PeerAnswerFields
<1>4. /\ disk[path] \in File /\ TidyAlong(disk[path]) /\ Read(path) = NonEmpty(disk[path])
      /\ path # NoPath /\ s \in File /\ TidyAlong(s)
  BY DiskFiles DEF IInv
<1>5. Strip(FALSE, SignatureNormalize(s)).data = SignatureNormalize(s)
  BY <1>3, <1>4, UncommentedPrepared
<1>6. FileReference(path) = PeerReference(path)
  BY <1>3, <1>4, UncommentedPrepared DEF FileReference, PeerReference
<1>7. ASSUME AskedAlike
      PROVE  other.score = asked.score
  <2>1. other.path = path /\ other.source = s
    BY <1>3, <1>7 DEF AskedAlike, asked, other
  <2>2. other # NoAnswer
    BY <1>4, <2>1 DEF NoAnswer
  <2>3. PICK p \in DOMAIN disk, q \in Sources : other = FileAnswer(p, q)
    BY <2>2 DEF IInv, AnswersInv, FileAnswered, other
  <2>4. /\ other.path = p /\ other.source = q
        /\ other.score = Score(FileReference(p), SignatureNormalize(q))
    BY <2>3 DEF FileAnswer
  <2> QED
    BY <1>3, <1>5, <1>6, <2>1, <2>4
<1>8. ASSUME asked.source = Read(asked.path), Code(asked.source) # <<>>
      PROVE  asked.score = 100
  <2> DEFINE x == SignatureNormalize(s)
  <2>1. PeerReference(path) = x
    BY <1>3, <1>4, <1>8, NormalizeNonEmpty DEF PeerReference
  <2>2. Code(s) = SignatureNormalize(Strip(FALSE, s).data)
    BY <1>4, CodeOfTidy
  <2>3. SignatureNormalize(Strip(FALSE, s).data) = x
    BY <1>3, <1>4, UncommentedPrepared
  <2>4. x # <<>>
    BY <1>3, <1>8, <2>2, <2>3
  <2>5. x \in File
    BY <1>4, PreparedFile
  <2> HIDE DEF x
  <2>6. Score(x, x) = 100
    BY <2>4, <2>5, ScoreOfItself
  <2>7. asked.score = Score(PeerReference(path), x)
    BY <1>3, <1>5 DEF x
  <2> QED
    BY <2>1, <2>6, <2>7
<1> QED
  BY <1>7, <1>8

(***************************************************************************)
(* Where nothing is commented the two overloads of GetSignatureInfo give   *)
(* one score, and a file with any code scores in full against itself.      *)
(***************************************************************************)
THEOREM AlwaysUncommentedAlike == Spec => []UncommentedAlike
BY Inductive, UncommentedOfIInv, PTL
==============================================================================
