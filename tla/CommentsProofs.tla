--------------------------- MODULE CommentsProofs ----------------------------
(***************************************************************************)
(* Theorems about Comments, for all lines of any length: on a tidy line,   *)
(* RemoveCommentaries is what the rules of C make of the line.             *)
(***************************************************************************)
EXTENDS Comments, ListLemmas

IInv == inside \in BOOLEAN /\ InStep
------------------------------------------------------------------------------
LEMMA MinOf ==
  ASSUME NEW T \in SUBSET Nat, T # {}
  PROVE  Min(T) \in T /\ \A n \in T : Min(T) <= n
BY LeastElement DEF Min
------------------------------------------------------------------------------
(* Where the marks of a line can be.                                       *)
LEMMA MarkPlaces ==
  ASSUME NEW S, NEW l \in Seq(S)
  PROVE  /\ Len(l) \in Nat
         /\ Slashes(l) \in SUBSET Nat /\ Opens(l) \in SUBSET Nat /\ Closes(l) \in SUBSET Nat
         /\ \A p \in Slashes(l) : 1 <= p /\ p <= Len(l) - 1
         /\ \A p \in Opens(l)   : 1 <= p /\ p <= Len(l) - 1
         /\ \A p \in Closes(l)  : 1 <= p /\ p <= Len(l) - 1
<1>1. Len(l) \in Nat
  OBVIOUS
<1>2. \A mark : \A p \in Places(mark, l) : p \in Nat /\ 1 <= p /\ p <= Len(l) - 1
  BY <1>1 DEF Places
<1> QED
  BY <1>1, <1>2 DEF Slashes, Opens, Closes

(* No place is both the beginning of a // and of a comment.                *)
LEMMA SlashesNotOpens ==
  ASSUME NEW S, NEW l \in Seq(S)
  PROVE  \A p \in Slashes(l) : p \notin Opens(l)
<1>1. <<"/", "/">> # <<"/", "*">>
  OBVIOUS
<1> QED
  BY <1>1 DEF Slashes, Opens, Places

(* The place behind a comment is behind its beginning, and in the line or  *)
(* just behind it.                                                         *)
LEMMA BehindIsFurther ==
  ASSUME NEW S, NEW l \in Seq(S), NEW p \in Nat
  PROVE  Behind(l, p) = 0 \/ Behind(l, p) \in (p + 2)..(Len(l) + 1)
<1> DEFINE ends == {e \in Closes(l) : e >= p}
<1>1. CASE ends = {}
  BY <1>1 DEF Behind
<1>2. CASE ends # {}
  <2>1. ends \in SUBSET Nat
    BY MarkPlaces
  <2>2. Min(ends) \in ends
    BY <1>2, <2>1, MinOf
  <2>3. Min(ends) \in Nat /\ Min(ends) >= p /\ Min(ends) <= Len(l) - 1 /\ Len(l) \in Nat
    BY <2>2, MarkPlaces
  <2>4. Behind(l, p) = Min(ends) + 2
    BY <1>2 DEF Behind
  <2> QED
    BY <2>3, <2>4
<1> QED
  BY <1>1, <1>2
------------------------------------------------------------------------------
(* One step of Stripped's recursion, and a function that follows it.       *)
Rest(l, f, p) ==
  IF p = 0 THEN [line |-> <<>>, open |-> TRUE]
  ELSE IF p > Len(l) \/ p \in Slashes(l) THEN [line |-> <<>>, open |-> FALSE]
  ELSE IF p \in Opens(l) THEN f[Behind(l, p + 2)]
  ELSE [line |-> <<l[p]>> \o f[p + 1].line, open |-> f[p + 1].open]

Stripping(f, l) == f = [p \in 0..(Len(l) + 1) |-> Rest(l, f, p)]

(* A step of the recursion depends on what is further right only.          *)
LEMMA RestLooksRight ==
  ASSUME NEW S, NEW l \in Seq(S), NEW p \in 0..(Len(l) + 1), NEW f, NEW g,
         f[0] = g[0], \A q \in (p + 1)..(Len(l) + 1) : f[q] = g[q]
  PROVE  Rest(l, f, p) = Rest(l, g, p)
<1>1. Len(l) \in Nat
  OBVIOUS
<1>2. p \in Nat /\ p + 2 \in Nat
  BY <1>1
<1>3. p <= Len(l) => f[p + 1] = g[p + 1]
  BY <1>1, <1>2
<1>4. f[Behind(l, p + 2)] = g[Behind(l, p + 2)]
  <2>1. CASE Behind(l, p + 2) = 0
    BY <2>1
  <2>2. CASE Behind(l, p + 2) \in ((p + 2) + 2)..(Len(l) + 1)
    BY <1>1, <1>2, <2>2
  <2> QED
    BY <1>2, <2>1, <2>2, BehindIsFurther
<1>5. ~ (p > Len(l)) => p <= Len(l)
  BY <1>1, <1>2
<1> QED
  BY <1>3, <1>4, <1>5 DEF Rest

LEMMA StrippingExists ==
  ASSUME NEW S, NEW l \in Seq(S)
  PROVE  \E f : Stripping(f, l)
<1> DEFINE n == Len(l)
           Places0(m) == {x \in 0..(n + 1) : x = 0 \/ x >= (n + 2) - m}
           Upto(m, f) == f = [p \in Places0(m) |-> Rest(l, f, p)]
           T == {m \in Nat : m <= n + 1 => \E f : Upto(m, f)}
<1>1. n \in Nat
  OBVIOUS
<1> HIDE DEF n
<1>2. 0 \in T
  <2> DEFINE f == [p \in Places0(0) |-> Rest(l, [q \in 0..0 |-> 0], p)]
  <2>1. \A p \in Places0(0) : p = 0
    BY <1>1
  <2>2. \A h : Rest(l, h, 0) = [line |-> <<>>, open |-> TRUE]
    BY DEF Rest
  <2>3. \A p \in Places0(0) : Rest(l, [q \in 0..0 |-> 0], p) = Rest(l, f, p)
    <3> HIDE DEF f
    <3> QED
      BY <2>1, <2>2
  <2>4. Upto(0, f)
    BY <2>3
  <2> QED
    BY <2>4
<1>3. ASSUME NEW m \in T
      PROVE  m + 1 \in T
  <2>1. m \in Nat /\ m + 1 \in Nat
    OBVIOUS
  <2>2. SUFFICES ASSUME m + 1 <= n + 1
                 PROVE  \E f : Upto(m + 1, f)
    BY <2>1
  <2>3. m <= n + 1
    BY <1>1, <2>1, <2>2
  <2>4. PICK f : Upto(m, f)
    BY <2>3
  <2> DEFINE new == (n + 1) - m
             g == [p \in Places0(m + 1) |-> IF p = new THEN Rest(l, f, p) ELSE f[p]]
  <2>5. /\ new \in 0..(n + 1) /\ new # 0
        /\ Places0(m + 1) = Places0(m) \cup {new} /\ new \notin Places0(m)
    BY <1>1, <2>1, <2>2
  <2>6. \A q \in Places0(m) : f[q] = Rest(l, f, q)
    BY <2>4
  <2>7. \A q \in Places0(m) : g[q] = f[q]
    BY <2>5
  <2>8. g[new] = Rest(l, f, new)
    BY <2>5
  <2>9. g = [p \in Places0(m + 1) |-> g[p]]
    OBVIOUS
  <2>10. 0 \in Places0(m) /\ \A q \in Places0(m + 1) : \A r \in (q + 1)..(n + 1) :
           q # 0 => r \in Places0(m)
    BY <1>1, <2>1, <2>2
  <2> HIDE DEF g
  <2>11. ASSUME NEW q \in Places0(m + 1)
         PROVE  g[q] = Rest(l, g, q)
    <3>1. q \in 0..(Len(l) + 1)
      BY DEF n
    <3>2. CASE q = 0
      <4>1. Rest(l, f, q) = Rest(l, g, q)
        BY <3>2 DEF Rest
      <4> QED
        BY <2>6, <2>7, <2>10, <3>2, <4>1
    <3>3. CASE q # 0
      <4>1. g[0] = f[0] /\ \A r \in (q + 1)..(Len(l) + 1) : f[r] = g[r]
        BY <2>7, <2>10, <3>3 DEF n
      <4> HIDE DEF Places0
      <4>2. Rest(l, f, q) = Rest(l, g, q)
        BY <3>1, <4>1, RestLooksRight
      <4> QED
        BY <2>5, <2>6, <2>7, <2>8, <4>2
    <3> QED
      BY <3>2, <3>3
  <2>12. Upto(m + 1, g)
    BY <2>9, <2>11
  <2> QED
    BY <2>12
<1>4. T = Nat
  <2> HIDE DEF T
  <2>1. T \in SUBSET Nat
    BY DEF T
  <2> QED
    BY <1>2, <1>3, <2>1, SetInduction
<1>5. \E f : Upto(n + 1, f)
  <2>1. n + 1 \in Nat /\ n + 1 <= n + 1
    BY <1>1
  <2>2. n + 1 \in T
    <3> HIDE DEF T
    <3> QED
      BY <1>4, <2>1
  <2> QED
    BY <2>1, <2>2
<1>6. Places0(n + 1) = 0..(Len(l) + 1)
  BY <1>1 DEF n
<1>7. PICK f : Upto(n + 1, f)
  BY <1>5
<1> HIDE DEF Places0
<1>8. Stripping(f, l)
  BY <1>6, <1>7 DEF Stripping
<1> QED
  BY <1>8

(* The part of a line from one place up to another.                        *)
Part(l, p, q) == SubSeq(l, p, q - 1)

LEMMA Parts ==
  ASSUME NEW S, NEW l \in Seq(S), NEW p \in Int, NEW q \in Int
  PROVE  /\ q <= p => Part(l, p, q) = <<>>
         /\ 1 <= p /\ p < q /\ q <= Len(l) + 1 => Part(l, p, q) = <<l[p]>> \o Part(l, p + 1, q)
<1>1. CASE q <= p
  <2>1. SubSeq(l, p, q - 1) = <<>>
    BY <1>1, SubSeqEmpty
  <2> QED
    BY <1>1, <2>1 DEF Part
<1>2. CASE 1 <= p /\ p < q /\ q <= Len(l) + 1
  <2>1. p \in 1..Len(l) /\ q - 1 \in p..Len(l)
    BY <1>2
  <2> QED
    BY <1>2, <2>1, SubSeqRecursiveFirst DEF Part
<1> QED
  BY <1>1, <1>2

(* What is left of a line from a place on where neither a // nor a comment *)
(* begins, up to a place from which on nothing is left.                    *)
LEMMA CopiesUpTo ==
  ASSUME NEW S, NEW l \in Seq(S), NEW f, Stripping(f, l),
         NEW p \in 1..(Len(l) + 1), NEW q \in p..(Len(l) + 1), NEW o,
         \A r \in p..(q - 1) : r \notin Slashes(l) /\ r \notin Opens(l),
         f[q] = [line |-> <<>>, open |-> o]
  PROVE  f[p] = [line |-> Part(l, p, q), open |-> o]
<1>1. Len(l) \in Nat /\ p \in Nat /\ q \in Nat /\ p >= 1 /\ p <= q /\ q <= Len(l) + 1
  OBVIOUS
<1>2. Part(l, q, q) = <<>>
  <2>1. q \in Int /\ q <= q
    BY <1>1
  <2> QED
    BY <2>1, Parts
<1>3. \A r \in Int : 1 <= r /\ r < q => Part(l, r, q) = <<l[r]>> \o Part(l, r + 1, q)
  BY <1>1, Parts
<1> DEFINE Good(r) == f[r] = [line |-> Part(l, r, q), open |-> o]
           T == {k \in Nat : k <= q - p => Good(q - k)}
<1>4. 0 \in T
  <2>1. q - 0 = q
    BY <1>1
  <2> QED
    BY <1>2, <2>1
<1>5. ASSUME NEW k \in T
      PROVE  k + 1 \in T
  <2> DEFINE r == q - (k + 1)
  <2>1. SUFFICES ASSUME k + 1 <= q - p
                 PROVE  Good(r)
    OBVIOUS
  <2>2. k \in Nat
    OBVIOUS
  <2>3. /\ r \in p..(q - 1) /\ r \in 1..Len(l) /\ r \in 0..(Len(l) + 1) /\ r # 0 /\ ~ (r > Len(l))
        /\ q - 1 \in r..Len(l) /\ r + 1 = q - k /\ k <= q - p
    BY <1>1, <2>1, <2>2
  <2>4. f[r + 1] = [line |-> Part(l, r + 1, q), open |-> o]
    BY <2>3
  <2>5. Part(l, r, q) = <<l[r]>> \o Part(l, r + 1, q)
    <3>1. r \in Int /\ 1 <= r /\ r < q
      BY <1>1, <2>3
    <3> HIDE DEF r
    <3> QED
      BY <1>3, <3>1
  <2> HIDE DEF r, T
  <2>6. f[r] = Rest(l, f, r)
    BY <2>3 DEF Stripping
  <2>7. Rest(l, f, r) = [line |-> <<l[r]>> \o f[r + 1].line, open |-> f[r + 1].open]
    BY <2>3 DEF Rest
  <2>8. f[r + 1].line = Part(l, r + 1, q) /\ f[r + 1].open = o
    BY <2>4
  <2> QED
    BY <2>5, <2>6, <2>7, <2>8
<1>6. T = Nat
  <2> HIDE DEF T
  <2>1. T \in SUBSET Nat
    BY DEF T
  <2> QED
    BY <1>4, <1>5, <2>1, SetInduction
<1>7. q - p \in Nat /\ q - (q - p) = p /\ q - p <= q - p
  BY <1>1
<1>8. q - p \in T
  <2> HIDE DEF T
  <2> QED
    BY <1>6, <1>7
<1> QED
  BY <1>7, <1>8

(* Where no mark is left, the rest of the line is copied.                  *)
LEMMA CopiesToEnd ==
  ASSUME NEW S, NEW l \in Seq(S), NEW f, Stripping(f, l), NEW p \in 1..(Len(l) + 1),
         \A r \in Slashes(l) : r < p, \A r \in Opens(l) : r < p
  PROVE  f[p] = [line |-> Part(l, p, Len(l) + 1), open |-> FALSE]
<1> DEFINE q == Len(l) + 1
<1>1. Len(l) \in Nat /\ p \in Nat /\ q \in p..(Len(l) + 1) /\ q \in 0..(Len(l) + 1)
      /\ q # 0 /\ q > Len(l)
  OBVIOUS
<1>2. \A r \in p..(q - 1) : ~ (r < p)
  BY <1>1
<1>3. f[q] = Rest(l, f, q)
  BY <1>1 DEF Stripping
<1> HIDE DEF q
<1>4. f[q] = [line |-> <<>>, open |-> FALSE]
  BY <1>1, <1>3 DEF Rest
<1>5. \A r \in p..(q - 1) : r \notin Slashes(l) /\ r \notin Opens(l)
  BY <1>2
<1>6. f[p] = [line |-> Part(l, p, q), open |-> FALSE]
  <2>1. PICK o : o = FALSE
    OBVIOUS
  <2>2. f[q] = [line |-> <<>>, open |-> o]
    BY <1>4, <2>1
  <2>3. f[p] = [line |-> Part(l, p, q), open |-> o]
    BY <1>1, <1>5, <2>2, CopiesUpTo
  <2> QED
    BY <2>1, <2>3
<1> QED
  BY <1>6 DEF q

(* From the beginning of the line up to the first mark.                    *)
LEMMA CopiesFromBegin ==
  ASSUME NEW S, NEW l \in Seq(S), NEW f, Stripping(f, l), NEW q \in 1..(Len(l) + 1), NEW o,
         \A r \in Slashes(l) : r >= q, \A r \in Opens(l) : r >= q,
         f[q] = [line |-> <<>>, open |-> o]
  PROVE  f[1] = [line |-> Before(l, q), open |-> o]
<1>1. Len(l) \in Nat /\ q \in Nat /\ 1 \in 1..(Len(l) + 1)
  OBVIOUS
<1>2. \A r \in 1..(q - 1) : ~ (r >= q)
  BY <1>1
<1>3. \A r \in 1..(q - 1) : r \notin Slashes(l) /\ r \notin Opens(l)
  BY <1>2
<1>4. f[1] = [line |-> Part(l, 1, q), open |-> o]
  BY <1>1, <1>3, CopiesUpTo
<1>5. Part(l, 1, q) = Before(l, q)
  BY DEF Part, Before
<1> QED
  BY <1>4, <1>5

(* Stripped is what such a function says of the place to begin at.         *)
LEMMA StrippedFollows ==
  ASSUME NEW S, NEW l \in Seq(S)
  PROVE  \E f : /\ Stripping(f, l)
                /\ Stripped(TRUE, l) = f[Behind(l, 1)]
                /\ Stripped(FALSE, l) = f[1]
<1> DEFINE f == CHOOSE h : Stripping(h, l)
<1>1. /\ Stripped(TRUE, l) = f[Behind(l, 1)]
      /\ Stripped(FALSE, l) = f[1]
  BY DEF Stripped, Stripping, Rest
<1>2. Stripping(f, l)
  BY StrippingExists
<1> QED
  BY <1>1, <1>2
------------------------------------------------------------------------------
(* Each kind of tidy line in turn; the rest of the line is copied up to    *)
(* the place where the code erases.                                        *)

LEMMA OpenIsBoolean ==
  ASSUME NEW l, NEW open \in BOOLEAN
  PROVE  RemoveCommentaries(open, l).open \in BOOLEAN
BY DEF RemoveCommentaries, Closed

LEMMA InsideLikeC ==
  ASSUME NEW S, NEW l \in Seq(S), Tidy(TRUE, l)
  PROVE  RemoveCommentaries(TRUE, l) = Stripped(TRUE, l)
<1> DEFINE n == Len(l)
<1>1. PICK f : Stripping(f, l) /\ Stripped(TRUE, l) = f[Behind(l, 1)]
  BY StrippedFollows
<1>2. Opens(l) = {}
  BY DEF Tidy
<1>3. n \in Nat /\ Closes(l) \in SUBSET Nat
  BY MarkPlaces
<1>4. CASE Closes(l) = {}
  <2>1. RemoveCommentaries(TRUE, l) = [line |-> <<>>, open |-> TRUE]
    BY <1>2, <1>4 DEF RemoveCommentaries
  <2>2. Behind(l, 1) = 0
    BY <1>4 DEF Behind
  <2>3. f[0] = [line |-> <<>>, open |-> TRUE]
    BY <1>1, <1>3 DEF Stripping, Rest
  <2> QED
    BY <1>1, <2>1, <2>2, <2>3
<1>5. CASE Closes(l) # {}
  <2> DEFINE e == Min(Closes(l))
  <2>1. e \in Closes(l)
    BY <1>3, <1>5, MinOf
  <2>2. e \in Nat /\ 1 <= e /\ e <= n - 1
    BY <2>1, MarkPlaces
  <2>3. {x \in Closes(l) : x >= 1} = Closes(l)
    BY MarkPlaces
  <2>4. Behind(l, 1) = e + 2
    BY <1>5, <2>3 DEF Behind
  <2>5. \A p \in Slashes(l) : p <= e + 1
    BY <1>5 DEF Tidy
  <2> HIDE DEF e
  <2>6. e + 2 \in 1..(n + 1) /\ e + 2 \in Int /\ n \in Int /\ (n + 1) - 1 = n
    BY <1>3, <2>2
  <2>7. \A p \in Slashes(l) : p < e + 2
    BY <2>2, <2>5, MarkPlaces
  <2>8. f[e + 2] = [line |-> Part(l, e + 2, n + 1), open |-> FALSE]
    <3> DEFINE b == e + 2
    <3>1. b \in 1..(n + 1) /\ \A p \in Slashes(l) : p < b
      BY <2>6, <2>7
    <3> HIDE DEF b
    <3>2. f[b] = [line |-> Part(l, b, n + 1), open |-> FALSE]
      BY <1>1, <1>2, <3>1, CopiesToEnd
    <3> QED
      BY <3>2 DEF b
  <2>9. RemoveCommentaries(TRUE, l) = Closed(l)
    BY <1>5 DEF RemoveCommentaries
  <2>10. Closed(l) = [line |-> Erase(l, 1, e + 1), open |-> FALSE]
    BY <1>2 DEF Closed, e
  <2>11. Erase(l, 1, e + 1) = Part(l, e + 2, n + 1)
    <3>1. Before(l, 1) = <<>>
      BY SubSeqEmpty DEF Before
    <3>2. 1 + (e + 1) = e + 2
      BY <2>2
    <3>3. SubSeq(l, e + 2, n) \in Seq(S)
      BY <2>6, <1>3, SubSeqProperties
    <3> QED
      BY <2>6, <3>1, <3>2, <3>3 DEF Erase, Part
  <2> QED
    BY <1>1, <2>4, <2>8, <2>9, <2>10, <2>11
<1> QED
  BY <1>4, <1>5

LEMMA OutsideLikeC ==
  ASSUME NEW S, NEW l \in Seq(S), Tidy(FALSE, l)
  PROVE  RemoveCommentaries(FALSE, l) = Stripped(FALSE, l)
<1> DEFINE n == Len(l)
<1>1. PICK f : Stripping(f, l) /\ Stripped(FALSE, l) = f[1]
  BY StrippedFollows
<1>2. n \in Nat /\ Slashes(l) \in SUBSET Nat /\ Opens(l) \in SUBSET Nat
      /\ Closes(l) \in SUBSET Nat
  BY MarkPlaces
<1>3. CASE Slashes(l) # {}
  <2> DEFINE s == Min(Slashes(l))
  <2>1. s \in Slashes(l) /\ \A r \in Slashes(l) : s <= r
    BY <1>2, <1>3, MinOf
  <2> HIDE DEF s
  <2>2. s \in Nat /\ 1 <= s /\ s <= n - 1
    BY <2>1, MarkPlaces
  <2>3. \A r \in Opens(l) : r >= s
    <3>1. PICK p \in Slashes(l) : \A q \in Opens(l) : p < q
      BY <1>3 DEF Tidy
    <3>2. s <= p /\ p \in Nat
      BY <1>2, <2>1
    <3> QED
      BY <1>2, <2>2, <3>1, <3>2
  <2>4. s \in 0..(n + 1) /\ s \in 1..(n + 1) /\ s # 0 /\ \A r \in Slashes(l) : r >= s
    BY <1>2, <2>1, <2>2
  <2>5. f[s] = Rest(l, f, s)
    BY <1>1, <2>4 DEF Stripping
  <2>6. f[s] = [line |-> <<>>, open |-> FALSE]
    BY <2>1, <2>4, <2>5 DEF Rest
  <2>7. f[1] = [line |-> Before(l, s), open |-> FALSE]
    <3>1. PICK o : o = FALSE
      OBVIOUS
    <3>2. f[s] = [line |-> <<>>, open |-> o]
      BY <2>6, <3>1
    <3>3. f[1] = [line |-> Before(l, s), open |-> o]
      BY <1>1, <2>3, <2>4, <3>2, CopiesFromBegin
    <3> QED
      BY <3>1, <3>3
  <2>8. RemoveCommentaries(FALSE, l) = [line |-> Before(l, s), open |-> FALSE]
    BY <1>3 DEF RemoveCommentaries, s
  <2> QED
    BY <1>1, <2>7, <2>8
<1>4. CASE Slashes(l) = {} /\ Opens(l) = {}
  <2>1. 1 \in 1..(n + 1)
    BY <1>2
  <2>2. f[1] = [line |-> Part(l, 1, n + 1), open |-> FALSE]
    BY <1>1, <1>4, <2>1, CopiesToEnd
  <2>3. Part(l, 1, n + 1) = l
    <3>1. (n + 1) - 1 = n
      BY <1>2
    <3> QED
      BY <3>1, SubSeqFull DEF Part
  <2>4. RemoveCommentaries(FALSE, l) = [line |-> l, open |-> FALSE]
    BY <1>4 DEF RemoveCommentaries
  <2> QED
    BY <1>1, <2>2, <2>3, <2>4
<1>5. CASE Slashes(l) = {} /\ Opens(l) # {}
  <2> DEFINE s == Min(Opens(l))
  <2>1. s \in Opens(l) /\ \A r \in Opens(l) : s <= r
    BY <1>2, <1>5, MinOf
  <2> HIDE DEF s
  <2>2. s \in Nat /\ 1 <= s /\ s <= n - 1
    BY <2>1, MarkPlaces
  <2>3. s \in 0..(n + 1) /\ s \in 1..(n + 1) /\ s # 0 /\ ~ (s > n)
        /\ \A r \in Opens(l) : r >= s
    BY <1>2, <2>1, <2>2
  <2>4. f[s] = f[Behind(l, s + 2)]
    <3>1. f[s] = Rest(l, f, s)
      BY <1>1, <2>3 DEF Stripping
    <3> QED
      BY <1>5, <2>1, <2>3, <3>1 DEF Rest
  <2>5. ASSUME NEW o, f[s] = [line |-> <<>>, open |-> o]
        PROVE  f[1] = [line |-> Before(l, s), open |-> o]
    BY <1>1, <1>5, <2>3, <2>5, CopiesFromBegin
  <2>6. CASE Closes(l) = {}
    <3>1. Behind(l, s + 2) = 0
      BY <2>6 DEF Behind
    <3>2. f[0] = [line |-> <<>>, open |-> TRUE]
      BY <1>1, <1>2 DEF Stripping, Rest
    <3>3. f[1] = [line |-> Before(l, s), open |-> TRUE]
      <4>1. PICK o : o = TRUE
        OBVIOUS
      <4>2. f[1] = [line |-> Before(l, s), open |-> o]
        BY <2>4, <2>5, <3>1, <3>2, <4>1
      <4> QED
        BY <4>1, <4>2
    <3>4. RemoveCommentaries(FALSE, l) = [line |-> Before(l, s), open |-> TRUE]
      BY <1>5, <2>6 DEF RemoveCommentaries, s
    <3> QED
      BY <1>1, <3>3, <3>4
  <2>7. CASE Closes(l) # {}
    <3>1. PICK b \in 1..n, e \in 1..n :
            Opens(l) = {b} /\ Closes(l) = {e} /\ e >= b + 2 /\ (b = 1 \/ e + 1 = n)
      BY <1>5, <2>7 DEF Tidy
    <3>2. b = s /\ e \in Closes(l)
      BY <2>1, <3>1
    <3>3. e \in Nat /\ e <= n - 1 /\ e >= s + 2
      BY <3>1, <3>2, MarkPlaces
    <3>4. \A T \in SUBSET Nat : T = {e} => Min(T) = e
      BY MinOf
    <3>5. Min(Closes(l)) = e
      BY <1>2, <3>1, <3>4
    <3>6. Behind(l, s + 2) = e + 2
      <4>1. {x \in Closes(l) : x >= s + 2} = {e}
        BY <3>1, <3>3
      <4> QED
        BY <1>2, <3>1, <3>4, <4>1 DEF Behind
    <3>7. e + 2 \in 1..(n + 1) /\ e + 2 \in Int /\ s < e + 2
      BY <1>2, <2>2, <3>3
    <3>8. f[e + 2] = [line |-> Part(l, e + 2, n + 1), open |-> FALSE]
      <4> DEFINE c == e + 2
      <4>1. c \in 1..(n + 1) /\ \A p \in Opens(l) : p < c
        BY <3>1, <3>2, <3>7
      <4> HIDE DEF c
      <4>2. f[c] = [line |-> Part(l, c, n + 1), open |-> FALSE]
        BY <1>1, <1>5, <4>1, CopiesToEnd
      <4> QED
        BY <4>2 DEF c
    <3>9. RemoveCommentaries(FALSE, l) = Closed(l)
      BY <1>5, <2>7 DEF RemoveCommentaries
    <3>10. Closed(l) = [line |-> Erase(l, s, e + 1), open |-> FALSE]
      <4>1. ~ (s > e)
        BY <2>2, <3>3
      <4> QED
        BY <1>5, <3>5, <4>1 DEF Closed, s
    <3>11. CASE s = 1
      <4>1. Before(l, 1) = <<>>
        BY SubSeqEmpty DEF Before
      <4>2. 1 + (e + 1) = e + 2 /\ (n + 1) - 1 = n
        BY <1>2, <3>3
      <4>3. SubSeq(l, e + 2, n) \in Seq(S)
        BY <1>2, <3>7, SubSeqProperties
      <4>4. Erase(l, s, e + 1) = Part(l, e + 2, n + 1)
        BY <3>11, <4>1, <4>2, <4>3 DEF Erase, Part
      <4> QED
        BY <1>1, <2>4, <3>6, <3>8, <3>9, <3>10, <3>11, <4>4
    <3>12. CASE e + 1 = n
      <4>1. Part(l, e + 2, n + 1) = <<>>
        <5>1. (n + 1) - 1 \in Int /\ (n + 1) - 1 < e + 2
          BY <1>2, <3>7, <3>12
        <5>2. SubSeq(l, e + 2, (n + 1) - 1) = <<>>
          BY <3>7, <5>1, SubSeqEmpty
        <5> QED
          BY <5>2 DEF Part
      <4>2. f[1] = [line |-> Before(l, s), open |-> FALSE]
        <5>1. PICK o : o = FALSE
          OBVIOUS
        <5>2. f[1] = [line |-> Before(l, s), open |-> o]
          BY <2>4, <2>5, <3>6, <3>8, <4>1, <5>1
        <5> QED
          BY <5>1, <5>2
      <4>3. SubSeq(l, s + (e + 1), n) = <<>>
        <5>1. s + (e + 1) \in Int /\ n \in Int /\ n < s + (e + 1)
          BY <1>2, <2>2, <3>3, <3>12
        <5> QED
          BY <5>1, SubSeqEmpty
      <4>4. Before(l, s) \in Seq(S)
        <5>1. 1 \in Int /\ s - 1 \in Int /\ \A i \in 1..(s - 1) : l[i] \in S
          BY <1>2, <2>2
        <5> QED
          BY <5>1, SubSeqProperties DEF Before
      <4>5. Erase(l, s, e + 1) = Before(l, s)
        <5>1. \A t \in Seq(S) : t \o <<>> = t
          OBVIOUS
        <5> QED
          BY <4>3, <4>4, <5>1, Zenon DEF Erase
      <4> QED
        BY <1>1, <3>9, <3>10, <4>2, <4>5
    <3> QED
      BY <3>1, <3>2, <3>11, <3>12
  <2> QED
    BY <2>6, <2>7
<1> QED
  BY <1>3, <1>4, <1>5

(* On every tidy line the code does what the rules of C say.               *)
LEMMA TidyLikeC ==
  ASSUME NEW S, NEW l \in Seq(S), NEW open \in BOOLEAN, Tidy(open, l)
  PROVE  RemoveCommentaries(open, l) = Stripped(open, l)
<1>1. CASE open = TRUE
  BY <1>1, InsideLikeC
<1>2. CASE open = FALSE
  BY <1>2, OutsideLikeC
<1> QED
  BY <1>1, <1>2
------------------------------------------------------------------------------
LEMMA Invariance == Spec => []IInv
<1>1. Init => IInv
  BY DEF Init, IInv, InStep
<1>2. IInv /\ [Next]_vars => IInv'
  <2>1. SUFFICES ASSUME IInv, [Next]_vars
                 PROVE  IInv'
    OBVIOUS
  <2>2. CASE NextFile
    BY <2>1, <2>2 DEF IInv, InStep, NextFile
  <2>3. ASSUME NEW l \in Lines, NextLine(l)
        PROVE  IInv'
    <3>1. l \in Seq(STRING)
      BY LinesAssumption
    <3>2. /\ inside \in BOOLEAN /\ IsOpenCommentary = inside /\ Tidy(inside, l)
          /\ IsOpenCommentary' = RemoveCommentaries(IsOpenCommentary, l).open
          /\ inside' = Stripped(inside, l).open
      BY <2>1, <2>3 DEF IInv, InStep, NextLine
    <3>3. RemoveCommentaries(inside, l) = Stripped(inside, l)
      BY <3>1, <3>2, TidyLikeC
    <3>4. IsOpenCommentary' = inside'
      BY <3>2, <3>3
    <3>5. inside' \in BOOLEAN
      BY <3>2, <3>4, OpenIsBoolean
    <3> QED
      BY <3>4, <3>5 DEF IInv, InStep
  <2>4. CASE UNCHANGED vars
    BY <2>1, <2>4 DEF IInv, InStep, vars
  <2> QED
    BY <2>1, <2>2, <2>3, <2>4 DEF Next
<1> QED
  BY <1>1, <1>2, PTL DEF Spec

(***************************************************************************)
(* The static variable of RemoveCommentaries never goes astray: after any  *)
(* number of tidy lines of any files it is set iff the rules of C have the *)
(* next line begin inside a comment.                                       *)
(***************************************************************************)
THEOREM StaticVariable == Spec => []InStep
<1>1. IInv => InStep
  BY DEF IInv
<1> QED
  BY <1>1, Invariance, PTL

(***************************************************************************)
(* What RemoveCommentaries returns for a tidy line is, character for       *)
(* character, what the rules of C leave of it.                             *)
(***************************************************************************)
THEOREM StripsRight == Spec => StripsLikeC
<1>1. IInv /\ [Next]_vars => [LeftByC]_vars
  <2>1. SUFFICES ASSUME IInv, [Next]_vars
                 PROVE  LeftByC \/ UNCHANGED vars
    OBVIOUS
  <2>2. CASE NextFile
    <3>1. inside' = FALSE /\ line' = <<>> /\ output' = <<>>
      BY <2>1, <2>2 DEF NextFile, IInv
    <3>2. <<>> \in Seq(STRING) /\ Slashes(<<>>) = {} /\ Opens(<<>>) = {}
      BY DEF Slashes, Opens, Places
    <3>3. Tidy(FALSE, <<>>)
      BY <3>2 DEF Tidy
    <3>4. RemoveCommentaries(FALSE, <<>>) = Stripped(FALSE, <<>>)
      BY <3>2, <3>3, TidyLikeC
    <3>5. RemoveCommentaries(FALSE, <<>>).line = <<>>
      BY <3>2 DEF RemoveCommentaries
    <3> QED
      BY <2>2, <3>1, <3>4, <3>5 DEF LeftByC, NextFile
  <2>3. ASSUME NEW l \in Lines, NextLine(l)
        PROVE  LeftByC
    <3>1. l \in Seq(STRING)
      BY LinesAssumption
    <3>2. /\ inside \in BOOLEAN /\ IsOpenCommentary = inside /\ Tidy(inside, l)
          /\ line' = l /\ output' = RemoveCommentaries(IsOpenCommentary, l).line
      BY <2>1, <2>3 DEF IInv, InStep, NextLine
    <3>3. RemoveCommentaries(inside, l) = Stripped(inside, l)
      BY <3>1, <3>2, TidyLikeC
    <3> QED
      BY <3>2, <3>3 DEF LeftByC
  <2> QED
    BY <2>1, <2>2, <2>3 DEF Next
<1> QED
  BY <1>1, Invariance, PTL DEF Spec, StripsLikeC
==============================================================================
