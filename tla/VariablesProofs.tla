--------------------------- MODULE VariablesProofs ---------------------------
(***************************************************************************)
(* Theorems about Variables, for files with any number of lines of any     *)
(* length, any types, and any sets of typedef names.                       *)
(***************************************************************************)
EXTENDS Variables, Typedefs, ListLemmas

Line == Seq(STRING)
File == Seq(Line)
Word == Seq(WordChar)
------------------------------------------------------------------------------
(* Places of a line, and what is read there.                               *)
LEMMA MinOf ==
  ASSUME NEW T \in SUBSET Nat, T # {}
  PROVE  Min(T) \in T /\ \A n \in T : Min(T) <= n
BY LeastElement DEF Min

LEMMA CharTypes ==
  WordChar \subseteq STRING /\ Close \notin WordChar /\ NUL \notin WordChar
BY LettersAssumption DEF WordChar

LEMMA WordIsLine == Word \subseteq Line
<1> SUFFICES ASSUME NEW name \in Word
             PROVE  name \in Line
  OBVIOUS
<1>1. name \in Seq(WordChar)
  BY DEF Word
<1> QED
  BY <1>1, CharTypes, SeqMonotonic DEF Line

(* A name is read up to the end of its word, and never beyond the line.    *)
LEMMA NameRead ==
  ASSUME NEW l \in Line, NEW p \in Nat \ {0}
  PROVE  /\ WordAt(l, p) \in Word /\ Len(WordAt(l, p)) \in Nat
         /\ p <= Len(l) => /\ p + Len(WordAt(l, p)) <= Len(l) + 1
                           /\ SubSeq(l, p, p + Len(WordAt(l, p)) - 1) = WordAt(l, p)
         /\ p > Len(l) => WordAt(l, p) = <<>>
         /\ At(l, p) = Close => WordAt(l, p) = <<>>
<1> DEFINE n == Len(l)
           ends == {q \in p..(n + 1) : IsEndOfVar(At(l, q))}
           end == Min(ends)
<1>1. n \in Nat /\ DOMAIN l = 1..n /\ \A q \in 1..n : l[q] \in STRING
  BY DEF Line
<1>2. CASE p > n
  <2>1. WordAt(l, p) = <<>>
    BY <1>2 DEF WordAt
  <2>2. <<>> \in Word /\ Len(<<>>) = 0
    BY DEF Word
  <2> QED
    BY <1>1, <1>2, <2>1, <2>2
<1>3. CASE p <= n
  <2>1. n + 1 \in ends
    <3>1. At(l, n + 1) = NUL
      BY <1>1 DEF At
    <3>2. n + 1 \in p..(n + 1)
      BY <1>1, <1>3
    <3> QED
      BY <3>1, <3>2, CharTypes DEF IsEndOfVar
  <2>2. ends \in SUBSET Nat
    BY <1>1
  <2>3. end \in ends /\ \A q \in ends : end <= q
    <3> HIDE DEF ends
    <3> QED
      BY <2>1, <2>2, MinOf
  <2>4. end \in p..(n + 1)
    BY <2>3
  <2>5. WordAt(l, p) = SubSeq(l, p, end - 1)
    <3>1. ~ (p > Len(l))
      BY <1>1, <1>3
    <3> QED
      BY <3>1 DEF WordAt
  <2>6. \A q \in p..(end - 1) : l[q] \in WordChar
    <3> SUFFICES ASSUME NEW q \in p..(end - 1)
                 PROVE  l[q] \in WordChar
      OBVIOUS
    <3> HIDE DEF end
    <3>1. q \in p..(n + 1) /\ q \in 1..n /\ ~ (end <= q)
      BY <1>1, <2>4
    <3>2. q \notin ends
      BY <2>3, <3>1
    <3>3. ~ IsEndOfVar(At(l, q))
      BY <3>1, <3>2
    <3>4. At(l, q) = l[q]
      BY <1>1, <3>1 DEF At
    <3> QED
      BY <3>3, <3>4 DEF IsEndOfVar
  <2> HIDE DEF end
  <2>7. /\ SubSeq(l, p, end - 1) \in Seq(WordChar)
        /\ Len(SubSeq(l, p, end - 1)) = IF p <= end - 1 THEN (end - 1) - p + 1 ELSE 0
    BY <1>1, <2>4, <2>6, SubSeqProperties
  <2>8. p + Len(SubSeq(l, p, end - 1)) <= n + 1 /\ Len(SubSeq(l, p, end - 1)) \in Nat
    BY <1>1, <1>3, <2>4, <2>7
  <2>9. At(l, p) = Close => SubSeq(l, p, end - 1) = <<>>
    <3> SUFFICES ASSUME At(l, p) = Close
                 PROVE  SubSeq(l, p, end - 1) = <<>>
      OBVIOUS
    <3>1. p \in ends
      BY <1>1, <1>3, CharTypes DEF IsEndOfVar
    <3>2. end - 1 < p /\ end - 1 \in Int
      BY <1>1, <2>3, <2>4, <3>1
    <3> QED
      BY <3>2, SubSeqEmpty
  <2>10. SubSeq(l, p, p + Len(WordAt(l, p)) - 1) = WordAt(l, p)
    <3>1. PICK x \in Nat : x = Len(WordAt(l, p))
      BY <2>5, <2>8
    <3>2. p + x - 1 = end - 1
      BY <1>1, <2>4, <2>5, <2>7, <3>1
    <3> QED
      BY <2>5, <3>1, <3>2
  <2> QED
    BY <1>1, <1>3, <2>5, <2>7, <2>8, <2>9, <2>10 DEF Word
<1> QED
  BY <1>1, <1>2, <1>3

LEMMA OccurrencePlaces ==
  ASSUME NEW l \in Line, NEW name \in Line
  PROVE  /\ Len(l) \in Nat /\ Len(name) \in Nat
         /\ Occurrences(name, l) \in SUBSET Nat
         /\ \A p \in Occurrences(name, l) :
              1 <= p /\ p + Len(name) <= Len(l) + 1 /\ SubSeq(l, p, p + Len(name) - 1) = name
<1>1. Len(l) \in Nat /\ Len(name) \in Nat
  BY DEF Line
<1> QED
  BY <1>1 DEF Occurrences

LEMMA OccurrenceIn ==
  ASSUME NEW l \in Line, NEW name \in Line, NEW p \in Nat,
         1 <= p, p + Len(name) <= Len(l) + 1, SubSeq(l, p, p + Len(name) - 1) = name
  PROVE  p \in Occurrences(name, l)
<1>1. Len(l) \in Nat /\ Len(name) \in Nat
  BY DEF Line
<1>2. p \in 1..(Len(l) - Len(name) + 1)
  BY <1>1
<1> QED
  BY <1>2 DEF Occurrences

(* What a word is, and that two words that meet are one.                   *)
LEMMA WordPlaces ==
  ASSUME NEW l \in Line, NEW w \in Words(l)
  PROVE  /\ w = [from |-> w.from, to |-> w.to]
         /\ Len(l) \in Nat /\ w.from \in 1..Len(l) /\ w.to \in 1..Len(l) /\ w.from <= w.to
         /\ \A m \in w.from..w.to : l[m] \in WordChar
         /\ w.from > 1 => l[w.from - 1] \notin WordChar
         /\ w.to < Len(l) => l[w.to + 1] \notin WordChar
<1>1. Len(l) \in Nat /\ DOMAIN l = 1..Len(l)
  BY DEF Line
<1>2. w \in [from : DOMAIN l, to : DOMAIN l]
  BY DEF Words
<1>3. w = [from |-> w.from, to |-> w.to] /\ w.from \in DOMAIN l /\ w.to \in DOMAIN l
  BY <1>2
<1> QED
  BY <1>1, <1>3 DEF Words

LEMMA WordsApart ==
  ASSUME NEW l \in Line, NEW v \in Words(l), NEW w \in Words(l),
         NEW p \in v.from..v.to, p \in w.from..w.to
  PROVE  v = w
<1>1. ASSUME NEW x \in Words(l), NEW y \in Words(l), p \in x.from..x.to, p \in y.from..y.to
      PROVE  x.from <= y.from /\ x.to >= y.to
  <2>1. /\ Len(l) \in Nat /\ x.from \in 1..Len(l) /\ x.to \in 1..Len(l)
        /\ y.from \in 1..Len(l) /\ y.to \in 1..Len(l) /\ x.from <= p /\ p <= x.to
        /\ y.from <= p /\ p <= y.to /\ p \in Int
    BY <1>1, WordPlaces
  <2>2. /\ x.from > 1 => l[x.from - 1] \notin WordChar
        /\ x.to < Len(l) => l[x.to + 1] \notin WordChar
        /\ \A m \in y.from..y.to : l[m] \in WordChar
    BY WordPlaces
  <2>3. ~ (x.from > y.from)
    <3> SUFFICES ASSUME x.from > y.from
                 PROVE  FALSE
      OBVIOUS
    <3>1. x.from > 1 /\ x.from - 1 \in y.from..y.to
      BY <2>1
    <3> QED
      BY <2>2, <3>1
  <2>4. ~ (x.to < y.to)
    <3> SUFFICES ASSUME x.to < y.to
                 PROVE  FALSE
      OBVIOUS
    <3>1. x.to < Len(l) /\ x.to + 1 \in y.from..y.to
      BY <2>1
    <3> QED
      BY <2>2, <3>1
  <2> QED
    BY <2>1, <2>3, <2>4
<1>2. v.from <= w.from /\ v.to >= w.to /\ w.from <= v.from /\ w.to >= v.to
  BY <1>1
<1>3. /\ Len(l) \in Nat /\ v.from \in 1..Len(l) /\ v.to \in 1..Len(l)
      /\ w.from \in 1..Len(l) /\ w.to \in 1..Len(l)
  BY WordPlaces
<1>4. v.from = w.from /\ v.to = w.to
  BY <1>2, <1>3
<1> QED
  BY <1>4, WordPlaces

(* What stands for a character when words are replaced: a renamed word's   *)
(* first character becomes the new name and its others nothing, and any    *)
(* other character stays.                                                  *)
LEMMA NewNames ==
  \A word \in DOMAIN NewName : NewName[word] \in Word /\ NewName[word] # <<>>
BY NewNamesAssumption DEF Word, Range

LEMMA ReplacedWord ==
  ASSUME NEW l \in Line, NEW u \in Renamed(l)
  PROVE  /\ u \in Words(l) /\ Text(l, u) \in DOMAIN NewName
         /\ Replacement(l, u.from) = NewName[Text(l, u)]
         /\ \A p \in (u.from + 1)..u.to : Replacement(l, p) = <<>>
<1>1. u \in Words(l) /\ Text(l, u) \in DOMAIN NewName
  BY DEF Renamed
<1>2. u.from \in Nat /\ u.to \in Nat /\ u.from <= u.to
  BY <1>1, WordPlaces
<1>3. ASSUME NEW v \in Renamed(l), NEW p \in u.from..u.to, p \in v.from..v.to
      PROVE  v = u
  <2>1. v \in Words(l)
    BY DEF Renamed
  <2> QED
    BY <1>1, <1>3, <2>1, WordsApart
<1>4. ASSUME NEW v \in Renamed(l)
      PROVE  v.from \in v.from..v.to
  <2>1. v \in Words(l)
    BY DEF Renamed
  <2> QED
    BY <2>1, WordPlaces
<1>5. (CHOOSE w \in Renamed(l) : w.from = u.from) = u
  <2> DEFINE chosen == CHOOSE w \in Renamed(l) : w.from = u.from
  <2>1. chosen \in Renamed(l) /\ chosen.from = u.from
    OBVIOUS
  <2> HIDE DEF chosen
  <2>2. u.from \in u.from..u.to /\ u.from \in chosen.from..chosen.to
    BY <1>2, <1>4, <2>1
  <2>3. chosen = u
    BY <1>3, <2>1, <2>2
  <2> QED
    BY <2>3 DEF chosen
<1>6. Replacement(l, u.from) = NewName[Text(l, u)]
  BY <1>5 DEF Replacement
<1>7. ASSUME NEW p \in (u.from + 1)..u.to
      PROVE  Replacement(l, p) = <<>>
  <2>1. p \in u.from..u.to /\ p # u.from
    BY <1>2
  <2>2. ~ (\E w \in Renamed(l) : w.from = p)
    BY <1>3, <1>4, <2>1
  <2> QED
    BY <2>1, <2>2 DEF Replacement
<1> QED
  BY <1>1, <1>6, <1>7

LEMMA KeptCharacter ==
  ASSUME NEW l \in Line, NEW p \in 1..Len(l), \A u \in Renamed(l) : p \notin u.from..u.to
  PROVE  Replacement(l, p) = <<l[p]>>
<1>1. ASSUME NEW w \in Renamed(l)
      PROVE  w.from # p
  <2>1. w \in Words(l)
    BY DEF Renamed
  <2>2. w.from \in w.from..w.to
    BY <2>1, WordPlaces
  <2> QED
    BY <2>2
<1> QED
  BY <1>1 DEF Replacement

LEMMA ReplacementLine ==
  ASSUME NEW l \in Line, NEW p \in 1..Len(l)
  PROVE  Replacement(l, p) \in Line
<1>1. CASE \E u \in Renamed(l) : p \in u.from..u.to
  <2>1. PICK u \in Renamed(l) : p \in u.from..u.to
    BY <1>1
  <2>2. u.from \in Nat /\ u.to \in Nat
    BY ReplacedWord, WordPlaces
  <2>3. p = u.from \/ p \in (u.from + 1)..u.to
    BY <2>1, <2>2
  <2>4. <<>> \in Line /\ NewName[Text(l, u)] \in Line
    BY ReplacedWord, NewNames, WordIsLine DEF Line
  <2> QED
    BY <2>3, <2>4, ReplacedWord
<1>2. CASE ~ (\E u \in Renamed(l) : p \in u.from..u.to)
  <2>1. l[p] \in STRING
    BY DEF Line
  <2>2. Replacement(l, p) = <<l[p]>>
    BY <1>2, KeptCharacter
  <2> QED
    BY <2>1, <2>2 DEF Line
<1> QED
  BY <1>1, <1>2

(* A line in which words are replaced is a line.                           *)
LEMMA RenamedLine ==
  ASSUME NEW l \in Line
  PROVE  Rename(l) \in Line
<1> DEFINE seqs == [p \in DOMAIN l |-> Replacement(l, p)]
<1>1. Len(l) \in Nat /\ DOMAIN l = 1..Len(l)
  BY DEF Line
<1>2. \A p \in DOMAIN l : Replacement(l, p) \in Line
  BY <1>1, ReplacementLine
<1>3. seqs \in Seq(Line) /\ Len(seqs) = Len(l)
  BY <1>1, <1>2
<1>4. Rename(l) = FlattenSeq(seqs)
  BY DEF Rename
<1> HIDE DEF seqs
<1>5. FlattenSeq(seqs) \in Seq(STRING)
  <2> DEFINE n == Len(l)
  <2> HIDE DEF n
  <2>1. n \in Nat /\ Len(seqs) = n /\ seqs \in Seq(Seq(STRING))
    BY <1>1, <1>3 DEF n, Line
  <2> QED
    BY <2>1, Flattened
<1> QED
  BY <1>4, <1>5 DEF Line

------------------------------------------------------------------------------
(* A set, in any order, is gone through as a whole.                        *)
LEMMA AllInOrder ==
  ASSUME NEW S \in SUBSET Line, IsFiniteSet(S), NEW order \in SetToSeqs(S)
  PROVE  order \in Seq(Line) /\ Range(order) = S
<1> DEFINE n == Cardinality(S)
<1>1. n \in Nat /\ IsFiniteSet(1..n) /\ Cardinality(1..n) = n
  BY FS_CardinalityType, FS_Interval
<1>2. order \in [1..n -> S] /\ \A a, b \in 1..n : a # b => order[a] # order[b]
  BY DEF SetToSeqs
<1> HIDE DEF n
<1>3. order \in Injection(1..n, S)
  BY <1>2 DEF Injection, IsInjective
<1>4. order \in Surjection(1..n, S)
  BY <1>1, <1>3, FS_Injection DEF n
<1>5. Range(order) = S
  BY <1>2, <1>4 DEF Range, Surjection
<1> QED
  BY <1>1, <1>2, <1>5

LEMMA TypesInOrder ==
  ASSUME NEW s \in Seq(Line), NEW t \in Seq(Line)
  PROVE  s \o t \in Seq(Line) /\ Range(s \o t) = Range(s) \cup Range(t)
<1>1. s \o t \in Seq(Line) /\ ToSet(s \o t) = ToSet(s) \cup ToSet(t)
  BY Concatenated
<1>2. \A f : ToSet(f) = Range(f)
  BY DEF ToSet, Range
<1> QED
  BY <1>1, <1>2

(***************************************************************************)
(* The types of the variables, and what the loops go through.              *)
(***************************************************************************)
Types == Range(VarTypes) \cup typedef_names

FileInv ==
  /\ source \in File /\ data \in File /\ Len(data) = Len(source)
  /\ \A n \in 1..Len(source) : Len(data[n]) <= Len(source[n])

NamesInv ==
  /\ typedef_names \in TypedefNames /\ typedef_names \subseteq variables
  /\ IsFiniteSet(variables) /\ variables \subseteq Word
  /\ \A name \in variables \ typedef_names : name # <<>>

ListInv ==
  /\ list \in Seq(Line)
  /\ pc = "collect" => Range(list) = Types
  /\ pc # "collect" => Range(list) = variables

TypeInv ==
  /\ FileInv /\ NamesInv /\ ListInv
  /\ pc \in {"collect", "remove", "done"}
  /\ i \in 1..(Len(source) + 1) /\ k \in 1..(Len(list) + 1)
  /\ find \in Nat \ {0} /\ (pc = "remove" => find >= 2)
  /\ buffer \in Word

LEMMA TypeInvImplies == TypeInv => TypeOK
<1> SUFFICES ASSUME TypeInv
             PROVE  TypeOK
  OBVIOUS
<1>1. DOMAIN data = 1..Len(source) /\ Len(data) = Len(source)
  BY DEF TypeInv, FileInv, File
<1>2. ASSUME NEW name \in variables \ typedef_names
      PROVE  Len(name) > 0 /\ ToSet(name) \subseteq WordChar
  <2>1. name \in Seq(WordChar) /\ name # <<>>
    BY DEF TypeInv, NamesInv, Word
  <2>2. Len(name) > 0
    BY <2>1
  <2> QED
    BY <2>1, <2>2, OwnElements
<1> QED
  BY <1>1, <1>2 DEF TypeInv, FileInv, TypeOK

LEMMA TypedefWords ==
  ASSUME NEW names \in TypedefNames
  PROVE  IsFiniteSet(names) /\ names \subseteq Word /\ names \subseteq Line
<1>1. IsFiniteSet(names) /\ names \subseteq Seq(Letters)
  BY NamesAssumption
<1>2. Seq(Letters) \subseteq Seq(WordChar)
  <2>1. Letters \subseteq WordChar
    BY DEF WordChar
  <2> QED
    BY <2>1, SeqMonotonic
<1> QED
  BY <1>1, <1>2, WordIsLine DEF Word

LEMMA TypeInit == Init => TypeInv
<1> SUFFICES ASSUME Init
             PROVE  TypeInv
  OBVIOUS
<1>1. /\ written \in Files /\ typedef_names \in TypedefNames
      /\ source \in {written, [n \in DOMAIN written |-> Rename(written[n])]}
      /\ data = source /\ variables = typedef_names
      /\ pc = "collect" /\ list \in {VarTypes \o names : names \in SetToSeqs(typedef_names)}
      /\ i = 1 /\ k = 1 /\ find = 1 /\ buffer = <<>>
  BY DEF Init
<1>2. source \in File
  <2>1. written \in File
    BY <1>1, LinesAssumption DEF File, Line
  <2>2. [n \in DOMAIN written |-> Rename(written[n])] \in File
    <3>1. DOMAIN written = 1..Len(written) /\ Len(written) \in Nat
          /\ \A n \in DOMAIN written : written[n] \in Line
      BY <2>1 DEF File
    <3>2. \A n \in DOMAIN written : Rename(written[n]) \in Line
      BY <3>1, RenamedLine
    <3> QED
      BY <3>1, <3>2 DEF File
  <2> QED
    BY <1>1, <2>1, <2>2
<1>3. FileInv
  <2>1. \A n \in 1..Len(source) : Len(source[n]) \in Nat
    BY <1>2 DEF File, Line
  <2>2. \A n \in 1..Len(source) : Len(data[n]) <= Len(source[n])
    BY <1>1, <2>1
  <2> QED
    BY <1>1, <1>2, <2>2 DEF FileInv
<1>4. IsFiniteSet(typedef_names) /\ typedef_names \subseteq Word /\ typedef_names \subseteq Line
  BY <1>1, TypedefWords
<1>5. NamesInv
  BY <1>1, <1>4 DEF NamesInv
<1>6. ListInv
  <2>1. PICK names \in SetToSeqs(typedef_names) : list = VarTypes \o names
    BY <1>1
  <2>2. names \in Seq(Line) /\ Range(names) = typedef_names
    BY <1>4, AllInOrder
  <2>3. VarTypes \in Seq(Line)
    BY LinesAssumption DEF Line
  <2> QED
    BY <1>1, <2>1, <2>2, <2>3, TypesInOrder DEF ListInv, Types
<1>7. Len(source) \in Nat /\ Len(list) \in Nat
  BY <1>2, <1>6 DEF File, ListInv
<1>8. <<>> \in Word
  BY DEF Word
<1> QED
  BY <1>1, <1>3, <1>5, <1>6, <1>7, <1>8 DEF TypeInv

(* What a search looks at, and the places where it finds it.               *)
LEMMA SearchTypes ==
  ASSUME TypeInv, Searching
  PROVE  /\ i \in 1..Len(source) /\ k \in DOMAIN list
         /\ data[i] \in Line /\ list[k] \in Line /\ Len(data[i]) \in Nat /\ Len(list[k]) \in Nat
         /\ Hits \in SUBSET Nat
         /\ Hits # {} => /\ Min(Hits) \in Hits /\ Min(Hits) \in Nat
                         /\ \A p \in Hits : Min(Hits) <= p
                         /\ Min(Hits) >= find /\ 1 <= Min(Hits)
                         /\ Min(Hits) \in Occurrences(list[k], data[i])
                         /\ Min(Hits) + Len(list[k]) <= Len(data[i]) + 1
<1>1. i \in 1..Len(source) /\ k \in DOMAIN list /\ find \in Nat
  BY DEF TypeInv, FileInv, ListInv, Searching, File
<1>2. data[i] \in Line /\ list[k] \in Line
  BY <1>1 DEF TypeInv, FileInv, ListInv, File
<1>3. Len(data[i]) \in Nat /\ Len(list[k]) \in Nat
  BY <1>2 DEF Line
<1>4. /\ Occurrences(list[k], data[i]) \in SUBSET Nat
      /\ \A p \in Occurrences(list[k], data[i]) :
           1 <= p /\ p + Len(list[k]) <= Len(data[i]) + 1
  BY <1>2, OccurrencePlaces
<1>5. Hits \in SUBSET Nat /\ Hits \subseteq Occurrences(list[k], data[i])
      /\ \A p \in Hits : p >= find
  BY <1>4 DEF Hits
<1>6. Hits # {} => Min(Hits) \in Hits /\ \A p \in Hits : Min(Hits) <= p
  BY <1>5, MinOf
<1> QED
  BY <1>1, <1>2, <1>3, <1>4, <1>5, <1>6

LEMMA Erased ==
  ASSUME NEW l \in Line, NEW p \in Nat, NEW n \in Nat, 1 <= p, p + n <= Len(l) + 1
  PROVE  /\ Erase(l, p, n) \in Line
         /\ Len(l) \in Nat /\ Len(Erase(l, p, n)) = Len(l) - n
         /\ \A q \in 1..(Len(l) - n) : Erase(l, p, n)[q] = IF q < p THEN l[q] ELSE l[q + n]
<1> DEFINE m == Len(l)
           a == SubSeq(l, 1, p - 1)
           b == SubSeq(l, p + n, m)
<1>1. m \in Nat /\ l \in Seq(STRING)
  BY DEF Line
<1>2. a \in Seq(STRING) /\ Len(a) = p - 1 /\ \A q \in 1..(p - 1) : a[q] = l[q]
  BY <1>1
<1>3. /\ b \in Seq(STRING) /\ Len(b) = (m - (p + n)) + 1
      /\ \A q \in 1..((m - (p + n)) + 1) : b[q] = l[((p + n) + q) - 1]
  BY <1>1
<1> HIDE DEF a, b
<1>4. /\ a \o b \in Seq(STRING) /\ Len(a \o b) = Len(a) + Len(b)
      /\ \A q \in 1..(Len(a) + Len(b)) : (a \o b)[q] = IF q <= Len(a) THEN a[q] ELSE b[q - Len(a)]
  BY <1>2, <1>3, ConcatProperties
<1>5. Len(a) + Len(b) = m - n
  BY <1>1, <1>2, <1>3
<1>6. ASSUME NEW q \in 1..(m - n)
      PROVE  (a \o b)[q] = IF q < p THEN l[q] ELSE l[q + n]
  <2>1. q \in Nat /\ 1 <= q /\ q <= m - n
    BY <1>1
  <2>2. (a \o b)[q] = IF q <= p - 1 THEN a[q] ELSE b[q - (p - 1)]
    BY <1>2, <1>4, <1>5
  <2>3. CASE q < p
    <3>1. q \in 1..(p - 1) /\ q <= p - 1
      BY <2>1, <2>3
    <3> QED
      BY <1>2, <2>2, <2>3, <3>1
  <2>4. CASE ~ (q < p)
    <3>1. ~ (q <= p - 1) /\ q - (p - 1) \in 1..((m - (p + n)) + 1)
          /\ ((p + n) + (q - (p - 1))) - 1 = q + n
      BY <1>1, <2>1, <2>4
    <3> QED
      BY <1>3, <2>2, <2>4, <3>1
  <2> QED
    BY <2>3, <2>4
<1>7. Erase(l, p, n) = a \o b
  BY DEF Erase, a, b
<1> QED
  BY <1>1, <1>4, <1>5, <1>6, <1>7 DEF Line

LEMMA TypeStep == TypeInv /\ [Next]_vars => TypeInv'
<1> SUFFICES ASSUME TypeInv, [Next]_vars
             PROVE  TypeInv'
  OBVIOUS
<1>0. /\ FileInv /\ NamesInv /\ ListInv
      /\ pc \in {"collect", "remove", "done"}
      /\ i \in 1..(Len(source) + 1) /\ k \in 1..(Len(list) + 1)
      /\ find \in Nat \ {0} /\ (pc = "remove" => find >= 2)
      /\ buffer \in Word
      /\ Len(source) \in Nat /\ Len(data) = Len(source) /\ Len(list) \in Nat
  BY DEF TypeInv, FileInv, ListInv, File
<1>1. CASE Collect
  <2>1. /\ pc = "collect" /\ Searching /\ Hits # {}
        /\ ReadVariableName(Min(Hits) + Len(list[k]) + 1)
        /\ variables' = variables \cup ({buffer'} \ {<<>>})
        /\ UNCHANGED <<written, source, typedef_names, data, pc, list, i, k>>
    BY <1>1 DEF Collect
  <2> DEFINE q == Min(Hits) + Len(list[k]) + 1
  <2>2. q \in Nat \ {0} /\ data[i] \in Line
    BY <2>1, SearchTypes
  <2>3. WordAt(data[i], q) \in Word /\ Len(WordAt(data[i], q)) \in Nat
    <3> HIDE DEF q
    <3> QED
      BY <2>2, NameRead
  <2>4. buffer' \in Word /\ find' \in Nat \ {0}
    <3>1. ReadVariableName(q)
      BY <2>1
    <3> HIDE DEF q
    <3>2. \/ find' = q /\ buffer' = buffer
          \/ buffer' = WordAt(data[i], q) /\ find' = q + Len(buffer')
      BY <3>1 DEF ReadVariableName
    <3>3. CASE find' = q /\ buffer' = buffer
      BY <1>0, <2>2, <3>3
    <3>4. CASE buffer' = WordAt(data[i], q) /\ find' = q + Len(buffer')
      BY <2>2, <2>3, <3>4
    <3> QED
      BY <3>2, <3>3, <3>4
  <2>5. NamesInv'
    <3>1. IsFiniteSet(variables \cup ({buffer'} \ {<<>>}))
      <4>1. IsFiniteSet({buffer'} \ {<<>>})
        BY FS_Singleton, FS_Subset
      <4> QED
        BY <1>0, <4>1, FS_Union DEF NamesInv
    <3> QED
      BY <1>0, <2>1, <2>4, <3>1 DEF NamesInv
  <2>6. FileInv' /\ ListInv'
    BY <1>0, <2>1 DEF FileInv, ListInv, Types
  <2> QED
    BY <1>0, <2>1, <2>4, <2>5, <2>6 DEF TypeInv
<1>2. CASE PassType
  <2>1. /\ Searching /\ Hits # {} /\ pc = "collect" /\ find' = Min(Hits) + 1
        /\ UNCHANGED <<written, source, typedef_names, data, variables, pc, list, i, k, buffer>>
    BY <1>2 DEF PassType
  <2>2. find' \in Nat \ {0}
    BY <2>1, SearchTypes
  <2>3. FileInv' /\ NamesInv' /\ ListInv'
    BY <1>0, <2>1 DEF FileInv, NamesInv, ListInv, Types
  <2> QED
    BY <1>0, <2>1, <2>2, <2>3 DEF TypeInv
<1>3. CASE Search
  <2> DEFINE p == Min(Hits)
  <2>1. /\ Searching /\ Hits # {} /\ pc = "remove" /\ find' = p + 1
        /\ data' \in {data, [data EXCEPT ![i] = Erase(data[i], p, Len(list[k]))]}
        /\ UNCHANGED <<written, source, typedef_names, variables, pc, list, i, k, buffer>>
    BY <1>3 DEF Search
  <2>2. p \in Nat /\ p >= find /\ find >= 2 /\ find \in Nat
    BY <1>0, <2>1, SearchTypes
  <2>3. find' \in Nat \ {0} /\ find' >= 2
    <3> HIDE DEF p
    <3> QED
      BY <2>1, <2>2
  <2>4. /\ Erase(data[i], p, Len(list[k])) \in Line /\ Len(data[i]) \in Nat /\ Len(list[k]) \in Nat
        /\ Len(Erase(data[i], p, Len(list[k]))) = Len(data[i]) - Len(list[k])
        /\ i \in 1..Len(source)
    <3>1. /\ data[i] \in Line /\ 1 <= p /\ p + Len(list[k]) <= Len(data[i]) + 1
          /\ Len(data[i]) \in Nat /\ Len(list[k]) \in Nat /\ i \in 1..Len(source)
      BY <2>1, SearchTypes
    <3> HIDE DEF p
    <3>2. PICK n \in Nat : n = Len(list[k])
      BY <3>1
    <3>3. Erase(data[i], p, n) \in Line /\ Len(Erase(data[i], p, n)) = Len(data[i]) - n
      BY <2>2, <3>1, <3>2, Erased
    <3> QED
      BY <3>1, <3>2, <3>3
  <2> HIDE DEF p
  <2>5. FileInv'
    <3>1. /\ source \in File /\ data \in File /\ Len(data) = Len(source)
          /\ \A n \in 1..Len(source) : Len(data[n]) <= Len(source[n])
      BY <1>0 DEF FileInv
    <3>2. Len(source[i]) \in Nat
      BY <2>4, <3>1 DEF File, Line
    <3>3. CASE data' = data
      BY <2>1, <3>1, <3>3 DEF FileInv
    <3>4. CASE data' = [data EXCEPT ![i] = Erase(data[i], p, Len(list[k]))]
      <4> DEFINE erased == Erase(data[i], p, Len(list[k]))
      <4>1. erased \in Line /\ Len(erased) <= Len(source[i])
        <5>1. Len(erased) = Len(data[i]) - Len(list[k]) /\ Len(data[i]) <= Len(source[i])
          BY <2>4, <3>1
        <5>2. Len(data[i]) \in Nat /\ Len(list[k]) \in Nat /\ erased \in Line
          BY <2>4
        <5>3. \A a, b, c, d \in Nat : a = b - c /\ b <= d => a <= d
          OBVIOUS
        <5>4. Len(erased) \in Nat
          BY <5>2 DEF Line
        <5> HIDE DEF erased
        <5>5. Len(erased) <= Len(source[i])
          BY <3>2, <5>1, <5>2, <5>3, <5>4, Zenon
        <5> QED
          BY <5>2, <5>5
      <4>2. data' = [data EXCEPT ![i] = erased]
        BY <3>4
      <4> HIDE DEF erased
      <4>3. data' \in File /\ Len(data') = Len(data)
            /\ \A n \in 1..Len(source) : data'[n] = IF n = i THEN erased ELSE data[n]
        BY <2>4, <3>1, <4>1, <4>2 DEF File
      <4> QED
        BY <2>1, <3>1, <4>1, <4>3 DEF FileInv
    <3> QED
      BY <2>1, <3>3, <3>4
  <2>6. NamesInv' /\ ListInv'
    BY <1>0, <2>1 DEF NamesInv, ListInv, Types
  <2> QED
    BY <1>0, <2>1, <2>3, <2>5, <2>6 DEF TypeInv
<1>4. CASE NextSearch \/ NextLine
  <2>1. /\ pc # "done" /\ find' = First
        /\ i' \in 1..(Len(source) + 1) /\ k' \in 1..(Len(list) + 1)
        /\ UNCHANGED <<written, source, typedef_names, data, variables, pc, list, buffer>>
    BY <1>0, <1>4 DEF NextSearch, NextLine, Searching
  <2>2. find' \in Nat \ {0} /\ (pc = "remove" => find' >= 2)
    BY <2>1 DEF First
  <2>3. FileInv' /\ NamesInv' /\ ListInv'
    BY <1>0, <2>1 DEF FileInv, NamesInv, ListInv, Types
  <2> QED
    BY <1>0, <2>1, <2>2, <2>3 DEF TypeInv
<1>5. CASE StartRemoving
  <2>1. /\ pc' = "remove" /\ list' \in SetToSeqs(variables)
        /\ i' = 1 /\ k' = 1 /\ find' = 2
        /\ UNCHANGED <<written, source, typedef_names, data, variables, buffer>>
    BY <1>5 DEF StartRemoving
  <2>2. list' \in Seq(Line) /\ Range(list') = variables
    <3>1. variables \subseteq Line /\ IsFiniteSet(variables)
      BY <1>0, WordIsLine DEF NamesInv
    <3> QED
      BY <2>1, <3>1, AllInOrder
  <2>3. FileInv' /\ NamesInv' /\ ListInv'
    BY <1>0, <2>1, <2>2 DEF FileInv, NamesInv, ListInv
  <2> QED
    BY <1>0, <2>1, <2>2, <2>3 DEF TypeInv
<1>6. CASE Finish \/ UNCHANGED vars
  <2>1. /\ pc' \in {pc, "done"} /\ (pc' = pc \/ pc = "remove")
        /\ UNCHANGED <<written, source, typedef_names, data, variables, list, i, k, find, buffer>>
    BY <1>6 DEF Finish, vars
  <2>2. FileInv' /\ NamesInv' /\ ListInv'
    BY <1>0, <2>1 DEF FileInv, NamesInv, ListInv, Types
  <2> QED
    BY <1>0, <2>1, <2>2 DEF TypeInv
<1> QED
  BY <1>1, <1>2, <1>3, <1>4, <1>5, <1>6 DEF Next

(***************************************************************************)
(* Every file keeps its lines, none of which grows, the places the loops   *)
(* are at are inside of what they go through, and what is collected are    *)
(* words that are not empty.                                               *)
(***************************************************************************)
THEOREM TypeCorrect == Spec => []TypeOK
<1>1. Spec => []TypeInv
  BY TypeInit, TypeStep, PTL DEF Spec
<1> QED
  BY <1>1, TypeInvImplies, PTL

------------------------------------------------------------------------------
(***************************************************************************)
(* While types are looked for, the file is as it was, and every place of a *)
(* type that is behind the search has given its name or is covered.        *)
(***************************************************************************)
Names   == {Declared(d) : d \in Declarations}
Read(d) == Declared(d) \in variables \cup {<<>>} \/ Covered(d)

Behind(d, j) == d.line < i \/ (d.line = i /\ (j < k \/ (j = k /\ d.at < find)))

CollectInv ==
  pc = "collect" =>
    /\ data = source
    /\ buffer \in {<<>>} \cup Names
    /\ variables \subseteq typedef_names \cup Names
    /\ \A d \in Declarations, j \in DOMAIN list :
         list[j] = d.type /\ Behind(d, j) => Read(d)

LEMMA DeclarationPlaces ==
  ASSUME TypeInv, NEW d \in Declarations
  PROVE  /\ d.line \in 1..Len(source) /\ d.type \in Types
         /\ d.at \in Occurrences(d.type, source[d.line])
         /\ IsVarType(source[d.line], d.type, d.at)
         /\ d.name = d.at + Len(d.type) + 1
         /\ d = [line |-> d.line, type |-> d.type, at |-> d.at, name |-> d.name]
<1>1. PICK n \in DOMAIN source, type \in Types : d \in DeclaredIn(n, type)
  BY DEF Declarations, Types
<1>2. PICK p \in Occurrences(type, source[n]) :
        /\ IsVarType(source[n], type, p)
        /\ d = [line |-> n, type |-> type, at |-> p, name |-> p + Len(type) + 1]
  BY <1>1 DEF DeclaredIn
<1>3. d.line = n /\ d.type = type /\ d.at = p /\ d.name = p + Len(type) + 1
  BY <1>2
<1>4. n \in 1..Len(source)
  BY DEF TypeInv, FileInv, File
<1> QED
  BY <1>2, <1>3, <1>4

LEMMA DeclarationAt ==
  ASSUME NEW n \in DOMAIN source, NEW type \in Types, NEW p \in Occurrences(type, source[n]),
         IsVarType(source[n], type, p)
  PROVE  [line |-> n, type |-> type, at |-> p, name |-> p + Len(type) + 1] \in Declarations
<1>1. [line |-> n, type |-> type, at |-> p, name |-> p + Len(type) + 1] \in DeclaredIn(n, type)
  BY DEF DeclaredIn
<1> QED
  BY <1>1 DEF Declarations, Types

(* Places that are not numbers would be none: these are all.               *)
LEMMA DeclarationNumbers ==
  ASSUME TypeInv
  PROVE  /\ find \in Nat /\ i \in Nat /\ k \in Nat
         /\ DOMAIN list \in SUBSET Nat
         /\ \A d \in Declarations : d.line \in Nat /\ d.at \in Nat /\ d.at >= 1
                                    /\ source[d.line] \in Line /\ d.type \in Line
<1>1. find \in Nat /\ i \in Nat /\ k \in Nat /\ DOMAIN list \in SUBSET Nat
  BY DEF TypeInv, ListInv
<1>2. ASSUME NEW d \in Declarations
      PROVE  d.line \in Nat /\ d.at \in Nat /\ d.at >= 1
             /\ source[d.line] \in Line /\ d.type \in Line
  <2>1. d.line \in 1..Len(source) /\ d.type \in Types
        /\ d.at \in Occurrences(d.type, source[d.line])
    BY DeclarationPlaces
  <2>2. source[d.line] \in Line
    BY <2>1 DEF TypeInv, FileInv, File
  <2>3. d.type \in Line
    <3>1. VarTypes \in Seq(Line)
      BY LinesAssumption DEF Line
    <3>2. Range(VarTypes) \subseteq Line
      BY <3>1 DEF Range
    <3>3. typedef_names \subseteq Line
      BY TypedefWords DEF TypeInv, NamesInv
    <3> QED
      BY <2>1, <3>2, <3>3 DEF Types
  <2>4. \A p \in Occurrences(d.type, source[d.line]) : p \in Nat /\ p >= 1
    BY <2>2, <2>3, OccurrencePlaces
  <2> QED
    BY <2>1, <2>2, <2>3, <2>4
<1> QED
  BY <1>1, <1>2

LEMMA CollectInit == Init /\ TypeInv => CollectInv
<1> SUFFICES ASSUME Init, TypeInv
             PROVE  CollectInv
  OBVIOUS
<1>1. data = source /\ variables = typedef_names /\ buffer = <<>> /\ i = 1 /\ k = 1 /\ find = 1
  BY DEF Init
<1>2. ASSUME NEW d \in Declarations, NEW j \in DOMAIN list, Behind(d, j)
      PROVE  FALSE
  <2>1. d.line \in 1..Len(source) /\ d.at \in Nat /\ d.at >= 1 /\ j \in Nat /\ j >= 1
    <3>1. j \in 1..Len(list)
      BY DEF TypeInv, ListInv
    <3> QED
      BY <3>1, DeclarationPlaces, DeclarationNumbers
  <2> QED
    BY <1>1, <1>2, <2>1 DEF Behind
<1> QED
  BY <1>1, <1>2 DEF CollectInv

(* What was read stays read, and so do the declarations.                   *)
LEMMA ReadOnce ==
  ASSUME source' = source, typedef_names' = typedef_names, variables \subseteq variables'
  PROVE  /\ Declarations' = Declarations /\ Names' = Names
         /\ \A d : Declared(d)' = Declared(d) /\ Covered(d)' = Covered(d)
         /\ \A d : Read(d) => Read(d)'
<1>1. Declarations' = Declarations
  BY DEF Declarations, DeclaredIn
<1>2. \A d : Declared(d)' = Declared(d)
  BY DEF Declared
<1>3. Names' = Names
  BY <1>1 DEF Names, Declared
<1>4. \A d : Covered(d)' = Covered(d)
  BY <1>1 DEF Covered, Declared
<1>5. ASSUME NEW d, Read(d)
      PROVE  Read(d)'
  <2>1. Covered(d) => Covered(d)'
    BY <1>4
  <2>2. Declared(d) \in variables \cup {<<>>} => (Declared(d) \in variables \cup {<<>>})'
    BY DEF Declared
  <2> QED
    BY <1>5, <2>1, <2>2 DEF Read
<1> QED
  BY <1>1, <1>2, <1>3, <1>4, <1>5

(* The turns of the loop, in which a name is read.                         *)
LEMMA CollectReads == TypeInv /\ CollectInv /\ Collect => CollectInv'
<1> SUFFICES ASSUME TypeInv, CollectInv, Collect
             PROVE  CollectInv'
  OBVIOUS
<1> DEFINE type == list[k]
           p    == Min(Hits)
           e    == [line |-> i, type |-> type, at |-> p, name |-> p + Len(type) + 1]
<1>1. /\ pc = "collect" /\ Searching /\ Hits # {} /\ IsVarType(data[i], type, p)
      /\ ReadVariableName(p + Len(type) + 1)
      /\ variables' = variables \cup ({buffer'} \ {<<>>})
      /\ UNCHANGED <<written, source, typedef_names, data, pc, list, i, k>>
  BY DEF Collect
<1>2. /\ data = source
      /\ buffer \in {<<>>} \cup Names
      /\ variables \subseteq typedef_names \cup Names
      /\ \A d \in Declarations, j \in DOMAIN list :
           list[j] = d.type /\ Behind(d, j) => Read(d)
  BY <1>1 DEF CollectInv
<1>3. /\ i \in 1..Len(source) /\ k \in DOMAIN list /\ data[i] \in Line /\ type \in Line
      /\ Len(type) \in Nat /\ p \in Nat /\ p >= 1 /\ find \in Nat /\ p >= find
      /\ p \in Occurrences(type, data[i]) /\ \A x \in Hits : p <= x
  BY <1>1, SearchTypes, DeclarationNumbers
<1>4. e \in Declarations
  <2>1. type \in Types /\ i \in DOMAIN source
    BY <1>1, <1>3 DEF TypeInv, ListInv, FileInv, File, Range
  <2> HIDE DEF type, p
  <2> QED
    BY <1>1, <1>2, <1>3, <2>1, DeclarationAt
<1>5. e.line = i /\ e.type = type /\ e.at = p /\ e.name = p + Len(type) + 1
  OBVIOUS
<1> DEFINE q == p + Len(type) + 1
           word == WordAt(data[i], q)
<1>6. Declared(e) = word
  BY <1>2, <1>5 DEF Declared
<1>7. q \in Nat \ {0}
  BY <1>3
<1>8. /\ word \in Word /\ Len(word) \in Nat
      /\ q > Len(data[i]) => word = <<>>
      /\ At(data[i], q) = Close => word = <<>>
  <2> HIDE DEF q
  <2> QED
    BY <1>3, <1>7, NameRead
<1>9. \/ find' = q /\ buffer' = buffer /\ word = <<>>
      \/ find' = q + Len(word) /\ buffer' = word
  <2>1. Len(data[i]) \in Nat
    BY <1>3 DEF Line
  <2>2. ReadVariableName(q)
    BY <1>1
  <2> HIDE DEF q
  <2>3. q > Len(data[i]) + 1 => q > Len(data[i])
    BY <1>7, <2>1
  <2> QED
    BY <1>8, <2>2, <2>3 DEF ReadVariableName
<1> HIDE DEF e, p, type, word, q
<1>10. find' \in Nat /\ find' <= q + Len(word)
  BY <1>7, <1>8, <1>9
<1>11. variables \subseteq variables' /\ word \in variables' \cup {<<>>}
  BY <1>1, <1>9
<1>12. /\ Declarations' = Declarations /\ Names' = Names
       /\ \A d : Declared(d)' = Declared(d) /\ Covered(d)' = Covered(d)
       /\ \A d : Read(d) => Read(d)'
  BY <1>1, <1>11, ReadOnce
<1>13. word \in Names
  BY <1>4, <1>6 DEF Names
<1>14. buffer' \in {<<>>} \cup Names /\ variables' \subseteq typedef_names \cup Names
  BY <1>1, <1>2, <1>9, <1>13
<1>15. ASSUME NEW d \in Declarations, NEW j \in DOMAIN list, list[j] = d.type, Behind(d, j)'
       PROVE  Read(d)'
  <2>1. \/ Behind(d, j)
        \/ d.line = i /\ j = k /\ d.at < find' /\ ~ (d.at < find)
    BY <1>1, <1>15 DEF Behind
  <2>2. CASE Behind(d, j)
    BY <1>2, <1>12, <1>15, <2>2
  <2>3. CASE d.line = i /\ j = k /\ d.at < find' /\ ~ (d.at < find)
    <3>1. /\ d.at \in Occurrences(type, data[i]) /\ d.at \in Nat /\ d.name = d.at + Len(type) + 1
          /\ d = [line |-> d.line, type |-> d.type, at |-> d.at, name |-> d.name]
          /\ d.type = type
      BY <1>2, <1>15, <2>3, DeclarationPlaces, DeclarationNumbers DEF type
    <3>2. d.at \in Hits
      <4>1. d.at >= find
        BY <1>3, <2>3, <3>1
      <4> QED
        BY <3>1, <4>1 DEF Hits, type
    <3>3. p <= d.at
      BY <1>3, <3>2
    <3>4. CASE d.at = p
      <4>1. d = e
        BY <2>3, <3>1, <3>4 DEF e
      <4>2. Declared(d)' = word
        BY <1>6, <1>12, <4>1
      <4>3. (Declared(d) \in variables \cup {<<>>})'
        BY <1>11, <4>2
      <4> QED
        BY <4>3 DEF Read
    <3>5. CASE d.at # p
      <4>1. p < d.at /\ d.at < q + Len(word)
        <5> DEFINE n == Len(word)
        <5>1. find' <= q + n /\ n \in Nat
          BY <1>8, <1>10
        <5> HIDE DEF n
        <5>2. d.at < q + n
          BY <1>7, <1>10, <2>3, <3>1, <5>1
        <5>3. p < d.at
          BY <1>3, <3>1, <3>3, <3>5
        <5> QED
          BY <5>2, <5>3 DEF n
      <4>2. e.line = d.line /\ e.type = d.type /\ e.at < d.at /\ d.at < e.name + Len(Declared(e))
        BY <1>5, <1>6, <2>3, <3>1, <4>1 DEF q
      <4>3. Covered(d)
        BY <1>4, <4>2 DEF Covered
      <4> QED
        BY <1>12, <4>3 DEF Read
    <3> QED
      BY <3>4, <3>5
  <2> QED
    BY <2>1, <2>2, <2>3
<1>16. data' = source' /\ list' = list /\ typedef_names' = typedef_names
  BY <1>1, <1>2
<1> QED
  BY <1>12, <1>14, <1>15, <1>16 DEF CollectInv

LEMMA CollectPasses ==
  TypeInv /\ CollectInv /\ pc = "collect" /\ (PassType \/ NextSearch \/ NextLine) => CollectInv'
<1> SUFFICES ASSUME TypeInv, CollectInv, pc = "collect", PassType \/ NextSearch \/ NextLine
             PROVE  CollectInv'
  OBVIOUS
<1>1. UNCHANGED <<written, source, typedef_names, data, variables, pc, list, buffer>>
  BY DEF PassType, NextSearch, NextLine
<1>2. /\ data = source
      /\ buffer \in {<<>>} \cup Names
      /\ variables \subseteq typedef_names \cup Names
      /\ \A d \in Declarations, j \in DOMAIN list :
           list[j] = d.type /\ Behind(d, j) => Read(d)
  BY DEF CollectInv
<1>3. Declarations' = Declarations /\ Names' = Names /\ \A d : Read(d) => Read(d)'
  BY <1>1, ReadOnce
<1>4. ASSUME NEW d \in Declarations, NEW j \in DOMAIN list, list[j] = d.type, Behind(d, j)'
      PROVE  Behind(d, j)
  <2>1. /\ find \in Nat /\ i \in Nat /\ k \in Nat /\ d.line \in Nat /\ d.at \in Nat /\ d.at >= 1
        /\ j \in Nat /\ 1 <= j /\ j <= Len(list) /\ Len(list) \in Nat
    BY DeclarationNumbers DEF TypeInv, ListInv
  <2>2. d.at \in Occurrences(d.type, source[d.line])
        /\ IsVarType(source[d.line], d.type, d.at)
    BY DeclarationPlaces
  <2>3. j = k /\ d.line = i /\ ~ (d.at < find) => d.at \in Hits
    <3> SUFFICES ASSUME j = k, d.line = i, ~ (d.at < find)
                 PROVE  d.at \in Hits
      OBVIOUS
    <3>1. d.at >= find
      BY <2>1
    <3> QED
      BY <1>2, <1>4, <2>2, <3>1 DEF Hits
  <2>4. CASE PassType
    <3>1. /\ Searching /\ Hits # {} /\ ~ IsVarType(data[i], list[k], Min(Hits))
          /\ find' = Min(Hits) + 1 /\ i' = i /\ k' = k
      BY <2>4 DEF PassType
    <3> DEFINE p == Min(Hits)
    <3>2. p \in Nat /\ \A x \in Hits : p <= x
      BY <3>1, SearchTypes
    <3>3. j = k /\ d.line = i => d.at # p
      BY <1>2, <1>4, <2>2, <3>1
    <3>4. find' = p + 1
      BY <3>1
    <3> HIDE DEF p
    <3>5. ~ (j = k /\ d.line = i /\ ~ (d.at < find) /\ d.at < find')
      <4> SUFFICES ASSUME j = k, d.line = i, ~ (d.at < find), d.at < find'
                   PROVE  FALSE
        OBVIOUS
      <4>1. p <= d.at /\ d.at # p
        BY <2>3, <3>2, <3>3
      <4> QED
        BY <2>1, <3>2, <3>4, <4>1
    <3> QED
      BY <1>4, <3>1, <3>5 DEF Behind
  <2>5. CASE NextSearch
    <3>1. Hits = {} /\ i' = i /\ k' = k + 1 /\ find' = 1
      BY <2>5 DEF NextSearch, First
    <3>2. ~ (d.at < find') /\ (j < k' => j < k \/ j = k)
      BY <2>1, <3>1
    <3> QED
      BY <1>4, <2>3, <3>1, <3>2 DEF Behind
  <2>6. CASE NextLine
    <3>1. k > Len(list) /\ i' = i + 1 /\ k' = 1 /\ find' = 1
      BY <2>6 DEF NextLine, First
    <3>2. ~ (d.at < find') /\ ~ (j < k') /\ j < k /\ (d.line < i' => d.line < i \/ d.line = i)
      BY <2>1, <3>1
    <3> QED
      BY <1>4, <3>2 DEF Behind
  <2> QED
    BY <2>4, <2>5, <2>6
<1>5. ASSUME NEW d \in Declarations, NEW j \in DOMAIN list, list[j] = d.type, Behind(d, j)'
      PROVE  Read(d)'
  BY <1>2, <1>3, <1>4, <1>5
<1> QED
  BY <1>1, <1>2, <1>3, <1>5 DEF CollectInv

(* At the end of the last line every place is behind the search.           *)
LEMMA CollectedAll ==
  TypeInv /\ CollectInv /\ StartRemoving => CollectsTheDeclared'
<1> SUFFICES ASSUME TypeInv, CollectInv, StartRemoving
             PROVE  CollectsTheDeclared'
  OBVIOUS
<1>1. /\ pc = "collect" /\ i > Len(data)
      /\ UNCHANGED <<source, typedef_names, data, variables>>
  BY DEF StartRemoving
<1>2. /\ variables \subseteq typedef_names \cup Names
      /\ \A d \in Declarations, j \in DOMAIN list :
           list[j] = d.type /\ Behind(d, j) => Read(d)
  BY <1>1 DEF CollectInv
<1>3. ASSUME NEW d \in Declarations
      PROVE  Read(d)
  <2>1. d.type \in Types /\ d.line \in 1..Len(source)
    BY DeclarationPlaces
  <2>2. PICK j \in DOMAIN list : list[j] = d.type
    BY <1>1, <2>1 DEF TypeInv, ListInv, Range
  <2>3. d.line < i
    BY <1>1, <2>1, DeclarationNumbers DEF TypeInv, FileInv
  <2> QED
    BY <1>2, <2>2, <2>3 DEF Behind
<1>4. CollectsTheDeclared'
  <2>1. (variables \subseteq typedef_names \cup Names)'
    BY <1>1, <1>2, ReadOnce
  <2>2. Declarations' = Declarations /\ \A d : Read(d) => Read(d)'
    BY <1>1, ReadOnce
  <2>3. (\A d \in Declarations : Read(d))'
    BY <1>3, <2>2
  <2> QED
    BY <2>1, <2>3 DEF CollectsTheDeclared, Names, Read
<1> QED
  BY <1>4

LEMMA CollectStep ==
  TypeInv /\ CollectInv /\ CollectsTheDeclared /\ [Next]_vars
    => CollectInv' /\ CollectsTheDeclared'
<1> SUFFICES ASSUME TypeInv, CollectInv, CollectsTheDeclared, [Next]_vars
             PROVE  CollectInv' /\ CollectsTheDeclared'
  OBVIOUS
<1>1. CASE pc = "collect" /\ (Collect \/ PassType \/ NextSearch \/ NextLine)
  <2>1. pc' = "collect"
    BY <1>1 DEF Collect, PassType, NextSearch, NextLine
  <2> QED
    BY <1>1, <2>1, CollectReads, CollectPasses DEF CollectsTheDeclared
<1>2. CASE StartRemoving
  BY <1>2, CollectedAll DEF StartRemoving, CollectInv
<1>3. CASE \/ pc = "remove" /\ (Search \/ NextSearch \/ NextLine)
           \/ Finish
  <2>1. pc' # "collect" /\ (pc' = "remove" => pc = "remove")
        /\ UNCHANGED <<source, typedef_names, variables>>
    BY <1>3 DEF Search, NextSearch, NextLine, Finish
  <2>2. CollectInv'
    BY <2>1 DEF CollectInv
  <2>3. CollectsTheDeclared'
    BY <2>1 DEF CollectsTheDeclared, Declarations, DeclaredIn, Declared, Covered
  <2> QED
    BY <2>2, <2>3
<1>4. CASE UNCHANGED vars
  <2>1. UNCHANGED <<source, typedef_names, variables, data, pc, list, i, k, find, buffer>>
    BY <1>4 DEF vars
  <2>2. CollectsTheDeclared'
    BY <2>1 DEF CollectsTheDeclared, Declarations, DeclaredIn, Declared, Covered
  <2>3. CollectInv'
    <3>1. Declarations' = Declarations /\ Names' = Names /\ \A d : Read(d) => Read(d)'
      BY <2>1, ReadOnce
    <3>2. \A d, j : Behind(d, j)' <=> Behind(d, j)
      BY <2>1 DEF Behind
    <3> QED
      BY <2>1, <3>1, <3>2 DEF CollectInv
  <2> QED
    BY <2>2, <2>3
<1>5. pc \in {"collect", "remove", "done"}
  BY DEF TypeInv
<1> QED
  BY <1>1, <1>2, <1>3, <1>4, <1>5 DEF Next, Collect, PassType, Search, NextSearch, NextLine

(***************************************************************************)
(* For every file, and whatever the types are: what is collected are the   *)
(* names of the typedefs and the words behind the types, and none of those *)
(* is missed but at a place that another declaration covers.               *)
(***************************************************************************)
THEOREM CollectsDeclared == Spec => []CollectsTheDeclared
<1>1. Init => TypeInv /\ CollectInv /\ CollectsTheDeclared
  <2>1. Init => CollectsTheDeclared
    BY DEF Init, CollectsTheDeclared
  <2> QED
    BY <2>1, TypeInit, CollectInit
<1>2. Spec => [](TypeInv /\ CollectInv /\ CollectsTheDeclared)
  BY <1>1, TypeStep, CollectStep, PTL DEF Spec
<1> QED
  BY <1>2, PTL

------------------------------------------------------------------------------
(***************************************************************************)
(* What is left of a line when some of its words are gone.  The places     *)
(* beside a word that is gone are kept, and what stands there is in no     *)
(* word: so what is read as one word was one before.                       *)
(***************************************************************************)
LEMMA OutsidePlaces ==
  ASSUME NEW l \in Line, NEW G \in SUBSET Words(l)
  PROVE  /\ Len(l) \in Nat /\ Outside(l, G) \in SUBSET (1..Len(l))
         /\ \A p \in 1..Len(l) : p \notin Outside(l, G) => \E w \in G : p \in w.from..w.to
         /\ \A p \in Outside(l, G), w \in G : p \notin w.from..w.to
         /\ \A p \in 1..Len(l) : l[p] \notin WordChar => p \in Outside(l, G)
<1>1. Len(l) \in Nat /\ DOMAIN l = 1..Len(l)
  BY DEF Line
<1>2. \A p \in 1..Len(l) : p \notin Outside(l, G) => \E w \in G : p \in w.from..w.to
  BY <1>1 DEF Outside
<1>3. \A p \in Outside(l, G), w \in G : p \notin w.from..w.to
  BY DEF Outside
<1>4. \A w \in G : \A p \in w.from..w.to : l[p] \in WordChar
  BY WordPlaces
<1> QED
  BY <1>1, <1>2, <1>3, <1>4 DEF Outside

LEMMA NextKept ==
  ASSUME NEW l \in Line, NEW G \in SUBSET Words(l), NEW K, K = Outside(l, G),
         NEW p \in K, p + 1 <= Len(l), p + 1 \notin K
  PROVE  l[p] \notin WordChar /\ \E w \in G : w.from = p + 1
<1>1. Len(l) \in Nat /\ K \in SUBSET (1..Len(l)) /\ p \in 1..Len(l)
  BY OutsidePlaces
<1>2. p + 1 \in 1..Len(l)
  BY <1>1
<1>3. PICK w \in G : p + 1 \in w.from..w.to
  BY <1>2, OutsidePlaces
<1>4. /\ p \notin w.from..w.to /\ w.from \in 1..Len(l) /\ w.to \in 1..Len(l)
      /\ w.from > 1 => l[w.from - 1] \notin WordChar
  BY OutsidePlaces, WordPlaces
<1>5. w.from = p + 1
  BY <1>1, <1>3, <1>4
<1>6. w.from > 1 /\ w.from - 1 = p
  BY <1>1, <1>5
<1> QED
  BY <1>4, <1>5, <1>6

LEMMA PreviousKept ==
  ASSUME NEW l \in Line, NEW G \in SUBSET Words(l), NEW K, K = Outside(l, G),
         NEW p \in K, p > 1, p - 1 \notin K
  PROVE  l[p] \notin WordChar
<1>1. Len(l) \in Nat /\ K \in SUBSET (1..Len(l)) /\ p \in 1..Len(l)
  BY OutsidePlaces
<1>2. p - 1 \in 1..Len(l)
  BY <1>1
<1>3. PICK w \in G : p - 1 \in w.from..w.to
  BY <1>2, OutsidePlaces
<1>4. /\ p \notin w.from..w.to /\ w.from \in 1..Len(l) /\ w.to \in 1..Len(l)
      /\ w.to < Len(l) => l[w.to + 1] \notin WordChar
  BY OutsidePlaces, WordPlaces
<1>5. w.to = p - 1
  BY <1>1, <1>3, <1>4
<1>6. w.to < Len(l) /\ w.to + 1 = p
  BY <1>1, <1>5
<1> QED
  BY <1>4, <1>6

(* What is left of a line is a line, and each of its characters is from a  *)
(* place that is kept.                                                     *)
LEMMA LeftOfLine ==
  ASSUME NEW l \in Line, NEW K \in SUBSET (1..Len(l))
  PROVE  /\ Cardinality(K) \in Nat /\ AtPlaces(l, K) \in Seq(STRING)
         /\ Len(AtPlaces(l, K)) = Cardinality(K)
         /\ \A x \in 1..Cardinality(K) : Place(K, x) \in K /\ Rank(K, Place(K, x)) = x
                                         /\ AtPlaces(l, K)[x] = l[Place(K, x)]
         /\ \A x, y \in 1..Cardinality(K) : x < y => Place(K, x) < Place(K, y)
         /\ \A q \in K : Rank(K, q) \in 1..Cardinality(K) /\ Place(K, Rank(K, q)) = q
<1>1. l \in Seq(STRING)
  BY DEF Line
<1>2. PICK m \in Seq(STRING) : m = l
  BY <1>1
<1>3. PICK J \in SUBSET (1..Len(m)) : J = K
  BY <1>2
<1>4. /\ AtPlaces(m, J) \in Seq(STRING)
      /\ Len(AtPlaces(m, J)) = Cardinality(J) /\ Cardinality(J) \in 0..Len(m)
      /\ \A r \in 1..Cardinality(J) :
           AtPlaces(m, J)[r] = m[Place(J, r)] /\ Place(J, r) \in J /\ Rank(J, Place(J, r)) = r
      /\ \A r, s \in 1..Cardinality(J) : r < s => Place(J, r) < Place(J, s)
      /\ \A p \in J : Rank(J, p) \in 1..Cardinality(J) /\ Place(J, Rank(J, p)) = p
  BY Excerpt
<1>5. Cardinality(J) \in Nat
  BY <1>4
<1> QED
  BY <1>2, <1>3, <1>4, <1>5

(* Places that follow each other have ranks that do, and the other way.    *)
LEMMA RankNext ==
  ASSUME NEW l \in Line, NEW K \in SUBSET (1..Len(l)), NEW p \in K, p + 1 \in K
  PROVE  Rank(K, p + 1) = Rank(K, p) + 1
<1> DEFINE c == Cardinality(K)
           r == Rank(K, p)
           s == Rank(K, p + 1)
<1>1. l \in Seq(STRING) /\ Len(l) \in Nat
  BY DEF Line
<1>2. /\ c \in Nat /\ p \in Nat
      /\ r \in 1..c /\ Place(K, r) = p /\ s \in 1..c /\ Place(K, s) = p + 1
      /\ \A x \in 1..c : Place(K, x) \in K
      /\ \A x, y \in 1..c : x < y => Place(K, x) < Place(K, y)
  BY <1>1, LeftOfLine
<1> HIDE DEF c, r, s
<1>3. \A x \in 1..c : Place(K, x) \in Nat
  <2>1. \A x \in K : x \in Nat
    OBVIOUS
  <2> QED
    BY <1>2, <2>1
<1>4. r < s
  <2>1. ~ (s < r) /\ r # s
    BY <1>2
  <2> QED
    BY <1>2, <2>1
<1>5. ~ (r + 1 < s)
  <2> SUFFICES ASSUME r + 1 < s
               PROVE  FALSE
    OBVIOUS
  <2>1. r + 1 \in 1..c /\ r < r + 1
    BY <1>2
  <2>2. p < Place(K, r + 1) /\ Place(K, r + 1) < p + 1 /\ Place(K, r + 1) \in Nat
    BY <1>2, <1>3, <2>1
  <2> QED
    BY <1>2, <2>2
<1>6. s = r + 1
  BY <1>2, <1>4, <1>5
<1> QED
  BY <1>6 DEF r, s

LEMMA RanksFollow ==
  ASSUME NEW l \in Line, NEW K \in SUBSET (1..Len(l)), NEW p \in Nat, NEW n \in Nat,
         \A j \in 0..n : p + j \in K
  PROVE  \A j \in 0..n : Rank(K, p + j) = Rank(K, p) + j /\ Place(K, Rank(K, p) + j) = p + j
<1> DEFINE T == {j \in Nat : j <= n => Rank(K, p + j) = Rank(K, p) + j}
<1>1. l \in Seq(STRING) /\ Len(l) \in Nat
  BY DEF Line
<1>2. \A q \in K : Rank(K, q) \in Nat /\ Place(K, Rank(K, q)) = q
  <2>1. \A q \in K : Rank(K, q) \in 1..Cardinality(K) /\ Place(K, Rank(K, q)) = q
    BY <1>1, LeftOfLine
  <2> QED
    BY <2>1
<1>3. p \in K /\ Rank(K, p) \in Nat /\ p + 0 = p
  <2>1. 0 \in 0..n /\ p + 0 = p
    OBVIOUS
  <2>2. p + 0 \in K
    BY <2>1
  <2> QED
    BY <1>2, <2>1, <2>2
<1>4. 0 \in T
  <2>1. Rank(K, p + 0) = Rank(K, p) + 0
    BY <1>3
  <2> QED
    BY <2>1
<1>5. ASSUME NEW j \in T
      PROVE  j + 1 \in T
  <2>1. j \in Nat /\ (j <= n => Rank(K, p + j) = Rank(K, p) + j)
    OBVIOUS
  <2>2. j + 1 <= n => Rank(K, p + (j + 1)) = Rank(K, p) + (j + 1)
    <3> SUFFICES ASSUME j + 1 <= n
                 PROVE  Rank(K, p + (j + 1)) = Rank(K, p) + (j + 1)
      OBVIOUS
    <3>1. j \in 0..n /\ j + 1 \in 0..n /\ p + (j + 1) = (p + j) + 1
      BY <2>1
    <3>2. p + j \in K /\ (p + j) + 1 \in K
      BY <3>1
    <3>3. PICK q \in K : q = p + j
      BY <3>2
    <3>4. Rank(K, q + 1) = Rank(K, q) + 1
      BY <3>2, <3>3, RankNext
    <3> QED
      BY <1>3, <2>1, <3>1, <3>3, <3>4
  <2> QED
    BY <2>1, <2>2
<1>6. T = Nat
  <2> HIDE DEF T
  <2>1. T \in SUBSET Nat
    BY DEF T
  <2> QED
    BY <1>4, <1>5, <2>1, SetInduction
<1>7. ASSUME NEW j \in 0..n
      PROVE  Rank(K, p + j) = Rank(K, p) + j /\ Place(K, Rank(K, p) + j) = p + j
  <2>1. Rank(K, p + j) = Rank(K, p) + j
    BY <1>6
  <2>2. p + j \in K
    OBVIOUS
  <2> QED
    BY <1>2, <2>1, <2>2
<1> QED
  BY <1>7

LEMMA PlacesFollow ==
  ASSUME NEW l \in Line, NEW G \in SUBSET Words(l), NEW K, K = Outside(l, G),
         NEW r \in Nat, NEW n \in Nat, 1 <= r, r + n <= Cardinality(K),
         \A j \in 0..n : AtPlaces(l, K)[r + j] \in WordChar
  PROVE  \A j \in 0..n : Place(K, r + j) = Place(K, r) + j /\ Place(K, r) + j \in K
<1> DEFINE c == Cardinality(K)
           P == Place(K, r)
           T == {j \in Nat : j <= n => Place(K, r + j) = P + j}
<1>1. l \in Seq(STRING) /\ Len(l) \in Nat /\ K \in SUBSET (1..Len(l))
  BY OutsidePlaces DEF Line
<1>2. /\ c \in Nat
      /\ \A x \in 1..c : Place(K, x) \in K /\ AtPlaces(l, K)[x] = l[Place(K, x)]
                         /\ Rank(K, Place(K, x)) = x
      /\ \A x, y \in 1..c : x < y => Place(K, x) < Place(K, y)
      /\ \A q \in K : Place(K, Rank(K, q)) = q
  BY <1>1, LeftOfLine
<1> HIDE DEF c
<1>3. \A j \in 0..n : r + j \in 1..c
  BY <1>2 DEF c
<1>4. \A q \in K : q \in Nat /\ q >= 1 /\ q <= Len(l)
  BY <1>1
<1>5. P \in K /\ P \in Nat
  <2>1. r + 0 = r /\ 0 \in 0..n
    OBVIOUS
  <2> QED
    BY <1>2, <1>3, <1>4, <2>1
<1> HIDE DEF P
<1>6. 0 \in T
  <2>1. Place(K, r + 0) = P + 0
    BY <1>5 DEF P
  <2> QED
    BY <2>1
<1>7. ASSUME NEW j \in T
      PROVE  j + 1 \in T
  <2>1. j \in Nat /\ (j <= n => Place(K, r + j) = P + j)
    OBVIOUS
  <2>2. j + 1 <= n => Place(K, r + (j + 1)) = P + (j + 1)
    <3> SUFFICES ASSUME j + 1 <= n
                 PROVE  Place(K, r + (j + 1)) = P + (j + 1)
      OBVIOUS
    <3>1. j \in 0..n /\ j + 1 \in 0..n /\ r + (j + 1) = (r + j) + 1
      BY <2>1
    <3> DEFINE x == r + j
               q == P + j
    <3>2. x \in 1..c /\ x + 1 \in 1..c /\ x < x + 1
      BY <1>3, <2>1, <3>1
    <3>3. q \in Nat /\ P + (j + 1) = q + 1 /\ Place(K, x) = q
      BY <1>5, <2>1, <3>1
    <3>4. AtPlaces(l, K)[x] \in WordChar
      BY <3>1
    <3> HIDE DEF x, q
    <3>5. q \in K /\ l[q] \in WordChar /\ Rank(K, q) = x
      BY <1>2, <3>2, <3>3, <3>4
    <3>6. q < Place(K, x + 1) /\ Place(K, x + 1) \in K
      BY <1>2, <3>2, <3>3
    <3>7. q + 1 <= Len(l)
      <4>1. PICK y \in K : y = Place(K, x + 1)
        BY <3>6
      <4>2. q < y /\ y \in Nat /\ y <= Len(l)
        BY <1>4, <3>6, <4>1
      <4> QED
        BY <1>1, <3>3, <4>2
    <3>8. q + 1 \in K
      BY <3>5, <3>7, NextKept
    <3>9. Rank(K, q + 1) = x + 1
      BY <1>1, <3>5, <3>8, RankNext
    <3>10. Place(K, x + 1) = q + 1
      BY <1>2, <3>8, <3>9
    <3> QED
      BY <3>1, <3>3, <3>10 DEF x
  <2> QED
    BY <2>1, <2>2
<1>8. T = Nat
  <2> HIDE DEF T
  <2>1. T \in SUBSET Nat
    BY DEF T
  <2> QED
    BY <1>6, <1>7, <2>1, SetInduction
<1>9. ASSUME NEW j \in 0..n
      PROVE  Place(K, r + j) = P + j /\ P + j \in K
  <2>1. Place(K, r + j) = P + j
    BY <1>8
  <2>2. r + j \in 1..c
    BY <1>3
  <2> QED
    BY <1>2, <2>1, <2>2
<1> QED
  BY <1>9 DEF P

(* The characters beside one of a word are those it has in the whole line. *)
LEMMA Neighbours ==
  ASSUME NEW l \in Line, NEW G \in SUBSET Words(l), NEW K, K = Outside(l, G),
         NEW p \in K, l[p] \in WordChar
  PROVE  /\ p \in Nat /\ Rank(K, p) \in Nat /\ (p > 1 <=> Rank(K, p) > 1)
         /\ p > 1 => AtPlaces(l, K)[Rank(K, p) - 1] = l[p - 1]
         /\ At(AtPlaces(l, K), Rank(K, p) + 1) = At(l, p + 1)
<1> DEFINE c == Cardinality(K)
           m == AtPlaces(l, K)
           r == Rank(K, p)
<1>1. l \in Seq(STRING) /\ Len(l) \in Nat /\ K \in SUBSET (1..Len(l)) /\ DOMAIN l = 1..Len(l)
  BY OutsidePlaces DEF Line
<1>2. /\ c \in Nat /\ m \in Seq(STRING) /\ Len(m) = c
      /\ \A x \in 1..c : Place(K, x) \in K /\ m[x] = l[Place(K, x)]
      /\ \A x, y \in 1..c : x < y => Place(K, x) < Place(K, y)
      /\ \A q \in K : Rank(K, q) \in 1..c /\ Place(K, Rank(K, q)) = q
  BY <1>1, LeftOfLine
<1>3. DOMAIN m = 1..c
  BY <1>2
<1>4. \A q \in K : q \in Nat /\ q >= 1 /\ q <= Len(l)
  BY <1>1
<1> HIDE DEF c, m
<1>5. r \in 1..c /\ Place(K, r) = p /\ p \in Nat /\ p >= 1 /\ p <= Len(l)
  BY <1>2, <1>4
<1>6. ASSUME p > 1
      PROVE  r > 1 /\ m[r - 1] = l[p - 1]
  <2>1. p - 1 \in K
    BY <1>6, PreviousKept
  <2>2. PICK q \in K : q = p - 1
    BY <2>1
  <2>3. q + 1 = p
    BY <1>5, <2>2
  <2>4. Rank(K, q + 1) = Rank(K, q) + 1
    BY <1>1, <2>3, RankNext
  <2>5. Rank(K, q) \in 1..c /\ Place(K, Rank(K, q)) = q
    BY <1>2
  <2> DEFINE x == Rank(K, q)
  <2>6. r = x + 1 /\ x \in 1..c /\ Place(K, x) = q
    BY <2>3, <2>4, <2>5
  <2> HIDE DEF x, r
  <2>7. r > 1 /\ r - 1 = x
    BY <1>2, <2>6
  <2> QED
    BY <1>2, <2>2, <2>6, <2>7
<1>7. ASSUME r > 1
      PROVE  p > 1
  <2> HIDE DEF r
  <2>1. r - 1 \in 1..c /\ r - 1 < r
    BY <1>2, <1>5, <1>7
  <2>2. PICK y \in K : y = Place(K, r - 1)
    BY <1>2, <2>1
  <2>3. y < p /\ y \in Nat /\ y >= 1
    BY <1>2, <1>4, <1>5, <2>1, <2>2
  <2> QED
    BY <1>5, <2>3
<1>8. At(m, r + 1) = At(l, p + 1)
  <2>1. CASE p + 1 \in K
    <3>1. Rank(K, p + 1) = r + 1
      BY <1>1, <2>1, RankNext
    <3>2. r + 1 \in 1..c /\ Place(K, r + 1) = p + 1
      BY <1>2, <2>1, <3>1
    <3>3. p + 1 \in 1..Len(l)
      BY <1>1, <2>1
    <3> QED
      BY <1>1, <1>2, <1>3, <3>2, <3>3 DEF At
  <2>2. CASE p + 1 \notin K
    <3>1. ~ (p + 1 <= Len(l))
      BY <2>2, NextKept
    <3>2. r + 1 \notin 1..c
      <4> SUFFICES ASSUME r + 1 \in 1..c
                   PROVE  FALSE
        OBVIOUS
      <4> HIDE DEF r
      <4>1. r < r + 1
        BY <1>2, <1>5
      <4>2. PICK y \in K : y = Place(K, r + 1)
        BY <1>2
      <4>3. p < y /\ y \in Nat /\ y <= Len(l)
        BY <1>2, <1>4, <1>5, <4>1, <4>2
      <4> QED
        BY <1>1, <1>5, <3>1, <4>3
    <3>3. p + 1 \notin 1..Len(l)
      BY <1>1, <3>1
    <3> QED
      BY <1>1, <1>3, <3>2, <3>3 DEF At
  <2> QED
    BY <2>1, <2>2
<1> HIDE DEF r
<1>9. r \in Nat /\ (p > 1 <=> r > 1)
  BY <1>2, <1>5, <1>6, <1>7
<1> QED
  BY <1>5, <1>6, <1>8, <1>9 DEF m, r

(* Names that are words have characters of words only.                     *)
LEMMA NameLength ==
  ASSUME NEW name \in Word
  PROVE  /\ Len(name) \in Nat /\ (name # <<>> => Len(name) > 0)
         /\ \A j \in 1..Len(name) : name[j] \in WordChar
<1>1. name \in Seq(WordChar)
  BY DEF Word
<1> QED
  BY <1>1

(* Parts of lines that agree are one.                                      *)
LEMMA SamePart ==
  ASSUME NEW l \in Line, NEW m \in Line, NEW a \in Nat, NEW b \in Nat, NEW n \in Nat,
         1 <= a, 1 <= b, a + n <= Len(l) + 1, b + n <= Len(m) + 1,
         \A j \in 0..(n - 1) : l[a + j] = m[b + j]
  PROVE  SubSeq(l, a, (a + n) - 1) = SubSeq(m, b, (b + n) - 1)
<1> DEFINE s == SubSeq(l, a, (a + n) - 1)
           t == SubSeq(m, b, (b + n) - 1)
<1>1. l \in Seq(STRING) /\ m \in Seq(STRING) /\ Len(l) \in Nat /\ Len(m) \in Nat
  BY DEF Line
<1>2. s \in Seq(STRING) /\ Len(s) = n /\ \A x \in 1..n : s[x] = l[(a + x) - 1]
  BY <1>1
<1>3. t \in Seq(STRING) /\ Len(t) = n /\ \A x \in 1..n : t[x] = m[(b + x) - 1]
  BY <1>1
<1>4. \A x \in 1..n : l[(a + x) - 1] = m[(b + x) - 1]
  <2> SUFFICES ASSUME NEW x \in 1..n
               PROVE  l[(a + x) - 1] = m[(b + x) - 1]
    OBVIOUS
  <2>1. x - 1 \in 0..(n - 1) /\ (a + x) - 1 = a + (x - 1) /\ (b + x) - 1 = b + (x - 1)
    OBVIOUS
  <2> QED
    BY <2>1
<1>5. \A u \in Seq(STRING) : u = [x \in 1..Len(u) |-> u[x]]
  OBVIOUS
<1> HIDE DEF s, t
<1>6. \A x \in 1..n : s[x] = t[x]
  BY <1>2, <1>3, <1>4
<1>7. s = [x \in 1..n |-> s[x]] /\ t = [x \in 1..n |-> t[x]]
  BY <1>2, <1>3, <1>5
<1>8. s = t
  BY <1>6, <1>7
<1> QED
  BY <1>8 DEF s, t

(* What occurs in the rest of a line did so in the line.                   *)
LEMMA OccurrenceKept ==
  ASSUME NEW l \in Line, NEW G \in SUBSET Words(l), NEW K, K = Outside(l, G),
         NEW name \in Word, name # <<>>, NEW r \in Occurrences(name, AtPlaces(l, K))
  PROVE  /\ r \in 1..Cardinality(K) /\ r + Len(name) <= Cardinality(K) + 1
         /\ Place(K, r) \in K /\ Place(K, r) \in Nat /\ Rank(K, Place(K, r)) = r
         /\ \A j \in 0..(Len(name) - 1) : Place(K, r + j) = Place(K, r) + j
                                          /\ Place(K, r) + j \in K
         /\ Place(K, r) \in Occurrences(name, l)
         /\ (r > 1 <=> Place(K, r) > 1)
         /\ r > 1 => (IsVariable(AtPlaces(l, K), name, r) <=> IsVariable(l, name, Place(K, r)))
<1> DEFINE c == Cardinality(K)
           m == AtPlaces(l, K)
           P == Place(K, r)
           n == Len(name)
<1>1. l \in Seq(STRING) /\ Len(l) \in Nat /\ K \in SUBSET (1..Len(l))
  BY OutsidePlaces DEF Line
<1>2. /\ c \in Nat /\ m \in Seq(STRING) /\ Len(m) = c
      /\ \A x \in 1..c : Place(K, x) \in K /\ m[x] = l[Place(K, x)] /\ Rank(K, Place(K, x)) = x
  BY <1>1, LeftOfLine
<1>3. n \in Nat /\ n > 0 /\ \A j \in 1..n : name[j] \in WordChar
  BY NameLength
<1>4. name \in Line /\ m \in Line
  BY <1>2, WordIsLine DEF Line
<1>5. r \in Nat /\ 1 <= r /\ r + n <= c + 1 /\ SubSeq(m, r, (r + n) - 1) = name
  <2>1. /\ Occurrences(name, m) \in SUBSET Nat
        /\ \A x \in Occurrences(name, m) :
             1 <= x /\ x + Len(name) <= Len(m) + 1 /\ SubSeq(m, x, x + Len(name) - 1) = name
    <3> HIDE DEF m
    <3> QED
      BY <1>4, OccurrencePlaces
  <2> HIDE DEF m, c
  <2>2. r \in Nat /\ 1 <= r /\ r + n <= c + 1 /\ SubSeq(m, r, r + n - 1) = name
    BY <1>2, <2>1 DEF m
  <2> QED
    BY <1>3, <2>2
<1>6. \A j \in 0..(n - 1) : m[r + j] = name[j + 1] /\ m[r + j] \in WordChar
  <2> SUFFICES ASSUME NEW j \in 0..(n - 1)
               PROVE  m[r + j] = name[j + 1] /\ m[r + j] \in WordChar
    OBVIOUS
  <2> HIDE DEF m, c, n
  <2>1. j + 1 \in 1..n /\ (r + (j + 1)) - 1 = r + j
    BY <1>3, <1>5
  <2>2. \A x \in 1..n : SubSeq(m, r, (r + n) - 1)[x] = m[(r + x) - 1]
    BY <1>2, <1>3, <1>5
  <2>3. name[j + 1] = m[r + j]
    BY <1>5, <2>1, <2>2
  <2> QED
    BY <1>3, <2>1, <2>3
<1> HIDE DEF c, n
<1>7. \A j \in 0..(n - 1) : Place(K, r + j) = P + j /\ P + j \in K
  <2>1. PICK x \in Nat : x = n - 1
    BY <1>3
  <2>2. r + x <= Cardinality(K)
    BY <1>2, <1>3, <1>5, <2>1 DEF c
  <2>3. \A j \in 0..x : AtPlaces(l, K)[r + j] \in WordChar
    BY <1>6, <2>1
  <2> QED
    BY <1>5, <2>1, <2>2, <2>3, PlacesFollow
<1>8. r \in 1..c
  BY <1>2, <1>3, <1>5
<1> HIDE DEF P, m
<1>9. P \in K /\ P \in Nat /\ P >= 1 /\ P <= Len(l) /\ Rank(K, P) = r /\ m[r] = l[P]
  <2>1. P \in K /\ Rank(K, P) = r /\ m[r] = l[P]
    BY <1>2, <1>8 DEF P
  <2> QED
    BY <1>1, <2>1
<1>10. P + n <= Len(l) + 1
  <2>1. n - 1 \in 0..(n - 1)
    BY <1>3
  <2>2. P + (n - 1) \in K
    BY <1>7, <2>1
  <2>3. P + (n - 1) <= Len(l)
    BY <1>1, <2>2
  <2> QED
    BY <1>1, <1>3, <1>9, <2>3
<1>11. \A j \in 0..(n - 1) : m[r + j] = l[P + j]
  <2> SUFFICES ASSUME NEW j \in 0..(n - 1)
               PROVE  m[r + j] = l[P + j]
    OBVIOUS
  <2>1. r + j \in 1..c
    BY <1>2, <1>3, <1>5
  <2> QED
    BY <1>2, <1>7, <2>1
<1>12. P \in Occurrences(name, l)
  <2>1. SubSeq(l, P, (P + n) - 1) = name
    <3>1. SubSeq(m, r, (r + n) - 1) = SubSeq(l, P, (P + n) - 1)
      <4>1. 1 <= P /\ r + n <= Len(m) + 1
        BY <1>2, <1>5, <1>9
      <4>2. r \in Nat /\ 1 <= r /\ P \in Nat /\ n \in Nat /\ l \in Line /\ m \in Line
        BY <1>3, <1>4, <1>5, <1>9
      <4> QED
        BY <1>10, <1>11, <4>1, <4>2, SamePart
    <3> QED
      BY <1>5, <3>1
  <2>2. (P + n) - 1 = P + n - 1 /\ 1 <= P
    BY <1>3, <1>9
  <2> QED
    BY <1>4, <1>9, <1>10, <2>1, <2>2, OccurrenceIn DEF n
<1>13. (r > 1 <=> P > 1) /\ (P > 1 => m[r - 1] = l[P - 1])
  <2>1. l[P] \in WordChar
    <3>1. 0 \in 0..(n - 1) /\ r + 0 = r
      BY <1>3, <1>5
    <3> QED
      BY <1>6, <1>9, <3>1
  <2> QED
    BY <1>9, <2>1, Neighbours DEF m
<1>14. At(m, r + n) = At(l, P + n)
  <2> DEFINE q == P + (n - 1)
  <2>1. n - 1 \in 0..(n - 1) /\ r + (n - 1) \in 1..c
    BY <1>2, <1>3, <1>5
  <2>2. q \in K /\ Place(K, r + (n - 1)) = q /\ m[r + (n - 1)] = l[q]
        /\ m[r + (n - 1)] \in WordChar
    BY <1>6, <1>7, <1>11, <2>1
  <2>3. q + 1 = P + n /\ (r + (n - 1)) + 1 = r + n
    BY <1>3, <1>5, <1>9
  <2> HIDE DEF q
  <2>4. Rank(K, q) = r + (n - 1)
    BY <1>2, <2>1, <2>2
  <2>5. At(m, Rank(K, q) + 1) = At(l, q + 1)
    BY <2>2, Neighbours DEF m
  <2> QED
    BY <2>3, <2>4, <2>5
<1>15. r > 1 => (IsVariable(m, name, r) <=> IsVariable(l, name, P))
  BY <1>13, <1>14 DEF IsVariable, n
<1> QED
  BY <1>5, <1>7, <1>8, <1>9, <1>12, <1>13, <1>15 DEF c, m, P, n

(* A word that is not gone is found, by the rules of the search.           *)
LEMMA StandingWord ==
  ASSUME NEW l \in Line, NEW G \in SUBSET Words(l), NEW K, K = Outside(l, G),
         NEW w \in Words(l), w \notin G, w.from > 1
  PROVE  /\ w.from \in K /\ Rank(K, w.from) \in Nat /\ Rank(K, w.from) > 1
         /\ Rank(K, w.from) \in Occurrences(Text(l, w), AtPlaces(l, K))
         /\ IsVariable(AtPlaces(l, K), Text(l, w), Rank(K, w.from))
<1> DEFINE c == Cardinality(K)
           m == AtPlaces(l, K)
           a == w.from
           r == Rank(K, a)
           n == (w.to - w.from) + 1
           name == Text(l, w)
<1>1. l \in Seq(STRING) /\ Len(l) \in Nat /\ K \in SUBSET (1..Len(l)) /\ DOMAIN l = 1..Len(l)
  BY OutsidePlaces DEF Line
<1>2. /\ c \in Nat /\ m \in Seq(STRING) /\ Len(m) = c
      /\ \A x \in 1..c : Place(K, x) \in K /\ m[x] = l[Place(K, x)]
      /\ \A q \in K : Rank(K, q) \in 1..c /\ Place(K, Rank(K, q)) = q
  BY <1>1, LeftOfLine
<1>3. /\ a \in Nat /\ a > 1 /\ w.to \in Nat /\ a <= w.to /\ w.to <= Len(l)
      /\ \A q \in a..w.to : l[q] \in WordChar
      /\ l[a - 1] \notin WordChar
      /\ w.to < Len(l) => l[w.to + 1] \notin WordChar
  <2>1. /\ w.from \in 1..Len(l) /\ w.to \in 1..Len(l) /\ w.from <= w.to
        /\ \A q \in w.from..w.to : l[q] \in WordChar
        /\ w.from > 1 => l[w.from - 1] \notin WordChar
        /\ w.to < Len(l) => l[w.to + 1] \notin WordChar
    BY WordPlaces
  <2> QED
    BY <1>1, <2>1
<1>4. \A q \in a..w.to : q \in K
  <2> SUFFICES ASSUME NEW q \in a..w.to, q \notin K
               PROVE  FALSE
    OBVIOUS
  <2>1. q \in 1..Len(l)
    BY <1>1, <1>3
  <2>2. PICK v \in G : q \in v.from..v.to
    BY <2>1, OutsidePlaces
  <2>3. v = w
    BY <2>2, WordsApart
  <2> QED
    BY <2>3
<1> HIDE DEF c, m, a, name
<1>5. n \in Nat /\ n >= 1 /\ (a + n) - 1 = w.to
  <2>1. PICK x \in Nat, y \in Nat : x = a /\ y = w.to
    BY <1>3
  <2>2. n = (y - x) + 1 /\ x <= y
    BY <1>3, <2>1 DEF a
  <2> HIDE DEF n
  <2> QED
    BY <2>1, <2>2
<1>6. name = SubSeq(l, a, (a + n) - 1) /\ name \in Seq(STRING) /\ Len(name) = n
  <2>1. name = SubSeq(l, a, w.to)
    BY DEF name, Text, a
  <2> HIDE DEF n
  <2>2. SubSeq(l, a, w.to) \in Seq(STRING) /\ Len(SubSeq(l, a, w.to)) = (w.to - a) + 1
    BY <1>1, <1>3
  <2> QED
    BY <1>5, <2>1, <2>2 DEF n, a
<1> HIDE DEF n
<1>7. a \in K /\ r \in 1..c
  <2>1. a \in a..w.to
    BY <1>3
  <2> QED
    BY <1>2, <1>4, <2>1
<1> HIDE DEF r
<1>8. \A j \in 0..(n - 1) : Rank(K, a + j) = r + j /\ a + j \in K /\ r + j \in 1..c
                            /\ m[r + j] = l[a + j]
  <2>1. PICK x \in Nat : x = n - 1
    BY <1>5
  <2>2. \A j \in 0..x : a + j \in K
    BY <1>3, <1>4, <1>5, <2>1
  <2>3. \A j \in 0..x : Rank(K, a + j) = r + j
    <3>1. a \in Nat
      BY <1>3
    <3>2. \A j \in 0..x : Rank(K, a + j) = Rank(K, a) + j
      <4>1. PICK y \in Nat : y = a
        BY <3>1
      <4>2. \A j \in 0..x : y + j \in K
        BY <2>2, <4>1
      <4>3. PICK J \in SUBSET (1..Len(l)) : J = K
        BY <1>1
      <4>4. \A j \in 0..x : y + j \in J
        BY <4>2, <4>3
      <4>5. \A j \in 0..x : Rank(J, y + j) = Rank(J, y) + j /\ Place(J, Rank(J, y) + j) = y + j
        BY <4>4, RanksFollow
      <4> QED
        BY <4>1, <4>3, <4>5
    <3> QED
      BY <3>2 DEF r
  <2>4. ASSUME NEW j \in 0..x
        PROVE  r + j \in 1..c /\ m[r + j] = l[a + j]
    <3>1. PICK q \in K : q = a + j
      BY <2>2
    <3>2. Rank(K, q) = r + j
      BY <2>3, <3>1
    <3> QED
      BY <1>2, <3>1, <3>2
  <2> QED
    BY <2>1, <2>2, <2>3, <2>4
<1>9. r + n <= c + 1 /\ r \in Nat
  <2>1. n - 1 \in 0..(n - 1)
    BY <1>5
  <2>2. r + (n - 1) \in 1..c
    BY <1>8, <2>1
  <2> QED
    BY <1>2, <1>5, <1>7, <2>2
<1>10. name \in Line /\ m \in Line
  BY <1>2, <1>6 DEF Line
<1>11. r \in Occurrences(name, m)
  <2>1. SubSeq(m, r, (r + n) - 1) = SubSeq(l, a, (a + n) - 1)
    <3>1. 1 <= a /\ 1 <= r /\ a + n <= Len(l) + 1
      BY <1>1, <1>3, <1>5, <1>7
    <3>2. a \in Nat /\ r + n <= Len(m) + 1 /\ \A j \in 0..(n - 1) : m[r + j] = l[a + j]
      BY <1>2, <1>3, <1>8, <1>9
    <3> QED
      BY <1>5, <1>9, <1>10, <3>1, <3>2, SamePart
  <2>2. (r + n) - 1 = r + n - 1 /\ 1 <= r
    BY <1>5, <1>7, <1>9
  <2> QED
    BY <1>2, <1>6, <1>9, <1>10, <2>1, <2>2, OccurrenceIn
<1>12. r > 1 /\ m[r - 1] = l[a - 1]
  <2>1. l[a] \in WordChar
    BY <1>3
  <2> QED
    BY <1>3, <1>7, <2>1, Neighbours DEF m, r
<1>13. At(m, r + n) = At(l, w.to + 1)
  <2> DEFINE q == a + (n - 1)
  <2>1. n - 1 \in 0..(n - 1) /\ q = w.to /\ (r + (n - 1)) + 1 = r + n
    BY <1>3, <1>5, <1>9
  <2>2. q \in K /\ Rank(K, q) = r + (n - 1)
    BY <1>8, <2>1
  <2>3. l[q] \in WordChar
    BY <1>3, <2>1
  <2> HIDE DEF q
  <2>4. At(m, Rank(K, q) + 1) = At(l, q + 1)
    BY <2>2, <2>3, Neighbours DEF m
  <2> QED
    BY <2>1, <2>2, <2>4
<1>14. IsEndOfVar(At(l, w.to + 1))
  <2>1. CASE w.to < Len(l)
    <3>1. w.to + 1 \in DOMAIN l
      BY <1>1, <1>3, <2>1
    <3> QED
      BY <1>3, <2>1, <3>1 DEF At, IsEndOfVar
  <2>2. CASE ~ (w.to < Len(l))
    <3>1. w.to + 1 \notin DOMAIN l
      BY <1>1, <1>3, <2>2
    <3> QED
      BY <3>1, CharTypes DEF At, IsEndOfVar
  <2> QED
    BY <2>1, <2>2
<1>15. IsStartOfVar(l[a - 1])
  BY <1>3 DEF IsStartOfVar, WordChar
<1>16. IsVariable(m, name, r)
  BY <1>6, <1>12, <1>13, <1>14, <1>15 DEF IsVariable
<1> QED
  BY <1>7, <1>9, <1>11, <1>12, <1>16 DEF m, r, a, name

(* An occurrence with no character of a word beside is a word.             *)
LEMMA OccurringWord ==
  ASSUME NEW l \in Line, NEW name \in Word, name # <<>>, NEW p \in Occurrences(name, l),
         p > 1, IsVariable(l, name, p), l[p - 1] \notin Joints
  PROVE  \E w \in Words(l) : w.from = p /\ w.to = p + (Len(name) - 1) /\ Text(l, w) = name
<1> DEFINE n == Len(name)
           w == [from |-> p, to |-> p + (n - 1)]
<1>1. Len(l) \in Nat /\ DOMAIN l = 1..Len(l) /\ l \in Seq(STRING) /\ name \in Line
  BY WordIsLine DEF Line
<1>2. n \in Nat /\ n > 0 /\ \A j \in 1..n : name[j] \in WordChar
  BY NameLength
<1>3. p \in Nat /\ p + n <= Len(l) + 1 /\ SubSeq(l, p, p + n - 1) = name
  BY <1>1, OccurrencePlaces
<1> HIDE DEF n
<1>4. p + n - 1 = p + (n - 1) /\ p + (n - 1) \in Nat /\ p <= p + (n - 1) /\ p + (n - 1) <= Len(l)
      /\ p + (n - 1) + 1 = p + n
  BY <1>1, <1>2, <1>3
<1>5. \A q \in p..(p + (n - 1)) : l[q] \in WordChar
  <2> SUFFICES ASSUME NEW q \in p..(p + (n - 1))
               PROVE  l[q] \in WordChar
    OBVIOUS
  <2>1. (q - p) + 1 \in 1..n /\ (p + ((q - p) + 1)) - 1 = q
    BY <1>2, <1>3
  <2>2. \A j \in 1..n : SubSeq(l, p, p + (n - 1))[j] = l[(p + j) - 1]
    BY <1>1, <1>2, <1>3, <1>4
  <2>3. name[(q - p) + 1] = l[q]
    BY <1>3, <1>4, <2>1, <2>2
  <2> QED
    BY <1>2, <2>1, <2>3
<1>6. l[p - 1] \notin WordChar
  BY DEF IsVariable, IsStartOfVar, WordChar
<1>7. p + (n - 1) < Len(l) => l[p + (n - 1) + 1] \notin WordChar
  <2>1. IsEndOfVar(At(l, p + n))
    BY DEF IsVariable, n
  <2>2. p + (n - 1) < Len(l) => p + n \in DOMAIN l
    BY <1>1, <1>2, <1>3, <1>4
  <2> QED
    BY <1>4, <2>1, <2>2 DEF At, IsEndOfVar
<1>8. w.from = p /\ w.to = p + (n - 1) /\ w \in [from : DOMAIN l, to : DOMAIN l]
  <2>1. p \in DOMAIN l /\ p + (n - 1) \in DOMAIN l
    BY <1>1, <1>3, <1>4
  <2> QED
    BY <2>1
<1> HIDE DEF w
<1>9. w \in Words(l)
  BY <1>4, <1>5, <1>6, <1>7, <1>8 DEF Words
<1>10. Text(l, w) = name
  BY <1>3, <1>4, <1>8 DEF Text
<1> QED
  BY <1>8, <1>9, <1>10 DEF n

(* A stretch that is erased from what is left of a line.                   *)
LEMMA ErasedPlaces ==
  ASSUME NEW l \in Line, NEW K \in SUBSET (1..Len(l)), NEW p \in Nat, NEW n \in Nat,
         1 <= p, n > 0, p + n <= Cardinality(K) + 1,
         \A j \in 0..(n - 1) : Place(K, p + j) = Place(K, p) + j
  PROVE  Erase(AtPlaces(l, K), p, n)
           = AtPlaces(l, K \ (Place(K, p)..(Place(K, p) + (n - 1))))
<1> DEFINE c == Cardinality(K)
           m == AtPlaces(l, K)
           P == Place(K, p)
           S == K \ (P..(P + (n - 1)))
           from(r) == IF r < p THEN r ELSE r + n
           e == [r \in 1..(c - n) |-> Place(K, from(r))]
<1>1. l \in Seq(STRING) /\ Len(l) \in Nat
  BY DEF Line
<1>2. /\ c \in Nat /\ m \in Seq(STRING) /\ Len(m) = c
      /\ \A x \in 1..c : Place(K, x) \in K /\ m[x] = l[Place(K, x)]
      /\ \A x, y \in 1..c : x < y => Place(K, x) < Place(K, y)
      /\ \A q \in K : Rank(K, q) \in 1..c /\ Place(K, Rank(K, q)) = q
  BY LeftOfLine
<1>3. \A q \in K : q \in Nat
  BY <1>1
<1> HIDE DEF c, m
<1>4. p + n <= c + 1 /\ c - n \in Nat /\ c \in Nat
  BY <1>2 DEF c
<1>5. \A r \in 1..(c - n) : from(r) \in 1..c
  BY <1>2, <1>4
<1>6. \A r, s \in 1..(c - n) : r < s => from(r) < from(s)
  BY <1>2, <1>4
<1>7. P \in Nat /\ P \in K
  <2>1. p \in 1..c
    BY <1>2, <1>4
  <2> QED
    BY <1>2, <1>3, <2>1
<1> HIDE DEF P
<1>8. Place(K, p) = P /\ Place(K, p + (n - 1)) = P + (n - 1) /\ p + (n - 1) \in 1..c
      /\ p \in 1..c
  <2>1. n - 1 \in 0..(n - 1)
    OBVIOUS
  <2>2. Place(K, p + (n - 1)) = P + (n - 1)
    BY <2>1 DEF P
  <2>3. p + (n - 1) \in 1..c /\ p \in 1..c
    BY <1>2, <1>4
  <2> QED
    BY <2>2, <2>3 DEF P
<1>9. ASSUME NEW r \in 1..(c - n)
      PROVE  Place(K, from(r)) \in S
  <2> DEFINE x == from(r)
             q == Place(K, x)
             z == p + (n - 1)
  <2>1. x \in 1..c /\ (x < p \/ z < x)
    <3>1. x \in 1..c
      BY <1>5
    <3>2. r \in Nat /\ (x < p \/ z < x)
      BY <1>4
    <3> QED
      BY <3>1, <3>2
  <2> HIDE DEF x, z
  <2>2. q \in K /\ (x < p => q < P) /\ (z < x => P + (n - 1) < q)
    BY <1>2, <1>8, <2>1 DEF z
  <2> HIDE DEF q
  <2>3. q \notin P..(P + (n - 1))
    BY <1>3, <1>7, <2>1, <2>2
  <2>4. q \in S
    BY <2>2, <2>3
  <2> QED
    BY <2>4 DEF q, x
<1>10. ASSUME NEW q \in S
       PROVE  \E r \in 1..(c - n) : Place(K, from(r)) = q
  <2> DEFINE x == Rank(K, q)
  <2>1. q \in K /\ q \notin P..(P + (n - 1)) /\ q \in Nat
    BY <1>3
  <2>2. x \in 1..c /\ Place(K, x) = q
    BY <1>2, <2>1
  <2> HIDE DEF x
  <2>3. x < p \/ x >= p + n
    <3> SUFFICES ASSUME ~ (x < p), ~ (x >= p + n)
                 PROVE  FALSE
      OBVIOUS
    <3>1. PICK j \in 0..(n - 1) : x = p + j
      <4>1. x - p \in 0..(n - 1) /\ x = p + (x - p)
        BY <2>2
      <4> QED
        BY <4>1
    <3>2. q = P + j
      BY <2>2, <3>1 DEF P
    <3> QED
      BY <1>7, <2>1, <3>2
  <2>4. CASE x < p
    <3>1. x \in 1..(c - n) /\ from(x) = x
      BY <1>4, <2>2, <2>4
    <3> QED
      BY <2>2, <3>1
  <2>5. CASE x >= p + n
    <3>1. x - n \in 1..(c - n) /\ from(x - n) = x
      BY <1>2, <1>4, <2>2, <2>5
    <3> QED
      BY <2>2, <3>1
  <2> QED
    BY <2>3, <2>4, <2>5
<1> HIDE DEF from
<1>11. e \in [1..(c - n) -> S] /\ \A r \in 1..(c - n) : e[r] = Place(K, from(r))
  BY <1>9
<1>12. \A r, s \in 1..(c - n) : r < s => e[r] < e[s]
  BY <1>2, <1>5, <1>6, <1>11
<1>13. \A q \in S : \E r \in 1..(c - n) : e[r] = q
  BY <1>10, <1>11
<1>14. S \in SUBSET Nat
  BY <1>3
<1> HIDE DEF e, S
<1>15. PICK d \in Nat : d = c - n
  BY <1>4
<1>16. Enumerates(e, d, S)
  BY <1>11, <1>12, <1>13, <1>15 DEF Enumerates
<1>17. Cardinality(S) = d /\ \A r \in 1..d : Place(S, r) = e[r]
  BY <1>14, <1>16, EnumeratedOnce
<1>18. /\ Erase(m, p, n) \in Line /\ Len(Erase(m, p, n)) = d
       /\ \A r \in 1..d : Erase(m, p, n)[r] = IF r < p THEN m[r] ELSE m[r + n]
  <2>1. m \in Line /\ p + n <= Len(m) + 1 /\ d = Len(m) - n
    BY <1>2, <1>4, <1>15 DEF Line
  <2> QED
    BY <2>1, Erased
<1>19. \A r \in 1..d : Erase(m, p, n)[r] = l[Place(S, r)]
  <2> SUFFICES ASSUME NEW r \in 1..d
               PROVE  Erase(m, p, n)[r] = l[Place(S, r)]
    OBVIOUS
  <2>1. Place(S, r) = Place(K, from(r)) /\ from(r) \in 1..c
    BY <1>5, <1>11, <1>15, <1>17
  <2>2. Erase(m, p, n)[r] = m[from(r)]
    BY <1>18 DEF from
  <2> QED
    BY <1>2, <2>1, <2>2
<1>20. Erase(m, p, n) = [r \in 1..d |-> Erase(m, p, n)[r]]
  <2> DEFINE u == Erase(m, p, n)
  <2>1. u \in Seq(STRING) /\ Len(u) = d
    BY <1>18 DEF Line
  <2> HIDE DEF u
  <2>2. u = [r \in 1..d |-> u[r]]
    BY <2>1
  <2> QED
    BY <2>2 DEF u
<1>21. AtPlaces(l, S) = [r \in 1..d |-> l[Place(S, r)]]
  BY <1>17 DEF AtPlaces
<1>22. Erase(m, p, n) = AtPlaces(l, S)
  BY <1>19, <1>20, <1>21
<1> QED
  BY <1>22 DEF m, S, P

(* The words behind one that is erased stay behind its place.              *)
LEMMA RankBehind ==
  ASSUME NEW l \in Line, NEW G \in SUBSET Words(l), NEW K, K = Outside(l, G),
         NEW w \in Words(l), w \notin G, w.from > 1, NEW L, L = Outside(l, G \cup {w}),
         NEW v \in Words(l), v \notin G, v # w, v.from > w.from
  PROVE  Rank(L, v.from) >= Rank(K, w.from) + 1 /\ Rank(L, v.from) \in Nat
<1>1. l \in Seq(STRING) /\ Len(l) \in Nat /\ K \in SUBSET (1..Len(l)) /\ L \in SUBSET (1..Len(l))
  <2>1. G \cup {w} \in SUBSET Words(l)
    OBVIOUS
  <2> QED
    BY <2>1, OutsidePlaces DEF Line
<1>2. /\ w.from \in 1..Len(l) /\ w.from <= w.to /\ w.to \in 1..Len(l) /\ v.from \in 1..Len(l)
      /\ l[w.from - 1] \notin WordChar /\ (v.from > 1 => l[v.from - 1] \notin WordChar)
  BY WordPlaces
<1> DEFINE a == w.from - 1
           b == v.from - 1
<1>3. a \in 1..Len(l) /\ b \in 1..Len(l) /\ a < b /\ b < v.from /\ v.from > 1 /\ a + 1 = w.from
  BY <1>1, <1>2
<1>4. w.from \in K /\ v.from \in L
  <2>1. G \cup {w} \in SUBSET Words(l) /\ v \notin G \cup {w} /\ v.from > 1
    BY <1>3
  <2> QED
    BY <2>1, StandingWord
<1>5. a \in K /\ a \in L /\ b \in L
  <2>1. l[a] \notin WordChar /\ l[b] \notin WordChar
    BY <1>2, <1>3
  <2>2. G \cup {w} \in SUBSET Words(l)
    OBVIOUS
  <2> HIDE DEF a, b
  <2> QED
    BY <1>3, <2>1, <2>2, OutsidePlaces
<1>6. {q \in L : q <= a} = {q \in K : q <= a}
  <2>1. \A q \in 1..Len(l) : q <= a => q \notin w.from..w.to
    BY <1>1, <1>2
  <2>2. \A q \in 1..Len(l) : q <= a => (q \in L <=> q \in K)
    BY <2>1 DEF Outside
  <2> HIDE DEF a
  <2> QED
    BY <1>1, <2>2
<1>7. Rank(L, a) = Rank(K, a)
  BY <1>6 DEF Rank
<1>8. Rank(K, w.from) = Rank(K, a) + 1
  <2> HIDE DEF a
  <2>1. PICK q \in K : q = a
    BY <1>5
  <2>2. q + 1 = w.from
    BY <1>3, <2>1
  <2> QED
    BY <1>1, <1>4, <2>1, <2>2, RankNext
<1>9. /\ Rank(L, a) \in Nat /\ Rank(L, b) \in Nat /\ Rank(L, v.from) \in Nat
      /\ Rank(L, a) < Rank(L, b) /\ Rank(L, b) < Rank(L, v.from)
  <2>1. L \in SUBSET Nat /\ IsFiniteSet(L)
    <3>1. IsFiniteSet(1..Len(l))
      BY <1>1, FS_Interval
    <3>2. IsFiniteSet(L)
      BY <1>1, <3>1, FS_Subset
    <3>3. 1..Len(l) \in SUBSET Nat
      OBVIOUS
    <3> QED
      BY <1>1, <3>2, <3>3
  <2>2. \A x \in L : x \in Nat
    BY <2>1
  <2> HIDE DEF a, b
  <2> QED
    BY <1>3, <1>4, <1>5, <2>1, <2>2, Ranks
<1> HIDE DEF a, b
<1> QED
  BY <1>7, <1>8, <1>9

------------------------------------------------------------------------------
(***************************************************************************)
(* While variables are removed, the lines behind the search are skeletons, *)
(* those before it are as they were, and in the line it is at some of the  *)
(* removable words are gone: all with a name that was looked for, and all  *)
(* with the name that is looked for that begin before the search.          *)
(***************************************************************************)
Gone(G) ==
  /\ G \subseteq Removable(source[i], variables)
  /\ data[i] = AtPlaces(source[i], Outside(source[i], G))
  /\ \A w \in Removable(source[i], variables) \ G :
       /\ \A j \in DOMAIN list : list[j] = Text(source[i], w) => j >= k
       /\ k \in DOMAIN list /\ list[k] = Text(source[i], w)
            => Rank(Outside(source[i], G), w.from) >= find

RemoveInv ==
  pc # "collect" /\ Untangled =>
    /\ \A n \in 1..Len(source) : n < i => data[n] = Skeleton(source[n], variables)
    /\ \A n \in 1..Len(source) : n > i => data[n] = source[n]
    /\ pc = "remove" /\ i <= Len(source) => \E G : Gone(G)
    /\ pc = "done" => i > Len(source)

(* A line from which nothing is gone.                                      *)
LEMMA NothingGone ==
  ASSUME NEW l \in Line
  PROVE  /\ AtPlaces(l, Outside(l, {})) = l
         /\ \A names : Removable(l, names) \in SUBSET Words(l)
         /\ \A names : \A w \in Removable(l, names) :
              /\ w.from > 1 /\ Text(l, w) \in names /\ Text(l, w) # <<>>
              /\ \A G \in SUBSET Words(l) :
                   w \notin G => Rank(Outside(l, G), w.from) \in Nat
                                 /\ Rank(Outside(l, G), w.from) >= 2
<1>1. l \in Seq(STRING) /\ Outside(l, {}) = 1..Len(l)
  BY DEF Line, Outside
<1>2. AtPlaces(l, Outside(l, {})) = l
  BY <1>1, AllIsExcerpt
<1>3. \A names : Removable(l, names) \in SUBSET Words(l)
  BY DEF Removable
<1>4. ASSUME NEW names, NEW w \in Removable(l, names)
      PROVE  /\ w.from > 1 /\ Text(l, w) \in names /\ Text(l, w) # <<>>
             /\ \A G \in SUBSET Words(l) :
                  w \notin G => Rank(Outside(l, G), w.from) \in Nat
                                /\ Rank(Outside(l, G), w.from) >= 2
  <2>1. w \in Words(l) /\ w.from > 1 /\ Text(l, w) \in names
    BY DEF Removable
  <2>2. Text(l, w) # <<>>
    <3>1. PICK a \in Nat, b \in Nat : a = w.from /\ b = w.to /\ a >= 1 /\ a <= b /\ b <= Len(l)
      <4>1. /\ Len(l) \in Nat /\ w.from \in 1..Len(l) /\ w.to \in 1..Len(l) /\ w.from <= w.to
        BY <2>1, WordPlaces
      <4> QED
        BY <4>1
    <3>2. Len(SubSeq(l, a, b)) = (b - a) + 1 /\ (b - a) + 1 # 0
      BY <1>1, <3>1
    <3>3. Len(<<>>) = 0
      OBVIOUS
    <3>4. Text(l, w) = SubSeq(l, a, b)
      BY <3>1 DEF Text
    <3> QED
      BY <3>2, <3>3, <3>4
  <2>3. ASSUME NEW G \in SUBSET Words(l), w \notin G
        PROVE  Rank(Outside(l, G), w.from) \in Nat /\ Rank(Outside(l, G), w.from) >= 2
    <3>1. Rank(Outside(l, G), w.from) \in Nat /\ Rank(Outside(l, G), w.from) > 1
      BY <2>1, <2>3, StandingWord
    <3> QED
      BY <3>1
  <2> QED
    BY <2>1, <2>2, <2>3
<1> QED
  BY <1>2, <1>3, <1>4

LEMMA RemoveFacts ==
  ASSUME TypeInv
  PROVE  /\ Len(source) \in Nat /\ Len(data) = Len(source) /\ i \in Nat /\ i >= 1
         /\ k \in Nat /\ k >= 1 /\ Len(list) \in Nat /\ DOMAIN list = 1..Len(list)
         /\ find \in Nat
         /\ \A n \in 1..Len(source) : source[n] \in Line /\ data[n] \in Line
         /\ DOMAIN source = 1..Len(source) /\ DOMAIN data = 1..Len(source)
BY DEF TypeInv, FileInv, ListInv, File

(* A search that begins a line.                                            *)
LEMMA LineBegins ==
  ASSUME TypeInv, i <= Len(source), data[i] = source[i], k = 1, find = 2
  PROVE  \E G : Gone(G)
<1>1. source[i] \in Line /\ DOMAIN list \in SUBSET Nat /\ \A j \in DOMAIN list : j >= 1
  <2>1. i \in 1..Len(source)
    BY RemoveFacts
  <2> QED
    BY <2>1, RemoveFacts
<1>2. \A w \in Removable(source[i], variables) : Rank(Outside(source[i], {}), w.from) >= 2
  <2>1. {} \in SUBSET Words(source[i])
    OBVIOUS
  <2>2. \A w : w \notin {}
    OBVIOUS
  <2> QED
    BY <1>1, <2>1, <2>2, NothingGone
<1>3. data[i] = AtPlaces(source[i], Outside(source[i], {}))
  BY <1>1, NothingGone
<1>4. Gone({})
  BY <1>1, <1>2, <1>3 DEF Gone
<1> QED
  BY <1>4

(* A line that is left when every name was looked for.                     *)
LEMMA LineEnds ==
  ASSUME TypeInv, pc = "remove", i <= Len(source), k > Len(list), NEW G, Gone(G)
  PROVE  data[i] = Skeleton(source[i], variables)
<1> DEFINE R == Removable(source[i], variables)
<1>1. source[i] \in Line
  <2>1. i \in 1..Len(source)
    BY RemoveFacts
  <2> QED
    BY <2>1, RemoveFacts
<1>2. G = R
  <2>1. SUFFICES ASSUME NEW w \in R \ G
                 PROVE  FALSE
    BY DEF Gone
  <2>2. Text(source[i], w) \in variables
    BY <1>1, NothingGone
  <2>3. PICK j \in DOMAIN list : list[j] = Text(source[i], w)
    BY <2>2 DEF TypeInv, ListInv, Range
  <2>4. j >= k
    BY <2>3 DEF Gone
  <2> QED
    BY <2>4, RemoveFacts
<1> QED
  BY <1>2 DEF Gone, Skeleton

(* One occurrence is looked at, and a word is erased or all are kept.      *)
LEMMA LineSearched ==
  ASSUME TypeInv, Untangled, Search, NEW G, Gone(G)
  PROVE  \E H : Gone(H)'
<1> DEFINE l == source[i]
           R == Removable(l, variables)
           K == Outside(l, G)
           m == data[i]
           name == list[k]
           p == Min(Hits)
<1>1. /\ pc = "remove" /\ Searching /\ Hits # {}
      /\ data' = IF IsVariable(m, name, p)
                 THEN [data EXCEPT ![i] = Erase(m, p, Len(name))]
                 ELSE data
      /\ find' = p + 1
      /\ UNCHANGED <<written, source, typedef_names, variables, pc, list, i, k>>
  BY DEF Search
<1>2. /\ i \in 1..Len(source) /\ k \in DOMAIN list /\ m \in Line /\ name \in Line
      /\ p \in Hits /\ p \in Nat /\ \A x \in Hits : p <= x
      /\ p >= find /\ 1 <= p /\ p \in Occurrences(name, m)
      /\ p + Len(name) <= Len(m) + 1 /\ Len(m) \in Nat /\ Len(name) \in Nat
  BY <1>1, SearchTypes
<1>3. p > 1 /\ find \in Nat
  <2>1. find >= 2 /\ find \in Nat
    BY <1>1 DEF TypeInv
  <2> HIDE DEF p
  <2> QED
    BY <1>2, <2>1
<1>4. l \in Line /\ i \in DOMAIN data /\ i \in DOMAIN source
  BY <1>2, RemoveFacts
<1>5. name \in variables /\ name \in Word
  <2>1. name \in variables
    BY <1>1, <1>2 DEF TypeInv, ListInv, Range
  <2> QED
    BY <2>1 DEF TypeInv, NamesInv
<1> DEFINE Found(w) == Rank(K, w.from) \in Nat /\ Rank(K, w.from) >= p
                       /\ (Rank(K, w.from) = p => IsVariable(m, name, p))
<1> HIDE DEF p, l, m, name
<1>6. /\ G \subseteq R /\ m = AtPlaces(l, K)
      /\ \A w \in R \ G :
           /\ \A j \in DOMAIN list : list[j] = Text(l, w) => j >= k
           /\ name = Text(l, w) => Rank(K, w.from) >= find
  BY <1>2 DEF Gone, l, m, name
<1>7. G \in SUBSET Words(l) /\ R \in SUBSET Words(l)
      /\ \A w \in R : w.from > 1 /\ Text(l, w) # <<>>
  <2>1. R \in SUBSET Words(l)
    BY DEF Removable
  <2> QED
    BY <1>4, <1>6, <2>1, NothingGone
<1> HIDE DEF R
<1>8. \A w \in R \ G : name = Text(l, w) => Found(w)
  <2> SUFFICES ASSUME NEW w \in R \ G, name = Text(l, w)
               PROVE  Found(w)
    OBVIOUS
  <2> DEFINE r == Rank(K, w.from)
  <2>1. r \in Nat /\ r \in Occurrences(name, m) /\ IsVariable(m, name, r)
    <3>1. w \in Words(l) /\ w \notin G /\ w.from > 1
      BY <1>7
    <3> QED
      BY <1>4, <1>6, <1>7, <3>1, StandingWord
  <2>2. r >= find
    BY <1>6
  <2>3. r \in Hits
    BY <2>1, <2>2 DEF Hits, name, m
  <2> HIDE DEF r
  <2>4. r >= p
    BY <1>2, <2>1, <2>3
  <2> QED
    BY <2>1, <2>4 DEF r
<1> HIDE DEF K, Found
<1>9. CASE ~ IsVariable(m, name, p)
  <2>1. data' = data
    BY <1>1, <1>9 DEF m
  <2>2. \A w \in R \ G : name = Text(l, w) => Rank(K, w.from) >= p + 1
    <3> SUFFICES ASSUME NEW w \in R \ G, name = Text(l, w)
                 PROVE  Rank(K, w.from) >= p + 1
      OBVIOUS
    <3>1. Rank(K, w.from) \in Nat /\ Rank(K, w.from) >= p /\ Rank(K, w.from) # p
      BY <1>8, <1>9 DEF Found
    <3> QED
      BY <1>2, <3>1
  <2>3. Gone(G)'
    BY <1>1, <1>6, <2>1, <2>2 DEF Gone, l, m, name, R, K
  <2> QED
    BY <2>3
<1>10. CASE IsVariable(m, name, p) /\ name = <<>>
  <2>1. data' = data
    <3>1. Len(name) = 0
      BY <1>10
    <3>2. /\ Erase(m, p, 0) \in Line /\ Len(Erase(m, p, 0)) = Len(m) - 0
          /\ \A q \in 1..(Len(m) - 0) : Erase(m, p, 0)[q] = IF q < p THEN m[q] ELSE m[q + 0]
      <4>1. p + 0 <= Len(m) + 1 /\ 0 \in Nat
        BY <1>2, <3>1
      <4> QED
        BY <1>2, <4>1, Erased
    <3>3. Erase(m, p, 0) = m
      <4> DEFINE u == Erase(m, p, 0)
      <4>1. u \in Seq(STRING) /\ m \in Seq(STRING) /\ Len(u) = Len(m)
            /\ \A q \in 1..Len(m) : u[q] = m[q]
        <5>1. Len(m) - 0 = Len(m) /\ \A q \in 1..Len(m) : q + 0 = q
          BY <1>2
        <5> QED
          BY <1>2, <3>2, <5>1 DEF Line
      <4>2. \A s \in Seq(STRING) : s = [q \in 1..Len(s) |-> s[q]]
        OBVIOUS
      <4> HIDE DEF u
      <4>3. u = m
        <5>1. u = [q \in 1..Len(m) |-> u[q]] /\ m = [q \in 1..Len(m) |-> m[q]]
          BY <4>1, <4>2
        <5> QED
          BY <4>1, <5>1
      <4> QED
        BY <4>3 DEF u
    <3>4. data' = [data EXCEPT ![i] = data[i]]
      BY <1>1, <1>10, <3>1, <3>3 DEF m
    <3>5. data = [n \in DOMAIN data |-> data[n]]
      BY DEF TypeInv, FileInv, File
    <3> QED
      BY <1>4, <3>4, <3>5
  <2>2. \A w \in R \ G : name # Text(l, w)
    BY <1>7, <1>10
  <2>3. Gone(G)'
    BY <1>1, <1>6, <2>1, <2>2 DEF Gone, l, m, name, R, K
  <2> QED
    BY <2>3
<1>11. CASE IsVariable(m, name, p) /\ name # <<>>
  <2> DEFINE n == Len(name)
             P == Place(K, p)
  <2>1. /\ p \in 1..Cardinality(K) /\ p + n <= Cardinality(K) + 1
        /\ P \in K /\ P \in Nat /\ Rank(K, P) = p
        /\ \A j \in 0..(n - 1) : Place(K, p + j) = P + j /\ P + j \in K
        /\ P \in Occurrences(name, l) /\ P > 1 /\ IsVariable(l, name, P)
    <3>1. K = Outside(l, G) /\ p \in Occurrences(name, AtPlaces(l, K))
      BY <1>2, <1>6 DEF K
    <3>2. /\ p \in 1..Cardinality(K) /\ p + Len(name) <= Cardinality(K) + 1
          /\ Place(K, p) \in K /\ Place(K, p) \in Nat /\ Rank(K, Place(K, p)) = p
          /\ \A j \in 0..(Len(name) - 1) : Place(K, p + j) = Place(K, p) + j
                                           /\ Place(K, p) + j \in K
          /\ Place(K, p) \in Occurrences(name, l)
          /\ (p > 1 <=> Place(K, p) > 1)
          /\ p > 1 => (IsVariable(AtPlaces(l, K), name, p) <=> IsVariable(l, name, Place(K, p)))
      BY <1>4, <1>5, <1>7, <1>11, <3>1, OccurrenceKept
    <3> QED
      BY <1>3, <1>6, <1>11, <3>2
  <2>2. l[P - 1] \notin Joints
    BY <1>4, <1>5, <1>11, <2>1 DEF Untangled, l
  <2> HIDE DEF P
  <2>3. PICK w \in Words(l) : w.from = P /\ w.to = P + (n - 1) /\ Text(l, w) = name
    BY <1>4, <1>5, <1>11, <2>1, <2>2, OccurringWord
  <2>4. w \in R /\ w \notin G
    <3>1. w \in R
      BY <1>5, <2>1, <2>3 DEF R, Removable
    <3>2. P \in w.from..w.to
      BY <1>4, <2>3, WordPlaces
    <3>3. \A v \in G : P \notin v.from..v.to
      BY <1>4, <1>7, <2>1, OutsidePlaces DEF K
    <3> QED
      BY <3>1, <3>2, <3>3
  <2> DEFINE H == G \cup {w}
             L == Outside(l, H)
  <2>5. L = K \ (P..(P + (n - 1)))
    <3>1. L = K \ (w.from..w.to)
      BY DEF Outside, K
    <3> QED
      BY <2>3, <3>1
  <2>6. Erase(m, p, n) = AtPlaces(l, L)
    <3>1. K \in SUBSET (1..Len(l))
      BY <1>4, <1>7, OutsidePlaces DEF K
    <3>2. n \in Nat /\ n > 0
      BY <1>5, <1>11, NameLength
    <3> HIDE DEF n, L
    <3>3. Erase(AtPlaces(l, K), p, n)
            = AtPlaces(l, K \ (Place(K, p)..(Place(K, p) + (n - 1))))
      <4>1. \A j \in 0..(n - 1) : Place(K, p + j) = Place(K, p) + j
        BY <2>1 DEF P
      <4>2. p \in Nat /\ 1 <= p /\ p + n <= Cardinality(K) + 1
        BY <1>2, <2>1
      <4>3. PICK J \in SUBSET (1..Len(l)) : J = K
        BY <3>1
      <4>4. PICK x \in Nat : x = p
        BY <4>2
      <4>5. PICK y \in Nat : y = n
        BY <3>2
      <4>6. /\ 1 <= x /\ y > 0 /\ x + y <= Cardinality(J) + 1
            /\ \A j \in 0..(y - 1) : Place(J, x + j) = Place(J, x) + j
        BY <3>2, <4>1, <4>2, <4>3, <4>4, <4>5
      <4>7. Erase(AtPlaces(l, J), x, y)
              = AtPlaces(l, J \ (Place(J, x)..(Place(J, x) + (y - 1))))
        BY <1>4, <4>6, ErasedPlaces
      <4> QED
        BY <4>3, <4>4, <4>5, <4>7
    <3> QED
      BY <1>6, <2>5, <3>3 DEF P
  <2>7. data'[i] = AtPlaces(l, L)
    <3>1. data' = [data EXCEPT ![i] = Erase(m, p, n)]
      BY <1>1, <1>11 DEF m
    <3> HIDE DEF L, n
    <3>2. data'[i] = Erase(m, p, n)
      BY <1>4, <3>1
    <3> QED
      BY <2>6, <3>2
  <2>8. \A v \in R \ H : name = Text(l, v) => Rank(L, v.from) >= p + 1
    <3> SUFFICES ASSUME NEW v \in R \ H, name = Text(l, v)
                 PROVE  Rank(L, v.from) >= p + 1
      OBVIOUS
    <3>1. v \in Words(l) /\ v \notin G /\ v # w /\ v \in R \ G
      BY <1>7
    <3>2. Rank(K, v.from) \in Nat /\ Rank(K, v.from) >= p
      BY <1>8, <3>1 DEF Found
    <3>3. v.from \in K /\ v.from \in Nat
      <4>1. v.from \in K
        BY <1>4, <1>7, <3>1, StandingWord DEF K
      <4> QED
        BY <3>1, <1>4, WordPlaces, <4>1
    <3>4. v.from > P
      <4>1. v.from # P
        <5> SUFFICES ASSUME v.from = P
                     PROVE  FALSE
          OBVIOUS
        <5>1. P \in v.from..v.to /\ P \in w.from..w.to
          BY <1>4, <2>3, <3>1, WordPlaces
        <5> QED
          BY <1>4, <3>1, <5>1, WordsApart
      <4>2. ~ (v.from < P)
        <5> SUFFICES ASSUME v.from < P
                     PROVE  FALSE
          OBVIOUS
        <5>1. K \in SUBSET Nat /\ IsFiniteSet(K)
          <6>1. K \in SUBSET (1..Len(l)) /\ Len(l) \in Nat
            BY <1>4, <1>7, OutsidePlaces DEF K
          <6>2. IsFiniteSet(1..Len(l))
            BY <6>1, FS_Interval
          <6>3. IsFiniteSet(K)
            BY <6>1, <6>2, FS_Subset
          <6> QED
            BY <6>1, <6>3
        <5>2. Rank(K, v.from) < Rank(K, P)
          BY <2>1, <3>3, <5>1, Ranks
        <5> QED
          BY <1>2, <2>1, <3>2, <5>2
      <4> QED
        BY <2>1, <3>3, <4>1, <4>2
    <3>5. Rank(L, v.from) >= Rank(K, w.from) + 1
      <4>1. w.from > 1 /\ v.from > w.from
        BY <2>1, <2>3, <3>4
      <4> QED
        BY <1>4, <1>7, <2>4, <3>1, <4>1, RankBehind DEF K
    <3> HIDE DEF L
    <3> QED
      BY <2>1, <2>3, <3>5
  <2> HIDE DEF L
  <2>9. Gone(H)'
    <3>1. H \subseteq R
      BY <1>6, <2>4
    <3>2. \A v \in R \ H : /\ \A j \in DOMAIN list : list[j] = Text(l, v) => j >= k
                           /\ name = Text(l, v) => Rank(L, v.from) >= find'
      BY <1>1, <1>6, <2>8
    <3> HIDE DEF H
    <3> QED
      BY <1>1, <2>7, <3>1, <3>2 DEF Gone, l, name, R, L
  <2> QED
    BY <2>9
<1> QED
  BY <1>9, <1>10, <1>11

LEMMA RemoveInit == Init => RemoveInv
BY DEF Init, RemoveInv

LEMMA RemoveStep ==
  TypeInv /\ TypeInv' /\ CollectInv /\ RemoveInv /\ [Next]_vars => RemoveInv'
<1> SUFFICES ASSUME TypeInv, TypeInv', CollectInv, RemoveInv, [Next]_vars,
                    pc' # "collect", Untangled'
             PROVE  /\ \A n \in 1..Len(source') : n < i' => data'[n] = Skeleton(source'[n], variables')
                    /\ \A n \in 1..Len(source') : n > i' => data'[n] = source'[n]
                    /\ pc' = "remove" /\ i' <= Len(source') => (\E G : Gone(G))'
                    /\ pc' = "done" => i' > Len(source')
  BY DEF RemoveInv
<1>1. /\ Len(source) \in Nat /\ Len(data) = Len(source) /\ i \in Nat /\ i >= 1
      /\ k \in Nat /\ k >= 1 /\ Len(list) \in Nat /\ DOMAIN list = 1..Len(list)
      /\ find \in Nat
      /\ \A n \in 1..Len(source) : source[n] \in Line /\ data[n] \in Line
      /\ DOMAIN source = 1..Len(source) /\ DOMAIN data = 1..Len(source)
  BY RemoveFacts
<1>2. CASE StartRemoving
  <2>1. /\ i' = 1 /\ k' = 1 /\ find' = 2 /\ pc' = "remove" /\ data = source
        /\ UNCHANGED <<source, data, variables>>
    BY <1>2 DEF StartRemoving, CollectInv
  <2>2. i' <= Len(source') => (\E G : Gone(G))'
    <3>1. (TypeInv /\ i <= Len(source) /\ data[i] = source[i] /\ k = 1 /\ find = 2)'
            => (\E G : Gone(G))'
      BY LineBegins, PTL
    <3> QED
      BY <2>1, <3>1
  <2>3. \A n \in 1..Len(source) : ~ (n < i') /\ data'[n] = source'[n]
    BY <2>1
  <2> QED
    BY <2>1, <2>2, <2>3
<1>3. ASSUME pc # "collect", UNCHANGED <<source, variables>>
      PROVE  /\ \A n \in 1..Len(source) : n < i => data[n] = Skeleton(source[n], variables)
             /\ \A n \in 1..Len(source) : n > i => data[n] = source[n]
             /\ pc = "remove" /\ i <= Len(source) => \E G : Gone(G)
             /\ pc = "done" => i > Len(source)
             /\ Untangled
             /\ \A n : Skeleton(source'[n], variables') = Skeleton(source[n], variables)
  <2>1. Untangled' <=> Untangled
    BY <1>3 DEF Untangled
  <2> QED
    BY <1>3, <2>1 DEF RemoveInv
<1>4. CASE Search
  <2>1. /\ pc = "remove" /\ Searching
        /\ \A n \in 1..Len(source) : n # i => data'[n] = data[n]
        /\ UNCHANGED <<source, variables, pc, list, i, k>>
    <3>1. /\ pc = "remove" /\ Searching /\ UNCHANGED <<source, variables, pc, list, i, k>>
          /\ data' \in {data, [data EXCEPT ![i] = Erase(data[i], Min(Hits), Len(list[k]))]}
      BY <1>4 DEF Search
    <3>2. ASSUME NEW n \in 1..Len(source), n # i
          PROVE  data'[n] = data[n]
      BY <1>1, <3>1, <3>2
    <3> QED
      BY <3>1, <3>2
  <2>2. i \in 1..Len(source)
    BY <1>1, <2>1 DEF Searching
  <2>3. PICK G : Gone(G)
    BY <1>1, <1>3, <2>1, <2>2
  <2>4. \E H : Gone(H)'
    BY <1>3, <1>4, <2>1, <2>3, LineSearched
  <2>5. /\ \A n \in 1..Len(source) : n < i => n # i
        /\ \A n \in 1..Len(source) : n > i => n # i
    BY <1>1
  <2> QED
    BY <1>3, <2>1, <2>4, <2>5
<1>5. CASE NextSearch /\ pc # "collect"
  <2>1. /\ Searching /\ Hits = {} /\ pc # "done" /\ k' = k + 1 /\ find' = 2
        /\ UNCHANGED <<source, data, variables, pc, list, i>>
    BY <1>5 DEF NextSearch, First
  <2>2. /\ pc = "remove" /\ i \in 1..Len(source) /\ k \in DOMAIN list
    BY <1>1, <1>5, <2>1 DEF Searching, TypeInv
  <2>3. PICK G : Gone(G)
    BY <1>1, <1>3, <2>1, <2>2
  <2> DEFINE l == source[i]
             K == Outside(l, G)
  <2>4. l \in Line /\ G \in SUBSET Words(l)
    <3>1. l \in Line
      BY <1>1, <2>2
    <3>2. Removable(l, variables) \in SUBSET Words(l)
      BY <3>1, NothingGone
    <3> QED
      BY <2>3, <3>1, <3>2 DEF Gone
  <2>5. ASSUME NEW w \in Removable(l, variables) \ G
        PROVE  /\ \A j \in DOMAIN list : list[j] = Text(l, w) => j >= k'
               /\ Rank(K, w.from) >= find'
    <3>1. w \in Words(l) /\ w.from > 1
      BY DEF Removable
    <3>2. list[k] # Text(l, w)
      <4> SUFFICES ASSUME list[k] = Text(l, w)
                   PROVE  FALSE
        OBVIOUS
      <4>1. Rank(K, w.from) >= find
        BY <2>2, <2>3 DEF Gone
      <4>2. Rank(K, w.from) \in Occurrences(Text(l, w), AtPlaces(l, K))
        BY <2>4, <3>1, StandingWord
      <4>3. data[i] = AtPlaces(l, K)
        BY <2>3 DEF Gone
      <4>4. Rank(K, w.from) \in Hits
        BY <4>1, <4>2, <4>3 DEF Hits
      <4> QED
        BY <2>1, <4>4
    <3>3. ASSUME NEW j \in DOMAIN list, list[j] = Text(l, w)
          PROVE  j >= k'
      <4>1. j >= k /\ j # k /\ j \in Nat
        BY <1>1, <2>3, <3>2, <3>3 DEF Gone
      <4> QED
        BY <1>1, <2>1, <4>1
    <3>4. Rank(K, w.from) >= 2
      BY <2>4, NothingGone
    <3> QED
      BY <2>1, <3>3, <3>4
  <2>6. Gone(G)'
    BY <2>1, <2>3, <2>5 DEF Gone
  <2> QED
    BY <1>3, <1>5, <2>1, <2>6
<1>6. CASE NextLine /\ pc # "collect"
  <2>1. /\ i <= Len(data) /\ k > Len(list) /\ pc # "done" /\ i' = i + 1 /\ k' = 1 /\ find' = 2
        /\ UNCHANGED <<source, data, variables, pc, list>>
    BY <1>6 DEF NextLine, First
  <2>2. pc = "remove" /\ i <= Len(source)
    BY <1>1, <1>6, <2>1 DEF TypeInv
  <2>3. PICK G : Gone(G)
    BY <1>3, <2>1, <2>2
  <2>4. data[i] = Skeleton(source[i], variables)
    BY <2>1, <2>2, <2>3, LineEnds
  <2>5. \A n \in 1..Len(source) : n < i' => data[n] = Skeleton(source[n], variables)
    <3> SUFFICES ASSUME NEW n \in 1..Len(source), n < i'
                 PROVE  data[n] = Skeleton(source[n], variables)
      OBVIOUS
    <3>1. n < i \/ n = i
      BY <1>1, <2>1
    <3> QED
      BY <1>3, <2>1, <2>4, <3>1
  <2>6. \A n \in 1..Len(source) : n > i' => data[n] = source[n]
    <3> SUFFICES ASSUME NEW n \in 1..Len(source), n > i'
                 PROVE  data[n] = source[n]
      OBVIOUS
    <3>1. n > i
      BY <1>1, <2>1
    <3> QED
      BY <1>3, <2>1, <3>1
  <2>7. i' <= Len(source) => (\E H : Gone(H))'
    <3>1. (TypeInv /\ i <= Len(source) /\ data[i] = source[i] /\ k = 1 /\ find = 2)'
            => (\E H : Gone(H))'
      BY LineBegins, PTL
    <3>2. i' <= Len(source) => data[i'] = source[i']
      <4> SUFFICES ASSUME i' <= Len(source)
                   PROVE  data[i'] = source[i']
        OBVIOUS
      <4>1. i' \in 1..Len(source) /\ i' > i
        BY <1>1, <2>1
      <4> QED
        BY <1>3, <2>1, <4>1
    <3> QED
      BY <2>1, <3>1, <3>2
  <2> QED
    BY <1>3, <1>6, <2>1, <2>2, <2>5, <2>6, <2>7
<1>7. CASE Finish
  <2>1. /\ pc = "remove" /\ i > Len(data) /\ pc' = "done"
        /\ UNCHANGED <<source, data, variables, i>>
    BY <1>7 DEF Finish
  <2> QED
    BY <1>1, <1>3, <2>1
<1>8. CASE UNCHANGED vars
  <2>1. UNCHANGED <<source, typedef_names, variables, data, pc, list, i, k, find, buffer>>
    BY <1>8 DEF vars
  <2>2. \A G : Gone(G)' <=> Gone(G)
    BY <2>1 DEF Gone
  <2> QED
    BY <1>3, <2>1, <2>2
<1>9. CASE pc = "collect" /\ (NextSearch \/ NextLine)
  BY <1>9 DEF NextSearch, NextLine
<1>10. CASE Collect \/ PassType
  BY <1>10 DEF Collect, PassType
<1> QED
  BY <1>2, <1>4, <1>5, <1>6, <1>7, <1>8, <1>9, <1>10 DEF Next

(***************************************************************************)
(* For every file and all names: where no variable is the end of a longer  *)
(* word, exactly the words that are variables are erased, but for a line's *)
(* first.  In whatever order the set is gone through, no search passes     *)
(* over a word and no erasing makes a new one.                             *)
(***************************************************************************)
THEOREM RemovesWords == Spec => []RemovesTheWords
<1>1. TypeInv /\ RemoveInv => RemovesTheWords
  <2> SUFFICES ASSUME TypeInv, RemoveInv, pc = "done", Untangled
               PROVE  data = [n \in DOMAIN source |-> Skeleton(source[n], variables)]
    BY DEF RemovesTheWords
  <2>1. /\ Len(source) \in Nat /\ i \in Nat
        /\ DOMAIN source = 1..Len(source) /\ DOMAIN data = 1..Len(source)
    BY RemoveFacts
  <2>2. \A n \in 1..Len(source) : data[n] = Skeleton(source[n], variables)
    <3>1. i > Len(source) /\ \A n \in 1..Len(source) : n < i => data[n] = Skeleton(source[n], variables)
      BY DEF RemoveInv
    <3> QED
      BY <2>1, <3>1
  <2>3. data = [n \in DOMAIN data |-> data[n]]
    BY DEF TypeInv, FileInv, File
  <2> QED
    BY <2>1, <2>2, <2>3
<1>2. Init => TypeInv /\ CollectInv /\ CollectsTheDeclared /\ RemoveInv
  <2>1. Init => CollectsTheDeclared
    BY DEF Init, CollectsTheDeclared
  <2> QED
    BY <2>1, TypeInit, CollectInit, RemoveInit
<1>3. Spec => [](TypeInv /\ CollectInv /\ CollectsTheDeclared /\ RemoveInv)
  BY <1>2, TypeStep, CollectStep, RemoveStep, PTL DEF Spec
<1> QED
  BY <1>1, <1>3, PTL

------------------------------------------------------------------------------
(***************************************************************************)
(* Renaming.  What stands for the characters up to a place of a line ends, *)
(* in the renamed line, at the place Ends gives for it.                    *)
(***************************************************************************)
Ends(l, off) ==
  /\ off \in [0..Len(l) -> Nat] /\ off[0] = 0 /\ off[Len(l)] = Len(Rename(l))
  /\ \A p \in 1..Len(l) : off[p] = off[p - 1] + Len(Replacement(l, p))
  /\ \A p \in 1..Len(l) : \A j \in 1..Len(Replacement(l, p)) :
       Rename(l)[off[p - 1] + j] = Replacement(l, p)[j]

LEMMA EndsExist ==
  ASSUME NEW l \in Line
  PROVE  \E off : Ends(l, off)
<1> DEFINE seqs == [p \in DOMAIN l |-> Replacement(l, p)]
           n == Len(l)
<1>1. n \in Nat /\ DOMAIN l = 1..n
  BY DEF Line
<1>2. \A p \in DOMAIN l : Replacement(l, p) \in Line
  BY <1>1, ReplacementLine
<1>3. seqs \in Seq(Line) /\ Len(seqs) = n /\ \A p \in 1..n : seqs[p] = Replacement(l, p)
  BY <1>1, <1>2
<1>4. Rename(l) = FlattenSeq(seqs)
  BY DEF Rename
<1> HIDE DEF seqs, n
<1>5. seqs \in Seq(Seq(STRING))
  BY <1>3 DEF Line
<1>6. PICK off : Offsets(off, seqs)
  BY <1>5, FlattenedPlaces
<1>7. off \in [0..n -> Nat] /\ off[0] = 0 /\ off[n] = Len(Rename(l))
  BY <1>3, <1>4, <1>6 DEF Offsets
<1>8. \A p \in 1..n : off[p] = off[p - 1] + Len(Replacement(l, p))
  BY <1>3, <1>6 DEF Offsets
<1>9. \A p \in 1..n : \A j \in 1..Len(Replacement(l, p)) :
        Rename(l)[off[p - 1] + j] = Replacement(l, p)[j]
  BY <1>3, <1>4, <1>6 DEF Offsets
<1>10. Ends(l, off)
  BY <1>7, <1>8, <1>9 DEF Ends, n
<1> QED
  BY <1>10

LEMMA EndsFacts ==
  ASSUME NEW l \in Line, NEW off, Ends(l, off)
  PROVE  /\ Len(l) \in Nat /\ off[0] = 0 /\ off[Len(l)] = Len(Rename(l))
         /\ \A p \in 0..Len(l) : off[p] \in Nat
<1>1. Len(l) \in Nat
  BY DEF Line
<1>2. off \in [0..Len(l) -> Nat] /\ off[0] = 0 /\ off[Len(l)] = Len(Rename(l))
  BY DEF Ends
<1> QED
  BY <1>1, <1>2

LEMMA EndsInOrder ==
  ASSUME NEW l \in Line, NEW off, Ends(l, off),
         NEW p \in 0..Len(l), NEW q \in 0..Len(l), p <= q
  PROVE  off[p] \in Nat /\ off[q] \in Nat /\ off[p] <= off[q]
<1> DEFINE n == Len(l)
           T == {d \in Nat : p + d <= n => off[p] <= off[p + d]}
<1>1. /\ n \in Nat /\ \A x \in 0..n : off[x] \in Nat
      /\ \A x \in 1..n : off[x] = off[x - 1] + Len(Replacement(l, x))
      /\ \A x \in 1..n : Replacement(l, x) \in Seq(STRING)
  <2>1. n \in Nat /\ \A x \in 0..n : off[x] \in Nat
    BY EndsFacts
  <2>2. \A x \in 1..n : off[x] = off[x - 1] + Len(Replacement(l, x))
    BY DEF Ends
  <2>3. \A x \in 1..n : Replacement(l, x) \in Seq(STRING)
    BY ReplacementLine DEF Line
  <2> QED
    BY <2>1, <2>2, <2>3
<1>2. \A x \in 1..n : off[x - 1] <= off[x]
  <2> SUFFICES ASSUME NEW x \in 1..n
               PROVE  off[x - 1] <= off[x]
    OBVIOUS
  <2>1. x - 1 \in 0..n /\ x \in 0..n /\ Len(Replacement(l, x)) \in Nat
    BY <1>1
  <2> QED
    BY <1>1, <2>1
<1> HIDE DEF n
<1>3. p \in 0..n /\ q \in 0..n
  BY DEF n
<1>4. 0 \in T
  BY <1>1, <1>3
<1>5. ASSUME NEW d \in T
      PROVE  d + 1 \in T
  <2> SUFFICES ASSUME p + (d + 1) <= n
               PROVE  off[p] <= off[p + (d + 1)]
    OBVIOUS
  <2>1. PICK x \in Nat : x = p + (d + 1)
    BY <1>3
  <2>2. x \in 1..n /\ x - 1 = p + d /\ p + d <= n /\ x \in 0..n /\ x - 1 \in 0..n
    BY <1>1, <1>3, <2>1
  <2>3. off[p] <= off[x - 1]
    BY <2>2
  <2> QED
    BY <1>1, <1>2, <1>3, <2>1, <2>2, <2>3
<1>6. T = Nat
  <2>1. T \in SUBSET Nat
    OBVIOUS
  <2> HIDE DEF T
  <2> QED
    BY <1>4, <1>5, <2>1, SetInduction
<1>7. PICK d \in Nat : p + d = q
  BY <1>1, <1>3
<1>8. d \in T
  BY <1>6
<1>9. off[p] <= off[q]
  BY <1>3, <1>7, <1>8
<1> QED
  BY <1>1, <1>3, <1>9

(* Each character of a renamed line stands for one of the line.            *)
LEMMA ComesFrom ==
  ASSUME NEW l \in Line, NEW off, Ends(l, off), NEW q \in 1..Len(Rename(l))
  PROVE  \E p \in 1..Len(l) : off[p - 1] < q /\ q <= off[p]
<1> DEFINE T == {p \in 0..Len(l) : q <= off[p]}
<1>1. /\ Len(l) \in Nat /\ \A x \in 0..Len(l) : off[x] \in Nat
      /\ off[0] = 0 /\ off[Len(l)] = Len(Rename(l))
  BY EndsFacts
<1>2. Len(l) \in T
  BY <1>1
<1>3. PICK p \in T : \A x \in T : p <= x
  <2>1. T \in SUBSET Nat /\ T # {}
    BY <1>1, <1>2
  <2> HIDE DEF T
  <2> QED
    BY <2>1, LeastElement
<1>4. p # 0
  BY <1>1
<1>5. p \in 1..Len(l) /\ p - 1 \in 0..Len(l) /\ p - 1 \notin T
  BY <1>1, <1>3, <1>4
<1> QED
  BY <1>1, <1>5

(* A character that is in no renamed word.                                 *)
LEMMA KeptAt ==
  ASSUME NEW l \in Line, NEW off, Ends(l, off), NEW p \in 1..Len(l),
         \A u \in Renamed(l) : p \notin u.from..u.to
  PROVE  /\ off[p - 1] \in Nat /\ off[p] \in Nat /\ off[p] = off[p - 1] + 1
         /\ Rename(l)[off[p]] = l[p] /\ off[p] \in 1..Len(Rename(l))
<1>1. Replacement(l, p) = <<l[p]>>
  BY KeptCharacter
<1>2. /\ Len(l) \in Nat /\ \A x \in 0..Len(l) : off[x] \in Nat
      /\ off[Len(l)] = Len(Rename(l))
  BY EndsFacts
<1>3. off[p] = off[p - 1] + Len(<<l[p]>>) /\ \A j \in 1..Len(<<l[p]>>) :
        Rename(l)[off[p - 1] + j] = <<l[p]>>[j]
  BY <1>1 DEF Ends
<1>4. Len(<<l[p]>>) = 1 /\ <<l[p]>>[1] = l[p]
  OBVIOUS
<1>5. off[p] = off[p - 1] + 1 /\ Rename(l)[off[p - 1] + 1] = l[p]
  BY <1>3, <1>4
<1>6. off[p] <= Len(Rename(l))
  <2>1. Len(l) \in 0..Len(l) /\ p \in 0..Len(l) /\ p <= Len(l)
    BY <1>2
  <2> QED
    BY <1>2, <2>1, EndsInOrder
<1> QED
  BY <1>2, <1>5, <1>6

(* A renamed word's place is the place of its new name.                    *)
LEMMA ReplacedAt ==
  ASSUME NEW l \in Line, NEW off, Ends(l, off), NEW u \in Renamed(l),
         NEW name, name = NewName[Text(l, u)]
  PROVE  /\ off[u.to] = off[u.from - 1] + Len(name)
         /\ \A p \in u.from..u.to : off[p] = off[u.to]
         /\ \A j \in 1..Len(name) : Rename(l)[off[u.from - 1] + j] = name[j]
<1>1. /\ u \in Words(l) /\ Replacement(l, u.from) = name
      /\ \A p \in (u.from + 1)..u.to : Replacement(l, p) = <<>>
  BY ReplacedWord
<1>2. /\ Len(l) \in Nat /\ u.from \in 1..Len(l) /\ u.to \in 1..Len(l) /\ u.from <= u.to
  BY <1>1, WordPlaces
<1>3. /\ off[u.from] = off[u.from - 1] + Len(name)
      /\ \A j \in 1..Len(name) : Rename(l)[off[u.from - 1] + j] = name[j]
  BY <1>1, <1>2 DEF Ends
<1> DEFINE T == {d \in Nat : u.from + d <= u.to => off[u.from + d] = off[u.from]}
<1>4. 0 \in T
  BY <1>2
<1>5. ASSUME NEW d \in T
      PROVE  d + 1 \in T
  <2> SUFFICES ASSUME u.from + (d + 1) <= u.to
               PROVE  off[u.from + (d + 1)] = off[u.from]
    OBVIOUS
  <2>1. PICK x \in Nat : x = u.from + (d + 1)
    BY <1>2
  <2>2. /\ x \in (u.from + 1)..u.to /\ x \in 1..Len(l) /\ x - 1 = u.from + d
        /\ u.from + d <= u.to /\ x - 1 \in 0..Len(l)
    BY <1>2, <2>1
  <2>3. off[x] = off[x - 1] + Len(<<>>)
    BY <1>1, <2>2 DEF Ends
  <2>4. off[x - 1] = off[u.from]
    BY <2>2
  <2>5. off[x - 1] \in Nat /\ Len(<<>>) = 0
    BY <2>2, EndsFacts
  <2> QED
    BY <2>1, <2>3, <2>4, <2>5
<1>6. T = Nat
  <2>1. T \in SUBSET Nat
    OBVIOUS
  <2> HIDE DEF T
  <2> QED
    BY <1>4, <1>5, <2>1, SetInduction
<1>7. \A p \in u.from..u.to : off[p] = off[u.from]
  <2> SUFFICES ASSUME NEW p \in u.from..u.to
               PROVE  off[p] = off[u.from]
    OBVIOUS
  <2>1. PICK d \in Nat : d = p - u.from /\ u.from + d = p
    BY <1>2
  <2>2. u.from + d <= u.to
    BY <1>2, <2>1
  <2>3. d \in T
    <3> HIDE DEF T
    <3> QED
      BY <1>6
  <2> QED
    BY <2>1, <2>2, <2>3
<1>8. u.to \in u.from..u.to
  BY <1>2
<1> QED
  BY <1>3, <1>7, <1>8

(* Around every character of a word there is one.                          *)
LEMMA WordAround ==
  ASSUME NEW l \in Line, NEW p \in 1..Len(l), l[p] \in WordChar
  PROVE  \E u \in Words(l) : p \in u.from..u.to
<1> DEFINE n == Len(l)
           A == {d \in 0..(p - 1) : d = p - 1 \/ l[(p - d) - 1] \notin WordChar}
           B == {d \in 0..(n - p) : d = n - p \/ l[(p + d) + 1] \notin WordChar}
<1>1. n \in Nat /\ p \in Nat /\ 1 <= p /\ p <= n /\ DOMAIN l = 1..n
  BY DEF Line
<1> HIDE DEF n
<1>2. PICK a \in A : \A d \in A : a <= d
  <2>1. A \in SUBSET Nat /\ p - 1 \in A
    BY <1>1
  <2> HIDE DEF A
  <2> QED
    BY <2>1, LeastElement
<1>3. PICK b \in B : \A d \in B : b <= d
  <2>1. B \in SUBSET Nat /\ n - p \in B
    BY <1>1
  <2> HIDE DEF B
  <2> QED
    BY <2>1, LeastElement
<1>4. /\ a \in Nat /\ a <= p - 1 /\ (a = p - 1 \/ l[(p - a) - 1] \notin WordChar)
      /\ b \in Nat /\ b <= n - p /\ (b = n - p \/ l[(p + b) + 1] \notin WordChar)
  BY <1>1
<1>5. ASSUME NEW x \in (p - a)..p
      PROVE  l[x] \in WordChar
  <2>1. CASE x = p
    BY <2>1
  <2>2. CASE x # p
    <3>1. PICK d \in Nat : d = (p - x) - 1
      BY <1>1, <1>4, <2>2
    <3>2. d \in 0..(p - 1) /\ d < a /\ (p - d) - 1 = x
      BY <1>1, <1>4, <3>1
    <3>3. d \notin A
      <4> HIDE DEF A
      <4> QED
        BY <1>2, <1>4, <3>1, <3>2
    <3> QED
      BY <3>2, <3>3
  <2> QED
    BY <2>1, <2>2
<1>6. ASSUME NEW x \in p..(p + b)
      PROVE  l[x] \in WordChar
  <2>1. CASE x = p
    BY <2>1
  <2>2. CASE x # p
    <3>1. PICK d \in Nat : d = (x - p) - 1
      BY <1>1, <1>4, <2>2
    <3>2. d \in 0..(n - p) /\ d < b /\ (p + d) + 1 = x
      BY <1>1, <1>4, <3>1
    <3>3. d \notin B
      <4> HIDE DEF B
      <4> QED
        BY <1>3, <1>4, <3>1, <3>2
    <3> QED
      BY <3>2, <3>3
  <2> QED
    BY <2>1, <2>2
<1> DEFINE u == [from |-> p - a, to |-> p + b]
<1>7. p - a \in 1..n /\ p + b \in 1..n /\ p - a <= p + b /\ p \in (p - a)..(p + b)
  BY <1>1, <1>4
<1>8. \A m \in (p - a)..(p + b) : l[m] \in WordChar
  <2> SUFFICES ASSUME NEW m \in (p - a)..(p + b)
               PROVE  l[m] \in WordChar
    OBVIOUS
  <2>1. m \in (p - a)..p \/ m \in p..(p + b)
    BY <1>1, <1>4
  <2> QED
    BY <1>5, <1>6, <2>1
<1>9. /\ p - a > 1 => l[(p - a) - 1] \notin WordChar
      /\ p + b < n => l[(p + b) + 1] \notin WordChar
  BY <1>1, <1>4
<1> HIDE DEF A, B
<1>10. u \in Words(l)
  <2>1. u \in [from : DOMAIN l, to : DOMAIN l] /\ u.from = p - a /\ u.to = p + b
    BY <1>1, <1>7
  <2> HIDE DEF u
  <2> QED
    BY <1>7, <1>8, <1>9, <2>1 DEF Words, n
<1> QED
  BY <1>7, <1>10

(* Where a word of a line is in the renamed line, and what is written      *)
(* there.                                                                  *)
Moved(off, u) == [from |-> off[u.from - 1] + 1, to |-> off[u.to]]

LEMMA KeptWord ==
  ASSUME NEW l \in Line, NEW off, Ends(l, off), NEW u \in Words(l), u \notin Renamed(l)
  PROVE  /\ off[u.to] = off[u.from - 1] + ((u.to - u.from) + 1)
         /\ \A p \in u.from..u.to : off[p] = off[p - 1] + 1
         /\ \A j \in 0..(u.to - u.from) :
              Rename(l)[(off[u.from - 1] + 1) + j] = l[u.from + j]
<1>1. Len(l) \in Nat /\ u.from \in 1..Len(l) /\ u.to \in 1..Len(l) /\ u.from <= u.to
  BY WordPlaces
<1>2. ASSUME NEW p \in u.from..u.to
      PROVE  /\ off[p - 1] \in Nat /\ off[p] \in Nat /\ off[p] = off[p - 1] + 1
             /\ Rename(l)[off[p]] = l[p]
  <2>1. p \in 1..Len(l)
    BY <1>1
  <2>2. ASSUME NEW v \in Renamed(l), p \in v.from..v.to
        PROVE  FALSE
    <3>1. v \in Words(l)
      BY DEF Renamed
    <3>2. v = u
      BY <2>2, <3>1, WordsApart
    <3> QED
      BY <3>2
  <2> QED
    BY <2>1, <2>2, KeptAt
<1> DEFINE T == {d \in Nat : u.from + d <= u.to => off[u.from + d] = (off[u.from - 1] + 1) + d}
<1>3. u.from \in u.from..u.to /\ u.to \in u.from..u.to /\ off[u.from - 1] \in Nat
  BY <1>1, <1>2
<1>4. 0 \in T
  BY <1>1, <1>2, <1>3
<1>5. ASSUME NEW d \in T
      PROVE  d + 1 \in T
  <2> SUFFICES ASSUME u.from + (d + 1) <= u.to
               PROVE  off[u.from + (d + 1)] = (off[u.from - 1] + 1) + (d + 1)
    OBVIOUS
  <2>1. PICK x \in Nat : x = u.from + (d + 1)
    BY <1>1
  <2>2. x \in u.from..u.to /\ x - 1 = u.from + d /\ u.from + d <= u.to
    BY <1>1, <2>1
  <2>3. off[x] = off[x - 1] + 1
    BY <1>2, <2>2
  <2>4. off[x - 1] = (off[u.from - 1] + 1) + d
    BY <2>2
  <2> QED
    BY <1>3, <2>1, <2>3, <2>4
<1>6. T = Nat
  <2>1. T \in SUBSET Nat
    OBVIOUS
  <2> HIDE DEF T
  <2> QED
    BY <1>4, <1>5, <2>1, SetInduction
<1>7. ASSUME NEW d \in 0..(u.to - u.from)
      PROVE  off[u.from + d] = (off[u.from - 1] + 1) + d
  <2>1. d \in Nat /\ u.from + d <= u.to
    BY <1>1
  <2>2. d \in T
    <3> HIDE DEF T
    <3> QED
      BY <1>6, <2>1
  <2> QED
    BY <2>1, <2>2
<1>8. off[u.to] = off[u.from - 1] + ((u.to - u.from) + 1)
  <2>1. PICK d \in Nat : d = u.to - u.from /\ d \in 0..(u.to - u.from) /\ u.from + d = u.to
    BY <1>1
  <2>2. off[u.from + d] = (off[u.from - 1] + 1) + d
    BY <1>7, <2>1
  <2> QED
    BY <1>3, <2>1, <2>2
<1>9. ASSUME NEW j \in 0..(u.to - u.from)
      PROVE  Rename(l)[(off[u.from - 1] + 1) + j] = l[u.from + j]
  <2>1. u.from + j \in u.from..u.to
    BY <1>1
  <2>2. Rename(l)[off[u.from + j]] = l[u.from + j]
    BY <1>2, <2>1
  <2> QED
    BY <1>7, <2>2
<1> QED
  BY <1>2, <1>8, <1>9

(* A part of a line with the characters of a name is the name.             *)
LEMMA NamePart ==
  ASSUME NEW m \in Line, NEW name \in Line, NEW a \in Nat, NEW b \in Nat,
         b = a + Len(name), b <= Len(m), \A j \in 1..Len(name) : m[a + j] = name[j]
  PROVE  SubSeq(m, a + 1, b) = name
<1> DEFINE s == SubSeq(m, a + 1, b)
<1>1. /\ m \in Seq(STRING) /\ name \in Seq(STRING)
      /\ Len(m) \in Nat /\ Len(name) \in Nat
  BY DEF Line
<1>2. s \in Seq(STRING) /\ Len(s) = Len(name) /\ \A x \in 1..Len(name) : s[x] = m[a + x]
  BY <1>1
<1>3. \A u \in Seq(STRING) : u = [x \in 1..Len(u) |-> u[x]]
  OBVIOUS
<1> HIDE DEF s
<1>4. \A x \in 1..Len(name) : s[x] = name[x]
  BY <1>2
<1>5. s = [x \in 1..Len(name) |-> s[x]] /\ name = [x \in 1..Len(name) |-> name[x]]
  BY <1>1, <1>2, <1>3
<1>6. s = name
  BY <1>4, <1>5
<1> QED
  BY <1>6 DEF s

LEMMA MovedText ==
  ASSUME NEW l \in Line, NEW off, Ends(l, off), NEW u \in Words(l)
  PROVE  /\ Moved(off, u).from \in 1..Len(Rename(l)) /\ Moved(off, u).to \in 1..Len(Rename(l))
         /\ Moved(off, u).from <= Moved(off, u).to
         /\ \A q \in Moved(off, u).from..Moved(off, u).to : Rename(l)[q] \in WordChar
         /\ u \in Renamed(l) => Text(Rename(l), Moved(off, u)) = NewName[Text(l, u)]
         /\ u \notin Renamed(l) => Text(Rename(l), Moved(off, u)) = Text(l, u)
<1> DEFINE m == Rename(l)
           a == off[u.from - 1]
           b == off[u.to]
<1>1. /\ Len(l) \in Nat /\ u.from \in 1..Len(l) /\ u.to \in 1..Len(l) /\ u.from <= u.to
      /\ \A p \in u.from..u.to : l[p] \in WordChar
  BY WordPlaces
<1>2. a \in Nat /\ b \in Nat /\ b <= Len(m) /\ Len(m) \in Nat
  <2>1. u.from - 1 \in 0..Len(l) /\ u.to \in 0..Len(l) /\ Len(l) \in 0..Len(l) /\ u.to <= Len(l)
    BY <1>1
  <2> QED
    BY <2>1, EndsInOrder, EndsFacts
<1>3. Moved(off, u).from = a + 1 /\ Moved(off, u).to = b
  BY DEF Moved
<1>4. m \in Line /\ m \in Seq(STRING)
  BY RenamedLine DEF Line
<1>5. Text(m, Moved(off, u)) = SubSeq(m, a + 1, b)
  BY <1>3 DEF Text
<1>6. CASE u \in Renamed(l)
  <2> DEFINE name == NewName[Text(l, u)]
  <2>1. b = a + Len(name) /\ \A j \in 1..Len(name) : m[a + j] = name[j]
    BY <1>6, ReplacedAt
  <2>2. name \in Word /\ name # <<>>
    BY <1>6, ReplacedWord, NewNames
  <2>3. Len(name) \in Nat /\ Len(name) > 0 /\ \A j \in 1..Len(name) : name[j] \in WordChar
    BY <2>2, NameLength
  <2>4. name \in Line
    BY <2>2, WordIsLine
  <2> HIDE DEF m, a, b, name
  <2>5. ASSUME NEW q \in (a + 1)..b
        PROVE  m[q] \in WordChar
    <3>1. PICK j \in Nat : j = q - a
      BY <1>2
    <3>2. j \in 1..Len(name) /\ a + j = q
      BY <1>2, <2>1, <2>3, <3>1
    <3> QED
      BY <2>1, <2>3, <3>2
  <2>6. SubSeq(m, a + 1, b) = name
    BY <1>2, <1>4, <2>1, <2>4, NamePart
  <2> QED
    BY <1>2, <1>3, <1>5, <1>6, <2>1, <2>3, <2>5, <2>6 DEF m, name
<1>7. CASE u \notin Renamed(l)
  <2> DEFINE n == (u.to - u.from) + 1
  <2>1. b = a + n /\ \A j \in 0..(u.to - u.from) : m[(a + 1) + j] = l[u.from + j]
    BY <1>7, KeptWord
  <2>2. PICK x \in Nat : x = n
    BY <1>1
  <2> HIDE DEF m, a, b
  <2>3. \A j \in 0..(x - 1) : m[(a + 1) + j] = l[u.from + j]
    BY <1>1, <2>1, <2>2
  <2>4. /\ x >= 1 /\ b = a + x /\ u.from + x = u.to + 1
    BY <1>1, <2>1, <2>2
  <2> HIDE DEF n
  <2>5. ASSUME NEW q \in (a + 1)..b
        PROVE  m[q] \in WordChar
    <3>1. PICK j \in Nat : j = q - (a + 1)
      BY <1>2
    <3>2. j \in 0..(x - 1) /\ (a + 1) + j = q /\ u.from + j \in u.from..u.to
      BY <1>1, <1>2, <2>4, <3>1
    <3> QED
      BY <1>1, <2>3, <3>2
  <2>6. SubSeq(m, a + 1, b) = SubSeq(l, u.from, u.to)
    <3>1. PICK name : name = SubSeq(l, u.from, u.to)
      OBVIOUS
    <3>2. /\ name \in Line /\ Len(name) = x
          /\ \A j \in 1..x : name[j] = l[u.from + (j - 1)]
      <4>1. PICK y \in Nat, z \in Nat : y = u.from /\ z = u.to
        BY <1>1
      <4>2. 1 <= y /\ y <= z /\ z <= Len(l) /\ z = (y + x) - 1 /\ l \in Seq(STRING)
        BY <1>1, <2>4, <4>1 DEF Line
      <4>3. /\ SubSeq(l, y, z) \in Seq(STRING) /\ Len(SubSeq(l, y, z)) = x
            /\ \A j \in 1..x : SubSeq(l, y, z)[j] = l[y + (j - 1)]
        BY <4>2
      <4> QED
        BY <3>1, <4>1, <4>3 DEF Line
    <3>3. \A j \in 1..x : m[a + j] = name[j]
      <4> SUFFICES ASSUME NEW j \in 1..x
                   PROVE  m[a + j] = name[j]
        OBVIOUS
      <4>1. j - 1 \in 0..(x - 1) /\ (a + 1) + (j - 1) = a + j
        BY <1>2
      <4> QED
        BY <2>3, <3>2, <4>1
    <3>4. SubSeq(m, a + 1, b) = name
      BY <1>2, <1>4, <2>4, <3>2, <3>3, NamePart
    <3> QED
      BY <3>1, <3>4
  <2>7. Text(m, Moved(off, u)) = Text(l, u)
    BY <1>5, <2>6 DEF Text
  <2>8. a + 1 \in 1..Len(m) /\ b \in 1..Len(m) /\ a + 1 <= b
    BY <1>2, <2>4
  <2> QED
    BY <1>3, <1>7, <2>5, <2>7, <2>8 DEF m
<1> QED
  BY <1>6, <1>7

(* Beside a word is a character that stays, and nothing else moves there:  *)
(* words are words in the renamed line.                                    *)
LEMMA BesideWord ==
  ASSUME NEW l \in Line, NEW off, Ends(l, off), NEW p \in 1..Len(l), l[p] \notin WordChar
  PROVE  /\ off[p - 1] \in Nat /\ off[p] \in Nat /\ off[p] = off[p - 1] + 1
         /\ Rename(l)[off[p]] \notin WordChar /\ off[p] \in 1..Len(Rename(l))
<1>1. ASSUME NEW u \in Renamed(l), p \in u.from..u.to
      PROVE  FALSE
  <2>1. u \in Words(l)
    BY DEF Renamed
  <2> QED
    BY <1>1, <2>1, WordPlaces
<1> QED
  BY <1>1, KeptAt

LEMMA MovedWord ==
  ASSUME NEW l \in Line, NEW off, Ends(l, off), NEW u \in Words(l)
  PROVE  Moved(off, u) \in Words(Rename(l))
<1> DEFINE m == Rename(l)
           a == off[u.from - 1]
           b == off[u.to]
<1>1. /\ Len(l) \in Nat /\ u.from \in 1..Len(l) /\ u.to \in 1..Len(l) /\ u.from <= u.to
      /\ u.from > 1 => l[u.from - 1] \notin WordChar
      /\ u.to < Len(l) => l[u.to + 1] \notin WordChar
  BY WordPlaces
<1>2. /\ Len(m) \in Nat /\ DOMAIN m = 1..Len(m)
  BY RenamedLine DEF Line
<1>3. /\ Moved(off, u) = [from |-> a + 1, to |-> b]
      /\ Moved(off, u).from = a + 1 /\ Moved(off, u).to = b
  BY DEF Moved
<1>4. a + 1 \in 1..Len(m) /\ b \in 1..Len(m) /\ a + 1 <= b /\ \A q \in (a + 1)..b : m[q] \in WordChar
  BY <1>3, MovedText
<1>5. a \in Nat
  <2>1. u.from - 1 \in 0..Len(l)
    BY <1>1
  <2> QED
    BY <2>1, EndsFacts
<1>6. ASSUME a + 1 > 1
      PROVE  m[(a + 1) - 1] \notin WordChar
  <2>1. u.from > 1
    <3>1. u.from = 1 => a = 0
      BY EndsFacts
    <3> QED
      BY <1>1, <1>5, <1>6, <3>1
  <2>2. PICK p \in 1..Len(l) : p = u.from - 1
    BY <1>1, <2>1
  <2>3. m[off[p]] \notin WordChar
    BY <1>1, <2>1, <2>2, BesideWord
  <2>4. (a + 1) - 1 = off[p]
    BY <1>5, <2>2
  <2> QED
    BY <2>3, <2>4
<1>7. ASSUME b < Len(m)
      PROVE  m[b + 1] \notin WordChar
  <2>1. u.to < Len(l)
    <3>1. u.to = Len(l) => b = Len(m)
      BY EndsFacts
    <3> QED
      BY <1>1, <1>2, <1>7, <3>1
  <2>2. PICK p \in 1..Len(l) : p = u.to + 1 /\ p - 1 = u.to
    BY <1>1, <2>1
  <2>3. m[off[p]] \notin WordChar /\ off[p] = off[p - 1] + 1
    BY <1>1, <2>1, <2>2, BesideWord
  <2>4. b + 1 = off[p]
    BY <2>2, <2>3
  <2> QED
    BY <2>3, <2>4
<1> DEFINE v == Moved(off, u)
<1>8. v \in [from : DOMAIN m, to : DOMAIN m]
  BY <1>2, <1>3, <1>4
<1> HIDE DEF v, a, b, m
<1>9. v.from = a + 1 /\ v.to = b
  BY <1>3 DEF v
<1>10. v \in Words(m)
  BY <1>4, <1>6, <1>7, <1>8, <1>9 DEF Words
<1> QED
  BY <1>10 DEF v, m

(* What stands for the characters of a word is at its place.               *)
LEMMA InMovedWord ==
  ASSUME NEW l \in Line, NEW off, Ends(l, off), NEW u \in Words(l), NEW p \in u.from..u.to,
         NEW q \in Nat, off[p - 1] < q, q <= off[p]
  PROVE  q \in Moved(off, u).from..Moved(off, u).to
<1>1. /\ Len(l) \in Nat /\ u.from \in 1..Len(l) /\ u.to \in 1..Len(l)
      /\ u.from <= p /\ p <= u.to /\ \A x \in 0..Len(l) : off[x] \in Nat
  BY WordPlaces, EndsFacts
<1>2. /\ u.from - 1 \in 0..Len(l) /\ p - 1 \in 0..Len(l) /\ u.from - 1 <= p - 1
      /\ p \in 0..Len(l) /\ u.to \in 0..Len(l)
  BY <1>1
<1>3. off[u.from - 1] <= off[p - 1] /\ off[p] <= off[u.to]
  BY <1>1, <1>2, EndsInOrder
<1>4. Moved(off, u).from = off[u.from - 1] + 1 /\ Moved(off, u).to = off[u.to]
  BY DEF Moved
<1>5. /\ off[u.from - 1] \in Nat /\ off[p - 1] \in Nat
      /\ off[p] \in Nat /\ off[u.to] \in Nat
  BY <1>1, <1>2
<1> QED
  BY <1>3, <1>4, <1>5

(* And no other word is there: the word of a character of the renamed line *)
(* is the one that its character in the line belongs to.                   *)
LEMMA WordCameFrom ==
  ASSUME NEW l \in Line, NEW off, Ends(l, off), NEW v \in Words(Rename(l)),
         NEW q \in v.from..v.to, NEW p \in 1..Len(l), off[p - 1] < q, q <= off[p]
  PROVE  \E u \in Words(l) : p \in u.from..u.to /\ v = Moved(off, u)
<1> DEFINE m == Rename(l)
<1>1. m \in Line /\ Len(m) \in Nat
  BY RenamedLine DEF Line
<1>2. /\ v.from \in 1..Len(m) /\ v.to \in 1..Len(m) /\ m[q] \in WordChar /\ q \in 1..Len(m)
  BY <1>1, WordPlaces
<1>4. PICK u \in Words(l) : p \in u.from..u.to
  <2>1. CASE \E w \in Renamed(l) : p \in w.from..w.to
    BY <2>1 DEF Renamed
  <2>2. CASE \A w \in Renamed(l) : p \notin w.from..w.to
    <3>1. off[p - 1] \in Nat /\ off[p] \in Nat /\ off[p] = off[p - 1] + 1 /\ m[off[p]] = l[p]
      BY <2>2, KeptAt
    <3>2. q = off[p]
      BY <1>2, <3>1
    <3>3. l[p] \in WordChar
      BY <1>2, <3>1, <3>2
    <3> QED
      BY <3>3, WordAround
  <2> QED
    BY <2>1, <2>2
<1>6. q \in Moved(off, u).from..Moved(off, u).to
  BY <1>2, <1>4, InMovedWord
<1>7. Moved(off, u) \in Words(m)
  BY MovedWord
<1>8. v = Moved(off, u)
  BY <1>1, <1>6, <1>7, WordsApart
<1> QED
  BY <1>4, <1>8

(* Where the words that have another name are variables by it, and no line *)
(* begins with a variable: the same words are removed, and the same stays. *)
Old(names) == names \cup {w \in DOMAIN NewName : NewName[w] \in names}

Hidden(l, names) ==
  \A w \in Words(l) :
    /\ Text(l, w) \in Range(NewName) => Text(l, w) \in names
    /\ Text(l, w) \in names => w.from > 1

LEMMA MovedRemovable ==
  ASSUME NEW l \in Line, NEW off, Ends(l, off), NEW names, Hidden(Rename(l), names),
         NEW u \in Words(l)
  PROVE  /\ u \in Renamed(l) => Moved(off, u) \in Removable(Rename(l), names)
         /\ u \in Removable(l, Old(names)) <=> Moved(off, u) \in Removable(Rename(l), names)
<1> DEFINE m == Rename(l)
           v == Moved(off, u)
<1>1. v \in Words(m) /\ (u \in Renamed(l) => Text(m, v) = NewName[Text(l, u)])
      /\ (u \notin Renamed(l) => Text(m, v) = Text(l, u))
  BY MovedWord, MovedText
<1>2. u \in Renamed(l) <=> Text(l, u) \in DOMAIN NewName
  BY DEF Renamed
<1>3. u \in Renamed(l) => Text(m, v) \in Range(NewName)
  BY <1>1, <1>2 DEF Range
<1>4. v \in Removable(m, names) <=> Text(m, v) \in names
  BY <1>1 DEF Removable, Hidden
<1>5. u \in Renamed(l) => v \in Removable(m, names)
  BY <1>1, <1>3, <1>4 DEF Hidden
<1>6. ASSUME v \in Removable(m, names)
      PROVE  u.from > 1
  <2>1. u.from \in Nat /\ u.from >= 1 /\ v.from > 1 /\ v.from = off[u.from - 1] + 1
    BY <1>6, WordPlaces DEF Removable, Moved
  <2>2. u.from = 1 => off[u.from - 1] = 0
    BY EndsFacts
  <2> QED
    BY <2>1, <2>2
<1>7. Text(l, u) \in Old(names) <=> Text(m, v) \in names
  <2>1. CASE u \in Renamed(l)
    BY <1>1, <1>2, <1>4, <1>5, <2>1 DEF Old
  <2>2. CASE u \notin Renamed(l)
    BY <1>1, <1>2, <2>2 DEF Old
  <2> QED
    BY <2>1, <2>2
<1>8. u \in Removable(l, Old(names)) <=> u.from > 1 /\ Text(l, u) \in Old(names)
  BY DEF Removable
<1> HIDE DEF m, v
<1>9. u \in Removable(l, Old(names)) <=> v \in Removable(m, names)
  BY <1>4, <1>6, <1>7, <1>8
<1> QED
  BY <1>5, <1>9 DEF m, v

LEMMA RenamedSkeleton ==
  ASSUME NEW l \in Line, NEW names, Hidden(Rename(l), names)
  PROVE  Skeleton(Rename(l), names) = Skeleton(l, Old(names))
<1> PICK off : Ends(l, off)
  BY EndsExist
<1> DEFINE m == Rename(l)
           J == Outside(l, Removable(l, Old(names)))
           K == Outside(m, Removable(m, names))
<1>1. /\ l \in Seq(STRING) /\ m \in Seq(STRING) /\ Len(l) \in Nat /\ Len(m) \in Nat
      /\ DOMAIN l = 1..Len(l) /\ DOMAIN m = 1..Len(m)
  BY RenamedLine DEF Line
<1>2. /\ J \in SUBSET (1..Len(l)) /\ K \in SUBSET (1..Len(m))
      /\ \A p \in 1..Len(l) :
           p \in J <=> \A u \in Removable(l, Old(names)) : p \notin u.from..u.to
      /\ \A q \in 1..Len(m) :
           q \in K <=> \A v \in Removable(m, names) : q \notin v.from..v.to
  BY <1>1 DEF Outside
<1>3. \A u \in Removable(l, Old(names)) : u \in Words(l)
  BY DEF Removable
<1>4. \A v \in Removable(m, names) : v \in Words(m)
  BY DEF Removable
<1>5. ASSUME NEW p \in J
      PROVE  /\ p \in 1..Len(l) /\ off[p - 1] \in Nat /\ off[p] \in Nat
             /\ off[p] = off[p - 1] + 1 /\ m[off[p]] = l[p] /\ off[p] \in 1..Len(m)
  <2>1. ASSUME NEW u \in Renamed(l), p \in u.from..u.to
        PROVE  FALSE
    <3>1. u \in Words(l)
      BY DEF Renamed
    <3>2. u \in Removable(l, Old(names))
      BY <3>1, MovedRemovable
    <3> QED
      BY <1>2, <2>1, <3>2
  <2>2. p \in 1..Len(l)
    BY <1>2
  <2> QED
    BY <2>1, <2>2, KeptAt
<1>6. ASSUME NEW p \in J
      PROVE  off[p] \in K /\ m[off[p]] = l[p]
  <2>1. /\ p \in 1..Len(l) /\ off[p - 1] < off[p] /\ off[p] <= off[p]
        /\ m[off[p]] = l[p] /\ off[p] \in 1..Len(m)
    BY <1>5
  <2>2. ASSUME NEW v \in Removable(m, names), off[p] \in v.from..v.to
        PROVE  FALSE
    <3>1. v \in Words(m)
      BY <1>4
    <3>2. PICK q \in v.from..v.to : q = off[p]
      BY <2>2
    <3>3. PICK u \in Words(l) : p \in u.from..u.to /\ v = Moved(off, u)
      BY <2>1, <3>1, <3>2, WordCameFrom
    <3>4. u \in Removable(l, Old(names))
      BY <3>3, MovedRemovable
    <3> QED
      BY <1>2, <2>1, <3>3, <3>4
  <2> QED
    BY <1>2, <2>1, <2>2
<1>7. ASSUME NEW p \in J, NEW q \in J, p < q
      PROVE  off[p] < off[q]
  <2>1. p \in 0..Len(l) /\ q - 1 \in 0..Len(l) /\ p <= q - 1
    BY <1>1, <1>5, <1>7
  <2>2. off[p] <= off[q - 1]
    BY <2>1, EndsInOrder
  <2> QED
    BY <1>5, <2>2
<1>8. ASSUME NEW q \in K
      PROVE  \E p \in J : off[p] = q
  <2>1. q \in 1..Len(m) /\ q \in Nat
    BY <1>2
  <2>2. PICK p \in 1..Len(l) : off[p - 1] < q /\ q <= off[p]
    BY <2>1, ComesFrom
  <2>3. ASSUME NEW u \in Removable(l, Old(names)), p \in u.from..u.to
        PROVE  FALSE
    <3>1. u \in Words(l) /\ Moved(off, u) \in Removable(m, names)
      BY <1>3, MovedRemovable
    <3>2. q \in Moved(off, u).from..Moved(off, u).to
      BY <2>1, <2>2, <2>3, <3>1, InMovedWord
    <3> QED
      BY <1>2, <2>1, <3>1, <3>2
  <2>4. p \in J
    BY <1>2, <2>3
  <2>5. off[p] = q
    BY <1>5, <2>1, <2>2, <2>4
  <2> QED
    BY <2>4, <2>5
<1> HIDE DEF m, J, K
<1>9. AtPlaces(l, J) = AtPlaces(m, K)
  <2>1. PICK M \in Seq(STRING) : M = m
    BY <1>1
  <2>2. J \in SUBSET (1..Len(l)) /\ K \in SUBSET (1..Len(M))
    BY <1>2, <2>1
  <2>3. \A p \in J : off[p] \in K /\ M[off[p]] = l[p]
    BY <1>6, <2>1
  <2>4. \A p, q \in J : p < q => off[p] < off[q]
    BY <1>7
  <2>5. \A q \in K : \E p \in J : off[p] = q
    BY <1>8
  <2>6. AtPlaces(l, J) = AtPlaces(M, K)
    BY <1>1, <2>2, <2>3, <2>4, <2>5, SameExcerpt
  <2> QED
    BY <2>1, <2>6
<1> QED
  BY <1>9 DEF Skeleton, m, J, K

(***************************************************************************)
(* What RemoveVariables is given is the file or its renamed copy, and it   *)
(* has no other variables than typedefs and declarations give it: what is  *)
(* written nowhere, as the new names, is none of those of the file itself. *)
(***************************************************************************)
WrittenInv ==
  /\ written \in Files
  /\ source \in {written, [n \in DOMAIN written |-> Rename(written[n])]}
  /\ variables \subseteq typedef_names \cup Names

LEMMA WrittenInit == Init => WrittenInv
BY DEF Init, WrittenInv

LEMMA WrittenStep == CollectInv' /\ WrittenInv /\ [Next]_vars => WrittenInv'
<1> SUFFICES ASSUME CollectInv', WrittenInv, [Next]_vars
             PROVE  WrittenInv'
  OBVIOUS
<1>1. UNCHANGED <<written, source, typedef_names>>
  BY DEF Next, Collect, PassType, Search, NextSearch, NextLine, StartRemoving, Finish, vars
<1>2. Names' = Names
  BY <1>1 DEF Names, Declarations, DeclaredIn, Declared
<1>3. variables' \subseteq typedef_names' \cup Names'
  <2>1. CASE Collect
    <3>1. pc' = "collect"
      BY <2>1 DEF Collect
    <3> QED
      BY <3>1 DEF CollectInv
  <2>2. CASE variables' = variables
    BY <1>1, <1>2, <2>2 DEF WrittenInv
  <2> QED
    BY <2>1, <2>2
       DEF Next, PassType, Search, NextSearch, NextLine, StartRemoving, Finish, vars
<1> QED
  BY <1>1, <1>3 DEF WrittenInv

(* No new name is a variable of the file itself.                           *)
LEMMA NoNewName ==
  ASSUME TypeInv, WrittenInv, source = written
  PROVE  Old(variables) = variables
<1>1. ASSUME NEW name \in Range(NewName), name \in variables
      PROVE  FALSE
  <2>1. /\ name # <<>> /\ name \notin typedef_names
        /\ \A n \in DOMAIN source : Occurrences(name, source[n]) = {}
    BY NewNamesAssumption DEF TypeInv, NamesInv, WrittenInv
  <2>2. PICK d \in Declarations : name = Declared(d)
    BY <1>1, <2>1 DEF WrittenInv, Names
  <2>3. /\ d.line \in 1..Len(source) /\ d.name = d.at + Len(d.type) + 1
        /\ d.at \in Nat /\ source[d.line] \in Line /\ d.type \in Line
    BY DeclarationPlaces, DeclarationNumbers
  <2>4. PICK l \in Line, p \in Nat \ {0} : l = source[d.line] /\ p = d.name
    <3>1. Len(d.type) \in Nat
      BY <2>3 DEF Line
    <3> QED
      BY <2>3, <3>1
  <2>5. name = WordAt(l, p)
    BY <2>2, <2>4 DEF Declared
  <2>6. /\ name \in Word /\ p + Len(name) <= Len(l) + 1
        /\ SubSeq(l, p, p + Len(name) - 1) = name
    <3>1. Len(l) \in Nat
      BY DEF Line
    <3>2. p <= Len(l)
      BY <2>1, <2>5, <3>1, NameRead
    <3> QED
      BY <2>5, <3>2, NameRead
  <2>7. p \in Occurrences(name, l)
    <3>1. name \in Line
      BY <2>6, WordIsLine
    <3> QED
      BY <2>6, <3>1, OccurrenceIn
  <2>8. d.line \in DOMAIN source
    BY <2>3, RemoveFacts
  <2> QED
    BY <2>1, <2>4, <2>7, <2>8
<1> QED
  BY <1>1 DEF Old, Range

(***************************************************************************)
(* For every file and every way to rename its variables to words that are  *)
(* not in it: where the renamed words are variables of the copy, no line   *)
(* of which begins with one, the file without its variables is what is     *)
(* left of the copy.                                                       *)
(***************************************************************************)
THEOREM RenamingNotSeen == Spec => []RenamingUnseen
<1>1. TypeInv /\ WrittenInv /\ RemovesTheWords => RenamingUnseen
  <2> SUFFICES ASSUME TypeInv, WrittenInv, RemovesTheWords,
                      pc = "done", Untangled, RenamesVariables
               PROVE  data = [n \in DOMAIN written |-> Skeleton(written[n], Old(variables))]
    BY DEF RenamingUnseen, Old
  <2>1. data = [n \in DOMAIN source |-> Skeleton(source[n], variables)]
    BY DEF RemovesTheWords
  <2>2. CASE source = written
    BY <2>1, <2>2, NoNewName
  <2>3. CASE source = [n \in DOMAIN written |-> Rename(written[n])]
    <3>1. DOMAIN source = DOMAIN written /\ \A n \in DOMAIN written : source[n] = Rename(written[n])
      BY <2>3
    <3>2. \A n \in DOMAIN written : written[n] \in Line
      BY LinesAssumption DEF WrittenInv, Line
    <3>3. \A n \in DOMAIN written : Hidden(Rename(written[n]), variables)
      BY <3>1 DEF RenamesVariables, Hidden
    <3>4. \A n \in DOMAIN written :
            Skeleton(source[n], variables) = Skeleton(written[n], Old(variables))
      BY <3>1, <3>2, <3>3, RenamedSkeleton
    <3> QED
      BY <2>1, <3>1, <3>4
  <2> QED
    BY <2>2, <2>3 DEF WrittenInv
<1>2. Init => TypeInv /\ CollectInv /\ WrittenInv
  BY TypeInit, CollectInit, WrittenInit
<1>3. TypeInv /\ CollectInv /\ WrittenInv /\ CollectsTheDeclared /\ [Next]_vars
        => TypeInv' /\ CollectInv' /\ WrittenInv'
  BY TypeStep, CollectStep, WrittenStep
<1>4. Spec => [](TypeInv /\ WrittenInv)
  BY <1>2, <1>3, CollectsDeclared, PTL DEF Spec
<1> QED
  BY <1>1, <1>4, RemovesWords, PTL

------------------------------------------------------------------------------
(***************************************************************************)
(* The names RemoveVariables starts with are those GetTypedefNames finds.  *)
(* What holds of its scanner, Typedefs, for any names, any way of reducing *)
(* them to letters and any bound on the brackets.                          *)
(*                                                                         *)
(* The three invariants are inductive together, and in one direction only: *)
(* the type of the stack needs the flag (a pop happens with the flag up    *)
(* only), and the names of a tidy file need the stack and the flag to      *)
(* agree before its brackets can be told from those outside a typedef.     *)
(***************************************************************************)

(* The flag goes up with a push and down with the pop of the last bracket:  *)
(* GetTypedefNames never pops an empty stack.                               *)
LEMMA ScanKeepsFlag ==
  ASSUME NEW line \in TypedefLine, TypedefsTypeOK, FlagMatchesStack, Scan(line)
  PROVE  FlagMatchesStack'
<1> USE DEF TypedefsTypeOK, FlagMatchesStack
<1>1. CASE IsTypedef' = TRUE /\ Push(line)
  BY <1>1 DEF Push
<1>2. CASE IsTypedef /\ UNCHANGED IsTypedef /\ Push(line)
  BY <1>2 DEF Push
<1>3. CASE IsTypedef /\ Pop(line)
  <2>1. CASE brackets > 1
    BY <1>3, <2>1 DEF Pop
  <2>2. CASE ~ (brackets > 1)
    BY <1>3, <2>2 DEF Pop
  <2> QED BY <2>1, <2>2
<1>4. CASE UNCHANGED <<IsTypedef, brackets, found>>
  BY <1>4
<1> QED BY <1>1, <1>2, <1>3, <1>4 DEF Scan

(* What PushTypedefNames stores are the letters of some names, or nothing.  *)
LEMMA PushedNames ==
  ASSUME NEW line \in TypedefLine
  PROVE  PushTypedefNames(line)
           \subseteq {NoName} \cup {LettersOf[name] : name \in TypeNames}
BY DEF PushTypedefNames, TypedefLine

(* GetTypedefNames keeps its variables in their types.                      *)
LEMMA ScanKeepsType ==
  ASSUME NEW line \in TypedefLine, TypedefsTypeOK, FlagMatchesStack, ScanLine(line)
  PROVE  TypedefsTypeOK'
<1> USE BoundAssumption DEF TypedefsTypeOK, FlagMatchesStack, ScanLine
<1>1. tidy' \in BOOLEAN
  BY DEF ReadAsC
<1>2. depth' \in Nat
  BY DEF ReadAsC
<1>3. declared' \subseteq TypeNames
  BY DEF ReadAsC, TypedefLine
<1>4. /\ IsTypedef' \in BOOLEAN /\ brackets' \in 0..MaxBrackets
      /\ found' \subseteq {NoName} \cup {LettersOf[name] : name \in TypeNames}
  <2>1. CASE Push(line) /\ IsTypedef' \in BOOLEAN
    BY <2>1 DEF Push
  <2>2. CASE IsTypedef /\ Pop(line)
    <3>1. /\ IsTypedef' = IsTypedef \/ IsTypedef' = FALSE
          /\ found' \subseteq found \cup PushTypedefNames(line)
          /\ brackets' = brackets - 1
      BY <2>2 DEF Pop
    <3>2. brackets' \in 0..MaxBrackets
      BY <2>2, <3>1
    <3>3. found' \subseteq {NoName} \cup {LettersOf[name] : name \in TypeNames}
      BY <3>1, PushedNames
    <3> QED BY <3>1, <3>2, <3>3
  <2>3. CASE UNCHANGED <<IsTypedef, brackets, found>>
    BY <2>3
  <2> QED BY <2>1, <2>2, <2>3 DEF Scan
<1> QED BY <1>1, <1>2, <1>3, <1>4

(* On the tidy lines the scan of GetTypedefNames does what a reader of C    *)
(* does.                                                                    *)
LEMMA ScanFindsTheNames ==
  ASSUME NEW line \in TypedefLine, TypedefsTypeOK, FlagMatchesStack,
         FindsTheNames, ScanLine(line)
  PROVE  FindsTheNames'
<1> SUFFICES ASSUME tidy'
             PROVE  /\ brackets' = depth'
                    /\ found' = {LettersOf[name] : name \in declared'}
  BY DEF FindsTheNames
<1>1. Scan(line) /\ ReadAsC(line)
  BY DEF ScanLine
<1>2. tidy /\ TidyLine(line)
  BY <1>1 DEF ReadAsC
<1>3. brackets = depth /\ found = {LettersOf[name] : name \in declared}
  BY <1>2 DEF FindsTheNames
<1>4. depth \in Nat /\ (IsTypedef <=> depth > 0)
  BY <1>3 DEF TypedefsTypeOK, FlagMatchesStack
<1>5. CASE line.marks = {}
  BY <1>1, <1>3, <1>5 DEF Scan, ReadAsC
<1>6. CASE line.marks = {"open"}
  <2>1. CASE depth > 0
    BY <1>1, <1>3, <1>4, <1>6, <2>1 DEF Scan, Push, ReadAsC
  <2>2. CASE depth = 0
    BY <1>1, <1>3, <1>4, <1>6, <2>2 DEF Scan, ReadAsC
  <2> QED BY <1>4, <2>1, <2>2
<1>7. CASE line.marks = {"close"} /\ (depth = 1 => line.names # {})
  <2>1. CASE depth = 0
    BY <1>1, <1>3, <1>4, <1>7, <2>1 DEF Scan, ReadAsC
  <2>2. CASE depth = 1
    <3>1. Pop(line)
      <4>1. IsTypedef /\ "typedef" \notin line.marks /\ line.marks # {}
        BY <1>4, <1>7, <2>2
      <4>2. "open" \notin line.marks
        BY <1>7
      <4> QED BY <1>1, <4>1, <4>2 DEF Scan
    <3>2. brackets' = 0 /\ depth' = 0
      BY <1>1, <1>3, <1>7, <2>2, <3>1 DEF Pop, ReadAsC
    <3>3. found' = found \cup {LettersOf[name] : name \in line.names}
      BY <1>3, <1>7, <2>2, <3>1 DEF Pop, PushTypedefNames
    <3>4. declared' = declared \cup line.names
      BY <1>1, <1>7, <2>2 DEF ReadAsC
    <3> QED BY <1>3, <3>2, <3>3, <3>4
  <2>3. CASE depth > 1
    <3>1. Pop(line)
      BY <1>1, <1>4, <1>7, <2>3 DEF Scan
    <3>2. brackets' = depth' /\ UNCHANGED found
      BY <1>1, <1>3, <1>4, <1>7, <2>3, <3>1 DEF Pop, ReadAsC
    <3>3. UNCHANGED declared
      BY <1>1, <1>4, <1>7, <2>3 DEF ReadAsC
    <3> QED BY <1>3, <3>2, <3>3
  <2> QED BY <1>4, <2>1, <2>2, <2>3
<1>8. CASE line.marks = {"typedef", "open"} /\ depth = 0
  BY <1>1, <1>3, <1>8 DEF Scan, Push, ReadAsC
<1> QED BY <1>2, <1>5, <1>6, <1>7, <1>8 DEF TidyLine

ScannerInv == TypedefsTypeOK /\ FlagMatchesStack /\ FindsTheNames

(* The three invariants of the scanner hold together at every line.         *)
LEMMA ScannerInvariance == TypedefsSpec => []ScannerInv
<1>1. TypedefsInit => ScannerInv
  <2> SUFFICES ASSUME TypedefsInit
               PROVE  TypedefsTypeOK /\ FlagMatchesStack /\ FindsTheNames
    BY DEF ScannerInv
  <2>1. TypedefsTypeOK /\ FlagMatchesStack
    <3>1. IsTypedef = FALSE /\ brackets = 0 /\ FlagMatchesStack
      BY DEF TypedefsInit, FlagMatchesStack
    <3>2. 0 \in 0..MaxBrackets
      BY BoundAssumption
    <3> QED BY <3>1, <3>2 DEF TypedefsInit, TypedefsTypeOK
  <2>2. FindsTheNames
    <3>1. {LettersOf[name] : name \in declared} = {}
      BY DEF TypedefsInit
    <3>2. found = {} /\ brackets = 0 /\ depth = 0
      BY DEF TypedefsInit
    <3> QED BY <3>1, <3>2, Zenon DEF FindsTheNames
  <2> QED BY <2>1, <2>2
<1>2. ScannerInv /\ [TypedefsNext]_typedefs_vars => ScannerInv'
  <2> SUFFICES ASSUME ScannerInv, [TypedefsNext]_typedefs_vars PROVE ScannerInv'
    OBVIOUS
  <2>1. CASE NextFile
    <3>1. TypedefsTypeOK' /\ FlagMatchesStack'
      <4>1. IsTypedef' = FALSE /\ brackets' = 0 /\ FlagMatchesStack'
        BY <2>1 DEF NextFile, FlagMatchesStack
      <4>2. 0 \in 0..MaxBrackets
        BY BoundAssumption
      <4> QED BY <2>1, <4>1, <4>2 DEF NextFile, TypedefsTypeOK
    <3>2. FindsTheNames'
      <4>1. {LettersOf[name] : name \in declared'} = {}
        BY <2>1 DEF NextFile
      <4>2. found' = {} /\ brackets' = 0 /\ depth' = 0
        BY <2>1 DEF NextFile
      <4> QED BY <4>1, <4>2, Zenon DEF FindsTheNames
    <3> QED BY <3>1, <3>2 DEF ScannerInv
  <2>2. ASSUME NEW line \in TypedefLine, ScanLine(line) PROVE ScannerInv'
    <3>1. /\ TypedefsTypeOK /\ FlagMatchesStack /\ FindsTheNames
      BY DEF ScannerInv
    <3>2. Scan(line)
      BY <2>2 DEF ScanLine
    <3> QED BY <2>2, <3>1, <3>2, ScanKeepsType, ScanKeepsFlag, ScanFindsTheNames DEF ScannerInv
  <2>3. CASE UNCHANGED typedefs_vars
    BY <2>3 DEF ScannerInv, typedefs_vars, TypedefsTypeOK, FlagMatchesStack,
                FindsTheNames
  <2> QED BY <2>1, <2>2, <2>3 DEF TypedefsNext
<1> QED BY <1>1, <1>2, PTL DEF TypedefsSpec

(* The flag, the stack and the names of GetTypedefNames keep their types:   *)
(* what it stores is a name's letters, or the empty name.                   *)
THEOREM ScannerTypeCorrect == TypedefsSpec => []TypedefsTypeOK
<1>1. ScannerInv => TypedefsTypeOK
  BY DEF ScannerInv
<1> QED BY <1>1, ScannerInvariance, PTL

(* GetTypedefNames pops a bracket only if there is one, whatever the file:  *)
(* std::stack::pop is never called on an empty stack.                       *)
THEOREM PopsWhatItPushed == TypedefsSpec => []FlagMatchesStack
<1>1. ScannerInv => FlagMatchesStack
  BY DEF ScannerInv
<1> QED BY <1>1, ScannerInvariance, PTL

(* In a file laid out as GetTypedefNames expects, it finds the names its    *)
(* typedefs declare, and no others, however deep their bodies are nested.   *)
THEOREM NamesFound == TypedefsSpec => []FindsTheNames
<1>1. ScannerInv => FindsTheNames
  BY DEF ScannerInv
<1> QED BY <1>1, ScannerInvariance, PTL
==============================================================================
