----------------------------- MODULE Variables ------------------------------
(***************************************************************************)
(* SignatureCompare::RemoveVariables (src/src/src/signaturecompare.cc):    *)
(* what is written behind the name of a type is a variable, and variables  *)
(* are erased from the file, so that renaming them does not hide a copy.   *)
(*                                                                         *)
(* A line is a sequence of characters; the types, whose letters do not     *)
(* matter, may be of one letter.  Places in a line are counted from 1.     *)
(***************************************************************************)
EXTENDS Excerpts, SequencesExt, FiniteSetsExt, Functions

CONSTANTS
  Letters,
  Joints,         \* "_" and digits: parts of words, but not letters
  Blank, Close,   \* a white space, and ")"
  VarTypes,       \* the sequence of types RemoveVariables starts with
  Files,          \* files, as they reach RemoveVariables
  TypedefNames,   \* what GetTypedefNames may have found: sets of words
  NewName         \* NewName[word]: another name for a variable

(* Behind the last character of a line is the terminating NUL.             *)
NUL == "NUL"

ASSUME LettersAssumption ==
  /\ Letters \cup Joints \subseteq STRING /\ Letters \cap Joints = {}
  /\ {Close, NUL} \cap (Letters \cup Joints) = {}

ASSUME LinesAssumption ==
  Files \subseteq Seq(Seq(STRING)) /\ VarTypes \in Seq(Seq(STRING))

(* GetTypedefNames keeps the letters of a name only, be there any or none. *)
ASSUME NamesAssumption ==
  \A names \in TypedefNames : IsFiniteSet(names) /\ names \subseteq Seq(Letters)

VARIABLES
  written,         \* a file
  source,          \* that file, or a copy of it whose variables are renamed
  typedef_names,
  data,            \* the file RemoveVariables works on
  variables,
  pc,              \* "collect" and "remove", its two loops, and "done"
  list,            \* what a loop looks for in each line: types, or variables
  i, k,            \* the line, and the entry of the list, it is at
  find,            \* find_result, find_iterator: where the next search begins
  buffer           \* the last name read: it outlives its loop's turn

vars == <<written, source, typedef_names, data, variables, pc, list, i, k, find, buffer>>
------------------------------------------------------------------------------
WordChar == Letters \cup Joints

(* The places where a name occurs; string::find takes the first from one on. *)
Occurrences(name, line) ==
  {p \in 1..(Len(line) - Len(name) + 1) : SubSeq(line, p, p + Len(name) - 1) = name}

(* The character at a place. *)
At(line, p) == IF p \in DOMAIN line THEN line[p] ELSE NUL

(* The other names are words, and new: they are written nowhere.           *)
ASSUME NewNamesAssumption ==
  \A name \in Range(NewName) :
    /\ name \in Seq(WordChar) /\ name # <<>> /\ name \notin UNION TypedefNames
    /\ \A file \in Files : \A n \in DOMAIN file : Occurrences(name, file[n]) = {}

(* Mutant: only a letter continues a word. *)
EndOfLetters(symbol) == symbol \notin Letters

IsStartOfVar(symbol) == symbol \notin Letters
IsEndOfVar(symbol)   == symbol \notin WordChar

(* A place of a type that counts: the line's first, or between separators. *)
IsVarType(line, type, p) ==
  p > 1 => IsStartOfVar(line[p - 1]) /\ At(line, p + Len(type)) = Blank

(* Mutant: the name takes the character that ends it along. *)
WordAndEnd(line, p) ==
  LET end == Min({q \in p..(Len(line) + 1) : IsEndOfVar(At(line, q))})
  IN  IF p > Len(line) THEN <<>> ELSE SubSeq(line, p, Min({end, Len(line)}))

(* ReadVariableName: from a place, up to the end of the word it is in. *)
WordAt(line, p) ==
  LET end == Min({q \in p..(Len(line) + 1) : IsEndOfVar(At(line, q))})
  IN  IF p > Len(line) THEN <<>> ELSE SubSeq(line, p, end - 1)
------------------------------------------------------------------------------
(* Words, as a reader sees them, with no other character of a word beside. *)
Words(line) ==
  {w \in [from : DOMAIN line, to : DOMAIN line] :
     /\ w.from <= w.to /\ \A m \in w.from..w.to : line[m] \in WordChar
     /\ w.from > 1 => line[w.from - 1] \notin WordChar
     /\ w.to < Len(line) => line[w.to + 1] \notin WordChar}

Text(line, w) == SubSeq(line, w.from, w.to)

(* The words of a line that have another name, and what stands for the     *)
(* character of a place once they are replaced by it.                      *)
Renamed(line) == {w \in Words(line) : Text(line, w) \in DOMAIN NewName}

Replacement(line, p) ==
  IF \E w \in Renamed(line) : w.from = p
  THEN NewName[Text(line, CHOOSE w \in Renamed(line) : w.from = p)]
  ELSE IF \E w \in Renamed(line) : p \in w.from..w.to THEN <<>> ELSE <<line[p]>>

Rename(line) == FlattenSeq([p \in DOMAIN line |-> Replacement(line, p)])

(* The words of a set that are in a line, but for the line's first word.   *)
Removable(line, names) == {w \in Words(line) : w.from > 1 /\ Text(line, w) \in names}

(* The places that are in none of some words.                              *)
Outside(line, words) == DOMAIN line \ UNION {w.from..w.to : w \in words}

(* What is left of a line without the words of a set, but for its first.   *)
Skeleton(line, names) == AtPlaces(line, Outside(line, Removable(line, names)))
------------------------------------------------------------------------------
(* The list a loop goes through: sets come in any order, but in one. *)
Init ==
  /\ written \in Files /\ typedef_names \in TypedefNames
  /\ source \in {written, [n \in DOMAIN written |-> Rename(written[n])]}
  /\ data = source /\ variables = typedef_names
  /\ pc = "collect" /\ list \in {VarTypes \o names : names \in SetToSeqs(typedef_names)}
  /\ i = 1 /\ k = 1 /\ find = 1 /\ buffer = <<>>

Searching == i <= Len(data) /\ k <= Len(list)
Hits      == {p \in Occurrences(list[k], data[i]) : p >= find}

(* Mutant: the buffer is not cleared. *)
ReadAppending(q) ==
  \/ At(data[i], q) = Close /\ find' = q /\ UNCHANGED buffer
  \/ /\ At(data[i], q) # Close
     /\ buffer' = buffer \o WordAt(data[i], q)
     /\ find' = q + Len(WordAt(data[i], q))

(***************************************************************************)
(* ReadVariableName at q: nothing is read, and the buffer keeps its name,  *)
(* if ")" is there.  Behind a line that ends in a type q is even behind    *)
(* the NUL, and any byte may be found there.                               *)
(***************************************************************************)
ReadVariableName(q) ==
  \/ /\ At(data[i], q) = Close \/ q > Len(data[i]) + 1
     /\ find' = q /\ UNCHANGED buffer
  \/ /\ At(data[i], q) # Close
     /\ buffer' = WordAt(data[i], q) /\ find' = q + Len(buffer')

(* The type's place counts: its variable is one character behind it. *)
Collect ==
  /\ pc = "collect" /\ Searching /\ Hits # {}
  /\ IsVarType(data[i], list[k], Min(Hits))
  /\ ReadVariableName(Min(Hits) + Len(list[k]) + 1)
  /\ variables' = variables \cup ({buffer'} \ {<<>>})
  /\ UNCHANGED <<written, source, typedef_names, data, pc, list, i, k>>

PassType ==
  /\ pc = "collect" /\ Searching /\ Hits # {}
  /\ ~ IsVarType(data[i], list[k], Min(Hits))
  /\ find' = Min(Hits) + 1
  /\ UNCHANGED <<written, source, typedef_names, data, variables, pc, list, i, k, buffer>>

(* Mutant: the character behind the occurrence is not looked at. *)
IsVariableAnyEnd(line, name, p) == IsStartOfVar(line[p - 1])

Erase(line, p, n) == SubSeq(line, 1, p - 1) \o SubSeq(line, p + n, Len(line))

(* RemoveVariableFromFileData: an occurrence that is a word, by these rules. *)
IsVariable(line, name, p) ==
  IsStartOfVar(line[p - 1]) /\ IsEndOfVar(At(line, p + Len(name)))

(* Mutant: an occurrence that is left alone is found again. *)
SearchStanding ==
  /\ pc = "remove" /\ Searching /\ Hits # {}
  /\ LET p == Min(Hits) IN
     \/ ~ IsVariable(data[i], list[k], p) /\ find' = p /\ UNCHANGED data
     \/ /\ IsVariable(data[i], list[k], p) /\ find' = p + 1
        /\ data' = [data EXCEPT ![i] = Erase(data[i], p, Len(list[k]))]
  /\ UNCHANGED <<written, source, typedef_names, variables, pc, list, i, k, buffer>>

Search ==
  /\ pc = "remove" /\ Searching /\ Hits # {}
  /\ LET p == Min(Hits) IN
     /\ data' = IF IsVariable(data[i], list[k], p)
                THEN [data EXCEPT ![i] = Erase(data[i], p, Len(list[k]))]
                ELSE data
     /\ find' = p + 1
  /\ UNCHANGED <<written, source, typedef_names, variables, pc, list, i, k, buffer>>

(* A search for a type begins at the first place, for a variable behind it. *)
First == IF pc = "collect" THEN 1 ELSE 2

NextSearch ==
  /\ Searching /\ Hits = {} /\ pc # "done"
  /\ k' = k + 1 /\ find' = First
  /\ UNCHANGED <<written, source, typedef_names, data, variables, pc, list, i, buffer>>

NextLine ==
  /\ i <= Len(data) /\ k > Len(list) /\ pc # "done"
  /\ i' = i + 1 /\ k' = 1 /\ find' = First
  /\ UNCHANGED <<written, source, typedef_names, data, variables, pc, list, buffer>>

StartRemoving ==
  /\ pc = "collect" /\ i > Len(data)
  /\ pc' = "remove" /\ list' \in SetToSeqs(variables)
  /\ i' = 1 /\ k' = 1 /\ find' = 2
  /\ UNCHANGED <<written, source, typedef_names, data, variables, buffer>>

Finish ==
  /\ pc = "remove" /\ i > Len(data)
  /\ pc' = "done"
  /\ UNCHANGED <<written, source, typedef_names, data, variables, list, i, k, find, buffer>>

Next ==
  \/ Collect \/ PassType \/ Search
  \/ NextSearch \/ NextLine \/ StartRemoving \/ Finish

(* One thread, and nothing in RemoveVariables waits: it runs on. *)
Spec == Init /\ [][Next]_vars /\ WF_vars(Next)
------------------------------------------------------------------------------
TypeOK ==
  /\ pc \in {"collect", "remove", "done"}
  /\ i \in 1..(Len(data) + 1) /\ k \in 1..(Len(list) + 1) /\ find \in Nat \ {0}
  /\ Len(data) = Len(source)
  /\ \A n \in DOMAIN data : Len(data[n]) <= Len(source[n])
  /\ \A name \in variables \ typedef_names : Len(name) > 0 /\ ToSet(name) \subseteq WordChar

(* The places that count in the source, with the places of their names. *)
DeclaredIn(n, type) ==
  {[line |-> n, type |-> type, at |-> p, name |-> p + Len(type) + 1] :
     p \in {q \in Occurrences(type, source[n]) : IsVarType(source[n], type, q)}}

Declarations ==
  UNION {DeclaredIn(n, type) : n \in DOMAIN source, type \in Range(VarTypes) \cup typedef_names}

Declared(d) == WordAt(source[d.line], d.name)

(* A place inside another declaration with the same type: behind the begin *)
(* of the type, and before the end of the name.                            *)
Covered(d) ==
  \E e \in Declarations :
    e.line = d.line /\ e.type = d.type /\ e.at < d.at /\ d.at < e.name + Len(Declared(e))

(***************************************************************************)
(* The variables are the names of the typedefs and the words behind the    *)
(* types, all of them: the buffer that is not cleared at ")" and the byte  *)
(* read behind the line add nothing and hide nothing.                      *)
(***************************************************************************)
CollectsTheDeclared ==
  pc = "remove" =>
    /\ variables \subseteq typedef_names \cup {Declared(d) : d \in Declarations}
    /\ \A d \in Declarations :
         Declared(d) \in variables \cup {<<>>} \/ Covered(d)

(* No variable is the end of a longer word: "x" and "my_x", "x" and "a1x". *)
Untangled ==
  \A n \in DOMAIN source, name \in variables \ {<<>>} :
    \A p \in Occurrences(name, source[n]) :
      p > 1 /\ IsVariable(source[n], name, p) => source[n][p - 1] \notin Joints

(***************************************************************************)
(* Where no variable is the end of a longer word, exactly the words that   *)
(* are variables are erased, but for a line's first: the order of the set  *)
(* does not matter, and no occurrence is passed over.                      *)
(***************************************************************************)
RemovesTheWords ==
  pc = "done" /\ Untangled =>
    data = [n \in DOMAIN source |-> Skeleton(source[n], variables)]

(* What was renamed is a variable here, and no line begins with one. *)
RenamesVariables ==
  \A n \in DOMAIN source : \A w \in Words(source[n]) :
    /\ Text(source[n], w) \in Range(NewName) => Text(source[n], w) \in variables
    /\ Text(source[n], w) \in variables => w.from > 1

(***************************************************************************)
(* Renaming the variables does not change what is compared.                *)
(***************************************************************************)
RenamingUnseen ==
  pc = "done" /\ Untangled /\ RenamesVariables =>
    LET names == variables \cup {w \in DOMAIN NewName : NewName[w] \in variables}
    IN  data = [n \in DOMAIN written |-> Skeleton(written[n], names)]

(* RemoveVariables returns, whatever names it has to look for. *)
Returns == <>(pc = "done")
==============================================================================
