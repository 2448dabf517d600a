------------------------------ MODULE Typedefs -------------------------------
(***************************************************************************)
(* SignatureCompare::GetTypedefNames (src/src/src/signaturecompare.cc): it *)
(* finds the names given by "typedef struct { ... } a, b;" with a flag and *)
(* a stack of brackets, one line at a time.                                *)
(*                                                                         *)
(* A line is the marks it has ("typedef", an opening and a closing         *)
(* bracket) and the names behind a closing bracket, before which only      *)
(* blanks stand.  The stack only ever holds '{': it is its height.         *)
(***************************************************************************)
EXTENDS Integers

CONSTANTS
  TypeNames,   \* names of types, as written
  LettersOf,   \* LettersOf[name]: the letters of a name, which alone are kept
  NoName,      \* the empty name
  MaxBrackets  \* a bound on open brackets, for TLC

ASSUME BoundAssumption == MaxBrackets \in Nat

Mark == {"typedef", "open", "close"}
TypedefLine == [marks : SUBSET Mark, names : SUBSET TypeNames]

VARIABLES
  IsTypedef, brackets,
  found,     \* typedef_names
  (* History: what a reader makes of the file, as long as it is tidy. *)
  tidy,      \* every line so far was as the code expects it
  depth,     \* open brackets of the typedef the scan is in
  declared   \* the names given by typedefs so far

typedefs_vars == <<IsTypedef, brackets, found, tidy, depth, declared>>

TypedefsInit ==
  /\ IsTypedef = FALSE /\ brackets = 0 /\ found = {}
  /\ tidy = TRUE /\ depth = 0 /\ declared = {}

(* PushTypedefNames: what lies between the commas, even when it is nothing. *)
PushTypedefNames(line) ==
  IF line.names = {} THEN {NoName} ELSE {LettersOf[name] : name \in line.names}

Push(line) ==
  /\ brackets' = brackets + 1
  /\ UNCHANGED found

(* Mutant: the bracket that ends the definition is taken for an inner one. *)
PopLate(line) ==
  /\ brackets' = brackets - 1
  /\ IF brackets > 0
     THEN UNCHANGED <<IsTypedef, found>>
     ELSE /\ IsTypedef' = FALSE
          /\ found' = found \cup PushTypedefNames(line)

(* Mutant: the flag is not taken back. *)
PopKeepingFlag(line) ==
  /\ brackets' = brackets - 1
  /\ UNCHANGED IsTypedef
  /\ found' = IF brackets > 1 THEN found
              ELSE found \cup PushTypedefNames(line)

(* The last bracket ends the definition, and names follow. *)
Pop(line) ==
  /\ brackets' = brackets - 1
  /\ IF brackets > 1
     THEN UNCHANGED <<IsTypedef, found>>
     ELSE /\ IsTypedef' = FALSE
          /\ found' = found \cup PushTypedefNames(line)

(* Mutant: an "else" is missing, and the bracket of a typedef counts twice. *)
ScanWithoutElse(line) ==
  \/ /\ "typedef" \in line.marks /\ IsTypedef' = TRUE
     /\ brackets' = brackets + (IF "open" \in line.marks THEN 2 ELSE 1)
     /\ UNCHANGED found
  \/ /\ "typedef" \notin line.marks /\ IsTypedef /\ "open" \in line.marks
     /\ UNCHANGED IsTypedef /\ Push(line)
  \/ /\ "typedef" \notin line.marks /\ IsTypedef /\ line.marks = {"close"}
     /\ Pop(line)
  \/ /\ "typedef" \notin line.marks /\ (IsTypedef => line.marks = {})
     /\ UNCHANGED <<IsTypedef, brackets, found>>

(* Only one mark of a line counts: a typedef, an opening bracket, a closing. *)
Scan(line) ==
  \/ "typedef" \in line.marks /\ IsTypedef' = TRUE /\ Push(line)
  \/ /\ "typedef" \notin line.marks /\ IsTypedef /\ "open" \in line.marks
     /\ UNCHANGED IsTypedef /\ Push(line)
  \/ /\ "typedef" \notin line.marks /\ IsTypedef
     /\ "open" \notin line.marks /\ "close" \in line.marks
     /\ Pop(line)
  \/ /\ "typedef" \notin line.marks /\ (IsTypedef => line.marks = {})
     /\ UNCHANGED <<IsTypedef, brackets, found>>

(***************************************************************************)
(* A line as the code expects it: one bracket at most, that of a typedef   *)
(* on the line of the word, and the names on the line of the last one.  It *)
(* is not made for "typedef int count_t;", whose bracket is never closed,  *)
(* nor for a typedef whose "{" is on the next line.                        *)
(***************************************************************************)
TidyLine(line) ==
  \/ line.marks \in {{}, {"open"}}
  \/ line.marks = {"close"} /\ (depth = 1 => line.names # {})
  \/ line.marks = {"typedef", "open"} /\ depth = 0

(* The brackets and the names of a tidy line as they really are. *)
ReadAsC(line) ==
  /\ tidy' = (tidy /\ TidyLine(line))
  /\ depth' = IF "typedef" \in line.marks THEN 1
              ELSE IF depth > 0 /\ line.marks = {"open"} THEN depth + 1
              ELSE IF depth > 0 /\ line.marks = {"close"} THEN depth - 1
              ELSE depth
  /\ declared' = IF depth = 1 /\ line.marks = {"close"}
                 THEN declared \cup line.names ELSE declared

ScanLine(line) ==
  /\ brackets < MaxBrackets /\ depth < MaxBrackets
  /\ Scan(line) /\ ReadAsC(line)

(* The next file: all variables of GetTypedefNames are its locals. *)
NextFile ==
  /\ IsTypedef' = FALSE /\ brackets' = 0 /\ found' = {}
  /\ tidy' = TRUE /\ depth' = 0 /\ declared' = {}

TypedefsNext == NextFile \/ \E line \in TypedefLine : ScanLine(line)

TypedefsSpec == TypedefsInit /\ [][TypedefsNext]_typedefs_vars
------------------------------------------------------------------------------
TypedefsTypeOK ==
  /\ IsTypedef \in BOOLEAN /\ tidy \in BOOLEAN
  /\ brackets \in 0..MaxBrackets /\ depth \in Nat
  /\ found \subseteq {NoName} \cup {LettersOf[name] : name \in TypeNames}
  /\ declared \subseteq TypeNames

(***************************************************************************)
(* The flag is up exactly while the stack holds a bracket, whatever the    *)
(* lines: no pop of an empty stack, no bracket left when the scan is out   *)
(* of a typedef.                                                           *)
(***************************************************************************)
FlagMatchesStack == IsTypedef <=> brackets > 0

(* In a tidy file the stack is the nesting, and each typedef's names, and   *)
(* no others, are found.                                                    *)
FindsTheNames ==
  tidy => /\ brackets = depth
          /\ found = {LettersOf[name] : name \in declared}
==============================================================================
