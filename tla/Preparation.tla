---------------------------- MODULE Preparation -----------------------------
(***************************************************************************)
(* How the two sides of a comparison are prepared.  The peer's files are   *)
(* PeerFileData objects (peer_file_data.cc): each keeps its source and two *)
(* copies of it prepared beforehand.  A reference is prepared when it is   *)
(* read, and GetSignatureInfo has two overloads that do it differently     *)
(* (signaturecompare.cc); the one for FileData prepares both sides.        *)
(*                                                                         *)
(* A line is a sequence of characters; one, Directive, stands for the text *)
(* #include, #ifndef, #define or #endif.  The files declare no variables:  *)
(* RemoveVariables finds none in them (module Variables shows what it does *)
(* with others), and is left out.                                          *)
(***************************************************************************)
EXTENDS CommentRules, Excerpts, SequencesExt

CONSTANTS
  Blank, Quote, Directive,
  Forbidden,   \* the characters LineCompare drops: brackets, ";", tabs
  Disks,       \* what a disk may hold: functions from paths to files
  Objects,     \* the names of the PeerFileData objects
  NoPath

ASSUME CharactersAssumption ==
  Blank \notin {"/", "*", Quote} /\ Quote \notin {"/", "*"}

ASSUME DisksAssumption ==
  \A d \in Disks :
    NoPath \notin DOMAIN d /\ \A path \in DOMAIN d : d[path] \in Seq(Seq(STRING))

VARIABLES
  disk,               \* the files, line by line; nothing here writes them
  IsOpenCommentary,   \* RemoveCommentaries' static variable
  objects,            \* the PeerFileData objects
  answers             \* what the two overloads answered last

vars == <<disk, IsOpenCommentary, objects, answers>>
------------------------------------------------------------------------------
(* RemoveQuotes empties the first string of the line. *)
RemoveQuotes(line) ==
  LET quotes == {p \in DOMAIN line : line[p] = Quote}
      first  == Min(quotes)
      next   == Min((quotes \cup {Len(line) + 1}) \ {first})
  IN  IF quotes = {} THEN line
      ELSE SubSeq(line, 1, first) \o SubSeq(line, next, Len(line))

(* Of blanks in a row RemoveExtra keeps the last, if anything is around it. *)
Kept(line, p) ==
  \/ line[p] # Blank
  \/ /\ \E q \in 1..(p - 1) : line[q] # Blank
     /\ p < Len(line) /\ line[p + 1] # Blank

Squeeze(line) == AtPlaces(line, {p \in DOMAIN line : Kept(line, p)})

RemoveExtra(line) == RemoveQuotes(Squeeze(line))

NormalizeString(line) ==
  IF Contains(line, Directive) THEN <<>>
  ELSE AtPlaces(line, {p \in DOMAIN line : line[p] \notin Forbidden})

(* Mutant: lines that become empty stay. *)
AllLines(data) == data

(* Lines that become empty, or are, are left out, here and by the readers. *)
NonEmpty(data) == AtPlaces(data, {n \in DOMAIN data : data[n] # <<>>})

(* A file without its extra characters, and as its lines are compared. *)
SignatureNormalize(data) == NonEmpty([n \in DOMAIN data |-> RemoveExtra(data[n])])
NormalizeLines(data)     == NonEmpty([n \in DOMAIN data |-> NormalizeString(data[n])])

(* The static variable after each of the lines, and what is left of them.  *)
OpenAfter(open, data) ==
  LET after[n \in 0..Len(data)] ==
        IF n = 0 THEN open ELSE RemoveCommentaries(after[n - 1], data[n]).open
  IN  after

StripLines(open, data) ==
  [n \in DOMAIN data |-> RemoveCommentaries(OpenAfter(open, data)[n - 1], data[n]).line]

(* The transformation that goes through the static variable. *)
Strip(open, data) ==
  [open |-> OpenAfter(open, data)[Len(data)], data |-> NonEmpty(StripLines(open, data))]

(* ReadFileContent: of a file that cannot be opened nothing is read. *)
Read(path) == NonEmpty(disk[path])
------------------------------------------------------------------------------
NoData   == [source |-> <<>>, signatureData |-> <<>>, lineCompData |-> <<>>]
NoAnswer == [reference |-> <<>>, path |-> NoPath, source |-> <<>>, score |-> 0]

Init ==
  /\ disk \in Disks /\ IsOpenCommentary = FALSE
  /\ objects = [o \in Objects |-> NoData]
  /\ answers = [overload \in {"FileData", "PeerFileData"} |-> NoAnswer]

(* Mutant: the comments are stripped from the lines as they are. *)
AnalyzeSourceRaw(o, source) ==
  LET stripped == Strip(IsOpenCommentary, source)
  IN  /\ IsOpenCommentary' = stripped.open
      /\ objects' = [objects EXCEPT ![o] =
           [source |-> source, signatureData |-> stripped.data,
            lineCompData |-> NormalizeLines(source)]]

(* AnalyzeSource, with PrepareFileData of both comparisons. *)
AnalyzeSource(o, source) ==
  LET stripped == Strip(IsOpenCommentary, SignatureNormalize(source))
  IN  /\ IsOpenCommentary' = stripped.open
      /\ objects' = [objects EXCEPT ![o] =
           [source |-> source, signatureData |-> stripped.data,
            lineCompData |-> NormalizeLines(source)]]

(* The constructor, SetSource, and assignment, from a file's data. *)
SetSource(o, path) ==
  /\ AnalyzeSource(o, Read(path))
  /\ UNCHANGED <<disk, answers>>

(* Mutant: lineCompData is not copied. *)
CopyWithoutLines(o, from) ==
  /\ objects' = [objects EXCEPT ![o] =
                   [objects[from] EXCEPT !.lineCompData = objects[o].lineCompData]]
  /\ UNCHANGED <<disk, IsOpenCommentary, answers>>

(* The copy constructor and copy assignment. *)
Copy(o, from) ==
  /\ objects' = [objects EXCEPT ![o] = objects[from]]
  /\ UNCHANGED <<disk, IsOpenCommentary, answers>>

(* Move construction and assignment; vectors that are moved from are empty. *)
Move(o, from) ==
  /\ objects' = IF o = from THEN objects
                ELSE [objects EXCEPT ![o] = objects[from], ![from] = NoData]
  /\ UNCHANGED <<disk, IsOpenCommentary, answers>>

(* GetMatchedPercentage, truncated, and 0 if a side is empty. *)
Score(reference, checked) ==
  LET matched == Cardinality({n \in DOMAIN reference : Contains(checked, reference[n])})
      surplus == IF Len(reference) > Len(checked) THEN Len(reference) - Len(checked) ELSE 0
  IN  IF reference = <<>> \/ checked = <<>> THEN 0
      ELSE (100 * matched) \div (Len(reference) + surplus)

(***************************************************************************)
(* GetSignatureInfo(path, source): the reference's comments are stripped.  *)
(* The path is one FindSourcesC has listed, never empty.                   *)
(***************************************************************************)
CompareFileData(path, o) ==
  LET stripped  == Strip(IsOpenCommentary, disk[path])
      reference == SignatureNormalize(stripped.data)
      checked   == SignatureNormalize(objects[o].source)
  IN  /\ IsOpenCommentary' = stripped.open
      /\ answers' = [answers EXCEPT !["FileData"] =
           [reference |-> reference, path |-> path, source |-> objects[o].source,
            score |-> Score(reference, checked)]]
      /\ UNCHANGED <<disk, objects>>

(* GetSignatureInfo(path, object): they are left in. *)
ComparePeerFileData(path, o) ==
  LET reference == SignatureNormalize(disk[path])
  IN  /\ answers' = [answers EXCEPT !["PeerFileData"] =
           [reference |-> reference, path |-> path, source |-> objects[o].source,
            score |-> Score(reference, objects[o].signatureData)]]
      /\ UNCHANGED <<disk, IsOpenCommentary, objects>>

Next ==
  \/ \E o \in Objects, path \in DOMAIN disk :
       \/ SetSource(o, path)
       \/ CompareFileData(path, o) \/ ComparePeerFileData(path, o)
  \/ \E o, from \in Objects : Copy(o, from) \/ Move(o, from)

Spec == Init /\ [][Next]_vars
------------------------------------------------------------------------------
(* By the rules of C: whether a line of a file ends inside a comment, and  *)
(* what is left of the file.                                               *)
InsideAfter(data) ==
  LET after[n \in 0..Len(data)] ==
        IF n = 0 THEN FALSE ELSE Stripped(after[n - 1], data[n]).open
  IN  after

ByTheRules(data) ==
  [n \in DOMAIN data |-> Stripped(InsideAfter(data)[n - 1], data[n]).line]

Code(data) == SignatureNormalize(ByTheRules(data))

Marks(line)       == Slashes(line) \cup Opens(line) \cup Closes(line)
Uncommented(data) == \A n \in DOMAIN data : Marks(data[n]) = {}

(***************************************************************************)
(* The files the program is made for: their lines are tidy, no string is   *)
(* near a comment, and they end outside of comments.                       *)
(***************************************************************************)
TidyFile(data) ==
  /\ ~ InsideAfter(data)[Len(data)]
  /\ \A n \in DOMAIN data :
       LET inside == InsideAfter(data)[n - 1]
       IN  /\ Tidy(inside, data[n])
           /\ Contains(data[n], Quote) => Marks(data[n]) = {} /\ ~ inside

ASSUME TidyAssumption == \A d \in Disks : \A path \in DOMAIN d : TidyFile(d[path])

TypeOK ==
  /\ IsOpenCommentary \in BOOLEAN
  /\ \A o \in Objects :
       /\ DOMAIN objects[o] = {"source", "signatureData", "lineCompData"}
       /\ \A copy \in DOMAIN objects[o] :
            /\ Len(objects[o][copy]) <= Len(objects[o].source)
            /\ ~ Contains(objects[o][copy], <<>>)
  /\ \A overload \in DOMAIN answers : answers[overload].score \in 0..100

(***************************************************************************)
(* In any order of calls, whatever files came before: both ways to prepare *)
(* a file leave its code as the rules of C leave it, but for blanks around *)
(* the comments of the peer's.                                             *)
(***************************************************************************)
PreparedLikeC ==
  /\ \A o \in Objects :
       SignatureNormalize(objects[o].signatureData) = Code(objects[o].source)
  /\ answers["FileData"].path \in DOMAIN disk =>
       answers["FileData"].reference = Code(Read(answers["FileData"].path))

(***************************************************************************)
(* Every object of a file, copied and moved as may be, compares its lines  *)
(* as that file is read for a reference.                                   *)
(***************************************************************************)
LinesAlike ==
  \A o \in Objects, path \in DOMAIN disk :
    objects[o].source = Read(path) =>
      objects[o].lineCompData = NormalizeLines(disk[path])

(* The same question was put to both overloads. *)
AskedAlike ==
  LET one == answers["FileData"] other == answers["PeerFileData"]
  IN  one.path = other.path /\ one.source = other.source

(***************************************************************************)
(* Without comments the overloads answer alike, and a file that is its own *)
(* reference scores in full.                                               *)
(***************************************************************************)
UncommentedAlike ==
  LET asked == answers["PeerFileData"] IN
  asked.path \in DOMAIN disk /\ Uncommented(disk[asked.path]) /\ Uncommented(asked.source) =>
    /\ AskedAlike => answers["FileData"].score = asked.score
    /\ asked.source = Read(asked.path) /\ Code(asked.source) # <<>> => asked.score = 100

(***************************************************************************)
(* peer_file_data.h: a PeerFileData is used for analyze instead of         *)
(* FileData, prepared beforehand, to do the calculations once.             *)
(***************************************************************************)
OverloadsAgree == AskedAlike => answers["FileData"].score = answers["PeerFileData"].score
==============================================================================
