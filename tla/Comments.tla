------------------------------ MODULE Comments -------------------------------
(***************************************************************************)
(* The comment stripper over the lines of one file after another: its      *)
(* static variable says whether it is inside /* ... */ and is never reset. *)
(***************************************************************************)
EXTENDS CommentRules

CONSTANT Lines   \* the lines of the files, sequences of characters

ASSUME LinesAssumption == Lines \subseteq Seq(STRING)

VARIABLES
  IsOpenCommentary,   \* the static variable: it is never reset
  inside,             \* by the rules of C, the next line begins in a comment
  line,               \* the last line
  output              \* what RemoveCommentaries made of it

vars == <<IsOpenCommentary, inside, line, output>>

Init == IsOpenCommentary = FALSE /\ inside = FALSE /\ line = <<>> /\ output = <<>>

(* The next line of the file. *)
NextLine(l) ==
  LET result == RemoveCommentaries(IsOpenCommentary, l)
  IN  /\ Tidy(inside, l)
      /\ line' = l
      /\ output' = result.line
      /\ IsOpenCommentary' = result.open
      /\ inside' = Stripped(inside, l).open

(***************************************************************************)
(* The next of the peer's files.  It begins outside comments by the rules  *)
(* of C; a file that compiles ends outside them too.                       *)
(***************************************************************************)
NextFile ==
  /\ ~ inside
  /\ line' = <<>> /\ output' = <<>>
  /\ UNCHANGED <<IsOpenCommentary, inside>>

Next == NextFile \/ \E l \in Lines : NextLine(l)

Spec == Init /\ [][Next]_vars
------------------------------------------------------------------------------
(***************************************************************************)
(* After any number of tidy lines the static variable says what C says:    *)
(* the next line, of this file or of the next one, is stripped rightly.    *)
(***************************************************************************)
InStep == IsOpenCommentary = inside

(* What is left of a tidy line is what the rules of C leave of it. *)
LeftByC == output' = Stripped(inside, line').line

StripsLikeC == [][LeftByC]_vars
==============================================================================
