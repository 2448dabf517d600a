---------------------------- MODULE CommentRules ----------------------------
(***************************************************************************)
(* SignatureCompare::RemoveCommentaries (src/src/src/signaturecompare.cc), *)
(* which strips one line of its comments given its static variable, next   *)
(* to what the rules of C make of the line.  A line is a sequence of       *)
(* characters, all but "/" and "*" alike here.                             *)
(***************************************************************************)
EXTENDS Integers, Sequences, FiniteSetsExt

(* The places of a two-character mark: //, /*, or the end of a comment. *)
Places(mark, line) ==
  {p \in 1..(Len(line) - 1) : SubSeq(line, p, p + 1) = mark}

Slashes(line) == Places(<<"/", "/">>, line)
Opens(line)   == Places(<<"/", "*">>, line)
Closes(line)  == Places(<<"*", "/">>, line)

Before(line, p)     == SubSeq(line, 1, p - 1)
Erase(line, p, num) == Before(line, p) \o SubSeq(line, p + num, Len(line))

(* Mutant: the mark itself is not counted among the erased characters. *)
ClosedShort(line) ==
  LET start == IF Opens(line) # {} THEN Min(Opens(line)) ELSE 1
      end   == Min(Closes(line))
  IN  [line |-> Erase(line, start, end - 1),
       open |-> Opens(line) # {} /\ start > end]

(* Mutant: the end of the comment is not noted. *)
ClosedStaysOpen(line) ==
  LET start == IF Opens(line) # {} THEN Min(Opens(line)) ELSE 1
      end   == Min(Closes(line))
  IN  [line |-> Erase(line, start, end + 1), open |-> TRUE]

(***************************************************************************)
(* A comment that ends in this line: as many characters are erased, from   *)
(* its start, as lie before the end mark's end, counted from the line's.   *)
(***************************************************************************)
Closed(line) ==
  LET start == IF Opens(line) # {} THEN Min(Opens(line)) ELSE 1
      end   == Min(Closes(line))
  IN  [line |-> Erase(line, start, end + 1),
       open |-> Opens(line) # {} /\ start > end]

(* The line that is returned, and the static variable's new value. *)
RemoveCommentaries(open, line) ==
  CASE ~ open /\ Slashes(line) # {} ->
         [line |-> Before(line, Min(Slashes(line))), open |-> FALSE]
    [] ~ open /\ Slashes(line) = {} /\ Opens(line) = {} ->
         [line |-> line, open |-> FALSE]
    [] OTHER ->
         IF Closes(line) # {} THEN Closed(line)
         ELSE [line |-> IF Opens(line) = {} THEN <<>>
                        ELSE Before(line, Min(Opens(line))),
               open |-> TRUE]
------------------------------------------------------------------------------
(* The place behind the comment that a place is in, 0 if it has no end.    *)
Behind(line, p) ==
  LET ends == {e \in Closes(line) : e >= p}
  IN  IF ends = {} THEN 0 ELSE Min(ends) + 2

(***************************************************************************)
(* The rules of C: what is left of a line, from a place outside comments   *)
(* on, and whether its end is inside one.                                  *)
(***************************************************************************)
Stripped(inside, line) ==
  LET rest[p \in 0..(Len(line) + 1)] ==
        IF p = 0 THEN [line |-> <<>>, open |-> TRUE]
        ELSE IF p > Len(line) \/ p \in Slashes(line) THEN [line |-> <<>>, open |-> FALSE]
        ELSE IF p \in Opens(line) THEN rest[Behind(line, p + 2)]
        ELSE LET next == rest[p + 1]
             IN  [line |-> <<line[p]>> \o next.line, open |-> next.open]
  IN  rest[IF inside THEN Behind(line, 1) ELSE 1]

(***************************************************************************)
(* The lines RemoveCommentaries can deal with.  Inside a comment: no /*,   *)
(* and no // after the end.  Outside: no comment; // before any /*; a      *)
(* comment that begins here and goes on; a single comment, with the rest   *)
(* of the line all before it or all behind it.                             *)
(***************************************************************************)
Tidy(inside, line) ==
  IF inside
  THEN /\ Opens(line) = {}
       /\ Closes(line) # {} => \A p \in Slashes(line) : p <= Min(Closes(line)) + 1
  ELSE \/ Opens(line) = {}
       \/ \E p \in Slashes(line) : \A q \in Opens(line) : p < q
       \/ Slashes(line) = {} /\ Closes(line) = {}
       \/ /\ Slashes(line) = {}
          /\ \E s, e \in 1..Len(line) :
               /\ Opens(line) = {s} /\ Closes(line) = {e} /\ e >= s + 2
               /\ s = 1 \/ e + 1 = Len(line)
==============================================================================
