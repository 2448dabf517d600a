---------------------------- MODULE MCPercentage -----------------------------
(* Small files of all contents, and the shortest file that does not score   *)
(* 100 against itself: 97 lines.                                            *)
EXTENDS Percentage, SequencesExt

Shortest == [k \in 1..97 |-> "a"]

MCLines == {"a", "b", "c"}
MCFiles == {file \in BoundedSeq(MCLines, 4) : Len(file) > 0} \cup {Shortest}
==============================================================================
