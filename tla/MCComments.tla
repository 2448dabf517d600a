----------------------------- MODULE MCComments ------------------------------
(* All lines of up to six characters. *)
EXTENDS Comments, SequencesExt

MCLines == BoundedSeq({"/", "*", "x"}, 6)
==============================================================================
