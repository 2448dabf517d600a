------------------------------- MODULE MCFlags -------------------------------
(* Every command line of up to five arguments, two flags and a third among *)
(* the words; a value may be the name of a flag.                           *)
EXTENDS Flags, SequencesExt

MCWords == {"-project", "-name", "-path", "-help", "a"}

MCArguments == BoundedSeq(MCWords, 5)
==============================================================================
