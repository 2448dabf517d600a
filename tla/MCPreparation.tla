---------------------------- MODULE MCPreparation ----------------------------
(* A disk with one file that is one tidy line of up to five characters, or *)
(* a disk with two files of some made for the cases.                       *)
EXTENDS Preparation, TLC

MCQuote == "\""

Some ==
  {<<<<"x">>>>,
   <<<<"x", " ", "/", "/", "x">>>>,
   <<<<"x", " ", "/", "*">>, <<"x">>, <<"*", "/", " ", "y">>>>,
   <<<<"/", "*", "x", "*", "/", " ", "x">>, <<>>, <<"y">>>>,
   <<<<"y", ";">>, <<" ">>, <<"#", "x">>, <<MCQuote, " ", "x", MCQuote, ";">>>>}

Lines == BoundedSeq({"x", " ", "/", "*"}, 5)

TwoFiles == {"p" :> f @@ "q" :> g : <<f, g>> \in Some \X Some}

MCDisks == TwoFiles \cup {"p" :> <<l>> : l \in {k \in Lines : TidyFile(<<k>>)}}
==============================================================================
