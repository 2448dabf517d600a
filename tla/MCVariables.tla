----------------------------- MODULE MCVariables -----------------------------
(* Every line of up to four characters, and every one of up to three next  *)
(* to a line that declares a name.  The types are "t*" and "t", of which    *)
(* one begins with the other; a line may also begin with a longer word.     *)
EXTENDS Variables

MCVarTypes == <<<<"t", "*">>, <<"t">>>>

Lines(n) == BoundedSeq({"t", "x", "_", " ", ")"}, n) \ {<<>>}

MCFiles ==
  {<<l>> : l \in Lines(4)}
    \cup {<<<<"t", " ", "x">>, l>> : l \in Lines(3)}
    \cup {<<<<"t", " ", "x", "_", "x", ";">>, l>> : l \in Lines(3)}
    \cup {<<<<"t", "*", " ", "x">>, l>> : l \in Lines(3)}
    \cup {<<<<"t", "*", "t", "*", " ", "x">>>>}

MCTypedefNames == {{}, {<<>>, <<"x">>}}

MCNewName == [w \in {<<"x">>} |-> <<"y", "_">>]
==============================================================================
