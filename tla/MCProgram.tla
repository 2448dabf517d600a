------------------------------ MODULE MCProgram ------------------------------
(* Three repositories that may be found, one of them without C sources; a  *)
(* peer with two files, or none.                                           *)
EXTENDS Program

MCPairs == {"r1", "r2", "r3"}

MCSources ==
  [pair \in MCPairs |->
     CASE pair = "r1" -> <<"a">> [] pair = "r2" -> <<"b", "a">> [] OTHER -> <<>>]

MCPeerLists == {<<>>, <<"p", "q">>}
MCRefLists  == {<<>>, <<"a">>, <<"b", "a">>}
MCSignature == [f \in {"a", "b"} \X {"p", "q"} |-> IF f[1] = "a" THEN 50 ELSE 10]
==============================================================================
