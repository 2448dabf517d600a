------------------------------ MODULE MCAnalyze ------------------------------
(* A small instance of Analyze: ties between scores, empty directories.    *)
EXTENDS Analyze

MCPeerLists == {<<>>, <<"p1">>, <<"p1", "p2">>}
MCRefLists  == {<<>>, <<"r1">>, <<"r2", "r1">>}

(* A copy, a near copy, and two files with the same low score. *)
MCSignature ==
  [f \in {"r1", "r2"} \X {"p1", "p2"} |->
     CASE f = <<"r1", "p1">> -> 100
       [] f = <<"r2", "p2">> -> 60
       [] OTHER              -> 20]
==============================================================================
