------------------------------ MODULE Excerpts -------------------------------
(***************************************************************************)
(* What a loop leaves of a sequence when it copies some of the elements:   *)
(* FileManager::TransformFileData and RemoveExtra push them back one by    *)
(* one, RemoveVariableFromFileData erases the others.  The element of each *)
(* place is found by counting, which can be reasoned about for any places. *)
(***************************************************************************)
EXTENDS Integers, Sequences, FiniteSets

(* How many of the places are not behind p; the place of which it is r.    *)
Rank(places, p)  == Cardinality({q \in places : q <= p})
Place(places, r) == CHOOSE p \in places : Rank(places, p) = r

(* The elements of a sequence that are at some places, in their order.     *)
AtPlaces(seq, places) ==
  [r \in 1..Cardinality(places) |-> seq[Place(places, r)]]
==============================================================================
