---------------------------- MODULE MCRepoSearch -----------------------------
(***************************************************************************)
(* A small instance of RepoSearch.                                         *)
(***************************************************************************)
EXTENDS RepoSearch

Url(user, file) == [site |-> GitHub, user |-> user, file |-> file]

(* What the search answers: two repositories of one account that differ    *)
(* in a dotted suffix only, and a namesake of another account.             *)
CloneUrls == {Url("alice", <<"a", Git>>),
              Url("alice", <<"a", "b", Git>>),
              Url("bob", <<"a", Git>>)}

MCUsers    == {"alice", "bob"}
MCSegments == {"a", "b"}

(* The search answers a repository once, three of them here, in any order. *)
Answers == {list \in BoundedSeq(CloneUrls, 3) : IsInjective(list)}

SearchLists == UNION {FetchRepoUrls(answer) : answer \in Answers}

ASSUME SearchAssumption == SearchedLists
==============================================================================
