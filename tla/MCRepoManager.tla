---------------------------- MODULE MCRepoManager ----------------------------
(***************************************************************************)
(* A small instance of RepoManager: a caller's lists.                      *)
(***************************************************************************)
EXTENDS RepoManager

Url(site, user, file) == [site |-> site, user |-> user, file |-> file]

(* One that the search could answer, and two that it never does: of another *)
(* site, and without an extension.  All three share a directory.            *)
CallerUrls == {Url(GitHub, "alice", <<"a", Git>>),
               Url("elsewhere", "alice", <<"a", Git>>),
               Url(GitHub, "alice", <<"a">>)}

MCUsers    == {"alice", "bob"}
MCSegments == {"a", "b"}

(* DownloadRepos(urls, keyword) takes any list: repeated URLs, URLs of one *)
(* directory, other sites.                                                 *)
CallerLists ==
  {<<>>} \cup {list \in BoundedSeq(CallerUrls, 3) : Len(list) >= 2}
==============================================================================
