------------------------------ MODULE RepoNames ------------------------------
(***************************************************************************)
(* The names of repositories: the URL a repository is cloned from, the     *)
(* directory it is cloned into, and the conversions RepoManager makes from *)
(* one to the other (src/src/src/repo_manager.cc).                         *)
(*                                                                         *)
(* A URL "<site><user>/<file>" is a record.  Its last component is kept as *)
(* the sequence of its dot-separated segments, because the code cuts it at *)
(* its last dot and later glues ".git" back on: "a.b.git" is               *)
(* <<"a", "b", "git">>.  A directory <repoDir>/<keyword>/<user>/<name> is  *)
(* the triple <<keyword, user, name>>, name a sequence of segments too.    *)
(***************************************************************************)
EXTENDS Integers, Sequences, SequencesExt

CONSTANTS
  Keywords,   \* search keywords, each a single directory name
  Users,      \* GitHub accounts
  Segments    \* segments of repository names

GitHub == "https://github.com/"
Sites  == {GitHub, "elsewhere"}
Git    == "git"

RepoUrl == [site : Sites, user : Users, file : Seq(Segments \cup {Git})]
Name    == Seq(Segments \cup {Git})
Path    == Keywords \X Users \X Name

(* repo_manager.h's RepoPair: a URL and the directory it is cloned into. *)
RepoPair == RepoUrl \X Path

(* ParseGitNameFromStr as a bug would write it: the extension is kept. *)
KeepExtension(url) == [user |-> url.user, name |-> url.file]

(* Another: the component is cut at its first dot. *)
CutAtFirstDot(url) == [user |-> url.user, name |-> SubSeq(url.file, 1, 1)]

(***************************************************************************)
(* The account and the last component without its extension:               *)
(* find_last_of('.') cuts the last segment, and cuts nothing when the      *)
(* component has no dot.                                                   *)
(***************************************************************************)
ParseGitNameFromStr(url) ==
  [user |-> url.user,
   name |-> IF Len(url.file) > 1 THEN Front(url.file) ELSE url.file]

(* The pair DownloadRepos makes of a URL found for a keyword. *)
PairOf(keyword, url) ==
  LET gitName == ParseGitNameFromStr(url)
  IN  <<url, <<keyword, gitName.user, gitName.name>>>>

(* The pair CheckRepoDir makes of a directory: the URL is reconstructed. *)
ScannedPair(path) ==
  <<[site |-> GitHub, user |-> path[2], file |-> Append(path[3], Git)], path>>

(***************************************************************************)
(* FetchRepoUrls: what may become of GitHub's answer.  All of it; the part *)
(* before the first item without a proper clone_url, where the exception   *)
(* is caught; or nothing: an invalid client, a body that is not JSON, an   *)
(* answer without items.                                                   *)
(***************************************************************************)
FetchRepoUrls(answer) == {SubSeq(answer, 1, n) : n \in 0..Len(answer)}

(* A URL of the form GitHub's search API answers in "clone_url". *)
IsCloneUrl(url) ==
  /\ url.site = GitHub
  /\ Len(url.file) > 1
  /\ Last(url.file) = Git

(* An answer, or the beginning of one: it lists a repository once. *)
IsAnswer(list) ==
  IsInjective(list) /\ \A i \in DOMAIN list : IsCloneUrl(list[i])
==============================================================================
