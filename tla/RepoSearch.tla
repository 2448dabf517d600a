----------------------------- MODULE RepoSearch ------------------------------
(***************************************************************************)
(* RepoManager as main uses it: every list DownloadRepos works on is what  *)
(* FetchRepoUrls made of an answer of GitHub's search.  What the catalogue *)
(* promises holds for these lists; a caller's own list may name one        *)
(* directory twice, or a URL no scan reconstructs.                         *)
(***************************************************************************)
EXTENDS RepoManager

(* The lists are what the search answered, whole or cut. *)
SearchedLists == \A list \in UrlLists : IsAnswer(list)

(***************************************************************************)
(* Between calls, what the running manager takes for downloaded is what a  *)
(* manager constructed now would find on disk: no failed clone is in the   *)
(* catalogue, no directory is outside it, and the URLs CheckRepoDir        *)
(* reconstructs are the ones the search answers.                           *)
(***************************************************************************)
CatalogueMatchesDisk ==
  pc = "ready" =>
    \A k \in Keywords :
      (IF k \in DOMAIN repoPaths THEN repoPaths[k] ELSE {})
        = {ScannedPair(path) : path \in {p \in repoDirs : p[1] = k}}

(***************************************************************************)
(* A directory in the catalogue whose clone never completed is the remnant *)
(* of a process that died while cloning it.                                *)
(***************************************************************************)
IncompleteOnlyAfterDeath ==
  pc = "ready" => repoDirs \ whole \subseteq interrupted

(* No later call, failed clone, crash or restart takes away a whole clone. *)
KeepsWhole == whole \subseteq whole'

WholeStaysWhole == [][KeepsWhole]_vars

(***************************************************************************)
(* The manager implements the abstract catalogue: calls, threads, vector   *)
(* and error codes are hidden, directories are seen as the pairs a scan    *)
(* makes of them.                                                          *)
(***************************************************************************)
Known  == UNION {repoPaths[k] : k \in DOMAIN repoPaths}
Stored == {ScannedPair(path) : path \in repoDirs}

Catalogue == INSTANCE RepoCatalogue
  WITH Pairs <- RepoPair, open <- (pc # "off"), known <- Known, stored <- Stored

ImplementsCatalogue == Catalogue!Spec
==============================================================================
