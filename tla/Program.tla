------------------------------ MODULE Program -------------------------------
(***************************************************************************)
(* main and StartAnalyze (src/src/main.cc, src/src/src/analyze.cc), one    *)
(* process after another: the repositories a RepoManager knows once its    *)
(* download has returned are compared with the peer's files, and the log   *)
(* is written.  The manager is what RepoCatalogue says of it; the analysis *)
(* is the module Analyze.  The store and log.json outlive a process.       *)
(***************************************************************************)
EXTENDS Integers, Sequences, SequencesExt, FiniteSets

CONSTANTS
  Pairs,      \* the repositories that may be found
  Sources,    \* Sources[pair]: the list of C sources in its directory
  MaxRepos, MaxRows, PeerLists, RefLists, Signature   \* as in Analyze

ASSUME SourcesAssumption ==
  /\ IsFiniteSet(Pairs) /\ MaxRepos = Cardinality(Pairs)
  /\ Sources \in [Pairs -> RefLists]

VARIABLES
  open, known, stored,                                  \* RepoCatalogue's
  pc, peers, repos, next, threads, results, sorted, log,   \* Analyze's
  order,      \* the known repositories, as the loop over the set meets them
  compared    \* history: the repositories a written log has ever held

Catalogue == INSTANCE RepoCatalogue
Analysis  == INSTANCE Analyze

ASSUME AnalysisAssumption ==
  /\ Analysis!BoundsAssumption
  /\ Analysis!ListsAssumption
  /\ Analysis!SignatureAssumption

catalogue == <<open, known, stored>>
analysis  == <<pc, peers, repos, next, threads, results, sorted, log>>
vars      == <<catalogue, analysis, order, compared>>

Init == Catalogue!Init /\ Analysis!Init /\ order = <<>> /\ compared = {}

(* RejectInput: nothing is done for an empty keyword or path. *)
Reject ==
  /\ ~ open /\ Analysis!RejectInput
  /\ UNCHANGED <<catalogue, order, compared>>

(* Mutant: the manager does not look at what is in store. *)
ConstructBlindly ==
  /\ pc = "start" /\ ~ open /\ open' = TRUE /\ known' = {}
  /\ UNCHANGED <<stored, analysis, order, compared>>

(* RepoManager rm(repos_dir) *)
Construct ==
  /\ pc = "start" /\ Catalogue!Open
  /\ UNCHANGED <<analysis, order, compared>>

(* rm.DownloadRepos(keyword), until it returns *)
Download ==
  /\ pc = "start" /\ Catalogue!Transfer
  /\ UNCHANGED <<analysis, order, compared>>

(* Mutant: the repositories are taken before the download returns. *)
PrepareEarly ==
  /\ Catalogue!Publish /\ Analysis!Prepare
  /\ order' \in SetToSeqs(known) /\ repos' = Len(order')
  /\ UNCHANGED compared

(* It returns, and rm.repoPaths[keyword] sets the size of results. *)
Prepare ==
  /\ Catalogue!Publish /\ Analysis!Prepare
  /\ order' \in SetToSeqs(known') /\ repos' = Len(order')
  /\ UNCHANGED compared

(* The repositories a log holds. *)
Linked(entries) == {order[e.git_link] : e \in ToSet(entries)}

(* The threads, the join, the log; a thread lists its own repository. *)
Analyze ==
  /\ Analysis!Next /\ pc # "start" /\ pc' # "dead"
  /\ \A t \in DOMAIN threads' :
       threads'[t].state # "listing" => threads'[t].sources = Sources[order[t]]
  /\ compared' = IF pc = "writing" THEN compared \cup Linked(log'.entries) ELSE compared
  /\ UNCHANGED <<catalogue, order>>

(* StartAnalyze returns, and the manager is destroyed; or the process dies. *)
End ==
  /\ \/ pc = "done" /\ UNCHANGED analysis
     \/ Analysis!Die
  /\ Catalogue!Close
  /\ UNCHANGED <<order, compared>>

(* The program is run again. *)
Restart ==
  /\ pc \in {"done", "dead"} /\ ~ open
  /\ pc' = "start" /\ peers' = <<>> /\ repos' = 0 /\ next' = 1
  /\ threads' = <<>> /\ results' = <<>> /\ sorted' = <<>> /\ order' = <<>>
  /\ log' = [log EXCEPT !.state = "old"]
  /\ UNCHANGED <<catalogue, compared>>

Next ==
  \/ Reject \/ Construct \/ Download \/ Prepare \/ Analyze \/ End \/ Restart

Spec == Init /\ [][Next]_vars
------------------------------------------------------------------------------
(* This run's log is written. *)
Logged == pc = "done" /\ log.state = "written"

(***************************************************************************)
(* A run that writes its log has compared every source of every repository *)
(* in store with every file of the peer, each under its own link: those    *)
(* found now, and those found by runs that ended or died before.           *)
(***************************************************************************)
LogCoversStore ==
  Logged =>
    {<<order[e.git_link], e.ref, e.peer>> : e \in ToSet(log.entries)} =
      UNION {{pair} \X ToSet(Sources[pair]) \X ToSet(peers) : pair \in stored}

(* A repository that was in a log is in every later one, unless the peer   *)
(* has no files to compare, whatever deaths and restarts lie between.      *)
NothingForgotten ==
  Logged /\ peers # <<>> => compared \subseteq Linked(log.entries)
==============================================================================
