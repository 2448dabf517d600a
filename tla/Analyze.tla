------------------------------- MODULE Analyze -------------------------------
(***************************************************************************)
(* StartAnalyze (src/src/src/analyze.cc): one thread per repository        *)
(* compares the sources it finds there with every file of the peer's       *)
(* project, the main thread joins them all, and Logger (logger.cc) merges, *)
(* sorts and writes what they found to log.json.                           *)
(*                                                                         *)
(* The comparison of two files is a constant function here: the scores are *)
(* the business of the modules on comparison.  line_info is left out of    *)
(* the entries, nothing reads it.                                          *)
(***************************************************************************)
EXTENDS Integers, Sequences, SequencesExt, FiniteSets, TLC

CONSTANTS
  MaxRepos,    \* bound: repositories in the catalogue for the keyword
  MaxRows,     \* bound: entries of one run
  PeerLists,   \* lists of non-empty sources the peer's project may hold
  RefLists,    \* lists of sources a repository's directory may hold
  Signature    \* Signature[ref, peer]: what GetSignatureInfo returns

ASSUME BoundsAssumption == MaxRepos \in Nat /\ MaxRows \in Nat

(* Directory listings: no path comes twice. *)
ASSUME ListsAssumption ==
  /\ \A list \in PeerLists \cup RefLists : list \in Seq(ToSet(list)) /\ IsInjective(list)
  /\ <<>> \in RefLists

(* A score is a percentage. *)
ASSUME SignatureAssumption ==
  \A refList \in RefLists, peerList \in PeerLists :
    \A ref \in ToSet(refList), peer \in ToSet(peerList) : Signature[ref, peer] \in 0..100

VARIABLES
  pc,        \* the main thread: see Stage
  peers,     \* peer_files, shared by all threads and only read by them
  repos,     \* the number of repositories
  next,      \* the repository the spawning loop is at
  threads,   \* the analysing threads created so far
  results,   \* vector<vector<AnalyzeInfo>>, one element per repository
  sorted,    \* GetResultConfig's merged and sorted entries
  log        \* log.json: [state, entries]

vars == <<pc, peers, repos, next, threads, results, sorted, log>>

Stage == {"start", "spawning", "joining", "sorted", "writing", "done", "dead"}

(***************************************************************************)
(* A thread: the copy of the repository it was given, the element of       *)
(* results it was given a reference to, its id, and where its two nested   *)
(* loops stand.                                                            *)
(***************************************************************************)
ThreadState == {"listing", "comparing", "finished"}

Thread ==
  [repo : 1..MaxRepos, slot : Nat, id : Nat, state : ThreadState,
   sources : RefLists, peer : Nat \ {0}, source : Nat \ {0}]

Init ==
  /\ pc = "start"
  /\ peers = <<>> /\ repos = 0 /\ next = 1
  /\ threads = <<>> /\ results = <<>> /\ sorted = <<>>
  /\ log = [state |-> "old", entries |-> <<>>]

(* CheckAnalyzeInput: the keyword or the path is empty. *)
RejectInput ==
  /\ pc = "start"
  /\ pc' = "done"
  /\ UNCHANGED <<peers, repos, next, threads, results, sorted, log>>

(***************************************************************************)
(* The repositories are downloaded, the peer's files are read, and results *)
(* gets an element for each repository: it never grows afterwards.         *)
(***************************************************************************)
Prepare ==
  /\ pc = "start"
  /\ pc' = "spawning"
  /\ repos' \in 0..MaxRepos
  /\ peers' \in PeerLists
  /\ results' = [r \in 1..repos' |-> <<>>]
  /\ UNCHANGED <<next, threads, sorted, log>>

NewThread(r, slot) ==
  [repo |-> r, slot |-> slot, id |-> r - 1,
   state |-> "listing", sources |-> <<>>, peer |-> 1, source |-> 1]

(* Mutant: every thread is given the first element of results. *)
SpawnSharing ==
  /\ pc = "spawning" /\ next <= repos
  /\ threads' = Append(threads, NewThread(next, 1))
  /\ next' = next + 1
  /\ UNCHANGED <<pc, peers, repos, results, sorted, log>>

(* Mutant: results[++index]. *)
SpawnNextSlot ==
  /\ pc = "spawning" /\ next <= repos
  /\ threads' = Append(threads, NewThread(next, next + 1))
  /\ next' = next + 1
  /\ UNCHANGED <<pc, peers, repos, results, sorted, log>>

(* CAT(repo, peer_files, results[index++], id++) *)
Spawn ==
  /\ pc = "spawning" /\ next <= repos
  /\ threads' = Append(threads, NewThread(next, next))
  /\ next' = next + 1
  /\ UNCHANGED <<pc, peers, repos, results, sorted, log>>

EndSpawning ==
  /\ pc = "spawning" /\ next > repos
  /\ pc' = "joining"
  /\ UNCHANGED <<peers, repos, next, threads, results, sorted, log>>
------------------------------------------------------------------------------
(* The entries the running threads are to produce, for the bound MaxRows. *)
Planned ==
  Len(peers) * FoldSeq(LAMBDA th, n : Len(th.sources) + n, 0, threads)

(***************************************************************************)
(* AnalyzeProject: FindSourcesC.  The directory may be missing or without  *)
(* C sources, and then the list is empty.                                  *)
(***************************************************************************)
ListSources(t) ==
  /\ threads[t].state = "listing"
  /\ \E list \in RefLists :
       /\ Planned + Len(peers) * Len(list) <= MaxRows
       /\ threads' = [threads EXCEPT ![t].sources = list, ![t].state = "comparing"]
  /\ UNCHANGED <<pc, peers, repos, next, results, sorted, log>>

Entry(th) ==
  [id |-> th.id, git_link |-> th.repo,
   ref |-> th.sources[th.source], peer |-> peers[th.peer],
   signature |-> Signature[th.sources[th.source], peers[th.peer]]]

(* The inner loop: compare, and push the entry. *)
Compare(t) ==
  LET th == threads[t] IN
  /\ th.state = "comparing"
  /\ th.peer <= Len(peers) /\ th.source <= Len(th.sources)
  /\ results' = [results EXCEPT ![th.slot] = Append(@, Entry(th))]
  /\ threads' = [threads EXCEPT ![t].source = @ + 1]
  /\ UNCHANGED <<pc, peers, repos, next, sorted, log>>

(* Mutant: the inner loop's variable is not set anew. *)
NextPeerKeepingSource(t) ==
  LET th == threads[t] IN
  /\ th.state = "comparing"
  /\ th.peer <= Len(peers) /\ th.source > Len(th.sources)
  /\ threads' = [threads EXCEPT ![t].peer = @ + 1]
  /\ UNCHANGED <<pc, peers, repos, next, results, sorted, log>>

(* The outer loop moves on. *)
NextPeer(t) ==
  LET th == threads[t] IN
  /\ th.state = "comparing"
  /\ th.peer <= Len(peers) /\ th.source > Len(th.sources)
  /\ threads' = [threads EXCEPT ![t].peer = @ + 1, ![t].source = 1]
  /\ UNCHANGED <<pc, peers, repos, next, results, sorted, log>>

(* Mutant: the outer loop's end is off by one, and it waits for more. *)
FinishLate(t) ==
  /\ threads[t].state = "comparing"
  /\ threads[t].peer > Len(peers) + 1
  /\ threads' = [threads EXCEPT ![t].state = "finished"]
  /\ UNCHANGED <<pc, peers, repos, next, results, sorted, log>>

Finish(t) ==
  /\ threads[t].state = "comparing"
  /\ threads[t].peer > Len(peers)
  /\ threads' = [threads EXCEPT ![t].state = "finished"]
  /\ UNCHANGED <<pc, peers, repos, next, results, sorted, log>>

AnalyzeProject(t) ==
  /\ t \in DOMAIN threads
  /\ ListSources(t) \/ Compare(t) \/ NextPeer(t) \/ Finish(t)
------------------------------------------------------------------------------
(* Mutant: the scores are compared the other way round. *)
SortAscending(first, second) == first.signature < second.signature

SortAnalyzeBySignature(first, second) == first.signature > second.signature

(* What std::sort may leave: equal elements come in any order. *)
Arrangements(entries) ==
  {s \in {[i \in DOMAIN entries |-> entries[p[i]]] :
            p \in Bijection(DOMAIN entries, DOMAIN entries)} :
     \A i, j \in DOMAIN s : i < j => ~ SortAnalyzeBySignature(s[j], s[i])}

(* Mutant: no thread is waited for. *)
MergeUnjoined ==
  /\ pc = "joining"
  /\ sorted' \in Arrangements(FlattenSeq(results))
  /\ pc' = "sorted"
  /\ UNCHANGED <<peers, repos, next, threads, results, log>>

(* CloseAllThreads has joined them all; GetResultConfig merges and sorts. *)
Merge ==
  /\ pc = "joining"
  /\ \A t \in DOMAIN threads : threads[t].state = "finished"
  /\ sorted' \in Arrangements(FlattenSeq(results))
  /\ pc' = "sorted"
  /\ UNCHANGED <<peers, repos, next, threads, results, log>>

(* WriteResultJson opens log.json, and empties it ... *)
OpenLog ==
  /\ pc = "sorted"
  /\ pc' = "writing"
  /\ log' = [state |-> "truncated", entries |-> <<>>]
  /\ UNCHANGED <<peers, repos, next, threads, results, sorted>>

(* ... or cannot open it, and says so ... *)
OpenFails ==
  /\ pc = "sorted"
  /\ pc' = "done"
  /\ UNCHANGED <<peers, repos, next, threads, results, sorted, log>>

(* ... and writes the entries. *)
WriteLog ==
  /\ pc = "writing"
  /\ pc' = "done"
  /\ log' = [state |-> "written", entries |-> sorted]
  /\ UNCHANGED <<peers, repos, next, threads, results, sorted>>

(***************************************************************************)
(* The process dies: killed, or terminated by an exception in any of its   *)
(* threads (a directory that cannot be read, std::thread, bad_alloc).      *)
(***************************************************************************)
Die ==
  /\ pc \notin {"done", "dead"}
  /\ pc' = "dead"
  /\ UNCHANGED <<peers, repos, next, threads, results, sorted, log>>

Main ==
  \/ RejectInput \/ Prepare \/ Spawn \/ EndSpawning
  \/ Merge \/ OpenLog \/ OpenFails \/ WriteLog

(* Threads stop with the process; those joined are finished already. *)
Running == pc \in {"spawning", "joining"}

Next ==
  \/ Main
  \/ Running /\ \E t \in DOMAIN threads : AnalyzeProject(t)
  \/ Die

Spec == Init /\ [][Next]_vars

(* Every thread runs on, the main one unless it waits in join. *)
Fairness ==
  /\ WF_vars(Main)
  /\ \A t \in 1..MaxRepos : WF_vars(Running /\ AnalyzeProject(t))

FairSpec == Spec /\ Fairness
------------------------------------------------------------------------------
TypeOK ==
  /\ pc \in Stage
  /\ peers \in PeerLists \cup {<<>>}
  /\ repos \in 0..MaxRepos
  /\ next \in 1..(repos + 1)
  /\ threads \in Seq(Thread) /\ Len(threads) = next - 1
  /\ DOMAIN results = 1..repos
  /\ \A t \in DOMAIN threads :
       /\ threads[t].slot \in DOMAIN results
       /\ threads[t].peer \in 1..(Len(peers) + 1)
       /\ threads[t].source \in 1..(Len(threads[t].sources) + 1)
  /\ log.state \in {"old", "truncated", "written"}

(***************************************************************************)
(* No two threads push entries to one element of results: the vectors are  *)
(* not synchronised, a shared one would be a data race.                    *)
(***************************************************************************)
NoSharedResults ==
  \A s, t \in DOMAIN threads : threads[s].slot = threads[t].slot => s = t

(* One entry for each file of the peer and each source of each repository. *)
Expected ==
  UNION {{[id |-> r - 1, git_link |-> r,
           ref |-> threads[r].sources[s], peer |-> peers[p],
           signature |-> Signature[threads[r].sources[s], peers[p]]] :
             s \in DOMAIN threads[r].sources, p \in DOMAIN peers} : r \in 1..repos}

(***************************************************************************)
(* A log that was written holds every comparison exactly once, each under  *)
(* its own repository's id and link, whatever the threads' interleaving; a *)
(* process that ends by itself never leaves the log emptied.               *)
(***************************************************************************)
LogComplete ==
  /\ log.state = "written" =>
       IsInjective(log.entries) /\ ToSet(log.entries) = Expected
  /\ log.state = "truncated" => pc \in {"writing", "dead"}

(* The log is sorted by signature score, the highest first. *)
LogSorted ==
  \A i \in 1..(Len(log.entries) - 1) :
    log.entries[i].signature >= log.entries[i + 1].signature

(* The program ends: no join waits forever. *)
Terminates == <>(pc \in {"done", "dead"})
==============================================================================
