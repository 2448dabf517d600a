---------------------------- MODULE AnalyzeProofs ----------------------------
(***************************************************************************)
(* Theorems about Analyze, for any number of repositories, any lists of    *)
(* files and any scores.                                                   *)
(*                                                                         *)
(* The inductive invariant says which entries each element of results      *)
(* holds while its thread is at work: those of the pairs its nested loops  *)
(* have gone past, each once.                                              *)
(***************************************************************************)
EXTENDS Analyze, ListLemmas

(* How far the main thread is, and what that says of the others.           *)
PhaseInv ==
  /\ pc = "start" => threads = <<>>
  /\ pc \in {"joining", "sorted", "writing"} \/ log.state = "written" => next = repos + 1
  /\ pc \in {"sorted", "writing"} \/ log.state = "written" =>
       \A t \in DOMAIN threads : threads[t].state = "finished"

(* The t-th thread has the t-th repository, and the t-th element.          *)
ThreadsInv ==
  \A t \in 1..Len(threads) :
    /\ threads[t].repo = t /\ threads[t].slot = t /\ threads[t].id = t - 1
    /\ threads[t].state = "listing" => threads[t].peer = 1 /\ threads[t].source = 1
    /\ threads[t].state = "finished" => threads[t].peer = Len(peers) + 1

(* The entry of one pair of files, and the pairs a thread has gone past.   *)
Row(t, j, k) ==
  [id |-> t - 1, git_link |-> t, ref |-> threads[t].sources[k], peer |-> peers[j],
   signature |-> Signature[threads[t].sources[k], peers[j]]]

Past(t) ==
  {x \in (1..Len(peers)) \X (1..Len(threads[t].sources)) :
     x[1] < threads[t].peer \/ (x[1] = threads[t].peer /\ x[2] < threads[t].source)}

Rows(t) == {Row(t, x[1], x[2]) : x \in Past(t)}

ResultsInv ==
  /\ results = [r \in 1..repos |-> results[r]]
  /\ \A r \in 1..repos :
       /\ results[r] \in Seq(ToSet(results[r])) /\ IsInjective(results[r])
       /\ r \in DOMAIN threads => ToSet(results[r]) = Rows(r)
       /\ r \notin DOMAIN threads => results[r] = <<>>

(* A complete list of entries, in the order of the log.                    *)
Complete(entries) ==
  /\ entries \in Seq(Expected)
  /\ IsInjective(entries) /\ ToSet(entries) = Expected
  /\ \A i, j \in DOMAIN entries : i < j => entries[i].signature >= entries[j].signature

LogInv ==
  /\ pc \in {"sorted", "writing"} => Complete(sorted)
  /\ log.state = "written" => pc = "done" /\ Complete(log.entries)
  /\ log.state = "truncated" => pc \in {"writing", "dead"}

IInv == TypeOK /\ PhaseInv /\ ThreadsInv /\ ResultsInv /\ LogInv
------------------------------------------------------------------------------
(***************************************************************************)
(* Sorting loses nothing, invents nothing, and leaves the highest score    *)
(* first, whatever std::sort does with equal ones.                         *)
(***************************************************************************)
LEMMA Arranged ==
  ASSUME NEW S, NEW entries \in Seq(S), NEW s \in Arrangements(entries)
  PROVE  /\ s \in Seq(S) /\ Len(s) = Len(entries)
         /\ ToSet(s) = ToSet(entries)
         /\ IsInjective(entries) => IsInjective(s)
         /\ \A i, j \in DOMAIN s : i < j => ~ (s[j].signature > s[i].signature)
<1>1. PICK p \in Bijection(DOMAIN entries, DOMAIN entries) :
        s = [i \in DOMAIN entries |-> entries[p[i]]]
  BY DEF Arrangements
<1>2. DOMAIN entries = 1..Len(entries) /\ Len(entries) \in Nat
  OBVIOUS
<1>3. /\ p \in [DOMAIN entries -> DOMAIN entries]
      /\ \A i, j \in DOMAIN entries : p[i] = p[j] => i = j
      /\ \A j \in DOMAIN entries : \E i \in DOMAIN entries : p[i] = j
  BY DEF Bijection, Injection, Surjection, IsInjective
<1>4. \A i \in 1..Len(entries) : entries[p[i]] \in S
  BY <1>2, <1>3
<1>5. s \in Seq(S) /\ Len(s) = Len(entries) /\ DOMAIN s = DOMAIN entries
  BY <1>1, <1>2, <1>4
<1>6. ToSet(s) = ToSet(entries)
  BY <1>1, <1>3, <1>5 DEF ToSet
<1>7. IsInjective(entries) => IsInjective(s)
  BY <1>1, <1>3, <1>5 DEF IsInjective
<1>8. \A i, j \in DOMAIN s : i < j => ~ (s[j].signature > s[i].signature)
  BY DEF Arrangements, SortAnalyzeBySignature
<1> QED
  BY <1>5, <1>6, <1>7, <1>8
------------------------------------------------------------------------------
(* What the invariant says of one list, and of one thread.                 *)

LEMMA ListFacts ==
  ASSUME NEW list \in PeerLists \cup RefLists \cup {<<>>}
  PROVE  /\ list \in Seq(ToSet(list)) /\ IsInjective(list)
         /\ Len(list) \in Nat /\ DOMAIN list = 1..Len(list)
<1>1. CASE list = <<>>
  BY <1>1 DEF IsInjective
<1>2. CASE list \in PeerLists \cup RefLists
  <2>1. list \in Seq(ToSet(list)) /\ IsInjective(list)
    BY <1>2, ListsAssumption
  <2> QED
    BY <2>1, LenProperties
<1> QED
  BY <1>1, <1>2

LEMMA PeersFacts ==
  ASSUME TypeOK
  PROVE  Len(peers) \in Nat /\ DOMAIN peers = 1..Len(peers) /\ IsInjective(peers)
BY ListFacts DEF TypeOK

LEMMA ThreadFacts ==
  ASSUME TypeOK, NEW t \in DOMAIN threads
  PROVE  /\ DOMAIN threads = 1..Len(threads) /\ Len(threads) \in Nat
         /\ t \in 1..Len(threads) /\ t \in 1..repos
         /\ threads[t] \in Thread
         /\ threads[t].sources \in RefLists
         /\ Len(threads[t].sources) \in Nat
         /\ DOMAIN threads[t].sources = 1..Len(threads[t].sources)
         /\ IsInjective(threads[t].sources)
<1>1. /\ DOMAIN threads = 1..Len(threads) /\ Len(threads) \in Nat /\ t \in 1..Len(threads)
      /\ Len(threads) = next - 1 /\ next \in 1..(repos + 1) /\ repos \in Nat
      /\ threads[t] \in Thread
  BY BoundsAssumption DEF TypeOK
<1>2. threads[t].sources \in RefLists
  BY <1>1 DEF Thread
<1> QED
  BY <1>1, <1>2, ListFacts

(* Two entries of one thread are of different pairs of files.              *)
LEMMA RowsDiffer ==
  ASSUME TypeOK, NEW t \in DOMAIN threads,
         NEW i \in 1..Len(peers), NEW j \in 1..Len(threads[t].sources),
         NEW k \in 1..Len(peers), NEW l \in 1..Len(threads[t].sources),
         Row(t, i, j) = Row(t, k, l)
  PROVE  i = k /\ j = l
<1>1. peers[i] = peers[k] /\ threads[t].sources[j] = threads[t].sources[l]
  BY DEF Row
<1> QED
  BY <1>1, PeersFacts, ThreadFacts DEF IsInjective

------------------------------------------------------------------------------
(* A process that has just started, whatever is in the log it found.       *)
Fresh ==
  /\ pc = "start"
  /\ peers = <<>> /\ repos = 0 /\ next = 1
  /\ threads = <<>> /\ results = <<>>
  /\ log.state = "old"

LEMMA FreshIInv == Fresh => IInv
<1> SUFFICES ASSUME Fresh
             PROVE  IInv
  OBVIOUS
<1> USE DEF Fresh
<1>1. TypeOK
  BY BoundsAssumption DEF TypeOK, Stage
<1>2. PhaseInv /\ ThreadsInv /\ LogInv
  BY DEF PhaseInv, ThreadsInv, LogInv
<1>3. ResultsInv
  BY DEF ResultsInv
<1> QED
  BY <1>1, <1>2, <1>3 DEF IInv

(* The steps that leave the threads and what they found as they are.       *)
LEMMA KeepsWork ==
  ASSUME IInv, UNCHANGED <<peers, repos, next, threads, results>>
  PROVE  /\ ThreadsInv' /\ ResultsInv'
         /\ Expected' = Expected
         /\ pc' \in Stage /\ log'.state \in {"old", "truncated", "written"} => TypeOK'
         /\ \A entries : Complete(entries) => Complete(entries)'
<1>1. ThreadsInv' /\ ResultsInv'
  <2>1. ThreadsInv'
    BY DEF IInv, ThreadsInv
  <2>2. \A t : Rows(t)' = Rows(t)
    BY DEF Rows, Row, Past
  <2>3. ResultsInv'
    BY <2>2 DEF IInv, ResultsInv
  <2> QED
    BY <2>1, <2>3
<1>2. Expected' = Expected
  BY DEF Expected
<1>3. pc' \in Stage /\ log'.state \in {"old", "truncated", "written"} => TypeOK'
  BY DEF IInv, TypeOK
<1>4. \A entries : Complete(entries) => Complete(entries)'
  BY <1>2 DEF Complete
<1> QED
  BY <1>1, <1>2, <1>3, <1>4

LEMMA MainKeeps ==
  ASSUME IInv,
         RejectInput \/ EndSpawning \/ OpenLog \/ OpenFails \/ WriteLog \/ Die
                     \/ UNCHANGED vars
  PROVE  IInv'
<1> USE DEF IInv
<1>0. UNCHANGED <<peers, repos, next, threads, results>>
  BY DEF RejectInput, EndSpawning, OpenLog, OpenFails, WriteLog, Die, vars
<1>1. TypeOK'
  <2>1. pc' \in Stage /\ log'.state \in {"old", "truncated", "written"}
    BY DEF RejectInput, EndSpawning, OpenLog, OpenFails, WriteLog, Die, vars, TypeOK, Stage
  <2> QED
    BY <1>0, <2>1, KeepsWork
<1>2. ThreadsInv' /\ ResultsInv'
  BY <1>0, KeepsWork
<1>3. next \in Nat /\ repos \in Nat /\ next <= repos + 1
  BY BoundsAssumption DEF TypeOK
<1>4. PhaseInv'
  BY <1>0, <1>3 DEF PhaseInv, LogInv,
     RejectInput, EndSpawning, OpenLog, OpenFails, WriteLog, Die, vars
<1>5. LogInv'
  BY <1>0, KeepsWork DEF LogInv,
     RejectInput, EndSpawning, OpenLog, OpenFails, WriteLog, Die, vars
<1> QED
  BY <1>1, <1>2, <1>4, <1>5

LEMMA PrepareKeeps ==
  ASSUME IInv, Prepare
  PROVE  IInv'
<1> USE DEF IInv
<1>1. /\ threads = <<>> /\ threads' = <<>> /\ next = 1 /\ next' = 1
      /\ repos' \in 0..MaxRepos /\ repos' \in Nat
      /\ results' = [r \in 1..repos' |-> <<>>]
      /\ pc = "start" /\ pc' = "spawning" /\ log' = log /\ peers' \in PeerLists
      /\ DOMAIN threads' = {} /\ DOMAIN results' = 1..repos'
      /\ log'.state \in {"old", "truncated", "written"} /\ log'.state # "written"
  BY BoundsAssumption DEF Prepare, PhaseInv, TypeOK, LogInv
<1>2. TypeOK'
  <2>1. next' \in 1..(repos' + 1) /\ Len(threads') = next' - 1 /\ threads' \in Seq(Thread)
    <3>1. threads' \in Seq(Thread) /\ Len(threads') = 0
      BY <1>1
    <3>2. next' = 1 /\ repos' \in Nat
      BY <1>1
    <3>3. \A n \in Nat : 1 \in 1..(n + 1)
      OBVIOUS
    <3>4. next' \in 1..(repos' + 1)
      BY <3>2, <3>3
    <3>5. Len(threads') = next' - 1
      BY <3>1, <3>2
    <3> QED
      BY <3>1, <3>4, <3>5
  <2>2. pc' \in Stage
    BY <1>1 DEF Stage
  <2>3. \A t \in DOMAIN threads' : FALSE
    BY <1>1
  <2> QED
    BY <1>1, <2>1, <2>2, <2>3 DEF TypeOK
<1>3. PhaseInv' /\ ThreadsInv' /\ LogInv'
  <2>1. PhaseInv'
    BY <1>1 DEF PhaseInv
  <2>2. ThreadsInv'
    BY <1>1 DEF ThreadsInv
  <2>3. LogInv'
    BY <1>1 DEF LogInv
  <2> QED
    BY <2>1, <2>2, <2>3
<1>4. ResultsInv'
  <2>1. <<>> \in Seq(ToSet(<<>>)) /\ IsInjective(<<>>)
    BY DEF IsInjective
  <2>2. \A r \in 1..repos' : results'[r] = <<>> /\ r \notin DOMAIN threads'
    BY <1>1
  <2> QED
    BY <1>1, <2>1, <2>2 DEF ResultsInv
<1> QED
  BY <1>2, <1>3, <1>4

LEMMA SpawnKeeps ==
  ASSUME IInv, Spawn
  PROVE  IInv'
<1> USE DEF IInv
<1> DEFINE new == NewThread(next, next)
<1>1. /\ pc = "spawning" /\ next <= repos /\ next' = next + 1
      /\ UNCHANGED <<pc, peers, repos, results, sorted, log>>
      /\ threads' = Append(threads, new)
  BY DEF Spawn
<1>2. /\ next \in Nat \ {0} /\ repos \in Nat /\ repos \in 0..MaxRepos
      /\ threads \in Seq(Thread) /\ Len(threads) = next - 1
      /\ DOMAIN results = 1..repos
  BY BoundsAssumption DEF TypeOK
<1>3. new \in Thread
  BY <1>1, <1>2, BoundsAssumption, ListsAssumption DEF NewThread, Thread, ThreadState
<1>4. /\ new.repo = next /\ new.slot = next /\ new.id = next - 1 /\ new.state = "listing"
      /\ new.sources = <<>> /\ new.peer = 1 /\ new.source = 1
  BY DEF NewThread
<1> HIDE DEF new
<1>5. /\ threads' \in Seq(Thread) /\ Len(threads') = next
      /\ DOMAIN threads' = 1..next /\ DOMAIN threads = 1..(next - 1)
      /\ \A t \in 1..(next - 1) : threads'[t] = threads[t]
      /\ threads'[next] = new
  BY <1>1, <1>2, <1>3
<1>6. \A t \in 1..next : t \in 1..(next - 1) \/ t = next
  BY <1>2
<1>7. Len(peers) \in Nat
  BY PeersFacts
<1>8. TypeOK'
  <2>1. ASSUME NEW t \in DOMAIN threads'
        PROVE  /\ threads'[t].slot \in DOMAIN results'
               /\ threads'[t].peer \in 1..(Len(peers') + 1)
               /\ threads'[t].source \in 1..(Len(threads'[t].sources) + 1)
    <3>1. CASE t = next
      <4>1. threads'[t].slot \in DOMAIN results'
        BY <1>1, <1>2, <1>4, <1>5, <3>1
      <4>2. threads'[t].peer \in 1..(Len(peers') + 1)
        BY <1>1, <1>4, <1>5, <1>7, <3>1
      <4>3. threads'[t].source \in 1..(Len(threads'[t].sources) + 1)
        BY <1>4, <1>5, <3>1
      <4> QED
        BY <4>1, <4>2, <4>3
    <3>2. CASE t \in 1..(next - 1)
      BY <1>1, <1>5, <3>2 DEF TypeOK
    <3> QED
      BY <1>5, <1>6, <3>1, <3>2
  <2> QED
    BY <1>1, <1>2, <1>5, <2>1 DEF TypeOK
<1>9. PhaseInv' /\ LogInv'
  BY <1>1 DEF PhaseInv, LogInv
<1>10. ThreadsInv'
  BY <1>1, <1>4, <1>5, <1>6, <1>2 DEF ThreadsInv
<1>11. ResultsInv'
  <2>1. results' = [r \in 1..repos' |-> results'[r]]
    BY <1>1 DEF ResultsInv
  <2>2. ASSUME NEW r \in 1..repos'
        PROVE  /\ results'[r] \in Seq(ToSet(results'[r])) /\ IsInjective(results'[r])
               /\ r \in DOMAIN threads' => ToSet(results'[r]) = Rows(r)'
               /\ r \notin DOMAIN threads' => results'[r] = <<>>
    <3>1. results'[r] \in Seq(ToSet(results'[r])) /\ IsInjective(results'[r])
      BY <1>1 DEF ResultsInv
    <3>2. CASE r \in 1..(next - 1)
      <4>1. ToSet(results[r]) = Rows(r)
        BY <1>1, <1>5, <3>2 DEF ResultsInv
      <4>2. Rows(r)' = Rows(r)
        BY <1>1, <1>5, <3>2 DEF Rows, Row, Past
      <4> QED
        BY <1>1, <1>2, <1>5, <3>1, <3>2, <4>1, <4>2
    <3>3. CASE r = next
      <4>1. results[r] = <<>>
        BY <1>1, <1>2, <1>5, <3>3 DEF ResultsInv
      <4>2. Past(r)' = {}
        <5>1. Len(threads'[r].sources) = 0
          BY <1>4, <1>5, <3>3
        <5> QED
          BY <5>1 DEF Past
      <4>3. Rows(r)' = {}
        BY <4>2, Zenon DEF Rows
      <4>4. ToSet(results'[r]) = {}
        BY <1>1, <4>1 DEF ToSet
      <4> QED
        BY <1>1, <3>1, <3>3, <1>5, <1>2, <4>3, <4>4
    <3>4. CASE r > next
      BY <1>1, <1>2, <1>5, <3>1, <3>4 DEF ResultsInv
    <3> QED
      BY <1>1, <1>2, <3>2, <3>3, <3>4
  <2> QED
    BY <2>1, <2>2 DEF ResultsInv
<1> QED
  BY <1>8, <1>9, <1>10, <1>11

(***************************************************************************)
(* A step of a thread puts u in the place of the t-th thread and leaves    *)
(* the elements of results that are not its own alone.                     *)
(***************************************************************************)
LEMMA ThreadKeeps ==
  ASSUME IInv, Running, NEW t \in DOMAIN threads, NEW u \in Thread,
         threads' = [threads EXCEPT ![t] = u],
         UNCHANGED <<pc, peers, repos, next, sorted, log>>,
         u.repo = threads[t].repo, u.slot = threads[t].slot, u.id = threads[t].id,
         u.peer \in 1..(Len(peers) + 1), u.source \in 1..(Len(u.sources) + 1),
         u.state # "listing", u.state = "finished" => u.peer = Len(peers) + 1,
         results' = [r \in 1..repos |-> results'[r]],
         \A r \in 1..repos : r # t => results'[r] = results[r],
         results'[t] \in Seq(ToSet(results'[t])), IsInjective(results'[t]),
         ToSet(results'[t]) = Rows(t)'
  PROVE  IInv'
<1> USE DEF IInv
<1>1. /\ DOMAIN threads = 1..Len(threads) /\ Len(threads) \in Nat
      /\ t \in 1..Len(threads) /\ t \in 1..repos
  BY ThreadFacts
<1>2. /\ threads' \in Seq(Thread) /\ Len(threads') = Len(threads)
      /\ DOMAIN threads' = DOMAIN threads
      /\ threads'[t] = u
      /\ \A s \in DOMAIN threads : s # t => threads'[s] = threads[s]
  BY <1>1 DEF TypeOK
<1>3. DOMAIN results' = 1..repos
  OBVIOUS
<1>4. log'.state = log.state /\ log.state # "written" /\ pc \notin {"sorted", "writing", "start"}
  BY DEF LogInv, Running
<1>5. TypeOK'
  <2>1. ASSUME NEW s \in DOMAIN threads'
        PROVE  /\ threads'[s].slot \in DOMAIN results'
               /\ threads'[s].peer \in 1..(Len(peers') + 1)
               /\ threads'[s].source \in 1..(Len(threads'[s].sources) + 1)
    <3>1. CASE s = t
      <4>1. threads[t].slot \in 1..repos
        BY DEF TypeOK
      <4> QED
        BY <1>2, <1>3, <3>1, <4>1
    <3>2. CASE s # t
      BY <1>2, <1>3, <3>2 DEF TypeOK
    <3> QED
      BY <3>1, <3>2
  <2> QED
    BY <1>2, <1>3, <2>1 DEF TypeOK
<1>6. PhaseInv' /\ LogInv'
  BY <1>4 DEF PhaseInv, LogInv
<1>7. ThreadsInv'
  <2>1. ASSUME NEW s \in 1..Len(threads')
        PROVE  /\ threads'[s].repo = s /\ threads'[s].slot = s /\ threads'[s].id = s - 1
               /\ threads'[s].state = "listing" =>
                    threads'[s].peer = 1 /\ threads'[s].source = 1
               /\ threads'[s].state = "finished" => threads'[s].peer = Len(peers') + 1
    <3>1. CASE s = t
      BY <1>1, <1>2, <3>1 DEF ThreadsInv
    <3>2. CASE s # t
      BY <1>1, <1>2, <2>1, <3>2 DEF ThreadsInv
    <3> QED
      BY <3>1, <3>2
  <2> QED
    BY <2>1 DEF ThreadsInv
<1>8. ResultsInv'
  <2>1. ASSUME NEW r \in 1..repos, r # t
        PROVE  /\ results'[r] \in Seq(ToSet(results'[r])) /\ IsInjective(results'[r])
               /\ r \in DOMAIN threads' => ToSet(results'[r]) = Rows(r)'
               /\ r \notin DOMAIN threads' => results'[r] = <<>>
    <3>1. ASSUME r \in DOMAIN threads
          PROVE  Rows(r)' = Rows(r)
      <4>1. threads'[r] = threads[r]
        BY <1>2, <2>1, <3>1
      <4>2. Past(r)' = Past(r)
        BY <4>1 DEF Past
      <4>3. \A x : Row(r, x[1], x[2])' = Row(r, x[1], x[2])
        BY <4>1 DEF Row
      <4> QED
        BY <4>2, <4>3 DEF Rows
    <3> QED
      BY <1>2, <2>1, <3>1 DEF ResultsInv
  <2> QED
    BY <1>2, <2>1 DEF ResultsInv
<1> QED
  BY <1>5, <1>6, <1>7, <1>8

LEMMA ListSourcesKeeps ==
  ASSUME IInv, Running, NEW t \in DOMAIN threads, ListSources(t)
  PROVE  IInv'
<1> USE DEF IInv
<1>1. PICK list \in RefLists :
        threads' = [threads EXCEPT ![t].sources = list, ![t].state = "comparing"]
  BY DEF ListSources
<1> DEFINE u == [threads[t] EXCEPT !.sources = list, !.state = "comparing"]
<1>2. /\ threads[t] \in Thread /\ t \in 1..Len(threads) /\ t \in 1..repos
      /\ DOMAIN threads = 1..Len(threads) /\ threads \in Seq(Thread)
  BY ThreadFacts DEF TypeOK
<1>3. threads[t].peer = 1 /\ threads[t].source = 1
  BY <1>2 DEF ListSources, ThreadsInv
<1>4. u \in Thread
  BY <1>2 DEF Thread, ThreadState
<1>5. threads' = [threads EXCEPT ![t] = u]
  BY <1>1, <1>2
<1>6. /\ u.repo = threads[t].repo /\ u.slot = threads[t].slot /\ u.id = threads[t].id
      /\ u.peer = 1 /\ u.source = 1 /\ u.state = "comparing" /\ u.sources = list
  BY <1>2, <1>3 DEF Thread
<1> HIDE DEF u
<1>7. threads'[t] = u
  BY <1>2, <1>5
<1>8. UNCHANGED <<pc, peers, repos, next, results, sorted, log>>
  BY DEF ListSources
<1>9. Len(peers) \in Nat /\ Len(u.sources) \in Nat
  BY <1>6, PeersFacts, ListFacts
<1>10. Rows(t) = {} /\ Rows(t)' = {}
  <2>1. Past(t) = {}
    BY <1>2, <1>3 DEF Past
  <2>2. Past(t)' = {}
    BY <1>6, <1>7 DEF Past
  <2>3. Rows(t) = {}
    BY <2>1, Zenon DEF Rows
  <2>4. Rows(t)' = {}
    BY <2>2, Zenon DEF Rows
  <2> QED
    BY <2>3, <2>4
<1>11. /\ results' = [r \in 1..repos |-> results'[r]]
       /\ results'[t] \in Seq(ToSet(results'[t])) /\ IsInjective(results'[t])
       /\ ToSet(results'[t]) = Rows(t)'
  BY <1>2, <1>8, <1>10 DEF ResultsInv
<1>12. u.peer \in 1..(Len(peers) + 1) /\ u.source \in 1..(Len(u.sources) + 1)
  BY <1>6, <1>9
<1>13. \A r \in 1..repos : r # t => results'[r] = results[r]
  BY <1>8
<1> QED
  BY <1>4, <1>5, <1>6, <1>8, <1>11, <1>12, <1>13, ThreadKeeps

(* The thread has gone past one pair more, which it had not recorded.      *)
LEMMA CompareKeeps ==
  ASSUME IInv, Running, NEW t \in DOMAIN threads, Compare(t)
  PROVE  IInv'
<1> USE DEF IInv
<1> DEFINE th == threads[t]
           u == [th EXCEPT !.source = @ + 1]
           e == Row(t, th.peer, th.source)
<1>1. /\ th \in Thread /\ t \in 1..Len(threads) /\ t \in 1..repos
      /\ DOMAIN threads = 1..Len(threads) /\ threads \in Seq(Thread)
      /\ Len(th.sources) \in Nat /\ Len(peers) \in Nat
  BY ThreadFacts, PeersFacts DEF TypeOK
<1>2. /\ th.repo = t /\ th.slot = t /\ th.id = t - 1
      /\ th.peer \in 1..Len(peers) /\ th.source \in 1..Len(th.sources)
      /\ th.state = "comparing"
  BY <1>1 DEF ThreadsInv, TypeOK, Compare
<1>3. /\ UNCHANGED <<pc, peers, repos, next, sorted, log>>
      /\ threads' = [threads EXCEPT ![t] = u]
      /\ results' = [results EXCEPT ![t] = Append(@, e)]
  <2>1. Entry(th) = e
    BY <1>2 DEF Entry, Row
  <2>2. results' = [results EXCEPT ![t] = Append(@, Entry(th))]
    BY <1>2 DEF Compare
  <2> HIDE DEF e
  <2> QED
    BY <1>1, <2>1, <2>2 DEF Compare
<1>4. u \in Thread
  <2>1. th.source + 1 \in Nat \ {0}
    BY <1>2
  <2> HIDE DEF th
  <2> QED
    BY <1>1, <2>1 DEF Thread
<1>5. /\ u.repo = th.repo /\ u.slot = th.slot /\ u.id = th.id /\ u.state = "comparing"
      /\ u.sources = th.sources /\ u.peer = th.peer /\ u.source = th.source + 1
  BY <1>1, <1>2 DEF Thread
<1> HIDE DEF u
<1>6. threads'[t] = u
  BY <1>1, <1>3
<1>7. Past(t)' = Past(t) \cup {<<th.peer, th.source>>}
  <2>1. \A x \in (1..Len(peers)) \X (1..Len(th.sources)) :
          (x[1] < u.peer \/ (x[1] = u.peer /\ x[2] < u.source)) <=>
          (x[1] < th.peer \/ (x[1] = th.peer /\ x[2] < th.source)) \/
          x = <<th.peer, th.source>>
    BY <1>1, <1>2, <1>5
  <2>2. <<th.peer, th.source>> \in (1..Len(peers)) \X (1..Len(th.sources))
    BY <1>2
  <2>3. Past(t)' =
          {x \in (1..Len(peers)) \X (1..Len(th.sources)) :
             x[1] < u.peer \/ (x[1] = u.peer /\ x[2] < u.source)}
    BY <1>3, <1>5, <1>6 DEF Past
  <2> HIDE DEF th
  <2> QED
    BY <2>1, <2>2, <2>3 DEF Past, th
<1>8. Rows(t)' = Rows(t) \cup {e}
  <2>1. \A x : Row(t, x[1], x[2])' = Row(t, x[1], x[2])
    BY <1>3, <1>5, <1>6 DEF Row
  <2>2. Rows(t)' = {Row(t, x[1], x[2]) : x \in Past(t)'}
    BY <2>1 DEF Rows
  <2> DEFINE p == <<th.peer, th.source>>
  <2>3. p[1] = th.peer /\ p[2] = th.source
    OBVIOUS
  <2> HIDE DEF p
  <2>4. {Row(t, x[1], x[2]) : x \in Past(t) \cup {p}} = Rows(t) \cup {Row(t, p[1], p[2])}
    BY DEF Rows
  <2> QED
    BY <1>7, <2>2, <2>3, <2>4 DEF p
<1>9. e \notin Rows(t)
  <2>1. SUFFICES ASSUME NEW x \in Past(t), e = Row(t, x[1], x[2])
                 PROVE  FALSE
    BY DEF Rows
  <2>2. /\ x[1] \in 1..Len(peers) /\ x[2] \in 1..Len(th.sources)
        /\ x[1] < th.peer \/ (x[1] = th.peer /\ x[2] < th.source)
    BY DEF Past
  <2>3. x[1] = th.peer /\ x[2] = th.source
    BY <1>2, <2>1, <2>2, RowsDiffer
  <2> QED
    BY <1>2, <2>2, <2>3
<1>10. /\ results[t] \in Seq(ToSet(results[t])) /\ IsInjective(results[t])
       /\ ToSet(results[t]) = Rows(t)
       /\ results = [r \in 1..repos |-> results[r]]
  BY <1>1 DEF ResultsInv
<1> HIDE DEF e
<1>11. /\ results' = [r \in 1..repos |-> results'[r]]
       /\ results'[t] = Append(results[t], e)
       /\ \A r \in 1..repos : r # t => results'[r] = results[r]
  BY <1>1, <1>3, <1>10
<1>12. /\ results'[t] \in Seq(ToSet(results'[t])) /\ IsInjective(results'[t])
       /\ ToSet(results'[t]) = Rows(t)'
  <2> DEFINE s == results[t]
  <2>1. s \in Seq(ToSet(s)) /\ IsInjective(s) /\ e \notin ToSet(s)
    BY <1>9, <1>10
  <2> HIDE DEF s
  <2>2. /\ Append(s, e) \in Seq(ToSet(Append(s, e))) /\ IsInjective(Append(s, e))
        /\ ToSet(Append(s, e)) = ToSet(s) \cup {e}
    BY <2>1, Appended
  <2> QED
    BY <1>8, <1>10, <1>11, <2>2 DEF s
<1>13. u.peer \in 1..(Len(peers) + 1) /\ u.source \in 1..(Len(u.sources) + 1)
  BY <1>1, <1>2, <1>5
<1> QED
  BY <1>3, <1>4, <1>5, <1>11, <1>12, <1>13, ThreadKeeps

(* The outer loop's step, and its end, go past nothing.                    *)
LEMMA LoopKeeps ==
  ASSUME IInv, Running, NEW t \in DOMAIN threads, NextPeer(t) \/ Finish(t)
  PROVE  IInv'
<1> USE DEF IInv
<1> DEFINE th == threads[t]
           u == IF NextPeer(t) THEN [th EXCEPT !.peer = @ + 1, !.source = 1]
                               ELSE [th EXCEPT !.state = "finished"]
<1>1. /\ th \in Thread /\ t \in 1..Len(threads) /\ t \in 1..repos
      /\ DOMAIN threads = 1..Len(threads) /\ threads \in Seq(Thread)
      /\ Len(th.sources) \in Nat /\ Len(peers) \in Nat
      /\ th.peer \in 1..(Len(peers) + 1) /\ th.source \in 1..(Len(th.sources) + 1)
  BY ThreadFacts, PeersFacts DEF TypeOK
<1>2. UNCHANGED <<pc, peers, repos, next, results, sorted, log>>
  BY DEF NextPeer, Finish
<1>3. threads' = [threads EXCEPT ![t] = u]
  BY <1>1 DEF NextPeer, Finish
<1>4. u \in Thread
  <2>1. th.peer + 1 \in Nat \ {0} /\ 1 \in Nat \ {0} /\ "finished" \in ThreadState
    BY <1>1 DEF ThreadState
  <2> HIDE DEF th
  <2>2. [th EXCEPT !.peer = @ + 1, !.source = 1] \in Thread
    BY <1>1, <2>1 DEF Thread
  <2>3. [th EXCEPT !.state = "finished"] \in Thread
    BY <1>1, <2>1 DEF Thread
  <2> QED
    BY <2>2, <2>3
<1>5. /\ u.repo = th.repo /\ u.slot = th.slot /\ u.id = th.id /\ u.sources = th.sources
      /\ u.state # "listing"
      /\ \/ /\ th.peer <= Len(peers) /\ th.source > Len(th.sources)
            /\ u.peer = th.peer + 1 /\ u.source = 1 /\ u.state = "comparing"
         \/ /\ th.peer = Len(peers) + 1
            /\ u.peer = th.peer /\ u.source = th.source
  <2>1. CASE NextPeer(t)
    <3>1. u = [th EXCEPT !.peer = @ + 1, !.source = 1]
      BY <2>1
    <3>2. th.peer <= Len(peers) /\ th.source > Len(th.sources) /\ th.state = "comparing"
      BY <2>1 DEF NextPeer
    <3> HIDE DEF u, th
    <3> QED
      BY <1>1, <3>1, <3>2 DEF Thread
  <2>2. CASE ~ NextPeer(t)
    <3>1. u = [th EXCEPT !.state = "finished"]
      BY <2>2
    <3>2. th.peer = Len(peers) + 1
      BY <1>1, <2>2 DEF Finish
    <3> HIDE DEF u, th
    <3> QED
      BY <1>1, <3>1, <3>2 DEF Thread
  <2> QED
    BY <2>1, <2>2
<1> HIDE DEF u
<1>6. threads'[t] = u
  BY <1>1, <1>3
<1>7. Past(t)' = Past(t)
  <2>1. \A x \in (1..Len(peers)) \X (1..Len(th.sources)) :
          (x[1] < u.peer \/ (x[1] = u.peer /\ x[2] < u.source)) <=>
          (x[1] < th.peer \/ (x[1] = th.peer /\ x[2] < th.source))
    BY <1>1, <1>5
  <2>2. Past(t)' =
          {x \in (1..Len(peers)) \X (1..Len(th.sources)) :
             x[1] < u.peer \/ (x[1] = u.peer /\ x[2] < u.source)}
    BY <1>2, <1>5, <1>6 DEF Past
  <2> QED
    BY <2>1, <2>2 DEF Past
<1>8. Rows(t)' = Rows(t)
  <2>1. \A x : Row(t, x[1], x[2])' = Row(t, x[1], x[2])
    BY <1>2, <1>5, <1>6 DEF Row
  <2> QED
    BY <1>7, <2>1 DEF Rows
<1>9. /\ results' = [r \in 1..repos |-> results'[r]]
      /\ results'[t] \in Seq(ToSet(results'[t])) /\ IsInjective(results'[t])
      /\ ToSet(results'[t]) = Rows(t)'
  BY <1>1, <1>2, <1>8 DEF ResultsInv
<1>10. /\ u.peer \in 1..(Len(peers) + 1) /\ u.source \in 1..(Len(u.sources) + 1)
       /\ u.state = "finished" => u.peer = Len(peers) + 1
  BY <1>1, <1>5
<1> QED
  BY <1>2, <1>3, <1>4, <1>5, <1>9, <1>10, ThreadKeeps
------------------------------------------------------------------------------
(* The entries a complete log has, thread by thread.                       *)
LEMMA ExpectedRows ==
  Expected =
    UNION {{Row(r, p, s) : s \in DOMAIN threads[r].sources, p \in DOMAIN peers} :
             r \in 1..repos}
BY DEF Expected, Row

LEMMA ExpectedEntries ==
  \A e : e \in Expected <=>
           \E r \in 1..repos :
             \E s \in DOMAIN threads[r].sources, p \in DOMAIN peers : e = Row(r, p, s)
<1>1. ASSUME NEW e, e \in Expected
      PROVE  \E r \in 1..repos :
               \E s \in DOMAIN threads[r].sources, p \in DOMAIN peers : e = Row(r, p, s)
  <2>1. PICK r \in 1..repos :
          e \in {Row(r, p, s) : s \in DOMAIN threads[r].sources, p \in DOMAIN peers}
    BY <1>1, ExpectedRows
  <2> QED
    BY <2>1
<1>2. ASSUME NEW r \in 1..repos, NEW s \in DOMAIN threads[r].sources, NEW p \in DOMAIN peers
      PROVE  Row(r, p, s) \in Expected
  BY ExpectedRows
<1> QED
  BY <1>1, <1>2

(* The scores in the entries are numbers.                                  *)
LEMMA ExpectedScores ==
  ASSUME TypeOK, Len(threads) = repos, NEW e \in Expected
  PROVE  e.signature \in 0..100
<1>1. PICK r \in 1..repos :
        \E s \in DOMAIN threads[r].sources, p \in DOMAIN peers : e = Row(r, p, s)
  BY ExpectedEntries
<1>2. PICK s \in DOMAIN threads[r].sources, p \in DOMAIN peers : e = Row(r, p, s)
  BY <1>1
<1>3. r \in DOMAIN threads
  BY DEF TypeOK
<1>4. threads[r].sources \in RefLists /\ threads[r].sources[s] \in ToSet(threads[r].sources)
  BY <1>3, ThreadFacts DEF ToSet
<1>5. peers \in PeerLists /\ peers[p] \in ToSet(peers)
  BY PeersFacts DEF ToSet, TypeOK
<1>6. e.signature = Signature[threads[r].sources[s], peers[p]]
  BY <1>2 DEF Row
<1> QED
  BY <1>4, <1>5, <1>6, SignatureAssumption

(* Once every thread has finished, each has recorded all of its pairs.     *)
LEMMA AllRecorded ==
  ASSUME IInv, pc = "joining", \A t \in DOMAIN threads : threads[t].state = "finished"
  PROVE  /\ Len(threads) = repos /\ DOMAIN threads = 1..repos /\ repos \in Nat
         /\ Expected = UNION {ToSet(results[r]) : r \in 1..repos}
         /\ \A r \in 1..repos : ToSet(results[r]) = Rows(r)
<1> USE DEF IInv
<1>1. Len(threads) = repos /\ DOMAIN threads = 1..repos /\ repos \in Nat
  BY BoundsAssumption DEF TypeOK, PhaseInv
<1>2. \A r \in 1..repos : ToSet(results[r]) = Rows(r)
  BY <1>1 DEF ResultsInv
<1>3. ASSUME NEW r \in 1..repos
      PROVE  Rows(r) = {Row(r, p, s) : s \in DOMAIN threads[r].sources, p \in DOMAIN peers}
  <2>1. /\ threads[r].peer = Len(peers) + 1 /\ Len(peers) \in Nat
        /\ DOMAIN peers = 1..Len(peers)
        /\ DOMAIN threads[r].sources = 1..Len(threads[r].sources)
    BY <1>1, ThreadFacts, PeersFacts DEF ThreadsInv
  <2>2. Past(r) = (1..Len(peers)) \X (1..Len(threads[r].sources))
    BY <2>1 DEF Past
  <2>3. \A x \in Past(r) : x[1] \in DOMAIN peers /\ x[2] \in DOMAIN threads[r].sources
    BY <2>1, <2>2
  <2>4. \A p \in DOMAIN peers, s \in DOMAIN threads[r].sources :
          <<p, s>> \in Past(r) /\ <<p, s>>[1] = p /\ <<p, s>>[2] = s
    BY <2>1, <2>2
  <2>5. Rows(r) \subseteq {Row(r, p, s) : s \in DOMAIN threads[r].sources, p \in DOMAIN peers}
    BY <2>3 DEF Rows
  <2>6. ASSUME NEW p \in DOMAIN peers, NEW s \in DOMAIN threads[r].sources
        PROVE  Row(r, p, s) \in Rows(r)
    <3>1. Row(r, p, s) = Row(r, <<p, s>>[1], <<p, s>>[2])
      OBVIOUS
    <3> QED
      BY <2>4, <3>1 DEF Rows
  <2> QED
    BY <2>5, <2>6
<1> QED
  BY <1>1, <1>2, <1>3, ExpectedRows

LEMMA MergeKeeps ==
  ASSUME IInv, Merge
  PROVE  IInv'
<1> USE DEF IInv
<1>1. /\ pc = "joining" /\ pc' = "sorted"
      /\ \A t \in DOMAIN threads : threads[t].state = "finished"
      /\ sorted' \in Arrangements(FlattenSeq(results))
      /\ UNCHANGED <<peers, repos, next, threads, results, log>>
  BY DEF Merge
<1>2. /\ Len(threads) = repos /\ DOMAIN threads = 1..repos /\ repos \in Nat
      /\ Expected = UNION {ToSet(results[r]) : r \in 1..repos}
      /\ \A r \in 1..repos : ToSet(results[r]) = Rows(r)
  BY <1>1, AllRecorded
<1>3. /\ results = [r \in 1..repos |-> results[r]]
      /\ \A r \in 1..repos :
           results[r] \in Seq(ToSet(results[r])) /\ IsInjective(results[r])
  BY DEF ResultsInv
<1>4. \A r \in 1..repos : results[r] \in Seq(Expected)
  <2>1. \A r \in 1..repos : ToSet(results[r]) \subseteq Expected
    BY <1>2
  <2> QED
    BY <1>3, <2>1, SeqMonotonic
<1>5. results \in Seq(Seq(Expected)) /\ Len(results) = repos
  <2> DEFINE E == Seq(Expected)
  <2>1. \A r \in 1..repos : results[r] \in E
    BY <1>4
  <2> HIDE DEF E
  <2>2. results \in Seq(E) /\ Len(results) = repos
    BY <1>2, <1>3, <2>1
  <2> QED
    BY <2>2 DEF E
<1>6. \A i, j \in 1..repos : i # j => ToSet(results[i]) \cap ToSet(results[j]) = {}
  <2>1. \A i, j, x, y, v, w : Row(i, x, y) = Row(j, v, w) => i = j
    BY DEF Row
  <2>2. \A i, j : i # j => Rows(i) \cap Rows(j) = {}
    BY <2>1 DEF Rows
  <2> QED
    BY <1>2, <2>2
<1>7. /\ FlattenSeq(results) \in Seq(Expected)
      /\ ToSet(FlattenSeq(results)) = Expected
      /\ IsInjective(FlattenSeq(results))
  BY <1>2, <1>3, <1>5, <1>6, Flattened
<1>8. /\ sorted' \in Seq(Expected)
      /\ ToSet(sorted') = Expected
      /\ IsInjective(sorted')
      /\ \A i, j \in DOMAIN sorted' :
           i < j => ~ (sorted'[j].signature > sorted'[i].signature)
  BY <1>1, <1>7, Arranged
<1>9. Complete(sorted')
  <2>1. ASSUME NEW i \in DOMAIN sorted', NEW j \in DOMAIN sorted', i < j
        PROVE  sorted'[i].signature >= sorted'[j].signature
    <3>1. sorted'[i] \in Expected /\ sorted'[j] \in Expected
      BY <1>8 DEF ToSet
    <3>2. sorted'[i].signature \in 0..100 /\ sorted'[j].signature \in 0..100
      BY <1>2, <3>1, ExpectedScores
    <3>3. ~ (sorted'[j].signature > sorted'[i].signature)
      BY <1>8, <2>1
    <3> QED
      BY <3>2, <3>3
  <2> QED
    BY <1>8, <2>1 DEF Complete
<1>10. Complete(sorted)'
  <2>1. Expected' = Expected
    BY <1>1, KeepsWork
  <2> QED
    BY <1>9, <2>1 DEF Complete
<1>11. TypeOK' /\ ThreadsInv' /\ ResultsInv'
  <2>1. pc' \in Stage /\ log'.state \in {"old", "truncated", "written"}
    BY <1>1 DEF TypeOK, Stage
  <2> QED
    BY <1>1, <2>1, KeepsWork
<1>12. PhaseInv'
  BY <1>1 DEF PhaseInv
<1>13. LogInv'
  BY <1>1, <1>10 DEF LogInv
<1> QED
  BY <1>11, <1>12, <1>13

LEMMA StepIInv == IInv /\ [Next]_vars => IInv'
<1> SUFFICES ASSUME IInv, [Next]_vars
             PROVE  IInv'
  OBVIOUS
<1>1. CASE RejectInput \/ EndSpawning \/ OpenLog \/ OpenFails \/ WriteLog \/ Die
                       \/ UNCHANGED vars
  BY <1>1, MainKeeps
<1>2. CASE Prepare
  BY <1>2, PrepareKeeps
<1>3. CASE Spawn
  BY <1>3, SpawnKeeps
<1>4. CASE Merge
  BY <1>4, MergeKeeps
<1>5. ASSUME Running, NEW t \in DOMAIN threads, AnalyzeProject(t)
      PROVE  IInv'
  BY <1>5, ListSourcesKeeps, CompareKeeps, LoopKeeps DEF AnalyzeProject
<1> QED
  BY <1>1, <1>2, <1>3, <1>4, <1>5 DEF Next, Main

LEMMA Invariance == Spec => []IInv
<1>1. Init => IInv
  BY FreshIInv DEF Init, Fresh
<1> QED
  BY <1>1, StepIInv, PTL DEF Spec

------------------------------------------------------------------------------
(* Every variable of StartAnalyze's threads, loops and log has its type.   *)
THEOREM TypeCorrect == Spec => []TypeOK
<1>1. IInv => TypeOK
  BY DEF IInv
<1> QED
  BY <1>1, Invariance, PTL

(***************************************************************************)
(* However many repositories there are, and in whatever order their        *)
(* threads run, no element of results has two threads that push to it.     *)
(***************************************************************************)
THEOREM NoRace == Spec => []NoSharedResults
<1>1. IInv => NoSharedResults
  <2>1. SUFFICES ASSUME IInv, NEW s \in DOMAIN threads, NEW t \in DOMAIN threads,
                        threads[s].slot = threads[t].slot
                 PROVE  s = t
    BY DEF NoSharedResults
  <2>2. s \in 1..Len(threads) /\ t \in 1..Len(threads)
    BY <2>1, ThreadFacts DEF IInv
  <2> QED
    BY <2>1, <2>2 DEF IInv, ThreadsInv
<1> QED
  BY <1>1, Invariance, PTL

(***************************************************************************)
(* A written log has one entry for each pair of files that was to be       *)
(* compared, and only a process that dies leaves the log emptied.          *)
(***************************************************************************)
THEOREM LogIsComplete == Spec => []LogComplete
<1>1. IInv => LogComplete
  BY DEF IInv, LogInv, Complete, LogComplete
<1> QED
  BY <1>1, Invariance, PTL

(* A process of its own finds no entries in its log before it writes them. *)
OldLog == log.state # "written" => log.entries = <<>>

LEMMA LogStaysOld == Spec => []OldLog
<1>1. Init => OldLog
  BY DEF Init, OldLog
<1>2. OldLog /\ [Next]_vars => OldLog'
  <2>1. SUFFICES ASSUME OldLog, [Next]_vars
                 PROVE  OldLog'
    OBVIOUS
  <2>2. CASE UNCHANGED log
    BY <2>1, <2>2 DEF OldLog
  <2>3. CASE OpenLog \/ WriteLog
    BY <2>3 DEF OpenLog, WriteLog, OldLog
  <2> QED
    BY <2>1, <2>2, <2>3 DEF Next, Main, vars, RejectInput, Prepare, Spawn, EndSpawning,
       Merge, OpenFails, Die, AnalyzeProject, ListSources, Compare, NextPeer, Finish
<1> QED
  BY <1>1, <1>2, PTL DEF Spec

(* The log is sorted by score, the highest first.                          *)
THEOREM LogIsSorted == Spec => []LogSorted
<1>1. IInv /\ OldLog => LogSorted
  <2>1. SUFFICES ASSUME IInv, OldLog, NEW i \in 1..(Len(log.entries) - 1)
                 PROVE  log.entries[i].signature >= log.entries[i + 1].signature
    BY DEF LogSorted
  <2>2. CASE log.state = "written"
    <3>1. Complete(log.entries)
      BY <2>1, <2>2 DEF IInv, LogInv
    <3>2. log.entries \in Seq(Expected)
      BY <3>1 DEF Complete
    <3>3. i \in DOMAIN log.entries /\ i + 1 \in DOMAIN log.entries /\ i < i + 1
      BY <2>1, <3>2, LenProperties
    <3> QED
      BY <3>1, <3>3 DEF Complete
  <2>3. CASE log.state # "written"
    <3>1. log.entries = <<>>
      BY <2>1, <2>3 DEF OldLog
    <3> QED
      BY <2>1, <3>1
  <2> QED
    BY <2>2, <2>3
<1> QED
  BY <1>1, Invariance, LogStaysOld, PTL
==============================================================================
