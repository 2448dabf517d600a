---------------------------- MODULE ProgramProofs ----------------------------
(***************************************************************************)
(* Theorems about Program, for any repositories, any lists of sources and  *)
(* any number of processes that end or die one after another.              *)
(*                                                                         *)
(* What one process does is known from AnalyzeProofs, whose invariant      *)
(* holds here too: its steps are steps of Analyze, and a new process       *)
(* starts afresh.  What is added says how the catalogue, the order of the  *)
(* repositories and the history hang together from run to run.             *)
(***************************************************************************)
EXTENDS Program, Flags, FiniteSetTheorems, TLAPS

Work == INSTANCE AnalyzeProofs

Active == pc \in {"spawning", "joining", "sorted", "writing"}

(* The threads are given what is in store, each repository once.           *)
OrderInv == Active \/ Logged => order \in Bijection(1..repos, stored)

(* A thread that has listed its directory has the sources that are there.  *)
SourcesInv ==
  \A t \in DOMAIN threads :
    threads[t].state # "listing" => threads[t].sources = Sources[order[t]]

(* What a log can have held: the repositories with sources.                *)
Comparable(pairs) == {pair \in pairs : Sources[pair] # <<>>}

StoreInv ==
  /\ stored \subseteq Pairs /\ known \subseteq stored
  /\ Active => open /\ known = stored
  /\ compared \subseteq Comparable(stored)
  /\ open => compared \subseteq known

IInv == Work!IInv /\ OrderInv /\ SourcesInv /\ StoreInv
------------------------------------------------------------------------------
(* The actions of Program's instance of Analyze are those of the proofs'.  *)

LEMMA WorkAssumptions ==
  Work!BoundsAssumption /\ Work!ListsAssumption /\ Work!SignatureAssumption
BY AnalysisAssumption DEF Analysis!BoundsAssumption, Work!BoundsAssumption,
   Analysis!ListsAssumption, Work!ListsAssumption,
   Analysis!SignatureAssumption, Work!SignatureAssumption,
   Analysis!ToSet, Work!ToSet, Analysis!IsInjective, Work!IsInjective

LEMMA SamePlanned == Analysis!Planned = Work!Planned
BY Zenon DEF Analysis!Planned, Work!Planned, Analysis!FoldSeq, Work!FoldSeq,
   Analysis!FoldFunction, Work!FoldFunction,
   Analysis!FoldFunctionOnSet, Work!FoldFunctionOnSet,
   Analysis!MapThenFoldSet, Work!MapThenFoldSet

LEMMA SameThreads ==
  ASSUME NEW t, Analysis!AnalyzeProject(t)
  PROVE  Work!AnalyzeProject(t)
<1>1. Analysis!ListSources(t) => Work!ListSources(t)
  BY SamePlanned DEF Analysis!ListSources, Work!ListSources
<1>2. Analysis!Compare(t) => Work!Compare(t)
  BY DEF Analysis!Compare, Work!Compare, Analysis!Entry, Work!Entry
<1>3. Analysis!NextPeer(t) => Work!NextPeer(t)
  BY DEF Analysis!NextPeer, Work!NextPeer
<1>4. Analysis!Finish(t) => Work!Finish(t)
  BY DEF Analysis!Finish, Work!Finish
<1> QED
  BY <1>1, <1>2, <1>3, <1>4 DEF Analysis!AnalyzeProject, Work!AnalyzeProject

LEMMA SameMain == Analysis!Main => Work!Main
<1>1. Analysis!Merge => Work!Merge
  BY DEF Analysis!Merge, Work!Merge, Analysis!Arrangements, Work!Arrangements,
     Analysis!FlattenSeq, Work!FlattenSeq,
     Analysis!SortAnalyzeBySignature, Work!SortAnalyzeBySignature,
     Analysis!Bijection, Work!Bijection, Analysis!Injection, Work!Injection,
     Analysis!Surjection, Work!Surjection, Analysis!IsInjective, Work!IsInjective
<1>2. Analysis!Spawn => Work!Spawn
  BY DEF Analysis!Spawn, Work!Spawn, Analysis!NewThread, Work!NewThread
<1>3. Analysis!RejectInput \/ Analysis!Prepare \/ Analysis!EndSpawning =>
        Work!RejectInput \/ Work!Prepare \/ Work!EndSpawning
  BY DEF Analysis!RejectInput, Work!RejectInput, Analysis!Prepare, Work!Prepare,
     Analysis!EndSpawning, Work!EndSpawning
<1>4. Analysis!OpenLog \/ Analysis!OpenFails \/ Analysis!WriteLog =>
        Work!OpenLog \/ Work!OpenFails \/ Work!WriteLog
  BY DEF Analysis!OpenLog, Work!OpenLog, Analysis!OpenFails, Work!OpenFails,
     Analysis!WriteLog, Work!WriteLog
<1> QED
  BY <1>1, <1>2, <1>3, <1>4 DEF Analysis!Main, Work!Main

LEMMA SameNext == Analysis!Next => Work!Next
<1>1. Analysis!Running = Work!Running
  BY DEF Analysis!Running, Work!Running
<1>2. Analysis!Die => Work!Die
  BY DEF Analysis!Die, Work!Die
<1>3. ASSUME NEW t \in DOMAIN threads, Analysis!Running, Analysis!AnalyzeProject(t)
      PROVE  Work!Running /\ Work!AnalyzeProject(t)
  BY <1>1, <1>3, SameThreads
<1> QED
  BY <1>2, <1>3, SameMain DEF Analysis!Next, Work!Next

LEMMA SameStep ==
  ASSUME Analysis!Next \/ UNCHANGED analysis
  PROVE  [Work!Next]_(Work!vars)
BY SameNext DEF analysis, Work!vars

(* A process that starts finds the threads' invariant as at the beginning. *)
LEMMA WorkStarts == Work!Fresh => Work!IInv
BY WorkAssumptions, Work!FreshIInv

LEMMA WorkSteps == Work!IInv /\ [Work!Next]_(Work!vars) => Work!IInv'
BY WorkAssumptions, Work!StepIInv

(* SetToSeqs lists each element of a set once.                             *)
LEMMA Listed ==
  ASSUME NEW S, IsFiniteSet(S), NEW s \in SetToSeqs(S)
  PROVE  Len(s) \in Nat /\ s \in Bijection(1..Len(s), S)
<1> DEFINE n == Cardinality(S)
<1>1. n \in Nat
  BY FS_CardinalityType
<1>2. s \in [1..n -> S] /\ \A i, j \in 1..n : s[i] = s[j] => i = j
  BY DEF SetToSeqs
<1>3. Len(s) = n
  BY <1>1, <1>2
<1>4. s \in Injection(1..n, S)
  BY <1>2 DEF Injection, IsInjective
<1>5. IsFiniteSet(1..n) /\ Cardinality(1..n) = n
  BY <1>1, FS_Interval
<1>6. s \in Surjection(1..n, S)
  BY <1>4, <1>5, FS_Injection
<1> QED
  BY <1>1, <1>3, <1>4, <1>6 DEF Bijection
------------------------------------------------------------------------------
(***************************************************************************)
(* A complete list of entries is one for each source of each repository in *)
(* store and each file of the peer.                                        *)
(***************************************************************************)
Gathered == pc \in {"sorted", "writing"} \/ Logged

LEMMA GatheredFacts ==
  ASSUME IInv, Gathered
  PROVE  /\ repos \in Nat /\ DOMAIN threads = 1..repos
         /\ order \in [1..repos -> stored] /\ \A q \in stored : \E r \in 1..repos : order[r] = q
         /\ \A r \in 1..repos : threads[r].sources = Sources[order[r]]
         /\ \A r \in 1..repos : Sources[order[r]] \in RefLists
         /\ peers \in PeerLists \cup {<<>>}
<1> USE DEF IInv, Work!IInv
<1>1. /\ Active \/ Logged
      /\ pc \in {"sorted", "writing"} \/ log.state = "written"
      /\ pc \in {"joining", "sorted", "writing"} \/ log.state = "written"
  BY DEF Gathered, Active, Logged
<1>2. repos \in Nat /\ DOMAIN threads = 1..repos
  <2>1. next = repos + 1
    BY <1>1 DEF Work!PhaseInv
  <2>2. repos \in Nat /\ Len(threads) = next - 1 /\ DOMAIN threads = 1..Len(threads)
    <3>1. repos \in 0..MaxRepos /\ Len(threads) = next - 1 /\ threads \in Seq(Work!Thread)
      BY DEF Work!TypeOK
    <3>2. MaxRepos \in Nat
      BY WorkAssumptions DEF Work!BoundsAssumption
    <3> HIDE DEF IInv, Work!IInv
    <3>3. repos \in Nat
      BY <3>1, <3>2
    <3>4. DOMAIN threads = 1..Len(threads)
      BY <3>1
    <3> QED
      BY <3>1, <3>3, <3>4
  <2> QED
    BY <2>1, <2>2
<1>3. /\ order \in [1..repos -> stored]
      /\ \A q \in stored : \E r \in 1..repos : order[r] = q
  BY <1>1 DEF OrderInv, Bijection, Injection, Surjection
<1>4. \A r \in 1..repos : threads[r].sources = Sources[order[r]]
  <2>1. \A r \in 1..repos : threads[r].state = "finished"
    BY <1>1, <1>2 DEF Work!PhaseInv
  <2> QED
    BY <1>2, <2>1 DEF SourcesInv
<1>5. \A r \in 1..repos : Sources[order[r]] \in RefLists
  BY <1>3, SourcesAssumption DEF StoreInv
<1>6. peers \in PeerLists \cup {<<>>}
  BY DEF Work!TypeOK
<1> QED
  BY <1>2, <1>3, <1>4, <1>5, <1>6

(* Which entries there are in a complete list.                             *)
LEMMA EntriesFacts ==
  ASSUME IInv, Gathered, NEW entries, Work!Complete(entries)
  PROVE  /\ \A e \in ToSet(entries) :
              \E r \in 1..repos : \E p \in DOMAIN peers, s \in DOMAIN Sources[order[r]] :
                /\ e.git_link = r /\ e.ref = Sources[order[r]][s] /\ e.peer = peers[p]
         /\ \A r \in 1..repos : \A p \in DOMAIN peers, s \in DOMAIN Sources[order[r]] :
              \E e \in ToSet(entries) :
                /\ e.git_link = r /\ e.ref = Sources[order[r]][s] /\ e.peer = peers[p]
<1>1. ToSet(entries) = Work!Expected
  BY DEF Work!Complete, Work!ToSet, ToSet
<1>2. \A e : e \in ToSet(entries) <=>
             \E r \in 1..repos :
               \E s \in DOMAIN threads[r].sources, p \in DOMAIN peers : e = Work!Row(r, p, s)
  BY <1>1, WorkAssumptions, Work!ExpectedEntries
<1>3. \A r \in 1..repos : threads[r].sources = Sources[order[r]]
  BY GatheredFacts
<1>4. \A r \in 1..repos : \A p, s :
        /\ Work!Row(r, p, s).git_link = r
        /\ Work!Row(r, p, s).ref = Sources[order[r]][s]
        /\ Work!Row(r, p, s).peer = peers[p]
  BY <1>3 DEF Work!Row
<1>5. ASSUME NEW e \in ToSet(entries)
      PROVE  \E r \in 1..repos : \E p \in DOMAIN peers, s \in DOMAIN Sources[order[r]] :
               /\ e.git_link = r /\ e.ref = Sources[order[r]][s] /\ e.peer = peers[p]
  <2>1. PICK r \in 1..repos :
          \E p \in DOMAIN peers, s \in DOMAIN threads[r].sources : e = Work!Row(r, p, s)
    BY <1>2
  <2>2. PICK p \in DOMAIN peers, s \in DOMAIN threads[r].sources : e = Work!Row(r, p, s)
    BY <2>1
  <2> QED
    BY <1>3, <1>4, <2>2
<1>6. ASSUME NEW r \in 1..repos, NEW p \in DOMAIN peers, NEW s \in DOMAIN Sources[order[r]]
      PROVE  \E e \in ToSet(entries) :
               /\ e.git_link = r /\ e.ref = Sources[order[r]][s] /\ e.peer = peers[p]
  <2>1. Work!Row(r, p, s) \in ToSet(entries)
    BY <1>2, <1>3
  <2> QED
    BY <1>4, <2>1
<1> QED
  BY <1>5, <1>6

(* The repositories such a list links are those with sources.              *)
LEMMA LinkedFacts ==
  ASSUME IInv, Gathered, NEW entries, Work!Complete(entries)
  PROVE  /\ Linked(entries) \subseteq Comparable(stored)
         /\ peers # <<>> => Comparable(stored) \subseteq Linked(entries)
<1>1. ASSUME NEW e \in ToSet(entries)
      PROVE  order[e.git_link] \in Comparable(stored)
  <2>1. PICK r \in 1..repos : \E p \in DOMAIN peers, s \in DOMAIN Sources[order[r]] :
          e.git_link = r
    BY EntriesFacts
  <2>2. Sources[order[r]] # <<>>
    BY <2>1
  <2> QED
    BY <2>1, <2>2, GatheredFacts DEF Comparable
<1>2. ASSUME peers # <<>>, NEW q \in Comparable(stored)
      PROVE  q \in Linked(entries)
  <2>1. PICK r \in 1..repos : order[r] = q
    BY GatheredFacts DEF Comparable
  <2>2. \A list : list \in Seq(Work!ToSet(list)) /\ list # <<>> => 1 \in DOMAIN list
    <3>1. \A S : \A list \in Seq(S) : list # <<>> => 1 \in DOMAIN list
      OBVIOUS
    <3> QED
      BY <3>1
  <2>3. 1 \in DOMAIN peers
    BY <1>2, <2>2, GatheredFacts, WorkAssumptions DEF Work!ListsAssumption
  <2>4. 1 \in DOMAIN Sources[order[r]]
    BY <1>2, <2>1, <2>2, GatheredFacts, WorkAssumptions DEF Work!ListsAssumption, Comparable
  <2>5. PICK e \in ToSet(entries) : e.git_link = r
    BY <2>3, <2>4, EntriesFacts
  <2> QED
    BY <2>1, <2>5 DEF Linked
<1> QED
  BY <1>1, <1>2 DEF Linked

(* Within a process, the work goes on from one stage to the next.          *)
LEMMA StaysActive ==
  ASSUME Work!IInv, Analysis!Next, pc # "start", pc' # "dead"
  PROVE  Active /\ repos' = repos /\ (pc = "writing" => log'.entries = sorted)
<1>1. CASE \E t \in DOMAIN threads : Analysis!Running /\ Analysis!AnalyzeProject(t)
  BY <1>1 DEF Analysis!Running, Active, Analysis!AnalyzeProject, Analysis!ListSources,
     Analysis!Compare, Analysis!NextPeer, Analysis!Finish
<1>2. CASE Analysis!Main
  BY <1>2 DEF Analysis!Main, Active, Analysis!RejectInput, Analysis!Prepare,
     Analysis!Spawn, Analysis!EndSpawning, Analysis!Merge, Analysis!OpenLog,
     Analysis!OpenFails, Analysis!WriteLog
<1>3. CASE Analysis!Die
  BY <1>3 DEF Analysis!Die
<1> QED
  BY <1>1, <1>2, <1>3 DEF Analysis!Next

LEMMA WorkKept ==
  ASSUME IInv, Analysis!Next \/ UNCHANGED analysis
  PROVE  Work!IInv'
BY SameStep, WorkSteps DEF IInv

(* Before the work starts there are no threads, and no log of this run.    *)
LEMMA StartFacts ==
  ASSUME IInv, pc = "start"
  PROVE  threads = <<>> /\ ~ Active /\ log.state # "written"
BY DEF IInv, Work!IInv, Work!PhaseInv, Work!LogInv, Active

LEMMA PrepareKeeps ==
  ASSUME IInv, Prepare
  PROVE  IInv'
<1>1. /\ open /\ open' = open /\ known \subseteq stored /\ known' = stored /\ stored' = stored
      /\ Analysis!Prepare /\ pc = "start" /\ pc' = "spawning" /\ threads' = threads
      /\ order' \in SetToSeqs(stored) /\ repos' = Len(order') /\ compared' = compared
  BY DEF Prepare, Catalogue!Publish, Analysis!Prepare
<1>2. Work!IInv'
  BY <1>1, WorkKept DEF Analysis!Next, Analysis!Main
<1>3. OrderInv'
  <2>1. IsFiniteSet(stored)
    BY SourcesAssumption, FS_Subset DEF IInv, StoreInv
  <2>2. order' \in Bijection(1..Len(order'), stored)
    BY <1>1, <2>1, Listed
  <2> QED
    BY <1>1, <2>2 DEF OrderInv
<1>4. SourcesInv'
  BY <1>1, StartFacts DEF SourcesInv
<1>5. StoreInv'
  BY <1>1 DEF IInv, StoreInv, Comparable
<1> QED
  BY <1>2, <1>3, <1>4, <1>5 DEF IInv

(* The steps of the catalogue before the work starts.                      *)
LEMMA CatalogueKeeps ==
  ASSUME IInv, Construct \/ Download
  PROVE  IInv'
<1>1. /\ pc = "start" /\ UNCHANGED <<analysis, order, compared>>
      /\ pc' = pc /\ threads' = threads /\ log' = log
  BY DEF Construct, Download, analysis
<1>2. Work!IInv'
  BY <1>1, WorkKept
<1>3. OrderInv' /\ SourcesInv'
  BY <1>1, StartFacts DEF OrderInv, SourcesInv, Active, Logged
<1>4. StoreInv'
  <2>1. CASE Construct
    BY <1>1, <2>1 DEF Construct, Catalogue!Open, IInv, StoreInv, Comparable, Active
  <2>2. CASE Download
    BY <1>1, <2>2 DEF Download, Catalogue!Transfer, IInv, StoreInv, Comparable, Active
  <2> QED
    BY <2>1, <2>2
<1> QED
  BY <1>2, <1>3, <1>4 DEF IInv

LEMMA AnalyzeKeeps ==
  ASSUME IInv, Analyze
  PROVE  IInv'
<1>1. /\ Analysis!Next /\ pc # "start" /\ pc' # "dead"
      /\ UNCHANGED <<open, known, stored, order>>
  BY DEF Analyze, catalogue
<1>2. Active /\ repos' = repos /\ (pc = "writing" => log'.entries = sorted)
  BY <1>1, StaysActive DEF IInv
<1>3. Work!IInv'
  BY <1>1, WorkKept
<1>4. OrderInv'
  BY <1>1, <1>2 DEF IInv, OrderInv
<1>5. SourcesInv'
  BY <1>1 DEF Analyze, SourcesInv
<1>6. StoreInv'
  <2>1. compared' \subseteq Comparable(stored)
    <3>1. CASE pc = "writing"
      <4>1. Work!Complete(sorted) /\ Gathered
        BY <3>1 DEF IInv, Work!IInv, Work!LogInv, Gathered
      <4>2. Linked(sorted) \subseteq Comparable(stored)
        BY <4>1, LinkedFacts
      <4>3. compared' = compared \cup Linked(sorted)
        BY <1>2, <3>1 DEF Analyze
      <4> QED
        BY <4>2, <4>3 DEF IInv, StoreInv
    <3>2. CASE pc # "writing"
      BY <3>2 DEF Analyze, IInv, StoreInv
    <3> QED
      BY <3>1, <3>2
  <2>2. open /\ known = stored
    BY <1>2 DEF IInv, StoreInv
  <2> QED
    BY <1>1, <2>1, <2>2 DEF IInv, StoreInv, Comparable
<1> QED
  BY <1>3, <1>4, <1>5, <1>6 DEF IInv

(* A process that ends, or is turned away, leaves store and log as they are. *)
LEMMA EndKeeps ==
  ASSUME IInv, Reject \/ End \/ UNCHANGED vars
  PROVE  IInv'
<1>1. /\ stored' = stored /\ compared' = compared /\ order' = order
      /\ repos' = repos /\ threads' = threads /\ log' = log
      /\ Analysis!Next \/ UNCHANGED analysis
      /\ (pc' = pc /\ UNCHANGED catalogue) \/ pc' \in {"done", "dead"}
      /\ pc' = "done" => pc \in {"start", "done"}
      /\ UNCHANGED catalogue \/ (open' = FALSE /\ known' = {})
  BY DEF Reject, End, vars, catalogue, analysis, Analysis!RejectInput, Analysis!Die,
     Analysis!Next, Analysis!Main, Catalogue!Close
<1>2. Work!IInv'
  BY <1>1, WorkKept
<1>3. OrderInv'
  <2>1. Active' \/ Logged' => Active \/ Logged
    BY <1>1, StartFacts DEF Active, Logged
  <2> QED
    BY <1>1, <2>1 DEF IInv, OrderInv
<1>4. SourcesInv'
  BY <1>1 DEF IInv, SourcesInv
<1>5. StoreInv'
  BY <1>1 DEF IInv, StoreInv, Comparable, Active, catalogue
<1> QED
  BY <1>2, <1>3, <1>4, <1>5 DEF IInv

LEMMA RestartKeeps ==
  ASSUME IInv, Restart
  PROVE  IInv'
<1>1. Work!Fresh'
  BY DEF Restart, Work!Fresh, IInv, Work!IInv, Work!TypeOK
<1>2. Work!Fresh' => Work!IInv'
  BY WorkStarts, PTL
<1>3. /\ pc' = "start" /\ threads' = <<>>
      /\ UNCHANGED <<open, known, stored, compared>>
  BY DEF Restart, catalogue
<1>4. OrderInv' /\ SourcesInv'
  BY <1>3 DEF OrderInv, SourcesInv, Active, Logged
<1>5. StoreInv'
  BY <1>3 DEF IInv, StoreInv, Comparable, Active
<1> QED
  BY <1>1, <1>2, <1>4, <1>5 DEF IInv

LEMMA Invariance == Spec => []IInv
<1>1. Init => IInv
  <2> SUFFICES ASSUME Init
               PROVE  IInv
    OBVIOUS
  <2>1. Work!Fresh /\ pc = "start" /\ threads = <<>>
    BY DEF Init, Analysis!Init, Work!Fresh
  <2>2. Work!IInv
    BY <2>1, WorkStarts
  <2>3. OrderInv /\ SourcesInv
    BY <2>1 DEF OrderInv, SourcesInv, Active, Logged
  <2>4. StoreInv
    BY <2>1 DEF Init, Catalogue!Init, StoreInv, Active, Comparable
  <2> QED
    BY <2>2, <2>3, <2>4 DEF IInv
<1>2. IInv /\ [Next]_vars => IInv'
  BY PrepareKeeps, CatalogueKeeps, AnalyzeKeeps, EndKeeps, RestartKeeps DEF Next
<1> QED
  BY <1>1, <1>2, PTL DEF Spec

------------------------------------------------------------------------------
(***************************************************************************)
(* A written log covers the store: each source of each repository, found   *)
(* by this process or by one before it, with each file of the peer.        *)
(***************************************************************************)
THEOREM StoreIsCovered == Spec => []LogCoversStore
<1>1. IInv => LogCoversStore
  <2>1. SUFFICES ASSUME IInv, Logged
                 PROVE  {<<order[e.git_link], e.ref, e.peer>> : e \in ToSet(log.entries)} =
                          UNION {{pair} \X ToSet(Sources[pair]) \X ToSet(peers) :
                                   pair \in stored}
    BY DEF LogCoversStore
  <2>2. Gathered /\ Work!Complete(log.entries)
    BY <2>1 DEF Gathered, Logged, IInv, Work!IInv, Work!LogInv
  <2>3. ASSUME NEW e \in ToSet(log.entries)
        PROVE  \E pair \in stored :
                 <<order[e.git_link], e.ref, e.peer>> \in
                   {pair} \X ToSet(Sources[pair]) \X ToSet(peers)
    <3>1. PICK r \in 1..repos :
            \E p \in DOMAIN peers, s \in DOMAIN Sources[order[r]] :
              e.git_link = r /\ e.ref = Sources[order[r]][s] /\ e.peer = peers[p]
      BY <2>1, <2>2, EntriesFacts
    <3>2. e.ref \in ToSet(Sources[order[r]]) /\ e.peer \in ToSet(peers) /\ e.git_link = r
      BY <3>1 DEF ToSet
    <3>3. order[r] \in stored
      BY <2>1, <2>2, GatheredFacts
    <3> QED
      BY <3>2, <3>3
  <2>4. ASSUME NEW pair \in stored, NEW ref \in ToSet(Sources[pair]), NEW peer \in ToSet(peers)
        PROVE  \E e \in ToSet(log.entries) :
                 <<pair, ref, peer>> = <<order[e.git_link], e.ref, e.peer>>
    <3>1. PICK r \in 1..repos : order[r] = pair
      BY <2>1, <2>2, GatheredFacts
    <3>2. PICK s \in DOMAIN Sources[order[r]] : ref = Sources[order[r]][s]
      BY <3>1 DEF ToSet
    <3>3. PICK p \in DOMAIN peers : peer = peers[p]
      BY DEF ToSet
    <3> QED
      BY <2>1, <2>2, <3>1, <3>2, <3>3, EntriesFacts
  <2> QED
    BY <2>3, <2>4
<1> QED
  BY <1>1, Invariance, PTL

(* What a log has held once, every later one of a peer with files holds.   *)
THEOREM NoneForgotten == Spec => []NothingForgotten
<1>1. IInv => NothingForgotten
  <2>1. SUFFICES ASSUME IInv, Logged, peers # <<>>
                 PROVE  compared \subseteq Linked(log.entries)
    BY DEF NothingForgotten
  <2>2. Gathered /\ Work!Complete(log.entries)
    BY <2>1 DEF Gathered, Logged, IInv, Work!IInv, Work!LogInv
  <2>3. Comparable(stored) \subseteq Linked(log.entries)
    BY <2>1, <2>2, LinkedFacts
  <2> QED
    BY <2>1, <2>3 DEF IInv, StoreInv
<1> QED
  BY <1>1, Invariance, PTL
------------------------------------------------------------------------------
(***************************************************************************)
(* Before all this main parses its arguments.  What holds of the scanner   *)
(* Flags, for command lines of any length over any words: it stands at a   *)
(* place of a flag, and everything before it is scanned.                   *)
(***************************************************************************)

(* All flags' places before arg hold flags, and the fields are theirs.     *)
Scanned ==
  /\ arg % 2 = 1
  /\ \A p \in FlagPlaces : p < arg => argv[p] \in Flag
  /\ \A f \in Flag : ValueBefore(f, arg)

Decided ==
  /\ parsing = "accepted" => argv # <<>> /\ arg = Len(argv) + 1
  /\ parsing = "helped" => ~ InPairs

ParserInv == FlagsTypeOK /\ Scanned /\ Decided

LEMMA ArgvType ==
  ASSUME FlagsTypeOK
  PROVE  argv \in Seq(Words) /\ Len(argv) \in Nat
BY ArgumentsAssumption DEF FlagsTypeOK

(* The empty prefix is scanned. *)
LEMMA ParserStart == ASSUME FlagsInit PROVE ParserInv
<1>1. FlagsTypeOK
  <2>1. argv \in Seq(Words)  BY ArgumentsAssumption DEF FlagsInit
  <2>2. arg \in 1..(Len(argv) + 1)  BY <2>1 DEF FlagsInit
  <2>3. field \in [Flag -> Words \cup {Empty}]  BY DEF FlagsInit
  <2> QED  BY <2>2, <2>3 DEF FlagsInit, FlagsTypeOK
<1>2. Scanned
  BY DEF FlagsInit, Scanned, FlagPlaces, ValueBefore
<1>3. Decided
  BY DEF FlagsInit, Decided
<1> QED  BY <1>1, <1>2, <1>3 DEF ParserInv

(* Help, at a place of a flag, means that the arguments are not pairs. *)
LEMMA HelpStep == ASSUME ParserInv, Help PROVE ParserInv'
<1> USE DEF ParserInv
<1>1. argv \in Seq(Words) /\ Len(argv) \in Nat  BY ArgvType
<1>2. FlagsTypeOK'  BY DEF FlagsTypeOK, Help
<1>3. Scanned'
  BY DEF Help, Scanned, FlagPlaces, ValueBefore
<1>4. ~ InPairs
  <2>1. CASE argv = <<>>  BY <2>1 DEF InPairs
  <2>2. CASE arg <= Len(argv) /\ argv[arg] \notin Flag
    <3>1. arg \in FlagPlaces  BY <1>1, <2>2 DEF FlagPlaces, Scanned, FlagsTypeOK
    <3> QED  BY <2>2, <3>1 DEF InPairs
  <2>3. CASE arg = Len(argv)
    BY <1>1, <2>3 DEF InPairs, Scanned
  <2> QED  BY <2>1, <2>2, <2>3 DEF Help
<1>5. Decided'
  <2>1. InPairs' = InPairs  BY DEF Help, InPairs, FlagPlaces
  <2> QED  BY <1>4, <2>1 DEF Help, Decided
<1> QED  BY <1>2, <1>3, <1>5

(* A flag and its value more. *)
LEMMA TakeStep == ASSUME ParserInv, TakeFlag PROVE ParserInv'
<1> USE DEF ParserInv
<1>1. argv \in Seq(Words) /\ Len(argv) \in Nat /\ arg \in Nat /\ arg >= 1
      /\ arg + 1 <= Len(argv)
  BY ArgvType DEF FlagsTypeOK, TakeFlag
<1>2. FlagsTypeOK'
  <2>1. argv[arg + 1] \in Words  BY <1>1
  <2> QED  BY <1>1, <2>1 DEF FlagsTypeOK, TakeFlag
<1>3. arg % 2 = 1 /\ (arg + 2) % 2 = 1  BY <1>1 DEF Scanned
<1>4. \A p \in FlagPlaces : p < arg + 2 => p < arg \/ p = arg
  BY <1>1, <1>3 DEF FlagPlaces
<1>5. FlagPlaces' = FlagPlaces /\ arg \in FlagPlaces
  BY <1>1, <1>3 DEF TakeFlag, FlagPlaces
<1>6. \A p \in FlagPlaces' : p < arg' => argv'[p] \in Flag
  BY <1>4, <1>5 DEF TakeFlag, Scanned
<1>7. ASSUME NEW f \in Flag PROVE ValueBefore(f, arg)'
  <2>1. CASE f = argv[arg]
    <3>1. field'[f] = argv[arg + 1]  BY <2>1 DEF TakeFlag, FlagsTypeOK
    <3>2. \A q \in FlagPlaces : ~ (arg < q /\ q < arg + 2)
      BY <1>1, <1>4 DEF FlagPlaces
    <3> QED  BY <1>1, <1>5, <2>1, <3>1, <3>2 DEF TakeFlag, ValueBefore
  <2>2. CASE f # argv[arg]
    <3>1. field'[f] = field[f]  BY <2>2 DEF TakeFlag, FlagsTypeOK
    <3>2. ValueBefore(f, arg)  BY DEF Scanned
    <3>3. CASE field[f] = Empty /\ \A p \in FlagPlaces : p < arg => argv[p] # f
      <4>1. \A p \in FlagPlaces : p < arg + 2 => argv[p] # f
        BY <1>4, <2>2, <3>3
      <4> QED  BY <1>5, <3>1, <3>3, <4>1 DEF TakeFlag, ValueBefore
    <3>4. CASE \E p \in FlagPlaces :
                 /\ p < arg /\ argv[p] = f /\ field[f] = argv[p + 1]
                 /\ \A q \in FlagPlaces : p < q /\ q < arg => argv[q] # f
      <4>1. PICK p \in FlagPlaces :
                 /\ p < arg /\ argv[p] = f /\ field[f] = argv[p + 1]
                 /\ \A q \in FlagPlaces : p < q /\ q < arg => argv[q] # f
        BY <3>4
      <4>2. \A q \in FlagPlaces : p < q /\ q < arg + 2 => argv[q] # f
        BY <1>4, <2>2, <4>1
      <4>3. p < arg + 2  BY <1>1, <4>1 DEF FlagPlaces
      <4> QED  BY <1>5, <3>1, <4>1, <4>2, <4>3 DEF TakeFlag, ValueBefore
    <3> QED  BY <3>2, <3>3, <3>4 DEF ValueBefore
  <2> QED  BY <2>1, <2>2
<1>8. Scanned'
  BY <1>3, <1>6, <1>7 DEF Scanned, TakeFlag
<1>9. Decided'  BY DEF Decided, TakeFlag
<1> QED  BY <1>2, <1>8, <1>9

LEMMA AcceptStep == ASSUME ParserInv, Accept PROVE ParserInv'
<1> USE DEF ParserInv
<1>1. argv \in Seq(Words) /\ Len(argv) \in Nat  BY ArgvType
<1>2. FlagsTypeOK'  BY DEF FlagsTypeOK, Accept
<1>3. Scanned'  BY DEF Accept, Scanned, FlagPlaces, ValueBefore
<1>4. Decided'  BY <1>1 DEF Accept, Decided, FlagsTypeOK
<1> QED  BY <1>2, <1>3, <1>4

LEMMA StutterStep == ASSUME ParserInv, UNCHANGED flags_vars PROVE ParserInv'
<1>1. FlagsTypeOK'  BY DEF ParserInv, FlagsTypeOK, flags_vars
<1>2. Scanned'  BY DEF ParserInv, flags_vars, Scanned, FlagPlaces, ValueBefore
<1>3. Decided'  BY DEF ParserInv, flags_vars, Decided, InPairs, FlagPlaces
<1> QED  BY <1>1, <1>2, <1>3 DEF ParserInv

LEMMA ParserInvariance == FlagsSpec => []ParserInv
<1>1. FlagsInit => ParserInv  BY ParserStart
<1>2. ParserInv /\ [FlagsNext]_flags_vars => ParserInv'
  BY HelpStep, TakeStep, AcceptStep, StutterStep DEF FlagsNext
<1> QED  BY <1>1, <1>2, PTL DEF FlagsSpec

(* The scanner stays within its arguments, however long they are. *)
THEOREM ParserTypeCorrect == FlagsSpec => []FlagsTypeOK
<1>1. ParserInv => FlagsTypeOK  BY DEF ParserInv
<1> QED  BY <1>1, ParserInvariance, PTL

(***************************************************************************)
(* Of any command line: it is accepted if and only if it is pairs of a     *)
(* flag and a value, and each field is the value of its last flag.         *)
(***************************************************************************)
THEOREM AcceptsExactlyPairs == FlagsSpec => []AcceptsPairs
<1>1. ParserInv => AcceptsPairs
  <2> SUFFICES ASSUME ParserInv PROVE AcceptsPairs  OBVIOUS
  <2> USE DEF ParserInv
  <2>1. argv \in Seq(Words) /\ Len(argv) \in Nat  BY ArgvType
  <2>2. ASSUME parsing = "accepted"
        PROVE InPairs /\ \A f \in Flag : ValueBefore(f, Len(argv) + 1)
    <3>1. argv # <<>> /\ arg = Len(argv) + 1  BY <2>2 DEF Decided
    <3>2. Len(argv) % 2 = 0  BY <2>1, <3>1 DEF Scanned
    <3>3. \A p \in FlagPlaces : argv[p] \in Flag
      BY <2>1, <3>1 DEF Scanned, FlagPlaces
    <3>4. \A f \in Flag : ValueBefore(f, Len(argv) + 1)
      BY <3>1 DEF Scanned
    <3> QED  BY <3>1, <3>2, <3>3, <3>4 DEF InPairs
  <2> QED  BY <2>2 DEF Decided, AcceptsPairs
<1> QED  BY <1>1, ParserInvariance, PTL
==============================================================================
