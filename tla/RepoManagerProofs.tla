-------------------------- MODULE RepoManagerProofs --------------------------
(***************************************************************************)
(* Theorems about RepoManager, for every set of keywords, accounts and     *)
(* names, and for URL lists of any length and any content.                 *)
(*                                                                         *)
(* The inductive invariant IInv says how the vector of rows and the list   *)
(* of threads grow together: one unused row for each URL, then one row for *)
(* each thread, in order; and that the memory block is replaced once, by   *)
(* the first push_back, before there is a reference into it.               *)
(***************************************************************************)
EXTENDS RepoSearch, SequenceTheorems, TLAPS

(* Between calls the locals are gone; a call has given its keyword a set. *)
CallInv ==
  /\ pc # "busy" => NoCall
  /\ pc = "busy" => keyword \in DOMAIN repoPaths

(* One row for each URL, still unused, and one for each thread, in order. *)
RowsInv ==
  /\ Len(errors) = Len(urls) + Len(threads)
  /\ Len(threads) < next
  /\ \A i \in 1..Len(urls) : errors[i].code = Unused
  /\ \A t \in 1..Len(threads) :
       /\ threads[t].row = Len(urls) + t
       /\ errors[Len(urls) + t].pair = threads[t].pair
       /\ errors[Len(urls) + t].code =
            IF threads[t].state = "error" THEN Failure ELSE Success

(* The first push_back doubles the block; no later one replaces it. *)
BlockInv ==
  /\ threads = <<>> => capacity = Len(urls) /\ block = 0
  /\ threads # <<>> => capacity = 2 * Len(urls) /\ block = 1
  /\ \A t \in 1..Len(threads) : threads[t].block = block

IInv == TypeOK /\ CallInv /\ RowsInv /\ BlockInv
------------------------------------------------------------------------------
(* The name ParseGitNameFromStr cuts out of a URL is a name again. *)
LEMMA PairTyped ==
  ASSUME NEW k \in Keywords, NEW url \in RepoUrl
  PROVE  PairOf(k, url) \in RepoPair
<1> DEFINE name == ParseGitNameFromStr(url).name
<1>1. url.file \in Seq(Segments \cup {Git}) /\ url.user \in Users
  BY DEF RepoUrl
<1>2. name \in Name
  <2>1. CASE Len(url.file) > 1
    <3>1. name = SubSeq(url.file, 1, Len(url.file) - 1)
      BY <2>1 DEF ParseGitNameFromStr, Front
    <3>2. \A i \in 1..(Len(url.file) - 1) : url.file[i] \in Segments \cup {Git}
      BY <1>1, ElementOfSeq, LenProperties
    <3> QED BY <3>1, <3>2, <1>1, SubSeqProperties, LenProperties DEF Name
  <2>2. CASE ~ (Len(url.file) > 1)
    BY <2>2, <1>1 DEF ParseGitNameFromStr, Name
  <2> QED BY <2>1, <2>2
<1> QED BY <1>1, <1>2 DEF PairOf, ParseGitNameFromStr, RepoPair, Path

(* The pair CheckRepoDir makes of a directory is a pair. *)
LEMMA ScannedTyped ==
  ASSUME NEW path \in Path
  PROVE  ScannedPair(path) \in RepoPair
<1>1. path[2] \in Users /\ path[3] \in Seq(Segments \cup {Git})
  BY DEF Path, Name
<1>2. Append(path[3], Git) \in Seq(Segments \cup {Git})
  BY <1>1, AppendProperties
<1> QED BY <1>1, <1>2 DEF ScannedPair, RepoPair, RepoUrl, Sites

(* Rows and threads are what their types say they are. *)
LEMMA ThreadTyped ==
  ASSUME CallOK, NEW t \in DOMAIN threads
  PROVE  /\ t \in 1..Len(threads) /\ t \in Nat
         /\ threads[t] \in Thread /\ threads[t].pair \in RepoPair
         /\ Target(t) \in Path /\ Target(t)[1] \in Keywords
<1>1. threads[t] \in Thread /\ t \in 1..Len(threads)
  BY ElementOfSeq, LenProperties DEF CallOK
<1> QED BY <1>1 DEF Target, Thread, RepoPair, Path

(* Without a call, everything about calls holds. *)
LEMMA IdleCall == NoCall => CallOK /\ RowsInv /\ BlockInv
<1> SUFFICES ASSUME NoCall PROVE CallOK /\ RowsInv /\ BlockInv
  OBVIOUS
<1>1. urls \in Seq(RepoUrl) /\ errors \in Seq(ErrorRow) /\ threads \in Seq(Thread)
  BY EmptySeq DEF NoCall
<1>2. keyword \in Keywords \cup {NoKeyword} /\ keywordUsed \in BOOLEAN
  BY DEF NoCall
<1>3. next \in 1..(Len(urls) + 1) /\ capacity \in Nat /\ block \in Nat
  BY DEF NoCall
<1>4. RowsInv /\ BlockInv
  BY DEF NoCall, RowsInv, BlockInv
<1> QED BY <1>1, <1>2, <1>3, <1>4 DEF CallOK

LEMMA InitInv == Init => IInv
<1> SUFFICES ASSUME Init PROVE IInv
  OBVIOUS
<1>1. CatalogueOK
  <2>1. DOMAIN repoPaths = {}
    BY DEF Init, EmptyMap
  <2> QED BY <2>1 DEF Init, CatalogueOK
<1>2. TreeOK /\ CallInv
  BY DEF Init, TreeOK, CallInv
<1> QED BY <1>1, <1>2, IdleCall DEF Init, IInv, TypeOK

(* The steps that only touch the catalogue leave a call that is not there. *)
LEMMA ConstructInv == ASSUME IInv, Construct PROVE IInv'
<1> USE DEF Construct, IInv, TypeOK
<1>1. TreeOK' /\ CallOK' /\ RowsInv' /\ BlockInv'
  BY DEF TreeOK, CallOK, RowsInv, BlockInv, tree, call
<1>2. CatalogueOK'
  <2>1. ASSUME NEW k \in keywordDirs PROVE repoPaths'[k] \subseteq RepoPair
    BY <2>1, ScannedTyped DEF CheckRepoDir, TreeOK
  <2>2. DOMAIN repoPaths' = keywordDirs
    BY DEF CheckRepoDir
  <2> QED BY <2>1, <2>2 DEF CatalogueOK, TreeOK
<1>3. CallInv'
  BY DEF CallInv, NoCall, call
<1> QED BY <1>1, <1>2, <1>3

(* The process ends, and with it the call, if there is one. *)
LEMMA EndInv == ASSUME IInv, Destruct \/ Die PROVE IInv'
<1>1. NoCall' /\ pc' = "off" /\ repoPaths' = EmptyMap /\ UNCHANGED tree
  BY DEF Destruct, Die, IInv, CallInv, NoCall, LeaveCall, call
<1>2. CallOK' /\ RowsInv' /\ BlockInv'
  <2>1. (NoCall => CallOK /\ RowsInv /\ BlockInv)'
    BY IdleCall, PTL
  <2> QED BY <1>1, <2>1
<1>3. TreeOK'
  <2>1. interrupted' \subseteq Path
    <3>1. CASE Destruct
      BY <3>1 DEF Destruct, IInv, TypeOK, TreeOK
    <3>2. CASE Die
      BY <3>2, ThreadTyped DEF Die, IInv, TypeOK, TreeOK
    <3> QED BY <3>1, <3>2
  <2> QED BY <1>1, <2>1 DEF IInv, TypeOK, TreeOK, tree
<1>4. CatalogueOK'
  <2>1. DOMAIN repoPaths' = {}
    BY <1>1 DEF EmptyMap
  <2> QED BY <1>1, <2>1 DEF CatalogueOK
<1>5. CallInv'
  BY <1>1 DEF CallInv
<1> QED BY <1>2, <1>3, <1>4, <1>5 DEF IInv, TypeOK

(* A call begins with a vector of unused rows and no thread. *)
LEMMA DownloadReposInv ==
  ASSUME IInv, NEW k \in Keywords, NEW list \in UrlLists, DownloadRepos(k, list)
  PROVE  IInv'
<1> USE DEF DownloadRepos
<1>1. list \in Seq(RepoUrl) /\ Len(list) \in Nat
  BY UrlListsAssumption, LenProperties
<1>2. /\ errors' = [i \in 1..Len(list) |-> [pair |-> NoPair, code |-> Unused]]
      /\ capacity' = Len(list) /\ block' = 0
  BY DEF InitErrors
<1>3. errors' \in Seq(ErrorRow) /\ Len(errors') = Len(list)
  BY <1>1, <1>2 DEF ErrorRow
<1>4. threads' \in Seq(Thread) /\ Len(threads') = 0
  BY EmptySeq
<1>5. TreeOK'
  BY DEF IInv, TypeOK, TreeOK, tree
<1>6. CatalogueOK'
  BY DEF IInv, TypeOK, CatalogueOK
<1>7. CallOK'
  BY <1>1, <1>2, <1>3, <1>4 DEF CallOK
<1>8. CallInv'
  BY DEF CallInv
<1>9. RowsInv' /\ BlockInv'
  BY <1>1, <1>2, <1>3, <1>4 DEF RowsInv, BlockInv
<1> QED BY <1>5, <1>6, <1>7, <1>8, <1>9 DEF IInv, TypeOK

LEMMA SkipInv == ASSUME IInv, Skip PROVE IInv'
<1> USE DEF Skip, AtUrl, IInv, TypeOK
<1>1. TreeOK' /\ CatalogueOK' /\ CallInv' /\ BlockInv'
  BY DEF TreeOK, tree, CatalogueOK, CallInv, BlockInv
<1>2. CallOK'
  BY LenProperties DEF CallOK
<1>3. RowsInv'
  BY LenProperties DEF RowsInv, CallOK
<1> QED BY <1>1, <1>2, <1>3

(* The first Spawn of a call replaces the block, the others find room. *)
LEMMA SpawnInv == ASSUME IInv, Spawn PROVE IInv'
<1> DEFINE n == Len(urls)
           m == Len(threads)
           row == [pair |-> Current, code |-> Success]
           thread == [pair |-> Current, row |-> Len(errors'), block |-> block',
                      state |-> "created"]
<1>1. /\ n \in Nat /\ m \in Nat /\ Len(errors) = n + m /\ next \in 1..n /\ m < next
      /\ urls \in Seq(RepoUrl) /\ errors \in Seq(ErrorRow) /\ threads \in Seq(Thread)
  BY LenProperties DEF IInv, TypeOK, CallOK, RowsInv, Spawn, AtUrl
<1>2. Current \in RepoPair
  <2>1. keyword \in Keywords
    BY DEF IInv, TypeOK, CatalogueOK, CallInv, Spawn, AtUrl
  <2>2. urls[next] \in RepoUrl
    BY <1>1, ElementOfSeq
  <2> QED BY <2>1, <2>2, PairTyped DEF Current
<1>3. /\ errors' = Append(errors, row) /\ errors' \in Seq(ErrorRow)
      /\ Len(errors') = n + m + 1 /\ errors'[n + m + 1] = row
      /\ \A i \in 1..(n + m) : errors'[i] = errors[i]
  <2>1. row \in ErrorRow
    BY <1>2 DEF ErrorRow
  <2>2. errors' = Append(errors, row)
    BY DEF Spawn, PushBack
  <2> HIDE DEF row
  <2>3. errors \in Seq(ErrorRow)
    BY <1>1
  <2>4. /\ errors' \in Seq(ErrorRow) /\ Len(errors') = Len(errors) + 1
        /\ errors'[Len(errors) + 1] = row
        /\ \A i \in 1..Len(errors) : errors'[i] = errors[i]
    BY <2>1, <2>2, <2>3, AppendProperties
  <2> QED BY <1>1, <2>2, <2>4
<1>4. capacity' = 2 * n /\ block' = 1
  <2>1. CASE threads = <<>>
    <3>1. Len(errors) = capacity /\ capacity = n /\ block = 0 /\ n # 0
      BY <2>1, <1>1 DEF IInv, BlockInv
    <3> QED BY <3>1 DEF Spawn, PushBack, Grown
  <2>2. CASE threads # <<>>
    <3>1. capacity = 2 * n /\ block = 1
      BY <2>2 DEF IInv, BlockInv
    <3>2. Len(errors) # capacity
      BY <3>1, <1>1
    <3> QED BY <3>1, <3>2 DEF Spawn, PushBack
  <2> QED BY <2>1, <2>2
<1>5. /\ threads' = Append(threads, thread) /\ threads' \in Seq(Thread)
      /\ Len(threads') = m + 1 /\ threads'[m + 1] = thread
      /\ \A t \in 1..m : threads'[t] = threads[t]
  <2>1. thread \in Thread
    BY <1>1, <1>2, <1>3, <1>4 DEF Thread, ThreadState
  <2>2. threads' = Append(threads, thread)
    BY DEF Spawn
  <2> HIDE DEF thread
  <2> QED BY <1>1, <2>1, <2>2, AppendProperties
<1>6. TreeOK' /\ CatalogueOK' /\ CallInv'
  BY DEF Spawn, AtUrl, IInv, TypeOK, TreeOK, CatalogueOK, CallInv, tree
<1>7. CallOK'
  BY <1>1, <1>3, <1>4, <1>5 DEF Spawn, IInv, TypeOK, CallOK
<1>8. RowsInv'
  <2>1. urls' = urls /\ next' = next + 1
    BY DEF Spawn
  <2>2. \A i \in 1..n : errors'[i].code = Unused
    BY <1>1, <1>3 DEF IInv, RowsInv
  <2>3. ASSUME NEW t \in 1..(m + 1)
        PROVE  /\ threads'[t].row = n + t
               /\ errors'[n + t].pair = threads'[t].pair
               /\ errors'[n + t].code =
                    IF threads'[t].state = "error" THEN Failure ELSE Success
    <3>1. CASE t \in 1..m
      <4>1. threads'[t] = threads[t] /\ errors'[n + t] = errors[n + t]
        BY <3>1, <1>1, <1>3, <1>5
      <4> QED BY <3>1, <4>1 DEF IInv, RowsInv
    <3>2. CASE t = m + 1
      <4>1. n + t = n + m + 1
        BY <3>2, <1>1
      <4> QED BY <3>2, <4>1, <1>3, <1>5
    <3> QED BY <3>1, <3>2, <1>1
  <2> QED BY <1>1, <1>3, <1>5, <2>1, <2>2, <2>3 DEF RowsInv
<1>9. BlockInv'
  <2>1. ASSUME NEW t \in 1..(m + 1) PROVE threads'[t].block = 1
    <3>1. CASE t \in 1..m
      <4>1. threads # <<>>
        BY <3>1, <1>1, EmptySeq
      <4> QED BY <3>1, <4>1, <1>5 DEF IInv, BlockInv
    <3>2. CASE t = m + 1
      BY <3>2, <1>4, <1>5
    <3> QED BY <3>1, <3>2, <1>1
  <2>2. threads' # <<>>
    BY <1>1, <1>5, EmptySeq
  <2>3. urls' = urls
    BY DEF Spawn
  <2> QED BY <1>4, <1>5, <2>1, <2>2, <2>3 DEF BlockInv
<1> QED BY <1>6, <1>7, <1>8, <1>9 DEF IInv, TypeOK

(* A step of git_clone before its last: the rows do not change. *)
LEMMA ProceedInv ==
  ASSUME IInv, NEW t \in DOMAIN threads, NEW state \in {"checked", "cloning"},
         threads[t].state # "error", Proceed(t, state)
  PROVE  CallOK' /\ RowsInv' /\ BlockInv'
<1> DEFINE m == Len(threads)
<1>1. /\ m \in Nat /\ t \in 1..m /\ threads \in Seq(Thread) /\ threads[t] \in Thread
      /\ threads' = [threads EXCEPT ![t].state = state]
  BY ThreadTyped, LenProperties DEF IInv, TypeOK, CallOK, Proceed
<1>2. /\ threads' \in Seq(Thread) /\ Len(threads') = m
      /\ \A s \in 1..m : s # t => threads'[s] = threads[s]
      /\ threads'[t] = [threads[t] EXCEPT !.state = state]
  <2>1. [threads[t] EXCEPT !.state = state] \in Thread
    BY <1>1 DEF Thread, ThreadState
  <2>2. threads' = [threads EXCEPT ![t] = [threads[t] EXCEPT !.state = state]]
    BY <1>1
  <2> QED BY <1>1, <2>1, <2>2, ExceptSeq
<1>3. \A s \in 1..m :
        /\ threads'[s].row = threads[s].row /\ threads'[s].pair = threads[s].pair
        /\ threads'[s].block = threads[s].block
        /\ threads'[s].state = "error" <=> threads[s].state = "error"
  BY <1>1, <1>2 DEF Thread
<1>4. threads' = <<>> <=> threads = <<>>
  BY <1>1, <1>2, EmptySeq
<1>5. CallOK'
  BY <1>2 DEF Proceed, IInv, TypeOK, CallOK
<1>6. RowsInv'
  BY <1>2, <1>3 DEF Proceed, IInv, RowsInv
<1>7. BlockInv'
  BY <1>2, <1>3, <1>4 DEF Proceed, IInv, BlockInv
<1> QED BY <1>5, <1>6, <1>7

(* The last step of git_clone: its result reaches the thread's own row. *)
LEMMA ReturnInv ==
  ASSUME IInv, NEW t \in DOMAIN threads, NEW state \in {"ok", "error"},
         Return(t, state, IF state = "error" THEN Failure ELSE Success)
  PROVE  CallOK' /\ RowsInv' /\ BlockInv'
<1> DEFINE n == Len(urls)
           m == Len(threads)
           code == IF state = "error" THEN Failure ELSE Success
<1>1. /\ m \in Nat /\ n \in Nat /\ t \in 1..m /\ threads \in Seq(Thread)
      /\ threads[t] \in Thread /\ threads' = [threads EXCEPT ![t].state = state]
      /\ errors \in Seq(ErrorRow) /\ Len(errors) = n + m
  BY ThreadTyped, LenProperties DEF IInv, TypeOK, CallOK, RowsInv, Return
<1>2. /\ threads' \in Seq(Thread) /\ Len(threads') = m
      /\ \A s \in 1..m : s # t => threads'[s] = threads[s]
      /\ threads'[t] = [threads[t] EXCEPT !.state = state]
  <2>1. [threads[t] EXCEPT !.state = state] \in Thread
    BY <1>1 DEF Thread, ThreadState
  <2>2. threads' = [threads EXCEPT ![t] = [threads[t] EXCEPT !.state = state]]
    BY <1>1
  <2> QED BY <1>1, <2>1, <2>2, ExceptSeq
<1>3. errors' = [errors EXCEPT ![n + t].code = code]
  <2>1. threads[t].block = block /\ threads[t].row = n + t
    BY <1>1 DEF IInv, BlockInv, RowsInv
  <2> QED BY <2>1 DEF Return
<1>4. /\ errors' \in Seq(ErrorRow) /\ Len(errors') = n + m
      /\ \A i \in 1..(n + m) : i # n + t => errors'[i] = errors[i]
      /\ errors'[n + t] = [errors[n + t] EXCEPT !.code = code]
      /\ errors[n + t] \in ErrorRow
  <2>1. n + t \in 1..Len(errors)
    BY <1>1
  <2>2. errors[n + t] \in ErrorRow
    BY <1>1, <2>1, ElementOfSeq
  <2>3. [errors[n + t] EXCEPT !.code = code] \in ErrorRow
    BY <2>2 DEF ErrorRow
  <2>4. errors' = [errors EXCEPT ![n + t] = [errors[n + t] EXCEPT !.code = code]]
    BY <1>3
  <2> HIDE DEF code
  <2>5. /\ errors' \in Seq(ErrorRow) /\ Len(errors') = Len(errors)
        /\ \A i \in 1..Len(errors) :
             errors'[i] = IF i = n + t THEN [errors[n + t] EXCEPT !.code = code]
                                       ELSE errors[i]
    BY <1>1, <2>1, <2>3, <2>4, ExceptSeq
  <2> QED BY <1>1, <2>1, <2>2, <2>5
<1>5. CallOK'
  BY <1>2, <1>4 DEF Return, IInv, TypeOK, CallOK
<1>6. RowsInv'
  <2>1. urls' = urls /\ next' = next
    BY DEF Return
  <2>2. ASSUME NEW i \in 1..n PROVE errors'[i].code = Unused
    <3>1. i \in 1..(n + m) /\ i # n + t
      BY <1>1
    <3>2. errors'[i] = errors[i]
      BY <3>1, <1>4
    <3> QED BY <3>2 DEF IInv, RowsInv
  <2>3. ASSUME NEW s \in 1..m
        PROVE  /\ threads'[s].row = n + s
               /\ errors'[n + s].pair = threads'[s].pair
               /\ errors'[n + s].code =
                    IF threads'[s].state = "error" THEN Failure ELSE Success
    <3>1. CASE s = t
      BY <3>1, <1>1, <1>2, <1>4 DEF IInv, RowsInv, Thread, ErrorRow
    <3>2. CASE s # t
      <4>1. threads'[s] = threads[s] /\ errors'[n + s] = errors[n + s]
        BY <3>2, <1>1, <1>2, <1>4
      <4> QED BY <4>1 DEF IInv, RowsInv
    <3> QED BY <3>1, <3>2
  <2> QED BY <1>1, <1>2, <1>4, <2>1, <2>2, <2>3 DEF IInv, RowsInv
<1>7. BlockInv'
  <2>1. threads' = <<>> <=> threads = <<>>
    BY <1>1, <1>2, EmptySeq
  <2>2. \A s \in 1..m : threads'[s].block = threads[s].block
    BY <1>1, <1>2 DEF Thread
  <2> QED BY <1>2, <2>1, <2>2 DEF Return, IInv, BlockInv
<1> QED BY <1>5, <1>6, <1>7

LEMMA CloneRepoThreadInv ==
  ASSUME IInv, NEW t \in DOMAIN threads, CloneRepoThread(t)
  PROVE  IInv'
<1>1. CallOK' /\ RowsInv' /\ BlockInv'
  <2>1. CASE CloneCheck(t)
    BY <2>1, ProceedInv DEF CloneCheck
  <2>2. CASE CloneRefuse(t)
    BY <2>2, ReturnInv DEF CloneRefuse
  <2>3. CASE CloneInit(t)
    BY <2>3, ProceedInv DEF CloneInit
  <2>4. CASE CloneSucceed(t)
    BY <2>4, ReturnInv DEF CloneSucceed
  <2>5. CASE CloneFail(t)
    BY <2>5, ReturnInv DEF CloneFail
  <2> QED BY <2>1, <2>2, <2>3, <2>4, <2>5 DEF CloneRepoThread
<1>2. TreeOK'
  <2>1. Target(t) \in Path /\ Target(t)[1] \in Keywords
    BY ThreadTyped DEF IInv, TypeOK
  <2> QED BY <2>1 DEF CloneRepoThread, CloneCheck, CloneRefuse, CloneInit,
                      CloneSucceed, CloneFail, IInv, TypeOK, TreeOK, tree
<1>3. CatalogueOK'
  BY DEF CloneRepoThread, CloneCheck, CloneRefuse, CloneInit, CloneSucceed,
         CloneFail, IInv, TypeOK, CatalogueOK
<1>4. CallInv'
  <2>1. pc = "busy"
    BY DEF IInv, CallInv, NoCall
  <2> QED BY <2>1 DEF CloneRepoThread, CloneCheck, CloneRefuse, CloneInit, CloneSucceed,
                      CloneFail, Return, Proceed, IInv, CallInv
<1> QED BY <1>1, <1>2, <1>3, <1>4 DEF IInv, TypeOK

(***************************************************************************)
(* The rows whose code is 0 are those of the threads that have not failed: *)
(* the rows made with the vector are never taken for downloads.            *)
(***************************************************************************)
LEMMA DownloadedPairs ==
  ASSUME IInv
  PROVE  Downloaded =
           {threads[t].pair : t \in {s \in DOMAIN threads : threads[s].state # "error"}}
<1> DEFINE n == Len(urls)
           m == Len(threads)
<1>1. /\ n \in Nat /\ m \in Nat /\ Len(errors) = n + m
      /\ DOMAIN errors = 1..(n + m) /\ DOMAIN threads = 1..m
  BY LenProperties DEF IInv, TypeOK, CallOK, RowsInv
<1>2. ASSUME NEW i \in DOMAIN errors, errors[i].code = Success
      PROVE  /\ i - n \in DOMAIN threads /\ threads[i - n].state # "error"
             /\ errors[i].pair = threads[i - n].pair
  <2>1. i \in 1..n \/ i - n \in 1..m
    BY <1>1
  <2>2. i \notin 1..n
    BY <1>2 DEF IInv, RowsInv, Success, Unused
  <2>3. i - n \in 1..m /\ n + (i - n) = i
    BY <2>1, <2>2, <1>1
  <2>4. /\ errors[n + (i - n)].pair = threads[i - n].pair
        /\ errors[n + (i - n)].code =
             IF threads[i - n].state = "error" THEN Failure ELSE Success
    BY <2>3 DEF IInv, RowsInv
  <2> QED BY <1>1, <1>2, <2>3, <2>4 DEF Failure, Success
<1>3. ASSUME NEW t \in DOMAIN threads, threads[t].state # "error"
      PROVE  /\ n + t \in DOMAIN errors /\ errors[n + t].code = Success
             /\ errors[n + t].pair = threads[t].pair
  BY <1>1, <1>3 DEF IInv, RowsInv
<1> QED BY <1>2, <1>3 DEF Downloaded

LEMMA RecordInv == ASSUME IInv, Record PROVE IInv'
<1>1. /\ NoCall' /\ pc' = "ready" /\ UNCHANGED tree /\ UNCHANGED interrupted
      /\ repoPaths' = [repoPaths EXCEPT ![keyword] = @ \cup Downloaded]
  BY DEF Record, LeaveCall, NoCall
<1>2. CallOK' /\ RowsInv' /\ BlockInv'
  <2>1. (NoCall => CallOK /\ RowsInv /\ BlockInv)'
    BY IdleCall, PTL
  <2> QED BY <1>1, <2>1
<1>3. TreeOK' /\ CallInv'
  BY <1>1 DEF IInv, TypeOK, TreeOK, tree, CallInv
<1>4. CatalogueOK'
  <2>1. Downloaded \subseteq RepoPair
    BY DownloadedPairs, ThreadTyped DEF IInv, TypeOK
  <2> QED BY <1>1, <2>1 DEF IInv, TypeOK, CatalogueOK
<1> QED BY <1>2, <1>3, <1>4 DEF IInv, TypeOK

(* Every step of the manager preserves the inductive invariant. *)
LEMMA StepInv == IInv /\ [Next]_vars => IInv'
<1> SUFFICES ASSUME IInv, [Next]_vars PROVE IInv'
  OBVIOUS
<1>1. CASE Construct
  BY <1>1, ConstructInv
<1>2. CASE Destruct \/ Die
  BY <1>2, EndInv
<1>3. ASSUME NEW k \in Keywords, NEW list \in UrlLists, DownloadRepos(k, list)
      PROVE  IInv'
  BY <1>3, DownloadReposInv
<1>4. CASE Skip
  BY <1>4, SkipInv
<1>5. CASE Spawn
  BY <1>5, SpawnInv
<1>6. CASE Record
  BY <1>6, RecordInv
<1>7. ASSUME NEW t \in DOMAIN threads, CloneRepoThread(t) PROVE IInv'
  BY <1>7, CloneRepoThreadInv
<1>8. CASE UNCHANGED vars
  BY <1>8 DEF vars, tree, call, IInv, TypeOK, TreeOK, CatalogueOK, CallOK,
              CallInv, NoCall, RowsInv, BlockInv
<1> QED BY <1>1, <1>2, <1>3, <1>4, <1>5, <1>6, <1>7, <1>8 DEF Next

LEMMA Invariance == Spec => []IInv
<1> QED BY InitInv, StepInv, PTL DEF Spec

(***************************************************************************)
(* Whatever the lists of URLs, every variable keeps its type: no row of    *)
(* another call, and none without a pair, gets into the catalogue.         *)
(***************************************************************************)
THEOREM TypeCorrect == Spec => []TypeOK
<1>1. IInv => TypeOK
  BY DEF IInv
<1> QED BY <1>1, Invariance, PTL

(***************************************************************************)
(* The references handed to CloneRepoThread stay valid until the join, for *)
(* lists of any length: sizing the vector to the URLs makes the first      *)
(* push_back, which runs before any thread exists, the only one that moves *)
(* the rows.                                                               *)
(***************************************************************************)
THEOREM ReferencesStayValid == Spec => []ReferencesValid
<1>1. IInv => ReferencesValid
  <2> SUFFICES ASSUME IInv PROVE ReferencesValid
    OBVIOUS
  <2>1. /\ Len(urls) \in Nat /\ Len(threads) \in Nat
        /\ Len(errors) = Len(urls) + Len(threads)
        /\ DOMAIN errors = 1..(Len(urls) + Len(threads))
        /\ DOMAIN threads = 1..Len(threads)
    BY LenProperties DEF IInv, TypeOK, CallOK, RowsInv
  <2>2. ASSUME NEW t \in DOMAIN threads
        PROVE  /\ threads[t].block = block
               /\ threads[t].row = Len(urls) + t
               /\ threads[t].row \in DOMAIN errors
               /\ errors[threads[t].row].pair = threads[t].pair
    BY <2>1 DEF IInv, RowsInv, BlockInv
  <2>3. ASSUME NEW s \in DOMAIN threads, NEW t \in DOMAIN threads,
               threads[s].row = threads[t].row
        PROVE  s = t
    BY <2>1, <2>2, <2>3
  <2> QED BY <2>2, <2>3 DEF ReferencesValid
<1> QED BY <1>1, Invariance, PTL
------------------------------------------------------------------------------
(* No URL the loop has passed is lost: it was in the set, or has a thread. *)
SeenInv ==
  \A i \in 1..(next - 1) :
    \/ PairOf(keyword, urls[i]) \in repoPaths[keyword]
    \/ \E t \in DOMAIN threads : threads[t].pair = PairOf(keyword, urls[i])

LEMMA SeenStep == IInv /\ SeenInv /\ [Next]_vars => SeenInv'
<1> SUFFICES ASSUME IInv, SeenInv, [Next]_vars PROVE SeenInv'
  OBVIOUS
<1>1. next \in Nat /\ threads \in Seq(Thread) /\ DOMAIN threads = 1..Len(threads)
  BY LenProperties DEF IInv, TypeOK, CallOK
<1>2. CASE next' = 1
  BY <1>2 DEF SeenInv
<1>3. CASE Construct \/ Destruct
  <2>1. pc # "busy"
    BY <1>3 DEF Construct, Destruct
  <2>2. next' = 1
    BY <1>3, <2>1 DEF Construct, Destruct, IInv, CallInv, NoCall, call
  <2> QED BY <1>2, <2>2
<1>4. CASE Die \/ Record
  BY <1>2, <1>4 DEF Die, Record, LeaveCall
<1>5. CASE \E k \in Keywords, list \in UrlLists : DownloadRepos(k, list)
  BY <1>2, <1>5 DEF DownloadRepos
<1>6. CASE Skip
  <2>1. /\ UNCHANGED <<repoPaths, keyword, urls, threads>> /\ next' = next + 1
        /\ PairOf(keyword, urls[next]) \in repoPaths[keyword]
    BY <1>6 DEF Skip, IsPairDownloaded, Current
  <2> QED BY <1>1, <2>1 DEF SeenInv
<1>7. CASE Spawn
  <2> DEFINE new == [pair |-> Current, row |-> Len(errors'), block |-> block',
                     state |-> "created"]
  <2>1. /\ UNCHANGED <<repoPaths, keyword, urls>> /\ next' = next + 1
        /\ threads' = Append(threads, new)
    BY <1>7 DEF Spawn
  <2>2. new.pair = PairOf(keyword, urls[next])
    BY DEF Current
  <2> HIDE DEF new
  <2>3. /\ Len(threads') = Len(threads) + 1 /\ DOMAIN threads' = 1..(Len(threads) + 1)
        /\ \A t \in 1..Len(threads) : threads'[t] = threads[t]
        /\ threads'[Len(threads) + 1] = new
    BY <1>1, <2>1
  <2>4. ASSUME NEW i \in 1..next
        PROVE  \/ PairOf(keyword, urls[i]) \in repoPaths[keyword]
               \/ \E t \in DOMAIN threads' : threads'[t].pair = PairOf(keyword, urls[i])
    <3>1. CASE i = next
      BY <1>1, <2>2, <2>3, <3>1, LenProperties
    <3>2. CASE i # next
      <4>1. i \in 1..(next - 1)
        BY <1>1, <3>2
      <4> QED BY <1>1, <2>3, <4>1 DEF SeenInv
    <3> QED BY <3>1, <3>2
  <2> QED BY <1>1, <2>1, <2>4 DEF SeenInv
<1>8. ASSUME NEW t \in DOMAIN threads, CloneRepoThread(t) PROVE SeenInv'
  <2>1. UNCHANGED <<repoPaths, keyword, urls, next>>
    BY <1>8 DEF CloneRepoThread, CloneCheck, CloneRefuse, CloneInit, CloneSucceed,
                CloneFail, Return, Proceed
  <2>2. PICK state : threads' = [threads EXCEPT ![t].state = state]
    BY <1>8 DEF CloneRepoThread, CloneCheck, CloneRefuse, CloneInit, CloneSucceed,
                CloneFail, Return, Proceed
  <2>3. DOMAIN threads' = DOMAIN threads
        /\ \A s \in DOMAIN threads : threads'[s].pair = threads[s].pair
    BY <2>2, ThreadTyped DEF Thread, IInv, TypeOK
  <2> QED BY <2>1, <2>3 DEF SeenInv
<1>9. CASE UNCHANGED vars
  BY <1>9 DEF vars, call, SeenInv
<1> QED BY <1>3, <1>4, <1>5, <1>6, <1>7, <1>8, <1>9 DEF Next

(***************************************************************************)
(* A call that returns has added exactly the clones that succeeded, and    *)
(* accounts for every URL of its list, whatever the list and however the   *)
(* threads' returns were interleaved with the loop.                        *)
(***************************************************************************)
THEOREM RecordsExactly == Spec => RecordsExactlyTheClones
<1>1. Init => SeenInv
  BY DEF Init, NoCall, SeenInv
<1>2. IInv /\ SeenInv /\ [Next]_vars => [ExactReturn]_vars
  <2> SUFFICES ASSUME IInv, SeenInv, Next, pc = "busy", pc' = "ready"
               PROVE  ExactReturn
    BY DEF ExactReturn
  <2>1. Record
    BY DEF Next, Construct, Destruct, Die, DownloadRepos, Skip, Spawn, CloneRepoThread,
           CloneCheck, CloneRefuse, CloneInit, CloneSucceed, CloneFail
  <2>2. \A t \in DOMAIN threads : threads[t].state # "error" <=> threads[t].state = "ok"
    BY <2>1 DEF Record, Returned
  <2>3. repoPaths'[keyword] = repoPaths[keyword] \cup
          {threads[t].pair : t \in {s \in DOMAIN threads : threads[s].state = "ok"}}
    <3>1. repoPaths'[keyword] = repoPaths[keyword] \cup Downloaded
      BY <2>1 DEF Record, IInv, CallInv
    <3> QED BY <2>2, <3>1, DownloadedPairs
  <2>4. ASSUME NEW i \in DOMAIN urls
        PROVE  \/ PairOf(keyword, urls[i]) \in repoPaths'[keyword]
               \/ \E t \in DOMAIN threads :
                    /\ threads[t].pair = PairOf(keyword, urls[i])
                    /\ threads[t].state = "error"
    <3>1. i \in 1..(next - 1)
      BY <2>1, LenProperties DEF Record, IInv, TypeOK, CallOK
    <3>2. \/ PairOf(keyword, urls[i]) \in repoPaths[keyword]
          \/ \E t \in DOMAIN threads : threads[t].pair = PairOf(keyword, urls[i])
      BY <3>1 DEF SeenInv
    <3> QED BY <2>2, <2>3, <3>2
  <2> QED BY <2>3, <2>4 DEF ExactReturn
<1> QED BY <1>1, <1>2, Invariance, SeenStep, PTL DEF Spec, RecordsExactlyTheClones
------------------------------------------------------------------------------
(***************************************************************************)
(* What the catalogue promises when the lists are the search's, for every  *)
(* set of names and for answers of any length.                             *)
(*                                                                         *)
(* Two facts carry it.  A scan undoes PairOf for a clone URL, so that the  *)
(* threads of a call, whose URLs differ, have directories that differ; and *)
(* a thread is only started for a directory that does not exist, since     *)
(* every directory is in the catalogue or belongs to a thread.             *)
(***************************************************************************)
InStore(t) == threads[t].state \in {"cloning", "ok"}

(* The catalogue lists directories, as a scan would, each under its keyword.*)
ListedInv ==
  \A k \in DOMAIN repoPaths : \A pair \in repoPaths[k] :
    /\ pair[2] \in repoDirs /\ pair[2][1] = k
    /\ pair = ScannedPair(pair[2])

(* No directory is outside it but those of threads, and a scan finds all.  *)
DirsInv ==
  \A path \in repoDirs :
    /\ path[1] \in keywordDirs
    /\ pc # "off" =>
         \/ path[1] \in DOMAIN repoPaths /\ ScannedPair(path) \in repoPaths[path[1]]
         \/ \E t \in DOMAIN threads : Target(t) = path /\ InStore(t)

(* Each thread has a URL of its own, among those the loop has gone past.   *)
UrlsInv ==
  /\ IsAnswer(urls)
  /\ \A t \in DOMAIN threads :
       \E j \in 1..(next - 1) : threads[t].pair = PairOf(keyword, urls[j])
  /\ \A s, t \in DOMAIN threads : threads[s].pair = threads[t].pair => s = t

(* A thread's directory is new, and is there as long as its clone is.      *)
ThreadsInv ==
  /\ pc = "busy" /\ ~ keywordUsed => repoPaths[keyword] = {}
  /\ \A t \in DOMAIN threads :
       /\ threads[t].pair \notin repoPaths[keyword]
       /\ Target(t) \in repoDirs <=> InStore(t)
       /\ Target(t) \in whole <=> threads[t].state = "ok"

(* What is there without being whole is being cloned, or was at a death.   *)
RemnantsInv ==
  \A path \in repoDirs \ whole :
    \/ path \in interrupted
    \/ \E t \in DOMAIN threads : Target(t) = path /\ threads[t].state = "cloning"

StoreInv == ListedInv /\ DirsInv /\ UrlsInv /\ ThreadsInv /\ RemnantsInv
------------------------------------------------------------------------------
(* Cutting the extension off and gluing it back on gives the component.    *)
LEMMA ExtensionRestored ==
  ASSUME NEW url \in RepoUrl, IsCloneUrl(url)
  PROVE  Append(ParseGitNameFromStr(url).name, Git) = url.file
<1> DEFINE file == url.file
           n == Len(file)
<1>1. /\ file \in Seq(Segments \cup {Git}) /\ n \in Nat /\ n > 1 /\ file[n] = Git
  BY LenProperties DEF RepoUrl, IsCloneUrl, Last
<1>2. ParseGitNameFromStr(url).name = SubSeq(file, 1, n - 1)
  BY <1>1 DEF ParseGitNameFromStr, Front
<1> DEFINE name == SubSeq(file, 1, n - 1)
<1>3. /\ name \in Seq(Segments \cup {Git}) /\ Len(name) = n - 1
      /\ \A i \in 1..(n - 1) : name[i] = file[i]
  <2>1. \A i \in 1..(n - 1) : file[i] \in Segments \cup {Git}
    BY <1>1, ElementOfSeq
  <2> QED BY <1>1, <2>1, SubSeqProperties
<1> HIDE DEF name, file
<1>4. /\ Append(name, Git) \in Seq(Segments \cup {Git})
      /\ Len(Append(name, Git)) = n
      /\ \A i \in 1..(n - 1) : Append(name, Git)[i] = file[i]
      /\ Append(name, Git)[n] = Git
  BY <1>1, <1>3, AppendProperties
<1>5. Append(name, Git) = file
  BY <1>1, <1>4, SeqEqual
<1> QED BY <1>2, <1>5 DEF name, file

(* A scan undoes PairOf: the pair of a clone URL is found again.           *)
LEMMA ScanUndoes ==
  ASSUME NEW k \in Keywords, NEW url \in RepoUrl, IsCloneUrl(url)
  PROVE  /\ PairOf(k, url)[1] = url /\ PairOf(k, url)[2][1] = k
         /\ ScannedPair(PairOf(k, url)[2]) = PairOf(k, url)
<1>1. PairOf(k, url) = <<url, <<k, url.user, ParseGitNameFromStr(url).name>>>>
  BY DEF PairOf, ParseGitNameFromStr
<1>2. url = [site |-> GitHub, user |-> url.user, file |-> url.file]
  BY DEF RepoUrl, IsCloneUrl
<1> QED BY <1>1, <1>2, ExtensionRestored DEF ScannedPair

(* A call has a keyword, and its list is one the search answers.           *)
LEMMA ThreadNamed ==
  ASSUME IInv, UrlsInv, NEW t \in DOMAIN threads
  PROVE  /\ pc = "busy" /\ keyword \in Keywords /\ keyword \in DOMAIN repoPaths
         /\ Target(t) \in Path /\ Target(t)[1] = keyword
         /\ threads[t].pair = ScannedPair(Target(t))
         /\ threads[t].state \in ThreadState
<1>1. /\ pc = "busy" /\ keyword \in DOMAIN repoPaths /\ keyword \in Keywords
      /\ Target(t) \in Path /\ threads[t].state \in ThreadState
  BY ThreadTyped DEF IInv, CallInv, NoCall, TypeOK, CatalogueOK, Thread
<1>2. PICK j \in 1..(next - 1) : threads[t].pair = PairOf(keyword, urls[j])
  BY DEF UrlsInv
<1>3. urls[j] \in RepoUrl /\ IsCloneUrl(urls[j])
  BY LenProperties, ElementOfSeq DEF UrlsInv, IsAnswer, IInv, TypeOK, CallOK
<1> QED BY <1>1, <1>2, <1>3, ScanUndoes DEF Target

(* Two threads never clone into one directory.                             *)
LEMMA TargetsDiffer ==
  ASSUME IInv, UrlsInv, NEW s \in DOMAIN threads, NEW t \in DOMAIN threads,
         Target(s) = Target(t)
  PROVE  s = t
BY ThreadNamed DEF UrlsInv

LEMMA SearchInit == Init => StoreInv
<1> SUFFICES ASSUME Init PROVE StoreInv
  OBVIOUS
<1>1. DOMAIN repoPaths = {} /\ DOMAIN threads = {} /\ DOMAIN urls = {}
  BY DEF Init, NoCall, EmptyMap
<1>2. ListedInv /\ DirsInv /\ RemnantsInv /\ ThreadsInv
  BY <1>1 DEF Init, ListedInv, DirsInv, RemnantsInv, ThreadsInv
<1>3. UrlsInv
  BY <1>1 DEF UrlsInv, IsAnswer, IsInjective
<1> QED BY <1>2, <1>3 DEF StoreInv

(* Without a call there is no thread, and the empty list is an answer.     *)
LEMMA IdleUrls == NoCall => DOMAIN threads = {} /\ UrlsInv
<1>1. NoCall => DOMAIN threads = {} /\ DOMAIN urls = {}
  BY DEF NoCall
<1> QED BY <1>1 DEF UrlsInv, IsAnswer, IsInjective

(* The scan lists every directory, under its keyword.                      *)
LEMMA ConstructStore == ASSUME IInv, StoreInv, Construct PROVE StoreInv'
<1> USE DEF Construct, tree, call
<1>1. /\ NoCall' /\ DOMAIN threads = {} /\ threads' = threads /\ pc' = "ready"
      /\ UNCHANGED <<repoDirs, whole, keywordDirs, interrupted>>
  BY IdleUrls DEF IInv, CallInv, NoCall
<1>2. /\ DOMAIN repoPaths' = keywordDirs
      /\ \A k \in keywordDirs :
           repoPaths'[k] = {ScannedPair(path) : path \in {p \in repoDirs : p[1] = k}}
  BY DEF CheckRepoDir
<1>3. ListedInv'
  <2>1. \A path : ScannedPair(path)[2] = path
    BY DEF ScannedPair
  <2> QED BY <1>1, <1>2, <2>1 DEF ListedInv
<1>4. DirsInv'
  BY <1>1, <1>2 DEF DirsInv, StoreInv
<1>5. UrlsInv'
  <2>1. (NoCall => DOMAIN threads = {} /\ UrlsInv)'
    BY IdleUrls, PTL
  <2> QED BY <1>1, <2>1
<1>6. ThreadsInv'
  BY <1>1 DEF ThreadsInv
<1>7. RemnantsInv'
  BY <1>1 DEF RemnantsInv, StoreInv
<1> QED BY <1>3, <1>4, <1>5, <1>6, <1>7 DEF StoreInv

(* The process ends: what it was cloning is among the interrupted.         *)
LEMMA EndStore == ASSUME IInv, StoreInv, Destruct \/ Die PROVE StoreInv'
<1>1. /\ NoCall' /\ pc' = "off" /\ repoPaths' = EmptyMap
      /\ UNCHANGED <<repoDirs, whole, keywordDirs>>
  BY DEF Destruct, Die, IInv, CallInv, NoCall, LeaveCall, call, tree
<1>2. DOMAIN repoPaths' = {}
  BY <1>1 DEF EmptyMap
<1>3. DOMAIN threads' = {} /\ UrlsInv'
  <2>1. (NoCall => DOMAIN threads = {} /\ UrlsInv)'
    BY IdleUrls, PTL
  <2> QED BY <1>1, <2>1
<1>4. ListedInv' /\ DirsInv' /\ ThreadsInv'
  BY <1>1, <1>2, <1>3 DEF ListedInv, DirsInv, ThreadsInv, StoreInv
<1>5. RemnantsInv'
  <2>1. CASE Destruct
    <3>1. DOMAIN threads = {}
      BY <2>1, IdleUrls DEF Destruct, IInv, CallInv
    <3> QED BY <1>1, <2>1, <3>1 DEF Destruct, RemnantsInv, StoreInv
  <2>2. CASE Die
    BY <1>1, <2>2 DEF Die, RemnantsInv, StoreInv
  <2> QED BY <2>1, <2>2
<1> QED BY <1>3, <1>4, <1>5 DEF StoreInv

(* A call begins without threads; a keyword it adds has an empty set.      *)
LEMMA DownloadReposStore ==
  ASSUME SearchedLists, IInv, StoreInv, NEW k \in Keywords, NEW list \in UrlLists,
         DownloadRepos(k, list)
  PROVE  StoreInv'
<1> USE DEF DownloadRepos, tree
<1>1. DOMAIN threads = {} /\ DOMAIN threads' = {}
  BY IdleUrls DEF IInv, CallInv
<1>2. /\ DOMAIN repoPaths' = DOMAIN repoPaths \cup {k}
      /\ \A j \in DOMAIN repoPaths : repoPaths'[j] = repoPaths[j]
      /\ k \notin DOMAIN repoPaths => repoPaths'[k] = {}
  OBVIOUS
<1>3. ListedInv'
  BY <1>2 DEF ListedInv, StoreInv
<1>4. DirsInv'
  BY <1>1, <1>2 DEF DirsInv, StoreInv
<1>5. UrlsInv'
  BY <1>1 DEF UrlsInv, SearchedLists
<1>6. ThreadsInv'
  BY <1>1, <1>2 DEF ThreadsInv
<1>7. RemnantsInv'
  BY <1>1 DEF RemnantsInv, StoreInv
<1> QED BY <1>3, <1>4, <1>5, <1>6, <1>7 DEF StoreInv

LEMMA SkipStore == ASSUME IInv, StoreInv, Skip PROVE StoreInv'
<1> USE DEF Skip, tree, StoreInv
<1>1. ListedInv' /\ ThreadsInv'
  BY DEF ListedInv, ThreadsInv, InStore, Target
<1>2. DirsInv' /\ RemnantsInv'
  BY DEF DirsInv, RemnantsInv, InStore, Target
<1>3. UrlsInv'
  <2>1. next \in Nat
    BY LenProperties DEF IInv, TypeOK, CallOK
  <2>2. 1..(next - 1) \subseteq 1..(next' - 1)
    BY <2>1
  <2> QED BY <2>2 DEF UrlsInv
<1> QED BY <1>1, <1>2, <1>3

(***************************************************************************)
(* The pair of a new thread is not in the catalogue, nor is it another     *)
(* thread's: so its directory does not exist.                              *)
(***************************************************************************)
LEMMA SpawnStore == ASSUME IInv, StoreInv, Spawn PROVE StoreInv'
<1> DEFINE m == Len(threads)
           new == [pair |-> Current, row |-> Len(errors'), block |-> block',
                   state |-> "created"]
<1>1. /\ UNCHANGED <<keywordDirs, repoDirs, whole, pc, repoPaths, keyword,
                      keywordUsed, urls, interrupted>>
      /\ threads' = Append(threads, new) /\ next' = next + 1
      /\ pc = "busy" /\ next <= Len(urls)
      /\ ~ (keywordUsed /\ Current \in repoPaths[keyword])
  BY DEF Spawn, AtUrl, IsPairDownloaded, tree
<1>2. /\ new.pair = Current /\ new.state = "created"
      /\ new.pair[2] = Current[2]
  OBVIOUS
<1> HIDE DEF new
<1>3. /\ m \in Nat /\ DOMAIN threads = 1..m /\ DOMAIN threads' = 1..(m + 1)
      /\ \A t \in 1..m : threads'[t] = threads[t]
      /\ threads'[m + 1] = new
  BY <1>1, LenProperties DEF IInv, TypeOK, CallOK
<1>4. /\ next \in DOMAIN urls /\ next \in 1..next /\ next \in Nat /\ urls[next] \in RepoUrl
      /\ IsCloneUrl(urls[next])
  BY <1>1, LenProperties, ElementOfSeq DEF StoreInv, UrlsInv, IsAnswer, IInv, TypeOK, CallOK
<1>5. keyword \in Keywords /\ keyword \in DOMAIN repoPaths
  BY <1>1 DEF IInv, CallInv, TypeOK, CatalogueOK
<1>6. /\ Current = PairOf(keyword, urls[next]) /\ Current[1] = urls[next]
      /\ Current[2][1] = keyword /\ Current = ScannedPair(Current[2])
  BY <1>4, <1>5, ScanUndoes DEF Current
<1>7. Current \notin repoPaths[keyword]
  BY <1>1 DEF StoreInv, ThreadsInv
<1>8. ASSUME NEW t \in 1..m PROVE threads[t].pair # Current
  <2>1. PICK j \in 1..(next - 1) : threads[t].pair = PairOf(keyword, urls[j])
    BY <1>3 DEF StoreInv, UrlsInv
  <2>2. j \in DOMAIN urls /\ j # next /\ urls[j] \in RepoUrl /\ IsCloneUrl(urls[j])
    BY <1>1, <1>4, LenProperties, ElementOfSeq
       DEF StoreInv, UrlsInv, IsAnswer, IInv, TypeOK, CallOK
  <2>3. urls[j] # urls[next]
    BY <1>4, <2>2 DEF StoreInv, UrlsInv, IsAnswer, IsInjective
  <2> QED BY <1>5, <1>6, <2>1, <2>2, <2>3, ScanUndoes
<1>9. Current[2] \notin repoDirs
  <2>1. SUFFICES ASSUME Current[2] \in repoDirs PROVE FALSE
    OBVIOUS
  <2>2. PICK t \in DOMAIN threads : Target(t) = Current[2]
    BY <1>1, <1>6, <1>7, <2>1 DEF StoreInv, DirsInv
  <2>3. threads[t].pair = Current
    BY <1>6, <2>2, ThreadNamed DEF StoreInv
  <2> QED BY <1>3, <1>8, <2>3
<1>10. Current[2] \notin whole
  BY <1>9 DEF IInv, TypeOK, TreeOK
<1>11. /\ \A t \in 1..m : Target(t)' = Target(t) /\ (InStore(t)' <=> InStore(t))
       /\ \A t : t = m + 1 => Target(t)' = Current[2] /\ ~ InStore(t)'
  BY <1>2, <1>3 DEF Target, InStore
<1>12. ListedInv'
  BY <1>1 DEF StoreInv, ListedInv
<1>13. DirsInv'
  BY <1>1, <1>3, <1>11 DEF StoreInv, DirsInv
<1>14. UrlsInv'
  <2>1. ASSUME NEW t \in 1..(m + 1)
        PROVE  \E j \in 1..next : threads'[t].pair = PairOf(keyword, urls[j])
    <3>1. CASE t \in 1..m
      BY <1>3, <1>4, <3>1 DEF StoreInv, UrlsInv
    <3>2. CASE t = m + 1
      BY <1>2, <1>3, <1>4, <1>6, <3>2
    <3> QED BY <1>3, <3>1, <3>2
  <2>2. ASSUME NEW s \in 1..(m + 1), NEW t \in 1..(m + 1),
               threads'[s].pair = threads'[t].pair
        PROVE  s = t
    BY <1>2, <1>3, <1>8, <2>2 DEF StoreInv, UrlsInv
  <2>3. next' - 1 = next /\ urls' = urls /\ keyword' = keyword
    BY <1>1, <1>4
  <2>4. IsAnswer(urls)
    BY DEF StoreInv, UrlsInv
  <2> QED BY <1>3, <2>1, <2>2, <2>3, <2>4 DEF UrlsInv
<1>15. ThreadsInv'
  <2>1. ASSUME NEW t \in 1..m
        PROVE  /\ threads'[t].pair \notin repoPaths[keyword]
               /\ Target(t)' \in repoDirs <=> InStore(t)'
               /\ Target(t)' \in whole <=> threads'[t].state = "ok"
    BY <1>3, <1>11 DEF StoreInv, ThreadsInv
  <2>2. ASSUME NEW t, t = m + 1
        PROVE  /\ threads'[t].pair \notin repoPaths[keyword]
               /\ Target(t)' \notin repoDirs /\ ~ InStore(t)'
               /\ Target(t)' \notin whole /\ threads'[t].state # "ok"
    BY <1>2, <1>3, <1>7, <1>9, <1>10, <1>11, <2>2
  <2>3. \A t \in DOMAIN threads' : t \in 1..m \/ t = m + 1
    BY <1>3
  <2> QED BY <1>1, <2>1, <2>2, <2>3 DEF StoreInv, ThreadsInv
<1>16. RemnantsInv'
  BY <1>1, <1>3, <1>11 DEF StoreInv, RemnantsInv
<1> QED BY <1>12, <1>13, <1>14, <1>15, <1>16 DEF StoreInv

(* A step of git_clone changes one thread's state, and no one's pair.      *)
LEMMA OneThreadMoves ==
  ASSUME IInv, UrlsInv, NEW t \in DOMAIN threads, NEW state,
         threads' = [threads EXCEPT ![t].state = state],
         UNCHANGED <<keyword, urls, next>>
  PROVE  /\ DOMAIN threads' = DOMAIN threads /\ threads'[t].state = state
         /\ \A s \in DOMAIN threads :
              /\ threads'[s].pair = threads[s].pair /\ Target(s)' = Target(s)
              /\ s # t => /\ Target(s) # Target(t)
                          /\ threads'[s].state = threads[s].state
                          /\ InStore(s)' <=> InStore(s)
         /\ UrlsInv'
<1>1. /\ DOMAIN threads' = DOMAIN threads /\ threads'[t].state = state
      /\ \A s \in DOMAIN threads :
           /\ threads'[s].pair = threads[s].pair
           /\ s # t => threads'[s] = threads[s]
  BY ThreadTyped DEF IInv, TypeOK, Thread
<1>2. UrlsInv'
  BY <1>1 DEF UrlsInv
<1>3. \A s \in DOMAIN threads :
        /\ Target(s)' = Target(s)
        /\ s # t => Target(s) # Target(t) /\ (InStore(s)' <=> InStore(s))
  BY <1>1, TargetsDiffer DEF Target, InStore
<1> QED BY <1>1, <1>2, <1>3

(* A clone that has not begun, or never will: the tree stays as it is.     *)
LEMMA CloneWaitsStore ==
  ASSUME IInv, StoreInv, NEW t \in DOMAIN threads, CloneCheck(t) \/ CloneRefuse(t)
  PROVE  StoreInv'
<1>1. PICK state \in {"checked", "error"} :
        threads' = [threads EXCEPT ![t].state = state]
  BY DEF CloneCheck, CloneRefuse, Proceed, Return
<1>2. /\ UNCHANGED <<keywordDirs, repoDirs, whole, pc, repoPaths, keyword,
                      keywordUsed, urls, next, interrupted>>
      /\ threads[t].state \in {"created", "checked"}
  BY DEF CloneCheck, CloneRefuse, Proceed, Return, tree
<1>3. /\ DOMAIN threads' = DOMAIN threads /\ threads'[t].state = state /\ UrlsInv'
      /\ \A s \in DOMAIN threads :
           /\ threads'[s].pair = threads[s].pair /\ Target(s)' = Target(s)
           /\ InStore(s)' <=> InStore(s)
           /\ threads'[s].state = "cloning" <=> threads[s].state = "cloning"
           /\ threads'[s].state = "ok" <=> threads[s].state = "ok"
  <2>1. ~ InStore(t) /\ ~ InStore(t)'
    BY <1>1, <1>2, OneThreadMoves DEF InStore, StoreInv
  <2> QED BY <1>1, <1>2, <2>1, OneThreadMoves DEF StoreInv
<1>4. ListedInv'
  BY <1>2 DEF StoreInv, ListedInv
<1>5. DirsInv'
  BY <1>2, <1>3 DEF StoreInv, DirsInv
<1>6. ThreadsInv'
  BY <1>2, <1>3 DEF StoreInv, ThreadsInv
<1>7. RemnantsInv'
  BY <1>2, <1>3 DEF StoreInv, RemnantsInv
<1> QED BY <1>3, <1>4, <1>5, <1>6, <1>7 DEF StoreInv

LEMMA CloneInitStore ==
  ASSUME IInv, StoreInv, NEW t \in DOMAIN threads, CloneInit(t)
  PROVE  StoreInv'
<1>1. /\ UNCHANGED <<whole, pc, repoPaths, keyword, keywordUsed, urls, next, interrupted>>
      /\ threads' = [threads EXCEPT ![t].state = "cloning"]
      /\ keywordDirs' = keywordDirs \cup {Target(t)[1]}
      /\ repoDirs' = repoDirs \cup {Target(t)}
      /\ threads[t].state = "checked"
  BY DEF CloneInit, Proceed
<1>2. /\ DOMAIN threads' = DOMAIN threads /\ threads'[t].state = "cloning" /\ UrlsInv'
      /\ \A s \in DOMAIN threads :
           /\ threads'[s].pair = threads[s].pair /\ Target(s)' = Target(s)
           /\ s # t => /\ Target(s) # Target(t)
                       /\ threads'[s].state = threads[s].state
                       /\ InStore(s)' <=> InStore(s)
  BY <1>1, OneThreadMoves DEF StoreInv
<1>3. InStore(t)' /\ ~ InStore(t)
  BY <1>1, <1>2 DEF InStore
<1>4. ListedInv'
  BY <1>1 DEF StoreInv, ListedInv
<1>5. DirsInv'
  BY <1>1, <1>2, <1>3 DEF StoreInv, DirsInv
<1>6. ThreadsInv'
  BY <1>1, <1>2, <1>3 DEF StoreInv, ThreadsInv
<1>7. RemnantsInv'
  BY <1>1, <1>2 DEF StoreInv, RemnantsInv
<1> QED BY <1>2, <1>4, <1>5, <1>6, <1>7 DEF StoreInv

LEMMA CloneSucceedStore ==
  ASSUME IInv, StoreInv, NEW t \in DOMAIN threads, CloneSucceed(t)
  PROVE  StoreInv'
<1>1. /\ UNCHANGED <<keywordDirs, repoDirs, pc, repoPaths, keyword, keywordUsed, urls,
                      next, interrupted>>
      /\ threads' = [threads EXCEPT ![t].state = "ok"]
      /\ whole' = whole \cup {Target(t)}
      /\ threads[t].state = "cloning"
  BY DEF CloneSucceed, Return
<1>2. /\ DOMAIN threads' = DOMAIN threads /\ threads'[t].state = "ok" /\ UrlsInv'
      /\ \A s \in DOMAIN threads :
           /\ threads'[s].pair = threads[s].pair /\ Target(s)' = Target(s)
           /\ s # t => /\ Target(s) # Target(t)
                       /\ threads'[s].state = threads[s].state
                       /\ InStore(s)' <=> InStore(s)
  BY <1>1, OneThreadMoves DEF StoreInv
<1>3. InStore(t)' /\ InStore(t)
  BY <1>1, <1>2 DEF InStore
<1>4. ListedInv'
  BY <1>1 DEF StoreInv, ListedInv
<1>5. DirsInv'
  BY <1>1, <1>2, <1>3 DEF StoreInv, DirsInv
<1>6. ThreadsInv'
  BY <1>1, <1>2, <1>3 DEF StoreInv, ThreadsInv
<1>7. RemnantsInv'
  BY <1>1, <1>2 DEF StoreInv, RemnantsInv
<1> QED BY <1>2, <1>4, <1>5, <1>6, <1>7 DEF StoreInv

(* What a failed clone removes is in no one else's hands: not listed.      *)
LEMMA CloneFailStore ==
  ASSUME IInv, StoreInv, NEW t \in DOMAIN threads, CloneFail(t)
  PROVE  StoreInv'
<1>1. /\ UNCHANGED <<keywordDirs, pc, repoPaths, keyword, keywordUsed, urls, next,
                      interrupted>>
      /\ threads' = [threads EXCEPT ![t].state = "error"]
      /\ repoDirs' = repoDirs \ {Target(t)} /\ whole' = whole \ {Target(t)}
      /\ threads[t].state = "cloning"
  BY DEF CloneFail, Return
<1>2. /\ DOMAIN threads' = DOMAIN threads /\ threads'[t].state = "error" /\ UrlsInv'
      /\ \A s \in DOMAIN threads :
           /\ threads'[s].pair = threads[s].pair /\ Target(s)' = Target(s)
           /\ s # t => /\ Target(s) # Target(t)
                       /\ threads'[s].state = threads[s].state
                       /\ InStore(s)' <=> InStore(s)
  BY <1>1, OneThreadMoves DEF StoreInv
<1>3. ~ InStore(t)'
  BY <1>2 DEF InStore
<1>4. ListedInv'
  <2>1. ASSUME NEW k \in DOMAIN repoPaths, NEW pair \in repoPaths[k]
        PROVE  pair[2] # Target(t)
    <3>1. SUFFICES ASSUME pair[2] = Target(t) PROVE FALSE
      OBVIOUS
    <3>2. pair = ScannedPair(Target(t)) /\ Target(t)[1] = k
      BY <3>1 DEF StoreInv, ListedInv
    <3>3. k = keyword /\ pair = threads[t].pair
      BY <3>2, ThreadNamed DEF StoreInv
    <3> QED BY <3>3 DEF StoreInv, ThreadsInv
  <2> QED BY <1>1, <2>1 DEF StoreInv, ListedInv
<1>5. DirsInv'
  BY <1>1, <1>2, <1>3 DEF StoreInv, DirsInv
<1>6. ThreadsInv'
  BY <1>1, <1>2, <1>3 DEF StoreInv, ThreadsInv
<1>7. RemnantsInv'
  BY <1>1, <1>2 DEF StoreInv, RemnantsInv
<1> QED BY <1>2, <1>4, <1>5, <1>6, <1>7 DEF StoreInv

(* What the call adds are directories; what it leaves out is not there.    *)
LEMMA RecordStore == ASSUME IInv, StoreInv, Record PROVE StoreInv'
<1>1. /\ UNCHANGED <<keywordDirs, repoDirs, whole, interrupted>> /\ NoCall'
      /\ pc' = "ready" /\ pc = "busy"
      /\ repoPaths' = [repoPaths EXCEPT ![keyword] = @ \cup Downloaded]
      /\ \A t \in DOMAIN threads : threads[t].state \in {"ok", "error"}
  BY DEF Record, LeaveCall, NoCall, tree, Returned
<1>2. Downloaded = {threads[t].pair : t \in {s \in DOMAIN threads : InStore(s)}}
  <2>1. \A t \in DOMAIN threads : threads[t].state # "error" <=> InStore(t)
    BY <1>1 DEF InStore
  <2> QED BY <2>1, DownloadedPairs
<1>3. keyword \in DOMAIN repoPaths
  BY <1>1 DEF IInv, CallInv
<1>4. DOMAIN threads' = {} /\ UrlsInv'
  <2>1. (NoCall => DOMAIN threads = {} /\ UrlsInv)'
    BY IdleUrls, PTL
  <2> QED BY <1>1, <2>1
<1>5. /\ DOMAIN repoPaths' = DOMAIN repoPaths
      /\ \A k \in DOMAIN repoPaths : k # keyword => repoPaths'[k] = repoPaths[k]
      /\ repoPaths'[keyword] = repoPaths[keyword] \cup Downloaded
  BY <1>1, <1>3
<1>6. ListedInv'
  <2>1. ASSUME NEW k \in DOMAIN repoPaths, NEW pair \in repoPaths'[k]
        PROVE  /\ pair[2] \in repoDirs /\ pair[2][1] = k
               /\ pair = ScannedPair(pair[2])
    <3>1. CASE pair \in repoPaths[k]
      BY <3>1 DEF StoreInv, ListedInv
    <3>2. CASE pair \notin repoPaths[k]
      <4>1. k = keyword /\ pair \in Downloaded
        BY <1>5, <3>2, <2>1
      <4>2. PICK t \in DOMAIN threads : InStore(t) /\ pair = threads[t].pair
        BY <1>2, <4>1
      <4>3. Target(t) \in repoDirs /\ pair[2] = Target(t)
        BY <4>2 DEF StoreInv, ThreadsInv, Target
      <4> QED BY <4>1, <4>2, <4>3, ThreadNamed DEF StoreInv
    <3> QED BY <3>1, <3>2
  <2> QED BY <1>1, <1>5, <2>1 DEF ListedInv
<1>7. DirsInv'
  <2>1. ASSUME NEW path \in repoDirs
        PROVE  /\ path[1] \in keywordDirs
               /\ path[1] \in DOMAIN repoPaths
               /\ ScannedPair(path) \in repoPaths'[path[1]]
    <3>1. path[1] \in keywordDirs
      BY DEF StoreInv, DirsInv
    <3>2. CASE path[1] \in DOMAIN repoPaths /\ ScannedPair(path) \in repoPaths[path[1]]
      BY <1>5, <3>1, <3>2
    <3>3. CASE \E t \in DOMAIN threads : Target(t) = path /\ InStore(t)
      <4>1. PICK t \in DOMAIN threads : Target(t) = path /\ InStore(t)
        BY <3>3
      <4>2. threads[t].pair \in Downloaded
        BY <1>2, <4>1
      <4>3. path[1] = keyword /\ threads[t].pair = ScannedPair(path)
        BY <4>1, ThreadNamed DEF StoreInv
      <4> QED BY <1>3, <1>5, <3>1, <4>2, <4>3
    <3> QED BY <1>1, <3>2, <3>3 DEF StoreInv, DirsInv
  <2> QED BY <1>1, <1>5, <2>1 DEF DirsInv
<1>8. ThreadsInv'
  BY <1>1, <1>4 DEF ThreadsInv
<1>9. RemnantsInv'
  <2>1. \A t \in DOMAIN threads : threads[t].state # "cloning"
    BY <1>1
  <2> QED BY <1>1, <2>1 DEF StoreInv, RemnantsInv
<1> QED BY <1>4, <1>6, <1>7, <1>8, <1>9 DEF StoreInv

LEMMA StoreStep == ASSUME SearchedLists, IInv, StoreInv, [Next]_vars PROVE StoreInv'
<1>1. CASE Construct
  BY <1>1, ConstructStore
<1>2. CASE Destruct \/ Die
  BY <1>2, EndStore
<1>3. ASSUME NEW k \in Keywords, NEW list \in UrlLists, DownloadRepos(k, list)
      PROVE  StoreInv'
  BY <1>3, DownloadReposStore
<1>4. CASE Skip
  BY <1>4, SkipStore
<1>5. CASE Spawn
  BY <1>5, SpawnStore
<1>6. CASE Record
  BY <1>6, RecordStore
<1>7. ASSUME NEW t \in DOMAIN threads, CloneRepoThread(t) PROVE StoreInv'
  BY <1>7, CloneWaitsStore, CloneInitStore, CloneSucceedStore, CloneFailStore
     DEF CloneRepoThread
<1>8. CASE UNCHANGED vars
  BY <1>8 DEF vars, tree, call, StoreInv, ListedInv, DirsInv, UrlsInv, ThreadsInv,
              RemnantsInv, InStore, Target
<1> QED BY <1>1, <1>2, <1>3, <1>4, <1>5, <1>6, <1>7, <1>8 DEF Next

LEMMA StoreInvariance == ASSUME SearchedLists PROVE Spec => []StoreInv
<1>1. IInv /\ StoreInv /\ [Next]_vars => StoreInv'
  BY StoreStep
<1> QED BY <1>1, SearchInit, Invariance, PTL DEF Spec

(***************************************************************************)
(* Between calls the catalogue in memory is what a scan of the disk would  *)
(* make of it now, whatever calls, failed clones, deaths and restarts went *)
(* before.                                                                 *)
(***************************************************************************)
THEOREM MemoryMatchesDisk ==
  ASSUME SearchedLists PROVE Spec => []CatalogueMatchesDisk
<1>1. IInv /\ StoreInv => CatalogueMatchesDisk
  <2> SUFFICES ASSUME IInv, StoreInv, pc = "ready", NEW k \in Keywords
               PROVE  (IF k \in DOMAIN repoPaths THEN repoPaths[k] ELSE {})
                        = {ScannedPair(path) : path \in {p \in repoDirs : p[1] = k}}
    BY DEF CatalogueMatchesDisk
  <2>1. DOMAIN threads = {}
    BY IdleUrls DEF IInv, CallInv
  <2>2. ASSUME NEW path \in repoDirs, path[1] = k
        PROVE  k \in DOMAIN repoPaths /\ ScannedPair(path) \in repoPaths[k]
    BY <2>1, <2>2 DEF StoreInv, DirsInv
  <2>3. ASSUME k \in DOMAIN repoPaths, NEW pair \in repoPaths[k]
        PROVE  pair[2] \in repoDirs /\ pair[2][1] = k /\ pair = ScannedPair(pair[2])
    BY <2>3 DEF StoreInv, ListedInv
  <2> QED BY <2>2, <2>3
<1> QED BY <1>1, Invariance, StoreInvariance, PTL

(***************************************************************************)
(* An incomplete directory that the catalogue lists is the remnant of a    *)
(* clone a dead process was running.                                       *)
(***************************************************************************)
THEOREM OnlyDeathLeavesRemnants ==
  ASSUME SearchedLists PROVE Spec => []IncompleteOnlyAfterDeath
<1>1. IInv /\ StoreInv => IncompleteOnlyAfterDeath
  <2>1. IInv /\ pc = "ready" => DOMAIN threads = {}
    BY IdleUrls DEF IInv, CallInv
  <2> QED BY <2>1 DEF StoreInv, RemnantsInv, IncompleteOnlyAfterDeath
<1> QED BY <1>1, Invariance, StoreInvariance, PTL

(* No step takes a whole clone away: a failing one removes only its own.   *)
THEOREM WholeClonesStay ==
  ASSUME SearchedLists PROVE Spec => WholeStaysWhole
<1>1. IInv /\ StoreInv /\ [Next]_vars => [KeepsWhole]_vars
  <2> SUFFICES ASSUME StoreInv, Next PROVE KeepsWhole
    OBVIOUS
  <2>1. ASSUME NEW t \in DOMAIN threads, CloneFail(t) PROVE KeepsWhole
    BY <2>1 DEF CloneFail, KeepsWhole, StoreInv, ThreadsInv
  <2>2. ASSUME NEW t \in DOMAIN threads, CloneSucceed(t) PROVE KeepsWhole
    BY <2>2 DEF CloneSucceed, KeepsWhole
  <2>3. CASE whole' = whole
    BY <2>3 DEF KeepsWhole
  <2> QED BY <2>1, <2>2, <2>3
          DEF Next, Construct, Destruct, Die, DownloadRepos, Skip, Spawn, Record,
              CloneRepoThread, CloneCheck, CloneRefuse, CloneInit, tree
<1> QED BY <1>1, Invariance, StoreInvariance, PTL DEF Spec, WholeStaysWhole
------------------------------------------------------------------------------
(* The abstract catalogue lists what is in store, all of it between calls. *)
LEMMA KnownIsStored ==
  ASSUME IInv, StoreInv
  PROVE  /\ Known \subseteq Stored /\ Stored \subseteq RepoPair
         /\ pc = "ready" => Known = Stored
<1>1. Known \subseteq Stored
  BY DEF Known, Stored, StoreInv, ListedInv
<1>2. Stored \subseteq RepoPair
  BY ScannedTyped DEF Stored, IInv, TypeOK, TreeOK
<1>3. ASSUME pc = "ready" PROVE Stored \subseteq Known
  <2>1. DOMAIN threads = {}
    BY <1>3, IdleUrls DEF IInv, CallInv
  <2> QED BY <1>3, <2>1 DEF Known, Stored, StoreInv, DirsInv
<1> QED BY <1>1, <1>2, <1>3

LEMMA CatalogueStep ==
  ASSUME IInv, StoreInv, IInv', StoreInv', [Next]_vars
  PROVE  [Catalogue!Next]_(Catalogue!vars)
<1> USE DEF Catalogue!vars
<1>1. /\ Known \subseteq Stored
      /\ Known' \subseteq Stored' /\ Stored' \subseteq RepoPair
      /\ pc' = "ready" => Known' = Stored'
  <2>1. (IInv /\ StoreInv =>
           /\ Known \subseteq Stored /\ Stored \subseteq RepoPair
           /\ pc = "ready" => Known = Stored)'
    BY KnownIsStored, PTL
  <2> QED BY <2>1, KnownIsStored
<1>2. CASE Construct
  <2>1. Stored' = Stored /\ pc = "off" /\ pc' = "ready"
    BY <1>2 DEF Construct, tree, Stored
  <2>2. Catalogue!Open
    BY <1>1, <2>1 DEF Catalogue!Open
  <2> QED BY <2>2 DEF Catalogue!Next
<1>3. CASE Destruct \/ Die
  <2>1. Stored' = Stored /\ pc # "off" /\ pc' = "off" /\ repoPaths' = EmptyMap
    BY <1>3 DEF Destruct, Die, tree, Stored
  <2>2. Known' = {}
    BY <2>1 DEF Known, EmptyMap
  <2>3. Catalogue!Close
    BY <2>1, <2>2 DEF Catalogue!Close
  <2> QED BY <2>3 DEF Catalogue!Next
<1>4. ASSUME NEW k \in Keywords, NEW list \in UrlLists, DownloadRepos(k, list)
      PROVE  UNCHANGED Catalogue!vars
  <2>1. Stored' = Stored /\ pc = "ready" /\ pc' = "busy"
    BY <1>4 DEF DownloadRepos, tree, Stored
  <2>2. /\ DOMAIN repoPaths' = DOMAIN repoPaths \cup {k}
        /\ \A j \in DOMAIN repoPaths : repoPaths'[j] = repoPaths[j]
        /\ k \notin DOMAIN repoPaths => repoPaths'[k] = {}
    BY <1>4 DEF DownloadRepos
  <2>3. Known' = Known
    BY <2>2 DEF Known
  <2> QED BY <2>1, <2>3
<1>5. CASE Skip \/ Spawn
  BY <1>5 DEF Skip, Spawn, AtUrl, tree, Stored, Known
<1>6. CASE Record
  <2>1. Stored' = Stored /\ pc = "busy" /\ pc' = "ready"
    BY <1>6 DEF Record, tree, Stored
  <2>2. Catalogue!Publish
    BY <1>1, <2>1 DEF Catalogue!Publish
  <2> QED BY <2>2 DEF Catalogue!Next
<1>7. ASSUME NEW t \in DOMAIN threads, CloneRepoThread(t)
      PROVE  Catalogue!Transfer
  <2>1. Known' = Known /\ pc' = pc /\ pc = "busy"
    BY <1>7, ThreadNamed DEF CloneRepoThread, CloneCheck, CloneRefuse, CloneInit,
                             CloneSucceed, CloneFail, Known, StoreInv
  <2> QED BY <1>1, <2>1 DEF Catalogue!Transfer
<1>8. CASE UNCHANGED vars
  BY <1>8 DEF vars, tree, Stored, Known
<1> QED BY <1>2, <1>3, <1>4, <1>5, <1>6, <1>7, <1>8 DEF Next, Catalogue!Next

(***************************************************************************)
(* The manager implements the abstract catalogue: a constructor opens it,  *)
(* cloning threads move repositories in and out of the store, a call that  *)
(* returns publishes all there is, and the end of the process, however it  *)
(* comes about, closes it.                                                 *)
(***************************************************************************)
THEOREM ManagerRefinesCatalogue ==
  ASSUME SearchedLists PROVE Spec => ImplementsCatalogue
<1>1. Init => Catalogue!Init
  BY DEF Init, EmptyMap, Catalogue!Init, Known, Stored
<1> QED BY <1>1, CatalogueStep, Invariance, StoreInvariance, PTL
        DEF Spec, ImplementsCatalogue, Catalogue!Spec
==============================================================================
