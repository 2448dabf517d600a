----------------------------- MODULE RepoManager -----------------------------
(***************************************************************************)
(* The RepoManager class (src/src/src/repo_manager.cc): the catalogue of   *)
(* reference repositories, the directory tree it is rebuilt from when a    *)
(* process starts, and the threads that clone new repositories into it.    *)
(*                                                                         *)
(* One process at a time owns the tree.  It may be killed, or terminated   *)
(* by an exception or a null dereference, between any two steps; the tree  *)
(* survives, everything else is lost.                                      *)
(***************************************************************************)
EXTENDS RepoNames, FiniteSets

CONSTANTS
  UrlLists,    \* the URL lists a call of DownloadRepos may work on
  MaxUrls,     \* a bound on their length
  NoKeyword,   \* the keyword when no call is running
  NoPair       \* the default-constructed RepoPair

ASSUME UrlListsAssumption ==
  /\ MaxUrls \in Nat
  /\ \A list \in UrlLists : list \in Seq(RepoUrl) /\ Len(list) <= MaxUrls

ASSUME NoValuesAssumption ==
  /\ NoKeyword \notin Keywords
  /\ NoPair \notin RepoPair

VARIABLES
  (* The tree below repoDir: it outlives the process. *)
  keywordDirs,  \* keywords that have a directory
  repoDirs,     \* repository directories, complete or not
  whole,        \* those whose clone has completed
  (* The process. *)
  pc,           \* "off", "ready" between calls, "busy" inside DownloadRepos
  repoPaths,    \* map<string, UniqueRepoPairs>, a function on its keys
  (* The running call of DownloadRepos. *)
  keyword, keywordUsed, urls,
  next,         \* the URL the for loop is at
  errors,       \* the rows of vector<pair<RepoPair, int>> errors
  capacity,     \* the rows its memory block has room for
  block,        \* how many times that block has been replaced
  threads,      \* the cloning threads, in order of creation
  (* History. *)
  interrupted   \* directories whose clone was running when a process died

tree == <<keywordDirs, repoDirs, whole>>
call == <<keyword, keywordUsed, urls, next, errors, capacity, block, threads>>
vars == <<tree, pc, repoPaths, call, interrupted>>

(* errors[i].second: rows made with the vector, no error, a libgit2 error. *)
Unused  == -2
Success == 0
Failure == -1

ErrorRow == [pair : RepoPair \cup {NoPair}, code : {Unused, Success, Failure}]

(***************************************************************************)
(* A thread and its argument std::ref(last_error): the row it names and    *)
(* the memory block that row was in when the reference was taken.  "ok"    *)
(* and "error" are what git_clone returned.                                *)
(***************************************************************************)
ThreadState == {"created", "checked", "cloning", "ok", "error"}

Thread ==
  [pair : RepoPair, row : Nat \ {0}, block : Nat, state : ThreadState]

Returned(t) == threads[t].state \in {"ok", "error"}
Target(t)   == threads[t].pair[2]
------------------------------------------------------------------------------
EmptyMap == [k \in {} |-> {}]

(* No call is running: its local variables are out of scope. *)
NoCall ==
  /\ keyword = NoKeyword
  /\ keywordUsed = FALSE
  /\ urls = <<>>
  /\ next = 1
  /\ errors = <<>>
  /\ capacity = 0
  /\ block = 0
  /\ threads = <<>>

Init ==
  /\ keywordDirs = {} /\ repoDirs = {} /\ whole = {}
  /\ pc = "off" /\ repoPaths = EmptyMap
  /\ NoCall
  /\ interrupted = {}

(***************************************************************************)
(* CheckRepoDir: one key per directory of repoDir, one pair per directory  *)
(* two levels below.  That repoDir itself is created when it is missing    *)
(* leaves the same, empty, catalogue, so it is not a variable; nor are     *)
(* the accounts' directories, which contribute nothing of their own.       *)
(***************************************************************************)
CheckRepoDir ==
  [k \in keywordDirs |->
     {ScannedPair(path) : path \in {p \in repoDirs : p[1] = k}}]

(* Either constructor. *)
Construct ==
  /\ pc = "off"
  /\ pc' = "ready"
  /\ repoPaths' = CheckRepoDir
  /\ UNCHANGED <<tree, call, interrupted>>

(* Mutant: the vector starts empty, and grows as threads are created. *)
InitErrorsEmpty(list) ==
  /\ errors' = <<>>
  /\ capacity' = 0
  /\ block' = 0

(* Mutant: the loop that sets the codes to -2 is left out. *)
InitErrorsZero(list) ==
  /\ errors' = [i \in 1..Len(list) |-> [pair |-> NoPair, code |-> Success]]
  /\ capacity' = Len(list)
  /\ block' = 0

(***************************************************************************)
(* vector<pair<RepoPair, int>> errors(urls.size()), all codes set to -2:   *)
(* full from the start, so the first push_back replaces its memory block.  *)
(***************************************************************************)
InitErrors(list) ==
  /\ errors' = [i \in 1..Len(list) |-> [pair |-> NoPair, code |-> Unused]]
  /\ capacity' = Len(list)
  /\ block' = 0

(***************************************************************************)
(* DownloadRepos is entered with a list of URLs: the caller's, or what     *)
(* FetchRepoUrls made of GitHub's answer (a request that fails leaves res  *)
(* null, and its dereference is a Die).  A new keyword gets an empty set.  *)
(***************************************************************************)
DownloadRepos(k, list) ==
  /\ pc = "ready"
  /\ pc' = "busy"
  /\ keyword' = k
  /\ keywordUsed' = (k \in DOMAIN repoPaths)
  /\ repoPaths' = [j \in DOMAIN repoPaths \cup {k} |->
                     IF j \in DOMAIN repoPaths THEN repoPaths[j] ELSE {}]
  /\ urls' = list
  /\ next' = 1
  /\ InitErrors(list)
  /\ threads' = <<>>
  /\ UNCHANGED <<tree, interrupted>>

(* The for loop stands at a URL; the pair it makes of it. *)
AtUrl   == pc = "busy" /\ next <= Len(urls)
Current == PairOf(keyword, urls[next])

IsPairDownloaded == Current \in repoPaths[keyword]

(* Mutant: the loop does not move on. *)
SkipForever ==
  /\ AtUrl
  /\ keywordUsed /\ IsPairDownloaded
  /\ next' = next
  /\ UNCHANGED <<tree, pc, repoPaths, keyword, keywordUsed, urls, errors,
                 capacity, block, threads, interrupted>>

(* "continue": the pair is in the catalogue already. *)
Skip ==
  /\ AtUrl
  /\ keywordUsed /\ IsPairDownloaded
  /\ next' = next + 1
  /\ UNCHANGED <<tree, pc, repoPaths, keyword, keywordUsed, urls, errors,
                 capacity, block, threads, interrupted>>

(* What push_back makes of a full vector's capacity: libstdc++, libc++. *)
Grown(n) == IF n = 0 THEN 1 ELSE 2 * n

(* errors.push_back: a full vector moves its rows to a larger block. *)
PushBack(row) ==
  /\ errors' = Append(errors, row)
  /\ IF Len(errors) = capacity
     THEN capacity' = Grown(capacity) /\ block' = block + 1
     ELSE UNCHANGED <<capacity, block>>

(* A row, a reference to it, and a thread that is given the reference. *)
Spawn ==
  /\ AtUrl
  /\ ~ (keywordUsed /\ IsPairDownloaded)
  /\ PushBack([pair |-> Current, code |-> Success])
  /\ threads' = Append(threads, [pair  |-> Current,
                                 row   |-> Len(errors'),
                                 block |-> block',
                                 state |-> "created"])
  /\ next' = next + 1
  /\ UNCHANGED <<tree, pc, repoPaths, keyword, keywordUsed, urls, interrupted>>
------------------------------------------------------------------------------
(***************************************************************************)
(* CloneRepoThread: git_clone(url, path), its return value assigned        *)
(* through the reference.  A reference into a block that has been replaced *)
(* writes freed memory: the row that is read later keeps its code.         *)
(*                                                                         *)
(* git_clone refuses a directory that exists and is not empty, creates it  *)
(* (and its parents) otherwise, and removes it when the clone fails.       *)
(* Nothing stops another thread between the test and the creation.         *)
(***************************************************************************)
Return(t, state, code) ==
  /\ threads' = [threads EXCEPT ![t].state = state]
  /\ errors' = IF threads[t].block = block
                THEN [errors EXCEPT ![threads[t].row].code = code]
                ELSE errors
  /\ UNCHANGED <<keyword, keywordUsed, urls, next, capacity, block>>

Proceed(t, state) ==
  /\ threads' = [threads EXCEPT ![t].state = state]
  /\ UNCHANGED <<keyword, keywordUsed, urls, next, errors, capacity, block>>

CloneCheck(t) ==
  /\ threads[t].state = "created"
  /\ Target(t) \notin repoDirs
  /\ Proceed(t, "checked")
  /\ UNCHANGED <<tree, pc, repoPaths, interrupted>>

(* The directory exists, or cannot be created. *)
CloneRefuse(t) ==
  /\ threads[t].state \in {"created", "checked"}
  /\ Return(t, "error", Failure)
  /\ UNCHANGED <<tree, pc, repoPaths, interrupted>>

CloneInit(t) ==
  /\ threads[t].state = "checked"
  /\ keywordDirs' = keywordDirs \cup {Target(t)[1]}
  /\ repoDirs' = repoDirs \cup {Target(t)}
  /\ Proceed(t, "cloning")
  /\ UNCHANGED <<whole, pc, repoPaths, interrupted>>

CloneSucceed(t) ==
  /\ threads[t].state = "cloning"
  /\ Target(t) \in repoDirs
  /\ whole' = whole \cup {Target(t)}
  /\ Return(t, "ok", Success)
  /\ UNCHANGED <<keywordDirs, repoDirs, pc, repoPaths, interrupted>>

CloneFail(t) ==
  /\ threads[t].state = "cloning"
  /\ repoDirs' = repoDirs \ {Target(t)}
  /\ whole' = whole \ {Target(t)}
  /\ Return(t, "error", Failure)
  /\ UNCHANGED <<keywordDirs, pc, repoPaths, interrupted>>

CloneRepoThread(t) ==
  /\ t \in DOMAIN threads
  /\ \/ CloneCheck(t) \/ CloneRefuse(t) \/ CloneInit(t)
     \/ CloneSucceed(t) \/ CloneFail(t)
------------------------------------------------------------------------------
(* The locals of DownloadRepos go out of scope. *)
LeaveCall ==
  /\ keyword' = NoKeyword /\ keywordUsed' = FALSE /\ urls' = <<>> /\ next' = 1
  /\ errors' = <<>> /\ capacity' = 0 /\ block' = 0 /\ threads' = <<>>

Downloaded == {errors[i].pair : i \in {j \in DOMAIN errors : errors[j].code = Success}}

(* Mutant: every row a thread was given is taken for a download. *)
RecordAttempts ==
  /\ pc = "busy" /\ next > Len(urls)
  /\ \A t \in DOMAIN threads : Returned(t)
  /\ repoPaths' = [repoPaths EXCEPT ![keyword] =
        @ \cup {errors[i].pair : i \in {j \in DOMAIN errors : errors[j].code # Unused}}]
  /\ pc' = "ready"
  /\ LeaveCall
  /\ UNCHANGED <<tree, interrupted>>

(* Mutant: the threads are not joined. *)
RecordUnjoined ==
  /\ pc = "busy" /\ next > Len(urls)
  /\ repoPaths' = [repoPaths EXCEPT ![keyword] = @ \cup Downloaded]
  /\ pc' = "ready"
  /\ LeaveCall
  /\ UNCHANGED <<tree, interrupted>>

(***************************************************************************)
(* All threads are joined, and the pairs of the rows whose code is 0 enter *)
(* the keyword's set.  No one else reads the set meanwhile.                *)
(***************************************************************************)
Record ==
  /\ pc = "busy" /\ next > Len(urls)
  /\ \A t \in DOMAIN threads : Returned(t)
  /\ repoPaths' = [repoPaths EXCEPT ![keyword] = @ \cup Downloaded]
  /\ pc' = "ready"
  /\ LeaveCall
  /\ UNCHANGED <<tree, interrupted>>

(* The destructor. *)
Destruct ==
  /\ pc = "ready"
  /\ pc' = "off"
  /\ repoPaths' = EmptyMap
  /\ UNCHANGED <<tree, call, interrupted>>

(***************************************************************************)
(* The process dies: it is killed, std::thread or an iterator throws (main *)
(* catches nothing), res or git_error_last() is null and is dereferenced.  *)
(***************************************************************************)
Die ==
  /\ pc # "off"
  /\ pc' = "off"
  /\ repoPaths' = EmptyMap
  /\ LeaveCall
  /\ interrupted' = interrupted \cup
       {Target(t) : t \in {s \in DOMAIN threads : threads[s].state = "cloning"}}
  /\ UNCHANGED tree

Next ==
  \/ Construct \/ Destruct \/ Die
  \/ \E k \in Keywords, list \in UrlLists : DownloadRepos(k, list)
  \/ Skip \/ Spawn \/ Record
  \/ \E t \in DOMAIN threads : CloneRepoThread(t)

Spec == Init /\ [][Next]_vars

(***************************************************************************)
(* The main thread runs on unless it waits in join, and so does every      *)
(* cloning thread: git_clone is assumed to return.                         *)
(***************************************************************************)
Fairness ==
  /\ WF_vars(Skip \/ Spawn \/ Record)
  /\ \A t \in 1..MaxUrls : WF_vars(CloneRepoThread(t))

FairSpec == Spec /\ Fairness
------------------------------------------------------------------------------
TreeOK ==
  /\ keywordDirs \subseteq Keywords
  /\ repoDirs \subseteq Path
  /\ whole \subseteq repoDirs
  /\ interrupted \subseteq Path

CatalogueOK ==
  /\ pc \in {"off", "ready", "busy"}
  /\ DOMAIN repoPaths \subseteq Keywords
  /\ \A k \in DOMAIN repoPaths : repoPaths[k] \subseteq RepoPair

CallOK ==
  /\ keyword \in Keywords \cup {NoKeyword}
  /\ keywordUsed \in BOOLEAN
  /\ urls \in Seq(RepoUrl)
  /\ next \in 1..(Len(urls) + 1)
  /\ errors \in Seq(ErrorRow)
  /\ capacity \in Nat /\ block \in Nat
  /\ threads \in Seq(Thread)

(* Every variable has its type, and a whole clone has its directory. *)
TypeOK == TreeOK /\ CatalogueOK /\ CallOK

(***************************************************************************)
(* The reference a running thread will write through names a row of the    *)
(* vector as it is now, that row is the thread's own, and no other thread  *)
(* has it: push_back never moves the rows once a thread has been started.  *)
(***************************************************************************)
ReferencesValid ==
  /\ \A t \in DOMAIN threads :
       /\ threads[t].block = block
       /\ threads[t].row \in DOMAIN errors
       /\ errors[threads[t].row].pair = threads[t].pair
  /\ \A s, t \in DOMAIN threads : threads[s].row = threads[t].row => s = t

(***************************************************************************)
(* A call that returns has added to the keyword's set exactly the pairs    *)
(* whose git_clone returned 0, and every URL of its list is in the set or  *)
(* had a clone that failed: no code is lost, none is read from a wrong row.*)
(***************************************************************************)
ExactReturn ==
  pc = "busy" /\ pc' = "ready" =>
    /\ repoPaths'[keyword] = repoPaths[keyword] \cup
         {threads[t].pair : t \in {s \in DOMAIN threads : threads[s].state = "ok"}}
    /\ \A i \in DOMAIN urls :
         \/ PairOf(keyword, urls[i]) \in repoPaths'[keyword]
         \/ \E t \in DOMAIN threads :
              /\ threads[t].pair = PairOf(keyword, urls[i])
              /\ threads[t].state = "error"

RecordsExactlyTheClones == [][ExactReturn]_vars

(* DownloadRepos returns (or the process dies). *)
DownloadReturns == pc = "busy" ~> pc # "busy"
==============================================================================
