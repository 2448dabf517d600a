# A formal model of copyright_checker

copyright_checker compares a student's ("peer's") C project with repositories
found on GitHub. Given a keyword, it clones what GitHub's search finds for it,
reads the peer's sources, compares every one of them with every C source of
every clone, one thread per repository, and writes the scores to `log.json`.

The program is about 900 lines of C++ under `src/src/src`, with headers in
`src/src/include`. The rest of the tree (`json.hpp`, `httplib.hpp`, `git2/`,
`lib/`) is third-party code.

## Inventory

| component | source | state | operations |
|---|---|---|---|
| `RepoManager` | `repo_manager.{h,cc}` | `repoPaths` (keyword to set of (URL, directory) pairs), the tree below `repoDir`, the locals of a running `DownloadRepos` | construct (scan the tree), `FetchRepoUrls`, `DownloadRepos` (two overloads, one body), `CloneRepoThread`, destruct |
| libgit2, GitHub's search | external | the tree; remote data | `git_clone`; `/search/repositories` |
| `Analyze` | `analyze.{h,cc}` | peer files, the vector of result vectors, the threads | `StartAnalyze`, `AnalyzeProject` (one thread per repository), `CloseAllThreads` |
| `Logger` | `logger.{h,cc}` | `log.json` | merge, sort, write |
| `AnalyzeInfo` | `analyze_info.{h,cc}` | one entry of the log | conversion to JSON |
| `FileManager` | `file_manager.{h,cc}` | none | list directories, list sources, read a file without its empty lines, transform lines |
| `PeerFileData` | `peer_file_data.{h,cc}` | a file and its two prepared copies | prepare, copy, assign |
| `SignatureCompare` | `signaturecompare.{h,cc}` | a function-local `static bool` (inside a `/* */` comment) | strip comments, squeeze spaces, empty quotes, find typedef names and variables and remove them, percentage |
| `LineCompare` | `linecompare.{h,cc}` | none | normalise a line, percentage |
| `Flags` | `flags.{h,cc}` | project, peer, path | parse the arguments, print help and exit |
| `main` | `main.cc` | none | fixed arguments, `Flags`, `StartAnalyze` |

How they interact. `main` calls `Flags`, then `Analyze::StartAnalyze`, which
builds a `RepoManager` (it scans the tree through `FileManager::FindSubDirs`),
calls `DownloadRepos`, reads the peer's files into `PeerFileData`, and starts
one `AnalyzeProject` thread for each pair of the keyword's set. The threads
share the peer's files, which they only read, and each gets a reference to its
own element of `results`. After the joins, `Logger` merges, sorts and writes.

What is hard in it:

* **Shared memory between threads.** A cloning thread writes its return code
  through a reference into a `vector` that the spawning loop keeps appending
  to; an analysing thread appends to an element of a shared `vector` of
  vectors. Both are right only because of how the vectors were sized.
* **The disk outlives the process.** The catalogue is rebuilt from directory
  names alone. A process that dies during a clone leaves a directory that the
  next one takes for a repository; the URL is reconstructed from the path, and
  must be the one the search answers, or the repository is cloned again.
* **Failure.** Clones fail, and clean up; the search fails in several ways,
  one of which (no response) is a null dereference; `log.json` is emptied
  before it is written.
* **Order and width of arithmetic.** The score is a truncated floating-point
  product; the comment stripper keeps state from line to line and file to
  file; variables are removed in the order of an `unordered_set`.

What makes each component correct:

| component | properties |
|---|---|
| `RepoManager` | references stay valid; exactly the successful clones are recorded; memory agrees with the disk; only a death leaves an incomplete clone; a whole clone is never lost; a call returns |
| `Analyze`, `Logger` | no two threads share a result vector; the log holds every comparison once, under its own repository, sorted; the joins end |
| `SignatureCompare` | the stripper's state follows the comments; the typedef scanner's stack and flag agree; exactly the declared words are variables, and renaming them is not seen; the two sides of a comparison are prepared alike |
| `PeerFileData` | the prepared copies are those of the source, through copies and moves |
| scores | between 0 and 100; how far a file may be from 100 when compared with itself |
| `Flags` | every accepted command line sets what it names; a flag without a value never reaches the analysis |
| the program | a log covers every repository in store, those of earlier and of dead processes too |


## Modules and how they correspond to the code

Every definition and the lines it stands for are in `PROJECT.json` under
`map`; operators that begin with "Mutant:" in their comment are plausible bugs
that show a property can fail, and are used nowhere.

**`RepoNames`** holds the conversions between a URL, a catalogue pair and a
directory. A URL is a record; its last component is a sequence of
dot-separated segments, because `ParseGitNameFromStr` cuts it at its last dot
and `CheckRepoDir` glues `.git` back on. `FetchRepoUrls` is the set of lists an
answer may become: the loop keeps what it has read when an item throws.

**`RepoManager`** is the class. The tree (`keywordDirs`, `repoDirs`, and
`whole` for what is really inside) outlives the process; `repoPaths` and the
locals of a running `DownloadRepos` do not. The two overloads have one body
and differ in where the list comes from, which is `UrlLists`.

| action | code |
|---|---|
| `Construct`, `Destruct` | constructors with `CheckRepoDir`, destructor |
| `DownloadRepos` | entry: keyword lookup, insertion of an empty set, `errors(urls.size())` set to -2 |
| `Skip`, `Spawn` | one turn of the loop: `continue`, or `push_back`, reference, thread |
| `CloneCheck`, `CloneRefuse`, `CloneInit`, `CloneSucceed`, `CloneFail` | the steps of `git_clone` another thread or a crash can come between, each that returns with the write through the reference |
| `Record` | the joins, the loop that inserts the pairs whose code is 0, and the return |
| `Die` | the end of the process at any point |

A reference is the row it names and the number of the memory block it was
taken in (`block`); `push_back` on a full vector replaces the block, and a
write through an older reference is lost. Growth is doubling, as in libstdc++
and libc++: with it the first `push_back` (before any reference is taken)
makes room for all the others.

**`RepoCatalogue`** is what `RepoManager` promises the analysis, without calls,
threads or codes: a catalogue taken from the store when it is opened, and
brought up to date as a whole.

**`RepoSearch`** is `RepoManager` as `main` uses it: every list is what
`FetchRepoUrls` made of an answer of the search (`SearchedLists`), which
names each repository once and each with a clone URL. The properties that need
this are stated here, the implementation of the catalogue among them:
`RepoSearch!Catalogue` instantiates `RepoCatalogue` with `known` the union of the sets
of `repoPaths` and `stored` the directories as a scan sees them.

**`Analyze`** is `StartAnalyze` from the input check to `log.json`:
`Prepare`, `Spawn` and `EndSpawning` in the main thread, `ListSources`,
`Compare`, `NextPeer` and `Finish` in each analysing thread, the joins as the
guard of `Merge`, then `OpenLog` (which empties the file), `OpenFails` and
`WriteLog`. `std::sort` is any arrangement the comparator allows: a bijection
of the places with itself after which the scores descend.

**`Percentage`** is the pair of nested loops both comparisons share, a step per
inner turn, and the score. `Truncated` is the value of
`static_cast<int>(100.0 / n * m)` in IEEE doubles: only when `n` divides
`100 * m` can rounding matter, and `RoundsBelow` says when the product stays
below the whole number, from the digits the quotient lost. It was compared
with a machine's doubles for all `m <= n < 1500`.

**`CommentRules`** is `RemoveCommentaries` on one line, next to the rules of C;
`Tidy` says which lines the code can deal with. `Stripped`, the rules of C, reads the
line from left to right and jumps over comments. **`Comments`** runs the code, with its
static variable, over the lines of one file after another.

**`Typedefs`** runs the flag and the bracket stack of `GetTypedefNames` beside
what a reader of C makes of the lines, as long as they are tidy. Its definitions
have names of their own (`found` is the code's `typedef_names`, `ScanLine` a turn of
its loop), so that one module of proofs can extend it and `Variables`.

**`Variables`** is `RemoveVariables`. A line is a sequence of
characters, and a type has one letter instead of three or six, which makes no
difference to the searches. `Collect` and `PassType` are the two branches of the
first loop, `Search` a turn of the second, which erases the occurrence or
leaves it; `NextSearch` and `NextLine` move on, and the order of the
`unordered_set` is any. The byte the code reads behind a line's terminating NUL
is a choice between ")" and anything else. `GetTypedefNames` is `Typedefs`'
business, here its result is an input, the empty name included: `;` after the
last bracket gives it. `Words`, `Rename` and `Skeleton` say what a reader means
by words, by renaming and by leaving words out. A place is `Covered` when it lies
inside another declaration of the same type, after which the search goes on: in
`t* t* x` the second `t*` is no declaration of its own for the code.

**`Preparation`** holds the steps both sides of a comparison go through, in the
order of the code: the readers and `TransformFileData`, which drop empty lines,
`RemoveExtra`, `RemoveQuotes`, `RemoveCommentaries` with its static variable
(from `CommentRules`), `NormalizeString`, the `PeerFileData` objects with
`SetSource`, `Copy` and `Move`, and the two overloads of `GetSignatureInfo` as
`CompareFileData` and `ComparePeerFileData`, each with its answer. What a loop
keeps of a sequence is `AtPlaces`, of the module **`Excerpts`**: the elements at the places
that pass its test, in their order, defined by counting, because `SelectSeq` and folds take an operator as
an argument and the provers know nothing of them. `InsideAfter`, `ByTheRules` and
`Code` are the same file read by the rules of C. Its files
hold no type's name, so `RemoveVariables` finds nothing in them and is left
out; the score is the exact share (how the product may fall short of it is in
`Percentage`).

**`Flags`** is the argument scanner: `TakeFlag`, `Help`, `Accept`. The code's `i` is `arg`
here, and its definitions have names of their own, next to those of `Program`.

**`Program`** composes: it instantiates `RepoCatalogue` in the place of the
manager, and `Analyze`, and runs process after process on one store and one
`log.json`. `Prepare` is the return of the download together with the sizing of
`results` from what it left; `order` is the order in which the loop over the
set meets the repositories; `Restart` begins a process with the store and the
log as they are. `main`'s arguments are pairs, so what `Flags` does with others
does not enter.

The `MC*` modules give the constants of small instances; the `*Proofs` modules
hold theorems about the module they are named for (`RepoManagerProofs` about
`RepoSearch` too, `VariablesProofs` about `Typedefs`, `ProgramProofs` about `Flags`);
`ListLemmas` holds the lemmas they share.

## Runs

| run | instance | what it shows |
|---|---|---|
| `repo_search` | two keywords; search answers of up to 3 of three repositories (two whose names differ in a dotted suffix, a namesake of another account) and every beginning of one | with what the search answers, through any number of calls, failures, deaths and restarts: memory and disk agree between calls, an incomplete clone is a dead process's, a whole clone stays whole, and the manager implements `RepoCatalogue` |
| `repo_lists` | one keyword; lists of up to 3 URLs a caller may pass: repeated, sharing a directory, of another site | references stay valid, codes are recorded exactly, the call returns |
| `analyze` | up to 3 repositories, 2 peer files, directories of 0 to 2 sources, scores with ties; 5 rows at most | no two threads share a result vector, the log is complete and sorted, the program ends |
| `percentage` | all pairs of files of up to 4 lines over 3 lines, and the 97-line file | the loops and the product give the share of lines found, or one less, and what 100 means |
| `comments` | all tidy lines of up to 6 characters, in any order, with file ends anywhere | the static variable follows the comments, and a tidy line keeps what C leaves of it |
| `typedefs` | all combinations of marks and of three names, up to 4 open brackets | the stack and the flag agree; the names found are those declared |
| `variables` | all lines of up to 4 characters, and all of up to 3 next to a line that declares `x` or `x_x`; the line `t*t* x`; types `t*` and `t`; no typedef names, or `x` and the empty name; the file as written, and with `x` renamed | exactly the words behind types are variables; they are erased whatever the order; renaming is not seen; the loops end |
| `preparation` | a disk with any tidy line of up to 5 characters, or with two of five files that hold comments over several lines, a string, a directive, blank and empty lines; two objects | both ways to prepare a file leave the code C leaves, but for blanks; copies keep in step; without comments the overloads agree and a file scores in full against itself |
| `overloads` | two of those files | **violated**: with comments the overloads answer differently |
| `flags` | all command lines of up to 5 arguments over the three flags, `-help` and a word | exactly the pairs are accepted, with the values of the last flags |
| `program` | three repositories, one without sources; a peer with two files or none; any number of processes | a log covers the store, and what earlier logs held |

The finding. `peer_file_data.h:6-9` presents `PeerFileData` as used instead of
`FileData`, prepared beforehand to save calculations, and line 32 as its
replacement. In `overloads` TLC asks both overloads of `GetSignatureInfo` the
same question and gets two answers: the one for `PeerFileData` leaves the
comments in the reference it reads (`signaturecompare.cc:18`) and compares it
with an object whose comments were stripped. `analyze.cc` uses this overload.
The run needs two steps besides reading the object; a peer's file that has a
comment scores less than 100 even against itself, for that reason and for the
blank that stays where a comment was cut (`x; // c` becomes `x; `).

Why these bounds are enough. Threads of one call meet in pairs, on one
directory or on the vector: three URLs give two threads of one directory and a
third that is not concerned, and a vector that would have to grow twice. Two
keywords show that one's call leaves the other's set alone. A crash leaves at
most as many remnants as a call has threads, and every later call is an
ordinary one. In `analyze` a third repository is one that neither of two
racing threads concerns. 97 is the least number of lines whose full score is
not 100. Six characters hold a comment with a character inside and on either
side, `/*/`, `//*`, and two marks that overlap. In `typedefs` nesting deeper
than one adds a counter only. In `variables` a line of four characters holds a
type, a blank and a name of two, or an occurrence with a character on either
side in a word that goes on; two names in a set are enough for one to be removed
before the other. In `preparation` five characters hold code before or behind a
comment, and two files let one's static variable reach the other. A command
line of five has two pairs and a flag left over. `MaxRows` in `program` is what
all the directories and peers give together and cuts nothing off.

`CHECK_DEADLOCK FALSE` is given where the program ends (`analyze`,
`percentage`, `variables`, `flags`) and where the bound on the brackets stops it (`typedefs`).

Fairness. `DownloadReturns` and `Terminates` assume that the main thread runs
on whenever it does not wait in a join, and that each cloning or analysing
thread does: they are threads of one process under a preemptive scheduler and
no thread waits for another but through `join`. `git_clone` is assumed to
return, whether with success or not; no time limit is set by the code, so a
server that never answers would block the call. `Returns` and `Decides` assume
that a single thread that waits for nothing goes on.

## Proofs

`RepoManagerProofs` (for any names and any lists of URLs of any length):

* `TypeCorrect`: `Spec => []TypeOK`.
* `ReferencesStayValid`: `Spec => []ReferencesValid`.
* `RecordsExactly`: `Spec => RecordsExactlyTheClones`.

None of these is inductive. `IInv` adds `CallInv` (between calls there are no
locals; the keyword of a running call has a set), `RowsInv` (one row per URL
that keeps -2, then one row per thread in the order of their creation, holding
the thread's pair and, once it has returned, its code) and `BlockInv` (before
the first thread the vector is exactly full; afterwards it has room for twice
the list, its block was replaced once, and every reference is into that block).
`BlockInv` is where the initial size of `errors` matters: a thread is started
for a URL at most once, so the doubled vector never fills. `ReferencesValid` is
read off `RowsInv` and `BlockInv`. The action property needs `SeenInv` besides:
every URL the loop has gone past is in the set or has a thread.

The second half of the module is about `RepoSearch`, and assumes in each theorem that the
lists are answers of the search (`SearchedLists`; of any length, through any
number of calls, failed clones, deaths and restarts):

* `MemoryMatchesDisk`: `Spec => []CatalogueMatchesDisk`.
* `OnlyDeathLeavesRemnants`: `Spec => []IncompleteOnlyAfterDeath`.
* `WholeClonesStay`: `Spec => WholeStaysWhole`.
* `ManagerRefinesCatalogue`: `Spec => ImplementsCatalogue`, the refinement: the first
  state is one of the catalogue's, and every step is a step of it or a stutter.

Two facts carry them. `ScanUndoes`: for a clone URL, what `CheckRepoDir` glues
together from a directory is the pair whose directory it is, because the cut at
the last dot took `.git` off and nothing else. `TargetsDiffer`: the threads of a
call, whose URLs differ, therefore have directories that differ, so that a clone
that fails removes its own directory and no other. `StoreInv` joins them: what
is in the catalogue is on disk, under its keyword and as a scan would name it
(`ListedInv`); what is on disk is in the catalogue or belongs to a thread
(`DirsInv`); each thread has a URL of its own that the loop has gone past
(`UrlsInv`); its directory was new and is there as long as its clone is
(`ThreadsInv`); and what is there without being whole is being cloned or was, at
a death (`RemnantsInv`). It is proved together with `IInv`.

`AnalyzeProofs` (for any number of repositories and of files, and any scores):

* `TypeCorrect`: `Spec => []TypeOK`.
* `NoRace`: `Spec => []NoSharedResults`.
* `LogIsComplete`: `Spec => []LogComplete`.
* `LogIsSorted`: `Spec => []LogSorted`.

The invariant says what each element of `results` holds while the threads run:
`Past(t)` are the pairs of files the nested loops of thread `t` have gone past,
and `results[t]` has their entries, each once, and none besides (`ResultsInv`). The
t-th thread has the t-th repository and the t-th element (`ThreadsInv`), so a
step of one leaves the others' elements alone (`ThreadKeeps`), whatever the
interleaving. After the joins every thread is past all its pairs; `Flattened` says
that gluing the elements together keeps every entry and repeats none, `Arranged`
that a sort, being a bijection, does too. `FlattenSeq` is a recursive function of
the library: that it exists and what it returns is shown with `SetInduction`.

`ProgramProofs` (for any repositories and any number of processes):

* `StoreIsCovered`: `Spec => []LogCoversStore`.
* `NoneForgotten`: `Spec => []NothingForgotten`.

The module instantiates `AnalyzeProofs`: the invariant of a single analysis
holds within every process, because the steps of `Program` that touch its
variables are its steps or begin a new process with fresh ones. `OrderInv` adds
that the threads are given what is in store, each repository once; `SourcesInv`
that a thread which has listed its directory has the sources that are there;
`StoreInv` that what is known is in store, that memory and store agree while an
analysis runs, and that what was ever compared is still in store and has sources.

`CommentsProofs` (for lines of any length over any characters):

* `StaticVariable`: `Spec => []InStep`.
* `StripsRight`: `Spec => StripsLikeC`.

Both follow from `TidyLikeC`: on a tidy line `RemoveCommentaries` and `Stripped`
return the same, the line and the flag. `StrippingExists` shows that the
recursion of `Stripped`, which jumps over comments, defines a function: it only looks
further right, or at place 0. `CopiesUpTo` says that it copies
whatever lies before the next mark. Each kind of tidy line is then one case
(`InsideLikeC`, `OutsideLikeC`), in which the place the code erases from and
the number of characters it erases are compared with what is copied. The
assumption `Tidy` is used for every line; without it the equality is false.

`PercentageProofs` (for any files): `TypeCorrect`, `ScoreCorrect` and `FullScoreCorrect`.
The loop invariant says that the count is the number of earlier lines that occur
in the copy and that the current line occurs nowhere in the part gone through.
The bound of one below the share comes from `Truncated` alone; that a file
scores 99 or more against itself follows from it.

`VariablesProofs` (for files with any number of lines of any length over any characters,
any types, any names of typedefs, any order of the set):

* `TypeCorrect`: `Spec => []TypeOK`.
* `CollectsDeclared`: `Spec => []CollectsTheDeclared`.
* `RemovesWords`: `Spec => []RemovesTheWords`.
* `RenamingNotSeen`: `Spec => []RenamingUnseen`, for any new names that are written nowhere.
* `ScannerTypeCorrect`, `PopsWhatItPushed`, `NamesFound`: `TypedefsSpec => []P` for the three
  invariants of `Typedefs`, which are inductive taken together.

The invariant for the first loop, `CollectInv`, says that every place of a type which is
`Behind` the search has given its name to the set, or is covered, and that the
buffer is empty or holds a name read at a declaration: this is why the buffer
that is not cleared at ")" hides nothing. A place is never skipped but by a
search that begins behind the name of another, which is what `Covered` says.

The invariant for the second, `RemoveInv`, is about the line the search is in.
`Gone(G)`: some removable words `G` of the source's line are gone, the line is
what is left (`AtPlaces`), every word with a name that was looked for is in `G`, and
those with the present name that are not are at or behind the search. Places
move with every erasing, so the places of the line and of the source are
compared by their ranks. The heart is `OccurringWord` with `StandingWord`: as long as only
whole words are gone, the characters on either side of a gap are of no word, so
a word in what is left stood in the source (`OccurrenceKept`), and a word that is not
gone still stands there, with the same neighbours (`Neighbours`). Hence an erasing takes a
removable word (`ErasedPlaces`), nothing that an earlier name left behind joins
to make a new word, and the order of the set does not matter. It needs
`Untangled`: else the end of a longer word is erased.

`RenamingNotSeen` compares two lines, one the other with its words replaced. `Ends` gives
for each place of a line the place of the renamed line at which what stands for
its character ends (from `FlattenedPlaces`, as a renamed line is glued together from
replacements). With it every word has its place in the renamed line (`Moved`, `MovedText`),
is a word there (`MovedWord`, because the characters beside it stay), and no other word is
there (`WordCameFrom`). So the same words are removed from both, and the places that are
left correspond one to one with the same characters (`RenamedSkeleton`, by `SameExcerpt`).
`WrittenInv` adds that variables come from typedefs and declarations only, which a
name that is written nowhere does not.

`PreparationProofs` (for tidy files of any length, any number of objects, any order of
calls):

* `TypeCorrect`: `Spec => []TypeOK`.
* `AlwaysPreparedLikeC`: `Spec => []PreparedLikeC`.
* `LinesStayAlike`: `Spec => []LinesAlike`.
* `AlwaysUncommentedAlike`: `Spec => []UncommentedAlike`.

`IInv` says of every object that its two copies are what `AnalyzeSource` makes of
its source (`ObjectsInv`), of every answer which files it was computed from
(`AnswersInv`), and that the static variable is `FALSE` between calls: this is
where it matters that a tidy file ends outside of comments, and why no file
changes how the next one is read. Everything else is about one file:

* `AtPlaces` and its lemmas replace what a library's `SelectSeq` would give: the
  length, the elements and their order, and that taking places twice is taking
  places once.
* `LinePrepared` is the argument about one line. The peer's lines are squeezed and
  then stripped, a reference's the other way around. Squeezing moves the marks of
  a line without making or losing one (`MarksMoved`: `/`, `*` and quotes are no blanks, and of two
  characters side by side that are no blank none is dropped between), so it
  leaves the line tidy (`TidySqueezed`) and the open state as it was, and what is
  left differs by blanks, which a second squeeze removes (`SqueezeTwice`). A line
  with a string has no marks, and emptying the string makes none (`NoMarkAppears`). What
  one tidy line loses is `TidyLikeC`, from `CommentsProofs`.
* `OpenPrepared` follows the static variable through the lines of a file, by
  `SetInduction`; `StripOfNonEmpty` says that the empty lines a reader drops change nothing.
* `ScoreOfItself` and `ScoreBounded` are the arithmetic of the score.

The last part of `ProgramProofs` is about `Flags` (for command lines of any length):
`ParserTypeCorrect` and `AcceptsExactlyPairs`. The invariant says that the scanner stands at an odd
place (which is what excludes both that a value is read as a flag and that a
last flag's value is read behind the arguments), that the odd places before it
hold flags, and that each field is the value of its last flag so far.

The assumptions are the named `ASSUME`s of the modules, which TLC evaluates on
every run:

* `UrlListsAssumption`, `NoValuesAssumption`: lists are sequences of URLs no longer
  than `MaxUrls`, the null values are no values.
* `SearchedLists`, which the theorems about `RepoSearch` have as a hypothesis:
  the lists are answers of the search. `MCRepoSearch` states it as
  `SearchAssumption`, so that TLC evaluates it.
* `CharactersAssumption`: blank, quote and the characters of marks are different.
  `DisksAssumption`: files are sequences of lines, and no path is `NoPath`.
  `TidyAssumption`: files are tidy (see Not modelled for the others).
* `BoundsAssumption`, `ListsAssumption`, `SignatureAssumption`: bounds are natural
  numbers, a directory listing names no path twice, a score is in 0..100 (which
  `ScoreCorrect` shows of the computation).
* `SourcesAssumption`: there are finitely many repositories, and each has a list of
  sources. `AnalysisAssumption`: `Program`'s analysis has what `Analyze` assumes.
* `FilesAssumption`, `BoundAssumption`, `ArgumentsAssumption`, `LinesAssumption`: files
  are non-empty sequences of lines, the bound on brackets is a natural number,
  command lines and lines are sequences. In `Variables`, `LinesAssumption` says that
  files and types are sequences of characters.
* `LettersAssumption`: no letter is an underscore or a digit, and neither ")" nor NUL is
  any of them. `NamesAssumption`: `GetTypedefNames` has found finitely many names, of
  letters only. `NewNamesAssumption`: the names a variable may be given in a copy are
  words that are written in no file and name no typedef; without it a renaming
  may join two variables, which is to be seen.

The invariants above were checked by TLC on the runs' instances before they
were proved. The bounds on counters (`MaxUrls`, `MaxRows`, `MaxBrackets`) are
constants, so that the theorems hold whatever they are.

The library's induction theorems take an operator as a parameter, which the
provers cannot instantiate. What recursive functions compute is shown here by
induction over a set instead (`SetInduction`, from the well-foundedness of `<`
on the natural numbers: the least number outside the set would be a
contradiction), which with the lemmas on `AtPlaces` is in `ListLemmas`; `AnalyzeProofs`,
`CommentsProofs`, `PreparationProofs` and `VariablesProofs` rest on it.

Only model-checked:

* Liveness: `DownloadReturns`, `Terminates`, `Returns`, `Decides`. The prover does
  not reach fairness and `ENABLED`.

## Not modelled

* Two processes that share the tree. Nothing in the code coordinates them.
* What libgit2 does inside: that it refuses a directory that is not empty, and
  removes what it created when it fails, is taken from its documented
  behaviour; a removal that fails is not modelled.
* With a caller's list that names one directory twice, a failing clone can
  remove what its twin has completed. The catalogue's properties are therefore
  checked with search results, which name each repository once; `main` uses
  no others.
* Lines with text on both sides of a comment, with two comments, or with `//`
  inside `/* */`: the code strips them in its own way, which nothing in the
  repository describes.
* The `_DEBUG` variant of `CloseAllThreads`, which the Makefile does not build.
* The HTTP request, the JSON conversions and the third-party code.
* Variables of which one is the end of a longer word that is a variable or
  not (`x` and `a_x`): `IsStartOfVar` lets an underscore or a digit come before
  a name, so the end of `a_x` is erased, and what is left depends on the order
  of the set. Nothing says what is meant.
* What should be a declaration at the start of a line: the code takes any line
  that begins with a type's name for one, `interval = 3;` too, and collects
  what is left of the word (`rval`). `CollectsTheDeclared` takes the code's
  rule for what a declaration is.
* A quote inside a comment, or a string that holds `//`: `RemoveQuotes` and
  `RemoveCommentaries` disturb each other, differently in the two orders the
  code applies them in. `/* 5" */` in a peer's file loses its end to
  `RemoveQuotes`, and the files read after it begin inside a comment.
* Variables and comments together: a word behind a type in a reference's
  comment is collected for the reference and not for the peer's file. It is
  one more way in which the overloads differ.
* What the code defines and never calls: `IsEndOfName`, `CloneRepo`,
  `FromFilesData`, `PrepareFilesData`, `FindSourcesCPP`, `IsConfirmProject`,
  the readers of open streams.
* `test_main.cc`, which prints one file and checks nothing.

## What is done and what is left

Done, in this order: `RepoNames`, `RepoManager`, `RepoCatalogue` and their
proofs (the shared vector, the crash and the catalogue are the core of the
system); `Analyze`; `Percentage`; `Comments`; `Typedefs`; `Variables`; `Preparation`;
`Flags`; `Program`; then the proofs about `RepoSearch` with the refinement, and those
about `Analyze`, `Program`, `Comments`, `Preparation` and `Variables`. Every invariant and
action property a passing run checks is a theorem.

Left:

1. Lines the comment stripper cannot deal with, once something says what is
   meant to be left of them.
2. Two processes on one tree, once the code coordinates them.
