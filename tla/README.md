# kustofmt, specified

TLA+ models of kustofmt, model-checked with TLC, and theorems about them, checked
with TLAPS. The source is the reference: every definition that stands for code is
listed in `PROJECT.json` ("map") with the lines it models.

kustofmt formats YAML in the style kustomize emits. Beside the formatter, the
repository carries the machinery that decides which kyaml, the library whose
emitter is that style, each release is built against. Both halves make promises
that hold only if every step of them is right, and both are specified here.

## Inventory

| Part | State it keeps | Operations | What makes it correct |
|---|---|---|---|
| `format.Format` (format/format.go) | the locals of one call | format once, verify, repeat until stable, give up after four passes | what it returns is stable and means what the input meant; it always returns; `fmt(fmt(x)) = fmt(x)` |
| restyling (`blockify`, comment relocation, `<<`) | a tree of nodes | one recursive pass | no comment is lost or moves to another key; block style everywhere |
| `IsSOPS` (format/sops.go) | none | a predicate | encrypted documents, and only they, are skipped |
| `Diff` (format/diff.go) | the open hunk, the context held back | split, trim, LCS, group | the patch applies; it is empty only for equal files |
| `writeFile` (cmd/kustofmt/run.go, owner_unix.go) | files, directory entries, a temporary file | nine system calls, any of which fails | a reader, also after a crash, finds a whole manifest with its owner, mode and link |
| command line (run.go) | exit code, standard output | modes, walk, standard input | one bad file hides no other; the exit code is right; stdout is one thing per mode |
| compatibility matrix (internal/compat) | version and rows | validate, decide, record, sort, render | one row per kyaml, one row per kustomize release, the version not behind the rows |
| compat command (cmd/compat) | the files of a checkout | apply, render, check, next, status | what it leaves behind can be released, or is noticed |
| release workflow, watcher (.github/workflows) | tags, published releases, the job queue | decide, check, tag, extract notes, publish | a version is published once, with the kyaml its row says; every merge is released |

They interact as follows. `processFile` reads a file, asks `IsSOPS`, calls
`Format`, and with `-w` calls `writeFile`, with `-d` `Diff`. `cmd/compat` saves its
matrix through `format.Format`, runs the format tests to decide what kind of
release it prepares, and writes five files in turn. The workflows run `cmd/compat`
on a checkout, merge the result, and the merge starts the release job, which
reads the same files again.

Hard, and what the properties are aimed at ("hazards" in `PROJECT.json` lists
them line by line): a YAML emitter that is not stable and corrupts some scalars;
a crash between two system calls; two runs and an editor on one file; a command
of five file writes that stops in the middle and is retried; a decision taken
from files a person changed in between; jobs that replace each other in a queue.

## Modules

`OrderProofs` holds what several of the proof modules need: a set of naturals has a
least member (`Least`), what holds for 0 and for every successor holds up to n
(`Climb`), and facts about sequences and prefixes.

Format:

- `FormatLibrary`: the parser and the emitter as two arbitrary functions on byte
  streams. A stream is malformed, holds no document, parses but does not decode
  (duplicate keys), or has a value; some values are not equal to themselves (NaN).
- `Formatter`: `Format`, with `in`, `out`, `next`, `pass` as in the code and one
  action per statement that can return. `Reformat` is the caller who formats the
  answer again.
- `FormatContract`: the abstract specification, one step per call: accept a
  stream that is stable and means the same, or refuse. `Formatter` implements it
  (`ImplementsContract`).
- `FormatterProofs`, `MCFormatter`.

Atomic replacement:

- `ManifestFile`: contents, modes, and who may write.
- `AtomicWrite`: `processFile` and `writeFile`, one action per system call, each
  of which may fail, for any number of runs; `file` and `dir` are what processes
  see, `disk` and `diskDir` what a power loss leaves. The environment kills runs,
  writes back inodes and the directory in any order, saves new versions and cuts
  the power.
- `AtomicReplace`: the abstract specification: the manifest is always one of the
  whole contents it had or the formatting of one, and keeps owner and mode.
  `AtomicWrite` implements it (`ImplementsReplace`).
- `AtomicWriteProofs`, `MCAtomicWrite`.

Restyling and sops:

- `YamlNode`: the tree of one document, as the parser makes it; an alias is a leaf.
- `Restyle`: `blockify`, one step per node (its style) and one per key and value or
  item (merge tag, trailing comment). The recursion is the list `todo` of what is
  left, in the order the code gets to it. A comment is named after the node and the
  place it was written at, so a comment that ends up elsewhere can be told.
- `Sops`: `isSOPSDoc` over the same trees; one value stands for every payload and
  one key for the six key sources.
- `RestyleProofs`, `MCRestyle`.

Command line:

- `Collect`: `collect` over a tree of directories, files and links. A path is a
  sequence of names, "." and ".." among them. There are two ways to read it: by the
  names alone, as `filepath.Join` does (`Clean`), and by the tree, as
  `filepath.EvalSymlinks` does, name by name and through the links (`EvalSymlinks`).
  The walk starts where the second leads; what it finds is named by the first
  (`UnderRoot`). Further the walk and what it skips (`Walked`), its order (`Walks`) and
  which names it has seen (`Added`).
- `Cli`: one run, from the arguments to the exit code: `collect` path by path, then
  for each file read, write and report, with `code` and standard output (`out`) as
  the code keeps them. Any call may fail and somebody else may save, encrypt or
  remove a file in between. After a run with `-w` the same paths are checked with
  `-l`, as a CI job does (`CheckAgain`). What formatting does to a text is a function
  here, `writeFile` one step: `Formatter`, `AtomicWrite` and `Hunks` are about those.
- `CliProofs`, `MCCli`.

Diff:

- `EditScript`: `splitLines` and `diffLines`, which find the edits one by one: the
  common prefix, then how much of the common suffix is set aside (`tail`), the middle
  along the LCS table (or whole, if the table were too large), and the rest. `edits`
  is the script so far, `oldLine` and `newLine` the lines it has passed.
- `Hunks`: extends it with the loop that reads the finished script once and groups it
  into hunks, one action per branch: `cur` is the open hunk, `pending` the unchanged
  lines held back, `out` the hunks that are closed.
- `HunksProofs`, `MCDiff`.

Compatibility and release:

- `Matrix`: `validate`, `Decide`, `Record`, versions and the sort of `Save`.
- `Compat`: `apply` and `render` on a checkout, each file write and each Go
  command a step that can fail or tear the file, and what a maintainer does in
  between (`make golden`, editing the version by hand). `pc`, `m`, `d`, `allow`
  and `todo` are the command in progress and its locals.
- `Release`: extends `Compat` with main, tags, published binaries and the release
  job with its queue. `Next` lets anyone do anything documented in any order,
  `WatcherNext` is the procedure of kustomize-watch.yaml, and `WatchedNext`, which the
  theorems are about, adds to it the tags pushed by hand and the jobs that fail.
  `Forecast` is what `status` says of the pending releases.
- `Pins`: the abstract specification: a recorded kustomize release keeps its
  kustofmt version, and the binary of that version links the kyaml that kustomize
  ships. `Release` implements it (`ImplementsPins`).
- `MatrixProofs`, `ReleaseProofs`, `MCRelease`.

An operator under a comment that begins "A defect" is a mutation of the
definition that follows it: with the mutation in place of the definition, the
property named beside it in `PROJECT.json` ("mutants") fails.

## Runs

`tlc -workers 2 -config <cfg> <module>`, each in at most a minute or two.

| Run | Configuration | Shows |
|---|---|---|
| format | MCFormatter.cfg | 92,853 states. What is accepted is stable (`AcceptedIsFixedPoint`) and keeps its meaning (`MeaningKept`); a second call changes nothing (`Idempotent`); "not converged" comes only after the meaning was checked in every pass (`UnsettledKeptMeaning`); every call returns (`Returns`); the contract is implemented. |
| format_nan | MCFormatterNaN.cfg | Violation: a document with a NaN is refused for a change of meaning that no pass made. |
| write | MCAtomicWrite.cfg | 198,052 states. Any user, any mode, under the name or the link, and two runs that race, with an editor and a power loss: owner, mode, link and read-only files are respected; the manifest is whole, cached and durable; failures leave nothing; success means formatted; atomic replacement is implemented. |
| restyle | MCRestyle.cfg | 440,593 states. Comments stay with their entries (`CommentsStayWithEntry`), every collection that can be is in block style and no merge key has a tag (`HouseStyle`), and `IsSOPS` takes the documents that carry a payload or sops metadata at the top, and no other (`SopsByStructure`). |
| cli | MCCli.cfg | 1,584,444 states. The exit code tells all (`ExitTellsAll`); every file gets its turn and `-l` lists the right ones (`NothingHidden`); names, diffs and documents do not mix and a filter swallows nothing (`StdoutIsOneThing`); `-l` after `-w` has nothing to say (`FormatThenCheckPasses`); nothing else is rewritten (`OnlyAskedIsRewritten`); a path that is a link, or has dots in it, is walked like the directory it leads to (`CollectIsComplete`). What is reached under which path is claimed for `Straight` paths, in which no ".." comes after a link. |
| cli_dotdot | MCCliAbove.cfg | Violation of `NamesLeadBack`: for `Lib/..`, where `Lib` is a link to `Base/Vendor`, the walk takes `Base` and reports its files under the names of the directory that `Lib` is in. |
| diff | MCDiff.cfg | 1,442,062 states, one behaviour per pair of files: the patch applies, is empty only for equal files, has the hunks of `diff -u`, and is shortest. |
| release_anyone | ReleaseAnyone.cfg | 419,071 states. Commands, hand edits, merges and tags in any order: `Save` never refuses, pins hold. |
| release_watcher | ReleaseWatcher.cfg | 168,540 states. Along the watcher's procedure, with torn files and commands that fail: main is always fit to be released (`MainIsReady`) and, with a workflow that runs what waits, does not stay unpublished (`MainIsReleased`); styles change only with the minor version (`StyleIsApi`), what `status` forecasts for all pending releases is what applying them one by one records (`ForecastComesTrue`), pins hold. |
| release_review | ReleaseReview.cfg | Violation of `StyleIsApi`: reviewing a style change as documented (`make golden` first) makes `apply` see no change and cut a patch. |
| release_stuck | ReleaseStuck.cfg | Violation of `NothingToDoMeansOut`: the tag is pushed before the notes and the release; if they fail, later jobs take the version for published. The counterexample needs no bad luck in the job: `apply` fails after `Save`, its retry says "nothing to do", and the changelog section is missing. |
| release_queue | ReleaseQueue.cfg | Violation of `EveryVersionReleased`: a waiting job is replaced, and its version is never published. |

The findings in `PROJECT.json` quote, for each violation, the line of the repository
that says otherwise. One difference has no run, because the line can be read either
way: docs/specs/kustofmt.md:92 says that directories are walked "following symlinked
directories", and the code follows a link that is named as an argument, or is part of
one, but not the links found inside the tree (run.go:366-367). `CollectIsComplete`
claims what the code does: below a link that the walk finds nothing is promised.

## Bounds

- `MaxPasses` is 4 in the code and 2 in the runs: with three streams a stream can
  settle on the last pass and fail to. The theorems hold for every value.
- Three streams and three values are enough for an emitter with a cycle, one that
  drifts and one that loses a document. `Canonical` fixes the emitter where it is
  never asked.
- One or two runs, one edit, one power loss (`MaxLosses`). Two runs race when both
  are the owner's, on a private file under its own name, for what users, modes and
  links decide shows in one run alone. The theorems hold for any number of each.
- Trees have at most `MaxSize` = 6 nodes: a mapping in a sequence in a mapping, and
  two collections beside each other. Comments are put on flow collections with
  content, which lose theirs, and at the end of the lines of scalar keys, which
  receive them; elsewhere none moves. `SopsByStructure` has trees of ten nodes of its
  own (`EncryptedInit`): two keys at the top, two below. All of the run's properties
  are proved for every tree.
- The tree of `MCCli` has each kind of thing the walk tells apart: a manifest at the
  root and one in a directory, one under two names, one in a skipped directory, a file
  that is no manifest, links to two directories and to a file. Arguments are one path,
  with "." or ".." among them (up to the root, down again, after a link, after a
  name that is missing), or one of five pairs: the same file twice, a directory and a
  file below it, a path that is missing, a link with a skipped directory that is
  named, and a way through a link and back with another file. One change by somebody
  else (`MaxEdits`) and one failing call (`MaxFaults`) put every failure between any two
  steps. All of the run's properties are proved for every tree, any arguments and any
  number of changes and failures.
- Files have at most `MaxLines` = 6 lines over two texts, `Context` is 1 instead
  of 3, so that two changes can be near, at the limit and apart; `MaxCells` is 12,
  so that what is left once the ends were set aside is above, below and at
  `maxDiffCells`, also between files that are larger (`Fits`). All of the run's properties
  are proved for files of any length, every context above 0 and every limit of the
  table.
- Two kustomize releases after the recorded one, three kyaml versions, two
  styles: a row is joined, added twice, returned to, and a style moves and moves
  back. `HandCut` limits which versions a maintainer cuts a patch after. The
  run release_anyone also fixes which release moves the style, has all releases come out
  first, keeps files whole and changes them only between jobs (`Limits`); release_watcher has none of
  these limits, but no tags pushed by hand and no jobs that fail, which release_anyone
  has and the theorems about the watcher's procedure include. `SaveNeverRefuses`, `MainIsReady`, `StyleIsApi`, `ForecastComesTrue`
  and `ImplementsPins` are proved without any of them, for all releases and versions.
- Symmetry is used in one run, write, whose properties are safety properties.

## Fairness

- `Formatter`: weak fairness of `Format`. It is a sequential function without
  waiting; the caller (`Reformat`) is under no obligation.
- `Release`: weak fairness of `RunJob`, the steps of the release job that do not
  fail for reasons of their own: GitHub runs the job that waits and the runner
  gets on with it. Nobody is obliged to publish, apply or merge. Failing jobs
  (`FailJob`) are left out of release_watcher and release_queue: a job that keeps
  failing releases nothing. So are tags pushed by hand in release_watcher.

## Proofs

`tlapm` on `FormatterProofs`, `AtomicWriteProofs`, `RestyleProofs`, `OrderProofs`,
`CliProofs`, `HunksProofs`, `MatrixProofs` and `ReleaseProofs`. Every theorem below is
one of the whole specification, for every value of the constants that satisfies the
assumptions, with the inductive invariant that it needs.

Format. The theorems hold for every set of streams, every parser and emitter and
every `MaxPasses` above 0. The inductive invariant `IInv` says for each program
point what is known of `out`, `next` and `produced`: past a verification every
stream produced so far keeps the meaning of the input (`Verified`), `out` is the
last pass but one and `next` the pass of `out` (`Control`), so that equality in
`Compare` is stability. For idempotence it adds what a second call starts from
(`SettledInput`, `SecondCall`): the input is stable, hence its first pass is the
input itself, and only a value unequal to itself can be refused. Proved: the type
invariant, `AcceptedIsFixedPoint`, `MeaningKept`, `UnsettledKeptMeaning`,
`Idempotent` and the refinement of the contract.

Atomic replacement. For any number of runs, users, versions and power losses. The
inductive invariant has two parts. `Progress(p)` says what a run knows and has
done by program point: what it read was once in the manifest; from the probe on
its user may write the file; after `Chmod` its temporary file has owner and mode;
after `Write` the formatted content; after `Sync` the same on disk. `Sound` says
of the inodes that the cached and the durable entry name: equal on both sides,
whole, with the original's owner and mode. `Progress` at `Rename` gives `Sound` of
the new inode; a power loss exchanges one sound inode for another. Proved: the
type invariant and every safety invariant of the run, and the refinement of
`AtomicReplace`.

Restyling. For every tree, every style and every placement of comments. That a
comment is on its node or its key (`CommentsKept`) and that no collection in block
style carries one at the end of its line (`NoneStrays`) is not inductive: it needs
that an entry names a key of the mapping and its own value, and that a node is
visited, and so loses its flow style, only after its comment has left it
(`TaskOK`, of everything in `todo`). A value has one place in the tree (`IsTree`),
so it is no key (`ValueIsNoKey`), and a comment moves once. Keys that are
collections are the exception in `NoneStrays`, as they are in the code, which
looks for a comment to rescue on values and items only.

`HouseStyle` says what is left when the recursion is over, so its invariant `HInv` has
to say what is still ahead: a collection in flow style is below what `todo` names
(`StylesAhead`), and so is the entry of a merge key with a tag (`TagsAhead`).
"Below" is reachability, which would be an induction; `Below(T)` says it as a member
of every set that contains T and, with a node, the content of that node. A step that
visits a node puts its content in its place on the list (`VisitPasses`), so whatever
was below the list before is below it afterwards; below nothing is nothing, and that
everything is below the root at first is the one place where the order of the
document is needed (`RootHasAll`).

`SopsByStructure` holds of every such tree. `hasEncryptedValue` is a recursive function,
and what is below a node (`Leads`, by way of `Below` again) solves its equation
(`LeadsIs`); so the function has a value, and that value is no other: of the nodes where
two solutions differ there would be a last one, since nodes are numbered up to a last
one, and the nodes in it come after it (`EncryptedIs`). What `mapValue` finds is the
value of the first of the keys with a name, for keys at the odd places of a mapping are
in the order of their numbers (`KeysAre`, `MapValueIs`), and a key has one value
(`OneValue`). Proved: the type invariant, `CommentsStayWithEntry`, `HouseStyle` and
`SopsByStructure`.

Command line. For every tree, all arguments and flags, and any number of changes
and failures.

- `CodeTells` relates the code so far, the log of what was dealt with and what has
  been printed; the step that matters (`OverKeeps`) folds one result into the code
  while it appends to the other two. A difference after an error, an error after a
  difference and a name whose report then failed are its cases (`ExitTellsAll`).
- `Told` ties the log to the list of files (`InTurn`), each line of the output to an
  entry of the log (`Lines`), each entry that differs to a line (`Listed`), and says
  what a filter has printed (`Single`, `Filtered`): `NothingHidden` and
  `StdoutIsOneThing`.
- `Kept` holds until somebody else edits a file. Both runs take the same names
  (`SameFiles`: those of the paths that are expanded and those still to come are
  always those of all paths); each file the run with `-w` did not give up is
  `Settled`, under each of its names and for good, since writing a text that is
  formatted settles every name of the file and disturbs none (`WrittenKept`);
  what is settled the run with `-l` has nothing to say about (`Checking`):
  `FormatThenCheckPasses`.
- `Collecting` says that a path is there by the time its files are taken, and that no
  name is taken twice; `Rewriting` that a file which differs from what was given was
  formatted, and on behalf of a path that leads to it if no path has ".." after a link.
  Both rest on comparing the two ways to read a path. `Clean` and `EvalSymlinks` are
  recursive functions; that each has a value, and what one name more does to it
  (`CleanIs`, `EvalSymlinksIs`, `OneNameMore`), is an induction over the length of the
  path by way of `Climb`. Above every entry there are directories only (`AboveIsDir`),
  so below a directory of the tree names are followed without meeting a link
  (`LeadsOn`), and what is below the cleaned path is resolved to what is below the root
  that was walked, provided the cleaned path still leads there (`ResolvedBelow`). That
  proviso is `Straight`, and cli_dotdot shows that it is needed. Proved:
  `CollectIsComplete` and `OnlyAskedIsRewritten`, with which every property of the
  passing run has its theorem.

Diff. For any two files, any context and any limit of the table. `ScriptInv` says
that the edits found so far name, in their order, the next line of the old file, of
the new one, or the same line of both (`Follows`, by counting the edits of a kind), and
that the two tails are the same lines. `GroupInv` says how the script that was read is
cut: each hunk is a `Stretch` of the script, with its edits and with a header that
counts what comes before it; the closed hunks and the open one form a `Chain` in which
nothing changes between one stretch and the next; the lines held back are the
unchanged edits since. `Link` adds where the first and the last change of a stretch
are, which is what makes the context tight. All of it is arithmetic over counts
(`Passed`), with an induction over their length by way of `Climb`.

`DiffIsShortest` compares the script with every other one: what a script keeps is a set
of pairs of the same line in which no two cross, and none is larger than the set of
those it keeps. `Most(i, j, n)` says that n is the size of the largest such set after
i old and j new lines. Where the lines in front (or at the back) are equal some largest
set pairs them (`FrontSame`, `BackSame`), where they differ the largest one leaves the
old or the new line out (`FrontDiffers`); so a cell of the table is the `Most` of its
corner, by induction over the lines that are left (`CellIs`, `TableIs`), and what was
trimmed is kept by a largest set too. Nothing that can be set aside leaves less than
what the code leaves, so that if any of it `Fits`, the table is filled (`MiddleFits`).
A common subsequence, of which `DiffIsShortest` speaks, is such a set of pairs
(`KeptInOrder`). `ShortInv` then says that the lines kept so far and
the most of what is ahead are together the most of the two files, at every step of the
loop. Proved: the type invariant, `PatchRebuildsNew`, `EmptyMeansSame`, `HunksAreTight`
and `DiffIsShortest`.

Compatibility and release. For all kustomize releases, kyaml versions and styles.
`MatrixProofs` has the operators: Save's sort, defined by a bijection, leaves rows that
are in order as they are (`SortKeeps`, since the only bijection of 1..n that preserves
the order is the identity); recording a decision that `Fits` leaves a `Good` matrix
(`RecordJoins`, `RecordAppends`) of which the old one is a part (`Grows`: no row loses a
release, and no version that was reached gets another kyaml). `ReleaseProofs` has three
invariants.

- `IInv`, when anyone does anything: the matrix of the checkout, unless it is torn, and
  the matrix of the command in progress are `Ahead` of main's; every commit that is
  queued or being released is behind it (`Queued`); a binary's kyaml is that of its
  row for good (`Linked`). Proved from it: the type invariant, `SaveNeverRefuses` and
  `ImplementsPins`, the refinement of `Pins`, step by step.
- `Intended`, when anyone does anything: the matrix in memory is what the command's
  decision makes of the matrix in the checkout, and the decision is the one `Decide`
  takes on it. `Forecast` goes over the pending releases from the oldest on, with a
  matrix that accumulates (`After`, a recursive function). Before the oldest pending
  release nothing accumulates (`AfterNothing`); once it is recorded, the matrix from
  which the forecast starts is the one it went through before (`AfterOldest`, an
  induction over releases by way of `Climb`). Proved: `ForecastComesTrue`.
- `WatchedInv`, along the watcher's procedure: between commands the checkout lacks at
  most what `render` does (`Renderable`), a minor version has one style (`Steady`), a
  command that is rebuilding knows how far it is (`RebuildReady`), and what it no
  longer has to write is as it has it in memory (`WriteReady`), also when a file was
  torn and the command started again. Each binary comes from a row of main with its
  minor version (`Traced`). Proved: `MainIsReady` and `StyleIsApi`. `StyleIsApi` fails
  as soon as people do what the watcher does not (release_review), so these are
  theorems of `WatcherSpec`.

Only model-checked:

- `Returns`, `MainIsReleased` and what the runs that expect a violation show: liveness
  under fairness is out of the prover's reach.

## Assumptions

- A temporary name is never drawn twice, and removing one's own temporary file
  succeeds. The deferred `Remove` goes by name.
- Nobody else changes owner or mode of the manifest or replaces the link while
  runs are about; an editor saves whole files, synced and by rename. What it saves
  between a run's `ReadFile` and `Rename` is lost, which `AtomicReplace` allows in
  so many words (`Replace` formats any content the manifest had).
- rename(2) is atomic, and a synced inode survives.
- A commit needs whole files: README.md or CHANGELOG.md without its markers does
  not pass a review. Of the make targets only `ci` gates a merge; `compat-check`
  runs in `release-check` alone.
- A kustomize release ships one kyaml for good (`ships` is constant), and the
  golden corpus sees every style difference.
- The kustomize list of a row is a set: a release listed twice in one row, which
  `validate` refuses, cannot be written down. `apply` does not check the floor, and
  the models know only releases at or above it.
- The collections in a flow collection are in flow style, and a comment at the end of
  a line belongs to a scalar or a flow collection: what the parser makes (`Init` of
  `Restyle`).
- A write to standard output happens as a whole or not at all.
- `Links` says where a link leads in the end, which is no link: a chain of links counts
  as its last one, and links that go in a circle do not occur. Paths are read from
  the root of the file system, where ".." stays; a relative path stands for the absolute
  one, so the directory the run starts in is one that was reached without a link.
- Modes are permission bits: the code keeps `info.Mode().Perm()` (run.go:286), and
  setuid, setgid and the sticky bit are no part of the model.
- A style change is one the two zero-diff fixtures (format_test.go:97-114) have no part
  in. `make golden` does not regenerate these, so a style that touches them fails the
  test of apply.go:94 whatever anyone does; the corpus of the model is one value, which
  `make golden` repairs as a whole. `UpdateCorpus` succeeds more often than the code for
  the same reason.
- `render` sorts what it writes in the model, as `Save` does; the code renders the matrix
  as it was loaded (main.go:300-312). The two are equal, since every matrix that was
  saved is in order.
- A run that succeeded leaves the manifest formatted only as far as other runs go:
  `SuccessIsFormatted` says nothing once an editor has saved.

The constants' assumptions, which the proofs rest on and TLC evaluates in the runs:

- The tree of files is finite, a path is a directory, a file or a link and not two of
  them (`TreeAssumption`); each entry is in a directory, with names that are neither "."
  nor ".." (`PlacesAssumption`), which are two (`NamesAssumption`).
- Nodes are numbered up to a last one, the document is node 1 (`NodesAssumption`). That
  a document has one root, keys come with values and nodes in the order of the document
  is part of `Init` (`InDocument`).
- Kustomize releases are numbered in their order (`KustomizesAssumption`).
- What marks an unreadable file and no hunk (`Torn`, `None`) is no matrix, no changelog
  and no hunk.
- Bounds are natural numbers; `Context` and `MaxPasses` are not 0.

## Not modelled, and why

- The text around the tree: `hasLeadingSeparator`, the order of documents, and the
  cheap rejection of `IsSOPS`. Formatter lets a pass do anything to a stream.
- Flags that end the program at once (-h, --version, malformed ones) and what goes to
  standard error.
- What only prints: `decide`, `version`, and the notes of `status`; its forecast is
  modelled. The forecast does not know of the promotion in apply.go:112, which depends
  on the corpus, so there, and only there, `apply` records something else;
  matrix.go:259 says that it cannot. `ForecastComesTrue` leaves that case out.
- `check --complete` and the floor: no command waits for either. ci.yaml runs the
  check on pull requests too, so while two releases are unrecorded the watcher's
  pull request for the first fails it; whether that keeps it from being merged is a
  setting outside the repository.
- How a line, a header or a message is spelled; the version string.
- Scripts, network access, signing and containers: external tools; the models
  take their answers as choices.

## Plan

Done: Format, atomic replacement, matrix, compat command, release, diff, command
line, restyling and sops, in that order, and theorems about all of them: every
safety property, action property and refinement of the passing runs is a theorem.

Next, in this order:

1. Composition: that `Cli` takes of `Formatter`, `AtomicWrite` and `Hunks` no more than
   their theorems say, as a refinement between the modules.
2. The safety part of what liveness rests on: a release job that waits or runs can
   always take a step that does not fail, short of a refusal.
