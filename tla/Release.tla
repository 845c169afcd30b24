------------------------------- MODULE Release -------------------------------
(***************************************************************************)
(* The repository as a whole: commits to main, the release workflow, and   *)
(* the kustomize watcher, around the commands of Compat.                   *)
(*                                                                         *)
(* Release jobs share a concurrency group: one runs, one waits, and a job  *)
(* that joins the queue takes the place of the one that was waiting.       *)
(***************************************************************************)
EXTENDS Compat

CONSTANT None          \* no job

VARIABLES tags,        \* the versions with a tag
          binaries,    \* what is published
          waiting,     \* the job that waits: its commit, and if a tag started it
          job, step, version

workflow == <<waiting, job, step, version>>
vars == <<compatVars, tags, binaries, workflow>>

Binary(v, kyaml) == [kustofmt |-> v, kyaml |-> kyaml]
Job(t, tagged) == [commit |-> t, tagged |-> tagged]

ReleaseInit ==
  /\ Init
  /\ tags = {FirstVersion}
  /\ binaries = {Binary(FirstVersion, FirstKyaml)}
  /\ waiting = None /\ job = None /\ step = "idle" /\ version = NoVersion

-----------------------------------------------------------------------------
(***************************************************************************)
(* What the checkout holds reaches main; a commit that changes nothing     *)
(* here counts.  A torn file is assumed not to pass a review; of the       *)
(* targets, only make ci gates a merge (compat check runs in release-check *)
(* alone).                                                                 *)
(***************************************************************************)
Commit ==
  /\ pc = "idle" /\ Whole(tree)
  /\ CI(tree)
  /\ head' = tree
  /\ waiting' = Job(tree, FALSE)
  /\ outcome' = "none"
  /\ UNCHANGED <<upstream, tree, pc, m, d, allow, todo, tags, binaries, job, step, version>>

\* "push a v* tag: a deliberate release", of the version that main is at.
PushTag ==
  /\ head.matrix.version \notin tags
  /\ tags' = tags \cup {head.matrix.version}
  /\ waiting' = Job(head, TRUE)
  /\ UNCHANGED <<compatVars, binaries, job, step, version>>

StartJob ==
  /\ step = "idle" /\ waiting # None
  /\ job' = waiting
  /\ waiting' = None
  /\ step' = "decide"
  /\ UNCHANGED <<compatVars, tags, binaries, version>>

EndJob ==
  /\ step' = "idle" /\ job' = None /\ version' = NoVersion

NothingToRelease ==
  /\ step = "decide" /\ ~job.tagged
  /\ job.commit.matrix.version \in tags
  /\ EndJob
  /\ UNCHANGED <<compatVars, tags, binaries, waiting>>

DecideToRelease ==
  /\ step = "decide"
  /\ Valid(job.commit.matrix)
  /\ job.tagged \/ job.commit.matrix.version \notin tags
  /\ version' = job.commit.matrix.version
  /\ step' = "check"
  /\ UNCHANGED <<compatVars, tags, binaries, waiting, job>>

(***************************************************************************)
(* compat check: go.mod agrees with the newest row, the tables are current *)
(* and every recorded release ships the kyaml of its row.                  *)
(***************************************************************************)
RowsAreTrue(matrix) == \A r \in Rows(matrix) : \A k \in r.kustomize : ships[k] = r.kyaml

\* A defect: go.mod is not compared.
CompatCheckNotGoMod(t) ==
  /\ Valid(t.matrix)
  /\ t.readme = t.matrix
  /\ t.changelog # Torn /\ t.changelog.table = t.matrix
  /\ RowsAreTrue(t.matrix)

CompatCheck(t) ==
  /\ Valid(t.matrix)
  /\ t.gomod = Current(t.matrix).kyaml
  /\ t.readme = t.matrix
  /\ t.changelog # Torn /\ t.changelog.table = t.matrix
  /\ RowsAreTrue(t.matrix)

\* A defect: every job takes its tag for pushed.
ReleaseCheckSkipsTag ==
  /\ step = "check"
  /\ CI(job.commit) /\ CompatCheck(job.commit)
  /\ step' = "notes"
  /\ UNCHANGED <<compatVars, tags, binaries, waiting, job, version>>

ReleaseCheck ==
  /\ step = "check"
  /\ CI(job.commit) /\ CompatCheck(job.commit)
  /\ step' = IF job.tagged THEN "notes" ELSE "tag"
  /\ UNCHANGED <<compatVars, tags, binaries, waiting, job, version>>

Tag ==
  /\ step = "tag" /\ version \notin tags
  /\ tags' = tags \cup {version}
  /\ step' = "notes"
  /\ UNCHANGED <<compatVars, binaries, waiting, job, version>>

ExtractNotes ==
  /\ step = "notes"
  /\ version \in job.commit.changelog.sections
  /\ step' = "publish"
  /\ UNCHANGED <<compatVars, tags, binaries, waiting, job, version>>

PublishRelease ==
  /\ step = "publish"
  /\ binaries' = binaries \cup {Binary(version, job.commit.gomod)}
  /\ EndJob
  /\ UNCHANGED <<compatVars, tags, waiting>>

\* The steps that fail because of what they find.
RefuseJob ==
  /\ \/ step = "decide" /\ ~Valid(job.commit.matrix)
     \/ step = "check" /\ ~(CI(job.commit) /\ CompatCheck(job.commit))
     \/ step = "tag" /\ version \in tags
     \/ step = "notes" /\ version \notin job.commit.changelog.sections
  /\ EndJob
  /\ UNCHANGED <<compatVars, tags, binaries, waiting>>

\* Any step may fail for reasons of its own: the network, the runner, a tool.
FailJob ==
  /\ step # "idle"
  /\ EndJob
  /\ UNCHANGED <<compatVars, tags, binaries, waiting>>

RunJob ==
  \/ StartJob \/ NothingToRelease \/ DecideToRelease \/ ReleaseCheck \/ Tag
  \/ ExtractNotes \/ PublishRelease \/ RefuseJob

-----------------------------------------------------------------------------
Beside(action) == action /\ UNCHANGED <<tags, binaries, workflow>>

Command == EditGoMod \/ TestCorpus \/ UpdateCorpus \/ Write

\* Anyone may do anything that is a command, a documented step or a merge.
Next ==
  \/ \E k \in Kustomizes : Beside(Publish(k))
  \/ \E k \in Kustomizes, accept \in BOOLEAN : Beside(Apply(k, accept))
  \/ Beside(Command)
  \/ Beside(Render)
  \/ Beside(Checkout)
  \/ Beside(MakeGolden)
  \/ Beside(CutByHand)
  \/ Commit
  \/ PushTag
  \/ RunJob
  \/ FailJob

Spec == ReleaseInit /\ [][Next]_vars

(***************************************************************************)
(* The watcher's way: a command starts from a fresh checkout of main, only *)
(* what a command finished is merged, and merging is what releases.        *)
(***************************************************************************)
Fresh == tree = head /\ outcome = "none"
Oldest(k) == \A other \in published : HasKustomize(tree.matrix, other) \/ k <= other

\* status: what is published and not recorded; it goes through them from the oldest on.
Pending(matrix) == {k \in published : ~HasKustomize(matrix, k)}

\* A defect: every release is decided against the matrix as it is.
ForecastNotAccumulated(matrix) == [k \in Pending(matrix) |-> Decide(matrix, k, ships[k])]

\* A release that is pending is recorded, any other one is passed over.
Dealt(matrix, sofar, k) ==
  IF k \in Pending(matrix) THEN Record(sofar, Decide(sofar, k, ships[k])) ELSE sofar

\* The matrix that status has in memory when it has dealt with the releases below n.
After(matrix, n) ==
  LET after[i \in 0..n] == IF i = 0 THEN matrix ELSE Dealt(matrix, after[i - 1], i - 1)
  IN  after[n]

\* The decisions of status, on a matrix that accumulates.
Forecast(matrix) == [k \in Pending(matrix) |-> Decide(After(matrix, k), k, ships[k])]

WatcherNext ==
  \/ \E k \in Kustomizes : Beside(Publish(k))
  \/ \E k \in Kustomizes, accept \in BOOLEAN :
       Fresh /\ ~HasKustomize(tree.matrix, k) /\ Oldest(k) /\ Beside(Apply(k, accept))
  \/ Beside(Command)
  \/ Fresh /\ Beside(CutByHand)
  \/ tree # head /\ outcome = "none" /\ Beside(Render)
  \/ Beside(Checkout)
  \/ Fresh /\ Commit
  \/ outcome = "ok" /\ Commit
  \/ RunJob

\* Tags pushed by hand and jobs that fail are no part of the procedure, but happen.
WatchedNext == WatcherNext \/ PushTag \/ FailJob

WatcherSpec == ReleaseInit /\ [][WatchedNext]_vars

\* The workflow runs what waits and gets on with what it runs.
JobFairness == WF_vars(RunJob)

-----------------------------------------------------------------------------
Trees == [matrix : Matrices \cup {Torn}, gomod : Kyamls, golden : Styles,
          readme : Matrices \cup {Torn}, changelog : Changelogs \cup {Torn}]

Jobs == [commit : Trees, tagged : BOOLEAN]

TypeOK ==
  /\ ships \in [Kustomizes -> Kyamls] /\ style \in [Kyamls -> Styles]
  /\ published \subseteq Kustomizes
  /\ tree \in Trees /\ head \in Trees
  /\ pc \in {"idle", "go.mod", "corpus", "update", "write"}
  /\ m \in Matrices
  /\ d.kustomize \in Kustomizes /\ d.kyaml \in Kyamls /\ d.target \in Versions
  /\ allow \in BOOLEAN
  /\ todo \in Seq({"matrix", "readme", "table", "section"})
  /\ outcome \in {"none", "ok", "error"}
  /\ tags \subseteq Versions
  /\ binaries \subseteq [kustofmt : tags, kyaml : Kyamls]
  /\ waiting \in Jobs \cup {None} /\ job \in Jobs \cup {None}
  /\ step \in {"idle", "decide", "check", "tag", "notes", "publish"}
  /\ version \in Versions \cup {NoVersion}

(***************************************************************************)
(* Save never refuses the matrix a command built: what Decide and Record   *)
(* make of a valid matrix is valid, whatever came before.                  *)
(***************************************************************************)
SaveNeverRefuses ==
  pc = "write" /\ Head(todo) = "matrix" => Valid(Sorted(m))

(***************************************************************************)
(* "The output style is the public API": two binaries of one minor version *)
(* emit the same style, a style change "is a major or minor version bump,  *)
(* never a patch".                                                         *)
(***************************************************************************)
StyleIsApi ==
  \A b, c \in binaries :
    SameMinor(b.kustofmt, c.kustofmt) => style[b.kyaml] = style[c.kyaml]

(***************************************************************************)
(* A tree that release-check and the release workflow accept.              *)
(***************************************************************************)
Ready(t) ==
  /\ Whole(t)
  /\ CI(t) /\ CompatCheck(t)
  /\ t.matrix.version \in t.changelog.sections

(***************************************************************************)
(* A command that succeeds on a fresh checkout leaves one that can be      *)
(* released, so main always can: no step is forgotten on any path.         *)
(***************************************************************************)
MainIsReady == Ready(head) /\ (outcome = "ok" => Ready(tree))

(***************************************************************************)
(* "There is nothing to do if that version is already out": a release job  *)
(* stops early only if its version is published.                           *)
(***************************************************************************)
NothingToDoMeansOut ==
  step = "decide" /\ ~job.tagged /\ job.commit.matrix # Torn
  /\ job.commit.matrix.version \in tags
    => \E b \in binaries : b.kustofmt = job.commit.matrix.version

(***************************************************************************)
(* "A forecast cannot drift from what applying would actually do": when    *)
(* the oldest pending release is recorded, apply saves what status says    *)
(* of it, and what status says of the others then is what it said before;  *)
(* unless a style change was accepted, which status cannot know.           *)
(***************************************************************************)
Promoted == d.action = "rebuild" /\ d.target = NextMinor(tree.matrix.version)

ForecastComesTrue ==
  /\ pc = "write" /\ Head(todo) = "matrix" /\ ~Promoted
  /\ d.kustomize \in Pending(tree.matrix)
  /\ \A k \in Pending(tree.matrix) : d.kustomize <= k
  => LET now == Forecast(tree.matrix)
     IN  /\ now[d.kustomize] = d
         /\ Forecast(Sorted(m)) = [k \in DOMAIN now \ {d.kustomize} |-> now[k]]

Out(v) == \E b \in binaries : b.kustofmt = v

(***************************************************************************)
(* Main does not stay at a version that is not published.                  *)
(***************************************************************************)
MainIsReleased == []<>(Out(head.matrix.version))

(***************************************************************************)
(* "Releases are queued, never cancelled": every version that main comes   *)
(* to is published.                                                        *)
(***************************************************************************)
EveryVersionReleased ==
  \A v \in {1, 2} \X {0, 1, 2} : head.matrix.version = v ~> Out(v)

-----------------------------------------------------------------------------
PinsOf(matrix) ==
  UNION {{[kustomize |-> k, kustofmt |-> r.kustofmt] : k \in r.kustomize} : r \in Rows(matrix)}

PinTable == INSTANCE Pins WITH pins <- PinsOf(head.matrix)

(***************************************************************************)
(* Whatever fails and whoever edits what, a kustomize release recorded on  *)
(* main keeps its kustofmt, and that kustofmt links the release's kyaml.   *)
(***************************************************************************)
ImplementsPins == PinTable!PinsSpec
=============================================================================
