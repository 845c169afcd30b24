------------------------------- MODULE Compat -------------------------------
(***************************************************************************)
(* cmd/compat on a checkout of the repository: apply, step by step, any of *)
(* which may fail or be interrupted, render, and what a maintainer does to *)
(* the same files in between.  tree is the checkout, head is main.         *)
(*                                                                         *)
(* A generated table is represented by the matrix it was made from.        *)
(***************************************************************************)
EXTENDS Matrix

CONSTANTS Styles,              \* what a kyaml's emitter can look like
          FirstKustomize, FirstKyaml,
          Torn,                \* a file whose writing was cut short
          HandCut              \* bound: the versions a maintainer cuts a patch after

ASSUME FirstAssumption == FirstKustomize \in Kustomizes /\ FirstKyaml \in Kyamls
ASSUME HandCutAssumption == HandCut \subseteq Versions

VARIABLES ships, style,        \* upstream: kyaml of a release, style of a kyaml
          published,           \* the kustomize releases that are out
          tree, head,
          pc, m, d, allow,     \* a command in progress, and its locals
          todo,                \* the files it has yet to write
          outcome              \* of the last command on this checkout

\* The table of CHANGELOG.md and the versions it has a section for.
Changelogs == [table : Matrices, sections : SUBSET Versions]

ASSUME TornAssumption == Torn \notin Matrices \cup Changelogs

upstream == <<ships, style, published>>
command == <<pc, m, d, allow, todo, outcome>>
compatVars == <<upstream, tree, head, command>>

Whole(t) == Torn \notin {t.matrix, t.readme, t.changelog}

FirstVersion == <<1, 0>>
FirstMatrix == [version |-> FirstVersion,
                releases |-> <<Row(FirstVersion, FirstKyaml, {FirstKustomize})>>]

Init ==
  /\ ships \in [Kustomizes -> Kyamls] /\ ships[FirstKustomize] = FirstKyaml
  /\ style \in [Kyamls -> Styles]
  /\ published \in SUBSET Kustomizes /\ FirstKustomize \in published
  /\ tree = [matrix |-> FirstMatrix, gomod |-> FirstKyaml, golden |-> style[FirstKyaml],
             readme |-> FirstMatrix,
             changelog |-> [table |-> FirstMatrix, sections |-> {FirstVersion}]]
  /\ head = tree
  /\ pc = "idle" /\ m = FirstMatrix /\ allow = FALSE /\ todo = <<>>
  /\ d = Decision(FirstKustomize, FirstKyaml, "no-op", FirstVersion)
  /\ outcome = "none"

Publish(k) ==
  /\ k \in Kustomizes \ published
  /\ published' = published \cup {k}
  /\ UNCHANGED <<ships, style, tree, head, command>>

-----------------------------------------------------------------------------
(***************************************************************************)
(* A command ends, and its locals are gone.  An error and an interruption  *)
(* look the same: what was written so far stays.                           *)
(***************************************************************************)
End(t, result) ==
  /\ pc' = "idle" /\ outcome' = result /\ tree' = t
  /\ todo' = <<>> /\ m' = FirstMatrix /\ allow' = FALSE
  /\ d' = Decision(FirstKustomize, FirstKyaml, "no-op", FirstVersion)

Fail(t) == End(t, "error")
Finish(t) == End(t, "ok")

\* A defect: a matrix-only change leaves CHANGELOG.md alone.
MatrixOnlyFilesNoChangelog == <<"matrix", "readme">>
MatrixOnlyFiles == <<"matrix", "readme", "table">>

\* A defect: a rebuild writes no section of its own.
RebuildFilesNoSection == <<"matrix", "readme", "table">>
RebuildFiles == <<"matrix", "readme", "table", "section">>

\* From here on the matrix in memory is the one to be written.
Prepare(matrix, decision, files) ==
  /\ m' = Record(matrix, decision)
  /\ d' = decision
  /\ todo' = files
  /\ pc' = "write"

(***************************************************************************)
(* cmdApply up to the decision: load the matrix, resolve the kyaml.        *)
(***************************************************************************)
Apply(k, accept) ==
  /\ pc = "idle" /\ k \in published
  /\ tree.matrix # Torn /\ Valid(tree.matrix)
  /\ LET decision == Decide(tree.matrix, k, ships[k]) IN
     \/ decision.action = "no-op" /\ Finish(tree)
     \/ /\ decision.action = "matrix-only"
        /\ Prepare(tree.matrix, decision, MatrixOnlyFiles)
        /\ allow' = accept /\ outcome' = "none" /\ tree' = tree
     \/ /\ decision.action = "rebuild"
        /\ m' = tree.matrix /\ d' = decision
        /\ pc' = "go.mod" /\ allow' = accept /\ outcome' = "none"
        /\ UNCHANGED <<tree, todo>>
  /\ UNCHANGED <<upstream, head>>

\* go mod edit, go mod tidy; the second may fail after the first.
EditGoMod ==
  /\ pc = "go.mod"
  /\ LET edited == [tree EXCEPT !.gomod = d.kyaml] IN
     \/ /\ tree' = edited
        /\ pc' = "corpus"
        /\ UNCHANGED <<m, d, allow, todo, outcome>>
     \/ \E t \in {tree, edited} : Fail(t)
  /\ UNCHANGED <<upstream, head>>

\* A defect: an accepted style change does not promote the release to a minor one.
TestCorpusNoPromotion ==
  /\ pc = "corpus"
  /\ \/ /\ style[tree.gomod] = tree.golden
        /\ Prepare(m, d, RebuildFiles)
        /\ UNCHANGED <<tree, allow, outcome>>
     \/ ~allow /\ Fail(tree)
     \/ /\ allow
        /\ pc' = "update"
        /\ UNCHANGED <<tree, m, d, allow, todo, outcome>>
  /\ UNCHANGED <<upstream, head>>

(***************************************************************************)
(* go test ./format/ -run "TestGolden|TestZeroDiff" fails if the style     *)
(* moved, and for any other reason a test run fails.                       *)
(***************************************************************************)
TestCorpus ==
  /\ pc = "corpus"
  /\ \/ /\ style[tree.gomod] = tree.golden
        /\ Prepare(m, d, RebuildFiles)
        /\ UNCHANGED <<tree, allow, outcome>>
     \/ ~allow /\ Fail(tree)
     \/ /\ allow
        /\ d' = [d EXCEPT !.target = NextMinor(m.version)]
        /\ pc' = "update"
        /\ UNCHANGED <<tree, m, allow, todo, outcome>>
  /\ UNCHANGED <<upstream, head>>

\* go test ./format/ -update, which runs the other tests of the package too.
UpdateCorpus ==
  /\ pc = "update"
  /\ LET updated == [tree EXCEPT !.golden = style[tree.gomod]] IN
     \/ /\ tree' = updated
        /\ Prepare(m, d, RebuildFiles)
        /\ UNCHANGED <<allow, outcome>>
     \/ \E t \in {tree, updated} : Fail(t)
  /\ UNCHANGED <<upstream, head>>

(***************************************************************************)
(* The file writes.  Save refuses a matrix that is not valid; UpdateDoc    *)
(* and addChangelogEntry refuse a file that has lost its markers.          *)
(***************************************************************************)
Writable(file) ==
  CASE file = "matrix" -> Valid(Sorted(m))
    [] file = "readme" -> tree.readme # Torn
    [] OTHER           -> tree.changelog # Torn

Written(file) ==
  CASE file = "matrix"  -> [tree EXCEPT !.matrix = Sorted(m)]
    [] file = "readme"  -> [tree EXCEPT !.readme = Sorted(m)]
    [] file = "table"   -> [tree EXCEPT !.changelog.table = Sorted(m)]
    [] file = "section" -> [tree EXCEPT !.changelog.sections = @ \cup {d.target}]

\* UpdateDoc leaves a file alone that would not change.
Rewrites(file) == file \in {"readme", "table"} => Written(file) # tree

\* os.WriteFile truncates before it writes.
Truncated(file) ==
  CASE file = "matrix" -> [tree EXCEPT !.matrix = Torn]
    [] file = "readme" -> [tree EXCEPT !.readme = Torn]
    [] OTHER           -> [tree EXCEPT !.changelog = Torn]

Write ==
  /\ pc = "write"
  /\ LET file == Head(todo) IN
     \/ /\ Writable(file) /\ Len(todo) > 1
        /\ tree' = Written(file)
        /\ todo' = Tail(todo)
        /\ UNCHANGED <<pc, m, d, allow, outcome>>
     \/ Writable(file) /\ Len(todo) = 1 /\ Finish(Written(file))
     \/ Writable(file) /\ Rewrites(file) /\ Fail(Truncated(file))
     \/ Fail(tree)
  /\ UNCHANGED <<upstream, head>>

\* cmdRender: the tables first, then the matrix itself.
Render ==
  /\ pc = "idle" /\ tree.matrix # Torn /\ Valid(tree.matrix)
  /\ m' = tree.matrix
  /\ todo' = <<"readme", "table", "matrix">>
  /\ pc' = "write" /\ outcome' = "none"
  /\ UNCHANGED <<upstream, tree, head, d, allow>>

-----------------------------------------------------------------------------
(***************************************************************************)
(* What people and workflows do with the checkout between commands.        *)
(***************************************************************************)
Checkout ==
  /\ pc = "idle" /\ <<tree, outcome>> # <<head, "none">>
  /\ tree' = head /\ outcome' = "none"
  /\ UNCHANGED <<upstream, head, pc, m, d, allow, todo>>

\* make golden: "accept it, then read the diff again".
MakeGolden ==
  /\ pc = "idle" /\ tree.golden # style[tree.gomod]
  /\ tree' = [tree EXCEPT !.golden = style[tree.gomod]]
  /\ UNCHANGED <<upstream, head, command>>

\* A release kyaml did not cause: the version and its changelog section, by hand.
CutByHand ==
  /\ pc = "idle" /\ Whole(tree)
  /\ tree.matrix.version \in HandCut
  /\ LET v == NextPatch(tree.matrix.version) IN
     tree' = [tree EXCEPT !.matrix.version = v, !.changelog.sections = @ \cup {v}]
  /\ UNCHANGED <<upstream, head, command>>

\* make ci, as far as these files go: the corpus passes.
CI(t) == t.golden = style[t.gomod]
=============================================================================
