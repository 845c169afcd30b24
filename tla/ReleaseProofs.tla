---------------------------- MODULE ReleaseProofs ----------------------------
(***************************************************************************)
(* What the compatibility table promises is kept by anyone who uses the    *)
(* commands, and main stays releasable if they are used as the watcher     *)
(* does; for all kustomize releases, kyaml versions and styles.            *)
(***************************************************************************)
EXTENDS Release, MatrixProofs

\* A matrix that a command can have made of what main holds.
Ahead(matrix) == Good(matrix) /\ RowsAreTrue(matrix) /\ Grows(head.matrix, matrix)

Decisions == [kustomize : Kustomizes, kyaml : Kyamls,
              action : {"no-op", "matrix-only", "rebuild"}, target : Versions]

Rebuilding == pc \in {"go.mod", "corpus", "update"}

CheckoutTypes ==
  /\ ships \in [Kustomizes -> Kyamls] /\ style \in [Kyamls -> Styles]
  /\ published \subseteq Kustomizes
  /\ tree \in Trees /\ head \in Trees
  /\ pc \in {"idle", "go.mod", "corpus", "update", "write"}
  /\ m \in Matrices /\ d \in Decisions /\ allow \in BOOLEAN
  /\ todo \in Seq({"matrix", "readme", "table", "section"})
  /\ outcome \in {"none", "ok", "error"}

CheckoutInv ==
  /\ CheckoutTypes
  /\ Ahead(head.matrix)
  /\ tree.matrix # Torn => Ahead(tree.matrix)
  /\ pc # "idle" => Ahead(m)
  /\ pc = "write" => todo # <<>>
  /\ Rebuilding => d.action = "rebuild" /\ Fits(m, d) /\ ships[d.kustomize] = d.kyaml

\* The matrix in memory is what a decision makes of the one in the checkout, until it is
\* written, or render's, which has the release that an idle command is about.
Intended ==
  /\ HasKustomize(head.matrix, FirstKustomize)
  /\ pc = "idle" => d.kustomize = FirstKustomize
  /\ Rebuilding =>
       /\ tree.matrix = m
       /\ IF pc = "update" THEN d.target = NextMinor(m.version)
                           ELSE d = Decide(m, d.kustomize, ships[d.kustomize])
  /\ pc = "write" =>
       /\ tree.matrix # Torn
       /\ \/ m = tree.matrix /\ HasKustomize(m, d.kustomize)
          \/ /\ Fits(tree.matrix, d) /\ m = Record(tree.matrix, d)
             /\ d = Decide(tree.matrix, d.kustomize, ships[d.kustomize]) \/ Promoted

\* A commit of main, and the tag that may have brought it here.
Queued(j) ==
  /\ j \in Jobs
  /\ Good(j.commit.matrix) /\ Grows(j.commit.matrix, head.matrix)
  /\ j.tagged => j.commit.matrix.version \in tags

\* Main will not record another kyaml for a version that is out.
Linked(b) ==
  /\ ~Before(head.matrix.version, b.kustofmt)
  /\ \A r \in Rows(head.matrix) : r.kustofmt = b.kustofmt => r.kyaml = b.kyaml

WorkflowInv ==
  /\ tags \subseteq Versions
  /\ binaries \subseteq [kustofmt : tags, kyaml : Kyamls]
  /\ waiting \in Jobs \cup {None} /\ job \in Jobs \cup {None}
  /\ step \in {"idle", "decide", "check", "tag", "notes", "publish"}
  /\ version \in Versions \cup {NoVersion}
  /\ waiting # None => Queued(waiting)
  /\ step # "idle" => Queued(job)
  /\ step \notin {"idle", "decide"} => version = job.commit.matrix.version
  /\ step \in {"tag", "notes", "publish"} =>
       job.commit.gomod = Current(job.commit.matrix).kyaml
  /\ step \in {"notes", "publish"} => version \in tags
  /\ \A b \in binaries : Linked(b)

IInv == CheckoutInv /\ WorkflowInv

-----------------------------------------------------------------------------
\* A minor version has one style, and cutting by hand does not leave it.
Steady(matrix) ==
  /\ \A r, s \in Rows(matrix) :
       SameMinor(r.kustofmt, s.kustofmt) => style[r.kyaml] = style[s.kyaml]
  /\ SameMinor(matrix.version, Current(matrix).kustofmt)

\* A tree that lacks at most what render does.
Renderable(t) ==
  /\ Whole(t) /\ CI(t)
  /\ t.gomod = Current(t.matrix).kyaml
  /\ t.matrix.version \in t.changelog.sections
  /\ Steady(t.matrix)

ToWrite(file) == \E i \in DOMAIN todo : todo[i] = file

\* Between commands: only a tree that was cut by hand has something to render.
IdleReady ==
  /\ outcome # "none" => pc = "idle"
  /\ outcome = "ok" => Ready(tree) /\ Steady(tree.matrix)
  /\ pc = "idle" /\ outcome = "none" => Renderable(tree)

RebuildReady ==
  Rebuilding =>
    /\ Whole(tree) /\ Steady(m) /\ tree.matrix = m
    /\ tree.gomod = IF pc = "go.mod" THEN Current(m).kyaml ELSE d.kyaml
    /\ tree.golden = style[Current(m).kyaml]
    /\ d.target = IF pc = "update" THEN NextMinor(m.version) ELSE NextPatch(m.version)

\* What is no longer to be written is as the matrix in memory has it.
WriteReady ==
  pc = "write" =>
    /\ Whole(tree) /\ CI(tree) /\ Steady(m)
    /\ tree.gomod = Current(m).kyaml
    /\ ~ToWrite("matrix") => tree.matrix = m
    /\ ~ToWrite("readme") => tree.readme = m
    /\ ~ToWrite("table") => tree.changelog.table = m
    /\ IF ToWrite("section") THEN d.target = m.version
                             ELSE m.version \in tree.changelog.sections

WatchedCheckout ==
  /\ Ready(head) /\ Steady(head.matrix)
  /\ IdleReady /\ RebuildReady /\ WriteReady

\* What a binary was built from is a row of main, of the same minor version.
Traced(b) ==
  \E r \in Rows(head.matrix) : SameMinor(r.kustofmt, b.kustofmt) /\ r.kyaml = b.kyaml

WatchedWorkflow ==
  /\ waiting # None => Steady(waiting.commit.matrix)
  /\ step # "idle" => Steady(job.commit.matrix)
  /\ \A b \in binaries : Traced(b)

WatchedInv == WatchedCheckout /\ WatchedWorkflow

-----------------------------------------------------------------------------
\* A decision about what upstream ships keeps the rows true.
LEMMA AheadRecorded ==
  ASSUME NEW old, NEW decision, Good(head.matrix), Ahead(old), Fits(old, decision),
         ships[decision.kustomize] = decision.kyaml
  PROVE  Ahead(Record(old, decision))
<1> DEFINE new == Record(old, decision)
           row == Row(decision.target, decision.kyaml, {decision.kustomize})
<1> SUFFICES Good(new) /\ RowsAreTrue(new) /\ Grows(head.matrix, new)
  BY DEF Ahead
<1>1. Good(old) /\ Good(new) /\ Grows(old, new)
  BY RecordGrows DEF Ahead
<1>2. Grows(head.matrix, new)
  BY <1>1, GrowsFurther DEF Ahead
<1>3. \A r \in Rows(old) : r \in Releases
  BY <1>1, RowFacts
<1>4. CASE decision.action = "matrix-only"
  <2>1. Rows(new) = {Joined(r, decision) : r \in Rows(old)}
    BY <1>1, <1>4, RecordJoins
  <2>2. PICK s \in Rows(old) : s.kustofmt = decision.target /\ s.kyaml = decision.kyaml
    BY <1>4 DEF Fits
  <2>3. ASSUME NEW r \in Rows(old), NEW k \in Joined(r, decision).kustomize
        PROVE  ships[k] = Joined(r, decision).kyaml
    <3>1. Joined(r, decision).kyaml = r.kyaml
      BY <1>3 DEF Joined, Releases
    <3>2. CASE k \in r.kustomize
      BY <3>1, <3>2 DEF Ahead, RowsAreTrue
    <3>3. CASE k \notin r.kustomize
      <4>1. k = decision.kustomize /\ r.kustofmt = decision.target
        BY <1>3, <2>3, <3>3 DEF Joined, Releases
      <4>2. r = s
        BY <1>1, <2>2, <4>1, RowFacts
      <4> QED
        BY <2>2, <3>1, <4>1, <4>2
    <3> QED
      BY <3>2, <3>3
  <2> HIDE DEF new
  <2> QED
    BY <1>1, <1>2, <2>1, <2>3 DEF RowsAreTrue
<1>5. CASE decision.action = "rebuild"
  <2>1. Rows(new) = Rows(old) \cup {row}
    BY <1>1, <1>5, RecordAppends
  <2>2. row.kyaml = decision.kyaml /\ row.kustomize = {decision.kustomize}
    BY DEF Row
  <2> HIDE DEF new, row
  <2> QED
    BY <1>1, <1>2, <2>1, <2>2 DEF RowsAreTrue, Ahead
<1> QED
  BY <1>4, <1>5 DEF Fits

\* Main can be taken for what the next command starts from.
LEMMA AheadOfItself ==
  ASSUME NEW old, Good(old)
  PROVE  Grows(old, old)
BY RowFacts, VersionOrder DEF Grows

\* What a write changes.
LEMMA WrittenFields ==
  ASSUME NEW file \in {"matrix", "readme", "table", "section"},
         tree \in Trees, d \in Decisions, Good(m), Writable(file)
  PROVE  LET t == Written(file) IN
         /\ t \in Trees
         /\ t.gomod = tree.gomod /\ t.golden = tree.golden
         /\ t.matrix = IF file = "matrix" THEN m ELSE tree.matrix
         /\ t.readme = IF file = "readme" THEN m ELSE tree.readme
         /\ file \in {"matrix", "readme"} => t.changelog = tree.changelog
         /\ file \in {"table", "section"} =>
              /\ tree.changelog \in Changelogs /\ t.changelog \in Changelogs
              /\ t.changelog.table = IF file = "table" THEN m ELSE tree.changelog.table
              /\ t.changelog.sections = IF file = "section"
                                          THEN tree.changelog.sections \cup {d.target}
                                          ELSE tree.changelog.sections
<1>1. Sorted(m) = m /\ m \in Matrices
  BY SortKeeps DEF Good
<1>2. CASE file = "matrix"
  BY <1>1, <1>2 DEF Written, Trees
<1>3. CASE file = "readme"
  BY <1>1, <1>3 DEF Written, Trees
<1>4. CASE file \in {"table", "section"}
  <2>1. tree.changelog \in Changelogs
    BY <1>4 DEF Writable, Trees
  <2>2. CASE file = "table"
    <3> DEFINE log == [tree.changelog EXCEPT !.table = m]
    <3>1. /\ log \in Changelogs
          /\ log.table = m /\ log.sections = tree.changelog.sections
      BY <1>1, <2>1 DEF Changelogs
    <3>2. Written(file) = [tree EXCEPT !.changelog = log]
      BY <1>1, <2>2 DEF Written
    <3> HIDE DEF log
    <3> QED
      BY <2>1, <2>2, <3>1, <3>2 DEF Trees
  <2>3. CASE file = "section"
    <3> DEFINE log == [tree.changelog EXCEPT !.sections = @ \cup {d.target}]
    <3>1. /\ log \in Changelogs
          /\ log.table = tree.changelog.table
          /\ log.sections = tree.changelog.sections \cup {d.target}
      BY <1>1, <2>1 DEF Changelogs, Decisions
    <3>2. Written(file) = [tree EXCEPT !.changelog = log]
      BY <1>1, <2>3 DEF Written
    <3> HIDE DEF log
    <3> QED
      BY <2>1, <2>3, <3>1, <3>2 DEF Trees
  <2> QED
    BY <1>4, <2>2, <2>3
<1> QED
  BY <1>2, <1>3, <1>4

\* A write that is cut short.
LEMMA TruncatedFields ==
  ASSUME NEW file \in {"matrix", "readme", "table", "section"}, tree \in Trees
  PROVE  LET t == Truncated(file) IN
         t \in Trees /\ (t.matrix = tree.matrix \/ t.matrix = Torn)
BY DEF Truncated, Trees

-----------------------------------------------------------------------------
\* The first commit.
LEMMA FirstIsGood ==
  /\ Good(FirstMatrix)
  /\ Rows(FirstMatrix) = {Row(FirstVersion, FirstKyaml, {FirstKustomize})}
  /\ Current(FirstMatrix) = Row(FirstVersion, FirstKyaml, {FirstKustomize})
  /\ FirstMatrix.version = FirstVersion /\ FirstVersion \in Versions
<1> DEFINE row == Row(FirstVersion, FirstKyaml, {FirstKustomize})
<1>1. FirstVersion \in Versions /\ ~Before(FirstVersion, FirstVersion)
  BY DEF FirstVersion, Versions, Before
<1>2. row \in Releases /\ row.kustofmt = FirstVersion
  BY <1>1, FirstAssumption DEF Row, Releases
<1> HIDE DEF row
<1>3. /\ <<row>> \in Seq(Releases) /\ Len(<<row>>) = 1 /\ DOMAIN <<row>> = {1}
      /\ <<row>>[1] = row /\ <<row>> # <<>>
  BY <1>2
<1>4. FirstMatrix.version = FirstVersion /\ FirstMatrix.releases = <<row>>
  BY DEF FirstMatrix, row
<1>5. FirstMatrix \in Matrices
  BY <1>1, <1>3 DEF Matrices, Releases, FirstMatrix, row
<1>6. Rows(FirstMatrix) = {row} /\ Current(FirstMatrix) = row
  BY <1>3, <1>4 DEF Rows, Current
<1>7. Valid(FirstMatrix) /\ Ordered(FirstMatrix.releases)
  BY <1>1, <1>2, <1>3, <1>4, <1>6 DEF Valid, Ordered
<1> QED
  BY <1>1, <1>4, <1>5, <1>6, <1>7 DEF Good, row

LEMMA FirstDecision == Decision(FirstKustomize, FirstKyaml, "no-op", FirstVersion) \in Decisions
BY FirstIsGood, FirstAssumption DEF Decision, Decisions

\* How a command ends does not matter to what it left behind.
LEMMA EndsWell ==
  ASSUME CheckoutInv, NEW t \in Trees, NEW result \in {"ok", "error"}, End(t, result),
         t.matrix # Torn => Ahead(t.matrix), UNCHANGED <<upstream, head>>
  PROVE  CheckoutInv'
<1>0. FirstMatrix \in Matrices /\ <<>> \in Seq({"matrix", "readme", "table", "section"})
  BY FirstIsGood DEF Good
<1>1. CheckoutTypes'
  BY <1>0, FirstDecision DEF CheckoutInv, CheckoutTypes, End, upstream
<1>2. /\ Ahead(head.matrix)' /\ (tree.matrix # Torn => Ahead(tree.matrix))'
  BY DEF CheckoutInv, End, upstream, Ahead, RowsAreTrue
<1> QED
  BY <1>1, <1>2 DEF CheckoutInv, Rebuilding, End

\* Prepare takes a decision that fits.
LEMMA PreparesWell ==
  ASSUME CheckoutInv, NEW old, NEW decision \in Decisions, NEW files,
         files \in Seq({"matrix", "readme", "table", "section"}), files # <<>>,
         Ahead(old), Fits(old, decision), ships[decision.kustomize] = decision.kyaml,
         Prepare(old, decision, files),
         allow' \in BOOLEAN, outcome' \in {"none", "ok", "error"},
         tree' \in Trees, tree'.matrix = tree.matrix, UNCHANGED <<upstream, head>>
  PROVE  CheckoutInv'
<1>1. Ahead(Record(old, decision))
  BY AheadRecorded DEF CheckoutInv, Ahead
<1>2. Record(old, decision) \in Matrices
  BY <1>1 DEF Ahead, Good
<1>3. CheckoutTypes'
  BY <1>2 DEF CheckoutInv, CheckoutTypes, Prepare, upstream
<1>4. /\ Ahead(head.matrix)' /\ (tree.matrix # Torn => Ahead(tree.matrix))'
      /\ Ahead(m)'
  BY <1>1 DEF CheckoutInv, Prepare, upstream, Ahead, RowsAreTrue
<1> QED
  BY <1>3, <1>4 DEF CheckoutInv, Rebuilding, Prepare

LEMMA FileLists ==
  /\ MatrixOnlyFiles \in Seq({"matrix", "readme", "table", "section"}) /\ MatrixOnlyFiles # <<>>
  /\ RebuildFiles \in Seq({"matrix", "readme", "table", "section"}) /\ RebuildFiles # <<>>
BY DEF MatrixOnlyFiles, RebuildFiles

LEMMA ApplyStep ==
  ASSUME CheckoutInv, NEW k \in Kustomizes, NEW accept \in BOOLEAN, Apply(k, accept)
  PROVE  CheckoutInv'
<1> DEFINE decision == Decide(tree.matrix, k, ships[k])
<1>1. /\ tree \in Trees /\ Ahead(tree.matrix) /\ ships[k] \in Kyamls
      /\ Good(tree.matrix) /\ tree.matrix \in Matrices
      /\ UNCHANGED <<upstream, head>>
  BY DEF CheckoutInv, CheckoutTypes, Apply, Ahead, Good
<1>2. /\ decision.kustomize = k /\ decision.kyaml = ships[k]
      /\ decision.action # "no-op" => Fits(tree.matrix, decision)
      /\ decision.action \in {"no-op", "matrix-only", "rebuild"}
  <2>1. decision.kustomize = k /\ decision.kyaml = ships[k]
    BY DEF Decide, Decision
  <2>2. decision = Decide(tree.matrix, k, ships[k]) /\ Good(tree.matrix) /\ ships[k] \in Kyamls
    BY <1>1
  <2> HIDE DEF decision
  <2>3. /\ decision.action # "no-op" => Fits(tree.matrix, decision)
        /\ decision.action \in {"no-op", "matrix-only", "rebuild"}
    BY <2>2, DecideFits
  <2> QED
    BY <2>1, <2>3
<1>3. decision.action # "no-op" => decision \in Decisions
  BY <1>2 DEF Decide, Decision, Decisions, Fits
<1>4. \/ decision.action = "no-op" /\ Finish(tree)
      \/ /\ decision.action = "matrix-only"
         /\ Prepare(tree.matrix, decision, MatrixOnlyFiles)
         /\ allow' = accept /\ outcome' = "none" /\ tree' = tree
      \/ /\ decision.action = "rebuild"
         /\ m' = tree.matrix /\ d' = decision
         /\ pc' = "go.mod" /\ allow' = accept /\ outcome' = "none"
         /\ UNCHANGED <<tree, todo>>
  BY DEF Apply
<1> HIDE DEF decision
<1>5. CASE Finish(tree)
  BY <1>1, <1>5, EndsWell DEF Finish
<1>6. CASE /\ decision.action = "matrix-only"
           /\ Prepare(tree.matrix, decision, MatrixOnlyFiles)
           /\ allow' = accept /\ outcome' = "none" /\ tree' = tree
  BY <1>1, <1>2, <1>3, <1>6, PreparesWell, FileLists
<1>7. CASE /\ decision.action = "rebuild"
           /\ m' = tree.matrix /\ d' = decision
           /\ pc' = "go.mod" /\ allow' = accept /\ outcome' = "none"
           /\ UNCHANGED <<tree, todo>>
  <2>1. CheckoutTypes'
    BY <1>1, <1>3, <1>7 DEF CheckoutInv, CheckoutTypes, upstream
  <2>2. /\ Ahead(head.matrix)' /\ (tree.matrix # Torn => Ahead(tree.matrix))'
        /\ Ahead(m)'
    BY <1>1, <1>7 DEF CheckoutInv, upstream, Ahead, RowsAreTrue
  <2>3. Fits(m, d)' /\ (ships[d.kustomize] = d.kyaml)' /\ (d.action = "rebuild")'
    BY <1>1, <1>2, <1>7 DEF upstream
  <2> QED
    BY <1>7, <2>1, <2>2, <2>3 DEF CheckoutInv, Rebuilding
<1> QED
  BY <1>4, <1>5, <1>6, <1>7

LEMMA EditGoModStep ==
  ASSUME CheckoutInv, EditGoMod
  PROVE  CheckoutInv'
<1> DEFINE edited == [tree EXCEPT !.gomod = d.kyaml]
<1>1. /\ edited \in Trees /\ edited.matrix = tree.matrix /\ tree \in Trees
      /\ tree.matrix # Torn => Ahead(tree.matrix)
      /\ UNCHANGED <<upstream, head>>
  BY DEF CheckoutInv, CheckoutTypes, EditGoMod, Decisions, Trees
<1>2. \/ tree' = edited /\ pc' = "corpus" /\ UNCHANGED <<m, d, allow, todo, outcome>>
      \/ \E t \in {tree, edited} : Fail(t)
  BY DEF EditGoMod
<1> HIDE DEF edited
<1>3. CASE tree' = edited /\ pc' = "corpus" /\ UNCHANGED <<m, d, allow, todo, outcome>>
  <2>1. pc = "go.mod"
    BY DEF EditGoMod
  <2>2. CheckoutTypes'
    BY <1>1, <1>3 DEF CheckoutInv, CheckoutTypes, upstream
  <2>3. /\ Ahead(head.matrix)' /\ (tree.matrix # Torn => Ahead(tree.matrix))'
        /\ Ahead(m)'
    BY <1>1, <1>3, <2>1 DEF CheckoutInv, upstream, Ahead, RowsAreTrue
  <2> QED
    BY <1>1, <1>3, <2>1, <2>2, <2>3 DEF CheckoutInv, Rebuilding, upstream
<1>4. ASSUME NEW t \in {tree, edited}, Fail(t)  PROVE CheckoutInv'
  BY <1>1, <1>4, EndsWell DEF Fail
<1> QED
  BY <1>2, <1>3, <1>4

\* A promoted decision still fits.
LEMMA PromotedFits ==
  ASSUME CheckoutInv, Rebuilding
  PROVE  LET promoted == [d EXCEPT !.target = NextMinor(m.version)] IN
         /\ promoted \in Decisions /\ Fits(m, promoted) /\ promoted.action = "rebuild"
         /\ promoted.kustomize = d.kustomize /\ promoted.kyaml = d.kyaml
         /\ promoted.target = NextMinor(m.version)
<1> DEFINE promoted == [d EXCEPT !.target = NextMinor(m.version)]
<1>1. m.version \in Versions
  BY DEF CheckoutInv, CheckoutTypes, Matrices
<1>2. d \in Decisions /\ Fits(m, d) /\ d.action = "rebuild"
  BY DEF CheckoutInv, CheckoutTypes
<1>3. NextMinor(m.version) \in Versions /\ Before(m.version, NextMinor(m.version))
  BY <1>1, NextVersions
<1>4. /\ promoted \in Decisions /\ promoted.action = d.action
      /\ promoted.kustomize = d.kustomize /\ promoted.kyaml = d.kyaml
      /\ promoted.target = NextMinor(m.version)
  BY <1>2, <1>3 DEF Decisions
<1> HIDE DEF promoted
<1>5. Fits(m, promoted)
  BY <1>2, <1>3, <1>4 DEF Fits
<1> QED
  BY <1>2, <1>4, <1>5 DEF promoted

LEMMA TestCorpusStep ==
  ASSUME CheckoutInv, TestCorpus
  PROVE  CheckoutInv'
<1>1. /\ tree \in Trees /\ d \in Decisions /\ allow \in BOOLEAN
      /\ outcome \in {"none", "ok", "error"}
      /\ tree.matrix # Torn => Ahead(tree.matrix)
      /\ pc = "corpus" /\ Rebuilding /\ Ahead(m)
      /\ Fits(m, d) /\ ships[d.kustomize] = d.kyaml
      /\ UNCHANGED <<upstream, head>>
  BY DEF CheckoutInv, CheckoutTypes, TestCorpus, Rebuilding
<1>2. CASE Prepare(m, d, RebuildFiles) /\ UNCHANGED <<tree, allow, outcome>>
  BY <1>1, <1>2, PreparesWell, FileLists
<1>3. CASE Fail(tree)
  BY <1>1, <1>3, EndsWell DEF Fail
<1>4. CASE /\ d' = [d EXCEPT !.target = NextMinor(m.version)]
           /\ pc' = "update"
           /\ UNCHANGED <<tree, m, allow, todo, outcome>>
  <2>1. /\ d' \in Decisions /\ Fits(m, d') /\ d'.action = "rebuild"
        /\ ships[d'.kustomize] = d'.kyaml
    BY <1>1, <1>4, PromotedFits
  <2>2. CheckoutTypes'
    BY <1>1, <1>4, <2>1 DEF CheckoutInv, CheckoutTypes, upstream
  <2>3. /\ Ahead(head.matrix)' /\ (tree.matrix # Torn => Ahead(tree.matrix))'
        /\ Ahead(m)'
    BY <1>1, <1>4 DEF CheckoutInv, upstream, Ahead, RowsAreTrue
  <2> QED
    BY <1>1, <1>4, <2>1, <2>2, <2>3 DEF CheckoutInv, Rebuilding, upstream
<1> QED
  BY <1>2, <1>3, <1>4 DEF TestCorpus

LEMMA UpdateCorpusStep ==
  ASSUME CheckoutInv, UpdateCorpus
  PROVE  CheckoutInv'
<1> DEFINE updated == [tree EXCEPT !.golden = style[tree.gomod]]
<1>1. /\ tree \in Trees /\ d \in Decisions /\ allow \in BOOLEAN
      /\ outcome \in {"none", "ok", "error"}
      /\ updated \in Trees /\ updated.matrix = tree.matrix
      /\ tree.matrix # Torn => Ahead(tree.matrix)
      /\ Ahead(m) /\ Fits(m, d) /\ ships[d.kustomize] = d.kyaml
      /\ UNCHANGED <<upstream, head>>
  BY DEF CheckoutInv, CheckoutTypes, UpdateCorpus, Rebuilding, Trees
<1>2. \/ tree' = updated /\ Prepare(m, d, RebuildFiles) /\ UNCHANGED <<allow, outcome>>
      \/ \E t \in {tree, updated} : Fail(t)
  BY DEF UpdateCorpus
<1> HIDE DEF updated
<1>3. CASE tree' = updated /\ Prepare(m, d, RebuildFiles) /\ UNCHANGED <<allow, outcome>>
  BY <1>1, <1>3, PreparesWell, FileLists
<1>4. ASSUME NEW t \in {tree, updated}, Fail(t)  PROVE CheckoutInv'
  BY <1>1, <1>4, EndsWell DEF Fail
<1> QED
  BY <1>2, <1>3, <1>4

LEMMA WriteStep ==
  ASSUME CheckoutInv, Write
  PROVE  CheckoutInv'
<1> DEFINE file == Head(todo)
<1>1. /\ tree \in Trees /\ d \in Decisions /\ Ahead(m) /\ Good(m)
      /\ tree.matrix # Torn => Ahead(tree.matrix)
      /\ todo # <<>> /\ todo \in Seq({"matrix", "readme", "table", "section"})
      /\ UNCHANGED <<upstream, head>> /\ pc = "write"
  BY DEF CheckoutInv, CheckoutTypes, Write, Ahead
<1>2. file \in {"matrix", "readme", "table", "section"}
  BY <1>1
<1>3. Writable(file) => Written(file) \in Trees /\ (Written(file).matrix # Torn => Ahead(Written(file).matrix))
  BY <1>1, <1>2, WrittenFields
<1>4. Truncated(file) \in Trees /\ (Truncated(file).matrix # Torn => Ahead(Truncated(file).matrix))
  BY <1>1, <1>2, TruncatedFields
<1>5. \/ /\ Writable(file) /\ Len(todo) > 1
         /\ tree' = Written(file) /\ todo' = Tail(todo)
         /\ UNCHANGED <<pc, m, d, allow, outcome>>
      \/ Writable(file) /\ Finish(Written(file))
      \/ Fail(Truncated(file))
      \/ Fail(tree)
  BY DEF Write
<1> HIDE DEF file
<1>6. CASE /\ Writable(file) /\ Len(todo) > 1
           /\ tree' = Written(file) /\ todo' = Tail(todo)
           /\ UNCHANGED <<pc, m, d, allow, outcome>>
  <2>1. Tail(todo) \in Seq({"matrix", "readme", "table", "section"}) /\ Tail(todo) # <<>>
    BY <1>1, <1>6
  <2>2. CheckoutTypes'
    BY <1>1, <1>3, <1>6, <2>1 DEF CheckoutInv, CheckoutTypes, upstream
  <2>3. /\ Ahead(head.matrix)' /\ (tree.matrix # Torn => Ahead(tree.matrix))'
        /\ Ahead(m)'
    BY <1>1, <1>3, <1>6 DEF CheckoutInv, upstream, Ahead, RowsAreTrue
  <2> QED
    BY <1>1, <1>6, <2>1, <2>2, <2>3 DEF CheckoutInv, Rebuilding
<1>7. CASE Writable(file) /\ Finish(Written(file))
  BY <1>1, <1>3, <1>7, EndsWell DEF Finish
<1>8. CASE Fail(Truncated(file))
  BY <1>1, <1>4, <1>8, EndsWell DEF Fail
<1>9. CASE Fail(tree)
  BY <1>1, <1>9, EndsWell DEF Fail
<1> QED
  BY <1>5, <1>6, <1>7, <1>8, <1>9

LEMMA RenderStep ==
  ASSUME CheckoutInv, Render
  PROVE  CheckoutInv'
<1>1. <<"readme", "table", "matrix">> \in Seq({"matrix", "readme", "table", "section"})
  OBVIOUS
<1>2. Ahead(tree.matrix) /\ tree.matrix \in Matrices
  BY DEF CheckoutInv, Render, Ahead, Good
<1>3. CheckoutTypes'
  BY <1>1, <1>2 DEF CheckoutInv, CheckoutTypes, Render, upstream
<1>4. /\ Ahead(head.matrix)' /\ (tree.matrix # Torn => Ahead(tree.matrix))'
      /\ Ahead(m)'
  BY <1>2 DEF CheckoutInv, Render, upstream, Ahead, RowsAreTrue
<1> QED
  BY <1>3, <1>4 DEF CheckoutInv, Rebuilding, Render

LEMMA PublishStep ==
  ASSUME CheckoutInv, NEW k \in Kustomizes, Publish(k)
  PROVE  CheckoutInv'
<1>1. CheckoutTypes'
  BY DEF CheckoutInv, CheckoutTypes, Publish, command
<1>2. /\ Ahead(head.matrix)' /\ (tree.matrix # Torn => Ahead(tree.matrix))'
      /\ (pc # "idle" => Ahead(m))'
  BY DEF CheckoutInv, Publish, command, Ahead, RowsAreTrue
<1> QED
  BY <1>1, <1>2 DEF CheckoutInv, Rebuilding, Publish, command

\* What is done to the checkout between commands.
LEMMA IdleStep ==
  ASSUME CheckoutInv, pc = "idle", tree' \in Trees, head' \in Trees,
         Ahead(head.matrix)', (tree.matrix # Torn => Ahead(tree.matrix))',
         outcome' \in {"none", "ok", "error"}, UNCHANGED <<upstream, pc, m, d, allow, todo>>
  PROVE  CheckoutInv'
<1>1. CheckoutTypes'
  BY DEF CheckoutInv, CheckoutTypes, upstream
<1> QED
  BY <1>1 DEF CheckoutInv, Rebuilding

LEMMA CheckoutStep ==
  ASSUME CheckoutInv, Checkout
  PROVE  CheckoutInv'
<1>1. tree' \in Trees /\ head' \in Trees /\ tree' = head /\ head' = head /\ ships' = ships
  BY DEF CheckoutInv, CheckoutTypes, Checkout, upstream
<1>2. Ahead(head.matrix)' /\ Ahead(tree.matrix)'
  BY <1>1 DEF CheckoutInv, Ahead, RowsAreTrue
<1> QED
  BY <1>1, <1>2, IdleStep DEF Checkout

LEMMA MakeGoldenStep ==
  ASSUME CheckoutInv, MakeGolden
  PROVE  CheckoutInv'
<1>1. /\ tree' \in Trees /\ head' \in Trees /\ tree'.matrix = tree.matrix
      /\ head' = head /\ ships' = ships
  BY DEF CheckoutInv, CheckoutTypes, MakeGolden, upstream, Trees
<1>2. Ahead(head.matrix)' /\ (tree.matrix # Torn => Ahead(tree.matrix))'
  BY <1>1 DEF CheckoutInv, Ahead, RowsAreTrue
<1> QED
  BY <1>1, <1>2, IdleStep DEF MakeGolden, command, CheckoutInv, CheckoutTypes

\* What cutting a version by hand makes of the checkout.
LEMMA CutFields ==
  ASSUME CheckoutInv, CutByHand
  PROVE  LET v == NextPatch(tree.matrix.version)
             cut == [tree.matrix EXCEPT !.version = v]
         IN  /\ tree' \in Trees /\ Good(tree.matrix) /\ Good(cut) /\ Grows(tree.matrix, cut)
             /\ tree'.matrix = cut /\ tree'.readme = tree.readme
             /\ tree'.gomod = tree.gomod /\ tree'.golden = tree.golden
             /\ tree'.changelog \in Changelogs
             /\ tree'.changelog.sections = tree.changelog.sections \cup {v}
<1> DEFINE v == NextPatch(tree.matrix.version)
           cut == [tree.matrix EXCEPT !.version = v]
           log == [tree.changelog EXCEPT !.sections = @ \cup {v}]
<1>1. /\ Good(tree.matrix) /\ tree.matrix \in Matrices /\ tree.changelog \in Changelogs
      /\ tree \in Trees
  BY DEF CheckoutInv, CheckoutTypes, CutByHand, Whole, Ahead, Good, Trees
<1>2. Good(cut) /\ Grows(tree.matrix, cut) /\ cut \in Matrices
  BY <1>1, CutGrows DEF Good
<1>3. v \in Versions
  BY <1>1, RowFacts, NextVersions
<1>4. log \in Changelogs /\ log.sections = tree.changelog.sections \cup {v}
  BY <1>1, <1>3 DEF Changelogs
<1>5. tree' = [[tree EXCEPT !.matrix = cut] EXCEPT !.changelog = log]
  BY <1>1 DEF CutByHand, Trees
<1> HIDE DEF cut, log
<1>6. /\ tree' \in Trees /\ tree'.matrix = cut /\ tree'.readme = tree.readme
      /\ tree'.gomod = tree.gomod /\ tree'.golden = tree.golden /\ tree'.changelog = log
  BY <1>1, <1>2, <1>4, <1>5 DEF Trees
<1> QED
  BY <1>1, <1>2, <1>4, <1>6 DEF cut

LEMMA CutByHandStep ==
  ASSUME CheckoutInv, CutByHand
  PROVE  CheckoutInv'
<1> DEFINE cut == [tree.matrix EXCEPT !.version = NextPatch(tree.matrix.version)]
<1>1. /\ tree' \in Trees /\ tree'.matrix = cut /\ Good(tree.matrix) /\ Good(cut)
      /\ Grows(tree.matrix, cut)
  BY CutFields
<1>2. /\ head' \in Trees /\ head' = head /\ ships' = ships /\ Good(head.matrix)
      /\ Ahead(tree.matrix)
  BY DEF CheckoutInv, CheckoutTypes, CutByHand, upstream, Ahead, Whole
<1>3. Rows(cut) = Rows(tree.matrix)
  BY <1>1, CutGrows
<1>4. Grows(head.matrix, cut)
  BY <1>1, <1>2, GrowsFurther DEF Ahead
<1> HIDE DEF cut
<1>5. Ahead(head.matrix)' /\ Ahead(tree.matrix)'
  BY <1>1, <1>2, <1>3, <1>4 DEF CheckoutInv, Ahead, RowsAreTrue
<1> QED
  BY <1>1, <1>2, <1>5, IdleStep DEF CutByHand, command, CheckoutInv, CheckoutTypes

LEMMA CommitStep ==
  ASSUME CheckoutInv, Commit
  PROVE  CheckoutInv'
<1>1. /\ head' = tree /\ tree' = tree /\ tree \in Trees /\ ships' = ships
      /\ Ahead(tree.matrix)
  BY DEF CheckoutInv, CheckoutTypes, Commit, upstream, Whole
<1>2. Good(tree.matrix) /\ Grows(tree.matrix, tree.matrix)
  BY <1>1, AheadOfItself DEF Ahead
<1>3. Ahead(head.matrix)' /\ Ahead(tree.matrix)'
  BY <1>1, <1>2 DEF Ahead, RowsAreTrue
<1> QED
  BY <1>1, <1>3, IdleStep DEF Commit

-----------------------------------------------------------------------------
\* Commands leave main and the workflow alone, jobs the files.
LEMMA BesideWorkflow ==
  ASSUME WorkflowInv, UNCHANGED <<head, tags, binaries, workflow>>
  PROVE  WorkflowInv'
BY DEF WorkflowInv, Queued, Linked, workflow

LEMMA BesideCheckout ==
  ASSUME CheckoutInv, UNCHANGED compatVars
  PROVE  CheckoutInv'
<1> USE DEF compatVars, upstream, command
<1>1. CheckoutTypes'
  BY DEF CheckoutInv, CheckoutTypes
<1>2. /\ Ahead(head.matrix)' /\ (tree.matrix # Torn => Ahead(tree.matrix))'
      /\ (pc # "idle" => Ahead(m))'
  BY DEF CheckoutInv, Ahead, RowsAreTrue
<1> QED
  BY <1>1, <1>2 DEF CheckoutInv, Rebuilding

\* Main goes on: what was queued and what is out stays as it was.
LEMMA CommitWorkflow ==
  ASSUME CheckoutInv, WorkflowInv, Commit
  PROVE  WorkflowInv'
<1>1. /\ head' = tree /\ tree \in Trees /\ Ahead(tree.matrix) /\ Good(tree.matrix)
      /\ Grows(head.matrix, tree.matrix) /\ Good(head.matrix)
      /\ waiting' = Job(tree, FALSE)
      /\ UNCHANGED <<tags, binaries, job, step, version>>
  BY DEF CheckoutInv, CheckoutTypes, Commit, Whole, Ahead
<1>2. Queued(waiting)' /\ waiting' \in Jobs
  <2>1. waiting' \in Jobs /\ waiting'.commit = tree /\ waiting'.tagged = FALSE
    BY <1>1 DEF Job, Jobs
  <2>2. Grows(tree.matrix, tree.matrix)
    BY <1>1, AheadOfItself
  <2> QED
    BY <1>1, <2>1, <2>2 DEF Queued
<1>3. ASSUME step # "idle"  PROVE Queued(job)'
  <2>1. Queued(job)
    BY <1>3 DEF WorkflowInv
  <2>2. Grows(job.commit.matrix, tree.matrix)
    BY <1>1, <2>1, GrowsFurther DEF Queued
  <2> QED
    BY <1>1, <2>1, <2>2 DEF Queued
<1>4. ASSUME NEW b \in binaries  PROVE Linked(b)'
  <2>1. Linked(b) /\ b.kustofmt \in Versions
    BY <1>4 DEF WorkflowInv
  <2>2. /\ head.matrix.version \in Versions /\ tree.matrix.version \in Versions
        /\ \A s \in Rows(tree.matrix) : s.kustofmt \in Versions
    BY <1>1, RowFacts DEF Releases
  <2>3. ~Before(tree.matrix.version, b.kustofmt)
    BY <1>1, <2>1, <2>2, VersionOrder DEF Linked, Grows
  <2>4. ASSUME NEW s \in Rows(tree.matrix), s.kustofmt = b.kustofmt  PROVE s.kyaml = b.kyaml
    <3>1. ~Before(head.matrix.version, s.kustofmt)
      BY <2>1, <2>4 DEF Linked
    <3>2. PICK r \in Rows(head.matrix) : r.kustofmt = s.kustofmt /\ r.kyaml = s.kyaml
      BY <1>1, <3>1 DEF Grows
    <3> QED
      BY <2>1, <2>4, <3>2 DEF Linked
  <2> QED
    BY <1>1, <2>3, <2>4 DEF Linked
<1> QED
  BY <1>1, <1>2, <1>3, <1>4 DEF WorkflowInv

LEMMA PushTagWorkflow ==
  ASSUME CheckoutInv, WorkflowInv, PushTag
  PROVE  WorkflowInv'
<1>1. /\ head \in Trees /\ Good(head.matrix) /\ head.matrix.version \in Versions
      /\ tags' = tags \cup {head.matrix.version}
      /\ waiting' = Job(head, TRUE) /\ head' = head
      /\ UNCHANGED <<binaries, job, step, version>>
  BY RowFacts DEF CheckoutInv, CheckoutTypes, PushTag, Ahead, compatVars
<1>2. Queued(waiting)' /\ waiting' \in Jobs
  <2>1. waiting' \in Jobs /\ waiting'.commit = head
    BY <1>1 DEF Job, Jobs
  <2>2. Grows(head.matrix, head.matrix)
    BY <1>1, AheadOfItself
  <2> QED
    BY <1>1, <2>1, <2>2 DEF Queued
<1>3. step # "idle" => Queued(job)'
  BY <1>1 DEF WorkflowInv, Queued
<1> QED
  BY <1>1, <1>2, <1>3 DEF WorkflowInv, Linked

\* A job that ends, and may leave a binary behind.
LEMMA EndJobWorkflow ==
  ASSUME WorkflowInv, EndJob, UNCHANGED <<head, tags, waiting>>,
         binaries' \subseteq [kustofmt : tags, kyaml : Kyamls],
         \A b \in binaries' : Linked(b)
  PROVE  WorkflowInv'
BY DEF WorkflowInv, EndJob, Queued, Linked

\* The binary of a job is the one that main records for its version.
LEMMA PublishedIsLinked ==
  ASSUME CheckoutInv, WorkflowInv, step = "publish"
  PROVE  /\ Binary(version, job.commit.gomod) \in [kustofmt : tags, kyaml : Kyamls]
         /\ Linked(Binary(version, job.commit.gomod))
<1> DEFINE b == Binary(version, job.commit.gomod)
           old == job.commit.matrix
<1>1. /\ Queued(job) /\ version = old.version /\ version \in tags
      /\ job.commit.gomod = Current(old).kyaml
      /\ Good(old) /\ Grows(old, head.matrix) /\ Good(head.matrix)
  BY DEF WorkflowInv, Queued, CheckoutInv, Ahead
<1>2. /\ Current(old) \in Rows(old) /\ Current(old) \in Releases
      /\ old.version \in Versions /\ head.matrix.version \in Versions
      /\ \A r \in Rows(head.matrix) : r.kustofmt \in Versions
      /\ \A r \in Rows(old) : r.kustofmt \in Versions
  BY <1>1, RowFacts DEF Releases
<1>3. b.kustofmt = version /\ b.kyaml = Current(old).kyaml
  BY <1>1 DEF Binary
<1>4. b \in [kustofmt : tags, kyaml : Kyamls]
  BY <1>1, <1>2 DEF Binary, Releases
<1>5. ~Before(head.matrix.version, version)
  BY <1>1 DEF Grows
<1>6. ASSUME NEW s \in Rows(head.matrix), s.kustofmt = version
      PROVE  s.kyaml = Current(old).kyaml
  <2>1. ~Before(old.version, s.kustofmt)
    BY <1>1, <1>2, <1>6, VersionOrder
  <2>2. PICK r \in Rows(old) : r.kustofmt = s.kustofmt /\ r.kyaml = s.kyaml
    BY <1>1, <2>1 DEF Grows
  <2>3. ~Before(Current(old).kustofmt, r.kustofmt) /\ ~Before(old.version, Current(old).kustofmt)
    BY <1>1, <1>2, RowFacts
  <2>4. Current(old).kustofmt \in Versions
    BY <1>2 DEF Releases
  <2>5. r.kustofmt = Current(old).kustofmt
    BY <1>1, <1>2, <1>6, <2>2, <2>3, <2>4, VersionOrder
  <2>6. r = Current(old)
    BY <1>1, <1>2, <2>5, RowFacts
  <2> QED
    BY <2>2, <2>6
<1> HIDE DEF b, old
<1>7. Linked(b)
  BY <1>3, <1>5, <1>6 DEF Linked
<1> QED
  BY <1>4, <1>7 DEF b

LEMMA RunJobWorkflow ==
  ASSUME CheckoutInv, WorkflowInv, RunJob \/ FailJob
  PROVE  WorkflowInv'
<1>1. head' = head
  BY DEF RunJob, FailJob, StartJob, NothingToRelease, DecideToRelease, ReleaseCheck, Tag,
         ExtractNotes, PublishRelease, RefuseJob, compatVars
<1>2. CASE StartJob
  BY <1>1, <1>2 DEF StartJob, WorkflowInv, Queued, Linked
<1>3. CASE NothingToRelease \/ RefuseJob \/ FailJob
  BY <1>1, <1>3, EndJobWorkflow DEF NothingToRelease, RefuseJob, FailJob, WorkflowInv
<1>4. CASE DecideToRelease
  <2>1. Queued(job) /\ job.commit.matrix.version \in Versions
    BY <1>4, RowFacts DEF DecideToRelease, WorkflowInv, Queued
  <2> QED
    BY <1>1, <1>4, <2>1 DEF DecideToRelease, WorkflowInv, Queued, Linked
<1>5. CASE ReleaseCheck
  BY <1>1, <1>5 DEF ReleaseCheck, CompatCheck, WorkflowInv, Queued, Linked
<1>6. CASE Tag
  <2>1. version \in Versions
    BY <1>6, RowFacts DEF Tag, WorkflowInv, Queued
  <2> QED
    BY <1>1, <1>6, <2>1 DEF Tag, WorkflowInv, Queued, Linked
<1>7. CASE ExtractNotes
  BY <1>1, <1>7 DEF ExtractNotes, WorkflowInv, Queued, Linked
<1>8. CASE PublishRelease
  <2>1. /\ binaries' = binaries \cup {Binary(version, job.commit.gomod)} /\ step = "publish"
        /\ EndJob /\ UNCHANGED <<tags, waiting>>
    BY <1>8 DEF PublishRelease
  <2>2. /\ binaries' \subseteq [kustofmt : tags, kyaml : Kyamls]
        /\ \A b \in binaries' : Linked(b)
    BY <2>1, PublishedIsLinked DEF WorkflowInv
  <2> QED
    BY <1>1, <2>1, <2>2, EndJobWorkflow
<1> QED
  BY <1>2, <1>3, <1>4, <1>5, <1>6, <1>7, <1>8 DEF RunJob

-----------------------------------------------------------------------------
LEMMA InitIInv ==
  ASSUME ReleaseInit
  PROVE  IInv
<1> USE DEF ReleaseInit, Init
<1>1. /\ FirstMatrix \in Matrices /\ Good(FirstMatrix) /\ FirstVersion \in Versions
      /\ ships[FirstKustomize] = FirstKyaml /\ FirstKyaml \in Kyamls
      /\ Rows(FirstMatrix) = {Row(FirstVersion, FirstKyaml, {FirstKustomize})}
      /\ FirstMatrix.version = FirstVersion
  BY FirstIsGood, FirstAssumption DEF Good
<1>2. /\ tree.matrix = FirstMatrix /\ head = tree /\ head.matrix = FirstMatrix
      /\ tree \in Trees
  BY <1>1 DEF Trees, Changelogs
<1>3. RowsAreTrue(FirstMatrix)
  BY <1>1 DEF RowsAreTrue, Row
<1>4. Ahead(FirstMatrix)
  BY <1>1, <1>2, <1>3, AheadOfItself DEF Ahead
<1>5. CheckoutTypes
  <2>1. tree \in Trees /\ head \in Trees /\ m \in Matrices /\ d \in Decisions
    BY <1>1, <1>2, FirstDecision
  <2>2. todo \in Seq({"matrix", "readme", "table", "section"})
    OBVIOUS
  <2> QED
    BY <2>1, <2>2 DEF CheckoutTypes
<1>6. CheckoutInv
  BY <1>2, <1>4, <1>5 DEF CheckoutInv, Rebuilding
<1>7. Linked(Binary(FirstVersion, FirstKyaml))
  BY <1>1, <1>2, VersionOrder DEF Linked, Binary, Row
<1>8. WorkflowInv
  BY <1>1, <1>7 DEF WorkflowInv, Binary
<1> QED
  BY <1>6, <1>8 DEF IInv

LEMMA NextIInv ==
  ASSUME IInv, [Next]_vars
  PROVE  IInv'
<1> USE DEF IInv
<1>1. CASE UNCHANGED vars
  BY <1>1, BesideWorkflow, BesideCheckout DEF vars, compatVars
<1>2. ASSUME CheckoutInv', UNCHANGED <<head, tags, binaries, workflow>>  PROVE IInv'
  BY <1>2, BesideWorkflow
<1>3. ASSUME NEW k \in Kustomizes, Beside(Publish(k))  PROVE IInv'
  BY <1>2, <1>3, PublishStep DEF Beside, Publish
<1>4. ASSUME NEW k \in Kustomizes, NEW accept \in BOOLEAN, Beside(Apply(k, accept))  PROVE IInv'
  BY <1>2, <1>4, ApplyStep DEF Beside, Apply
<1>5. CASE Beside(Command)
  BY <1>2, <1>5, EditGoModStep, TestCorpusStep, UpdateCorpusStep, WriteStep
     DEF Beside, Command, EditGoMod, TestCorpus, UpdateCorpus, Write
<1>6. CASE Beside(Render)
  BY <1>2, <1>6, RenderStep DEF Beside, Render
<1>7. CASE Beside(Checkout)
  BY <1>2, <1>7, CheckoutStep DEF Beside, Checkout
<1>8. CASE Beside(MakeGolden)
  BY <1>2, <1>8, MakeGoldenStep DEF Beside, MakeGolden
<1>9. CASE Beside(CutByHand)
  BY <1>2, <1>9, CutByHandStep DEF Beside, CutByHand
<1>10. CASE Commit
  BY <1>10, CommitStep, CommitWorkflow
<1>11. CASE PushTag
  BY <1>11, PushTagWorkflow, BesideCheckout DEF PushTag
<1>12. CASE RunJob \/ FailJob
  <2>1. UNCHANGED compatVars
    BY <1>12 DEF RunJob, FailJob, StartJob, NothingToRelease, DecideToRelease, ReleaseCheck,
                 Tag, ExtractNotes, PublishRelease, RefuseJob
  <2> QED
    BY <1>12, <2>1, RunJobWorkflow, BesideCheckout
<1> QED
  BY <1>1, <1>3, <1>4, <1>5, <1>6, <1>7, <1>8, <1>9, <1>10, <1>11, <1>12 DEF Next

LEMMA SpecIInv == Spec => []IInv
BY InitIInv, NextIInv, PTL DEF Spec

-----------------------------------------------------------------------------
(***************************************************************************)
(* Whatever commands, people and jobs do, in any order and however often   *)
(* a step of theirs fails: the variables have their types.                 *)
(***************************************************************************)
THEOREM TypesKept == Spec => []TypeOK
<1>1. IInv => TypeOK
  BY DEF IInv, CheckoutInv, CheckoutTypes, WorkflowInv, TypeOK, Decisions
<1> QED
  BY <1>1, SpecIInv, PTL

(***************************************************************************)
(* Save never refuses the matrix that cmdApply or cmdRender built, however *)
(* many releases were recorded before and whatever failed in between.      *)
(***************************************************************************)
THEOREM ApplyNeverStuck == Spec => []SaveNeverRefuses
<1>1. IInv => SaveNeverRefuses
  <2> SUFFICES ASSUME IInv, pc = "write"  PROVE Valid(Sorted(m))
    BY DEF SaveNeverRefuses
  <2>1. Good(m)
    BY DEF IInv, CheckoutInv, Ahead
  <2>2. Sorted(m) = m
    BY <2>1, SortKeeps
  <2> QED
    BY <2>1, <2>2 DEF Good
<1> QED
  BY <1>1, SpecIInv, PTL

-----------------------------------------------------------------------------
\* What main records says of each kustomize release one thing, and the truth.
LEMMA PinsAreRight ==
  ASSUME IInv
  PROVE  /\ PinTable!Unambiguous(PinsOf(head.matrix))
         /\ PinTable!Right(PinsOf(head.matrix), binaries)
<1>1. /\ Good(head.matrix) /\ RowsAreTrue(head.matrix)
      /\ \A b \in binaries : Linked(b)
  BY DEF IInv, CheckoutInv, WorkflowInv, Ahead
<1>2. ASSUME NEW p \in PinsOf(head.matrix)
      PROVE  \E r \in Rows(head.matrix) :
               /\ p.kustomize \in r.kustomize
               /\ p = [kustomize |-> p.kustomize, kustofmt |-> r.kustofmt]
               /\ p.kustofmt = r.kustofmt /\ ships[p.kustomize] = r.kyaml
  BY <1>1 DEF PinsOf, RowsAreTrue
<1>3. ASSUME NEW p \in PinsOf(head.matrix), NEW q \in PinsOf(head.matrix)
      PROVE  /\ p.kustomize = q.kustomize => p = q
             /\ p.kustofmt = q.kustofmt <=> ships[p.kustomize] = ships[q.kustomize]
  <2>1. PICK r \in Rows(head.matrix) :
          /\ p.kustomize \in r.kustomize
          /\ p = [kustomize |-> p.kustomize, kustofmt |-> r.kustofmt]
          /\ p.kustofmt = r.kustofmt /\ ships[p.kustomize] = r.kyaml
    BY <1>2
  <2>2. PICK s \in Rows(head.matrix) :
          /\ q.kustomize \in s.kustomize
          /\ q = [kustomize |-> q.kustomize, kustofmt |-> s.kustofmt]
          /\ q.kustofmt = s.kustofmt /\ ships[q.kustomize] = s.kyaml
    BY <1>2
  <2>3. /\ r.kyaml = s.kyaml \/ r.kustofmt = s.kustofmt => r = s
        /\ p.kustomize = q.kustomize => r = s
    BY <1>1, <2>1, <2>2, RowFacts
  <2> QED
    BY <2>1, <2>2, <2>3
<1>4. ASSUME NEW p \in PinsOf(head.matrix), NEW b \in binaries, p.kustofmt = b.kustofmt
      PROVE  b.kyaml = ships[p.kustomize]
  BY <1>1, <1>2, <1>4 DEF Linked
<1> QED
  BY <1>3, <1>4 DEF PinTable!Unambiguous, PinTable!Right

\* A pin that main has, main keeps.
LEMMA PinsStay ==
  ASSUME Grows(head.matrix, head'.matrix)
  PROVE  PinsOf(head.matrix) \subseteq PinsOf(head.matrix)'
<1>1. ASSUME NEW p \in PinsOf(head.matrix)  PROVE p \in PinsOf(head'.matrix)
  <2>1. PICK r \in Rows(head.matrix) :
          \E k \in r.kustomize : p = [kustomize |-> k, kustofmt |-> r.kustofmt]
    BY DEF PinsOf
  <2>2. PICK s \in Rows(head'.matrix) :
          s.kustofmt = r.kustofmt /\ r.kustomize \subseteq s.kustomize
    BY DEF Grows
  <2> QED
    BY <2>1, <2>2 DEF PinsOf
<1>2. PinsOf(head.matrix)' = PinsOf(head'.matrix)
  BY DEF PinsOf
<1> QED
  BY <1>1, <1>2

\* What a step does to main, to what is out and to what upstream ships.
LEMMA MainAndBinaries ==
  ASSUME IInv, [Next]_vars
  PROVE  /\ ships' = ships /\ binaries \subseteq binaries'
         /\ head' = head \/ Grows(head.matrix, head'.matrix)
<1>1. CASE Commit
  <2>1. head' = tree /\ Grows(head.matrix, tree.matrix) /\ ships' = ships /\ binaries' = binaries
    BY <1>1 DEF Commit, IInv, CheckoutInv, Ahead, upstream, Whole
  <2> QED
    BY <2>1
<1>2. CASE RunJob \/ FailJob
  BY <1>2 DEF RunJob, FailJob, StartJob, NothingToRelease, DecideToRelease, ReleaseCheck,
       Tag, ExtractNotes, PublishRelease, RefuseJob, compatVars, upstream
<1>3. CASE PushTag
  BY <1>3 DEF PushTag, compatVars, upstream
<1>4. CASE UNCHANGED vars
  BY <1>4 DEF vars, compatVars, upstream
<1>5. CASE \/ \E k \in Kustomizes : Beside(Publish(k))
           \/ \E k \in Kustomizes, accept \in BOOLEAN : Beside(Apply(k, accept))
           \/ Beside(Command) \/ Beside(Render) \/ Beside(Checkout)
           \/ Beside(MakeGolden) \/ Beside(CutByHand)
  BY <1>5 DEF Beside, Command, Publish, Apply, EditGoMod, TestCorpus, UpdateCorpus, Write, Render,
              Checkout, MakeGolden, CutByHand, upstream
<1> QED
  BY <1>1, <1>2, <1>3, <1>4, <1>5 DEF Next

(***************************************************************************)
(* The compatibility table keeps its promise: a kustomize release that     *)
(* main records keeps its kustofmt version for good, and the binary of     *)
(* that version links the kyaml the release ships.                         *)
(***************************************************************************)
THEOREM PinsKept == Spec => ImplementsPins
<1>1. ReleaseInit => PinTable!PinsInit
  BY InitIInv, PinsAreRight
     DEF PinTable!PinsInit, IInv, CheckoutInv, CheckoutTypes
<1>2. ASSUME IInv, [Next]_vars, IInv'
      PROVE  [PinTable!Promise]_(PinTable!pinVars)
  <2>1. /\ ships' = ships /\ binaries \subseteq binaries'
        /\ head' = head \/ Grows(head.matrix, head'.matrix)
    BY <1>2, MainAndBinaries
  <2>2. PinsOf(head.matrix) \subseteq PinsOf(head.matrix)'
    BY <2>1, PinsStay
  <2>3. /\ PinTable!Unambiguous(PinsOf(head.matrix))'
        /\ PinTable!Right(PinsOf(head.matrix), binaries)'
    BY <1>2, PinsAreRight, PTL
  <2>4. /\ PinTable!Unambiguous(PinsOf(head.matrix)')
        /\ PinTable!Right(PinsOf(head.matrix)', binaries')
    BY <2>1, <2>3 DEF PinTable!Unambiguous, PinTable!Right
  <2> QED
    BY <2>1, <2>2, <2>4 DEF PinTable!Promise
<1> QED
  BY <1>1, <1>2, SpecIInv, PTL DEF ImplementsPins, PinTable!PinsSpec, Spec

-----------------------------------------------------------------------------
\* The watcher's way is one of the ways.
LEMMA WatchedIsNext == WatchedNext => Next
BY DEF WatchedNext, WatcherNext, Next

LEMMA WatchedSpecIInv == WatcherSpec => []IInv
<1>1. ASSUME IInv, [WatchedNext]_vars  PROVE IInv'
  BY <1>1, WatchedIsNext, NextIInv
<1> QED
  BY <1>1, InitIInv, PTL DEF WatcherSpec

\* A tree that can be released needs nothing rendered.
LEMMA ReadyIsRenderable ==
  ASSUME NEW t, Ready(t), Steady(t.matrix)
  PROVE  Renderable(t)
BY DEF Ready, CompatCheck, Renderable

\* A release that joins a row, and a rebuild that goes by the rules, keep the styles apart.
LEMMA SteadyJoined ==
  ASSUME NEW old, NEW dec, Good(old), Steady(old), Fits(old, dec), dec.action = "matrix-only"
  PROVE  Steady(Record(old, dec))
<1> DEFINE new == Record(old, dec)
<1>1. /\ Rows(new) = {Joined(r, dec) : r \in Rows(old)} /\ new.version = old.version
      /\ Current(new).kustofmt = Current(old).kustofmt
  BY RecordJoins
<1>2. \A r \in Rows(old) : Joined(r, dec).kustofmt = r.kustofmt /\ Joined(r, dec).kyaml = r.kyaml
  BY RowFacts DEF Joined, Releases
<1> HIDE DEF new
<1>3. Steady(new)
  BY <1>1, <1>2 DEF Steady
<1> QED
  BY <1>3 DEF new

LEMMA SteadyRebuilt ==
  ASSUME NEW old, NEW dec, Good(old), Steady(old), Fits(old, dec), dec.action = "rebuild",
         \/ /\ dec.target = NextPatch(old.version)
            /\ style[dec.kyaml] = style[Current(old).kyaml]
         \/ dec.target = NextMinor(old.version)
  PROVE  Steady(Record(old, dec))
<1> DEFINE new == Record(old, dec)
           row == Row(dec.target, dec.kyaml, {dec.kustomize})
<1>1. /\ Rows(new) = Rows(old) \cup {row} /\ new.version = dec.target /\ Current(new) = row
  BY RecordAppends
<1>2. row.kustofmt = dec.target /\ row.kyaml = dec.kyaml
  BY DEF Row
<1>3. /\ old.version \in Versions /\ Current(old) \in Rows(old)
      /\ \A r \in Rows(old) : r.kustofmt \in Versions /\ ~Before(old.version, r.kustofmt)
  BY RowFacts DEF Releases
<1>4. ASSUME NEW r \in Rows(old), SameMinor(r.kustofmt, dec.target)
      PROVE  style[r.kyaml] = style[dec.kyaml]
  <2>1. CASE dec.target = NextPatch(old.version) /\ style[dec.kyaml] = style[Current(old).kyaml]
    <3>1. SameMinor(r.kustofmt, Current(old).kustofmt)
      BY <1>4, <2>1 DEF Steady, SameMinor, NextPatch
    <3> QED
      BY <1>3, <2>1, <3>1 DEF Steady
  <2>2. CASE dec.target = NextMinor(old.version)
    <3>1. r.kustofmt[1] = old.version[1] + 1
      BY <1>4, <2>2 DEF SameMinor, NextMinor
    <3>2. old.version[1] \in Nat /\ ~(old.version[1] < r.kustofmt[1])
      BY <1>3 DEF Before, Versions
    <3> QED
      BY <3>1, <3>2
  <2> QED
    BY <2>1, <2>2
<1> HIDE DEF new, row
<1>5. Steady(new)
  BY <1>1, <1>2, <1>4 DEF Steady, SameMinor
<1> QED
  BY <1>5 DEF new

\* Main is as ready as it was while it does not change.
LEMMA MainStaysReady ==
  ASSUME WatchedCheckout, UNCHANGED <<ships, style, head>>
  PROVE  Ready(head)' /\ Steady(head.matrix)'
BY DEF WatchedCheckout, Ready, CompatCheck, RowsAreTrue, CI, Steady

\* What was readied stays so while only upstream publishes or jobs run.
LEMMA WatchedBeside ==
  ASSUME WatchedCheckout, UNCHANGED <<ships, style, tree, head, command>>
  PROVE  WatchedCheckout'
<1> USE DEF command
<1>1. Ready(head)' /\ Steady(head.matrix)'
  BY MainStaysReady
<1>2. IdleReady'
  BY DEF WatchedCheckout, IdleReady, Ready, CompatCheck, RowsAreTrue, Renderable, CI, Steady
<1>3. RebuildReady'
  BY DEF WatchedCheckout, RebuildReady, Rebuilding, Steady
<1>4. WriteReady'
  BY DEF WatchedCheckout, WriteReady, CI, Steady, ToWrite
<1> QED
  BY <1>1, <1>2, <1>3, <1>4 DEF WatchedCheckout

LEMMA WatchedEnd ==
  ASSUME WatchedCheckout, NEW t, NEW result \in {"ok", "error"}, End(t, result),
         result = "ok" => Ready(t) /\ Steady(t.matrix), UNCHANGED <<upstream, head>>
  PROVE  WatchedCheckout'
<1>1. Ready(head)' /\ Steady(head.matrix)'
  BY MainStaysReady DEF upstream
<1>2. IdleReady'
  BY DEF IdleReady, End, upstream, Ready, CompatCheck, RowsAreTrue, CI, Steady
<1>3. RebuildReady' /\ WriteReady'
  BY DEF RebuildReady, WriteReady, Rebuilding, End
<1> QED
  BY <1>1, <1>2, <1>3 DEF WatchedCheckout

\* A rebuild is prepared: the corpus passes with the kyaml that go.mod links.
LEMMA WatchedPrepare ==
  ASSUME CheckoutInv, WatchedCheckout, Rebuilding, Prepare(m, d, RebuildFiles),
         Whole(tree'), CI(tree'), tree'.gomod = d.kyaml,
         \/ d.target = NextPatch(m.version) /\ style[d.kyaml] = style[Current(m).kyaml]
         \/ d.target = NextMinor(m.version),
         outcome' = "none", UNCHANGED <<upstream, head>>
  PROVE  WatchedCheckout'
<1> DEFINE new == Record(m, d)
<1>1. /\ m' = new /\ d' = d /\ todo' = RebuildFiles /\ pc' = "write" /\ style' = style
  BY DEF Prepare, upstream
<1>2. Good(m) /\ Fits(m, d) /\ d.action = "rebuild" /\ Steady(m)
  BY DEF CheckoutInv, Rebuilding, Ahead, WatchedCheckout, RebuildReady
<1>3. Steady(new)
  BY <1>2, SteadyRebuilt
<1>4. new.version = d.target /\ Current(new) = Row(d.target, d.kyaml, {d.kustomize})
  BY <1>2, RecordAppends
<1>5. Current(new).kyaml = d.kyaml
  BY <1>4 DEF Row
<1>6. /\ ToWrite("matrix")' /\ ToWrite("readme")' /\ ToWrite("table")' /\ ToWrite("section")'
  <2>1. /\ DOMAIN RebuildFiles = 1..4 /\ RebuildFiles[1] = "matrix"
        /\ RebuildFiles[2] = "readme" /\ RebuildFiles[3] = "table"
        /\ RebuildFiles[4] = "section"
    BY DEF RebuildFiles
  <2> QED
    BY <1>1, <2>1 DEF ToWrite
<1> HIDE DEF new
<1>7. Steady(m)' /\ CI(tree)' /\ Whole(tree)'
  BY <1>1, <1>3 DEF Steady, CI, Whole
<1>8. WriteReady'
  BY <1>1, <1>4, <1>5, <1>6, <1>7 DEF WriteReady
<1>9. Ready(head)' /\ Steady(head.matrix)'
  BY MainStaysReady DEF upstream
<1> QED
  BY <1>1, <1>8, <1>9 DEF WatchedCheckout, IdleReady, RebuildReady, Rebuilding

-----------------------------------------------------------------------------
LEMMA WatchedApply ==
  ASSUME CheckoutInv, WatchedCheckout, NEW k \in Kustomizes, NEW accept \in BOOLEAN,
         Fresh, Apply(k, accept)
  PROVE  WatchedCheckout'
<1> DEFINE dec == Decide(tree.matrix, k, ships[k])
           new == Record(tree.matrix, dec)
<1>1. /\ Ready(tree) /\ Steady(tree.matrix) /\ Good(tree.matrix) /\ ships[k] \in Kyamls
      /\ Whole(tree) /\ CI(tree) /\ tree.gomod = Current(tree.matrix).kyaml
      /\ tree.matrix.version \in tree.changelog.sections
      /\ UNCHANGED <<upstream, head>> /\ style' = style
  BY DEF Fresh, WatchedCheckout, CheckoutInv, CheckoutTypes, Ahead, Apply, Ready, CompatCheck,
         upstream
<1>2. /\ dec.action # "no-op" => Fits(tree.matrix, dec)
      /\ dec.action = "rebuild" => dec.target = NextPatch(tree.matrix.version)
  <2>1. dec.action = "rebuild" => dec.target = NextPatch(tree.matrix.version)
    BY DEF Decide, Decision
  <2>2. dec = Decide(tree.matrix, k, ships[k]) /\ Good(tree.matrix) /\ ships[k] \in Kyamls
    BY <1>1
  <2> HIDE DEF dec
  <2>3. dec.action # "no-op" => Fits(tree.matrix, dec)
    BY <2>2, DecideFits
  <2> QED
    BY <2>1, <2>3
<1>3. Ready(head)' /\ Steady(head.matrix)'
  BY <1>1, MainStaysReady DEF upstream
<1>4. \/ Finish(tree)
      \/ /\ dec.action = "matrix-only"
         /\ Prepare(tree.matrix, dec, MatrixOnlyFiles)
         /\ outcome' = "none" /\ tree' = tree
      \/ /\ dec.action = "rebuild"
         /\ m' = tree.matrix /\ d' = dec
         /\ pc' = "go.mod" /\ outcome' = "none" /\ tree' = tree
  BY DEF Apply
<1> HIDE DEF dec
<1>5. CASE Finish(tree)
  BY <1>1, <1>5, WatchedEnd DEF Finish
<1>6. CASE /\ dec.action = "matrix-only"
           /\ Prepare(tree.matrix, dec, MatrixOnlyFiles)
           /\ outcome' = "none" /\ tree' = tree
  <2>1. /\ Steady(new) /\ new.version = tree.matrix.version
        /\ Current(new).kyaml = Current(tree.matrix).kyaml
    BY <1>1, <1>2, <1>6, SteadyJoined, RecordJoins
  <2>2. m' = new /\ todo' = MatrixOnlyFiles /\ pc' = "write"
    BY <1>6 DEF Prepare
  <2>3. /\ DOMAIN MatrixOnlyFiles = 1..3 /\ MatrixOnlyFiles[1] = "matrix"
        /\ MatrixOnlyFiles[2] = "readme" /\ MatrixOnlyFiles[3] = "table"
    BY DEF MatrixOnlyFiles
  <2>4. /\ ToWrite("matrix")' /\ ToWrite("readme")' /\ ToWrite("table")'
        /\ ~ToWrite("section")'
    BY <2>2, <2>3 DEF ToWrite
  <2> HIDE DEF new
  <2>5. Steady(m)' /\ CI(tree)' /\ Whole(tree)'
    BY <1>1, <1>6, <2>1, <2>2 DEF Steady, CI, Whole
  <2>6. WriteReady'
    BY <1>1, <1>6, <2>1, <2>2, <2>4, <2>5 DEF WriteReady
  <2> QED
    BY <1>3, <1>6, <2>2, <2>6 DEF WatchedCheckout, IdleReady, RebuildReady, Rebuilding
<1>7. CASE /\ dec.action = "rebuild"
           /\ m' = tree.matrix /\ d' = dec
           /\ pc' = "go.mod" /\ outcome' = "none" /\ tree' = tree
  <2>1. Steady(m)' /\ Whole(tree)'
    BY <1>1, <1>7 DEF Steady, Whole
  <2>2. RebuildReady'
    BY <1>1, <1>2, <1>7, <2>1 DEF RebuildReady, CI
  <2> QED
    BY <1>3, <1>7, <2>2 DEF WatchedCheckout, IdleReady, WriteReady
<1> QED
  BY <1>4, <1>5, <1>6, <1>7

LEMMA WatchedEditGoMod ==
  ASSUME CheckoutInv, WatchedCheckout, EditGoMod
  PROVE  WatchedCheckout'
<1> DEFINE edited == [tree EXCEPT !.gomod = d.kyaml]
<1>1. /\ edited.matrix = tree.matrix /\ edited.readme = tree.readme
      /\ edited.changelog = tree.changelog /\ edited.golden = tree.golden
      /\ edited.gomod = d.kyaml
      /\ UNCHANGED <<upstream, head>> /\ style' = style /\ Rebuilding /\ pc = "go.mod"
  BY DEF CheckoutInv, CheckoutTypes, EditGoMod, Trees, upstream, Rebuilding
<1>2. \/ tree' = edited /\ pc' = "corpus" /\ UNCHANGED <<m, d, allow, todo, outcome>>
      \/ \E t \in {tree, edited} : Fail(t)
  BY DEF EditGoMod
<1> HIDE DEF edited
<1>3. CASE tree' = edited /\ pc' = "corpus" /\ UNCHANGED <<m, d, allow, todo, outcome>>
  <2>1. Steady(m)' /\ Whole(tree)'
    BY <1>1, <1>3 DEF WatchedCheckout, RebuildReady, Steady, Whole
  <2>2. RebuildReady'
    BY <1>1, <1>3, <2>1 DEF WatchedCheckout, RebuildReady
  <2>3. Ready(head)' /\ Steady(head.matrix)'
    BY <1>1, MainStaysReady DEF upstream
  <2>4. outcome = "none"
    BY <1>1 DEF WatchedCheckout, IdleReady
  <2> QED
    BY <1>3, <2>2, <2>3, <2>4 DEF WatchedCheckout, IdleReady, WriteReady
<1>4. ASSUME NEW t \in {tree, edited}, Fail(t)  PROVE WatchedCheckout'
  BY <1>1, <1>4, WatchedEnd DEF Fail
<1> QED
  BY <1>2, <1>3, <1>4

LEMMA WatchedTestCorpus ==
  ASSUME CheckoutInv, WatchedCheckout, TestCorpus
  PROVE  WatchedCheckout'
<1>1. /\ UNCHANGED <<upstream, head>> /\ style' = style /\ Rebuilding /\ pc = "corpus"
      /\ Whole(tree) /\ Steady(m) /\ tree.matrix = m
      /\ tree.gomod = d.kyaml /\ tree.golden = style[Current(m).kyaml]
      /\ d.target = NextPatch(m.version) /\ outcome = "none"
  BY DEF WatchedCheckout, RebuildReady, IdleReady, TestCorpus, upstream, Rebuilding
<1>2. CASE /\ style[tree.gomod] = tree.golden /\ Prepare(m, d, RebuildFiles)
           /\ UNCHANGED <<tree, allow, outcome>>
  <2>1. Whole(tree') /\ CI(tree') /\ tree'.gomod = d.kyaml
    BY <1>1, <1>2 DEF CI
  <2> QED
    BY <1>1, <1>2, <2>1, WatchedPrepare
<1>3. CASE Fail(tree)
  BY <1>1, <1>3, WatchedEnd DEF Fail
<1>4. CASE /\ d' = [d EXCEPT !.target = NextMinor(m.version)]
           /\ pc' = "update"
           /\ UNCHANGED <<tree, m, allow, todo, outcome>>
  <2>1. d'.kyaml = d.kyaml /\ d'.target = NextMinor(m.version)
    BY <1>1, <1>4, PromotedFits
  <2>2. Steady(m)' /\ Whole(tree)'
    BY <1>1, <1>4 DEF Steady, Whole
  <2>3. RebuildReady'
    BY <1>1, <1>4, <2>1, <2>2 DEF RebuildReady
  <2>4. Ready(head)' /\ Steady(head.matrix)'
    BY <1>1, MainStaysReady DEF upstream
  <2> QED
    BY <1>1, <1>4, <2>3, <2>4 DEF WatchedCheckout, IdleReady, WriteReady
<1> QED
  BY <1>2, <1>3, <1>4 DEF TestCorpus

LEMMA WatchedUpdateCorpus ==
  ASSUME CheckoutInv, WatchedCheckout, UpdateCorpus
  PROVE  WatchedCheckout'
<1> DEFINE updated == [tree EXCEPT !.golden = style[tree.gomod]]
<1>1. /\ UNCHANGED <<upstream, head>> /\ style' = style /\ Rebuilding
      /\ updated.matrix = tree.matrix /\ updated.readme = tree.readme
      /\ updated.changelog = tree.changelog /\ updated.gomod = tree.gomod
      /\ updated.golden = style[tree.gomod]
      /\ Whole(tree) /\ tree.gomod = d.kyaml
      /\ d.target = NextMinor(m.version) /\ outcome = "none"
  BY DEF WatchedCheckout, RebuildReady, IdleReady, UpdateCorpus, upstream, Rebuilding,
         CheckoutInv, CheckoutTypes, Trees
<1>2. \/ tree' = updated /\ Prepare(m, d, RebuildFiles) /\ UNCHANGED <<allow, outcome>>
      \/ \E t \in {tree, updated} : Fail(t)
  BY DEF UpdateCorpus
<1> HIDE DEF updated
<1>3. CASE tree' = updated /\ Prepare(m, d, RebuildFiles) /\ UNCHANGED <<allow, outcome>>
  <2>1. Whole(tree') /\ CI(tree') /\ tree'.gomod = d.kyaml
    BY <1>1, <1>3 DEF CI, Whole
  <2> QED
    BY <1>1, <1>3, <2>1, WatchedPrepare
<1>4. ASSUME NEW t \in {tree, updated}, Fail(t)  PROVE WatchedCheckout'
  BY <1>1, <1>4, WatchedEnd DEF Fail
<1> QED
  BY <1>2, <1>3, <1>4

\* The first file of the list has been written, the others not.
LEMMA NextFile ==
  ASSUME todo \in Seq({"matrix", "readme", "table", "section"}), todo # <<>>,
         NEW file \in {"matrix", "readme", "table", "section"}, file # Head(todo)
  PROVE  /\ Len(todo) > 1 /\ todo' = Tail(todo) => (ToWrite(file)' <=> ToWrite(file))
         /\ Len(todo) = 1 => ~ToWrite(file)
<1>1. /\ Len(todo) \in Nat /\ Len(todo) > 0 /\ DOMAIN todo = 1..Len(todo)
      /\ todo[1] # file
  OBVIOUS
<1>2. ASSUME Len(todo) > 1, todo' = Tail(todo)  PROVE ToWrite(file)' <=> ToWrite(file)
  <2>1. /\ DOMAIN todo' = 1..(Len(todo) - 1)
        /\ \A i \in 1..(Len(todo) - 1) : todo'[i] = todo[i + 1]
    BY <1>1, <1>2
  <2>2. ASSUME ToWrite(file)  PROVE ToWrite(file)'
    <3>1. PICK i \in 1..Len(todo) : todo[i] = file
      BY <1>1, <2>2 DEF ToWrite
    <3>2. i - 1 \in 1..(Len(todo) - 1) /\ (i - 1) + 1 = i
      BY <1>1, <3>1
    <3>3. todo'[i - 1] = file
      BY <2>1, <3>1, <3>2
    <3> QED
      BY <2>1, <3>2, <3>3 DEF ToWrite
  <2>3. ASSUME ToWrite(file)'  PROVE ToWrite(file)
    <3>1. PICK i \in 1..(Len(todo) - 1) : todo'[i] = file
      BY <2>1, <2>3 DEF ToWrite
    <3>2. i + 1 \in 1..Len(todo) /\ todo[i + 1] = file
      BY <1>1, <2>1, <3>1
    <3> QED
      BY <1>1, <3>2 DEF ToWrite
  <2> QED
    BY <2>2, <2>3
<1>3. ASSUME Len(todo) = 1  PROVE ~ToWrite(file)
  BY <1>1, <1>3 DEF ToWrite
<1> QED
  BY <1>2, <1>3

\* With the last file written the tree can be released.
LEMMA WatchedWrite ==
  ASSUME CheckoutInv, WatchedCheckout, Write
  PROVE  WatchedCheckout'
<1> DEFINE file == Head(todo)
           t == Written(file)
<1>1. /\ tree \in Trees /\ d \in Decisions /\ Ahead(m) /\ Good(m) /\ m \in Matrices
      /\ todo # <<>> /\ todo \in Seq({"matrix", "readme", "table", "section"})
      /\ UNCHANGED <<upstream, head>> /\ style' = style /\ pc = "write" /\ outcome = "none"
      /\ WriteReady
  BY DEF CheckoutInv, CheckoutTypes, Write, Ahead, Good, upstream, WatchedCheckout, IdleReady
<1>2. file \in {"matrix", "readme", "table", "section"} /\ file = todo[1]
      /\ 1 \in DOMAIN todo
  BY <1>1
<1>3. ToWrite(file)
  BY <1>2 DEF ToWrite
<1>4. ASSUME Writable(file)
      PROVE  /\ t.gomod = tree.gomod /\ t.golden = tree.golden /\ Whole(t) /\ CI(t)
             /\ t.matrix = IF file = "matrix" THEN m ELSE tree.matrix
             /\ t.readme = IF file = "readme" THEN m ELSE tree.readme
             /\ t.changelog.table = IF file = "table" THEN m ELSE tree.changelog.table
             /\ t.changelog.sections = IF file = "section"
                                         THEN tree.changelog.sections \cup {d.target}
                                         ELSE tree.changelog.sections
  <2>1. /\ t.gomod = tree.gomod /\ t.golden = tree.golden
        /\ t.matrix = IF file = "matrix" THEN m ELSE tree.matrix
        /\ t.readme = IF file = "readme" THEN m ELSE tree.readme
        /\ file \in {"matrix", "readme"} => t.changelog = tree.changelog
        /\ file \in {"table", "section"} =>
             /\ t.changelog \in Changelogs
             /\ t.changelog.table = IF file = "table" THEN m ELSE tree.changelog.table
             /\ t.changelog.sections = IF file = "section"
                                         THEN tree.changelog.sections \cup {d.target}
                                         ELSE tree.changelog.sections
    BY <1>1, <1>2, <1>4, WrittenFields
  <2>2. Whole(tree) /\ CI(tree)
    BY <1>1 DEF WriteReady
  <2> HIDE DEF t, file
  <2>3. Whole(t)
    BY <1>1, <1>2, <2>1, <2>2, TornAssumption DEF Whole
  <2>4. CI(t)
    BY <2>1, <2>2 DEF CI
  <2> QED
    BY <1>2, <2>1, <2>3, <2>4
<1>5. \/ /\ Writable(file) /\ Len(todo) > 1
         /\ tree' = t /\ todo' = Tail(todo)
         /\ UNCHANGED <<pc, m, d, allow, outcome>>
      \/ Writable(file) /\ Len(todo) = 1 /\ Finish(t)
      \/ Fail(Truncated(file))
      \/ Fail(tree)
  BY DEF Write
<1> HIDE DEF t
<1>6. CASE /\ Writable(file) /\ Len(todo) > 1
           /\ tree' = t /\ todo' = Tail(todo)
           /\ UNCHANGED <<pc, m, d, allow, outcome>>
  <2>1. ASSUME NEW f \in {"matrix", "readme", "table", "section"}, f # file
        PROVE  ToWrite(f)' <=> ToWrite(f)
    BY <1>1, <1>6, <2>1, NextFile
  <2> HIDE DEF file
  <2>2. Steady(m)' /\ CI(tree)' /\ Whole(tree)'
    BY <1>1, <1>4, <1>6 DEF WriteReady, Steady, CI, Whole
  <2>3. /\ ~ToWrite("matrix")' => tree'.matrix = m
        /\ ~ToWrite("readme")' => tree'.readme = m
        /\ ~ToWrite("table")' => tree'.changelog.table = m
        /\ IF ToWrite("section")' THEN d.target = m.version
                                  ELSE m.version \in tree'.changelog.sections
    BY <1>1, <1>3, <1>4, <1>6, <2>1 DEF WriteReady
  <2>4. WriteReady'
    BY <1>1, <1>4, <1>6, <2>2, <2>3 DEF WriteReady
  <2>5. Ready(head)' /\ Steady(head.matrix)'
    BY <1>1, MainStaysReady DEF upstream
  <2> QED
    BY <1>1, <1>6, <2>4, <2>5 DEF WatchedCheckout, IdleReady, RebuildReady, Rebuilding
<1>7. CASE Writable(file) /\ Len(todo) = 1 /\ Finish(t)
  <2>1. ASSUME NEW f \in {"matrix", "readme", "table", "section"}, f # file
        PROVE  ~ToWrite(f)
    BY <1>1, <1>7, <2>1, NextFile
  <2> HIDE DEF file
  <2>2. /\ t.matrix = m /\ t.readme = m /\ t.changelog.table = m
        /\ m.version \in t.changelog.sections /\ t.gomod = Current(m).kyaml
    BY <1>1, <1>3, <1>4, <1>7, <2>1 DEF WriteReady
  <2>3. Valid(m) /\ RowsAreTrue(m) /\ Steady(m)
    BY <1>1 DEF Ahead, Good, WriteReady
  <2>4. Ready(t) /\ Steady(t.matrix)
    BY <1>4, <1>7, <2>2, <2>3 DEF Ready, CompatCheck, Whole
  <2> QED
    BY <1>1, <1>7, <2>4, WatchedEnd DEF Finish
<1>8. CASE Fail(Truncated(file))
  BY <1>1, <1>8, WatchedEnd DEF Fail
<1>9. CASE Fail(tree)
  BY <1>1, <1>9, WatchedEnd DEF Fail
<1> QED
  BY <1>5, <1>6, <1>7, <1>8, <1>9

LEMMA WatchedRender ==
  ASSUME CheckoutInv, WatchedCheckout, Render, outcome = "none"
  PROVE  WatchedCheckout'
<1>1. /\ Renderable(tree) /\ tree' = tree /\ head' = head /\ style' = style /\ ships' = ships
      /\ m' = tree.matrix /\ todo' = <<"readme", "table", "matrix">>
      /\ pc' = "write" /\ outcome' = "none"
  BY DEF WatchedCheckout, IdleReady, Render, upstream
<1>2. ToWrite("readme")' /\ ToWrite("table")' /\ ToWrite("matrix")' /\ ~ToWrite("section")'
  <2>1. /\ DOMAIN todo' = 1..3 /\ todo'[1] = "readme" /\ todo'[2] = "table"
        /\ todo'[3] = "matrix"
    BY <1>1
  <2> QED
    BY <2>1 DEF ToWrite
<1>3. Steady(m)' /\ CI(tree)' /\ Whole(tree)'
  BY <1>1 DEF Renderable, Steady, CI, Whole
<1>4. WriteReady'
  BY <1>1, <1>2, <1>3 DEF WriteReady, Renderable
<1>5. Ready(head)' /\ Steady(head.matrix)'
  BY <1>1, MainStaysReady
<1> QED
  BY <1>1, <1>4, <1>5 DEF WatchedCheckout, IdleReady, RebuildReady, Rebuilding

LEMMA WatchedCut ==
  ASSUME CheckoutInv, WatchedCheckout, CutByHand, Fresh
  PROVE  WatchedCheckout'
<1> DEFINE v == NextPatch(tree.matrix.version)
           cut == [tree.matrix EXCEPT !.version = v]
<1>1. /\ Good(tree.matrix) /\ Good(cut) /\ tree'.matrix = cut /\ tree'.readme = tree.readme
      /\ tree'.gomod = tree.gomod /\ tree'.golden = tree.golden
      /\ tree'.changelog \in Changelogs /\ v \in tree'.changelog.sections
  BY CutFields
<1>2. /\ Renderable(tree) /\ Steady(tree.matrix)
      /\ pc' = "idle" /\ outcome' = "none" /\ UNCHANGED <<upstream, head>>
  BY DEF WatchedCheckout, IdleReady, CutByHand, Fresh, command, Renderable
<1>3. cut.version = v /\ Rows(cut) = Rows(tree.matrix) /\ Current(cut) = Current(tree.matrix)
  BY <1>1, CutGrows
<1>4. cut \in Matrices
  BY <1>1 DEF Good
<1>5. Steady(cut)
  BY <1>2, <1>3 DEF Steady, SameMinor, NextPatch
<1> HIDE DEF cut, v
<1>6. Whole(tree')
  BY <1>1, <1>2, <1>4, TornAssumption DEF Renderable, Whole
<1>7. Renderable(tree)'
  BY <1>1, <1>2, <1>3, <1>5, <1>6 DEF Renderable, CI, Steady, upstream, Whole
<1>8. Ready(head)' /\ Steady(head.matrix)'
  BY <1>2, MainStaysReady DEF upstream
<1> QED
  BY <1>2, <1>7, <1>8 DEF WatchedCheckout, IdleReady, RebuildReady, WriteReady, Rebuilding

LEMMA WatchedCheckoutStep ==
  ASSUME WatchedCheckout, Checkout
  PROVE  WatchedCheckout'
<1>1. Ready(head)' /\ Steady(head.matrix)'
  BY MainStaysReady DEF Checkout, upstream
<1>2. tree' = head' /\ pc' = "idle" /\ outcome' = "none"
  BY DEF Checkout
<1>3. Renderable(head)'
  BY <1>1, ReadyIsRenderable DEF Ready, CompatCheck, Renderable
<1>4. Renderable(tree)'
  BY <1>2, <1>3 DEF Renderable, Whole, CI, Steady
<1> QED
  BY <1>1, <1>2, <1>4 DEF WatchedCheckout, IdleReady, RebuildReady, WriteReady, Rebuilding

LEMMA WatchedCommit ==
  ASSUME WatchedCheckout, Commit, Fresh \/ outcome = "ok"
  PROVE  WatchedCheckout' /\ Steady(tree.matrix)
<1>1. Ready(tree) /\ Steady(tree.matrix)
  BY DEF WatchedCheckout, IdleReady, Fresh
<1>2. /\ head' = tree /\ tree' = tree /\ pc' = "idle" /\ outcome' = "none"
      /\ ships' = ships /\ style' = style
  BY DEF Commit, upstream
<1>3. Ready(head)' /\ Steady(head.matrix)'
  BY <1>1, <1>2 DEF Ready, CompatCheck, RowsAreTrue, CI, Steady
<1>4. Renderable(tree)'
  BY <1>1, <1>2, ReadyIsRenderable DEF Renderable, CI, Steady
<1> QED
  BY <1>1, <1>2, <1>3, <1>4 DEF WatchedCheckout, IdleReady, RebuildReady, WriteReady, Rebuilding

LEMMA WatchedCheckoutKept ==
  ASSUME IInv, WatchedCheckout, [WatchedNext]_vars
  PROVE  WatchedCheckout'
<1>1. CheckoutInv
  BY DEF IInv
<1>2. CASE UNCHANGED vars
  BY <1>2, WatchedBeside DEF vars, compatVars, upstream
<1>3. ASSUME NEW k \in Kustomizes, Beside(Publish(k))  PROVE WatchedCheckout'
  BY <1>3, WatchedBeside DEF Beside, Publish
<1>4. ASSUME NEW k \in Kustomizes, NEW accept \in BOOLEAN, Fresh, Beside(Apply(k, accept))
      PROVE  WatchedCheckout'
  BY <1>1, <1>4, WatchedApply DEF Beside
<1>5. CASE Beside(Command)
  BY <1>1, <1>5, WatchedEditGoMod, WatchedTestCorpus, WatchedUpdateCorpus, WatchedWrite
     DEF Beside, Command
<1>6. CASE Fresh /\ Beside(CutByHand)
  BY <1>1, <1>6, WatchedCut DEF Beside
<1>7. CASE outcome = "none" /\ Beside(Render)
  BY <1>1, <1>7, WatchedRender DEF Beside
<1>8. CASE Beside(Checkout)
  BY <1>8, WatchedCheckoutStep DEF Beside
<1>9. CASE Commit /\ (Fresh \/ outcome = "ok")
  BY <1>9, WatchedCommit
<1>10. CASE RunJob \/ PushTag \/ FailJob
  <2>1. UNCHANGED compatVars
    BY <1>10 DEF RunJob, FailJob, PushTag, StartJob, NothingToRelease, DecideToRelease,
                 ReleaseCheck, Tag, ExtractNotes, PublishRelease, RefuseJob
  <2> QED
    BY <2>1, WatchedBeside DEF compatVars, upstream
<1> QED
  BY <1>2, <1>3, <1>4, <1>5, <1>6, <1>7, <1>8, <1>9, <1>10 DEF WatchedNext, WatcherNext

-----------------------------------------------------------------------------
\* What a binary was built from, main still has.
LEMMA TracedFurther ==
  ASSUME NEW b, Traced(b), Grows(head.matrix, head'.matrix)
  PROVE  Traced(b)'
BY DEF Traced, Grows

LEMMA PublishedIsTraced ==
  ASSUME WorkflowInv, WatchedWorkflow, step = "publish"
  PROVE  Traced(Binary(version, job.commit.gomod))
<1> DEFINE old == job.commit.matrix
<1>1. /\ Good(old) /\ Grows(old, head.matrix) /\ Steady(old)
      /\ version = old.version /\ job.commit.gomod = Current(old).kyaml
  BY DEF WorkflowInv, Queued, WatchedWorkflow
<1>2. Current(old) \in Rows(old)
  BY <1>1, RowFacts
<1>3. PICK r \in Rows(head.matrix) :
        r.kustofmt = Current(old).kustofmt /\ r.kyaml = Current(old).kyaml
  BY <1>1, <1>2 DEF Grows
<1> QED
  BY <1>1, <1>3 DEF Traced, Binary, Steady, SameMinor

LEMMA WatchedWorkflowKept ==
  ASSUME IInv, WatchedCheckout, WatchedWorkflow, [WatchedNext]_vars
  PROVE  WatchedWorkflow'
<1>1. style' = style /\ WorkflowInv
  <2>1. CASE RunJob \/ PushTag \/ FailJob \/ Commit \/ UNCHANGED vars
    BY <2>1 DEF RunJob, FailJob, PushTag, StartJob, NothingToRelease, DecideToRelease, ReleaseCheck,
                Tag, ExtractNotes, PublishRelease, RefuseJob, Commit, vars, compatVars, upstream, IInv
  <2>2. CASE \/ \E k \in Kustomizes : Beside(Publish(k))
             \/ \E k \in Kustomizes, accept \in BOOLEAN : Beside(Apply(k, accept))
             \/ Beside(Command) \/ Beside(Render) \/ Beside(Checkout) \/ Beside(CutByHand)
    BY <2>2 DEF Beside, Command, Publish, Apply, EditGoMod, TestCorpus, UpdateCorpus, Write,
                Render, Checkout, CutByHand, upstream, IInv
  <2> QED
    BY <2>1, <2>2 DEF WatchedNext, WatcherNext
<1>2. CASE UNCHANGED <<head, binaries, workflow>>
  BY <1>1, <1>2 DEF WatchedWorkflow, Traced, Steady, workflow
<1>3. CASE Commit /\ (Fresh \/ outcome = "ok")
  <2>1. /\ head' = tree /\ Steady(tree.matrix) /\ waiting' = Job(tree, FALSE)
        /\ UNCHANGED <<binaries, job, step>>
    BY <1>3, WatchedCommit DEF Commit
  <2>2. Grows(head.matrix, head'.matrix)
    BY <1>3 DEF Commit, IInv, CheckoutInv, Ahead, Whole
  <2>3. Steady(waiting.commit.matrix)'
    BY <1>1, <2>1 DEF Job, Steady
  <2>4. (\A b \in binaries : Traced(b))'
    BY <2>1, <2>2, TracedFurther DEF WatchedWorkflow
  <2>5. (step # "idle" => Steady(job.commit.matrix))'
    BY <1>1, <2>1 DEF WatchedWorkflow, Steady
  <2> QED
    BY <2>3, <2>4, <2>5 DEF WatchedWorkflow
<1>4. CASE PushTag
  <2>1. Steady(waiting.commit.matrix)'
    BY <1>1, <1>4 DEF PushTag, Job, WatchedCheckout, Steady
  <2>2. UNCHANGED <<head, binaries, job, step>>
    BY <1>4 DEF PushTag, compatVars
  <2>3. (step # "idle" => Steady(job.commit.matrix))'
    BY <1>1, <2>2 DEF WatchedWorkflow, Steady
  <2>4. (\A b \in binaries : Traced(b))'
    BY <2>2 DEF WatchedWorkflow, Traced
  <2> QED
    BY <2>1, <2>3, <2>4 DEF WatchedWorkflow
<1>5. CASE StartJob
  BY <1>1, <1>5 DEF StartJob, WatchedWorkflow, Steady, Traced, compatVars
<1>6. CASE NothingToRelease \/ RefuseJob \/ FailJob
  BY <1>1, <1>6 DEF NothingToRelease, RefuseJob, FailJob, EndJob, WatchedWorkflow, Steady, Traced,
                    compatVars
<1>7. CASE DecideToRelease \/ ReleaseCheck \/ Tag \/ ExtractNotes
  <2>1. /\ UNCHANGED <<head, binaries, waiting, job>> /\ step # "idle"
    BY <1>7 DEF DecideToRelease, ReleaseCheck, Tag, ExtractNotes, compatVars
  <2> QED
    BY <1>1, <2>1 DEF WatchedWorkflow, Steady, Traced
<1>8. CASE PublishRelease
  <2>1. /\ binaries' = binaries \cup {Binary(version, job.commit.gomod)}
        /\ head' = head /\ waiting' = waiting /\ step' = "idle" /\ step = "publish"
    BY <1>8 DEF PublishRelease, EndJob, compatVars
  <2>2. \A b \in binaries' : Traced(b)
    BY <1>1, <2>1, PublishedIsTraced DEF WatchedWorkflow
  <2> QED
    BY <1>1, <2>1, <2>2 DEF WatchedWorkflow, Steady, Traced
<1>9. CASE \/ \E k \in Kustomizes : Beside(Publish(k))
           \/ \E k \in Kustomizes, accept \in BOOLEAN : Beside(Apply(k, accept))
           \/ Beside(Command) \/ Beside(Render) \/ Beside(Checkout) \/ Beside(CutByHand)
  BY <1>2, <1>9 DEF Beside, Command, Publish, Apply, EditGoMod, TestCorpus, UpdateCorpus, Write,
                    Render, Checkout, CutByHand
<1>10. UNCHANGED vars => UNCHANGED <<head, binaries, workflow>>
  BY DEF vars, compatVars
<1> QED
  BY <1>2, <1>3, <1>4, <1>5, <1>6, <1>7, <1>8, <1>9, <1>10 DEF WatchedNext, WatcherNext, RunJob

LEMMA WatchedInit ==
  ASSUME ReleaseInit
  PROVE  WatchedInv
<1> USE DEF ReleaseInit, Init
<1>1. /\ FirstMatrix \in Matrices /\ Valid(FirstMatrix) /\ FirstVersion \in Versions
      /\ Rows(FirstMatrix) = {Row(FirstVersion, FirstKyaml, {FirstKustomize})}
      /\ Current(FirstMatrix) = Row(FirstVersion, FirstKyaml, {FirstKustomize})
      /\ FirstMatrix.version = FirstVersion
  BY FirstIsGood DEF Good
<1>2. [table |-> FirstMatrix, sections |-> {FirstVersion}] \in Changelogs
  BY <1>1 DEF Changelogs
<1>3. /\ tree.matrix = FirstMatrix /\ tree.readme = FirstMatrix
      /\ tree.changelog = [table |-> FirstMatrix, sections |-> {FirstVersion}]
      /\ tree.gomod = FirstKyaml /\ tree.golden = style[FirstKyaml] /\ head = tree
  OBVIOUS
<1>4. RowsAreTrue(FirstMatrix) /\ Steady(FirstMatrix) /\ Current(FirstMatrix).kyaml = FirstKyaml
  BY <1>1 DEF RowsAreTrue, Steady, Row, SameMinor
<1>5. Whole(tree)
  BY <1>1, <1>2, <1>3, TornAssumption DEF Whole
<1>6. Ready(tree)
  BY <1>1, <1>3, <1>4, <1>5 DEF Ready, CI, CompatCheck, Whole
<1>7. WatchedCheckout
  BY <1>3, <1>4, <1>6, ReadyIsRenderable
     DEF WatchedCheckout, IdleReady, RebuildReady, WriteReady, Rebuilding
<1>8. WatchedWorkflow
  BY <1>1, <1>3 DEF WatchedWorkflow, Traced, Binary, Row, SameMinor
<1> QED
  BY <1>7, <1>8 DEF WatchedInv

LEMMA WatchedSpecInv == WatcherSpec => [](IInv /\ WatchedInv)
<1>1. ASSUME IInv, WatchedInv, [WatchedNext]_vars  PROVE WatchedInv'
  BY <1>1, WatchedCheckoutKept, WatchedWorkflowKept DEF WatchedInv
<1> QED
  BY <1>1, WatchedInit, WatchedSpecIInv, PTL DEF WatcherSpec

-----------------------------------------------------------------------------
(***************************************************************************)
(* If commands start from a fresh checkout and only what they finished is  *)
(* merged, main is at every moment what release-check accepts, through     *)
(* any number of recorded releases, rebuilds, promoted styles, versions    *)
(* cut by hand, interrupted commands and failed jobs.                      *)
(***************************************************************************)
THEOREM MainStaysReleasable == WatcherSpec => []MainIsReady
<1>1. WatchedInv => MainIsReady
  BY DEF WatchedInv, WatchedCheckout, IdleReady, MainIsReady
<1> QED
  BY <1>1, WatchedSpecInv, PTL

(***************************************************************************)
(* "The output style is the public API": binaries of one minor version     *)
(* have one style, also when a style moves and moves back.                 *)
(***************************************************************************)
THEOREM StyleKept == WatcherSpec => []StyleIsApi
<1>1. WatchedInv => StyleIsApi
  <2> SUFFICES ASSUME WatchedInv, NEW b \in binaries, NEW c \in binaries,
                      SameMinor(b.kustofmt, c.kustofmt)
               PROVE  style[b.kyaml] = style[c.kyaml]
    BY DEF StyleIsApi
  <2>1. Traced(b) /\ Traced(c) /\ Steady(head.matrix)
    BY DEF WatchedInv, WatchedCheckout, WatchedWorkflow
  <2> QED
    BY <2>1 DEF Traced, Steady, SameMinor
<1> QED
  BY <1>1, WatchedSpecInv, PTL

-----------------------------------------------------------------------------
\* What a matrix has, one that it grows to has too.
LEMMA HasStill ==
  ASSUME NEW old, NEW new, Grows(old, new), NEW k, HasKustomize(old, k)
  PROVE  HasKustomize(new, k)
BY DEF HasKustomize, Grows

\* Recording adds the one release.
LEMMA RecordHas ==
  ASSUME NEW old, NEW dec, Good(old), Fits(old, dec), NEW k
  PROVE  HasKustomize(Record(old, dec), k) <=> HasKustomize(old, k) \/ k = dec.kustomize
<1> DEFINE new == Record(old, dec)
<1>1. CASE dec.action = "matrix-only"
  <2>1. Rows(new) = {Joined(r, dec) : r \in Rows(old)} /\ Rows(old) \subseteq Releases
    BY <1>1, RecordJoins, RowFacts
  <2>2. \A r \in Rows(old) :
          Joined(r, dec).kustomize = IF r.kustofmt = dec.target
                                       THEN r.kustomize \cup {dec.kustomize} ELSE r.kustomize
    BY <2>1 DEF Joined, Releases
  <2>3. \E r \in Rows(old) : r.kustofmt = dec.target
    BY <1>1 DEF Fits
  <2> HIDE DEF new
  <2>4. HasKustomize(new, k) <=> HasKustomize(old, k) \/ k = dec.kustomize
    BY <2>1, <2>2, <2>3 DEF HasKustomize
  <2> QED
    BY <2>4 DEF new
<1>2. CASE dec.action = "rebuild"
  <2>1. Rows(new) = Rows(old) \cup {Row(dec.target, dec.kyaml, {dec.kustomize})}
    BY <1>2, RecordAppends
  <2>2. Row(dec.target, dec.kyaml, {dec.kustomize}).kustomize = {dec.kustomize}
    BY DEF Row
  <2> HIDE DEF new
  <2>3. HasKustomize(new, k) <=> HasKustomize(old, k) \/ k = dec.kustomize
    BY <2>1, <2>2 DEF HasKustomize
  <2> QED
    BY <2>3 DEF new
<1> QED
  BY <1>1, <1>2 DEF Fits

\* A command that ends forgets what it was about.
LEMMA IntendedEnd ==
  ASSUME Intended, NEW t, NEW result, End(t, result), UNCHANGED <<upstream, head>>
  PROVE  Intended'
BY DEF Intended, End, Rebuilding, Decision

\* Preparing to write takes the decision along.
LEMMA IntendedPrepare ==
  ASSUME CheckoutInv, Intended, Rebuilding, Prepare(m, d, RebuildFiles),
         tree'.matrix = tree.matrix, UNCHANGED <<upstream, head>>
  PROVE  Intended'
<1>1. /\ m' = Record(m, d) /\ d' = d /\ pc' = "write" /\ head' = head /\ ships' = ships
      /\ tree.matrix = m /\ d.action = "rebuild" /\ Fits(m, d)
      /\ \/ d = Decide(m, d.kustomize, ships[d.kustomize])
         \/ d.target = NextMinor(m.version)
  BY DEF Prepare, upstream, Intended, CheckoutInv
<1>2. m # Torn
  BY TornAssumption DEF CheckoutInv, CheckoutTypes
<1> QED
  BY <1>1, <1>2 DEF Intended, Rebuilding, Promoted

LEMMA IntendedApply ==
  ASSUME CheckoutInv, Intended, NEW k \in Kustomizes, NEW accept \in BOOLEAN, Apply(k, accept)
  PROVE  Intended'
<1> DEFINE dec == Decide(tree.matrix, k, ships[k])
<1>1. /\ tree.matrix # Torn /\ Good(tree.matrix) /\ ships[k] \in Kyamls
      /\ UNCHANGED <<upstream, head>> /\ ships' = ships
  BY DEF CheckoutInv, CheckoutTypes, Apply, Ahead, upstream
<1>2. dec.kustomize = k /\ (dec.action # "no-op" => Fits(tree.matrix, dec))
  <2>1. dec.kustomize = k
    BY DEF Decide, Decision
  <2>2. dec = Decide(tree.matrix, k, ships[k])
    OBVIOUS
  <2> HIDE DEF dec
  <2> QED
    BY <1>1, <2>1, <2>2, DecideFits
<1>3. \/ Finish(tree)
      \/ /\ dec.action = "matrix-only" /\ tree' = tree
         /\ m' = Record(tree.matrix, dec) /\ d' = dec /\ pc' = "write"
      \/ /\ dec.action = "rebuild" /\ tree' = tree
         /\ m' = tree.matrix /\ d' = dec /\ pc' = "go.mod"
  BY DEF Apply, Prepare
<1>4. dec = Decide(tree.matrix, dec.kustomize, ships[dec.kustomize])
  BY <1>2
<1> HIDE DEF dec
<1>5. CASE Finish(tree)
  BY <1>1, <1>5, IntendedEnd DEF Finish
<1>6. CASE /\ dec.action = "matrix-only" /\ tree' = tree
           /\ m' = Record(tree.matrix, dec) /\ d' = dec /\ pc' = "write"
  BY <1>1, <1>2, <1>4, <1>6 DEF Intended, Rebuilding
<1>7. CASE /\ dec.action = "rebuild" /\ tree' = tree
           /\ m' = tree.matrix /\ d' = dec /\ pc' = "go.mod"
  BY <1>1, <1>2, <1>4, <1>7 DEF Intended, Rebuilding
<1> QED
  BY <1>3, <1>5, <1>6, <1>7

LEMMA IntendedRebuild ==
  ASSUME CheckoutInv, Intended, EditGoMod \/ TestCorpus \/ UpdateCorpus
  PROVE  Intended'
<1>1. /\ UNCHANGED <<upstream, head>> /\ ships' = ships /\ tree \in Trees /\ d \in Decisions
      /\ Rebuilding
  BY DEF EditGoMod, TestCorpus, UpdateCorpus, upstream, CheckoutInv, CheckoutTypes, Rebuilding
<1>2. CASE \E t, result : End(t, result)
  BY <1>1, <1>2, IntendedEnd
<1>3. CASE EditGoMod /\ pc' = "corpus"
  <2>1. tree'.matrix = tree.matrix /\ m' = m /\ d' = d /\ pc = "go.mod"
    BY <1>1, <1>3 DEF EditGoMod, Fail, End, Trees
  <2> QED
    BY <1>1, <1>3, <2>1 DEF Intended, Rebuilding
<1>4. CASE TestCorpus /\ pc' = "update"
  <2>1. tree' = tree /\ m' = m /\ d' = [d EXCEPT !.target = NextMinor(m.version)]
    BY <1>4 DEF TestCorpus, Fail, End, Prepare
  <2>2. d'.target = NextMinor(m.version)
    BY <1>1, <2>1 DEF Decisions
  <2> QED
    BY <1>1, <1>4, <2>1, <2>2 DEF Intended, Rebuilding
<1>5. CASE TestCorpus /\ Prepare(m, d, RebuildFiles) /\ tree' = tree
  BY <1>1, <1>5, IntendedPrepare
<1>6. CASE UpdateCorpus /\ Prepare(m, d, RebuildFiles)
  <2>1. tree'.matrix = tree.matrix
    BY <1>1, <1>6 DEF UpdateCorpus, Prepare, Fail, End, Trees
  <2> QED
    BY <1>1, <1>6, <2>1, IntendedPrepare
<1> QED
  BY <1>2, <1>3, <1>4, <1>5, <1>6 DEF EditGoMod, TestCorpus, UpdateCorpus, Fail

LEMMA IntendedWrite ==
  ASSUME CheckoutInv, Intended, Write
  PROVE  Intended'
<1> DEFINE file == Head(todo)
           t == Written(file)
<1>1. /\ UNCHANGED <<upstream, head>> /\ ships' = ships /\ pc = "write"
      /\ tree \in Trees /\ d \in Decisions /\ Good(m) /\ m \in Matrices
      /\ tree.matrix # Torn => Good(tree.matrix)
      /\ file \in {"matrix", "readme", "table", "section"}
  BY DEF Write, upstream, CheckoutInv, CheckoutTypes, Ahead, Good
<1>2. CASE \E r, result : End(r, result)
  BY <1>1, <1>2, IntendedEnd
<1>3. CASE Writable(file) /\ tree' = t /\ UNCHANGED <<pc, m, d>>
  <2>1. t.matrix = m \/ t.matrix = tree.matrix
    BY <1>1, <1>3, WrittenFields
  <2>2. m # Torn
    BY <1>1, TornAssumption
  <2>3. HasKustomize(m, d.kustomize) \/ (m = Record(tree.matrix, d) /\ Fits(tree.matrix, d))
    BY <1>1 DEF Intended
  <2>4. HasKustomize(m, d.kustomize)
    BY <1>1, <2>3, RecordHas DEF Intended
  <2> HIDE DEF t, file
  <2> QED
    BY <1>1, <1>3, <2>1, <2>2, <2>4 DEF Intended, Rebuilding, Promoted
<1> QED
  BY <1>2, <1>3 DEF Write, Fail, Finish

LEMMA IntendedKept ==
  ASSUME IInv, Intended, [Next]_vars
  PROVE  Intended'
<1>1. CheckoutInv
  BY DEF IInv
<1>2. CASE UNCHANGED <<ships, tree, head, command>>
  BY <1>2 DEF Intended, Rebuilding, Promoted, command
<1>3. ASSUME NEW k \in Kustomizes, NEW accept \in BOOLEAN, Beside(Apply(k, accept))
      PROVE  Intended'
  BY <1>1, <1>3, IntendedApply DEF Beside
<1>4. CASE Beside(Command)
  BY <1>1, <1>4, IntendedRebuild, IntendedWrite DEF Beside, Command
<1>5. CASE Render
  <2>1. /\ m' = tree.matrix /\ tree' = tree /\ head' = head /\ d' = d /\ pc' = "write"
        /\ tree.matrix # Torn /\ pc = "idle" /\ Grows(head.matrix, tree.matrix)
    BY <1>1, <1>5 DEF Render, CheckoutInv, Ahead
  <2>2. HasKustomize(tree.matrix, d.kustomize)
    BY <2>1, HasStill DEF Intended
  <2> QED
    BY <2>1, <2>2 DEF Intended, Rebuilding
<1>6. CASE Checkout \/ MakeGolden \/ CutByHand
  BY <1>6 DEF Checkout, MakeGolden, CutByHand, Intended, Rebuilding, command
<1>7. CASE Commit
  <2>1. /\ head' = tree /\ pc' = pc /\ d' = d /\ pc = "idle" /\ Grows(head.matrix, tree.matrix)
    BY <1>1, <1>7 DEF Commit, CheckoutInv, Ahead, Whole
  <2>2. HasKustomize(tree.matrix, FirstKustomize)
    BY <2>1, HasStill DEF Intended
  <2> QED
    BY <2>1, <2>2 DEF Intended, Rebuilding
<1>8. CASE RunJob \/ PushTag \/ FailJob \/ UNCHANGED vars
  BY <1>2, <1>8 DEF RunJob, FailJob, PushTag, StartJob, NothingToRelease, DecideToRelease,
       ReleaseCheck, Tag, ExtractNotes, PublishRelease, RefuseJob, compatVars, upstream, vars
<1>9. ASSUME NEW k \in Kustomizes, Beside(Publish(k))  PROVE Intended'
  BY <1>2, <1>9 DEF Beside, Publish
<1> QED
  BY <1>3, <1>4, <1>5, <1>6, <1>7, <1>8, <1>9 DEF Next, Beside

LEMMA SpecIntended == Spec => [](IInv /\ Intended)
<1>1. ReleaseInit => Intended
  <2>1. ASSUME ReleaseInit
        PROVE  head.matrix = FirstMatrix /\ pc = "idle" /\ d.kustomize = FirstKustomize
    BY <2>1 DEF ReleaseInit, Init, Decision
  <2>2. HasKustomize(FirstMatrix, FirstKustomize)
    BY FirstIsGood DEF HasKustomize, Row
  <2> QED
    BY <2>1, <2>2 DEF Intended, Rebuilding
<1> QED
  BY <1>1, IntendedKept, SpecIInv, PTL DEF Spec

-----------------------------------------------------------------------------
\* The function that After defines, up to n.
Accumulates(after, matrix, n) ==
  after = [i \in 0..n |-> IF i = 0 THEN matrix ELSE Dealt(matrix, after[i - 1], i - 1)]

LEMMA Accumulation ==
  ASSUME NEW matrix, NEW n \in Nat
  PROVE  \E after : Accumulates(after, matrix, n)
<1> DEFINE B == {k \in 0..n : \E after : Accumulates(after, matrix, k)}
<1>1. 0 \in B
  <2> DEFINE after == [i \in 0..0 |-> matrix]
  <2>1. \A i \in 0..0 : i = 0
    OBVIOUS
  <2>2. after = [i \in 0..0 |-> IF i = 0 THEN matrix ELSE Dealt(matrix, after[i - 1], i - 1)]
    BY <2>1, Zenon
  <2> HIDE DEF after
  <2>3. Accumulates(after, matrix, 0)
    BY <2>2 DEF Accumulates
  <2> QED
    BY <2>3
<1>2. ASSUME NEW k \in 0..n, k \in B, k < n  PROVE k + 1 \in B
  <2>1. PICK after : Accumulates(after, matrix, k)
    BY <1>2
  <2> DEFINE next == Dealt(matrix, after[k], k)
             more == [i \in 0..(k + 1) |-> IF i = k + 1 THEN next ELSE after[i]]
  <2>2. /\ \A i \in 0..k : i \in 0..(k + 1) /\ more[i] = after[i]
        /\ more[k + 1] = next /\ k + 1 \in 0..n
    BY <1>2
  <2>3. ASSUME NEW i \in 0..(k + 1)
        PROVE  more[i] = IF i = 0 THEN matrix ELSE Dealt(matrix, more[i - 1], i - 1)
    <3>1. CASE i = 0
      <4>1. 0 \in 0..k /\ after[0] = matrix
        BY <1>2, <2>1 DEF Accumulates
      <4> QED
        BY <2>2, <3>1, <4>1
    <3>2. CASE i = k + 1
      <4>1. i # 0 /\ i - 1 = k /\ k \in 0..k
        BY <1>2, <3>2
      <4>2. more[k] = after[k]
        BY <2>2, <4>1
      <4> HIDE DEF more
      <4> QED
        BY <2>2, <3>2, <4>1, <4>2
    <3>3. CASE i # 0 /\ i # k + 1
      <4>1. i \in 0..k /\ i - 1 \in 0..k
        BY <1>2, <3>3
      <4>2. after[i] = Dealt(matrix, after[i - 1], i - 1)
        BY <2>1, <3>3, <4>1 DEF Accumulates
      <4>3. more[i] = after[i] /\ more[i - 1] = after[i - 1]
        BY <2>2, <4>1
      <4> HIDE DEF more
      <4> QED
        BY <3>3, <4>2, <4>3
    <3> QED
      BY <3>1, <3>2, <3>3
  <2>4. DOMAIN more = 0..(k + 1) /\ more = [i \in 0..(k + 1) |-> more[i]]
    OBVIOUS
  <2> HIDE DEF more
  <2>5. Accumulates(more, matrix, k + 1)
    BY <2>3, <2>4 DEF Accumulates
  <2> QED
    BY <2>2, <2>5
<1> HIDE DEF B
<1>3. n \in B
  BY <1>1, <1>2, Climb
<1> QED
  BY <1>3 DEF B

\* What After finds on its way.
LEMMA AfterIs ==
  ASSUME NEW matrix, NEW n \in Nat
  PROVE  \E after : /\ After(matrix, n) = after[n] /\ after[0] = matrix
                    /\ \A k \in 0..n : k < n => after[k + 1] = Dealt(matrix, after[k], k)
<1> DEFINE chosen == CHOOSE after : Accumulates(after, matrix, n)
<1>1. Accumulates(chosen, matrix, n)
  BY Accumulation
<1>2. After(matrix, n) = chosen[n]
  BY DEF After, Accumulates
<1> HIDE DEF chosen
<1>3. \A i \in 0..n : chosen[i] = IF i = 0 THEN matrix ELSE Dealt(matrix, chosen[i - 1], i - 1)
  BY <1>1 DEF Accumulates
<1>4. chosen[0] = matrix
  BY <1>3
<1>5. ASSUME NEW k \in 0..n, k < n  PROVE chosen[k + 1] = Dealt(matrix, chosen[k], k)
  <2>1. k + 1 \in 0..n /\ k + 1 # 0 /\ (k + 1) - 1 = k
    BY <1>5
  <2> QED
    BY <1>3, <2>1
<1> QED
  BY <1>2, <1>4, <1>5

\* Nothing is recorded before the oldest release that is pending.
LEMMA AfterNothing ==
  ASSUME NEW matrix, NEW n \in Nat, \A k \in Pending(matrix) : n <= k
  PROVE  After(matrix, n) = matrix
<1>1. PICK after : /\ After(matrix, n) = after[n] /\ after[0] = matrix
                   /\ \A k \in 0..n : k < n => after[k + 1] = Dealt(matrix, after[k], k)
  BY AfterIs
<1> DEFINE B == {k \in 0..n : after[k] = matrix}
<1>2. 0 \in B
  BY <1>1
<1>3. ASSUME NEW k \in 0..n, k \in B, k < n  PROVE k + 1 \in B
  <2>1. k + 1 \in 0..n /\ after[k + 1] = Dealt(matrix, after[k], k) /\ ~(n <= k)
    BY <1>1, <1>3
  <2>2. after[k + 1] = matrix
    BY <1>3, <2>1 DEF Dealt
  <2> QED
    BY <2>1, <2>2
<1> HIDE DEF B
<1>4. n \in B
  BY <1>2, <1>3, Climb
<1> QED
  BY <1>1, <1>4 DEF B

\* With the oldest one recorded, the others find the matrix that they would have found.
LEMMA AfterOldest ==
  ASSUME NEW old, NEW new, NEW oldest \in Nat, NEW n \in Nat, oldest < n,
         oldest \in Pending(old), \A k \in Pending(old) : oldest <= k,
         new = Record(old, Decide(old, oldest, ships[oldest])),
         Pending(new) = Pending(old) \ {oldest}
  PROVE  After(old, n) = After(new, n)
<1>1. PICK f : /\ After(old, n) = f[n] /\ f[0] = old
               /\ \A k \in 0..n : k < n => f[k + 1] = Dealt(old, f[k], k)
  BY AfterIs
<1>2. PICK g : /\ After(new, n) = g[n] /\ g[0] = new
               /\ \A k \in 0..n : k < n => g[k + 1] = Dealt(new, g[k], k)
  BY AfterIs
<1> DEFINE B == {k \in 0..n : IF k <= oldest THEN f[k] = old /\ g[k] = new ELSE f[k] = g[k]}
<1>3. 0 \in B
  BY <1>1, <1>2
<1>4. ASSUME NEW k \in 0..n, k \in B, k < n  PROVE k + 1 \in B
  <2>1. /\ k + 1 \in 0..n /\ f[k + 1] = Dealt(old, f[k], k) /\ g[k + 1] = Dealt(new, g[k], k)
    BY <1>1, <1>2, <1>4
  <2>2. CASE k < oldest
    <3>1. k \notin Pending(old) /\ k \notin Pending(new)
      BY <1>4, <2>2
    <3>2. f[k + 1] = old /\ g[k + 1] = new
      BY <1>4, <2>1, <2>2, <3>1 DEF Dealt
    <3> QED
      BY <1>4, <2>1, <2>2, <3>2
  <2>3. CASE k = oldest
    <3>1. f[k] = old /\ g[k] = new
      BY <1>4, <2>3
    <3>2. f[k + 1] = new /\ g[k + 1] = new
      BY <2>1, <2>3, <3>1 DEF Dealt
    <3> QED
      BY <1>4, <2>1, <2>3, <3>2
  <2>4. CASE oldest < k
    <3>1. f[k] = g[k] /\ (k \in Pending(new) <=> k \in Pending(old))
      BY <1>4, <2>4
    <3>2. f[k + 1] = g[k + 1]
      BY <2>1, <3>1 DEF Dealt
    <3> QED
      BY <1>4, <2>1, <2>4, <3>2
  <2> QED
    BY <1>4, <2>2, <2>3, <2>4
<1> HIDE DEF B
<1>5. n \in B
  BY <1>3, <1>4, Climb
<1> QED
  BY <1>1, <1>2, <1>5 DEF B

(***************************************************************************)
(* "A forecast cannot drift from what applying would actually do": apply   *)
(* saves what status says of the oldest release that is pending, and of    *)
(* the others status says afterwards what it said before; for any number   *)
(* of them, and whatever else was done to the checkout.                    *)
(***************************************************************************)
THEOREM ForecastHolds == Spec => []ForecastComesTrue
<1>1. ASSUME IInv, Intended  PROVE ForecastComesTrue
  <2> DEFINE k0 == d.kustomize
             old == tree.matrix
  <2> SUFFICES ASSUME pc = "write", ~Promoted, k0 \in Pending(old),
                      \A k \in Pending(old) : k0 <= k
               PROVE  /\ Forecast(old)[k0] = d
                      /\ Forecast(Sorted(m)) =
                           [k \in DOMAIN Forecast(old) \ {k0} |-> Forecast(old)[k]]
    BY DEF ForecastComesTrue
  <2>1. /\ Good(m) /\ Good(old) /\ ships \in [Kustomizes -> Kyamls]
        /\ Pending(old) \subseteq Kustomizes
    BY <1>1 DEF IInv, CheckoutInv, CheckoutTypes, Ahead, Pending, Intended
  <2>2. /\ Fits(old, d) /\ m = Record(old, d) /\ d = Decide(old, k0, ships[k0])
    BY <1>1 DEF Intended, Pending
  <2>3. Sorted(m) = m
    BY <2>1, SortKeeps
  <2>4. Pending(old) \subseteq Nat
    BY <2>1, KustomizesAssumption
  <2>5. Pending(m) = Pending(old) \ {k0}
    <3>1. \A k : HasKustomize(m, k) <=> HasKustomize(old, k) \/ k = k0
      BY <2>1, <2>2, RecordHas
    <3> QED
      BY <3>1 DEF Pending
  <2>6. After(old, k0) = old
    BY <2>4, AfterNothing
  <2>7. Forecast(old)[k0] = d
    BY <2>2, <2>6 DEF Forecast
  <2> HIDE DEF old, k0
  <2>8. ASSUME NEW k \in Pending(m)  PROVE After(old, k) = After(m, k)
    <3>1. k \in Nat /\ k0 \in Nat /\ k0 < k
      BY <2>4, <2>5
    <3> QED
      BY <2>2, <2>5, <3>1, AfterOldest
  <2>9. Forecast(m) = [k \in Pending(old) \ {k0} |-> Decide(After(old, k), k, ships[k])]
    BY <2>5, <2>8 DEF Forecast
  <2>10. DOMAIN Forecast(old) = Pending(old)
         /\ \A k \in Pending(old) : Forecast(old)[k] = Decide(After(old, k), k, ships[k])
    BY DEF Forecast
  <2> QED
    BY <2>3, <2>7, <2>9, <2>10
<1> QED
  BY <1>1, SpecIntended, PTL
=============================================================================
