------------------------------- MODULE Matrix -------------------------------
(***************************************************************************)
(* compatibility.yaml in memory: what each kustomize release requires and  *)
(* what recording it does.  A kustofmt version is <<minor, patch>> (cmd    *)
(* compat never moves the major one), a kustomize version a number, kyaml  *)
(* versions are only compared for equality.  The kustomize list of a row   *)
(* is a set: Save sorts it and nothing depends on its order.               *)
(***************************************************************************)
EXTENDS Naturals, Sequences, Functions

CONSTANTS Kustomizes,    \* the kustomize releases at or above the floor
          Kyamls

ASSUME KustomizesAssumption == Kustomizes \subseteq Nat

Versions == Nat \X Nat
NoVersion == <<>>

NextPatch(v) == <<v[1], v[2] + 1>>
NextMinor(v) == <<v[1] + 1, 0>>
SameMinor(v, w) == v[1] = w[1]

\* CompareVersions(v, w) < 0.
Before(v, w) == \/ v[1] < w[1]
                \/ v[1] = w[1] /\ v[2] < w[2]

Row(v, kyaml, kustomize) == [kustofmt |-> v, kyaml |-> kyaml, kustomize |-> kustomize]
Matrices == [version : Versions,
             releases : Seq([kustofmt : Versions, kyaml : Kyamls,
                             kustomize : SUBSET Kustomizes])]
Rows(m) == {m.releases[i] : i \in DOMAIN m.releases}
Current(m) == m.releases[Len(m.releases)]

HasKustomize(m, k) == \E r \in Rows(m) : k \in r.kustomize

\* The versions of the rows built against a kyaml: validate leaves at most one.
ByKyaml(m, kyaml) == {r.kustofmt : r \in {s \in Rows(m) : s.kyaml = kyaml}}

(***************************************************************************)
(* validate: rows do not share a kyaml or a kustomize release, and the     *)
(* version is not behind the last row.                                     *)
(***************************************************************************)
Valid(m) ==
  /\ m.releases # <<>>
  /\ \A i, j \in DOMAIN m.releases :
       i # j => /\ m.releases[i].kyaml # m.releases[j].kyaml
                /\ m.releases[i].kustomize \cap m.releases[j].kustomize = {}
  /\ ~Before(m.version, Current(m).kustofmt)

(***************************************************************************)
(* sort, which Save applies before it validates and writes: rows by their  *)
(* kustofmt version, rows of the same version in the order they had.       *)
(***************************************************************************)
InOrder(rows, order) ==
  \A i, j \in DOMAIN rows : i < j =>
    LET r == rows[order[i]]  s == rows[order[j]]
    IN  \/ Before(r.kustofmt, s.kustofmt)
        \/ ~Before(s.kustofmt, r.kustofmt) /\ order[i] < order[j]

SortedRows(rows) ==
  LET order == CHOOSE order \in Bijection(DOMAIN rows, DOMAIN rows) : InOrder(rows, order)
  IN  [i \in DOMAIN rows |-> rows[order[i]]]

Sorted(m) == [m EXCEPT !.releases = SortedRows(@)]

Decision(k, kyaml, action, target) ==
  [kustomize |-> k, kyaml |-> kyaml, action |-> action, target |-> target]

\* A defect: every release that is new gets a version of its own.
DecideAlwaysRebuilds(m, k, kyaml) ==
  IF HasKustomize(m, k) THEN Decision(k, kyaml, "no-op", NoVersion)
  ELSE Decision(k, kyaml, "rebuild", NextPatch(m.version))

Decide(m, k, kyaml) ==
  LET linked == ByKyaml(m, kyaml)
      known == IF linked = {} THEN NoVersion ELSE CHOOSE v \in linked : TRUE
  IN  IF HasKustomize(m, k) THEN Decision(k, kyaml, "no-op", known)
      ELSE IF linked # {} THEN Decision(k, kyaml, "matrix-only", known)
      ELSE Decision(k, kyaml, "rebuild", NextPatch(m.version))

Joined(r, d) == IF r.kustofmt = d.target THEN [r EXCEPT !.kustomize = @ \cup {d.kustomize}]
                                         ELSE r

\* A defect: a release joins the newest row.
RecordInNewestRow(m, d) ==
  IF d.action = "matrix-only"
    THEN [m EXCEPT !.releases[Len(m.releases)].kustomize = @ \cup {d.kustomize}]
    ELSE [version |-> d.target,
          releases |-> Append(m.releases, Row(d.target, d.kyaml, {d.kustomize}))]

Record(m, d) ==
  IF d.action = "no-op" THEN m
  ELSE IF d.action = "matrix-only"
    THEN [m EXCEPT !.releases = [i \in DOMAIN @ |-> Joined(@[i], d)]]
    ELSE [version |-> d.target,
          releases |-> Append(m.releases, Row(d.target, d.kyaml, {d.kustomize}))]
=============================================================================
