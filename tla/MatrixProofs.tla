---------------------------- MODULE MatrixProofs ----------------------------
(***************************************************************************)
(* What Decide, Record and sort make of a matrix, for every matrix that a  *)
(* command can come to.                                                    *)
(***************************************************************************)
EXTENDS Matrix, OrderProofs, TLAPS

Releases == [kustofmt : Versions, kyaml : Kyamls, kustomize : SUBSET Kustomizes]

\* The rows are in the order of their versions, and none has the version of another.
Ordered(rows) ==
  \A i, j \in DOMAIN rows : i < j => Before(rows[i].kustofmt, rows[j].kustofmt)

Good(m) == m \in Matrices /\ Valid(m) /\ Ordered(m.releases)

\* A decision that Record can carry out, also one that was promoted.
Fits(m, d) ==
  /\ d.kustomize \in Kustomizes /\ d.kyaml \in Kyamls /\ d.target \in Versions
  /\ ~HasKustomize(m, d.kustomize)
  /\ \/ d.action = "matrix-only" /\ \E r \in Rows(m) : r.kustofmt = d.target /\ r.kyaml = d.kyaml
     \/ /\ d.action = "rebuild"
        /\ \A r \in Rows(m) : r.kyaml # d.kyaml
        /\ Before(m.version, d.target)

\* The rows of old are there in new, and new ones have versions that old had not reached.
Grows(old, new) ==
  /\ ~Before(new.version, old.version)
  /\ \A r \in Rows(old) : \E s \in Rows(new) :
       s.kustofmt = r.kustofmt /\ s.kyaml = r.kyaml /\ r.kustomize \subseteq s.kustomize
  /\ \A s \in Rows(new) : ~Before(old.version, s.kustofmt) =>
       \E r \in Rows(old) : r.kustofmt = s.kustofmt /\ r.kyaml = s.kyaml

-----------------------------------------------------------------------------
\* Versions are totally ordered.
LEMMA VersionOrder ==
  /\ \A v \in Versions : ~Before(v, v)
  /\ \A v, w \in Versions : v = w \/ Before(v, w) \/ Before(w, v)
  /\ \A v, w \in Versions : ~(Before(v, w) /\ Before(w, v))
  /\ \A u, v, w \in Versions : Before(u, v) /\ Before(v, w) => Before(u, w)
  /\ \A u, v, w \in Versions : ~Before(u, v) /\ ~Before(v, w) => ~Before(u, w)
<1>1. ASSUME NEW v \in Versions, NEW w \in Versions
      PROVE  v = w \/ Before(v, w) \/ Before(w, v)
  BY DEF Versions, Before
<1>2. \A v \in Versions : v[1] \in Nat /\ v[2] \in Nat
  BY DEF Versions
<1> QED
  BY <1>1, <1>2 DEF Before

\* NextPatch and NextMinor lead to later versions.
LEMMA NextVersions ==
  ASSUME NEW v \in Versions
  PROVE  /\ NextPatch(v) \in Versions /\ Before(v, NextPatch(v))
         /\ NextMinor(v) \in Versions /\ Before(v, NextMinor(v))
BY DEF Versions, NextPatch, NextMinor, Before

\* The rows of a matrix, and what ~Valid could say of them.
LEMMA RowFacts ==
  ASSUME NEW m, Good(m)
  PROVE  /\ m.version \in Versions /\ m.releases \in Seq(Releases)
         /\ Len(m.releases) \in Nat /\ Len(m.releases) > 0
         /\ DOMAIN m.releases = 1..Len(m.releases)
         /\ \A i \in DOMAIN m.releases : m.releases[i] \in Releases
         /\ Rows(m) \subseteq Releases
         /\ Current(m) \in Rows(m)
         /\ \A i \in DOMAIN m.releases : m.releases[i] \in Rows(m)
         /\ \A r \in Rows(m) : \E i \in DOMAIN m.releases : r = m.releases[i]
         /\ \A r \in Rows(m) : ~Before(Current(m).kustofmt, r.kustofmt)
         /\ \A r \in Rows(m) : ~Before(m.version, r.kustofmt)
         /\ \A r, s \in Rows(m) : r.kyaml = s.kyaml \/ r.kustofmt = s.kustofmt => r = s
         /\ \A r, s \in Rows(m) : \A k : k \in r.kustomize /\ k \in s.kustomize => r = s
<1>1. /\ m.version \in Versions /\ m.releases \in Seq(Releases)
      /\ m.releases # <<>>
  BY DEF Good, Valid, Matrices, Releases
<1>2. /\ Len(m.releases) \in Nat /\ Len(m.releases) > 0
      /\ DOMAIN m.releases = 1..Len(m.releases)
      /\ \A i \in DOMAIN m.releases : m.releases[i] \in Releases
  BY <1>1
<1>3. /\ \A i \in DOMAIN m.releases : m.releases[i] \in Rows(m)
      /\ \A r \in Rows(m) : \E i \in DOMAIN m.releases : r = m.releases[i]
      /\ Rows(m) \subseteq Releases
  BY <1>2 DEF Rows
<1>4. Len(m.releases) \in DOMAIN m.releases /\ Current(m) \in Rows(m)
  BY <1>2, <1>3 DEF Current
<1>5. \A r \in Releases : r.kustofmt \in Versions
  BY DEF Releases
<1>6. ASSUME NEW r \in Rows(m)  PROVE ~Before(Current(m).kustofmt, r.kustofmt)
  <2>1. PICK i \in DOMAIN m.releases : r = m.releases[i]
    BY <1>3
  <2>2. CASE i = Len(m.releases)
    BY <1>4, <1>5, <1>3, <2>1, <2>2, VersionOrder DEF Current
  <2>3. CASE i # Len(m.releases)
    <3>1. i < Len(m.releases)
      BY <1>2, <2>3
    <3>2. Before(r.kustofmt, Current(m).kustofmt)
      BY <1>4, <2>1, <3>1 DEF Good, Ordered, Current
    <3> QED
      BY <1>3, <1>4, <1>5, <3>2, VersionOrder
  <2> QED
    BY <2>2, <2>3
<1>7. ASSUME NEW r \in Rows(m)  PROVE ~Before(m.version, r.kustofmt)
  <2>1. ~Before(m.version, Current(m).kustofmt)
    BY DEF Good, Valid
  <2> QED
    BY <1>1, <1>3, <1>4, <1>5, <1>6, <2>1, VersionOrder
<1>8. ASSUME NEW r \in Rows(m), NEW s \in Rows(m), r # s
      PROVE  /\ r.kyaml # s.kyaml /\ r.kustofmt # s.kustofmt
             /\ \A k : ~(k \in r.kustomize /\ k \in s.kustomize)
  <2>1. PICK i \in DOMAIN m.releases, j \in DOMAIN m.releases :
          r = m.releases[i] /\ s = m.releases[j]
    BY <1>3
  <2>2. i # j /\ (i < j \/ j < i)
    BY <1>2, <1>8, <2>1
  <2>3. r.kyaml # s.kyaml /\ r.kustomize \cap s.kustomize = {}
    BY <2>1, <2>2 DEF Good, Valid
  <2>4. Before(r.kustofmt, s.kustofmt) \/ Before(s.kustofmt, r.kustofmt)
    BY <2>1, <2>2 DEF Good, Ordered
  <2> QED
    BY <1>3, <1>5, <2>3, <2>4, VersionOrder
<1> QED
  BY <1>1, <1>2, <1>3, <1>4, <1>6, <1>7, <1>8

-----------------------------------------------------------------------------
\* The only order-preserving rearrangement is none.
LEMMA NoRearrangement ==
  ASSUME NEW n \in Nat, NEW f \in Bijection(1..n, 1..n),
         \A i, j \in 1..n : i < j => f[i] < f[j]
  PROVE  \A i \in 1..n : f[i] = i
<1>1. /\ \A i \in 1..n : f[i] \in 1..n
      /\ \A i, j \in 1..n : f[i] = f[j] => i = j
      /\ \A j \in 1..n : \E i \in 1..n : f[i] = j
  BY DEF Bijection, Injection, Surjection, IsInjective
<1> DEFINE Moved == {i \in 1..n : f[i] # i}
<1>2. SUFFICES ASSUME Moved # {} PROVE FALSE
  OBVIOUS
<1>3. PICK x \in Moved : \A y \in Moved : x <= y
  <2>1. Moved \in SUBSET Nat
    OBVIOUS
  <2> HIDE DEF Moved
  <2> QED
    BY <1>2, <2>1, Least
<1>4. /\ x \in 1..n /\ f[x] \in 1..n /\ f[x] # x
      /\ \A y \in 1..n : f[y] # y => x <= y
  BY <1>1, <1>3
<1>5. ~(f[x] < x)
  <2>1. f[x] < x => f[f[x]] = f[x]
    BY <1>4
  <2> QED
    BY <1>1, <1>4, <2>1
<1>6. ~(x < f[x])
  <2>1. PICK y \in 1..n : f[y] = x
    BY <1>1, <1>4
  <2>2. y < x => f[y] = y
    BY <1>4
  <2>3. x < y => f[x] < f[y]
    BY <1>4
  <2> QED
    BY <1>4, <2>1, <2>2, <2>3
<1> QED
  BY <1>4, <1>5, <1>6

\* Save's sort finds the rows of such a matrix where they belong.
LEMMA SortKeeps ==
  ASSUME NEW m, Good(m)
  PROVE  Sorted(m) = m
<1> DEFINE rows == m.releases
           same == [i \in DOMAIN rows |-> i]
           order == CHOOSE order \in Bijection(DOMAIN rows, DOMAIN rows) : InOrder(rows, order)
<1>1. /\ rows \in Seq(Releases) /\ Len(rows) \in Nat /\ DOMAIN rows = 1..Len(rows)
      /\ \A i \in 1..Len(rows) : rows[i].kustofmt \in Versions
  BY RowFacts DEF Releases
<1>2. \A i, j \in 1..Len(rows) :
        i < j => Before(rows[i].kustofmt, rows[j].kustofmt)
  BY <1>1 DEF Good, Ordered
<1>3. same \in Bijection(DOMAIN rows, DOMAIN rows)
  BY <1>1 DEF Bijection, Injection, Surjection, IsInjective
<1>4. InOrder(rows, same)
  BY <1>1, <1>2 DEF InOrder
<1>5. order \in Bijection(DOMAIN rows, DOMAIN rows) /\ InOrder(rows, order)
  BY <1>3, <1>4
<1> HIDE DEF order
<1>6. \A i \in 1..Len(rows) : order[i] \in 1..Len(rows)
  BY <1>1, <1>5 DEF Bijection, Injection
<1>7. ASSUME NEW i \in 1..Len(rows), NEW j \in 1..Len(rows), i < j
      PROVE  order[i] < order[j]
  <2>1. order[i] \in 1..Len(rows) /\ order[j] \in 1..Len(rows)
    BY <1>6
  <2>2. CASE Before(rows[order[i]].kustofmt, rows[order[j]].kustofmt)
    <3>1. order[i] # order[j]
      BY <1>1, <2>1, <2>2, VersionOrder
    <3>2. ~(order[j] < order[i])
      BY <1>1, <1>2, <2>1, <2>2, VersionOrder
    <3> QED
      BY <2>1, <3>1, <3>2
  <2> QED
    BY <1>1, <1>5, <1>7, <2>2 DEF InOrder
<1>8. \A i \in 1..Len(rows) : order[i] = i
  BY <1>1, <1>5, <1>7, NoRearrangement
<1>9. SortedRows(rows) = [i \in DOMAIN rows |-> rows[order[i]]]
  BY DEF SortedRows, order
<1>10. SortedRows(rows) = rows
  BY <1>1, <1>8, <1>9
<1>11. m = [version |-> m.version, releases |-> m.releases]
  BY DEF Good, Matrices
<1> QED
  BY <1>10, <1>11 DEF Sorted

\* A release joins the row of its kyaml.
LEMMA RecordJoins ==
  ASSUME NEW m, NEW d, Good(m), Fits(m, d), d.action = "matrix-only"
  PROVE  LET new == Record(m, d) IN
         /\ Good(new)
         /\ new.version = m.version
         /\ Current(new).kyaml = Current(m).kyaml
         /\ Current(new).kustofmt = Current(m).kustofmt
         /\ Rows(new) = {Joined(r, d) : r \in Rows(m)}
<1> DEFINE rows == m.releases
           joined == [i \in DOMAIN rows |-> Joined(rows[i], d)]
           new == [version |-> m.version, releases |-> joined]
<1>1. Record(m, d) = new
  <2>1. m = [version |-> m.version, releases |-> m.releases]
    BY DEF Good, Matrices
  <2> QED
    BY <2>1 DEF Record
<1>2. ASSUME NEW r \in Releases
      PROVE  /\ Joined(r, d) \in Releases
             /\ Joined(r, d).kustofmt = r.kustofmt /\ Joined(r, d).kyaml = r.kyaml
             /\ Joined(r, d).kustomize = IF r.kustofmt = d.target
                                           THEN r.kustomize \cup {d.kustomize}
                                           ELSE r.kustomize
  BY DEF Joined, Releases, Fits
<1>3. /\ rows \in Seq(Releases) /\ Len(rows) \in Nat /\ Len(rows) > 0
      /\ DOMAIN rows = 1..Len(rows) /\ \A i \in 1..Len(rows) : rows[i] \in Releases
      /\ m.version \in Versions
  BY RowFacts
<1>4. /\ joined \in Seq(Releases) /\ DOMAIN joined = 1..Len(rows) /\ Len(joined) = Len(rows)
      /\ \A i \in 1..Len(rows) :
           /\ joined[i] = Joined(rows[i], d)
           /\ joined[i].kustofmt = rows[i].kustofmt /\ joined[i].kyaml = rows[i].kyaml
           /\ joined[i].kustomize = IF rows[i].kustofmt = d.target
                                      THEN rows[i].kustomize \cup {d.kustomize}
                                      ELSE rows[i].kustomize
  <2>1. ASSUME NEW i \in 1..Len(rows)
        PROVE  /\ Joined(rows[i], d) \in Releases
               /\ Joined(rows[i], d).kustofmt = rows[i].kustofmt
               /\ Joined(rows[i], d).kyaml = rows[i].kyaml
               /\ Joined(rows[i], d).kustomize = IF rows[i].kustofmt = d.target
                                                   THEN rows[i].kustomize \cup {d.kustomize}
                                                   ELSE rows[i].kustomize
    <3>1. rows[i] \in Releases
      BY <1>3
    <3> QED
      BY <1>2, <3>1
  <2>2. joined = [i \in 1..Len(rows) |-> Joined(rows[i], d)]
    BY <1>3
  <2> HIDE DEF joined, rows
  <2>3. joined \in [1..Len(rows) -> Releases]
    BY <2>1, <2>2
  <2>4. joined \in Seq(Releases) /\ DOMAIN joined = 1..Len(rows) /\ Len(joined) = Len(rows)
    BY <1>3, <2>3, TableIsSeq
  <2> QED
    BY <2>1, <2>2, <2>4
<1> HIDE DEF joined
<1>5. new \in Matrices /\ new.releases = joined /\ new.version = m.version
  BY <1>3, <1>4 DEF Matrices, Releases
<1>6. Rows(new) = {Joined(r, d) : r \in Rows(m)}
  <2>1. Rows(new) = {joined[i] : i \in 1..Len(rows)}
    BY <1>4 DEF Rows
  <2>2. Rows(m) = {rows[i] : i \in 1..Len(rows)}
    BY <1>3 DEF Rows
  <2>3. \A i \in 1..Len(rows) : joined[i] = Joined(rows[i], d)
    BY <1>4
  <2>4. Rows(new) = {Joined(rows[i], d) : i \in 1..Len(rows)}
    BY <2>1, <2>3
  <2> QED
    BY <2>2, <2>4
<1>7. /\ Current(new) = Joined(Current(m), d) /\ Current(m) \in Releases
      /\ Current(new).kyaml = Current(m).kyaml /\ Current(new).kustofmt = Current(m).kustofmt
  <2>1. Len(rows) \in 1..Len(rows)
    BY <1>3
  <2> QED
    BY <1>3, <1>4, <2>1 DEF Current
<1>8. Ordered(joined)
  BY <1>3, <1>4 DEF Good, Ordered
<1>9. ASSUME NEW i \in 1..Len(rows), NEW j \in 1..Len(rows), i # j
      PROVE  /\ joined[i].kyaml # joined[j].kyaml
             /\ joined[i].kustomize \cap joined[j].kustomize = {}
  <2>1. /\ rows[i].kyaml # rows[j].kyaml
        /\ rows[i].kustomize \cap rows[j].kustomize = {}
    BY <1>3, <1>9 DEF Good, Valid
  <2>2. /\ rows[i] \in Rows(m) /\ rows[j] \in Rows(m)
        /\ rows[i] \in Releases /\ rows[j] \in Releases
    BY <1>3 DEF Rows
  <2>3. rows[i].kustofmt # rows[j].kustofmt
    BY <2>1, <2>2, RowFacts
  <2>4. d.kustomize \notin rows[i].kustomize /\ d.kustomize \notin rows[j].kustomize
    BY <2>2 DEF Fits, HasKustomize
  <2> QED
    BY <1>4, <2>1, <2>3, <2>4
<1>10. Valid(new)
  <2>1. ~Before(new.version, Current(new).kustofmt)
    BY <1>5, <1>7 DEF Good, Valid
  <2>2. new.releases # <<>>
    BY <1>3, <1>4, <1>5
  <2> QED
    BY <1>4, <1>5, <1>9, <2>1, <2>2 DEF Valid
<1> QED
  BY <1>1, <1>5, <1>6, <1>7, <1>8, <1>10 DEF Good

\* A rebuild gets a row of its own, after the others.
LEMMA RecordAppends ==
  ASSUME NEW m, NEW d, Good(m), Fits(m, d), d.action = "rebuild"
  PROVE  LET new == Record(m, d) IN
         /\ Good(new)
         /\ new.version = d.target
         /\ Current(new) = Row(d.target, d.kyaml, {d.kustomize})
         /\ Rows(new) = Rows(m) \cup {Row(d.target, d.kyaml, {d.kustomize})}
<1> DEFINE rows == m.releases
           row == Row(d.target, d.kyaml, {d.kustomize})
           longer == Append(rows, row)
           new == [version |-> d.target, releases |-> longer]
<1>1. Record(m, d) = new
  BY DEF Record
<1>2. /\ row \in Releases /\ row.kustofmt = d.target /\ row.kyaml = d.kyaml
      /\ row.kustomize = {d.kustomize} /\ d.target \in Versions
  BY DEF Row, Releases, Fits
<1> HIDE DEF row
<1>3. /\ rows \in Seq(Releases) /\ Len(rows) \in Nat /\ Len(rows) > 0
      /\ DOMAIN rows = 1..Len(rows)
      /\ \A i \in 1..Len(rows) : rows[i] \in Releases /\ rows[i] \in Rows(m)
      /\ m.version \in Versions
  BY RowFacts
<1>4. /\ longer \in Seq(Releases) /\ DOMAIN longer = 1..(Len(rows) + 1)
      /\ Len(longer) = Len(rows) + 1
      /\ \A i \in 1..Len(rows) : longer[i] = rows[i]
      /\ longer[Len(rows) + 1] = row
  BY <1>2, <1>3
<1> HIDE DEF longer
<1>5. new \in Matrices /\ new.releases = longer /\ new.version = d.target
  BY <1>2, <1>4 DEF Matrices, Releases
<1>6. Rows(new) = Rows(m) \cup {row}
  <2>1. \A i \in 1..(Len(rows) + 1) : i \in 1..Len(rows) \/ i = Len(rows) + 1
    BY <1>3
  <2>2. \A i \in 1..Len(rows) : i \in 1..(Len(rows) + 1)
    BY <1>3
  <2>3. Len(rows) + 1 \in 1..(Len(rows) + 1)
    BY <1>3
  <2> QED
    BY <1>3, <1>4, <2>1, <2>2, <2>3 DEF Rows
<1>7. Current(new) = row
  BY <1>4 DEF Current
<1>8. \A r \in Rows(m) :
        /\ Before(r.kustofmt, d.target) /\ r.kyaml # d.kyaml /\ d.kustomize \notin r.kustomize
  <2> TAKE r \in Rows(m)
  <2>1. r.kustofmt \in Versions /\ ~Before(m.version, r.kustofmt)
    BY RowFacts DEF Releases
  <2>2. Before(m.version, d.target) /\ r.kyaml # d.kyaml /\ d.kustomize \notin r.kustomize
    BY DEF Fits, HasKustomize
  <2> QED
    BY <1>2, <1>3, <2>1, <2>2, VersionOrder
<1>9. Ordered(longer)
  <2> SUFFICES ASSUME NEW i \in 1..(Len(rows) + 1), NEW j \in 1..(Len(rows) + 1), i < j
               PROVE  Before(longer[i].kustofmt, longer[j].kustofmt)
    BY <1>4 DEF Ordered
  <2>1. i \in 1..Len(rows)
    BY <1>3
  <2>2. CASE j \in 1..Len(rows)
    BY <1>3, <1>4, <2>1, <2>2 DEF Good, Ordered
  <2>3. CASE j = Len(rows) + 1
    BY <1>2, <1>3, <1>4, <1>8, <2>1, <2>3
  <2> QED
    BY <1>3, <2>2, <2>3
<1>10. ASSUME NEW i \in 1..(Len(rows) + 1), NEW j \in 1..(Len(rows) + 1), i # j
       PROVE  /\ longer[i].kyaml # longer[j].kyaml
              /\ longer[i].kustomize \cap longer[j].kustomize = {}
  <2>1. CASE i \in 1..Len(rows) /\ j \in 1..Len(rows)
    BY <1>3, <1>4, <1>10, <2>1 DEF Good, Valid
  <2>2. CASE i = Len(rows) + 1
    <3>1. j \in 1..Len(rows)
      BY <1>3, <1>10, <2>2
    <3> QED
      BY <1>2, <1>3, <1>4, <1>8, <2>2, <3>1
  <2>3. CASE j = Len(rows) + 1
    <3>1. i \in 1..Len(rows)
      BY <1>3, <1>10, <2>3
    <3> QED
      BY <1>2, <1>3, <1>4, <1>8, <2>3, <3>1
  <2> QED
    BY <1>3, <2>1, <2>2, <2>3
<1>11. Valid(new)
  <2>1. ~Before(new.version, Current(new).kustofmt)
    BY <1>2, <1>5, <1>7, VersionOrder
  <2>2. new.releases # <<>>
    BY <1>3, <1>4, <1>5
  <2> QED
    BY <1>4, <1>5, <1>10, <2>1, <2>2 DEF Valid
<1> QED
  BY <1>1, <1>5, <1>6, <1>7, <1>9, <1>11 DEF Good, row

-----------------------------------------------------------------------------
\* Decide finds what Record can carry out, for a release that is not recorded.
LEMMA DecideFits ==
  ASSUME NEW m, NEW k \in Kustomizes, NEW kyaml \in Kyamls, NEW d, Good(m),
         d = Decide(m, k, kyaml)
  PROVE  /\ d.kustomize = k /\ d.kyaml = kyaml
         /\ d.action \in {"no-op", "matrix-only", "rebuild"}
         /\ d.action = "no-op" <=> HasKustomize(m, k)
         /\ d.action # "no-op" => Fits(m, d)
         /\ d.action = "rebuild" => d.target = NextPatch(m.version)
<1> DEFINE linked == ByKyaml(m, kyaml)
           known == IF linked = {} THEN NoVersion ELSE CHOOSE v \in linked : TRUE
<1>1. CASE HasKustomize(m, k)
  BY <1>1 DEF Decide, Decision
<1>2. CASE ~HasKustomize(m, k) /\ linked # {}
  <2>1. d = Decision(k, kyaml, "matrix-only", known)
    BY <1>2 DEF Decide
  <2>2. known \in linked
    BY <1>2
  <2>3. PICK r \in Rows(m) : r.kyaml = kyaml /\ r.kustofmt = known
    BY <2>2 DEF ByKyaml
  <2>4. known \in Versions
    BY <2>3, RowFacts DEF Releases
  <2> HIDE DEF known
  <2>5. /\ d.kustomize = k /\ d.kyaml = kyaml /\ d.action = "matrix-only" /\ d.target = known
    BY <2>1 DEF Decision
  <2> QED
    BY <1>2, <2>3, <2>4, <2>5 DEF Fits
<1>3. CASE ~HasKustomize(m, k) /\ linked = {}
  <2>1. d = Decision(k, kyaml, "rebuild", NextPatch(m.version))
    BY <1>3 DEF Decide
  <2>2. \A r \in Rows(m) : r.kyaml # kyaml
    BY <1>3 DEF ByKyaml
  <2>3. m.version \in Versions
    BY RowFacts
  <2>4. /\ d.kustomize = k /\ d.kyaml = kyaml /\ d.action = "rebuild"
        /\ d.target = NextPatch(m.version)
    BY <2>1 DEF Decision
  <2> QED
    BY <1>3, <2>2, <2>3, <2>4, NextVersions DEF Fits
<1> QED
  BY <1>1, <1>2, <1>3

\* Nothing is lost by recording, and no version that was reached gets another kyaml.
LEMMA RecordGrows ==
  ASSUME NEW m, NEW d, Good(m), Fits(m, d)
  PROVE  Good(Record(m, d)) /\ Grows(m, Record(m, d))
<1> DEFINE new == Record(m, d)
<1> SUFFICES Good(new) /\ Grows(m, new)
  OBVIOUS
<1>0. /\ m.version \in Versions /\ d.target \in Versions
      /\ \A r \in Rows(m) : r \in Releases
  BY RowFacts DEF Fits
<1>1. CASE d.action = "matrix-only"
  <2>1. /\ Good(new) /\ new.version = m.version
        /\ Rows(new) = {Joined(r, d) : r \in Rows(m)}
    BY <1>1, RecordJoins
  <2>2. \A r \in Rows(m) :
          LET s == Joined(r, d)
          IN  s.kustofmt = r.kustofmt /\ s.kyaml = r.kyaml /\ r.kustomize \subseteq s.kustomize
    BY <1>0 DEF Joined, Releases
  <2> HIDE DEF new
  <2> QED
    BY <1>0, <2>1, <2>2, VersionOrder DEF Grows
<1>2. CASE d.action = "rebuild"
  <2>1. /\ Good(new) /\ new.version = d.target
        /\ Rows(new) = Rows(m) \cup {Row(d.target, d.kyaml, {d.kustomize})}
    BY <1>2, RecordAppends
  <2>2. Before(m.version, d.target)
    BY <1>2 DEF Fits
  <2>3. Row(d.target, d.kyaml, {d.kustomize}).kustofmt = d.target
    BY DEF Row
  <2> HIDE DEF new
  <2> QED
    BY <1>0, <2>1, <2>2, <2>3, VersionOrder DEF Grows
<1> QED
  BY <1>1, <1>2 DEF Fits

\* Growing is a matter of the version and the rows.
LEMMA StillGrows ==
  ASSUME NEW m, NEW n, Good(m), Rows(n) = Rows(m), n.version \in Versions,
         ~Before(n.version, m.version)
  PROVE  Grows(m, n)
BY DEF Grows

LEMMA GrowsFurther ==
  ASSUME NEW a, NEW b, NEW c, Grows(a, b), Grows(b, c),
         Good(a), Good(b), Good(c)
  PROVE  Grows(a, c)
<1>1. /\ a.version \in Versions /\ b.version \in Versions /\ c.version \in Versions
      /\ \A s \in Rows(c) : s.kustofmt \in Versions
  BY RowFacts DEF Releases
<1>2. ~Before(c.version, a.version)
  BY <1>1, VersionOrder DEF Grows
<1>3. ASSUME NEW r \in Rows(a)
      PROVE  \E s \in Rows(c) :
               s.kustofmt = r.kustofmt /\ s.kyaml = r.kyaml /\ r.kustomize \subseteq s.kustomize
  <2>1. PICK t \in Rows(b) :
          t.kustofmt = r.kustofmt /\ t.kyaml = r.kyaml /\ r.kustomize \subseteq t.kustomize
    BY DEF Grows
  <2>2. PICK s \in Rows(c) :
          s.kustofmt = t.kustofmt /\ s.kyaml = t.kyaml /\ t.kustomize \subseteq s.kustomize
    BY DEF Grows
  <2> QED
    BY <2>1, <2>2
<1>4. ASSUME NEW s \in Rows(c), ~Before(a.version, s.kustofmt)
      PROVE  \E r \in Rows(a) : r.kustofmt = s.kustofmt /\ r.kyaml = s.kyaml
  <2>1. ~Before(b.version, s.kustofmt)
    BY <1>1, <1>4, VersionOrder DEF Grows
  <2>2. PICK t \in Rows(b) : t.kustofmt = s.kustofmt /\ t.kyaml = s.kyaml
    BY <2>1 DEF Grows
  <2>3. PICK r \in Rows(a) : r.kustofmt = t.kustofmt /\ r.kyaml = t.kyaml
    BY <1>4, <2>2 DEF Grows
  <2> QED
    BY <2>2, <2>3
<1> QED
  BY <1>2, <1>3, <1>4 DEF Grows

\* A version cut by hand: the rows stay.
LEMMA CutGrows ==
  ASSUME NEW m, Good(m)
  PROVE  LET new == [m EXCEPT !.version = NextPatch(m.version)] IN
         /\ Good(new) /\ Grows(m, new) /\ new.version = NextPatch(m.version)
         /\ Rows(new) = Rows(m) /\ Current(new) = Current(m)
<1> DEFINE v == NextPatch(m.version)
           new == [m EXCEPT !.version = v]
<1>1. /\ m.version \in Versions /\ v \in Versions /\ Before(m.version, v)
      /\ Current(m).kustofmt \in Versions
  BY RowFacts, NextVersions DEF Releases
<1>2. /\ new \in Matrices /\ new.version = v /\ new.releases = m.releases
  BY <1>1 DEF Good, Matrices
<1> HIDE DEF new, v
<1>3. Rows(new) = Rows(m) /\ Current(new) = Current(m)
  BY <1>2 DEF Rows, Current
<1>4. ~Before(v, Current(m).kustofmt) /\ ~Before(v, m.version)
  BY <1>1, VersionOrder DEF Good, Valid
<1>5. Good(new)
  BY <1>2, <1>3, <1>4 DEF Good, Valid
<1>6. Grows(m, new)
  BY <1>1, <1>2, <1>3, <1>4, StillGrows
<1> QED
  BY <1>2, <1>3, <1>5, <1>6 DEF new, v
=============================================================================
