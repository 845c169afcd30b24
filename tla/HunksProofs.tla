----------------------------- MODULE HunksProofs -----------------------------
(***************************************************************************)
(* The patch of format.Diff, for files of any length, any context and any  *)
(* limit on the table.                                                     *)
(***************************************************************************)
EXTENDS Hunks, OrderProofs, FiniteSetTheorems, TLAPS

\* Edits are counted one by one.
LEMMA PassedStep ==
  ASSUME NEW es, NEW kind, NEW k \in Nat
  PROVE  /\ Passed(es, k, kind) \in Nat
         /\ Passed(es, 0, kind) = 0
         /\ Passed(es, k + 1, kind) =
              Passed(es, k, kind) + (IF es[k + 1].kind # kind THEN 1 ELSE 0)
<1> DEFINE P(n) == {i \in 1..n : es[i].kind # kind}
<1>1. IsFiniteSet(P(k)) /\ Cardinality(P(k)) \in Nat
  <2>1. IsFiniteSet(1..k)
    BY FS_Interval
  <2>2. P(k) \in SUBSET (1..k)
    OBVIOUS
  <2>3. IsFiniteSet(P(k))
    BY <2>1, <2>2, FS_Subset
  <2> QED
    BY <2>3, FS_CardinalityType
<1>2. P(0) = {}
  OBVIOUS
<1>3. k + 1 \notin P(k)
  OBVIOUS
<1>4. CASE es[k + 1].kind # kind
  <2>1. P(k + 1) = P(k) \cup {k + 1}
    BY <1>4
  <2>2. Cardinality(P(k) \cup {k + 1}) = Cardinality(P(k)) + 1
    BY <1>1, <1>3, FS_AddElement
  <2> QED
    BY <1>1, <1>2, <1>4, <2>1, <2>2, FS_EmptySet DEF Passed
<1>5. CASE es[k + 1].kind = kind
  <2>1. P(k + 1) = P(k)
    BY <1>5
  <2>2. Passed(es, k + 1, kind) = Passed(es, k, kind) /\ Passed(es, k, kind) \in Nat
    BY <1>1, <2>1 DEF Passed
  <2>3. Passed(es, 0, kind) = 0
    BY <1>2, FS_EmptySet DEF Passed
  <2> QED
    BY <1>5, <2>2, <2>3
<1> QED
  BY <1>4, <1>5

\* What comes later does not count.
LEMMA PassedAgree ==
  ASSUME NEW es, NEW fs, NEW kind, NEW k \in Nat, \A i \in 1..k : fs[i] = es[i]
  PROVE  Passed(fs, k, kind) = Passed(es, k, kind)
<1>1. {i \in 1..k : fs[i].kind # kind} = {i \in 1..k : es[i].kind # kind}
  OBVIOUS
<1> QED
  BY <1>1 DEF Passed

\* A piece of a script counts what the script counts beyond its beginning.
IsGap(s, es, a, b) ==
  /\ Len(s) = b - a
  /\ \A k \in 1..(b - a) : s[k] = es[a + k]

Shifted(es, fs, from, to, kind) ==
  \A k \in 0..(to - from) : Passed(es, from + k, kind) = Passed(es, from, kind) + Passed(fs, k, kind)

LEMMA PassedShift ==
  ASSUME NEW es, NEW fs, NEW kind, NEW from \in Nat, NEW to \in Nat, from <= to,
         IsGap(fs, es, from, to)
  PROVE  Shifted(es, fs, from, to, kind)
<1> DEFINE B == {k \in 0..(to - from) :
                   Passed(es, from + k, kind) = Passed(es, from, kind) + Passed(fs, k, kind)}
<1>0. PICK n \in Nat : n = to - from
  OBVIOUS
<1>1. 0 \in B
  <2>1. Passed(fs, 0, kind) = 0 /\ Passed(es, from, kind) \in Nat /\ from + 0 = from
    BY PassedStep
  <2> QED
    BY <2>1
<1>2. ASSUME NEW k \in 0..n, k \in B, k < n  PROVE k + 1 \in B
  <2>1. /\ Passed(fs, k, kind) \in Nat
        /\ Passed(fs, k + 1, kind) = Passed(fs, k, kind) + (IF fs[k + 1].kind # kind THEN 1 ELSE 0)
    BY PassedStep
  <2>2. /\ Passed(es, from + k, kind) \in Nat /\ Passed(es, from, kind) \in Nat
        /\ Passed(es, (from + k) + 1, kind) =
             Passed(es, from + k, kind) + (IF es[(from + k) + 1].kind # kind THEN 1 ELSE 0)
    BY PassedStep
  <2>3. (from + k) + 1 = from + (k + 1) /\ k + 1 \in 1..n /\ k + 1 \in 0..n
    BY <1>2
  <2>4. fs[k + 1] = es[(from + k) + 1]
    BY <1>0, <2>3 DEF IsGap
  <2>5. Passed(es, from + k, kind) = Passed(es, from, kind) + Passed(fs, k, kind)
    BY <1>2
  <2>6. Passed(es, from + (k + 1), kind) = Passed(es, from, kind) + Passed(fs, k + 1, kind)
    BY <2>1, <2>2, <2>3, <2>4, <2>5
  <2> QED
    BY <1>0, <2>3, <2>6
<1> HIDE DEF B
<1>3. 0..n \subseteq B
  BY <1>1, <1>2, Climb
<1> QED
  BY <1>0, <1>3 DEF B, Shifted

AllEqual(es, from, to) == \A k \in (from + 1)..to : es[k].kind = "equal"

LEMMA EqualWithin ==
  ASSUME NEW es, NEW from, NEW to, AllEqual(es, from, to), from \in Nat, to \in Nat,
         NEW a \in Nat, NEW b \in Nat, from <= a, b <= to
  PROVE  AllEqual(es, a, b)
<1>1. ASSUME NEW k \in (a + 1)..b  PROVE k \in (from + 1)..to
  OBVIOUS
<1> QED
  BY <1>1 DEF AllEqual

\* Unchanged lines count in both files.
LEMMA PassedEqual ==
  ASSUME NEW es, NEW kind, kind # "equal", NEW from \in Nat, NEW to \in Nat, from <= to,
         AllEqual(es, from, to)
  PROVE  Passed(es, to, kind) = Passed(es, from, kind) + (to - from)
<1> DEFINE n == to - from
<1>0. n \in Nat /\ n \in 0..n /\ from + n = to
  OBVIOUS
<1>4. \A i \in 1..n : es[from + i].kind = "equal"
  <2>1. \A i \in 1..n : from + i \in (from + 1)..to
    BY <1>0
  <2> QED
    BY <2>1 DEF AllEqual
<1> HIDE DEF n
<1> DEFINE B == {k \in 0..n : Passed(es, from + k, kind) = Passed(es, from, kind) + k}
<1>1. 0 \in B
  <2>1. Passed(es, from, kind) \in Nat /\ from + 0 = from
    BY PassedStep
  <2> QED
    BY <1>0, <2>1
<1>2. ASSUME NEW k \in 0..n, k \in B, k < n  PROVE k + 1 \in B
  <2>1. /\ Passed(es, from + k, kind) \in Nat /\ Passed(es, from, kind) \in Nat
        /\ Passed(es, (from + k) + 1, kind) =
             Passed(es, from + k, kind) + (IF es[(from + k) + 1].kind # kind THEN 1 ELSE 0)
    BY PassedStep
  <2>2. (from + k) + 1 = from + (k + 1) /\ k + 1 \in 1..n /\ k + 1 \in 0..n
    BY <1>0, <1>2
  <2>3. es[(from + k) + 1].kind # kind
    BY <1>4, <2>2
  <2>4. Passed(es, from + (k + 1), kind) = Passed(es, from, kind) + (k + 1)
    BY <1>2, <2>1, <2>2, <2>3
  <2> QED
    BY <2>2, <2>4
<1> HIDE DEF B
<1>3. 0..n \subseteq B
  BY <1>0, <1>1, <1>2, Climb
<1> QED
  BY <1>0, <1>3 DEF B, n

\* Nobody passes fewer lines by going on.
LEMMA PassedGrows ==
  ASSUME NEW es, NEW kind, NEW k \in Nat, NEW l \in Nat, k <= l
  PROVE  Passed(es, k, kind) <= Passed(es, l, kind)
<1> DEFINE P(n) == {i \in 1..n : es[i].kind # kind}
<1>1. IsFiniteSet(P(l))
  <2>1. IsFiniteSet(1..l)
    BY FS_Interval
  <2>2. P(l) \in SUBSET (1..l)
    OBVIOUS
  <2> QED
    BY <2>1, <2>2, FS_Subset
<1>2. P(k) \in SUBSET P(l)
  OBVIOUS
<1>3. Cardinality(P(k)) <= Cardinality(P(l))
  BY <1>1, <1>2, FS_Subset
<1> QED
  BY <1>3 DEF Passed

-----------------------------------------------------------------------------
(***************************************************************************)
(* The script: edit by edit, the line it names is the one that is passed.  *)
(***************************************************************************)
SrcLine == [text : Texts, noEOL : BOOLEAN]

Follows(es, o, n) ==
  \A k \in DOMAIN es :
    /\ es[k].kind # "insert" => es[k].line = o[Passed(es, k, "insert")]
    /\ es[k].kind # "delete" => es[k].line = n[Passed(es, k, "delete")]

\* A file as lines.
LEMMA LinesOf ==
  ASSUME NEW file \in Files
  PROVE  /\ file.texts \in Seq(Texts) /\ file.ended \in BOOLEAN
         /\ SplitLines(file) \in Seq(SrcLine)
         /\ Len(SplitLines(file)) = Len(file.texts) /\ Len(file.texts) \in Nat
         /\ DOMAIN SplitLines(file) = 1..Len(file.texts)
<1>1. file.texts \in BoundedSeq(Texts, MaxLines) /\ file.ended \in BOOLEAN
  BY DEF Files
<1>2. PICK n \in 0..MaxLines : file.texts \in [1..n -> Texts]
  BY <1>1 DEF BoundedSeq, SeqOf
<1>3. n \in Nat
  BY CellsAssumption
<1>4. file.texts \in Seq(Texts) /\ DOMAIN file.texts = 1..n /\ Len(file.texts) = n
  BY <1>2, <1>3, TableIsSeq
<1>5. SplitLines(file) \in [1..n -> SrcLine]
  BY <1>1, <1>2, <1>4 DEF SplitLines, SrcLine
<1>6. /\ SplitLines(file) \in Seq(SrcLine)
      /\ DOMAIN SplitLines(file) = 1..n /\ Len(SplitLines(file)) = n
  BY <1>3, <1>5, TableIsSeq
<1> QED
  BY <1>1, <1>3, <1>4, <1>6

\* Two files are the same if they have the same lines, the final newline included.
LEMMA LinesTell ==
  ASSUME NEW f \in Files, NEW g \in Files, SplitLines(f) = SplitLines(g)
  PROVE  f = g
<1>1. /\ f.texts \in Seq(Texts) /\ g.texts \in Seq(Texts)
      /\ DOMAIN SplitLines(f) = 1..Len(f.texts) /\ DOMAIN SplitLines(g) = 1..Len(g.texts)
      /\ Len(f.texts) \in Nat /\ Len(g.texts) \in Nat
      /\ Len(SplitLines(f)) = Len(f.texts) /\ Len(SplitLines(g)) = Len(g.texts)
  BY LinesOf
<1>2. Len(f.texts) = Len(g.texts)
  BY <1>1
<1>3. ASSUME NEW i \in 1..Len(f.texts)
      PROVE  /\ SplitLines(f)[i].text = f.texts[i] /\ SplitLines(g)[i].text = g.texts[i]
             /\ SplitLines(f)[i].noEOL = (i = Len(f.texts) /\ ~f.ended)
             /\ SplitLines(g)[i].noEOL = (i = Len(g.texts) /\ ~g.ended)
  <2>1. i \in DOMAIN f.texts /\ i \in DOMAIN g.texts
    BY <1>1, <1>2
  <2> QED
    BY <2>1 DEF SplitLines
<1>4. \A i \in 1..Len(f.texts) : f.texts[i] = g.texts[i]
  BY <1>3
<1>5. f.texts = g.texts
  BY <1>1, <1>2, <1>4
<1>6. f.ended = g.ended
  <2>1. CASE f.texts = <<>>
    BY <1>5, <2>1 DEF Files
  <2>2. CASE f.texts # <<>>
    <3>1. Len(f.texts) \in 1..Len(f.texts)
      BY <1>1, <2>2
    <3>2. SplitLines(f)[Len(f.texts)].noEOL = ~f.ended /\ SplitLines(g)[Len(f.texts)].noEOL = ~g.ended
      <4>1. /\ SplitLines(f)[Len(f.texts)].noEOL = (Len(f.texts) = Len(f.texts) /\ ~f.ended)
            /\ SplitLines(g)[Len(f.texts)].noEOL = (Len(f.texts) = Len(g.texts) /\ ~g.ended)
        BY <1>3, <3>1
      <4> QED
        BY <1>2, <4>1, Zenon
    <3>3. f.ended \in BOOLEAN /\ g.ended \in BOOLEAN
      BY LinesOf
    <3> QED
      BY <3>2, <3>3
  <2> QED
    BY <2>1, <2>2
<1>7. f = [texts |-> f.texts, ended |-> f.ended] /\ g = [texts |-> g.texts, ended |-> g.ended]
  BY DEF Files
<1> QED
  BY <1>5, <1>6, <1>7

\* One more edit that names the next line.
LEMMA OneEdit ==
  ASSUME NEW es \in Seq(Edit), NEW e \in Edit, NEW o, NEW n, Follows(es, o, n),
         e.kind # "insert" => e.line = o[Passed(es, Len(es), "insert") + 1],
         e.kind # "delete" => e.line = n[Passed(es, Len(es), "delete") + 1]
  PROVE  /\ Append(es, e) \in Seq(Edit) /\ Len(Append(es, e)) = Len(es) + 1 /\ Len(es) \in Nat
         /\ Follows(Append(es, e), o, n)
         /\ \A kind \in Kinds :
              Passed(Append(es, e), Len(es) + 1, kind) =
                Passed(es, Len(es), kind) + (IF e.kind # kind THEN 1 ELSE 0)
<1> DEFINE fs == Append(es, e)
<1>1. /\ fs \in Seq(Edit) /\ Len(fs) = Len(es) + 1 /\ Len(es) \in Nat
      /\ DOMAIN es = 1..Len(es) /\ DOMAIN fs = 1..(Len(es) + 1)
      /\ \A i \in 1..Len(es) : fs[i] = es[i]
      /\ fs[Len(es) + 1] = e
  OBVIOUS
<1> HIDE DEF fs
<1>2. ASSUME NEW k \in 1..Len(es), NEW kind  PROVE Passed(fs, k, kind) = Passed(es, k, kind)
  <2>1. k \in Nat /\ \A i \in 1..k : fs[i] = es[i]
    BY <1>1
  <2> QED
    BY <2>1, PassedAgree
<1>3. ASSUME NEW kind
      PROVE  Passed(fs, Len(es) + 1, kind) =
               Passed(es, Len(es), kind) + (IF e.kind # kind THEN 1 ELSE 0)
  <2>1. Passed(fs, Len(es), kind) = Passed(es, Len(es), kind)
    BY <1>1, PassedAgree
  <2>2. Passed(fs, Len(es) + 1, kind) =
          Passed(fs, Len(es), kind) + (IF fs[Len(es) + 1].kind # kind THEN 1 ELSE 0)
    BY <1>1, PassedStep
  <2> QED
    BY <1>1, <2>1, <2>2
<1>4. Follows(fs, o, n)
  <2> SUFFICES ASSUME NEW k \in 1..(Len(es) + 1)
               PROVE  /\ fs[k].kind # "insert" => fs[k].line = o[Passed(fs, k, "insert")]
                      /\ fs[k].kind # "delete" => fs[k].line = n[Passed(fs, k, "delete")]
    BY <1>1 DEF Follows
  <2>1. CASE k \in 1..Len(es)
    <3>1. fs[k] = es[k] /\ k \in DOMAIN es
      BY <1>1, <2>1
    <3>2. Passed(fs, k, "insert") = Passed(es, k, "insert") /\ Passed(fs, k, "delete") = Passed(es, k, "delete")
      BY <1>2, <2>1
    <3> QED
      BY <3>1, <3>2 DEF Follows
  <2>2. CASE k = Len(es) + 1
    <3>1. e.kind # "insert" => Passed(fs, k, "insert") = Passed(es, Len(es), "insert") + 1
      BY <1>3, <2>2
    <3>2. e.kind # "delete" => Passed(fs, k, "delete") = Passed(es, Len(es), "delete") + 1
      BY <1>3, <2>2
    <3> QED
      BY <1>1, <2>2, <3>1, <3>2
  <2> QED
    BY <1>1, <2>1, <2>2
<1> QED
  BY <1>1, <1>3, <1>4 DEF fs

Idle == taken = 0 /\ cur = None /\ pending = <<>> /\ out = <<>>

\* How far the script has got, and that the two middles end together.
Building ==
  /\ Idle
  /\ oldLine = Passed(edits, Len(edits), "insert") /\ oldLine <= Len(OldLines)
  /\ newLine = Passed(edits, Len(edits), "delete") /\ newLine <= Len(NewLines)
  /\ pc = "trim" => /\ oldLine + tail <= Len(OldLines) /\ newLine + tail <= Len(NewLines)
                    /\ oldLine = newLine
                    /\ tail = 0 \/ ~SameLine
  /\ pc \in {"walk", "rest"} =>
       \/ oldLine <= OldEnd /\ newLine <= NewEnd
       \/ /\ OldEnd <= oldLine /\ NewEnd <= newLine
          /\ Len(OldLines) - oldLine = Len(NewLines) - newLine

Complete ==
  /\ Passed(edits, Len(edits), "insert") = Len(OldLines)
  /\ Passed(edits, Len(edits), "delete") = Len(NewLines)

SameTail ==
  /\ tail \in Nat /\ tail <= Len(OldLines) /\ tail <= Len(NewLines)
  /\ \A t \in 0..(tail - 1) : OldLines[Len(OldLines) - t] = NewLines[Len(NewLines) - t]

ScriptInv ==
  /\ old \in Files /\ new \in Files /\ edits \in Seq(Edit)
  /\ pc \in {"start", "trim", "walk", "rest", "group", "done"}
  /\ Follows(edits, OldLines, NewLines)
  /\ SameTail
  /\ pc \in {"start", "trim", "walk", "rest"} => Building
  /\ pc = "start" => edits = <<>> /\ tail = 0
  /\ pc \in {"trim", "walk", "rest", "group"} => old # new
  /\ pc = "group" => Complete
  /\ pc = "done" => (old = new /\ Idle) \/ (old # new /\ Complete)

\* The lines of both files, and the way back from a name to its definition.
LEMMA BothLines ==
  ASSUME old \in Files, new \in Files
  PROVE  /\ OldLines \in Seq(SrcLine) /\ NewLines \in Seq(SrcLine)
         /\ Len(OldLines) = Len(old.texts) /\ Len(NewLines) = Len(new.texts)
         /\ Len(OldLines) \in Nat /\ Len(NewLines) \in Nat
         /\ DOMAIN OldLines = 1..Len(OldLines) /\ DOMAIN NewLines = 1..Len(NewLines)
         /\ UNCHANGED files => OldLines' = OldLines /\ NewLines' = NewLines
BY LinesOf DEF OldLines, NewLines, files, SplitLines

LEMMA Emitted ==
  ASSUME ScriptInv, pc \in {"trim", "walk", "rest"}, NEW kind \in Kinds, Emit(kind),
         kind # "insert" => oldLine < Len(OldLines),
         kind # "delete" => newLine < Len(NewLines),
         kind = "equal" => OldLines[oldLine + 1] = NewLines[newLine + 1]
  PROVE  /\ edits' \in Seq(Edit) /\ Follows(edits', OldLines, NewLines)
         /\ oldLine' = Passed(edits', Len(edits'), "insert") /\ oldLine' <= Len(OldLines)
         /\ newLine' = Passed(edits', Len(edits'), "delete") /\ newLine' <= Len(NewLines)
<1> DEFINE e == [kind |-> kind, line |-> IF kind = "insert" THEN NewLines[newLine + 1]
                                                            ELSE OldLines[oldLine + 1]]
<1>1. /\ OldLines \in Seq(SrcLine) /\ NewLines \in Seq(SrcLine)
      /\ Len(OldLines) \in Nat /\ Len(NewLines) \in Nat
      /\ DOMAIN OldLines = 1..Len(OldLines) /\ DOMAIN NewLines = 1..Len(NewLines)
  BY BothLines DEF ScriptInv
<1>2. /\ edits \in Seq(Edit) /\ Len(edits) \in Nat /\ Follows(edits, OldLines, NewLines)
      /\ oldLine = Passed(edits, Len(edits), "insert") /\ oldLine \in Nat /\ oldLine <= Len(OldLines)
      /\ newLine = Passed(edits, Len(edits), "delete") /\ newLine \in Nat /\ newLine <= Len(NewLines)
  <2>1. edits \in Seq(Edit) /\ Building /\ Follows(edits, OldLines, NewLines)
    BY DEF ScriptInv
  <2>2. Len(edits) \in Nat
    BY <2>1
  <2>3. Passed(edits, Len(edits), "insert") \in Nat /\ Passed(edits, Len(edits), "delete") \in Nat
    BY <2>2, PassedStep
  <2> QED
    BY <2>1, <2>2, <2>3 DEF Building
<1>3. e.line \in SrcLine
  <2>1. CASE kind = "insert"
    <3>1. newLine + 1 \in 1..Len(NewLines)
      BY <1>1, <1>2, <2>1
    <3>2. NewLines[newLine + 1] \in SrcLine
      BY <1>1, <3>1
    <3> QED
      BY <2>1, <3>2
  <2>2. CASE kind # "insert"
    <3>1. oldLine + 1 \in 1..Len(OldLines)
      BY <1>1, <1>2, <2>2
    <3>2. OldLines[oldLine + 1] \in SrcLine
      BY <1>1, <3>1
    <3> QED
      BY <2>2, <3>2
  <2> QED
    BY <2>1, <2>2
<1>4. e \in Edit /\ e.kind = kind
  BY <1>3 DEF Edit, SrcLine
<1>5. /\ kind # "insert" => e.line = OldLines[Passed(edits, Len(edits), "insert") + 1]
      /\ kind # "delete" => e.line = NewLines[Passed(edits, Len(edits), "delete") + 1]
  BY <1>2 DEF Kinds
<1>6. edits' = Append(edits, e)
  BY DEF Emit
<1>7. /\ oldLine' = oldLine + (IF kind # "insert" THEN 1 ELSE 0)
      /\ newLine' = newLine + (IF kind # "delete" THEN 1 ELSE 0)
  BY <1>2 DEF Emit, Pass
<1> HIDE DEF e
<1>8. /\ edits' \in Seq(Edit) /\ Follows(edits', OldLines, NewLines) /\ Len(edits') = Len(edits) + 1
      /\ \A k \in Kinds :
           Passed(edits', Len(edits) + 1, k) = Passed(edits, Len(edits), k) + (IF kind # k THEN 1 ELSE 0)
  BY <1>2, <1>4, <1>5, <1>6, OneEdit
<1>9. "insert" \in Kinds /\ "delete" \in Kinds
  BY DEF Kinds
<1>10. oldLine' = Passed(edits', Len(edits'), "insert") /\ newLine' = Passed(edits', Len(edits'), "delete")
  BY <1>2, <1>7, <1>8, <1>9
<1>11. oldLine' <= Len(OldLines) /\ newLine' <= Len(NewLines)
  BY <1>1, <1>2, <1>7
<1> QED
  BY <1>8, <1>10, <1>11

LEMMA InitScript ==
  Init => ScriptInv
<1> SUFFICES ASSUME Init PROVE ScriptInv
  OBVIOUS
<1>1. Len(<<>>) = 0 /\ <<>> \in Seq(Edit) /\ DOMAIN <<>> = {}
  OBVIOUS
<1>2. /\ Passed(edits, 0, "insert") = 0 /\ Passed(edits, 0, "delete") = 0
      /\ Len(OldLines) \in Nat /\ Len(NewLines) \in Nat
  BY PassedStep, BothLines DEF Init, ScriptInit
<1>3. Building
  BY <1>1, <1>2 DEF Init, ScriptInit, Building, Idle
<1>4. Follows(edits, OldLines, NewLines) /\ SameTail
  BY <1>1, <1>2 DEF Init, ScriptInit, Follows, SameTail
<1> QED
  BY <1>1, <1>3, <1>4 DEF Init, ScriptInit, ScriptInv

LEMMA NextScript ==
  ScriptInv /\ [Next]_vars => ScriptInv'
<1> SUFFICES ASSUME ScriptInv, [Next]_vars PROVE ScriptInv'
  OBVIOUS
<1> USE DEF grouped
<1>0. /\ UNCHANGED files /\ OldLines' = OldLines /\ NewLines' = NewLines
      /\ Len(OldLines) \in Nat /\ Len(NewLines) \in Nat
      /\ Len(edits) \in Nat /\ tail \in Nat
      /\ Passed(edits, Len(edits), "insert") \in Nat /\ Passed(edits, Len(edits), "delete") \in Nat
  <2>1. UNCHANGED files
    BY DEF Next, NoDifference, Start, Script, Prefix, Suffix, Middle, Walk, Rest, Group, Hold,
           Follow, Split, Change, Finish, Take, vars
  <2>2. Len(edits) \in Nat
    BY DEF ScriptInv
  <2> QED
    BY <2>1, <2>2, BothLines, PassedStep DEF ScriptInv, SameTail
<1>1. ASSUME UNCHANGED <<edits, tail>>  PROVE Follows(edits, OldLines, NewLines)' /\ SameTail'
  BY <1>0, <1>1 DEF ScriptInv, Follows, SameTail, Passed
<1>2. ASSUME UNCHANGED grouped, ScriptInv, Building  PROVE Idle'
  BY <1>2 DEF Building, Idle
<1>3. CASE NoDifference
  BY <1>0, <1>1, <1>3 DEF NoDifference, ScriptInv, Building, Idle, files
<1>4. CASE Start
  <2>1. /\ Building /\ old # new /\ pc' = "trim" /\ edits = <<>> /\ tail = 0
        /\ UNCHANGED <<files, edits, oldLine, newLine, tail, grouped>>
    BY <1>4 DEF Start, ScriptInv
  <2>2. Building'
    BY <1>0, <2>1 DEF Building, Idle, Passed
  <2> QED
    BY <1>0, <1>1, <2>1, <2>2 DEF ScriptInv, files
<1>5. CASE Prefix /\ UNCHANGED grouped
  <2>1. /\ Building /\ old # new /\ pc = "trim" /\ pc' = "trim" /\ SameLine /\ Emit("equal") /\ tail' = tail
    BY <1>5 DEF Prefix, ScriptInv
  <2>2. /\ edits' \in Seq(Edit) /\ Follows(edits', OldLines, NewLines)
        /\ oldLine' = Passed(edits', Len(edits'), "insert") /\ oldLine' <= Len(OldLines)
        /\ newLine' = Passed(edits', Len(edits'), "delete") /\ newLine' <= Len(NewLines)
    BY <2>1, Emitted DEF SameLine, Kinds
  <2>3. tail = 0
    BY <2>1 DEF Building
  <2>4. oldLine' \in Nat /\ newLine' \in Nat
    <3>1. Len(edits') \in Nat
      BY <2>2
    <3> QED
      BY <2>2, <3>1, PassedStep
  <2>5. oldLine' + tail <= Len(OldLines) /\ newLine' + tail <= Len(NewLines)
    BY <2>2, <2>3, <2>4
  <2>6. SameTail'
    BY <1>0, <2>1 DEF ScriptInv, SameTail
  <2>7. Building'
    <3>1. oldLine' = newLine'
      BY <2>1 DEF Building, Emit, Pass
    <3> QED
      BY <1>0, <1>2, <1>5, <2>1, <2>2, <2>3, <2>5, <3>1 DEF Building
  <2> QED
    BY <1>0, <2>1, <2>2, <2>6, <2>7 DEF ScriptInv, files
<1>6. CASE Suffix /\ UNCHANGED grouped
  <2>1. /\ Building /\ pc = "trim" /\ pc' = "trim" /\ SameSuffix /\ tail' = tail + 1
        /\ UNCHANGED <<files, edits, oldLine, newLine>> /\ old # new
    BY <1>6 DEF Suffix, ScriptInv
  <2>2. oldLine \in Nat /\ newLine \in Nat
    BY <1>0, <2>1 DEF Building
  <2>3. SameTail'
    <3>1. tail' \in Nat /\ tail' <= Len(OldLines) /\ tail' <= Len(NewLines)
      BY <1>0, <2>1, <2>2 DEF SameSuffix
    <3>2. \A t \in 0..(tail' - 1) : t \in 0..(tail - 1) \/ t = tail
      BY <1>0, <2>1
    <3>3. \A t \in 0..(tail' - 1) : OldLines[Len(OldLines) - t] = NewLines[Len(NewLines) - t]
      BY <2>1, <3>2 DEF ScriptInv, SameTail, SameSuffix
    <3> QED
      BY <1>0, <3>1, <3>3 DEF SameTail
  <2>4. Building'
    <3>1. oldLine + tail' <= Len(OldLines) /\ newLine + tail' <= Len(NewLines)
      BY <1>0, <2>1, <2>2 DEF SameSuffix
    <3>2. ~SameLine'
      BY <1>0, <1>6, <2>1 DEF Suffix, SameLine
    <3> QED
      BY <1>0, <1>2, <1>6, <2>1, <3>1, <3>2 DEF Building, Passed
  <2>5. Follows(edits, OldLines, NewLines)'
    BY <1>0, <2>1 DEF ScriptInv, Follows, Passed
  <2> QED
    BY <1>0, <2>1, <2>3, <2>4, <2>5 DEF ScriptInv, files
<1>7. CASE Middle /\ UNCHANGED grouped
  <2>1. /\ Building /\ pc = "trim" /\ pc' \in {"walk", "rest"} /\ old # new
        /\ UNCHANGED <<files, edits, oldLine, newLine, tail>>
    BY <1>7 DEF Middle, ScriptInv
  <2>2. Building'
    <3>1. oldLine \in Nat /\ newLine \in Nat
      BY <1>0, <2>1 DEF Building
    <3>2. oldLine <= OldEnd /\ newLine <= NewEnd
      BY <1>0, <2>1, <3>1 DEF Building, OldEnd, NewEnd
    <3> QED
      BY <1>0, <1>2, <1>7, <2>1, <3>2 DEF Building, OldEnd, NewEnd, Passed
  <2> QED
    BY <1>0, <1>1, <2>1, <2>2 DEF ScriptInv, files
<1>8. ASSUME UNCHANGED grouped, pc \in {"walk", "rest"}, pc' = pc, tail' = tail,
             NEW kind \in Kinds, Emit(kind),
             kind # "insert" => oldLine < Len(OldLines),
             kind # "delete" => newLine < Len(NewLines),
             kind = "equal" => OldLines[oldLine + 1] = NewLines[newLine + 1],
             \/ oldLine' <= OldEnd /\ newLine' <= NewEnd
             \/ /\ OldEnd <= oldLine' /\ NewEnd <= newLine'
                /\ Len(OldLines) - oldLine' = Len(NewLines) - newLine'
      PROVE  ScriptInv'
  <2>1. /\ edits' \in Seq(Edit) /\ Follows(edits', OldLines, NewLines)
        /\ oldLine' = Passed(edits', Len(edits'), "insert") /\ oldLine' <= Len(OldLines)
        /\ newLine' = Passed(edits', Len(edits'), "delete") /\ newLine' <= Len(NewLines)
    BY <1>8, Emitted
  <2>2. Building /\ old # new
    BY <1>8 DEF ScriptInv
  <2>3. OldEnd' = OldEnd /\ NewEnd' = NewEnd
    BY <1>0, <1>8 DEF OldEnd, NewEnd
  <2>4. Building'
    BY <1>0, <1>2, <1>8, <2>1, <2>2, <2>3 DEF Building
  <2>5. SameTail'
    BY <1>0, <1>8 DEF ScriptInv, SameTail
  <2>6. old' = old /\ new' = new /\ old \in Files /\ new \in Files
    BY <1>8, <1>0 DEF ScriptInv, files
  <2> QED
    BY <1>0, <1>8, <2>1, <2>2, <2>4, <2>5, <2>6 DEF ScriptInv
<1>9. ASSUME pc \in {"walk", "rest"}
      PROVE  /\ oldLine \in Nat /\ newLine \in Nat /\ OldEnd \in Nat /\ NewEnd \in Nat
             /\ OldEnd = Len(OldLines) - tail /\ NewEnd = Len(NewLines) - tail
             /\ oldLine <= Len(OldLines) /\ newLine <= Len(NewLines)
             /\ \/ oldLine <= OldEnd /\ newLine <= NewEnd
                \/ /\ OldEnd <= oldLine /\ NewEnd <= newLine
                   /\ Len(OldLines) - oldLine = Len(NewLines) - newLine
  <2>1. Building /\ SameTail
    BY <1>9 DEF ScriptInv
  <2>2. oldLine \in Nat /\ newLine \in Nat
    BY <1>0, <2>1 DEF Building
  <2>3. OldEnd = Len(OldLines) - tail /\ NewEnd = Len(NewLines) - tail
    BY DEF OldEnd, NewEnd
  <2>4. OldEnd \in Nat /\ NewEnd \in Nat
    BY <1>0, <2>1, <2>3 DEF SameTail
  <2> QED
    BY <1>9, <2>1, <2>2, <2>3, <2>4 DEF Building
<1>10. CASE Walk /\ UNCHANGED grouped
  <2>1. pc = "walk" /\ oldLine < OldEnd /\ newLine < NewEnd /\ pc' = pc /\ tail' = tail
    BY <1>10 DEF Walk, Walking
  <2>2. PICK kind \in Kinds : Emit(kind) /\ (kind = "equal" => SameLine)
    BY <1>10 DEF Walk, Kinds
  <2>3. oldLine' <= OldEnd /\ newLine' <= NewEnd
    BY <1>9, <2>1, <2>2 DEF Emit, Pass
  <2>4. oldLine < Len(OldLines) /\ newLine < Len(NewLines)
    BY <1>0, <1>9, <2>1
  <2>5. kind = "equal" => OldLines[oldLine + 1] = NewLines[newLine + 1]
    BY <2>2 DEF SameLine
  <2> QED
    BY <1>8, <1>10, <2>1, <2>2, <2>3, <2>4, <2>5
<1>11. CASE Rest /\ UNCHANGED grouped
  <2>1. /\ pc \in {"walk", "rest"} /\ pc' = pc /\ tail' = tail
        /\ oldLine < Len(OldLines) \/ newLine < Len(NewLines)
        /\ Emit(IF oldLine < OldEnd THEN "delete" ELSE IF newLine < NewEnd THEN "insert" ELSE "equal")
    BY <1>11 DEF Rest
  <2>2. CASE oldLine < OldEnd
    <3>1. Emit("delete")
      BY <2>1, <2>2
    <3>2. oldLine < Len(OldLines) /\ oldLine' <= OldEnd /\ newLine' <= NewEnd
      BY <1>0, <1>9, <2>1, <2>2, <3>1 DEF Emit, Pass
    <3> QED
      BY <1>8, <1>11, <2>1, <3>1, <3>2 DEF Kinds
  <2>3. CASE ~(oldLine < OldEnd) /\ newLine < NewEnd
    <3>1. Emit("insert")
      BY <2>1, <2>3
    <3>2. newLine < Len(NewLines) /\ oldLine' <= OldEnd /\ newLine' <= NewEnd
      BY <1>0, <1>9, <2>1, <2>3, <3>1 DEF Emit, Pass
    <3> QED
      BY <1>8, <1>11, <2>1, <3>1, <3>2 DEF Kinds
  <2>4. CASE ~(oldLine < OldEnd) /\ ~(newLine < NewEnd)
    <3>1. Emit("equal")
      BY <2>1, <2>4
    <3>2. /\ Len(OldLines) - oldLine = Len(NewLines) - newLine
          /\ OldEnd <= oldLine /\ NewEnd <= newLine
          /\ oldLine < Len(OldLines) /\ newLine < Len(NewLines)
          /\ oldLine \in Nat /\ newLine \in Nat
          /\ OldEnd = Len(OldLines) - tail /\ NewEnd = Len(NewLines) - tail
      BY <1>0, <1>9, <2>1, <2>4
    <3>3. /\ oldLine' = oldLine + 1 /\ newLine' = newLine + 1
      BY <3>1 DEF Emit, Pass
    <3>4. /\ OldEnd <= oldLine' /\ NewEnd <= newLine'
          /\ Len(OldLines) - oldLine' = Len(NewLines) - newLine'
      BY <1>0, <3>2, <3>3
    <3>5. OldLines[oldLine + 1] = NewLines[newLine + 1]
      <4> DEFINE t == Len(OldLines) - (oldLine + 1)
      <4>1. PICK n \in Nat, m \in Nat : n = Len(OldLines) /\ m = Len(NewLines)
        BY <1>0
      <4>2. /\ n - oldLine = m - newLine /\ n - tail <= oldLine
            /\ oldLine < n /\ newLine < m
        BY <3>2, <4>1
      <4>3. /\ n - (oldLine + 1) \in 0..(tail - 1) /\ n - (n - (oldLine + 1)) = oldLine + 1
            /\ m - (n - (oldLine + 1)) = newLine + 1
        BY <1>0, <3>2, <4>2
      <4>4. t \in 0..(tail - 1) /\ Len(OldLines) - t = oldLine + 1 /\ Len(NewLines) - t = newLine + 1
        BY <4>1, <4>3
      <4> HIDE DEF t
      <4>5. OldLines[Len(OldLines) - t] = NewLines[Len(NewLines) - t]
        BY <4>4 DEF ScriptInv, SameTail
      <4> QED
        BY <4>4, <4>5
    <3> QED
      BY <1>8, <1>11, <2>1, <3>1, <3>2, <3>4, <3>5 DEF Kinds
  <2> QED
    BY <2>2, <2>3, <2>4
<1>12. CASE Group
  <2>1. /\ Building /\ old # new /\ pc' = "group" /\ UNCHANGED <<files, edits, tail>>
        /\ oldLine = Len(OldLines) /\ newLine = Len(NewLines)
    BY <1>12 DEF Group, ScriptInv
  <2>2. Complete'
    BY <1>0, <2>1 DEF Building, Complete, Passed
  <2> QED
    BY <1>0, <1>1, <2>1, <2>2 DEF ScriptInv, files
<1>13. CASE Hold \/ Follow \/ Split \/ Change \/ Finish
  <2>1. pc = "group" /\ pc' \in {"group", "done"} /\ UNCHANGED <<files, edits, tail>>
    BY <1>13 DEF Hold, Follow, Split, Change, Finish, Take
  <2>2. Complete' /\ old # new
    BY <1>0, <2>1 DEF ScriptInv, Complete, Passed
  <2> QED
    BY <1>0, <1>1, <2>1, <2>2 DEF ScriptInv, files
<1>14. CASE UNCHANGED vars
  <2>1. Follows(edits, OldLines, NewLines)' /\ SameTail'
    BY <1>1, <1>14 DEF vars
  <2>2. (Building' <=> Building) /\ (Complete' <=> Complete) /\ (Idle' <=> Idle)
    BY <1>0, <1>14 DEF vars, Building, Complete, Idle, Passed, OldEnd, NewEnd, SameLine
  <2> QED
    BY <1>14, <2>1, <2>2 DEF vars, files, ScriptInv
<1> QED
  BY <1>3, <1>4, <1>5, <1>6, <1>7, <1>10, <1>11, <1>12, <1>13, <1>14 DEF Next, Script

-----------------------------------------------------------------------------
(***************************************************************************)
(* Gap: pieces of the script.                                              *)
(***************************************************************************)
\* A piece of a sequence is a sequence of what it reads.
LEMMA GapIs ==
  ASSUME NEW S, NEW es \in Seq(S), NEW a \in Nat, NEW b \in Nat, a <= b, b <= Len(es)
  PROVE  Gap(es, a, b) \in Seq(S) /\ IsGap(Gap(es, a, b), es, a, b)
BY DEF Gap, IsGap

\* A sequence that reads the same is the same piece.
LEMMA GapTells ==
  ASSUME NEW S, NEW es \in Seq(S), NEW a \in Nat, NEW b \in Nat, a <= b, b <= Len(es),
         NEW s \in Seq(S), IsGap(s, es, a, b)
  PROVE  s = Gap(es, a, b)
<1> DEFINE x == Gap(es, a, b)
<1>1. x \in Seq(S) /\ IsGap(x, es, a, b)
  BY GapIs
<1> HIDE DEF x
<1>2. s = x
  BY <1>1 DEF IsGap
<1> QED
  BY <1>2 DEF x

LEMMA GapEmpty ==
  ASSUME NEW S, NEW es \in Seq(S), NEW a \in Nat, a <= Len(es)
  PROVE  <<>> = Gap(es, a, a)
<1>1. PICK e : e \in Seq(S) /\ e = <<>>
  <2>1. <<>> \in Seq(S)
    OBVIOUS
  <2> QED
    BY <2>1, Zenon
<1>2. IsGap(e, es, a, a) /\ a <= a
  BY <1>1 DEF IsGap
<1>3. e = Gap(es, a, a)
  BY <1>1, <1>2, GapTells
<1> QED
  BY <1>1, <1>3

LEMMA Joined ==
  ASSUME NEW S, NEW x \in Seq(S), NEW y \in Seq(S)
  PROVE  /\ x \o y \in Seq(S) /\ Len(x \o y) = Len(x) + Len(y)
         /\ \A k \in 1..(Len(x) + Len(y)) :
              (x \o y)[k] = IF k <= Len(x) THEN x[k] ELSE y[k - Len(x)]
OBVIOUS

\* A piece and the piece after it are a piece.
LEMMA GapJoined ==
  ASSUME NEW S, NEW es \in Seq(S), NEW a \in Nat, NEW b \in Nat, NEW c \in Nat,
         a <= b, b <= c, c <= Len(es)
  PROVE  Gap(es, a, b) \o Gap(es, b, c) = Gap(es, a, c)
<1>1. PICK x \in Seq(S) : x = Gap(es, a, b) /\ IsGap(x, es, a, b)
  BY GapIs
<1>2. b <= Len(es)
  OBVIOUS
<1>3. PICK y \in Seq(S) : y = Gap(es, b, c) /\ IsGap(y, es, b, c)
  BY GapIs
<1>4. PICK m \in Nat, n \in Nat : m = b - a /\ n = c - b
  OBVIOUS
<1>5. /\ Len(x) = m /\ \A k \in 1..m : x[k] = es[a + k]
      /\ Len(y) = n /\ \A k \in 1..n : y[k] = es[b + k]
  BY <1>1, <1>3, <1>4 DEF IsGap
<1>6. PICK z : z = x \o y
  OBVIOUS
<1>7. /\ z \in Seq(S) /\ Len(z) = m + n
      /\ \A k \in 1..(m + n) : z[k] = IF k <= m THEN x[k] ELSE y[k - m]
  <2>1. /\ z \in Seq(S) /\ Len(z) = Len(x) + Len(y)
        /\ \A k \in 1..(Len(x) + Len(y)) : z[k] = IF k <= Len(x) THEN x[k] ELSE y[k - Len(x)]
    BY <1>6, Joined
  <2> QED
    BY <1>5, <2>1
<1>8. ASSUME NEW k \in 1..(c - a)  PROVE z[k] = es[a + k]
  <2>1. k \in 1..(m + n)
    BY <1>4
  <2>2. CASE k <= m
    <3>1. k \in 1..m
      BY <2>1, <2>2
    <3> QED
      BY <1>5, <1>7, <2>1, <2>2, <3>1
  <2>3. CASE ~(k <= m)
    <3>1. k - m \in 1..n /\ b + (k - m) = a + k
      BY <1>4, <2>1, <2>3
    <3>2. z[k] = y[k - m]
      BY <1>7, <2>1, <2>3
    <3> QED
      BY <1>5, <3>1, <3>2
  <2> QED
    BY <2>2, <2>3
<1>9. IsGap(z, es, a, c)
  BY <1>4, <1>7, <1>8 DEF IsGap
<1>10. a <= c
  OBVIOUS
<1>11. z = Gap(es, a, c)
  BY <1>7, <1>9, <1>10, GapTells
<1> QED
  BY <1>1, <1>3, <1>6, <1>11

\* A piece and the element after it are a piece.
LEMMA GapNext ==
  ASSUME NEW S, NEW es \in Seq(S), NEW a \in Nat, NEW b \in Nat, a <= b, b < Len(es)
  PROVE  Append(Gap(es, a, b), es[b + 1]) = Gap(es, a, b + 1)
<1>0. Len(es) \in Nat /\ b <= Len(es) /\ b + 1 \in Nat /\ b <= b + 1 /\ b + 1 <= Len(es)
  OBVIOUS
<1>1. PICK x \in Seq(S) : x = Gap(es, a, b)
  BY <1>0, GapIs
<1>2. PICK e \in S : e = es[b + 1]
  BY <1>0
<1>3. <<e>> \in Seq(S) /\ IsGap(<<e>>, es, b, b + 1)
  BY <1>2 DEF IsGap
<1>4. <<e>> = Gap(es, b, b + 1)
  BY <1>0, <1>3, GapTells
<1>5. x \o <<e>> = Append(x, e)
  OBVIOUS
<1>6. Gap(es, a, b) \o Gap(es, b, b + 1) = Gap(es, a, b + 1)
  BY <1>0, GapJoined
<1> QED
  BY <1>1, <1>2, <1>4, <1>5, <1>6

\* A piece of a piece is a piece.
LEMMA GapWithin ==
  ASSUME NEW S, NEW es \in Seq(S), NEW a \in Nat, NEW b \in Nat, a <= b, b <= Len(es),
         NEW p \in Nat, NEW q \in Nat, a <= p, p <= q, q <= b,
         NEW l, NEW j, l = p - a, j = q - a
  PROVE  Gap(Gap(es, a, b), l, j) = Gap(es, p, q)
<1>1. PICK x \in Seq(S) : x = Gap(es, a, b) /\ IsGap(x, es, a, b)
  BY GapIs
<1>2. PICK m \in Nat : m = b - a /\ l \in Nat
  OBVIOUS
<1>3. Len(x) = m /\ \A k \in 1..m : x[k] = es[a + k]
  BY <1>1, <1>2 DEF IsGap
<1>4. PICK z : z = SubSeq(x, l + 1, j)
  OBVIOUS
<1>5. z \in Seq(S) /\ Len(z) = j - l /\ \A k \in 1..(j - l) : z[k] = x[l + k]
  BY <1>2, <1>3, <1>4
<1>6. ASSUME NEW k \in 1..(q - p)  PROVE z[k] = es[p + k]
  <2>1. k \in 1..(j - l) /\ l + k \in 1..m /\ a + (l + k) = p + k
    BY <1>2
  <2> QED
    BY <1>3, <1>5, <2>1
<1>7. IsGap(z, es, p, q)
  BY <1>2, <1>5, <1>6 DEF IsGap
<1>8. q <= Len(es)
  OBVIOUS
<1>9. z = Gap(es, p, q)
  BY <1>5, <1>7, <1>8, GapTells
<1>10. Gap(x, l, j) = z
  BY <1>4 DEF Gap
<1> QED
  BY <1>1, <1>9, <1>10

-----------------------------------------------------------------------------
(***************************************************************************)
(* A hunk as a stretch of the script: its edits, and its header.           *)
(***************************************************************************)
Stretch(es, from, to) ==
  [oldStart |-> Passed(es, from, "insert"),
   oldCount |-> Passed(es, to, "insert") - Passed(es, from, "insert"),
   newStart |-> Passed(es, from, "delete"),
   newCount |-> Passed(es, to, "delete") - Passed(es, from, "delete"),
   edits    |-> Gap(es, from, to)]

LEMMA StretchIs ==
  ASSUME NEW es \in Seq(Edit), NEW from \in Nat, NEW to \in Nat, from <= to, to <= Len(es)
  PROVE  /\ Stretch(es, from, to) \in Hunk
         /\ Stretch(es, from, to).oldStart = Passed(es, from, "insert")
         /\ Stretch(es, from, to).newStart = Passed(es, from, "delete")
         /\ Stretch(es, from, to).oldCount = Passed(es, to, "insert") - Passed(es, from, "insert")
         /\ Stretch(es, from, to).newCount = Passed(es, to, "delete") - Passed(es, from, "delete")
         /\ Stretch(es, from, to).edits = Gap(es, from, to)
<1>1. \A kind : /\ Passed(es, from, kind) \in Nat /\ Passed(es, to, kind) \in Nat
                /\ Passed(es, from, kind) <= Passed(es, to, kind)
  BY PassedStep, PassedGrows
<1>2. Gap(es, from, to) \in Seq(Edit)
  BY GapIs
<1>3. ASSUME NEW kind  PROVE Passed(es, to, kind) - Passed(es, from, kind) \in Nat
  BY <1>1
<1>4. Stretch(es, from, to) \in Hunk
  BY <1>1, <1>2, <1>3 DEF Stretch, Hunk
<1> QED
  BY <1>4 DEF Stretch

\* Other edits and counts in the record of a hunk.
WithEdits(h, s, a, b) == [h EXCEPT !.edits = s, !.oldCount = a, !.newCount = b]

LEMMA Regrown ==
  ASSUME NEW os, NEW oc, NEW ns, NEW nc, NEW x, NEW s, NEW a, NEW b, NEW h,
         h = [oldStart |-> os, oldCount |-> oc, newStart |-> ns, newCount |-> nc, edits |-> x]
  PROVE  WithEdits(h, s, a, b) =
           [oldStart |-> os, oldCount |-> a, newStart |-> ns, newCount |-> b, edits |-> s]
<1> DEFINE g == [h EXCEPT !.edits = s]
           f == [g EXCEPT !.oldCount = a]
<1>1. g = [oldStart |-> os, oldCount |-> oc, newStart |-> ns, newCount |-> nc, edits |-> s]
  OBVIOUS
<1> HIDE DEF g
<1>2. f = [oldStart |-> os, oldCount |-> a, newStart |-> ns, newCount |-> nc, edits |-> s]
  BY <1>1
<1> HIDE DEF f
<1>3. [f EXCEPT !.newCount = b] =
        [oldStart |-> os, oldCount |-> a, newStart |-> ns, newCount |-> b, edits |-> s]
  BY <1>2
<1> QED
  BY <1>3, Zenon DEF f, g, WithEdits

\* Two differences add up.
LEMMA Telescope ==
  ASSUME NEW p \in Nat, NEW q \in Nat, NEW r \in Nat
  PROVE  (q - p) + (r - q) = r - p
OBVIOUS

\* The edits after a stretch make it a longer one.
LEMMA LongerStretch ==
  ASSUME NEW es \in Seq(Edit), NEW from \in Nat, NEW to \in Nat, NEW t \in Nat,
         from <= to, to <= t, t <= Len(es),
         NEW a, a = Passed(es, t, "insert") - Passed(es, to, "insert"),
         NEW b, b = Passed(es, t, "delete") - Passed(es, to, "delete"),
         NEW h, h = Stretch(es, from, to)
  PROVE  WithEdits(h, Gap(es, from, t), h.oldCount + a, h.newCount + b) = Stretch(es, from, t)
<1>1. PICK x, y : x = Gap(es, from, to) /\ y = Gap(es, from, t)
  OBVIOUS
<1>2. \A kind : Passed(es, from, kind) \in Nat /\ Passed(es, to, kind) \in Nat /\ Passed(es, t, kind) \in Nat
  BY PassedStep
<1>3. PICK os \in Nat, ns \in Nat : os = Passed(es, from, "insert") /\ ns = Passed(es, from, "delete")
  BY <1>2
<1>4. PICK oc, nc : oc = Passed(es, to, "insert") - os /\ nc = Passed(es, to, "delete") - ns
  OBVIOUS
<1>5. PICK oc2, nc2 : oc2 = Passed(es, t, "insert") - os /\ nc2 = Passed(es, t, "delete") - ns
  OBVIOUS
<1>6. oc + a = oc2 /\ nc + b = nc2
  <2>1. PICK p \in Nat, q \in Nat : p = Passed(es, to, "insert") /\ q = Passed(es, to, "delete")
    BY <1>2
  <2>2. PICK u \in Nat, v \in Nat : u = Passed(es, t, "insert") /\ v = Passed(es, t, "delete")
    BY <1>2
  <2>3. a = u - p /\ b = v - q /\ oc = p - os /\ nc = q - ns /\ oc2 = u - os /\ nc2 = v - ns
    BY <1>4, <1>5, <2>1, <2>2
  <2>4. (p - os) + (u - p) = u - os /\ (q - ns) + (v - q) = v - ns
    BY Telescope
  <2> QED
    BY <2>3, <2>4, Zenon
<1>7. h = [oldStart |-> os, oldCount |-> oc, newStart |-> ns, newCount |-> nc, edits |-> x]
  BY <1>1, <1>3, <1>4 DEF Stretch
<1>8. h.oldCount = oc /\ h.newCount = nc
  BY <1>7
<1>9. WithEdits(h, y, oc2, nc2) =
        [oldStart |-> os, oldCount |-> oc2, newStart |-> ns, newCount |-> nc2, edits |-> y]
  BY <1>7, Regrown
<1>10. Stretch(es, from, t) =
         [oldStart |-> os, oldCount |-> oc2, newStart |-> ns, newCount |-> nc2, edits |-> y]
  BY <1>1, <1>3, <1>5 DEF Stretch
<1> QED
  BY <1>1, <1>6, <1>8, <1>9, <1>10, Zenon

\* Unchanged lines make a hunk longer in both files.
LEMMA ExtendedStretch ==
  ASSUME NEW es \in Seq(Edit), NEW from \in Nat, NEW to \in Nat, NEW t \in Nat,
         from <= to, to <= t, t <= Len(es), AllEqual(es, to, t)
  PROVE  Extended(Stretch(es, from, to), Gap(es, to, t)) = Stretch(es, from, t)
<1>1. /\ "insert" # "equal" /\ "delete" # "equal"
      /\ \A kind : Passed(es, to, kind) \in Nat
  BY PassedStep
<1>2. PICK h : h = Stretch(es, from, to)
  OBVIOUS
<1>3. PICK n \in Nat : n = t - to
  OBVIOUS
<1>4. Passed(es, t, "insert") = Passed(es, to, "insert") + n
  BY <1>1, <1>3, PassedEqual
<1>5. Passed(es, t, "delete") = Passed(es, to, "delete") + n
  BY <1>1, <1>3, PassedEqual
<1>6. /\ n = Passed(es, t, "insert") - Passed(es, to, "insert")
      /\ n = Passed(es, t, "delete") - Passed(es, to, "delete")
  BY <1>1, <1>4, <1>5
<1>7. PICK x, s, y : x = Gap(es, from, to) /\ s = Gap(es, to, t) /\ y = Gap(es, from, t)
  OBVIOUS
<1>8. Len(s) = n
  BY <1>3, <1>7, GapIs DEF IsGap
<1>9. x \o s = y
  BY <1>7, GapJoined
<1>10. h.edits = x
  BY <1>2, <1>7 DEF Stretch
<1>11. WithEdits(h, y, h.oldCount + n, h.newCount + n) = Stretch(es, from, t)
  BY <1>2, <1>6, <1>7, LongerStretch
<1>12. Extended(h, s) = WithEdits(h, h.edits \o s, h.oldCount + Len(s), h.newCount + Len(s))
  BY Zenon DEF Extended, WithEdits
<1>13. Extended(h, s) = Stretch(es, from, t)
  BY <1>8, <1>9, <1>10, <1>11, <1>12, Zenon
<1> QED
  BY <1>2, <1>7, <1>13

\* A change makes it longer in one of them.
LEMMA ChangedStretch ==
  ASSUME NEW es \in Seq(Edit), NEW from \in Nat, NEW to \in Nat, from <= to, to < Len(es),
         NEW a, a = IF es[to + 1].kind = "insert" THEN 0 ELSE 1,
         NEW b, b = IF es[to + 1].kind = "delete" THEN 0 ELSE 1,
         NEW h, h = Stretch(es, from, to)
  PROVE  WithEdits(h, Append(h.edits, es[to + 1]), h.oldCount + a, h.newCount + b) =
           Stretch(es, from, to + 1)
<1>1. to + 1 \in Nat /\ to <= to + 1 /\ to + 1 <= Len(es)
  OBVIOUS
<1>2. ASSUME NEW kind
      PROVE  /\ Passed(es, to, kind) \in Nat
             /\ Passed(es, to + 1, kind) = Passed(es, to, kind) + (IF es[to + 1].kind # kind THEN 1 ELSE 0)
  BY PassedStep
<1>3. /\ a = Passed(es, to + 1, "insert") - Passed(es, to, "insert")
      /\ b = Passed(es, to + 1, "delete") - Passed(es, to, "delete")
  BY <1>2
<1>4. h.edits = Gap(es, from, to)
  BY DEF Stretch
<1>5. Append(Gap(es, from, to), es[to + 1]) = Gap(es, from, to + 1)
  BY GapNext
<1>6. WithEdits(h, Gap(es, from, to + 1), h.oldCount + a, h.newCount + b) =
        Stretch(es, from, to + 1)
  <2>1. PICK u \in Nat : u = to + 1
    BY <1>1
  <2>2. /\ from <= to /\ to <= u /\ u <= Len(es)
        /\ a = Passed(es, u, "insert") - Passed(es, to, "insert")
        /\ b = Passed(es, u, "delete") - Passed(es, to, "delete")
    BY <1>1, <1>3, <2>1
  <2>3. WithEdits(h, Gap(es, from, u), h.oldCount + a, h.newCount + b) = Stretch(es, from, u)
    BY <2>2, LongerStretch
  <2> QED
    BY <2>1, <2>3
<1> QED
  BY <1>4, <1>5, <1>6, Zenon

-----------------------------------------------------------------------------
(***************************************************************************)
(* How the hunks follow each other: where the first and the last change    *)
(* are, and how near to each other the changes lie.                        *)
(***************************************************************************)
Begins(es, from, to) ==
  \E first \in (from + 1)..to :
    /\ es[first].kind # "equal" /\ AllEqual(es, from, first - 1)
    /\ first <= from + Context + 1
    /\ first <= from + Context => from = 0

Near(es, from, to) ==
  \A a, b \in (from + 1)..to :
    es[a].kind # "equal" /\ es[b].kind # "equal" /\ a < b /\ AllEqual(es, a, b - 1)
      => b <= a + 2 * Context + 1

Ends(es, from, to) ==
  \E last \in (from + 1)..to :
    /\ es[last].kind # "equal" /\ AllEqual(es, last, to)
    /\ to <= last + Context
    /\ to < last + Context => to = Len(es)

\* Between the end of a hunk and the next one nothing changes.
Link(es, from, to, end) ==
  /\ from \in Nat /\ to \in Nat /\ end \in Nat /\ from < to /\ to <= Len(es)
  /\ Begins(es, from, to) /\ Near(es, from, to)
  /\ end <= from /\ (end > 0 => end < from)
  /\ AllEqual(es, end, from)

\* More unchanged lines at the end of a hunk.
LEMMA LinkExtended ==
  ASSUME NEW es, NEW from, NEW w, NEW end, Link(es, from, w, end), Len(es) \in Nat,
         NEW t \in Nat, w <= t, t <= Len(es), AllEqual(es, w, t)
  PROVE  /\ Link(es, from, t, end)
         /\ es[w].kind # "equal" /\ t <= w + Context /\ (t < w + Context => t = Len(es))
              => Ends(es, from, t)
<1>1. /\ from \in Nat /\ w \in Nat /\ end \in Nat /\ from < w /\ Context \in Nat
      /\ end <= from /\ (end > 0 => end < from) /\ AllEqual(es, end, from)
  BY ContextAssumption DEF Link
<1>2. Begins(es, from, t)
  <2>1. PICK first \in (from + 1)..w :
          /\ es[first].kind # "equal" /\ AllEqual(es, from, first - 1)
          /\ first <= from + Context + 1
          /\ first <= from + Context => from = 0
    BY DEF Link, Begins
  <2>2. first \in (from + 1)..t
    BY <1>1
  <2> QED
    BY <2>1, <2>2 DEF Begins
<1>3. Near(es, from, t)
  <2> SUFFICES ASSUME NEW a \in (from + 1)..t, NEW b \in (from + 1)..t,
                      es[a].kind # "equal", es[b].kind # "equal", a < b, AllEqual(es, a, b - 1)
               PROVE  b <= a + 2 * Context + 1
    BY DEF Near
  <2>1. ASSUME NEW k \in (from + 1)..t, es[k].kind # "equal"  PROVE k \in (from + 1)..w
    <3>1. k \notin (w + 1)..t
      BY <2>1 DEF AllEqual
    <3> QED
      BY <1>1, <3>1
  <2>2. a \in (from + 1)..w /\ b \in (from + 1)..w
    BY <2>1
  <2>3. Near(es, from, w)
    BY DEF Link
  <2> QED
    BY <2>2, <2>3 DEF Near
<1>4. from < t
  BY <1>1
<1>5. ASSUME es[w].kind # "equal", t <= w + Context, t < w + Context => t = Len(es)
      PROVE  Ends(es, from, t)
  <2>1. w \in (from + 1)..t
    BY <1>1
  <2> QED
    BY <1>5, <2>1 DEF Ends
<1> QED
  BY <1>1, <1>2, <1>3, <1>4, <1>5 DEF Link

\* A change that is near enough to the last one of the hunk.
LEMMA LinkChanged ==
  ASSUME NEW es, NEW from, NEW w, NEW end, Link(es, from, w, end), Len(es) \in Nat,
         es[w].kind # "equal",
         NEW k \in Nat, w <= k, k < Len(es), k <= w + 2 * Context, AllEqual(es, w, k),
         es[k + 1].kind # "equal"
  PROVE  Link(es, from, k + 1, end)
<1>1. /\ from \in Nat /\ w \in Nat /\ end \in Nat /\ from < w /\ Context \in Nat
      /\ end <= from /\ (end > 0 => end < from) /\ AllEqual(es, end, from)
  BY ContextAssumption DEF Link
<1>2. Begins(es, from, k + 1)
  <2>1. PICK first \in (from + 1)..w :
          /\ es[first].kind # "equal" /\ AllEqual(es, from, first - 1)
          /\ first <= from + Context + 1
          /\ first <= from + Context => from = 0
    BY DEF Link, Begins
  <2>2. first \in (from + 1)..(k + 1)
    BY <1>1
  <2> QED
    BY <2>1, <2>2 DEF Begins
<1>3. Near(es, from, k + 1)
  <2> SUFFICES ASSUME NEW a \in (from + 1)..(k + 1), NEW b \in (from + 1)..(k + 1),
                      es[a].kind # "equal", es[b].kind # "equal", a < b, AllEqual(es, a, b - 1)
               PROVE  b <= a + 2 * Context + 1
    BY DEF Near
  <2>1. ASSUME NEW j \in (from + 1)..(k + 1), es[j].kind # "equal"
        PROVE  j \in (from + 1)..w \/ j = k + 1
    <3>1. j \notin (w + 1)..k
      BY <2>1 DEF AllEqual
    <3> QED
      BY <1>1, <3>1
  <2>2. a \in (from + 1)..w
    <3>1. a # k + 1
      OBVIOUS
    <3> QED
      BY <2>1, <3>1
  <2>3. CASE b \in (from + 1)..w
    <3>1. Near(es, from, w)
      BY DEF Link
    <3> QED
      BY <2>2, <2>3, <3>1 DEF Near
  <2>4. CASE b = k + 1
    <3>1. w \notin (a + 1)..(b - 1)
      BY DEF AllEqual
    <3>2. a = w
      BY <1>1, <2>2, <2>4, <3>1
    <3>3. k + 1 <= (w + 2 * Context) + 1
      BY <1>1
    <3> QED
      BY <1>1, <2>4, <3>2, <3>3
  <2> QED
    BY <2>1, <2>3, <2>4
<1>4. from < k + 1 /\ k + 1 \in Nat /\ k + 1 <= Len(es)
  BY <1>1
<1> QED
  BY <1>1, <1>2, <1>3, <1>4 DEF Link

\* The first change of a hunk, with the unchanged lines before it.
LEMMA LinkNew ==
  ASSUME NEW es, NEW w \in Nat, NEW end \in Nat, Len(es) \in Nat, NEW k \in Nat,
         end <= w, end > 0 => end < w, w <= k, k < Len(es),
         k <= w + Context, k < w + Context => w = 0,
         AllEqual(es, end, k), es[k + 1].kind # "equal"
  PROVE  Link(es, w, k + 1, end)
<1>1. Context \in Nat
  BY ContextAssumption
<1>2. AllEqual(es, end, w) /\ AllEqual(es, w, k)
  BY DEF AllEqual
<1>3. Begins(es, w, k + 1)
  <2>1. /\ k + 1 \in (w + 1)..(k + 1) /\ (k + 1) - 1 = k
        /\ k + 1 <= w + Context + 1
        /\ k + 1 <= w + Context => w = 0
    BY <1>1
  <2> QED
    BY <1>2, <2>1 DEF Begins
<1>4. Near(es, w, k + 1)
  <2> SUFFICES ASSUME NEW a \in (w + 1)..(k + 1), NEW b \in (w + 1)..(k + 1),
                      es[a].kind # "equal", a < b
               PROVE  FALSE
    BY DEF Near
  <2>1. a \in (w + 1)..k
    OBVIOUS
  <2> QED
    BY <1>2, <2>1 DEF AllEqual
<1>5. w < k + 1 /\ k + 1 \in Nat /\ k + 1 <= Len(es)
  OBVIOUS
<1> QED
  BY <1>2, <1>3, <1>4, <1>5 DEF Link

After(c, i) == IF i = 0 THEN 0 ELSE c[i].to

\* The hunks that are closed.
Closed(es, h, from, to, end) ==
  h = Stretch(es, from, to) /\ Link(es, from, to, end) /\ Ends(es, from, to)

Chain(es, hs, c) ==
  /\ c \in Seq([from : Nat, to : Nat]) /\ hs \in Seq(Hunk) /\ Len(c) = Len(hs)
  /\ \A i \in 1..Len(hs) : Closed(es, hs[i], c[i].from, c[i].to, After(c, i - 1))

LEMMA AfterIs ==
  ASSUME NEW es, Len(es) \in Nat, NEW hs, NEW c, Chain(es, hs, c), NEW i \in 0..Len(hs)
  PROVE  After(c, i) \in 0..Len(es)
<1>1. CASE i = 0
  BY <1>1 DEF After
<1>2. CASE i # 0
  <2>1. i \in 1..Len(hs)
    BY <1>2
  <2>2. Link(es, c[i].from, c[i].to, After(c, i - 1))
    BY <2>1 DEF Chain, Closed
  <2> QED
    BY <1>2, <2>2 DEF Link, After
<1> QED
  BY <1>1, <1>2

\* Another hunk is closed.
LEMMA ChainGrows ==
  ASSUME NEW es \in Seq(Edit), NEW hs, NEW c, Chain(es, hs, c),
         NEW from, NEW to, NEW h, Closed(es, h, from, to, After(c, Len(c)))
  PROVE  \E d : Chain(es, Append(hs, h), d) /\ After(d, Len(d)) = to
<1>1. /\ c \in Seq([from : Nat, to : Nat]) /\ hs \in Seq(Hunk) /\ Len(c) = Len(hs)
      /\ Len(hs) \in Nat
  BY DEF Chain
<1>2. /\ from \in Nat /\ to \in Nat /\ from <= to /\ to <= Len(es) /\ h = Stretch(es, from, to)
  BY DEF Closed, Link
<1>3. h \in Hunk
  BY <1>2, StretchIs
<1>4. PICK p \in [from : Nat, to : Nat] : p = [from |-> from, to |-> to]
  BY <1>2
<1>5. p.from = from /\ p.to = to
  BY <1>4
<1>6. PICK n \in Nat : n = Len(hs)
  BY <1>1
<1>7. PICK d, gs : d = Append(c, p) /\ gs = Append(hs, h)
  OBVIOUS
<1>8. /\ d \in Seq([from : Nat, to : Nat]) /\ Len(d) = n + 1
      /\ \A i \in 1..n : d[i] = c[i]
      /\ d[n + 1] = p
  BY <1>1, <1>4, <1>6, <1>7
<1>9. /\ gs \in Seq(Hunk) /\ Len(gs) = n + 1
      /\ \A i \in 1..n : gs[i] = hs[i]
      /\ gs[n + 1] = h
  BY <1>1, <1>3, <1>6, <1>7
<1>10. ASSUME NEW i \in 0..n  PROVE After(d, i) = After(c, i)
  <2>1. i = 0 \/ i \in 1..n
    OBVIOUS
  <2>2. i # 0 => d[i] = c[i]
    BY <1>8, <2>1
  <2> QED
    BY <2>2, Zenon DEF After
<1>11. ASSUME NEW i \in 1..(n + 1)
       PROVE  Closed(es, gs[i], d[i].from, d[i].to, After(d, i - 1))
  <2>1. i - 1 \in 0..n
    OBVIOUS
  <2>2. After(d, i - 1) = After(c, i - 1)
    BY <1>10, <2>1
  <2>3. CASE i \in 1..n
    <3>1. Closed(es, hs[i], c[i].from, c[i].to, After(c, i - 1))
      BY <1>6, <2>3 DEF Chain
    <3> QED
      BY <1>8, <1>9, <2>2, <2>3, <3>1
  <2>4. CASE i = n + 1
    <3>1. i - 1 = Len(c)
      BY <1>1, <1>6, <2>4
    <3> QED
      BY <1>5, <1>8, <1>9, <2>2, <2>4, <3>1
  <2> QED
    BY <2>3, <2>4
<1>12. Chain(es, gs, d)
  BY <1>8, <1>9, <1>11 DEF Chain
<1>13. After(d, Len(d)) = to
  BY <1>5, <1>8 DEF After
<1> QED
  BY <1>7, <1>12, <1>13

-----------------------------------------------------------------------------
(***************************************************************************)
(* The grouping: w edits are in a hunk or left out, those after them, up   *)
(* to k, are held back.                                                    *)
(***************************************************************************)
NoneOpen(es, k, w, end) ==
  /\ AllEqual(es, end, k) /\ end <= w /\ (end > 0 => end < w)
  /\ k <= w + Context /\ (k < w + Context => w = 0)

OneOpen(es, k, w, end, h) ==
  /\ es[w].kind # "equal" /\ k <= w + 2 * Context
  /\ \E from : h = Stretch(es, from, w) /\ Link(es, from, w, end)

Reading(es, k, w, end, h, held) ==
  /\ w \in 0..k /\ held = Gap(es, w, k) /\ AllEqual(es, w, k)
  /\ IF h = None THEN NoneOpen(es, k, w, end) ELSE OneOpen(es, k, w, end, h)

Grouping(es, k, h, held, hs) ==
  \E c : Chain(es, hs, c) /\ \E w : Reading(es, k, w, After(c, Len(c)), h, held)

Grouped(es, hs) ==
  \E c : Chain(es, hs, c) /\ AllEqual(es, After(c, Len(c)), Len(es))

At(es, k, o, n) ==
  k \in 0..Len(es) /\ o = Passed(es, k, "insert") /\ n = Passed(es, k, "delete")

GroupInv ==
  /\ pc = "group" => At(edits, taken, oldLine, newLine) /\ Grouping(edits, taken, cur, pending, out)
  /\ pc = "done" /\ old # new =>
       /\ At(edits, Len(edits), oldLine, newLine) /\ taken = Len(edits)
       /\ Grouped(edits, out) /\ cur = None /\ pending = <<>>
  /\ pc = "done" /\ old = new => oldLine = 0 /\ newLine = 0

\* Whatever is read next, it is the next edit of the script.
LEMMA Taken ==
  ASSUME ScriptInv, GroupInv, NEW kinds, Take(kinds)
  PROVE  /\ pc = "group" /\ pc' = "group" /\ edits' = edits /\ taken' = taken + 1
         /\ edits \in Seq(Edit) /\ Len(edits) \in Nat
         /\ taken \in Nat /\ taken < Len(edits)
         /\ edits[taken + 1] \in Edit /\ edits[taken + 1].kind \in kinds
         /\ oldLine = Passed(edits, taken, "insert") /\ newLine = Passed(edits, taken, "delete")
         /\ oldLine \in Nat /\ newLine \in Nat
         /\ oldLine' - oldLine = (IF edits[taken + 1].kind = "insert" THEN 0 ELSE 1)
         /\ newLine' - newLine = (IF edits[taken + 1].kind = "delete" THEN 0 ELSE 1)
         /\ At(edits', taken', oldLine', newLine')
<1>1. /\ pc = "group" /\ pc' = "group" /\ edits' = edits /\ taken' = taken + 1
      /\ taken < Len(edits) /\ edits[taken + 1].kind \in kinds /\ Pass(edits[taken + 1].kind)
  BY DEF Take
<1>2. /\ edits \in Seq(Edit) /\ Len(edits) \in Nat /\ taken \in Nat
      /\ oldLine = Passed(edits, taken, "insert") /\ newLine = Passed(edits, taken, "delete")
  BY <1>1 DEF ScriptInv, GroupInv, At
<1>3. /\ taken + 1 \in 1..Len(edits) /\ taken + 1 \in 0..Len(edits)
  BY <1>1, <1>2
<1>4. edits[taken + 1] \in Edit
  BY <1>2, <1>3
<1>5. ASSUME NEW kind
      PROVE  /\ Passed(edits, taken, kind) \in Nat
             /\ Passed(edits, taken + 1, kind) =
                  Passed(edits, taken, kind) + (IF edits[taken + 1].kind # kind THEN 1 ELSE 0)
  BY <1>2, PassedStep
<1>6. oldLine \in Nat /\ newLine \in Nat
  BY <1>2, <1>5
<1>7. /\ oldLine' = IF edits[taken + 1].kind = "insert" THEN oldLine ELSE oldLine + 1
      /\ newLine' = IF edits[taken + 1].kind = "delete" THEN newLine ELSE newLine + 1
  BY <1>1 DEF Pass
<1>8. /\ oldLine' - oldLine = (IF edits[taken + 1].kind = "insert" THEN 0 ELSE 1)
      /\ newLine' - newLine = (IF edits[taken + 1].kind = "delete" THEN 0 ELSE 1)
  BY <1>6, <1>7
<1>9. /\ oldLine' = Passed(edits, taken + 1, "insert")
      /\ newLine' = Passed(edits, taken + 1, "delete")
  BY <1>2, <1>5, <1>7
<1>10. At(edits', taken', oldLine', newLine')
  BY <1>1, <1>3, <1>9 DEF At
<1> QED
  BY <1>1, <1>2, <1>3, <1>4, <1>6, <1>8, <1>10

\* What is held back with one more unchanged line.
LEMMA OneMore ==
  ASSUME NEW es \in Seq(Edit), NEW k \in Nat, k < Len(es), NEW w, NEW end, NEW h, NEW held,
         Reading(es, k, w, end, h, held), es[k + 1].kind = "equal"
  PROVE  /\ w \in Nat /\ w <= k + 1 /\ k + 1 <= Len(es) /\ AllEqual(es, w, k + 1)
         /\ Append(held, es[k + 1]) = Gap(es, w, k + 1)
         /\ Len(Append(held, es[k + 1])) = (k + 1) - w
<1>1. /\ w \in Nat /\ w <= k /\ held = Gap(es, w, k) /\ AllEqual(es, w, k) /\ Len(es) \in Nat
  BY DEF Reading
<1>2. AllEqual(es, w, k + 1)
  BY <1>1 DEF AllEqual
<1>3. Append(held, es[k + 1]) = Gap(es, w, k + 1)
  BY <1>1, GapNext
<1>4. k + 1 \in Nat /\ w <= k + 1 /\ k + 1 <= Len(es)
  BY <1>1
<1>5. Len(Gap(es, w, k + 1)) = (k + 1) - w
  BY <1>1, <1>4, GapIs DEF IsGap
<1> QED
  BY <1>1, <1>2, <1>3, <1>4, <1>5

\* The last n of what is held.
LEMMA LastIs ==
  ASSUME NEW es \in Seq(Edit), NEW w \in Nat, NEW k \in Nat, w <= k, k <= Len(es),
         NEW n \in Nat, NEW held, held = Gap(es, w, k)
  PROVE  LastOf(held, n) = Gap(es, IF k - w > n THEN k - n ELSE w, k)
<1>1. Len(held) = k - w
  BY GapIs DEF IsGap
<1>2. CASE k - w > n
  <2>1. PICK p \in Nat : p = k - n
    BY <1>2
  <2>2. PICK l, j : l = p - w /\ j = k - w
    OBVIOUS
  <2>3. w <= p /\ p <= k /\ k <= k /\ (k - w) - n + 1 = l + 1
    BY <1>2, <2>1, <2>2
  <2>4. Gap(held, l, j) = Gap(es, p, k)
    BY <2>2, <2>3, GapWithin
  <2>5. LastOf(held, n) = Gap(held, l, j)
    BY <1>1, <1>2, <2>2, <2>3 DEF LastOf, Gap
  <2> QED
    BY <1>2, <2>1, <2>4, <2>5
<1>3. CASE ~(k - w > n)
  BY <1>1, <1>3 DEF LastOf
<1> QED
  BY <1>2, <1>3

\* The first n of what is held.
LEMMA FirstIs ==
  ASSUME NEW es \in Seq(Edit), NEW w \in Nat, NEW k \in Nat, w <= k, k <= Len(es),
         NEW t \in Nat, w <= t, t <= k, NEW held, held = Gap(es, w, k), NEW n, n = t - w
  PROVE  Gap(held, 0, n) = Gap(es, w, t)
<1>1. PICK l : l = w - w
  OBVIOUS
<1>2. l = 0 /\ w <= w
  BY <1>1
<1>3. Gap(held, l, n) = Gap(es, w, t)
  BY <1>1, <1>2, GapWithin
<1> QED
  BY <1>2, <1>3

LEMMA HoldGroups ==
  ASSUME ScriptInv, GroupInv, Hold
  PROVE  Grouping(edits', taken', cur', pending', out')
<1>1. PICK es, k : es = edits /\ k = taken
  OBVIOUS
<1>2. /\ edits' = es /\ taken' = k + 1 /\ es \in Seq(Edit) /\ Len(es) \in Nat
      /\ k \in Nat /\ k < Len(es) /\ es[k + 1].kind = "equal" /\ pc = "group"
  BY <1>1, Taken DEF Hold
<1>3. /\ cur = None /\ cur' = None /\ out' = out
      /\ pending' = LastOf(Append(pending, es[k + 1]), Context) /\ Context \in Nat \ {0}
  BY <1>1, ContextAssumption DEF Hold, Held
<1>4. PICK c : Chain(es, out, c) /\ \E w : Reading(es, k, w, After(c, Len(c)), None, pending)
  BY <1>1, <1>2, <1>3 DEF GroupInv, Grouping
<1>5. PICK end : end = After(c, Len(c))
  OBVIOUS
<1>6. end \in Nat
  <2>1. Len(c) \in 0..Len(out)
    BY <1>4 DEF Chain
  <2> QED
    BY <1>2, <1>4, <1>5, <2>1, AfterIs
<1>7. PICK w : Reading(es, k, w, end, None, pending)
  BY <1>4, <1>5
<1>8. /\ w \in Nat /\ w <= k + 1 /\ k + 1 <= Len(es) /\ AllEqual(es, w, k + 1)
      /\ Append(pending, es[k + 1]) = Gap(es, w, k + 1)
  BY <1>2, <1>7, OneMore
<1>9. /\ AllEqual(es, end, k) /\ end <= w /\ (end > 0 => end < w)
      /\ k <= w + Context /\ (k < w + Context => w = 0)
  BY <1>7 DEF Reading, NoneOpen
<1>10. PICK v : v = IF (k + 1) - w > Context THEN (k + 1) - Context ELSE w
  OBVIOUS
<1>11. pending' = Gap(es, v, k + 1)
  <2>1. k + 1 \in Nat /\ Context \in Nat
    BY <1>2, <1>3
  <2>2. LastOf(Append(pending, es[k + 1]), Context)
          = Gap(es, IF (k + 1) - w > Context THEN (k + 1) - Context ELSE w, k + 1)
    BY <1>2, <1>8, <2>1, LastIs
  <2> QED
    BY <1>3, <1>10, <2>2
<1>12. /\ v \in 0..(k + 1) /\ w <= v
       /\ end <= v /\ (end > 0 => end < v)
       /\ k + 1 <= v + Context /\ (k + 1 < v + Context => v = 0)
  BY <1>2, <1>3, <1>6, <1>8, <1>9, <1>10
<1>13. AllEqual(es, end, k + 1)
  BY <1>2, <1>6, <1>9 DEF AllEqual
<1>14. AllEqual(es, v, k + 1)
  BY <1>8, <1>12 DEF AllEqual
<1>15. Reading(es, k + 1, v, end, None, pending')
  BY <1>11, <1>12, <1>13, <1>14 DEF Reading, NoneOpen
<1> QED
  BY <1>2, <1>3, <1>4, <1>5, <1>15 DEF Grouping

LEMMA FollowGroups ==
  ASSUME ScriptInv, GroupInv, Follow
  PROVE  Grouping(edits', taken', cur', pending', out')
<1>1. PICK es, k, h : es = edits /\ k = taken /\ h = cur
  OBVIOUS
<1>2. /\ edits' = es /\ taken' = k + 1 /\ es \in Seq(Edit) /\ Len(es) \in Nat
      /\ k \in Nat /\ k < Len(es) /\ es[k + 1].kind = "equal" /\ pc = "group"
  BY <1>1, Taken DEF Follow
<1>3. /\ h # None /\ cur' = h /\ out' = out
      /\ pending' = Append(pending, es[k + 1]) /\ Context \in Nat \ {0}
      /\ Len(Append(pending, es[k + 1])) <= 2 * Context
  BY <1>1, ContextAssumption DEF Follow, Held
<1>4. PICK c, w : Chain(es, out, c) /\ Reading(es, k, w, After(c, Len(c)), h, pending)
  BY <1>1, <1>2, <1>3 DEF GroupInv, Grouping
<1>5. PICK end : end = After(c, Len(c))
  OBVIOUS
<1>6. /\ w \in Nat /\ w <= k + 1 /\ k + 1 <= Len(es) /\ AllEqual(es, w, k + 1)
      /\ Append(pending, es[k + 1]) = Gap(es, w, k + 1)
      /\ Len(Append(pending, es[k + 1])) = (k + 1) - w
  BY <1>2, <1>4, OneMore
<1>7. k + 1 <= w + 2 * Context
  BY <1>2, <1>3, <1>6
<1>8. OneOpen(es, k + 1, w, end, h)
  BY <1>3, <1>4, <1>5, <1>7 DEF Reading, OneOpen
<1>9. w \in 0..(k + 1)
  BY <1>2, <1>6
<1>10. Reading(es, k + 1, w, end, h, pending')
  BY <1>3, <1>6, <1>8, <1>9 DEF Reading
<1> QED
  BY <1>2, <1>3, <1>4, <1>5, <1>10 DEF Grouping

LEMMA SplitGroups ==
  ASSUME ScriptInv, GroupInv, Split
  PROVE  Grouping(edits', taken', cur', pending', out')
<1>1. PICK es, k, h : es = edits /\ k = taken /\ h = cur
  OBVIOUS
<1>2. /\ edits' = es /\ taken' = k + 1 /\ es \in Seq(Edit) /\ Len(es) \in Nat
      /\ k \in Nat /\ k < Len(es) /\ es[k + 1].kind = "equal" /\ pc = "group"
  BY <1>1, Taken DEF Split
<1>3. PICK held : held = Append(pending, es[k + 1])
  OBVIOUS
<1>4. /\ h # None /\ cur' = None /\ out' = Append(out, Extended(h, SubSeq(held, 1, Context)))
      /\ pending' = LastOf(held, Context) /\ Context \in Nat \ {0}
      /\ Len(held) > 2 * Context
  BY <1>1, <1>3, ContextAssumption DEF Split, Held
<1>5. PICK c, w : Chain(es, out, c) /\ Reading(es, k, w, After(c, Len(c)), h, pending)
  BY <1>1, <1>2, <1>4 DEF GroupInv, Grouping
<1>6. PICK end : end = After(c, Len(c))
  OBVIOUS
<1>7. /\ w \in Nat /\ w <= k + 1 /\ k + 1 <= Len(es) /\ AllEqual(es, w, k + 1)
      /\ held = Gap(es, w, k + 1)
      /\ Len(held) = (k + 1) - w
  BY <1>2, <1>3, <1>5, OneMore
<1>8. /\ es[w].kind # "equal" /\ k <= w + 2 * Context
      /\ \E from : h = Stretch(es, from, w) /\ Link(es, from, w, end)
  BY <1>4, <1>5, <1>6 DEF Reading, OneOpen
<1>9. PICK from : h = Stretch(es, from, w) /\ Link(es, from, w, end)
  BY <1>8
<1>10. k + 1 = w + 2 * Context + 1
  <2>1. PICK n \in Nat : n = 2 * Context
    BY <1>4
  <2>2. k <= w + n
    BY <1>8, <2>1
  <2>3. (k + 1) - w > n
    BY <1>4, <1>7, <2>1
  <2> QED
    BY <1>2, <1>7, <2>1, <2>2, <2>3
<1>11. PICK t \in Nat : t = w + Context
  BY <1>4, <1>7
<1>12. /\ w <= t /\ t < k + 1 /\ t <= Len(es) /\ (k + 1) - Context = t + 1 /\ (k + 1) - w > Context
       /\ t <= k + 1 /\ Context = t - w /\ k + 1 \in Nat /\ Context \in Nat
  BY <1>2, <1>4, <1>7, <1>10, <1>11
<1>13. AllEqual(es, w, t) /\ AllEqual(es, t, k + 1) /\ AllEqual(es, t + 1, k + 1)
  <2>1. PICK n \in Nat, u \in Nat : n = k + 1 /\ u = t + 1
    BY <1>12
  <2>2. AllEqual(es, w, n) /\ w <= w /\ w <= t /\ w <= u /\ t <= n /\ n <= n
    BY <1>7, <1>12, <2>1
  <2>3. AllEqual(es, w, t) /\ AllEqual(es, t, n) /\ AllEqual(es, u, n)
    BY <1>7, <2>2, EqualWithin
  <2> QED
    BY <2>1, <2>3
<1>14. SubSeq(held, 1, Context) = Gap(es, w, t)
  <2>1. Gap(held, 0, Context) = Gap(es, w, t)
    BY <1>2, <1>7, <1>12, FirstIs
  <2>2. SubSeq(held, 1, Context) = Gap(held, 0, Context)
    BY DEF Gap
  <2> QED
    BY <2>1, <2>2
<1>15. from \in Nat /\ from <= w
  BY <1>9 DEF Link
<1>16. Extended(h, SubSeq(held, 1, Context)) = Stretch(es, from, t)
  <2>1. Extended(Stretch(es, from, w), Gap(es, w, t)) = Stretch(es, from, t)
    BY <1>2, <1>7, <1>12, <1>13, <1>15, ExtendedStretch
  <2> QED
    BY <1>9, <1>14, <2>1, Zenon
<1>17. Link(es, from, t, end) /\ Ends(es, from, t)
  <2>1. t <= w + Context /\ ~(t < w + Context)
    BY <1>11, <1>12
  <2> QED
    BY <1>2, <1>8, <1>9, <1>12, <1>13, <2>1, LinkExtended
<1>18. Closed(es, Stretch(es, from, t), from, t, After(c, Len(c)))
  BY <1>6, <1>17 DEF Closed
<1>19. PICK d : Chain(es, out', d) /\ After(d, Len(d)) = t
  BY <1>2, <1>4, <1>5, <1>16, <1>18, ChainGrows
<1>20. pending' = Gap(es, t + 1, k + 1)
  BY <1>2, <1>4, <1>7, <1>12, LastIs
<1>21. NoneOpen(es, k + 1, t + 1, t)
  BY <1>4, <1>10, <1>11, <1>12, <1>13 DEF NoneOpen
<1>22. t + 1 \in 0..(k + 1)
  BY <1>12
<1>23. Reading(es, k + 1, t + 1, t, None, pending')
  BY <1>13, <1>20, <1>21, <1>22 DEF Reading
<1> QED
  BY <1>2, <1>4, <1>19, <1>23 DEF Grouping

LEMMA ChangeGroups ==
  ASSUME ScriptInv, GroupInv, Change
  PROVE  Grouping(edits', taken', cur', pending', out')
<1>1. PICK es, k : es = edits /\ k = taken
  OBVIOUS
<1>2. PICK a, b : /\ a = (IF es[k + 1].kind = "insert" THEN 0 ELSE 1)
                  /\ b = (IF es[k + 1].kind = "delete" THEN 0 ELSE 1)
  OBVIOUS
<1>3. /\ edits' = es /\ taken' = k + 1 /\ es \in Seq(Edit) /\ Len(es) \in Nat
      /\ k \in Nat /\ k < Len(es) /\ es[k + 1].kind # "equal" /\ pc = "group"
      /\ oldLine' - oldLine = a /\ newLine' - newLine = b
      /\ oldLine = Passed(es, k, "insert") /\ newLine = Passed(es, k, "delete")
  BY <1>1, <1>2, Taken DEF Change
<1>4. PICK h : h = Extended(IF cur = None THEN NewHunk ELSE cur, pending)
  OBVIOUS
<1>5. /\ cur' = WithEdits(h, Append(h.edits, es[k + 1]), h.oldCount + a, h.newCount + b)
      /\ pending' = <<>> /\ out' = out /\ Context \in Nat
  <2>1. cur' = WithEdits(h, Append(h.edits, es[k + 1]), h.oldCount + (oldLine' - oldLine),
                            h.newCount + (newLine' - newLine))
    BY <1>1, <1>4, Zenon DEF Change, WithEdits
  <2> QED
    BY <1>3, <2>1, ContextAssumption DEF Change
<1>6. PICK c, w : Chain(es, out, c) /\ Reading(es, k, w, After(c, Len(c)), cur, pending)
  BY <1>1, <1>3 DEF GroupInv, Grouping
<1>7. PICK end : end = After(c, Len(c))
  OBVIOUS
<1>8. end \in Nat
  <2>1. Len(c) \in 0..Len(out)
    BY <1>6 DEF Chain
  <2> QED
    BY <1>3, <1>6, <1>7, <2>1, AfterIs
<1>9. w \in Nat /\ w <= k /\ k <= Len(es) /\ pending = Gap(es, w, k) /\ AllEqual(es, w, k)
  BY <1>3, <1>6 DEF Reading
<1>10. \E from \in Nat : /\ from <= w /\ h = Extended(Stretch(es, from, w), pending)
                         /\ Link(es, from, k + 1, end)
  <2>1. CASE cur = None
    <3>1. /\ AllEqual(es, end, k) /\ end <= w /\ (end > 0 => end < w)
          /\ k <= w + Context /\ (k < w + Context => w = 0)
      BY <1>6, <1>7, <2>1 DEF Reading, NoneOpen
    <3>2. Link(es, w, k + 1, end)
      BY <1>3, <1>8, <1>9, <3>1, LinkNew
    <3>3. NewHunk = Stretch(es, w, w)
      <4>1. Len(pending) = k - w
        BY <1>3, <1>9, GapIs DEF IsGap
      <4>2. "insert" # "equal" /\ "delete" # "equal" /\ \A kind : Passed(es, w, kind) \in Nat
        BY <1>9, PassedStep
      <4>3. Passed(es, k, "insert") = Passed(es, w, "insert") + (k - w)
        BY <1>3, <1>9, <4>2, PassedEqual
      <4>4. Passed(es, k, "delete") = Passed(es, w, "delete") + (k - w)
        BY <1>3, <1>9, <4>2, PassedEqual
      <4>5. /\ oldLine - Len(pending) = Passed(es, w, "insert")
            /\ newLine - Len(pending) = Passed(es, w, "delete")
            /\ Passed(es, w, "insert") - Passed(es, w, "insert") = 0
            /\ Passed(es, w, "delete") - Passed(es, w, "delete") = 0
        BY <1>3, <1>9, <4>1, <4>2, <4>3, <4>4
      <4>6. <<>> = Gap(es, w, w)
        BY <1>3, <1>9, GapEmpty
      <4> QED
        BY <4>5, <4>6, Zenon DEF NewHunk, Stretch
    <3> QED
      BY <1>4, <1>9, <2>1, <3>2, <3>3
  <2>2. CASE cur # None
    <3>1. /\ es[w].kind # "equal" /\ k <= w + 2 * Context
          /\ \E from : cur = Stretch(es, from, w) /\ Link(es, from, w, end)
      BY <1>6, <1>7, <2>2 DEF Reading, OneOpen
    <3>2. PICK from : cur = Stretch(es, from, w) /\ Link(es, from, w, end)
      BY <3>1
    <3>3. Link(es, from, k + 1, end)
      BY <1>3, <1>9, <3>1, <3>2, LinkChanged
    <3>4. from \in Nat /\ from <= w
      BY <3>2 DEF Link
    <3> QED
      BY <1>4, <2>2, <3>2, <3>3, <3>4
  <2> QED
    BY <2>1, <2>2
<1>11. PICK from \in Nat : /\ from <= w /\ h = Extended(Stretch(es, from, w), pending)
                           /\ Link(es, from, k + 1, end)
  BY <1>10
<1>12. h = Stretch(es, from, k)
  BY <1>3, <1>9, <1>11, ExtendedStretch
<1>13. from <= k
  BY <1>3, <1>9, <1>11
<1>14. cur' = Stretch(es, from, k + 1)
  BY <1>2, <1>3, <1>5, <1>12, <1>13, ChangedStretch
<1>15. k + 1 \in Nat /\ k + 1 <= Len(es) /\ k + 1 \in 0..(k + 1) /\ from <= k + 1
       /\ k + 1 <= (k + 1) + 2 * Context
  BY <1>3, <1>5, <1>13
<1>16. cur' # None
  BY <1>3, <1>14, <1>15, StretchIs, NoneAssumption
<1>17. pending' = Gap(es, k + 1, k + 1)
  BY <1>3, <1>5, <1>15, GapEmpty
<1>18. AllEqual(es, k + 1, k + 1)
  BY <1>3 DEF AllEqual
<1>19. OneOpen(es, k + 1, k + 1, end, cur')
  BY <1>3, <1>11, <1>14, <1>15 DEF OneOpen
<1>20. Reading(es, k + 1, k + 1, end, cur', pending')
  BY <1>15, <1>16, <1>17, <1>18, <1>19 DEF Reading
<1> QED
  BY <1>3, <1>5, <1>6, <1>7, <1>20 DEF Grouping

LEMMA FinishGroups ==
  ASSUME ScriptInv, GroupInv, Finish
  PROVE  /\ Grouped(edits', out') /\ cur' = None /\ pending' = <<>> /\ pc' = "done"
         /\ edits' = edits /\ taken' = Len(edits)
         /\ At(edits, Len(edits), oldLine', newLine')
<1>1. PICK es, k, h : es = edits /\ k = Len(edits) /\ h = cur
  OBVIOUS
<1>2. /\ edits' = es /\ taken = k /\ taken' = k /\ es \in Seq(Edit) /\ Len(es) \in Nat /\ k = Len(es)
      /\ pc = "group" /\ pc' = "done" /\ cur' = None /\ pending' = <<>>
      /\ oldLine' = oldLine /\ newLine' = newLine
      /\ out' = IF h = None THEN out ELSE Append(out, Extended(h, FirstOf(pending, Context)))
  BY <1>1 DEF Finish, ScriptInv
<1>3. Context \in Nat
  BY ContextAssumption
<1>4. At(edits, Len(edits), oldLine', newLine') /\ Grouping(es, k, h, pending, out)
  BY <1>1, <1>2 DEF GroupInv
<1>5. PICK c, w : Chain(es, out, c) /\ Reading(es, k, w, After(c, Len(c)), h, pending)
  BY <1>4 DEF Grouping
<1>6. PICK end : end = After(c, Len(c))
  OBVIOUS
<1>7. Grouped(es, out')
  <2>1. CASE h = None
    <3>1. AllEqual(es, end, k)
      BY <1>5, <1>6, <2>1 DEF Reading, NoneOpen
    <3> QED
      BY <1>2, <1>5, <1>6, <2>1, <3>1 DEF Grouped
  <2>2. CASE h # None
    <3>1. /\ w \in Nat /\ w <= k /\ pending = Gap(es, w, k) /\ AllEqual(es, w, k)
      BY <1>2, <1>5 DEF Reading
    <3>2. /\ es[w].kind # "equal"
          /\ \E from : h = Stretch(es, from, w) /\ Link(es, from, w, end)
      BY <1>5, <1>6, <2>2 DEF Reading, OneOpen
    <3>3. PICK from : h = Stretch(es, from, w) /\ Link(es, from, w, end)
      BY <3>2
    <3>4. from \in Nat /\ from <= w
      BY <3>3 DEF Link
    <3>5. PICK t \in Nat : t = IF k - w > Context THEN w + Context ELSE k
      BY <1>2, <1>3, <3>1
    <3>6. /\ w <= t /\ t <= k /\ t <= Len(es) /\ t <= w + Context /\ (t < w + Context => t = Len(es))
      BY <1>2, <1>3, <3>1, <3>5
    <3>7. AllEqual(es, w, t) /\ AllEqual(es, t, k)
      BY <1>2, <3>1, <3>6 DEF AllEqual
    <3>8. FirstOf(pending, Context) = Gap(es, w, t)
      <4>1. Len(pending) = k - w
        <5>1. k \in Nat /\ k <= Len(es)
          BY <1>2
        <5>2. IsGap(Gap(es, w, k), es, w, k)
          BY <1>2, <3>1, <5>1, GapIs
        <5> QED
          BY <3>1, <5>2 DEF IsGap
      <4>2. CASE k - w > Context
        <5>1. Context = t - w
          BY <1>3, <3>1, <3>5, <4>2
        <5>2. Gap(pending, 0, Context) = Gap(es, w, t)
          BY <1>2, <3>1, <3>6, <5>1, FirstIs
        <5>3. FirstOf(pending, Context) = SubSeq(pending, 1, Context)
          BY <4>1, <4>2 DEF FirstOf
        <5>4. SubSeq(pending, 1, Context) = Gap(pending, 0, Context)
          BY DEF Gap
        <5> QED
          BY <5>2, <5>3, <5>4
      <4>3. CASE ~(k - w > Context)
        BY <3>1, <3>5, <4>1, <4>3 DEF FirstOf
      <4> QED
        BY <4>2, <4>3
    <3>9. Extended(h, FirstOf(pending, Context)) = Stretch(es, from, t)
      <4>1. Extended(Stretch(es, from, w), Gap(es, w, t)) = Stretch(es, from, t)
        BY <1>2, <3>1, <3>4, <3>6, <3>7, ExtendedStretch
      <4> QED
        BY <3>3, <3>8, <4>1, Zenon
    <3>10. Link(es, from, t, end) /\ Ends(es, from, t)
      BY <1>2, <3>2, <3>3, <3>6, <3>7, LinkExtended
    <3>11. Closed(es, Stretch(es, from, t), from, t, After(c, Len(c)))
      BY <1>6, <3>10 DEF Closed
    <3>12. out' = Append(out, Stretch(es, from, t))
      BY <1>2, <2>2, <3>9
    <3>13. PICK d : Chain(es, out', d) /\ After(d, Len(d)) = t
      BY <1>2, <1>5, <3>11, <3>12, ChainGrows
    <3> QED
      BY <1>2, <3>7, <3>13 DEF Grouped
  <2> QED
    BY <2>1, <2>2
<1> QED
  BY <1>1, <1>2, <1>4, <1>7

LEMMA InitGroups ==
  ASSUME Init
  PROVE  GroupInv
BY DEF Init, ScriptInit, GroupInv

LEMMA NextGroups ==
  ASSUME ScriptInv, GroupInv, [Next]_vars
  PROVE  GroupInv'
<1>1. /\ old \in Files /\ new \in Files /\ edits \in Seq(Edit) /\ Len(edits) \in Nat
  BY DEF ScriptInv
<1>2. CASE NoDifference
  <2>1. /\ pc' = "done" /\ old' = old /\ new' = new /\ old = new
        /\ oldLine' = oldLine /\ newLine' = newLine /\ pc = "start"
    BY <1>2 DEF NoDifference, files
  <2>2. edits = <<>> /\ oldLine = Passed(edits, Len(edits), "insert")
        /\ newLine = Passed(edits, Len(edits), "delete")
    BY <2>1 DEF ScriptInv, Building
  <2>3. oldLine = 0 /\ newLine = 0
    BY <2>2, PassedStep
  <2> QED
    BY <2>1, <2>3 DEF GroupInv
<1>3. CASE Start \/ (Script /\ UNCHANGED grouped)
  <2>1. pc' \in {"trim", "walk", "rest"}
    BY <1>3 DEF Start, Script, Prefix, Suffix, Middle, Walk, Walking, Rest
  <2> QED
    BY <2>1 DEF GroupInv
<1>4. CASE Group
  <2>1. /\ pc' = "group" /\ edits' = edits /\ oldLine' = 0 /\ newLine' = 0 /\ UNCHANGED grouped
        /\ Idle
    BY <1>4 DEF Group, ScriptInv, Building
  <2>2. At(edits, 0, 0, 0)
    BY <1>1, PassedStep DEF At
  <2>3. Grouping(edits, 0, None, <<>>, <<>>)
    <3>1. PICK c, hs : /\ c \in Seq([from : Nat, to : Nat]) /\ Len(c) = 0
                       /\ hs \in Seq(Hunk) /\ Len(hs) = 0 /\ hs = <<>>
      <4>1. <<>> \in Seq([from : Nat, to : Nat]) /\ Len(<<>>) = 0
        OBVIOUS
      <4>2. <<>> \in Seq(Hunk)
        OBVIOUS
      <4> QED
        BY <4>1, <4>2, Zenon
    <3>2. Chain(edits, hs, c) /\ After(c, Len(c)) = 0
      BY <3>1 DEF Chain, After
    <3>3. <<>> = Gap(edits, 0, 0) /\ AllEqual(edits, 0, 0)
      BY <1>1, GapEmpty DEF AllEqual
    <3>4. Context \in Nat
      BY ContextAssumption
    <3>5. NoneOpen(edits, 0, 0, 0)
      BY <3>3, <3>4 DEF NoneOpen
    <3>6. Reading(edits, 0, 0, 0, None, <<>>)
      BY <3>3, <3>5 DEF Reading
    <3> QED
      BY <3>1, <3>2, <3>6 DEF Grouping
  <2>4. taken' = 0 /\ cur' = None /\ pending' = <<>> /\ out' = <<>>
    BY <2>1 DEF Idle, grouped
  <2> QED
    BY <2>1, <2>2, <2>3, <2>4 DEF GroupInv
<1>5. CASE Hold \/ Follow \/ Split \/ Change
  <2>1. Grouping(edits', taken', cur', pending', out')
    BY <1>5, HoldGroups, FollowGroups, SplitGroups, ChangeGroups
  <2>2. PICK kinds : Take(kinds)
    BY <1>5 DEF Hold, Follow, Split, Change
  <2>3. pc' = "group" /\ At(edits', taken', oldLine', newLine')
    BY <2>2, Taken
  <2> QED
    BY <2>1, <2>3 DEF GroupInv
<1>6. CASE Finish
  <2>1. /\ Grouped(edits', out') /\ cur' = None /\ pending' = <<>> /\ pc' = "done"
        /\ edits' = edits /\ taken' = Len(edits)
        /\ At(edits, Len(edits), oldLine', newLine')
    BY <1>6, FinishGroups
  <2>2. old' = old /\ new' = new /\ old # new
    BY <1>6 DEF Finish, files, ScriptInv
  <2> QED
    BY <2>1, <2>2 DEF GroupInv
<1>7. CASE UNCHANGED vars
  <2>1. /\ pc' = pc /\ edits' = edits /\ taken' = taken /\ oldLine' = oldLine /\ newLine' = newLine
        /\ cur' = cur /\ pending' = pending /\ out' = out /\ old' = old /\ new' = new
    BY <1>7 DEF vars, files, grouped
  <2> QED
    BY <2>1 DEF GroupInv
<1> QED
  BY <1>2, <1>3, <1>4, <1>5, <1>6, <1>7 DEF Next

-----------------------------------------------------------------------------
IInv == ScriptInv /\ GroupInv

LEMMA Inductive == Spec => []IInv
<1>1. Init => IInv
  BY InitScript, InitGroups DEF IInv
<1>2. IInv /\ [Next]_vars => IInv'
  BY NextScript, NextGroups DEF IInv
<1> QED
  BY <1>1, <1>2, PTL DEF Spec

\* However far the script was read, there are hunks out of it that follow each other.
LEMMA Chained ==
  ASSUME IInv, old # new, pc \in {"group", "done"}
  PROVE  /\ edits \in Seq(Edit) /\ Len(edits) \in Nat /\ \E c : Chain(edits, out, c)
         /\ taken \in 0..Len(edits) /\ At(edits, taken, oldLine, newLine)
         /\ Complete
BY DEF IInv, ScriptInv, GroupInv, Grouping, Grouped, At

\* Before the grouping there are no hunks, and none if the files are the same.
LEMMA NoneYet ==
  ASSUME IInv, ~(old # new /\ pc \in {"group", "done"})
  PROVE  /\ Idle /\ oldLine <= Len(OldLines) /\ newLine <= Len(NewLines)
         /\ oldLine \in Nat /\ newLine \in Nat
<1>1. pc \in {"start", "trim", "walk", "rest"} \/ (pc = "done" /\ old = new)
  BY DEF IInv, ScriptInv
<1>2. CASE pc \in {"start", "trim", "walk", "rest"}
  <2>1. Building /\ Len(edits) \in Nat
    BY <1>2 DEF IInv, ScriptInv
  <2>2. Passed(edits, Len(edits), "insert") \in Nat /\ Passed(edits, Len(edits), "delete") \in Nat
    BY <2>1, PassedStep
  <2> QED
    BY <2>1, <2>2 DEF Building
<1>3. CASE pc = "done" /\ old = new
  <2>1. Idle /\ oldLine = 0 /\ newLine = 0
    BY <1>3 DEF IInv, ScriptInv, GroupInv
  <2>2. Len(OldLines) \in Nat /\ Len(NewLines) \in Nat
    BY BothLines DEF IInv, ScriptInv
  <2> QED
    BY <2>1, <2>2
<1> QED
  BY <1>1, <1>2, <1>3

LEMMA Typed ==
  ASSUME IInv
  PROVE  TypeOK
<1>1. /\ old \in Files /\ new \in Files /\ edits \in Seq(Edit) /\ Len(edits) \in Nat
      /\ pc \in {"start", "trim", "walk", "rest", "group", "done"}
      /\ SameTail
  BY DEF IInv, ScriptInv
<1>2. /\ Len(OldLines) = Len(old.texts) /\ Len(NewLines) = Len(new.texts)
      /\ Len(OldLines) \in Nat /\ Len(NewLines) \in Nat
  BY <1>1, BothLines
<1>3. tail \in 0..Len(old.texts) /\ tail \in 0..Len(new.texts)
  BY <1>1, <1>2 DEF SameTail
<1>4. Context \in Nat /\ None \notin Hunk
  BY ContextAssumption, NoneAssumption
<1>5. CASE ~(old # new /\ pc \in {"group", "done"})
  <2>1. /\ taken = 0 /\ cur = None /\ pending = <<>> /\ out = <<>>
        /\ oldLine \in 0..Len(old.texts) /\ newLine \in 0..Len(new.texts)
    BY <1>2, <1>5, NoneYet DEF Idle
  <2>2. /\ <<>> \in Seq(Hunk) /\ <<>> \in Seq({e \in Edit : e.kind = "equal"})
        /\ Len(<<>>) <= Context /\ 0 \in 0..Len(edits)
    BY <1>1, <1>4
  <2> QED
    BY <1>1, <1>3, <2>1, <2>2 DEF TypeOK
<1>6. CASE old # new /\ pc \in {"group", "done"}
  <2>1. /\ \E c : Chain(edits, out, c)
        /\ taken \in 0..Len(edits) /\ At(edits, taken, oldLine, newLine) /\ Complete
    BY <1>6, Chained
  <2>2. out \in Seq(Hunk)
    BY <2>1 DEF Chain
  <2>3. oldLine \in 0..Len(old.texts) /\ newLine \in 0..Len(new.texts)
    <3>1. ASSUME NEW kind
          PROVE  /\ Passed(edits, taken, kind) \in Nat
                 /\ Passed(edits, taken, kind) <= Passed(edits, Len(edits), kind)
      <4>1. taken \in Nat /\ taken <= Len(edits)
        BY <1>1, <2>1
      <4> QED
        BY <1>1, <4>1, PassedStep, PassedGrows
    <3> QED
      BY <1>2, <2>1, <3>1 DEF At, Complete
  <2>4. CASE pc = "done"
    <3>1. cur = None /\ pending = <<>>
      BY <1>6, <2>4 DEF IInv, GroupInv
    <3>2. <<>> \in Seq({e \in Edit : e.kind = "equal"}) /\ Len(<<>>) <= Context
      BY <1>4
    <3> QED
      BY <1>1, <1>3, <2>1, <2>2, <2>3, <3>1, <3>2 DEF TypeOK
  <2>5. CASE pc = "group"
    <3>1. PICK c, w : Reading(edits, taken, w, After(c, Len(c)), cur, pending)
      BY <2>5 DEF IInv, GroupInv, Grouping
    <3>2. /\ w \in Nat /\ w <= taken /\ taken \in Nat /\ taken <= Len(edits)
          /\ pending = Gap(edits, w, taken) /\ AllEqual(edits, w, taken)
      BY <1>1, <2>1, <3>1 DEF Reading
    <3>3. pending \in Seq(Edit) /\ IsGap(pending, edits, w, taken)
      BY <1>1, <3>2, GapIs
    <3>4. Len(pending) = taken - w /\ \A i \in 1..(taken - w) : pending[i] = edits[w + i]
      BY <3>3 DEF IsGap
    <3>5. ASSUME NEW i \in 1..(taken - w)  PROVE pending[i] \in {e \in Edit : e.kind = "equal"}
      <4>1. w + i \in (w + 1)..taken /\ w + i \in 1..Len(edits)
        BY <1>1, <3>2
      <4> QED
        BY <1>1, <3>2, <3>4, <4>1 DEF AllEqual
    <3>6. pending \in Seq({e \in Edit : e.kind = "equal"})
      BY <3>3, <3>4, <3>5
    <3>7. cur \in Hunk \cup {None} /\ Len(pending) <= IF cur = None THEN Context ELSE 2 * Context
      <4>1. CASE cur = None
        <5>1. taken <= w + Context
          BY <3>1, <4>1 DEF Reading, NoneOpen
        <5> QED
          BY <1>4, <3>2, <3>4, <4>1, <5>1
      <4>2. CASE cur # None
        <5>1. /\ taken <= w + 2 * Context
              /\ \E from : cur = Stretch(edits, from, w) /\ Link(edits, from, w, After(c, Len(c)))
          BY <3>1, <4>2 DEF Reading, OneOpen
        <5>2. PICK from : cur = Stretch(edits, from, w) /\ Link(edits, from, w, After(c, Len(c)))
          BY <5>1
        <5>3. from \in Nat /\ from <= w /\ w <= Len(edits)
          BY <5>2 DEF Link
        <5>4. cur \in Hunk
          BY <1>1, <3>2, <5>2, <5>3, StretchIs
        <5>5. Len(pending) <= 2 * Context
          <6>1. PICK n \in Nat : n = 2 * Context
            BY <1>4
          <6>2. taken <= w + n
            BY <5>1, <6>1
          <6> QED
            BY <3>2, <3>4, <6>1, <6>2
        <5> QED
          BY <4>2, <5>4, <5>5
      <4> QED
        BY <4>1, <4>2
    <3> QED
      BY <1>1, <1>3, <2>1, <2>2, <2>3, <3>6, <3>7 DEF TypeOK
  <2> QED
    BY <1>6, <2>4, <2>5
<1> QED
  BY <1>5, <1>6

\* Every variable has its type in every reachable state, and no more lines than
\* the context allows are held back.
THEOREM TypesCorrect == Spec => []TypeOK
BY Inductive, Typed, PTL

\* A script without a change says that both files have the same lines.
LEMMA NothingChanged ==
  ASSUME IInv, Complete, AllEqual(edits, 0, Len(edits))
  PROVE  old = new
<1>1. /\ old \in Files /\ new \in Files /\ edits \in Seq(Edit) /\ Len(edits) \in Nat
      /\ Follows(edits, OldLines, NewLines)
  BY DEF IInv, ScriptInv
<1>2. /\ OldLines \in Seq(SrcLine) /\ NewLines \in Seq(SrcLine)
  BY <1>1, BothLines
<1>3. ASSUME NEW kind, kind # "equal", NEW k \in 0..Len(edits)  PROVE Passed(edits, k, kind) = k
  <2>1. /\ k \in Nat /\ 0 \in Nat /\ 0 <= k /\ Passed(edits, 0, kind) = 0
        /\ AllEqual(edits, 0, k)
    BY <1>1, PassedStep DEF AllEqual
  <2>2. Passed(edits, k, kind) = Passed(edits, 0, kind) + (k - 0)
    BY <1>3, <2>1, PassedEqual
  <2> QED
    BY <2>1, <2>2
<1>4. Len(OldLines) = Len(edits) /\ Len(NewLines) = Len(edits)
  BY <1>1, <1>3 DEF Complete
<1>5. ASSUME NEW k \in 1..Len(edits)  PROVE OldLines[k] = NewLines[k]
  <2>1. edits[k].kind = "equal" /\ k \in DOMAIN edits
    BY <1>1 DEF AllEqual
  <2>2. Passed(edits, k, "insert") = k /\ Passed(edits, k, "delete") = k
    BY <1>3
  <2> QED
    BY <1>1, <2>1, <2>2 DEF Follows
<1>6. OldLines = NewLines
  BY <1>1, <1>2, <1>4, <1>5
<1> QED
  BY <1>1, <1>6, LinesTell DEF OldLines, NewLines

\* -l and -d agree: two versions that differ, be it in the final newline alone, have
\* at least one hunk, and the same version has none.
THEOREM EmptyDiff == Spec => []EmptyMeansSame
<1>1. IInv => EmptyMeansSame
  <2> SUFFICES ASSUME IInv, pc = "done"  PROVE out = <<>> <=> old = new
    BY DEF EmptyMeansSame
  <2>1. ASSUME old = new  PROVE out = <<>>
    BY <2>1, NoneYet DEF Idle
  <2>2. ASSUME old # new, out = <<>>  PROVE FALSE
    <3>1. Complete /\ Len(edits) \in Nat
      BY <2>2, Chained
    <3>2. PICK c : Chain(edits, out, c) /\ AllEqual(edits, After(c, Len(c)), Len(edits))
      BY <2>2 DEF IInv, GroupInv, Grouped
    <3>3. After(c, Len(c)) = 0
      BY <2>2, <3>2 DEF Chain, After
    <3> QED
      BY <2>2, <3>1, <3>2, <3>3, NothingChanged
  <2> QED
    BY <2>1, <2>2
<1> QED
  BY <1>1, Inductive, PTL

-----------------------------------------------------------------------------
\* An unchanged piece of the script is the same piece of both files.
LEMMA SameGap ==
  ASSUME NEW es \in Seq(Edit), NEW o \in Seq(SrcLine), NEW n \in Seq(SrcLine), Follows(es, o, n),
         Passed(es, Len(es), "insert") <= Len(o), Passed(es, Len(es), "delete") <= Len(n),
         NEW a \in Nat, NEW b \in Nat, a <= b, b <= Len(es), AllEqual(es, a, b)
  PROVE  /\ Passed(es, a, "insert") <= Passed(es, b, "insert")
         /\ Passed(es, a, "delete") <= Passed(es, b, "delete")
         /\ Gap(o, Passed(es, a, "insert"), Passed(es, b, "insert"))
              = Gap(n, Passed(es, a, "delete"), Passed(es, b, "delete"))
<1>1. Len(es) \in Nat /\ Len(o) \in Nat /\ Len(n) \in Nat /\ DOMAIN es = 1..Len(es)
  OBVIOUS
<1>2. ASSUME NEW kind
      PROVE  /\ Passed(es, a, kind) \in Nat /\ Passed(es, b, kind) \in Nat
             /\ Passed(es, a, kind) <= Passed(es, b, kind)
             /\ Passed(es, b, kind) <= Passed(es, Len(es), kind)
             /\ Passed(es, Len(es), kind) \in Nat
  BY <1>1, PassedStep, PassedGrows
<1>3. ASSUME NEW kind, kind # "equal", NEW k \in 1..(b - a)
      PROVE  Passed(es, a + k, kind) = Passed(es, a, kind) + k
  <2>1. PICK t \in Nat : t = a + k
    OBVIOUS
  <2>2. AllEqual(es, a, t)
    BY <2>1 DEF AllEqual
  <2>3. a <= t /\ kind # "equal"
    BY <1>3, <2>1
  <2>4. Passed(es, t, kind) = Passed(es, a, kind) + (t - a)
    BY <2>2, <2>3, PassedEqual
  <2>5. t - a = k
    BY <2>1
  <2> QED
    BY <2>1, <2>4, <2>5
<1>4. ASSUME NEW kind, kind # "equal"
      PROVE  Passed(es, b, kind) = Passed(es, a, kind) + (b - a)
  BY <1>4, PassedEqual
<1>5. PICK p \in Nat, q \in Nat : p = Passed(es, a, "insert") /\ q = Passed(es, b, "insert")
  BY <1>2
<1>6. PICK u \in Nat, v \in Nat : u = Passed(es, a, "delete") /\ v = Passed(es, b, "delete")
  BY <1>2
<1>7. /\ q = p + (b - a) /\ v = u + (b - a) /\ p <= q /\ u <= v /\ q - p = b - a /\ v - u = b - a
      /\ q <= Len(o) /\ v <= Len(n)
  <2>1. q = p + (b - a) /\ v = u + (b - a)
    BY <1>4, <1>5, <1>6
  <2>2. q <= Len(o) /\ v <= Len(n)
    BY <1>1, <1>2, <1>5, <1>6
  <2> QED
    BY <2>1, <2>2
<1>8. PICK s \in Seq(SrcLine) : s = Gap(o, p, q) /\ IsGap(s, o, p, q)
  BY <1>7, GapIs
<1>9. ASSUME NEW k \in 1..(b - a)  PROVE s[k] = n[u + k]
  <2>1. s[k] = o[p + k]
    BY <1>7, <1>8 DEF IsGap
  <2>2. a + k \in DOMAIN es /\ es[a + k].kind = "equal"
    <3>1. a + k \in (a + 1)..b /\ a + k \in 1..Len(es)
      BY <1>1
    <3> QED
      BY <1>1, <3>1 DEF AllEqual
  <2>3. /\ es[a + k].line = o[Passed(es, a + k, "insert")]
        /\ es[a + k].line = n[Passed(es, a + k, "delete")]
    BY <2>2 DEF Follows
  <2>4. Passed(es, a + k, "insert") = p + k /\ Passed(es, a + k, "delete") = u + k
    BY <1>3, <1>5, <1>6
  <2> QED
    BY <2>1, <2>3, <2>4
<1>10. IsGap(s, n, u, v)
  BY <1>7, <1>8, <1>9 DEF IsGap
<1>11. s = Gap(n, u, v)
  BY <1>7, <1>10, GapTells
<1> QED
  BY <1>5, <1>6, <1>7, <1>8, <1>11

\* The edits of a stretch, with the lines they pass.
LEMMA StretchReads ==
  ASSUME NEW es \in Seq(Edit), NEW from \in Nat, NEW to \in Nat, from <= to, to <= Len(es),
         NEW fs, fs = Gap(es, from, to)
  PROVE  /\ IsGap(fs, es, from, to) /\ DOMAIN fs = 1..(to - from)
         /\ \A kind : Shifted(es, fs, from, to, kind)
<1>1. fs \in Seq(Edit) /\ IsGap(fs, es, from, to)
  BY GapIs
<1>2. DOMAIN fs = 1..(to - from)
  BY <1>1 DEF IsGap
<1>3. \A kind : Shifted(es, fs, from, to, kind)
  BY <1>1, PassedShift
<1> QED
  BY <1>1, <1>2, <1>3

\* The ranges of a header lead back to what was counted.
LEMMA RangeIs ==
  ASSUME NEW h \in Hunk
  PROVE  /\ LinesBefore(OldRange(h)) = h.oldStart /\ OldRange(h)[2] = h.oldCount
         /\ LinesBefore(NewRange(h)) = h.newStart /\ NewRange(h)[2] = h.newCount
<1>1. ASSUME NEW s \in Nat, NEW c \in Nat  PROVE LinesBefore(Rng(s, c)) = s /\ Rng(s, c)[2] = c
  BY DEF LinesBefore, Rng
<1>2. h.oldStart \in Nat /\ h.oldCount \in Nat /\ h.newStart \in Nat /\ h.newCount \in Nat
  BY DEF Hunk
<1> QED
  BY <1>1, <1>2 DEF OldRange, NewRange

\* Where a hunk begins and ends in the files.
LEMMA Borders ==
  ASSUME edits \in Seq(Edit), NEW c, Chain(edits, out, c), NEW i \in 1..Len(out)
  PROVE  /\ BeginOld(i) = Passed(edits, c[i].from, "insert")
         /\ BeginNew(i) = Passed(edits, c[i].from, "delete")
         /\ EndOld(i) = Passed(edits, c[i].to, "insert")
         /\ EndNew(i) = Passed(edits, c[i].to, "delete")
         /\ c[i].from \in Nat /\ c[i].to \in Nat /\ c[i].from <= c[i].to /\ c[i].to <= Len(edits)
         /\ out[i].edits = Gap(edits, c[i].from, c[i].to)
<1>1. PICK from, to : from = c[i].from /\ to = c[i].to
  OBVIOUS
<1>2. out[i] = Stretch(edits, from, to) /\ Link(edits, from, to, After(c, i - 1))
  BY <1>1 DEF Chain, Closed
<1>3. from \in Nat /\ to \in Nat /\ from <= to /\ to <= Len(edits)
  BY <1>2 DEF Link
<1>4. /\ out[i] \in Hunk
      /\ out[i].oldStart = Passed(edits, from, "insert")
      /\ out[i].newStart = Passed(edits, from, "delete")
      /\ out[i].oldCount = Passed(edits, to, "insert") - Passed(edits, from, "insert")
      /\ out[i].newCount = Passed(edits, to, "delete") - Passed(edits, from, "delete")
      /\ out[i].edits = Gap(edits, from, to)
  BY <1>2, <1>3, StretchIs
<1>5. ~(i > Len(out)) /\ i # 0
  OBVIOUS
<1>6. /\ BeginOld(i) = out[i].oldStart /\ EndOld(i) = out[i].oldStart + out[i].oldCount
      /\ BeginNew(i) = out[i].newStart /\ EndNew(i) = out[i].newStart + out[i].newCount
  BY <1>4, <1>5, RangeIs DEF BeginOld, BeginNew, EndOld, EndNew
<1>7. ASSUME NEW kind  PROVE Passed(edits, from, kind) \in Nat /\ Passed(edits, to, kind) \in Nat
  BY <1>3, PassedStep
<1>8. /\ EndOld(i) = Passed(edits, to, "insert")
      /\ EndNew(i) = Passed(edits, to, "delete")
  BY <1>4, <1>6, <1>7
<1> QED
  BY <1>1, <1>3, <1>4, <1>6, <1>8

LEMMA Rebuilt ==
  ASSUME IInv, pc = "done", old # new
  PROVE  PatchRebuildsNew
<1>1. /\ old \in Files /\ new \in Files /\ edits \in Seq(Edit) /\ Len(edits) \in Nat
      /\ Follows(edits, OldLines, NewLines) /\ Complete
  BY Chained DEF IInv, ScriptInv
<1>2. /\ OldLines \in Seq(SrcLine) /\ NewLines \in Seq(SrcLine)
      /\ Len(OldLines) \in Nat /\ Len(NewLines) \in Nat
  BY <1>1, BothLines
<1>3. PICK c : Chain(edits, out, c) /\ AllEqual(edits, After(c, Len(c)), Len(edits))
  BY DEF IInv, GroupInv, Grouped
<1>4. out \in Seq(Hunk) /\ Len(out) \in Nat /\ DOMAIN out = 1..Len(out) /\ Len(c) = Len(out)
  BY <1>3 DEF Chain
<1>5. ASSUME NEW i \in 0..Len(out)
      PROVE  /\ EndOld(i) <= BeginOld(i + 1) /\ EndNew(i) <= BeginNew(i + 1)
             /\ Gap(OldLines, EndOld(i), BeginOld(i + 1)) = Gap(NewLines, EndNew(i), BeginNew(i + 1))
  <2>1. PICK a \in 0..Len(edits) : a = After(c, i)
    BY <1>1, <1>3, AfterIs
  <2>2. EndOld(i) = Passed(edits, a, "insert") /\ EndNew(i) = Passed(edits, a, "delete")
    <3>1. CASE i = 0
      <4>1. a = 0 /\ EndOld(i) = 0 /\ EndNew(i) = 0
        BY <2>1, <3>1 DEF After, EndOld, EndNew
      <4>2. Passed(edits, 0, "insert") = 0 /\ Passed(edits, 0, "delete") = 0
        BY PassedStep
      <4> QED
        BY <4>1, <4>2
    <3>2. CASE i # 0
      <4>1. i \in 1..Len(out) /\ a = c[i].to
        BY <2>1, <3>2 DEF After
      <4> QED
        BY <1>1, <1>3, <4>1, Borders
    <3> QED
      BY <3>1, <3>2
  <2>3. PICK b \in 0..Len(edits) :
          /\ a <= b /\ AllEqual(edits, a, b)
          /\ BeginOld(i + 1) = Passed(edits, b, "insert")
          /\ BeginNew(i + 1) = Passed(edits, b, "delete")
    <3>1. CASE i = Len(out)
      <4>1. AllEqual(edits, a, Len(edits)) /\ a <= Len(edits) /\ Len(edits) \in 0..Len(edits)
        BY <1>1, <1>3, <1>4, <2>1, <3>1
      <4>2. BeginOld(i + 1) = Len(OldLines) /\ BeginNew(i + 1) = Len(NewLines)
        BY <1>4, <3>1 DEF BeginOld, BeginNew
      <4> QED
        BY <1>1, <4>1, <4>2 DEF Complete
    <3>2. CASE i # Len(out)
      <4>1. PICK j : j = i + 1 /\ j - 1 = i /\ j \in 1..Len(out)
        <5>1. PICK m \in Nat : m = Len(out)
          BY <1>4
        <5>2. i \in 0..m /\ i # m
          BY <3>2, <5>1
        <5>3. i + 1 \in 1..m /\ (i + 1) - 1 = i
          BY <5>2
        <5> QED
          BY <5>1, <5>3
      <4>2. Link(edits, c[j].from, c[j].to, a)
        BY <1>3, <2>1, <4>1 DEF Chain, Closed
      <4>3. /\ BeginOld(j) = Passed(edits, c[j].from, "insert")
            /\ BeginNew(j) = Passed(edits, c[j].from, "delete")
            /\ c[j].from \in Nat /\ c[j].to \in Nat /\ c[j].from <= c[j].to /\ c[j].to <= Len(edits)
        BY <1>1, <1>3, <4>1, Borders
      <4>4. c[j].from \in 0..Len(edits)
        BY <1>1, <4>3
      <4>5. a <= c[j].from /\ AllEqual(edits, a, c[j].from)
        BY <4>2 DEF Link
      <4> QED
        BY <4>1, <4>3, <4>4, <4>5
    <3> QED
      BY <3>1, <3>2
  <2>4. /\ a \in Nat /\ b \in Nat /\ b <= Len(edits)
        /\ Passed(edits, Len(edits), "insert") <= Len(OldLines)
        /\ Passed(edits, Len(edits), "delete") <= Len(NewLines)
    BY <1>1, <1>2 DEF Complete
  <2>5. /\ Passed(edits, a, "insert") <= Passed(edits, b, "insert")
        /\ Passed(edits, a, "delete") <= Passed(edits, b, "delete")
        /\ Gap(OldLines, Passed(edits, a, "insert"), Passed(edits, b, "insert"))
             = Gap(NewLines, Passed(edits, a, "delete"), Passed(edits, b, "delete"))
    BY <1>1, <1>2, <2>3, <2>4, SameGap
  <2> QED
    BY <2>2, <2>3, <2>5
<1>6. ASSUME NEW i \in 1..Len(out)
      PROVE  LET es == out[i].edits IN
             /\ EndOld(i) = BeginOld(i) + Passed(es, Len(es), "insert")
             /\ EndNew(i) = BeginNew(i) + Passed(es, Len(es), "delete")
             /\ \A k \in DOMAIN es :
                  /\ es[k].kind # "insert" => OldLines[BeginOld(i) + Passed(es, k, "insert")] = es[k].line
                  /\ es[k].kind # "delete" => NewLines[BeginNew(i) + Passed(es, k, "delete")] = es[k].line
  <2>1. PICK from, to, fs : from = c[i].from /\ to = c[i].to /\ fs = out[i].edits
    OBVIOUS
  <2>2. /\ BeginOld(i) = Passed(edits, from, "insert") /\ BeginNew(i) = Passed(edits, from, "delete")
        /\ EndOld(i) = Passed(edits, to, "insert") /\ EndNew(i) = Passed(edits, to, "delete")
        /\ from \in Nat /\ to \in Nat /\ from <= to /\ to <= Len(edits)
        /\ fs = Gap(edits, from, to)
    BY <1>1, <1>3, <2>1, Borders
  <2>3. /\ Len(fs) = to - from /\ DOMAIN fs = 1..(to - from)
        /\ \A k \in 1..(to - from) : fs[k] = edits[from + k]
        /\ \A kind : \A k \in 0..(to - from) :
             Passed(edits, from + k, kind) = Passed(edits, from, kind) + Passed(fs, k, kind)
    <3>1. /\ IsGap(fs, edits, from, to) /\ DOMAIN fs = 1..(to - from)
          /\ \A kind : Shifted(edits, fs, from, to, kind)
      BY <1>1, <2>2, StretchReads
    <3> QED
      BY <3>1 DEF IsGap, Shifted
  <2>4. to - from \in 0..(to - from) /\ from + (to - from) = to
    BY <2>2
  <2>5. /\ EndOld(i) = BeginOld(i) + Passed(fs, Len(fs), "insert")
        /\ EndNew(i) = BeginNew(i) + Passed(fs, Len(fs), "delete")
    <3>1. ASSUME NEW kind
          PROVE  Passed(edits, to, kind) = Passed(edits, from, kind) + Passed(fs, to - from, kind)
      BY <2>3, <2>4
    <3> QED
      BY <2>2, <2>3, <3>1
  <2>6. ASSUME NEW k \in DOMAIN fs
        PROVE  /\ fs[k].kind # "insert" => OldLines[BeginOld(i) + Passed(fs, k, "insert")] = fs[k].line
               /\ fs[k].kind # "delete" => NewLines[BeginNew(i) + Passed(fs, k, "delete")] = fs[k].line
    <3>1. k \in 1..(to - from) /\ k \in 0..(to - from) /\ from + k \in DOMAIN edits
      BY <1>1, <2>2, <2>3
    <3>2. fs[k] = edits[from + k]
      BY <2>3, <3>1
    <3>3. /\ BeginOld(i) + Passed(fs, k, "insert") = Passed(edits, from + k, "insert")
          /\ BeginNew(i) + Passed(fs, k, "delete") = Passed(edits, from + k, "delete")
      BY <2>2, <2>3, <3>1
    <3>4. /\ edits[from + k].kind # "insert" =>
               edits[from + k].line = OldLines[Passed(edits, from + k, "insert")]
          /\ edits[from + k].kind # "delete" =>
               edits[from + k].line = NewLines[Passed(edits, from + k, "delete")]
      BY <1>1, <3>1 DEF Follows
    <3> QED
      BY <3>2, <3>3, <3>4
  <2> QED
    BY <2>1, <2>5, <2>6
<1> QED
  BY <1>4, <1>5, <1>6 DEF PatchRebuildsNew

\* A patch tool that has the old file makes the new one of it: between the hunks the
\* files are the same, and every line of a hunk is found where its header says.
THEOREM PatchApplies == Spec => []PatchRebuildsNew
<1>1. ASSUME IInv, pc = "done", old = new  PROVE PatchRebuildsNew
  <2>1. out = <<>> /\ Len(out) = 0 /\ DOMAIN out = {}
    BY <1>1, NoneYet DEF Idle
  <2>2. Len(OldLines) \in Nat /\ OldLines = NewLines
    BY <1>1, BothLines DEF IInv, ScriptInv, OldLines, NewLines
  <2>3. /\ EndOld(0) = 0 /\ EndNew(0) = 0
        /\ BeginOld(0 + 1) = Len(OldLines) /\ BeginNew(0 + 1) = Len(NewLines)
    BY <2>1 DEF EndOld, EndNew, BeginOld, BeginNew
  <2>4. \A i \in 0..Len(out) : i = 0
    BY <2>1
  <2> QED
    BY <2>1, <2>2, <2>3, <2>4 DEF PatchRebuildsNew
<1>2. IInv => PatchRebuildsNew
  BY <1>1, Rebuilt DEF PatchRebuildsNew
<1> QED
  BY <1>2, Inductive, PTL

-----------------------------------------------------------------------------
\* The changes of a hunk, seen from the script.
LEMMA ChangesOf ==
  ASSUME NEW es \in Seq(Edit), NEW h, NEW from, NEW to, NEW end, Closed(es, h, from, to, end)
  PROVE  /\ from \in Nat /\ to \in Nat /\ from < to /\ to <= Len(es) /\ Len(es) \in Nat
         /\ Len(h.edits) = to - from
         /\ \A k : k \in Changes(h) <=> k \in 1..(to - from) /\ es[from + k].kind # "equal"
<1>1. /\ from \in Nat /\ to \in Nat /\ from < to /\ to <= Len(es) /\ h = Stretch(es, from, to)
      /\ from <= to /\ Len(es) \in Nat
  BY DEF Closed, Link
<1>2. PICK fs : fs = h.edits
  OBVIOUS
<1>3. fs = Gap(es, from, to)
  BY <1>1, <1>2, StretchIs
<1>4. IsGap(fs, es, from, to) /\ DOMAIN fs = 1..(to - from)
  BY <1>1, <1>3, StretchReads
<1>5. Len(fs) = to - from /\ \A k \in 1..(to - from) : fs[k] = es[from + k]
  BY <1>4 DEF IsGap
<1>6. \A k : k \in {j \in DOMAIN fs : fs[j].kind # "equal"}
               <=> k \in 1..(to - from) /\ es[from + k].kind # "equal"
  BY <1>4, <1>5
<1> QED
  BY <1>1, <1>2, <1>5, <1>6 DEF Changes

LEMMA TightEnds ==
  ASSUME IInv, Complete, NEW h, NEW from, NEW to, NEW end, Closed(edits, h, from, to, end)
  PROVE  ContextIsTight(h)
<1> DEFINE changes == Changes(h)
<1>1. /\ old \in Files /\ new \in Files /\ edits \in Seq(Edit) /\ Len(edits) \in Nat /\ Context \in Nat
  BY ContextAssumption DEF IInv, ScriptInv
<1>2. /\ from \in Nat /\ to \in Nat /\ from < to /\ to <= Len(edits)
      /\ Len(h.edits) = to - from
  BY <1>1, ChangesOf
<1>3. ASSUME NEW k
      PROVE  k \in changes <=> k \in 1..(to - from) /\ edits[from + k].kind # "equal"
  BY <1>1, ChangesOf
<1>4. PICK f \in (from + 1)..to :
        /\ edits[f].kind # "equal" /\ AllEqual(edits, from, f - 1)
        /\ f <= from + Context + 1
        /\ f <= from + Context => from = 0
  BY DEF Closed, Link, Begins
<1>5. PICK l \in (from + 1)..to :
        /\ edits[l].kind # "equal" /\ AllEqual(edits, l, to)
        /\ to <= l + Context
        /\ to < l + Context => to = Len(edits)
  BY DEF Closed, Ends
<1>6. PICK first, last : first = f - from /\ last = l - from
  OBVIOUS
<1>7. /\ from + first = f /\ from + last = l /\ first \in 1..(to - from) /\ last \in 1..(to - from)
  BY <1>2, <1>6
<1>8. first \in changes /\ last \in changes
  BY <1>3, <1>4, <1>5, <1>7
<1>9. ASSUME NEW k \in changes  PROVE first <= k /\ k <= last
  <2>1. k \in 1..(to - from) /\ edits[from + k].kind # "equal"
    BY <1>3
  <2>2. from + k \notin (from + 1)..(f - 1)
    BY <1>4, <2>1 DEF AllEqual
  <2>3. from + k \notin (l + 1)..to
    BY <1>5, <2>1 DEF AllEqual
  <2>4. PICK m \in Nat : m = from + k
    BY <1>2, <2>1
  <2>5. m \in (from + 1)..to
    BY <1>2, <2>1, <2>4
  <2>6. f <= m
    BY <2>2, <2>4, <2>5
  <2>7. m <= l
    BY <2>3, <2>4, <2>5
  <2> QED
    BY <1>2, <1>7, <2>1, <2>4, <2>6, <2>7
<1>10. /\ h.oldStart = Passed(edits, from, "insert") /\ h.newStart = Passed(edits, from, "delete")
       /\ h.oldCount = Passed(edits, to, "insert") - Passed(edits, from, "insert")
       /\ h.newCount = Passed(edits, to, "delete") - Passed(edits, from, "delete")
  BY <1>1, <1>2, StretchIs DEF Closed
<1>11. ASSUME NEW kind
       PROVE  /\ Passed(edits, from, kind) \in Nat /\ Passed(edits, to, kind) \in Nat
              /\ Passed(edits, 0, kind) = 0
  BY <1>2, PassedStep
<1>12. ASSUME first <= Context  PROVE h.oldStart = 0 /\ h.newStart = 0
  <2>1. from = 0
    BY <1>1, <1>2, <1>4, <1>7, <1>12
  <2> QED
    BY <1>10, <1>11, <2>1
<1>13. first <= Context + 1 /\ Len(h.edits) <= last + Context
  BY <1>1, <1>2, <1>4, <1>5, <1>7
<1>14. ASSUME Len(h.edits) < last + Context
       PROVE  /\ h.oldStart + h.oldCount = Len(old.texts)
              /\ h.newStart + h.newCount = Len(new.texts)
  <2>1. to = Len(edits)
    BY <1>1, <1>2, <1>5, <1>7, <1>14
  <2>2. /\ Passed(edits, to, "insert") = Len(old.texts)
        /\ Passed(edits, to, "delete") = Len(new.texts)
    BY <1>1, <2>1, BothLines DEF Complete
  <2> QED
    BY <1>10, <1>11, <2>2
<1> QED
  BY <1>8, <1>9, <1>12, <1>13, <1>14 DEF ContextIsTight

LEMMA TightChanges ==
  ASSUME IInv, NEW h, NEW from, NEW to, NEW end, Closed(edits, h, from, to, end)
  PROVE  ChangesAreNear(h)
<1> DEFINE changes == Changes(h)
<1>1. edits \in Seq(Edit) /\ Context \in Nat
  BY ContextAssumption DEF IInv, ScriptInv
<1>2. /\ from \in Nat /\ to \in Nat /\ from < to
  BY <1>1, ChangesOf
<1>3. ASSUME NEW k
      PROVE  k \in changes <=> k \in 1..(to - from) /\ edits[from + k].kind # "equal"
  BY <1>1, ChangesOf
<1> SUFFICES ASSUME NEW a \in changes, NEW b \in changes, a < b,
                    \A c \in changes : c <= a \/ b <= c
             PROVE  b <= a + 2 * Context + 1
  BY DEF ChangesAreNear
<1> HIDE DEF changes
<1>4. /\ a \in 1..(to - from) /\ edits[from + a].kind # "equal"
      /\ b \in 1..(to - from) /\ edits[from + b].kind # "equal"
  BY <1>3
<1>5. PICK p, q : p = from + a /\ q = from + b
  OBVIOUS
<1>6. p \in (from + 1)..to /\ q \in (from + 1)..to /\ p < q
  BY <1>2, <1>4, <1>5
<1>7. AllEqual(edits, p, q - 1)
  <2> SUFFICES ASSUME NEW k \in (p + 1)..(q - 1)  PROVE edits[k].kind = "equal"
    BY DEF AllEqual
  <2>1. PICK c : c = k - from
    OBVIOUS
  <2>2. c \in 1..(to - from) /\ from + c = k /\ ~(c <= a \/ b <= c)
    BY <1>2, <1>4, <1>5, <2>1
  <2>3. c \notin changes
    BY <2>2
  <2> QED
    BY <1>3, <2>2, <2>3
<1>8. Near(edits, from, to)
  BY DEF Closed, Link
<1>9. q <= p + 2 * Context + 1
  BY <1>4, <1>5, <1>6, <1>7, <1>8 DEF Near
<1>10. PICK n \in Nat : n = 2 * Context
  BY <1>1
<1>11. q <= p + n + 1
  BY <1>9, <1>10
<1>12. b <= a + n + 1
  BY <1>2, <1>4, <1>5, <1>10, <1>11
<1> QED
  BY <1>10, <1>12

\* The hunks are the ones diff -u would make: no change is cut off from a change near to
\* it, and none is shown with more or less context than was asked for.
THEOREM TightHunks == Spec => []HunksAreTight
<1>1. ASSUME IInv  PROVE HunksAreTight
  <2>1. CASE ~(old # new /\ pc \in {"group", "done"})
    BY <1>1, <2>1, NoneYet DEF Idle, HunksAreTight
  <2>2. CASE old # new /\ pc \in {"group", "done"}
    <3>1. edits \in Seq(Edit) /\ Len(edits) \in Nat /\ Complete
      BY <1>1, <2>2, Chained
    <3>2. PICK c : Chain(edits, out, c)
      BY <1>1, <2>2, Chained
    <3>3. DOMAIN out = 1..Len(out) /\ Len(out) \in Nat
      BY <3>2 DEF Chain
    <3>4. ASSUME NEW i \in 1..Len(out)
          PROVE  Closed(edits, out[i], c[i].from, c[i].to, After(c, i - 1))
      BY <3>2 DEF Chain
    <3>5. ASSUME NEW i \in 1..Len(out), i > 1
          PROVE  out[i].oldStart > out[i - 1].oldStart + out[i - 1].oldCount
      <4>1. PICK j : j = i - 1
        OBVIOUS
      <4>2. j \in 1..Len(out) /\ j # 0
        BY <3>3, <3>5, <4>1
      <4>3. PICK a, b, e, f : a = c[j].from /\ b = c[j].to /\ e = c[i].from /\ f = c[i].to
        OBVIOUS
      <4>4. After(c, i - 1) = b
        BY <4>1, <4>2, <4>3 DEF After
      <4>5. out[j] = Stretch(edits, a, b) /\ Link(edits, a, b, After(c, j - 1))
        BY <3>4, <4>2, <4>3 DEF Closed
      <4>6. out[i] = Stretch(edits, e, f) /\ Link(edits, e, f, b)
        BY <3>4, <4>3, <4>4 DEF Closed
      <4>7. a \in Nat /\ b \in Nat /\ a < b /\ a <= b /\ b <= Len(edits)
        BY <4>5 DEF Link
      <4>8. /\ e \in Nat /\ f \in Nat /\ e < f /\ e <= f /\ f <= Len(edits)
            /\ b < e /\ b <= e /\ AllEqual(edits, b, e)
        BY <4>6, <4>7 DEF Link
      <4>9. /\ out[j].oldStart = Passed(edits, a, "insert")
            /\ out[j].oldCount = Passed(edits, b, "insert") - Passed(edits, a, "insert")
        BY <3>1, <4>5, <4>7, StretchIs
      <4>10. out[i].oldStart = Passed(edits, e, "insert")
        BY <3>1, <4>6, <4>8, StretchIs
      <4>11. /\ Passed(edits, a, "insert") \in Nat /\ Passed(edits, b, "insert") \in Nat
             /\ "insert" # "equal"
        BY <4>7, PassedStep
      <4>12. Passed(edits, e, "insert") = Passed(edits, b, "insert") + (e - b)
        BY <4>7, <4>8, <4>11, PassedEqual
      <4>13. out[i].oldStart > out[j].oldStart + out[j].oldCount
        BY <4>7, <4>8, <4>9, <4>10, <4>11, <4>12
      <4> QED
        BY <4>1, <4>13
    <3>6. ASSUME NEW i \in 1..Len(out)  PROVE ContextIsTight(out[i]) /\ ChangesAreNear(out[i])
      BY <1>1, <3>1, <3>4, TightEnds, TightChanges
    <3> QED
      BY <3>3, <3>5, <3>6 DEF HunksAreTight
  <2> QED
    BY <2>1, <2>2
<1> QED
  BY <1>1, Inductive, PTL

-----------------------------------------------------------------------------
(***************************************************************************)
(* Lines that can be kept: pairs of the same line of which no two cross.   *)
(***************************************************************************)
\* No more than c of these pairs of the same line can be kept; c is how many can.
Uncrossed(pairs) == \A p, q \in pairs : p[1] < q[1] <=> p[2] < q[2]
AtMost(c, same) == \A kept \in SUBSET same : Uncrossed(kept) => Cardinality(kept) <= c

Most(c, same) ==
  c \in Nat /\ AtMost(c, same) /\ \E kept \in SUBSET same : Uncrossed(kept) /\ Cardinality(kept) = c

\* Of finitely many pairs some number is the largest that can be kept, and only one is.
LEMMA MostExists ==
  ASSUME NEW same, IsFiniteSet(same)
  PROVE  \E c : Most(c, same)
<1> DEFINE T == {c \in Nat : AtMost(c, same)}
<1>1. ASSUME NEW kept \in SUBSET same
      PROVE  Cardinality(kept) \in Nat /\ Cardinality(kept) <= Cardinality(same)
  BY <1>1, FS_Subset, FS_CardinalityType
<1>2. Cardinality(same) \in T
  BY <1>1, FS_CardinalityType DEF AtMost
<1>3. PICK c \in T : \A d \in T : c <= d
  BY <1>2, Least
<1>4. CASE c = 0
  <2>1. Uncrossed({}) /\ Cardinality({}) = 0
    BY FS_EmptySet DEF Uncrossed
  <2> QED
    BY <1>3, <1>4, <2>1 DEF Most
<1>5. CASE c # 0
  <2>1. c - 1 \in Nat /\ ~(c <= c - 1)
    BY <1>3, <1>5
  <2>2. ~AtMost(c - 1, same)
    BY <1>3, <2>1
  <2>3. PICK kept \in SUBSET same : Uncrossed(kept) /\ ~(Cardinality(kept) <= c - 1)
    BY <2>2 DEF AtMost
  <2>4. Cardinality(kept) <= c /\ Cardinality(kept) \in Nat
    BY <1>1, <1>3, <2>3 DEF AtMost
  <2>5. Cardinality(kept) = c
    BY <2>1, <2>3, <2>4
  <2> QED
    BY <1>3, <2>3, <2>5 DEF Most
<1> QED
  BY <1>4, <1>5

LEMMA MostIsOne ==
  ASSUME NEW same, NEW c, NEW d, Most(c, same), Most(d, same)
  PROVE  c = d
<1>1. c \in Nat /\ d \in Nat /\ c <= d /\ d <= c
  BY DEF Most, AtMost
<1> QED
  BY <1>1

\* Of no pairs none can be kept.
LEMMA MostOfNone == Most(0, {})
<1>1. Uncrossed({}) /\ Cardinality({}) = 0 /\ \A kept \in SUBSET {} : kept = {}
  BY FS_EmptySet DEF Uncrossed
<1> QED
  BY <1>1 DEF Most, AtMost

\* A pair that crosses none of the inner ones, while of the others no two can be kept
\* together: keeping it is keeping one more than of the inner ones.
LEMMA Corner ==
  ASSUME NEW same, NEW inner \in SUBSET same, IsFiniteSet(same), NEW x \in same, Uncrossed({x}),
         \A p \in inner : p # x /\ Uncrossed({p, x}),
         \A p, q \in same \ inner : Uncrossed({p, q}) => p = q
  PROVE  /\ \A c \in Nat : AtMost(c, inner) => AtMost(c + 1, same)
         /\ \A c : Most(c, inner) => Most(c + 1, same)
<1>1. ASSUME NEW c \in Nat, AtMost(c, inner)  PROVE AtMost(c + 1, same)
  <2> SUFFICES ASSUME NEW kept \in SUBSET same, Uncrossed(kept)  PROVE Cardinality(kept) <= c + 1
    BY DEF AtMost
  <2> DEFINE rest == kept \cap inner
  <2>1. rest \in SUBSET inner /\ Uncrossed(rest) /\ IsFiniteSet(rest)
    BY FS_Subset DEF Uncrossed
  <2>2. Cardinality(rest) <= c /\ Cardinality(rest) \in Nat
    BY <1>1, <2>1, FS_CardinalityType DEF AtMost
  <2>3. CASE kept = rest
    BY <2>2, <2>3
  <2>4. CASE kept # rest
    <3>1. PICK p \in kept : p \notin inner
      BY <2>4
    <3>2. kept = rest \cup {p}
      <4> SUFFICES ASSUME NEW q \in kept, q \notin inner  PROVE q = p
        BY <3>1
      <4>1. Uncrossed({p, q})
        BY <3>1 DEF Uncrossed
      <4> QED
        BY <3>1, <4>1
    <3>3. Cardinality(kept) = Cardinality(rest) + 1
      BY <2>1, <3>1, <3>2, FS_AddElement
    <3> QED
      BY <2>2, <3>3
  <2> QED
    BY <2>3, <2>4
<1>2. ASSUME NEW c, Most(c, inner)  PROVE Most(c + 1, same)
  <2>1. PICK kept \in SUBSET inner : Uncrossed(kept) /\ Cardinality(kept) = c
    BY <1>2 DEF Most
  <2>2. IsFiniteSet(kept) /\ x \notin kept
    BY FS_Subset
  <2>3. Cardinality(kept \cup {x}) = c + 1
    BY <2>1, <2>2, FS_AddElement
  <2>4. Uncrossed(kept \cup {x})
    <3> SUFFICES ASSUME NEW p \in kept \cup {x}, NEW q \in kept \cup {x}
                 PROVE  p[1] < q[1] <=> p[2] < q[2]
      BY DEF Uncrossed
    <3>1. CASE p \in kept /\ q \in kept
      BY <2>1, <3>1 DEF Uncrossed
    <3>2. CASE p = x /\ q = x
      BY <3>2 DEF Uncrossed
    <3>3. CASE (p = x /\ q \in kept) \/ (p \in kept /\ q = x)
      BY <3>3 DEF Uncrossed
    <3> QED
      BY <3>1, <3>2, <3>3
  <2> QED
    BY <1>1, <1>2, <2>1, <2>3, <2>4 DEF Most
<1> QED
  BY <1>1, <1>2

\* What is kept lies to one side or to the other.
LEMMA Sides ==
  ASSUME NEW left, NEW right, NEW same, left \subseteq same, right \subseteq same, IsFiniteSet(same),
         \A kept \in SUBSET same : Uncrossed(kept) => kept \subseteq left \/ kept \subseteq right,
         NEW c, NEW d, Most(c, left), Most(d, right)
  PROVE  Most(IF c >= d THEN c ELSE d, same)
<1> DEFINE m == IF c >= d THEN c ELSE d
<1>1. c \in Nat /\ d \in Nat
  BY DEF Most
<1>2. m \in Nat /\ c <= m /\ d <= m
  BY <1>1
<1>3. AtMost(m, same)
  <2> SUFFICES ASSUME NEW kept \in SUBSET same, Uncrossed(kept)  PROVE Cardinality(kept) <= m
    BY DEF AtMost
  <2>1. PICK k \in Nat : k = Cardinality(kept)
    BY FS_Subset, FS_CardinalityType
  <2>2. k <= c \/ k <= d
    BY <2>1 DEF Most, AtMost
  <2> QED
    BY <1>1, <2>1, <2>2
<1>4. \E kept \in SUBSET same : Uncrossed(kept) /\ Cardinality(kept) = m
  <2>1. \E kept \in SUBSET left : Uncrossed(kept) /\ Cardinality(kept) = c
    BY DEF Most
  <2>2. \E kept \in SUBSET right : Uncrossed(kept) /\ Cardinality(kept) = d
    BY DEF Most
  <2>3. m = c \/ m = d
    OBVIOUS
  <2> HIDE DEF m
  <2>4. CASE m = c
    BY <2>1, <2>4
  <2>5. CASE m = d
    BY <2>2, <2>5
  <2> QED
    BY <2>3, <2>4, <2>5
<1> QED
  BY <1>2, <1>3, <1>4 DEF Most

-----------------------------------------------------------------------------
\* The pairs of the same line among those after the i-th up to the m-th, and after the
\* j-th up to the n-th.
Window(s, t, i, m, j, n) ==
  {p \in Nat \X Nat : i < p[1] /\ p[1] <= m /\ j < p[2] /\ p[2] <= n /\ s[p[1]] = t[p[2]]}

\* What it means for two pairs not to cross.
LEMMA TwoUncrossed ==
  ASSUME NEW p \in Nat \X Nat, NEW q \in Nat \X Nat
  PROVE  Uncrossed({p, q}) <=> /\ p[1] < q[1] <=> p[2] < q[2]
                               /\ q[1] < p[1] <=> q[2] < p[2]
BY DEF Uncrossed

\* There are only so many of them.
LEMMA WindowFinite ==
  ASSUME NEW s, NEW t, NEW i \in Nat, NEW m \in Nat, NEW j \in Nat, NEW n \in Nat
  PROVE  IsFiniteSet(Window(s, t, i, m, j, n))
<1>1. IsFiniteSet((1..m) \X (1..n))
  <2>1. 1 \in Int /\ m \in Int /\ n \in Int
    OBVIOUS
  <2> QED
    BY <2>1, FS_Interval, FS_Product
<1>2. Window(s, t, i, m, j, n) \subseteq (1..m) \X (1..n)
  <2> SUFFICES ASSUME NEW x \in Nat, NEW y \in Nat, <<x, y>> \in Window(s, t, i, m, j, n)
               PROVE  x \in 1..m /\ y \in 1..n
    BY DEF Window
  <2>1. i < x /\ x <= m /\ j < y /\ y <= n
    BY DEF Window
  <2> QED
    BY <2>1
<1> QED
  BY <1>1, <1>2, FS_Subset

\* Where the first lines are the same, or the last ones, keeping them loses nothing.
LEMMA FrontSame ==
  ASSUME NEW s, NEW t, NEW i \in Nat, NEW m \in Nat, NEW j \in Nat, NEW n \in Nat,
         i < m, j < n, s[i + 1] = t[j + 1]
  PROVE  /\ \A c \in Nat : AtMost(c, Window(s, t, i + 1, m, j + 1, n)) => AtMost(c + 1, Window(s, t, i, m, j, n))
         /\ \A c : Most(c, Window(s, t, i + 1, m, j + 1, n)) => Most(c + 1, Window(s, t, i, m, j, n))
<1> DEFINE same == Window(s, t, i, m, j, n)
           inner == Window(s, t, i + 1, m, j + 1, n)
           x == <<i + 1, j + 1>>
<1>0. IsFiniteSet(same)
  BY WindowFinite
<1>1. x \in Nat \X Nat /\ x[1] = i + 1 /\ x[2] = j + 1 /\ i + 1 \in Nat /\ j + 1 \in Nat
  OBVIOUS
<1>2. /\ same \in SUBSET (Nat \X Nat)
      /\ \A p \in Nat \X Nat :
           p \in same <=> i < p[1] /\ p[1] <= m /\ j < p[2] /\ p[2] <= n /\ s[p[1]] = t[p[2]]
  BY DEF Window
<1>3. /\ inner \in SUBSET (Nat \X Nat)
      /\ \A p \in Nat \X Nat :
           p \in inner <=> i + 1 < p[1] /\ p[1] <= m /\ j + 1 < p[2] /\ p[2] <= n /\ s[p[1]] = t[p[2]]
  BY DEF Window
<1> HIDE DEF same, inner, x
<1>4. x \in same
  BY <1>1, <1>2
<1>5. inner \in SUBSET same
  <2> SUFFICES ASSUME NEW p \in inner  PROVE p \in same
    OBVIOUS
  <2>1. p \in Nat \X Nat /\ p[1] \in Nat /\ p[2] \in Nat
    BY <1>3
  <2>2. i < p[1] /\ j < p[2]
    BY <1>3, <2>1
  <2> QED
    BY <1>2, <1>3, <2>1, <2>2
<1>6. Uncrossed({x})
  <2>1. Uncrossed({x, x}) /\ {x, x} = {x}
    BY <1>1, TwoUncrossed
  <2> QED
    BY <2>1
<1>7. ASSUME NEW p \in inner  PROVE p # x /\ Uncrossed({p, x})
  <2>1. p \in Nat \X Nat /\ i + 1 < p[1] /\ j + 1 < p[2] /\ p[1] \in Nat /\ p[2] \in Nat
    BY <1>3
  <2>2. p # x /\ (p[1] < x[1] <=> p[2] < x[2]) /\ (x[1] < p[1] <=> x[2] < p[2])
    BY <1>1, <2>1
  <2> QED
    BY <1>1, <2>1, <2>2, TwoUncrossed
<1>8. ASSUME NEW p \in same \ inner, NEW q \in same \ inner, Uncrossed({p, q})  PROVE p = q
  <2>1. PICK a \in Nat, b \in Nat : p = <<a, b>>
    BY <1>2
  <2>2. PICK d \in Nat, e \in Nat : q = <<d, e>>
    BY <1>2
  <2>3. (a < d <=> b < e) /\ (d < a <=> e < b)
    BY <1>8, <2>1, <2>2, TwoUncrossed
  <2>4. /\ i < a /\ j < b /\ ~(i + 1 < a /\ j + 1 < b)
        /\ i < d /\ j < e /\ ~(i + 1 < d /\ j + 1 < e)
    BY <1>2, <1>3, <2>1, <2>2
  <2>5. a = d /\ b = e
    BY <2>3, <2>4
  <2> QED
    BY <2>1, <2>2, <2>5
<1> QED
  BY <1>0, <1>4, <1>5, <1>6, <1>7, <1>8, Corner DEF same, inner

LEMMA BackSame ==
  ASSUME NEW s, NEW t, NEW i \in Nat, NEW m \in Nat, NEW j \in Nat, NEW n \in Nat,
         i < m, j < n, s[m] = t[n]
  PROVE  \A c \in Nat : AtMost(c, Window(s, t, i, m - 1, j, n - 1)) => AtMost(c + 1, Window(s, t, i, m, j, n))
<1> DEFINE same == Window(s, t, i, m, j, n)
           inner == Window(s, t, i, m - 1, j, n - 1)
           x == <<m, n>>
<1>0. IsFiniteSet(same)
  BY WindowFinite
<1>1. x \in Nat \X Nat /\ x[1] = m /\ x[2] = n /\ m - 1 \in Nat /\ n - 1 \in Nat
  OBVIOUS
<1>2. /\ same \in SUBSET (Nat \X Nat)
      /\ \A p \in Nat \X Nat :
           p \in same <=> i < p[1] /\ p[1] <= m /\ j < p[2] /\ p[2] <= n /\ s[p[1]] = t[p[2]]
  BY DEF Window
<1>3. /\ inner \in SUBSET (Nat \X Nat)
      /\ \A p \in Nat \X Nat :
           p \in inner <=> i < p[1] /\ p[1] <= m - 1 /\ j < p[2] /\ p[2] <= n - 1 /\ s[p[1]] = t[p[2]]
  BY DEF Window
<1> HIDE DEF same, inner, x
<1>4. x \in same
  BY <1>1, <1>2
<1>5. inner \in SUBSET same
  <2> SUFFICES ASSUME NEW p \in inner  PROVE p \in same
    OBVIOUS
  <2>1. p \in Nat \X Nat /\ p[1] \in Nat /\ p[2] \in Nat
    BY <1>3
  <2>2. p[1] <= m /\ p[2] <= n
    BY <1>3, <2>1
  <2> QED
    BY <1>2, <1>3, <2>1, <2>2
<1>6. Uncrossed({x})
  <2>1. Uncrossed({x, x}) /\ {x, x} = {x}
    BY <1>1, TwoUncrossed
  <2> QED
    BY <2>1
<1>7. ASSUME NEW p \in inner  PROVE p # x /\ Uncrossed({p, x})
  <2>1. p \in Nat \X Nat /\ p[1] < m /\ p[2] < n /\ p[1] \in Nat /\ p[2] \in Nat
    BY <1>3
  <2>2. p # x /\ (p[1] < x[1] <=> p[2] < x[2]) /\ (x[1] < p[1] <=> x[2] < p[2])
    BY <1>1, <2>1
  <2> QED
    BY <1>1, <2>1, <2>2, TwoUncrossed
<1>8. ASSUME NEW p \in same \ inner, NEW q \in same \ inner, Uncrossed({p, q})  PROVE p = q
  <2>1. PICK a \in Nat, b \in Nat : p = <<a, b>>
    BY <1>2
  <2>2. PICK d \in Nat, e \in Nat : q = <<d, e>>
    BY <1>2
  <2>3. (a < d <=> b < e) /\ (d < a <=> e < b)
    BY <1>8, <2>1, <2>2, TwoUncrossed
  <2>4. /\ a <= m /\ b <= n /\ ~(a <= m - 1 /\ b <= n - 1)
        /\ d <= m /\ e <= n /\ ~(d <= m - 1 /\ e <= n - 1)
    BY <1>2, <1>3, <2>1, <2>2
  <2>5. a = d /\ b = e
    BY <2>3, <2>4
  <2> QED
    BY <2>1, <2>2, <2>5
<1> QED
  BY <1>0, <1>4, <1>5, <1>6, <1>7, <1>8, Corner DEF same, inner

\* Where the first lines differ, one of them is not kept.
LEMMA FrontDiffers ==
  ASSUME NEW s, NEW t, NEW i \in Nat, NEW m \in Nat, NEW j \in Nat, NEW n \in Nat,
         i < m, j < n, s[i + 1] # t[j + 1],
         NEW c, Most(c, Window(s, t, i + 1, m, j, n)),
         NEW d, Most(d, Window(s, t, i, m, j + 1, n))
  PROVE  Most(IF c >= d THEN c ELSE d, Window(s, t, i, m, j, n))
<1> DEFINE same == Window(s, t, i, m, j, n)
           left == Window(s, t, i + 1, m, j, n)
           right == Window(s, t, i, m, j + 1, n)
<1>1. IsFiniteSet(same)
  BY WindowFinite
<1>2. /\ same \in SUBSET (Nat \X Nat)
      /\ \A p \in Nat \X Nat :
           p \in same <=> i < p[1] /\ p[1] <= m /\ j < p[2] /\ p[2] <= n /\ s[p[1]] = t[p[2]]
  BY DEF Window
<1>3. /\ left \in SUBSET (Nat \X Nat)
      /\ \A p \in Nat \X Nat :
           p \in left <=> i + 1 < p[1] /\ p[1] <= m /\ j < p[2] /\ p[2] <= n /\ s[p[1]] = t[p[2]]
  BY DEF Window
<1>4. /\ right \in SUBSET (Nat \X Nat)
      /\ \A p \in Nat \X Nat :
           p \in right <=> i < p[1] /\ p[1] <= m /\ j + 1 < p[2] /\ p[2] <= n /\ s[p[1]] = t[p[2]]
  BY DEF Window
<1> HIDE DEF same, left, right
<1>5. left \subseteq same
  <2> SUFFICES ASSUME NEW p \in left  PROVE p \in same
    OBVIOUS
  <2>1. p \in Nat \X Nat /\ p[1] \in Nat /\ i < p[1]
    BY <1>3
  <2> QED
    BY <1>2, <1>3, <2>1
<1>6. right \subseteq same
  <2> SUFFICES ASSUME NEW p \in right  PROVE p \in same
    OBVIOUS
  <2>1. p \in Nat \X Nat /\ p[2] \in Nat /\ j < p[2]
    BY <1>4
  <2> QED
    BY <1>2, <1>4, <2>1
<1>7. ASSUME NEW kept \in SUBSET same, Uncrossed(kept), ~(kept \subseteq left), ~(kept \subseteq right)
      PROVE  FALSE
  <2>1. PICK p \in kept, q \in kept : p \notin left /\ q \notin right
    BY <1>7
  <2>2. PICK a \in Nat, b \in Nat : p = <<a, b>>
    BY <1>2
  <2>3. PICK e \in Nat, f \in Nat : q = <<e, f>>
    BY <1>2
  <2>4. /\ i < a /\ ~(i + 1 < a) /\ j < b /\ s[a] = t[b]
        /\ j < f /\ ~(j + 1 < f) /\ i < e
    BY <1>2, <1>3, <1>4, <2>1, <2>2, <2>3
  <2>5. (a < e <=> b < f) /\ (e < a <=> f < b)
    BY <1>7, <2>1, <2>2, <2>3 DEF Uncrossed
  <2>6. a = i + 1 /\ b = j + 1
    BY <2>4, <2>5
  <2> QED
    BY <2>4, <2>6
<1> QED
  BY <1>1, <1>5, <1>6, <1>7, Sides DEF same, left, right

-----------------------------------------------------------------------------
\* What is left of the middle when i and j lines are passed.
Ahead(i, j) == Window(OldLines, NewLines, i, OldEnd, j, NewEnd)

\* Where one side has no line left, none can be kept.
LEMMA NoneAhead ==
  ASSUME NEW s, NEW t, NEW i \in Nat, NEW m \in Nat, NEW j \in Nat, NEW n \in Nat, m <= i \/ n <= j
  PROVE  Most(0, Window(s, t, i, m, j, n))
<1>1. Window(s, t, i, m, j, n) = {}
  <2> SUFFICES ASSUME NEW x \in Nat, NEW y \in Nat, <<x, y>> \in Window(s, t, i, m, j, n)  PROVE FALSE
    BY DEF Window
  <2>1. i < x /\ x <= m /\ j < y /\ y <= n
    BY DEF Window
  <2> QED
    BY <2>1
<1> QED
  BY <1>1, MostOfNone

\* A cell is right if those it is computed from are.
LEMMA CellIs ==
  ASSUME OldEnd \in Nat, NewEnd \in Nat, NEW f, NEW i \in 0..OldEnd, NEW j \in 0..NewEnd,
         i < OldEnd /\ j < NewEnd => /\ Most(f[<<i + 1, j + 1>>], Ahead(i + 1, j + 1))
                                    /\ Most(f[<<i + 1, j>>], Ahead(i + 1, j))
                                    /\ Most(f[<<i, j + 1>>], Ahead(i, j + 1))
  PROVE  Most(CanKeep(f, i, j), Ahead(i, j))
<1>1. PICK m \in Nat, n \in Nat : m = OldEnd /\ n = NewEnd
  OBVIOUS
<1>2. i \in Nat /\ j \in Nat /\ i <= m /\ j <= n
  BY <1>1
<1>3. CASE i = OldEnd \/ j = NewEnd
  <2>1. Most(0, Window(OldLines, NewLines, i, m, j, n))
    BY <1>1, <1>2, <1>3, NoneAhead
  <2> QED
    BY <1>1, <1>3, <2>1 DEF Ahead, CanKeep
<1>4. CASE ~(i = OldEnd \/ j = NewEnd)
  <2>1. i < m /\ j < n
    BY <1>1, <1>2, <1>4
  <2>2. CASE OldLines[i + 1] = NewLines[j + 1]
    <3>1. Most(f[<<i + 1, j + 1>>] + 1, Window(OldLines, NewLines, i, m, j, n))
      BY <1>1, <1>2, <2>1, <2>2, FrontSame DEF Ahead
    <3> QED
      BY <1>1, <1>4, <2>2, <3>1 DEF Ahead, CanKeep
  <2>3. CASE OldLines[i + 1] # NewLines[j + 1]
    <3>1. PICK c, d : c = f[<<i + 1, j>>] /\ d = f[<<i, j + 1>>]
      OBVIOUS
    <3>2. /\ Most(c, Window(OldLines, NewLines, i + 1, m, j, n))
          /\ Most(d, Window(OldLines, NewLines, i, m, j + 1, n))
      BY <1>1, <2>1, <3>1 DEF Ahead
    <3>3. Most(IF c >= d THEN c ELSE d, Window(OldLines, NewLines, i, m, j, n))
      BY <1>2, <2>1, <2>3, <3>2, FrontDiffers
    <3>4. CanKeep(f, i, j) = IF c >= d THEN c ELSE d
      BY <1>4, <2>3, <3>1 DEF CanKeep
    <3> QED
      BY <1>1, <3>3, <3>4 DEF Ahead
  <2> QED
    BY <2>2, <2>3
<1> QED
  BY <1>3, <1>4

\* The equation that defines the table; one function satisfies it, ...
Filled(f) == f = [cell \in (0..OldEnd) \X (0..NewEnd) |-> CanKeep(f, cell[1], cell[2])]

LEMMA TableFills ==
  ASSUME OldEnd \in Nat, NewEnd \in Nat
  PROVE  Filled(Table)
<1> DEFINE g == [cell \in (0..OldEnd) \X (0..NewEnd) |-> CHOOSE c : Most(c, Ahead(cell[1], cell[2]))]
<1>1. ASSUME NEW i \in 0..OldEnd, NEW j \in 0..NewEnd  PROVE Most(g[<<i, j>>], Ahead(i, j))
  <2>1. i \in Nat /\ j \in Nat
    OBVIOUS
  <2>2. \E c : Most(c, Ahead(i, j))
    BY <2>1, WindowFinite, MostExists DEF Ahead
  <2>3. g[<<i, j>>] = CHOOSE c : Most(c, Ahead(i, j))
    OBVIOUS
  <2> QED
    BY <2>2, <2>3
<1>2. DOMAIN g = (0..OldEnd) \X (0..NewEnd) /\ g = [cell \in (0..OldEnd) \X (0..NewEnd) |-> g[cell]]
  OBVIOUS
<1> HIDE DEF g
<1>3. ASSUME NEW i \in 0..OldEnd, NEW j \in 0..NewEnd  PROVE g[<<i, j>>] = CanKeep(g, i, j)
  <2>1. /\ i < OldEnd => i + 1 \in 0..OldEnd
        /\ j < NewEnd => j + 1 \in 0..NewEnd
    OBVIOUS
  <2>2. Most(CanKeep(g, i, j), Ahead(i, j))
    BY <1>1, <2>1, CellIs
  <2> QED
    BY <1>1, <2>2, MostIsOne
<1>4. \A cell \in (0..OldEnd) \X (0..NewEnd) : g[cell] = CanKeep(g, cell[1], cell[2])
  BY <1>3
<1>5. Filled(g)
  BY <1>2, <1>4 DEF Filled
<1>6. Filled(CHOOSE f : Filled(f))
  BY <1>5
<1>7. Table = CHOOSE f : Filled(f)
  BY DEF Table, Filled
<1> QED
  BY <1>6, <1>7

\* ... and each of its cells is the largest number of lines that can be kept, by induction
\* over how much is left.
LEMMA TableIs ==
  ASSUME OldEnd \in Nat, NewEnd \in Nat, NEW i \in 0..OldEnd, NEW j \in 0..NewEnd
  PROVE  Most(Table[<<i, j>>], Ahead(i, j))
<1>1. PICK m \in Nat, n \in Nat : m = OldEnd /\ n = NewEnd
  OBVIOUS
<1>2. PICK f : f = Table
  OBVIOUS
<1>3. f = [cell \in (0..OldEnd) \X (0..NewEnd) |-> CanKeep(f, cell[1], cell[2])]
  BY <1>2, TableFills DEF Filled
<1>4. \A a \in 0..m, b \in 0..n : f[<<a, b>>] = CanKeep(f, a, b)
  <2> SUFFICES ASSUME NEW a \in 0..m, NEW b \in 0..n  PROVE f[<<a, b>>] = CanKeep(f, a, b)
    OBVIOUS
  <2>1. <<a, b>> \in (0..OldEnd) \X (0..NewEnd) /\ <<a, b>>[1] = a /\ <<a, b>>[2] = b
    BY <1>1
  <2> QED
    BY <1>3, <2>1
<1> DEFINE B == {k \in Nat : \A a \in 0..m, b \in 0..n :
                               m + n <= a + b + k => Most(f[<<a, b>>], Ahead(a, b))}
<1>5. 0 \in B
  <2> SUFFICES ASSUME NEW a \in 0..m, NEW b \in 0..n, m + n <= a + b
               PROVE  Most(f[<<a, b>>], Ahead(a, b))
    OBVIOUS
  <2>1. ~(a < m /\ b < n)
    OBVIOUS
  <2> QED
    BY <1>1, <1>4, <2>1, CellIs
<1>6. ASSUME NEW k \in 0..(m + n), k \in B  PROVE k + 1 \in B
  <2> SUFFICES ASSUME NEW a \in 0..m, NEW b \in 0..n, m + n <= a + b + (k + 1)
               PROVE  Most(f[<<a, b>>], Ahead(a, b))
    OBVIOUS
  <2>1. ASSUME a < m, b < n
        PROVE  /\ Most(f[<<a + 1, b + 1>>], Ahead(a + 1, b + 1))
               /\ Most(f[<<a + 1, b>>], Ahead(a + 1, b))
               /\ Most(f[<<a, b + 1>>], Ahead(a, b + 1))
    <3>1. /\ a + 1 \in 0..m /\ b + 1 \in 0..n
          /\ m + n <= (a + 1) + (b + 1) + k /\ m + n <= (a + 1) + b + k /\ m + n <= a + (b + 1) + k
      BY <2>1
    <3> QED
      BY <1>6, <3>1
  <2> QED
    BY <1>1, <1>4, <2>1, CellIs
<1> HIDE DEF B
<1>7. 0..(m + n) \subseteq B
  <2>1. m + n \in Nat
    OBVIOUS
  <2> QED
    BY <1>5, <1>6, <2>1, Climb
<1>8. m + n \in B /\ m + n <= i + j + (m + n)
  BY <1>1, <1>7
<1> QED
  BY <1>1, <1>2, <1>8 DEF B

-----------------------------------------------------------------------------
(***************************************************************************)
(* The script keeps as many lines as can be kept.                          *)
(***************************************************************************)
\* How many lines a script keeps, counted edit by edit.
Kept(es) == Cardinality({k \in DOMAIN es : es[k].kind = "equal"})

LEMMA KeptGrows ==
  ASSUME NEW S, NEW es \in Seq(S), NEW e
  PROVE  /\ Kept(es) \in Nat /\ Kept(<<>>) = 0
         /\ Kept(Append(es, e)) = Kept(es) + IF e.kind = "equal" THEN 1 ELSE 0
<1> DEFINE equal(s) == {k \in DOMAIN s : s[k].kind = "equal"}
<1>1. PICK n \in Nat : n = Len(es) /\ DOMAIN es = 1..n
  OBVIOUS
<1>2. /\ DOMAIN Append(es, e) = 1..(n + 1) /\ Append(es, e)[n + 1] = e
      /\ \A k \in 1..n : Append(es, e)[k] = es[k]
  BY <1>1
<1>3. IsFiniteSet(equal(es)) /\ n + 1 \notin equal(es)
  <2>1. IsFiniteSet(1..n)
    BY FS_Interval
  <2> QED
    BY <1>1, <2>1, FS_Subset
<1>4. equal(Append(es, e)) = IF e.kind = "equal" THEN equal(es) \cup {n + 1} ELSE equal(es)
  <2>1. \A k \in 1..(n + 1) : k \in 1..n \/ k = n + 1
    OBVIOUS
  <2>2. \A k \in 1..n : k \in 1..(n + 1) /\ k # n + 1
    OBVIOUS
  <2>3. ASSUME NEW k  PROVE k \in equal(Append(es, e)) <=> k \in equal(es) \/ (k = n + 1 /\ e.kind = "equal")
    BY <1>1, <1>2, <2>1, <2>2
  <2> QED
    BY <2>3
<1>5. equal(<<>>) = {}
  OBVIOUS
<1> HIDE DEF equal
<1>6. Cardinality(equal(es)) \in Nat /\ Cardinality({}) = 0
  BY <1>3, FS_CardinalityType, FS_EmptySet
<1>7. Cardinality(equal(Append(es, e))) = Cardinality(equal(es)) + IF e.kind = "equal" THEN 1 ELSE 0
  <2>1. CASE e.kind = "equal"
    <3>1. Cardinality(equal(es) \cup {n + 1}) = Cardinality(equal(es)) + 1
      BY <1>3, FS_AddElement
    <3> QED
      BY <1>4, <2>1, <3>1
  <2>2. CASE e.kind # "equal"
    BY <1>4, <1>6, <2>2
  <2> QED
    BY <2>1, <2>2
<1> QED
  BY <1>5, <1>6, <1>7 DEF Kept, equal

\* A table for a part of two files is no larger than one for the whole.
LEMMA SmallerProduct ==
  ASSUME NEW a \in Nat, NEW b \in Nat, NEW c \in Nat, NEW d \in Nat, a <= b, c <= d
  PROVE  a * c <= b * d
<1>1. a * c <= b * c
  OBVIOUS
<1>2. b * c <= b * d
  OBVIOUS
<1> QED
  BY <1>1, <1>2

\* What is left in the middle is no more than what any other trimming leaves.
LEMMA MiddleFits ==
  ASSUME ScriptInv, pc = "trim", ~SameLine, ~SameSuffix, Fits
  PROVE  ~((OldEnd - oldLine) * (NewEnd - newLine) > MaxCells)
<1>1. /\ Len(OldLines) \in Nat /\ Len(NewLines) \in Nat /\ tail \in Nat
      /\ oldLine + tail <= Len(OldLines) /\ newLine + tail <= Len(NewLines) /\ oldLine = newLine
      /\ oldLine \in Nat
  <2>1. Building /\ edits \in Seq(Edit)
    BY DEF ScriptInv
  <2> QED
    BY <2>1, BothLines, PassedStep DEF ScriptInv, SameTail, Building
<1>2. PICK m \in Nat, n \in Nat, t \in Nat, i \in Nat :
        /\ m = Len(OldLines) /\ n = Len(NewLines) /\ t = tail /\ i = oldLine /\ i = newLine
        /\ i + t <= m /\ i + t <= n
  BY <1>1
<1>3. PICK p \in 0..m, s \in 0..m :
        /\ p + s <= m /\ p + s <= n
        /\ \A k \in 1..p : OldLines[k] = NewLines[k]
        /\ \A k \in 0..(s - 1) : OldLines[m - k] = NewLines[n - k]
        /\ (m - (p + s)) * (n - (p + s)) <= MaxCells
  BY <1>2 DEF Fits
<1>4. p <= i
  <2> SUFFICES ASSUME i < p PROVE FALSE
    BY <1>2, <1>3
  <2>1. i + 1 \in 1..p /\ i < m /\ i < n
    BY <1>2, <1>3
  <2> QED
    BY <1>2, <1>3, <2>1 DEF SameLine
<1>5. p + s <= i + t
  <2> SUFFICES ASSUME i + t < p + s PROVE FALSE
    BY <1>2, <1>3
  <2>1. t \in 0..(s - 1) /\ i + t < m /\ i + t < n
    BY <1>2, <1>3, <1>4
  <2> QED
    BY <1>2, <1>3, <2>1 DEF SameSuffix
<1>6. PICK a \in Nat, b \in Nat, c \in Nat, d \in Nat :
        /\ a = (m - t) - i /\ b = m - (p + s) /\ c = (n - t) - i /\ d = n - (p + s)
        /\ a <= b /\ c <= d
  <2>1. /\ (m - t) - i \in Nat /\ m - (p + s) \in Nat /\ (m - t) - i <= m - (p + s)
        /\ (n - t) - i \in Nat /\ n - (p + s) \in Nat /\ (n - t) - i <= n - (p + s)
    BY <1>2, <1>3, <1>5
  <2> QED
    BY <2>1
<1>7. a * c <= b * d /\ a * c \in Nat /\ b * d \in Nat
  BY <1>6, SmallerProduct
<1>8. b * d <= MaxCells /\ MaxCells \in Nat
  BY <1>3, <1>6, CellsAssumption
<1>9. ~(a * c > MaxCells)
  BY <1>7, <1>8
<1> QED
  BY <1>2, <1>6, <1>9 DEF OldEnd, NewEnd

\* All the pairs that there are; k more than are kept already is the most of them.
All == Window(OldLines, NewLines, 0, Len(OldLines), 0, Len(NewLines))

Within(k) == AtMost(Kept(edits) + k, All)

(***************************************************************************)
(* What is kept so far, and the most that can be kept of what is ahead, is *)
(* the most that can be kept of all.                                       *)
(***************************************************************************)
ShortInv ==
  Fits =>
    /\ pc # "rest"
    /\ pc \in {"start", "trim"} =>
         \A c \in Nat : AtMost(c, Ahead(oldLine, newLine)) => Within(tail + c)
    /\ pc = "walk" =>
         \/ /\ oldLine <= OldEnd /\ newLine <= NewEnd
            /\ \E c : Most(c, Ahead(oldLine, newLine)) /\ Within(tail + c)
         \/ /\ OldEnd <= oldLine /\ NewEnd <= newLine
            /\ Within(Len(OldLines) - oldLine)
    /\ pc = "group" => Within(0)

LEMMA InitShort ==
  ASSUME Init, ScriptInv
  PROVE  ShortInv
<1>1. /\ pc = "start" /\ edits = <<>> /\ tail = 0 /\ oldLine = 0 /\ newLine = 0
      /\ Len(OldLines) \in Nat /\ Len(NewLines) \in Nat
  BY BothLines DEF Init, ScriptInit
<1>2. <<>> \in Seq({}) /\ Kept(edits) = 0
  <2>1. <<>> \in Seq({})
    OBVIOUS
  <2> QED
    BY <1>1, <2>1, KeptGrows
<1>3. Ahead(oldLine, newLine) = All
  <2>1. OldEnd = Len(OldLines) /\ NewEnd = Len(NewLines)
    BY <1>1 DEF OldEnd, NewEnd
  <2> QED
    BY <1>1, <2>1 DEF Ahead, All
<1>4. ASSUME NEW c \in Nat, AtMost(c, All)  PROVE AtMost(Kept(edits) + (tail + c), All)
  <2>1. Kept(edits) + (tail + c) = c
    BY <1>1, <1>2
  <2> QED
    BY <1>4, <2>1
<1> QED
  BY <1>1, <1>3, <1>4 DEF ShortInv, Within

LEMMA NextShort ==
  ASSUME ScriptInv, ShortInv, [Next]_vars
  PROVE  ShortInv'
<1> SUFFICES ASSUME Fits, UNCHANGED files, OldLines' = OldLines, NewLines' = NewLines
             PROVE  ShortInv'
  <2>1. UNCHANGED files
    BY DEF Next, NoDifference, Start, Script, Prefix, Suffix, Middle, Walk, Rest, Group, Hold,
           Follow, Split, Change, Finish, Take, vars
  <2>2. OldLines' = OldLines /\ NewLines' = NewLines
    BY <2>1, BothLines DEF ScriptInv
  <2>3. Fits' <=> Fits
    BY <2>2 DEF Fits
  <2> QED
    BY <2>1, <2>2, <2>3 DEF ShortInv
<1>1. /\ Len(OldLines) \in Nat /\ Len(NewLines) \in Nat /\ tail \in Nat
      /\ edits \in Seq(Edit) /\ Len(edits) \in Nat /\ Kept(edits) \in Nat
      /\ OldEnd = Len(OldLines) - tail /\ NewEnd = Len(NewLines) - tail
      /\ OldEnd \in Nat /\ NewEnd \in Nat
      /\ All' = All
  BY BothLines, KeptGrows DEF ScriptInv, SameTail, OldEnd, NewEnd, All
<1>2. ASSUME pc \in {"start", "trim", "walk", "rest"}
      PROVE  /\ Building /\ oldLine \in Nat /\ newLine \in Nat
             /\ oldLine <= Len(OldLines) /\ newLine <= Len(NewLines)
  <2>1. Building
    BY <1>2 DEF ScriptInv
  <2> QED
    BY <1>1, <2>1, PassedStep DEF Building
<1>3. /\ ShortInv => pc # "rest"
      /\ pc \in {"start", "trim"} =>
           \A c \in Nat : AtMost(c, Ahead(oldLine, newLine)) => Within(tail + c)
      /\ pc = "walk" =>
           \/ /\ oldLine <= OldEnd /\ newLine <= NewEnd
              /\ \E c : Most(c, Ahead(oldLine, newLine)) /\ Within(tail + c)
           \/ /\ OldEnd <= oldLine /\ NewEnd <= newLine
              /\ Within(Len(OldLines) - oldLine)
      /\ pc = "group" => Within(0)
  BY DEF ShortInv
<1>4. ASSUME UNCHANGED <<edits, oldLine, newLine, tail>>
      PROVE  /\ OldEnd' = OldEnd /\ NewEnd' = NewEnd
             /\ Ahead(oldLine, newLine)' = Ahead(oldLine, newLine)
             /\ \A k : Within(k)' <=> Within(k)
  BY <1>1, <1>4 DEF OldEnd, NewEnd, Ahead, Within
<1>5. ASSUME UNCHANGED <<edits, pc>>, pc \in {"group", "done"}
      PROVE  ShortInv'
  BY <1>1, <1>3, <1>5 DEF ShortInv, Within
<1>6. CASE NoDifference
  BY <1>6 DEF NoDifference, ShortInv
<1>7. CASE Start
  <2>1. /\ pc = "start" /\ pc' = "trim" /\ UNCHANGED <<edits, oldLine, newLine, tail>>
    BY <1>7 DEF Start
  <2>2. ASSUME NEW c \in Nat, AtMost(c, Ahead(oldLine, newLine)')  PROVE Within(tail + c)'
    <3>1. AtMost(c, Ahead(oldLine, newLine)) /\ tail' = tail
      BY <1>4, <2>1, <2>2
    <3>2. Within(tail + c)
      BY <1>3, <2>1, <3>1
    <3> QED
      BY <1>4, <2>1, <3>1, <3>2
  <2> QED
    BY <2>1, <2>2 DEF ShortInv
<1>8. ASSUME NEW kind \in Kinds, Emit(kind), tail' = tail
      PROVE  /\ oldLine' = (IF kind = "insert" THEN oldLine ELSE oldLine + 1)
             /\ newLine' = (IF kind = "delete" THEN newLine ELSE newLine + 1)
             /\ Kept(edits') = Kept(edits) + (IF kind = "equal" THEN 1 ELSE 0)
             /\ OldEnd' = OldEnd /\ NewEnd' = NewEnd
             /\ \A k \in Nat : Within(k)' <=> AtMost((Kept(edits) + (IF kind = "equal" THEN 1 ELSE 0)) + k, All)
  <2>1. PICK e : e.kind = kind /\ edits' = Append(edits, e)
    BY <1>8 DEF Emit
  <2>2. Kept(edits') = Kept(edits) + (IF kind = "equal" THEN 1 ELSE 0)
    BY <1>1, <2>1, KeptGrows
  <2>3. \A k \in Nat : Within(k)' <=> AtMost(Kept(edits') + k, All)
    BY <1>1 DEF Within
  <2> QED
    BY <1>8, <2>2, <2>3 DEF Emit, Pass, OldEnd, NewEnd
<1>9. CASE Prefix
  <2>1. /\ pc = "trim" /\ pc' = "trim" /\ SameLine /\ Emit("equal") /\ tail' = tail
    BY <1>9 DEF Prefix
  <2>2. tail = 0
    BY <1>2, <2>1 DEF Building
  <2>3. oldLine < OldEnd /\ newLine < NewEnd /\ OldLines[oldLine + 1] = NewLines[newLine + 1]
    BY <1>1, <1>2, <2>1, <2>2 DEF SameLine
  <2>4. ASSUME NEW c \in Nat, AtMost(c, Ahead(oldLine, newLine)')  PROVE Within(tail + c)'
    <3>1. Ahead(oldLine, newLine)' = Window(OldLines, NewLines, oldLine + 1, OldEnd, newLine + 1, NewEnd)
      BY <1>8, <2>1 DEF Ahead, Kinds
    <3>2. AtMost(c + 1, Ahead(oldLine, newLine))
      BY <1>1, <1>2, <2>1, <2>3, <2>4, <3>1, FrontSame DEF Ahead
    <3>3. Within(tail + (c + 1))
      BY <1>3, <2>1, <3>2
    <3>4. AtMost((Kept(edits) + 1) + (tail + c), All)
      <4>1. Kept(edits) + (tail + (c + 1)) = (Kept(edits) + 1) + (tail + c)
        BY <1>1
      <4> QED
        BY <3>3, <4>1 DEF Within
    <3> QED
      BY <1>1, <1>8, <2>1, <3>4 DEF Kinds
  <2> QED
    BY <2>1, <2>4 DEF ShortInv
<1>10. CASE Suffix
  <2>1. /\ pc = "trim" /\ pc' = "trim" /\ SameSuffix /\ tail' = tail + 1
        /\ UNCHANGED <<edits, oldLine, newLine>>
    BY <1>10 DEF Suffix
  <2>2. oldLine < OldEnd /\ newLine < NewEnd /\ OldLines[OldEnd] = NewLines[NewEnd]
    BY <1>1, <1>2, <2>1 DEF SameSuffix
  <2>3. OldEnd' = OldEnd - 1 /\ NewEnd' = NewEnd - 1
    BY <1>1, <2>1 DEF OldEnd, NewEnd
  <2>4. ASSUME NEW c \in Nat, AtMost(c, Ahead(oldLine, newLine)')  PROVE Within(tail + c)'
    <3>1. Ahead(oldLine, newLine)' = Window(OldLines, NewLines, oldLine, OldEnd - 1, newLine, NewEnd - 1)
      BY <2>1, <2>3 DEF Ahead
    <3>2. AtMost(c + 1, Ahead(oldLine, newLine))
      BY <1>1, <1>2, <2>1, <2>2, <2>4, <3>1, BackSame DEF Ahead
    <3>3. Within(tail + (c + 1))
      BY <1>3, <2>1, <3>2
    <3>4. tail + (c + 1) = tail' + c
      BY <1>1, <2>1
    <3> QED
      BY <1>1, <2>1, <3>3, <3>4 DEF Within
  <2> QED
    BY <2>1, <2>4 DEF ShortInv
<1>11. CASE Middle
  <2>1. pc = "trim" /\ UNCHANGED <<edits, oldLine, newLine, tail>>
        /\ pc' = IF (OldEnd - oldLine) * (NewEnd - newLine) > MaxCells THEN "rest" ELSE "walk"
    BY <1>11 DEF Middle
  <2>2. oldLine <= OldEnd /\ newLine <= NewEnd
    <3>1. oldLine + tail <= Len(OldLines) /\ newLine + tail <= Len(NewLines)
      BY <1>2, <2>1 DEF Building
    <3>2. PICK m \in Nat, n \in Nat, t \in Nat, i \in Nat, j \in Nat :
            /\ m = Len(OldLines) /\ n = Len(NewLines) /\ t = tail
            /\ i = oldLine /\ j = newLine
      BY <1>1, <1>2, <2>1
    <3>3. i <= m - t /\ j <= n - t
      BY <3>1, <3>2
    <3> QED
      BY <1>1, <3>2, <3>3
  <2>3. pc' = "walk"
    <3>1. ~SameLine /\ ~SameSuffix
      BY <1>11 DEF Middle
    <3> QED
      BY <2>1, <3>1, MiddleFits
  <2>4. PICK c : Most(c, Ahead(oldLine, newLine))
    BY <1>1, <1>2, <2>1, WindowFinite, MostExists DEF Ahead
  <2>5. Within(tail + c)
    BY <1>3, <2>1, <2>4 DEF Most
  <2> QED
    BY <1>4, <2>1, <2>2, <2>3, <2>4, <2>5 DEF ShortInv
<1>12. CASE Group
  <2>1. /\ pc \in {"walk", "rest"} /\ oldLine = Len(OldLines) /\ newLine = Len(NewLines)
        /\ pc' = "group" /\ edits' = edits
    BY <1>12 DEF Group
  <2>2. pc = "walk"
    BY <2>1 DEF ShortInv
  <2>3. Within(0)
    <3>1. CASE oldLine <= OldEnd /\ newLine <= NewEnd
               /\ \E c : Most(c, Ahead(oldLine, newLine)) /\ Within(tail + c)
      <4>1. PICK c : Most(c, Ahead(oldLine, newLine)) /\ Within(tail + c)
        BY <3>1
      <4>2. tail = 0
        BY <1>1, <2>1, <3>1
      <4>3. Most(0, Ahead(oldLine, newLine))
        BY <1>1, <1>2, <2>1, <4>2, NoneAhead DEF Ahead
      <4>4. c = 0
        BY <4>1, <4>3, MostIsOne
      <4> QED
        BY <4>1, <4>2, <4>4
    <3>2. CASE Within(Len(OldLines) - oldLine)
      <4>1. Len(OldLines) - oldLine = 0
        BY <1>1, <2>1
      <4> QED
        BY <3>2, <4>1
    <3> QED
      BY <1>3, <2>2, <3>1, <3>2
  <2> QED
    BY <1>1, <2>1, <2>3 DEF ShortInv, Within
<1>13. CASE Walk
  <2>1. /\ pc = "walk" /\ pc' = "walk" /\ oldLine < OldEnd /\ newLine < NewEnd /\ tail' = tail
        /\ Emit(IF SameLine THEN "equal" ELSE IF Deletes THEN "delete" ELSE "insert")
    BY <1>13 DEF Walk, Walking
  <2>2. /\ oldLine \in Nat /\ newLine \in Nat
        /\ oldLine < Len(OldLines) /\ newLine < Len(NewLines)
    BY <1>1, <1>2, <2>1
  <2>3. PICK c : Most(c, Ahead(oldLine, newLine)) /\ Within(tail + c)
    BY <1>1, <1>3, <2>1, <2>2
  <2>4. /\ oldLine \in 0..OldEnd /\ newLine \in 0..NewEnd
        /\ oldLine + 1 \in 0..OldEnd /\ newLine + 1 \in 0..NewEnd
    BY <1>1, <2>1, <2>2
  <2>5. SameLine <=> OldLines[oldLine + 1] = NewLines[newLine + 1]
    BY <2>2 DEF SameLine
  <2>6. c \in Nat
    BY <2>3 DEF Most
  <2>7. CASE SameLine
    <3>1. PICK d : Most(d, Ahead(oldLine + 1, newLine + 1))
      BY <1>1, <2>4, TableIs
    <3>2. Most(d + 1, Ahead(oldLine, newLine))
      BY <1>1, <2>1, <2>2, <2>5, <2>7, <3>1, FrontSame DEF Ahead
    <3>3. c = d + 1 /\ d \in Nat
      BY <2>3, <3>1, <3>2, MostIsOne DEF Most
    <3>4. Emit("equal")
      BY <2>1, <2>7
    <3>5. /\ oldLine' = oldLine + 1 /\ newLine' = newLine + 1 /\ OldEnd' = OldEnd /\ NewEnd' = NewEnd
          /\ Within(tail + d)' <=> AtMost((Kept(edits) + 1) + (tail + d), All)
      BY <1>1, <1>8, <2>1, <3>3, <3>4 DEF Kinds
    <3>6. (Kept(edits) + 1) + (tail + d) = Kept(edits) + (tail + c)
      BY <1>1, <3>3
    <3>7. Within(tail + d)'
      BY <2>3, <3>5, <3>6 DEF Within
    <3>8. Most(d, Ahead(oldLine, newLine)')
      BY <3>1, <3>5 DEF Ahead
    <3>9. oldLine' <= OldEnd' /\ newLine' <= NewEnd'
      BY <2>4, <3>5
    <3> QED
      BY <2>1, <3>7, <3>8, <3>9 DEF ShortInv
  <2>8. CASE ~SameLine
    <3>1. PICK d, e : d = Table[<<oldLine + 1, newLine>>] /\ e = Table[<<oldLine, newLine + 1>>]
      OBVIOUS
    <3>2. Most(d, Ahead(oldLine + 1, newLine)) /\ Most(e, Ahead(oldLine, newLine + 1))
      BY <1>1, <2>4, <3>1, TableIs
    <3>3. Most(IF d >= e THEN d ELSE e, Ahead(oldLine, newLine))
      BY <1>1, <2>1, <2>2, <2>5, <2>8, <3>2, FrontDiffers DEF Ahead
    <3>4. c = IF d >= e THEN d ELSE e
      BY <2>3, <3>3, MostIsOne
    <3>5. Deletes <=> d >= e
      BY <3>1 DEF Deletes
    <3>6. CASE Deletes
      <4>1. Emit("delete") /\ c = d
        BY <2>1, <2>8, <3>4, <3>5, <3>6
      <4>2. /\ oldLine' = oldLine + 1 /\ newLine' = newLine /\ OldEnd' = OldEnd /\ NewEnd' = NewEnd
            /\ Within(tail + c)' <=> AtMost((Kept(edits) + 0) + (tail + c), All)
        BY <1>1, <1>8, <2>1, <2>6, <4>1 DEF Kinds
      <4>3. Within(tail + c)'
        BY <1>1, <2>3, <4>2 DEF Within
      <4>4. Most(c, Ahead(oldLine, newLine)')
        BY <3>2, <4>1, <4>2 DEF Ahead
      <4>5. oldLine' <= OldEnd' /\ newLine' <= NewEnd'
        BY <2>4, <4>2
      <4> QED
        BY <2>1, <4>3, <4>4, <4>5 DEF ShortInv
    <3>7. CASE ~Deletes
      <4>1. Emit("insert") /\ c = e
        BY <2>1, <2>8, <3>4, <3>5, <3>7
      <4>2. /\ oldLine' = oldLine /\ newLine' = newLine + 1 /\ OldEnd' = OldEnd /\ NewEnd' = NewEnd
            /\ Within(tail + c)' <=> AtMost((Kept(edits) + 0) + (tail + c), All)
        BY <1>1, <1>8, <2>1, <2>6, <4>1 DEF Kinds
      <4>3. Within(tail + c)'
        BY <1>1, <2>3, <4>2 DEF Within
      <4>4. Most(c, Ahead(oldLine, newLine)')
        BY <3>2, <4>1, <4>2 DEF Ahead
      <4>5. oldLine' <= OldEnd' /\ newLine' <= NewEnd'
        BY <2>4, <4>2
      <4> QED
        BY <2>1, <4>3, <4>4, <4>5 DEF ShortInv
    <3> QED
      BY <3>6, <3>7
  <2> QED
    BY <2>7, <2>8
<1>14. CASE Rest
  <2>1. /\ pc = "walk" /\ pc' = "walk" /\ tail' = tail
        /\ ~(oldLine < OldEnd /\ newLine < NewEnd)
        /\ oldLine < Len(OldLines) \/ newLine < Len(NewLines)
        /\ Emit(IF oldLine < OldEnd THEN "delete" ELSE IF newLine < NewEnd THEN "insert" ELSE "equal")
    BY <1>14 DEF Rest, Walking, ShortInv
  <2>2. /\ oldLine \in Nat /\ newLine \in Nat
        /\ oldLine <= Len(OldLines) /\ newLine <= Len(NewLines)
    BY <1>2, <2>1
  <2>3. ASSUME NEW c, oldLine <= OldEnd, newLine <= NewEnd, Most(c, Ahead(oldLine, newLine))
        PROVE  c = 0
    <3>1. Most(0, Ahead(oldLine, newLine))
      BY <1>1, <2>1, <2>2, NoneAhead DEF Ahead
    <3> QED
      BY <2>3, <3>1, MostIsOne
  <2>4. CASE oldLine < OldEnd \/ newLine < NewEnd
    <3>1. oldLine <= OldEnd /\ newLine <= NewEnd /\ Within(tail)
      <4>1. /\ oldLine <= OldEnd /\ newLine <= NewEnd
            /\ \E c : Most(c, Ahead(oldLine, newLine)) /\ Within(tail + c)
        BY <1>1, <1>3, <2>1, <2>2, <2>4
      <4>2. Within(tail + 0) /\ tail + 0 = tail
        BY <1>1, <2>3, <4>1
      <4> QED
        BY <4>1, <4>2
    <3>2. PICK kind \in {"delete", "insert"} :
            /\ Emit(kind)
            /\ kind = "delete" => oldLine < OldEnd
            /\ kind = "insert" => newLine < NewEnd
      BY <2>1, <2>4
    <3>3. /\ oldLine' = (IF kind = "insert" THEN oldLine ELSE oldLine + 1)
          /\ newLine' = (IF kind = "delete" THEN newLine ELSE newLine + 1)
          /\ OldEnd' = OldEnd /\ NewEnd' = NewEnd
          /\ Within(tail)' <=> AtMost((Kept(edits) + 0) + tail, All)
      BY <1>1, <1>8, <2>1, <3>2 DEF Kinds
    <3>4. Within(tail + 0)'
      <4>1. (Kept(edits) + 0) + tail = Kept(edits) + tail /\ tail + 0 = tail
        BY <1>1
      <4>2. Within(tail)'
        BY <3>1, <3>3, <4>1 DEF Within
      <4> QED
        BY <1>1, <2>1, <4>1, <4>2
    <3>5. PICK i \in Nat, j \in Nat : i = oldLine' /\ j = newLine'
      BY <2>2, <3>3
    <3>6. i <= OldEnd /\ j <= NewEnd /\ (OldEnd <= i \/ NewEnd <= j)
      <4>1. PICK a \in Nat, b \in Nat, m \in Nat, n \in Nat :
              a = oldLine /\ b = newLine /\ m = OldEnd /\ n = NewEnd
        BY <1>1, <2>2
      <4>2. /\ a <= m /\ b <= n /\ ~(a < m /\ b < n)
            /\ kind = "delete" => a < m
            /\ kind = "insert" => b < n
        BY <2>1, <3>1, <3>2, <4>1
      <4>3. /\ i = IF kind = "insert" THEN a ELSE a + 1
            /\ j = IF kind = "delete" THEN b ELSE b + 1
        BY <3>3, <3>5, <4>1
      <4>4. CASE kind = "delete"
        BY <4>1, <4>2, <4>3, <4>4
      <4>5. CASE kind = "insert"
        BY <4>1, <4>2, <4>3, <4>5
      <4> QED
        BY <4>4, <4>5
    <3>7. Most(0, Window(OldLines, NewLines, i, OldEnd, j, NewEnd))
      BY <1>1, <3>6, NoneAhead
    <3>8. Most(0, Ahead(oldLine, newLine)')
      BY <3>3, <3>5, <3>7 DEF Ahead
    <3>9. oldLine' <= OldEnd' /\ newLine' <= NewEnd'
      BY <3>3, <3>5, <3>6
    <3> QED
      BY <2>1, <3>4, <3>8, <3>9 DEF ShortInv
  <2>5. CASE ~(oldLine < OldEnd) /\ ~(newLine < NewEnd)
    <3>1. Emit("equal")
      BY <2>1, <2>5
    <3>2. OldEnd <= oldLine /\ NewEnd <= newLine
      BY <1>1, <2>2, <2>5
    <3>3. oldLine < Len(OldLines)
      <4>1. Len(OldLines) - oldLine = Len(NewLines) - newLine
        <5>1. \/ oldLine <= OldEnd /\ newLine <= NewEnd
              \/ Len(OldLines) - oldLine = Len(NewLines) - newLine
          BY <1>2, <2>1 DEF Building
        <5>2. PICK m \in Nat, n \in Nat, t \in Nat, i \in Nat, j \in Nat :
                /\ m = Len(OldLines) /\ n = Len(NewLines) /\ t = tail
                /\ i = oldLine /\ j = newLine
          BY <1>1, <2>2
        <5>3. OldEnd = m - t /\ NewEnd = n - t
          BY <1>1, <5>2
        <5>4. (i <= m - t /\ j <= n - t) \/ m - i = n - j
          BY <5>1, <5>2, <5>3
        <5>5. m - t <= i /\ n - t <= j
          BY <3>2, <5>2, <5>3
        <5>6. m - i = n - j
          BY <5>4, <5>5
        <5> QED
          BY <5>2, <5>6
      <4> QED
        BY <1>1, <2>1, <2>2, <4>1
    <3>4. Within(Len(OldLines) - oldLine)
      <4>1. CASE /\ oldLine <= OldEnd /\ newLine <= NewEnd
                 /\ \E c : Most(c, Ahead(oldLine, newLine)) /\ Within(tail + c)
        <5>1. Within(tail + 0)
          BY <2>3, <4>1
        <5>2. tail + 0 = Len(OldLines) - oldLine
          BY <1>1, <2>2, <3>2, <4>1
        <5> QED
          BY <5>1, <5>2
      <4> QED
        BY <1>3, <2>1, <4>1
    <3>5. PICK k \in Nat : k = Len(OldLines) - (oldLine + 1)
      <4>1. PICK n \in Nat, i \in Nat : n = Len(OldLines) /\ i = oldLine
        BY <1>1, <2>2
      <4>2. n - (i + 1) \in Nat
        BY <3>3, <4>1
      <4> QED
        BY <4>1, <4>2
    <3>6. /\ oldLine' = oldLine + 1 /\ newLine' = newLine + 1 /\ OldEnd' = OldEnd /\ NewEnd' = NewEnd
          /\ Within(k)' <=> AtMost((Kept(edits) + 1) + k, All)
      BY <1>1, <1>8, <2>1, <3>1, <3>5 DEF Kinds
    <3>7. (Kept(edits) + 1) + k = Kept(edits) + (Len(OldLines) - oldLine)
      BY <1>1, <2>2, <3>5
    <3>8. Within(k)'
      BY <3>4, <3>6, <3>7 DEF Within
    <3>9. (Len(OldLines) - oldLine)' = k
      BY <3>5, <3>6
    <3>10. OldEnd' <= oldLine' /\ NewEnd' <= newLine'
      <4>1. PICK a \in Nat, b \in Nat, m \in Nat, n \in Nat :
              a = oldLine /\ b = newLine /\ m = OldEnd /\ n = NewEnd
        BY <1>1, <2>2
      <4>2. m <= a + 1 /\ n <= b + 1
        BY <3>2, <4>1
      <4> QED
        BY <3>6, <4>1, <4>2
    <3> QED
      BY <2>1, <3>8, <3>9, <3>10 DEF ShortInv
  <2> QED
    BY <2>4, <2>5
<1>15. CASE Hold \/ Follow \/ Split \/ Change
  <2>1. pc = "group" /\ UNCHANGED <<edits, pc>>
    BY <1>15 DEF Hold, Follow, Split, Change, Take
  <2> QED
    BY <1>5, <2>1
<1>16. CASE Finish
  BY <1>16 DEF Finish, ShortInv
<1>17. CASE UNCHANGED vars
  <2>1. UNCHANGED <<edits, oldLine, newLine, tail>> /\ pc' = pc
    BY <1>17 DEF vars
  <2>2. (Len(OldLines) - oldLine)' = Len(OldLines) - oldLine
    BY <2>1
  <2> QED
    BY <1>3, <1>4, <2>1, <2>2 DEF ShortInv
<1> QED
  BY <1>6, <1>7, <1>9, <1>10, <1>11, <1>12, <1>13, <1>14, <1>15, <1>16, <1>17 DEF Next, Script

\* Lines that both files have in the same order are pairs that do not cross.
LEMMA KeptInOrder ==
  ASSUME ScriptInv, NEW s \in Subsequences(OldLines) \cap Subsequences(NewLines),
         NEW c \in Nat, AtMost(c, All)
  PROVE  Len(s) <= c
<1>1. PICK f \in Ascending : /\ \A i \in DOMAIN f : f[i] <= Len(OldLines)
                             /\ s = [i \in DOMAIN f |-> OldLines[f[i]]]
  BY DEF Subsequences
<1>2. PICK g \in Ascending : /\ \A i \in DOMAIN g : g[i] <= Len(NewLines)
                             /\ s = [i \in DOMAIN g |-> NewLines[g[i]]]
  BY DEF Subsequences
<1>3. PICK n \in 0..MaxLines :
        f \in [1..n -> 1..MaxLines] /\ \A i, j \in 1..n : i < j => f[i] < f[j]
  BY DEF Ascending
<1>4. PICK m \in 0..MaxLines :
        g \in [1..m -> 1..MaxLines] /\ \A i, j \in 1..m : i < j => g[i] < g[j]
  BY DEF Ascending
<1>5. n \in Nat /\ m = n /\ Len(s) = n
  <2>1. DOMAIN s = 1..n /\ DOMAIN s = 1..m /\ n \in Nat /\ m \in Nat
    <3>1. DOMAIN f = 1..n /\ DOMAIN g = 1..m
      BY <1>3, <1>4
    <3>2. DOMAIN s = DOMAIN f
      BY <1>1
    <3>3. DOMAIN s = DOMAIN g
      BY <1>2
    <3> QED
      BY <3>1, <3>2, <3>3, CellsAssumption
  <2>2. Len(s) = n
    BY <1>1, <1>3, <2>1
  <2>3. m = n
    <3>1. n > 0 => n \in 1..m
      BY <2>1
    <3>2. m > 0 => m \in 1..n
      BY <2>1
    <3> QED
      BY <2>1, <3>1, <3>2
  <2> QED
    BY <2>1, <2>2, <2>3
<1>6. /\ Len(OldLines) \in Nat /\ Len(NewLines) \in Nat
      /\ DOMAIN OldLines = 1..Len(OldLines) /\ DOMAIN NewLines = 1..Len(NewLines)
  BY BothLines DEF ScriptInv
<1>7. ASSUME NEW i \in 1..n
      PROVE  /\ f[i] \in 1..Len(OldLines) /\ g[i] \in 1..Len(NewLines)
             /\ OldLines[f[i]] = NewLines[g[i]]
  BY <1>1, <1>2, <1>3, <1>4, <1>5, <1>6
<1>8. ASSUME NEW i \in 1..n, NEW j \in 1..n
      PROVE  (i < j => f[i] < f[j] /\ g[i] < g[j]) /\ (i < j \/ j < i \/ i = j)
  BY <1>3, <1>4, <1>5
<1> DEFINE kept == {<<f[i], g[i]>> : i \in 1..n}
<1> DEFINE pair == [i \in 1..n |-> <<f[i], g[i]>>]
<1>9. kept \in SUBSET All
  <2> SUFFICES ASSUME NEW i \in 1..n  PROVE <<f[i], g[i]>> \in All
    OBVIOUS
  <2>1. /\ f[i] \in Nat /\ 0 < f[i] /\ f[i] <= Len(OldLines)
        /\ g[i] \in Nat /\ 0 < g[i] /\ g[i] <= Len(NewLines)
    BY <1>6, <1>7
  <2> QED
    BY <1>6, <1>7, <2>1 DEF All, Window
<1>10. Uncrossed(kept)
  <2> SUFFICES ASSUME NEW i \in 1..n, NEW j \in 1..n  PROVE f[i] < f[j] <=> g[i] < g[j]
    BY DEF Uncrossed
  <2> QED
    BY <1>6, <1>7, <1>8
<1>11. IsFiniteSet(kept)
  <2>1. IsFiniteSet(1..n)
    BY <1>5, FS_Interval
  <2>2. pair \in Surjection(1..n, kept)
    BY DEF Surjection
  <2> QED
    BY <2>1, <2>2, FS_Surjection
<1>12. Cardinality(kept) <= c
  BY <1>9, <1>10 DEF AtMost
<1>13. pair \in Injection(1..n, kept)
  <2>1. pair \in [1..n -> kept]
    OBVIOUS
  <2>2. ASSUME NEW i \in 1..n, NEW j \in 1..n, pair[i] = pair[j]  PROVE i = j
    <3>1. f[i] = f[j]
      BY <2>2
    <3> QED
      BY <1>6, <1>7, <1>8, <3>1
  <2> QED
    BY <2>1, <2>2 DEF Injection, IsInjective
<1>14. Cardinality(1..n) = n
  BY <1>5, FS_Interval
<1>15. Cardinality(1..n) <= Cardinality(kept) /\ Cardinality(kept) \in Nat
  BY <1>11, <1>13, FS_Injection, FS_CardinalityType
<1> QED
  BY <1>5, <1>12, <1>14, <1>15

\* If a table for what differs is allowed, no script keeps more lines: setting the ends aside
\* and following the table, deletions first, costs nothing.
THEOREM ShortestDiff == Spec => []DiffIsShortest
<1>1. ASSUME IInv, ShortInv  PROVE DiffIsShortest
  <2> SUFFICES ASSUME pc = "group", Fits,
                      NEW s \in Subsequences(OldLines) \cap Subsequences(NewLines)
               PROVE  Len(s) <= Kept(edits)
    BY DEF DiffIsShortest, Kept
  <2>1. edits \in Seq(Edit)
    BY <1>1 DEF IInv, ScriptInv
  <2>2. AtMost(Kept(edits) + 0, All)
    BY <1>1 DEF ShortInv, Within
  <2>3. Kept(edits) \in Nat /\ Kept(edits) + 0 = Kept(edits)
    BY <2>1, KeptGrows
  <2> QED
    BY <1>1, <2>2, <2>3, KeptInOrder DEF IInv
<1>2. Init => IInv /\ ShortInv
  BY InitScript, InitGroups, InitShort DEF IInv
<1>3. (IInv /\ ShortInv) /\ [Next]_vars => (IInv /\ ShortInv)'
  BY NextScript, NextGroups, NextShort DEF IInv
<1> QED
  BY <1>1, <1>2, <1>3, PTL DEF Spec
=============================================================================
