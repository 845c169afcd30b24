------------------------------ MODULE CliProofs ------------------------------
(***************************************************************************)
(* What a run says and leaves behind, for every tree, every command line   *)
(* and any number of files, of changes by others and of failing calls.     *)
(***************************************************************************)
EXTENDS Cli, OrderProofs, FiniteSetTheorems, TLAPS

AnyFailed(entries) == \E i \in DOMAIN entries : entries[i].failed
AnyOf(printed, kind) == \E i \in DOMAIN printed : printed[i].kind = kind

\* What the code says of the log and of standard output, between two files.
CodeTells ==
  /\ code \in 0..2
  /\ code = 2 <=> AnyFailed(log)
  /\ code = 1 <=> ~AnyFailed(log) /\ AnyOf(out, "name")

IInv ==
  /\ \E S : log \in Seq(S)
  /\ \E S : out \in Seq(S)
  /\ pc = "start" => code = 0 /\ log = <<>> /\ out = <<>>
  /\ pc \in {"process", "write", "report", "exit"} => CodeTells
  /\ pc = "refused" => code = 2 /\ out = <<>>

-----------------------------------------------------------------------------
\* An entry that is appended adds its failure.
LEMMA Appended ==
  ASSUME NEW S, NEW s \in Seq(S), NEW e
  PROVE  /\ \E T : Append(s, e) \in Seq(T)
         /\ AnyFailed(Append(s, e)) <=> AnyFailed(s) \/ e.failed
<1>1. s \in Seq(S \cup {e}) /\ e \in S \cup {e}
  OBVIOUS
<1>2. Append(s, e) \in Seq(S \cup {e})
  BY <1>1
<1>3. /\ DOMAIN s = 1..Len(s) /\ Len(s) \in Nat
      /\ DOMAIN Append(s, e) = 1..(Len(s) + 1)
      /\ \A i \in 1..Len(s) : Append(s, e)[i] = s[i]
      /\ Append(s, e)[Len(s) + 1] = e
  BY <1>1
<1>4. AnyFailed(Append(s, e)) <=> AnyFailed(s) \/ e.failed
  <2>1. ASSUME AnyFailed(s) \/ e.failed  PROVE AnyFailed(Append(s, e))
    BY <1>3, <2>1 DEF AnyFailed
  <2>2. ASSUME AnyFailed(Append(s, e))  PROVE AnyFailed(s) \/ e.failed
    <3>1. PICK i \in 1..(Len(s) + 1) : Append(s, e)[i].failed
      BY <1>3, <2>2 DEF AnyFailed
    <3>2. i \in 1..Len(s) \/ i = Len(s) + 1
      BY <1>3
    <3> QED
      BY <1>3, <3>1, <3>2 DEF AnyFailed
  <2> QED
    BY <2>1, <2>2
<1> QED
  BY <1>2, <1>4

\* Two outputs, one after the other, print what either prints.
LEMMA Concatenated ==
  ASSUME NEW S, NEW T, NEW s \in Seq(S), NEW t \in Seq(T), NEW kind
  PROVE  /\ s \o t \in Seq(S \cup T)
         /\ AnyOf(s \o t, kind) <=> AnyOf(s, kind) \/ AnyOf(t, kind)
<1>1. s \in Seq(S \cup T) /\ t \in Seq(S \cup T)
  OBVIOUS
<1>2. s \o t \in Seq(S \cup T)
  BY <1>1
<1>3. /\ Len(s) \in Nat /\ Len(t) \in Nat
      /\ DOMAIN s = 1..Len(s) /\ DOMAIN t = 1..Len(t)
      /\ DOMAIN (s \o t) = 1..(Len(s) + Len(t))
      /\ \A i \in 1..(Len(s) + Len(t)) : (s \o t)[i] = IF i <= Len(s) THEN s[i] ELSE t[i - Len(s)]
  BY <1>1
<1>4. ASSUME AnyOf(s, kind)  PROVE AnyOf(s \o t, kind)
  BY <1>3, <1>4 DEF AnyOf
<1>5. ASSUME AnyOf(t, kind)  PROVE AnyOf(s \o t, kind)
  <2>1. PICK i \in 1..Len(t) : t[i].kind = kind
    BY <1>3, <1>5 DEF AnyOf
  <2>2. /\ Len(s) + i \in 1..(Len(s) + Len(t)) /\ ~(Len(s) + i <= Len(s))
        /\ (Len(s) + i) - Len(s) = i
    BY <1>3
  <2> QED
    BY <1>3, <2>1, <2>2 DEF AnyOf
<1>6. ASSUME AnyOf(s \o t, kind)  PROVE AnyOf(s, kind) \/ AnyOf(t, kind)
  <2>1. PICK i \in 1..(Len(s) + Len(t)) : (s \o t)[i].kind = kind
    BY <1>3, <1>6 DEF AnyOf
  <2>2. CASE i <= Len(s)
    BY <1>3, <2>1, <2>2 DEF AnyOf
  <2>3. CASE ~(i <= Len(s))
    <3>1. i - Len(s) \in 1..Len(t)
      BY <1>3, <2>3
    <3> QED
      BY <1>3, <2>1, <2>3, <3>1 DEF AnyOf
  <2> QED
    BY <2>2, <2>3
<1> QED
  BY <1>2, <1>4, <1>5, <1>6

\* A single line prints its own kind, no line prints nothing.
LEMMA OneLine ==
  ASSUME NEW w
  PROVE  /\ <<w>> \in Seq({w}) /\ <<>> \in Seq({w})
         /\ \A k : AnyOf(<<w>>, k) <=> w.kind = k
         /\ \A k : ~AnyOf(<<>>, k)
<1>1. DOMAIN <<w>> = {1} /\ <<w>>[1] = w /\ DOMAIN <<>> = {}
  OBVIOUS
<1> QED
  BY <1>1 DEF AnyOf

Line(kind, text) == [kind |-> kind, name |-> Current, text |-> text]

\* reportResult prints a name exactly when the file differs and -l asks for it.
LEMMA PrintsName ==
  /\ \E S : Prints \in Seq(S)
  /\ AnyOf(Prints, "name") <=> opts.list /\ ~Skipped(src) /\ Changed(src)
<1>1. CASE Skipped(src)
  <2> DEFINE w == Line("document", src)
  <2>1. Prints = IF args = <<>> /\ ~Mode THEN <<w>> ELSE <<>>
    BY <1>1 DEF Prints, PassedThrough, When, Line
  <2>2. w.kind = "document"
    BY DEF Line
  <2> HIDE DEF w
  <2>3. Prints \in Seq({w}) /\ ~AnyOf(Prints, "name")
    BY <2>1, <2>2, OneLine
  <2> QED
    BY <1>1, <2>3
<1>2. CASE ~Skipped(src)
  <2> DEFINE v == Line("name", src)
             w == Line("diff", src)
             x == Line("document", Formatted(src))
             a == IF opts.list /\ Changed(src) THEN <<v>> ELSE <<>>
             b == IF opts.diff /\ Changed(src) THEN <<w>> ELSE <<>>
             c == IF ~Mode THEN <<x>> ELSE <<>>
  <2>1. Prints = (a \o b) \o c
    BY <1>2 DEF Prints, When, Line
  <2>2. v.kind = "name" /\ w.kind = "diff" /\ x.kind = "document"
    BY DEF Line
  <2> HIDE DEF v, w, x
  <2>3. a \in Seq({v}) /\ (AnyOf(a, "name") <=> opts.list /\ Changed(src))
    BY <2>2, OneLine
  <2>4. b \in Seq({w}) /\ ~AnyOf(b, "name")
    BY <2>2, OneLine
  <2>5. c \in Seq({x}) /\ ~AnyOf(c, "name")
    BY <2>2, OneLine
  <2> HIDE DEF a, b, c
  <2>6. /\ a \o b \in Seq({v} \cup {w})
        /\ AnyOf(a \o b, "name") <=> AnyOf(a, "name") \/ AnyOf(b, "name")
    BY <2>3, <2>4, Concatenated
  <2>7. /\ (a \o b) \o c \in Seq(({v} \cup {w}) \cup {x})
        /\ AnyOf((a \o b) \o c, "name") <=> AnyOf(a \o b, "name") \/ AnyOf(c, "name")
    BY <2>5, <2>6, Concatenated
  <2>8. AnyOf(Prints, "name") <=> opts.list /\ Changed(src)
    BY <2>1, <2>3, <2>4, <2>5, <2>6, <2>7
  <2>9. Prints \in Seq(({v} \cup {w}) \cup {x})
    BY <2>1, <2>7
  <2> QED
    BY <1>2, <2>8, <2>9
<1> QED
  BY <1>1, <1>2

-----------------------------------------------------------------------------
(***************************************************************************)
(* A file that is over: an error is remembered whatever is printed, and a  *)
(* difference is remembered with the name that is printed for it.          *)
(***************************************************************************)
LEMMA OverTells ==
  ASSUME \E S : log \in Seq(S), CodeTells,
         NEW text, NEW failed \in BOOLEAN, Over(text, failed),
         ~failed => (AnyOf(out', "name") <=>
                       AnyOf(out, "name") \/ (opts.list /\ ~Skipped(text) /\ Changed(text)))
  PROVE  (\E S : log' \in Seq(S)) /\ CodeTells'
<1> DEFINE e == [name |-> Current, text |-> text, failed |-> failed]
           result == IF failed THEN 2
                     ELSE IF opts.list /\ ~Skipped(text) /\ Changed(text) THEN 1 ELSE 0
<1>1. log' = Append(log, e) /\ e.failed = failed
  BY DEF Over
<1>2. code' = IF result = 2 \/ code = 0 THEN result ELSE code
  BY DEF Over, Folded
<1> HIDE DEF e
<1>3. (\E S : log' \in Seq(S)) /\ (AnyFailed(log') <=> AnyFailed(log) \/ failed)
  BY <1>1, Appended
<1>4. AnyFailed(log)' <=> AnyFailed(log')
  BY DEF AnyFailed
<1>5. AnyOf(out, "name")' <=> AnyOf(out', "name")
  BY DEF AnyOf
<1>6. CASE failed
  BY <1>2, <1>3, <1>4, <1>6 DEF CodeTells
<1>7. CASE ~failed
  BY <1>2, <1>3, <1>4, <1>5, <1>7 DEF CodeTells
<1> QED
  BY <1>3, <1>6, <1>7

\* A run that goes on without touching log, code and output keeps what they tell.
LEMMA TellsAsBefore ==
  ASSUME IInv, UNCHANGED <<code, out, log>>,
         pc' \in {"process", "write", "report", "exit"} =>
           pc \in {"start", "process", "write", "report", "exit"},
         pc' = "start" => pc = "start", pc' = "refused" => pc = "refused"
  PROVE  IInv'
<1>1. pc = "start" => CodeTells
  <2>1. DOMAIN <<>> = {}
    OBVIOUS
  <2> QED
    BY <2>1 DEF IInv, CodeTells, AnyFailed, AnyOf
<1>2. CodeTells' <=> CodeTells
  BY DEF CodeTells, AnyFailed, AnyOf
<1> QED
  BY <1>1, <1>2 DEF IInv

\* Whatever is over leaves the run between two files.
LEMMA OverKeeps ==
  ASSUME IInv, pc \in {"process", "write", "report"},
         NEW text, NEW failed \in BOOLEAN, Over(text, failed), \E S : out' \in Seq(S),
         ~failed => (AnyOf(out', "name") <=>
                       AnyOf(out, "name") \/ (opts.list /\ ~Skipped(text) /\ Changed(text)))
  PROVE  IInv'
<1>1. (\E S : log \in Seq(S)) /\ CodeTells
  BY DEF IInv
<1>2. (\E S : log' \in Seq(S)) /\ CodeTells'
  BY <1>1, OverTells
<1>3. pc' = "process"
  BY DEF Over
<1> QED
  BY <1>2, <1>3 DEF IInv

LEMMA InitTells ==
  Init => IInv
BY DEF Init, IInv

LEMMA NextTells ==
  IInv /\ [Next]_vars => IInv'
<1> SUFFICES ASSUME IInv, [Next]_vars PROVE IInv'
  OBVIOUS
<1> USE DEF input
<1>1. CASE Filter
  <2>1. CASE Process
    BY <1>1, <2>1, TellsAsBefore DEF Process, Filter
  <2>2. CASE Refuse
    BY <1>1, <2>2 DEF Refuse, Filter, IInv
  <2> QED
    BY <1>1, <2>1, <2>2 DEF Filter
<1>2. CASE Expand
  <2>1. CASE Refuse
    BY <1>2, <2>1 DEF Refuse, Expand, IInv
  <2>2. CASE UNCHANGED <<pc, code, out, log>>
    BY <2>2, TellsAsBefore
  <2> QED
    BY <1>2, <2>1, <2>2 DEF Expand
<1>3. CASE Expanded
  <2>1. CASE Process
    BY <1>3, <2>1, TellsAsBefore DEF Process, Expanded
  <2>2. CASE Refuse
    BY <1>3, <2>2 DEF Refuse, Expanded, IInv
  <2> QED
    BY <1>3, <2>1, <2>2 DEF Expanded
<1>4. CASE Read
  <2>1. pc = "process"
    BY <1>4 DEF Read
  <2>2. CASE out' = out /\ \E text : Over(text, TRUE)
    BY <2>1, <2>2, OverKeeps DEF IInv
  <2>3. CASE pc' \in {"write", "report"} /\ UNCHANGED <<code, out, log>>
    BY <2>1, <2>3, TellsAsBefore
  <2> QED
    BY <1>4, <2>2, <2>3 DEF Read
<1>5. CASE Write
  <2>1. pc = "write"
    BY <1>5 DEF Write
  <2>2. CASE out' = out /\ Over(src, TRUE)
    BY <2>1, <2>2, OverKeeps DEF IInv
  <2>3. CASE pc' = "report" /\ UNCHANGED <<code, out, log>>
    BY <2>1, <2>3, TellsAsBefore
  <2> QED
    BY <1>5, <2>2, <2>3 DEF Write
<1>6. CASE Report
  <2>1. pc = "report"
    BY <1>6 DEF Report
  <2>2. PICK O : out \in Seq(O)
    BY DEF IInv
  <2>3. PICK P : Prints \in Seq(P)
    BY PrintsName
  <2>4. CASE out' = out \o Prints /\ Over(src, FALSE)
    <3>1. out \o Prints \in Seq(O \cup P)
      BY <2>2, <2>3, Concatenated
    <3>2. AnyOf(out \o Prints, "name") <=> AnyOf(out, "name") \/ AnyOf(Prints, "name")
      BY <2>2, <2>3, Concatenated
    <3>3. AnyOf(out', "name") <=>
            AnyOf(out, "name") \/ (opts.list /\ ~Skipped(src) /\ Changed(src))
      BY <2>4, <3>2, PrintsName
    <3> QED
      BY <2>1, <2>4, <3>1, <3>3, OverKeeps
  <2>5. ASSUME NEW k \in 1..Len(Prints), out' = out \o SubSeq(Prints, 1, k - 1), Over(src, TRUE)
        PROVE  IInv'
    <3>1. SubSeq(Prints, 1, k - 1) \in Seq(P)
      BY <2>3
    <3>2. out' \in Seq(O \cup P)
      BY <2>2, <2>5, <3>1, Concatenated
    <3> QED
      BY <2>1, <2>5, <3>2, OverKeeps
  <2> QED
    BY <1>6, <2>4, <2>5 DEF Report
<1>7. CASE Finish
  BY <1>7, TellsAsBefore DEF Finish
<1>8. CASE CheckAgain
  <2>1. <<>> \in Seq({})
    OBVIOUS
  <2> QED
    BY <1>8, <2>1 DEF CheckAgain, IInv
<1>9. CASE Edit
  BY <1>9, TellsAsBefore DEF Edit
<1>10. CASE UNCHANGED vars
  BY <1>10, TellsAsBefore DEF vars
<1> QED
  BY <1>1, <1>2, <1>3, <1>4, <1>5, <1>6, <1>7, <1>8, <1>9, <1>10 DEF Next, Run

(***************************************************************************)
(* 2 whenever any file failed, 1 exactly when -l printed a name and        *)
(* nothing failed, and nothing printed by a run that is refused.           *)
(***************************************************************************)
THEOREM ExitCode ==
  Spec => []ExitTellsAll
<1>1. Failed(log) # {} <=> AnyFailed(log)
  BY DEF Failed, ToSet, AnyFailed
<1>2. Names("name") # {} <=> AnyOf(out, "name")
  BY DEF Names, AnyOf
<1>3. IInv => ExitTellsAll
  BY <1>1, <1>2 DEF IInv, CodeTells, ExitTellsAll
<1> QED
  BY <1>3, InitTells, NextTells, PTL DEF Spec

-----------------------------------------------------------------------------
(***************************************************************************)
(* Types, and how far the run has got with its files.                      *)
(***************************************************************************)
Shape ==
  /\ \E S : files \in Seq(S)
  /\ pc \in {"write", "report"} => Len(log) < Len(files) /\ src \in Texts
  /\ pc = "exit" => Len(log) = Len(files)

TInv == IInv /\ TypeOK /\ Shape

\* The names that a path stands for are finitely many.
LEMMA NamedIsFinite ==
  ASSUME NEW path
  PROVE  IsFiniteSet(Named(path, Present))
<1>1. CASE EvalSymlinks(path) \in Dirs
  <2> DEFINE root == Root(path)
             W == Walked(root, Present \cup DOMAIN Links)
             N == {UnderRoot(path, root, e) : e \in W}
             f == [e \in W |-> UnderRoot(path, root, e)]
  <2>1. IsFiniteSet(W)
    <3>1. IsFiniteSet(Files \cup DOMAIN Links)
      BY TreeAssumption, FS_Union
    <3>2. W \in SUBSET (Files \cup DOMAIN Links)
      BY DEF Walked, Present
    <3> HIDE DEF W
    <3> QED
      BY <3>1, <3>2, FS_Subset
  <2>2. f \in Surjection(W, N)
    BY DEF Surjection
  <2>3. Named(path, Present) = N
    BY <1>1 DEF Named
  <2> HIDE DEF f, N, W
  <2> QED
    BY <2>1, <2>2, <2>3, FS_Surjection
<1>2. CASE EvalSymlinks(path) \notin Dirs
  BY <1>2, FS_Singleton DEF Named
<1> QED
  BY <1>1, <1>2

\* The files stay a sequence, and are joined by the names of the path.
LEMMA AddedNames ==
  ASSUME NEW S, NEW fs \in Seq(S), NEW path, NEW more \in Added(fs, path, Present)
  PROVE  /\ \E T : more \in Seq(T)
         /\ ToSet(more) = ToSet(fs) \cup Named(path, Present)
<1> DEFINE N == Named(path, Present) \ ToSet(fs)
           n == Cardinality(N)
<1>1. IsFiniteSet(N)
  <2>1. N \in SUBSET Named(path, Present)
    OBVIOUS
  <2> HIDE DEF N
  <2> QED
    BY <2>1, NamedIsFinite, FS_Subset
<1>2. n \in Nat
  BY <1>1, FS_CardinalityType
<1>3. PICK w \in Walks(N) : more = fs \o w
  BY DEF Added
<1>4. w \in [1..n -> N] /\ \A e \in N : \E i \in 1..n : w[i] = e
  BY <1>3 DEF Walks, Bijection, Injection, Surjection
<1>5. N \subseteq Named(path, Present) /\ Named(path, Present) \subseteq N \cup ToSet(fs)
  OBVIOUS
<1> HIDE DEF N, n
<1>6. w \in Seq(N) /\ DOMAIN w = 1..n /\ Len(w) = n
  BY <1>2, <1>4, TableIsSeq
<1>7. fs \in Seq(S \cup N) /\ w \in Seq(S \cup N)
  BY <1>6
<1>8. /\ fs \o w \in Seq(S \cup N)
      /\ ToSet(fs \o w) = ToSet(fs) \cup ToSet(w)
  BY <1>7, JoinedSets
<1>9. ToSet(w) = N
  BY <1>4, <1>6 DEF ToSet
<1> QED
  BY <1>3, <1>5, <1>8, <1>9

\* One more entry.
LEMMA OneMore ==
  ASSUME NEW S, NEW s \in Seq(S), NEW e
  PROVE  /\ Len(Append(s, e)) = Len(s) + 1 /\ Len(s) \in Nat
         /\ DOMAIN s = 1..Len(s) /\ DOMAIN Append(s, e) = 1..(Len(s) + 1)
         /\ \A i \in 1..Len(s) : Append(s, e)[i] = s[i]
         /\ Append(s, e)[Len(s) + 1] = e
         /\ ToSet(Append(s, e)) = ToSet(s) \cup {e}
<1>1. s \in Seq(S \cup {e}) /\ e \in S \cup {e}
  OBVIOUS
<1>2. /\ Len(Append(s, e)) = Len(s) + 1 /\ Len(s) \in Nat
      /\ DOMAIN s = 1..Len(s) /\ DOMAIN Append(s, e) = 1..(Len(s) + 1)
      /\ \A i \in 1..Len(s) : Append(s, e)[i] = s[i]
      /\ Append(s, e)[Len(s) + 1] = e
  BY <1>1
<1>3. \A x : x \in ToSet(Append(s, e)) <=> \E i \in 1..(Len(s) + 1) : Append(s, e)[i] = x
  BY <1>2 DEF ToSet
<1>4. \A x : x \in ToSet(s) <=> \E i \in 1..Len(s) : s[i] = x
  BY <1>2 DEF ToSet
<1>5. \A i \in 1..(Len(s) + 1) : i \in 1..Len(s) \/ i = Len(s) + 1
  BY <1>2
<1>6. Len(s) + 1 \in 1..(Len(s) + 1) /\ \A i \in 1..Len(s) : i \in 1..(Len(s) + 1)
  BY <1>2
<1>7. ASSUME NEW x  PROVE x \in ToSet(Append(s, e)) <=> x \in ToSet(s) \cup {e}
  <2>1. ASSUME x \in ToSet(Append(s, e))  PROVE x \in ToSet(s) \cup {e}
    BY <1>2, <1>3, <1>4, <1>5, <2>1
  <2>2. ASSUME x \in ToSet(s) \cup {e}  PROVE x \in ToSet(Append(s, e))
    BY <1>2, <1>3, <1>4, <1>6, <2>2
  <2> QED
    BY <2>1, <2>2
<1> QED
  BY <1>2, <1>7

\* Whatever is over, the run is one file further.
LEMMA OverShape ==
  ASSUME TInv, pc \in {"process", "write", "report"}, Len(log) < Len(files),
         NEW text, NEW failed, Over(text, failed)
  PROVE  Len(log') <= Len(files') /\ Shape'
<1>1. PICK S : log \in Seq(S)
  BY DEF TInv, IInv
<1>2. PICK T : files \in Seq(T)
  BY DEF TInv, Shape
<1>3. Len(log') = Len(log) + 1 /\ Len(log) \in Nat
  BY <1>1, OneMore DEF Over
<1>4. Len(files) \in Nat /\ files' = files /\ pc' = "process"
  BY <1>2 DEF Over
<1> QED
  BY <1>2, <1>3, <1>4 DEF Shape

LEMMA TextTypes ==
  ASSUME TypeOK, NEW name
  PROVE  TextOf(name) \in Texts \cup {"gone"} /\ (args # <<>> /\ TextOf(name) # "gone" => EvalSymlinks(name) \in Files)
BY DEF TypeOK, TextOf

LEMMA InitTypes ==
  Init => TypeOK /\ Shape
<1> SUFFICES ASSUME Init PROVE TypeOK /\ Shape
  OBVIOUS
<1>1. Len(log) = 0 /\ Len(files) = 0 /\ files \in Seq({})
  BY DEF Init
<1> QED
  BY <1>1, BoundsAssumption DEF Init, TypeOK, Shape, NoRun

LEMMA NextTypes ==
  TInv /\ [Next]_vars => TypeOK' /\ Shape'
<1> SUFFICES ASSUME TInv, [Next]_vars PROVE TypeOK' /\ Shape'
  OBVIOUS
<1> USE DEF input
<1>0. /\ TypeOK /\ Shape /\ IInv /\ IInv'
      /\ edits \in Nat /\ faults \in Nat /\ MaxEdits \in Nat /\ MaxFaults \in Nat
      /\ edits <= MaxEdits /\ faults <= MaxFaults
      /\ (Fault \/ NoFault => edits' \in 0..MaxEdits /\ faults' \in 0..MaxFaults)
  BY NextTells, BoundsAssumption DEF TInv, TypeOK, Fault, NoFault
<1>1. CASE Filter
  <2>1. <<Stdin>> \in Seq({Stdin}) /\ Len(<<Stdin>>) = 1
    OBVIOUS
  <2>2. Len(log) = 0
    BY <1>0, <1>1 DEF IInv, Filter
  <2>3. CASE files' = <<Stdin>> /\ Process
    <3>1. files' \in Seq({Stdin}) /\ Len(files') = 1 /\ Len(log') = 0
      BY <2>1, <2>2, <2>3 DEF Process
    <3>2. Shape'
      BY <2>3, <3>1 DEF Process, Shape
    <3>3. Len(log') <= Len(files')
      BY <3>1
    <3>4. TypeOK'
      BY <1>0, <2>3, <3>3 DEF Process, TypeOK
    <3> QED
      BY <3>2, <3>4
  <2>4. CASE Refuse /\ NoFault
    BY <1>0, <2>4 DEF Refuse, TypeOK, Shape
  <2> QED
    BY <1>1, <2>3, <2>4 DEF Filter
<1>2. CASE Expand
  <2>1. CASE Refuse
    BY <1>0, <1>2, <2>1 DEF Refuse, Expand, TypeOK, Shape
  <2>2. CASE /\ files' \in Added(files, Head(todo), Present)
             /\ UNCHANGED <<input, content, pc, src, code, out, log, edits, faults>>
    <3>1. PICK S : files \in Seq(S)
      BY <1>0 DEF Shape
    <3>2. PICK T : files' \in Seq(T)
      BY <2>2, <3>1, AddedNames
    <3>3. Len(log') = 0 /\ pc' = "start" /\ Len(files') \in Nat
      BY <1>0, <1>2, <2>2, <3>2 DEF IInv, Expand
    <3> QED
      BY <1>0, <2>2, <3>2, <3>3 DEF TypeOK, Shape
  <2> QED
    BY <1>2, <2>1, <2>2 DEF Expand
<1>3. CASE Expanded
  <2>1. CASE Process /\ UNCHANGED files
    BY <1>0, <1>3, <2>1 DEF Process, Expanded, TypeOK, Shape
  <2>2. CASE Refuse /\ NoFault
    BY <1>0, <2>2 DEF Refuse, TypeOK, Shape
  <2> QED
    BY <1>3, <2>1, <2>2 DEF Expanded
<1>4. CASE Read
  <2>1. pc = "process" /\ Len(log) < Len(files)
    BY <1>4 DEF Read, More
  <2>2. CASE UNCHANGED <<content, out>> /\ (Fault \/ NoFault) /\ \E text : Over(text, TRUE)
    <3>1. Len(log') <= Len(files') /\ Shape' /\ code' \in 0..2
      BY <1>0, <2>1, <2>2, OverShape DEF TInv, IInv, CodeTells, Over
    <3> QED
      BY <1>0, <2>2, <3>1 DEF TypeOK, Over
  <2>3. CASE /\ TextOf(Current) \notin {"gone", "broken"}
             /\ src' = TextOf(Current) /\ pc' \in {"write", "report"}
             /\ UNCHANGED <<input, content, todo, files, code, out, log, edits, faults>>
    <3>1. src' \in Texts
      BY <1>0, <2>3, TextTypes
    <3> QED
      BY <1>0, <2>1, <2>3, <3>1 DEF TypeOK, Shape
  <2> QED
    BY <1>4, <2>2, <2>3 DEF Read
<1>5. CASE Write
  <2>1. pc = "write" /\ Len(log) < Len(files) /\ src \in Texts
    BY <1>0, <1>5 DEF Write, Shape
  <2>2. CASE UNCHANGED <<content, out>> /\ (Fault \/ NoFault) /\ Over(src, TRUE)
    <3>1. Len(log') <= Len(files') /\ Shape' /\ code' \in 0..2
      BY <1>0, <2>1, <2>2, OverShape DEF TInv, IInv, CodeTells, Over
    <3> QED
      BY <1>0, <2>2, <3>1 DEF TypeOK, Over
  <2>3. CASE /\ content' = [content EXCEPT ![EvalSymlinks(Current)] = Formatted(src)]
             /\ pc' = "report"
             /\ UNCHANGED <<input, todo, files, src, code, out, log, edits, faults>>
    <3>1. Formatted(src) \in Texts
      BY <2>1 DEF Formatted, Texts
    <3>2. content' \in [Files -> Texts \cup {"gone"}]
      BY <1>0, <2>3, <3>1 DEF TypeOK
    <3> QED
      BY <1>0, <2>1, <2>3, <3>2 DEF TypeOK, Shape
  <2> QED
    BY <1>5, <2>2, <2>3 DEF Write
<1>6. CASE Report
  <2>1. pc = "report" /\ Len(log) < Len(files)
    BY <1>0, <1>6 DEF Report, Shape
  <2>2. UNCHANGED content /\ (Fault \/ NoFault) /\ \E failed : Over(src, failed)
    BY <1>6 DEF Report
  <2>3. Len(log') <= Len(files') /\ Shape' /\ code' \in 0..2
    BY <1>0, <2>1, <2>2, OverShape DEF TInv, IInv, CodeTells, Over
  <2> QED
    BY <1>0, <2>2, <2>3 DEF TypeOK, Over
<1>7. CASE Finish
  <2>1. Len(log) = Len(files)
    <3>1. PICK S, T : log \in Seq(S) /\ files \in Seq(T)
      BY <1>0 DEF IInv, Shape
    <3>2. Len(log) \in Nat /\ Len(files) \in Nat
      BY <3>1
    <3> QED
      BY <1>0, <1>7, <3>2 DEF Finish, More, TypeOK
  <2> QED
    BY <1>0, <1>7, <2>1 DEF Finish, TypeOK, Shape
<1>8. CASE CheckAgain
  <2>1. Len(<<>>) = 0 /\ <<>> \in Seq({})
    OBVIOUS
  <2>2. opts' \in Options
    BY <1>0, <1>8 DEF CheckAgain, TypeOK, Options
  <2>3. first'.code \in 0..2
    BY <1>0, <1>8 DEF CheckAgain, TypeOK
  <2> QED
    BY <1>0, <1>8, <2>1, <2>2, <2>3 DEF CheckAgain, TypeOK, Shape
<1>9. CASE Edit
  <2>1. content' \in [Files -> Texts \cup {"gone"}]
    BY <1>0, <1>9 DEF Edit, TypeOK, Texts
  <2>2. edits' \in 0..MaxEdits
    BY <1>0, <1>9 DEF Edit
  <2> QED
    BY <1>0, <1>9, <2>1, <2>2 DEF Edit, TypeOK, Shape
<1>10. CASE UNCHANGED vars
  BY <1>0, <1>10 DEF vars, TypeOK, Shape
<1> QED
  BY <1>1, <1>2, <1>3, <1>4, <1>5, <1>6, <1>7, <1>8, <1>9, <1>10 DEF Next, Run

(***************************************************************************)
(* The run's state keeps its types, and it never gets past its last file.  *)
(***************************************************************************)
THEOREM TypeCorrect ==
  Spec => []TypeOK
<1>1. Spec => []TInv
  BY InitTells, NextTells, InitTypes, NextTypes, PTL DEF Spec, TInv
<1>2. TInv => TypeOK
  BY DEF TInv
<1> QED
  BY <1>1, <1>2, PTL

-----------------------------------------------------------------------------
(***************************************************************************)
(* What was printed: each line belongs to a mode and to a file that was    *)
(* dealt with, each difference that -l was asked for has its line, and a   *)
(* run without a mode has at most one file, and a filter its answer.       *)
(***************************************************************************)
Differs(text) == ~Skipped(text) /\ Changed(text)

Belongs(o) ==
  /\ o.kind = "name" => opts.list
  /\ o.kind = "diff" => opts.diff
  /\ o.kind = "document" => ~Mode

Answer ==
  [kind |-> "document", name |-> Stdin,
   text |-> IF Skipped(stdin) THEN stdin ELSE Formatted(stdin)]

InTurn == \A i \in DOMAIN log : log[i].name = files[i]

Lines ==
  \A o \in ToSet(out) :
    /\ Belongs(o)
    /\ o.kind = "name" => \E r \in ToSet(log) : r.name = o.name /\ Differs(r.text)

Listed ==
  \A r \in ToSet(log) : opts.list /\ Differs(r.text) /\ ~r.failed =>
    \E o \in ToSet(out) : o.kind = "name" /\ o.name = r.name

Single ==
  ~Mode => /\ pc \notin {"start", "refused"} => Len(files) <= 1
           /\ log = <<>> => out = <<>>
           /\ Len(out) <= 1

Filtered ==
  args = <<>> /\ pc \notin {"start", "refused"} =>
    /\ files = <<Stdin>>
    /\ pc \in {"write", "report"} => src = stdin
    /\ ~Mode /\ log # <<>> => log[1].failed \/ out = <<Answer>>

Told == InTurn /\ Lines /\ Listed /\ Single /\ Filtered

\* A line or none, if it was asked for.
LEMMA WhenAsked ==
  ASSUME NEW asked \in BOOLEAN, NEW kind, NEW text
  PROVE  /\ When(asked, kind, text) \in Seq({Line(kind, text)})
         /\ ToSet(When(asked, kind, text)) = IF asked THEN {Line(kind, text)} ELSE {}
<1> DEFINE w == Line(kind, text)
<1>1. When(asked, kind, text) = IF asked THEN <<w>> ELSE <<>>
  BY DEF When, Line
<1> HIDE DEF w
<1>2. <<w>> \in Seq({w}) /\ <<>> \in Seq({w}) /\ ToSet(<<w>>) = {w} /\ ToSet(<<>>) = {}
  BY DEF ToSet
<1> QED
  BY <1>1, <1>2 DEF w

LEMMA PrintsAre ==
  ASSUME TypeOK
  PROVE  /\ \E S : Prints \in Seq(S)
         /\ \A o \in ToSet(Prints) :
              o.name = Current /\ Belongs(o) /\ (o.kind = "name" => Differs(src))
         /\ opts.list /\ Differs(src) => \E o \in ToSet(Prints) : o.kind = "name" /\ o.name = Current
         /\ ~Mode => /\ Len(Prints) <= 1
                     /\ args = <<>> /\ Current = Stdin /\ src = stdin => Prints = <<Answer>>
<1>0. opts.list \in BOOLEAN /\ opts.diff \in BOOLEAN /\ opts.write \in BOOLEAN
  BY DEF TypeOK, Options
<1>1. CASE Skipped(src)
  <2> DEFINE w == Line("document", src)
             asked == args = <<>> /\ ~Mode
  <2>1. Prints = When(asked, "document", src)
    BY <1>1 DEF Prints, PassedThrough
  <2>2. asked \in BOOLEAN
    BY <1>0 DEF Mode
  <2>3. Prints \in Seq({w}) /\ ToSet(Prints) = IF asked THEN {w} ELSE {}
    BY <2>1, <2>2, WhenAsked
  <2>4. w.kind = "document" /\ w.name = Current
    BY DEF Line
  <2>5. asked => Belongs(w)
    BY <2>4 DEF Belongs
  <2>6. Prints = IF asked THEN <<w>> ELSE <<>>
    BY <2>1 DEF When, Line
  <2>7. Len(Prints) <= 1
    BY <2>6
  <2>8. Current = Stdin /\ src = stdin => w = Answer
    BY <1>1 DEF Line, Answer
  <2>9. ~Mode /\ args = <<>> /\ Current = Stdin /\ src = stdin => Prints = <<Answer>>
    BY <2>6, <2>8
  <2> HIDE DEF w, asked
  <2> QED
    BY <1>1, <2>3, <2>4, <2>5, <2>7, <2>9 DEF Differs
<1>2. CASE ~Skipped(src)
  <2> DEFINE v == Line("name", src)
             w == Line("diff", src)
             x == Line("document", Formatted(src))
             a == When(opts.list /\ Changed(src), "name", src)
             b == When(opts.diff /\ Changed(src), "diff", src)
             c == When(~Mode, "document", Formatted(src))
  <2>1. Prints = (a \o b) \o c
    BY <1>2 DEF Prints
  <2>2. /\ v.kind = "name" /\ w.kind = "diff" /\ x.kind = "document"
        /\ v.name = Current /\ w.name = Current /\ x.name = Current
    BY DEF Line
  <2>3. /\ (opts.list /\ Changed(src)) \in BOOLEAN /\ (opts.diff /\ Changed(src)) \in BOOLEAN
        /\ (~Mode) \in BOOLEAN
    BY <1>0 DEF Changed, Mode
  <2>4. /\ a \in Seq({v}) /\ ToSet(a) = IF opts.list /\ Changed(src) THEN {v} ELSE {}
        /\ b \in Seq({w}) /\ ToSet(b) = IF opts.diff /\ Changed(src) THEN {w} ELSE {}
        /\ c \in Seq({x}) /\ ToSet(c) = IF ~Mode THEN {x} ELSE {}
    BY <2>3, WhenAsked
  <2>5. ~Mode => Prints = <<x>>
    <3>1. ASSUME ~Mode  PROVE Prints = <<x>>
      <4>1. a = <<>> /\ b = <<>> /\ c = <<x>>
        BY <1>0, <3>1 DEF Mode, When, Line
      <4> HIDE DEF x, a, b, c
      <4>2. (<<>> \o <<>>) \o <<x>> = <<x>>
        OBVIOUS
      <4> QED
        BY <2>1, <4>1, <4>2
    <3> QED
      BY <3>1
  <2>6. Current = Stdin /\ src = stdin => x = Answer
    BY <1>2 DEF Line, Answer
  <2>7. /\ opts.list => Belongs(v)
        /\ opts.diff => Belongs(w)
        /\ ~Mode => Belongs(x)
    BY <2>2 DEF Belongs
  <2> HIDE DEF v, w, x, a, b, c
  <2>8. a \in Seq({v, w, x}) /\ b \in Seq({v, w, x}) /\ c \in Seq({v, w, x})
    BY <2>4
  <2>9. a \o b \in Seq({v, w, x}) /\ ToSet(a \o b) = ToSet(a) \cup ToSet(b)
    BY <2>8, JoinedSets
  <2>10. (a \o b) \o c \in Seq({v, w, x}) /\ ToSet((a \o b) \o c) = ToSet(a \o b) \cup ToSet(c)
    <3> DEFINE ab == a \o b
    <3>1. ab \in Seq({v, w, x}) /\ c \in Seq({v, w, x})
      BY <2>8, <2>9
    <3> HIDE DEF ab
    <3>2. ab \o c \in Seq({v, w, x}) /\ ToSet(ab \o c) = ToSet(ab) \cup ToSet(c)
      BY <3>1, JoinedSets
    <3> QED
      BY <3>2 DEF ab
  <2>11. ~Mode => Len(Prints) <= 1
    BY <2>5
  <2>12. ~Mode /\ Current = Stdin /\ src = stdin => Prints = <<Answer>>
    BY <2>5, <2>6
  <2>13. Prints \in Seq({v, w, x}) /\ ToSet(Prints) = (ToSet(a) \cup ToSet(b)) \cup ToSet(c)
    BY <2>1, <2>9, <2>10
  <2>14. \A o \in ToSet(Prints) :
           o.name = Current /\ Belongs(o) /\ (o.kind = "name" => Differs(src))
    BY <1>2, <2>2, <2>4, <2>7, <2>13 DEF Differs
  <2>15. opts.list /\ Differs(src) => v \in ToSet(Prints)
    BY <2>4, <2>13 DEF Differs
  <2> QED
    BY <2>2, <2>11, <2>12, <2>13, <2>14, <2>15
<1> QED
  BY <1>1, <1>2

\* The first lines of an output are lines of it.
LEMMA CutShort ==
  ASSUME NEW S, NEW s \in Seq(S), NEW k \in 1..Len(s)
  PROVE  /\ SubSeq(s, 1, k - 1) \in Seq(S)
         /\ ToSet(SubSeq(s, 1, k - 1)) \subseteq ToSet(s)
         /\ Len(SubSeq(s, 1, k - 1)) = k - 1 /\ Len(s) \in Nat
<1>1. /\ SubSeq(s, 1, k - 1) \in Seq(S)
      /\ Len(SubSeq(s, 1, k - 1)) = k - 1 /\ Len(s) \in Nat
      /\ DOMAIN SubSeq(s, 1, k - 1) = 1..(k - 1) /\ DOMAIN s = 1..Len(s)
      /\ \A i \in 1..(k - 1) : SubSeq(s, 1, k - 1)[i] = s[i]
  OBVIOUS
<1>2. \A i \in 1..(k - 1) : i \in 1..Len(s)
  BY <1>1
<1> QED
  BY <1>1, <1>2 DEF ToSet

\* A file that is over: what it printed belongs to it, and what it had to print is there.
LEMMA OverTold ==
  ASSUME TInv, Told, pc \in {"process", "write", "report"}, Len(log) < Len(files),
         NEW text, NEW failed \in BOOLEAN, Over(text, failed),
         NEW T, NEW x \in Seq(T), out' = out \o x,
         \A o \in ToSet(x) : o.name = Current /\ Belongs(o) /\ (o.kind = "name" => Differs(text)),
         ~failed /\ opts.list /\ Differs(text) =>
           \E o \in ToSet(x) : o.kind = "name" /\ o.name = Current,
         ~Mode => Len(x) <= 1,
         args = <<>> /\ ~Mode /\ ~failed => x = <<Answer>>
  PROVE  Told'
<1> DEFINE e == [name |-> Current, text |-> text, failed |-> failed]
<1>1. PICK L, F, O : log \in Seq(L) /\ files \in Seq(F) /\ out \in Seq(O)
  BY DEF TInv, IInv, Shape
<1>2. /\ log' = Append(log, e) /\ pc' = "process"
      /\ UNCHANGED <<input, files, src>>
      /\ e.name = files[Len(log) + 1] /\ e.name = Current /\ e.text = text /\ e.failed = failed
  BY DEF Over, Current
<1>3. UNCHANGED <<args, opts, stdin>>
  BY <1>2 DEF input
<1> HIDE DEF e
<1>4. /\ Len(log') = Len(log) + 1 /\ Len(log) \in Nat /\ Len(files) \in Nat
      /\ DOMAIN log = 1..Len(log) /\ DOMAIN log' = 1..(Len(log) + 1)
      /\ \A i \in 1..Len(log) : log'[i] = log[i]
      /\ log'[Len(log) + 1] = e
      /\ ToSet(log') = ToSet(log) \cup {e}
  BY <1>1, <1>2, OneMore
<1>5. /\ out' \in Seq(O \cup T)
      /\ ToSet(out') = ToSet(out) \cup ToSet(x)
  <2>1. out \in Seq(O \cup T) /\ x \in Seq(O \cup T)
    BY <1>1
  <2> QED
    BY <2>1, JoinedSets
<1>6. InTurn'
  <2> SUFFICES ASSUME NEW i \in 1..(Len(log) + 1)  PROVE log'[i].name = files[i]
    BY <1>2, <1>4 DEF InTurn
  <2>1. i \in 1..Len(log) \/ i = Len(log) + 1
    BY <1>4
  <2>2. \A j \in 1..Len(log) : log[j].name = files[j]
    BY <1>4 DEF Told, InTurn
  <2> QED
    BY <1>2, <1>4, <2>1, <2>2
<1>7. \A t : Differs(t)' <=> Differs(t)
  BY <1>3 DEF Differs, Skipped, Changed
<1>8. \A o : Belongs(o)' <=> Belongs(o)
  BY <1>3 DEF Belongs, Mode
<1>9. ToSet(log)' = ToSet(log') /\ ToSet(out)' = ToSet(out')
  BY DEF ToSet
<1>10. Lines'
  BY <1>2, <1>4, <1>5, <1>7, <1>8, <1>9 DEF Told, Lines
<1>11. Listed'
  BY <1>2, <1>3, <1>4, <1>5, <1>7, <1>9 DEF Told, Listed
<1>12. ~Mode => log = <<>> /\ out' = x
  <2> SUFFICES ASSUME ~Mode PROVE log = <<>> /\ out' = x
    OBVIOUS
  <2>1. Len(files) <= 1
    BY DEF Told, Single
  <2>2. log = <<>>
    BY <1>1, <1>4, <2>1
  <2>3. out = <<>>
    BY <2>2 DEF Told, Single
  <2>4. <<>> \o x = x
    OBVIOUS
  <2> QED
    BY <2>2, <2>3, <2>4
<1>13. log' # <<>>
  BY <1>1, <1>4
<1>14. Single'
  BY <1>2, <1>3, <1>12, <1>13 DEF Told, Single, Mode
<1>15. Filtered'
  <2>1. Answer' = Answer
    BY <1>3 DEF Answer, Skipped, Formatted
  <2>2. ~Mode /\ args = <<>> => log'[1].failed \/ out' = <<Answer>>
    <3>1. ASSUME ~Mode, args = <<>>, ~failed PROVE out' = <<Answer>>
      BY <1>12, <3>1
    <3>2. ASSUME ~Mode, failed PROVE log'[1].failed
      <4>1. Len(log) + 1 = 1
        BY <1>12, <3>2
      <4>2. log'[1] = e
        BY <1>4, <4>1
      <4> QED
        BY <1>2, <3>2, <4>2
    <3> QED
      BY <3>1, <3>2
  <2> QED
    BY <1>2, <1>3, <2>1, <2>2 DEF Told, Filtered, Mode
<1> QED
  BY <1>6, <1>10, <1>11, <1>14, <1>15 DEF Told

\* A run that has printed nothing yet.
LEMMA NothingTold ==
  ASSUME log' = <<>>, out' = <<>>,
         \/ pc' \in {"start", "refused"}
         \/ (~Mode)' => Len(files') <= 1,
         \/ pc' \in {"start", "refused"}
         \/ pc' = "process" /\ (args' = <<>> => files' = <<Stdin>>)
  PROVE  Told'
<1>1. DOMAIN <<>> = {} /\ Len(<<>>) = 0 /\ ToSet(<<>>) = {}
  BY DEF ToSet
<1>2. ToSet(log)' = {} /\ ToSet(out)' = {}
  BY <1>1 DEF ToSet
<1>3. InTurn' /\ Lines' /\ Listed'
  BY <1>1, <1>2 DEF InTurn, Lines, Listed
<1>4. Single'
  BY <1>1 DEF Single
<1>5. Filtered'
  BY DEF Filtered
<1> QED
  BY <1>3, <1>4, <1>5 DEF Told

\* A step that neither prints nor is done with a file.
LEMMA ToldAsBefore ==
  ASSUME Told, UNCHANGED <<args, opts, stdin, files, log, out>>,
         pc \notin {"start", "refused"} \/ pc' = pc,
         args = <<>> /\ pc' \in {"write", "report"} =>
           src' = stdin \/ (src' = src /\ pc \in {"write", "report"})
  PROVE  Told'
<1>1. InTurn' /\ Lines' /\ Listed'
  BY DEF Told, InTurn, Lines, Listed, ToSet, Belongs, Differs, Skipped, Changed, Mode
<1>2. Single' /\ Filtered'
  BY DEF Told, Single, Filtered, Mode, Answer, Skipped
<1> QED
  BY <1>1, <1>2 DEF Told

\* A file that failed printed nothing.
LEMMA FailedTold ==
  ASSUME TInv, Told, pc \in {"process", "write", "report"}, Len(log) < Len(files),
         NEW text, Over(text, TRUE), out' = out
  PROVE  Told'
<1>1. PICK O : out \in Seq(O)
  BY DEF TInv, IInv
<1> DEFINE x == <<>>
<1>2. x \in Seq({}) /\ out' = out \o x /\ Len(x) <= 1
  BY <1>1
<1>3. ToSet(x) = {}
  BY DEF ToSet
<1> HIDE DEF x
<1> QED
  BY <1>2, <1>3, OverTold

LEMMA ReportTold ==
  ASSUME TInv, Told, Report
  PROVE  Told'
<1>1. TypeOK /\ pc = "report" /\ Len(log) < Len(files)
  BY DEF TInv, Shape, Report
<1>2. PICK P : Prints \in Seq(P)
  BY <1>1, PrintsAre
<1>3. \A o \in ToSet(Prints) :
        o.name = Current /\ Belongs(o) /\ (o.kind = "name" => Differs(src))
  BY <1>1, PrintsAre
<1>4. ~Mode => Len(Prints) <= 1
  BY <1>1, PrintsAre
<1>5. args = <<>> /\ ~Mode => Prints = <<Answer>>
  <2> SUFFICES ASSUME args = <<>>, ~Mode PROVE Prints = <<Answer>>
    OBVIOUS
  <2>1. files = <<Stdin>> /\ src = stdin
    BY <1>1 DEF Told, Filtered
  <2>2. Len(log) + 1 = 1
    <3>1. PICK L : log \in Seq(L)
      BY DEF TInv, IInv
    <3>2. Len(log) \in Nat /\ Len(<<Stdin>>) = 1
      BY <3>1
    <3> QED
      BY <1>1, <2>1, <3>2
  <2>3. Current = Stdin
    BY <2>1, <2>2 DEF Current
  <2> QED
    BY <1>1, <2>1, <2>3, PrintsAre
<1>6. CASE out' = out \o Prints /\ Over(src, FALSE)
  <2>1. opts.list /\ Differs(src) => \E o \in ToSet(Prints) : o.kind = "name" /\ o.name = Current
    BY <1>1, PrintsAre
  <2> QED
    BY <1>1, <1>2, <1>3, <1>4, <1>5, <1>6, <2>1, OverTold
<1>7. ASSUME NEW k \in 1..Len(Prints), out' = out \o SubSeq(Prints, 1, k - 1), Over(src, TRUE)
      PROVE  Told'
  <2> DEFINE x == SubSeq(Prints, 1, k - 1)
  <2>1. x \in Seq(P) /\ ToSet(x) \subseteq ToSet(Prints) /\ Len(x) = k - 1 /\ Len(Prints) \in Nat
    BY <1>2, CutShort
  <2>2. out' = out \o x
    BY <1>7
  <2> HIDE DEF x
  <2>3. ~Mode => Len(x) <= 1
    BY <1>4, <2>1
  <2>4. \A o \in ToSet(x) : o.name = Current /\ Belongs(o) /\ (o.kind = "name" => Differs(src))
    BY <1>3, <2>1
  <2> QED
    BY <1>1, <1>7, <2>1, <2>2, <2>3, <2>4, OverTold
<1> QED
  BY <1>6, <1>7 DEF Report

LEMMA NextTold ==
  TInv /\ Told /\ [Next]_vars => Told'
<1> SUFFICES ASSUME TInv, Told, [Next]_vars PROVE Told'
  OBVIOUS
<1> USE DEF input
<1>0. /\ pc = "start" => log = <<>> /\ out = <<>>
      /\ pc \in {"write", "report"} => Len(log) < Len(files)
  BY DEF TInv, IInv, Shape
<1>1. CASE Filter
  <2>1. Len(<<Stdin>>) = 1
    OBVIOUS
  <2>2. CASE files' = <<Stdin>> /\ Process
    BY <1>0, <1>1, <2>1, <2>2, NothingTold DEF Filter, Process
  <2>3. CASE Refuse
    BY <1>0, <1>1, <2>3, NothingTold DEF Filter, Refuse
  <2> QED
    BY <1>1, <2>2, <2>3 DEF Filter
<1>2. CASE Expand
  <2>1. log' = <<>> /\ out' = <<>> /\ pc' \in {"start", "refused"}
    BY <1>0, <1>2 DEF Expand, Refuse
  <2> QED
    BY <2>1, NothingTold
<1>3. CASE Expanded
  <2>1. CASE ~TooMany /\ Process /\ UNCHANGED files
    <3>1. log' = <<>> /\ out' = <<>> /\ pc' = "process" /\ args' # <<>> /\ UNCHANGED <<opts, files>>
      BY <1>0, <1>3, <2>1 DEF Expanded, Process
    <3>2. (~Mode)' => ~Mode
      BY <3>1 DEF Mode
    <3>3. ~Mode => Len(files) <= 1
      <4>1. PICK F : files \in Seq(F)
        BY DEF TInv, Shape
      <4>2. Len(files) \in Nat
        BY <4>1
      <4> QED
        BY <2>1, <4>2 DEF TooMany
    <3> QED
      BY <3>1, <3>2, <3>3, NothingTold
  <2>2. CASE Refuse
    BY <1>0, <1>3, <2>2, NothingTold DEF Expanded, Refuse
  <2> QED
    BY <1>3, <2>1, <2>2 DEF Expanded
<1>4. CASE Read
  <2>1. pc = "process" /\ Len(log) < Len(files)
    BY <1>4 DEF Read, More
  <2>2. CASE out' = out /\ \E text : Over(text, TRUE)
    BY <2>1, <2>2, FailedTold
  <2>3. CASE /\ src' = TextOf(Current)
             /\ UNCHANGED <<input, content, todo, files, code, out, log, edits, faults>>
    <3>1. args = <<>> => src' = stdin
      BY <2>3 DEF TextOf
    <3> QED
      BY <2>1, <2>3, <3>1, ToldAsBefore
  <2> QED
    BY <1>4, <2>2, <2>3 DEF Read
<1>5. CASE Write
  <2>1. pc = "write" /\ Len(log) < Len(files)
    BY <1>0, <1>5 DEF Write
  <2>2. CASE out' = out /\ Over(src, TRUE)
    BY <2>1, <2>2, FailedTold
  <2>3. CASE UNCHANGED <<input, todo, files, src, code, out, log, edits, faults>>
    BY <2>1, <2>3, ToldAsBefore
  <2> QED
    BY <1>5, <2>2, <2>3 DEF Write
<1>6. CASE Report
  BY <1>6, ReportTold
<1>7. CASE Finish
  BY <1>7, ToldAsBefore DEF Finish
<1>8. CASE CheckAgain
  BY <1>8, NothingTold DEF CheckAgain
<1>9. CASE Edit
  BY <1>9, ToldAsBefore DEF Edit
<1>10. CASE UNCHANGED vars
  BY <1>10, ToldAsBefore DEF vars
<1> QED
  BY <1>1, <1>2, <1>3, <1>4, <1>5, <1>6, <1>7, <1>8, <1>9, <1>10 DEF Next, Run

LEMMA ToldAlways ==
  Spec => [](TInv /\ Told)
<1>1. Init => Told
  <2>1. DOMAIN <<>> = {} /\ Len(<<>>) = 0 /\ ToSet(<<>>) = {}
    BY DEF ToSet
  <2> QED
    BY <2>1 DEF Init, Told, InTurn, Lines, Listed, Single, Filtered
<1> QED
  BY <1>1, InitTells, NextTells, InitTypes, NextTypes, NextTold, PTL DEF Spec, TInv

(***************************************************************************)
(* Every file gets its turn whatever happens to the others, and -l lists   *)
(* the files that differ and no other.                                     *)
(***************************************************************************)
THEOREM NoneHidden ==
  Spec => []NothingHidden
<1>1. TInv /\ Told => NothingHidden
  <2> SUFFICES ASSUME TInv, Told, pc = "exit"
               PROVE  /\ [i \in DOMAIN log |-> log[i].name] = files
                      /\ \A r \in ToSet(log) :
                           /\ opts.list /\ Differs(r.text) /\ ~r.failed => r.name \in Names("name")
                           /\ r.name \in Names("name") =>
                                \E s \in ToSet(log) : s.name = r.name /\ Changed(s.text)
    BY DEF NothingHidden, Differs
  <2>1. PICK L, F : log \in Seq(L) /\ files \in Seq(F)
    BY DEF TInv, IInv, Shape
  <2>2. DOMAIN log = DOMAIN files
    BY <2>1 DEF TInv, Shape
  <2>3. files = [i \in DOMAIN files |-> files[i]]
    BY <2>1
  <2>4. [i \in DOMAIN log |-> log[i].name] = files
    BY <2>2, <2>3 DEF Told, InTurn
  <2>5. \A n : n \in Names("name") <=> \E o \in ToSet(out) : o.kind = "name" /\ o.name = n
    BY DEF Names, ToSet
  <2> QED
    BY <2>4, <2>5 DEF Told, Lines, Listed, Differs
<1> QED
  BY <1>1, ToldAlways, PTL

(***************************************************************************)
(* Names, diffs and documents never mix: what is on standard output is     *)
(* what the mode says, one document at most, and a filter that exits with  *)
(* 0 has passed its document on.                                           *)
(***************************************************************************)
THEOREM OneThing ==
  Spec => []StdoutIsOneThing
<1>1. TInv /\ Told => StdoutIsOneThing
  <2> SUFFICES ASSUME TInv, Told PROVE StdoutIsOneThing
    OBVIOUS
  <2>1. \A k : Names(k) # {} => \E o \in ToSet(out) : o.kind = k
    BY DEF Names, ToSet
  <2>2. /\ Names("name") # {} => opts.list
        /\ Names("diff") # {} => opts.diff
        /\ Names("document") # {} => ~Mode
    BY <2>1 DEF Told, Lines, Belongs
  <2>3. Names("document") # {} => Len(out) = 1
    <3> SUFFICES ASSUME Names("document") # {} PROVE Len(out) = 1
      OBVIOUS
    <3>1. PICK O : out \in Seq(O)
      BY DEF TInv, IInv
    <3>2. out # <<>>
      BY DEF Names
    <3>3. Len(out) \in Nat /\ Len(out) # 0
      BY <3>1, <3>2
    <3>4. Len(out) <= 1
      BY <2>2 DEF Told, Single
    <3> QED
      BY <3>3, <3>4
  <2>4. pc = "exit" /\ args = <<>> /\ ~Mode /\ code = 0 => out = <<Answer>>
    <3> SUFFICES ASSUME pc = "exit", args = <<>>, ~Mode, code = 0 PROVE out = <<Answer>>
      OBVIOUS
    <3>1. files = <<Stdin>> /\ Len(<<Stdin>>) = 1
      BY DEF Told, Filtered
    <3>2. PICK L : log \in Seq(L)
      BY DEF TInv, IInv
    <3>3. Len(log) = 1 /\ 1 \in DOMAIN log /\ log # <<>>
      BY <3>1, <3>2 DEF TInv, Shape
    <3>4. ~log[1].failed
      BY <3>3 DEF TInv, IInv, CodeTells, AnyFailed
    <3> QED
      BY <3>3, <3>4 DEF Told, Filtered
  <2> QED
    BY <2>2, <2>3, <2>4 DEF StdoutIsOneThing, Answer
<1> QED
  BY <1>1, ToldAlways, PTL
-----------------------------------------------------------------------------
(***************************************************************************)
(* Formatting and checking, as long as nobody else changes a file: both    *)
(* runs take the same files, and each that the first did not give up is    *)
(* settled, under all its names and for good.                              *)
(***************************************************************************)
NamedBy(paths) == UNION {Named(path, Files) : path \in ToSet(paths)}

Settled(name) == ~Differs(TextOf(name))

SameFiles ==
  /\ \A f \in Files : content[f] # "gone"
  /\ \E T : args \in Seq(T) /\ todo \in Seq(T)
  /\ pc = "start" => ToSet(files) \cup NamedBy(todo) = NamedBy(args)
  /\ args # <<>> /\ pc \notin {"start", "refused"} => ToSet(files) = NamedBy(args)

Formatting ==
  opts.write =>
    /\ first = NoRun
    /\ args # <<>> \/ pc \in {"start", "refused"}
    /\ \A r \in ToSet(log) : ~r.failed => Settled(r.name)
    /\ pc = "write" => TextOf(Current) = src
    /\ pc = "report" => Settled(Current)

Checking ==
  first # NoRun =>
    /\ args # <<>>
    /\ Failed(first.log) # {} => first.code = 2
    /\ \A n \in NamedBy(args) : n \in Failed(first.log) \/ Settled(n)
    /\ \A r \in ToSet(log) : Differs(r.text) => r.text = TextOf(r.name)
    /\ pc = "report" => TextOf(Current) = src

Kept ==
  /\ pc = "write" => opts.write
  /\ edits = 0 => SameFiles /\ Formatting /\ Checking

\* What is formatted is not formatted again.
LEMMA FormatsOnce ==
  ASSUME NEW text \in Texts
  PROVE  Formatted(text) \in Texts /\ ~Differs(Formatted(text))
BY DEF Formatted, Differs, Changed, Texts

\* What a name stands for depends on the command line and the files alone.
LEMMA SameTexts ==
  ASSUME UNCHANGED <<content, args, opts, stdin>>
  PROVE  /\ \A t : Differs(t)' <=> Differs(t)
         /\ \A n : TextOf(n)' = TextOf(n)
         /\ \A n : Settled(n)' <=> Settled(n)
BY DEF TextOf, Settled, Differs, Skipped, Changed, Formatted

\* A step of a run that is not done with a file.
LEMMA KeptAsBefore ==
  ASSUME Formatting, Checking, UNCHANGED <<content, args, opts, stdin, first, log>>,
         args # <<>> \/ pc \notin {"start", "refused"} \/ pc' \in {"start", "refused"} \/ ~opts.write,
         args # <<>> \/ first = NoRun,
         pc' = "write" => files' = files /\ TextOf(Current) = src',
         pc' = "report" => /\ files' = files
                           /\ opts.write => Settled(Current)
                           /\ first # NoRun => TextOf(Current) = src'
  PROVE  Formatting' /\ Checking'
<1>1. /\ \A t : Differs(t)' <=> Differs(t)
      /\ \A n : TextOf(n)' = TextOf(n)
      /\ \A n : Settled(n)' <=> Settled(n)
  BY SameTexts
<1>2. /\ ToSet(log)' = ToSet(log) /\ Failed(first.log)' = Failed(first.log)
      /\ NamedBy(args)' = NamedBy(args)
      /\ files' = files => Current' = Current
  BY DEF ToSet, Failed, NamedBy, Current
<1>3. Formatting'
  BY <1>1, <1>2 DEF Formatting
<1>4. Checking'
  BY <1>1, <1>2 DEF Checking
<1> QED
  BY <1>3, <1>4

\* A file that is over.
LEMMA OverKept ==
  ASSUME TInv, SameFiles, Formatting, Checking, pc \in {"process", "write", "report"},
         UNCHANGED content,
         NEW text, NEW failed \in BOOLEAN, Over(text, failed),
         opts.write /\ ~failed => Settled(Current),
         first # NoRun /\ Differs(text) => text = TextOf(Current)
  PROVE  SameFiles' /\ Formatting' /\ Checking'
<1> DEFINE e == [name |-> Current, text |-> text, failed |-> failed]
<1>1. PICK L : log \in Seq(L)
  BY DEF TInv, IInv
<1>2. /\ log' = Append(log, e) /\ pc' = "process"
      /\ UNCHANGED <<args, opts, stdin, first, todo, files>>
      /\ e.name = Current /\ e.text = text /\ e.failed = failed
  BY DEF Over, input
<1> HIDE DEF e
<1>3. ToSet(log') = ToSet(log) \cup {e}
  BY <1>1, <1>2, OneMore
<1>4. /\ \A t : Differs(t)' <=> Differs(t)
      /\ \A n : TextOf(n)' = TextOf(n)
      /\ \A n : Settled(n)' <=> Settled(n)
  BY <1>2, SameTexts
<1>5. /\ ToSet(log)' = ToSet(log') /\ Failed(first.log)' = Failed(first.log)
      /\ NamedBy(args)' = NamedBy(args) /\ ToSet(files)' = ToSet(files)
  BY <1>2 DEF ToSet, Failed, NamedBy
<1>6. SameFiles'
  BY <1>2, <1>5 DEF SameFiles
<1>7. Formatting'
  BY <1>2, <1>3, <1>4, <1>5 DEF Formatting
<1>8. Checking'
  BY <1>2, <1>3, <1>4, <1>5 DEF Checking
<1> QED
  BY <1>6, <1>7, <1>8

\* One path more is expanded, one less is left.
LEMMA ExpandedKept ==
  ASSUME TInv, SameFiles, pc = "start", todo # <<>>,
         files' \in Added(files, Head(todo), Present), todo' = Tail(todo),
         UNCHANGED <<content, args, pc>>
  PROVE  SameFiles'
<1>1. PICK S : files \in Seq(S)
  BY DEF TInv, Shape
<1>2. PICK T : args \in Seq(T) /\ todo \in Seq(T)
  BY DEF SameFiles
<1>3. Present = Files
  BY DEF Present, SameFiles
<1>4. ToSet(files') = ToSet(files) \cup Named(Head(todo), Files)
  BY <1>1, <1>3, AddedNames
<1>5. ToSet(todo) = {Head(todo)} \cup ToSet(todo') /\ todo' \in Seq(T)
  BY <1>2, HeadAndTail
<1>6. NamedBy(todo) = Named(Head(todo), Files) \cup NamedBy(todo')
  BY <1>5 DEF NamedBy
<1>7. ToSet(files') \cup NamedBy(todo') = NamedBy(args)
  BY <1>4, <1>6 DEF SameFiles
<1>8. ToSet(files)' = ToSet(files') /\ NamedBy(todo)' = NamedBy(todo') /\ NamedBy(args)' = NamedBy(args)
  BY DEF ToSet, NamedBy
<1> QED
  BY <1>2, <1>5, <1>7, <1>8 DEF SameFiles

\* A file that is written is settled, and so is every name that leads to it.
LEMMA WrittenKept ==
  ASSUME TInv, SameFiles, Formatting, opts.write, pc = "write",
         content' = [content EXCEPT ![EvalSymlinks(Current)] = Formatted(src)],
         pc' = "report", UNCHANGED <<args, opts, stdin, first, todo, files, log>>
  PROVE  SameFiles' /\ Formatting' /\ Checking'
<1> DEFINE target == EvalSymlinks(Current)
<1>1. TypeOK /\ src \in Texts /\ TextOf(Current) = src /\ args # <<>> /\ first = NoRun
  BY DEF TInv, Shape, Formatting
<1>2. target \in Files
  <2>1. src # "gone"
    BY <1>1 DEF Texts
  <2> QED
    BY <1>1, <2>1, TextTypes
<1>3. Formatted(src) \in Texts /\ ~Differs(Formatted(src))
  BY <1>1, FormatsOnce
<1>4. /\ \A n : EvalSymlinks(n) = target => TextOf(n)' = Formatted(src)
      /\ \A n : EvalSymlinks(n) # target => TextOf(n)' = TextOf(n)
      /\ \A f \in Files : content'[f] = IF f = target THEN Formatted(src) ELSE content[f]
  BY <1>1, <1>2 DEF TextOf, TypeOK
<1> HIDE DEF target
<1>5. \A t : Differs(t)' <=> Differs(t)
  BY DEF Differs, Skipped, Changed, Formatted
<1>6. /\ \A n : EvalSymlinks(n) = target => Settled(n)'
      /\ \A n : Settled(n) => Settled(n)'
  BY <1>3, <1>4, <1>5 DEF Settled
<1>7. Settled(Current)'
  <2>1. Current' = Current
    BY DEF Current
  <2>2. Settled(Current)' <=> ~Differs(TextOf(Current))'
    BY DEF Settled
  <2>3. TextOf(Current)' = Formatted(src)
    BY <1>1, <1>2, <2>1 DEF TextOf, target, TypeOK
  <2> QED
    BY <1>3, <1>5, <2>2, <2>3 DEF Differs
<1>8. /\ ToSet(log)' = ToSet(log) /\ NamedBy(args)' = NamedBy(args)
      /\ ToSet(files)' = ToSet(files)
  BY DEF ToSet, NamedBy
<1>9. \A f \in Files : content'[f] # "gone"
  <2>1. Formatted(src) # "gone"
    BY <1>3 DEF Texts
  <2> QED
    BY <1>4, <2>1 DEF SameFiles
<1>10. SameFiles'
  BY <1>8, <1>9 DEF SameFiles
<1>11. Formatting'
  BY <1>1, <1>6, <1>7, <1>8 DEF Formatting
<1> QED
  BY <1>1, <1>10, <1>11 DEF Checking

\* What the run with -w says of its files is what the run with -l is held to.
LEMMA HandedOver ==
  ASSUME TInv, Told, SameFiles, Formatting, CheckAgain
  PROVE  SameFiles' /\ Formatting' /\ Checking'
<1>1. PICK L, F, A : log \in Seq(L) /\ files \in Seq(F) /\ args \in Seq(A)
  BY DEF TInv, IInv, Shape, SameFiles
<1>2. /\ opts.write /\ pc = "exit" /\ ~opts'.write /\ opts'.includeSOPS = opts.includeSOPS
      /\ first' = [code |-> code, log |-> log] /\ pc' = "start" /\ todo' = args
      /\ files' = <<>> /\ log' = <<>>
      /\ UNCHANGED <<content, args, stdin>>
  BY DEF CheckAgain, TInv, TypeOK, Options
<1>3. first = NoRun /\ args # <<>> /\ (\A r \in ToSet(log) : ~r.failed => Settled(r.name))
      /\ ToSet(files) = NamedBy(args)
  BY <1>2 DEF Formatting, SameFiles
<1>4. \A n : Settled(n)' <=> Settled(n)
  BY <1>2 DEF Settled, TextOf, Differs, Skipped, Changed, Formatted
<1>5. ToSet(<<>>) = {}
  BY DEF ToSet
<1>6. NamedBy(args)' = NamedBy(args) /\ NamedBy(todo)' = NamedBy(args) /\ ToSet(files)' = {}
      /\ ToSet(log)' = {} /\ Failed(first.log)' = Failed(log)
  BY <1>2, <1>5 DEF NamedBy, ToSet, Failed
<1>7. Failed(log) # {} => code = 2
  BY <1>2 DEF Failed, ToSet, TInv, IInv, CodeTells, AnyFailed
<1>8. ASSUME NEW n \in NamedBy(args)  PROVE n \in Failed(log) \/ Settled(n)
  <2>1. DOMAIN log = DOMAIN files
    BY <1>1, <1>2 DEF TInv, Shape
  <2>2. PICK i \in DOMAIN files : files[i] = n
    BY <1>3 DEF ToSet
  <2>3. log[i] \in ToSet(log) /\ log[i].name = n
    BY <2>1, <2>2 DEF ToSet, Told, InTurn
  <2> QED
    BY <1>3, <2>3 DEF Failed
<1>9. SameFiles'
  BY <1>1, <1>2, <1>6 DEF SameFiles
<1>10. Formatting'
  BY <1>2 DEF Formatting
<1>11. Checking'
  <2>1. first'.code = code
    BY <1>2
  <2> QED
    BY <1>2, <1>3, <1>4, <1>6, <1>7, <1>8, <2>1 DEF Checking
<1> QED
  BY <1>9, <1>10, <1>11

LEMMA InitKept ==
  Init => Kept
<1> SUFFICES ASSUME Init PROVE Kept
  OBVIOUS
<1>1. ToSet(<<>>) = {}
  BY DEF ToSet
<1>2. SameFiles
  BY <1>1 DEF Init, SameFiles, Texts
<1>3. Formatting /\ Checking
  BY <1>1 DEF Init, Formatting, Checking
<1> QED
  BY <1>2, <1>3 DEF Init, Kept

LEMMA NextKept ==
  TInv /\ Told /\ Kept /\ [Next]_vars => Kept'
<1> SUFFICES ASSUME TInv, Told, Kept, [Next]_vars PROVE Kept'
  OBVIOUS
<1> USE DEF input
<1>0. TypeOK /\ edits \in Nat
  BY DEF TInv, TypeOK
<1>1. pc' = "write" => opts'.write
  <2>1. ASSUME pc # "write", pc' = "write" PROVE Read /\ Writes(TextOf(Current))
    BY <2>1 DEF Next, Run, Filter, Expand, Expanded, Read, Over, Write, Report, Finish,
                CheckAgain, Edit, vars, Process, Refuse
  <2>2. ASSUME pc = "write", pc' = "write" PROVE UNCHANGED opts
    BY <2>2 DEF Next, Run, Filter, Expand, Expanded, Read, Over, Write, Report, Finish,
                CheckAgain, Edit, vars, Process, Refuse
  <2>3. Read => UNCHANGED opts
    BY DEF Read, Over
  <2> QED
    BY <2>1, <2>2, <2>3 DEF Writes, Kept
<1> SUFFICES ASSUME edits' = 0 PROVE SameFiles' /\ Formatting' /\ Checking'
  BY <1>1 DEF Kept
<1>2. CASE Edit
  BY <1>0, <1>2 DEF Edit
<1>3. ASSUME ~Edit PROVE SameFiles /\ Formatting /\ Checking
  <2>1. edits' = edits
    BY <1>3 DEF Next, Run, Filter, Expand, Expanded, Read, Write, Report, Finish,
                CheckAgain, vars, Process, Fault, NoFault
  <2> QED
    BY <2>1 DEF Kept
<1>4. ASSUME SameFiles, UNCHANGED <<content, args, todo, files>>,
             pc' = "start" => pc = "start",
             args # <<>> /\ pc' \notin {"start", "refused"} =>
               pc \notin {"start", "refused"} \/ (pc = "start" /\ todo = <<>>)
      PROVE  SameFiles'
  <2>1. NamedBy(<<>>) = {}
    BY DEF NamedBy, ToSet
  <2>2. ToSet(files)' = ToSet(files) /\ NamedBy(todo)' = NamedBy(todo) /\ NamedBy(args)' = NamedBy(args)
    BY <1>4 DEF ToSet, NamedBy
  <2> QED
    BY <1>4, <2>1, <2>2 DEF SameFiles
<1>5. CASE Filter /\ ~Edit
  <2>1. SameFiles /\ Formatting /\ Checking /\ args = <<>> /\ pc = "start"
    BY <1>3, <1>5 DEF Filter
  <2>2. first = NoRun
    BY <2>1 DEF Checking
  <2>3. UNCHANGED <<content, args, todo, opts, stdin, first, log>> /\ pc' \in {"process", "refused"}
        /\ (pc' = "refused" \/ ~opts.write)
    BY <1>5 DEF Filter, Process, Refuse
  <2>4. Formatting' /\ Checking'
    BY <2>1, <2>2, <2>3, KeptAsBefore
  <2>5. SameFiles'
    BY <2>1, <2>3 DEF SameFiles
  <2> QED
    BY <2>4, <2>5
<1>6. CASE Expand /\ ~Edit
  <2>1. SameFiles /\ Formatting /\ Checking /\ pc = "start"
    BY <1>3, <1>6 DEF Expand
  <2>2. UNCHANGED <<content, args, opts, stdin, first, log>> /\ pc' \in {"start", "refused"}
    BY <1>6 DEF Expand, Refuse
  <2>3. Formatting' /\ Checking'
    <3>1. args # <<>> \/ first = NoRun
      BY <2>1 DEF Checking
    <3> QED
      BY <2>1, <2>2, <3>1, KeptAsBefore
  <2>4. CASE Refuse
    BY <1>4, <2>1, <2>3, <2>4 DEF Refuse
  <2>5. CASE files' \in Added(files, Head(todo), Present) /\ todo' = Tail(todo) /\ UNCHANGED pc
    BY <1>6, <2>1, <2>2, <2>3, <2>5, ExpandedKept DEF Expand
  <2> QED
    BY <1>6, <2>3, <2>4, <2>5 DEF Expand
<1>7. CASE Expanded /\ ~Edit
  <2>1. SameFiles /\ Formatting /\ Checking /\ pc = "start" /\ todo = <<>> /\ args # <<>>
    BY <1>3, <1>7 DEF Expanded
  <2>2. UNCHANGED <<content, args, todo, files, opts, stdin, first, log>>
        /\ pc' \in {"process", "refused"}
    BY <1>7 DEF Expanded, Process, Refuse
  <2> QED
    BY <1>4, <2>1, <2>2, KeptAsBefore
<1>8. CASE Read /\ ~Edit
  <2>1. SameFiles /\ Formatting /\ Checking /\ pc = "process"
    BY <1>3, <1>8 DEF Read
  <2>2. ASSUME NEW text, Over(text, TRUE), UNCHANGED content, text \in {"gone", "broken"}
        PROVE  SameFiles' /\ Formatting' /\ Checking'
    <3>1. ~Differs(text)
      BY <2>2 DEF Differs, Changed, Formatted
    <3> QED
      BY <2>1, <2>2, <3>1, OverKept
  <2>3. CASE /\ src' = TextOf(Current)
             /\ pc' = IF Writes(TextOf(Current)) THEN "write" ELSE "report"
             /\ UNCHANGED <<input, content, todo, files, code, out, log, edits, faults>>
    <3>1. pc' = "report" /\ opts.write => Settled(Current)
      BY <2>3 DEF Writes, Settled, Differs
    <3>2. args # <<>> \/ first = NoRun
      BY <2>1 DEF Checking
    <3>3. pc' \in {"write", "report"}
      BY <2>3
    <3>4. SameFiles'
      BY <1>4, <2>1, <2>3, <3>3
    <3> QED
      BY <2>1, <2>3, <3>1, <3>2, <3>4, KeptAsBefore
  <2> QED
    BY <1>8, <2>2, <2>3 DEF Read
<1>9. CASE Write /\ ~Edit
  <2>1. SameFiles /\ Formatting /\ Checking /\ pc = "write" /\ opts.write
    BY <1>3, <1>9 DEF Write, Kept
  <2>2. CASE Over(src, TRUE) /\ UNCHANGED content
    <3>1. first = NoRun
      BY <2>1 DEF Formatting
    <3> QED
      BY <2>1, <2>2, <3>1, OverKept
  <2>3. CASE /\ content' = [content EXCEPT ![EvalSymlinks(Current)] = Formatted(src)]
             /\ pc' = "report"
             /\ UNCHANGED <<input, todo, files, src, code, out, log, edits, faults>>
    BY <2>1, <2>3, WrittenKept
  <2> QED
    BY <1>9, <2>2, <2>3 DEF Write
<1>10. CASE Report /\ ~Edit
  <2>1. SameFiles /\ Formatting /\ Checking /\ pc = "report"
    BY <1>3, <1>10 DEF Report
  <2>2. PICK failed \in BOOLEAN : Over(src, failed) /\ UNCHANGED content
    BY <1>10 DEF Report
  <2>3. (opts.write => Settled(Current)) /\ (first # NoRun => src = TextOf(Current))
    BY <2>1 DEF Formatting, Checking
  <2> QED
    BY <2>1, <2>2, <2>3, OverKept
<1>11. CASE Finish /\ ~Edit
  <2>1. SameFiles /\ Formatting /\ Checking /\ pc = "process" /\ pc' = "exit"
        /\ UNCHANGED <<content, args, todo, files, opts, stdin, first, log>>
    BY <1>3, <1>11 DEF Finish
  <2>2. args # <<>> \/ first = NoRun
    BY <2>1 DEF Checking
  <2> QED
    BY <1>4, <2>1, <2>2, KeptAsBefore
<1>12. CASE CheckAgain /\ ~Edit
  BY <1>3, <1>12, HandedOver
<1>13. CASE UNCHANGED vars /\ ~Edit
  <2>1. SameFiles /\ Formatting /\ Checking
        /\ UNCHANGED <<content, args, todo, files, opts, stdin, first, log, pc, src>>
    BY <1>3, <1>13 DEF vars
  <2>2. SameFiles'
    BY <1>4, <2>1
  <2>3. Formatting' /\ Checking'
    BY <2>1 DEF Formatting, Checking, ToSet, Failed, NamedBy, Settled, Differs, Skipped, Changed,
                Formatted, TextOf, Current
  <2> QED
    BY <2>2, <2>3
<1> QED
  BY <1>2, <1>5, <1>6, <1>7, <1>8, <1>9, <1>10, <1>11, <1>12, <1>13 DEF Next, Run

(***************************************************************************)
(* What kustofmt -w formatted, kustofmt -l finds nothing to say about, as  *)
(* long as nobody else touches the files in between.                       *)
(***************************************************************************)
THEOREM CheckPasses ==
  Spec => []FormatThenCheckPasses
<1>1. TInv /\ Told /\ Kept => FormatThenCheckPasses
  <2> SUFFICES ASSUME TInv, Told, Kept, pc = "exit", first # NoRun, edits = 0
               PROVE  /\ Names("name") \subseteq Failed(first.log)
                      /\ first.code # 2 => code # 1
    BY DEF FormatThenCheckPasses
  <2>1. SameFiles /\ Checking /\ args # <<>>
    BY DEF Kept, Checking
  <2>2. ASSUME NEW n \in Names("name")  PROVE n \in Failed(first.log)
    <3>1. PICK o \in ToSet(out) : o.kind = "name" /\ o.name = n
      BY DEF Names, ToSet
    <3>2. PICK r \in ToSet(log) : r.name = n /\ Differs(r.text)
      BY <3>1 DEF Told, Lines
    <3>3. ~Settled(n)
      BY <2>1, <3>2 DEF Checking, Settled
    <3>4. n \in ToSet(files)
      <4>1. PICK L, F : log \in Seq(L) /\ files \in Seq(F)
        BY DEF TInv, IInv, Shape
      <4>2. DOMAIN log = DOMAIN files
        BY <4>1 DEF TInv, Shape
      <4> QED
        BY <3>2, <4>2 DEF ToSet, Told, InTurn
    <3> QED
      BY <2>1, <3>3, <3>4 DEF SameFiles, Checking
  <2>3. code = 1 => Names("name") # {}
    BY DEF TInv, IInv, CodeTells, AnyOf, Names
  <2> QED
    BY <2>1, <2>2, <2>3 DEF Checking
<1>2. Spec => []Kept
  BY ToldAlways, InitKept, NextKept, PTL DEF Spec
<1> QED
  BY <1>1, <1>2, ToldAlways, PTL

-----------------------------------------------------------------------------
(***************************************************************************)
(* Paths: what Clean and EvalSymlinks make of one.                         *)
(***************************************************************************)
Path == Seq(Nat)
Plain == Seq(Nat \ {Dot, Up})
Place == Plain \cup {Nowhere}

\* One name further, by the tree.
Onward(place, name) == IF place \in Dirs THEN Target(Step(place, name)) ELSE Nowhere

\* The names of path, one after the other, lead along the places of at.
Moves(at, S, move, path, n) ==
  /\ at \in [0..n -> S] /\ at[0] = <<>>
  /\ \A i \in 1..n : at[i] = move[<<at[i - 1], path[i]>>]

\* The functions that Clean and EvalSymlinks are defined by exist ...
LEMMA MovesExist ==
  ASSUME NEW S, <<>> \in S, NEW move \in [S \X Nat -> S], NEW path \in Path,
         NEW n \in Nat, n = Len(path)
  PROVE  \E at : Moves(at, S, move, path, n)
<1> DEFINE B == {k \in 0..n : \E at : Moves(at, S, move, path, k)}
<1>1. 0 \in B
  <2> DEFINE at == [i \in 0..0 |-> <<>>]
  <2>1. Moves(at, S, move, path, 0)
    BY DEF Moves
  <2> QED
    BY <2>1
<1>2. ASSUME NEW k \in 0..n, k \in B, k < n  PROVE k + 1 \in B
  <2>1. PICK at : Moves(at, S, move, path, k)
    BY <1>2
  <2>2. path[k + 1] \in Nat /\ k \in 0..k /\ k + 1 \in 0..n /\ k \in Nat
    BY <1>2 DEF Path
  <2> DEFINE next == move[<<at[k], path[k + 1]>>]
  <2>3. next \in S
    BY <2>1, <2>2 DEF Moves
  <2> HIDE DEF next
  <2> DEFINE more == [i \in 0..(k + 1) |-> IF i = k + 1 THEN next ELSE at[i]]
  <2>4. more \in [0..(k + 1) -> S]
    BY <2>1, <2>2, <2>3 DEF Moves
  <2>5. \A i \in 0..k : more[i] = at[i]
    BY <2>2
  <2>6. more[k + 1] = next
    BY <2>2
  <2> HIDE DEF more
  <2>7. more[0] = <<>>
    BY <2>1, <2>2, <2>5 DEF Moves
  <2>8. ASSUME NEW i \in 1..(k + 1)  PROVE more[i] = move[<<more[i - 1], path[i]>>]
    <3>1. CASE i \in 1..k
      <4>1. i \in 0..k /\ i - 1 \in 0..k
        BY <2>2, <3>1
      <4> QED
        BY <2>1, <2>5, <3>1, <4>1 DEF Moves
    <3>2. CASE i = k + 1
      <4>1. i - 1 = k
        BY <2>2, <3>2
      <4> QED
        BY <2>2, <2>5, <2>6, <3>2, <4>1 DEF next
    <3> QED
      BY <2>2, <3>1, <3>2
  <2> QED
    BY <2>2, <2>4, <2>7, <2>8 DEF Moves
<1> HIDE DEF B
<1>3. 0..n \subseteq B
  BY <1>1, <1>2, Climb
<1>4. n \in B
  BY <1>3
<1> QED
  BY <1>4 DEF B

\* ... and are the only ones.
MovesWithin(at, S, move, path, n) ==
  at[0] = <<>> /\ \A i \in 1..n : at[i - 1] \in S => at[i] = move[<<at[i - 1], path[i]>>]

LEMMA MovesAlike ==
  ASSUME NEW S, NEW move, NEW path, NEW n \in Nat,
         NEW at, MovesWithin(at, S, move, path, n),
         NEW to, Moves(to, S, move, path, n)
  PROVE  \A i \in 0..n : at[i] = to[i]
<1> DEFINE B == {k \in 0..n : at[k] = to[k]}
<1>1. 0 \in B
  BY DEF Moves, MovesWithin
<1>2. ASSUME NEW k \in 0..n, k \in B, k < n  PROVE k + 1 \in B
  <2>1. k + 1 \in 1..n /\ k + 1 \in 0..n /\ (k + 1) - 1 = k
    BY <1>2
  <2>2. at[k] = to[k] /\ to[k] \in S
    BY <1>2 DEF Moves
  <2>3. at[k + 1] = move[<<at[k], path[k + 1]>>] /\ to[k + 1] = move[<<to[k], path[k + 1]>>]
    BY <2>1, <2>2 DEF Moves, MovesWithin
  <2> QED
    BY <2>1, <2>2, <2>3
<1> HIDE DEF B
<1>3. 0..n \subseteq B
  BY <1>1, <1>2, Climb
<1> QED
  BY <1>3 DEF B

\* A step from a plain path leads to one, and a link to a place.
LEMMA StepIsPlain ==
  ASSUME NEW x \in Plain, NEW name \in Nat
  PROVE  Step(x, name) \in Plain
<1>1. Parent(x) \in Plain
  BY DEF Parent, Front, Plain
<1>2. name \notin {Dot, Up} => Append(x, name) \in Plain
  BY DEF Plain
<1> QED
  BY <1>1, <1>2 DEF Step

LEMMA PlacesAre ==
  /\ \A d \in Dirs : d \in Plain
  /\ \A f \in Files : f \in Plain
  /\ \A l \in DOMAIN Links : l \in Plain /\ Links[l] \in Plain
  /\ <<>> \in Plain /\ <<>> \in Dirs /\ Nowhere \notin Plain
<1>1. Nowhere \notin Plain
  <2>1. Len(Nowhere) = 1 /\ Nowhere[1] = Dot
    BY DEF Nowhere
  <2>2. \A x \in Plain : Len(x) = 1 => x[1] # Dot
    BY DEF Plain
  <2> QED
    BY <2>1, <2>2
<1>2. <<>> \in Plain
  BY DEF Plain
<1> QED
  BY <1>1, <1>2, PlacesAssumption DEF Plain

LEMMA OnwardIsPlace ==
  ASSUME NEW place \in Place, NEW name \in Nat
  PROVE  Onward(place, name) \in Place
<1>1. CASE place \in Dirs
  <2>1. Step(place, name) \in Plain
    BY <1>1, StepIsPlain, PlacesAre
  <2> QED
    BY <1>1, <2>1, PlacesAre DEF Onward, Target, Place
<1>2. CASE place \notin Dirs
  BY <1>2 DEF Onward, Place
<1> QED
  BY <1>1, <1>2

StepMove == [p \in Plain \X Nat |-> Step(p[1], p[2])]
OnwardMove == [p \in Place \X Nat |-> Onward(p[1], p[2])]

LEMMA MoveTypes ==
  /\ <<>> \in Plain /\ StepMove \in [Plain \X Nat -> Plain]
  /\ <<>> \in Place /\ OnwardMove \in [Place \X Nat -> Place]
<1>1. <<>> \in Plain /\ <<>> \in Place
  BY PlacesAre DEF Place
<1>2. \A p \in Plain \X Nat : Step(p[1], p[2]) \in Plain
  BY StepIsPlain
<1>3. \A p \in Place \X Nat : Onward(p[1], p[2]) \in Place
  BY OnwardIsPlace
<1> QED
  BY <1>1, <1>2, <1>3 DEF StepMove, OnwardMove

LEMMA CleanIs ==
  ASSUME NEW path \in Path, NEW n \in Nat, n = Len(path)
  PROVE  \E kept : Moves(kept, Plain, StepMove, path, n) /\ Clean(path) = kept[n]
<1> DEFINE K(f) == [i \in 0..Len(path) |-> IF i = 0 THEN <<>> ELSE Step(f[i - 1], path[i])]
<1>1. PICK g : Moves(g, Plain, StepMove, path, n)
  BY MovesExist, MoveTypes
<1>2. \A x \in Plain, m \in Nat : StepMove[<<x, m>>] = Step(x, m)
  BY DEF StepMove
<1>3. \A i \in 1..n : path[i] \in Nat
  BY DEF Path
<1>4. g = K(g)
  <2>1. ASSUME NEW i \in 0..n  PROVE g[i] = K(g)[i]
    <3>1. CASE i = 0
      BY <1>1, <3>1 DEF Moves
    <3>2. CASE i # 0
      <4>1. i \in 1..n /\ i - 1 \in 0..n
        BY <3>2
      <4>2. g[i] = Step(g[i - 1], path[i])
        BY <1>1, <1>2, <1>3, <4>1 DEF Moves
      <4> QED
        BY <3>2, <4>2
    <3> QED
      BY <3>1, <3>2
  <2>2. DOMAIN K(g) = 0..n /\ g = [i \in 0..n |-> g[i]]
    BY <1>1 DEF Moves
  <2> QED
    BY <2>1, <2>2
<1>5. PICK kept : kept = K(kept) /\ Clean(path) = kept[n]
  <2> DEFINE k == CHOOSE f : f = K(f)
  <2>1. k = K(k)
    BY <1>4
  <2>2. Clean(path) = k[n]
    BY DEF Clean
  <2> HIDE DEF k
  <2> QED
    BY <2>1, <2>2
<1>6. \A i \in 0..n : kept[i] = IF i = 0 THEN <<>> ELSE Step(kept[i - 1], path[i])
  BY <1>5
<1>7. kept[0] = <<>>
  BY <1>6
<1>8. \A i \in 1..n : kept[i - 1] \in Plain => kept[i] = StepMove[<<kept[i - 1], path[i]>>]
  <2>1. \A i \in 1..n : i \in 0..n /\ i # 0
    OBVIOUS
  <2> QED
    BY <1>2, <1>3, <1>6, <2>1
<1>9. \A i \in 0..n : kept[i] = g[i]
  <2>1. MovesWithin(kept, Plain, StepMove, path, n)
    BY <1>7, <1>8 DEF MovesWithin
  <2> QED
    BY <1>1, <2>1, MovesAlike
<1>10. kept[n] = g[n]
  BY <1>9
<1> QED
  BY <1>1, <1>5, <1>10

LEMMA EvalSymlinksIs ==
  ASSUME NEW path \in Path, NEW n \in Nat, n = Len(path)
  PROVE  \E at : Moves(at, Place, OnwardMove, path, n) /\ EvalSymlinks(path) = at[n]
<1> DEFINE K(f) == [i \in 0..Len(path) |-> IF i = 0 THEN <<>> ELSE Onward(f[i - 1], path[i])]
<1>1. PICK g : Moves(g, Place, OnwardMove, path, n)
  BY MovesExist, MoveTypes
<1>2. \A x \in Place, m \in Nat : OnwardMove[<<x, m>>] = Onward(x, m)
  BY DEF OnwardMove
<1>3. \A i \in 1..n : path[i] \in Nat
  BY DEF Path
<1>4. g = K(g)
  <2>1. ASSUME NEW i \in 0..n  PROVE g[i] = K(g)[i]
    <3>1. CASE i = 0
      BY <1>1, <3>1 DEF Moves
    <3>2. CASE i # 0
      <4>1. i \in 1..n /\ i - 1 \in 0..n
        BY <3>2
      <4>2. g[i] = Onward(g[i - 1], path[i])
        BY <1>1, <1>2, <1>3, <4>1 DEF Moves
      <4> QED
        BY <3>2, <4>2
    <3> QED
      BY <3>1, <3>2
  <2>2. DOMAIN K(g) = 0..n /\ g = [i \in 0..n |-> g[i]]
    BY <1>1 DEF Moves
  <2> QED
    BY <2>1, <2>2
<1>5. PICK at : at = K(at) /\ EvalSymlinks(path) = at[n]
  <2> DEFINE k == CHOOSE f : f = K(f)
  <2>1. k = K(k)
    BY <1>4
  <2>2. EvalSymlinks(path) = k[n]
    BY DEF EvalSymlinks, Onward
  <2> HIDE DEF k
  <2> QED
    BY <2>1, <2>2
<1>6. \A i \in 0..n : at[i] = IF i = 0 THEN <<>> ELSE Onward(at[i - 1], path[i])
  BY <1>5
<1>7. at[0] = <<>>
  BY <1>6
<1>8. \A i \in 1..n : at[i - 1] \in Place => at[i] = OnwardMove[<<at[i - 1], path[i]>>]
  <2>1. \A i \in 1..n : i \in 0..n /\ i # 0
    OBVIOUS
  <2> QED
    BY <1>2, <1>3, <1>6, <2>1
<1>9. \A i \in 0..n : at[i] = g[i]
  <2>1. MovesWithin(at, Place, OnwardMove, path, n)
    BY <1>7, <1>8 DEF MovesWithin
  <2> QED
    BY <1>1, <2>1, MovesAlike
<1>10. at[n] = g[n]
  BY <1>9
<1> QED
  BY <1>1, <1>5, <1>10

\* One name more is one step more.
LEMMA OneNameMore ==
  ASSUME NEW path \in Path, NEW name \in Nat
  PROVE  /\ Clean(path) \in Plain /\ EvalSymlinks(path) \in Place
         /\ Clean(Append(path, name)) = Step(Clean(path), name)
         /\ EvalSymlinks(Append(path, name)) = Onward(EvalSymlinks(path), name)
<1>1. PICK n \in Nat : n = Len(path)
  BY DEF Path
<1>2. PICK longer \in Path, m \in Nat :
        /\ longer = Append(path, name) /\ m = n + 1 /\ m = Len(longer)
        /\ longer[m] = name /\ \A i \in 1..n : longer[i] = path[i]
  <2>1. /\ Append(path, name) \in Path /\ Len(Append(path, name)) = n + 1
        /\ Append(path, name)[n + 1] = name /\ \A i \in 1..n : Append(path, name)[i] = path[i]
    BY <1>1 DEF Path
  <2>2. n + 1 \in Nat
    OBVIOUS
  <2> QED
    BY <2>1, <2>2
<1>3. PICK kept : Moves(kept, Plain, StepMove, path, n) /\ Clean(path) = kept[n]
  BY <1>1, CleanIs
<1>4. PICK keptM : Moves(keptM, Plain, StepMove, longer, m) /\ Clean(longer) = keptM[m]
  BY <1>2, CleanIs
<1>5. PICK at : Moves(at, Place, OnwardMove, path, n) /\ EvalSymlinks(path) = at[n]
  BY <1>1, EvalSymlinksIs
<1>6. PICK atM : Moves(atM, Place, OnwardMove, longer, m) /\ EvalSymlinks(longer) = atM[m]
  BY <1>2, EvalSymlinksIs
<1>7. (\A i \in 1..n : i \in 1..m) /\ m \in 1..m /\ m - 1 = n /\ n \in 0..n
  BY <1>2
<1>8. kept[n] \in Plain /\ keptM[m] = StepMove[<<kept[n], name>>]
  <2>1. MovesWithin(keptM, Plain, StepMove, path, n)
    BY <1>2, <1>4, <1>7 DEF Moves, MovesWithin
  <2>2. \A i \in 0..n : keptM[i] = kept[i]
    BY <1>3, <2>1, MovesAlike
  <2>3. keptM[m] = StepMove[<<keptM[n], name>>] /\ kept[n] \in Plain
    BY <1>2, <1>3, <1>4, <1>7 DEF Moves
  <2> QED
    BY <1>7, <2>2, <2>3
<1>9. at[n] \in Place /\ atM[m] = OnwardMove[<<at[n], name>>]
  <2>1. MovesWithin(atM, Place, OnwardMove, path, n)
    BY <1>2, <1>6, <1>7 DEF Moves, MovesWithin
  <2>2. \A i \in 0..n : atM[i] = at[i]
    BY <1>5, <2>1, MovesAlike
  <2>3. atM[m] = OnwardMove[<<atM[n], name>>] /\ at[n] \in Place
    BY <1>2, <1>5, <1>6, <1>7 DEF Moves
  <2> QED
    BY <1>7, <2>2, <2>3
<1> QED
  BY <1>2, <1>3, <1>4, <1>5, <1>6, <1>8, <1>9 DEF StepMove, OnwardMove

LEMMA NoNames ==
  EvalSymlinks(<<>>) = <<>>
<1>1. <<>> \in Path /\ 0 \in Nat /\ Len(<<>>) = 0
  BY DEF Path
<1>2. PICK at : Moves(at, Place, OnwardMove, <<>>, 0) /\ EvalSymlinks(<<>>) = at[0]
  BY <1>1, EvalSymlinksIs
<1> QED
  BY <1>2 DEF Moves

LEMMA FirstAre ==
  ASSUME NEW S, NEW s \in Seq(S), NEW k \in Nat, k <= Len(s)
  PROVE  /\ SubSeq(s, 1, k) \in Seq(S) /\ Len(SubSeq(s, 1, k)) = k
         /\ \A i \in 1..k : SubSeq(s, 1, k)[i] = s[i]
OBVIOUS

LEMMA JoinedOneMore ==
  ASSUME NEW S, NEW s \in Seq(S), NEW u \in Seq(S), NEW e \in S
  PROVE  s \o Append(u, e) = Append(s \o u, e)
OBVIOUS

\* The first k + 1 names are the first k and one more.
LEMMA FirstNames ==
  ASSUME NEW S, NEW s \in Seq(S), NEW k \in Nat, k < Len(s)
  PROVE  /\ SubSeq(s, 1, k) \in Seq(S) /\ Len(SubSeq(s, 1, k)) = k
         /\ s[k + 1] \in S
         /\ SubSeq(s, 1, k + 1) = Append(SubSeq(s, 1, k), s[k + 1])
         /\ SubSeq(s, 1, 0) = <<>> /\ SubSeq(s, 1, Len(s)) = s
<1>1. /\ SubSeq(s, 1, k) \in Seq(S) /\ Len(SubSeq(s, 1, k)) = k
      /\ \A i \in 1..k : SubSeq(s, 1, k)[i] = s[i]
      /\ SubSeq(s, 1, k + 1) \in Seq(S) /\ Len(SubSeq(s, 1, k + 1)) = k + 1
      /\ \A i \in 1..(k + 1) : SubSeq(s, 1, k + 1)[i] = s[i]
      /\ s[k + 1] \in S
  OBVIOUS
<1>2. PICK a \in Seq(S) : a = SubSeq(s, 1, k) /\ Len(a) = k /\ \A i \in 1..k : a[i] = s[i]
  BY <1>1
<1>3. /\ Append(a, s[k + 1]) \in Seq(S) /\ Len(Append(a, s[k + 1])) = k + 1
      /\ \A i \in 1..k : Append(a, s[k + 1])[i] = s[i]
      /\ Append(a, s[k + 1])[k + 1] = s[k + 1]
  BY <1>1, <1>2
<1>4. \A i \in 1..(k + 1) : i \in 1..k \/ i = k + 1
  OBVIOUS
<1>5. \A i \in 1..(k + 1) : SubSeq(s, 1, k + 1)[i] = Append(a, s[k + 1])[i]
  BY <1>1, <1>3, <1>4
<1>6. SubSeq(s, 1, k + 1) = Append(a, s[k + 1])
  BY <1>1, <1>3, <1>5, SameEntries
<1>7. SubSeq(s, 1, 0) = <<>> /\ SubSeq(s, 1, Len(s)) = s
  OBVIOUS
<1> QED
  BY <1>1, <1>2, <1>6, <1>7

\* What follows a prefix.
LEMMA FromIs ==
  ASSUME NEW S, NEW s \in Seq(S), NEW t \in Seq(S), Len(s) <= Len(t)
  PROVE  /\ From(t, s) \in Seq(S) /\ Len(From(t, s)) = Len(t) - Len(s)
         /\ Len(s) \in Nat /\ Len(t) \in Nat /\ Len(t) - Len(s) \in Nat
         /\ \A i \in 1..(Len(t) - Len(s)) : From(t, s)[i] = t[Len(s) + i]
BY DEF From

\* A prefix and what follows it are the whole.
LEMMA Rejoined ==
  ASSUME NEW S, NEW s \in Seq(S), NEW t \in Seq(S), IsPrefix(s, t)
  PROVE  s \o From(t, s) = t
<1>1. Len(s) <= Len(t) /\ \A i \in 1..Len(s) : s[i] = t[i]
  BY PrefixIs
<1>2. PICK u \in Seq(S) : u = From(t, s)
  BY <1>1, FromIs
<1>3. /\ Len(u) = Len(t) - Len(s) /\ Len(s) \in Nat /\ Len(t) \in Nat
      /\ \A i \in 1..(Len(t) - Len(s)) : u[i] = t[Len(s) + i]
  BY <1>1, <1>2, FromIs
<1>4. /\ s \o u \in Seq(S) /\ Len(s \o u) = Len(t)
      /\ \A i \in 1..Len(s) : (s \o u)[i] = s[i]
      /\ \A i \in 1..Len(u) : (s \o u)[Len(s) + i] = u[i]
  BY <1>3, JoinedIs
<1>5. \A i \in 1..Len(t) :
        i \in 1..Len(s) \/ (i - Len(s) \in 1..Len(u) /\ Len(s) + (i - Len(s)) = i)
  BY <1>3
<1>6. \A i \in 1..Len(t) : (s \o u)[i] = t[i]
  BY <1>1, <1>3, <1>4, <1>5
<1> QED
  BY <1>2, <1>4, <1>6, SameEntries

\* The entries of the tree: what is above one is a directory.
Entries == Dirs \cup Files \cup DOMAIN Links

LEMMA AboveIsDir ==
  ASSUME NEW e \in Entries, NEW k \in Nat, k < Len(e)
  PROVE  SubSeq(e, 1, k) \in Dirs
<1>1. PICK n \in Nat : n = Len(e) /\ e \in Plain
  BY PlacesAssumption DEF Entries, Plain
<1> DEFINE B == {j \in 0..(n - 1) : SubSeq(e, 1, (n - 1) - j) \in Dirs}
<1>2. n - 1 \in Nat /\ (n - 1) - k \in 0..(n - 1)
  BY <1>1
<1>3. 0 \in B
  <2>1. e # <<>> /\ Front(e) = SubSeq(e, 1, n - 1)
    BY <1>1, <1>2 DEF Front
  <2>2. Front(e) \in Dirs
    BY <2>1, PlacesAssumption DEF Entries
  <2> QED
    BY <1>2, <2>1, <2>2
<1>4. ASSUME NEW j \in 0..(n - 1), j \in B, j < n - 1  PROVE j + 1 \in B
  <2>1. PICK m \in Nat : m = (n - 1) - j /\ m > 0 /\ m - 1 = (n - 1) - (j + 1) /\ m <= n
    BY <1>2, <1>4
  <2>2. PICK d \in Dirs : d = SubSeq(e, 1, m)
    BY <1>4, <2>1
  <2>3. d # <<>> /\ Front(d) = SubSeq(e, 1, m - 1)
    <3>1. /\ SubSeq(e, 1, m) \in Plain /\ Len(SubSeq(e, 1, m)) = m
          /\ \A i \in 1..m : SubSeq(e, 1, m)[i] = e[i]
      <4>1. m <= Len(e)
        BY <1>1, <2>1
      <4> QED
        BY <1>1, <4>1, FirstAre DEF Plain
    <3>2. /\ SubSeq(d, 1, m - 1) \in Plain /\ Len(SubSeq(d, 1, m - 1)) = m - 1
          /\ \A i \in 1..(m - 1) : SubSeq(d, 1, m - 1)[i] = d[i]
      BY <2>1, <2>2, <3>1 DEF Plain
    <3>3. /\ SubSeq(e, 1, m - 1) \in Plain /\ Len(SubSeq(e, 1, m - 1)) = m - 1
          /\ \A i \in 1..(m - 1) : SubSeq(e, 1, m - 1)[i] = e[i]
      <4>1. m - 1 \in Nat /\ m - 1 <= Len(e)
        BY <1>1, <2>1
      <4> QED
        BY <1>1, <4>1, FirstAre DEF Plain
    <3>4. \A i \in 1..(m - 1) : SubSeq(d, 1, m - 1)[i] = SubSeq(e, 1, m - 1)[i]
      BY <2>1, <2>2, <3>1, <3>2, <3>3
    <3>5. SubSeq(d, 1, m - 1) = SubSeq(e, 1, m - 1)
      BY <3>2, <3>3, <3>4, SameEntries DEF Plain
    <3>6. Front(d) = SubSeq(d, 1, m - 1) /\ d # <<>>
      BY <2>1, <2>2, <3>1 DEF Front
    <3> QED
      BY <3>5, <3>6
  <2>4. Front(d) \in Dirs
    BY <2>3, PlacesAssumption
  <2>5. j + 1 \in 0..(n - 1)
    BY <1>2, <1>4
  <2> QED
    BY <2>1, <2>3, <2>4, <2>5
<1> HIDE DEF B
<1>5. 0..(n - 1) \subseteq B
  BY <1>2, <1>3, <1>4, Climb
<1>6. (n - 1) - k \in B
  BY <1>2, <1>5
<1>7. (n - 1) - ((n - 1) - k) = k
  BY <1>2
<1> QED
  BY <1>6, <1>7 DEF B

\* A directory, as a place, is itself; so is a file.
LEMMA TargetOf ==
  \A e \in Dirs \cup Files : Target(e) = e
BY TreeAssumption DEF Target

(***************************************************************************)
(* A path that leads to a directory leads on to what is below it.          *)
(***************************************************************************)
LEMMA LeadsOn ==
  ASSUME NEW path \in Path, NEW root \in Dirs, EvalSymlinks(path) = root,
         NEW s \in Plain, s # <<>>, root \o s \in Entries
  PROVE  EvalSymlinks(path \o s) = Target(root \o s)
<1>1. PICK n \in Nat : n = Len(s) /\ n > 0
  BY DEF Plain
<1>2. root \in Plain /\ root \o s \in Plain
  <2>1. root \in Plain
    BY PlacesAre
  <2> QED
    BY <2>1, JoinedIs DEF Plain
<1>3. ASSUME NEW k \in Nat, k < n
      PROVE  root \o SubSeq(s, 1, k) \in Dirs
  <2>1. PICK r \in Nat : r = Len(root) /\ r + k < Len(root \o s) /\ r + k \in Nat
    BY <1>1, <1>2, <1>3, JoinedIs DEF Plain
  <2>2. SubSeq(root \o s, 1, r + k) \in Dirs
    BY <2>1, AboveIsDir
  <2>3. SubSeq(root \o s, 1, r + k) = root \o SubSeq(s, 1, k)
    <3>1. PICK e \in Plain, u \in Plain :
            /\ e = root \o s /\ u = SubSeq(s, 1, k)
            /\ Len(u) = k /\ \A i \in 1..k : u[i] = s[i]
      <4>1. /\ SubSeq(s, 1, k) \in Plain /\ Len(SubSeq(s, 1, k)) = k
            /\ \A i \in 1..k : SubSeq(s, 1, k)[i] = s[i]
        BY <1>1, <1>3, FirstAre DEF Plain
      <4> QED
        BY <1>2, <4>1
    <3>2. /\ SubSeq(e, 1, r + k) \in Plain /\ Len(SubSeq(e, 1, r + k)) = r + k
          /\ \A i \in 1..(r + k) : SubSeq(e, 1, r + k)[i] = e[i]
      BY <2>1, <3>1, FirstAre DEF Plain
    <3>3. /\ \A i \in 1..r : e[i] = root[i]
          /\ \A i \in 1..n : e[r + i] = s[i]
      BY <1>1, <1>2, <2>1, <3>1, JoinedIs DEF Plain
    <3>4. /\ root \o u \in Plain /\ Len(root \o u) = r + k
          /\ \A i \in 1..r : (root \o u)[i] = root[i]
          /\ \A i \in 1..k : (root \o u)[r + i] = u[i]
      BY <1>2, <2>1, <3>1, JoinedIs DEF Plain
    <3>5. ASSUME NEW i \in 1..(r + k)  PROVE e[i] = (root \o u)[i]
      <4>1. CASE i \in 1..r
        BY <3>3, <3>4, <4>1
      <4>2. CASE i \notin 1..r
        <5>1. PICK j \in 1..k : i = r + j
          <6>1. i - r \in 1..k /\ i = r + (i - r)
            BY <4>2
          <6> QED
            BY <6>1
        <5>2. j \in 1..n
          BY <1>3
        <5> QED
          BY <3>1, <3>3, <3>4, <5>1, <5>2
      <4> QED
        BY <4>1, <4>2
    <3>6. PICK v \in Plain, w \in Plain : v = SubSeq(e, 1, r + k) /\ w = root \o u
      BY <3>2, <3>4
    <3>7. Len(v) = Len(w) /\ \A i \in 1..Len(v) : v[i] = w[i]
      BY <3>2, <3>4, <3>5, <3>6
    <3>8. v = w
      BY <3>7, SameEntries DEF Plain
    <3> QED
      BY <3>1, <3>6, <3>8
  <2> QED
    BY <2>2, <2>3
<1> DEFINE B == {k \in 0..(n - 1) : EvalSymlinks(path \o SubSeq(s, 1, k)) = root \o SubSeq(s, 1, k)}
<1>4. 0 \in B
  <2>1. SubSeq(s, 1, 0) = <<>> /\ 0 \in 0..(n - 1)
    BY <1>1 DEF Plain
  <2>2. path \o <<>> = path /\ root \o <<>> = root
    BY <1>2 DEF Path, Plain
  <2> QED
    BY <2>1, <2>2
<1>5. ASSUME NEW k \in 0..(n - 1), k \in B
      PROVE  EvalSymlinks(path \o SubSeq(s, 1, k + 1)) = Target(root \o SubSeq(s, 1, k + 1))
  <2>1. k \in Nat /\ k < n
    BY <1>1
  <2>2. /\ SubSeq(s, 1, k) \in Plain /\ s[k + 1] \in Nat \ {Dot, Up}
        /\ SubSeq(s, 1, k + 1) = Append(SubSeq(s, 1, k), s[k + 1])
    BY <1>1, <2>1, FirstNames DEF Plain
  <2>3. PICK u \in Plain, name \in Nat \ {Dot, Up} : u = SubSeq(s, 1, k) /\ name = s[k + 1]
    BY <2>2
  <2>4. path \o u \in Path
    BY <2>3 DEF Path, Plain
  <2>5. path \o Append(u, name) = Append(path \o u, name)
    <3>1. u \in Path /\ name \in Nat
      BY <2>3 DEF Path, Plain
    <3> QED
      BY <3>1, JoinedOneMore DEF Path
  <2>6. root \o Append(u, name) = Append(root \o u, name)
    <3>1. root \in Path /\ u \in Path /\ name \in Nat
      BY <1>2, <2>3 DEF Path, Plain
    <3> QED
      BY <3>1, JoinedOneMore DEF Path
  <2>7. EvalSymlinks(path \o u) = root \o u /\ root \o u \in Dirs
    BY <1>3, <1>5, <2>1, <2>3
  <2>8. EvalSymlinks(Append(path \o u, name)) = Onward(root \o u, name)
    BY <2>3, <2>4, <2>7, OneNameMore
  <2>9. Onward(root \o u, name) = Target(Append(root \o u, name))
    BY <2>3, <2>7 DEF Onward, Step
  <2> QED
    BY <2>2, <2>3, <2>5, <2>6, <2>8, <2>9
<1>6. ASSUME NEW k \in 0..(n - 1), k \in B, k < n - 1  PROVE k + 1 \in B
  <2>1. k + 1 \in 0..(n - 1) /\ k + 1 \in Nat /\ k + 1 < n
    BY <1>1, <1>6
  <2>2. root \o SubSeq(s, 1, k + 1) \in Dirs
    BY <1>3, <2>1
  <2> QED
    BY <1>5, <1>6, <2>1, <2>2, TargetOf
<1>7. n - 1 \in Nat /\ n - 1 \in 0..(n - 1) /\ (n - 1) + 1 = n
  BY <1>1
<1>8. n - 1 \in B
  <2> HIDE DEF B
  <2>1. 0..(n - 1) \subseteq B
    BY <1>4, <1>6, <1>7, Climb
  <2> QED
    BY <1>7, <2>1
<1>9. SubSeq(s, 1, n) = s
  BY <1>1 DEF Plain
<1> QED
  BY <1>5, <1>7, <1>8, <1>9

\* An entry is where its path says, or where it leads to.
LEMMA EntryLeads ==
  ASSUME NEW e \in Entries
  PROVE  EvalSymlinks(e) = Target(e) /\ (e \in Files => EvalSymlinks(e) = e)
<1>1. e \in Plain /\ <<>> \in Path /\ <<>> \in Dirs /\ EvalSymlinks(<<>>) = <<>>
  BY PlacesAre, NoNames DEF Entries, Path
<1>2. CASE e = <<>>
  BY <1>1, <1>2, TargetOf
<1>3. CASE e # <<>>
  <2>1. <<>> \o e = e
    BY <1>1 DEF Plain
  <2> QED
    BY <1>1, <1>3, <2>1, LeadsOn, TargetOf
<1> QED
  BY <1>2, <1>3, TargetOf

(***************************************************************************)
(* A name below a directory, as the caller writes it, leads where the      *)
(* entry leads that the walk found, if the path is a straight one.         *)
(***************************************************************************)
LEMMA ResolvedBelow ==
  ASSUME NEW a \in Path, Straight(a), NEW root \in Dirs, EvalSymlinks(a) = root,
         NEW s \in Plain, s # <<>>, root \o s \in Entries
  PROVE  EvalSymlinks(Clean(a) \o s) = EvalSymlinks(root \o s)
<1>1. PICK x \in Path : x = Clean(a)
  BY OneNameMore DEF Plain, Path
<1>2. EvalSymlinks(x) = root
  BY <1>1 DEF Straight
<1> QED
  BY <1>1, <1>2, LeadsOn, EntryLeads

\* An entry below the root of a walk.
LEMMA WalkedBelow ==
  ASSUME NEW root \in Dirs, NEW e \in Walked(root, Files \cup DOMAIN Links)
  PROVE  /\ root \in Plain /\ e \in Plain /\ e \in Files \cup DOMAIN Links
         /\ IsPrefix(root, e) /\ root # e
         /\ From(e, root) \in Plain /\ root \o From(e, root) = e /\ From(e, root) # <<>>
<1>1. e \in Files \cup DOMAIN Links /\ IsPrefix(root, e) /\ root # e
  BY DEF Walked, IsStrictPrefix
<1>2. root \in Plain /\ e \in Plain
  BY <1>1, PlacesAre
<1>3. From(e, root) \in Plain /\ root \o From(e, root) = e
  BY <1>1, <1>2, FromIs, PrefixIs, Rejoined DEF Plain
<1>4. From(e, root) # <<>>
  <2>1. root \o <<>> = root
    BY <1>2 DEF Plain
  <2> QED
    BY <1>1, <1>3, <2>1
<1> QED
  BY <1>1, <1>2, <1>3, <1>4

\* A name that is collected leads to a file that the path reaches.
LEMMA ReachedBelow ==
  ASSUME NEW a \in Path, Straight(a), NEW p \in Named(a, Files),
         NEW f \in Files, EvalSymlinks(p) = f
  PROVE  Reaches(a, f)
<1>1. CASE EvalSymlinks(a) \notin Dirs
  <2>1. p = a
    BY <1>1 DEF Named
  <2>2. IsPrefix(f, f)
    BY PlacesAre, PrefixIs DEF Plain
  <2> QED
    BY <2>1, <2>2 DEF Reaches
<1>2. CASE EvalSymlinks(a) \in Dirs
  <2>1. PICK root \in Dirs : root = EvalSymlinks(a)
    BY <1>2
  <2>2. PICK e \in Walked(root, Files \cup DOMAIN Links) : p = Clean(a) \o From(e, root)
    BY <1>2, <2>1 DEF Named, Root, UnderRoot
  <2>3. /\ e \in Files \cup DOMAIN Links /\ IsPrefix(root, e)
        /\ From(e, root) \in Plain /\ From(e, root) # <<>> /\ root \o From(e, root) = e
    BY WalkedBelow
  <2>4. EvalSymlinks(e) = f
    BY <2>1, <2>2, <2>3, ResolvedBelow DEF Entries
  <2>5. e \in Files => e = f
    BY <2>4, EntryLeads DEF Entries
  <2> QED
    BY <2>1, <2>3, <2>4, <2>5 DEF Reaches
<1> QED
  BY <1>1, <1>2

\* A directory between the root and a file has a name between theirs.
LEMMA NameBetween ==
  ASSUME NEW S, NEW root \in Seq(S), NEW d \in Seq(S), NEW f \in Seq(S),
         IsPrefix(root, d), IsPrefix(d, f), root # d, d # f
  PROVE  Last(d) \in ToSet(Front(From(f, root)))
<1>1. /\ Len(root) <= Len(d) /\ \A i \in 1..Len(root) : root[i] = d[i]
      /\ Len(d) <= Len(f) /\ \A i \in 1..Len(d) : d[i] = f[i]
      /\ Len(root) \in Nat /\ Len(d) \in Nat /\ Len(f) \in Nat
  BY PrefixIs
<1>2. Len(root) # Len(d) /\ Len(d) # Len(f)
  BY <1>1, SameEntries
<1>3. PICK u \in Seq(S) : u = From(f, root) /\ Len(root) <= Len(f)
  BY <1>1, FromIs
<1>4. Len(u) = Len(f) - Len(root) /\ \A i \in 1..(Len(f) - Len(root)) : u[i] = f[Len(root) + i]
  BY <1>1, <1>3, FromIs
<1>5. /\ Front(u) \in Seq(S) /\ Len(Front(u)) = Len(u) - 1
      /\ \A i \in 1..(Len(u) - 1) : Front(u)[i] = u[i]
  BY <1>1, <1>2, <1>4 DEF Front
<1> DEFINE k == Len(d) - Len(root)
<1>6. k \in 1..(Len(u) - 1) /\ k \in 1..(Len(f) - Len(root)) /\ Len(root) + k = Len(d)
  BY <1>1, <1>2, <1>4
<1>7. Front(u)[k] = f[Len(d)] /\ DOMAIN Front(u) = 1..(Len(u) - 1)
  BY <1>4, <1>5, <1>6
<1>8. d[Len(d)] = f[Len(d)]
  BY <1>1, <1>2
<1> QED
  BY <1>3, <1>6, <1>7, <1>8 DEF Last, ToSet

\* Every manifest below a path that is not below a skipped directory has a name.
LEMMA NamedBelow ==
  ASSUME NEW a \in Path, Straight(a), NEW f \in Files, EvalSymlinks(a) \in Dirs \cup Files,
         IsPrefix(EvalSymlinks(a), f), Last(f) \in YamlNames,
         \A n \in ToSet(Front(From(f, EvalSymlinks(a)))) : n \notin SkippedNames
  PROVE  \E p \in Named(a, Files) : EvalSymlinks(p) = f
<1>1. CASE EvalSymlinks(a) \in Files
  <2>1. PICK g \in Files : g = EvalSymlinks(a)
    BY <1>1
  <2>2. g \in Plain /\ f \in Plain /\ IsPrefix(g, f)
    BY <2>1, PlacesAre
  <2>3. Len(g) <= Len(f) /\ (\A i \in 1..Len(g) : g[i] = f[i]) /\ Len(g) \in Nat /\ Len(f) \in Nat
    BY <2>2, PrefixIs DEF Plain
  <2>4. CASE Len(g) = Len(f)
    BY <1>1, <2>1, <2>2, <2>3, <2>4, SameEntries, TreeAssumption DEF Named, Plain
  <2>5. CASE Len(g) < Len(f)
    <3>1. SubSeq(f, 1, Len(g)) \in Dirs
      BY <2>3, <2>5, AboveIsDir DEF Entries
    <3>2. SubSeq(f, 1, Len(g)) = g
      BY <2>2 DEF IsPrefix, Plain
    <3> QED
      BY <3>1, <3>2, TreeAssumption
  <2> QED
    BY <2>3, <2>4, <2>5
<1>2. CASE EvalSymlinks(a) \in Dirs
  <2>1. PICK root \in Dirs : root = EvalSymlinks(a)
    BY <1>2
  <2>2. root \in Plain /\ f \in Plain /\ root # f /\ IsPrefix(root, f)
    BY <2>1, PlacesAre, TreeAssumption
  <2>3. ASSUME NEW d \in Dirs, IsPrefix(root, d), IsPrefix(d, f)  PROVE ~SkipDir(root, d)
    <3>1. CASE d = root
      BY <3>1 DEF SkipDir
    <3>2. CASE d # root
      <4>1. d \in Plain /\ d # f
        BY PlacesAre, TreeAssumption
      <4>2. Last(d) \in ToSet(Front(From(f, root)))
        BY <2>2, <2>3, <3>2, <4>1, NameBetween DEF Plain
      <4> QED
        BY <2>1, <4>2 DEF SkipDir
    <3> QED
      BY <3>1, <3>2
  <2>4. f \in Walked(root, Files \cup DOMAIN Links)
    BY <2>2, <2>3 DEF Walked, IsStrictPrefix
  <2>5. From(f, root) \in Plain /\ From(f, root) # <<>> /\ root \o From(f, root) = f
    BY <2>4, WalkedBelow
  <2>6. EvalSymlinks(Clean(a) \o From(f, root)) = f
    BY <2>1, <2>5, ResolvedBelow, EntryLeads DEF Entries
  <2>7. Clean(a) \o From(f, root) \in Named(a, Files)
    BY <1>2, <2>1, <2>4 DEF Named, Root, UnderRoot
  <2> QED
    BY <2>6, <2>7
<1> QED
  BY <1>1, <1>2

\* A file is named as the caller would name it.
LEMMA NamedAsGiven ==
  ASSUME NEW a \in Path, NEW p \in Named(a, Files)
  PROVE  p = a \/ IsStrictPrefix(Clean(a), p)
<1>1. CASE EvalSymlinks(a) \notin Dirs
  BY <1>1 DEF Named
<1>2. CASE EvalSymlinks(a) \in Dirs
  <2>1. PICK root \in Dirs : root = EvalSymlinks(a)
    BY <1>2
  <2>2. PICK e \in Walked(root, Files \cup DOMAIN Links) : p = Clean(a) \o From(e, root)
    BY <1>2, <2>1 DEF Named, Root, UnderRoot
  <2>3. PICK x \in Plain, s \in Plain : x = Clean(a) /\ s = From(e, root) /\ s # <<>>
    <3>1. From(e, root) \in Plain /\ From(e, root) # <<>>
      BY WalkedBelow
    <3>2. Clean(a) \in Plain
      BY OneNameMore
    <3> QED
      BY <3>1, <3>2
  <2>4. Len(s) \in Nat \ {0}
    BY <2>3 DEF Plain
  <2>5. PICK q \in Plain : q = x \o s
    BY JoinedIs DEF Plain
  <2>6. Len(q) = Len(x) + Len(s) /\ Len(x) \in Nat /\ \A i \in 1..Len(x) : q[i] = x[i]
    BY <2>5, JoinedIs DEF Plain
  <2>7. Len(x) <= Len(q) /\ x # q
    BY <2>4, <2>6
  <2>8. IsPrefix(x, q)
    BY <2>6, <2>7, PrefixIs DEF Plain
  <2> QED
    BY <2>2, <2>3, <2>5, <2>7, <2>8 DEF IsStrictPrefix
<1> QED
  BY <1>1, <1>2

-----------------------------------------------------------------------------
(***************************************************************************)
(* Collecting: a path is there before it is expanded, or nothing is done;  *)
(* and a name that was seen is not taken again.                            *)
(***************************************************************************)
There(path) == EvalSymlinks(path) \in Dirs \cup Files

Collecting ==
  /\ args \in Seq(Path) /\ todo \in Seq(Path)
  /\ IsInjective(files)
  /\ pc = "start" => \A a \in ToSet(args) : a \in ToSet(todo) \/ There(a)
  /\ args # <<>> /\ pc \notin {"start", "refused"} => \A a \in ToSet(args) : There(a)

\* Taking what is not there yet takes nothing twice.
LEMMA AddedOnce ==
  ASSUME NEW S, NEW fs \in Seq(S), IsInjective(fs), NEW path,
         NEW more \in Added(fs, path, Present)
  PROVE  IsInjective(more)
<1> DEFINE N == Named(path, Present) \ ToSet(fs)
           n == Cardinality(N)
<1>1. IsFiniteSet(N)
  <2>1. N \in SUBSET Named(path, Present)
    OBVIOUS
  <2> HIDE DEF N
  <2> QED
    BY <2>1, NamedIsFinite, FS_Subset
<1>2. n \in Nat
  BY <1>1, FS_CardinalityType
<1>3. PICK w \in Walks(N) : more = fs \o w
  BY DEF Added
<1>4. w \in [1..n -> N] /\ IsInjective(w)
  BY <1>3 DEF Walks, Bijection, Injection
<1>5. \A e \in N : e \notin ToSet(fs)
  OBVIOUS
<1> HIDE DEF N, n
<1>6. w \in Seq(N) /\ DOMAIN w = 1..n /\ Len(w) = n
  BY <1>2, <1>4, TableIsSeq
<1>7. fs \in Seq(S \cup N) /\ w \in Seq(S \cup N)
  BY <1>6
<1>8. /\ DOMAIN more = 1..(Len(fs) + n) /\ Len(fs) \in Nat /\ DOMAIN fs = 1..Len(fs)
      /\ \A i \in 1..Len(fs) : more[i] = fs[i]
      /\ \A i \in 1..(Len(fs) + n) : i \notin 1..Len(fs) =>
           i - Len(fs) \in 1..n /\ more[i] = w[i - Len(fs)]
  <2>1. more \in Seq(S \cup N) /\ Len(more) = Len(fs) + n /\ Len(fs) \in Nat
    BY <1>3, <1>6, <1>7, JoinedIs
  <2>2. DOMAIN more = 1..(Len(fs) + n) /\ DOMAIN fs = 1..Len(fs)
    BY <2>1
  <2>3. /\ \A i \in 1..Len(fs) : more[i] = fs[i]
        /\ \A i \in 1..n : more[Len(fs) + i] = w[i]
    BY <1>3, <1>6, <1>7, JoinedIs
  <2>4. \A i \in 1..(Len(fs) + n) : i \notin 1..Len(fs) =>
          i - Len(fs) \in 1..n /\ Len(fs) + (i - Len(fs)) = i
    BY <1>2, <2>1
  <2> QED
    BY <2>1, <2>2, <2>3, <2>4
<1>9. ASSUME NEW i \in DOMAIN more, NEW j \in DOMAIN more, more[i] = more[j]  PROVE i = j
  <2>1. CASE i \in 1..Len(fs) /\ j \in 1..Len(fs)
    BY <1>8, <1>9, <2>1 DEF IsInjective
  <2>2. CASE i \notin 1..Len(fs) /\ j \notin 1..Len(fs)
    <3>1. i - Len(fs) = j - Len(fs)
      BY <1>4, <1>6, <1>8, <1>9, <2>2 DEF IsInjective
    <3> QED
      BY <1>2, <1>8, <3>1
  <2>3. ASSUME NEW k \in DOMAIN more, NEW m \in DOMAIN more,
               k \in 1..Len(fs), m \notin 1..Len(fs)
        PROVE  more[k] # more[m]
    <3>1. more[k] \in ToSet(fs)
      BY <1>8, <2>3 DEF ToSet
    <3>2. more[m] \in N
      BY <1>4, <1>8, <2>3
    <3> QED
      BY <1>5, <3>1, <3>2
  <2> QED
    BY <1>9, <2>1, <2>2, <2>3
<1> QED
  BY <1>9 DEF IsInjective

LEMMA InitCollecting ==
  Init => Collecting
<1> SUFFICES ASSUME Init PROVE Collecting
  OBVIOUS
<1>1. IsInjective(files)
  <2>1. DOMAIN <<>> = {}
    OBVIOUS
  <2> QED
    BY <2>1 DEF Init, IsInjective
<1> QED
  BY <1>1 DEF Init, Collecting, Path

\* A step that only goes on.
LEMMA CollectedAsBefore ==
  ASSUME Collecting, UNCHANGED <<args, todo, files>>, pc' = "start" => pc = "start",
         args # <<>> /\ pc' \notin {"start", "refused"} =>
           pc \notin {"start", "refused"} \/ (pc = "start" /\ todo = <<>>)
  PROVE  Collecting'
<1>1. ToSet(<<>>) = {}
  BY DEF ToSet
<1>2. /\ ToSet(args)' = ToSet(args) /\ ToSet(todo)' = ToSet(todo)
      /\ IsInjective(files)' <=> IsInjective(files)
      /\ \A a : There(a)' <=> There(a)
  BY DEF ToSet, IsInjective, There, EvalSymlinks, Step, Parent, Front, Target, Nowhere
<1> QED
  BY <1>1, <1>2 DEF Collecting

LEMMA NextCollecting ==
  TInv /\ Collecting /\ [Next]_vars => Collecting'
<1> SUFFICES ASSUME TInv, Collecting, [Next]_vars PROVE Collecting'
  OBVIOUS
<1> USE DEF input
<1>1. CASE Filter
  <2>1. UNCHANGED <<args, todo>> /\ args = <<>> /\ pc' \in {"process", "refused"}
        /\ files' \in {<<Stdin>>, files}
    BY <1>1 DEF Filter, Process, Refuse
  <2>2. IsInjective(<<Stdin>>)
    BY DEF IsInjective
  <2> QED
    BY <2>1, <2>2 DEF Collecting
<1>2. CASE Expand
  <2>1. pc = "start" /\ todo # <<>>
    BY <1>2 DEF Expand
  <2>2. CASE Refuse
    BY <2>1, <2>2, CollectedAsBefore DEF Refuse
  <2>3. CASE /\ Exists(Head(todo)) /\ files' \in Added(files, Head(todo), Present)
             /\ todo' = Tail(todo) /\ UNCHANGED <<args, pc>>
    <3>1. PICK S : files \in Seq(S)
      BY DEF TInv, Shape
    <3>2. IsInjective(files')
      BY <2>3, <3>1, AddedOnce DEF Collecting
    <3>3. todo' \in Seq(Path) /\ ToSet(todo) = {Head(todo)} \cup ToSet(todo')
      BY <2>1, <2>3, HeadAndTail DEF Collecting
    <3>4. There(Head(todo))
      BY <2>3 DEF Exists, There, Present
    <3>5. \A a \in ToSet(args) : a \in ToSet(todo') \/ There(a)
      BY <2>1, <3>3, <3>4 DEF Collecting
    <3>6. ToSet(args') = ToSet(args)
      BY <2>3
    <3> QED
      BY <2>1, <2>3, <3>2, <3>3, <3>5, <3>6 DEF Collecting
  <2> QED
    BY <1>2, <2>2, <2>3 DEF Expand
<1>3. CASE Expanded
  BY <1>3, CollectedAsBefore DEF Expanded, Process, Refuse
<1>4. CASE Read \/ Write \/ Report \/ Finish
  <2>1. UNCHANGED <<args, todo, files>> /\ pc \in {"process", "write", "report"}
        /\ pc' \in {"process", "write", "report", "exit"}
    BY <1>4 DEF Read, Write, Report, Finish, Over
  <2> QED
    BY <2>1, CollectedAsBefore
<1>5. CASE CheckAgain
  <2>1. args' = args /\ todo' = args /\ files' = <<>> /\ pc' = "start"
    BY <1>5 DEF CheckAgain
  <2>2. IsInjective(<<>>)
    <3>1. DOMAIN <<>> = {}
      OBVIOUS
    <3> QED
      BY <3>1 DEF IsInjective
  <2> QED
    BY <2>1, <2>2 DEF Collecting
<1>6. CASE Edit \/ UNCHANGED vars
  BY <1>6, CollectedAsBefore DEF Edit, vars
<1> QED
  BY <1>1, <1>2, <1>3, <1>4, <1>5, <1>6 DEF Next, Run

LEMMA CollectingAlways ==
  Spec => [](TInv /\ Told /\ Kept /\ Collecting)
<1>1. Spec => []Kept
  BY ToldAlways, InitKept, NextKept, PTL DEF Spec
<1>2. Spec => []Collecting
  BY ToldAlways, InitCollecting, NextCollecting, PTL DEF Spec
<1> QED
  BY <1>1, <1>2, ToldAlways, PTL

(***************************************************************************)
(* Every manifest below a straight path is named; each name is as the      *)
(* caller would write it, and none is taken twice.                         *)
(***************************************************************************)
THEOREM CollectsAll ==
  Spec => []CollectIsComplete
<1>1. TInv /\ Kept /\ Collecting => CollectIsComplete
  <2> SUFFICES ASSUME TInv, Kept, Collecting, pc = "process", args # <<>>, edits = 0
               PROVE  CollectIsComplete
    BY DEF CollectIsComplete
  <2>1. ToSet(files) = NamedBy(args) /\ IsInjective(files)
    BY DEF Kept, SameFiles, Collecting
  <2>2. \A a \in ToSet(args) : a \in Path /\ There(a)
    <3>1. ToSet(args) \subseteq Path
      BY DEF Collecting, ToSet
    <3> QED
      BY <3>1 DEF Collecting
  <2>3. ASSUME NEW a \in ToSet(args), NEW f \in Files, Straight(a),
               IsPrefix(EvalSymlinks(a), f), Last(f) \in YamlNames,
               \A n \in ToSet(Front(From(f, EvalSymlinks(a)))) : n \notin SkippedNames
        PROVE  \E p \in ToSet(files) : EvalSymlinks(p) = f
    <3>1. PICK p \in Named(a, Files) : EvalSymlinks(p) = f
      BY <2>2, <2>3, NamedBelow DEF There
    <3> QED
      BY <2>1, <3>1 DEF NamedBy
  <2>4. ASSUME NEW p \in ToSet(files)
        PROVE  \E a \in ToSet(args) : p = a \/ IsStrictPrefix(Clean(a), p)
    BY <2>1, <2>2, NamedAsGiven DEF NamedBy
  <2> QED
    BY <2>1, <2>3, <2>4 DEF CollectIsComplete
<1> QED
  BY <1>1, CollectingAlways, PTL

-----------------------------------------------------------------------------
(***************************************************************************)
(* Rewriting: a file that differs from what was given was formatted, by a  *)
(* run that was told to write; and the paths, if straight, lead to it.     *)
(***************************************************************************)
Reached(f) ==
  (\A a \in ToSet(args) : Straight(a)) => \E a \in ToSet(args) : Reaches(a, f)

Asked(f) ==
  /\ content[f] = Formatted(given[f])
  /\ first # NoRun \/ (opts.write /\ files # <<>> /\ pc # "start")
  /\ IsSOPS(given[f]) => opts.includeSOPS
  /\ Reached(f)

Rewriting ==
  /\ pc = "write" => ~Skipped(src)
  /\ edits = 0 => \A f \in Files : content[f] = given[f] \/ Asked(f)

\* Which files the paths reach depends on nothing that changes.
LEMMA SameReach ==
  ASSUME NEW f, UNCHANGED args
  PROVE  Reached(f)' <=> Reached(f)
<1>1. ToSet(args)' = ToSet(args)
  BY DEF ToSet
<1>2. \A p : EvalSymlinks(p)' = EvalSymlinks(p) /\ Clean(p)' = Clean(p)
  BY DEF EvalSymlinks, Clean, Step, Parent, Front, Target, Nowhere
<1>3. \A a : (Reaches(a, f)' <=> Reaches(a, f)) /\ (Straight(a)' <=> Straight(a))
  BY <1>2 DEF Reaches, Straight
<1> QED
  BY <1>1, <1>3 DEF Reached

\* Nothing is written, and the run is not over.
LEMMA RewritingAsBefore ==
  ASSUME \A f \in Files : content[f] = given[f] \/ Asked(f),
         UNCHANGED <<content, given, args, opts, first>>,
         pc = "start" \/ (pc' # "start" /\ files' = files)
  PROVE  \A f \in Files : content'[f] = given'[f] \/ Asked(f)'
<1> SUFFICES ASSUME NEW f \in Files, content[f] # given[f]  PROVE Asked(f)'
  OBVIOUS
<1>1. Asked(f) /\ UNCHANGED <<content, given, args, opts, first>>
  OBVIOUS
<1>2. Reached(f)' <=> Reached(f)
  BY SameReach
<1>3. IsSOPS(given[f])' <=> IsSOPS(given[f])
  BY DEF IsSOPS
<1>4. Formatted(given[f])' = Formatted(given[f])
  BY DEF Formatted
<1> QED
  BY <1>1, <1>2, <1>3, <1>4 DEF Asked

\* The file that is written is one of those a path leads to.
LEMMA WriteAsked ==
  ASSUME TInv, Kept, Collecting, Rewriting, pc = "write", edits = 0, opts.write,
         content' = [content EXCEPT ![EvalSymlinks(Current)] = Formatted(src)],
         pc' = "report", UNCHANGED <<given, args, opts, first, files>>
  PROVE  \A f \in Files : content'[f] = given'[f] \/ Asked(f)'
<1>1. TypeOK /\ src \in Texts /\ TextOf(Current) = src /\ args # <<>> /\ first = NoRun
  BY DEF TInv, Shape, Kept, Formatting
<1>2. PICK target \in Files : target = EvalSymlinks(Current)
  <2>1. src # "gone"
    BY <1>1 DEF Texts
  <2> QED
    BY <1>1, <2>1, TextTypes
<1>3. content[target] = src /\ content \in [Files -> Texts \cup {"gone"}]
      /\ given \in [Files -> Texts]
  BY <1>1, <1>2 DEF TextOf, TypeOK
<1>4. \A f \in Files : content'[f] = IF f = target THEN Formatted(src) ELSE content[f]
  BY <1>2, <1>3
<1>5. Len(log) < Len(files) /\ files # <<>> /\ Current \in ToSet(files)
  <2>1. PICK L, F : log \in Seq(L) /\ files \in Seq(F)
    BY DEF TInv, IInv, Shape
  <2>2. Len(log) < Len(files) /\ Len(log) \in Nat /\ Len(files) \in Nat
    BY <2>1 DEF TInv, Shape
  <2>3. Len(log) + 1 \in DOMAIN files /\ files # <<>>
    BY <2>1, <2>2
  <2> QED
    BY <2>2, <2>3 DEF Current, ToSet
<1>6. Reached(target)
  <2>1. PICK a \in ToSet(args) : Current \in Named(a, Files)
    BY <1>1, <1>5 DEF Kept, SameFiles, NamedBy
  <2>2. a \in Path
    BY <2>1 DEF Collecting, ToSet
  <2> QED
    BY <1>2, <2>1, <2>2, ReachedBelow DEF Reached
<1>7. /\ Formatted(src) = Formatted(given[target])
      /\ IsSOPS(given[target]) => opts.includeSOPS
  <2>1. CASE src = given[target]
    BY <2>1 DEF Rewriting, Skipped
  <2>2. CASE src # given[target]
    <3>1. Asked(target)
      BY <1>3, <2>2 DEF Rewriting
    <3>2. src = Formatted(given[target]) /\ given[target] \in Texts
      BY <1>3, <3>1 DEF Asked
    <3>3. Formatted(Formatted(given[target])) = Formatted(given[target])
      BY <3>2 DEF Formatted, Texts
    <3> QED
      BY <3>1, <3>2, <3>3 DEF Asked
  <2> QED
    BY <2>1, <2>2
<1>8. ASSUME NEW f \in Files, content'[f] # given'[f]  PROVE Asked(f)'
  <2>1. content'[f] = Formatted(given[f]) /\ (IsSOPS(given[f]) => opts.includeSOPS)
        /\ Reached(f)
    <3>1. CASE f = target
      BY <1>4, <1>6, <1>7, <3>1
    <3>2. CASE f # target
      <4>1. Asked(f) /\ content'[f] = content[f]
        BY <1>4, <1>8, <3>2 DEF Rewriting
      <4> QED
        BY <4>1 DEF Asked
    <3> QED
      BY <3>1, <3>2
  <2>2. Reached(f)' <=> Reached(f)
    BY SameReach
  <2>3. (IsSOPS(given[f])' <=> IsSOPS(given[f])) /\ Formatted(given[f])' = Formatted(given[f])
    BY DEF IsSOPS, Formatted
  <2> QED
    BY <1>5, <2>1, <2>2, <2>3 DEF Asked
<1> QED
  BY <1>8

LEMMA InitRewriting ==
  Init => Rewriting
BY DEF Init, Rewriting

LEMMA NextRewriting ==
  TInv /\ Kept /\ Collecting /\ Rewriting /\ [Next]_vars => Rewriting'
<1> SUFFICES ASSUME TInv, Kept, Collecting, Rewriting, [Next]_vars PROVE Rewriting'
  OBVIOUS
<1> USE DEF input
<1>1. pc' = "write" => ~Skipped(src)'
  <2>1. ASSUME pc # "write", pc' = "write"
        PROVE  Read /\ Writes(TextOf(Current)) /\ src' = TextOf(Current) /\ UNCHANGED opts
    BY <2>1 DEF Next, Run, Filter, Expand, Expanded, Read, Over, Write, Report, Finish,
                CheckAgain, Edit, vars, Process, Refuse
  <2>2. ASSUME pc = "write", pc' = "write" PROVE UNCHANGED <<opts, src>>
    BY <2>2 DEF Next, Run, Filter, Expand, Expanded, Read, Over, Write, Report, Finish,
                CheckAgain, Edit, vars, Process, Refuse
  <2> QED
    BY <2>1, <2>2 DEF Writes, Rewriting, Skipped, IsSOPS
<1> SUFFICES ASSUME edits' = 0 PROVE \A f \in Files : content'[f] = given'[f] \/ Asked(f)'
  BY <1>1 DEF Rewriting
<1>2. ~Edit
  BY DEF Edit, TInv, TypeOK
<1>3. edits = 0
  BY <1>2 DEF Next, Run, Filter, Expand, Expanded, Read, Write, Report, Finish,
              CheckAgain, vars, Process, Fault, NoFault
<1>4. \A f \in Files : content[f] = given[f] \/ Asked(f)
  BY <1>3 DEF Rewriting
<1>5. CASE Filter \/ Expand \/ Expanded
  <2>1. pc = "start" /\ UNCHANGED <<content, given, args, opts, first>>
    BY <1>5 DEF Filter, Expand, Expanded, Process, Refuse
  <2> QED
    BY <1>4, <2>1, RewritingAsBefore
<1>6. CASE Read \/ Report \/ Finish
  <2>1. UNCHANGED <<content, given, args, opts, first, files>> /\ pc' # "start"
    BY <1>6 DEF Read, Report, Finish, Over
  <2> QED
    BY <1>4, <2>1, RewritingAsBefore
<1>7. CASE Write
  <2>1. UNCHANGED <<given, args, opts, first, files>> /\ pc = "write" /\ pc' # "start"
    BY <1>7 DEF Write, Over
  <2>2. CASE UNCHANGED content
    BY <1>4, <2>1, <2>2, RewritingAsBefore
  <2>3. CASE content' = [content EXCEPT ![EvalSymlinks(Current)] = Formatted(src)] /\ pc' = "report"
    <3>1. opts.write
      BY <2>1 DEF Kept
    <3> QED
      BY <1>3, <2>1, <2>3, <3>1, WriteAsked
  <2> QED
    BY <1>7, <2>2, <2>3 DEF Write
<1>8. CASE CheckAgain
  <2>1. /\ pc = "exit" /\ opts' = [opts EXCEPT !.list = TRUE, !.write = FALSE, !.diff = FALSE]
        /\ first' = [code |-> code, log |-> log]
        /\ UNCHANGED <<content, given, args>>
    BY <1>8 DEF CheckAgain
  <2>2. opts \in Options
    BY DEF TInv, TypeOK
  <2>3. opts'.includeSOPS = opts.includeSOPS
    BY <2>1, <2>2 DEF Options
  <2>4. ASSUME NEW f \in Files, content[f] # given[f]  PROVE Asked(f)'
    <3>1. Asked(f)
      BY <1>4, <2>4
    <3>2. first' # NoRun
      <4>1. opts.write /\ first = NoRun
        BY <1>3, <1>8 DEF CheckAgain, Kept, Formatting
      <4>2. files # <<>>
        BY <3>1, <4>1 DEF Asked
      <4>3. PICK L, F : log \in Seq(L) /\ files \in Seq(F)
        BY DEF TInv, IInv, Shape
      <4>4. Len(log) = Len(files)
        BY <2>1 DEF TInv, Shape
      <4>5. log # <<>>
        BY <4>2, <4>3, <4>4
      <4> QED
        BY <2>1, <4>5 DEF NoRun
    <3>3. Reached(f)' <=> Reached(f)
      BY <2>1, SameReach
    <3>4. (IsSOPS(given[f])' <=> IsSOPS(given[f])) /\ Formatted(given[f])' = Formatted(given[f])
      BY <2>1 DEF IsSOPS, Formatted
    <3> QED
      BY <2>1, <2>3, <3>1, <3>2, <3>3, <3>4 DEF Asked
  <2> QED
    BY <2>1, <2>4
<1>9. CASE UNCHANGED vars
  <2>1. UNCHANGED <<content, given, args, opts, first, files, pc>>
    BY <1>9 DEF vars
  <2>2. pc = "start" \/ (pc' # "start" /\ files' = files)
    BY <2>1
  <2> QED
    BY <1>4, <2>1, <2>2, RewritingAsBefore
<1> QED
  BY <1>2, <1>5, <1>6, <1>7, <1>8, <1>9 DEF Next, Run

(***************************************************************************)
(* Nothing is rewritten that nobody asked for, as far as straight paths    *)
(* go.                                                                     *)
(***************************************************************************)
THEOREM RewritesOnlyAsked ==
  Spec => []OnlyAskedIsRewritten
<1>1. Rewriting => OnlyAskedIsRewritten
  BY DEF Rewriting, Asked, Reached, OnlyAskedIsRewritten
<1>2. Spec => []Rewriting
  BY CollectingAlways, InitRewriting, NextRewriting, PTL DEF Spec
<1> QED
  BY <1>1, <1>2, PTL
=============================================================================
