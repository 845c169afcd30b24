-------------------------------- MODULE Hunks --------------------------------
(***************************************************************************)
(* format.Diff: the edit script is read once, edit by edit, and grouped    *)
(* into hunks with up to Context unchanged lines on either side.           *)
(***************************************************************************)
EXTENDS EditScript, FiniteSets

CONSTANTS Context,             \* contextLines
          None                 \* no hunk is open

ASSUME ContextAssumption == Context \in Nat \ {0}

VARIABLES taken,               \* how much of the script was read
          cur, pending,        \* the open hunk; unchanged lines held back
          out                  \* the hunks that are closed

grouped == <<taken, cur, pending, out>>
vars == <<files, pc, edits, oldLine, newLine, tail, grouped>>

Init == ScriptInit /\ taken = 0 /\ cur = None /\ pending = <<>> /\ out = <<>>

-----------------------------------------------------------------------------
NoDifference ==
  /\ pc = "start" /\ old = new
  /\ pc' = "done"
  /\ UNCHANGED <<files, edits, oldLine, newLine, tail, grouped>>

Start ==
  /\ pc = "start" /\ old # new
  /\ pc' = "trim"
  /\ UNCHANGED <<files, edits, oldLine, newLine, tail, grouped>>

\* The script is complete, and read from its beginning.
Group ==
  /\ pc \in {"walk", "rest"} /\ oldLine = Len(OldLines) /\ newLine = Len(NewLines)
  /\ pc' = "group" /\ oldLine' = 0 /\ newLine' = 0
  /\ UNCHANGED <<files, edits, tail, grouped>>

\* The next edit of the script.
Take(kinds) ==
  /\ pc = "group" /\ taken < Len(edits) /\ edits[taken + 1].kind \in kinds
  /\ taken' = taken + 1
  /\ Pass(edits[taken + 1].kind)
  /\ UNCHANGED <<files, pc, edits, tail>>

Held == Append(pending, edits[taken + 1])
LastOf(s, n) == IF Len(s) > n THEN SubSeq(s, Len(s) - n + 1, Len(s)) ELSE s
FirstOf(s, n) == IF Len(s) > n THEN SubSeq(s, 1, n) ELSE s

Extended(h, context) ==
  [h EXCEPT !.edits = @ \o context,
            !.oldCount = @ + Len(context), !.newCount = @ + Len(context)]

\* A defect: context is held without limit.
HoldAll ==
  /\ Take({"equal"}) /\ cur = None
  /\ pending' = Held
  /\ UNCHANGED <<cur, out>>

Hold ==
  /\ Take({"equal"}) /\ cur = None
  /\ pending' = LastOf(Held, Context)
  /\ UNCHANGED <<cur, out>>

Follow ==
  /\ Take({"equal"}) /\ cur # None
  /\ Len(Held) <= 2 * Context
  /\ pending' = Held
  /\ UNCHANGED <<cur, out>>

\* A defect: the hunk is never closed before the end.
SplitNever ==
  /\ Take({"equal"}) /\ cur # None
  /\ Len(Held) > 2 * Context
  /\ pending' = Held
  /\ UNCHANGED <<cur, out>>

\* Far enough from the last change to close the hunk.
Split ==
  /\ Take({"equal"}) /\ cur # None
  /\ Len(Held) > 2 * Context
  /\ out' = Append(out, Extended(cur, SubSeq(Held, 1, Context)))
  /\ cur' = None
  /\ pending' = LastOf(Held, Context)

NewHunk == [oldStart |-> oldLine - Len(pending), oldCount |-> 0,
            newStart |-> newLine - Len(pending), newCount |-> 0, edits |-> <<>>]

\* A defect: a hunk starts at its first change, but carries the context before it.
ChangeStartsLate ==
  /\ Take({"delete", "insert"})
  /\ LET h == Extended(IF cur = None THEN [NewHunk EXCEPT !.oldStart = oldLine, !.newStart = newLine]
                                     ELSE cur, pending) IN
     cur' = [h EXCEPT !.edits = Append(@, edits[taken + 1]),
                      !.oldCount = @ + oldLine' - oldLine,
                      !.newCount = @ + newLine' - newLine]
  /\ pending' = <<>>
  /\ UNCHANGED out

Change ==
  /\ Take({"delete", "insert"})
  /\ LET h == Extended(IF cur = None THEN NewHunk ELSE cur, pending) IN
     cur' = [h EXCEPT !.edits = Append(@, edits[taken + 1]),
                      !.oldCount = @ + (oldLine' - oldLine),
                      !.newCount = @ + (newLine' - newLine)]
  /\ pending' = <<>>
  /\ UNCHANGED out

\* The hunk left open at the end of the file.
Finish ==
  /\ pc = "group" /\ taken = Len(edits)
  /\ pc' = "done"
  /\ out' = IF cur = None THEN out ELSE Append(out, Extended(cur, FirstOf(pending, Context)))
  /\ cur' = None /\ pending' = <<>>
  /\ UNCHANGED <<files, edits, oldLine, newLine, tail, taken>>

Next ==
  \/ NoDifference \/ Start \/ (Script /\ UNCHANGED grouped)
  \/ Group \/ Hold \/ Follow \/ Split \/ Change \/ Finish

Spec == Init /\ [][Next]_vars

-----------------------------------------------------------------------------
\* rng: the first line and the number of lines; an empty range names the line before it.
Rng(start, count) == IF count = 0 THEN <<start, 0>> ELSE <<start + 1, count>>

\* What a reader of the patch makes of a header: the lines before the hunk.
LinesBefore(range) == IF range[2] = 0 THEN range[1] ELSE range[1] - 1

OldRange(h) == Rng(h.oldStart, h.oldCount)
NewRange(h) == Rng(h.newStart, h.newCount)

Edit == [kind : Kinds, line : [text : Texts, noEOL : BOOLEAN]]
Hunk == [oldStart : Nat, oldCount : Nat, newStart : Nat, newCount : Nat, edits : Seq(Edit)]

ASSUME NoneAssumption == None \notin Hunk

TypeOK ==
  /\ old \in Files /\ new \in Files
  /\ pc \in {"start", "trim", "walk", "rest", "group", "done"}
  /\ edits \in Seq(Edit) /\ taken \in 0..Len(edits)
  /\ oldLine \in 0..Len(old.texts) /\ newLine \in 0..Len(new.texts)
  /\ tail \in 0..Len(old.texts) /\ tail \in 0..Len(new.texts)
  /\ cur \in Hunk \cup {None} /\ out \in Seq(Hunk)
  /\ pending \in Seq({e \in Edit : e.kind = "equal"})
  /\ Len(pending) <= IF cur = None THEN Context ELSE 2 * Context

\* How many of the first k edits are of another kind.
Passed(es, k, kind) == Cardinality({i \in 1..k : es[i].kind # kind})

(***************************************************************************)
(* The patch of -d is one that a patch tool can apply: every line of a     *)
(* hunk is found in the old file where the header says, or put in the new  *)
(* one where its header says, and outside the hunks the files are the      *)
(* same.  A difference in the final newline alone counts as a line.        *)
(***************************************************************************)
Gap(lines, from, to) == SubSeq(lines, from + 1, to)

BeginOld(i) == IF i > Len(out) THEN Len(OldLines) ELSE LinesBefore(OldRange(out[i]))
BeginNew(i) == IF i > Len(out) THEN Len(NewLines) ELSE LinesBefore(NewRange(out[i]))
EndOld(i) == IF i = 0 THEN 0 ELSE BeginOld(i) + OldRange(out[i])[2]
EndNew(i) == IF i = 0 THEN 0 ELSE BeginNew(i) + NewRange(out[i])[2]

PatchRebuildsNew ==
  pc = "done" =>
    /\ \A i \in 0..Len(out) :
         /\ EndOld(i) <= BeginOld(i + 1) /\ EndNew(i) <= BeginNew(i + 1)
         /\ Gap(OldLines, EndOld(i), BeginOld(i + 1)) = Gap(NewLines, EndNew(i), BeginNew(i + 1))
    /\ \A i \in DOMAIN out :
         LET es == out[i].edits IN
         /\ EndOld(i) = BeginOld(i) + Passed(es, Len(es), "insert")
         /\ EndNew(i) = BeginNew(i) + Passed(es, Len(es), "delete")
         /\ \A k \in DOMAIN es :
              /\ es[k].kind # "insert" => OldLines[BeginOld(i) + Passed(es, k, "insert")] = es[k].line
              /\ es[k].kind # "delete" => NewLines[BeginNew(i) + Passed(es, k, "delete")] = es[k].line

(***************************************************************************)
(* "It returns the empty string when the inputs are identical", and only   *)
(* then: a file that -l lists has a diff to show.                          *)
(***************************************************************************)
EmptyMeansSame == pc = "done" => (out = <<>> <=> old = new)

(***************************************************************************)
(* Hunks are what diff -u makes of the script: no more than Context        *)
(* unchanged lines before the first change and after the last, fewer only  *)
(* at an end of the file, and two changes share a hunk exactly if at most  *)
(* 2 * Context unchanged lines lie between them.                           *)
(***************************************************************************)
Changes(h) == {k \in DOMAIN h.edits : h.edits[k].kind # "equal"}

ContextIsTight(h) ==
  \E first, last \in Changes(h) :
    /\ \A k \in Changes(h) : first <= k /\ k <= last
    /\ first <= Context => h.oldStart = 0 /\ h.newStart = 0
    /\ first <= Context + 1 /\ Len(h.edits) <= last + Context
    /\ Len(h.edits) < last + Context =>
         h.oldStart + h.oldCount = Len(old.texts) /\ h.newStart + h.newCount = Len(new.texts)

ChangesAreNear(h) ==
  \A a, b \in Changes(h) :
    a < b /\ (\A c \in Changes(h) : c <= a \/ b <= c) => b <= a + 2 * Context + 1

HunksAreTight ==
  \A i \in DOMAIN out :
    /\ ContextIsTight(out[i]) /\ ChangesAreNear(out[i])
    /\ i > 1 => out[i].oldStart > out[i - 1].oldStart + out[i - 1].oldCount

\* Set aside a common beginning and a common end, and the table for the rest is allowed.
Fits ==
  \E p, s \in 0..Len(OldLines) :
    /\ p + s <= Len(OldLines) /\ p + s <= Len(NewLines)
    /\ \A i \in 1..p : OldLines[i] = NewLines[i]
    /\ \A i \in 0..(s - 1) : OldLines[Len(OldLines) - i] = NewLines[Len(NewLines) - i]
    /\ (Len(OldLines) - (p + s)) * (Len(NewLines) - (p + s)) <= MaxCells

\* Places of a file in their order, and the lines that stand there.
Ascending ==
  UNION {{f \in [1..n -> 1..MaxLines] : \A i, j \in 1..n : i < j => f[i] < f[j]} : n \in 0..MaxLines}
Subsequences(s) ==
  {[i \in DOMAIN f |-> s[f[i]]] : f \in {g \in Ascending : \A i \in DOMAIN g : g[i] <= Len(s)}}

(***************************************************************************)
(* A diff keeps lines that both files have in the same order.  No shorter  *)
(* diff exists, up to the very limit of the table: setting the common      *)
(* prefix and suffix aside, as much as there is of them, and preferring    *)
(* deletions costs nothing.                                                *)
(***************************************************************************)
DiffIsShortest ==
  pc = "group" /\ taken = 0 /\ Fits =>
    \A s \in Subsequences(OldLines) \cap Subsequences(NewLines) :
      Len(s) <= Cardinality({k \in DOMAIN edits : edits[k].kind = "equal"})
=============================================================================
