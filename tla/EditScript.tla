----------------------------- MODULE EditScript -----------------------------
(***************************************************************************)
(* The first half of format.Diff: the edits that lead from one list of     *)
(* lines to another, found line by line.  A file is a sequence of texts    *)
(* and whether the last of them is terminated.                             *)
(***************************************************************************)
EXTENDS Naturals, Sequences, SequencesExt

CONSTANTS Texts, MaxLines,     \* bound: the lines of a file
          MaxCells             \* maxDiffCells: the largest table that is filled

ASSUME CellsAssumption == MaxCells \in Nat /\ MaxLines \in Nat

VARIABLES old, new,            \* the two versions of the file
          pc, edits,           \* the script so far
          oldLine, newLine,    \* the lines that were passed
          tail                 \* how many lines at the end are set aside

files == <<old, new>>

\* An unterminated file has a last line with something in it.
Files == [texts : BoundedSeq(Texts, MaxLines), ended : {TRUE}]
         \cup [texts : BoundedSeq(Texts, MaxLines) \ {<<>>}, ended : {FALSE}]

Kinds == {"equal", "delete", "insert"}

\* A defect: an unterminated last line equals a terminated one.
SplitLinesEqual(file) == [i \in DOMAIN file.texts |-> [text |-> file.texts[i], noEOL |-> FALSE]]

\* The missing newline is part of the last line, so that it takes part in ==.
SplitLines(file) ==
  [i \in DOMAIN file.texts |->
     [text |-> file.texts[i], noEOL |-> i = Len(file.texts) /\ ~file.ended]]

OldLines == SplitLines(old)
NewLines == SplitLines(new)

ScriptInit ==
  /\ old \in Files /\ new \in Files
  /\ pc = "start" /\ edits = <<>>
  /\ oldLine = 0 /\ newLine = 0 /\ tail = 0

\* An edit passes a line of the old file, of the new one, or of both.
Pass(kind) ==
  /\ oldLine' = IF kind = "insert" THEN oldLine ELSE oldLine + 1
  /\ newLine' = IF kind = "delete" THEN newLine ELSE newLine + 1

Emit(kind) ==
  /\ Pass(kind)
  /\ edits' = Append(edits, [kind |-> kind,
                             line |-> IF kind = "insert" THEN NewLines[newLine + 1]
                                                         ELSE OldLines[oldLine + 1]])

-----------------------------------------------------------------------------
\* diffLines: the common prefix, then the common suffix of what is left.
SameLine ==
  /\ oldLine < Len(OldLines) /\ newLine < Len(NewLines)
  /\ OldLines[oldLine + 1] = NewLines[newLine + 1]

SameSuffix ==
  /\ oldLine + tail < Len(OldLines) /\ newLine + tail < Len(NewLines)
  /\ OldLines[Len(OldLines) - tail] = NewLines[Len(NewLines) - tail]

Prefix ==
  /\ pc = "trim" /\ SameLine
  /\ Emit("equal")
  /\ UNCHANGED <<files, pc, tail>>

Suffix ==
  /\ pc = "trim" /\ ~SameLine /\ SameSuffix
  /\ tail' = tail + 1
  /\ UNCHANGED <<files, pc, edits, oldLine, newLine>>

OldEnd == Len(OldLines) - tail
NewEnd == Len(NewLines) - tail

\* A middle that is too large is replaced whole.
Middle ==
  /\ pc = "trim" /\ ~SameLine /\ ~SameSuffix
  /\ pc' = IF (OldEnd - oldLine) * (NewEnd - newLine) > MaxCells THEN "rest" ELSE "walk"
  /\ UNCHANGED <<files, edits, oldLine, newLine, tail>>

(***************************************************************************)
(* The table of lcsEdits: how many lines can be kept of what is left of    *)
(* the middle when i and j lines are passed.                               *)
(***************************************************************************)
CanKeep(table, i, j) ==
  IF i = OldEnd \/ j = NewEnd THEN 0
  ELSE IF OldLines[i + 1] = NewLines[j + 1] THEN table[<<i + 1, j + 1>>] + 1
  ELSE IF table[<<i + 1, j>>] >= table[<<i, j + 1>>] THEN table[<<i + 1, j>>]
  ELSE table[<<i, j + 1>>]

Table ==
  LET table[cell \in (0..OldEnd) \X (0..NewEnd)] == CanKeep(table, cell[1], cell[2])
  IN  table

\* A defect: a line that differs is deleted, whatever the table says.
DeletesAlways == TRUE
Deletes == LET table == Table IN table[<<oldLine + 1, newLine>>] >= table[<<oldLine, newLine + 1>>]

Walking == pc = "walk" /\ oldLine < OldEnd /\ newLine < NewEnd

Walk ==
  /\ Walking
  /\ Emit(IF SameLine THEN "equal" ELSE IF Deletes THEN "delete" ELSE "insert")
  /\ UNCHANGED <<files, pc, tail>>

\* What the walk has left over of one side, and the suffix.
Rest ==
  /\ pc \in {"walk", "rest"} /\ ~Walking
  /\ oldLine < Len(OldLines) \/ newLine < Len(NewLines)
  /\ Emit(IF oldLine < OldEnd THEN "delete" ELSE IF newLine < NewEnd THEN "insert" ELSE "equal")
  /\ UNCHANGED <<files, pc, tail>>

Script == Prefix \/ Suffix \/ Middle \/ Walk \/ Rest
=============================================================================
