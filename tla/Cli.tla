--------------------------------- MODULE Cli ---------------------------------
(***************************************************************************)
(* A run of kustofmt from the command line: which files it takes, what it  *)
(* does with each of them, what it prints and how it exits.  After a run   *)
(* with -w, the run with -l that a CI job would make on the same paths.    *)
(*                                                                         *)
(* A file holds one of a few texts; what formatting makes of one is the    *)
(* business of Formatter, what a replacement does that of AtomicWrite, and *)
(* what a diff says that of Hunks.                                         *)
(***************************************************************************)
EXTENDS Collect

CONSTANTS Stdin,        \* <standard input>, the name
          Edited,       \* the files somebody else changes
          MaxEdits,     \* bound on those changes
          MaxFaults     \* bound on the calls that fail

ASSUME BoundsAssumption == MaxEdits \in Nat /\ MaxFaults \in Nat

\* broken does not parse; secret and sealed are sops-encrypted; gone is no text.
Texts == {"tidy", "messy", "broken", "secret", "sealed"}
IsSOPS(text) == text \in {"secret", "sealed"}
Formatted(text) ==
  CASE text = "messy" -> "tidy" [] text = "secret" -> "sealed" [] OTHER -> text
Changed(text) == Formatted(text) # text

Options == [list : BOOLEAN, write : BOOLEAN, diff : BOOLEAN, includeSOPS : BOOLEAN]

VARIABLES content,      \* of the files of the tree
          args, opts, stdin,
          pc, todo,     \* paths still to expand
          files, src, code,
          out,          \* standard output: what was written to it
          log,          \* observation: for each file, the text read and whether it failed
          given,        \* observation: the content before the first run
          first,        \* observation: the first run, while the second is under way
          edits, faults

input == <<args, opts, stdin, given, first>>
vars == <<input, content, pc, todo, files, src, code, out, log, edits, faults>>

NoRun == [code |-> 0, log |-> <<>>]

Init ==
  /\ content \in [Files -> Texts] /\ given = content
  /\ opts \in Options
  /\ args \in Seq(Seq(Nat)) /\ stdin \in Texts
  /\ pc = "start" /\ todo = args /\ files = <<>> /\ src = "gone" /\ code = 0
  /\ out = <<>> /\ log = <<>> /\ first = NoRun /\ edits = 0 /\ faults = 0

Mode == opts.list \/ opts.write \/ opts.diff
Skipped(text) == IsSOPS(text) /\ ~opts.includeSOPS
Fault == faults < MaxFaults /\ faults' = faults + 1 /\ UNCHANGED edits
NoFault == UNCHANGED <<edits, faults>>

-----------------------------------------------------------------------------
Refuse ==
  /\ pc' = "refused" /\ code' = 2
  /\ UNCHANGED <<input, content, todo, files, src, out, log>>

Process ==
  /\ pc' = "process"
  /\ UNCHANGED <<input, content, todo, src, code, out, log, edits, faults>>

\* runStdin up to the text: -w has no file to write back to.
Filter ==
  /\ pc = "start" /\ args = <<>>
  /\ \/ ~opts.write /\ files' = <<Stdin>> /\ Process
     \/ opts.write /\ Refuse /\ NoFault

Present == {f \in Files : content[f] # "gone"}
Exists(path) == EvalSymlinks(path) \in Dirs \cup Present

\* collect, one path: Stat or the walk may fail, and then nothing is done at all.
Expand ==
  /\ pc = "start" /\ todo # <<>>
  /\ \/ /\ Exists(Head(todo))
        /\ files' \in Added(files, Head(todo), Present)
        /\ todo' = Tail(todo)
        /\ UNCHANGED <<input, content, pc, src, code, out, log, edits, faults>>
     \/ ~Exists(Head(todo)) /\ Refuse /\ NoFault
     \/ Fault /\ Refuse

\* A defect: the documents of several files follow each other.
TooManyNever == FALSE
TooMany == ~Mode /\ Len(files) > 1

Expanded ==
  /\ pc = "start" /\ todo = <<>> /\ args # <<>>
  /\ \/ TooMany /\ Refuse /\ NoFault
     \/ ~TooMany /\ Process /\ UNCHANGED files

-----------------------------------------------------------------------------
Current == files[Len(log) + 1]
TextOf(name) ==
  IF args = <<>> THEN stdin
  ELSE IF EvalSymlinks(name) \in Files THEN content[EvalSymlinks(name)]
  ELSE "gone"

\* A defect: the loop ends at the first error.
MoreUnlessFailed == Len(log) < Len(files) /\ code # 2
More == Len(log) < Len(files)

\* A defect: the last file decides.
FoldedLast(result) == result
\* A defect: the results are added up.
FoldedSum(result) == code + result

\* The loop of run: an error beats a difference.
Folded(result) == IF result = 2 \/ code = 0 THEN result ELSE code

Over(text, failed) ==
  /\ log' = Append(log, [name |-> Current, text |-> text, failed |-> failed])
  /\ code' = Folded(IF failed THEN 2
                    ELSE IF opts.list /\ ~Skipped(text) /\ Changed(text) THEN 1 ELSE 0)
  /\ pc' = "process"
  /\ UNCHANGED <<input, todo, files, src>>

\* A defect: with -l nothing is written.
WritesUnlessListing(text) == opts.write /\ ~opts.list /\ ~Skipped(text) /\ Changed(text)
\* A defect: the test for sops comes after writeFile.
WritesEncrypted(text) == opts.write /\ Changed(text)

Writes(text) == opts.write /\ ~Skipped(text) /\ Changed(text)

\* ReadFile or ReadAll, IsSOPS and Format.
Read ==
  /\ pc = "process" /\ More
  /\ LET text == TextOf(Current) IN
     \/ /\ Fault \/ (text = "gone" /\ NoFault)
        /\ Over("gone", TRUE) /\ UNCHANGED <<content, out>>
     \/ text = "broken" /\ Over(text, TRUE) /\ UNCHANGED <<content, out>> /\ NoFault
     \/ /\ text \notin {"gone", "broken"}
        /\ src' = text
        /\ pc' = IF Writes(text) THEN "write" ELSE "report"
        /\ UNCHANGED <<input, content, todo, files, code, out, log, edits, faults>>

\* writeFile.
Write ==
  /\ pc = "write"
  /\ LET target == EvalSymlinks(Current) IN
     \/ /\ content[target] # "gone"
        /\ content' = [content EXCEPT ![target] = Formatted(src)]
        /\ pc' = "report"
        /\ UNCHANGED <<input, todo, files, src, code, out, log, edits, faults>>
     \/ /\ Fault \/ (content[target] = "gone" /\ NoFault)
        /\ Over(src, TRUE) /\ UNCHANGED <<content, out>>

When(asked, kind, text) ==
  IF asked THEN <<[kind |-> kind, name |-> Current, text |-> text]>> ELSE <<>>

\* A skipped file prints nothing; a skipped standard input is passed on.
PassedThrough == When(args = <<>> /\ ~Mode, "document", src)

\* reportResult: what is written to standard output, in this order.
Prints ==
  IF Skipped(src) THEN PassedThrough
  ELSE When(opts.list /\ Changed(src), "name", src)
         \o When(opts.diff /\ Changed(src), "diff", src)
         \o When(~Mode, "document", Formatted(src))

Report ==
  /\ pc = "report"
  /\ \/ out' = out \o Prints /\ Over(src, FALSE) /\ UNCHANGED content /\ NoFault
     \/ \E k \in 1..Len(Prints) :
          /\ Fault
          /\ out' = out \o SubSeq(Prints, 1, k - 1)
          /\ Over(src, TRUE) /\ UNCHANGED content

Finish ==
  /\ pc = "process" /\ ~More
  /\ pc' = "exit"
  /\ UNCHANGED <<input, content, todo, files, src, code, out, log, edits, faults>>

-----------------------------------------------------------------------------
\* kustofmt -l on the same paths.
CheckAgain ==
  /\ pc = "exit" /\ opts.write
  /\ opts' = [opts EXCEPT !.list = TRUE, !.write = FALSE, !.diff = FALSE]
  /\ first' = [code |-> code, log |-> log]
  /\ pc' = "start" /\ todo' = args /\ files' = <<>> /\ code' = 0
  /\ out' = <<>> /\ log' = <<>>
  /\ UNCHANGED <<content, args, stdin, given, src, edits, faults>>

\* Somebody else saves, encrypts or removes a file.
Edit ==
  /\ pc \notin {"exit", "refused"} /\ edits < MaxEdits
  /\ \E f \in Edited, text \in {"messy", "secret", "gone"} :
       text # content[f] /\ content' = [content EXCEPT ![f] = text]
  /\ edits' = edits + 1
  /\ UNCHANGED <<input, pc, todo, files, src, code, out, log, faults>>

Run ==
  \/ Filter \/ Expand \/ Expanded
  \/ Read \/ Write \/ Report \/ Finish

Next == Run \/ CheckAgain \/ Edit

Spec == Init /\ [][Next]_vars

-----------------------------------------------------------------------------
Names(kind) == {out[i].name : i \in {j \in DOMAIN out : out[j].kind = kind}}
Failed(entries) == {r.name : r \in {s \in ToSet(entries) : s.failed}}

TypeOK ==
  /\ content \in [Files -> Texts \cup {"gone"}] /\ given \in [Files -> Texts]
  /\ opts \in Options /\ stdin \in Texts
  /\ pc \in {"start", "process", "write", "report", "exit", "refused"}
  /\ src \in Texts \cup {"gone"} /\ code \in 0..2 /\ first.code \in 0..2
  /\ Len(log) <= Len(files)
  /\ edits \in 0..MaxEdits /\ faults \in 0..MaxFaults

(***************************************************************************)
(* The exit code tells all: 2 whenever any file failed, whichever came     *)
(* last; 1 exactly when -l printed a name and nothing failed.  A run that  *)
(* is refused says 2 and has printed nothing.                              *)
(***************************************************************************)
ExitTellsAll ==
  /\ pc = "exit" =>
       /\ code = 2 <=> Failed(log) # {}
       /\ code = 1 <=> Failed(log) = {} /\ Names("name") # {}
  /\ pc = "refused" => code = 2 /\ out = <<>>

(***************************************************************************)
(* "One bad file in a large repository should not hide the state of the    *)
(* rest": every file is dealt with in its turn, and -l prints those whose  *)
(* text differs, and no other.                                             *)
(***************************************************************************)
NothingHidden ==
  pc = "exit" =>
    /\ [i \in DOMAIN log |-> log[i].name] = files
    /\ \A r \in ToSet(log) :
         LET differs == ~Skipped(r.text) /\ Changed(r.text) IN
         /\ opts.list /\ differs /\ ~r.failed => r.name \in Names("name")
         /\ r.name \in Names("name") => \E s \in ToSet(log) : s.name = r.name /\ Changed(s.text)

(***************************************************************************)
(* Standard output is one thing: names with -l, diffs with -d, and without *)
(* a mode never more than one document; a filter that exits with 0 has     *)
(* passed a document on, the encrypted one included.                       *)
(***************************************************************************)
StdoutIsOneThing ==
  /\ Names("name") # {} => opts.list
  /\ Names("diff") # {} => opts.diff
  /\ Names("document") # {} => ~Mode /\ Len(out) = 1
  /\ pc = "exit" /\ args = <<>> /\ ~Mode /\ code = 0 =>
       out = <<[kind |-> "document", name |-> Stdin,
                text |-> IF Skipped(stdin) THEN stdin ELSE Formatted(stdin)]>>

(***************************************************************************)
(* A CI job that checks what kustofmt -w formatted passes: -l lists only   *)
(* files that the run with -w said it could not format.                    *)
(***************************************************************************)
FormatThenCheckPasses ==
  pc = "exit" /\ first # NoRun /\ edits = 0 =>
    /\ Names("name") \subseteq Failed(first.log)
    /\ first.code # 2 => code # 1

\* Below a path, or where a link below it points to.
Reaches(path, f) ==
  \/ IsPrefix(EvalSymlinks(path), f)
  \/ \E l \in DOMAIN Links : IsPrefix(EvalSymlinks(path), l) /\ EvalSymlinks(l) = f

\* No ".." comes after a link: cleaned, the path leads where it led.
Straight(path) == EvalSymlinks(Clean(path)) = EvalSymlinks(path)

(***************************************************************************)
(* Nothing is rewritten without -w, nothing the paths do not reach, and no *)
(* encrypted file unless it is asked for.  What is not reached is claimed  *)
(* for straight paths alone: see NamesLeadBack.                            *)
(***************************************************************************)
OnlyAskedIsRewritten ==
  edits = 0 =>
    \A f \in Files : content[f] # given[f] =>
      /\ opts.write \/ first # NoRun
      /\ IsSOPS(given[f]) => opts.includeSOPS
      /\ content[f] = Formatted(given[f])
      /\ (\A a \in ToSet(args) : Straight(a)) => \E a \in ToSet(args) : Reaches(a, f)

(***************************************************************************)
(* Collect reaches every manifest below a directory that is named, also    *)
(* when the name is that of a link to it, except below a skipped one; it   *)
(* names each file as the caller would, and none twice.  Links found below *)
(* the directory lead to what it reads, but are not walked; what is below  *)
(* one that leads to a directory is left out (run.go:367).                 *)
(***************************************************************************)
CollectIsComplete ==
  pc = "process" /\ args # <<>> /\ edits = 0 =>
    /\ \A a \in ToSet(args), f \in Files :
         /\ Straight(a)
         /\ IsPrefix(EvalSymlinks(a), f) /\ Last(f) \in YamlNames
         /\ \A n \in ToSet(Front(From(f, EvalSymlinks(a)))) : n \notin SkippedNames
         => \E p \in ToSet(files) : EvalSymlinks(p) = f
    /\ \A p \in ToSet(files) : \E a \in ToSet(args) : p = a \/ IsStrictPrefix(Clean(a), p)
    /\ IsInjective(files)

(***************************************************************************)
(* "The rewritten path has to still address a real file": each name that   *)
(* is collected leads to what the walk found under it.                     *)
(***************************************************************************)
NamesLeadBack ==
  pc = "process" /\ args # <<>> /\ edits = 0 =>
    \A p \in ToSet(files) : \E a \in ToSet(args) : Reaches(a, EvalSymlinks(p))
=============================================================================
