------------------------------- MODULE Collect -------------------------------
(***************************************************************************)
(* collect: the files that the paths on a command line stand for.          *)
(*                                                                         *)
(* A path is the sequence of its names from the root on, numbered in their *)
(* lexical order; Dot is the name "." and Up is "..".  The entries of the  *)
(* tree have paths without either.                                         *)
(***************************************************************************)
EXTENDS SequencesExt

CONSTANTS Dirs, Files,      \* directories and regular files of the tree
          Links,            \* links of the tree: where each one leads to in the end
          Dot, Up,
          YamlNames,        \* the names that end in .yaml or .yml
          SkippedNames      \* .git, vendor and node_modules

ASSUME NamesAssumption == Dot # Up

ASSUME TreeAssumption ==
  /\ IsFiniteSet(Files) /\ IsFiniteSet(DOMAIN Links)
  /\ Dirs \cap Files = {}
  /\ DOMAIN Links \cap (Dirs \cup Files) = {}

\* The entries are where their paths say, each in a directory, and the root is one.
ASSUME PlacesAssumption ==
  LET entries == Dirs \cup Files \cup DOMAIN Links
  IN  /\ <<>> \in Dirs
      /\ \A e \in entries : e \in Seq(Nat \ {Dot, Up}) /\ (e # <<>> => Front(e) \in Dirs)
      /\ \A l \in DOMAIN Links : Links[l] \in Seq(Nat \ {Dot, Up}) \ DOMAIN Links

Parent(path) == IF path = <<>> THEN path ELSE Front(path)

Step(path, name) ==
  CASE name = Dot -> path
    [] name = Up  -> Parent(path)
    [] OTHER      -> Append(path, name)

\* By the names alone.
Clean(path) ==
  LET kept[i \in 0..Len(path)] == IF i = 0 THEN <<>> ELSE Step(kept[i - 1], path[i])
  IN  kept[Len(path)]

\* What a path is that leads nowhere: no entry.
Nowhere == <<Dot>>
Target(path) == IF path \in DOMAIN Links THEN Links[path] ELSE path

\* By the tree: only a directory has names in it, and ".." is the one that leads there.
EvalSymlinks(path) ==
  LET at[i \in 0..Len(path)] ==
        IF i = 0 THEN <<>>
        ELSE IF at[i - 1] \in Dirs THEN Target(Step(at[i - 1], path[i]))
        ELSE Nowhere
  IN  at[Len(path)]

\* A defect: a root that is a link is not resolved.
RootAsGiven(path) == Clean(path)
Root(path) == EvalSymlinks(path)

SkipDir(root, dir) == dir # root /\ Last(dir) \in SkippedNames

\* What WalkDir(root) hands over: links are entries, not followed.
Walked(root, entries) ==
  {e \in entries : /\ IsStrictPrefix(root, e)
                   /\ Last(e) \in YamlNames
                   /\ \A d \in Dirs : IsPrefix(root, d) /\ IsPrefix(d, e) => ~SkipDir(root, d)}

From(path, prefix) == SubSeq(path, Len(prefix) + 1, Len(path))
UnderRoot(given, root, path) == Clean(given) \o From(path, root)

Lexical(p, q) ==
  \E i \in DOMAIN p \cap DOMAIN q :
    p[i] < q[i] /\ SubSeq(p, 1, i - 1) = SubSeq(q, 1, i - 1)

\* The names one path stands for, when the files in present are there.
Named(path, present) ==
  IF EvalSymlinks(path) \in Dirs
    THEN LET root == Root(path)
         IN  {UnderRoot(path, root, e) : e \in Walked(root, present \cup DOMAIN Links)}
    ELSE {path}

\* The order in which a walk comes by these names.
Walks(names) ==
  {w \in Bijection(1..Cardinality(names), names) :
     \A i, j \in DOMAIN w : i < j => Lexical(w[i], w[j])}

\* The files with those for one more path: add skips a name that was seen.
Added(files, path, present) ==
  {files \o w : w \in Walks(Named(path, present) \ ToSet(files))}
=============================================================================
