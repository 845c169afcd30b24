---------------------------- MODULE ManifestFile -----------------------------
(***************************************************************************)
(* What a file holds and who may write it, as far as kustofmt -w cares.    *)
(* A whole manifest is a version, formatted or not.  A file being created  *)
(* is Empty, one being written is Partial, and neither is a manifest.      *)
(***************************************************************************)
CONSTANTS Original,         \* the version the manifest starts with
          Edits,            \* the versions an editor may save later
          Empty, Partial,   \* content that is no manifest
          Users, Root

ASSUME VersionsAssumption == Original \notin Edits
ASSUME RootAssumption == Root \in Users

Versions == {Original} \cup Edits
Whole == [version : Versions, formatted : BOOLEAN]

ASSUME ContentAssumption == {Empty, Partial} \cap Whole = {}

Contents == Whole \cup {Empty, Partial}

(***************************************************************************)
(* The permission bits that matter: 0444, 0600 (what CreateTemp gives) and *)
(* one that lets everybody write.                                          *)
(***************************************************************************)
Modes == {"readonly", "private", "shared"}

Files == [data : Contents, owner : Users, mode : Modes]

Raw(v) == [version |-> v, formatted |-> FALSE]
Formatted(data) == [version |-> data.version, formatted |-> TRUE]

\* Formatting gives the same bytes, as it also does for a file without documents.
Settled(data) == data \in Whole => data.formatted

\* open(O_WRONLY) by a process of user u succeeds.
CanWrite(u, f) ==
  \/ u = Root
  \/ f.mode = "shared"
  \/ f.owner = u /\ f.mode = "private"
=============================================================================
