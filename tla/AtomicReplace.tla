---------------------------- MODULE AtomicReplace ----------------------------
(***************************************************************************)
(* What runs of kustofmt -w promise about a manifest, as anyone who reads  *)
(* it sees it: it always is one of the whole contents it has had, or the   *)
(* formatting of one, and keeps its owner and mode.  An editor may save    *)
(* another version, and a power loss may bring an older content back.      *)
(* AtomicWrite implements this with temporary files, syncs and renames.    *)
(***************************************************************************)
EXTENDS ManifestFile

VARIABLES manifest,   \* what the manifest is to a reader: a member of Files
          held        \* every content it has had

replaceVars == <<manifest, held>>

ReplaceInit ==
  /\ manifest \in Files
  /\ manifest.data \in Whole
  /\ held = {manifest.data}

Becomes(data) ==
  /\ manifest' = [manifest EXCEPT !.data = data]
  /\ held' = held \cup {data}

\* The content a run read may be stale by now: what was saved since is lost.
Replace == \E source \in held : Becomes(Formatted(source))

Save == \E v \in Edits : Becomes(Raw(v))

Revert == \E data \in held : Becomes(data)

ReplaceNext == Replace \/ Save \/ Revert

ReplaceSpec == ReplaceInit /\ [][ReplaceNext]_replaceVars
=============================================================================
