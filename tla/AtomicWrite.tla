----------------------------- MODULE AtomicWrite -----------------------------
(***************************************************************************)
(* kustofmt -w on one manifest: processFile and writeFile, system call by  *)
(* system call, for any number of runs at the same time, on a file system  *)
(* with a page cache.  file and dir are what processes see; disk and       *)
(* diskDir are what a power loss leaves of them.                           *)
(*                                                                         *)
(* An inode is named after what created it: the original manifest, a save  *)
(* of the editor, or the temporary file of a run (a run creates one, under *)
(* a random name that is taken never to be drawn twice).                   *)
(***************************************************************************)
EXTENDS ManifestFile, Naturals

CONSTANTS Procs,        \* the runs
          Symlink,      \* the directory entry that points to "manifest"
          MaxLosses     \* bound on the power losses

ASSUME ProcsAssumption == Procs \cap Versions = {}
ASSUME SymlinkAssumption == Symlink \notin Procs \cup Versions
ASSUME LossesAssumption == MaxLosses \in Nat

VARIABLES file, disk,        \* inodes: cached, durable
          dir, diskDir,      \* entries of the directory: cached, durable
          temps, diskTemps   \* temporary names present: cached, durable

VARIABLES user, path,        \* of a run: who runs it, the name it was given
          pc, src, target, info, result

VARIABLES losses,            \* power losses so far
          held               \* observation: every content the manifest had

storage == <<file, disk, dir, diskDir, temps, diskTemps>>
vars == <<storage, user, path, pc, src, target, info, result, losses, held>>

Inodes == Versions \cup Procs
Names == {"manifest", "alias"}
EvalSymlinks(name) == IF dir[name] = Symlink THEN "manifest" ELSE name

\* What stat and open find under a name: both follow links.
Found(name) == file[dir[EvalSymlinks(name)]]

Manifest == file[dir["manifest"]]
DurableManifest == disk[diskDir["manifest"]]

NewFile(u) == [data |-> Empty, owner |-> u, mode |-> "private"]

Init ==
  /\ \E owner \in Users, mode \in Modes, formatted \in BOOLEAN :
       file = [i \in Inodes |->
                 IF i = Original
                   THEN [data |-> [version |-> Original, formatted |-> formatted],
                         owner |-> owner, mode |-> mode]
                   ELSE NewFile(Root)]
  /\ disk = file
  /\ dir = [n \in Names |-> IF n = "manifest" THEN Original ELSE Symlink]
  /\ diskDir = dir
  /\ temps = {} /\ diskTemps = {}
  /\ user \in [Procs -> Users]
  /\ path \in [Procs -> Names]
  /\ pc = [p \in Procs |-> "start"]
  /\ src = [p \in Procs |-> Empty]
  /\ target = path
  /\ info = [p \in Procs |-> NewFile(Root)]
  /\ result = [p \in Procs |-> "none"]
  /\ losses = 0
  /\ held = {Manifest.data}

-----------------------------------------------------------------------------
Goes(p, from, to) == pc[p] = from /\ pc' = [pc EXCEPT ![p] = to]

Result(p, from, to, r) == Goes(p, from, to) /\ result' = [result EXCEPT ![p] = r]

\* The call fails before there is a temporary file: nothing was touched.
GiveUp(p, at) ==
  /\ Result(p, at, "done", "error")
  /\ UNCHANGED <<storage, user, path, src, target, info, losses, held>>

\* A defect: an error path that does not remove the temporary file.
AbortLeaves(p, at) ==
  /\ Result(p, at, "done", "error")
  /\ UNCHANGED <<storage, user, path, src, target, info, losses, held>>

\* The call fails after that: the deferred Close and Remove still run.
Abort(p, at) ==
  /\ Result(p, at, "cleanup", "error")
  /\ UNCHANGED <<storage, user, path, src, target, info, losses, held>>

(***************************************************************************)
(* ReadFile, IsSOPS, Format and the bytesEqual test of writeFile.  Reading *)
(* or formatting may fail, a sops file is skipped, and a file that is      *)
(* formatted already is left alone.                                        *)
(***************************************************************************)
Read(p) ==
  /\ src' = [src EXCEPT ![p] = Found(path[p]).data]
  /\ \/ Result(p, "start", "done", "error")
     \/ Result(p, "start", "done", "skipped")
     \/ Settled(src'[p]) /\ Result(p, "start", "done", "ok")
     \/ ~Settled(src'[p]) /\ Goes(p, "start", "resolve") /\ UNCHANGED result
  /\ UNCHANGED <<storage, user, path, target, info, losses, held>>

\* A defect: the name given is replaced, be it a link.
ResolveNot(p) ==
  /\ Goes(p, "resolve", "stat")
  /\ target' = [target EXCEPT ![p] = path[p]]
  /\ UNCHANGED <<storage, user, path, src, info, result, losses, held>>

Resolve(p) ==
  \/ /\ Goes(p, "resolve", "stat")
     /\ target' = [target EXCEPT ![p] = EvalSymlinks(path[p])]
     /\ UNCHANGED <<storage, user, path, src, info, result, losses, held>>
  \/ GiveUp(p, "resolve")

Stat(p) ==
  \/ /\ Goes(p, "stat", "probe")
     /\ info' = [info EXCEPT ![p] = Found(target[p])]
     /\ UNCHANGED <<storage, user, path, src, target, result, losses, held>>
  \/ GiveUp(p, "stat")

\* A defect: no probe.
ProbeNot(p) ==
  /\ Goes(p, "probe", "create")
  /\ UNCHANGED <<storage, user, path, src, target, info, result, losses, held>>

\* Open for writing, and close: a file the user could not write is refused.
Probe(p) ==
  \/ /\ Goes(p, "probe", "create")
     /\ CanWrite(user[p], Found(target[p]))
     /\ UNCHANGED <<storage, user, path, src, target, info, result, losses, held>>
  \/ GiveUp(p, "probe")

CreateTemp(p) ==
  \/ /\ Goes(p, "create", "owner")
     /\ file' = [file EXCEPT ![p] = NewFile(user[p])]
     /\ temps' = temps \cup {p}
     /\ UNCHANGED <<disk, dir, diskDir, diskTemps, user, path, src, target, info,
                    result, losses, held>>
  \/ GiveUp(p, "create")

\* A defect: a chown that fails is ignored.
PreserveOwnerIfPossible(p) ==
  /\ Goes(p, "owner", "chmod")
  /\ file' = [file EXCEPT ![p].owner = IF user[p] = Root THEN info[p].owner ELSE @]
  /\ UNCHANGED <<disk, dir, diskDir, temps, diskTemps, user, path, src, target, info,
                 result, losses, held>>

\* preserveOwner: nothing to do for the owner's own run, and only root can chown.
PreserveOwner(p) ==
  \/ /\ Goes(p, "owner", "chmod")
     /\ user[p] = Root \/ file[p].owner = info[p].owner
     /\ file' = [file EXCEPT ![p].owner = info[p].owner]
     /\ UNCHANGED <<disk, dir, diskDir, temps, diskTemps, user, path, src, target, info,
                    result, losses, held>>
  \/ Abort(p, "owner")

\* A defect: a fixed mode.
ChmodFixed(p) ==
  /\ Goes(p, "chmod", "write")
  /\ file' = [file EXCEPT ![p].mode = "shared"]
  /\ UNCHANGED <<disk, dir, diskDir, temps, diskTemps, user, path, src, target, info,
                 result, losses, held>>

Chmod(p) ==
  \/ /\ Goes(p, "chmod", "write")
     /\ file' = [file EXCEPT ![p].mode = info[p].mode]
     /\ UNCHANGED <<disk, dir, diskDir, temps, diskTemps, user, path, src, target, info,
                    result, losses, held>>
  \/ Abort(p, "chmod")

\* A defect: the manifest itself is truncated and written.
BeginWriteInPlace(p) ==
  /\ Goes(p, "write", "writing")
  /\ file' = [file EXCEPT ![dir[target[p]]].data = Partial]
  /\ UNCHANGED <<disk, dir, diskDir, temps, diskTemps, user, path, src, target, info,
                 result, losses, held>>

\* One Write, during which the file holds part of the content.
BeginWrite(p) ==
  /\ Goes(p, "write", "writing")
  /\ file' = [file EXCEPT ![p].data = Partial]
  /\ UNCHANGED <<disk, dir, diskDir, temps, diskTemps, user, path, src, target, info,
                 result, losses, held>>

\* A defect: a short write is taken for a whole one.
EndWriteShort(p) ==
  /\ Goes(p, "writing", "sync")
  /\ UNCHANGED <<storage, user, path, src, target, info, result, losses, held>>

\* A defect: the source is written back.
EndWriteSource(p) ==
  /\ Goes(p, "writing", "sync")
  /\ file' = [file EXCEPT ![p].data = src[p]]
  /\ UNCHANGED <<disk, dir, diskDir, temps, diskTemps, user, path, src, target, info,
                 result, losses, held>>

EndWrite(p) ==
  \/ /\ Goes(p, "writing", "sync")
     /\ file' = [file EXCEPT ![p].data = Formatted(src[p])]
     /\ UNCHANGED <<disk, dir, diskDir, temps, diskTemps, user, path, src, target, info,
                    result, losses, held>>
  \/ Abort(p, "writing")

\* A defect: no sync.
SyncNot(p) ==
  /\ Goes(p, "sync", "close")
  /\ UNCHANGED <<storage, user, path, src, target, info, result, losses, held>>

Sync(p) ==
  \/ /\ Goes(p, "sync", "close")
     /\ disk' = [disk EXCEPT ![p] = file[p]]
     /\ UNCHANGED <<file, dir, diskDir, temps, diskTemps, user, path, src, target, info,
                    result, losses, held>>
  \/ Abort(p, "sync")

Close(p) ==
  \/ /\ Goes(p, "close", "rename")
     /\ UNCHANGED <<storage, user, path, src, target, info, result, losses, held>>
  \/ Abort(p, "close")

Rename(p) ==
  \/ /\ Result(p, "rename", "cleanup", "ok")
     /\ dir' = [dir EXCEPT ![target[p]] = p]
     /\ temps' = temps \ {p}
     /\ held' = held \cup {file[dir'["manifest"]].data}
     /\ UNCHANGED <<file, disk, diskDir, diskTemps, user, path, src, target, info, losses>>
  \/ Abort(p, "rename")

\* The deferred Close and Remove; both do nothing after a rename.
Cleanup(p) ==
  /\ Goes(p, "cleanup", "done")
  /\ temps' = temps \ {p}
  /\ UNCHANGED <<file, disk, dir, diskDir, diskTemps, user, path, src, target, info,
                 result, losses, held>>

Run(p) ==
  \/ Read(p) \/ Resolve(p) \/ Stat(p) \/ Probe(p) \/ CreateTemp(p) \/ PreserveOwner(p)
  \/ Chmod(p) \/ BeginWrite(p) \/ EndWrite(p) \/ Sync(p) \/ Close(p) \/ Rename(p)
  \/ Cleanup(p)

-----------------------------------------------------------------------------
(***************************************************************************)
(* The environment: a run is interrupted (no deferred call runs), the      *)
(* kernel writes back an inode or the directory when it likes, the machine *)
(* loses power, an editor saves another version (whole, synced and         *)
(* renamed into place, as careful editors do).                             *)
(***************************************************************************)
Busy(p) == pc[p] \notin {"start", "done", "killed"}

\* The variables of a dead run are gone.
Die(dead) ==
  /\ pc' = [p \in Procs |-> IF p \in dead THEN "killed" ELSE pc[p]]
  /\ src' = [p \in Procs |-> IF p \in dead THEN Empty ELSE src[p]]
  /\ info' = [p \in Procs |-> IF p \in dead THEN NewFile(Root) ELSE info[p]]
  /\ UNCHANGED <<user, path, target, result>>

Kill(p) ==
  /\ Busy(p)
  /\ Die({p})
  /\ UNCHANGED <<storage, losses, held>>

WriteBack(i) ==
  /\ disk[i] # file[i]
  /\ disk' = [disk EXCEPT ![i] = file[i]]
  /\ UNCHANGED <<file, dir, diskDir, temps, diskTemps, user, path, pc, src, target, info,
                 result, losses, held>>

WriteBackDir ==
  /\ <<diskDir, diskTemps>> # <<dir, temps>>
  /\ diskDir' = dir
  /\ diskTemps' = temps
  /\ UNCHANGED <<file, disk, dir, temps, user, path, pc, src, target, info, result,
                 losses, held>>

PowerLoss ==
  /\ losses < MaxLosses
  /\ losses' = losses + 1
  /\ file' = disk /\ dir' = diskDir /\ temps' = diskTemps
  /\ Die({p \in Procs : Busy(p)})
  /\ held' = held \cup {DurableManifest.data}
  /\ UNCHANGED <<disk, diskDir, diskTemps>>

Save(v) ==
  /\ v \in Edits /\ file[v].data = Empty
  /\ file' = [file EXCEPT ![v] = [Manifest EXCEPT !.data = Raw(v)]]
  /\ disk' = [disk EXCEPT ![v] = file'[v]]
  /\ dir' = [dir EXCEPT !["manifest"] = v]
  /\ held' = held \cup {Raw(v)}
  /\ UNCHANGED <<diskDir, temps, diskTemps, user, path, pc, src, target, info, result,
                 losses>>

Next ==
  \/ \E p \in Procs : Run(p) \/ Kill(p)
  \/ \E i \in Inodes : WriteBack(i)
  \/ \E v \in Edits : Save(v)
  \/ WriteBackDir
  \/ PowerLoss

Spec == Init /\ [][Next]_vars

-----------------------------------------------------------------------------
PCs == {"start", "resolve", "stat", "probe", "create", "owner", "chmod", "write",
        "writing", "sync", "close", "rename", "cleanup", "done", "killed"}

TypeOK ==
  /\ file \in [Inodes -> Files] /\ disk \in [Inodes -> Files]
  /\ dir \in [Names -> Inodes \cup {Symlink}] /\ diskDir \in [Names -> Inodes \cup {Symlink}]
  /\ temps \subseteq Procs /\ diskTemps \subseteq Procs
  /\ user \in [Procs -> Users] /\ path \in [Procs -> Names]
  /\ pc \in [Procs -> PCs]
  /\ src \in [Procs -> Contents]
  /\ target \in [Procs -> Names]
  /\ info \in [Procs -> Files]
  /\ result \in [Procs -> {"none", "ok", "skipped", "error"}]
  /\ losses \in 0..MaxLosses
  /\ held \subseteq Whole

(***************************************************************************)
(* "A concurrent reader sees the old file or the new one and never half of *)
(* either": whatever runs are interrupted, the manifest is a whole one.    *)
(***************************************************************************)
ManifestWhole == Manifest.data \in Whole

(***************************************************************************)
(* "A machine that loses power" at this moment comes back with a whole     *)
(* manifest, never with "a well-named empty one".                          *)
(***************************************************************************)
DurableManifestWhole == DurableManifest.data \in Whole

(***************************************************************************)
(* Whoever formats it, the manifest keeps its owner and mode, also across  *)
(* a power loss.                                                           *)
(***************************************************************************)
SameAttributes(f, g) == f.owner = g.owner /\ f.mode = g.mode

AttributesKept ==
  /\ SameAttributes(Manifest, file[Original])
  /\ SameAttributes(DurableManifest, file[Original])

(***************************************************************************)
(* A run replaces only a file its user could have written in place.        *)
(***************************************************************************)
OnlyWritableReplaced ==
  \A p \in Procs : dir["manifest"] = p => CanWrite(user[p], file[Original])

(***************************************************************************)
(* A run that failed did not replace the manifest, and a run that ended    *)
(* leaves no temporary file: only an interruption does.                    *)
(***************************************************************************)
FailureLeavesNothing ==
  \A p \in Procs :
    /\ result[p] = "error" => dir["manifest"] # p /\ diskDir["manifest"] # p
    /\ pc[p] = "done" /\ losses = 0 => p \notin temps

(***************************************************************************)
(* A symbolic link to the manifest stays one, whichever name was given.    *)
(***************************************************************************)
LinkSurvives == dir["alias"] = Symlink /\ diskDir["alias"] = Symlink

(***************************************************************************)
(* After a successful run the manifest is formatted, until an editor saves *)
(* or a power loss restores something else.                                *)
(***************************************************************************)
SuccessIsFormatted ==
  losses = 0 /\ held \subseteq [version : {Original}, formatted : BOOLEAN] =>
    \A p \in Procs : result[p] = "ok" => Manifest.data.formatted

-----------------------------------------------------------------------------
(***************************************************************************)
(* The inductive strengthening.  Early and Late are the program points     *)
(* before and after there is a temporary file.                             *)
(***************************************************************************)
Early == {"start", "resolve", "stat", "probe", "create"}
Late == {"owner", "chmod", "write", "writing", "sync", "close", "rename"}
Written == {"sync", "close", "rename"}

Linked(p) == dir["manifest"] = p \/ diskDir["manifest"] = p

\* What a run knows and has done, by program point.
Progress(p) ==
  /\ pc[p] \in (Early \ {"start"}) \cup Late => src[p] \in held
  /\ pc[p] \in (Early \ {"start", "resolve"}) \cup Late => target[p] = "manifest"
  /\ pc[p] \in {"probe", "create"} \cup Late => SameAttributes(info[p], file[Original])
  /\ pc[p] \in {"create"} \cup Late => CanWrite(user[p], file[Original])
  /\ pc[p] \in Late \ {"owner"} => file[p].owner = info[p].owner
  /\ pc[p] \in Late \ {"owner", "chmod"} => file[p].mode = info[p].mode
  /\ pc[p] \in Written => file[p].data = Formatted(src[p])
  /\ pc[p] \in Written \ {"sync"} => disk[p] = file[p]

Outcome(p) ==
  /\ pc[p] \in Early \cup Late => result[p] = "none"
  /\ Linked(p) => result[p] = "ok" /\ CanWrite(user[p], file[Original])
  /\ p \in temps \cup diskTemps => pc[p] \notin Early
  /\ pc[p] = "done" /\ losses = 0 => p \notin temps

\* An inode that may be found under the name of the manifest.
Sound(i) ==
  /\ i \in Inodes
  /\ disk[i] = file[i]
  /\ file[i].data \in held
  /\ SameAttributes(file[i], file[Original])

IInv ==
  /\ TypeOK
  /\ LinkSurvives
  /\ Sound(dir["manifest"]) /\ Sound(diskDir["manifest"])
  /\ disk[Original] = file[Original]
  /\ \A p \in Procs : Progress(p) /\ Outcome(p)
  /\ SuccessIsFormatted

-----------------------------------------------------------------------------
Store == INSTANCE AtomicReplace WITH manifest <- Manifest

(***************************************************************************)
(* To whoever reads the manifest, all of this is a sequence of atomic      *)
(* replacements of whole contents.                                         *)
(***************************************************************************)
ImplementsReplace == Store!ReplaceSpec
=============================================================================
