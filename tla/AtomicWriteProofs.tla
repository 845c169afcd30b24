-------------------------- MODULE AtomicWriteProofs --------------------------
(***************************************************************************)
(* Proofs about AtomicWrite, for every set of runs, users and edits, every *)
(* owner and mode of the manifest and every number of power losses.        *)
(***************************************************************************)
EXTENDS AtomicWrite, TLAPS

-----------------------------------------------------------------------------
(* Contents and inodes. *)

\* Whole contents are contents, and neither Empty nor Partial is one; formatting keeps a whole content whole.
LEMMA WholeContents ==
  /\ Empty \notin Whole /\ Partial \notin Whole /\ Whole \subseteq Contents
  /\ \A v \in Versions : Raw(v) \in Whole /\ ~Raw(v).formatted /\ Raw(v).version = v
  /\ \A data \in Whole : /\ Formatted(data) \in Whole
                         /\ Formatted(data).formatted
                         /\ Formatted(data).version = data.version
BY ContentAssumption DEF Whole, Contents, Raw, Formatted

\* Runs, versions and the link are told apart, so no two creators share an inode.
LEMMA InodeNames ==
  /\ Original \in Inodes /\ Original \notin Procs /\ Original \notin Edits
  /\ \A p \in Procs : p \in Inodes /\ p \notin Edits /\ p # Original /\ p # Symlink
  /\ Edits \subseteq Inodes /\ Symlink \notin Inodes
BY ProcsAssumption, SymlinkAssumption, VersionsAssumption DEF Inodes, Versions

\* A file just created is a file.
LEMMA NewFileType ==
  \A u \in Users : NewFile(u) \in Files
BY DEF NewFile, Files, Contents, Modes

\* A file whose data, owner or mode is replaced is still a file.
LEMMA FilesType ==
  ASSUME NEW f \in Files
  PROVE  /\ f.data \in Contents /\ f.owner \in Users /\ f.mode \in Modes
         /\ \A d \in Contents : [f EXCEPT !.data = d] \in Files
         /\ \A u \in Users : [f EXCEPT !.owner = u] \in Files
         /\ \A m \in Modes : [f EXCEPT !.mode = m] \in Files
BY DEF Files

(***************************************************************************)
(* The manifest resolves through the link, and is a whole file.            *)
(***************************************************************************)
LEMMA ManifestFacts ==
  ASSUME IInv
  PROVE  /\ Manifest \in Files /\ Manifest.data \in held /\ Manifest.data \in Whole
         /\ DurableManifest \in Files /\ DurableManifest.data \in held
         /\ DurableManifest.data \in Whole
         /\ dir["manifest"] \in Inodes /\ diskDir["manifest"] \in Inodes
         /\ \A n \in Names : EvalSymlinks(n) = "manifest" /\ Found(n) = Manifest
<1>1. dir["manifest"] # Symlink
  BY InodeNames DEF IInv, Sound
<1> QED
  BY <1>1 DEF IInv, Sound, TypeOK, Manifest, DurableManifest, LinkSurvives, EvalSymlinks, Names, Found

-----------------------------------------------------------------------------
(***************************************************************************)
(* A step of p, or about p's inode, that leaves the directory entry of the *)
(* manifest alone: what is found there stays sound and the other runs keep *)
(* what they know.  It remains to show what p itself knows.                *)
(***************************************************************************)
LEMMA OwnStep ==
  ASSUME IInv, TypeOK', NEW p \in Procs,
         \A i \in Inodes \ {p} : file'[i] = file[i] /\ disk'[i] = disk[i],
         Linked(p) => file'[p] = file[p] /\ disk'[p] = disk[p],
         UNCHANGED <<dir, diskDir, diskTemps, user, losses, held>>,
         \A q \in Procs \ {p} : /\ pc'[q] = pc[q] /\ src'[q] = src[q]
                                /\ target'[q] = target[q] /\ info'[q] = info[q]
                                /\ result'[q] = result[q] /\ (q \in temps' <=> q \in temps),
         result'[p] = "ok" => result[p] = "ok" \/ Manifest.data.formatted,
         Progress(p)', Outcome(p)'
  PROVE  IInv'
<1> USE DEF IInv
<1>1. LinkSurvives'
  BY DEF LinkSurvives
<1>2. /\ file'[Original] = file[Original] /\ disk'[Original] = disk[Original]
      /\ file'[dir["manifest"]] = file[dir["manifest"]]
      /\ disk'[dir["manifest"]] = disk[dir["manifest"]]
      /\ file'[diskDir["manifest"]] = file[diskDir["manifest"]]
      /\ disk'[diskDir["manifest"]] = disk[diskDir["manifest"]]
  BY InodeNames DEF Linked, Sound
<1>3. Sound(dir["manifest"])' /\ Sound(diskDir["manifest"])'
  BY <1>2 DEF Sound
<1>4. ASSUME NEW q \in Procs \ {p} PROVE Progress(q)' /\ Outcome(q)'
  <2>1. file'[q] = file[q] /\ disk'[q] = disk[q]
    BY InodeNames
  <2>2. Progress(q)'
    BY <1>2, <2>1 DEF Progress
  <2>3. Outcome(q)'
    BY <1>2, <2>1 DEF Outcome, Linked
  <2> QED
    BY <2>2, <2>3
<1>5. SuccessIsFormatted'
  BY <1>2 DEF SuccessIsFormatted, Manifest
<1> QED
  BY <1>1, <1>2, <1>3, <1>4, <1>5

(***************************************************************************)
(* A run before its rename is not the manifest.                            *)
(***************************************************************************)
LEMMA NotLinked ==
  ASSUME IInv, NEW p \in Procs, pc[p] \in Early \cup Late
  PROVE  ~Linked(p) /\ result[p] = "none"
BY DEF IInv, Outcome

\* A call that fails before there is a temporary file keeps the invariant (the early returns of writeFile).
LEMMA GiveUpStep ==
  ASSUME IInv, NEW p \in Procs, NEW at \in Early \ {"start"}, GiveUp(p, at)
  PROVE  IInv'
<1>1. pc[p] = at /\ ~Linked(p) /\ result[p] = "none"
  BY NotLinked DEF GiveUp, Result, Goes
<1>2. TypeOK'
  BY DEF IInv, TypeOK, GiveUp, Result, Goes, storage, PCs
<1>3. Progress(p)'
  BY DEF IInv, TypeOK, GiveUp, Result, Goes, Progress, Early, Late, Written
<1>4. Outcome(p)'
  BY <1>1 DEF IInv, TypeOK, GiveUp, Result, Goes, Outcome, Early, Late, Linked, storage
<1> QED
  BY <1>1, <1>2, <1>3, <1>4, OwnStep DEF IInv, TypeOK, GiveUp, Result, Goes, storage

\* A call that fails after that keeps it too (the returns behind the deferred Remove).
LEMMA AbortStep ==
  ASSUME IInv, NEW p \in Procs, NEW at \in Late, Abort(p, at)
  PROVE  IInv'
<1>1. pc[p] = at /\ ~Linked(p) /\ result[p] = "none"
  BY NotLinked DEF Abort, Result, Goes
<1>2. TypeOK'
  BY DEF IInv, TypeOK, Abort, Result, Goes, storage, PCs
<1>3. Progress(p)'
  BY DEF IInv, TypeOK, Abort, Result, Goes, Progress, Early, Late, Written
<1>4. Outcome(p)'
  BY <1>1 DEF IInv, TypeOK, Abort, Result, Goes, Outcome, Early, Late, Linked, storage
<1> QED
  BY <1>1, <1>2, <1>3, <1>4, OwnStep DEF IInv, TypeOK, Abort, Result, Goes, storage

\* Reading the manifest keeps the invariant: what was read is a content the manifest had.
LEMMA ReadStep ==
  ASSUME IInv, NEW p \in Procs, Read(p)
  PROVE  IInv'
<1> DEFINE data == Manifest.data
<1>1. pc[p] = "start" /\ ~Linked(p) /\ result[p] = "none"
  BY NotLinked DEF Read, Result, Goes, Early
<1>2. src' = [src EXCEPT ![p] = data] /\ src'[p] = data /\ data \in held /\ data \in Whole
  <2>1. Found(path[p]) = Manifest
    BY ManifestFacts DEF IInv, TypeOK
  <2> QED
    BY <2>1, ManifestFacts DEF Read, IInv, TypeOK
<1>3. UNCHANGED <<storage, user, path, target, info, losses, held>>
  BY DEF Read
<1>4. \E r \in {"error", "skipped", "ok", "none"}, to \in {"done", "resolve"} :
        /\ pc' = [pc EXCEPT ![p] = to]
        /\ result' = [result EXCEPT ![p] = r]
        /\ to = "resolve" <=> r = "none"
        /\ r = "ok" => data.formatted
  <2>1. CASE Result(p, "start", "done", "error")
    BY <2>1 DEF Result, Goes
  <2>2. CASE Result(p, "start", "done", "skipped")
    BY <2>2 DEF Result, Goes
  <2>3. CASE Settled(src'[p]) /\ Result(p, "start", "done", "ok")
    BY <2>3, <1>2 DEF Result, Goes, Settled
  <2>4. CASE Goes(p, "start", "resolve") /\ UNCHANGED result
    BY <2>4, <1>1 DEF Goes, IInv, TypeOK
  <2> QED
    BY <2>1, <2>2, <2>3, <2>4 DEF Read
<1>5. TypeOK'
  BY <1>2, <1>3, <1>4, WholeContents DEF IInv, TypeOK, storage, PCs
<1>6. Progress(p)'
  BY <1>2, <1>3, <1>4 DEF IInv, TypeOK, Progress, Early, Late, Written
<1>7. Outcome(p)'
  BY <1>1, <1>3, <1>4 DEF IInv, TypeOK, Outcome, Early, Late, Linked, storage
<1> QED
  BY <1>1, <1>2, <1>3, <1>4, <1>5, <1>6, <1>7, OwnStep DEF IInv, TypeOK, storage

\* EvalSymlinks keeps the invariant: the target is the manifest, not the link.
LEMMA ResolveStep ==
  ASSUME IInv, NEW p \in Procs, Resolve(p)
  PROVE  IInv'
<1>1. CASE GiveUp(p, "resolve")
  BY <1>1, GiveUpStep DEF Early, Late
<1>2. CASE ~GiveUp(p, "resolve")
  <2>1. pc[p] = "resolve" /\ ~Linked(p) /\ result[p] = "none"
    BY <1>2, NotLinked DEF Resolve, Goes, Early, Late
  <2>0. EvalSymlinks(path[p]) = "manifest" /\ "manifest" \in Names
    BY ManifestFacts DEF IInv, TypeOK, Names
  <2>2. TypeOK'
    BY <1>2, <2>1, <2>0 DEF Resolve, Goes, IInv, TypeOK, storage, PCs
  <2>3. Progress(p)'
    BY <1>2, <2>1, <2>0
       DEF Resolve, Goes, IInv, TypeOK, Progress, Early, Late, Written, storage
  <2>4. Outcome(p)'
    BY <1>2, <2>1, ManifestFacts
       DEF Resolve, Goes, IInv, TypeOK, Outcome, Early, Late, Linked, storage
  <2> QED
    BY <1>2, <2>1, <2>2, <2>3, <2>4, InodeNames, OwnStep
       DEF Resolve, Goes, IInv, TypeOK, storage
<1> QED
  BY <1>1, <1>2

\* Stat keeps the invariant: what it saw has the manifest's owner and mode.
LEMMA StatStep ==
  ASSUME IInv, NEW p \in Procs, Stat(p)
  PROVE  IInv'
<1>1. CASE GiveUp(p, "stat")
  BY <1>1, GiveUpStep DEF Early, Late
<1>2. CASE ~GiveUp(p, "stat")
  <2>1. pc[p] = "stat" /\ ~Linked(p) /\ result[p] = "none"
    BY <1>2, NotLinked DEF Stat, Goes, Early, Late
  <2>0. target[p] = "manifest" /\ Found(target[p]) = Manifest /\ Manifest \in Files
    BY <2>1, ManifestFacts DEF IInv, Progress, Early, Names
  <2>2. TypeOK'
    BY <1>2, <2>1, <2>0 DEF Stat, Goes, IInv, TypeOK, storage, PCs
  <2>3. Progress(p)'
    BY <1>2, <2>1, <2>0, ManifestFacts
       DEF Stat, Goes, IInv, TypeOK, Progress, Early, Late, Written, storage, Manifest, Sound, SameAttributes
  <2>4. Outcome(p)'
    BY <1>2, <2>1, ManifestFacts
       DEF Stat, Goes, IInv, TypeOK, Outcome, Early, Late, Linked, storage
  <2> QED
    BY <1>2, <2>1, <2>2, <2>3, <2>4, InodeNames, OwnStep
       DEF Stat, Goes, IInv, TypeOK, storage
<1> QED
  BY <1>1, <1>2

\* The write probe keeps the invariant: past it the user may write the manifest.
LEMMA ProbeStep ==
  ASSUME IInv, NEW p \in Procs, Probe(p)
  PROVE  IInv'
<1>1. CASE GiveUp(p, "probe")
  BY <1>1, GiveUpStep DEF Early, Late
<1>2. CASE ~GiveUp(p, "probe")
  <2>1. pc[p] = "probe" /\ ~Linked(p) /\ result[p] = "none"
    BY <1>2, NotLinked DEF Probe, Goes, Early, Late
  <2>0. target[p] = "manifest" /\ Found(target[p]) = Manifest
    BY <2>1, ManifestFacts DEF IInv, Progress, Early, Names
  <2>2. TypeOK'
    BY <1>2, <2>1, ManifestFacts DEF Probe, Goes, IInv, TypeOK, storage, PCs
  <2>3. Progress(p)'
    BY <1>2, <2>1, <2>0, ManifestFacts
       DEF Probe, Goes, IInv, TypeOK, Progress, Early, Late, Written, storage, Manifest, Sound, SameAttributes, CanWrite
  <2>4. Outcome(p)'
    BY <1>2, <2>1, ManifestFacts
       DEF Probe, Goes, IInv, TypeOK, Outcome, Early, Late, Linked, storage
  <2> QED
    BY <1>2, <2>1, <2>2, <2>3, <2>4, InodeNames, OwnStep
       DEF Probe, Goes, IInv, TypeOK, storage
<1> QED
  BY <1>1, <1>2

\* Creating the temporary file keeps the invariant.
LEMMA CreateTempStep ==
  ASSUME IInv, NEW p \in Procs, CreateTemp(p)
  PROVE  IInv'
<1>1. CASE GiveUp(p, "create")
  BY <1>1, GiveUpStep DEF Early, Late
<1>2. CASE ~GiveUp(p, "create")
  <2>1. pc[p] = "create" /\ ~Linked(p) /\ result[p] = "none"
    BY <1>2, NotLinked DEF CreateTemp, Goes, Early, Late
  <2>2. TypeOK'
    BY <1>2, <2>1, InodeNames, NewFileType DEF CreateTemp, Goes, IInv, TypeOK, storage, PCs
  <2>3. Progress(p)'
    BY <1>2, <2>1, InodeNames, NewFileType
       DEF CreateTemp, Goes, IInv, TypeOK, Progress, Early, Late, Written, storage, SameAttributes, CanWrite
  <2>4. Outcome(p)'
    BY <1>2, <2>1, InodeNames, NewFileType
       DEF CreateTemp, Goes, IInv, TypeOK, Outcome, Early, Late, Linked, storage
  <2> QED
    BY <1>2, <2>1, <2>2, <2>3, <2>4, InodeNames, OwnStep
       DEF CreateTemp, Goes, IInv, TypeOK, storage
<1> QED
  BY <1>1, <1>2

\* preserveOwner keeps the invariant: past it the temporary file has the owner.
LEMMA PreserveOwnerStep ==
  ASSUME IInv, NEW p \in Procs, PreserveOwner(p)
  PROVE  IInv'
<1>1. CASE Abort(p, "owner")
  BY <1>1, AbortStep DEF Late
<1>2. CASE ~Abort(p, "owner")
  <2>1. pc[p] = "owner" /\ ~Linked(p) /\ result[p] = "none"
    BY <1>2, NotLinked DEF PreserveOwner, Goes, Late
  <2>2. /\ UNCHANGED <<disk, dir, diskDir, temps, diskTemps, user, path, src, target, info,
                       result, losses, held>>
        /\ file' = [file EXCEPT ![p].owner = info[p].owner]
    BY <1>2 DEF PreserveOwner
  <2>3. file[p] \in Files /\ info[p] \in Files /\ p \in Inodes
    BY InodeNames DEF IInv, TypeOK
  <2>4. /\ file' \in [Inodes -> Files]
        /\ file'[p].owner = info[p].owner
        /\ \A i \in Inodes \ {p} : file'[i] = file[i]
    BY <2>2, <2>3, FilesType, WholeContents, <2>1 DEF IInv, TypeOK
  <2>5. TypeOK'
    BY <1>2, <2>2, <2>4 DEF PreserveOwner, Goes, IInv, TypeOK, PCs
  <2>6. file'[Original] = file[Original]
    BY <2>4, InodeNames
  <2>7. Progress(p)'
    BY <1>2, <2>1, <2>2, <2>4, <2>6
       DEF PreserveOwner, Goes, IInv, TypeOK, Progress, Early, Late, Written, SameAttributes, CanWrite
  <2>8. Outcome(p)'
    BY <1>2, <2>1, <2>2, <2>6
       DEF PreserveOwner, Goes, IInv, TypeOK, Outcome, Early, Late, Linked, CanWrite
  <2> QED
    BY <1>2, <2>1, <2>2, <2>4, <2>5, <2>7, <2>8, OwnStep DEF PreserveOwner, Goes, IInv, TypeOK
<1> QED
  BY <1>1, <1>2

\* Chmod keeps the invariant: past it the temporary file has the mode as well.
LEMMA ChmodStep ==
  ASSUME IInv, NEW p \in Procs, Chmod(p)
  PROVE  IInv'
<1>1. CASE Abort(p, "chmod")
  BY <1>1, AbortStep DEF Late
<1>2. CASE ~Abort(p, "chmod")
  <2>1. pc[p] = "chmod" /\ ~Linked(p) /\ result[p] = "none"
    BY <1>2, NotLinked DEF Chmod, Goes, Late
  <2>2. /\ UNCHANGED <<disk, dir, diskDir, temps, diskTemps, user, path, src, target, info,
                       result, losses, held>>
        /\ file' = [file EXCEPT ![p].mode = info[p].mode]
    BY <1>2 DEF Chmod
  <2>3. file[p] \in Files /\ info[p] \in Files /\ p \in Inodes
    BY InodeNames DEF IInv, TypeOK
  <2>4. /\ file' \in [Inodes -> Files]
        /\ file'[p].mode = info[p].mode /\ file'[p].owner = file[p].owner
        /\ \A i \in Inodes \ {p} : file'[i] = file[i]
    BY <2>2, <2>3, FilesType, WholeContents, <2>1 DEF IInv, TypeOK
  <2>5. TypeOK'
    BY <1>2, <2>2, <2>4 DEF Chmod, Goes, IInv, TypeOK, PCs
  <2>6. file'[Original] = file[Original]
    BY <2>4, InodeNames
  <2>7. Progress(p)'
    BY <1>2, <2>1, <2>2, <2>4, <2>6
       DEF Chmod, Goes, IInv, TypeOK, Progress, Early, Late, Written, SameAttributes, CanWrite
  <2>8. Outcome(p)'
    BY <1>2, <2>1, <2>2, <2>6
       DEF Chmod, Goes, IInv, TypeOK, Outcome, Early, Late, Linked, CanWrite
  <2> QED
    BY <1>2, <2>1, <2>2, <2>4, <2>5, <2>7, <2>8, OwnStep DEF Chmod, Goes, IInv, TypeOK
<1> QED
  BY <1>1, <1>2

\* The end of Write keeps the invariant: the temporary file holds what was read, formatted.
LEMMA EndWriteStep ==
  ASSUME IInv, NEW p \in Procs, EndWrite(p)
  PROVE  IInv'
<1>1. CASE Abort(p, "writing")
  BY <1>1, AbortStep DEF Late
<1>2. CASE ~Abort(p, "writing")
  <2>1. pc[p] = "writing" /\ ~Linked(p) /\ result[p] = "none"
    BY <1>2, NotLinked DEF EndWrite, Goes, Late
  <2>2. /\ UNCHANGED <<disk, dir, diskDir, temps, diskTemps, user, path, src, target, info,
                       result, losses, held>>
        /\ file' = [file EXCEPT ![p].data = Formatted(src[p])]
    BY <1>2 DEF EndWrite
  <2>3. file[p] \in Files /\ info[p] \in Files /\ p \in Inodes
    BY InodeNames DEF IInv, TypeOK
  <2>4. /\ file' \in [Inodes -> Files]
        /\ file'[p].data = Formatted(src[p])
        /\ file'[p].owner = file[p].owner /\ file'[p].mode = file[p].mode
        /\ \A i \in Inodes \ {p} : file'[i] = file[i]
    BY <2>2, <2>3, FilesType, WholeContents, <2>1 DEF IInv, TypeOK, Progress, Late
  <2>5. TypeOK'
    BY <1>2, <2>2, <2>4 DEF EndWrite, Goes, IInv, TypeOK, PCs
  <2>6. file'[Original] = file[Original]
    BY <2>4, InodeNames
  <2>7. Progress(p)'
    BY <1>2, <2>1, <2>2, <2>4, <2>6
       DEF EndWrite, Goes, IInv, TypeOK, Progress, Early, Late, Written, SameAttributes, CanWrite
  <2>8. Outcome(p)'
    BY <1>2, <2>1, <2>2, <2>6
       DEF EndWrite, Goes, IInv, TypeOK, Outcome, Early, Late, Linked, CanWrite
  <2> QED
    BY <1>2, <2>1, <2>2, <2>4, <2>5, <2>7, <2>8, OwnStep DEF EndWrite, Goes, IInv, TypeOK
<1> QED
  BY <1>1, <1>2

\* Sync keeps the invariant: the durable copy of the temporary file is the cached one.
LEMMA SyncStep ==
  ASSUME IInv, NEW p \in Procs, Sync(p)
  PROVE  IInv'
<1>1. CASE Abort(p, "sync")
  BY <1>1, AbortStep DEF Early, Late
<1>2. CASE ~Abort(p, "sync")
  <2>1. pc[p] = "sync" /\ ~Linked(p) /\ result[p] = "none"
    BY <1>2, NotLinked DEF Sync, Goes, Early, Late
  <2>2. TypeOK'
    BY <1>2, <2>1, InodeNames DEF Sync, Goes, IInv, TypeOK, storage, PCs
  <2>3. Progress(p)'
    BY <1>2, <2>1, InodeNames
       DEF Sync, Goes, IInv, TypeOK, Progress, Early, Late, Written, storage, SameAttributes, CanWrite
  <2>4. Outcome(p)'
    BY <1>2, <2>1, InodeNames
       DEF Sync, Goes, IInv, TypeOK, Outcome, Early, Late, Linked, storage
  <2> QED
    BY <1>2, <2>1, <2>2, <2>3, <2>4, InodeNames, OwnStep
       DEF Sync, Goes, IInv, TypeOK, storage
<1> QED
  BY <1>1, <1>2

\* Close keeps the invariant.
LEMMA CloseStep ==
  ASSUME IInv, NEW p \in Procs, Close(p)
  PROVE  IInv'
<1>1. CASE Abort(p, "close")
  BY <1>1, AbortStep DEF Early, Late
<1>2. CASE ~Abort(p, "close")
  <2>1. pc[p] = "close" /\ ~Linked(p) /\ result[p] = "none"
    BY <1>2, NotLinked DEF Close, Goes, Early, Late
  <2>2. TypeOK'
    BY <1>2, <2>1, InodeNames DEF Close, Goes, IInv, TypeOK, storage, PCs
  <2>3. Progress(p)'
    BY <1>2, <2>1, InodeNames
       DEF Close, Goes, IInv, TypeOK, Progress, Early, Late, Written, storage, SameAttributes, CanWrite
  <2>4. Outcome(p)'
    BY <1>2, <2>1, InodeNames
       DEF Close, Goes, IInv, TypeOK, Outcome, Early, Late, Linked, storage
  <2> QED
    BY <1>2, <2>1, <2>2, <2>3, <2>4, InodeNames, OwnStep
       DEF Close, Goes, IInv, TypeOK, storage
<1> QED
  BY <1>1, <1>2

\* The beginning of Write keeps the invariant: only the temporary file is partial.
LEMMA BeginWriteStep ==
  ASSUME IInv, NEW p \in Procs, BeginWrite(p)
  PROVE  IInv'
<1>1. pc[p] = "write" /\ ~Linked(p) /\ result[p] = "none"
  BY NotLinked DEF BeginWrite, Goes, Late
<1>2. /\ UNCHANGED <<disk, dir, diskDir, temps, diskTemps, user, path, src, target, info,
                     result, losses, held>>
      /\ file' = [file EXCEPT ![p].data = Partial]
  BY DEF BeginWrite
<1>3. file[p] \in Files /\ p \in Inodes /\ Partial \in Contents
  BY InodeNames DEF IInv, TypeOK, Contents
<1>4. /\ file' \in [Inodes -> Files]
      /\ file'[p].owner = file[p].owner /\ file'[p].mode = file[p].mode
      /\ \A i \in Inodes \ {p} : file'[i] = file[i]
  BY <1>2, <1>3, FilesType DEF IInv, TypeOK
<1>5. TypeOK'
  BY <1>2, <1>4 DEF BeginWrite, Goes, IInv, TypeOK, PCs
<1>6. file'[Original] = file[Original]
  BY <1>4, InodeNames
<1>7. Progress(p)'
  BY <1>1, <1>2, <1>4, <1>6
     DEF BeginWrite, Goes, IInv, TypeOK, Progress, Early, Late, Written, SameAttributes, CanWrite
<1>8. Outcome(p)'
  BY <1>1, <1>2, <1>6
     DEF BeginWrite, Goes, IInv, TypeOK, Outcome, Early, Late, Linked, CanWrite
<1> QED
  BY <1>1, <1>2, <1>4, <1>5, <1>7, <1>8, OwnStep DEF BeginWrite, Goes, IInv, TypeOK

\* The deferred Remove keeps the invariant, and the temporary name is gone.
LEMMA CleanupStep ==
  ASSUME IInv, NEW p \in Procs, Cleanup(p)
  PROVE  IInv'
<1>1. pc[p] = "cleanup" /\ pc' = [pc EXCEPT ![p] = "done"] /\ temps' = temps \ {p}
  BY DEF Cleanup, Goes
<1>2. UNCHANGED <<file, disk, dir, diskDir, diskTemps, user, path, src, target, info,
                  result, losses, held>>
  BY DEF Cleanup
<1>3. TypeOK'
  BY <1>1, <1>2 DEF IInv, TypeOK, PCs
<1>4. Progress(p)'
  BY <1>1, <1>2 DEF IInv, TypeOK, Progress, Early, Late, Written
<1>5. Outcome(p)'
  BY <1>1, <1>2 DEF IInv, TypeOK, Outcome, Early, Late, Linked
<1> QED
  BY <1>1, <1>2, <1>3, <1>4, <1>5, OwnStep DEF IInv, TypeOK

\* A kill keeps the invariant.
LEMMA KillStep ==
  ASSUME IInv, NEW p \in Procs, Kill(p)
  PROVE  IInv'
<1>1. /\ pc' = [pc EXCEPT ![p] = "killed"] /\ pc[p] \notin {"start", "done"}
      /\ src' = [src EXCEPT ![p] = Empty]
      /\ info' = [info EXCEPT ![p] = NewFile(Root)]
  BY DEF Kill, Die, Busy, IInv, TypeOK
<1>2. UNCHANGED <<storage, user, path, target, result, losses, held>>
  BY DEF Kill, Die
<1>3. TypeOK'
  BY <1>1, <1>2, NewFileType, RootAssumption DEF IInv, TypeOK, PCs, Contents, storage
<1>4. Progress(p)'
  BY <1>1, <1>2 DEF IInv, TypeOK, Progress, Early, Late, Written
<1>5. Outcome(p)'
  BY <1>1, <1>2 DEF IInv, TypeOK, Outcome, Early, Late, Linked, storage
<1> QED
  BY <1>1, <1>2, <1>3, <1>4, <1>5, OwnStep DEF IInv, TypeOK, storage

(***************************************************************************)
(* The rename puts p's file in the place of the manifest: it is whole,     *)
(* synced, and has the manifest's owner and mode.                          *)
(***************************************************************************)
LEMMA RenameFacts ==
  ASSUME IInv, NEW p \in Procs, Rename(p), ~Abort(p, "rename")
  PROVE  /\ pc[p] = "rename" /\ pc' = [pc EXCEPT ![p] = "cleanup"]
         /\ result' = [result EXCEPT ![p] = "ok"]
         /\ dir' = [dir EXCEPT !["manifest"] = p] /\ dir'["manifest"] = p
         /\ temps' = temps \ {p}
         /\ held' = held \cup {file[p].data}
         /\ UNCHANGED <<file, disk, diskDir, diskTemps, user, path, src, target, info, losses>>
         /\ src[p] \in held /\ file[p].data = Formatted(src[p])
         /\ file[p].data \in Whole /\ file[p].data.formatted
         /\ disk[p] = file[p] /\ SameAttributes(file[p], file[Original])
         /\ CanWrite(user[p], file[Original])
<1>1. pc[p] = "rename" /\ target[p] = "manifest" /\ "manifest" \in Names
  BY DEF Rename, Result, Goes, IInv, Progress, Late, Names
<1>2. dir' = [dir EXCEPT !["manifest"] = p] /\ dir'["manifest"] = p
  BY <1>1 DEF Rename, IInv, TypeOK
<1>3. /\ src[p] \in held /\ file[p].data = Formatted(src[p]) /\ disk[p] = file[p]
      /\ SameAttributes(file[p], file[Original]) /\ CanWrite(user[p], file[Original])
  BY <1>1 DEF IInv, Progress, Late, Written, SameAttributes
<1>4. file[p].data \in Whole /\ file[p].data.formatted
  BY <1>3, WholeContents DEF IInv, TypeOK
<1> QED
  BY <1>1, <1>2, <1>3, <1>4 DEF Rename, Result, Goes

\* Rename keeps the invariant: the manifest is now the run's synced file.
LEMMA RenameStep ==
  ASSUME IInv, NEW p \in Procs, Rename(p)
  PROVE  IInv'
<1>1. CASE Abort(p, "rename")
  BY <1>1, AbortStep DEF Late
<1>2. CASE ~Abort(p, "rename")
  <2> USE <1>2, RenameFacts
  <2>1. TypeOK' /\ LinkSurvives'
    BY InodeNames DEF IInv, TypeOK, LinkSurvives, PCs, Names
  <2>2. Sound(dir["manifest"])' /\ Sound(diskDir["manifest"])'
    BY InodeNames DEF IInv, Sound
  <2>3. ASSUME NEW q \in Procs PROVE Progress(q)'
    <3>1. CASE q = p
      BY <3>1 DEF IInv, TypeOK, Progress, Early, Late, Written
    <3>2. CASE q # p
      BY <3>2 DEF IInv, TypeOK, Progress
    <3> QED
      BY <3>1, <3>2
  <2>4. ASSUME NEW q \in Procs PROVE Outcome(q)'
    <3>1. CASE q = p
      BY <3>1 DEF IInv, TypeOK, Outcome, Linked, Early, Late
    <3>2. CASE q # p
      BY <3>2 DEF IInv, TypeOK, Outcome, Linked
    <3> QED
      BY <3>1, <3>2
  <2>5. SuccessIsFormatted'
    BY DEF SuccessIsFormatted, Manifest
  <2> QED
    BY <2>1, <2>2, <2>3, <2>4, <2>5 DEF IInv
<1> QED
  BY <1>1, <1>2

-----------------------------------------------------------------------------
(* The environment. *)

\* Writing an inode back keeps the invariant: what the manifest's entry names is on disk already.
LEMMA WriteBackStep ==
  ASSUME IInv, NEW i \in Inodes, WriteBack(i)
  PROVE  IInv'
<1>1. /\ disk' = [disk EXCEPT ![i] = file[i]]
      /\ UNCHANGED <<file, dir, diskDir, temps, diskTemps, user, path, pc, src, target, info,
                     result, losses, held>>
  BY DEF WriteBack
<1>2. \A j \in Inodes : disk[j] = file[j] => disk'[j] = file[j]
  BY <1>1 DEF IInv, TypeOK
<1>3. TypeOK' /\ LinkSurvives'
  BY <1>1 DEF IInv, TypeOK, LinkSurvives
<1>4. Sound(dir["manifest"])' /\ Sound(diskDir["manifest"])' /\ (disk[Original] = file[Original])'
  BY <1>1, <1>2, InodeNames DEF IInv, Sound
<1>5. ASSUME NEW q \in Procs PROVE Progress(q)' /\ Outcome(q)'
  BY <1>1, <1>2, InodeNames DEF IInv, Progress, Outcome, Linked
<1>6. SuccessIsFormatted'
  BY <1>1 DEF IInv, SuccessIsFormatted, Manifest
<1> QED
  BY <1>3, <1>4, <1>5, <1>6 DEF IInv

\* Writing the directory back keeps the invariant: the durable entry becomes the cached, sound one.
LEMMA WriteBackDirStep ==
  ASSUME IInv, WriteBackDir
  PROVE  IInv'
<1>1. /\ diskDir' = dir /\ diskTemps' = temps
      /\ UNCHANGED <<file, disk, dir, temps, user, path, pc, src, target, info, result,
                     losses, held>>
  BY DEF WriteBackDir
<1>2. TypeOK' /\ LinkSurvives'
  BY <1>1 DEF IInv, TypeOK, LinkSurvives
<1>3. Sound(dir["manifest"])' /\ Sound(diskDir["manifest"])'
  BY <1>1 DEF IInv, Sound
<1>4. ASSUME NEW q \in Procs PROVE Progress(q)' /\ Outcome(q)'
  BY <1>1 DEF IInv, Progress, Outcome, Linked
<1>5. SuccessIsFormatted'
  BY <1>1 DEF IInv, SuccessIsFormatted, Manifest
<1> QED
  BY <1>1, <1>2, <1>3, <1>4, <1>5 DEF IInv

\* A power loss keeps the invariant: what it reverts to is sound.
LEMMA PowerLossStep ==
  ASSUME IInv, PowerLoss
  PROVE  IInv'
<1>1. /\ file' = disk /\ dir' = diskDir /\ temps' = diskTemps
      /\ losses' = losses + 1 /\ losses < MaxLosses
      /\ held' = held \cup {DurableManifest.data} /\ held' = held
      /\ UNCHANGED <<disk, diskDir, diskTemps, user, path, target, result>>
  BY ManifestFacts DEF PowerLoss, Die
<1>2. /\ pc' = [p \in Procs |-> IF Busy(p) THEN "killed" ELSE pc[p]]
      /\ src' = [p \in Procs |-> IF Busy(p) THEN Empty ELSE src[p]]
      /\ info' = [p \in Procs |-> IF Busy(p) THEN NewFile(Root) ELSE info[p]]
  BY DEF PowerLoss, Die, IInv, TypeOK
<1>3. losses' \in 0..MaxLosses /\ losses' # 0
  BY <1>1, LossesAssumption DEF IInv, TypeOK
<1>4. TypeOK' /\ LinkSurvives'
  BY <1>1, <1>2, <1>3, NewFileType, RootAssumption
     DEF IInv, TypeOK, LinkSurvives, PCs, Contents
<1>5. /\ Sound(dir["manifest"])' /\ Sound(diskDir["manifest"])'
      /\ (disk[Original] = file[Original])'
  BY <1>1 DEF IInv, Sound, SameAttributes
<1>6. ASSUME NEW q \in Procs PROVE Progress(q)' /\ Outcome(q)'
  <2>1. pc'[q] \in {"start", "done", "killed"} /\ (pc'[q] = "killed" \/ pc'[q] = pc[q])
    BY <1>2 DEF Busy
  <2>2. Progress(q)'
    BY <2>1 DEF Progress, Early, Late, Written
  <2>3. file'[Original] = file[Original]
    BY <1>1 DEF IInv
  <2>4. Outcome(q)'
    BY <1>1, <1>3, <2>1, <2>3 DEF IInv, Outcome, Linked, Early, Late
  <2> QED
    BY <2>2, <2>4
<1>7. SuccessIsFormatted'
  BY <1>3 DEF SuccessIsFormatted
<1> QED
  BY <1>4, <1>5, <1>6, <1>7 DEF IInv

(***************************************************************************)
(* The editor's new inode is nobody's temporary file and was not in use.   *)
(***************************************************************************)
LEMMA SaveStep ==
  ASSUME IInv, NEW v \in Edits, Save(v)
  PROVE  IInv'
<1>1. /\ file[v].data = Empty
      /\ file' = [file EXCEPT ![v] = [Manifest EXCEPT !.data = Raw(v)]]
      /\ disk' = [disk EXCEPT ![v] = file'[v]]
      /\ dir' = [dir EXCEPT !["manifest"] = v]
      /\ held' = held \cup {Raw(v)}
      /\ UNCHANGED <<diskDir, temps, diskTemps, user, path, pc, src, target, info, result,
                     losses>>
  BY DEF Save
<1>2. /\ v \in Inodes /\ v # Original /\ v \notin Procs /\ v # Symlink
      /\ Raw(v) \in Whole /\ Raw(v) \in Contents /\ v \in Versions
      /\ Manifest \in Files
  BY InodeNames, WholeContents, ManifestFacts DEF Versions
<1>3. /\ file'[v] = [Manifest EXCEPT !.data = Raw(v)] /\ file'[v] \in Files
      /\ disk'[v] = file'[v]
      /\ \A i \in Inodes \ {v} : file'[i] = file[i] /\ disk'[i] = disk[i]
  BY <1>1, <1>2, FilesType DEF IInv, TypeOK
<1>4. dir'["manifest"] = v /\ dir'["alias"] = dir["alias"]
  BY <1>1 DEF IInv, TypeOK, Names
<1>5. TypeOK' /\ LinkSurvives'
  BY <1>1, <1>2, <1>3, <1>4 DEF IInv, TypeOK, LinkSurvives
<1>6. /\ file'[Original] = file[Original] /\ disk'[Original] = disk[Original]
      /\ diskDir["manifest"] \in Inodes \ {v}
  BY <1>1, <1>2, <1>3, InodeNames, ManifestFacts, WholeContents DEF DurableManifest, IInv, Sound
<1>7. SameAttributes(file'[v], file[Original]) /\ file'[v].data = Raw(v)
  BY <1>2, <1>3 DEF IInv, Sound, SameAttributes, Manifest, Files
<1>8. Sound(dir["manifest"])' /\ Sound(diskDir["manifest"])'
  BY <1>1, <1>2, <1>3, <1>4, <1>6, <1>7 DEF IInv, Sound, SameAttributes
<1>9. ASSUME NEW q \in Procs PROVE Progress(q)' /\ Outcome(q)'
  <2>1. file'[q] = file[q] /\ disk'[q] = disk[q] /\ q # v
    BY <1>2, <1>3, InodeNames
  <2>2. Progress(q)'
    BY <1>1, <1>6, <2>1 DEF IInv, Progress
  <2>3. Outcome(q)'
    BY <1>1, <1>4, <1>6, <2>1 DEF IInv, Outcome, Linked
  <2> QED
    BY <2>2, <2>3
<1>10. SuccessIsFormatted'
  <2>1. Raw(v) \notin [version : {Original}, formatted : BOOLEAN]
    BY <1>2 DEF Raw
  <2> QED
    BY <1>1, <2>1 DEF SuccessIsFormatted
<1> QED
  BY <1>5, <1>6, <1>8, <1>9, <1>10 DEF IInv

-----------------------------------------------------------------------------
\* The inductive invariant holds initially.
LEMMA InitIInv == Init => IInv
<1> SUFFICES ASSUME Init PROVE IInv
  OBVIOUS
<1>1. PICK owner \in Users, mode \in Modes, formatted \in BOOLEAN :
        file = [i \in Inodes |->
                  IF i = Original
                    THEN [data |-> [version |-> Original, formatted |-> formatted],
                          owner |-> owner, mode |-> mode]
                    ELSE NewFile(Root)]
  BY DEF Init
<1> DEFINE original == [data |-> [version |-> Original, formatted |-> formatted],
                        owner |-> owner, mode |-> mode]
<1>2. original \in Files /\ original.data \in Whole
  BY DEF Files, Contents, Whole, Versions
<1>3. file \in [Inodes -> Files] /\ file[Original] = original
  BY <1>1, <1>2, NewFileType, RootAssumption, InodeNames
<1>4. /\ dir["manifest"] = Original /\ dir["alias"] = Symlink
      /\ dir \in [Names -> Inodes \cup {Symlink}]
      /\ diskDir = dir /\ disk = file /\ temps = {} /\ diskTemps = {}
  BY InodeNames DEF Init, Names
<1>5. held = {original.data}
  BY <1>3, <1>4 DEF Init, Manifest
<1>6. TypeOK
  BY <1>2, <1>3, <1>4, <1>5, NewFileType, RootAssumption, LossesAssumption
     DEF Init, TypeOK, PCs, Contents
<1>7. LinkSurvives /\ Sound(dir["manifest"]) /\ Sound(diskDir["manifest"])
  BY <1>2, <1>3, <1>4, <1>5, InodeNames DEF LinkSurvives, Sound, SameAttributes
<1>8. ASSUME NEW p \in Procs PROVE Progress(p) /\ Outcome(p)
  BY <1>4, InodeNames DEF Init, Progress, Outcome, Linked, Early, Late, Written
<1>9. SuccessIsFormatted
  BY DEF Init, SuccessIsFormatted
<1> QED
  BY <1>4, <1>6, <1>7, <1>8, <1>9 DEF IInv

\* Every step of a run keeps the inductive invariant.
LEMMA RunStep ==
  ASSUME IInv, NEW p \in Procs, Run(p)
  PROVE  IInv'
BY ReadStep, ResolveStep, StatStep, ProbeStep, CreateTempStep, PreserveOwnerStep, ChmodStep,
   BeginWriteStep, EndWriteStep, SyncStep, CloseStep, RenameStep, CleanupStep DEF Run

\* Every step of a run and of the environment keeps the inductive invariant.
LEMMA NextIInv == IInv /\ [Next]_vars => IInv'
<1> SUFFICES ASSUME IInv, [Next]_vars PROVE IInv'
  OBVIOUS
<1>1. ASSUME NEW p \in Procs, Run(p) \/ Kill(p) PROVE IInv'
  BY <1>1, RunStep, KillStep
<1>2. ASSUME NEW i \in Inodes, WriteBack(i) PROVE IInv'
  BY <1>2, WriteBackStep
<1>3. ASSUME NEW v \in Edits, Save(v) PROVE IInv'
  BY <1>3, SaveStep
<1>4. CASE WriteBackDir
  BY <1>4, WriteBackDirStep
<1>5. CASE PowerLoss
  BY <1>5, PowerLossStep
<1>6. CASE UNCHANGED vars
  <2> USE <1>6 DEF vars, storage
  <2>1. TypeOK' /\ LinkSurvives' /\ SuccessIsFormatted'
    BY DEF IInv, TypeOK, LinkSurvives, SuccessIsFormatted, Manifest
  <2>2. Sound(dir["manifest"])' /\ Sound(diskDir["manifest"])' /\ (disk[Original] = file[Original])'
    BY DEF IInv, Sound, SameAttributes
  <2>3. ASSUME NEW p \in Procs PROVE Progress(p)' /\ Outcome(p)'
    BY DEF IInv, Progress, Outcome, Linked, SameAttributes
  <2> QED
    BY <2>1, <2>2, <2>3 DEF IInv
<1> QED
  BY <1>1, <1>2, <1>3, <1>4, <1>5, <1>6 DEF Next

(***************************************************************************)
(* The inductive invariant holds in every reachable state.                 *)
(***************************************************************************)
THEOREM Inductive == Spec => []IInv
BY InitIInv, NextIInv, PTL DEF Spec

\* The variables of the runs and of the file system keep their types.
THEOREM TypeCorrect == Spec => []TypeOK
BY Inductive, PTL DEF IInv

\* A link to the manifest is never replaced by a file.
THEOREM LinkRemains == Spec => []LinkSurvives
<1>1. IInv => LinkSurvives  BY DEF IInv
<1>2. QED  BY <1>1, Inductive, PTL

\* A run that succeeded left the manifest formatted, until something else is saved or lost.
THEOREM SuccessFormats == Spec => []SuccessIsFormatted
<1>1. IInv => SuccessIsFormatted  BY DEF IInv
<1>2. QED  BY <1>1, Inductive, PTL

(***************************************************************************)
(* Nobody ever reads half a manifest.                                      *)
(***************************************************************************)
THEOREM NeverHalf == Spec => []ManifestWhole
<1>1. IInv => ManifestWhole
  BY ManifestFacts DEF ManifestWhole
<1> QED
  BY <1>1, Inductive, PTL

(***************************************************************************)
(* No power loss, at any moment, leaves less than a whole manifest.        *)
(***************************************************************************)
THEOREM NeverLost == Spec => []DurableManifestWhole
<1>1. IInv => DurableManifestWhole
  BY ManifestFacts DEF DurableManifestWhole
<1> QED
  BY <1>1, Inductive, PTL

(***************************************************************************)
(* Owner and mode survive every replacement and every power loss.          *)
(***************************************************************************)
THEOREM AttributesAreKept == Spec => []AttributesKept
<1>1. IInv => AttributesKept
  BY DEF IInv, Sound, AttributesKept, SameAttributes, Manifest, DurableManifest
<1> QED
  BY <1>1, Inductive, PTL

(***************************************************************************)
(* Renaming over a file never stands in for a write its user could not do. *)
(***************************************************************************)
THEOREM ReadOnlyIsRespected == Spec => []OnlyWritableReplaced
<1>1. IInv => OnlyWritableReplaced
  BY DEF IInv, Outcome, Linked, OnlyWritableReplaced
<1> QED
  BY <1>1, Inductive, PTL

(***************************************************************************)
(* A run that reports an error changed nothing and left nothing behind.    *)
(***************************************************************************)
THEOREM FailureIsClean == Spec => []FailureLeavesNothing
<1>1. IInv => FailureLeavesNothing
  BY DEF IInv, Outcome, Linked, FailureLeavesNothing
<1> QED
  BY <1>1, Inductive, PTL

-----------------------------------------------------------------------------
(***************************************************************************)
(* The refinement: a rename is a replacement, a save is a save, a power    *)
(* loss reverts, and no other step is seen by a reader.                    *)
(***************************************************************************)
LEMMA InitReplace == IInv /\ Init => Store!ReplaceInit
BY ManifestFacts DEF Init, Store!ReplaceInit, Store!Files, Store!Contents, Store!Whole,
   Store!Versions, Store!Modes, Files, Contents, Whole, Versions, Modes

\* A file with the manifest's owner and mode differs from it in its data only.
LEMMA SameBut ==
  ASSUME NEW f \in Files, NEW g \in Files, SameAttributes(f, g)
  PROVE  f = [g EXCEPT !.data = f.data]
BY DEF Files, SameAttributes

\* A step of a run is a replacement or is not seen by a reader.
LEMMA RunReplace ==
  ASSUME IInv, NEW p \in Procs, Run(p)
  PROVE  Store!ReplaceNext \/ UNCHANGED <<Manifest, held>>
<1>1. CASE Rename(p) /\ ~Abort(p, "rename")
  <2>1. Manifest' = file[p] /\ file[p] \in Files /\ Manifest \in Files
    BY <1>1, RenameFacts, ManifestFacts, InodeNames DEF IInv, TypeOK, Manifest
  <2>2. SameAttributes(file[p], Manifest)
    BY <1>1, RenameFacts DEF IInv, Sound, SameAttributes, Manifest
  <2>3. Manifest' = [Manifest EXCEPT !.data = Formatted(src[p])]
    BY <1>1, <2>1, <2>2, SameBut, RenameFacts
  <2>4. held' = held \cup {Formatted(src[p])} /\ src[p] \in held
    BY <1>1, RenameFacts
  <2> QED
    BY <2>3, <2>4 DEF Store!ReplaceNext, Store!Replace, Store!Becomes, Store!Formatted, Formatted
<1>2. CASE Rename(p) /\ Abort(p, "rename")
  BY <1>2 DEF Abort, storage, Manifest
<1>3. CASE Read(p) \/ Resolve(p) \/ Stat(p) \/ Probe(p) \/ Sync(p) \/ Close(p) \/ Cleanup(p)
  BY <1>3 DEF Read, Resolve, Stat, Probe, Sync, Close, Cleanup, GiveUp, Abort, storage, Manifest
<1>4. CASE CreateTemp(p) \/ PreserveOwner(p) \/ Chmod(p) \/ BeginWrite(p) \/ EndWrite(p)
  <2>1. dir["manifest"] # p
    BY <1>4, NotLinked
       DEF CreateTemp, PreserveOwner, Chmod, BeginWrite, EndWrite, GiveUp, Abort, Result,
           Goes, Early, Late, Linked
  <2>2. \A i \in Inodes \ {p} : file'[i] = file[i]
    BY <1>4 DEF CreateTemp, PreserveOwner, Chmod, BeginWrite, EndWrite, GiveUp, Abort,
                storage, IInv, TypeOK
  <2>3. dir' = dir /\ held' = held
    BY <1>4 DEF CreateTemp, PreserveOwner, Chmod, BeginWrite, EndWrite, GiveUp, Abort, storage
  <2> QED
    BY <2>1, <2>2, <2>3, ManifestFacts DEF Manifest
<1> QED
  BY <1>1, <1>2, <1>3, <1>4 DEF Run

\* An editor's save is one in the abstract store.
LEMMA SaveReplace ==
  ASSUME IInv, NEW v \in Edits, Save(v)
  PROVE  Store!ReplaceNext
<1>1. Manifest' = file'[v]
  BY DEF Save, Manifest, IInv, TypeOK, Names
<1>2. file'[v] = [Manifest EXCEPT !.data = Raw(v)]
  BY InodeNames DEF Save, IInv, TypeOK
<1> QED
  BY <1>1, <1>2 DEF Save, Store!ReplaceNext, Store!Save, Store!Becomes, Store!Raw, Raw

\* A power loss is a return to a content the manifest had.
LEMMA LossReplace ==
  ASSUME IInv, PowerLoss
  PROVE  Store!ReplaceNext
<1>1. Manifest' = DurableManifest
  BY DEF PowerLoss, Manifest, DurableManifest
<1>2. SameAttributes(DurableManifest, Manifest)
  BY DEF IInv, Sound, SameAttributes, Manifest, DurableManifest
<1>3. Manifest' = [Manifest EXCEPT !.data = DurableManifest.data]
  BY <1>1, <1>2, SameBut, ManifestFacts
<1> QED
  BY <1>3, ManifestFacts DEF PowerLoss, Store!ReplaceNext, Store!Revert, Store!Becomes

\* Every step is one of the abstract store or a stutter.
LEMMA NextReplace ==
  IInv /\ [Next]_vars => [Store!ReplaceNext]_(Store!replaceVars)
<1> SUFFICES ASSUME IInv, [Next]_vars
             PROVE  Store!ReplaceNext \/ UNCHANGED <<Manifest, held>>
  BY DEF Store!replaceVars
<1>1. ASSUME NEW p \in Procs, Run(p) PROVE Store!ReplaceNext \/ UNCHANGED <<Manifest, held>>
  BY <1>1, RunReplace
<1>2. ASSUME NEW p \in Procs, Kill(p) PROVE UNCHANGED <<Manifest, held>>
  BY <1>2 DEF Kill, storage, Manifest
<1>3. ASSUME NEW i \in Inodes, WriteBack(i) PROVE UNCHANGED <<Manifest, held>>
  BY <1>3 DEF WriteBack, Manifest
<1>4. ASSUME NEW v \in Edits, Save(v) PROVE Store!ReplaceNext
  BY <1>4, SaveReplace
<1>5. CASE WriteBackDir
  BY <1>5 DEF WriteBackDir, Manifest
<1>6. CASE PowerLoss
  BY <1>6, LossReplace
<1>7. CASE UNCHANGED vars
  BY <1>7 DEF vars, storage, Manifest
<1> QED
  BY <1>1, <1>2, <1>3, <1>4, <1>5, <1>6, <1>7 DEF Next

(***************************************************************************)
(* To a reader, kustofmt -w only ever replaces a manifest atomically.      *)
(***************************************************************************)
THEOREM Implements == Spec => ImplementsReplace
BY InitIInv, InitReplace, NextReplace, Inductive, PTL
   DEF Spec, ImplementsReplace, Store!ReplaceSpec
=============================================================================
