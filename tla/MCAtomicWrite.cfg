SPECIFICATION MCSpec
CONSTANTS
  p1 = p1
  p2 = p2
  v1 = v1
  alice = alice
  bob = bob
  Original = Original
  Edits <- MCEdits
  Empty = Empty
  Partial = Partial
  Users <- MCUsers
  Root = Root
  Symlink = Symlink
  MaxLosses = 1
  Procs = {p1, p2}
SYMMETRY MCSymmetry
INVARIANTS
  TypeOK
  AttributesKept
  OnlyWritableReplaced
  LinkSurvives
  ManifestWhole
  DurableManifestWhole
  FailureLeavesNothing
  SuccessIsFormatted
PROPERTIES
  ImplementsReplace
CHECK_DEADLOCK FALSE
