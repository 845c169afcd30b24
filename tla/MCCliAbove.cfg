SPECIFICATION MCSpec
CONSTANTS
  Dirs <- MCDirs
  Files <- MCFiles
  Links <- MCLinks
  Dot <- Here
  Up <- Above
  YamlNames = {1, 5, 7}
  SkippedNames = {6}
  Stdin <- MCStdin
  Edited <- MCEdited
  MaxEdits = 1
  MaxFaults = 1
INVARIANTS
  NamesLeadBack
CHECK_DEADLOCK FALSE
