CONSTANTS
  Launches = {"raw", "line", "pty"}
  Capacity = 1
  LineCap = 2
  MaxStdout = 3
  MaxStderr = 1
  PromptMayFail = TRUE
  ThreadMayFail = TRUE
SPECIFICATION FairSpec
INVARIANTS
  TypeOK
  NumbersAssignedOnce
  OnlyReportFollowsState
  DropsAddUp
  HolesAreAccountedFor
  EntryIsReclaimed
PROPERTIES
  RunEnds
