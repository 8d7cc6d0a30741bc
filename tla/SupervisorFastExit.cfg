CONSTANTS
  None = None
  Pids = {p1}
  Helpers = {h1, e1}
  Escaped = {e1}
  Readers = 2
  MaxRunning = 1
  MaxRetained = 1
  PidsRecycle = FALSE
  Callers = {c1}
  WaitMayFail = FALSE
SPECIFICATION FairSpec
PROPERTIES
  ExitEndsTheRun
