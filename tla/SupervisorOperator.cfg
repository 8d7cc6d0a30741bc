CONSTANTS
  None = None
  Pids = {p1}
  Helpers = {h1, e1}
  Escaped = {e1}
  Readers = 2
  MaxRunning = 1
  MaxRetained = 1
  PidsRecycle = TRUE
  Callers = {c1}
  WaitMayFail = FALSE
SPECIFICATION FairSpec
INVARIANTS
  TypeOK
  SignalsOnlyUnreaped
  FrameTellsTheRecord
  KilledMeansGroupGone
  SweepStaysPrivate
PROPERTIES
  VerdictIsStable
  StopReturnsEventually
  SettlingEnds
  PolledExitEndsTheRun
