CONSTANTS
  Launches = {"line"}
  Capacity = 1
  LineCap = 3
  MaxStdout = 3
  MaxStderr = 1
  PromptMayFail = FALSE
  ThreadMayFail = FALSE
SPECIFICATION Spec
INVARIANTS
  ParsedLineHasNoHole
