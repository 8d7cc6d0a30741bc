CONSTANTS
  Contents = {c1, c2}
  Names = {n1, n2}
  Files = {f1, f2}
  Roots = {r1}
  Nothing = Nothing
  Torn = Torn
  MayTear = TRUE
  MaxCommands = 4
  MaxMishaps = 1
SPECIFICATION Spec
PROPERTIES
  RemovedIsRegistered
CHECK_DEADLOCK FALSE
