CONSTANTS
  Contents = {c1}
  Names = {n1}
  Files = {f1}
  Roots = {r1}
  Nothing = Nothing
  Torn = Torn
  MayTear = FALSE
  MaxCommands = 4
  MaxMishaps = 3
SPECIFICATION Spec
PROPERTIES
  UnfinishedIsAlwaysShown
CHECK_DEADLOCK FALSE
