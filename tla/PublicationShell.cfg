CONSTANTS
  Contents = {c1, c2}
  Names = {n1, n2}
  Files = {f1}
  Roots = {r1, r2}
  Nothing = Nothing
  Torn = Torn
  MayTear = FALSE
  MaxCommands = 4
  MaxMishaps = 2
SPECIFICATION ShellSpec
INVARIANTS
  TypeOK
  CatalogStaysReadable
  RegisteredIsCatalogued
PROPERTIES
  RemovedIsRegistered
  RecordsKeepTheirCopy
  UnfinishedIsShown
  ListingFinishesThem
  LifeSpec
CHECK_DEADLOCK FALSE
