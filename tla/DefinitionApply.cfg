CONSTANTS
  t1 = t1
  t2 = t2
  Texts <- MCTexts
  Skills = {s1}
  Sites <- MCSites
  Drafts <- MCDrafts
  MaxUnpinned = 1
  MaxApplies = 2
  MaxEdits = 1
  MaxMishaps = 1
SPECIFICATION Spec
INVARIANTS
  TypeOK
  ReplacedIsRestorable
  PlansSettle
  StoppedRunsRecover
PROPERTIES
  WritesFollowThePreview
  OthersWritesSurvive
