CONSTANTS
  A = A
  B = B
  V = V
  NoGoto = NoGoto
  Name <- MCName
  TextLines <- MCTextLines
  Texts <- MCTexts
  ActiveSkipLevels = {1}
  Iso = TRUE
  Managed = FALSE
  Slashes = FALSE
  DirectT = FALSE
SPECIFICATION LoweringSpec
INVARIANTS
  LoweringTypeOK
  LabelsSound
  UnbalancedReported
  RunsAsWritten
  WordsKept
  ArcsFitTheirPlane
CHECK_DEADLOCK FALSE
