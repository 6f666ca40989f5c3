CONSTANTS
  TextLines <- MCTextLines
  Name = {}
  NoGoto = NoGoto
  Iso = FALSE
  Managed = FALSE
  Slashes = FALSE
  ActiveSkipLevels = {0, 1}
  Texts <- MCTexts
  Limits <- MCLimits
  Unlimited = 99
SPECIFICATION StreamSpec
INVARIANTS
  StreamTypeOK
  SameAsBatch
  ReturnsForAReason
  LimitsHeld
  CancelHeeded
CHECK_DEADLOCK FALSE
