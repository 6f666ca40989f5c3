CONSTANTS
  A = A
  B = B
  V = V
  Deselect <- MCDeselect
  NoTool = NoTool
  NoWait = NoWait
  NoGoto = NoGoto
  NoLine = NoLine
  Programs = {}
  OptionSets <- MCOptionSets
  Label <- MCLabel
  BlockNumber = {}
  Tool <- MCTool
  Var = {V}
  Value = {0, 1}
  ModalGroup = {"motion", "plane", "radius", "rapid"}
  ModalValue <- MCModalValue
  InitialModal <- MCInitialModal
  SubmitResults = {"Ready", "Pending", "Error"}
  ReadResults = {"Ready", "Pending"}
  ConditionResults = {"True", "False", "PendingRetry", "PendingBoth"}
  MaxTime = 1
  MaxWaits = 2
  Name <- MCName
  ActiveSkipLevels = {}
  Iso = FALSE
  DirectT = FALSE
  SourceLines <- MCSourceLines
  Texts <- MCTexts
  Misuse = TRUE
  MaxLog = 3
SPECIFICATION EngineFairSpec
INVARIANTS
  EngineTypeOK
  NoWaitLost
  RejectedAfterPrefix
  ModalCrossesChunks
  ToolCrossesChunks
PROPERTIES
  ChunksDoNotMatter
  EngineEnds
