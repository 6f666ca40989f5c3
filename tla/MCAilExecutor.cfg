CONSTANTS
  A = A
  B = B
  Far = Far
  T1 = T1
  T2 = T2
  T3 = T3
  V = V
  Deselect = T0
  NoTool = NoTool
  NoWait = NoWait
  NoGoto = NoGoto
  Programs <- MCPrograms
  OptionSets <- MCOptionSets
  Label <- MCLabel
  BlockNumber = {10, 20, 30}
  Tool <- MCTool
  Var = {V}
  Value = {0, 1}
  ModalGroup = {"motion", "plane"}
  ModalValue = {"G0", "G1", "G2", "G17", "G18"}
  InitialModal <- MCInitialModal
  SubmitResults = {"Ready", "Pending", "Error"}
  ReadResults = {"Ready", "Pending", "Error"}
  ConditionResults = {"True", "False", "Pending", "PendingRetry", "PendingBoth", "Error"}
  MaxTime = 1
  MaxWaits = 3
SPECIFICATION FairSpec
INVARIANTS
  TypeOK
  NoOrphanWait
  SpindleView
  FramesSound
  InProgramOrder
  CarriesProgrammedModal
  RepeatsExact
PROPERTIES
  ImplementsStream
  WaitEnds
  Halts
