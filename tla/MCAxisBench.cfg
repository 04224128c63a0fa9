CONSTANTS
  DEPTH = 2
  AUX_DEPTH = 2
  AWID = 1
  AUX_AWID = 1
  Lanes = 2
  ResetEdges = 1
  WriteAfter = 2
  ReadAfter = 1
  ExpWords = 2
  BlankBeat <- NoBeat
  BlankAux <- NoAux
  StreamPlans <- MCStreamPlans
  FramePlans <- MCFramePlans
SPECIFICATION LiveSpec
INVARIANTS TypeOK BeatsAsSent FramesInOrder NothingLost
PROPERTIES OfferedBeatsHold AllDelivered
