\* Four words deep; more words than fit, so that order and loss show.
CONSTANTS
  DEPTH = 4
  AWID = 2
  FWFT = FALSE
  Blank = 0
  WordMod = 6
  ResetEdges = 3
SPECIFICATION LiveSpec
INVARIANTS TypeOK LevelsConservative NoUnderflow
PROPERTIES ReadsInOrder ImplementsQueue ReadsGoOn
