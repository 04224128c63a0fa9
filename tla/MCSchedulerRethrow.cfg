\* Two coroutines that may both throw.
CONSTANTS
  clk = clk
  q = q
  in = in
  out = out
  Coroutines = {c1, c2}
  Signals = {clk, q}
  Cells = {in, out}
  CellOf <- MCCellOf
  Inputs = {in}
  Wide = {}
  Values = {0, 1}
  Delays = {1}
  MaxAny = 1
  Types = {"POSEDGE"}
  SampleOn <- OnClock
  DriveOn <- OnClock
  Bound <- MCBound
  Transient = {}
  Durations = {2}
  MaxDelta = 2
  MayThrow = TRUE
  Runs = 1
SPECIFICATION Spec
PROPERTY FirstFailureRethrown
CHECK_DEADLOCK FALSE
