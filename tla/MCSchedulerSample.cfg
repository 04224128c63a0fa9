\* A hook or a coroutine throws, and run() is called again.
CONSTANTS
  clk = clk
  q = q
  in = in
  out = out
  Coroutines = {c1}
  Signals = {clk, q}
  Cells = {in, out}
  CellOf <- MCCellOf
  Inputs = {in}
  Wide = {}
  Values = {0, 1}
  Delays = {1}
  MaxAny = 1
  Types = {"POSEDGE"}
  SampleOn <- OnClock
  DriveOn <- OnClock
  Bound <- MCBound
  Transient = {}
  Durations = {2}
  MaxDelta = 2
  MayThrow = TRUE
  Runs = 2
SPECIFICATION Spec
INVARIANT SampleSeesOnlyTestbenchEdges
CHECK_DEADLOCK FALSE
