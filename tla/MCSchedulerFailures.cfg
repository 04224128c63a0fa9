\* Two runs, exceptions, an output that user code binds, destroys and binds again.
CONSTANTS
  clk = clk
  q = q
  in = in
  out = out
  Coroutines = {c1}
  Signals = {clk, q}
  Cells = {in, out}
  CellOf <- MCCellOf
  Inputs = {in}
  Wide = {}
  Values = {0, 1}
  Delays = {1}
  MaxAny = 1
  Types = {"POSEDGE"}
  SampleOn <- OnClock
  DriveOn <- OnClock
  Bound <- ClockOnly
  Transient = {q}
  Durations = {1, 2}
  MaxDelta = 2
  MayThrow = TRUE
  Runs = 2
SPECIFICATION LiveSpec
INVARIANTS QuiescentAtDump DutSawCoroutineWrites NoInstantSkipped
PROPERTIES RunReturns DelaysServed
CHECK_DEADLOCK FALSE
