\* A stale ticket of a coroutine that cleanup_finished destroyed.
CONSTANTS
  Coroutines = {c1, c2}
  Signals = {s1}
  Tokens = {1, 2, 3}
  Types = {"POSEDGE"}
  Intervals = {1, 2}
  MaxAny = 2
  TimeModulus = 8
  MaxTime = 2
  DestroysWalked = FALSE
SPECIFICATION Spec
PROPERTY StaleTimerTouchesNoFrame
CHECK_DEADLOCK FALSE
