\* Two delays: shared deadlines, entries that any() left behind, an edge as the other
\* trigger.  Liveness: no symmetry.
CONSTANTS
  Coroutines = {c1, c2}
  Signals = {s1}
  Tokens = {1, 2, 3}
  Types = {"POSEDGE"}
  Intervals = {1, 2}
  MaxAny = 2
  TimeModulus = 8
  MaxTime = 3
  DestroysWalked = FALSE
SPECIFICATION LiveSpec
INVARIANT DelaysAhead
PROPERTIES WalksEnd ImplementsAwaitContract
CHECK_DEADLOCK FALSE
