\* Two signals: passes over several changes, signals destroyed, any() over a delay
\* and edges, with cancellation.
CONSTANTS
  Coroutines = {c1, c2}
  Signals = {s1, s2}
  Tokens = {1, 2, 3}
  Types = {"POSEDGE"}
  Intervals = {1}
  MaxAny = 2
  TimeModulus = 8
  MaxTime = 1
  DestroysWalked = FALSE
SPECIFICATION Spec
SYMMETRY MCSymmetry
INVARIANTS TypeOK TicketsOfThisWait GroupBounded NoMissedEdge
PROPERTIES ImplementsAwaitContract WalkedVectorUntouched
CHECK_DEADLOCK FALSE
