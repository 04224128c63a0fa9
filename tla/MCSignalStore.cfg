\* A byte signal and a wide signal, each on a cell of its own.
CONSTANTS
  s1 = s1
  s2 = s2
  x = x
  y = y
  Signals = {s1, s2}
  Cells = {x, y}
  CellOf <- OwnCells
  Inputs = {x, y}
  Wide = {s2}
  Values = {0, 1, 2}
SPECIFICATION Spec
INVARIANTS TypeOK PendingMatchesFlags
PROPERTY LastNextWins
CHECK_DEADLOCK FALSE
