\* Even and odd periods, both start levels.
CONSTANTS
  Periods = {2, 3, 4, 5, 7, 10}
  MaxTime = 60
SPECIFICATION Spec
PROPERTY FullPeriod
CHECK_DEADLOCK FALSE
