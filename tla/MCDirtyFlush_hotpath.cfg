SPECIFICATION Spec
CONSTANTS
  Keys = {k1, k2}
  MarkFirst = {w1}
  MarkLast = {}
  WritesTo <- AnyKey
  MaxWrites = 4
  MaxFailures = 2
  MaxCrashes = 1
INVARIANTS
  NothingForgotten
CHECK_DEADLOCK FALSE
