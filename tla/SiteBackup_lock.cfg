SPECIFICATION Spec
CONSTANTS
  Desktops = {d1}
  MaxRuns = 3
  MaxSecond = 2
  MaxFaults = 1
INVARIANT LockIsReleasedOnEveryPath
\* Once MaxRuns are over nothing is left to do.
CHECK_DEADLOCK FALSE
