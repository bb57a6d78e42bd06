SPECIFICATION FairSpec
CONSTANTS
  Desktops = {d1, d2}
  MaxRuns = 2
  MaxSecond = 2
  MaxFaults = 1
INVARIANTS
  TypeOK
  HoldersOwnTheLock
  SavedIsWhole
  LockIsReleased
  NoEmptyPromise
  LeftoverIsNamed
PROPERTIES
  TheOnlyCopyIsKept
  RunsEnd
\* Once MaxRuns are over nothing is left to do; a run that gets stuck is RunsEnd.
CHECK_DEADLOCK FALSE
