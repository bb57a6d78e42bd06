SPECIFICATION FairSpec
CONSTANTS
  Servers = {1}
  Addresses = {a1, a2}
  FirstAddress = a1
  Runs = {r1}
  Updaters = {u1}
  FailureThreshold = 2
  MaxRuns = 5
  MaxFaults = 2
INVARIANTS
  TypeOK
  EveryTargetIsCounted
  CheckedMeansRecorded
  DownIsConfirmed
PROPERTIES
  ImplementsEpisodes
  RunsEnd
