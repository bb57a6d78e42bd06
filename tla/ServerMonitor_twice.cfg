SPECIFICATION Spec
CONSTANTS
  Servers = {1}
  Addresses = {a1}
  FirstAddress = a1
  Runs = {r1, r2}
  Updaters = {}
  FailureThreshold = 2
  MaxRuns = 4
  MaxFaults = 0
INVARIANT
  OneRecoveryPerOutage
