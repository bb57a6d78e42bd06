SPECIFICATION Spec
CONSTANTS
  Servers = {1, 2}
  Addresses = {a1}
  FirstAddress = a1
  Runs = {r1, r2}
  Updaters = {}
  FailureThreshold = 2
  MaxRuns = 3
  MaxFaults = 2
SYMMETRY RunSymmetry
INVARIANTS
  EveryTargetIsCounted
  EveryCheckIsStamped
PROPERTY
  NotesComeWithTheVerdict
