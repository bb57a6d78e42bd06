SPECIFICATION Spec
CONSTANTS
  domain1 = domain1
  server1 = server1
  note1 = note1
  c1 = c1
  Rows = {domain1}
  Blobs = {blob1}
  Unversioned = {}
  Referring = {domain1}
  TableCount = 2
  TableOf <- MCTableOf
  Writers = {w1, w2}
  Pulls = {p1}
  Caches = {c1}
  CacheOf <- MCCacheOf
  MaxVersion = 3
  MaxFaults = 1
SYMMETRY WriterSymmetry
INVARIANTS
  TypeOK
  NothingAppearsBelowTheCounter
  OnlyRacedRowsAreLost
PROPERTIES
  CommitsAreOrdered
  CacheMovesForward
