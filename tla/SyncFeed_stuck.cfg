SPECIFICATION FairSpec
CONSTANTS
  domain1 = domain1
  server1 = server1
  note1 = note1
  c1 = c1
  Rows = {domain1}
  Blobs = {blob1}
  Unversioned = {}
  Referring = {domain1}
  TableCount = 2
  TableOf <- MCTableOf
  Writers = {w1}
  Pulls = {p1}
  Caches = {c1}
  CacheOf <- MCCacheOf
  MaxVersion = 3
  MaxFaults = 1
PROPERTY CursorCatchesUp
