SPECIFICATION FairSpec
CONSTANTS
  domain1 = domain1
  server1 = server1
  note1 = note1
  c1 = c1
  Rows = {domain1, server1, note1}
  Blobs = {}
  Unversioned = {note1}
  Referring = {domain1}
  TableCount = 2
  TableOf <- MCTableOf
  Writers = {w1}
  Pulls = {p1}
  Caches = {c1}
  CacheOf <- MCCacheOf
  MaxVersion = 2
  MaxFaults = 1
PROPERTIES
  CursorCatchesUp
  StampedWritesReachTheCache
  UnstampedWaitForAStamp
