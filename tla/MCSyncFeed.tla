----------------------------- MODULE MCSyncFeed -----------------------------
(* Small instances of SyncFeed: one row in each of one or two tables (domains, *)
(* and servers or notifications), and blob_storage as the last one where the   *)
(* instance has a blob.                                                        *)
EXTENDS SyncFeed, TLC

CONSTANTS domain1, server1, note1, c1

MCTableOf == [e \in Entities |->
  IF e = domain1 THEN 1 ELSE IF e \in {server1, note1} THEN 2 ELSE TableCount]

\* Every desktop process of an instance opens the same cache file.
MCCacheOf == [p \in Pulls |-> c1]

WriterSymmetry == Permutations(Writers)
=============================================================================
