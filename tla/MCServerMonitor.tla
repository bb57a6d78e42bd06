-------------------------- MODULE MCServerMonitor --------------------------
(* Small instances of ServerMonitor: one or two servers, the two addresses a  *)
(* server may be moved between, one run at a time or two that overlap.        *)
EXTENDS ServerMonitor, TLC

RunSymmetry == Permutations(Runs)
=============================================================================
