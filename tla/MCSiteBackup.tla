---------------------------- MODULE MCSiteBackup ----------------------------
(* Small instances of SiteBackup: one desktop, or two that share a server.   *)
EXTENDS SiteBackup
=============================================================================
