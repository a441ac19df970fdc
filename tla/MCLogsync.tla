----------------------------- MODULE MCLogsync -----------------------------
(***************************************************************************)
(* Syncing on small instances.                                             *)
(***************************************************************************)
EXTENDS Logsync
=============================================================================
