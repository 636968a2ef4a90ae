---------------------------- MODULE MCDownloadLote ----------------------------
(* DownloadLote on a small instance: one user, two jobs.                   *)
EXTENDS DownloadLote
=============================================================================
