------------------------ MODULE MCDownloadLifecycle ------------------------
(***************************************************************************)
(* Instances of DownloadLifecycle for TLC.                                 *)
(***************************************************************************)
EXTENDS DownloadLifecycle

CONSTANTS r1, r2

=============================================================================
