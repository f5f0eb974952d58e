---------------------------- MODULE MCCleanupWorker ----------------------------
(* CleanupWorker on a small instance. *)
EXTENDS CleanupWorker
================================================================================
