---------------------------- MODULE MCBatchJobs -----------------------------
(* The instance of BatchJobs for TLC. *)
EXTENDS BatchJobs

=============================================================================
