---------------------------- MODULE MCIngestJobs ----------------------------
(* Small instances of the job queue for TLC. *)
EXTENDS IngestJobs, TLC
CONSTANTS j1, j2, w1, w2
=============================================================================
