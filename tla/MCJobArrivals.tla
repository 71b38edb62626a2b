---------------------------- MODULE MCJobArrivals ----------------------------
(* Small instances of JobArrivals for TLC. *)
EXTENDS JobArrivals, TLC

MCJobs == {"jobA", "jobB", "jobC", "jobD"}
=============================================================================
