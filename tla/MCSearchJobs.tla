---------------------------- MODULE MCSearchJobs ----------------------------
(* SearchJobs on small instances; the values of the constants are in the   *)
(* configurations.                                                         *)
EXTENDS SearchJobs
=============================================================================
