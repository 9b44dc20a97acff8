------------------------------ MODULE MCScanJobs ------------------------------
(* ScanJobs with two threads and no place to wait beyond them, and one steward. *)
EXTENDS ScanJobs, TLC

CONSTANTS j1, j2, j3

OneOfEach == j1 :> "scan" @@ j2 :> "profile" @@ j3 :> "batch"
===============================================================================
