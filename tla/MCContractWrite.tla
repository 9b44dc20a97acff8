--------------------------- MODULE MCContractWrite ---------------------------
(* ContractWrite on a handful of calls; the scans are interchangeable. *)
EXTENDS ContractWrite, TLC

ScanSymmetry == Permutations(Scans)
=============================================================================
