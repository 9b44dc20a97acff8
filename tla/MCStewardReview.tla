----------------------------- MODULE MCStewardReview -----------------------------
(* StewardReview with two request threads and a table of one column or two. *)
EXTENDS StewardReview, TLC

Threads == Permutations(Callers)
===============================================================================
