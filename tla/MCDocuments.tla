----------------------------- MODULE MCDocuments -----------------------------
(* Two processes; two postings tracked at first, a third later.              *)
EXTENDS Documents, TLC
CONSTANTS p1, p2

MCSymmetry == Permutations(Procs)
==============================================================================
