------------------------------ MODULE MCAccess ------------------------------
(* Access on a small instance: threads are alike.                          *)
EXTENDS Access, TLC

MCSymmetry == Permutations(Threads)
=============================================================================
