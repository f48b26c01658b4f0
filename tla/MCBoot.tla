------------------------------- MODULE MCBoot -------------------------------
(* Instances of Boot for TLC.                                              *)
EXTENDS Boot, TLC

CONSTANTS p1, p2, r1, r2

MCProcs == {p1, p2}
MCRenames == {r1, r2}
Symmetric == Permutations(MCProcs) \cup Permutations(MCRenames)
=============================================================================
