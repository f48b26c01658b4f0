----------------------------- MODULE MCBackfill -----------------------------
(* Instances of Backfill for TLC: two repositories, one of them without    *)
(* pull requests.                                                          *)
EXTENDS Backfill, TLC

CONSTANTS w1, r1, r2, p1, p2

MCOneWorker == {w1}
MCRepos == {r1, r2}
MCPRs == {p1, p2}
MCRepoOf(p) == r1

\* The pull requests are of one repository and differ only in their places there.
MCSymmetry == Permutations(MCPRs)
=============================================================================
