---------------------------- MODULE MCFreshness ----------------------------
(* Freshness on a small instance: three pull requests merged one after the *)
(* other, the last two on one day, and two files of one directory.         *)
EXTENDS Freshness, TLC

MCPRs == {1, 2, 3}
MCCommits == {}
MCMergedAt == <<1, 2, 2>>
MCDir(p) == "src"

\* The two files are alike.
MCSymmetry == Permutations(Paths)
=============================================================================
