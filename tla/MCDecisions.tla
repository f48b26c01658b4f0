---------------------------- MODULE MCDecisions ----------------------------
(* Decisions on a small instance: three pull requests, of which two are    *)
(* merged on the same day and one never, and a commit, which has no date   *)
(* and so counts as older than they, but comes after them in the order of  *)
(* labels.                                                                 *)
EXTENDS Decisions

MCPRs == {1, 2, 3}
MCCommits == {4}
MCMergedAt == <<1, 1, 0>>
=============================================================================
