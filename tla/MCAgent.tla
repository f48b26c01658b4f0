------------------------------ MODULE MCAgent ------------------------------
(* Agent on a small instance: PRs of two repositories, two of them with    *)
(* one number and two with numbers that share a digit, and a commit.  The  *)
(* citations are their labels, a label with a title, numbers without a     *)
(* repository, a repository without a number, a cut sha, and "[--]".       *)
EXTENDS Agent

MCTokens == {"api", "oauth", "commit", "title", "pr", "a", "#", "1", "2", "4", "8"}
MCDigits == {"1", "2", "4", "8"}
MCSources ==
  {<<"api", "#", "4">>, <<"api", "#", "4", "8">>,
   <<"oauth", "2", "#", "4">>, <<"commit", "1", "a">>}
MCCitations == MCSources \cup
  {<<"api", "#", "4", "title">>, <<"#", "4">>, <<"pr", "#", "4", "8">>,
   <<"api">>, <<"commit", "1">>, <<>>}
=============================================================================
