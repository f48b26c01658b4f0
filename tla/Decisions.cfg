\* A graph of up to three links between four decisions, changing for ever.
SPECIFICATION Spec

CONSTANTS
  PRs <- MCPRs
  Commits <- MCCommits
  MergedAt <- MCMergedAt
  MaxDepth = 2
  MaxLinks = 1
  MaxEdges = 3

INVARIANTS
  AnswersAgree

PROPERTIES
  ReadsAreTimely
  ActsDownwards
