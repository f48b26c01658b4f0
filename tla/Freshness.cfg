\* Three decisions with up to three rows of files and a link.
SPECIFICATION FilesSpec

CONSTANTS
  PRs <- MCPRs
  Commits <- MCCommits
  MergedAt <- MCMergedAt
  MaxDepth = 2
  MaxLinks = 1
  MaxEdges = 1
  Root = Root
  Paths = {p1, p2}
  Dir <- MCDir
  MinShare = 50
  MinLater = 2
  MaxRows = 3

SYMMETRY MCSymmetry

INVARIANTS
  FilesTypeOK
  
  PromiseIsKept

PROPERTY
  JoinsForAReason
