\* One worker.
SPECIFICATION Spec
CONSTANTS
  w1 = w1
  p1 = p1
  p2 = p2
  r1 = r1
  r2 = r2
  Workers <- MCOneWorker
  Repos <- MCRepos
  PRs <- MCPRs
  RepoOf <- MCRepoOf
  PerPage = 1
  MaxPRs = 2
  MaxAttempts = 2
  MaxJobs = 1
  MaxUnheard = 1
  MaxCrashes = 1
SYMMETRY MCSymmetry
INVARIANTS
  TypeOK
  DoneMeansRecorded
  ProgressIsHonest
  WelcomesByAttempt
  MergeKept
CHECK_DEADLOCK FALSE
