\* Two workers, three jobs of two types, one crash anywhere; fair workers.
SPECIFICATION FairSpec
CONSTANTS
  w1 = w1
  w2 = w2
  backfill = backfill
  other = other
  Workers <- MCWorkers
  Types <- MCTypes
  Handled <- MCHandled
  MaxAttempts = 2
  MaxJobs = 3
  MaxCrashes = 1
INVARIANTS
  OrphansAreCrashes
PROPERTIES
  BackoffHonoured
  ImplementsLifecycle
  EverySettles
\* Rows are bounded by MaxJobs: when all have settled, the workers sleep.
CHECK_DEADLOCK FALSE
