\* Three threads, two failures open the breaker, two attempts per call.
SPECIFICATION FairSpec
CONSTANTS
  t1 = t1
  t2 = t2
  t3 = t3
  Threads <- MCThreads
  Threshold = 2
  Cooldown = 2
  MaxTries = 2
INVARIANTS
  StateMatchesCount
PROPERTIES
  CooldownIsWaited
  Recovers
  OutageIsCutOff
