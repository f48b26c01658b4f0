\* Two events of any kind, each delivered up to twice, to two API processes.
SPECIFICATION FairSpec
CONSTANTS
  s1 = s1
  s2 = s2
  w1 = w1
  w2 = w2
  e1 = e1
  e2 = e2
  Servers <- MCServers
  Workers <- MCOneWorker
  Events <- MCEvents
  MaxAttempts = 2
  HttpAttempts = 2
  MaxJobs = 3
  MaxCopies = 2
  MaxCrashes = 1
INVARIANTS
  HandledOnce
  DroppedOnlyByFailure
  RepostsAreUnheard
  StatusTellsThread
PROPERTIES
  QuestionSettles
\* Copies are bounded: when all are handled and answered, nothing is left.
CHECK_DEADLOCK FALSE
