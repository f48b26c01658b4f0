\* Two threads, one caller and one key, three requests a minute of two ticks.
SPECIFICATION Spec
CONSTANTS
  Threads = {t1, t2}
  Callers = {c1}
  Keys = {k1}
  Capacity = 3
  Period = 2
  MaxTime = 3
  MaxMinted = 1
  MaxCrashes = 1
SYMMETRY MCSymmetry
INVARIANTS
  WindowBudget
  OnlyRacersRepeat
\* Time is bounded: when it is over, nothing is left.
CHECK_DEADLOCK FALSE
