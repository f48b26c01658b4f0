\* Two processes boot up to twice each, over three migrations and two renames.
SPECIFICATION Spec
CONSTANTS
  p1 = p1
  p2 = p2
  r1 = r1
  r2 = r2
  None = None
  Procs <- MCProcs
  Renames <- MCRenames
  LastFile = 3
  Renaming = 2
  Batch = 2
  MaxStarts = 2
SYMMETRY Symmetric
INVARIANTS
  MigratedOnce
  OneMover
  StampedIsMoved
PROPERTIES
  NeverUnfindable
  FreshStays
\* Starts are bounded: when all processes have stopped for good, nothing is left.
CHECK_DEADLOCK FALSE
