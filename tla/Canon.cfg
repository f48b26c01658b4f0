\* Two decisions, three inscriptions or re-indexings, one consolidating worker,
\* two failures anywhere; one decision can never be summarized.
SPECIFICATION FairSpec
CONSTANTS
  a = a
  b = b
  i1 = i1
  i2 = i2
  c1 = c1
  c2 = c2
  x = x
  y = y
  Sources <- MCSources
  Inscribers <- MCInscribers
  Consolidators <- MCOneConsolidator
  Links <- MCLinks
  LinksOf <- MCLinksOf
  Unsummarized <- MCUnsummarized
  Batch = 2
  Threshold = 2
  MaxRev = 2
  MaxWrites = 3
  MaxFails = 2
  MaxQueued = 1
INVARIANTS
  ConsolidatedIsDistilled
  EdgesOfOneText
  FoundIsRecorded
PROPERTIES
  BacklogDrains
CHECK_DEADLOCK FALSE
