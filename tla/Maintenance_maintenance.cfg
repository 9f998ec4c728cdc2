\* Scheduler, administrator and page contend for the collector; no symmetry,
\* which is unsound for liveness.
SPECIFICATION FairSpec
CONSTANTS
  Cleaners = {c1}
  Viewers = {v1}
  Scheduler = Scheduler
  Items = {i1}
  DueFor = {"entries", "sessions"}
  MaxTime = 2
  MaxCrashes = 1
  MaxInt = 7
  Stats <- StatsMC
  Sums = {0, 8}
  NULL = NULL
INVARIANTS TypeOK CleanupCovers
PROPERTIES PageIsCurrent CallsAnswered EveryTickCollects
