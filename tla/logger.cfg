SPECIFICATION FairSpec
CONSTANTS
  Threads = {t1, t2}
  MaxEntries = 2
  MaxPieces = 3
  Main = main
INVARIANTS
  DestructorDrains
  WorkerSleepsIdle
PROPERTIES
  DestructorTerminates
CHECK_DEADLOCK FALSE
