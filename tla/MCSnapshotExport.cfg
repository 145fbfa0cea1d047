SPECIFICATION FairSpec
CONSTANTS
  t1 = t1
  t2 = t2
  h1 = h1
  h2 = h2
  Threads = {t1, t2}
  Handles = {h1, h2}
  MaxWorkers = 2
  MaxReports = 2
  NoThread = NoThread
INVARIANTS HandlesKept OneReleaser NothingLeftBehind IdleIsSignalled
PROPERTIES WorkerEnds
CHECK_DEADLOCK FALSE
