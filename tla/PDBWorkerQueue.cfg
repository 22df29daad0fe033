SPECIFICATION FairSpec
CONSTANTS
  w1 = w1
  w2 = w2
  t1 = t1
  t2 = t2
  j1 = j1
  j2 = j2
  Main = Main
  Nothing = Nothing
  nullptr = nullptr
  Workers <- MCWorkers
  Callers <- MCCallers
  Jobs <- MCTwoJobs
  MayShutDown = TRUE
INVARIANT IdleWorkerInOnePlace
INVARIANT NullMeansNoWorkers
PROPERTY ImplementsPool
PROPERTY ShutdownCompletes
