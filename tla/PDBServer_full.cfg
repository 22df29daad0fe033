SPECIFICATION FairServerSpec
CONSTANTS
  w1 = w1
  w2 = w2
  w3 = w3
  c1 = c1
  c2 = c2
  Main = Main
  Nothing = Nothing
  nullptr = nullptr
  listener = listener
  Callers <- MCCallers
  Conns <- MCConns
  Jobs <- MCJobs
  Workers <- MCTwo
  MaxReqs = 1
  Kinds <- MCHandled
  Spurious = FALSE
  MayShutDown = FALSE
PROPERTY EveryRequestAnswered
CHECK_DEADLOCK FALSE
