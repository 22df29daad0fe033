SPECIFICATION FairScanSpec
CONSTANTS
  w1 = w1
  w2 = w2
  p1 = p1
  p2 = p2
  p3 = p3
  End = End
  Workers <- MCWorkers
  Pages <- MCPages
  Listed <- MCListed
  BufSize = 1
  MaxRetries = 2
  MaxFaults = 3
INVARIANT SleeperWillBeWoken
INVARIANT DoneAfterAll
 
INVARIANT RepeatsAreFaults
PROPERTY ConsumersLeave
CHECK_DEADLOCK FALSE
