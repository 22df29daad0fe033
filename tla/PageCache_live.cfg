SPECIFICATION FairSpec
CONSTANTS
  c1 = c1
  c2 = c2
  c3 = c3
  p1 = p1
  p2 = p2
  p3 = p3
  q1 = q1
  q2 = q2
  nullptr = nullptr
  Clients <- MCTwoClients
  Pages <- MCPages2
  Consumers <- MCOneConsumer
  Frames = 1
  EvictStop = 0
  FlushCap = 1
  MaxLoads = 1
  Releases <- Unpin
  OneLoader = TRUE
INVARIANT NoFrameLeaked
 
