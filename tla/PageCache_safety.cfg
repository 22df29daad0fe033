SPECIFICATION Spec
CONSTANTS
  c1 = c1
  c2 = c2
  c3 = c3
  p1 = p1
  p2 = p2
  p3 = p3
  q1 = q1
  q2 = q2
  nullptr = nullptr
  Clients <- MCThreeClients
  Pages <- MCPages3
  Consumers <- MCTwoConsumers
  Frames = 2
  EvictStop = 1
  FlushCap = 1
  MaxLoads = 2
  Releases <- UnpinDecRef
  OneLoader = TRUE
SYMMETRY MCSymmetry
INVARIANT PinnedPageStays
INVARIANT RefCountIsHolders
 
INVARIANT AppendedOnce
