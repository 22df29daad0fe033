SPECIFICATION FairSpec
CONSTANTS
  p1 = p1
  p2 = p2
  c1 = c1
  c2 = c2
  g1 = g1
  g2 = g2
  g3 = g3
  g4 = g4
  g5 = g5
  nullptr = nullptr
  bufferSize = 3
  Producers <- MCProducers
  Consumers <- MCConsumers
  Pages <- MCPages5
INVARIANTS ReturnedOnce NoLostWakeup KeptUnlessGap
PROPERTIES AddReturns ConsumersFinish
ACTION_CONSTRAINT MCAddedInOrder
