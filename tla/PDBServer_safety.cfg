SPECIFICATION ServerSpec
CONSTANTS
  w1 = w1
  w2 = w2
  w3 = w3
  c1 = c1
  c2 = c2
  Main = Main
  Nothing = Nothing
  nullptr = nullptr
  listener = listener
  Callers <- MCCallers
  Conns <- MCConns
  Jobs <- MCJobs
  Workers <- MCThree
  MaxReqs = 2
  Kinds <- MCAllKinds
  Spurious = FALSE
  MayShutDown = TRUE
SYMMETRY MCSymmetry
INVARIANT OneReader
INVARIANT WorkersGetWorkers
CHECK_DEADLOCK FALSE
