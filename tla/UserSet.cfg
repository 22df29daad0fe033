SPECIFICATION Spec
CONSTANTS
  p1 = p1
  p2 = p2
  Partitions <- MCPartitions
  PageIds <- MCPageIds
  MaxFailures = 1
  PinLate = {TRUE, FALSE}
  MaxScans = 2
  MaxCrashes = 1
  MaxSets = 2
SYMMETRY Symmetry
INVARIANT IndexReadsBack
INVARIANT KeptOrWritten
INVARIANT PinProtects
 
PROPERTY ScanComplete
PROPERTY Durable
CHECK_DEADLOCK FALSE
