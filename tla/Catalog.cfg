SPECIFICATION FairSpec
CONSTANTS
  w1 = w1
  w2 = w2
  t1 = t1
  t2 = t2
  Manager = Manager
  None = None
  Workers <- MCWorkers
  Members <- MCMembers
  Types <- MCTypes
  Requests <- MCRequests
  Workloads <- MCWorkloads
  MaxRetries = 1
  MaxFaults = 1
  MaxFetches = 1
INVARIANT ManagerIdsUnique
INVARIANT IdsAgree
INVARIANT CatalogsAgree
PROPERTY RequestsAnswered
CHECK_DEADLOCK FALSE
