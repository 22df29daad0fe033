SPECIFICATION FairSpec
CONSTANTS
  n1 = n1
  n2 = n2
  Nodes <- MCNodes
  Unreliable <- MCUnreliable
  Requests <- MCRequests
  Workloads <- MCWorkloads
  MaxRetries = 1
  MaxFaults = 1
INVARIANT NamespacesAgree
INVARIANT NoDanglingName
INVARIANT NoOrphans
PROPERTY ForgottenLast
PROPERTY RequestsAnswered
CHECK_DEADLOCK FALSE
