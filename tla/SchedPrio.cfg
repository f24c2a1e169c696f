\* The priority policies, four processes contending for one resource.
SPECIFICATION HSpec
CONSTANTS
  NrProcesses = 4
  Resource = {1}
  NULL = NULL
  Policies = {"prio", "pcp", "pip", "pa", "rr"}
  Scripts <- ContendingScripts
  MAX_PRIO = 64
  UINT_MAX = 65535
INVARIANTS
  CeilingKeepsTheCpu
  InheritanceHolds
  TakeTurns
  AgingPreventsStarvation
PROPERTIES
  GoesToTheMostUrgent
