\* Every policy, three processes, two resources, 456 well-formed scripts and 216
\* that break the rules.
SPECIFICATION Spec
CONSTANTS
  NrProcesses = 3
  Resource = {1, 2}
  NULL = NULL
  Policies <- AllPolicies
  Scripts <- AllScripts
  MAX_PRIO = 64
  UINT_MAX = 65535
INVARIANTS
  TypeOK
  ExitedClean
  AssertsHold
  EveryoneInOnePlace
  HeldAsDeclared
  NoLostWakeup
  QuitsOnlyInDeadlock
  NoDeadlockUnlessNested
  LoopsPickFirst
  EndsInTime
PROPERTIES
  Termination
  EveryoneExits
  ImplementsResources
  CountsDown
