\* The inheritance protocol on nested requests.
SPECIFICATION Spec
CONSTANTS
  NrProcesses = 3
  Resource = {1, 2}
  NULL = NULL
  Policies = {"pip"}
  Scripts <- MixedScripts
  MAX_PRIO = 64
  UINT_MAX = 65535
INVARIANTS
  OwnersInherit
