\* Reading a freed page through the TLB.
SPECIFICATION PSpec
CONSTANTS
  NR_PDES_PER_PAGE = 2
  NR_PTES_PER_PAGE = 1
  NR_PAGEFRAMES = 4
  NR_TLB_ENTRIES = 5
  UINT_MAX = 65535
  Pid = {0, 1}
  MaxProcesses = 2
  TlbOptions = {TRUE}
  NULL = NULL
INVARIANTS
  FreedIsDenied
