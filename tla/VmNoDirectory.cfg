\* Accessing a page without a page directory.
SPECIFICATION PSpec
CONSTANTS
  NR_PDES_PER_PAGE = 2
  NR_PTES_PER_PAGE = 1
  NR_PAGEFRAMES = 2
  NR_TLB_ENTRIES = 2
  UINT_MAX = 65535
  Pid = {0, 1}
  MaxProcesses = 2
  TlbOptions = {FALSE}
  NULL = NULL
INVARIANTS
  FaultsAreHandled
