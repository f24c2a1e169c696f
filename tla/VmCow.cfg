\* Copy-on-write: three processes, two pages, three frames, no TLB.
SPECIFICATION PSpec
CONSTANTS
  NR_PDES_PER_PAGE = 1
  NR_PTES_PER_PAGE = 2
  NR_PAGEFRAMES = 3
  NR_TLB_ENTRIES = 3
  UINT_MAX = 65535
  Pid = {0, 1}
  MaxProcesses = 3
  TlbOptions = {FALSE}
  NULL = NULL
INVARIANTS
  MapcountsExact
  WritersAreAlone
  ReadOnlyStaysSo
PROPERTIES
  AnsweredRightly
  ImplementsSpace
CONSTRAINT UntilStarved
