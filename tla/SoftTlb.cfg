CONSTANTS
  APPS_PAGES_CNT = 20
  PAGE_BLOCKS = 2
  MaxVpage = 9
  APPS_ARG = 6
  SYSCALL_ARG = 7
  APPS_STACK_TOP = 10
  PT_MAX_NPROCESS = 3
  GPID_USER_START = 2
  MaxPid = 3
  Image <- MCImage
  TouchPages = {3, 7}
  Regions <- MCRegions
SPECIFICATION TlbSpec
INVARIANTS RunningSeesOwnMemory DormantMemoryKept PagesAccounted ImageComplete TablesIntact
