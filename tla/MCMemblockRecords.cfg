CONSTANTS
  None = None
  FRAME_ORDER = 2
  BUDDY_MAX_ORDER = 2
  MEMBLOCKS_LEN = 2
  KernelEnd = 5
  AddrEnd = 64
  BITS = 8
  MaxReserves = 3
  Cuts <- MCCuts
  Maps <- MCMaps
  Layouts <- MCLayouts
SPECIFICATION Spec
INVARIANT InheritsRecords
CHECK_DEADLOCK FALSE
