CONSTANTS
  None = None
  page_cnt = 8
  BUDDY_MAX_ORDER = 3
  max_order <- MCmax_order
  tree_cnt <- MCtree_cnt
  Boots <- MCBoots
  VARIANTS <- MCVARIANTS
  Bases = {4, 5}
  MaxCnt = 3
  Layouts = {2, 4}
SPECIFICATION PhySpec
INVARIANTS FreeMatches RangesFit
PROPERTIES FreesOnlyOut PhyIsPageAllocator
CHECK_DEADLOCK FALSE
