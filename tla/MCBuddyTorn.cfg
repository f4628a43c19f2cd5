CONSTANTS
  page_cnt = 32
  BUDDY_MAX_ORDER = 5
  max_order <- MCmax_order
  tree_cnt <- MCtree_cnt
  Boots <- MCTornWide
SPECIFICATION Spec
INVARIANT Apart
