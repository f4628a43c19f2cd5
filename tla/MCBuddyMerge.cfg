CONSTANTS
  page_cnt = 10
  BUDDY_MAX_ORDER = 3
  max_order <- MCmax_order
  tree_cnt <- MCtree_cnt
  Boots <- MCAligned
SPECIFICATION Spec
INVARIANT NoneMeansNoLarger
