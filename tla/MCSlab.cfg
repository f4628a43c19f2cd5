CONSTANTS
  MIN_ORDER = 1
  MAX_ORDER = 2
  PAGE_SIZE = 16
  BUF_START = 3
  SLAB_BUF_SIZE = 12
  Page = {1, 2, 3, 4, 5}
  Layouts <- MCLayouts
SPECIFICATION Spec
INVARIANTS NoPanic Apart Accounted InItsList PagesAccounted
