CONSTANTS
  TABLE_LEN = 4
  KERNEL_START = 1
  RemapSlots = {1}
  KernelPage = 224
  KernelPages = 2
  MapIds = {boot, a, b}
  Boot = boot
  Pool = {p1, p2, p3, p4, p5}
  Requests <- MCRequests
SPECIFICATION Spec
SYMMETRY Symmetric
CHECK_DEADLOCK FALSE
INVARIANT FailsIffUnmapped
