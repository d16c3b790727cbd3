SPECIFICATION Spec
CONSTANTS
  AS = {e1, e2, e3}
  Page = {p1, p2, p3, p4, p5}
  KernelPage = kp
  Boot = boot
  Kernel = kernel
  None = none
  Invalid = invalid
SYMMETRY Symmetry
INVARIANTS TypeOK TlbCoherent NoNestedAbort OnlyOwnStack
CHECK_DEADLOCK FALSE
