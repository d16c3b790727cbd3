SPECIFICATION Spec
CONSTANTS
  MAXPA = 32
  KSTACKTOP = 1
  KERNEL_PAGES = 12
  TIMESTACKTOP = 15
  USTACKTOP = 128
  PTE2PT = 8
  BY2PG = 2
  Element <- Pages
  Binary <- Programs
  NULL = NULL
  HEAD = HEAD
  BadPointer = BadPointer
INVARIANTS IdentityMapped TablesFit FreePagesUnused LoadsSegments
CHECK_DEADLOCK FALSE
