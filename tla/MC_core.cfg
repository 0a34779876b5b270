\* Three threads, three pages, no faults, one-step kernel reclaim.
CONSTANTS
  t1 = t1  t2 = t2  t3 = t3  f1 = f1  f2 = f2
  Threads <- MCThreads
  Funcs <- MCFuncs
  Pages <- MCPages3
  W = 4
  UxptEnabled = TRUE
  MaxChain = 3
  CountWrap = 4
  Faults = {}
  ReclaimWindow = FALSE
SPECIFICATION Spec
SYMMETRY Symmetry
INVARIANTS SessionSeesChain PinAccounting
PROPERTIES NoRedundantBuild RegionRefined
