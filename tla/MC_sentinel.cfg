\* Two-step kernel reclaim: a page under reclaim is pinned by no one.
CONSTANTS
  t1 = t1  t2 = t2  t3 = t3  f1 = f1  f2 = f2
  Threads <- MCThreads
  Funcs <- MCFuncs
  Pages <- MCPages
  W = 4
  UxptEnabled = TRUE
  MaxChain = 2
  CountWrap = 2
  Faults = {}
  ReclaimWindow = TRUE
SPECIFICATION Spec
SYMMETRY Symmetry
INVARIANTS SessionSeesChain
