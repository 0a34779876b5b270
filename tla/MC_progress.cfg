\* Two threads under the fairness of FairSpec, with every failure enabled and
\* the one-step reclaim; buildDataCount wraps at 2, so reclaims are unbounded.
CONSTANTS
  t1 = t1  t2 = t2  t3 = t3  f1 = f1  f2 = f2
  Threads <- MCThreads2
  Funcs <- MCFuncs
  Pages <- MCPages
  W = 4
  UxptEnabled = TRUE
  MaxChain = 2
  CountWrap = 2
  Faults = {"build", "alloc", "lock"}
  ReclaimWindow = FALSE
SPECIFICATION FairSpec
PROPERTIES BeginReturns
