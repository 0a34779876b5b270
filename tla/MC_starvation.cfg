\* Three threads under the fairness of FairSpec, no failures, one-step kernel
\* reclaim: two readers whose sessions overlap lock a waiting writer out.
CONSTANTS
  t1 = t1  t2 = t2  t3 = t3  f1 = f1  f2 = f2
  Threads <- MCThreads
  Funcs <- MCFuncs
  Pages <- MCPages
  W = 4
  UxptEnabled = TRUE
  MaxChain = 2
  CountWrap = 3
  Faults = {}
  ReclaimWindow = FALSE
SPECIFICATION FairSpec
PROPERTIES BeginReturns
