\* A rebuild may fail part way through.
CONSTANTS
  t1 = t1  t2 = t2  t3 = t3  f1 = f1  f2 = f2
  Threads <- MCThreads
  Funcs <- MCFuncs
  Pages <- MCPages
  W = 4
  UxptEnabled = TRUE
  MaxChain = 2
  CountWrap = 2
  Faults = {"build"}
  ReclaimWindow = FALSE
SPECIFICATION Spec
SYMMETRY Symmetry
INVARIANTS SessionSeesChain
