-------------------------- MODULE MC_PurgeableMem --------------------------
(***************************************************************************)
(* Model-checking instance of PurgeableMem: model values for the threads   *)
(* and modify functions, a small word width, and symmetry over threads and *)
(* functions (neither is ever compared with a particular value).           *)
(***************************************************************************)
EXTENDS PurgeableMem, TLC

CONSTANTS t1, t2, t3, f1, f2

MCThreads == {t1, t2, t3}
MCThreads2 == {t1, t2}
MCFuncs == {f1, f2}
MCPages == {1, 2}
MCPages3 == {1, 2, 3}

Symmetry == Permutations(MCThreads) \cup Permutations(MCFuncs)
=============================================================================
