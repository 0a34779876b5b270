------------------------- MODULE PurgeableMemProofs -------------------------
(***************************************************************************)
(* Proofs about the PurgeableMem specification, for every value of its     *)
(* constants that satisfies the module's assumptions.                      *)
(***************************************************************************)
EXTENDS PurgeableMem, TLAPS

USE WAssumption, ModulusAssumption, MaxChainAssumption, CountWrapAssumption

-----------------------------------------------------------------------------
(***************************************************************************)
(* Lemmas on UXPT words: every operation of ux_page_table_c.c keeps a word *)
(* a uxpte_t, whatever the word held before.                               *)
(***************************************************************************)
LEMMA UxpteAddWord ==
  ASSUME NEW x \in Word
  PROVE  UxpteAdd(x, UXPTE_REFCNT_ONE) \in Word
  BY DEF UxpteAdd, UxpteAddOverflows, Word, UXPTE_REFCNT_ONE

LEMMA UxpteSubWord ==
  ASSUME NEW x \in Word
  PROVE  UxpteSub(x, UXPTE_REFCNT_ONE) \in Word
  BY DEF UxpteSub, Word, UXPTE_REFCNT_ONE

\* Setting the present bit of a word that does not have it.
LEMMA PresentBitWord ==
  ASSUME NEW x \in Word, ~IsUxptePresent(x)
  PROVE  x + 1 \in Word
  BY DEF IsUxptePresent, Word

LEMMA TableOps ==
  ASSUME NEW ptes \in [Pages -> Word]
  PROVE  /\ UxpteGet(ptes) \in [Pages -> Word]
         /\ UxptePut(ptes) \in [Pages -> Word]
         /\ Touch(ptes) \in [Pages -> Word]
  <1>1. UxpteGet(ptes) \in [Pages -> Word]
    BY UxpteAddWord DEF UxpteGet
  <1>2. UxptePut(ptes) \in [Pages -> Word]
    BY UxpteSubWord DEF UxptePut
  <1>3. Touch(ptes) \in [Pages -> Word]
    BY PresentBitWord DEF Touch
  <1>4. QED
    BY <1>1, <1>2, <1>3

LEMMA InitTable ==
  /\ InitUxPageTable \in [Pages -> Word]
  /\ Touch(InitUxPageTable) \in [Pages -> Word]
  <1>1. InitUxPageTable \in [Pages -> Word]
    BY DEF InitUxPageTable, Word
  <1>2. QED
    BY <1>1, TableOps

\* The empty content, a one-function chain, and a chain one function longer.
LEMMA ChainsFacts ==
  /\ << >> \in Chains
  /\ \A f \in Funcs : <<f>> \in Chains
  /\ \A s \in Chains, f \in Funcs : Len(s) < MaxChain => Append(s, f) \in Chains
  BY DEF Chains

\* The prefixes BuildAll leaves are chains.
LEMMA BuildAllChains ==
  ASSUME NEW n \in 0 .. Len(chain), chain \in Chains
  PROVE  BuildAll(n) \in [Pages -> Chains]
  BY DEF BuildAll, Chains

-----------------------------------------------------------------------------
LEMMA TypeInit == Init => TypeOK
  BY InitTable, ChainsFacts DEF Init, TypeOK, ZeroContent, PC

LEMMA TypeStep == TypeOK /\ [Next]_vars => TypeOK'
  <2> SUFFICES ASSUME TypeOK, [Next]_vars PROVE TypeOK'
    OBVIOUS
  <2> USE DEF TypeOK
  <2>1. ASSUME NEW f \in Funcs, PurgMemCreate(f) PROVE TypeOK'
    BY <2>1, InitTable, ChainsFacts DEF PurgMemCreate
  <2>2. CASE PurgMemDestroy
    BY <2>2, InitTable, ChainsFacts DEF PurgMemDestroy, ZeroContent
  <2>3. ASSUME NEW t \in Threads, PurgMemBeginRead(t) PROVE TypeOK'
    BY <2>3, TableOps DEF PurgMemBeginRead, PC
  <2>4. ASSUME NEW t \in Threads, TryBeginRead(t) PROVE TypeOK'
    BY <2>4 DEF TryBeginRead, PC
  <2>5. ASSUME NEW t \in Threads, BeginReadBuildData(t) PROVE TypeOK'
    BY <2>5, TableOps, BuildAllChains DEF BeginReadBuildData, PurgMemBuildData, PC
  <2>6. ASSUME NEW t \in Threads, PurgMemBeginWrite(t) PROVE TypeOK'
    BY <2>6, TableOps DEF PurgMemBeginWrite, PC
  <2>7. ASSUME NEW t \in Threads, BeginWriteLock(t) PROVE TypeOK'
    BY <2>7, TableOps, BuildAllChains DEF BeginWriteLock, PurgMemBuildData, PC
  <2>8. ASSUME NEW t \in Threads, EndAccessPurgMem(t) PROVE TypeOK'
    BY <2>8, TableOps DEF EndAccessPurgMem, PC
  <2>9. ASSUME NEW t \in Threads, NEW f \in Funcs, PurgMemAppendModify(t, f)
        PROVE TypeOK'
    <3>1. content' \in [Pages -> Chains]
      BY <2>9, ChainsFacts DEF PurgMemAppendModify
    <3>2. chain' \in Chains
      BY <2>9, ChainsFacts DEF PurgMemAppendModify
    <3>3. QED
      BY <2>9, <3>1, <3>2, TableOps DEF PurgMemAppendModify
  <2>10. ASSUME NEW p \in Pages, Reclaim(p) PROVE TypeOK'
    BY <2>10 DEF Reclaim, Chains, Word
  <2>11. ASSUME NEW p \in Pages, StartReclaim(p) PROVE TypeOK'
    BY <2>11 DEF StartReclaim, Word, UXPTE_UNDER_RECLAIM, UXPTE_REFCNT_ONE
  <2>12. ASSUME NEW p \in Pages, FinishReclaim(p) PROVE TypeOK'
    BY <2>12 DEF FinishReclaim, Chains, Word
  <2>13. CASE UNCHANGED vars
    BY <2>13 DEF vars
  <2>14. ASSUME NEW t \in Threads, RdlockFail(t) \/ ReadWrlockFail(t) \/ WrlockFail(t)
         PROVE TypeOK'
    BY <2>14, TableOps DEF RdlockFail, ReadWrlockFail, WrlockFail, FailedBegin, PC
  <2>15. QED
    BY <2>1, <2>2, <2>3, <2>4, <2>5, <2>6, <2>7, <2>8, <2>9, <2>10, <2>11,
       <2>12, <2>13, <2>14 DEF Next

(***************************************************************************)
(* Type correctness: every reachable state gives each variable a value of  *)
(* its type; in particular every UXPT word stays a W-bit word through the  *)
(* wrapping UxpteSub and the present bit set by a fault.                   *)
(***************************************************************************)
THEOREM TypeCorrect == Spec => []TypeOK
  BY TypeInit, TypeStep, PTL DEF Spec

=============================================================================
