-------------------------- MODULE PurgeableMemSessionProofs --------------------------
(***************************************************************************)
(* Session safety of a purgeable region, for any number of threads and    *)
(* pages: the pin count of every UXPT word is the number of pinning        *)
(* threads, and every open session sees the builder chain.                 *)
(*                                                                         *)
(* Both hold only in the configuration where the code's protocol is sound: *)
(* no builder or allocation failure, a kernel whose reclaim is one step    *)
(* (the sentinel is never seen: UxpteAdd mishandles it), and pin counts    *)
(* that cannot reach the top of a uxpte_t.  Outside it TLC finds the       *)
(* counterexamples of the sentinel and build_fail runs.                    *)
(***************************************************************************)
EXTENDS PurgeableMemProofs, FiniteSetTheorems

USE WAssumption, ModulusAssumption, MaxChainAssumption, CountWrapAssumption

\* The configuration the session theorems hold in.
NoFaultConfig ==
  /\ Faults = {}
  /\ ~ReclaimWindow
  /\ 2 * Cardinality(Threads) + 1 < Modulus

\* The threads that hold a pin, for a given pc.
PinnedOf(f) == {u \in Threads : f[u] # "idle"}

\* A page counts as present when UXPT is off (IsPurged then ignores it).
Present(p) == ~UxptEnabled \/ IsUxptePresent(pte[p])

(***************************************************************************)
(* The strengthening of SessionSeesChain and PinAccounting.                *)
(*  - No reclaim is in flight (the kernel's reclaim is one step).          *)
(*  - No thread is pinned while there is no region: BeginRead and          *)
(*    BeginWrite need a valid region, and Destroy needs no session.        *)
(*  - Every present page of a live region holds the chain: the kernel     *)
(*    zeroes a page only together with clearing its present bit, and a    *)
(*    fault only happens in a rebuild or in an append to a session.        *)
(*  - Every page of an open session is present: a session opens only when *)
(*    IsPurged is false, and the kernel takes only unpinned pages, which   *)
(*    PinAccounting ties to the word.                                      *)
(***************************************************************************)
NoReclaimInFlight == reclaiming = {}

NoPinWithoutRegion == region = "none" => Pinned = {}

PresentHoldsChain ==
  region = "live" => \A p \in Pages : Present(p) => content[p] = chain

SessionPagesPresent == \A t \in Readers \cup Writers : \A p \in Pages : Present(p)

IInv ==
  /\ TypeOK
  /\ NoReclaimInFlight
  /\ NoPinWithoutRegion
  /\ PinAccounting
  /\ PresentHoldsChain
  /\ SessionPagesPresent

-----------------------------------------------------------------------------
(***************************************************************************)
(* Counting pins.                                                          *)
(***************************************************************************)
LEMMA PinnedCard ==
  ASSUME NEW f \in [Threads -> PC]
  PROVE  /\ IsFiniteSet(PinnedOf(f))
         /\ Cardinality(PinnedOf(f)) \in Nat
         /\ Cardinality(PinnedOf(f)) <= Cardinality(Threads)
         /\ Cardinality(PinnedOf(f)) = 0 => PinnedOf(f) = {}
  BY ThreadsAssumption, FS_Subset, FS_CardinalityType, FS_EmptySet DEF PinnedOf

\* A thread that leaves idle adds one pin.
LEMMA PinnedAdd ==
  ASSUME NEW f \in [Threads -> PC], NEW g \in [Threads -> PC], NEW t \in Threads,
         f[t] = "idle", g[t] # "idle", \A u \in Threads \ {t} : g[u] = f[u]
  PROVE  Cardinality(PinnedOf(g)) = Cardinality(PinnedOf(f)) + 1
  <1>1. PinnedOf(g) = PinnedOf(f) \cup {t}
    BY DEF PinnedOf
  <1>2. t \notin PinnedOf(f)
    BY DEF PinnedOf
  <1>3. QED
    BY <1>1, <1>2, PinnedCard, FS_AddElement

\* A thread that returns to idle removes one pin, so there was one.
LEMMA PinnedRemove ==
  ASSUME NEW f \in [Threads -> PC], NEW g \in [Threads -> PC], NEW t \in Threads,
         f[t] # "idle", g[t] = "idle", \A u \in Threads \ {t} : g[u] = f[u]
  PROVE  /\ Cardinality(PinnedOf(f)) >= 1
         /\ Cardinality(PinnedOf(g)) = Cardinality(PinnedOf(f)) - 1
  <1>1. PinnedOf(g) = PinnedOf(f) \ {t}
    BY DEF PinnedOf
  <1>2. t \in PinnedOf(f)
    BY DEF PinnedOf
  <1>3. Cardinality(PinnedOf(g)) = Cardinality(PinnedOf(f)) - 1
    <2>1. IsFiniteSet(PinnedOf(f))
      BY PinnedCard
    <2>2. Cardinality(PinnedOf(f) \ {t}) = Cardinality(PinnedOf(f)) - 1
      BY <1>2, <2>1, FS_RemoveElement
    <2>3. QED
      BY <1>1, <2>2
  <1>4. Cardinality(PinnedOf(g)) \in Nat /\ Cardinality(PinnedOf(f)) \in Nat
    BY PinnedCard
  <1>5. QED
    BY <1>3, <1>4

\* A thread that moves between non-idle places keeps its pin.
LEMMA PinnedSame ==
  ASSUME NEW f \in [Threads -> PC], NEW g \in [Threads -> PC], NEW t \in Threads,
         f[t] # "idle", g[t] # "idle", \A u \in Threads \ {t} : g[u] = f[u]
  PROVE  PinnedOf(g) = PinnedOf(f)
  BY DEF PinnedOf

LEMMA PinnedDef == Pinned = PinnedOf(pc) /\ Pinned' = PinnedOf(pc')
  BY DEF Pinned, PinnedOf

-----------------------------------------------------------------------------
(***************************************************************************)
(* One word under the operations a session makes on it, when the pin      *)
(* count is below the top of the word.                                     *)
(***************************************************************************)
LEMMA GetOnWord ==
  ASSUME NEW x \in Word, NEW k \in Nat, x \div 2 = k, 2 * (k + 1) + 1 < Modulus
  PROVE  /\ UxpteAdd(x, UXPTE_REFCNT_ONE) = x + 2
         /\ (x + 2) \div 2 = k + 1
         /\ (x + 2) % 2 = x % 2
  BY DEF UxpteAdd, UxpteAddOverflows, UXPTE_REFCNT_ONE, Word

LEMMA PutOnWord ==
  ASSUME NEW x \in Word, x \div 2 >= 1
  PROVE  /\ UxpteSub(x, UXPTE_REFCNT_ONE) = x - 2
         /\ (x - 2) \div 2 = x \div 2 - 1
         /\ (x - 2) % 2 = x % 2
  BY DEF UxpteSub, UXPTE_REFCNT_ONE, Word

LEMMA TouchOnWord ==
  ASSUME NEW x \in Word
  PROVE  LET y == IF IsUxptePresent(x) THEN x ELSE x + 1
         IN  /\ y % 2 = 1
             /\ y \div 2 = x \div 2
  BY DEF IsUxptePresent, Word

\* The builder chain run to the end is the chain itself.
LEMMA BuildAllFull ==
  ASSUME chain \in Seq(Funcs)
  PROVE  BuildAll(Len(chain)) = [p \in Pages |-> chain]
  BY DEF BuildAll

\* The session holders are pinned.
LEMMA SessionsPinned ==
  /\ Readers \cup Writers \subseteq Pinned
  /\ Readers' \cup Writers' \subseteq Pinned'
  BY DEF Readers, Writers, Pinned

-----------------------------------------------------------------------------
(***************************************************************************)
(* The steps, grouped by what they do to a word and to the pins.  Each     *)
(* lemma assumes the invariant now and the type invariant after the step.  *)
(***************************************************************************)

\* A thread pins every page with UxpteGet: PurgMemBeginRead, PurgMemBeginWrite.
LEMMA PinStep ==
  ASSUME NoFaultConfig, IInv, TypeOK', NEW t \in Threads,
         NEW s \in {"TryBeginRead", "BeginWriteLock"},
         pc[t] = "idle", region = "live",
         pte' = UxpteGet(pte), pc' = [pc EXCEPT ![t] = s],
         UNCHANGED <<region, content, chain, count, reclaiming>>
  PROVE  IInv'
  <1>1. Cardinality(Pinned') = Cardinality(Pinned) + 1
    BY PinnedAdd, PinnedDef DEF IInv, TypeOK, PC
  <1>2. /\ Cardinality(Pinned') <= Cardinality(Threads)
        /\ Cardinality(Pinned) \in Nat
    BY PinnedCard, PinnedDef DEF IInv, TypeOK
  <1>3. ASSUME NEW p \in Pages, UxptEnabled
        PROVE  /\ pte'[p] \div 2 = pte[p] \div 2 + 1
               /\ pte'[p] % 2 = pte[p] % 2
    <2>1. pte[p] \div 2 = Cardinality(Pinned)
      BY <1>3 DEF IInv, PinAccounting, NoReclaimInFlight, UXPTE_REFCNT_ONE
    <2>2. 2 * (Cardinality(Pinned) + 1) + 1 < Modulus
      BY <1>1, <1>2, ThreadsAssumption, FS_CardinalityType DEF NoFaultConfig
    <2>3. pte[p] \in Word
      BY DEF IInv, TypeOK
    <2>4. QED
      BY <1>3, <2>1, <2>2, <2>3, <1>2, GetOnWord DEF UxpteGet
  <1>4. \A p \in Pages : Present(p)' = Present(p)
    BY <1>3 DEF Present, IsUxptePresent
  <1>5. PinAccounting'
    BY <1>1, <1>3 DEF IInv, PinAccounting, NoReclaimInFlight, UXPTE_REFCNT_ONE, IsUxptePresent
  <1>6. PresentHoldsChain'
    BY <1>4 DEF IInv, PresentHoldsChain
  <1>7. SessionPagesPresent'
    BY <1>4 DEF IInv, SessionPagesPresent, Readers, Writers
  <1>8. QED
    BY <1>5, <1>6, <1>7 DEF IInv, NoReclaimInFlight, NoPinWithoutRegion

\* A thread drops its pins with UxptePut and goes idle: EndAccessPurgMem, and
\* BeginReadBuildData when another thread rebuilt first.
LEMMA UnpinStep ==
  ASSUME NoFaultConfig, IInv, TypeOK', NEW t \in Threads,
         pc[t] # "idle",
         pte' = UxptePut(pte), pc' = [pc EXCEPT ![t] = "idle"],
         UNCHANGED <<region, content, chain, reclaiming>>
  PROVE  IInv'
  <1>1. /\ Cardinality(Pinned) >= 1
        /\ Cardinality(Pinned') = Cardinality(Pinned) - 1
    <2>1. /\ pc \in [Threads -> PC]
          /\ pc' \in [Threads -> PC]
          /\ pc'[t] = "idle"
          /\ \A u \in Threads \ {t} : pc'[u] = pc[u]
      BY DEF IInv, TypeOK
    <2>2. QED
      BY <2>1, PinnedRemove, PinnedDef
  <1>2. region = "live"
    BY DEF IInv, NoPinWithoutRegion, Pinned, TypeOK
  <1>3. ASSUME NEW p \in Pages, UxptEnabled
        PROVE  /\ pte'[p] \div 2 = pte[p] \div 2 - 1
               /\ pte'[p] % 2 = pte[p] % 2
    <2>1. pte[p] \div 2 = Cardinality(Pinned)
      BY <1>2, <1>3 DEF IInv, PinAccounting, NoReclaimInFlight, UXPTE_REFCNT_ONE
    <2>2. pte[p] \in Word
      BY DEF IInv, TypeOK
    <2>3. QED
      BY <1>1, <1>3, <2>1, <2>2, PutOnWord DEF UxptePut
  <1>4. \A p \in Pages : Present(p)' = Present(p)
    BY <1>3 DEF Present, IsUxptePresent
  <1>5. PinAccounting'
    BY <1>1, <1>2, <1>3 DEF IInv, PinAccounting, NoReclaimInFlight, UXPTE_REFCNT_ONE, IsUxptePresent
  <1>6. PresentHoldsChain'
    BY <1>4 DEF IInv, PresentHoldsChain
  <1>7. SessionPagesPresent'
    BY <1>4 DEF IInv, SessionPagesPresent, Readers, Writers
  <1>8. QED
    BY <1>2, <1>5, <1>6, <1>7 DEF IInv, NoReclaimInFlight, NoPinWithoutRegion

\* A pinned thread moves on without touching the region; it enters a session
\* only when IsPurged is false: TryBeginRead, BeginWriteLock on a valid region.
LEMMA MoveStep ==
  ASSUME IInv, TypeOK', NEW t \in Threads, NEW s \in PC \ {"idle"},
         pc[t] # "idle", pc' = [pc EXCEPT ![t] = s],
         s \in {"reading", "writing"} => ~IsPurged,
         UNCHANGED <<region, pte, content, chain, count, reclaiming>>
  PROVE  IInv'
  <1>1. Pinned' = Pinned
    BY PinnedSame, PinnedDef DEF IInv, TypeOK
  <1>2. s \in {"reading", "writing"} => \A p \in Pages : Present(p)
    BY DEF IsPurged, UxpteIsPresent, Present
  <1>3. SessionPagesPresent'
    BY <1>2 DEF IInv, SessionPagesPresent, Readers, Writers, Present
  <1>4. QED
    BY <1>1, <1>3 DEF IInv, NoReclaimInFlight, NoPinWithoutRegion, PinAccounting,
                      PresentHoldsChain, Present

\* Touch: a fault sets the present bit of every page and keeps its pins.
LEMMA TouchPresent ==
  ASSUME NEW ptes \in [Pages -> Word], NEW p \in Pages, UxptEnabled
  PROVE  /\ Touch(ptes)[p] % 2 = 1
         /\ Touch(ptes)[p] \div 2 = ptes[p] \div 2
  BY TouchOnWord DEF Touch

\* A successful rebuild under the write lock: BeginReadBuildData and
\* BeginWriteLock when IsPurged holds.
LEMMA BuildStep ==
  ASSUME IInv, TypeOK', NEW t \in Threads, NEW s \in PC \ {"idle"},
         pc[t] # "idle", Readers = {}, Writers = {},
         PurgMemBuildData(TRUE), pte' = Touch(pte), pc' = [pc EXCEPT ![t] = s],
         UNCHANGED <<region, chain, reclaiming>>
  PROVE  IInv'
  <1>1. Pinned' = Pinned
    BY PinnedSame, PinnedDef DEF IInv, TypeOK
  <1>2. region = "live"
    BY DEF IInv, NoPinWithoutRegion, Pinned, TypeOK
  <1>3. content' = [p \in Pages |-> chain]
    BY BuildAllFull DEF PurgMemBuildData, IInv, TypeOK, Chains
  <1>4. ASSUME NEW p \in Pages, UxptEnabled
        PROVE  /\ pte'[p] % 2 = 1
               /\ pte'[p] \div 2 = pte[p] \div 2
    BY <1>4, TouchPresent DEF IInv, TypeOK
  <1>5. \A p \in Pages : Present(p)'
    BY <1>4 DEF Present, IsUxptePresent
  <1>6. PinAccounting'
    BY <1>1, <1>2, <1>4 DEF IInv, PinAccounting, NoReclaimInFlight, UXPTE_REFCNT_ONE,
                            IsUxptePresent
  <1>7. PresentHoldsChain'
    BY <1>3 DEF PresentHoldsChain
  <1>8. SessionPagesPresent'
    BY <1>5 DEF SessionPagesPresent
  <1>9. QED
    BY <1>1, <1>2, <1>6, <1>7, <1>8 DEF IInv, NoReclaimInFlight, NoPinWithoutRegion

\* PurgMemAppendModify in a write session, when the node allocation succeeds.
LEMMA AppendStep ==
  ASSUME IInv, TypeOK', NEW t \in Threads, NEW f \in Funcs,
         pc[t] = "writing",
         pte' = Touch(pte),
         content' = [p \in Pages |-> Append(content[p], f)],
         chain' = Append(chain, f),
         UNCHANGED <<region, count, pc, reclaiming>>
  PROVE  IInv'
  <1>1. region = "live"
    BY DEF IInv, NoPinWithoutRegion, Pinned, TypeOK
  <1>2. \A p \in Pages : Present(p)
    BY DEF IInv, SessionPagesPresent, Writers
  <1>3. \A p \in Pages : content[p] = chain
    BY <1>1, <1>2 DEF IInv, PresentHoldsChain
  <1>4. ASSUME NEW p \in Pages, UxptEnabled
        PROVE  /\ pte'[p] % 2 = 1
               /\ pte'[p] \div 2 = pte[p] \div 2
    BY <1>4, TouchPresent DEF IInv, TypeOK
  <1>5. \A p \in Pages : Present(p)'
    BY <1>4 DEF Present, IsUxptePresent
  <1>6. PinAccounting'
    BY <1>1, <1>4 DEF IInv, PinAccounting, NoReclaimInFlight, UXPTE_REFCNT_ONE,
                      IsUxptePresent, Pinned
  <1>7. PresentHoldsChain'
    BY <1>3 DEF PresentHoldsChain
  <1>8. SessionPagesPresent'
    BY <1>5 DEF SessionPagesPresent
  <1>9. QED
    BY <1>1, <1>6, <1>7, <1>8 DEF IInv, NoReclaimInFlight, NoPinWithoutRegion, Pinned

LEMMA CreateStep ==
  ASSUME IInv, TypeOK', NEW f \in Funcs, PurgMemCreate(f)
  PROVE  IInv'
  <1>1. Pinned' = {}
    BY DEF IInv, NoPinWithoutRegion, PurgMemCreate, Pinned
  <1>2. Cardinality(Pinned') = 0
    BY <1>1, FS_EmptySet
  <1>3. Readers' \cup Writers' = {}
    BY <1>1, SessionsPinned
  <1>4. \A p \in Pages : UxptEnabled => pte'[p] = 1
    BY DEF PurgMemCreate, Touch, InitUxPageTable, IsUxptePresent
  <1>5. PinAccounting'
    BY <1>2, <1>4 DEF PinAccounting, UXPTE_REFCNT_ONE, IsUxptePresent
  <1>6. PresentHoldsChain'
    BY DEF PresentHoldsChain, PurgMemCreate
  <1>7. QED
    BY <1>1, <1>3, <1>5, <1>6
       DEF PurgMemCreate, IInv, NoReclaimInFlight, NoPinWithoutRegion, SessionPagesPresent

LEMMA DestroyStep ==
  ASSUME IInv, TypeOK', PurgMemDestroy
  PROVE  IInv'
  <1>1. Pinned' = {}
    BY DEF PurgMemDestroy, Pinned
  <1>2. Readers' \cup Writers' = {}
    BY <1>1, SessionsPinned
  <1>3. QED
    BY <1>1, <1>2 DEF PurgMemDestroy, IInv, NoReclaimInFlight, NoPinWithoutRegion,
                      PinAccounting, PresentHoldsChain, SessionPagesPresent

\* The kernel reclaims a page whose word is exactly 1: present and unpinned.
LEMMA ReclaimStep ==
  ASSUME IInv, TypeOK', NEW p \in Pages, Reclaim(p)
  PROVE  IInv'
  <1>1. Cardinality(Pinned) = 0
    BY DEF Reclaim, ReclaimAllowed, IInv, PinAccounting, NoReclaimInFlight,
           UXPTE_REFCNT_ONE
  <1>2. Pinned = {} /\ Pinned' = {}
    BY <1>1, PinnedCard, PinnedDef DEF Reclaim, IInv, TypeOK
  <1>3. Readers' \cup Writers' = {}
    BY <1>2, SessionsPinned
  <1>4. PinAccounting'
    BY <1>1, <1>2 DEF Reclaim, ReclaimAllowed, IInv, PinAccounting, NoReclaimInFlight,
                      UXPTE_REFCNT_ONE, IsUxptePresent, TypeOK
  <1>5. PresentHoldsChain'
    BY DEF Reclaim, ReclaimAllowed, IInv, PresentHoldsChain, Present, IsUxptePresent,
           TypeOK
  <1>6. QED
    BY <1>2, <1>3, <1>4, <1>5 DEF Reclaim, IInv, NoReclaimInFlight, NoPinWithoutRegion,
                                  SessionPagesPresent

-----------------------------------------------------------------------------
LEMMA IInvInit == Init => IInv
  <1> SUFFICES ASSUME Init PROVE IInv
    OBVIOUS
  <1>1. TypeOK
    BY TypeInit
  <1>2. Pinned = {}
    BY DEF Init, Pinned
  <1>3. Readers \cup Writers = {}
    BY <1>2, SessionsPinned
  <1>4. QED
    BY <1>1, <1>2, <1>3 DEF Init, IInv, NoReclaimInFlight, NoPinWithoutRegion,
                            PinAccounting, PresentHoldsChain, SessionPagesPresent

\* One step per action; the failure disjuncts and the two-step reclaim are
\* excluded by the configuration.
LEMMA IInvStep ==
  ASSUME NoFaultConfig, IInv, [Next]_vars
  PROVE  IInv'
  <1>0. TypeOK'
    BY TypeStep DEF IInv
  <1>1. ASSUME NEW f \in Funcs, PurgMemCreate(f) PROVE IInv'
    BY <1>0, <1>1, CreateStep
  <1>2. CASE PurgMemDestroy
    BY <1>0, <1>2, DestroyStep
  <1>3. ASSUME NEW t \in Threads, PurgMemBeginRead(t) PROVE IInv'
    BY <1>0, <1>3, PinStep DEF PurgMemBeginRead, IsPurgMemPtrValid
  <1>4. ASSUME NEW t \in Threads, TryBeginRead(t) PROVE IInv'
    <2> DEFINE s == IF IsPurged THEN "BeginReadBuildData" ELSE "reading"
    <2>1. s \in PC \ {"idle"} /\ (s \in {"reading", "writing"} => ~IsPurged)
      BY DEF PC
    <2>2. QED
      BY <1>0, <1>4, <2>1, MoveStep DEF TryBeginRead
  <1>5. ASSUME NEW t \in Threads, BeginReadBuildData(t) PROVE IInv'
    <2>1. CASE /\ IsPurged
               /\ PurgMemBuildData(TRUE)
               /\ pte' = Touch(pte)
               /\ pc' = [pc EXCEPT ![t] = "TryBeginRead"]
      BY <1>0, <1>5, <2>1, BuildStep DEF BeginReadBuildData, PC
    <2>2. CASE PurgMemBuildData(FALSE)
      BY <2>2 DEF NoFaultConfig, PurgMemBuildData
    <2>3. CASE /\ ~IsPurged
               /\ pte' = UxptePut(pte)
               /\ pc' = [pc EXCEPT ![t] = "idle"]
      BY <1>0, <1>5, <2>3, UnpinStep DEF BeginReadBuildData
    <2>4. QED
      BY <1>5, <2>1, <2>2, <2>3 DEF BeginReadBuildData
  <1>6. ASSUME NEW t \in Threads, PurgMemBeginWrite(t) PROVE IInv'
    BY <1>0, <1>6, PinStep DEF PurgMemBeginWrite, IsPurgMemPtrValid
  <1>7. ASSUME NEW t \in Threads, BeginWriteLock(t) PROVE IInv'
    <2>1. CASE /\ ~IsPurged
               /\ pc' = [pc EXCEPT ![t] = "writing"]
               /\ UNCHANGED <<pte, content, count>>
      BY <1>0, <1>7, <2>1, MoveStep DEF BeginWriteLock, PC
    <2>2. CASE /\ PurgMemBuildData(TRUE)
               /\ pte' = Touch(pte)
               /\ pc' = [pc EXCEPT ![t] = "writing"]
      BY <1>0, <1>7, <2>2, BuildStep DEF BeginWriteLock, PC
    <2>3. CASE PurgMemBuildData(FALSE)
      BY <2>3 DEF NoFaultConfig, PurgMemBuildData
    <2>4. QED
      BY <1>7, <2>1, <2>2, <2>3 DEF BeginWriteLock
  <1>8. ASSUME NEW t \in Threads, EndAccessPurgMem(t) PROVE IInv'
    BY <1>0, <1>8, UnpinStep DEF EndAccessPurgMem
  <1>9. ASSUME NEW t \in Threads, NEW f \in Funcs, PurgMemAppendModify(t, f)
        PROVE IInv'
    <2>1. chain' = Append(chain, f)
      BY <1>9 DEF PurgMemAppendModify, NoFaultConfig
    <2>2. QED
      BY <1>0, <1>9, <2>1, AppendStep DEF PurgMemAppendModify
  <1>10. ASSUME NEW p \in Pages, Reclaim(p) PROVE IInv'
    BY <1>0, <1>10, ReclaimStep
  <1>11. ASSUME NEW p \in Pages, StartReclaim(p) PROVE FALSE
    BY <1>11 DEF StartReclaim, NoFaultConfig
  <1>12. ASSUME NEW p \in Pages, FinishReclaim(p) PROVE FALSE
    BY <1>12 DEF FinishReclaim, IInv, NoReclaimInFlight
  <1>13. CASE UNCHANGED vars
    BY <1>0, <1>13 DEF vars, IInv, NoReclaimInFlight, NoPinWithoutRegion, PinAccounting,
                      PresentHoldsChain, SessionPagesPresent, Pinned, Readers, Writers,
                      Present
  <1>14. ASSUME NEW t \in Threads, RdlockFail(t) \/ ReadWrlockFail(t) \/ WrlockFail(t)
         PROVE FALSE
    BY <1>14 DEF RdlockFail, ReadWrlockFail, WrlockFail, FailedBegin, NoFaultConfig
  <1>15. QED
    BY <1>1, <1>2, <1>3, <1>4, <1>5, <1>6, <1>7, <1>8, <1>9, <1>10, <1>11, <1>12,
       <1>13, <1>14 DEF Next

\* IInv holds in every reachable state of the configuration.
LEMMA IInvariant ==
  ASSUME NoFaultConfig
  PROVE  Spec => []IInv
  <1>1. IInv /\ [Next]_vars => IInv'
    BY IInvStep
  <1>2. QED
    BY <1>1, IInvInit, PTL DEF Spec

(***************************************************************************)
(* Pin accounting, for any number of threads and pages: on a live region  *)
(* the pin count of every UXPT word equals the number of threads between  *)
(* the UxpteGet of PurgMemBeginRead/BeginWrite and the UxptePut of         *)
(* EndAccessPurgMem or of a failed begin, and a page the kernel cleared    *)
(* holds zeroes.                                                           *)
(***************************************************************************)
THEOREM PinsCounted ==
  ASSUME NoFaultConfig
  PROVE  Spec => []PinAccounting
  <1>1. IInv => PinAccounting
    BY DEF IInv
  <1>2. QED
    BY <1>1, IInvariant, PTL

(***************************************************************************)
(* Session safety, for any number of threads and pages: every page of an   *)
(* open read or write session holds the builder chain.  The pin taken      *)
(* before IsPurged is read keeps the kernel off the pages, and the         *)
(* rebuild under the write lock restores every page together.              *)
(***************************************************************************)
THEOREM SessionSafety ==
  ASSUME NoFaultConfig
  PROVE  Spec => []SessionSeesChain
  <1>1. IInv => SessionSeesChain
    <2> SUFFICES ASSUME IInv, NEW t \in Readers \cup Writers, NEW p \in Pages
                 PROVE  content[p] = chain
      BY DEF SessionSeesChain
    <2>1. region = "live"
      BY SessionsPinned DEF IInv, NoPinWithoutRegion, TypeOK
    <2>2. Present(p)
      BY DEF IInv, SessionPagesPresent
    <2>3. QED
      BY <2>1, <2>2 DEF IInv, PresentHoldsChain
  <1>2. QED
    BY <1>1, IInvariant, PTL

=============================================================================
