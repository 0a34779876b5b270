--------------------- MODULE PurgeableMemRefinementProofs ---------------------
(***************************************************************************)
(* PurgeableMem implements PurgeableRegion under the refinement mapping   *)
(* validBar / sessionBar, for any number of threads and pages, in the      *)
(* configuration of the session theorems (no builder or allocation        *)
(* failure, one-step kernel reclaim).  Each step of the code is matched   *)
(* with the client-visible step it performs, or with a stutter.  The       *)
(* argument rests on the inductive invariant IInv: a page that is present *)
(* holds the chain, so a begin that finds IsPurged false opens a session  *)
(* on valid data, and the kernel reclaims only when no thread is pinned.  *)
(***************************************************************************)
EXTENDS PurgeableMemSessionProofs

USE WAssumption, ModulusAssumption, MaxChainAssumption, CountWrapAssumption

\* The abstract "no session open" is the absence of readers and writers.
LEMMA NoSessionBar ==
  ASSUME TypeOK
  PROVE  Region!NoSession <=> Readers \cup Writers = {}
  BY DEF Region!NoSession, sessionBar, Readers, Writers, TypeOK

\* A pinned thread implies a live region.
LEMMA PinnedLive ==
  ASSUME IInv, NEW t \in Threads, pc[t] # "idle"
  PROVE  region = "live"
  BY DEF IInv, NoPinWithoutRegion, Pinned, TypeOK

\* When IsPurged is false on a live region the buffer is valid.
LEMMA ValidWhenNotPurged ==
  ASSUME IInv, region = "live", ~IsPurged
  PROVE  validBar
  BY DEF IsPurged, UxpteIsPresent, Present, IInv, PresentHoldsChain, validBar

\* A thread moving between two pcs outside a session is invisible.
LEMMA SessionBarSame ==
  ASSUME TypeOK, NEW t \in Threads, NEW s \in PC,
         pc[t] \notin {"reading", "writing"}, s \notin {"reading", "writing"},
         pc' = [pc EXCEPT ![t] = s]
  PROVE  sessionBar' = sessionBar
  BY DEF sessionBar, TypeOK

\* A thread entering or leaving a session changes only its own entry.
LEMMA SessionBarSet ==
  ASSUME TypeOK, NEW t \in Threads, NEW s \in PC, pc' = [pc EXCEPT ![t] = s]
  PROVE  sessionBar' = [sessionBar EXCEPT ![t] = CASE s = "reading" -> "read"
                                                 []   s = "writing" -> "write"
                                                 []   OTHER         -> "none"]
  BY DEF sessionBar, TypeOK

\* A kernel reclaim of an unpinned page happens with no session open.
LEMMA ReclaimNoSession ==
  ASSUME IInv, NEW p \in Pages, Reclaim(p)
  PROVE  Readers \cup Writers = {}
  <1>1. Cardinality(Pinned) = 0
    BY DEF Reclaim, ReclaimAllowed, IInv, PinAccounting, UXPTE_REFCNT_ONE
  <1>2. Pinned = {}
    BY <1>1, PinnedCard, PinnedDef DEF IInv, TypeOK
  <1>3. QED
    BY <1>2, SessionsPinned

-----------------------------------------------------------------------------
LEMMA RefineInit == Init => Region!Init
  BY DEF Init, Region!Init, validBar, sessionBar

\* Every step of PurgeableMem is a PurgeableRegion step or a stutter.
LEMMA RefineStep ==
  ASSUME NoFaultConfig, IInv, [Next]_vars
  PROVE  [Region!Next]_Region!vars
  <1> USE DEF Region!vars
  <1>0. TypeOK
    BY DEF IInv
  <1>1. ASSUME NEW f \in Funcs, PurgMemCreate(f) PROVE Region!Create(f)
    BY <1>1 DEF PurgMemCreate, Region!Create, validBar, sessionBar
  <1>2. ASSUME PurgMemDestroy PROVE Region!Destroy
    <2>1. Readers \cup Writers = {}
      BY <1>2, SessionsPinned DEF PurgMemDestroy
    <2>2. QED
      BY <1>0, <1>2, <2>1, NoSessionBar
      DEF PurgMemDestroy, Region!Destroy, validBar, sessionBar
  <1>3. ASSUME NEW t \in Threads, PurgMemBeginRead(t) \/ PurgMemBeginWrite(t)
        PROVE  UNCHANGED Region!vars
    <2>1. sessionBar' = sessionBar
      BY <1>0, <1>3, SessionBarSame DEF PurgMemBeginRead, PurgMemBeginWrite, PC
    <2>2. QED
      BY <1>3, <2>1 DEF PurgMemBeginRead, PurgMemBeginWrite, validBar
  <1>4. ASSUME NEW t \in Threads, TryBeginRead(t)
        PROVE  Region!OpenRead(t) \/ UNCHANGED Region!vars
    <2>1. region = "live"
      BY <1>4, PinnedLive DEF TryBeginRead
    <2>2. CASE IsPurged
      <3>1. sessionBar' = sessionBar
        BY <1>0, <1>4, <2>2, SessionBarSame DEF TryBeginRead, PC
      <3>2. QED
        BY <1>4, <3>1 DEF TryBeginRead, validBar
    <2>3. CASE ~IsPurged
      <3>1. validBar
        BY <2>1, <2>3, ValidWhenNotPurged
      <3>2. sessionBar' = [sessionBar EXCEPT ![t] = "read"]
        BY <1>0, <1>4, <2>3, SessionBarSet DEF TryBeginRead, PC
      <3>3. sessionBar[t] = "none" /\ \A u \in Threads : sessionBar[u] # "write"
        BY <1>0, <1>4 DEF TryBeginRead, sessionBar, Writers, TypeOK
      <3>4. QED
        BY <1>4, <2>1, <3>1, <3>2, <3>3 DEF TryBeginRead, Region!OpenRead, validBar
    <2>4. QED
      BY <2>2, <2>3
  <1>5. ASSUME NEW t \in Threads, BeginReadBuildData(t)
        PROVE  Region!Rebuild \/ UNCHANGED Region!vars
    <2>1. sessionBar' = sessionBar
      BY <1>0, <1>5, SessionBarSame DEF BeginReadBuildData, PC
    <2>2. CASE /\ IsPurged
               /\ PurgMemBuildData(TRUE)
               /\ pc' = [pc EXCEPT ![t] = "TryBeginRead"]
      <3>1. validBar'
        BY <1>0, <1>5, <2>2, BuildAllFull, PinnedLive
        DEF BeginReadBuildData, PurgMemBuildData, validBar, TypeOK, Chains
      <3>2. Region!NoSession /\ region = "live"
        BY <1>0, <1>5, NoSessionBar, PinnedLive DEF BeginReadBuildData
      <3>3. QED
        BY <1>5, <2>1, <3>1, <3>2 DEF BeginReadBuildData, Region!Rebuild
    <2>3. CASE PurgMemBuildData(FALSE)
      BY <2>3 DEF NoFaultConfig, PurgMemBuildData
    <2>4. CASE /\ ~IsPurged
               /\ UNCHANGED <<content, count>>
      BY <1>5, <2>1, <2>4 DEF BeginReadBuildData, validBar
    <2>5. QED
      BY <1>5, <2>2, <2>3, <2>4 DEF BeginReadBuildData
  <1>6. ASSUME NEW t \in Threads, BeginWriteLock(t) PROVE Region!OpenWrite(t)
    <2>1. region = "live" /\ Region!NoSession
      BY <1>0, <1>6, PinnedLive, NoSessionBar DEF BeginWriteLock
    <2>2. sessionBar' = [sessionBar EXCEPT ![t] = "write"]
      <3>1. pc' = [pc EXCEPT ![t] = "writing"]
        BY <1>6 DEF BeginWriteLock, NoFaultConfig, PurgMemBuildData
      <3>2. QED
        BY <1>0, <3>1, SessionBarSet DEF PC
    <2>3. validBar'
      <3>1. CASE ~IsPurged /\ UNCHANGED <<pte, content, count>>
        BY <1>6, <2>1, <3>1, ValidWhenNotPurged DEF BeginWriteLock, validBar
      <3>2. CASE PurgMemBuildData(TRUE)
        BY <1>0, <1>6, <2>1, <3>2, BuildAllFull
        DEF BeginWriteLock, PurgMemBuildData, validBar, TypeOK, Chains
      <3>3. QED
        BY <1>6, <3>1, <3>2 DEF BeginWriteLock, NoFaultConfig, PurgMemBuildData
    <2>4. QED
      BY <1>6, <2>1, <2>2, <2>3 DEF BeginWriteLock, Region!OpenWrite
  <1>7. ASSUME NEW t \in Threads, EndAccessPurgMem(t) PROVE Region!Close(t)
    <2>1. sessionBar' = [sessionBar EXCEPT ![t] = "none"]
      BY <1>0, <1>7, SessionBarSet DEF EndAccessPurgMem, PC
    <2>2. sessionBar[t] # "none"
      BY <1>7 DEF EndAccessPurgMem, sessionBar
    <2>3. QED
      BY <1>7, <2>1, <2>2 DEF EndAccessPurgMem, Region!Close, validBar
  <1>8. ASSUME NEW t \in Threads, NEW f \in Funcs, PurgMemAppendModify(t, f)
        PROVE  Region!AppendModify(t, f)
    <2>1. region = "live" /\ \A p \in Pages : content[p] = chain
      <3>1. t \in Writers
        BY <1>8 DEF PurgMemAppendModify, Writers
      <3>2. region = "live"
        BY <1>8, PinnedLive DEF PurgMemAppendModify
      <3>3. QED
        BY <3>1, <3>2 DEF IInv, SessionPagesPresent, PresentHoldsChain
    <2>2. chain' = Append(chain, f)
      BY <1>8 DEF PurgMemAppendModify, NoFaultConfig
    <2>3. validBar' = validBar
      BY <1>8, <2>1, <2>2 DEF PurgMemAppendModify, validBar
    <2>4. sessionBar[t] = "write" /\ sessionBar' = sessionBar
      BY <1>8 DEF PurgMemAppendModify, sessionBar
    <2>5. QED
      BY <1>8, <2>2, <2>3, <2>4 DEF PurgMemAppendModify, Region!AppendModify
  <1>9. ASSUME NEW p \in Pages, Reclaim(p) PROVE Region!Rebuild \/ Region!Purge
    <2>1. Region!NoSession /\ region = "live"
      BY <1>0, <1>9, ReclaimNoSession, NoSessionBar DEF Reclaim, ReclaimAllowed
    <2>2. UNCHANGED <<region, chain, sessionBar>>
      BY <1>9 DEF Reclaim, sessionBar
    <2>3. QED
      BY <2>1, <2>2 DEF Region!Rebuild, Region!Purge
  <1>10. ASSUME NEW p \in Pages, StartReclaim(p) \/ FinishReclaim(p) PROVE FALSE
    BY <1>10 DEF StartReclaim, FinishReclaim, NoFaultConfig, IInv, NoReclaimInFlight
  <1>11. CASE UNCHANGED vars
    BY <1>11 DEF vars, validBar, sessionBar
  <1>12. ASSUME NEW t \in Threads, RdlockFail(t) \/ ReadWrlockFail(t) \/ WrlockFail(t)
         PROVE FALSE
    BY <1>12 DEF RdlockFail, ReadWrlockFail, WrlockFail, FailedBegin, NoFaultConfig
  <1>13. QED
    BY <1>1, <1>2, <1>3, <1>4, <1>5, <1>6, <1>7, <1>8, <1>9, <1>10, <1>11, <1>12
    DEF Next, Region!Next

(***************************************************************************)
(* Refinement, for any number of threads and pages: every behaviour of     *)
(* the purgeable region's code (PurgMemCreate, BeginRead/BeginWrite with   *)
(* their rebuilds, EndRead/EndWrite, AppendModify, Destroy and the kernel  *)
(* reclaim) is a behaviour of the client-level PurgeableRegion: sessions   *)
(* open only on valid data, writers are exclusive, and data is lost only   *)
(* while no session is open.                                               *)
(***************************************************************************)
THEOREM Refinement ==
  ASSUME NoFaultConfig
  PROVE  Spec => RegionRefined
  <1>1. IInv /\ [Next]_vars => [Region!Next]_Region!vars
    BY RefineStep
  <1>2. QED
    BY <1>1, RefineInit, IInvariant, PTL DEF Spec, RegionRefined, Region!Spec

=============================================================================
