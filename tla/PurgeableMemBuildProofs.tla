----------------------- MODULE PurgeableMemBuildProofs -----------------------
(***************************************************************************)
(* NoRedundantBuild for every value of the constants: with or without     *)
(* UXPT support, builder and allocation failures, lock failures and the    *)
(* kernel's two-step reclaim.  buildDataCount grows only in                 *)
(* PurgMemBuildData, which runs only under IsPurged and with no reclaim in *)
(* flight.  IsPurged with a non-zero count means some page is not present, *)
(* and such a page holds zeroes, which a live region's chain is not.        *)
(***************************************************************************)
EXTENDS PurgeableMemSessionProofs

USE WAssumption, ModulusAssumption, MaxChainAssumption, CountWrapAssumption

\* A live region has a builder: PurgMemCreate appends the first node.
LiveHasChain == region = "live" => chain # << >>

\* A page that is not present and not being reclaimed holds zeroes: every
\* write to the buffer faults its pages in first, and the kernel clears a
\* page when it drops it.
ZeroWhenAbsent ==
  UxptEnabled =>
    \A p \in Pages \ reclaiming : ~IsUxptePresent(pte[p]) => content[p] = << >>

BInv ==
  /\ TypeOK
  /\ NoPinWithoutRegion
  /\ LiveHasChain
  /\ ZeroWhenAbsent

-----------------------------------------------------------------------------
(***************************************************************************)
(* Pins keep the present bit: UxpteAdd and UxpteSub move a word by        *)
(* UXPTE_REFCNT_ONE modulo an even 2^W, or leave it, so bit 0 stays.       *)
(***************************************************************************)
LEMMA AddKeepsBit ==
  ASSUME NEW x \in Word
  PROVE  IsUxptePresent(UxpteAdd(x, UXPTE_REFCNT_ONE)) <=> IsUxptePresent(x)
  BY DEF UxpteAdd, UxpteAddOverflows, IsUxptePresent, UXPTE_REFCNT_ONE, Word

LEMMA SubKeepsBit ==
  ASSUME NEW x \in Word
  PROVE  IsUxptePresent(UxpteSub(x, UXPTE_REFCNT_ONE)) <=> IsUxptePresent(x)
  <1>1. CASE x >= 2
    BY <1>1 DEF UxpteSub, IsUxptePresent, UXPTE_REFCNT_ONE, Word
  <1>2. CASE x < 2
    <2>1. UxpteSub(x, UXPTE_REFCNT_ONE) = x - 2 + Modulus
      BY <1>2 DEF UxpteSub, UXPTE_REFCNT_ONE, Word
    <2>2. QED
      BY <2>1 DEF IsUxptePresent, Word
  <1>3. QED
    BY <1>1, <1>2 DEF Word

\* The range operations lifted to a table.
LEMMA TableKeepsBits ==
  ASSUME NEW ptes \in [Pages -> Word], NEW p \in Pages
  PROVE  /\ IsUxptePresent(UxpteGet(ptes)[p]) <=> IsUxptePresent(ptes[p])
         /\ IsUxptePresent(UxptePut(ptes)[p]) <=> IsUxptePresent(ptes[p])
  BY AddKeepsBit, SubKeepsBit DEF UxpteGet, UxptePut

\* After a fault every page is present, and a put does not change that.
LEMMA TouchedPresent ==
  ASSUME NEW ptes \in [Pages -> Word], NEW p \in Pages, UxptEnabled
  PROVE  /\ IsUxptePresent(Touch(ptes)[p])
         /\ IsUxptePresent(UxptePut(Touch(ptes))[p])
  <1>1. IsUxptePresent(Touch(ptes)[p])
    BY TouchPresent DEF IsUxptePresent
  <1>2. QED
    BY <1>1, TableOps, TableKeepsBits

-----------------------------------------------------------------------------
LEMMA BInvInit == Init => BInv
  BY InitTable, ChainsFacts
  DEF Init, BInv, TypeOK, PC, ZeroContent, NoPinWithoutRegion, Pinned,
      LiveHasChain, ZeroWhenAbsent

\* A step that pins or unpins with UxpteGet/UxptePut and leaves the buffer.
LEMMA PinKeepsZero ==
  ASSUME BInv, pte' \in {UxpteGet(pte), UxptePut(pte)},
         UNCHANGED <<content, reclaiming>>
  PROVE  ZeroWhenAbsent'
  BY TableKeepsBits DEF BInv, TypeOK, ZeroWhenAbsent

\* A step that faults every page in, then perhaps unpins.
LEMMA TouchKeepsZero ==
  ASSUME BInv, pte' \in {Touch(pte), UxptePut(Touch(pte))}
  PROVE  ZeroWhenAbsent'
  BY TouchedPresent DEF BInv, TypeOK, ZeroWhenAbsent

\* A thread that moves from one pinned pc to another keeps NoPinWithoutRegion.
LEMMA PinnedMove ==
  ASSUME BInv, NEW t \in Threads, pc[t] # "idle", UNCHANGED region,
         pc' = [pc EXCEPT ![t] = pc'[t]]
  PROVE  NoPinWithoutRegion'
  BY DEF BInv, NoPinWithoutRegion, Pinned, TypeOK

LEMMA BInvStep == BInv /\ [Next]_vars => BInv'
  <1> SUFFICES ASSUME BInv, [Next]_vars PROVE BInv'
    OBVIOUS
  <1>0. TypeOK /\ TypeOK'
    BY TypeStep DEF BInv
  <1>1. ASSUME NEW f \in Funcs, PurgMemCreate(f) PROVE BInv'
    <2>1. ZeroWhenAbsent'
      BY <1>1, InitTable, TouchedPresent DEF PurgMemCreate, ZeroWhenAbsent
    <2>2. QED
      BY <1>0, <1>1, <2>1 DEF PurgMemCreate, BInv, NoPinWithoutRegion, LiveHasChain
  <1>2. CASE PurgMemDestroy
    BY <1>0, <1>2 DEF PurgMemDestroy, BInv, NoPinWithoutRegion, Pinned, LiveHasChain,
                      ZeroWhenAbsent, ZeroContent
  <1>3. ASSUME NEW t \in Threads, PurgMemBeginRead(t) \/ PurgMemBeginWrite(t)
        PROVE  BInv'
    <2>1. ZeroWhenAbsent'
      BY <1>3, PinKeepsZero DEF PurgMemBeginRead, PurgMemBeginWrite
    <2>2. QED
      BY <1>0, <1>3, <2>1
      DEF PurgMemBeginRead, PurgMemBeginWrite, IsPurgMemPtrValid, BInv,
          NoPinWithoutRegion, Pinned, LiveHasChain
  <1>4. ASSUME NEW t \in Threads, TryBeginRead(t) PROVE BInv'
    <2>1. NoPinWithoutRegion'
      BY <1>0, <1>4, PinnedMove DEF TryBeginRead, TypeOK
    <2>2. QED
      BY <1>0, <1>4, <2>1 DEF TryBeginRead, BInv, LiveHasChain, ZeroWhenAbsent
  <1>5. ASSUME NEW t \in Threads, BeginReadBuildData(t) \/ BeginWriteLock(t)
        PROVE  BInv'
    <2>1. NoPinWithoutRegion'
      <3>1. region' = region /\ \A u \in Threads : pc'[u] # "idle" => pc[u] # "idle"
        BY <1>0, <1>5 DEF BeginReadBuildData, BeginWriteLock, TypeOK
      <3>2. QED
        BY <3>1 DEF BInv, NoPinWithoutRegion, Pinned
    <2>2. ZeroWhenAbsent'
      <3>1. CASE UNCHANGED <<pte, content>>
        BY <1>5, <3>1 DEF BeginReadBuildData, BeginWriteLock, BInv, ZeroWhenAbsent
      <3>2. CASE pte' = UxptePut(pte) /\ UNCHANGED content
        BY <1>5, <3>2, PinKeepsZero DEF BeginReadBuildData, BeginWriteLock
      <3>3. CASE pte' \in {Touch(pte), UxptePut(Touch(pte))}
        BY <3>3, TouchKeepsZero
      <3>4. QED
        BY <1>5, <3>1, <3>2, <3>3 DEF BeginReadBuildData, BeginWriteLock
    <2>3. QED
      BY <1>0, <1>5, <2>1, <2>2 DEF BeginReadBuildData, BeginWriteLock, BInv, LiveHasChain
  <1>6. ASSUME NEW t \in Threads, RdlockFail(t) \/ ReadWrlockFail(t) \/ WrlockFail(t)
                                  \/ EndAccessPurgMem(t)
        PROVE  BInv'
    <2>1. ZeroWhenAbsent'
      BY <1>6, PinKeepsZero
      DEF RdlockFail, ReadWrlockFail, WrlockFail, FailedBegin, EndAccessPurgMem
    <2>2. QED
      BY <1>0, <1>6, <2>1
      DEF RdlockFail, ReadWrlockFail, WrlockFail, FailedBegin, EndAccessPurgMem,
          BInv, NoPinWithoutRegion, Pinned, LiveHasChain
  <1>7. ASSUME NEW t \in Threads, NEW f \in Funcs, PurgMemAppendModify(t, f)
        PROVE  BInv'
    <2>1. region = "live"
      BY <1>0, <1>7 DEF PurgMemAppendModify, BInv, NoPinWithoutRegion, Pinned, TypeOK
    <2>2. chain' # << >>
      BY <1>0, <1>7, <2>1 DEF PurgMemAppendModify, BInv, LiveHasChain, TypeOK, Chains
    <2>3. ZeroWhenAbsent'
      BY <1>7, TouchKeepsZero DEF PurgMemAppendModify
    <2>4. QED
      BY <1>0, <1>7, <2>2, <2>3
      DEF PurgMemAppendModify, BInv, NoPinWithoutRegion, Pinned, LiveHasChain
  <1>8. ASSUME NEW p \in Pages, Reclaim(p) \/ StartReclaim(p) \/ FinishReclaim(p)
        PROVE  BInv'
    <2>1. ZeroWhenAbsent'
      BY <1>0, <1>8
      DEF Reclaim, StartReclaim, FinishReclaim, BInv, ZeroWhenAbsent, TypeOK
    <2>2. QED
      BY <1>0, <1>8, <2>1
      DEF Reclaim, StartReclaim, FinishReclaim, BInv, NoPinWithoutRegion, Pinned,
          LiveHasChain
  <1>9. CASE UNCHANGED vars
    BY <1>0, <1>9 DEF vars, BInv, NoPinWithoutRegion, Pinned, LiveHasChain, ZeroWhenAbsent
  <1>10. QED
    BY <1>1, <1>2, <1>3, <1>4, <1>5, <1>6, <1>7, <1>8, <1>9 DEF Next

LEMMA BInvariant == Spec => []BInv
  BY BInvInit, BInvStep, PTL DEF Spec

\* A rebuild by a pinned thread that finds IsPurged with no reclaim in
\* flight has something to rebuild.
LEMMA RebuildNeeded ==
  ASSUME BInv, NEW t \in Threads, pc[t] # "idle", IsPurged, CanTouch
  PROVE  count = 0 \/ \E p \in Pages : content[p] # chain
  <1> SUFFICES ASSUME count # 0 PROVE \E p \in Pages : content[p] # chain
    OBVIOUS
  <1>1. PICK p \in Pages : UxptEnabled /\ ~IsUxptePresent(pte[p])
    BY DEF IsPurged, UxpteIsPresent
  <1>2. content[p] = << >>
    BY <1>1 DEF BInv, ZeroWhenAbsent, CanTouch
  <1>3. chain # << >>
    BY DEF BInv, NoPinWithoutRegion, Pinned, LiveHasChain, TypeOK
  <1>4. QED
    BY <1>2, <1>3

\* The step form of NoRedundantBuild.
LEMMA BuildStepNeeded ==
  BInv /\ [Next]_vars =>
    [region = "live" /\ region' = "live" /\ count' # count =>
        count = 0 \/ \E p \in Pages : content[p] # chain]_vars
  <1> SUFFICES ASSUME BInv, [Next]_vars, region = "live", region' = "live", count' # count
               PROVE  count = 0 \/ \E p \in Pages : content[p] # chain
    OBVIOUS
  <1>0. count \in Nat
    BY DEF BInv, TypeOK
  <1>1. ASSUME NEW t \in Threads, BeginReadBuildData(t) \/ BeginWriteLock(t)
        PROVE  count = 0 \/ \E p \in Pages : content[p] # chain
    <2>1. IsPurged /\ CanTouch
      BY <1>0, <1>1 DEF BeginReadBuildData, BeginWriteLock, PurgMemBuildData
    <2>2. QED
      BY <1>1, <2>1, RebuildNeeded DEF BeginReadBuildData, BeginWriteLock
  <1>2. ASSUME NEW t \in Threads,
               \/ PurgMemBeginRead(t) \/ TryBeginRead(t) \/ PurgMemBeginWrite(t)
               \/ RdlockFail(t) \/ ReadWrlockFail(t) \/ WrlockFail(t)
               \/ EndAccessPurgMem(t)
               \/ \E f \in Funcs : PurgMemAppendModify(t, f)
        PROVE  FALSE
    BY <1>0, <1>2
    DEF PurgMemBeginRead, TryBeginRead, PurgMemBeginWrite, RdlockFail, ReadWrlockFail,
        WrlockFail, FailedBegin, EndAccessPurgMem, PurgMemAppendModify
  <1>3. ASSUME \/ \E f \in Funcs : PurgMemCreate(f)
               \/ PurgMemDestroy
               \/ \E p \in Pages : Reclaim(p) \/ StartReclaim(p) \/ FinishReclaim(p)
               \/ UNCHANGED vars
        PROVE  FALSE
    BY <1>0, <1>3
    DEF PurgMemCreate, PurgMemDestroy, Reclaim, StartReclaim, FinishReclaim, vars
  <1>4. QED
    BY <1>1, <1>2, <1>3 DEF Next

(***************************************************************************)
(* NoRedundantBuild, for every number of threads and pages, every word     *)
(* width and every choice of Faults, UxptEnabled and ReclaimWindow: the    *)
(* recheck of IsPurged under the write lock in BeginReadBuildData and      *)
(* PurgMemBeginWrite makes every increment of buildDataCount a first build *)
(* or the rebuild of a page that really lost its content.                  *)
(***************************************************************************)
THEOREM BuildOnlyWhenNeeded == Spec => NoRedundantBuild
  BY BInvariant, BuildStepNeeded, PTL DEF NoRedundantBuild, Spec

=============================================================================
