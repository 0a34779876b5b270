---------------------------- MODULE PurgeableMem ----------------------------
(***************************************************************************)
(* One purgeable-memory region of libpurgeablemem                          *)
(* (src/libpurgeablemem/c/src/purgeable_mem_c.c), the threads that open    *)
(* read and write sessions on it, and the kernel that reclaims its pages.  *)
(*                                                                         *)
(* Data is abstracted to what a session can tell apart: the content of a   *)
(* page is the sequence of modify functions applied to it since it was     *)
(* last zero.  A region is correct when every page of a session holds the  *)
(* builder chain, i.e. the chain applied to a zeroed buffer.               *)
(*                                                                         *)
(* The rwlock is not a variable: a thread holds the read lock exactly when *)
(* it is "reading" and the write lock when it is "writing"; the steps that *)
(* take and drop the write lock inside BeginReadBuildData are one action.  *)
(***************************************************************************)
EXTENDS UxPageTable, Sequences, FiniteSets

CONSTANTS
  Threads,        \* the client threads
  Funcs,          \* the modify functions a client may pass
  MaxChain,       \* bound on the length of the builder chain
  CountWrap,      \* buildDataCount is an unsigned int: it counts modulo 2^32
  Faults,         \* which failures may happen: "build", "alloc", "lock"
  ReclaimWindow   \* the kernel's reclaim is two steps with the sentinel between

ASSUME ThreadsAssumption == Threads # {} /\ IsFiniteSet(Threads)
ASSUME FuncsAssumption == Funcs # {}
ASSUME MaxChainAssumption == MaxChain \in Nat \ {0}
\* A modulus of 1 would keep buildDataCount at 0; the code's is 2^32.
ASSUME CountWrapAssumption == CountWrap \in Nat /\ CountWrap >= 2
ASSUME FaultsAssumption == Faults \subseteq {"build", "alloc", "lock"}
ASSUME ReclaimWindowAssumption == ReclaimWindow \in BOOLEAN

VARIABLES
  region,      \* "none" or "live": whether the client holds a PurgMem
  pte,         \* the UXPT words, one per page
  content,     \* content[p]: the modify functions applied to page p
  chain,       \* the builder chain, a sequence of Funcs
  count,       \* buildDataCount
  pc,          \* pc[t]: where thread t is in the API
  reclaiming   \* the pages the kernel has marked under reclaim

vars == <<region, pte, content, chain, count, pc, reclaiming>>

Chains == {s \in Seq(Funcs) : Len(s) <= MaxChain}

PC == {"idle", "TryBeginRead", "BeginReadBuildData", "reading",
       "BeginWriteLock", "writing"}

\* The threads that have called UxpteGet and not yet UxptePut.
Pinned == {t \in Threads : pc[t] # "idle"}

\* Lock holders.
Readers == {t \in Threads : pc[t] = "reading"}
Writers == {t \in Threads : pc[t] = "writing"}

ZeroContent == [p \in Pages |-> << >>]

(***************************************************************************)
(* The kernel side (not code of this repository): a write to a page that   *)
(* is not present faults it in and sets its present bit; a fault on a page *)
(* under reclaim waits for the reclaim to finish.                          *)
(***************************************************************************)
Touch(ptes) ==
  IF UxptEnabled
  THEN [p \in Pages |-> IF IsUxptePresent(ptes[p]) THEN ptes[p] ELSE ptes[p] + 1]
  ELSE ptes

CanTouch == reclaiming = {}

(***************************************************************************)
(* Helpers of the region.                                                  *)
(***************************************************************************)
IsPurged == count = 0 \/ ~UxpteIsPresent(pte)

\* IsPurgMemPtrValid for a live region: the builder is set once created.
IsPurgMemPtrValid == region = "live" /\ chain # << >>

\* PurgMemBuilderBuildAll runs the first n functions of the chain on the
\* zeroed buffer; n = Len(chain) when every function returns true.
BuildAll(n) == [p \in Pages |-> SubSeq(chain, 1, n)]

\* PurgMemBuildData that forgets buildDataCount++ after a successful build.
MutantBuildDataNoCount(ok) ==
  /\ CanTouch
  /\ IF ok
     THEN /\ content' = BuildAll(Len(chain))
          /\ UNCHANGED count
     ELSE /\ "build" \in Faults
          /\ \E n \in 0 .. (Len(chain) - 1) : content' = BuildAll(n)
          /\ UNCHANGED count

(***************************************************************************)
(* PurgMemBuildData (memset, BuildAll, count++) as the outcome it leaves:  *)
(* ok = TRUE when the chain succeeded.  Every page is written, so the      *)
(* caller's pte' is Touch(pte), followed by UxptePut on the failure paths. *)
(***************************************************************************)
PurgMemBuildData(ok) ==
  /\ CanTouch
  /\ IF ok
     THEN /\ content' = BuildAll(Len(chain))
          /\ count' = (count + 1) % CountWrap
     ELSE /\ "build" \in Faults
          /\ \E n \in 0 .. (Len(chain) - 1) : content' = BuildAll(n)
          /\ UNCHANGED count

(***************************************************************************)
(* Mutants: plausible slips in the code, used to show that the properties  *)
(* below can fail.  Each is an alternative body of the action it names.    *)
(***************************************************************************)

\* PurgMemBeginRead without the UxpteGet before the first IsPurged.
MutantBeginReadNoPin(t) ==
  /\ pc[t] = "idle"
  /\ IsPurgMemPtrValid
  /\ pte' = pte
  /\ pc' = [pc EXCEPT ![t] = "TryBeginRead"]
  /\ UNCHANGED <<region, content, chain, count, reclaiming>>

\* BeginReadBuildData without the recheck of IsPurged under the write lock.
MutantReadBuildNoRecheck(t) ==
  /\ pc[t] = "BeginReadBuildData"
  /\ Readers = {} /\ Writers = {}
  /\ UNCHANGED <<region, chain, reclaiming>>
  /\ PurgMemBuildData(TRUE)
  /\ pte' = Touch(pte)
  /\ pc' = [pc EXCEPT ![t] = "TryBeginRead"]

\* BeginReadBuildData whose not-purged exit forgets UxptePut.
MutantReadBuildNoPut(t) ==
  /\ pc[t] = "BeginReadBuildData"
  /\ Readers = {} /\ Writers = {}
  /\ UNCHANGED <<region, chain, reclaiming>>
  /\ \/ /\ IsPurged
        /\ PurgMemBuildData(TRUE)
        /\ pte' = Touch(pte)
        /\ pc' = [pc EXCEPT ![t] = "TryBeginRead"]
     \/ /\ ~IsPurged
        /\ pc' = [pc EXCEPT ![t] = "idle"]
        /\ UNCHANGED <<pte, content, count>>

\* BeginWriteLock whose failed rebuild returns without UxptePut.
MutantWriteLockNoPut(t) ==
  /\ pc[t] = "BeginWriteLock"
  /\ Readers = {} /\ Writers = {}
  /\ UNCHANGED <<region, chain, reclaiming>>
  /\ \/ /\ ~IsPurged
        /\ pc' = [pc EXCEPT ![t] = "writing"]
        /\ UNCHANGED <<pte, content, count>>
     \/ /\ IsPurged
        /\ PurgMemBuildData(TRUE)
        /\ pte' = Touch(pte)
        /\ pc' = [pc EXCEPT ![t] = "writing"]
     \/ /\ IsPurged
        /\ PurgMemBuildData(FALSE)
        /\ pte' = Touch(pte)
        /\ pc' = [pc EXCEPT ![t] = "idle"]

\* TryBeginRead that does not wait for the read lock while a writer holds it.
MutantTryBeginReadNoLock(t) ==
  /\ pc[t] = "TryBeginRead"
  /\ pc' = [pc EXCEPT ![t] = IF IsPurged THEN "BeginReadBuildData"
                                          ELSE "reading"]
  /\ UNCHANGED <<region, pte, content, chain, count, reclaiming>>

(***************************************************************************)
(* PurgMemCreate: map the data, InitUxPageTable (clear every word), count  *)
(* 0, no builder; then PurgMemAppendModify applies func to the fresh zero  *)
(* buffer and makes it the chain.  When any step fails the region is       *)
(* released and NULL returned: no state is left, a stuttering step.        *)
(***************************************************************************)
PurgMemCreate(func) ==
  /\ region = "none"
  /\ region' = "live"
  /\ pte' = Touch(InitUxPageTable)
  /\ content' = [p \in Pages |-> <<func>>]
  /\ chain' = <<func>>
  /\ count' = 0
  /\ UNCHANGED <<pc, reclaiming>>

(***************************************************************************)
(* PurgMemDestroy: the caller guarantees no session is open.  The rwlock,  *)
(* the builder chain, the data mapping and the UXPT are released.          *)
(***************************************************************************)
PurgMemDestroy ==
  /\ region = "live"
  /\ Pinned = {}
  /\ region' = "none"
  /\ pte' = InitUxPageTable
  /\ content' = ZeroContent
  /\ chain' = << >>
  /\ count' = 0
  /\ reclaiming' = {}
  /\ UNCHANGED pc

(***************************************************************************)
(* PurgMemBeginRead, first part: pin every page with UxpteGet.             *)
(***************************************************************************)
PurgMemBeginRead(t) ==
  /\ pc[t] = "idle"
  /\ IsPurgMemPtrValid
  /\ ~UxpteGetWaits(pte)
  /\ pte' = UxpteGet(pte)
  /\ pc' = [pc EXCEPT ![t] = "TryBeginRead"]
  /\ UNCHANGED <<region, content, chain, count, reclaiming>>

(***************************************************************************)
(* TryBeginRead: take the read lock; if not purged return holding it       *)
(* (BeginRead returns true), else drop it and go to BeginReadBuildData.    *)
(***************************************************************************)
TryBeginRead(t) ==
  /\ pc[t] = "TryBeginRead"
  /\ Writers = {}
  /\ pc' = [pc EXCEPT ![t] = IF IsPurged THEN "BeginReadBuildData"
                                          ELSE "reading"]
  /\ UNCHANGED <<region, pte, content, chain, count, reclaiming>>

(***************************************************************************)
(* BeginReadBuildData: take the write lock; if still purged rebuild; drop  *)
(* the lock.  A successful rebuild loops back to TryBeginRead.  Otherwise  *)
(* rebuildRet stays false, whether the rebuild failed or another thread    *)
(* had rebuilt first, and BeginRead breaks out, calls UxptePut and         *)
(* returns false.                                                          *)
(***************************************************************************)
BeginReadBuildData(t) ==
  /\ pc[t] = "BeginReadBuildData"
  /\ Readers = {} /\ Writers = {}
  /\ UNCHANGED <<region, chain, reclaiming>>
  /\ \/ /\ IsPurged
        /\ PurgMemBuildData(TRUE)
        /\ pte' = Touch(pte)
        /\ pc' = [pc EXCEPT ![t] = "TryBeginRead"]
     \/ /\ IsPurged
        /\ PurgMemBuildData(FALSE)
        /\ pc' = [pc EXCEPT ![t] = "idle"]
        /\ pte' = UxptePut(Touch(pte))
     \/ /\ ~IsPurged
        /\ pte' = UxptePut(pte)
        /\ pc' = [pc EXCEPT ![t] = "idle"]
        /\ UNCHANGED <<content, count>>

(***************************************************************************)
(* PurgMemBeginWrite: pin, take the write lock; if not purged return true  *)
(* holding it; else rebuild in place, keep the lock on success, or unlock, *)
(* UxptePut and return false on failure.                                   *)
(***************************************************************************)
PurgMemBeginWrite(t) ==
  /\ pc[t] = "idle"
  /\ IsPurgMemPtrValid
  /\ ~UxpteGetWaits(pte)
  /\ pte' = UxpteGet(pte)
  /\ pc' = [pc EXCEPT ![t] = "BeginWriteLock"]
  /\ UNCHANGED <<region, content, chain, count, reclaiming>>

BeginWriteLock(t) ==
  /\ pc[t] = "BeginWriteLock"
  /\ Readers = {} /\ Writers = {}
  /\ UNCHANGED <<region, chain, reclaiming>>
  /\ \/ /\ ~IsPurged
        /\ pc' = [pc EXCEPT ![t] = "writing"]
        /\ UNCHANGED <<pte, content, count>>
     \/ /\ IsPurged
        /\ PurgMemBuildData(TRUE)
        /\ pte' = Touch(pte)
        /\ pc' = [pc EXCEPT ![t] = "writing"]
     \/ /\ IsPurged
        /\ PurgMemBuildData(FALSE)
        /\ pte' = UxptePut(Touch(pte))
        /\ pc' = [pc EXCEPT ![t] = "idle"]

(***************************************************************************)
(* A failed pthread_rwlock_rdlock or wrlock (EAGAIN when the read count is *)
(* exhausted, EDEADLK on a lock the thread already holds) returns at once, *)
(* without the lock: PurgMemBeginRead breaks out of its loop, and both     *)
(* begins call UxptePut and return false.                                  *)
(***************************************************************************)
\* Mutant: the lock-failure path returns false without UxptePut.
MutantFailedBeginNoPut(t) ==
  /\ "lock" \in Faults
  /\ UNCHANGED pte
  /\ pc' = [pc EXCEPT ![t] = "idle"]
  /\ UNCHANGED <<region, content, chain, count, reclaiming>>

FailedBegin(t) ==
  /\ "lock" \in Faults
  /\ pte' = UxptePut(pte)
  /\ pc' = [pc EXCEPT ![t] = "idle"]
  /\ UNCHANGED <<region, content, chain, count, reclaiming>>

\* TryBeginRead: pthread_rwlock_rdlock fails (PM_LOCK_READ_FAIL).
RdlockFail(t) == pc[t] = "TryBeginRead" /\ FailedBegin(t)

\* BeginReadBuildData: pthread_rwlock_wrlock fails (PM_LOCK_WRITE_FAIL).
ReadWrlockFail(t) == pc[t] = "BeginReadBuildData" /\ FailedBegin(t)

\* PurgMemBeginWrite: pthread_rwlock_wrlock fails.
WrlockFail(t) == pc[t] = "BeginWriteLock" /\ FailedBegin(t)

(***************************************************************************)
(* EndAccessPurgMem (PurgMemEndRead and PurgMemEndWrite): unlock, then     *)
(* UxptePut.                                                               *)
(***************************************************************************)
EndAccessPurgMem(t) ==
  /\ pc[t] \in {"reading", "writing"}
  /\ pte' = UxptePut(pte)
  /\ pc' = [pc EXCEPT ![t] = "idle"]
  /\ UNCHANGED <<region, content, chain, count, reclaiming>>

(***************************************************************************)
(* PurgMemAppendModify, modelled for a thread in a write session only     *)
(* (the code takes no lock and pins nothing).  func is applied to the      *)
(* buffer; when it returns false nothing changes (a stuttering step).    *)
(* Then a builder node is allocated and linked at the tail of the chain;  *)
(* if that allocation fails the function returns false with func already  *)
(* applied.                                                               *)
(***************************************************************************)
PurgMemAppendModify(t, func) ==
  /\ pc[t] = "writing"
  /\ Len(chain) < MaxChain
  /\ \A p \in Pages : Len(content[p]) < MaxChain
  /\ CanTouch
  /\ pte' = Touch(pte)
  /\ content' = [p \in Pages |-> Append(content[p], func)]
  /\ \/ chain' = Append(chain, func)
     \/ /\ "alloc" \in Faults
        /\ UNCHANGED chain
  /\ UNCHANGED <<region, count, pc, reclaiming>>

(***************************************************************************)
(* The kernel reclaimer (environment).  It reclaims a page only when it is *)
(* present with no pin, i.e. its word is exactly 1.  Without ReclaimWindow *)
(* the reclaim is one step; with it the kernel first stores the sentinel,  *)
(* then drops the page and stores 0.  The mapping is purgeable only when   *)
(* the probe succeeded.                                                    *)
(***************************************************************************)
ReclaimAllowed(p) ==
  /\ UxptEnabled
  /\ region = "live"
  /\ pte[p] = 1
  /\ p \notin reclaiming

Reclaim(p) ==
  /\ ~ReclaimWindow
  /\ ReclaimAllowed(p)
  /\ pte' = [pte EXCEPT ![p] = 0]
  /\ content' = [content EXCEPT ![p] = << >>]
  /\ UNCHANGED <<region, chain, count, pc, reclaiming>>

StartReclaim(p) ==
  /\ ReclaimWindow
  /\ ReclaimAllowed(p)
  /\ pte' = [pte EXCEPT ![p] = UXPTE_UNDER_RECLAIM]
  /\ reclaiming' = reclaiming \cup {p}
  /\ UNCHANGED <<region, content, chain, count, pc>>

FinishReclaim(p) ==
  /\ p \in reclaiming
  /\ pte' = [pte EXCEPT ![p] = 0]
  /\ content' = [content EXCEPT ![p] = << >>]
  /\ reclaiming' = reclaiming \ {p}
  /\ UNCHANGED <<region, chain, count, pc>>

-----------------------------------------------------------------------------

Init ==
  /\ region = "none"
  /\ pte = InitUxPageTable
  /\ content = ZeroContent
  /\ chain = << >>
  /\ count = 0
  /\ pc = [t \in Threads |-> "idle"]
  /\ reclaiming = {}

Next ==
  \/ \E f \in Funcs : PurgMemCreate(f)
  \/ PurgMemDestroy
  \/ \E t \in Threads :
        \/ PurgMemBeginRead(t)
        \/ TryBeginRead(t)
        \/ BeginReadBuildData(t)
        \/ PurgMemBeginWrite(t)
        \/ BeginWriteLock(t)
        \/ RdlockFail(t)
        \/ ReadWrlockFail(t)
        \/ WrlockFail(t)
        \/ EndAccessPurgMem(t)
        \/ \E f \in Funcs : PurgMemAppendModify(t, f)
  \/ \E p \in Pages :
        \/ Reclaim(p)
        \/ StartReclaim(p)
        \/ FinishReclaim(p)

Spec == Init /\ [][Next]_vars

(***************************************************************************)
(* Fairness.  A thread blocked in pthread_rwlock_rdlock/wrlock gets the    *)
(* lock if it is free infinitely often (strong fairness: the futex wakes  *)
(* waiters on every unlock, but other threads may retake it first).  A     *)
(* client ends every session it opens (the End* calls of section 4.C).     *)
(* The kernel finishes a reclaim it has started.  Nothing forces a client  *)
(* to begin a session, nor the kernel to reclaim.                          *)
(***************************************************************************)
Fairness ==
  /\ \A t \in Threads :
        /\ SF_vars(TryBeginRead(t))
        /\ SF_vars(BeginReadBuildData(t))
        /\ SF_vars(BeginWriteLock(t))
        /\ WF_vars(EndAccessPurgMem(t))
  /\ \A p \in Pages : WF_vars(FinishReclaim(p))

FairSpec == Spec /\ Fairness

-----------------------------------------------------------------------------

TypeOK ==
  /\ region \in {"none", "live"}
  /\ pte \in [Pages -> Word]
  /\ content \in [Pages -> Chains]
  /\ chain \in Chains
  /\ count \in 0 .. CountWrap - 1
  /\ pc \in [Threads -> PC]
  /\ reclaiming \subseteq Pages

(***************************************************************************)
(* Every page of an open session holds the builder chain applied to zero:  *)
(* a read or write session that began successfully sees the region's      *)
(* canonical content for as long as it lasts.  This needs the pin taken in *)
(* BeginRead/BeginWrite before IsPurged is read, the rebuild under the     *)
(* write lock, and the kernel not reclaiming pinned pages.                 *)
(***************************************************************************)
SessionSeesChain ==
  \A t \in Readers \cup Writers : \A p \in Pages : content[p] = chain

(***************************************************************************)
(* The pin count of every UXPT word equals the number of threads between   *)
(* their UxpteGet and their UxptePut (BeginRead/BeginWrite to the end of   *)
(* the session or the failed return), and a page whose present bit is     *)
(* clear holds no data.  A missed or doubled Get or Put breaks it.         *)
(***************************************************************************)
PinAccounting ==
  UxptEnabled /\ region = "live" =>
    \A p \in Pages \ reclaiming :
      /\ pte[p] \div UXPTE_REFCNT_ONE = Cardinality(Pinned)
      /\ ~IsUxptePresent(pte[p]) => content[p] = << >>

(***************************************************************************)
(* A rebuild runs only when it is needed: while the region lives,         *)
(* buildDataCount changes (a successful PurgMemBuildData, line 232) only  *)
(* when the region was never built or some page really lost its content.  *)
(* The recheck of IsPurged under the write lock in BeginReadBuildData is  *)
(* what keeps readers that all saw a purge from rebuilding in turn.        *)
(***************************************************************************)
NoRedundantBuild ==
  [][region = "live" /\ region' = "live" /\ count' # count =>
        count = 0 \/ \E p \in Pages : content[p] # chain]_vars

(***************************************************************************)
(* The spec (section 8, scenario 4): readers that all observe a purge see  *)
(* one rebuild and all of them obtain the content.  As an action property: *)
(* when no failure can happen, PurgMemBeginRead never returns false, i.e.  *)
(* no thread goes from BeginReadBuildData back to idle.                    *)
(***************************************************************************)
ReadFailsOnlyOnFault ==
  [][Faults = {} =>
       \A t \in Threads : ~(pc[t] = "BeginReadBuildData" /\ pc'[t] = "idle")]_vars

(***************************************************************************)
(* Every PurgMemBeginRead and PurgMemBeginWrite returns: a thread that has *)
(* pinned the region and waits for the rwlock, or is between the read and  *)
(* the write lock of a rebuild, eventually returns true (in a session) or  *)
(* false (idle).  The spec says every operation runs to completion.  It    *)
(* fails if a rebuild can loop, or a waiter can be locked out forever.     *)
(***************************************************************************)
BeginReturns ==
  \A t \in Threads :
     pc[t] \in {"TryBeginRead", "BeginReadBuildData", "BeginWriteLock"}
       ~> pc[t] \in {"idle", "reading", "writing"}

-----------------------------------------------------------------------------
(***************************************************************************)
(* Refinement mapping onto the client-level specification PurgeableRegion. *)
(* The buffer is valid when every page holds the chain applied to zeroes;  *)
(* a thread is in a read or write session between a successful begin and  *)
(* its end.  Pins, the UXPT and buildDataCount are hidden.                 *)
(***************************************************************************)
validBar == region = "live" /\ \A p \in Pages : content[p] = chain

sessionBar ==
  [t \in Threads |-> CASE pc[t] = "reading" -> "read"
                      []   pc[t] = "writing" -> "write"
                      []   OTHER             -> "none"]

Region == INSTANCE PurgeableRegion WITH valid <- validBar, session <- sessionBar

(***************************************************************************)
(* PurgeableMem implements PurgeableRegion: every step of the code is a    *)
(* client-visible step or invisible.  Sessions open only on valid data,    *)
(* a write session excludes every other, the data is lost only while no   *)
(* session is open, and the buffer changes only as the chain does.  A     *)
(* failed appendModify that leaves func applied, a reader admitted on a    *)
(* half-built buffer or a page reclaimed under a session breaks it.       *)
(***************************************************************************)
RegionRefined == Region!Spec

=============================================================================
