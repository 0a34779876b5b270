# Verification of libpurgeablemem (utils_memory)

TLA+ models of the purgeable-memory library, with TLC runs and TLAPS proofs.
The library lets a process allocate a memory region whose pages the kernel
may reclaim, and rebuilds the contents on the next access.

## 1. Inventory

| Component | Source | State it keeps | Operations |
|---|---|---|---|
| UXPT engine | `src/libpurgeablemem/common/src/ux_page_table_c.c` | one 64-bit word per data page: bit 0 = present (written by the kernel), the other bits = pin count in units of 2, `(uxpte_t)-2` = under reclaim | `InitUxPageTable` (map + clear), `DeinitUxPageTable`, `UxpteGet`/`UxptePut` (CAS loops `UxpteAdd`/`UxpteSub` per page), `UxpteIsPresent`, `UxpteClear` |
| Capability probe | same file, `CheckUxpt` | `g_supportUxpt`, written once by a library constructor | probe mmaps with `MAP_PURGEABLE` and `MAP_USEREXPTE` |
| Purgeable region | `src/libpurgeablemem/c/src/purgeable_mem_c.c` | `struct PurgMem`: data mapping, `dataSizeInput`, builder chain, UXPT, `pthread_rwlock_t`, `buildDataCount` | `PurgMemCreate`, `PurgMemDestroy`, `PurgMemBeginRead` (pin, `TryBeginRead`, `BeginReadBuildData` loop), `PurgMemBeginWrite`, `PurgMemEndRead`/`EndWrite` (`EndAccessPurgMem`), `PurgMemAppendModify`, `PurgMemGetContent[Size]` |
| Builder chain | `purgeable_mem_builder_c.c`, not under `src/` (modelled from spec section 4.B) | linked list of (func, param) | `BuildAll`, append at tail, destroy |
| dma-buf heap wrapper | `src/libdmabufheap/src/dmabuf_alloc.c` | none beyond the kernel's fds | open/close heap, alloc/free buffer, sync start/end ioctls |
| Kernel reclaimer | not in the repository (environment) | the present bit, and the pages themselves | reclaims a present, unpinned page: word `1` -> sentinel -> `0`. A fault sets the present bit. |

How the parts interact. Client threads call the region API on a shared
`struct PurgMem`. The region calls the UXPT engine on each access: a pin
before the lock, a presence check under the lock, and an unpin after the
unlock. The UXPT words are shared with the kernel. The kernel reclaims a
page only when its word says present with no pin, and pages reclaimed that
way are seen as purged by `IsPurged`. The rwlock serialises rebuilds
(`BeginReadBuildData`, `BeginWrite`) against sessions. `buildDataCount`
distinguishes a never-built region from a built one. The capability flag
chooses the mapping type and short-circuits every UXPT operation.

What is hard:
- **Interleaving.** Several readers see a purge, drop the read lock, and
  queue on the write lock. Only the recheck under the write lock prevents a
  second rebuild.
- **Concurrency with the kernel.** Pins are lock-free CAS loops racing the
  kernel's reclaim. The under-reclaim sentinel is compared against
  wrap-around arithmetic.
- **Partial failure.** A rebuild that fails after the memset; an append whose
  function ran but whose node allocation failed; a Destroy whose steps fail
  part way through.
- **Protocol sequencing.** Every exit of BeginRead and BeginWrite must unpin
  exactly once.

What makes each part correct:
- UXPT: the pin count equals the number of pinning threads, and a word never
  wraps.
- Region: a session sees the builder chain applied to zeroes for as long as
  it is open; a rebuild happens only when needed; BeginRead fails only when
  a builder fails.
- Probe: nothing beyond its one result.

PROJECT.json lists the components and the hazards, each at its source line.

## 2. Modules and how they map to the code

- **`UxPageTable.tla`**: the UXPT word and range operations, as operators
  over a table `ptes \in [Pages -> Word]`.
  - Constants: `W` (bits of `uxpte_t`), `Pages`, `UxptEnabled` (the probe's
    result).
  - `UxpteAdd` keeps the code's order of tests: the overflow test comes
    first, then the sentinel test. `UxpteAddSpins` is the condition under
    which the loop yields, and `UxpteSub` wraps modulo `2^W`.
  - Each range operation is one step. The words are independent, and
    another actor touches each word only through its own CAS.
  - `Modulus == 2^W`. `ModulusAssumption` states the facts about `2^W` that
    the proofs use, since the provers do not handle `^`. TLC checks it in
    every run.
- **`PurgeableMem.tla`** EXTENDS `UxPageTable`. The variables are:
  - `region`: `"none"` or `"live"`;
  - `pte`: the UXPT;
  - `content[p]`: the modify functions applied to page `p` since it was last
    zero;
  - `chain`: the builder chain;
  - `count`: `buildDataCount`;
  - `pc[t]`: where thread `t` is in the API;
  - `reclaiming`: the pages the kernel has marked.

  The rwlock is derived from `pc`: a thread holds the read lock when it is
  `"reading"` and the write lock when it is `"writing"`. The write lock that
  `BeginReadBuildData` takes and drops is inside one action.

  One action per function or step:

  | Action | Code |
  |---|---|
  | `PurgMemCreate` | `PurgMemCreate_` and `PurgMemCreate`, including the first append |
  | `PurgMemDestroy` | `PurgMemDestroy` |
  | `PurgMemBeginRead` | the pin |
  | `TryBeginRead` | `TryBeginRead` |
  | `BeginReadBuildData` | `BeginReadBuildData`, with its three outcomes: built, build failed, already rebuilt |
  | `PurgMemBeginWrite` | the pin |
  | `BeginWriteLock` | the rest of `PurgMemBeginWrite` |
  | `EndAccessPurgMem` | `EndAccessPurgMem` |
  | `RdlockFail`, `ReadWrlockFail`, `WrlockFail` (over `FailedBegin`) | a failed `pthread_rwlock_rdlock`/`wrlock` in `TryBeginRead`, `BeginReadBuildData`, `PurgMemBeginWrite`, then the `UxptePut` and `return false` of the begin |
  | `PurgMemAppendModify` | `PurgMemAppendModify`, called by a thread in a write session |
  | `Reclaim`, or `StartReclaim` then `FinishReclaim` | the kernel |

  The failure outcomes are enabled by the constant `Faults`:
  - `"build"`: a builder returns false;
  - `"alloc"`: `PurgMemBuilderCreate` fails;
  - `"lock"`: a lock call fails (`EAGAIN` when the read count is exhausted,
    `EDEADLK` on a lock the thread already holds).

  `ReclaimWindow` makes the kernel's reclaim two steps with the sentinel
  visible in between.

  Every create failure (malloc, mmap, UXPT init, rwlock init, or the first
  func returning false) releases everything and returns NULL, which is a
  stuttering step.

  `Fairness` and `FairSpec` are defined here (see section 3), as are the
  refinement mapping `validBar`/`sessionBar` and `RegionRefined`.
- **`PurgeableRegion.tla`**: what a region promises its clients, with the
  UXPT, pins and rwlock abstracted away.
  - Variables: `region`, `chain`, `valid` (the buffer holds the chain applied
    to zeroes), and `session[t]` (`"none"`, `"read"` or `"write"`).
  - Actions: `Create`, `Destroy`, `OpenRead`, `OpenWrite`, `Rebuild`,
    `Close`, `AppendModify` and `Purge`. Data is lost or rebuilt only with no
    session open. A begin that fails is a stutter.
  - The mapping from `PurgeableMem`: `validBar` holds on a live region whose
    every page holds the chain. `sessionBar[t]` is `"read"` or `"write"`
    when `pc[t]` is `"reading"` or `"writing"`, and `"none"` otherwise.
- **`UxpteIndex.tla`**: the address arithmetic of the UXPT engine, with an
  `ADDR_BITS`-bit address space (`uint64_t` in the code, 8 bits in the run).
  - Pure operators: `GetUxPageSize` with its overflow checks, `RoundUp` (it
    returns `val` on overflow, as the code does), `RoundDown`, `UxptePageNo`,
    `UxpteOffset` and `GetIndexInUxpte`.
  - A state machine for one table: `InitUxPageTable` (map, then clear; or the
    mmap fails), `DeinitUxPageTable`, and an arbitrary client `Call(op, addr,
    len)` into `UxpteOps`. `UxpteOps` does the range check, then the loop one
    page per `UxpteOpsStep`; `UxpteOpsDone` returns.
  - Addresses wrap modulo `2^ADDR_BITS`, as `uint64_t` does.
  - Assumptions: `InputAssumption` says tables are page-aligned with a
    page-multiple size, as `PurgMemCreate_` makes them (`size =
    RoundUp(len, PAGE_SIZE)`, purgeable_mem_c.c:79-93). `PowerAssumption`
    restates what `AddrAssumption` implies of the powers of two
    (`UXPTE_PER_PAGE * 8 = PAGE_SIZE`, `2^ADDR_BITS` a multiple of the page
    size) for the provers, which do not reason about `^`. TLC evaluates
    both on every run of the module.
- **`MC_PurgeableMem.tla`**: model values for the threads and functions, and
  the symmetry sets.
- **`PurgeableMemProofs.tla`**, **`PurgeableMemSessionProofs.tla`**,
  **`PurgeableMemRefinementProofs.tla`**, **`PurgeableMemBuildProofs.tla`**
  and **`UxpteIndexProofs.tla`**: the theorems (section 5).

## 3. Runs

The `PurgeableMem` runs use W = 4 and check deadlock. Unless noted, they use
3 threads, 2 modify functions, and symmetry over threads and functions.

| Run | Config | Properties | Result |
|---|---|---|---|
| core | no faults, one-step reclaim, 3 pages, chain <= 3, `CountWrap` 4 | `SessionSeesChain`, `PinAccounting`, `NoRedundantBuild`, `RegionRefined` | pass |
| faults | `Faults = {"build","alloc","lock"}` | `PinAccounting`, `NoRedundantBuild` | pass |
| window | two-step reclaim (sentinel visible) | `TypeOK`, `NoRedundantBuild` | pass |
| progress | 2 threads, all faults, one-step reclaim, `FairSpec`, no symmetry | `BeginReturns` | pass |
| index | `UxpteIndex`, 8-bit addresses, 16-byte pages | `NextWordInMapping`, `CoversRange`, `RangeChecked`, `CallReturns` | pass |
| read_race | no faults | `ReadFailsOnlyOnFault` | **violated** |
| sentinel | two-step reclaim | `SessionSeesChain` | **violated** |
| build_fail | `Faults = {"build"}` | `SessionSeesChain` | **violated** |
| starvation | 3 threads, no faults, `FairSpec` | `BeginReturns` | **violated** |
| livelock | as progress, with the two-step reclaim | `BeginReturns` | **violated** |
| alloc_fail | `Faults = {"alloc"}` | `RegionRefined` | **violated** |
| range_wrap | `UxpteIndex`, one call with a wrapping range | `RangeChecked` | **violated** |

The properties:
- `SessionSeesChain`: every page of an open session holds the chain.
- `PinAccounting`: each word's pin count equals the number of threads
  between their Get and their Put, and a page whose present bit is clear
  holds zeroes (one direction: a present page may hold anything).
- `NoRedundantBuild` (action property): while the region lives,
  `buildDataCount` changes only when the region was never built, or some
  page really lost its content.
- `ReadFailsOnlyOnFault` (action property): with no failure possible,
  BeginRead never returns false.
- `RegionRefined`: `PurgeableMem` implements `PurgeableRegion` under the
  mapping above. Every open session sees valid data. Data changes only by a
  client-visible step, and is lost or rebuilt only with no session open.
- `BeginReturns` (liveness): a thread that has pinned and waits for the
  rwlock, or is between the read and the write lock of a rebuild,
  eventually returns, either in a session or idle.
- `NextWordInMapping`: every descriptor `UxpteOps` reads lies in the
  mapping `GetUxPageSize` sized, and is the word the kernel keeps for that
  data page.
- `CoversRange` (action property): an OK `UxpteGet`/`Put`/`IsPresent` has
  visited exactly the pages of `[RoundDown(addr), RoundUp(addr + len))`.
- `RangeChecked` (action property): a call returns OK only if its range
  lies in the table.
- `CallReturns` (liveness): every call returns.

**Fairness.** `FairSpec` adds the following:
- strong fairness on the three lock-acquiring steps (`TryBeginRead`,
  `BeginReadBuildData`, `BeginWriteLock`): a thread blocked in
  `pthread_rwlock_*lock` gets the lock if it is free infinitely often;
- weak fairness on `EndAccessPurgMem`: the client ends every session it
  opens, which is the End* contract of spec section 4.C;
- weak fairness on `FinishReclaim`: the kernel finishes a reclaim it has
  started.

Nothing forces a client to begin, or the kernel to reclaim. Strong fairness
is the most the platform rwlock gives. It prefers readers, so a writer gets
the lock only when no reader holds it. With three threads, two readers can
hold it alternately forever (run starvation). The kernel may reclaim
without bound: `count` is `buildDataCount` at its own width, an `unsigned
int` that wraps (modulo the constant `CountWrap`, 2^32 in the code), so
the state space is finite without capping reclaims. With the one-step
reclaim a pinned page is never reclaimed and every begin returns (run
progress). With the two-step reclaim, a page whose pin `UxpteAdd` dropped
on the sentinel is reclaimed after every rebuild, and the BeginRead loop
(line 299) never returns (run livelock).
`UxpteIndex`'s `Spec` is weakly fair on the loop steps, since the loop runs
on the caller's thread without blocking.

Why the bounds are enough:
- Three threads give two readers that race on a purge plus a writer.
- Two or three pages give a partial reclaim.
- A chain of three gives appends after a rebuild.
- `CountWrap` of 2 to 4 lets `count` run through first build, rebuilds and
  the wrap back to 0, which `IsPurged` reads as never built.
- W = 4 keeps words small. Pin counts reach at most 7, so only the sentinel
  (14) and wrap-around below zero are at the edge, as they are in the
  64-bit build.
- In the index run, 8-bit addresses with 16-byte pages and 8-byte
  descriptors give two descriptors per descriptor page. The data addresses
  0, 48 and 224 start a table at a descriptor-page boundary, inside one,
  and near the top of the address space. The call lengths 0, 1, 9, 24 and 48
  give empty, sub-page, page-crossing and whole-table ranges.

Every property of a passing run has a mutant in PROJECT.json that TLC
catches:
- a missing pin;
- a missing put on an exit path, including the lock-failure path;
- a dropped recheck of `IsPurged`;
- a non-wrapping subtraction;
- a read lock taken while a writer holds it;
- a rebuild that does not count itself (it then rebuilds forever);
- a UXPT size without its `+ 1`;
- a `RoundUp` that rounds down;
- a range check without its end test.

Findings (TLC counterexamples; the details are in PROJECT.json):
1. `purgeable_mem_c.c:281`. A reader that loses the rebuild race returns
   false, although the spec says it loops and reads.
2. `ux_page_table_c.c:288`. `(uxpte_t)-2 + 2` wraps, so the overflow test
   fires before the sentinel test. `UxpteGet` on a page under reclaim skips
   the pin, the yield/retry branch is dead code, and the page can be
   reclaimed inside a session.
3. `purgeable_mem_c.c:225-232`. A failed rebuild leaves zeroed pages present
   with `buildDataCount > 0`, so the next reader takes the fast path onto
   them.
4. `purgeable_mem_c.c:419`. `PurgMemAppendModify` runs `func` on the buffer
   before it allocates the builder node. When the allocation fails, the
   buffer holds an effect the chain does not, and the next rebuild does not
   reproduce it. The refinement fails at that step.
5. `purgeable_mem_c.c:263`. The writer's `wrlock` can starve behind
   overlapping readers (reader-preferring rwlock). The spec says every
   operation completes.
6. `ux_page_table_c.c:378`. `addr + len` can wrap `uint64_t`, and then the
   range check passes and an OK call touches no descriptor.
7. `purgeable_mem_c.c:299`. Because of finding 2, a page under reclaim
   stays unpinned through the BeginRead loop. The kernel can reclaim it
   again after each rebuild, and BeginRead never returns. The spec says
   `get` waits out the sentinel and the loop ends on success or a failed
   build.

## 4. Plan

Done:
1. `UxPageTable` and `PurgeableMem`: the session protocol, the kernel, and
   the failures above, including the rwlock acquisition failures.
2. Type correctness proved.
3. `SessionSeesChain` and `PinAccounting` proved for every number of threads
   and pages.
4. `PurgeableRegion`, checked as `RegionRefined` and proved.
5. Liveness of the begins under justified fairness.
6. `UxpteIndex`: the index arithmetic and the range operations.
7. `NoRedundantBuild` proved with faults and the reclaim window included.
8. The three safety properties of `UxpteIndex` proved for every address
   width and page size.

Next:
9. `PinAccounting` outside `NoFaultConfig`, with the faults that keep it
   (lock failures, allocation failures).
10. `AppendModify` called with no session open.

## 5. Proofs

`PurgeableMemProofs.tla` holds the type proof.

**`TypeCorrect`**: `Spec => []TypeOK`, for all constants that satisfy the
assumptions. It is the inductive argument in one step per action, over the
following lemmas:
- `UxpteAddWord`, `UxpteSubWord` and `PresentBitWord`: each word operation
  stays in `0 .. 2^W - 1`. The last uses that `2^W` is even, so a word
  without the present bit is at most `2^W - 2`.
- `TableOps` and `InitTable`: the same facts lifted to tables.
- `ChainsFacts` and `BuildAllChains`: contents stay bounded chains.

TLC checks `TypeOK` in the window run, the only run where words wrap.

**`PinsCounted`** and **`SessionSafety`** (`PurgeableMemSessionProofs`):
`Spec => []PinAccounting` and `Spec => []SessionSeesChain` under
`NoFaultConfig`. This configuration has three parts:
- `Faults = {}`: no builder, allocation or lock failure;
- `~ReclaimWindow`;
- `2 * Cardinality(Threads) + 1 < 2^W`, so a pin count never reaches the
  top of a word. In the 64-bit build that is any realistic number of
  threads.

The core run is an instance of this configuration, and the theorems hold
with the UXPT enabled or disabled. Outside it,
the properties fail: see the sentinel and build_fail runs. Neither invariant
is inductive alone. The inductive invariant `IInv` conjoins `TypeOK`,
`PinAccounting` and four facts:
- no reclaim is in flight;
- no thread is pinned while there is no region;
- on a live region, every page with its present bit set holds the chain;
- every page of an open session is present.

`PinAccounting` is what makes the last fact inductive. The kernel reclaims
only a word equal to 1, and by `PinAccounting` that means no thread holds a
pin, hence no session is open. The step proof groups the actions by their
effect on the words and the pins:
- `PinStep`: UxpteGet on every page; one more pin; no overflow, by the
  bound;
- `UnpinStep`: UxptePut; one fewer pin, and there was one;
- `MoveStep`: no change to the region; a session opens only when `IsPurged`
  is false;
- `BuildStep`: a rebuild under the write lock; every page present and
  holding the chain;
- `AppendStep`, `CreateStep`, `DestroyStep` and `ReclaimStep`.

The lock-failure actions need the fault `"lock"`, so under `NoFaultConfig`
they are impossible.

The pin counts use `FS_AddElement`, `FS_RemoveElement` and `FS_Subset` of
`FiniteSetTheorems`.

**`Refinement`** (`PurgeableMemRefinementProofs`): `Spec => RegionRefined`
under `NoFaultConfig`, which TLC checks in the core run. It is
a step simulation under `IInv`:
- `RefineInit`: the initial state maps to `Region!Init`.
- `RefineStep`: each action maps to one abstract step or a stutter.
  - Create, Destroy, Close and AppendModify map to their namesakes.
  - `TryBeginRead` maps to `OpenRead` when `IsPurged` is false. By
    `ValidWhenNotPurged`, which follows from the `IInv` fact that a present
    page holds the chain, the data is then valid.
  - `BeginReadBuildData` maps to `Rebuild`, and `BeginWriteLock` to
    `OpenWrite`.
  - A kernel reclaim maps to `Purge`, or to `Rebuild` when it cannot
    invalidate. `ReclaimNoSession` shows it happens with no session open, by
    `PinAccounting` and the word being 1.
  - The pins and the failing begins are stutters.

Outside `NoFaultConfig`, the refinement fails: see the alloc_fail run.

**`BuildOnlyWhenNeeded`** (`PurgeableMemBuildProofs`): `Spec =>
NoRedundantBuild` with no restriction on the configuration. Builder,
allocation and lock failures are included, and so are the reclaim window
and a disabled UXPT. That covers the three runs that check the property.
The inductive invariant `BInv` conjoins `TypeOK`, no pin without a region,
and two facts:
- `LiveHasChain`: a live region has a non-empty chain, since create runs
  the first function and append only adds;
- `ZeroWhenAbsent`: with UXPT enabled, a page whose present bit is clear
  and that no reclaim is working on holds zeroes. The kernel zeroes a page
  when it clears the bit, and only a fault sets it again.

From them, `RebuildNeeded` shows that a thread holding the write lock that
finds the region purged finds it never built, or some page differing from
the chain: an absent page holds zeroes, not the non-empty chain. The step
lemma `BuildStepNeeded` is then one case per action.

**`LoopStaysInMapping`** (`UxpteIndexProofs`): `Spec => []NextWordInMapping`
for every address width, page size and set of aligned tables and calls,
including calls whose end wraps. The inductive invariant `IxInv` says:
- a mapped table (`uxpte # 0`) is aligned, does not wrap, and has the size
  `GetUxPageSize` gives;
- inside the loop, `off` is aligned, not below `dataAddr`, and `end` is at
  most `dataAddr + dataSize`.

`OpsEntry` shows the range check of `UxpteOps` sets this up, whatever the
call. In the loop step, `off + PAGE_SIZE` stays at most the table's end
(`AlignedNext`, both being aligned), so `Plus` does not wrap. Two lemmas
about `\div` and `%` then give the property:
- `IndexIsKernels`: for `off >= dataAddr`, `GetIndexInUxpte` is
  `VirtPageNo(off) - UxptePageNo(dataAddr) * UXPTE_PER_PAGE`, the kernel's
  layout;
- `IndexInMapping`: that index is below `GetUxPageSize / 8`.

The division lemmas (`DivMod`, `MulMod`, `DivMono`, `AlignedNext`,
`RoundDownFacts`, `CeilFacts`) are proved by the SMT backend's own integer
arithmetic, with the positivity of the divisor as a fact.

**`RangeCheckedWithoutWrap`** and **`CoversRangeWithoutWrap`**
(`UxpteIndexProofs`): `NoWrapCalls => (Spec => RangeChecked)`, and the same
for `CoversRange`. `NoWrapCalls` says no call's `addr + len` reaches
`2^ADDR_BITS`. The index run satisfies it. The range_wrap run does not, and
`RangeChecked` fails there (finding 6), so the hypothesis is needed. The
invariants strengthen `IxInv`:
- `RInv` adds that inside the loop the call's range lies in the table.
  `OpsEntryRange` proves it from the check: `RoundDown(addr) <= addr` and
  `addr + len <= RoundUp(addr + len)` (`RoundUpGe`).
- `CInv` adds `LoopTouched`: the bound `end` is `CeilPage(addr + len)`,
  `off` runs from the page of `addr` up to `end`, and `touched` is the set of
  kernel indexes of the pages passed.

`StopIsCeil` shows that once the check has passed, `RoundUp` computed the
exact round-up. Its overflow branch returns `val` unrounded, but that branch
is reached only when `val` is the aligned end of a table at the top of the
address space. At `UxpteOpsDone`, `off = end`, so the pages passed are
`PagesOf(addr, len)`.

**Out of the provers' reach**, and left to TLC:
- liveness and ENABLED (`BeginReturns`, `CallReturns`);
- facts about recursive definitions for every input;
- anything in a module that reaches a RECURSIVE operator. The proved
  modules have none.

## 6. Not modelled, and why

- **The dma-buf wrapper.** It is I/O glue with no state to explore.
- **Logging, and `GetContent`/`GetContentSize`.** These change no state.
- **The probe's mmap calls.** Only its boolean result matters; both values
  are checked.
- **Several regions.** They share only the read-only capability flag, so one
  region is modelled.
- **Unlock failures.** `pthread_rwlock_unlock` fails only with `EPERM` (the
  lock is not held). The begin/end discipline, which the model keeps,
  excludes that.
- **Destroy's failures** (line 201). After a failed step, the object's
  rwlock is already destroyed. Any later call is pthread undefined
  behaviour, and the builder release is in `purgeable_mem_builder_c.c`,
  which is not under `src/`. Nothing in the code fixes the outcomes a model
  would choose between.
- **`AppendModify` with no session open.** The code takes no lock and pins
  no page, and spec section 8 (scenarios 2 and 5) calls it this way. The
  model lets only a thread in a write session call it. It therefore does
  not explore a call that writes pages the kernel may reclaim, or that
  races with a reader or a rebuild.
- **`UxpteIsPresent` reads the words one at a time** (line 403). Its only
  caller, `IsPurged` (line 435), runs after `UxpteGet` has pinned the
  pages, so the model reads all words in one step.
