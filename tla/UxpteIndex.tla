------------------------------ MODULE UxpteIndex ------------------------------
(***************************************************************************)
(* Addressing of the UXPT (ux_page_table_c.c): which descriptor words a    *)
(* table maps, and which of them UxpteOps walks for a call (addr, len).    *)
(* Addresses and sizes are uint64_t/size_t words of ADDR_BITS bits; every  *)
(* addition wraps as in C.  The loop of UxpteOps is taken one page at a    *)
(* time.  The value of a word is the concern of UxPageTable; here          *)
(* IsPresentAt may answer either way.                                      *)
(***************************************************************************)
EXTENDS Naturals, FiniteSets

CONSTANTS
  ADDR_BITS,   \* width of uint64_t and size_t
  PAGE_SHIFT,  \* log2 of PAGE_SIZE
  DataAddrs,   \* page-aligned data mappings a table may describe
  DataSizes,   \* their page-rounded lengths
  CallAddrs,   \* addr arguments of UxpteGet/Put/IsPresent
  CallLens     \* len arguments

ASSUME AddrAssumption ==
  /\ PAGE_SHIFT \in Nat /\ PAGE_SHIFT >= 3
  /\ ADDR_BITS \in Nat /\ ADDR_BITS > PAGE_SHIFT

AddrSpace == 2 ^ ADDR_BITS
Addr == 0 .. AddrSpace - 1
PAGE_SIZE == 2 ^ PAGE_SHIFT

\* A table describes an mmap'ed buffer (page-aligned) of RoundUp(len,
\* PAGE_SIZE) bytes (PurgMemCreate_ at purgeable_mem_c.c:79-93).
ASSUME InputAssumption ==
  /\ DataAddrs \subseteq Addr /\ \A a \in DataAddrs : a % PAGE_SIZE = 0
  /\ DataSizes \subseteq Addr /\ \A s \in DataSizes : s % PAGE_SIZE = 0
  /\ CallAddrs \subseteq Addr /\ CallLens \subseteq Addr

\* uint64_t / size_t addition.
Plus(a, b) == (a + b) % AddrSpace

UXPTE_SIZE_SHIFT == 3
UXPTE_PER_PAGE == 2 ^ (PAGE_SHIFT - UXPTE_SIZE_SHIFT)

\* What AddrAssumption implies of the powers of two, stated for the provers,
\* which do not reason about exponentiation (TLC evaluates it).
ASSUME PowerAssumption ==
  /\ UXPTE_PER_PAGE \in Nat \ {0}
  /\ 2 ^ UXPTE_SIZE_SHIFT = 8
  /\ PAGE_SIZE = UXPTE_PER_PAGE * 8
  /\ AddrSpace \in Nat /\ AddrSpace > PAGE_SIZE /\ AddrSpace % PAGE_SIZE = 0

VirtPageNo(vaddr) == vaddr \div PAGE_SIZE
UxptePageNo(vaddr) == VirtPageNo(vaddr) \div UXPTE_PER_PAGE
UxpteOffset(vaddr) == VirtPageNo(vaddr) % UXPTE_PER_PAGE

\* Mutant: GetUxPageSize without the + 1 (an off-by-one in the page count).
MutantGetUxPageSizeNoPlusOne(dataAddr, dataSize) ==
  LET sum == Plus(dataAddr, dataSize)
  IN  IF sum < dataAddr \/ sum < dataSize \/ sum < 1 THEN 0
      ELSE (UxptePageNo(sum - 1) - UxptePageNo(dataAddr)) * PAGE_SIZE

\* Bytes of descriptor pages covering [dataAddr, dataAddr + dataSize); 0 on overflow.
GetUxPageSize(dataAddr, dataSize) ==
  LET sum == Plus(dataAddr, dataSize)
      pageNoEnd == UxptePageNo(sum - 1)
      pageNoStart == UxptePageNo(dataAddr)
  IN  IF sum < dataAddr \/ sum < dataSize \/ sum < 1 THEN 0
      ELSE IF pageNoEnd < pageNoStart THEN 0
      ELSE IF pageNoEnd - pageNoStart + 1 > (AddrSpace - 1) \div PAGE_SIZE THEN 0
      ELSE (pageNoEnd - pageNoStart + 1) * PAGE_SIZE

\* Mutant: RoundUp that rounds down (the align - 1 dropped).
MutantRoundUpFloor(val, align) ==
  IF Plus(val, align) < val \/ Plus(val, align) < align \/ align = 0 THEN val
  ELSE (val \div align) * align

\* On overflow RoundUp returns val unrounded.
RoundUp(val, align) ==
  IF Plus(val, align) < val \/ Plus(val, align) < align \/ align = 0 THEN val
  ELSE ((val + align - 1) \div align) * align

\* val & ~(align - 1), align a power of two.
RoundDown(val, align) == IF align = 0 THEN val ELSE val - (val % align)

GetIndexInUxpte(startAddr, currAddr) ==
  Plus(UxpteOffset(startAddr), (VirtPageNo(currAddr) - VirtPageNo(startAddr)) % AddrSpace)

-----------------------------------------------------------------------------
VARIABLES
  upt,      \* [dataAddr, dataSize, uxpte]: uxpte is the mapped size, 0 for NULL
  pc,       \* "idle" or "ops" (inside the loop of UxpteOps)
  call,     \* [op, addr, len] of the current or last UxpteOps
  off,      \* the loop variable of UxpteOps
  end,      \* its bound
  touched,  \* descriptor indexes the current call has accessed
  ret       \* the last PMState returned

vars == <<upt, pc, call, off, end, touched, ret>>

Ops == {"GET", "PUT", "CLEAR", "IS_PRESENT"}

\* Mutant: UxpteOps that checks only the start of the range.
MutantUxpteOpsNoEndCheck(tbl, op, addr, len) ==
  LET start == RoundDown(addr, PAGE_SIZE)
      stop  == RoundUp(Plus(addr, len), PAGE_SIZE)
  IN  /\ call' = [op |-> op, addr |-> addr, len |-> len]
      /\ touched' = {}
      /\ IF start < tbl.dataAddr
         THEN /\ ret' = "UXPT_OUT_RANGE"
              /\ pc' = "idle"
              /\ UNCHANGED <<off, end>>
         ELSE /\ pc' = "ops"
              /\ off' = start
              /\ end' = stop
              /\ UNCHANGED ret

\* MapUxptePages: mmap GetUxPageSize bytes of descriptor pages at offset
\* UxptePageNo(dataAddr) * PAGE_SIZE; a size of 0 makes the mmap fail.
MapUxptePages(dataAddr, dataSize) == GetUxPageSize(dataAddr, dataSize)

\* The descriptor GetUxpteAt, PutUxpteAt, ClearUxpteAt and IsPresentAt access.
UxpteAt(addr) == GetIndexInUxpte(upt.dataAddr, addr)

\* Entry of UxpteOps: compute the page range and check it against the table.
UxpteOps(tbl, op, addr, len) ==
  LET start == RoundDown(addr, PAGE_SIZE)
      stop  == RoundUp(Plus(addr, len), PAGE_SIZE)
  IN  /\ call' = [op |-> op, addr |-> addr, len |-> len]
      /\ touched' = {}
      /\ IF start < tbl.dataAddr \/ stop > Plus(tbl.dataAddr, tbl.dataSize)
         THEN /\ ret' = "UXPT_OUT_RANGE"
              /\ pc' = "idle"
              /\ UNCHANGED <<off, end>>
         ELSE /\ pc' = "ops"
              /\ off' = start
              /\ end' = stop
              /\ UNCHANGED ret

\* InitUxPageTable: record the range, MapUxptePages, then UxpteClear.
InitUxPageTable(addr, len) ==
  LET size == MapUxptePages(addr, len)
      tbl  == [dataAddr |-> addr, dataSize |-> len, uxpte |-> size]
  IN  /\ pc = "idle"
      /\ upt.uxpte = 0
      /\ \/ /\ size # 0
            /\ upt' = tbl
            /\ UxpteOps(tbl, "CLEAR", addr, len)
         \/ /\ upt' = [tbl EXCEPT !.uxpte = 0]
            /\ ret' = "MMAP_UXPT_FAIL"
            /\ UNCHANGED <<pc, call, off, end, touched>>

\* DeinitUxPageTable: munmap the descriptor pages (which may fail) and reset.
DeinitUxPageTable ==
  /\ pc = "idle"
  /\ \/ /\ upt' = [dataAddr |-> 0, dataSize |-> 0, uxpte |-> 0]
        /\ ret' = "OK"
     \/ /\ upt.uxpte # 0
        /\ ret' = "UNMAP_UXPT_FAIL"
        /\ UNCHANGED upt
  /\ UNCHANGED <<pc, call, off, end, touched>>

\* UxpteGet, UxptePut, UxpteIsPresent on a mapped table.
Call(op, addr, len) ==
  /\ pc = "idle"
  /\ upt.uxpte # 0
  /\ UxpteOps(upt, op, addr, len)
  /\ UNCHANGED upt

\* One iteration: GetUxpteAt, PutUxpteAt, ClearUxpteAt or IsPresentAt.
UxpteOpsStep ==
  /\ pc = "ops"
  /\ off < end
  /\ touched' = touched \cup {UxpteAt(off)}
  /\ \/ /\ call.op = "IS_PRESENT"
        /\ ret' = "UXPT_NO_PRESENT"
        /\ pc' = "idle"
        /\ UNCHANGED off
     \/ /\ off' = Plus(off, PAGE_SIZE)
        /\ UNCHANGED <<pc, ret>>
  /\ UNCHANGED <<upt, call, end>>

UxpteOpsDone ==
  /\ pc = "ops"
  /\ ~(off < end)
  /\ pc' = "idle"
  /\ ret' = "OK"
  /\ UNCHANGED <<upt, call, off, end, touched>>

Init ==
  /\ upt = [dataAddr |-> 0, dataSize |-> 0, uxpte |-> 0]
  /\ pc = "idle"
  /\ call = [op |-> "CLEAR", addr |-> 0, len |-> 0]
  /\ off = 0
  /\ end = 0
  /\ touched = {}
  /\ ret = "OK"

Next ==
  \/ \E a \in DataAddrs, l \in DataSizes : InitUxPageTable(a, l)
  \/ DeinitUxPageTable
  \/ \E op \in Ops \ {"CLEAR"}, a \in CallAddrs, l \in CallLens : Call(op, a, l)
  \/ UxpteOpsStep
  \/ UxpteOpsDone

\* The loop of UxpteOps runs on without blocking (UxpteAdd's yield aside).
Spec == Init /\ [][Next]_vars /\ WF_vars(UxpteOpsStep \/ UxpteOpsDone)

-----------------------------------------------------------------------------
TypeOK ==
  /\ upt \in [dataAddr : Addr, dataSize : Addr, uxpte : Addr]
  /\ pc \in {"idle", "ops"}
  /\ call \in [op : Ops, addr : Addr, len : Addr]
  /\ off \in Addr /\ end \in Addr
  /\ touched \subseteq Addr

\* Reference layout: the mapping made at offset UxptePageNo(dataAddr) *
\* PAGE_SIZE holds at index k the word of virtual page
\* UxptePageNo(dataAddr) * UXPTE_PER_PAGE + k (spec section 3).
KernelIndex(vpn) == vpn - UxptePageNo(upt.dataAddr) * UXPTE_PER_PAGE

\* Words in the descriptor mapping (uxpte_t is 2^UXPTE_SIZE_SHIFT bytes).
Entries == upt.uxpte \div 2 ^ UXPTE_SIZE_SHIFT

\* The pages the spec says a call covers, [roundDown(addr), roundUp(addr + len)),
\* in unbounded arithmetic.
PagesOf(addr, len) ==
  addr \div PAGE_SIZE .. (addr + len + PAGE_SIZE - 1) \div PAGE_SIZE - 1

\* A call of UxpteOps that returns PM_OK from its loop.
ReturnsOk == pc = "ops" /\ pc' = "idle" /\ ret' = "OK"

(***************************************************************************)
(* Every descriptor the loop of UxpteOps accesses lies inside the mapping  *)
(* made by MapUxptePages, and is the one the kernel keeps for that page:   *)
(* GetIndexInUxpte (offset of dataAddr in its descriptor page plus the     *)
(* page distance) agrees with the layout of the USEREXPTE mapping, and     *)
(* GetUxPageSize maps enough descriptor pages for the whole data range.   *)
(***************************************************************************)
NextWordInMapping ==
  pc = "ops" /\ off < end =>
    LET i == UxpteAt(off)
    IN  i = KernelIndex(VirtPageNo(off)) /\ i < Entries

(***************************************************************************)
(* A UxpteGet, UxptePut, UxpteClear or UxpteIsPresent that returns PM_OK   *)
(* has accessed exactly the descriptors of the pages between               *)
(* roundDown(addr) and roundUp(addr + len) (spec section 4.A): the loop    *)
(* neither misses a partly covered page (a pin missing under a session)   *)
(* nor touches a page outside the range.                                   *)
(***************************************************************************)
CoversRange ==
  [][ReturnsOk =>
       touched = {KernelIndex(v) : v \in PagesOf(call.addr, call.len)}]_vars

(***************************************************************************)
(* The spec (section 4.A): out-of-range addresses fail with               *)
(* UXPT_OUT_RANGE.  A call that returns PM_OK had its range, in unbounded *)
(* arithmetic, inside the table's [dataAddr, dataAddr + dataSize).         *)
(***************************************************************************)
RangeChecked ==
  [][ReturnsOk =>
       /\ upt.dataAddr <= call.addr
       /\ call.addr + call.len <= upt.dataAddr + upt.dataSize]_vars

(***************************************************************************)
(* Every call of UxpteOps returns: the loop variable, stepped by PAGE_SIZE *)
(* in uint64_t, reaches the bound, even where RoundUp overflowed and       *)
(* returned an unaligned end.                                              *)
(***************************************************************************)
CallReturns == pc = "ops" ~> pc = "idle"

=============================================================================
