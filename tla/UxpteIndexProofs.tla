--------------------------- MODULE UxpteIndexProofs ---------------------------
(***************************************************************************)
(* NextWordInMapping for every address width, page size and set of inputs *)
(* that satisfy the assumptions of UxpteIndex.  The argument: a mapped     *)
(* table describes a page-aligned range that does not wrap; inside         *)
(* UxpteOps the loop variable is page-aligned, not below dataAddr, and    *)
(* below the bound, which is at most dataAddr + dataSize.  From those, the *)
(* index GetIndexInUxpte computes is the kernel's and is inside the        *)
(* GetUxPageSize bytes MapUxptePages maps.                                  *)
(***************************************************************************)
EXTENDS UxpteIndex, Integers, TLAPS

USE AddrAssumption, InputAssumption, PowerAssumption

\* The types the argument needs.
IxType ==
  /\ upt \in [dataAddr : Addr, dataSize : Addr, uxpte : Nat]
  /\ pc \in {"idle", "ops"}
  /\ off \in Nat /\ end \in Nat

\* A table that MapUxptePages mapped: an aligned range that does not wrap.
TableMapped ==
  /\ upt.dataAddr % PAGE_SIZE = 0
  /\ upt.dataSize % PAGE_SIZE = 0
  /\ upt.dataAddr + upt.dataSize < AddrSpace
  /\ upt.uxpte = GetUxPageSize(upt.dataAddr, upt.dataSize)

\* The loop of UxpteOps walks aligned pages of the table's range.
LoopInRange ==
  /\ upt.uxpte # 0
  /\ off % PAGE_SIZE = 0
  /\ upt.dataAddr <= off
  /\ end <= upt.dataAddr + upt.dataSize

IxInv ==
  /\ IxType
  /\ upt.uxpte # 0 => TableMapped
  /\ pc = "ops" => LoopInRange

\* The calls of the configuration do not wrap the address space
\* (addr + len < 2^64); MC_range_wrap shows what happens when one does.
NoWrapCalls == \A a \in CallAddrs, l \in CallLens : a + l < AddrSpace

\* Inside the loop, the range of the current call lies in the table.
CallInRange ==
  pc = "ops" =>
    /\ upt.dataAddr <= call.addr
    /\ call.addr + call.len <= upt.dataAddr + upt.dataSize

RInv ==
  /\ IxInv
  /\ call \in [op : Ops, addr : Addr, len : Addr]
  /\ CallInRange

\* roundUp(x, PAGE_SIZE) in unbounded arithmetic.
CeilPage(x) == ((x + PAGE_SIZE - 1) \div PAGE_SIZE) * PAGE_SIZE

\* The loop of UxpteOps has touched the descriptors of the pages from
\* roundDown(addr) up to off, and stops at roundUp(addr + len).
LoopTouched ==
  pc = "ops" =>
    /\ end = CeilPage(call.addr + call.len)
    /\ call.addr \div PAGE_SIZE <= off \div PAGE_SIZE
    /\ off <= end
    /\ touched = {KernelIndex(v) : v \in call.addr \div PAGE_SIZE .. off \div PAGE_SIZE - 1}

CInv == RInv /\ LoopTouched

-----------------------------------------------------------------------------
(***************************************************************************)
(* Division facts the index arithmetic rests on.                           *)
(***************************************************************************)
LEMMA DivMod ==
  ASSUME NEW x \in Nat, NEW d \in Nat \ {0}
  PROVE  /\ x \div d \in Nat
         /\ x % d \in 0 .. d - 1
         /\ x = (x \div d) * d + (x % d)
  OBVIOUS

\* Neither the quotient nor the remainder exceeds the dividend.
LEMMA DivLe ==
  ASSUME NEW x \in Nat, NEW d \in Nat \ {0}
  PROVE  x \div d <= x /\ x % d <= x
  OBVIOUS

LEMMA MulMod ==
  ASSUME NEW k \in Nat, NEW d \in Nat \ {0}
  PROVE  (k * d) % d = 0 /\ (k * d) \div d = k
  OBVIOUS

LEMMA MulMono ==
  ASSUME NEW a \in Int, NEW b \in Int, NEW d \in Nat, a <= b
  PROVE  a * d <= b * d
  OBVIOUS

LEMMA DivMono ==
  ASSUME NEW x \in Nat, NEW y \in Nat, NEW d \in Nat \ {0}, x <= y
  PROVE  x \div d <= y \div d
  <1> SUFFICES ASSUME x \div d > y \div d PROVE FALSE
    OBVIOUS
  <1>1. (y \div d + 1) * d <= (x \div d) * d
    BY DivMod, MulMono
  <1>2. QED
    BY <1>1, DivMod

\* A multiple of d below another is at least d below it.
LEMMA AlignedNext ==
  ASSUME NEW x \in Nat, NEW y \in Nat, NEW d \in Nat \ {0},
         x % d = 0, y % d = 0, x < y
  PROVE  x + d <= y
  <1>1. x = (x \div d) * d /\ y = (y \div d) * d
    BY DivMod
  <1>2. x \div d + 1 <= y \div d
    BY <1>1, DivMod, MulMono
  <1>3. (x \div d + 1) * d <= (y \div d) * d
    BY <1>2, DivMod, MulMono
  <1>4. QED
    BY <1>1, <1>3

\* A number lies below the next multiple of d.
LEMMA BelowNextMultiple ==
  ASSUME NEW w \in Nat, NEW d \in Nat \ {0}
  PROVE  w < (w \div d + 1) * d
  BY DivMod

\* PAGE_SIZE is a positive multiple of the descriptor size.
LEMMA PageSize == PAGE_SIZE \in Nat \ {0} /\ PAGE_SIZE = UXPTE_PER_PAGE * 8
  OBVIOUS

\* RoundDown is aligned and not above its argument.
LEMMA RoundDownFacts ==
  ASSUME NEW x \in Nat, NEW d \in Nat \ {0}
  PROVE  /\ RoundDown(x, d) \in Nat
         /\ RoundDown(x, d) <= x
         /\ RoundDown(x, d) % d = 0
  <1>1. RoundDown(x, d) = (x \div d) * d
    BY DivMod DEF RoundDown
  <1>2. x \div d \in Nat /\ (x \div d) * d <= x
    BY DivMod
  <1>3. ((x \div d) * d) % d = 0
    BY <1>2, MulMod
  <1>4. QED
    BY <1>1, <1>2, <1>3

\* A value below the modulus is its own residue.
LEMMA ModSmall ==
  ASSUME NEW x \in Nat, NEW m \in Nat \ {0}, x < m
  PROVE  x % m = x
  OBVIOUS

\* uint64_t addition of a range that fits.
LEMMA PlusNoWrap ==
  ASSUME NEW a \in Nat, NEW b \in Nat, a + b < AddrSpace
  PROVE  Plus(a, b) = a + b
  BY ModSmall DEF Plus

\* GetUxPageSize is non-zero only for a range that does not wrap.
LEMMA MappedNoWrap ==
  ASSUME NEW a \in Addr, NEW l \in Addr, GetUxPageSize(a, l) # 0
  PROVE  a + l < AddrSpace
  <1> SUFFICES ASSUME a + l >= AddrSpace PROVE FALSE
    BY DEF Addr
  <1>1. Plus(a, l) = a + l - AddrSpace
    BY DEF Plus, Addr
  <1>2. Plus(a, l) < a
    BY <1>1 DEF Addr
  <1>3. QED
    BY <1>2 DEF GetUxPageSize

-----------------------------------------------------------------------------
(***************************************************************************)
(* The index arithmetic.  For a table at A of S bytes that is mapped, and  *)
(* an address o of its range, GetIndexInUxpte(A, o) is the index of page  *)
(* o's word in the mapping that starts at descriptor page UxptePageNo(A), *)
(* and it lies below the number of words GetUxPageSize(A, S) maps.        *)
(***************************************************************************)
LEMMA IndexIsKernels ==
  ASSUME NEW A \in Addr, NEW o \in Nat, A <= o, o < AddrSpace
  PROVE  GetIndexInUxpte(A, o) = VirtPageNo(o) - UxptePageNo(A) * UXPTE_PER_PAGE
  <1> DEFINE a == A \div PAGE_SIZE
             v == o \div PAGE_SIZE
             E == UXPTE_PER_PAGE
  <1> USE DEF a, v, E
  <1>1. a \in Nat /\ v \in Nat /\ a <= v /\ v <= o
    BY PageSize, DivMod, DivMono, DivLe DEF Addr
  <1>2. a = (a \div E) * E + (a % E) /\ a \div E \in Nat /\ a % E \in Nat
    BY <1>1, PowerAssumption
  <1>3. a % E <= a
    BY <1>1, PowerAssumption, DivLe
  <1>4. (v - a) % AddrSpace = v - a
    BY <1>1, ModSmall
  <1>5. ((a % E) + (v - a)) % AddrSpace = (a % E) + (v - a)
    <2>1. (a % E) + (v - a) \in 0 .. AddrSpace - 1
      <3> HIDE DEF a, v, E
      <3> QED
        BY <1>1, <1>2, <1>3
    <2>2. QED
      BY <2>1, PageSize, PowerAssumption, ModSmall
  <1>6. QED
    BY <1>2, <1>4, <1>5
    DEF GetIndexInUxpte, Plus, UxpteOffset, UxptePageNo, VirtPageNo

\* Page numbers of addresses are naturals.
LEMMA PageNoNat ==
  ASSUME NEW x \in Nat
  PROVE  VirtPageNo(x) \in Nat /\ UxptePageNo(x) \in Nat /\ UxpteOffset(x) \in Nat
  BY PageSize, PowerAssumption DEF UxptePageNo, VirtPageNo, UxpteOffset

\* The size of a mapped table, from GetUxPageSize.
LEMMA MappedSize ==
  ASSUME NEW A \in Addr, NEW S \in Addr, A + S < AddrSpace, GetUxPageSize(A, S) # 0
  PROVE  /\ A + S >= 1
         /\ UxptePageNo(A + S - 1) >= UxptePageNo(A)
         /\ GetUxPageSize(A, S)
              = (UxptePageNo(A + S - 1) - UxptePageNo(A) + 1) * PAGE_SIZE
  <1>1. Plus(A, S) = A + S
    BY PlusNoWrap DEF Addr
  <1>2. A + S >= 1
    BY <1>1 DEF GetUxPageSize, Addr
  <1>3. UxptePageNo(A) \in Nat /\ UxptePageNo(A + S - 1) \in Nat
    BY <1>2, PageNoNat DEF Addr
  <1>4. QED
    BY <1>1, <1>2, <1>3 DEF GetUxPageSize, Addr

LEMMA IndexInMapping ==
  ASSUME NEW A \in Addr, NEW S \in Addr, NEW o \in Nat,
         A <= o, o < A + S, A + S < AddrSpace, GetUxPageSize(A, S) # 0
  PROVE  VirtPageNo(o) - UxptePageNo(A) * UXPTE_PER_PAGE
           < GetUxPageSize(A, S) \div 2 ^ UXPTE_SIZE_SHIFT
  <1> DEFINE v == o \div PAGE_SIZE
             w == (A + S - 1) \div PAGE_SIZE
             E == UXPTE_PER_PAGE
             pns == UxptePageNo(A)
             pne == UxptePageNo(A + S - 1)
  <1> USE DEF v, w, E, pns, pne
  <1>0. A + S >= 1
    BY MappedSize
  <1>1. pns \in Nat /\ pne \in Nat /\ pne >= pns /\ v \in Nat /\ w \in Nat
    <2>1. pns \in Nat /\ pne \in Nat /\ pne >= pns
      BY <1>0, MappedSize, PageNoNat DEF Addr
    <2>2. v \in Nat /\ w \in Nat
      BY <1>0, PageSize DEF Addr
    <2>3. QED
      BY <2>1, <2>2
  <1>2. GetUxPageSize(A, S) \div 2 ^ UXPTE_SIZE_SHIFT = (pne - pns + 1) * E
    <2>1. GetUxPageSize(A, S) = (pne - pns + 1) * (E * 8)
      BY MappedSize, PageSize
    <2>2. QED
      BY <1>1, <2>1, PowerAssumption
  <1>3. v <= w
    BY <1>0, PageSize, DivMono DEF Addr
  <1>4. w < (pne + 1) * E
    BY <1>1, PowerAssumption DEF UxptePageNo, VirtPageNo
  <1>5. (pne + 1) * E - pns * E = (pne - pns + 1) * E
    BY <1>1, PowerAssumption
  <1>6. v - pns * E < (pne - pns + 1) * E
    <2>1. E \in Nat \ {0}
      BY PowerAssumption
    <2> HIDE DEF v, w, E, pns, pne
    <2> QED
      BY <1>1, <1>3, <1>4, <1>5, <2>1
  <1>7. QED
    BY <1>2, <1>6 DEF VirtPageNo

-----------------------------------------------------------------------------
(***************************************************************************)
(* The inductive invariant.                                                *)
(***************************************************************************)
\* Sums of aligned values are aligned.
LEMMA AddAligned ==
  ASSUME NEW x \in Nat, NEW y \in Nat, NEW d \in Nat \ {0}, x % d = 0, y % d = 0
  PROVE  (x + y) % d = 0
  <1> DEFINE qx == x \div d
             qy == y \div d
  <1>1. qx \in Nat /\ qy \in Nat /\ x = qx * d /\ y = qy * d
    BY DivMod
  <1>2. x + y = (qx + qy) * d
    BY <1>1
  <1>3. ((qx + qy) * d) % d = 0
    BY <1>1, MulMod
  <1> HIDE DEF qx, qy
  <1>4. QED
    BY <1>2, <1>3

LEMMA SizeNat ==
  ASSUME NEW A \in Addr, NEW S \in Addr
  PROVE  GetUxPageSize(A, S) \in Nat
  <1>1. CASE GetUxPageSize(A, S) = 0
    BY <1>1
  <1>2. CASE GetUxPageSize(A, S) # 0
    <2>1. A + S < AddrSpace
      BY <1>2, MappedNoWrap
    <2>2. A + S >= 1 /\ UxptePageNo(A + S - 1) >= UxptePageNo(A)
      BY <1>2, <2>1, MappedSize
    <2>3. UxptePageNo(A) \in Nat /\ UxptePageNo(A + S - 1) \in Nat
      BY <2>2, PageNoNat DEF Addr
    <2>4. QED
      BY <1>2, <2>1, <2>2, <2>3, MappedSize, PageSize
  <1>3. QED
    BY <1>1, <1>2

LEMMA RoundUpNat ==
  ASSUME NEW x \in Nat, NEW d \in Nat \ {0}
  PROVE  RoundUp(x, d) \in Nat
  BY DEF RoundUp, Plus

\* The entry of UxpteOps on a mapped table either returns or starts the loop
\* at an aligned address of the table, with a bound inside it.
LEMMA OpsEntry ==
  ASSUME NEW tbl \in [dataAddr : Addr, dataSize : Addr, uxpte : Nat],
         tbl.dataAddr + tbl.dataSize < AddrSpace,
         NEW op, NEW addr \in Addr, NEW len \in Addr,
         UxpteOps(tbl, op, addr, len)
  PROVE  \/ pc' = "idle" /\ UNCHANGED <<off, end>>
         \/ /\ pc' = "ops"
            /\ off' \in Nat /\ off' % PAGE_SIZE = 0 /\ tbl.dataAddr <= off'
            /\ end' \in Nat /\ end' <= tbl.dataAddr + tbl.dataSize
  <1> DEFINE start == RoundDown(addr, PAGE_SIZE)
             stop  == RoundUp(Plus(addr, len), PAGE_SIZE)
             bound == Plus(tbl.dataAddr, tbl.dataSize)
  <1>0. addr \in Nat /\ PAGE_SIZE \in Nat \ {0}
    BY PageSize DEF Addr
  <1>1. start \in Nat /\ start % PAGE_SIZE = 0
    BY <1>0, RoundDownFacts, Zenon
  <1>2. Plus(addr, len) \in Nat
    BY PowerAssumption DEF Plus, Addr
  <1>3. stop \in Nat
    BY <1>2, PageSize, RoundUpNat
  <1>4. bound = tbl.dataAddr + tbl.dataSize
    BY PlusNoWrap DEF Addr
  <1>5. tbl.dataAddr \in Nat /\ tbl.dataSize \in Nat
    BY DEF Addr
  <1>6. CASE start < tbl.dataAddr \/ stop > bound
    BY <1>6 DEF UxpteOps
  <1>7. CASE ~(start < tbl.dataAddr \/ stop > bound)
    <2>1. pc' = "ops" /\ off' = start /\ end' = stop
      BY <1>7 DEF UxpteOps
    <2> HIDE DEF start, stop, bound
    <2>2. QED
      BY <1>1, <1>3, <1>4, <1>5, <1>7, <2>1
  <1>8. QED
    BY <1>6, <1>7

LEMMA IxInit == Init => IxInv
  BY PowerAssumption DEF Init, IxInv, IxType, Addr

LEMMA IxStep == IxInv /\ [Next]_vars => IxInv'
  <1> SUFFICES ASSUME IxInv, [Next]_vars PROVE IxInv'
    OBVIOUS
  <1>1. ASSUME NEW a \in DataAddrs, NEW l \in DataSizes, InitUxPageTable(a, l)
        PROVE  IxInv'
    <2> DEFINE tbl == [dataAddr |-> a, dataSize |-> l, uxpte |-> GetUxPageSize(a, l)]
    <2>0. a \in Addr /\ l \in Addr /\ a % PAGE_SIZE = 0 /\ l % PAGE_SIZE = 0
      OBVIOUS
    <2>1. tbl \in [dataAddr : Addr, dataSize : Addr, uxpte : Nat]
      BY <2>0, SizeNat
    <2>2. CASE /\ GetUxPageSize(a, l) # 0
               /\ upt' = tbl
               /\ UxpteOps(tbl, "CLEAR", a, l)
      <3>1. a + l < AddrSpace
        BY <2>0, <2>2, MappedNoWrap
      <3>2. \/ pc' = "idle" /\ UNCHANGED <<off, end>>
            \/ /\ pc' = "ops"
               /\ off' \in Nat /\ off' % PAGE_SIZE = 0 /\ a <= off'
               /\ end' \in Nat /\ end' <= a + l
        BY <2>0, <2>1, <2>2, <3>1, OpsEntry
      <3>3. QED
        BY <2>0, <2>1, <2>2, <3>1, <3>2 DEF IxInv, IxType, TableMapped, LoopInRange
    <2>3. CASE /\ upt' = [tbl EXCEPT !.uxpte = 0]
               /\ UNCHANGED <<pc, call, off, end, touched>>
      BY <1>1, <2>0, <2>3 DEF InitUxPageTable, IxInv, IxType
    <2>4. QED
      BY <1>1, <2>2, <2>3 DEF InitUxPageTable, MapUxptePages
  <1>2. CASE DeinitUxPageTable
    BY <1>2, PowerAssumption DEF DeinitUxPageTable, IxInv, IxType, TableMapped, Addr
  <1>3. ASSUME NEW op \in Ops \ {"CLEAR"}, NEW a \in CallAddrs, NEW l \in CallLens,
               Call(op, a, l)
        PROVE  IxInv'
    <2>1. TableMapped /\ IxType /\ upt.uxpte # 0 /\ a \in Addr /\ l \in Addr
      BY <1>3 DEF Call, IxInv
    <2>2. \/ pc' = "idle" /\ UNCHANGED <<off, end>>
          \/ /\ pc' = "ops"
             /\ off' \in Nat /\ off' % PAGE_SIZE = 0 /\ upt.dataAddr <= off'
             /\ end' \in Nat /\ end' <= upt.dataAddr + upt.dataSize
      <3>1. UxpteOps(upt, op, a, l)
        BY <1>3 DEF Call
      <3>2. upt \in [dataAddr : Addr, dataSize : Addr, uxpte : Nat]
            /\ upt.dataAddr + upt.dataSize < AddrSpace
        BY <2>1 DEF IxType, TableMapped
      <3>3. QED
        BY <2>1, <3>1, <3>2, OpsEntry, Zenon
    <2>3. upt' = upt
      BY <1>3 DEF Call
    <2>4. QED
      BY <2>1, <2>2, <2>3 DEF IxInv, IxType, TableMapped, LoopInRange
  <1>4. CASE UxpteOpsStep
    <2>0. pc = "ops" /\ off < end /\ upt' = upt /\ end' = end
      BY <1>4 DEF UxpteOpsStep
    <2>1. LoopInRange /\ IxType
      BY <2>0 DEF IxInv
    <2>9. TableMapped
      BY <2>1 DEF IxInv, LoopInRange
    <2>2. CASE off' = Plus(off, PAGE_SIZE) /\ UNCHANGED pc
      <3> DEFINE A == upt.dataAddr
                 S == upt.dataSize
      <3>0. A \in Nat /\ S \in Nat /\ off \in Nat /\ end \in Nat
            /\ A % PAGE_SIZE = 0 /\ S % PAGE_SIZE = 0 /\ off % PAGE_SIZE = 0
            /\ A <= off /\ end <= A + S /\ A + S < AddrSpace
        BY <2>1, <2>9 DEF IxType, LoopInRange, TableMapped, Addr
      <3>1. (A + S) % PAGE_SIZE = 0
        BY <3>0, PageSize, AddAligned
      <3>a. off < A + S /\ A + S \in Nat /\ PAGE_SIZE \in Nat \ {0}
        BY <2>0, <3>0, PageSize
      <3> HIDE DEF A, S
      <3>2. off + PAGE_SIZE <= A + S
        BY <3>0, <3>1, <3>a, AlignedNext, Zenon
      <3>3. Plus(off, PAGE_SIZE) = off + PAGE_SIZE
        <4>1. off + PAGE_SIZE < AddrSpace /\ PAGE_SIZE \in Nat
          BY <3>0, <3>2, <3>a
        <4>2. QED
          BY <3>0, <4>1, PlusNoWrap, Zenon
      <3>4. (off + PAGE_SIZE) % PAGE_SIZE = 0
        <4>1. PAGE_SIZE % PAGE_SIZE = 0
          BY <3>a
        <4>2. QED
          BY <3>0, <3>a, <4>1, AddAligned, Zenon
      <3> USE DEF A, S
      <3>b. off' = off + PAGE_SIZE /\ pc' = "ops"
        BY <2>0, <2>2, <3>3
      <3>c. off' \in Nat /\ A <= off'
        BY <3>0, <3>a, <3>b
      <3>d. off' % PAGE_SIZE = 0
        BY <3>b, <3>4
      <3>5. off' \in Nat /\ off' % PAGE_SIZE = 0 /\ A <= off' /\ pc' = "ops"
        BY <3>b, <3>c, <3>d
      <3>6. IxType'
        BY <2>0, <2>1, <3>5 DEF IxType
      <3>7. TableMapped'
        BY <2>0, <2>9 DEF TableMapped
      <3>8. LoopInRange'
        BY <2>0, <2>1, <3>5 DEF LoopInRange
      <3>9. QED
        BY <3>6, <3>7, <3>8 DEF IxInv
    <2>3. CASE pc' = "idle" /\ UNCHANGED off
      BY <2>0, <2>1, <2>3, <2>9 DEF IxInv, IxType, TableMapped
    <2>4. QED
      BY <1>4, <2>2, <2>3 DEF UxpteOpsStep
  <1>5. CASE UxpteOpsDone
    BY <1>5 DEF UxpteOpsDone, IxInv, IxType, TableMapped
  <1>6. CASE UNCHANGED vars
    BY <1>6 DEF vars, IxInv, IxType, TableMapped, LoopInRange
  <1>7. QED
    BY <1>1, <1>2, <1>3, <1>4, <1>5, <1>6 DEF Next

\* IxInv holds in every reachable state.
LEMMA IxInvariant == Spec => []IxInv
  BY IxInit, IxStep, PTL DEF Spec

\* Inside the loop, the loop variable is an address of a mapped table, so the
\* two index lemmas apply to it.
LEMMA IxImpliesNextWord == IxInv => NextWordInMapping
  <1> SUFFICES ASSUME IxInv, pc = "ops", off < end
               PROVE  /\ UxpteAt(off) = KernelIndex(VirtPageNo(off))
                      /\ UxpteAt(off) < Entries
    BY DEF NextWordInMapping
  <1> DEFINE A == upt.dataAddr
             S == upt.dataSize
  <1>1. A \in Addr /\ S \in Addr /\ off \in Nat
        /\ A <= off /\ off < A + S /\ A + S < AddrSpace
        /\ upt.uxpte = GetUxPageSize(A, S) /\ GetUxPageSize(A, S) # 0
    <2>1. LoopInRange /\ IxType
      BY DEF IxInv
    <2>2. TableMapped
      BY <2>1 DEF IxInv, LoopInRange
    <2>3. A \in Addr /\ S \in Addr /\ off \in Nat /\ end \in Nat
      BY <2>1 DEF IxType, A, S
    <2>4. A <= off /\ end <= A + S /\ A + S < AddrSpace
      BY <2>1, <2>2 DEF LoopInRange, TableMapped, A, S
    <2>5. upt.uxpte = GetUxPageSize(A, S) /\ GetUxPageSize(A, S) # 0
      BY <2>1, <2>2, Zenon DEF LoopInRange, TableMapped, A, S
    <2>6. QED
      BY <2>3, <2>4, <2>5 DEF Addr
  <1>2. off < AddrSpace
    BY <1>1 DEF Addr
  <1>3. UxpteAt(off) = VirtPageNo(off) - UxptePageNo(A) * UXPTE_PER_PAGE
    BY <1>1, <1>2, IndexIsKernels DEF UxpteAt
  <1>4. VirtPageNo(off) - UxptePageNo(A) * UXPTE_PER_PAGE
          < GetUxPageSize(A, S) \div 2 ^ UXPTE_SIZE_SHIFT
    BY <1>1, IndexInMapping, Zenon
  <1>5. QED
    BY <1>1, <1>3, <1>4 DEF KernelIndex, Entries

(***************************************************************************)
(* For every address width, page size and set of page-aligned tables and   *)
(* calls, each descriptor the loop of UxpteOps (GetUxpteAt, PutUxpteAt,    *)
(* ClearUxpteAt, IsPresentAt) accesses is the kernel's word for that page  *)
(* and lies inside the GetUxPageSize bytes MapUxptePages mapped.           *)
(***************************************************************************)
THEOREM LoopStaysInMapping == Spec => []NextWordInMapping
  BY IxInvariant, IxImpliesNextWord, PTL

-----------------------------------------------------------------------------
(***************************************************************************)
(* The range check of UxpteOps, when no call wraps the address space.     *)
(***************************************************************************)
\* RoundUp never rounds below its argument (on overflow it returns it).
LEMMA RoundUpGe ==
  ASSUME NEW x \in Nat, NEW d \in Nat \ {0}
  PROVE  x <= RoundUp(x, d)
  <1>1. CASE Plus(x, d) < x \/ Plus(x, d) < d
    BY <1>1 DEF RoundUp
  <1>2. CASE ~(Plus(x, d) < x \/ Plus(x, d) < d)
    <2>1. (x + d - 1) = ((x + d - 1) \div d) * d + ((x + d - 1) % d)
          /\ (x + d - 1) % d <= d - 1
      BY DivMod
    <2>2. x <= ((x + d - 1) \div d) * d
      BY <2>1
    <2>3. QED
      BY <1>2, <2>2 DEF RoundUp
  <1>3. QED
    BY <1>1, <1>2

\* A call of UxpteOps whose range does not wrap enters its loop only when
\* that range lies in the table.
LEMMA OpsEntryRange ==
  ASSUME NEW tbl \in [dataAddr : Addr, dataSize : Addr, uxpte : Nat],
         tbl.dataAddr + tbl.dataSize < AddrSpace,
         NEW op, NEW addr \in Addr, NEW len \in Addr, addr + len < AddrSpace,
         UxpteOps(tbl, op, addr, len)
  PROVE  /\ call' = [op |-> op, addr |-> addr, len |-> len]
         /\ pc' = "ops" => /\ tbl.dataAddr <= addr
                           /\ addr + len <= tbl.dataAddr + tbl.dataSize
  <1> DEFINE start == RoundDown(addr, PAGE_SIZE)
             stop  == RoundUp(Plus(addr, len), PAGE_SIZE)
  <1>0. addr \in Nat /\ len \in Nat /\ PAGE_SIZE \in Nat \ {0}
        /\ tbl.dataAddr \in Nat /\ tbl.dataSize \in Nat /\ addr + len \in Nat
    BY PageSize DEF Addr
  <1>1. start <= addr
    BY <1>0, RoundDownFacts, Zenon
  <1>2. Plus(addr, len) = addr + len
    BY <1>0, PlusNoWrap
  <1>3. addr + len <= stop
    BY <1>0, <1>2, RoundUpGe, Zenon
  <1>4. Plus(tbl.dataAddr, tbl.dataSize) = tbl.dataAddr + tbl.dataSize
    BY <1>0, PlusNoWrap
  <1>5. start \in Nat /\ stop \in Nat
    <2>1. start \in Nat
      BY <1>0, RoundDownFacts, Zenon
    <2>2. stop \in Nat
      BY <1>0, <1>2, RoundUpNat, Zenon
    <2>3. QED
      BY <2>1, <2>2
  <1>6. call' = [op |-> op, addr |-> addr, len |-> len]
    BY DEF UxpteOps
  <1>7. pc' = "ops" => ~(start < tbl.dataAddr \/ stop > Plus(tbl.dataAddr, tbl.dataSize))
    BY DEF UxpteOps
  <1> HIDE DEF start, stop
  <1>8. QED
    BY <1>0, <1>1, <1>3, <1>4, <1>5, <1>6, <1>7

LEMMA RInit == Init => RInv
  BY IxInit, PowerAssumption DEF Init, RInv, CallInRange, Ops, Addr

LEMMA RStep ==
  ASSUME NoWrapCalls, RInv, [Next]_vars
  PROVE  RInv'
  <1>0. IxInv'
    BY IxStep DEF RInv
  <1> USE DEF RInv
  <1>1. ASSUME NEW a \in DataAddrs, NEW l \in DataSizes, InitUxPageTable(a, l)
        PROVE  RInv'
    <2> DEFINE tbl == [dataAddr |-> a, dataSize |-> l, uxpte |-> GetUxPageSize(a, l)]
    <2>0. a \in Addr /\ l \in Addr /\ pc = "idle"
      BY <1>1 DEF InitUxPageTable
    <2>1. tbl \in [dataAddr : Addr, dataSize : Addr, uxpte : Nat]
      BY <2>0, SizeNat
    <2>2. CASE /\ GetUxPageSize(a, l) # 0
               /\ upt' = tbl
               /\ UxpteOps(tbl, "CLEAR", a, l)
      <3>1. a + l < AddrSpace
        BY <2>0, <2>2, MappedNoWrap
      <3>2. /\ call' = [op |-> "CLEAR", addr |-> a, len |-> l]
            /\ pc' = "ops" => /\ tbl.dataAddr <= a
                              /\ a + l <= tbl.dataAddr + tbl.dataSize
        BY <2>0, <2>1, <2>2, <3>1, OpsEntryRange
      <3>3. QED
        BY <1>0, <2>0, <2>2, <3>2 DEF CallInRange, Ops
    <2>3. CASE /\ upt' = [tbl EXCEPT !.uxpte = 0]
               /\ UNCHANGED <<pc, call, off, end, touched>>
      BY <1>0, <2>0, <2>3 DEF CallInRange
    <2>4. QED
      BY <1>1, <2>2, <2>3 DEF InitUxPageTable, MapUxptePages
  <1>2. CASE DeinitUxPageTable
    BY <1>0, <1>2 DEF DeinitUxPageTable, CallInRange
  <1>3. ASSUME NEW op \in Ops \ {"CLEAR"}, NEW a \in CallAddrs, NEW l \in CallLens,
               Call(op, a, l)
        PROVE  RInv'
    <2>1. TableMapped /\ IxType /\ a \in Addr /\ l \in Addr /\ a + l < AddrSpace
      BY <1>3 DEF Call, IxInv, NoWrapCalls
    <2>2. upt \in [dataAddr : Addr, dataSize : Addr, uxpte : Nat]
          /\ upt.dataAddr + upt.dataSize < AddrSpace
      BY <2>1 DEF IxType, TableMapped
    <2>3. /\ call' = [op |-> op, addr |-> a, len |-> l]
          /\ pc' = "ops" => /\ upt.dataAddr <= a
                            /\ a + l <= upt.dataAddr + upt.dataSize
      BY <1>3, <2>1, <2>2, OpsEntryRange, Zenon DEF Call
    <2>4. upt' = upt
      BY <1>3 DEF Call
    <2>5. QED
      BY <1>0, <2>1, <2>3, <2>4 DEF CallInRange
  <1>4. CASE UxpteOpsStep
    BY <1>0, <1>4 DEF UxpteOpsStep, CallInRange
  <1>5. CASE UxpteOpsDone
    BY <1>0, <1>5 DEF UxpteOpsDone, CallInRange
  <1>6. CASE UNCHANGED vars
    BY <1>0, <1>6 DEF vars, CallInRange
  <1>7. QED
    BY <1>1, <1>2, <1>3, <1>4, <1>5, <1>6 DEF Next

\* A step that returns PM_OK from the loop starts in a state of the loop.
LEMMA RangeStep == RInv /\ [Next]_vars =>
                     [ReturnsOk =>
                        /\ upt.dataAddr <= call.addr
                        /\ call.addr + call.len <= upt.dataAddr + upt.dataSize]_vars
  BY DEF RInv, CallInRange, ReturnsOk

(***************************************************************************)
(* For every address width, page size and set of page-aligned tables, when *)
(* no call's addr + len wraps the address space, a UxpteGet, UxptePut or   *)
(* UxpteClear that returns PM_OK from the loop of UxpteOps was called on a *)
(* range inside the table: the check of start and end against dataAddr    *)
(* and dataAddr + dataSize rejects every other range.  (MC_range_wrap     *)
(* shows the property fails when addr + len wraps.)                       *)
(***************************************************************************)
THEOREM RangeCheckedWithoutWrap == NoWrapCalls => (Spec => RangeChecked)
  <1> SUFFICES ASSUME NoWrapCalls PROVE Spec => RangeChecked
    OBVIOUS
  <1>1. RInv /\ [Next]_vars => RInv'
    BY RStep
  <1>2. QED
    BY RInit, <1>1, RangeStep, PTL DEF Spec, RangeChecked

-----------------------------------------------------------------------------
(***************************************************************************)
(* The loop of UxpteOps covers the range, when no call wraps.             *)
(***************************************************************************)
LEMMA CeilFacts ==
  ASSUME NEW x \in Nat
  PROVE  /\ CeilPage(x) \in Nat
         /\ CeilPage(x) % PAGE_SIZE = 0
         /\ x <= CeilPage(x)
         /\ CeilPage(x) \div PAGE_SIZE = (x + PAGE_SIZE - 1) \div PAGE_SIZE
  <1> DEFINE q == (x + PAGE_SIZE - 1) \div PAGE_SIZE
  <1> USE DEF q
  <1>0. PAGE_SIZE \in Nat \ {0} /\ x + PAGE_SIZE - 1 \in Nat
    BY PageSize
  <1>1. q \in Nat /\ x + PAGE_SIZE - 1 = q * PAGE_SIZE + ((x + PAGE_SIZE - 1) % PAGE_SIZE)
        /\ (x + PAGE_SIZE - 1) % PAGE_SIZE <= PAGE_SIZE - 1
    BY <1>0
  <1>2. (q * PAGE_SIZE) % PAGE_SIZE = 0 /\ (q * PAGE_SIZE) \div PAGE_SIZE = q
    BY <1>0, <1>1, MulMod
  <1>3. q * PAGE_SIZE \in Nat /\ x <= q * PAGE_SIZE
    BY <1>0, <1>1
  <1>4. QED
    BY <1>2, <1>3 DEF CeilPage

\* An aligned value is its own roundUp.
LEMMA CeilAligned ==
  ASSUME NEW x \in Nat, x % PAGE_SIZE = 0
  PROVE  CeilPage(x) = x
  <1>0. PAGE_SIZE \in Nat \ {0}
    BY PageSize
  <1>1. x = (x \div PAGE_SIZE) * PAGE_SIZE /\ x \div PAGE_SIZE \in Nat
    BY <1>0
  <1>2. (x + PAGE_SIZE - 1) \div PAGE_SIZE = x \div PAGE_SIZE
    BY <1>0, <1>1
  <1>3. QED
    BY <1>1, <1>2 DEF CeilPage

\* RoundUp is roundUp unless x + PAGE_SIZE wraps, where it returns x.
LEMMA RoundUpCases ==
  ASSUME NEW x \in Nat, x < AddrSpace
  PROVE  \/ RoundUp(x, PAGE_SIZE) = CeilPage(x)
         \/ x + PAGE_SIZE >= AddrSpace /\ RoundUp(x, PAGE_SIZE) = x
  <1>0. PAGE_SIZE \in Nat \ {0}
    BY PageSize
  <1>1. CASE x + PAGE_SIZE < AddrSpace
    <2>1. Plus(x, PAGE_SIZE) = x + PAGE_SIZE
      BY <1>0, <1>1, PlusNoWrap
    <2>2. QED
      BY <1>0, <2>1 DEF RoundUp, CeilPage
  <1>2. CASE x + PAGE_SIZE >= AddrSpace
    BY <1>0, <1>2 DEF RoundUp, CeilPage
  <1>3. QED
    BY <1>1, <1>2

\* The end of the loop is roundUp(addr + len) when the range fits in an
\* aligned table that does not wrap.
LEMMA StopIsCeil ==
  ASSUME NEW x \in Nat, NEW B \in Nat, B % PAGE_SIZE = 0, B < AddrSpace,
         x <= B, RoundUp(x, PAGE_SIZE) <= B
  PROVE  RoundUp(x, PAGE_SIZE) = CeilPage(x)
  <1>0. PAGE_SIZE \in Nat \ {0} /\ AddrSpace \in Nat /\ AddrSpace % PAGE_SIZE = 0
    BY PageSize
  <1>1. CASE x + PAGE_SIZE >= AddrSpace /\ RoundUp(x, PAGE_SIZE) = x
    <2>1. B + PAGE_SIZE <= AddrSpace
      BY <1>0, AlignedNext
    <2>2. x = B
      BY <1>1, <2>1
    <2>3. QED
      BY <1>1, <2>2, CeilAligned
  <1>2. QED
    BY <1>1, RoundUpCases

\* A call whose range does not wrap enters the loop at the page of addr,
\* with nothing touched and roundUp(addr + len) as its bound.
LEMMA OpsEntryCovers ==
  ASSUME NEW tbl \in [dataAddr : Addr, dataSize : Addr, uxpte : Nat],
         tbl.dataAddr % PAGE_SIZE = 0, tbl.dataSize % PAGE_SIZE = 0,
         tbl.dataAddr + tbl.dataSize < AddrSpace,
         NEW op, NEW addr \in Addr, NEW len \in Addr, addr + len < AddrSpace,
         UxpteOps(tbl, op, addr, len)
  PROVE  pc' = "ops" =>
           /\ end' = CeilPage(addr + len)
           /\ off' \div PAGE_SIZE = addr \div PAGE_SIZE
           /\ off' <= end'
           /\ touched' = {}
  <1> DEFINE start == RoundDown(addr, PAGE_SIZE)
             stop  == RoundUp(Plus(addr, len), PAGE_SIZE)
             B     == tbl.dataAddr + tbl.dataSize
  <1> USE DEF start, stop, B
  <1>0. addr \in Nat /\ len \in Nat /\ PAGE_SIZE \in Nat \ {0}
        /\ tbl.dataAddr \in Nat /\ tbl.dataSize \in Nat /\ addr + len \in Nat
        /\ B \in Nat /\ B < AddrSpace
    BY PageSize DEF Addr
  <1>1. start = (addr \div PAGE_SIZE) * PAGE_SIZE /\ addr \div PAGE_SIZE \in Nat
    BY <1>0 DEF RoundDown
  <1>2. start \div PAGE_SIZE = addr \div PAGE_SIZE /\ start <= addr /\ start \in Nat
    <2> DEFINE q == addr \div PAGE_SIZE
    <2>1. q \in Nat /\ start = q * PAGE_SIZE
      BY <1>1
    <2>2. start <= addr /\ start \in Nat
      BY <1>0, RoundDownFacts, Zenon
    <2> HIDE DEF q, start
    <2>3. (q * PAGE_SIZE) \div PAGE_SIZE = q
      BY <1>0, <2>1, MulMod
    <2>4. QED
      BY <2>1, <2>2, <2>3 DEF q
  <1>3. Plus(addr, len) = addr + len /\ Plus(tbl.dataAddr, tbl.dataSize) = B
    BY <1>0, PlusNoWrap
  <1>4. B % PAGE_SIZE = 0
    BY <1>0, AddAligned
  <1>5. addr + len <= stop
    BY <1>0, <1>3, RoundUpGe, Zenon
  <1>6. SUFFICES ASSUME pc' = "ops"
                 PROVE  /\ end' = CeilPage(addr + len)
                        /\ off' \div PAGE_SIZE = addr \div PAGE_SIZE
                        /\ off' <= end'
                        /\ touched' = {}
    OBVIOUS
  <1>7. off' = start /\ end' = stop /\ touched' = {} /\ stop <= B /\ stop \in Nat
    <2>1. stop \in Nat
      BY <1>0, <1>3, RoundUpNat, Zenon
    <2>2. off' = start /\ end' = stop /\ touched' = {}
          /\ ~(stop > Plus(tbl.dataAddr, tbl.dataSize))
      BY <1>6 DEF UxpteOps
    <2> HIDE DEF start, stop, B
    <2>3. QED
      BY <1>0, <1>3, <2>1, <2>2
  <1>8. stop = CeilPage(addr + len)
    <2>1. RoundUp(addr + len, PAGE_SIZE) <= B /\ addr + len <= B
      BY <1>0, <1>3, <1>5, <1>7, <1>7
    <2>2. QED
      BY <1>0, <1>3, <1>4, <2>1, StopIsCeil
  <1>9. addr + len <= CeilPage(addr + len)
    BY <1>0, CeilFacts
  <1>10. QED
    BY <1>0, <1>2, <1>7, <1>8, <1>9

\* Touching the descriptor of page n extends the touched pages by one.
LEMMA TouchedExtend ==
  ASSUME NEW lo \in Int, NEW n \in Int, lo <= n
  PROVE  {KernelIndex(v) : v \in lo .. n - 1} \cup {KernelIndex(n)}
           = {KernelIndex(v) : v \in lo .. n}
  <1>1. lo .. n = (lo .. n - 1) \cup {n}
    OBVIOUS
  <1>2. QED
    BY <1>1

\* Nothing is touched on entry to the loop.
LEMMA TouchedEmpty ==
  ASSUME NEW lo \in Int
  PROVE  {KernelIndex(v) : v \in lo .. lo - 1} = {}
  <1>1. lo .. lo - 1 = {}
    OBVIOUS
  <1>2. QED
    BY <1>1

\* Entering the loop through UxpteOps on a mapped table whose range does not
\* wrap establishes LoopTouched.
LEMMA EntryTouched ==
  ASSUME NEW tbl \in [dataAddr : Addr, dataSize : Addr, uxpte : Nat],
         tbl.dataAddr % PAGE_SIZE = 0, tbl.dataSize % PAGE_SIZE = 0,
         tbl.dataAddr + tbl.dataSize < AddrSpace,
         NEW op, NEW addr \in Addr, NEW len \in Addr, addr + len < AddrSpace,
         UxpteOps(tbl, op, addr, len)
  PROVE  LoopTouched'
  <1>1. call' = [op |-> op, addr |-> addr, len |-> len]
    BY OpsEntryRange
  <1>2. SUFFICES ASSUME pc' = "ops" PROVE LoopTouched'
    BY DEF LoopTouched
  <1>3. /\ end' = CeilPage(addr + len)
        /\ off' \div PAGE_SIZE = addr \div PAGE_SIZE
        /\ off' <= end'
        /\ touched' = {}
    BY <1>2, OpsEntryCovers
  <1>4. addr \div PAGE_SIZE \in Int
    BY PageSize DEF Addr
  <1>5. {KernelIndex(v) : v \in addr \div PAGE_SIZE .. addr \div PAGE_SIZE - 1}' = {}
    BY <1>4, TouchedEmpty
  <1>6. call'.addr \div PAGE_SIZE .. off' \div PAGE_SIZE - 1
          = addr \div PAGE_SIZE .. addr \div PAGE_SIZE - 1
    BY <1>1, <1>3
  <1>7. touched' = {KernelIndex(v) : v \in call.addr \div PAGE_SIZE .. off \div PAGE_SIZE - 1}'
    BY <1>3, <1>5, <1>6, Zenon
  <1>8. call'.addr \div PAGE_SIZE <= off' \div PAGE_SIZE
    BY <1>1, <1>3, <1>4
  <1>9. QED
    BY <1>1, <1>2, <1>3, <1>7, <1>8 DEF LoopTouched

LEMMA CInit == Init => CInv
  BY RInit DEF Init, CInv, LoopTouched

LEMMA CStep ==
  ASSUME NoWrapCalls, CInv, [Next]_vars
  PROVE  CInv'
  <1>0. RInv'
    BY RStep DEF CInv
  <1> SUFFICES LoopTouched'
    BY <1>0 DEF CInv
  <1>1. ASSUME NEW a \in DataAddrs, NEW l \in DataSizes, InitUxPageTable(a, l)
        PROVE  LoopTouched'
    <2> DEFINE tbl == [dataAddr |-> a, dataSize |-> l, uxpte |-> GetUxPageSize(a, l)]
    <2>0. a \in Addr /\ l \in Addr /\ a % PAGE_SIZE = 0 /\ l % PAGE_SIZE = 0
      OBVIOUS
    <2>1. tbl \in [dataAddr : Addr, dataSize : Addr, uxpte : Nat]
      BY <2>0, SizeNat
    <2>2. CASE /\ GetUxPageSize(a, l) # 0
               /\ upt' = tbl
               /\ UxpteOps(tbl, "CLEAR", a, l)
      <3>1. a + l < AddrSpace
        BY <2>0, <2>2, MappedNoWrap
      <3>2. QED
        BY <2>0, <2>1, <2>2, <3>1, EntryTouched
    <2>3. CASE UNCHANGED pc
      BY <1>1, <2>3 DEF InitUxPageTable, LoopTouched
    <2>4. QED
      BY <1>1, <2>2, <2>3 DEF InitUxPageTable, MapUxptePages
  <1>2. CASE DeinitUxPageTable
    BY <1>2 DEF DeinitUxPageTable, LoopTouched
  <1>3. ASSUME NEW op \in Ops \ {"CLEAR"}, NEW a \in CallAddrs, NEW l \in CallLens,
               Call(op, a, l)
        PROVE  LoopTouched'
    <2>1. TableMapped /\ IxType /\ a \in Addr /\ l \in Addr /\ a + l < AddrSpace
      BY <1>3 DEF Call, CInv, RInv, IxInv, NoWrapCalls
    <2>2. upt \in [dataAddr : Addr, dataSize : Addr, uxpte : Nat]
          /\ upt.dataAddr % PAGE_SIZE = 0 /\ upt.dataSize % PAGE_SIZE = 0
          /\ upt.dataAddr + upt.dataSize < AddrSpace
      BY <2>1 DEF IxType, TableMapped
    <2>3. UxpteOps(upt, op, a, l) /\ upt' = upt
      BY <1>3 DEF Call
    <2>5. QED
      BY <2>1, <2>2, <2>3, EntryTouched, Zenon
  <1>4. CASE UxpteOpsStep
    <2>0. pc = "ops" /\ off < end /\ UNCHANGED <<upt, call, end>>
          /\ touched' = touched \cup {UxpteAt(off)}
      BY <1>4 DEF UxpteOpsStep
    <2>1. CASE off' = Plus(off, PAGE_SIZE) /\ UNCHANGED pc
      <3> DEFINE n == off \div PAGE_SIZE
                 lo == call.addr \div PAGE_SIZE
      <3>1. IxInv /\ LoopTouched /\ call \in [op : Ops, addr : Addr, len : Addr]
        BY DEF CInv, RInv
      <3>2. LoopInRange /\ TableMapped /\ IxType
        BY <2>0, <3>1 DEF IxInv, LoopInRange
      <3>3. UxpteAt(off) = KernelIndex(VirtPageNo(off))
        BY <2>0, <3>1, IxImpliesNextWord DEF NextWordInMapping
      <3>4. off \in Nat /\ end \in Nat /\ off % PAGE_SIZE = 0
            /\ end = CeilPage(call.addr + call.len) /\ lo <= n
            /\ touched = {KernelIndex(v) : v \in lo .. n - 1}
            /\ end <= upt.dataAddr + upt.dataSize /\ upt.dataAddr + upt.dataSize < AddrSpace
        BY <2>0, <3>1, <3>2 DEF LoopTouched, LoopInRange, TableMapped, IxType
      <3>5. PAGE_SIZE \in Nat \ {0} /\ lo \in Int /\ n \in Int
        BY <3>1, <3>4, PageSize DEF Addr
      <3>6. end % PAGE_SIZE = 0
        BY <3>1, <3>4, CeilFacts DEF Addr
      <3>7. off + PAGE_SIZE <= end
        BY <2>0, <3>4, <3>5, <3>6, AlignedNext
      <3>8. off' = off + PAGE_SIZE
        <4>0. upt.dataAddr \in Nat /\ upt.dataSize \in Nat
          BY <3>2 DEF IxType, Addr
        <4>1. off + PAGE_SIZE < AddrSpace /\ PAGE_SIZE \in Nat
          BY <3>4, <3>5, <3>7, <4>0
        <4>2. Plus(off, PAGE_SIZE) = off + PAGE_SIZE
          BY <3>4, <4>1, PlusNoWrap, Zenon
        <4>3. QED
          BY <2>1, <4>2
      <3>9. off' \div PAGE_SIZE = n + 1
        BY <3>4, <3>5, <3>8
      <3>10. touched' = {KernelIndex(v) : v \in lo .. n}
        <4>1. touched' = {KernelIndex(v) : v \in lo .. n - 1} \cup {KernelIndex(n)}
          BY <2>0, <3>3, <3>4 DEF VirtPageNo
        <4>2. QED
          BY <3>4, <3>5, <4>1, TouchedExtend
      <3>11. QED
        <4>1. lo .. n = lo .. off' \div PAGE_SIZE - 1
          BY <3>5, <3>9
        <4>2. touched' = {KernelIndex(v) : v \in call.addr \div PAGE_SIZE .. off \div PAGE_SIZE - 1}'
          BY <2>0, <3>10, <4>1, Zenon DEF KernelIndex
        <4>3. QED
          BY <2>0, <2>1, <3>4, <3>5, <3>7, <3>8, <3>9, <4>2 DEF LoopTouched
    <2>2. CASE pc' = "idle" /\ UNCHANGED off
      BY <2>2 DEF LoopTouched
    <2>3. QED
      BY <1>4, <2>1, <2>2 DEF UxpteOpsStep
  <1>5. CASE UxpteOpsDone
    BY <1>5 DEF UxpteOpsDone, LoopTouched
  <1>6. CASE UNCHANGED vars
    <2>1. pc' = pc /\ call' = call /\ off' = off /\ end' = end /\ upt' = upt
          /\ touched' = touched
      BY <1>6 DEF vars
    <2>2. LoopTouched
      BY DEF CInv
    <2>3. QED
      BY <2>1, <2>2, Zenon DEF LoopTouched, KernelIndex
  <1>7. QED
    BY <1>1, <1>2, <1>3, <1>4, <1>5, <1>6 DEF Next

\* Only UxpteOpsDone returns PM_OK from the loop, and it does so with the
\* loop variable at its bound.
LEMMA CoversStep == CInv /\ [Next]_vars =>
                      [ReturnsOk =>
                         touched = {KernelIndex(v) : v \in PagesOf(call.addr, call.len)}]_vars
  <1> SUFFICES ASSUME CInv, [Next]_vars, ReturnsOk
               PROVE  touched = {KernelIndex(v) : v \in PagesOf(call.addr, call.len)}
    OBVIOUS
  <1>1. pc = "ops" /\ ~(off < end)
    <2>1. pc = "ops" /\ pc' = "idle" /\ ret' = "OK"
      BY DEF ReturnsOk
    <2>2. ~UxpteOpsStep
      BY <2>1 DEF UxpteOpsStep
    <2>3. ~UNCHANGED vars
      BY <2>1 DEF vars
    <2>4. \A a \in DataAddrs, l \in DataSizes : ~InitUxPageTable(a, l)
      BY <2>1 DEF InitUxPageTable
    <2>5. \A op \in Ops \ {"CLEAR"}, a \in CallAddrs, l \in CallLens : ~Call(op, a, l)
      BY <2>1 DEF Call
    <2>6. ~DeinitUxPageTable
      BY <2>1 DEF DeinitUxPageTable
    <2>7. UxpteOpsDone
      BY <2>2, <2>3, <2>4, <2>5, <2>6 DEF Next
    <2>8. QED
      BY <2>7 DEF UxpteOpsDone
  <1> DEFINE x == call.addr + call.len
  <1>2. /\ end = CeilPage(x) /\ off <= end
        /\ touched = {KernelIndex(v) : v \in call.addr \div PAGE_SIZE .. off \div PAGE_SIZE - 1}
        /\ call.addr \in Addr /\ call.len \in Addr
    BY <1>1 DEF CInv, RInv, LoopTouched
  <1>3. x \in Nat /\ off \in Nat /\ end \in Nat
    BY <1>2 DEF CInv, RInv, IxInv, IxType, Addr
  <1>4. off = end
    BY <1>1, <1>2, <1>3
  <1>5. off \div PAGE_SIZE = (x + PAGE_SIZE - 1) \div PAGE_SIZE
    BY <1>2, <1>3, <1>4, CeilFacts
  <1>6. PagesOf(call.addr, call.len)
          = call.addr \div PAGE_SIZE .. off \div PAGE_SIZE - 1
    BY <1>5 DEF PagesOf
  <1>7. QED
    BY <1>2, <1>6, Zenon

(***************************************************************************)
(* For every address width, page size and set of page-aligned tables, when *)
(* no call's addr + len wraps the address space, a UxpteGet, UxptePut or   *)
(* UxpteClear that returns PM_OK has accessed exactly the descriptors of  *)
(* the pages between roundDown(addr) and roundUp(addr + len): the loop of  *)
(* UxpteOps starts at the page of addr, steps one page at a time and stops *)
(* at roundUp(addr + len), which RoundUp computes exactly once the range   *)
(* check has passed.                                                       *)
(***************************************************************************)
THEOREM CoversRangeWithoutWrap == NoWrapCalls => (Spec => CoversRange)
  <1> SUFFICES ASSUME NoWrapCalls PROVE Spec => CoversRange
    OBVIOUS
  <1>1. CInv /\ [Next]_vars => CInv'
    BY CStep
  <1>2. QED
    BY CInit, <1>1, CoversStep, PTL DEF Spec, CoversRange

=============================================================================
