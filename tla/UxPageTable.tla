---------------------------- MODULE UxPageTable ----------------------------
(***************************************************************************)
(* The user-extended page table (UXPT) of libpurgeablemem                  *)
(* (src/libpurgeablemem/common/src/ux_page_table_c.c).                     *)
(*                                                                         *)
(* One descriptor word per data page of a region.  The low bit is the      *)
(* present flag, written by the kernel; the other bits are a pin count in  *)
(* units of UXPTE_REFCNT_ONE = 2.  The value (uxpte_t)(-2) means "under    *)
(* reclaim".  A word is W bits wide (uxpte_t is uint64_t, so W = 64 in     *)
(* the build); every update is modulo 2^W, as the C arithmetic is.         *)
(*                                                                         *)
(* The table is a function ptes \in [Pages -> Word].  A data range of a    *)
(* region always covers exactly the pages the table maps (the region maps  *)
(* RoundUp(len, PAGE_SIZE) bytes and the UXPT over that size), so the      *)
(* UXPT_OUT_RANGE branch of UxpteOps is never taken and is not modelled.   *)
(* Each operator on a range is one CAS loop per page; pages are            *)
(* independent words, so the loop is modelled as one step.                 *)
(***************************************************************************)
EXTENDS Naturals

CONSTANTS
  W,            \* width of uxpte_t in bits
  Pages,        \* the data pages of a region
  UxptEnabled   \* g_supportUxpt, the result of the CheckUxpt probe

ASSUME WAssumption == W \in Nat /\ W >= 2
ASSUME PagesAssumption == Pages # {}
ASSUME UxptEnabledAssumption == UxptEnabled \in BOOLEAN

\* 2^W, the number of values of a uxpte_t.
Modulus == 2^W

\* What W >= 2 implies of 2^W, stated for the provers, which do not
\* reason about exponentiation (TLC evaluates it).
ASSUME ModulusAssumption == Modulus \in Nat /\ Modulus >= 4 /\ Modulus % 2 = 0

Word == 0 .. (Modulus - 1)

UXPTE_REFCNT_ONE == 2

\* (uxpte_t)(-UXPTE_REFCNT_ONE): all ones except the present bit.
UXPTE_UNDER_RECLAIM == Modulus - UXPTE_REFCNT_ONE

IsUxptePresent(pte) == pte % 2 = 1

IsUxpteUnderReclaim(pte) == pte = UXPTE_UNDER_RECLAIM

(***************************************************************************)
(* UxpteAdd: the CAS loop first tests the addition for overflow and gives  *)
(* up without storing; only then does it test the under-reclaim sentinel   *)
(* and yield.  UxpteAddSpins is the condition under which the loop keeps   *)
(* yielding; UxpteAdd is the value the loop finally stores (or leaves).    *)
(***************************************************************************)
UxpteAddOverflows(old, incNum) == old + incNum >= Modulus

UxpteAddSpins(old, incNum) ==
  ~UxpteAddOverflows(old, incNum) /\ IsUxpteUnderReclaim(old)

UxpteAdd(old, incNum) ==
  IF UxpteAddOverflows(old, incNum) THEN old ELSE old + incNum

\* Mutant of UxpteSub: a subtraction that does not wrap.
MutantUxpteSubNoWrap(old, decNum) == old - decNum

\* UxpteSub: an unconditional CAS of old - decNum, wrapping below zero.
UxpteSub(old, decNum) == (old - decNum) % Modulus

(***************************************************************************)
(* The range operations.  When the probe found no UXPT support every one   *)
(* of them returns at once and UxpteIsPresent answers TRUE.                *)
(***************************************************************************)
UxpteGetWaits(ptes) ==
  UxptEnabled /\ \E p \in Pages : UxpteAddSpins(ptes[p], UXPTE_REFCNT_ONE)

UxpteGet(ptes) ==
  IF UxptEnabled
  THEN [p \in Pages |-> UxpteAdd(ptes[p], UXPTE_REFCNT_ONE)]
  ELSE ptes

UxptePut(ptes) ==
  IF UxptEnabled
  THEN [p \in Pages |-> UxpteSub(ptes[p], UXPTE_REFCNT_ONE)]
  ELSE ptes

UxpteIsPresent(ptes) ==
  ~UxptEnabled \/ \A p \in Pages : IsUxptePresent(ptes[p])

\* InitUxPageTable: a fresh UXPT mapping whose words UxpteClear sets to 0.
InitUxPageTable == [p \in Pages |-> 0]

=============================================================================
