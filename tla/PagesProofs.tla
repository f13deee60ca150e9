---------------------------- MODULE PagesProofs ----------------------------
(***************************************************************************)
(* Pages keeps what it sets aside, for every address space, page size and  *)
(* multiboot map.  The inductive invariant is the conjunction of the type  *)
(* invariant, the two reservations and Exclusive, and the ledger being     *)
(* empty before boot; Exclusive carries the induction: a page that may be  *)
(* handed back is held, hence USED, hence none of those set aside.         *)
(***************************************************************************)
EXTENDS Pages, TLAPS

(***************************************************************************)
(* Facts about division by a page size that is not a number, and about the *)
(* pages page_set_range writes.                                            *)
(***************************************************************************)
\* The quotient is the last multiple not above a.
LEMMA DivFacts ==
  ASSUME NEW a \in Nat, NEW d \in Nat \ {0}
  PROVE  /\ a \div d \in Nat
         /\ (a \div d) * d <= a
         /\ a < (a \div d + 1) * d
  OBVIOUS

LEMMA MulLess ==
  ASSUME NEW a \in Int, NEW b \in Int, NEW d \in Nat \ {0}, a * d < b * d
  PROVE  a < b
  OBVIOUS

LEMMA MulLeq ==
  ASSUME NEW a \in Int, NEW b \in Int, NEW d \in Nat \ {0}, a <= b
  PROVE  a * d <= b * d
  OBVIOUS

LEMMA ModSmall ==
  ASSUME NEW a \in Nat, NEW d \in Nat \ {0}, a < d
  PROVE  a % d = a
  OBVIOUS

LEMMA ModRange ==
  ASSUME NEW a \in Nat, NEW d \in Nat \ {0}
  PROVE  a % d \in Nat /\ a % d < d
  OBVIOUS

\* The quotient of a multiple.
LEMMA DivExact ==
  ASSUME NEW i \in Nat, NEW d \in Nat \ {0}
  PROVE  (i * d) \div d = i
<1>1. /\ (i * d) \div d \in Nat
      /\ ((i * d) \div d) * d <= i * d
      /\ i * d < ((i * d) \div d + 1) * d
  BY DivFacts
<1>2. i < (i * d) \div d + 1
  BY <1>1, MulLess
<1>3. (i * d) \div d < i + 1
  <2>1. ((i * d) \div d) * d < (i + 1) * d
    BY <1>1
  <2> QED BY <1>1, <2>1, MulLess
<1> QED BY <1>1, <1>2, <1>3

LEMMA AddrSpaceType == AddrSpace \in Nat \ {0}
  BY PageConstants DEF AddrSpace

(***************************************************************************)
(* Every page that a range that ends below the top reaches the end of is   *)
(* written by page_set_range.                                              *)
(***************************************************************************)
LEMMA EndedInRegion ==
  ASSUME NEW addr \in Nat, NEW len \in Nat, addr + len < AddrSpace,
         NEW i \in Page, addr < (i + 1) * PAGE_SIZE, (i + 1) * PAGE_SIZE <= addr + len
  PROVE  i \in Region(addr, len)
<1> USE PageConstants
<1>1. (addr + len) % AddrSpace = addr + len
  BY ModSmall, AddrSpaceType
<1>2. addr \div PAGE_SIZE <= i
  <2>1. /\ addr \div PAGE_SIZE \in Nat
        /\ (addr \div PAGE_SIZE) * PAGE_SIZE <= addr
    BY DivFacts
  <2>2. (addr \div PAGE_SIZE) * PAGE_SIZE < (i + 1) * PAGE_SIZE
    BY <2>1 DEF Page
  <2>3. addr \div PAGE_SIZE < i + 1
    BY <2>1, <2>2, MulLess DEF Page
  <2> QED BY <2>1, <2>3 DEF Page
<1>3. i <= (addr + len) \div PAGE_SIZE - 1
  <2>1. /\ (addr + len) \div PAGE_SIZE \in Nat
        /\ addr + len < ((addr + len) \div PAGE_SIZE + 1) * PAGE_SIZE
    BY DivFacts
  <2>2. (i + 1) * PAGE_SIZE < ((addr + len) \div PAGE_SIZE + 1) * PAGE_SIZE
    BY <2>1 DEF Page
  <2>3. i + 1 < (addr + len) \div PAGE_SIZE + 1
    BY <2>1, <2>2, MulLess DEF Page
  <2> QED BY <2>1, <2>3 DEF Page
<1>4. addr \div PAGE_SIZE \in Nat
  BY DivFacts
<1>5. (addr + len) \div PAGE_SIZE \in Nat
  <2>1. addr + len \in Nat
    OBVIOUS
  <2> QED BY <2>1, DivFacts
<1> QED BY <1>1, <1>2, <1>3, <1>4, <1>5 DEF Region, Page

(***************************************************************************)
(* From a page boundary on, page_set_range writes only pages that lie      *)
(* wholly in the range, also when the range ends at the top (it writes     *)
(* none then).                                                             *)
(***************************************************************************)
LEMMA RegionIsWhole ==
  ASSUME NEW i \in Page, NEW len \in Nat, i * PAGE_SIZE + len <= AddrSpace,
         NEW k \in Page, k \in Region(i * PAGE_SIZE, len)
  PROVE  /\ i * PAGE_SIZE <= k * PAGE_SIZE
         /\ (k + 1) * PAGE_SIZE <= i * PAGE_SIZE + len
<1> USE PageConstants
<1> DEFINE top == i * PAGE_SIZE + len
           end == top % AddrSpace
<1>1. i * PAGE_SIZE \in Nat /\ top \in Nat
  BY DEF Page
<1>2. end \in Nat /\ end <= top
  <2>1. CASE top < AddrSpace
    BY <1>1, <2>1, ModSmall, AddrSpaceType
  <2>2. CASE top = AddrSpace
    <3>1. AddrSpace % AddrSpace = 0
      BY AddrSpaceType
    <3> QED BY <1>1, <2>2, <3>1
  <2> QED BY <2>1, <2>2, <1>1, AddrSpaceType
<1>3. (i * PAGE_SIZE) \div PAGE_SIZE = i
  BY DivExact DEF Page
<1>4. /\ end \div PAGE_SIZE \in Nat
      /\ (end \div PAGE_SIZE) * PAGE_SIZE <= end
  <2> HIDE DEF end
  <2> QED BY <1>2, DivFacts
<1>5. i <= k /\ k + 1 <= end \div PAGE_SIZE
  BY <1>3, <1>4 DEF Region, Page
<1>6. i * PAGE_SIZE <= k * PAGE_SIZE
  BY <1>5, MulLeq DEF Page
<1>7. (k + 1) * PAGE_SIZE <= (end \div PAGE_SIZE) * PAGE_SIZE
  <2> HIDE DEF end
  <2> QED BY <1>4, <1>5, MulLeq DEF Page
<1>8. (k + 1) * PAGE_SIZE <= end
  <2> HIDE DEF end
  <2>1. (k + 1) * PAGE_SIZE \in Nat /\ (end \div PAGE_SIZE) * PAGE_SIZE \in Nat
    BY <1>4 DEF Page
  <2> QED BY <1>2, <1>4, <1>7, <2>1
<1>9. (k + 1) * PAGE_SIZE \in Nat
  BY DEF Page
<1> QED BY <1>1, <1>2, <1>6, <1>8, <1>9

\* The kernel's pages are those of the second page_set_range of the boot.
LEMMA KernelRegion ==
  Region(0, HEAP_START) = 0 .. HEAP_START \div PAGE_SIZE - 1
<1> USE PageConstants
<1>1. HEAP_START % AddrSpace = HEAP_START
  BY ModSmall, AddrSpaceType DEF AddrSpace
<1>2. 0 \div PAGE_SIZE = 0
  BY DivExact
<1> QED BY <1>1, <1>2 DEF Region

LEMMA SetPagesType ==
  ASSUME NEW pg \in [Page -> PageStates], NEW R, NEW s \in PageStates
  PROVE  SetPages(pg, R, s) \in [Page -> PageStates]
  BY DEF SetPages

LEMMA InitialTableType ==
  ASSUME NEW pg \in [Page -> PageStates], NEW m
  PROVE  InitialTable(pg, m) \in [Page -> PageStates]
<1>1. {PAGE_FREE, PAGE_SYS, PAGE_NONE} \subseteq PageStates
  BY DEF PageStates
<1> QED BY <1>1, SetPagesType DEF InitialTable, page_set_range

-----------------------------------------------------------------------------
(***************************************************************************)
(* The inductive invariant.                                                *)
(***************************************************************************)
NothingHeldBeforeBoot == stage = "boot" => held = [i \in Page |-> 0]

IInv ==
  /\ TypeOK
  /\ NothingHeldBeforeBoot
  /\ KernelReserved
  /\ RegisteredReserved
  /\ Exclusive

LEMMA KernelPagesInTable == KernelPages \subseteq Page
<1> USE PageConstants
<1>1. /\ HEAP_START \div PAGE_SIZE \in Nat
      /\ (HEAP_START \div PAGE_SIZE) * PAGE_SIZE <= HEAP_START
  BY DivFacts
<1>2. (HEAP_START \div PAGE_SIZE) * PAGE_SIZE < PAGE_COUNT * PAGE_SIZE
  BY <1>1
<1>3. HEAP_START \div PAGE_SIZE < PAGE_COUNT
  BY <1>1, <1>2, MulLess
<1> QED BY <1>1, <1>3 DEF KernelPages, Page

LEMMA InitIInv == Init => IInv
<1> SUFFICES ASSUME Init PROVE IInv
  OBVIOUS
<1>1. TypeOK
  BY DEF Init, TypeOK, PageStates, Stages
<1>2. Exclusive
  BY DEF Init, Exclusive
<1> QED BY <1>1, <1>2 DEF Init, IInv, NothingHeldBeforeBoot, KernelReserved,
                         RegisteredReserved

\* Boot: the table is what InitialTable says, and nothing is held yet.
LEMMA BootIInv ==
  ASSUME IInv, paging_initialize
  PROVE  IInv'
<1> USE PageConstants
<1>1. TypeOK'
  BY InitialTableType DEF IInv, TypeOK, Stages, paging_initialize
<1>2. KernelReserved'
  <2> SUFFICES ASSUME NEW i \in KernelPages
               PROVE  page'[i] \in {PAGE_SYS, PAGE_NONE}
    BY DEF KernelReserved
  <2>1. i \in Page /\ i \in Region(0, HEAP_START)
    BY KernelPagesInTable, KernelRegion DEF KernelPages
  <2> QED BY <2>1 DEF paging_initialize, InitialTable, page_set_range, SetPages
<1>3. RegisteredReserved'
  <2> SUFFICES ASSUME NEW e \in mmap, e.type # AVAILABLE, EndsBelowTop(e),
                      NEW i \in EndedPages(e.addr, e.len)
               PROVE  page'[i] = PAGE_NONE
    BY DEF RegisteredReserved, paging_initialize, EndsBelowTop, EndedPages
  <2>1. e.addr \in Nat /\ e.len \in Nat
    BY DEF IInv, TypeOK, MmapEntry
  <2>2. i \in Page /\ i \in Region(e.addr, e.len)
    BY <2>1, EndedInRegion DEF EndsBelowTop, EndedPages
  <2>3. e.addr % AddrSpace = e.addr /\ e.len % AddrSpace = e.len
    BY <2>1, ModSmall, AddrSpaceType DEF EndsBelowTop
  <2>4. i \in RegisteredPages(mmap)
    BY <2>2, <2>3 DEF RegisteredPages
  <2> QED BY <2>2, <2>4 DEF paging_initialize, InitialTable, SetPages
<1>4. Exclusive'
  BY DEF IInv, NothingHeldBeforeBoot, Exclusive, paging_initialize
<1> QED BY <1>1, <1>2, <1>3, <1>4 DEF IInv, NothingHeldBeforeBoot, paging_initialize

\* A claim turns FREE pages, which nobody holds, into USED ones.
LEMMA ClaimIInv ==
  ASSUME IInv, NEW count \in ClaimSizes, page_claim(count)
  PROVE  IInv'
<1> USE PageConstants
<1>0. PICK i \in Page :
        /\ IsFirstRun(page, count, i)
        /\ page' = SetPages(page, i .. i + count - 1, PAGE_USED)
        /\ held' = [k \in Page |-> IF k \in i .. i + count - 1
                                   THEN held[k] + 1 ELSE held[k]]
  BY DEF page_claim
<1>1. \A k \in i .. i + count - 1 : page[k] = PAGE_FREE
  BY <1>0 DEF IsFirstRun, RunsOf
<1>2. \A k \in Page : page'[k] = IF k \in i .. i + count - 1 THEN PAGE_USED ELSE page[k]
  BY <1>0 DEF SetPages
<1>3. TypeOK'
  <2>1. page' \in [Page -> PageStates]
    BY <1>0, SetPagesType DEF IInv, TypeOK, PageStates
  <2> QED BY <1>0, <2>1 DEF IInv, TypeOK, page_claim
<1>4. KernelReserved'
  BY <1>1, <1>2, KernelPagesInTable
  DEF IInv, KernelReserved, page_claim, PAGE_FREE, PAGE_SYS, PAGE_NONE
<1>5. RegisteredReserved'
  BY <1>1, <1>2 DEF IInv, RegisteredReserved, page_claim, EndsBelowTop, EndedPages,
                    PAGE_FREE, PAGE_NONE
<1>6. Exclusive'
  <2> SUFFICES ASSUME NEW k \in Page, held'[k] > 0
               PROVE  held'[k] = 1 /\ page'[k] = PAGE_USED
    BY DEF Exclusive
  <2>1. CASE k \in i .. i + count - 1
    <3>1. held[k] = 0
      BY <1>1, <2>1 DEF IInv, TypeOK, Exclusive, PAGE_FREE, PAGE_USED
    <3> QED BY <1>0, <1>2, <2>1, <3>1
  <2>2. CASE k \notin i .. i + count - 1
    BY <1>0, <1>2, <2>2 DEF IInv, Exclusive
  <2> QED BY <2>1, <2>2
<1> QED BY <1>3, <1>4, <1>5, <1>6 DEF IInv, NothingHeldBeforeBoot, page_claim

\* A page that becomes FREE was handed back whole by the one who held it.
LEMMA ReleaseIInv ==
  ASSUME IInv, NEW i \in Page, NEW len \in ReleaseSizes, release(i, len)
  PROVE  IInv'
<1> USE PageConstants
<1> DEFINE addr == i * PAGE_SIZE
<1>0. len \in Nat /\ len > 0
  BY AddrSpaceType DEF ReleaseSizes
<1>1. \A k \in Page : page'[k] = IF k \in Region(addr, len) THEN PAGE_FREE ELSE page[k]
  BY DEF release, page_set_range, SetPages
<1>2. \A k \in Page : k \in Region(addr, len) => k \in WholePages(addr, len)
  BY <1>0, RegionIsWhole DEF release, WholePages
<1>3. WholePages(addr, len) \subseteq TouchedPages(addr, len)
  <2> SUFFICES ASSUME NEW k \in WholePages(addr, len)
               PROVE  k \in TouchedPages(addr, len)
    OBVIOUS
  <2>1. k * PAGE_SIZE < (k + 1) * PAGE_SIZE
    BY DEF WholePages, Page
  <2>2. /\ k * PAGE_SIZE \in Int /\ (k + 1) * PAGE_SIZE \in Int
        /\ addr \in Int /\ addr + len \in Int
    BY <1>0 DEF WholePages, Page
  <2> QED BY <2>1, <2>2 DEF WholePages, TouchedPages
<1>4. \A k \in WholePages(addr, len) : k \in Page /\ held[k] = 1 /\ page[k] = PAGE_USED
  BY <1>3 DEF release, TouchedPages, IInv, Exclusive
<1>5. TypeOK'
  <2>1. page' \in [Page -> PageStates]
    BY SetPagesType DEF release, page_set_range, IInv, TypeOK, PageStates
  <2>2. held' \in [Page -> Nat]
    BY <1>4 DEF release, IInv, TypeOK
  <2> QED BY <2>1, <2>2 DEF release, IInv, TypeOK
<1>6. KernelReserved'
  BY <1>1, <1>2, <1>4, KernelPagesInTable
  DEF release, IInv, KernelReserved, PAGE_USED, PAGE_SYS, PAGE_NONE
<1>7. RegisteredReserved'
  <2> SUFFICES ASSUME NEW e \in mmap, e.type # AVAILABLE, EndsBelowTop(e),
                      NEW k \in EndedPages(e.addr, e.len)
               PROVE  page'[k] = PAGE_NONE
    BY DEF RegisteredReserved, release, EndsBelowTop, EndedPages
  <2>1. k \in Page /\ page[k] = PAGE_NONE
    BY DEF IInv, RegisteredReserved, release, EndedPages
  <2> QED BY <1>1, <1>2, <1>4, <2>1 DEF PAGE_USED, PAGE_NONE
<1>8. Exclusive'
  <2> SUFFICES ASSUME NEW k \in Page, held'[k] > 0
               PROVE  held'[k] = 1 /\ page'[k] = PAGE_USED
    BY DEF Exclusive
  <2>1. k \notin WholePages(addr, len)
    BY <1>4 DEF release
  <2>2. held'[k] = held[k] /\ page'[k] = page[k]
    BY <1>1, <1>2, <2>1 DEF release
  <2> QED BY <2>2 DEF IInv, Exclusive
<1> QED BY <1>5, <1>6, <1>7, <1>8 DEF IInv, NothingHeldBeforeBoot, release

LEMMA StutterIInv ==
  ASSUME IInv, page' = page, mmap' = mmap, held' = held,
         stage' = stage \/ (stage = "up" /\ stage' = "panic")
  PROVE  IInv'
  BY DEF IInv, TypeOK, Stages, NothingHeldBeforeBoot, KernelReserved, RegisteredReserved,
         Exclusive, EndsBelowTop, EndedPages

LEMMA NextIInv == IInv /\ [Next]_vars => IInv'
<1> SUFFICES ASSUME IInv, [Next]_vars PROVE IInv'
  OBVIOUS
<1>1. CASE paging_initialize
  BY <1>1, BootIInv
<1>2. ASSUME NEW count \in ClaimSizes, page_claim(count)
      PROVE  IInv'
  BY <1>2, ClaimIInv
<1>3. ASSUME NEW count \in ClaimSizes, page_claim_panic(count)
      PROVE  IInv'
  BY <1>3, StutterIInv DEF page_claim_panic
<1>4. ASSUME NEW i \in Page, NEW len \in ReleaseSizes, release(i, len)
      PROVE  IInv'
  BY <1>4, ReleaseIInv
<1>5. CASE UNCHANGED vars
  <2>1. page' = page /\ mmap' = mmap /\ held' = held /\ stage' = stage
    BY <1>5 DEF vars
  <2> QED BY <2>1, StutterIInv
<1> QED BY <1>1, <1>2, <1>3, <1>4, <1>5 DEF Next

LEMMA Invariant == Spec => []IInv
<1>1. Init => IInv
  BY InitIInv
<1>2. IInv /\ [Next]_vars => IInv'
  BY NextIInv
<1> QED BY <1>1, <1>2, PTL DEF Spec

(***************************************************************************)
(* The table, the ledger and the stage keep their types.                   *)
(***************************************************************************)
THEOREM PagesTypeCorrect == Spec => []TypeOK
<1>1. IInv => TypeOK
  BY DEF IInv
<1> QED BY <1>1, Invariant, PTL

(***************************************************************************)
(* paging_initialize reserves the kernel's memory and nothing undoes it.   *)
(***************************************************************************)
THEOREM KernelStaysReserved == Spec => []KernelReserved
<1>1. IInv => KernelReserved
  BY DEF IInv
<1> QED BY <1>1, Invariant, PTL

(***************************************************************************)
(* Of the regions of the multiboot map that end below the top, every page  *)
(* stays reserved except the one a region ends in the middle of.           *)
(***************************************************************************)
THEOREM RegisteredStaysReserved == Spec => []RegisteredReserved
<1>1. IInv => RegisteredReserved
  BY DEF IInv
<1> QED BY <1>1, Invariant, PTL

(***************************************************************************)
(* page_claim never hands out a page that somebody holds.                  *)
(***************************************************************************)
THEOREM PagesExclusive == Spec => []Exclusive
<1>1. IInv => Exclusive
  BY DEF IInv
<1> QED BY <1>1, Invariant, PTL

LEMMA ReservedStep ==
  ASSUME IInv, [Next]_vars, NEW i \in Page, stage # "boot",
         page[i] \in {PAGE_SYS, PAGE_NONE}
  PROVE  page'[i] = page[i]
<1> USE PageConstants
<1>1. ASSUME NEW count \in ClaimSizes, page_claim(count)
      PROVE  page'[i] = page[i]
  <2>1. PICK k \in Page :
          /\ IsFirstRun(page, count, k)
          /\ page' = SetPages(page, k .. k + count - 1, PAGE_USED)
    BY <1>1 DEF page_claim
  <2>2. i \notin k .. k + count - 1
    BY <2>1 DEF IsFirstRun, RunsOf, PAGE_FREE, PAGE_SYS, PAGE_NONE
  <2> QED BY <2>1, <2>2 DEF SetPages
<1>2. ASSUME NEW k \in Page, NEW len \in ReleaseSizes, release(k, len)
      PROVE  page'[i] = page[i]
  <2>0. len \in Nat /\ len > 0
    BY AddrSpaceType DEF ReleaseSizes
  <2>1. CASE i \in Region(k * PAGE_SIZE, len)
    <3>1. /\ k * PAGE_SIZE <= i * PAGE_SIZE
          /\ (i + 1) * PAGE_SIZE <= k * PAGE_SIZE + len
      BY <1>2, <2>0, <2>1, RegionIsWhole DEF release
    <3>2. i * PAGE_SIZE < (i + 1) * PAGE_SIZE
      BY DEF Page
    <3>3. /\ i * PAGE_SIZE \in Int /\ (i + 1) * PAGE_SIZE \in Int
          /\ k * PAGE_SIZE \in Int
      BY DEF Page
    <3>4. i \in TouchedPages(k * PAGE_SIZE, len)
      BY <2>0, <3>1, <3>2, <3>3 DEF TouchedPages
    <3> QED BY <1>2, <3>4 DEF release, IInv, Exclusive, PAGE_USED, PAGE_SYS, PAGE_NONE
  <2>2. CASE i \notin Region(k * PAGE_SIZE, len)
    BY <1>2, <2>2 DEF release, page_set_range, SetPages
  <2> QED BY <2>1, <2>2
<1>3. CASE paging_initialize
  BY <1>3 DEF paging_initialize
<1>4. ASSUME NEW count \in ClaimSizes, page_claim_panic(count)
      PROVE  page'[i] = page[i]
  BY <1>4 DEF page_claim_panic
<1>5. CASE UNCHANGED vars
  BY <1>5 DEF vars
<1> QED BY <1>1, <1>2, <1>3, <1>4, <1>5 DEF Next

(***************************************************************************)
(* After boot no step of the page table changes a SYS or NONE page.        *)
(***************************************************************************)
THEOREM ReservedNeverChanges == Spec => ReservedForever
<1>1. IInv /\ [Next]_vars =>
        [\A i \in Page : stage # "boot" /\ page[i] \in {PAGE_SYS, PAGE_NONE}
                           => page'[i] = page[i]]_vars
  BY ReservedStep
<1> QED BY <1>1, Invariant, PTL DEF Spec, ReservedForever
=============================================================================
