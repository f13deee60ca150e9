----------------------------- MODULE PageTable -----------------------------
(***************************************************************************)
(* The vocabulary of paging.c / paging.h: the states a page frame can be   *)
(* in, 32-bit addresses, and the two ways the code walks the table: it     *)
(* sets every page of an address range (page_set_range) and it looks for a *)
(* run of FREE pages (page_claim).  State machines over a page table are   *)
(* in Pages (one entry per page), PageMap (the packed bytes the code       *)
(* keeps) and Heap (the client of the table).                              *)
(***************************************************************************)
EXTENDS Integers, FiniteSets

CONSTANTS
  PAGE_COUNT,     \* pages of the address space (0x100000 in paging.h)
  PAGE_SIZE,      \* bytes of a page            (0x1000)
  HEAP_START,     \* first byte after the kernel's own memory (0x400000)
  MemoryMaps      \* the multiboot memory maps a machine may boot with

PAGE_FREE == 0
PAGE_USED == 1
PAGE_SYS  == 2
PAGE_NONE == 3
PageStates == {PAGE_FREE, PAGE_USED, PAGE_SYS, PAGE_NONE}

AVAILABLE == "available"
MmapTypes == {AVAILABLE, "reserved"}

(***************************************************************************)
(* A multiboot entry has 64-bit addr and len fields; the order of the      *)
(* entries does not matter to the kernel, so a map is a set.  HEAP_START   *)
(* is a page boundary inside the address space, as 4 MB is.                *)
(***************************************************************************)
MmapEntry == [addr : Nat, len : Nat, type : MmapTypes]

ASSUME PageConstants ==
  /\ PAGE_COUNT \in Nat \ {0}
  /\ PAGE_SIZE \in Nat \ {0}
  /\ HEAP_START \in Nat
  /\ HEAP_START % PAGE_SIZE = 0
  /\ HEAP_START < PAGE_COUNT * PAGE_SIZE
  /\ \A m \in MemoryMaps : \A e \in m : e \in MmapEntry

AddrSpace == PAGE_COUNT * PAGE_SIZE     \* uint32_t arithmetic is modulo this
Page == 0 .. PAGE_COUNT - 1

\* Slip: the page of addr_end is written too.
Region_EndIncluded(addr, len) ==
  addr \div PAGE_SIZE .. ((addr + len) % AddrSpace) \div PAGE_SIZE

(***************************************************************************)
(* The pages page_set_range writes: addr_end wraps as a uint32_t does and  *)
(* the page of addr_end itself is left out.                                *)
(***************************************************************************)
Region(addr, len) ==
  LET addr_end == (addr + len) % AddrSpace
  IN addr \div PAGE_SIZE .. addr_end \div PAGE_SIZE - 1

SetPages(pg, R, state) == [i \in Page |-> IF i \in R THEN state ELSE pg[i]]

page_set_range(pg, addr, len, state) == SetPages(pg, Region(addr, len), state)

\* Slip: the test on the entry's type is the wrong way round.
RegisteredPages_Inverted(m) ==
  UNION {Region(e.addr % AddrSpace, e.len % AddrSpace) :
           e \in {x \in m : x.type = AVAILABLE}}

(***************************************************************************)
(* The loop over the multiboot map: both 64-bit fields are truncated to    *)
(* uint32_t on their way into page_set_range.                              *)
(***************************************************************************)
RegisteredPages(m) ==
  UNION {Region(e.addr % AddrSpace, e.len % AddrSpace) :
           e \in {x \in m : x.type # AVAILABLE}}

\* What paging_initialize makes of the zeroed (FREE) table under map m.
InitialTable(pg, m) ==
  LET free == page_set_range(pg, 0, AddrSpace - 1, PAGE_FREE)
      sys  == page_set_range(free, 0, HEAP_START, PAGE_SYS)
  IN SetPages(sys, RegisteredPages(m), PAGE_NONE)

\* Slip: a page counts as free when it is not USED.
RunsOf_NotUsed(pg, count) ==
  {i \in Page : /\ i + count <= PAGE_COUNT
                /\ \A k \in i .. i + count - 1 : pg[k] # PAGE_USED}

\* The starts of runs of `count' FREE pages: what page_claim scans for.
RunsOf(pg, count) ==
  {i \in Page : /\ i + count <= PAGE_COUNT
                /\ \A k \in i .. i + count - 1 : pg[k] = PAGE_FREE}

\* The first of them is the one it takes.
IsFirstRun(pg, count, i) ==
  /\ i \in RunsOf(pg, count)
  /\ \A k \in RunsOf(pg, count) : i <= k

=============================================================================
