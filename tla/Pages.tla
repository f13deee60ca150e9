------------------------------- MODULE Pages -------------------------------
(***************************************************************************)
(* What paging.c promises its client, with one table entry per page: at    *)
(* boot the kernel's 4 MB and the regions of the multiboot map are set     *)
(* aside, then page_claim hands out runs of free pages and                 *)
(* page_set_range(.., PAGE_FREE) takes them back.                          *)
(*                                                                         *)
(* held is the client's side of the ledger: how many outstanding grants of *)
(* a page its callers believe they have, computed only from what           *)
(* page_claim returned and what was handed back.                           *)
(***************************************************************************)
EXTENDS PageTable

VARIABLES
  page,       \* [Page -> PageStates], the contents of memory_map
  mmap,       \* the multiboot map this machine booted with
  stage,      \* "boot" before paging_initialize, then "up", at last "panic"
  held        \* [Page -> Nat], grants outstanding

vars == <<page, mmap, stage, held>>

Stages == {"boot", "up", "panic"}

TypeOK ==
  /\ page \in [Page -> PageStates]
  /\ mmap \in MemoryMaps
  /\ stage \in Stages
  /\ held \in [Page -> Nat]

Init ==
  /\ page = [i \in Page |-> PAGE_FREE]       \* memory_map is in .bss
  /\ mmap \in MemoryMaps
  /\ stage = "boot"
  /\ held = [i \in Page |-> 0]

paging_initialize ==
  /\ stage = "boot"
  /\ stage' = "up"
  /\ page' = InitialTable(page, mmap)
  /\ UNCHANGED <<mmap, held>>

\* A run was found: its pages become USED and its address goes to the caller.
page_claim(count) ==
  /\ stage = "up"
  /\ \E i \in Page :
       /\ IsFirstRun(page, count, i)
       /\ page' = SetPages(page, i .. i + count - 1, PAGE_USED)
       /\ held' = [k \in Page |-> IF k \in i .. i + count - 1
                                  THEN held[k] + 1 ELSE held[k]]
  /\ UNCHANGED <<mmap, stage>>

\* "Unable To Find Free Pages": kernel_panic stops the machine.
page_claim_panic(count) ==
  /\ stage = "up"
  /\ RunsOf(page, count) = {}
  /\ stage' = "panic"
  /\ UNCHANGED <<page, mmap, held>>

(***************************************************************************)
(* free_pages hands back `len' bytes from a page boundary on, all of them  *)
(* in pages it holds; it gives up the pages that lie wholly in them.  The  *)
(* last page may be handed back only in part.                              *)
(***************************************************************************)
WholePages(addr, len) ==
  {i \in Page : addr <= i * PAGE_SIZE /\ (i + 1) * PAGE_SIZE <= addr + len}
TouchedPages(addr, len) ==
  {i \in Page : i * PAGE_SIZE < addr + len /\ addr < (i + 1) * PAGE_SIZE}

release(i, len) ==
  LET addr == i * PAGE_SIZE IN
  /\ stage = "up"
  /\ addr + len <= AddrSpace
  /\ \A k \in TouchedPages(addr, len) : held[k] > 0
  /\ page' = page_set_range(page, addr, len, PAGE_FREE)
  /\ held' = [k \in Page |-> IF k \in WholePages(addr, len)
                             THEN held[k] - 1 ELSE held[k]]
  /\ UNCHANGED <<mmap, stage>>

\* More pages than there are can be asked for, but not given back.
ClaimSizes == 1 .. PAGE_COUNT + 1
ReleaseSizes == PAGE_SIZE .. AddrSpace

Next ==
  \/ paging_initialize
  \/ \E count \in ClaimSizes : page_claim(count) \/ page_claim_panic(count)
  \/ \E i \in Page, len \in ReleaseSizes : release(i, len)

Spec == Init /\ [][Next]_vars

-----------------------------------------------------------------------------
(***************************************************************************)
(* The kernel's own memory (code, stack, the table itself) is never free   *)
(* for the heap to claim, whatever the multiboot map says about it.        *)
(***************************************************************************)
KernelPages == 0 .. HEAP_START \div PAGE_SIZE - 1

KernelReserved ==
  stage # "boot" => \A i \in KernelPages : page[i] \in {PAGE_SYS, PAGE_NONE}

(***************************************************************************)
(* A region that the multiboot map reports as not available and that ends  *)
(* below the top of the address space keeps the heap away from every page  *)
(* that it reaches the end of, the page it starts in the middle of         *)
(* included, whatever else the map says and for as long as the machine     *)
(* runs.  The page it ends in the middle of is not set aside, and none of  *)
(* a region that ends at the top: MultibootReserved below.                 *)
(***************************************************************************)
EndsBelowTop(e) == e.addr + e.len < AddrSpace
EndedPages(addr, len) ==
  {i \in Page : addr < (i + 1) * PAGE_SIZE /\ (i + 1) * PAGE_SIZE <= addr + len}

RegisteredReserved ==
  stage # "boot" =>
    \A e \in mmap : e.type # AVAILABLE /\ EndsBelowTop(e) =>
      \A i \in EndedPages(e.addr, e.len) : page[i] = PAGE_NONE

(***************************************************************************)
(* No page is granted to two callers, and a granted page is USED: neither  *)
(* a claim nor a partial hand-back can make somebody's page free again.    *)
(***************************************************************************)
Exclusive ==
  \A i \in Page : held[i] > 0 => held[i] = 1 /\ page[i] = PAGE_USED

(***************************************************************************)
(* After boot, no claim and no hand-back ever changes a page that was set  *)
(* aside.                                                                  *)
(***************************************************************************)
ReservedForever ==
  [][\A i \in Page : stage # "boot" /\ page[i] \in {PAGE_SYS, PAGE_NONE}
                       => page'[i] = page[i]]_vars

-----------------------------------------------------------------------------
(***************************************************************************)
(* paging.c:24, "Fill memory map with multiboot info", where page_set_range*)
(* sets (paging.c:52, in Polish) "all pages in the given range of addresses*)
(* including its ends": no page that a region reported as not available    *)
(* reaches into can be claimed, the page of its last byte included.        *)
(***************************************************************************)
MultibootReserved ==
  stage # "boot" =>
    \A e \in mmap : e.type # AVAILABLE /\ e.addr + e.len <= AddrSpace =>
      \A i \in TouchedPages(e.addr, e.len) : page[i] \in {PAGE_SYS, PAGE_NONE}
=============================================================================
