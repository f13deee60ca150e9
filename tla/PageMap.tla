------------------------------ MODULE PageMap ------------------------------
(***************************************************************************)
(* paging.c as it stores the table: memory_map keeps four pages to a byte, *)
(* the first of them in the two highest bits.  Setting a page clears its   *)
(* two bits and ORs the state in; reading masks and shifts.  The packed    *)
(* table behaves as the table of Pages: PagesSpec below.                   *)
(***************************************************************************)
EXTENDS PageTable

PAGE_PER_STATUS_BYTE == 4

ASSUME PackedConstants == PAGE_COUNT % PAGE_PER_STATUS_BYTE = 0

VARIABLES memory_map, mmap, stage, held

vars == <<memory_map, mmap, stage, held>>

Bytes == 0 .. (PAGE_COUNT \div PAGE_PER_STATUS_BYTE) - 1

\* The value of the lowest of the two bits that `part' of a byte occupies.
Weight(part) == CASE part = 0 -> 64 [] part = 1 -> 16
                  [] part = 2 -> 4  [] part = 3 -> 1

\* result = byte & mask; result >>= (3-part)*2
GetPart(byte, part) == (byte \div Weight(part)) % 4

\* Slip: the old bits are not cleared before the OR.
SetPart_NotCleared(byte, part, state) ==
  LET old == GetPart(byte, part)
      or  == IF old = PAGE_FREE THEN state ELSE
             IF state \in {PAGE_FREE, old} THEN old ELSE PAGE_NONE
  IN byte - old * Weight(part) + or * Weight(part)

\* Slip: the bits are ORed in counting parts from the other end.
SetPart_OtherEnd(byte, part, state) ==
  byte - GetPart(byte, part) * Weight(part) + state * Weight(3 - part)

\* byte &= ~mask; byte |= state << (3-part)*2
SetPart(byte, part, state) ==
  byte - GetPart(byte, part) * Weight(part) + state * Weight(part)

page_get_at_index(mm, i) ==
  GetPart(mm[i \div PAGE_PER_STATUS_BYTE], i % PAGE_PER_STATUS_BYTE)

(***************************************************************************)
(* A loop of page_set_with_index over the pages of R, in rising order: the *)
(* writes that fall in byte b, one part after the other.                   *)
(***************************************************************************)
SetIf(byte, b, part, R, state) ==
  IF PAGE_PER_STATUS_BYTE * b + part \in R THEN SetPart(byte, part, state)
                                           ELSE byte
SetByte(byte, b, R, state) ==
  LET w0 == SetIf(byte, b, 0, R, state)
      w1 == SetIf(w0, b, 1, R, state)
      w2 == SetIf(w1, b, 2, R, state)
  IN SetIf(w2, b, 3, R, state)

SetPacked(mm, R, state) == [b \in Bytes |-> SetByte(mm[b], b, R, state)]

\* The table that the bytes stand for.
Unpacked(mm) == [i \in Page |-> page_get_at_index(mm, i)]

TypeOK ==
  /\ memory_map \in [Bytes -> 0 .. 255]
  /\ mmap \in MemoryMaps
  /\ stage \in {"boot", "up", "panic"}
  /\ held \in [Page -> Nat]

Init ==
  /\ memory_map = [b \in Bytes |-> 0]
  /\ mmap \in MemoryMaps
  /\ stage = "boot"
  /\ held = [i \in Page |-> 0]

\* Slip: "set all memory free" comes last.
paging_initialize_FreeLast ==
  /\ stage = "boot"
  /\ stage' = "up"
  /\ memory_map' =
       LET sys  == SetPacked(memory_map, Region(0, HEAP_START), PAGE_SYS)
           none == SetPacked(sys, RegisteredPages(mmap), PAGE_NONE)
       IN SetPacked(none, Region(0, AddrSpace - 1), PAGE_FREE)
  /\ UNCHANGED <<mmap, held>>

paging_initialize ==
  /\ stage = "boot"
  /\ stage' = "up"
  /\ memory_map' =
       LET free == SetPacked(memory_map, Region(0, AddrSpace - 1), PAGE_FREE)
           sys  == SetPacked(free, Region(0, HEAP_START), PAGE_SYS)
       IN SetPacked(sys, RegisteredPages(mmap), PAGE_NONE)
  /\ UNCHANGED <<mmap, held>>

page_claim(count) ==
  /\ stage = "up"
  /\ \E i \in Page :
       /\ IsFirstRun(Unpacked(memory_map), count, i)
       /\ memory_map' = SetPacked(memory_map, i .. i + count - 1, PAGE_USED)
       /\ held' = [k \in Page |-> IF k \in i .. i + count - 1
                                  THEN held[k] + 1 ELSE held[k]]
  /\ UNCHANGED <<mmap, stage>>

page_claim_panic(count) ==
  /\ stage = "up"
  /\ RunsOf(Unpacked(memory_map), count) = {}
  /\ stage' = "panic"
  /\ UNCHANGED <<memory_map, mmap, held>>

\* page_set_range(.., PAGE_FREE) from free_pages: see release of Pages.
P == INSTANCE Pages WITH page <- Unpacked(memory_map)

release(i, len) ==
  LET addr == i * PAGE_SIZE IN
  /\ stage = "up"
  /\ addr + len <= AddrSpace
  /\ \A k \in P!TouchedPages(addr, len) : held[k] > 0
  /\ memory_map' = SetPacked(memory_map, Region(addr, len), PAGE_FREE)
  /\ held' = [k \in Page |-> IF k \in P!WholePages(addr, len)
                             THEN held[k] - 1 ELSE held[k]]
  /\ UNCHANGED <<mmap, stage>>

Next ==
  \/ paging_initialize
  \/ \E count \in P!ClaimSizes : page_claim(count) \/ page_claim_panic(count)
  \/ \E i \in Page, len \in P!ReleaseSizes : release(i, len)

Spec == Init /\ [][Next]_vars

-----------------------------------------------------------------------------
(***************************************************************************)
(* Packing is invisible: four states to a byte, shifted and masked, behave *)
(* as one entry per page.  A write to one page that disturbed one of its   *)
(* three neighbours in the byte would show here.                           *)
(***************************************************************************)
PagesSpec == P!Spec

(***************************************************************************)
(* What Pages promises, of the packed table (see there): the kernel's      *)
(* pages stay set aside, and so do those of the registered regions, except *)
(* the page a region ends in the middle of; a page has one holder, and     *)
(* nothing set aside at boot ever changes.                                 *)
(***************************************************************************)
KernelReserved     == P!KernelReserved
RegisteredReserved == P!RegisteredReserved
Exclusive          == P!Exclusive
ReservedForever    == P!ReservedForever

(***************************************************************************)
(* The comments of paging.c:24 and :52 that the table does not live up to, *)
(* stated in Pages: the whole multiboot map is registered, with the pages  *)
(* that a region ends in.                                                  *)
(***************************************************************************)
MultibootReserved  == P!MultibootReserved
=============================================================================
