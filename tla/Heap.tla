-------------------------------- MODULE Heap --------------------------------
(***************************************************************************)
(* heap.c: first-fit allocation from a doubly linked list of blocks, each  *)
(* a header of HSIZE bytes followed by its memory.  Pages come from        *)
(* page_claim and go back through page_set_range, one page-aligned range   *)
(* at a time.  The kernel thread is the only caller (no interrupt handler  *)
(* allocates), so a call is one step.                                      *)
(*                                                                         *)
(* The list is the sequence blocks, head first: its order is the order in  *)
(* which pages were claimed and blocks split, not that of the addresses.   *)
(***************************************************************************)
EXTENDS PageTable, SequencesExt

CONSTANTS
  HSIZE,      \* sizeof(memory_block_t), 24
  Sizes       \* sizes the kernel asks for

(***************************************************************************)
(* A page has room for more than two headers, and no request is so large   *)
(* that size + HSIZE overflows a uint32_t.                                 *)
(***************************************************************************)
ASSUME HeapConstants ==
  /\ HSIZE \in Nat \ {0}
  /\ PAGE_SIZE > 2 * HSIZE
  /\ HEAP_START >= PAGE_SIZE
  /\ \A n \in Sizes : n \in Nat /\ n + HSIZE < AddrSpace

VARIABLES
  blocks,     \* the list mlist: sequence of [addr, size, state]
  page,       \* the page table
  fault       \* "none", or why the model stops (see Faults)

vars == <<blocks, page, fault>>

FREE == "FREE"
USED == "USED"
Block == [addr : 0 .. AddrSpace - 1, size : 0 .. AddrSpace - 1, state : {FREE, USED}]

(***************************************************************************)
(* panic: page_claim found no pages and halted the machine.  null: a       *)
(* caller dereferenced the NULL of memory_split.  wild: memory_split was   *)
(* told to cut at a size larger than the block, which puts the second      *)
(* header over the first.  top: the block lies in the last page of the     *)
(* address space, page_start wrapped to 0 and the call hands back every    *)
(* page from 0 on.  What the heap does after wild and top is not modelled. *)
(***************************************************************************)
Faults == {"none", "panic", "null", "wild", "top"}

\* What a call works on: the three variables as one value.
Heap == [blocks : Seq(Block), page : [Page -> PageStates], fault : Faults]
Failed(h, f) == [h EXCEPT !.fault = f]

BlockEnd(b) == b.addr + HSIZE + b.size
BlockBytes(b) == b.addr .. BlockEnd(b) - 1

-----------------------------------------------------------------------------
(***************************************************************************)
(* The helpers of heap.c, on the block at position i of the list.          *)
(***************************************************************************)
\* Slip: the rest starts where the first part's memory would without a header.
memory_split_NoHeader(h, i, size) ==
  LET b == h.blocks[i]
      first == [b EXCEPT !.size = size]
      rest  == [addr |-> b.addr + size, size |-> b.size - size - HSIZE, state |-> FREE]
  IN [h EXCEPT !.blocks = InsertAt([@ EXCEPT ![i] = first], i + 1, rest)]

\* Cut block i after `size' bytes; the rest becomes a FREE block behind it.
memory_split(h, i, size) ==
  LET b == h.blocks[i]
      first == [b EXCEPT !.size = size]
      rest  == [addr |-> b.addr + HSIZE + size,
                size |-> b.size - size - HSIZE, state |-> FREE]
  IN IF b.size <= HSIZE \/ b.state # FREE THEN Failed(h, "null")
     ELSE IF size + HSIZE > b.size THEN Failed(h, "wild")
     ELSE [h EXCEPT !.blocks = InsertAt([@ EXCEPT ![i] = first], i + 1, rest)]

\* Slip: the state of the next block is not looked at.
Mergeable_AnyState(bs, i) ==
  i < Len(bs) /\ bs[i].state = FREE /\ BlockEnd(bs[i]) = bs[i + 1].addr

\* memory_merge joins block i with the next one when both are FREE and touch.
Mergeable(bs, i) ==
  /\ i < Len(bs)
  /\ bs[i].state = FREE /\ bs[i + 1].state = FREE
  /\ BlockEnd(bs[i]) = bs[i + 1].addr

memory_merge(bs, i) ==
  RemoveAt([bs EXCEPT ![i].size = @ + bs[i + 1].size + HSIZE], i + 1)

\* Slip: the remainder of the division does not count.
PagesFor_RoundedDown(size) == (size + HSIZE) \div PAGE_SIZE

\* Claim enough pages for `size' bytes and a header; the block goes to the tail.
PagesFor(size) ==
  LET whole == (size + HSIZE) \div PAGE_SIZE
  IN IF (size + HSIZE) % PAGE_SIZE > 0 THEN whole + 1 ELSE whole

get_pages(h, size) ==
  LET count == PagesFor(size)
      runs  == RunsOf(h.page, count)
      first == Min(runs)
      block == [addr |-> first * PAGE_SIZE, size |-> count * PAGE_SIZE - HSIZE,
                state |-> FREE]
  IN IF runs = {} THEN Failed(h, "panic")
     ELSE [h EXCEPT !.blocks = Append(@, block),
                    !.page = SetPages(@, first .. first + count - 1, PAGE_USED)]

\* Slip: a block of exactly one page is kept.
HoldsPage_Strict(page_start, block_end, len) ==
  len > PAGE_SIZE /\ block_end > page_start

\* free_pages acts on a block with a page between its boundaries.
HoldsPage(page_start, block_end, len) ==
  len >= PAGE_SIZE /\ block_end > page_start

\* Give back the pages of the FREE block i from its first page boundary on.
free_pages(h, i) ==
  LET b == h.blocks[i]
      page_start == (((b.addr + PAGE_SIZE - 1) \div PAGE_SIZE) * PAGE_SIZE) % AddrSpace
      block_end == BlockEnd(b) % AddrSpace
      len == (block_end - page_start) % AddrSpace
      cut == (page_start - b.addr - HSIZE) % AddrSpace
      split == memory_split(h, i, cut)
      Released(g, k) == [g EXCEPT !.blocks = RemoveAt(@, k),
                                  !.page = page_set_range(@, page_start, len, PAGE_FREE)]
  IN IF ~HoldsPage(page_start, block_end, len) THEN h
     ELSE IF b.addr > page_start THEN Failed(h, "top")
     ELSE IF b.addr = page_start THEN Released(h, i)
     ELSE IF split.fault # "none" THEN split
     ELSE Released(split, i + 1)

-----------------------------------------------------------------------------
(***************************************************************************)
(* The bodies of the public calls.                                         *)
(***************************************************************************)
\* Slip: the state is not looked at.
Fits_AnyState(bs, size) == {i \in 1 .. Len(bs) : bs[i].size >= size}

\* Slip: the header counts as usable.
Fits_WithHeader(bs, size) ==
  {i \in 1 .. Len(bs) : bs[i].state = FREE /\ bs[i].size + HSIZE >= size}

Fits(bs, size) == {i \in 1 .. Len(bs) : bs[i].state = FREE /\ bs[i].size >= size}

Malloc(h, size) ==
  LET fits  == Fits(h.blocks, size)
      grown == IF fits = {} THEN get_pages(h, size) ELSE h
      i     == IF fits = {} THEN Len(grown.blocks) ELSE Min(fits)
      ready == IF grown.blocks[i].size > size + HSIZE
               THEN memory_split(grown, i, size) ELSE grown
  IN IF grown.fault # "none" THEN grown
     ELSE IF ready.fault # "none" THEN ready
     ELSE [ready EXCEPT !.blocks[i].state = USED]

\* A merge with the next block keeps the position, one with the previous does not.
MergeNext(bs, i) == IF Mergeable(bs, i) THEN memory_merge(bs, i) ELSE bs

FreeBlock(h, i) ==
  LET freed  == [h.blocks EXCEPT ![i].state = FREE]
      after  == MergeNext(freed, i)
      joins  == i > 1 /\ Mergeable(after, i - 1)
      merged == IF joins THEN memory_merge(after, i - 1) ELSE after
  IN IF h.blocks[i].state # USED THEN h
     ELSE free_pages([h EXCEPT !.blocks = merged], IF joins THEN i - 1 ELSE i)

PositionOf(bs, addr) == CHOOSE i \in 1 .. Len(bs) : bs[i].addr = addr

Realloc(h, i, new_size) ==
  LET old == h.blocks[i]
      got == Malloc(h, new_size)
  IN IF old.size >= new_size THEN h
     ELSE IF got.fault # "none" THEN got
     ELSE FreeBlock(got, PositionOf(got.blocks, old.addr))

-----------------------------------------------------------------------------
State == [blocks |-> blocks, page |-> page, fault |-> fault]
Becomes(h) == blocks' = h.blocks /\ page' = h.page /\ fault' = h.fault

\* paging_initialize and init_heap have run.
Init ==
  /\ blocks = <<>>
  /\ \E m \in MemoryMaps : page = InitialTable([i \in Page |-> PAGE_FREE], m)
  /\ fault = "none"

\* kcalloc is this step too: it fills the memory it got with zeros.
kmalloc(size) == fault = "none" /\ Becomes(Malloc(State, size))

\* On a block that is FREE already it reports an error and changes nothing.
kfree(i) == fault = "none" /\ Becomes(FreeBlock(State, i))

krealloc(i, new_size) ==
  /\ fault = "none"
  /\ blocks[i].state = USED
  /\ Becomes(Realloc(State, i, new_size))

Next ==
  \/ \E size \in Sizes : kmalloc(size)
  \/ \E i \in 1 .. Len(blocks) : kfree(i) \/ \E size \in Sizes : krealloc(i, size)

Spec == Init /\ [][Next]_vars

-----------------------------------------------------------------------------
Positions == 1 .. Len(blocks)

TypeOK ==
  /\ blocks \in Seq(Block)
  /\ page \in [Page -> PageStates]
  /\ fault \in Faults

(***************************************************************************)
(* Blocks, headers included, never overlap, after any sequence of          *)
(* splits, merges and page hand-backs.                                     *)
(***************************************************************************)
Disjoint ==
  \A i, j \in Positions :
    i # j => BlockBytes(blocks[i]) \cap BlockBytes(blocks[j]) = {}

(***************************************************************************)
(* Every page under a listed block is USED, and every USED page has a      *)
(* block in it: a claim can never return a page in which the heap still    *)
(* keeps a header or data, and no page is claimed for nothing.             *)
(***************************************************************************)
PagesUnder(b) == b.addr \div PAGE_SIZE .. (BlockEnd(b) - 1) \div PAGE_SIZE

Backed ==
  {k \in Page : page[k] = PAGE_USED} = UNION {PagesUnder(blocks[i]) : i \in Positions}

(***************************************************************************)
(* A FREE block never keeps a whole page to itself (but for one that ends  *)
(* at the top of the address space, where block_end wraps to 0).           *)
(***************************************************************************)
NoWholeFreePage ==
  fault = "none" =>
    \A i \in Positions : blocks[i].state = FREE /\ BlockEnd(blocks[i]) < AddrSpace =>
      ~ \E k \in Page : k * PAGE_SIZE .. (k + 1) * PAGE_SIZE - 1
                          \subseteq BlockBytes(blocks[i])

(***************************************************************************)
(* memory_split is called only on a block it can split: its NULL result,   *)
(* which both callers dereference unchecked, never comes.                  *)
(***************************************************************************)
NeverNull == fault # "null"

(***************************************************************************)
(* The memory a successful call leaves its caller with is as large as the  *)
(* caller asked for.                                                       *)
(***************************************************************************)
Live == {[addr |-> b.addr + HSIZE, size |-> b.size] :
           b \in {blocks[i] : i \in {j \in Positions : blocks[j].state = USED}}}

Sufficient ==
  [][\A n \in Sizes :
       kmalloc(n) /\ fault' = "none" => \E e \in Live' \ Live : e.size >= n]_vars

(***************************************************************************)
(* The heap is an Allocator over the bytes that were set aside neither for *)
(* the kernel nor by the multiboot map.                                    *)
(***************************************************************************)
Arena == {a \in 0 .. AddrSpace - 1 :
            page[a \div PAGE_SIZE] \in {PAGE_FREE, PAGE_USED}}

A == INSTANCE Allocator WITH live <- Live, arena <- Arena
AllocatorSpec == A!Spec

-----------------------------------------------------------------------------
(***************************************************************************)
(* heap.c:52, "Split block if size is bigger than required": a block is    *)
(* only ever split when it is bigger than the size it is to keep.  Stated  *)
(* for heaps that do not reach the last page of the address space, where   *)
(* the wrapped block_end makes a failure easier.                           *)
(***************************************************************************)
SplitOnlyBigger == page[PAGE_COUNT - 1] # PAGE_USED => fault # "wild"

(***************************************************************************)
(* heap.c:102, "Free memory for old ptr": the bytes of a block that a call *)
(* frees can be allocated again, from a FREE block or from a FREE page.    *)
(***************************************************************************)
Reusable ==
  UNION {BlockBytes(blocks[i]) : i \in {j \in Positions : blocks[j].state = FREE}}
    \cup {a \in 0 .. AddrSpace - 1 : page[a \div PAGE_SIZE] = PAGE_FREE}

FreedIsReusable ==
  [][fault' = "none" =>
       \A e \in Live \ Live' : A!ExtentBytes(e) \subseteq Reusable']_vars
=============================================================================
