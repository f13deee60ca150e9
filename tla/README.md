# IferrOS: specifications, model checking and proofs

IferrOS is a small 32-bit x86 kernel: it boots from multiboot, hands out page
frames, keeps a heap on them, reads the keyboard into a circular buffer and
runs a line-oriented shell.  This directory holds TLA+ modules for its core,
TLC configurations for them, and TLAPS proofs.

## Inventory

| part | source | state | operations | used by |
|---|---|---|---|---|
| page frames | `paging.c` | `memory_map`: two bits per page, four pages per byte | `paging_initialize`, `page_claim`, `page_set_range` | heap |
| heap | `heap.c` | a doubly linked list of blocks `mlist` | `kmalloc`, `kcalloc`, `krealloc`, `kfree` | threads, lists, shell, FAT |
| circular buffer | `buffer.c` | slots, `begin`, `end`, `capacity`, `full` | create, `push_back`, `pop_front`, `pop_back` | keyboard |
| keyboard path | `keyboard.c`, `gets` of `libc/stdio.c` | the buffer `kbuff`, gets' line | IRQ 1 handler, polling `gets` | shell |
| interrupts, clock | `isr.c`, `clock.c`, `pit.s` | handler table, `ticks` | register, dispatch, `sleep` | keyboard, threads |
| lists | `l_list.c` | nodes, `head`, `tail` | push and pop at both ends, remove, clear | threads, shell |
| threads | `threads.c`, `threads_asm.s` | three lists, `threads_ids`, `time_quants` | create, start, terminate, destroy, join, scheduler | nobody yet |
| shell | `shell.c` | list of commands | register, `run_program`, main loop | boot |
| terminal | `terminal.c` | screen, row, column, colour | `putchar`, scroll, clear, remove last | everything that prints |
| FAT32, ATA | `fat.c`, `ata_pio.c` | the table in memory, the hint; the disk | mount, write, mkdir, read, populate | commented out at boot |
| RTC | `cmos.c` | `date` | `read_rtc` | shell command |
| PS/2, GDT, IDT, PIC, boot, libc | | set-up and pure functions | | |

Components call each other directly; only interrupts come in between.  The
kernel thread is the only one that allocates, and no interrupt handler touches
the heap, the page table or the lists.  IRQ 1 (keyboard) shares `kbuff` with
the kernel thread and IRQ 0 (clock) shares `ticks`.

What is hard to test here, and what each part must keep true:

- *pages*: three overlapping range writes at boot decide what the heap may
  claim; rounding and 32-bit wrap decide which pages a range is.  A page has
  one holder, and what was set aside at boot stays so.
- *heap*: the order of the list is not that of the addresses, and freeing cuts
  blocks at page boundaries.  Blocks stay disjoint, on pages the heap owns, and
  a caller's memory is large enough and its own.
- *circular buffer*: `full` tells a full buffer from an empty one; wrap-around
  and overwriting must agree with it.
- *keyboard*: the interrupt comes between any two accesses of a pop.  Keys are
  lost only to overflow or such a race; a key that waits is read otherwise.
- *lists*: every removal updates pointers in two directions and the two ends,
  and nodes come back from the heap.  Both directions agree; no node is lost.
- *threads*: calls move the head of a list, whatever id they are given
  (`threads.c:247`), `sys_cli` is `hlt` (`boot.s:73`), and the dispatcher calls
  one handler per interrupt (`isr.c:47`).  Ids name one thread, no thread is in
  two lists, none is lost until `destroy_thread` is given one that is not first
  in its list, and the processor goes to a thread that may have it.
- *terminal, shell*: wrapping, scrolling and backspaces move the row and the
  column, the column below 0 too, and `gets` believes the screen shows its line.
- *clock*: its registers are read one by one while it ticks.  The date is of
  one moment, and the shell gets its prompt back.
- *file system*: a file is several sector writes, and the machine may stop
  between any two; the table in memory is mostly uninitialised (`fat.c:69`),
  and a full volume is answered with cluster 0 (`fat.c:462`).  An entry comes
  after its data, chains share nothing, no entry is overwritten while there is
  room: where the mount has found the root marked.

## Modules

| module | what it is |
|---|---|
| `PageTable` | vocabulary: page states, 32-bit ranges, what boot does to a table, runs of FREE pages |
| `Pages` | one entry per page: boot, claim, hand-back, and the ledger `held` of what callers believe they hold |
| `PageMap` | the table as `paging.c` stores it; refines `Pages` (`PagesSpec`) |
| `Heap` | `heap.c` over the page table |
| `Allocator` | abstract: what callers of the heap may rely on; `Heap` refines it (`AllocatorSpec`) |
| `RingOps` | `buffer.c` as operators on the record the C structure is |
| `RingBuffer` | one caller at a time; refines `Deque` (`DequeSpec`) |
| `Deque` | abstract: a bounded sequence that forgets its oldest item |
| `Keyboard` | interrupt handler against `gets`, one step per shared memory access |
| `LinkedList` | `l_list.c` node by node, with the nodes the heap gives out; refines `List` (`ListSpec`) |
| `List` | abstract: a sequence that loses items anywhere |
| `Threads` | `threads.c` over lists as sequences, with the dispatch and the tick of IRQ 0 |
| `Terminal` | `terminal.c` as operators on the screen |
| `Rtc` | `read_rtc` against a clock chip that updates between its port reads |
| `Console` | the shell's main loop, `gets` and the commands, over `Terminal`, `Rtc` and `Deque` |
| `Fat` | `fat.c` with one step per disk access, disk errors and restarts |
| `MCPageMap`, `MCHeap`, `MCConsole`, `MCFat` | constants of the runs |
| `MCContainers` | `LinkedList`, then `RingBuffer`, in one run: the buffer is created once the list is empty again |
| `PagesProofs`, `PageMapProofs`, `HeapProofs`, `RingBufferProofs`, `KeyboardProofs`, `ThreadsProofs`, `FatProofs` | the proofs about the modules of their names |
| `ShellProofs` | the proofs about `Console` (with `Terminal` and `Rtc`) and `LinkedList` |

*Correspondence.*  A variable keeps the name of the C variable where there is
one.  `Pages.page` is the contents of `memory_map`, `mmap` the map the machine
booted with, `stage` says how far the boot is (`panic`: `kernel_panic` never
returns).  `Heap.blocks` is the list from `mlist.head` on, a record per header;
pointers are positions in it.  `Heap.fault` ends a behaviour at the first thing
the code does that leaves the heap's own structures undefined (`wild`: a split
larger than the block; `null`: a NULL result dereferenced; `top`: `page_start`
wrapped to 0) or that halts the machine (`panic`).  In `Keyboard`, `pc` is the
place in `gets` and `circular_buffer_pop_back`, `reg` what was read so far;
`fate`, `delivered`, `exposed` (the keys that waited when a key came inside a
pop) and `crowded` are history, they guard nothing.
`LinkedList.used` is what `kmalloc` gave out and `kfree` has not got back; the
fields of other nodes are `Garbage`.  In `Threads` a `thread_t` is its number in
the order of creation, `freed` the ones whose memory is given back, `running`
the one on the processor (not always the front of `active_threads`: see
`terminate_other`), `joining` says that it spins in `join_thread`.  `fault` ends
a behaviour where the code panics, reads through NULL (`null`), frees NULL
(`wild`, the kernel thread's stack), leaves a freed thread in a list
(`dangling`) or halts for good (`hang`); the machine may run on behind the
middle three, but over memory whose contents nobody knows.  `time_quants` is
left out: only the scheduler reads it, and that halts in its first line.

`Terminal` has no variables: `Console.term` is the record its operators take
and return, and a `printf` is one step, as no interrupt handler prints.
`Console.line` is the array `command` up to `len`; `waiting` is `kbuff` as the
`Deque` that `RingBuffer` implements, with `char` the last character popped.
`Rtc.at` is the place in `read_rtc`, `date` and `last` are the six bytes and
their copies, cut down to three.  `Fat.FAT` and `hint` are the fields of the
`fat32` structure; `op` holds the variables of `write_file_fun` and
`locate_entries` under way, `disk` what each cluster holds, `spoilt` that data
was written over the table on the disk (clusters 0 and 1 are its last sectors).
`parts` and `marked` are history.

What the code does here and a reader might not expect, all of it in the models:
a scroll never moves a line into the first row (`terminal.c:47`); a newline in
the last row does not scroll, and the next character, which is the first one of
the prompt, is lost (`terminal.c:89`: `Echo` is about the others); a backspace
on an empty line is stored as a character (`stdio.c:96`); `strcmp` stops at the
end of the command's name, so `help me` is `help` (`string.c:55`); on a 12-hour
clock noon is read as 0 and midnight as 12 (`cmos.c:86`), though the comment
above it says that the hour is converted to a 24-hour clock; `destroy_thread`
takes the first thread out of its list and frees the one it was given
(`threads.c:99`, `:247`); `init_fs` keeps only the diagonal of the table
(`fat.c:69`, under "Create File Allocation Table"); `if(index)` (`fat.c:563`)
takes "no room" for found, which overwrites slot 0, and "the first two slots"
for not found, which makes an empty directory eat the volume;
`get_next_cluster_id` masks 24 bits (`fat.c:101`), so a walk along a chain
never ends, and at a cluster that is not on the disk `ata_pio_read48` polls for
ever (`ata_pio.c:134`).

Several definitions come in two forms: `X_Slip` is `X` with a slip a
programmer could make, placed before `X`.  They are not part of any
specification; each property of a passing run is known to fail when one of
them takes the place of its original.

## Runs

| run | configuration | shows |
|---|---|---|
| pages | `MCPageMap.cfg` | the packed table is the table of `Pages`; reservations, single holder, nothing set aside changes |
| pages_ends | `MCPageMap_ends.cfg` | **violated**: the page that a reserved region ends inside of stays FREE (`paging.c:52`, `:60`), and a region that ends at 4 GB is not registered at all (`paging.c:24`, `:55`): the map has one of each, and the state that TLC prints shows both, pages 5, 6 and 7 FREE in the byte 192 |
| heap | `MCHeap.cfg` | disjoint blocks on owned pages, no whole FREE page kept, no NULL from a split, a large enough and new extent from `kmalloc`, an `Allocator` |
| heap_split | `MCHeap_split.cfg` | **violated**: a block is cut at a size larger than itself (`heap.c:52`, `:253`) |
| heap_lost | `MCHeap_lost.cfg` | **violated**: the end of a freed block is in no block and its page stays USED (`heap.c:102`, `:266`) |
| containers | `MCContainers.cfg` | the list is whole in both directions and a `List`, up to the first call that reads through NULL; the buffer is a `Deque`, `full` only when the indexes meet |
| keyboard | `Keyboard.cfg` | the full bit survives every interleaving; every key is accounted for until a key comes inside a pop; a key that waits is read or overwritten, unless a key comes inside a pop while it is there, and later keys are heard again |
| console | `MCConsole.cfg` | the screen shows the line `gets` has; the date is of one moment of the read; every line is answered by a prompt |
| fat | `MCFat.cfg` | one mount that found the root marked: entries come after their data, also when the machine stops; the chains of whole files stay whole and apart, also when other files meet a full volume; only the first entry of a full directory is overwritten; a write ends |
| fat_full | `MCFat_full.cfg` | **violated**: a write into a full root directory overwrites its first entry (`fat.c:563`, `:564`) |
| threads | `Threads.cfg` | ids, lists and turns stay right, up to a `destroy_thread` of a thread that is not first in its list; creation order is running order |
| threads_robin | `Threads_robin.cfg` | **violated**: a started thread waits for ever behind the running one (`threads.c:166`) |

*Bounds and why they are enough.* `pages`: 8 pages of 2 bytes are two status
bytes, so that writes to a neighbour in a byte and across bytes both happen;
the six maps hold a hole, a hole that ends inside pages, overlaps with the
kernel, a region at the top and one beyond 32 bits. `heap`: four heap pages of
8 bytes with 2-byte headers, one request that shares a page and one that needs
two (9 bytes, 11 with its header), with and without a hole; the state space is
finite without any bound on the number of calls, every sequence of calls is
covered. Three sizes and one page more are needed only for the short gap of
`heap_split`. `containers`: a list of four nodes, so that a node is removed
with neighbours on both sides that have neighbours themselves, and nodes are
used again, and two items, which tell the order; every position from 0 to the
number of nodes is removed (no caller passes a negative one). Then a buffer of
three slots and three characters, any number of calls. `keyboard`: two slots
and four keys of every kind make the buffer overflow twice while a pop is under
way, and leave one or two keys to be heard after a race. Bounds: `MaxKeys` on
key presses; no other counter is cut off (`ClaimSizes` and `ReleaseSizes` hold
every size that makes a difference). `threads`: three ids and five threads, so
that ids run out, wrap and are used again; `MaxThreads` bounds creation, ticks
are counted modulo `Wrap`. `console`: with three rows of three characters a
line wraps after one character and `help` scrolls; five keys (`MaxKeys`) are a
command and the beginning of the next line, or one long line (`MaxLine`); two
slots overflow. A minute of three seconds and an hour of two minutes make every
read cross both; `MaxTicks`, less than a minute, bounds the updates during one
read; `MaxBlocks`, two, the lines that `memory` prints for the heap, enough to
scroll. `fat`: six entries of which the disk has three data clusters, so that
the root and one file of two clusters fill it, and the entry behind the end of
the disk can be allocated too; one mount (`MaxMounts`), three calls
(`MaxFiles`) of at most three clusters (`MaxLength`): a volume that is full, a
file that meets it so in its third cluster and frees its second, another that
takes it. The root has three slots, free or with the first one taken, so that
the second file finds it full. The memory under the table holds any combination
of free, end of chain, another cluster, and a number beyond the table. A second
mount starts from another such table, over a root directory that may be full
already; it is left to the proofs, which know no bound on mounts.

*Deadlock* is not checked where the machine really stops: a panic ends the
runs of pages and heap, a fault those of lists and threads; the shell waits
for ever once the keys are pressed, and the last mount may end.

*Fairness.*  `Threads` assumes that the timer goes on interrupting, which the
hardware does.  `Keyboard` assumes weak fairness of the kernel thread.
It is the only thread that runs, it never blocks in `gets`, and an interrupt
handler ends, so its next instruction comes.  Key presses have none.
`Console` assumes the same of the kernel thread, and that the clock ends an
update it has announced: its chip does so within two milliseconds.  `Fat`
assumes that a write under way goes on, and neither that the drive fails nor
that anybody calls.

*Conditions in `Fat`.* `EntryAfterData`, `Linked`, `EntriesKept` and `Finishes`
are stated for mounts whose table, as `init_fs` leaves it, has the root
directory as a chain of one cluster (`marked`). The code does not see to it:
`init_fs` loads the diagonal of the table only (`fat.c:69`). Nothing holds of a
root that looks free: it is given away as a file's cluster, and when its entry
is 0 `locate_entries` may go round cluster 0 for ever. `Finishes` counts a
panic as an end and the wait for a cluster that is not on the disk as none; it
does not say how much an empty directory takes: it takes all there is.
`EntriesKept` lets the first entry of a full root be overwritten, as the code
does; `fat_full` reports that (`NoEntryLost`). `EntryAfterData` and `Linked`
are stated for files whose clusters all lie in the data area (`Whole`): one
that met a full volume, or was given cluster 0 or 1 because the table called it
free, is damaged; the others are not, and that is what is checked. A damaged
file may well lead into another one: linking its last cluster to 0 frees that
cluster in the table (`fat.c:200`), while the cluster before stays linked to
it; when a later file is given it, `list_directory` counts that file's clusters
for the damaged one. So `Linked` keeps apart the clusters of whole files only.
Nothing is promised across a restart: the table is never written to the disk
(`fat.c:225`).

*What a compiler may do.* The fields of the buffer are not volatile. `Keyboard`
lets `full` and the indexes be read in either order, and lets `pop_back` use
the `end` and the slot it has in a register or read them again. With these, a
push in the middle of a pop can be taken back, be delivered twice, or leave a
slot nobody wrote, and `pop_back` may clear the full bit that a push has just
set (`buffer.c:107`): the indexes are equal then, and all that wait are
forgotten. `Accounted` and `TypedOrder` are stated for executions in which no
key came inside a pop (`~raced`). `RingConsistent` holds with races too, but
says only that the structure is in order. What a race cannot do is in `Heard`:
it is about every key that was not in the buffer when a key came inside a pop
(`exposed`), those pressed after a race included. `TypedOrder` also needs that
two keys never waited together: `gets` pops the newest first.

## Proofs

Every proof is for all values of the constants that satisfy the assumption of
the module that declares them: `PageConstants`, `PackedConstants` (the number
of pages is a multiple of four), `HeapConstants`, `RingConstants` and
`KeyboardConstants` (a buffer has a slot), `ThreadsConstants`, `FatConstants`
(the table has at least as many sectors as a sector has entries, and more
entries than the disk has clusters), `ListConstants` (finitely many nodes, NULL
none of them), `TerminalConstants`, `RtcConstants` (a read of the clock takes
less than a minute: the chip updates once a second, and twice through its
registers are some fifty port accesses) and `ConsoleConstants` (the prompt and
the names of the commands hold no newline, as in `shell.c:32` and in every
call of `register_command`; a row holds more than one character, and the rows
above the last one hold a line of `MaxLine` characters: the code has 80 columns,
24 such rows, and an array of 250 for the line; the number of keys is free).

- `PagesProofs`: types, `KernelReserved`, `RegisteredReserved`, `Exclusive`,
  `ReservedForever`. The inductive invariant is their conjunction with
  `NothingHeldBeforeBoot`. `Exclusive` is what makes it inductive: a page that
  can be handed back is held, hence USED, hence not one of those set aside; and
  a claim takes FREE pages, which nobody holds. What a range covers
  (`RegionIsWhole`, `EndedInRegion`, `KernelRegion`) comes from Euclidean
  division by a page size that is not a number.
- `PageMapProofs`: `PackedImplementsPages`, the refinement. A byte is its four
  parts (`Digits`), a write to one part leaves the others (`PackedWrite`), a
  loop of writes is one write per page (`UnpackedSet`), so every step of the
  packed table is the same step of `Pages`. With it each promise of `Pages`
  carries over to the packed bytes: `PackedTypeCorrect`,
  `PackedKernelReserved`, `PackedRegisteredReserved`, `PackedExclusive`,
  `PackedReservedNeverChanges`.
- `HeapProofs`: types, `Disjoint`, `Backed`, `NoWholeFreePage`, `NeverNull`,
  `Sufficient` and the refinement of `Allocator`. The order of the list decides
  which block a call takes, never whether the heap stays sound, so the
  invariant speaks of the *set* of listed blocks: they are apart, inside the
  address space, and over exactly the USED pages (`Laid`). It is not inductive
  without `Followed`, that a block which ends within a page has another one
  right behind it: otherwise the pages given back under a FREE block might
  leave a USED page that nothing lies in. There is one lemma per helper of
  `heap.c` (merge, split, free_pages, the claim of new pages), and the calls
  are compositions of them.
- `RingBufferProofs`: `RingImplementsDeque`, with the type invariant and
  `FullMeansMet` as its invariant: they determine how many items there are from
  the indexes, also when the indexes meet. `WrapOnce` takes the modulo away;
  one lemma per operation says what it does to the items.
- `KeyboardProofs`: types, `RingConsistent`, `Accounted`, `TypedOrder`. Two
  arguments are kept apart. For every interleaving: the full bit stands on
  indexes that differ only between `pop_back`'s store and its clear, and each
  key press pays for two characters, the one it puts into the buffer and the
  one that `pop_back` makes up when the key comes inside a pop (`Paid`), which
  bounds what gets can ever have read. As long as no key comes inside a pop:
  the keys that wait are the items of the buffer and the one that the pop under
  way has taken (`Held`). The lemmas on the buffer are those of
  `RingBufferProofs`, instantiated.
- `ThreadsProofs`: types, `Identified`, `Placed`, `Turns`, `Fifo`. The calls
  move the head of a list whatever thread they are given, so everything rests
  on which threads can be heads: the active and the waiting list are in the
  order of creation (`Ordered`), no thread is in two lists (`Apart`), and of
  the active ones only the first may have run (`Turning`). With them, moving
  the head moves the right thread, or `destroy_thread` frees a thread that is
  not the head: `Placed` says of that too what the lists then hold, all but one
  thread, and one that is freed.
- `FatProofs`: types, `EntryAfterData`, `Linked`, `NoSpace`, `EntriesKept`.
  `allocate_cluster` gives away only entries that are 0, so the invariant says
  of everything that matters that its entry is not 0: the directory is a set of
  clusters closed under the table and ending in EOC (`Chain`: it exists, no
  recursion over the chain is needed), the clusters of whole files are linked
  as their parts are (`Intact`), and the previous and the current cluster of
  the write under way end their own chain and are no other whole file's
  (`InHand`). What `put_entry` writes back into the root directory was read
  before the data was written; `Buffered` says that it is still what is there.
  The chain of a damaged file is in none of these: TLC showed that to be
  necessary, with a file of three clusters (see *Conditions in `Fat`*).
  `EntriesKept` needs of the index only that it is -1 when no pair was ever
  seen, so that the slot of a full directory is the first.

- `ShellProofs`, the list: types, `Linked`, `ListSpec`.  The invariant names
  the sequence that the pointers stand for (`Chain`: each node's `next` and
  `prev` are its neighbours there, `head` and `tail` its ends, and its nodes
  are those in use), once for both directions.  A walk along `next` is a
  recursive function, but its value after i steps is an induction over the
  steps of one list only (`WalkFollows`), so it is the chain; each call then is
  a change of one or two places of a sequence (`Unlinks`, `Neighbours`).
- `ShellProofs`, the clock: `DateTrue`, which leaves open which half of the day
  twelve o'clock on a 12-hour clock is in (the code has it wrong, `cmos.c:86`).
  The invariant names the *times* at
  which the six registers compared were read (`ReadAt`): they lie in order
  within less than a minute.  Equal seconds in both passes are then the same
  second (`SameSecond`), and the minute and the hour of the *first* pass, read
  between the two, belong to it; those of the second pass may be later, but are
  equal to them (`EqualPasses`).
- `ShellProofs`, the screen: types and `Echo`.  What stands on the screen is
  kept by every character put (`PutTells`) and taken away by a backspace
  (`ErasedTells`), as long as the next place is in a row of the screen
  (`Inside`).  A newline in the last row leaves that; but no text printed has
  two newlines in a row or begins with one (`Lines`), so that it rests there
  (`Rested`) only between two texts, and the prompt's first character scrolls.
  The cursor never falls below the beginning of the line, as it is behind at
  least `Len(line)` cells; this is where the scroll needs the rows above the
  last one to hold the line. Columns lost to backspaces are paid for by keys,
  which bounds every index. A text is written by a fold, of which the provers
  see only that a function that satisfies its equation is chosen: `FoldExists`
  shows that there is one, for every step that stays in a set, and `WriteSteps`
  gives its values one by one.

The induction theorems of the library take an operator as a parameter, which
the provers cannot instantiate.  Where the code looks for a least element (the
first free id, run of pages, entry, slot), the proofs use that the numbers are
well founded (`WFMin`), which needs none; so do the few loops whose every step
is the same (`EveryStep`).

Only model-checked:

- Liveness, which is out of the prover's reach with its fairness: `Heard`,
  `Finishes`, `Answers`, and the violated `threads_robin`.
- The five violated properties, of `pages_ends`, `heap_split`, `heap_lost`,
  `threads_robin` and `fat_full`: there TLC's counterexample is the result.

## Not modelled

The exceptions' handler, `sleep` and the set-up of the timer are left out.
`page_set`, `page_get` and `circular_buffer_destroy` have no caller. Port I/O
and the hardware tables carry no state the properties speak of; of what
`memory` prints, the lines matter and the numbers do not. The scancode table is
data: `Keyboard` starts from a key that has a character. `kfree` of a pointer
that is no block's, and `krealloc` of a freed one, are errors of a caller; no
caller makes them. `Sufficient` is about `kmalloc`; `krealloc` is an action of
`Heap`, but that it keeps the contents is not stated: blocks have none.

*Console*: the overrun of `command` by a line longer than 250 characters
(`gets` ignores its size; a line ends at `MaxLine` in the model), colours, the
hardware cursor, the digits printed. *Clock*: day, month and year, which go the
same way as the minute; the year is read (and overflows its byte, `cmos.c:95`)
but not printed. *File system*: what `identify` and the BPB say (a mount
succeeds, fails, or waits for a drive for ever); a volume that is not FAT32,
whose structure `init_fs` frees and returns (`wild`); names and attributes; the
memory the entries are read into, and a circular walk that runs out of it;
values above 0x0FFFFFFF in uninitialised memory; clusters of several sectors,
which `ata_pio_read48` reads overlapped because it advances by half a sector
(`ata_pio.c:143`); a table of fewer sectors than a sector has entries, on which
`init_fs` writes behind its block; what a deleted entry is, next to a free one;
the second half of `mkdir`, `list_directory` and `free_directory`, which only
follow a walk that does not return. The kernel calls `init_fs` in a comment
only, and `fat_shell.c` would stop in `populate_root_dir`: `Fat` is the
interface of `fat.h` used by a caller that knows the root is cluster 2.

## Plan

1. The heap's list with `prev` and `next` pointers, refining `Heap`.
2. Directory names of 8.3 form, and clusters of several sectors.
