----------------------------- MODULE MCPageMap -----------------------------
(***************************************************************************)
(* An address space of 8 pages of 2 bytes (two status bytes), the first    *)
(* two of them the kernel's.                                               *)
(***************************************************************************)
EXTENDS PageMap

Reserved(a, l) == [addr |-> a, len |-> l, type |-> "reserved"]
Ram(a, l)      == [addr |-> a, len |-> l, type |-> "available"]

\* No map; a hole in RAM; a hole that starts and ends inside a page; two holes
\* that overlap the kernel's memory; the BIOS region at the very top; a region
\* above the 32-bit space, whose address is truncated into it.
Maps ==
  { {},
    {Ram(0, 10), Reserved(10, 2)},
    {Ram(0, 7), Reserved(7, 4)},
    {Reserved(1, 2), Reserved(2, 3), Ram(8, 8)},
    {Ram(0, 12), Reserved(12, 4)},
    {Ram(0, 16), Reserved(24, 4)} }

\* A region that ends inside page 5, and one that ends at the top.
MapOfEnds == { {Ram(0, 9), Reserved(9, 2), Reserved(12, 4)} }
=============================================================================
