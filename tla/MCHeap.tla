------------------------------- MODULE MCHeap -------------------------------
EXTENDS Heap
\* RAM throughout, or with a reserved page in the middle.
Maps == { {}, {[addr |-> 3 * PAGE_SIZE, len |-> PAGE_SIZE, type |-> "reserved"]} }
=============================================================================
