------------------------------ MODULE RingOps ------------------------------
(***************************************************************************)
(* buffer.c: the circular buffer of characters.  A buffer is the record    *)
(* the C structure is: the slots, the indexes of its first item and of the *)
(* slot behind its last, its capacity, and the bit that tells a full       *)
(* buffer from an empty one when the indexes meet.                         *)
(***************************************************************************)
EXTENDS Integers, Sequences

CONSTANTS
  BUFFER_SIZE,    \* slots (256 in buffer.h)
  Char,           \* what a slot can hold
  Nul             \* what the zeroed slots hold at first

ASSUME RingConstants == BUFFER_SIZE \in Nat \ {0} /\ Nul \in Char

Slot == 0 .. BUFFER_SIZE - 1

Buffer == [ptr : [Slot -> Char], begin : Slot, end : Slot,
           capacity : {0, BUFFER_SIZE}, full : {0, 1}]

\* The static buffer before circular_buffer_create: all zero, capacity too.
Zeroed == [ptr |-> [i \in Slot |-> Nul], begin |-> 0, end |-> 0,
           capacity |-> 0, full |-> 0]

\* Slip: the index is not taken modulo the capacity.
Next1_NoWrap(x) == x + 1

\* x + 1 and x - 1 modulo the capacity.
Next1(x) == (x + 1) % BUFFER_SIZE
Prev1(x) == (x + BUFFER_SIZE - 1) % BUFFER_SIZE

\* The check every function opens with.
Invalid(b) == b.capacity = 0 \/ b.begin >= b.capacity \/ b.end >= b.capacity

circular_buffer_empty(b) ==
  IF Invalid(b) THEN -1 ELSE IF b.full = 0 /\ b.end = b.begin THEN 1 ELSE 0

circular_buffer_create(b) ==
  [b EXCEPT !.begin = 0, !.end = 0, !.capacity = BUFFER_SIZE, !.full = 0]

FullBit(begin, end) == IF end = begin THEN 1 ELSE 0

\* Slip: begin stays when the oldest item is overwritten.
push_back_BeginStays(b, value) ==
  IF Invalid(b) THEN b
  ELSE [b EXCEPT !.ptr[b.end] = value, !.end = Next1(@),
                 !.full = FullBit(b.begin, Next1(b.end))]

\* A full buffer gives up its oldest item.
circular_buffer_push_back(b, value) ==
  LET slot  == IF b.full = 0 THEN b.end ELSE b.begin
      begin == IF b.full = 0 THEN b.begin ELSE Next1(b.begin)
  IN IF Invalid(b) THEN b
     ELSE [b EXCEPT !.ptr[slot] = value, !.begin = begin, !.end = Next1(@),
                    !.full = FullBit(begin, Next1(b.end))]

\* Slip: the full bit survives a removal.
DropBack_StaysFull(b) == [b EXCEPT !.end = Prev1(@)]

\* The two removals, on a buffer that is valid and not empty.
DropFront(b) == [b EXCEPT !.begin = Next1(@), !.full = 0]
DropBack(b)  == [b EXCEPT !.end = Prev1(@), !.full = 0]

\* How many items the indexes enclose, and the items, oldest first.
Count(b) == IF b.full = 1 THEN BUFFER_SIZE
            ELSE (b.end + BUFFER_SIZE - b.begin) % BUFFER_SIZE
Items(b) == [k \in 1 .. Count(b) |-> b.ptr[(b.begin + k - 1) % BUFFER_SIZE]]
=============================================================================
