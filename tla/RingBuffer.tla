----------------------------- MODULE RingBuffer -----------------------------
(***************************************************************************)
(* The circular buffer used by one caller at a time: every call runs to    *)
(* its end before the next one starts.  (Keyboard has the case in which    *)
(* the keyboard interrupt pushes in the middle of a pop.)                  *)
(***************************************************************************)
EXTENDS RingOps

CONSTANT NoItem      \* the result of a call that found nothing to return

VARIABLES
  cb,         \* the buffer
  got         \* the value the last pop returned, or NoItem

vars == <<cb, got>>

Init == cb = Zeroed /\ got = NoItem

create == /\ cb.capacity = 0
          /\ cb' = circular_buffer_create(cb)
          /\ UNCHANGED got

push_back(value) == cb' = circular_buffer_push_back(cb, value) /\ UNCHANGED got

(***************************************************************************)
(* circular_buffer_pop_front and _pop_back take an item when the buffer is *)
(* valid and not empty; both else return a value that is no item, with an  *)
(* error code.                                                             *)
(***************************************************************************)
pop_front ==
  /\ circular_buffer_empty(cb) = 0
  /\ got' = cb.ptr[cb.begin]
  /\ cb' = DropFront(cb)

pop_back ==
  /\ circular_buffer_empty(cb) = 0
  /\ got' = cb.ptr[Prev1(cb.end)]
  /\ cb' = DropBack(cb)

pop_error ==
  /\ circular_buffer_empty(cb) # 0
  /\ got' = NoItem
  /\ UNCHANGED cb

Next ==
  \/ create
  \/ \E value \in Char : push_back(value)
  \/ pop_front
  \/ pop_back
  \/ pop_error

Spec == Init /\ [][Next]_vars

-----------------------------------------------------------------------------
TypeOK == cb \in Buffer /\ got \in Char \cup {NoItem}

(***************************************************************************)
(* The full bit is never set on a buffer whose indexes differ: with it a   *)
(* push would overwrite an item that is not the oldest.                    *)
(***************************************************************************)
FullMeansMet == cb.full = 1 => cb.begin = cb.end

(***************************************************************************)
(* The buffer is a Deque: wrap-around, the overwriting of the oldest item  *)
(* and the full bit lose, invent and reorder nothing else.                 *)
(***************************************************************************)
D == INSTANCE Deque WITH Capacity <- BUFFER_SIZE, Item <- Char, None <- NoItem,
                         items <- Items(cb)
DequeSpec == D!Spec
=============================================================================
