------------------------------- MODULE Deque -------------------------------
(***************************************************************************)
(* What the circular buffer promises a caller that is alone: a bounded     *)
(* sequence that takes items at its back, forgets its oldest item rather   *)
(* than refuse a new one, and gives items back from either end.            *)
(***************************************************************************)
EXTENDS Integers, Sequences

CONSTANTS Capacity, Item, None

VARIABLES
  items,      \* the sequence, oldest first
  got         \* what the last removal returned, None when there was nothing

dequeVars == <<items, got>>

Init == items = <<>> /\ got = None

Recent(s) == IF Len(s) > Capacity THEN Tail(s) ELSE s

PushBack(v) == items' = Recent(Append(items, v)) /\ UNCHANGED got

PopFront ==
  /\ items # <<>>
  /\ got' = items[1]
  /\ items' = Tail(items)

PopBack ==
  /\ items # <<>>
  /\ got' = items[Len(items)]
  /\ items' = SubSeq(items, 1, Len(items) - 1)

PopNothing == items = <<>> /\ got' = None /\ UNCHANGED items

Next == (\E v \in Item : PushBack(v)) \/ PopFront \/ PopBack \/ PopNothing

Spec == Init /\ [][Next]_dequeVars
=============================================================================
