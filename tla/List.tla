-------------------------------- MODULE List --------------------------------
(***************************************************************************)
(* What l_list.c promises its clients: a sequence that grows and shrinks   *)
(* at both ends and loses items anywhere.                                  *)
(***************************************************************************)
EXTENDS Integers, Sequences, SequencesExt

CONSTANTS Item, Anything    \* items, and what memory given back may hold

VARIABLES
  items,      \* the sequence, head first
  got         \* what the last removal returned

listVars == <<items, got>>

Init == items = <<>> /\ got = Anything

PushFront(v) == items' = <<v>> \o items /\ UNCHANGED got
PushBack(v)  == items' = Append(items, v) /\ UNCHANGED got

\* The value of an item taken from between two others is not promised.
TakeAt(i) ==
  /\ items' = RemoveAt(items, i)
  /\ \/ got' = items[i]
     \/ 1 < i /\ i < Len(items) /\ got' = Anything

Next ==
  \/ \E v \in Item : PushFront(v) \/ PushBack(v)
  \/ \E i \in 1 .. Len(items) : TakeAt(i)

Spec == Init /\ [][Next]_listVars
=============================================================================
