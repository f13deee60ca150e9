----------------------------- MODULE LinkedList -----------------------------
(***************************************************************************)
(* l_list.c: the doubly linked list of the thread queues and of the        *)
(* shell's commands, node by node.  Nodes come from kmalloc and go back    *)
(* through kfree, so a node may be used again, and its contents are lost   *)
(* when it is freed.  list->size is left out: ll_init sets it to 0 and no  *)
(* function changes it.                                                    *)
(***************************************************************************)
EXTENDS Integers, Sequences, FiniteSets

CONSTANTS
  Node,       \* the nodes kmalloc can give out: a bound on the list's length
  Item,       \* the data pointers stored
  NULL,
  Garbage     \* what the memory of a freed node may hold

ASSUME ListConstants == NULL \notin Node /\ Garbage \notin Item /\ IsFiniteSet(Node)

VARIABLES
  head, tail,
  node,       \* [Node -> [data, prev, next]]
  used,       \* the nodes that kmalloc gave out and kfree has not removed back
  removed,    \* what the last removal returned
  fault       \* "null" once NULL was dereferenced: followed no further

links == <<head, tail, node, used>>
llVars == <<links, removed, fault>>

Pointer == Node \cup {NULL}
Lost == [data |-> Garbage, prev |-> Garbage, next |-> Garbage]

(***************************************************************************)
(* Types; a node in use has all three fields set, whatever its memory held *)
(* when kmalloc gave it out.                                               *)
(***************************************************************************)
ListTypeOK ==
  /\ head \in Pointer /\ tail \in Pointer
  /\ used \subseteq Node /\ DOMAIN node = Node
  /\ \A n \in used : node[n] \in [data : Item, prev : Pointer, next : Pointer]
  /\ removed \in Item \cup {Garbage}
  /\ fault \in {"none", "null"}

ll_init ==
  /\ head = NULL /\ tail = NULL
  /\ node = [n \in Node |-> Lost]
  /\ used = {}
  /\ removed = Garbage
  /\ fault = "none"

\* *p = r, or nothing when p is NULL: the code tests p first.
Assign(nodes, p, r) == [n \in Node |-> IF n = p THEN r ELSE nodes[n]]
SetPrev(nodes, p, q) == [n \in Node |-> IF n = p THEN [nodes[n] EXCEPT !.prev = q] ELSE nodes[n]]
SetNext(nodes, p, q) == [n \in Node |-> IF n = p THEN [nodes[n] EXCEPT !.next = q] ELSE nodes[n]]

-----------------------------------------------------------------------------
ll_push_front(v) ==
  /\ fault = "none"
  /\ \E n \in Node \ used :
       /\ node' = SetPrev(Assign(node, n, [data |-> v, prev |-> NULL, next |-> head]),
                          head, n)
       /\ head' = n
       /\ tail' = IF tail = NULL THEN n ELSE tail
       /\ used' = used \cup {n}
  /\ UNCHANGED <<removed, fault>>

\* Slip: the next pointer of the new last node is not set.
ll_push_back_NextLost(v) ==
  /\ fault = "none"
  /\ \E n \in Node \ used :
       /\ node' = SetNext(Assign(node, n, [data |-> v, prev |-> tail, next |-> Garbage]),
                          tail, n)
       /\ tail' = n
       /\ head' = IF head = NULL THEN n ELSE head
       /\ used' = used \cup {n}
  /\ UNCHANGED <<removed, fault>>

ll_push_back(v) ==
  /\ fault = "none"
  /\ \E n \in Node \ used :
       /\ node' = SetNext(Assign(node, n, [data |-> v, prev |-> tail, next |-> NULL]),
                          tail, n)
       /\ tail' = n
       /\ head' = IF head = NULL THEN n ELSE head
       /\ used' = used \cup {n}
  /\ UNCHANGED <<removed, fault>>

\* kfree of a node, of which nothing is read later.
Freed(nodes, n) == node' = Assign(nodes, n, Lost) /\ used' = used \ {n}

ll_pop_front ==
  /\ fault = "none" /\ head # NULL
  /\ head' = node[head].next
  /\ tail' = IF node[head].next = NULL THEN NULL ELSE tail
  /\ removed' = node[head].data
  /\ Freed(SetPrev(node, node[head].next, NULL), head)
  /\ UNCHANGED fault

\* Slip: the list of one node keeps its head.
ll_pop_back_HeadStays ==
  /\ fault = "none" /\ tail # NULL
  /\ tail' = node[tail].prev
  /\ removed' = node[tail].data
  /\ Freed(SetNext(node, node[tail].prev, NULL), tail)
  /\ UNCHANGED <<head, fault>>

ll_pop_back ==
  /\ fault = "none" /\ tail # NULL
  /\ tail' = node[tail].prev
  /\ head' = IF node[tail].prev = NULL THEN NULL ELSE head
  /\ removed' = node[tail].data
  /\ Freed(SetNext(node, node[tail].prev, NULL), tail)
  /\ UNCHANGED fault

(***************************************************************************)
(* Neither pop looks whether the list is empty: both read through NULL.    *)
(* ll_clear, and ll_destroy with it, pops until a pop returns NULL, which  *)
(* is one pop too many.                                                    *)
(***************************************************************************)
pop_empty ==
  /\ fault = "none" /\ head = NULL
  /\ fault' = "null"
  /\ UNCHANGED <<links, removed>>

ll_clear ==
  /\ fault = "none" /\ head # NULL
  /\ head' = NULL /\ tail' = NULL
  /\ node' = [n \in Node |-> Lost] /\ used' = {}
  /\ fault' = "null"
  /\ UNCHANGED removed

-----------------------------------------------------------------------------
\* The node that the loop of ll_remove and of ll_get ends at.
Walk(pos) ==
  LET walk[i \in 0 .. pos] ==
        IF i = 0 THEN head
        ELSE IF walk[i - 1] \notin Node THEN NULL ELSE node[walk[i - 1]].next
  IN walk[pos]

Length == Cardinality({i \in 0 .. Cardinality(Node) - 1 : Walk(i) \in Node})
Contents == [i \in 1 .. Length |-> node[Walk(i - 1)].data]

(***************************************************************************)
(* ll_remove from between two nodes; the ends are the two pops.  The data  *)
(* is read after the node was freed: it may be lost by then.               *)
(***************************************************************************)
\* Slip: the next node keeps its pointer to the removed one.
Unlinked_PrevStays(n) == SetNext(node, node[n].prev, node[n].next)

Unlinked(n) ==
  SetPrev(SetNext(node, node[n].prev, node[n].next), node[n].next, node[n].prev)

ll_remove_middle(pos) ==
  /\ fault = "none"
  /\ pos > 0 /\ pos < Length - 1
  /\ removed' \in {node[Walk(pos)].data, Garbage}
  /\ Freed(Unlinked(Walk(pos)), Walk(pos))
  /\ UNCHANGED <<head, tail, fault>>

\* From a position behind the last node ll_remove walks to NULL and reads it.
ll_remove_beyond(pos) ==
  /\ fault = "none"
  /\ pos > 0 /\ pos >= Length
  /\ fault' = "null"
  /\ UNCHANGED <<links, removed>>

ll_call ==
  \/ \E v \in Item : ll_push_front(v) \/ ll_push_back(v)
  \/ ll_pop_front
  \/ ll_pop_back
  \/ pop_empty
  \/ ll_clear
  \/ \E pos \in 0 .. Cardinality(Node) - 1 : ll_remove_middle(pos)
  \/ \E pos \in 1 .. Cardinality(Node) : ll_remove_beyond(pos)

LinkedSpec == ll_init /\ [][ll_call]_llVars

-----------------------------------------------------------------------------
(***************************************************************************)
(* The list reads the same from both ends, and its nodes are exactly those *)
(* that kmalloc gave out: no removal leaves a pointer to freed memory or   *)
(* loses a node.                                                           *)
(***************************************************************************)
Linked ==
  /\ {Walk(i) : i \in 0 .. Length - 1} = used /\ Cardinality(used) = Length
  /\ tail = IF Length = 0 THEN NULL ELSE Walk(Length - 1)
  /\ \A i \in 0 .. Length - 1 :
       node[Walk(i)].prev = IF i = 0 THEN NULL ELSE Walk(i - 1)

(***************************************************************************)
(* The nodes are a List, up to the first call that reads through NULL.     *)
(***************************************************************************)
L == INSTANCE List WITH items <- Contents, got <- removed, Anything <- Garbage
ListSpec == L!Init /\ [][fault' = "none" => L!Next]_<<Contents, removed>>
=============================================================================
