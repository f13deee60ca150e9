----------------------------- MODULE ShellProofs -----------------------------
(***************************************************************************)
(* The shell: the list its commands are kept in, the clock it asks for the *)
(* date, and the screen it writes to.                                      *)
(***************************************************************************)
EXTENDS Console, LinkedList, SequenceTheorems, FiniteSetTheorems, WellFoundedInduction, TLAPS

-----------------------------------------------------------------------------
(***************************************************************************)
(* Induction over the steps of a loop, as a fact about sets of numbers.    *)
(***************************************************************************)
LEMMA SmallestNumber ==
  ASSUME NEW S \in SUBSET Nat, S # {}
  PROVE  \E n \in S : \A x \in S : n <= x
<1> DEFINE Less == OpToRel(<, Nat)
<1>1. IsWellFoundedOn(Less, Nat)
  BY NatLessThanWellFounded
<1>2. \A x, y \in Nat : x < y => <<x, y>> \in Less
  BY DEF OpToRel
<1> HIDE DEF Less
<1>3. PICK n \in S : \A x \in S : <<x, n>> \notin Less
  BY <1>1, WFMin
<1>4. ASSUME NEW x \in S PROVE n <= x
  <2>1. n \in Nat /\ x \in Nat
    OBVIOUS
  <2>2. ~(x < n)
    BY <1>2, <1>3, <2>1
  <2> QED BY <2>1, <2>2
<1> QED BY <1>4

\* A set that holds 0, and with a number below n the next one, holds 0 .. n.
LEMMA EveryStep ==
  ASSUME NEW n \in Nat, NEW S, 0 \in S, \A i \in 0 .. n - 1 : i \in S => i + 1 \in S
  PROVE  0 .. n \subseteq S
<1> DEFINE Missing == (0 .. n) \ S
<1> SUFFICES ASSUME Missing # {} PROVE FALSE
  OBVIOUS
<1>1. Missing \in SUBSET Nat
  OBVIOUS
<1>2. PICK m \in Missing : \A x \in Missing : m <= x
  BY <1>1, SmallestNumber
<1>3. m \in 1 .. n /\ m \notin S
  BY <1>2
<1>4. m - 1 \in 0 .. n - 1 /\ m - 1 \in S
  BY <1>2, <1>3
<1> QED BY <1>3, <1>4

-----------------------------------------------------------------------------
(***************************************************************************)
(* The linked list.  The invariant names the sequence of nodes that the    *)
(* pointers stand for; a walk follows it.                                  *)
(***************************************************************************)
Follows(q, i) == IF i < Len(q) THEN q[i + 1] ELSE NULL
Precedes(q, i) == IF 1 < i THEN q[i - 1] ELSE NULL

Chain(q) ==
  /\ q \in Seq(Node)
  /\ \A i, j \in 1 .. Len(q) : q[i] = q[j] => i = j
  /\ used = {q[i] : i \in 1 .. Len(q)}
  /\ head = Follows(q, 0)
  /\ tail = IF Len(q) = 0 THEN NULL ELSE q[Len(q)]
  /\ \A i \in 1 .. Len(q) :
       /\ node[q[i]] \in [data : Item, prev : Pointer, next : Pointer]
       /\ node[q[i]].next = Follows(q, i)
       /\ node[q[i]].prev = Precedes(q, i)

ListInv ==
  /\ removed \in Item \cup {Garbage}
  /\ fault \in {"none", "null"}
  /\ DOMAIN node = Node
  /\ \E q : Chain(q)

\* The walk from the head visits the nodes in order, then stays at NULL.
LEMMA WalkFollows ==
  ASSUME NEW q, Chain(q), NEW pos \in Nat
  PROVE  Walk(pos) = Follows(q, pos)
<1> DEFINE Step(f, i) == IF i = 0 THEN head
                         ELSE IF f[i - 1] \notin Node THEN NULL ELSE node[f[i - 1]].next
           Steps(f) == f = [i \in 0 .. pos |-> Step(f, i)]
           w == [i \in 0 .. pos |-> Follows(q, i)]
           walk == CHOOSE f : Steps(f)
<1>1. Walk(pos) = walk[pos]
  BY DEF Walk
<1>2. ASSUME NEW i \in 1 .. pos
      PROVE  IF Follows(q, i - 1) \notin Node THEN Follows(q, i) = NULL
             ELSE Follows(q, i) = node[Follows(q, i - 1)].next
  <2>1. CASE i - 1 < Len(q)
    <3>1. q[i] \in Node /\ i \in 1 .. Len(q) /\ Follows(q, i - 1) = q[i]
      BY <2>1 DEF Chain, Follows
    <3> QED BY <3>1 DEF Chain
  <2>2. CASE ~(i - 1 < Len(q))
    BY <2>2, ListConstants DEF Chain, Follows
  <2> QED BY <2>1, <2>2
<1>3. Steps(w)
  <2>1. ASSUME NEW i \in 0 .. pos PROVE w[i] = Step(w, i)
    <3>1. CASE i = 0
      BY <3>1 DEF Chain
    <3>2. CASE i # 0
      <4>1. i \in 1 .. pos /\ i - 1 \in 0 .. pos
        BY <3>2
      <4>2. w[i] = Follows(q, i) /\ w[i - 1] = Follows(q, i - 1)
        BY <4>1
      <4> QED BY <1>2, <3>2, <4>1, <4>2
    <3> QED BY <3>1, <3>2
  <2> QED BY <2>1
<1>4. Steps(walk)
  BY <1>3
<1> HIDE DEF walk, w
<1>5. \A i \in 0 .. pos : walk[i] = Step(walk, i)
  BY <1>4
<1>6. \A i \in 0 .. pos : w[i] = Step(w, i)
  BY <1>3
<1> DEFINE Same == {i \in 0 .. pos : walk[i] = w[i]}
<1>7. 0 \in Same
  BY <1>5, <1>6
<1>8. ASSUME NEW i \in 0 .. pos - 1, i \in Same PROVE i + 1 \in Same
  <2>1. i + 1 \in 0 .. pos /\ i + 1 # 0 /\ (i + 1) - 1 = i
    OBVIOUS
  <2>2. walk[i + 1] = Step(walk, i + 1) /\ w[i + 1] = Step(w, i + 1)
    BY <1>5, <1>6, <2>1
  <2> QED BY <1>8, <2>1, <2>2
<1>9. 0 .. pos \subseteq Same
  BY <1>7, <1>8, EveryStep
<1>10. walk[pos] = w[pos] /\ w[pos] = Follows(q, pos)
  BY <1>9 DEF w
<1> QED BY <1>1, <1>10

LEMMA ChainLength ==
  ASSUME NEW q, Chain(q)
  PROVE  /\ Len(q) \in Nat /\ Len(q) <= Cardinality(Node) /\ Cardinality(Node) \in Nat
         /\ Cardinality(used) = Len(q)
         /\ Length = Len(q)
<1>1. q \in Seq(Node) /\ Len(q) \in Nat /\ q \in [1 .. Len(q) -> Node]
  BY LenProperties DEF Chain
<1>2. Cardinality(Node) \in Nat /\ IsFiniteSet(used) /\ Cardinality(used) <= Cardinality(Node)
  <2>1. used \in SUBSET Node
    BY <1>1 DEF Chain
  <2> QED BY <2>1, ListConstants, FS_CardinalityType, FS_Subset
<1>3. Cardinality(used) = Len(q)
  <2>1. q \in Bijection(1 .. Len(q), used)
    <3>1. q \in [1 .. Len(q) -> used]
      BY <1>1 DEF Chain
    <3>2. \A n \in used : \E i \in 1 .. Len(q) : q[i] = n
      BY DEF Chain
    <3>3. \A i, j \in 1 .. Len(q) : q[i] = q[j] => i = j
      BY DEF Chain
    <3> QED BY <3>1, <3>2, <3>3 DEF Bijection, Injection, Surjection, IsInjective
  <2>2. ExistsBijection(1 .. Len(q), used)
    BY <2>1 DEF ExistsBijection
  <2>3. IsFiniteSet(1 .. Len(q)) /\ Cardinality(1 .. Len(q)) = Len(q)
    BY <1>1, FS_Interval
  <2> QED BY <2>2, <2>3, FS_Bijection
<1> DEFINE card == Cardinality(Node)
<1>4. {i \in 0 .. card - 1 : Walk(i) \in Node} = 0 .. Len(q) - 1
  <2>1. ASSUME NEW i \in 0 .. card - 1
        PROVE  Walk(i) \in Node <=> i < Len(q)
    <3>1. i \in Nat
      OBVIOUS
    <3>2. Walk(i) = Follows(q, i)
      BY <3>1, WalkFollows
    <3>3. i < Len(q) => q[i + 1] \in Node
      BY <1>1, <3>1
    <3> QED BY <3>2, <3>3, ListConstants DEF Follows
  <2>2. Len(q) <= card /\ card \in Nat
    BY <1>2, <1>3
  <2> HIDE DEF card
  <2> QED BY <1>1, <2>1, <2>2
<1>5. Cardinality(0 .. Len(q) - 1) = Len(q)
  BY <1>1, FS_Interval
<1> QED BY <1>1, <1>2, <1>3, <1>4, <1>5 DEF Length

\* The data in the order of the nodes.
LEMMA ChainItems ==
  ASSUME NEW q, Chain(q)
  PROVE  /\ Contents \in Seq(Item) /\ Len(Contents) = Len(q)
         /\ \A i \in 1 .. Len(q) : Contents[i] = node[q[i]].data
<1>1. Length = Len(q) /\ Len(q) \in Nat
  BY ChainLength
<1>2. ASSUME NEW i \in 1 .. Len(q)
      PROVE  Walk(i - 1) = q[i] /\ node[q[i]].data \in Item
  <2>1. i - 1 \in Nat /\ i - 1 < Len(q)
    BY <1>1
  <2>2. Walk(i - 1) = q[i]
    BY <2>1, WalkFollows DEF Follows
  <2> QED BY <2>2 DEF Chain
<1>3. Contents = [i \in 1 .. Len(q) |-> node[Walk(i - 1)].data]
  BY <1>1 DEF Contents
<1>4. Contents \in [1 .. Len(q) -> Item]
  BY <1>2, <1>3
<1>5. Contents \in Seq(Item) /\ Len(Contents) = Len(q)
  BY <1>1, <1>4
<1> QED BY <1>2, <1>3, <1>5

LEMMA ChainTyped ==
  ASSUME ListInv
  PROVE  ListTypeOK
<1>1. PICK q : Chain(q)
  BY DEF ListInv
<1>2. q \in Seq(Node) /\ Len(q) \in Nat /\ \A i \in 1 .. Len(q) : q[i] \in Node
  BY <1>1 DEF Chain
<1>3. head \in Pointer /\ tail \in Pointer /\ used \subseteq Node
  BY <1>1, <1>2 DEF Chain, Follows, Pointer
<1>4. \A n \in used : node[n] \in [data : Item, prev : Pointer, next : Pointer]
  BY <1>1 DEF Chain
<1> QED BY <1>3, <1>4 DEF ListTypeOK, ListInv

LEMMA ChainLinked ==
  ASSUME ListInv
  PROVE  Linked
<1>1. PICK q : Chain(q)
  BY DEF ListInv
<1>2. Length = Len(q) /\ Cardinality(used) = Len(q) /\ Len(q) \in Nat
  BY <1>1, ChainLength
<1>3. \A i \in 0 .. Len(q) - 1 : Walk(i) = q[i + 1]
  BY <1>1, <1>2, WalkFollows DEF Follows
<1>4. {Walk(i) : i \in 0 .. Len(q) - 1} = used
  <2>1. used = {q[i] : i \in 1 .. Len(q)}
    BY <1>1 DEF Chain
  <2>2. ASSUME NEW i \in 1 .. Len(q) PROVE i - 1 \in 0 .. Len(q) - 1 /\ Walk(i - 1) = q[i]
    BY <1>2, <1>3
  <2>3. ASSUME NEW i \in 0 .. Len(q) - 1 PROVE i + 1 \in 1 .. Len(q) /\ Walk(i) = q[i + 1]
    BY <1>2, <1>3
  <2> QED BY <2>1, <2>2, <2>3
<1>5. tail = IF Len(q) = 0 THEN NULL ELSE Walk(Len(q) - 1)
  BY <1>1, <1>2, <1>3 DEF Chain
<1>6. ASSUME NEW i \in 0 .. Len(q) - 1
      PROVE  node[Walk(i)].prev = IF i = 0 THEN NULL ELSE Walk(i - 1)
  <2>1. Walk(i) = q[i + 1] /\ i + 1 \in 1 .. Len(q)
    BY <1>2, <1>3
  <2>2. node[q[i + 1]].prev = IF 1 < i + 1 THEN q[(i + 1) - 1] ELSE NULL
    BY <1>1, <2>1 DEF Chain, Precedes
  <2>3. i # 0 => Walk(i - 1) = q[i]
    BY <1>2, <1>3
  <2> QED BY <2>1, <2>2, <2>3
<1> QED BY <1>2, <1>4, <1>5, <1>6 DEF Linked

(***************************************************************************)
(* The same, said of every state, the next one included.                   *)
(***************************************************************************)
ChainsHoldItems ==
  \A q : Chain(q) => /\ Contents \in Seq(Item) /\ Len(Contents) = Len(q) /\ Length = Len(q)
                     /\ \A i \in 1 .. Len(q) : Contents[i] = node[q[i]].data

LEMMA ChainsNow == ChainsHoldItems
  BY ChainItems, ChainLength DEF ChainsHoldItems

LEMMA ChainsNext == ChainsHoldItems'
  BY ChainsNow, PTL

-----------------------------------------------------------------------------
(***************************************************************************)
(* Writes to one field of a node.                                          *)
(***************************************************************************)
NodeRecord == [data : Item, prev : Pointer, next : Pointer]

LEMMA FieldsSet ==
  ASSUME NEW r \in NodeRecord, NEW p \in Pointer
  PROVE  /\ [r EXCEPT !.prev = p] \in NodeRecord
         /\ [r EXCEPT !.prev = p].data = r.data
         /\ [r EXCEPT !.prev = p].next = r.next
         /\ [r EXCEPT !.prev = p].prev = p
         /\ [r EXCEPT !.next = p] \in NodeRecord
         /\ [r EXCEPT !.next = p].data = r.data
         /\ [r EXCEPT !.next = p].prev = r.prev
         /\ [r EXCEPT !.next = p].next = p
  BY DEF NodeRecord

LEMMA PrevSet ==
  ASSUME NEW nodes, NEW p, NEW q \in Pointer, NEW m \in Node, nodes[m] \in NodeRecord
  PROVE  /\ SetPrev(nodes, p, q)[m] \in NodeRecord
         /\ SetPrev(nodes, p, q)[m].data = nodes[m].data
         /\ SetPrev(nodes, p, q)[m].next = nodes[m].next
         /\ SetPrev(nodes, p, q)[m].prev = IF m = p THEN q ELSE nodes[m].prev
<1>1. CASE m = p
  <2>1. PICK r \in NodeRecord : r = nodes[m]
    OBVIOUS
  <2>2. PICK t : t = [r EXCEPT !.prev = q]
    OBVIOUS
  <2>3. SetPrev(nodes, p, q)[m] = t
    BY <1>1, <2>1, <2>2 DEF SetPrev
  <2>4. t \in NodeRecord /\ t.data = r.data /\ t.prev = q /\ t.next = r.next
    BY <2>2, FieldsSet
  <2> QED BY <1>1, <2>1, <2>3, <2>4
<1>2. CASE m # p
  BY <1>2 DEF SetPrev
<1> QED BY <1>1, <1>2

LEMMA NextSet ==
  ASSUME NEW nodes, NEW p, NEW q \in Pointer, NEW m \in Node, nodes[m] \in NodeRecord
  PROVE  /\ SetNext(nodes, p, q)[m] \in NodeRecord
         /\ SetNext(nodes, p, q)[m].data = nodes[m].data
         /\ SetNext(nodes, p, q)[m].prev = nodes[m].prev
         /\ SetNext(nodes, p, q)[m].next = IF m = p THEN q ELSE nodes[m].next
<1>1. CASE m = p
  <2>1. PICK r \in NodeRecord : r = nodes[m]
    OBVIOUS
  <2>2. PICK t : t = [r EXCEPT !.next = q]
    OBVIOUS
  <2>3. SetNext(nodes, p, q)[m] = t
    BY <1>1, <2>1, <2>2 DEF SetNext
  <2>4. t \in NodeRecord /\ t.data = r.data /\ t.next = q /\ t.prev = r.prev
    BY <2>2, FieldsSet
  <2> QED BY <1>1, <2>1, <2>3, <2>4
<1>2. CASE m # p
  BY <1>2 DEF SetNext
<1> QED BY <1>1, <1>2

LEMMA RemoveFacts ==
  ASSUME NEW S, NEW s \in Seq(S), NEW k \in 1 .. Len(s)
  PROVE  /\ RemoveAt(s, k) \in Seq(S) /\ Len(RemoveAt(s, k)) = Len(s) - 1
         /\ \A j \in 1 .. Len(s) - 1 :
              RemoveAt(s, k)[j] = IF j < k THEN s[j] ELSE s[j + 1]
<1>0. Len(s) \in Nat /\ \A j \in 1 .. Len(s) : s[j] \in S
  OBVIOUS
<1>1. PICK p : p = SubSeq(s, 1, k - 1)
  OBVIOUS
<1>2. p \in Seq(S) /\ Len(p) = k - 1 /\ \A j \in 1 .. k - 1 : p[j] = s[j]
  BY <1>0, <1>1
<1>3. PICK r : r = SubSeq(s, k + 1, Len(s))
  OBVIOUS
<1>4. r \in Seq(S) /\ Len(r) = Len(s) - k /\ \A j \in 1 .. Len(s) - k : r[j] = s[k + j]
  BY <1>0, <1>3
<1>5. PICK t : t = p \o r
  OBVIOUS
<1>6. t \in Seq(S) /\ Len(t) = Len(s) - 1
  BY <1>0, <1>2, <1>4, <1>5
<1>7. ASSUME NEW j \in 1 .. Len(s) - 1
      PROVE  t[j] = IF j < k THEN s[j] ELSE s[j + 1]
  <2>1. CASE j < k
    BY <1>2, <1>4, <1>5, <2>1
  <2>2. CASE j >= k
    <3>1. t[j] = r[j - k + 1]
      BY <1>2, <1>4, <1>5, <2>2
    <3> QED BY <1>4, <2>2, <3>1
  <2> QED BY <2>1, <2>2
<1>8. RemoveAt(s, k) = t
  BY <1>1, <1>3, <1>5 DEF RemoveAt
<1> QED BY <1>6, <1>7, <1>8

(***************************************************************************)
(* What each of the three removals does to the nodes: the k-th goes, and   *)
(* its neighbours are linked.                                              *)
(***************************************************************************)
Unlinks(q, k) ==
  /\ head' = IF k = 1 THEN Follows(q, 1) ELSE head
  /\ tail' = IF k = Len(q) THEN Precedes(q, k) ELSE tail
  /\ used' = used \ {q[k]}
  /\ \A i \in (1 .. Len(q)) \ {k} :
       /\ node'[q[i]] \in NodeRecord
       /\ node'[q[i]].data = node[q[i]].data
       /\ node'[q[i]].next = IF i = k - 1 THEN Follows(q, k) ELSE node[q[i]].next
       /\ node'[q[i]].prev = IF i = k + 1 THEN Precedes(q, k) ELSE node[q[i]].prev

LEMMA UnlinkedChain ==
  ASSUME NEW q, Chain(q), NEW k \in 1 .. Len(q), Unlinks(q, k)
  PROVE  /\ Chain(RemoveAt(q, k))'
         /\ Contents' = RemoveAt(Contents, k)
<1>1. PICK p : p = RemoveAt(q, k)
  OBVIOUS
<1>2. q \in Seq(Node) /\ Len(q) \in Nat /\ \A i \in 1 .. Len(q) : q[i] \in Node
  BY DEF Chain
<1>3. /\ p \in Seq(Node) /\ Len(p) = Len(q) - 1
      /\ \A j \in 1 .. Len(p) : p[j] = IF j < k THEN q[j] ELSE q[j + 1]
  BY <1>1, <1>2, RemoveFacts
<1> DEFINE old(j) == IF j < k THEN j ELSE j + 1
<1>4. \A j \in 1 .. Len(p) : old(j) \in (1 .. Len(q)) \ {k} /\ p[j] = q[old(j)]
  BY <1>2, <1>3
<1>5. \A i, j \in 1 .. Len(p) : p[i] = p[j] => i = j
  <2>1. ASSUME NEW i \in 1 .. Len(p), NEW j \in 1 .. Len(p), p[i] = p[j] PROVE i = j
    <3>1. q[old(i)] = q[old(j)] /\ old(i) \in 1 .. Len(q) /\ old(j) \in 1 .. Len(q)
      BY <1>4, <2>1
    <3>2. old(i) = old(j)
      BY <3>1 DEF Chain
    <3> QED BY <1>2, <3>2
  <2> QED BY <2>1
<1>6. used' = {p[j] : j \in 1 .. Len(p)}
  <2>1. ASSUME NEW j \in 1 .. Len(p) PROVE p[j] \in used'
    BY <1>4 DEF Chain, Unlinks
  <2>2. ASSUME NEW n \in used' PROVE \E j \in 1 .. Len(p) : n = p[j]
    <3>1. PICK i \in 1 .. Len(q) : n = q[i] /\ i # k
      BY DEF Chain, Unlinks
    <3> DEFINE j == IF i < k THEN i ELSE i - 1
    <3>2. j \in 1 .. Len(p) /\ old(j) = i
      BY <1>2, <1>3, <3>1
    <3> QED BY <1>4, <3>1, <3>2
  <2> QED BY <2>1, <2>2
<1>7. head' = Follows(p, 0)
  BY <1>2, <1>3 DEF Chain, Unlinks, Follows
<1>8. tail' = IF Len(p) = 0 THEN NULL ELSE p[Len(p)]
  BY <1>2, <1>3 DEF Chain, Unlinks, Precedes
<1>9. ASSUME NEW j \in 1 .. Len(p)
      PROVE  /\ node'[p[j]] \in NodeRecord
             /\ node'[p[j]].data = node[p[j]].data
             /\ node'[p[j]].next = Follows(p, j)
             /\ node'[p[j]].prev = Precedes(p, j)
  <2>1. PICK i : i = old(j)
    OBVIOUS
  <2>2. i \in (1 .. Len(q)) \ {k} /\ p[j] = q[i]
    BY <1>4, <2>1
  <2>3. /\ node'[q[i]] \in NodeRecord
        /\ node'[q[i]].data = node[q[i]].data
        /\ node'[q[i]].next = IF i = k - 1 THEN Follows(q, k) ELSE node[q[i]].next
        /\ node'[q[i]].prev = IF i = k + 1 THEN Precedes(q, k) ELSE node[q[i]].prev
    BY <2>2 DEF Unlinks
  <2>4. node[q[i]].next = Follows(q, i) /\ node[q[i]].prev = Precedes(q, i)
    BY <2>2 DEF Chain
  <2>5. Follows(p, j) = IF i = k - 1 THEN Follows(q, k) ELSE Follows(q, i)
    BY <1>2, <1>3, <2>1, <2>2 DEF Follows
  <2>6. Precedes(p, j) = IF i = k + 1 THEN Precedes(q, k) ELSE Precedes(q, i)
    BY <1>2, <1>3, <2>1, <2>2 DEF Precedes
  <2> QED BY <2>2, <2>3, <2>4, <2>5, <2>6
<1>10. Chain(p)'
  BY <1>3, <1>5, <1>6, <1>7, <1>8, <1>9 DEF Chain, NodeRecord
<1>11. Contents' = RemoveAt(Contents, k)
  <2>1. /\ Contents' \in Seq(Item) /\ Len(Contents') = Len(p)
        /\ \A j \in 1 .. Len(p) : Contents'[j] = node'[p[j]].data
    BY <1>10, ChainsNext DEF ChainsHoldItems
  <2>2. /\ Contents \in Seq(Item) /\ Len(Contents) = Len(q)
        /\ \A i \in 1 .. Len(q) : Contents[i] = node[q[i]].data
    BY ChainItems
  <2>3. /\ RemoveAt(Contents, k) \in Seq(Item) /\ Len(RemoveAt(Contents, k)) = Len(p)
        /\ \A j \in 1 .. Len(p) : RemoveAt(Contents, k)[j] = Contents[old(j)]
    BY <1>3, <2>2, RemoveFacts
  <2>4. \A j \in 1 .. Len(p) : Contents'[j] = RemoveAt(Contents, k)[j]
    BY <1>4, <1>9, <2>1, <2>2, <2>3
  <2> QED BY <2>1, <2>3, <2>4, SeqEqual
<1> QED BY <1>1, <1>10, <1>11

-----------------------------------------------------------------------------
(***************************************************************************)
(* The operations, one by one.                                             *)
(***************************************************************************)
LEMMA PointersTyped ==
  ASSUME NEW q, Chain(q), NEW i \in Nat
  PROVE  Follows(q, i) \in Pointer /\ (i <= Len(q) + 1 => Precedes(q, i) \in Pointer)
<1>1. q \in Seq(Node) /\ Len(q) \in Nat /\ \A j \in 1 .. Len(q) : q[j] \in Node
  BY DEF Chain
<1> QED BY <1>1 DEF Follows, Precedes, Pointer

LEMMA PushedFront ==
  ASSUME NEW q, Chain(q), NEW v \in Item, ll_push_front(v)
  PROVE  (\E p : Chain(p))' /\ DOMAIN node' = Node /\ Contents' = <<v>> \o Contents
<1>1. /\ q \in Seq(Node) /\ Len(q) \in Nat /\ \A j \in 1 .. Len(q) : q[j] \in Node
      /\ \A j \in 1 .. Len(q) : q[j] \in used
  BY DEF Chain
<1>2. PICK n \in Node \ used :
        /\ node' = SetPrev(Assign(node, n, [data |-> v, prev |-> NULL, next |-> head]),
                           head, n)
        /\ head' = n
        /\ tail' = IF tail = NULL THEN n ELSE tail
        /\ used' = used \cup {n}
  BY DEF ll_push_front
<1>3. PICK r : r = [data |-> v, prev |-> NULL, next |-> head]
  OBVIOUS
<1>4. r \in NodeRecord /\ r.data = v /\ r.prev = NULL /\ r.next = Follows(q, 0)
  BY <1>3, PointersTyped DEF Chain, NodeRecord, Pointer
<1>5. PICK mid : mid = Assign(node, n, r)
  OBVIOUS
<1>6. mid[n] = r /\ \A m \in Node : m # n => mid[m] = node[m]
  BY <1>5 DEF Assign
<1>7. node' = SetPrev(mid, Follows(q, 0), n)
  BY <1>2, <1>3, <1>5 DEF Chain
<1>8. n \in Pointer /\ Follows(q, 0) # n
  BY <1>1, <1>2, ListConstants DEF Pointer, Follows
<1>9. /\ node'[n] \in NodeRecord /\ node'[n].data = v
      /\ node'[n].prev = NULL /\ node'[n].next = Follows(q, 0)
  BY <1>4, <1>6, <1>7, <1>8, PrevSet
<1>10. ASSUME NEW i \in 1 .. Len(q)
       PROVE  /\ node'[q[i]] \in NodeRecord /\ node'[q[i]].data = node[q[i]].data
              /\ node'[q[i]].next = Follows(q, i)
              /\ node'[q[i]].prev = IF i = 1 THEN n ELSE Precedes(q, i)
  <2>1. q[i] \in Node /\ mid[q[i]] = node[q[i]] /\ node[q[i]] \in NodeRecord
    BY <1>1, <1>2, <1>6 DEF Chain, NodeRecord
  <2>2. /\ node'[q[i]] \in NodeRecord /\ node'[q[i]].data = node[q[i]].data
        /\ node'[q[i]].next = node[q[i]].next
        /\ node'[q[i]].prev = IF q[i] = Follows(q, 0) THEN n ELSE node[q[i]].prev
    BY <1>7, <1>8, <2>1, PrevSet
  <2>3. q[i] = Follows(q, 0) <=> i = 1
    BY <1>1 DEF Chain, Follows
  <2> QED BY <2>2, <2>3 DEF Chain
<1>11. PICK p : p = <<n>> \o q
  OBVIOUS
<1>12. /\ p \in Seq(Node) /\ Len(p) = Len(q) + 1
       /\ p[1] = n /\ \A i \in 1 .. Len(q) : p[i + 1] = q[i]
       /\ \A j \in 2 .. Len(p) : p[j] = q[j - 1]
  BY <1>1, <1>2, <1>11
<1>13. \A i, j \in 1 .. Len(p) : p[i] = p[j] => i = j
  <2>1. \A j \in 2 .. Len(p) : p[j] # n
    BY <1>1, <1>2, <1>12
  <2>2. \A i, j \in 2 .. Len(p) : p[i] = p[j] => i = j
    <3>1. ASSUME NEW i \in 2 .. Len(p), NEW j \in 2 .. Len(p), p[i] = p[j] PROVE i = j
      <4>1. i - 1 \in 1 .. Len(q) /\ j - 1 \in 1 .. Len(q) /\ q[i - 1] = q[j - 1]
        BY <1>1, <1>12, <3>1
      <4>2. i - 1 = j - 1
        BY <4>1 DEF Chain
      <4> QED BY <4>2
    <3> QED BY <3>1
  <2> QED BY <1>1, <1>12, <2>1, <2>2
<1>14. used' = {p[j] : j \in 1 .. Len(p)}
  <2>1. \A j \in 1 .. Len(p) : p[j] \in used'
    BY <1>1, <1>2, <1>12
  <2>2. \A m \in used' : \E j \in 1 .. Len(p) : m = p[j]
    <3>1. \A i \in 1 .. Len(q) : i + 1 \in 1 .. Len(p) /\ q[i] = p[i + 1]
      BY <1>1, <1>12
    <3>2. 1 \in 1 .. Len(p) /\ n = p[1]
      BY <1>1, <1>12
    <3> QED BY <1>2, <3>1, <3>2 DEF Chain
  <2> QED BY <2>1, <2>2
<1>15. head' = Follows(p, 0)
  BY <1>1, <1>2, <1>12 DEF Follows
<1>16. tail' = IF Len(p) = 0 THEN NULL ELSE p[Len(p)]
  <2>1. CASE Len(q) = 0
    BY <1>2, <1>12, <2>1 DEF Chain
  <2>2. CASE Len(q) > 0
    <3>1. tail = q[Len(q)] /\ tail # NULL
      BY <1>1, <2>2, ListConstants DEF Chain
    <3> QED BY <1>1, <1>2, <1>12, <2>2, <3>1
  <2> QED BY <1>1, <2>1, <2>2
<1>17. ASSUME NEW j \in 1 .. Len(p)
       PROVE  /\ node'[p[j]] \in NodeRecord
              /\ node'[p[j]].next = Follows(p, j)
              /\ node'[p[j]].prev = Precedes(p, j)
  <2>1. CASE j = 1
    <3>1. Follows(p, 1) = Follows(q, 0) /\ Precedes(p, 1) = NULL
      BY <1>1, <1>12 DEF Follows, Precedes
    <3> QED BY <1>9, <1>12, <2>1, <3>1
  <2>2. CASE j # 1
    <3>1. PICK i \in 1 .. Len(q) : j = i + 1
      <4>1. j - 1 \in 1 .. Len(q) /\ j = (j - 1) + 1
        BY <1>1, <1>12, <2>2
      <4> QED BY <4>1
    <3>2. p[j] = q[i]
      BY <1>12, <3>1
    <3>3. Follows(p, j) = Follows(q, i) /\ Precedes(p, j) = IF i = 1 THEN n ELSE Precedes(q, i)
      BY <1>1, <1>12, <3>1 DEF Follows, Precedes
    <3> QED BY <1>10, <3>2, <3>3
  <2> QED BY <2>1, <2>2
<1>18. Chain(p)'
  BY <1>12, <1>13, <1>14, <1>15, <1>16, <1>17 DEF Chain, NodeRecord
<1>19. Contents' = <<v>> \o Contents
  <2>1. /\ Contents' \in Seq(Item) /\ Len(Contents') = Len(p)
        /\ \A j \in 1 .. Len(p) : Contents'[j] = node'[p[j]].data
    BY <1>18, ChainsNext DEF ChainsHoldItems
  <2>2. /\ Contents \in Seq(Item) /\ Len(Contents) = Len(q)
        /\ \A i \in 1 .. Len(q) : Contents[i] = node[q[i]].data
    BY ChainItems
  <2>3. PICK s : s = <<v>> \o Contents
    OBVIOUS
  <2>4. /\ s \in Seq(Item) /\ Len(s) = Len(p)
        /\ s[1] = v /\ \A i \in 1 .. Len(q) : s[i + 1] = Contents[i]
    BY <1>1, <1>12, <2>2, <2>3
  <2>5. Contents'[1] = v
    BY <1>1, <1>9, <1>12, <2>1
  <2>6. \A i \in 1 .. Len(q) : Contents'[i + 1] = Contents[i]
    <3>1. ASSUME NEW i \in 1 .. Len(q) PROVE Contents'[i + 1] = Contents[i]
      <4>1. i + 1 \in 1 .. Len(p) /\ p[i + 1] = q[i]
        BY <1>1, <1>12
      <4> QED BY <1>10, <2>1, <2>2, <4>1
    <3> QED BY <3>1
  <2>7. \A j \in 1 .. Len(p) : Contents'[j] = s[j]
    <3>1. \A j \in 1 .. Len(p) : j # 1 => j - 1 \in 1 .. Len(q) /\ j = (j - 1) + 1
      BY <1>1, <1>12
    <3> QED BY <2>4, <2>5, <2>6, <3>1
  <2> QED BY <2>1, <2>3, <2>4, <2>7, SeqEqual
<1>20. DOMAIN node' = Node
  BY <1>7 DEF SetPrev
<1> QED BY <1>18, <1>19, <1>20

LEMMA PushedBack ==
  ASSUME NEW q, Chain(q), NEW v \in Item, ll_push_back(v)
  PROVE  (\E p : Chain(p))' /\ DOMAIN node' = Node /\ Contents' = Append(Contents, v)
<1>1. /\ q \in Seq(Node) /\ Len(q) \in Nat /\ \A j \in 1 .. Len(q) : q[j] \in Node
      /\ \A j \in 1 .. Len(q) : q[j] \in used
  BY DEF Chain
<1>2. PICK n \in Node \ used :
        /\ node' = SetNext(Assign(node, n, [data |-> v, prev |-> tail, next |-> NULL]),
                           tail, n)
        /\ tail' = n
        /\ head' = IF head = NULL THEN n ELSE head
        /\ used' = used \cup {n}
  BY DEF ll_push_back
<1> DEFINE last1 == Len(q) + 1
<1>3. PICK r : r = [data |-> v, prev |-> tail, next |-> NULL]
  OBVIOUS
<1>0. tail = Precedes(q, last1) /\ tail \in Pointer
  BY <1>1 DEF Chain, Precedes, Pointer
<1>4. r \in NodeRecord /\ r.data = v /\ r.next = NULL /\ r.prev = Precedes(q, last1)
  BY <1>0, <1>3 DEF NodeRecord, Pointer
<1>5. PICK mid : mid = Assign(node, n, r)
  OBVIOUS
<1>6. mid[n] = r /\ \A m \in Node : m # n => mid[m] = node[m]
  BY <1>5 DEF Assign
<1>7. node' = SetNext(mid, tail, n)
  BY <1>2, <1>3, <1>5
<1>8. n \in Pointer /\ tail # n
  BY <1>1, <1>2, ListConstants DEF Pointer, Chain
<1>9. /\ node'[n] \in NodeRecord /\ node'[n].data = v
      /\ node'[n].next = NULL /\ node'[n].prev = Precedes(q, last1)
  BY <1>4, <1>6, <1>7, <1>8, NextSet
<1>10. ASSUME NEW i \in 1 .. Len(q)
       PROVE  /\ node'[q[i]] \in NodeRecord /\ node'[q[i]].data = node[q[i]].data
              /\ node'[q[i]].prev = Precedes(q, i)
              /\ node'[q[i]].next = IF i = Len(q) THEN n ELSE Follows(q, i)
  <2>1. q[i] \in Node /\ mid[q[i]] = node[q[i]] /\ node[q[i]] \in NodeRecord
    BY <1>1, <1>2, <1>6 DEF Chain, NodeRecord
  <2>2. /\ node'[q[i]] \in NodeRecord /\ node'[q[i]].data = node[q[i]].data
        /\ node'[q[i]].prev = node[q[i]].prev
        /\ node'[q[i]].next = IF q[i] = tail THEN n ELSE node[q[i]].next
    BY <1>7, <1>8, <2>1, NextSet
  <2>3. q[i] = tail <=> i = Len(q)
    BY <1>1 DEF Chain
  <2> QED BY <2>2, <2>3 DEF Chain
<1>11. PICK p : p = Append(q, n)
  OBVIOUS
<1>12. /\ p \in Seq(Node) /\ Len(p) = Len(q) + 1
       /\ p[Len(p)] = n /\ \A i \in 1 .. Len(q) : p[i] = q[i]
  BY <1>1, <1>2, <1>11, AppendProperties
<1>13. \A i, j \in 1 .. Len(p) : p[i] = p[j] => i = j
  <2>1. \A i \in 1 .. Len(p) : i = Len(p) \/ i \in 1 .. Len(q)
    BY <1>1, <1>12
  <2>2. \A i \in 1 .. Len(q) : p[i] # n
    BY <1>1, <1>2, <1>12
  <2>3. \A i, j \in 1 .. Len(q) : p[i] = p[j] => i = j
    BY <1>12 DEF Chain
  <2> QED BY <1>12, <2>1, <2>2, <2>3
<1>14. used' = {p[j] : j \in 1 .. Len(p)}
  <2>1. \A j \in 1 .. Len(p) : p[j] \in used'
    BY <1>1, <1>2, <1>12
  <2>2. \A m \in used' : \E j \in 1 .. Len(p) : m = p[j]
    <3>1. \A i \in 1 .. Len(q) : i \in 1 .. Len(p) /\ q[i] = p[i]
      BY <1>1, <1>12
    <3>2. Len(p) \in 1 .. Len(p) /\ n = p[Len(p)]
      BY <1>1, <1>12
    <3> QED BY <1>2, <3>1, <3>2 DEF Chain
  <2> QED BY <2>1, <2>2
<1>15. head' = Follows(p, 0)
  <2>1. CASE Len(q) = 0
    BY <1>1, <1>2, <1>12, <2>1 DEF Chain, Follows
  <2>2. CASE Len(q) > 0
    <3>1. head = q[1] /\ head # NULL
      BY <1>1, <2>2, ListConstants DEF Chain, Follows
    <3> QED BY <1>1, <1>2, <1>12, <2>2, <3>1 DEF Follows
  <2> QED BY <1>1, <2>1, <2>2
<1>16. tail' = IF Len(p) = 0 THEN NULL ELSE p[Len(p)]
  BY <1>1, <1>2, <1>12
<1>17. ASSUME NEW j \in 1 .. Len(p)
       PROVE  /\ node'[p[j]] \in NodeRecord
              /\ node'[p[j]].next = Follows(p, j)
              /\ node'[p[j]].prev = Precedes(p, j)
  <2>1. CASE j = Len(p)
    <3>1. Follows(p, j) = NULL /\ Precedes(p, j) = Precedes(q, last1)
      BY <1>1, <1>12, <2>1 DEF Follows, Precedes
    <3> QED BY <1>9, <1>12, <2>1, <3>1
  <2>2. CASE j # Len(p)
    <3>1. j \in 1 .. Len(q) /\ p[j] = q[j]
      BY <1>1, <1>12, <2>2
    <3>2. Precedes(p, j) = Precedes(q, j)
      BY <1>1, <1>12, <3>1 DEF Precedes
    <3>3. Follows(p, j) = IF j = Len(q) THEN n ELSE Follows(q, j)
      BY <1>1, <1>12, <3>1 DEF Follows
    <3> QED BY <1>10, <3>1, <3>2, <3>3
  <2> QED BY <2>1, <2>2
<1>18. Chain(p)'
  BY <1>12, <1>13, <1>14, <1>15, <1>16, <1>17 DEF Chain, NodeRecord
<1>19. Contents' = Append(Contents, v)
  <2>1. /\ Contents' \in Seq(Item) /\ Len(Contents') = Len(p)
        /\ \A j \in 1 .. Len(p) : Contents'[j] = node'[p[j]].data
    BY <1>18, ChainsNext DEF ChainsHoldItems
  <2>2. /\ Contents \in Seq(Item) /\ Len(Contents) = Len(q)
        /\ \A i \in 1 .. Len(q) : Contents[i] = node[q[i]].data
    BY ChainItems
  <2>3. PICK s : s = Append(Contents, v)
    OBVIOUS
  <2>4. /\ s \in Seq(Item) /\ Len(s) = Len(p)
        /\ s[Len(p)] = v /\ \A i \in 1 .. Len(q) : s[i] = Contents[i]
    BY <1>12, <2>2, <2>3, AppendProperties
  <2>5. ASSUME NEW j \in 1 .. Len(p) PROVE Contents'[j] = s[j]
    <3>1. CASE j = Len(p)
      BY <1>9, <1>12, <2>1, <2>4, <3>1
    <3>2. CASE j # Len(p)
      <4>1. j \in 1 .. Len(q) /\ p[j] = q[j]
        BY <1>1, <1>12, <3>2
      <4> QED BY <1>10, <2>1, <2>2, <2>4, <4>1
    <3> QED BY <3>1, <3>2
  <2> QED BY <2>1, <2>3, <2>4, <2>5, SeqEqual
<1>20. DOMAIN node' = Node
  BY <1>7 DEF SetNext
<1> QED BY <1>18, <1>19, <1>20

\* Which node a pointer of the chain names.
LEMMA Neighbours ==
  ASSUME NEW q, Chain(q), NEW k \in 1 .. Len(q), NEW i \in 1 .. Len(q)
  PROVE  /\ q[i] \in Node /\ node[q[i]] \in NodeRecord
         /\ Follows(q, k) \in Pointer /\ Precedes(q, k) \in Pointer
         /\ q[i] = Follows(q, k) <=> i = k + 1
         /\ q[i] = Precedes(q, k) <=> i = k - 1
         /\ q[i] = q[k] <=> i = k
         /\ Follows(q, k) = NULL <=> k = Len(q)
         /\ Precedes(q, k) = NULL <=> k = 1
<1>1. /\ q \in Seq(Node) /\ Len(q) \in Nat /\ \A j \in 1 .. Len(q) : q[j] \in Node
      /\ NULL \notin Node
  BY ListConstants DEF Chain
<1>2. \A j \in 1 .. Len(q) : q[i] = q[j] <=> i = j
  BY DEF Chain
<1>3. node[q[i]] \in NodeRecord
  BY DEF Chain, NodeRecord
<1>4. Follows(q, k) \in Pointer /\ Precedes(q, k) \in Pointer
  BY <1>1, PointersTyped
<1>5. q[i] = Follows(q, k) <=> i = k + 1
  BY <1>1, <1>2 DEF Follows
<1>6. q[i] = Precedes(q, k) <=> i = k - 1
  BY <1>1, <1>2 DEF Precedes
<1>7. Follows(q, k) = NULL <=> k = Len(q)
  BY <1>1 DEF Follows
<1>8. Precedes(q, k) = NULL <=> k = 1
  BY <1>1 DEF Precedes
<1> QED BY <1>1, <1>2, <1>3, <1>4, <1>5, <1>6, <1>7, <1>8

LEMMA PoppedFront ==
  ASSUME NEW q, Chain(q), ll_pop_front
  PROVE  /\ 1 \in 1 .. Len(q) /\ Unlinks(q, 1)
         /\ removed' = node[q[1]].data /\ DOMAIN node' = Node
<1>1. Len(q) \in Nat /\ head = Follows(q, 0) /\ head # NULL
  BY DEF Chain, ll_pop_front
<1>2. 1 \in 1 .. Len(q) /\ head = q[1]
  BY <1>1 DEF Follows
<1>3. node[q[1]].next = Follows(q, 1)
  BY <1>2 DEF Chain
<1>4. PICK mid : mid = SetPrev(node, Follows(q, 1), NULL)
  OBVIOUS
<1>5. /\ head' = Follows(q, 1)
      /\ tail' = IF Follows(q, 1) = NULL THEN NULL ELSE tail
      /\ used' = used \ {q[1]} /\ removed' = node[q[1]].data
      /\ node' = Assign(mid, q[1], Lost)
  BY <1>2, <1>3, <1>4 DEF ll_pop_front, Freed
<1>6. Precedes(q, 1) = NULL /\ NULL \in Pointer
  BY DEF Precedes, Pointer
<1>7. tail' = IF 1 = Len(q) THEN Precedes(q, 1) ELSE tail
  BY <1>2, <1>5, <1>6, Neighbours
<1>8. ASSUME NEW i \in (1 .. Len(q)) \ {1}
      PROVE  /\ node'[q[i]] \in NodeRecord
             /\ node'[q[i]].data = node[q[i]].data
             /\ node'[q[i]].next = node[q[i]].next
             /\ node'[q[i]].prev = IF i = 2 THEN NULL ELSE node[q[i]].prev
  <2>1. /\ q[i] \in Node /\ node[q[i]] \in NodeRecord /\ q[i] # q[1]
        /\ q[i] = Follows(q, 1) <=> i = 2
    BY <1>2, Neighbours
  <2>2. node'[q[i]] = mid[q[i]]
    BY <1>5, <2>1 DEF Assign
  <2> QED BY <1>4, <1>6, <2>1, <2>2, PrevSet
<1>9. DOMAIN node' = Node
  BY <1>5 DEF Assign
<1> QED BY <1>2, <1>5, <1>6, <1>7, <1>8, <1>9 DEF Unlinks

LEMMA PoppedBack ==
  ASSUME NEW q, Chain(q), ll_pop_back
  PROVE  /\ Len(q) \in 1 .. Len(q) /\ Unlinks(q, Len(q))
         /\ removed' = node[q[Len(q)]].data /\ DOMAIN node' = Node
<1> DEFINE k == Len(q)
<1>1. Len(q) \in Nat /\ tail # NULL
  BY DEF Chain, ll_pop_back
<1>2. k \in 1 .. Len(q) /\ tail = q[k]
  BY <1>1 DEF Chain
<1>3. node[q[k]].prev = Precedes(q, k)
  BY <1>2 DEF Chain
<1>4. PICK mid : mid = SetNext(node, Precedes(q, k), NULL)
  OBVIOUS
<1>5. /\ tail' = Precedes(q, k)
      /\ head' = IF Precedes(q, k) = NULL THEN NULL ELSE head
      /\ used' = used \ {q[k]} /\ removed' = node[q[k]].data
      /\ node' = Assign(mid, q[k], Lost)
  BY <1>2, <1>3, <1>4 DEF ll_pop_back, Freed
<1>6. Follows(q, k) = NULL /\ NULL \in Pointer
  BY <1>2, Neighbours DEF Pointer
<1>7. head' = IF k = 1 THEN Follows(q, 1) ELSE head
  BY <1>2, <1>5, <1>6, Neighbours
<1>8. ASSUME NEW i \in (1 .. Len(q)) \ {k}
      PROVE  /\ node'[q[i]] \in NodeRecord
             /\ node'[q[i]].data = node[q[i]].data
             /\ node'[q[i]].next = IF i = k - 1 THEN NULL ELSE node[q[i]].next
             /\ node'[q[i]].prev = node[q[i]].prev
  <2>1. /\ q[i] \in Node /\ node[q[i]] \in NodeRecord /\ q[i] # q[k]
        /\ q[i] = Precedes(q, k) <=> i = k - 1
    BY <1>2, Neighbours
  <2>2. node'[q[i]] = mid[q[i]]
    BY <1>5, <2>1 DEF Assign
  <2> HIDE DEF k
  <2> QED BY <1>4, <1>6, <2>1, <2>2, NextSet
<1>9. DOMAIN node' = Node
  BY <1>5 DEF Assign
<1>10. ASSUME NEW i \in (1 .. Len(q)) \ {k} PROVE i # k + 1
  BY <1>1
<1> QED BY <1>2, <1>5, <1>6, <1>7, <1>8, <1>9, <1>10 DEF Unlinks

LEMMA RemovedMiddle ==
  ASSUME NEW q, Chain(q), NEW pos \in Nat, ll_remove_middle(pos)
  PROVE  /\ pos + 1 \in 2 .. Len(q) - 1 /\ Unlinks(q, pos + 1)
         /\ removed' \in {node[q[pos + 1]].data, Garbage} /\ DOMAIN node' = Node
<1>1. PICK k : k = pos + 1
  OBVIOUS
<1>2. Len(q) \in Nat /\ pos > 0 /\ pos < Len(q) - 1
  BY ChainLength DEF ll_remove_middle
<1>3. k \in 2 .. Len(q) - 1 /\ k \in 1 .. Len(q)
  BY <1>1, <1>2
<1>4. Walk(pos) = q[k]
  BY <1>1, <1>2, WalkFollows DEF Follows
<1>5. node[q[k]].prev = Precedes(q, k) /\ node[q[k]].next = Follows(q, k)
  BY <1>3 DEF Chain
<1>6. PICK mid : mid = SetNext(node, Precedes(q, k), Follows(q, k))
  OBVIOUS
<1>7. PICK fin : fin = SetPrev(mid, Follows(q, k), Precedes(q, k))
  OBVIOUS
<1>8. /\ used' = used \ {q[k]} /\ node' = Assign(fin, q[k], Lost)
      /\ removed' \in {node[q[k]].data, Garbage} /\ head' = head /\ tail' = tail
  BY <1>4, <1>5, <1>6, <1>7 DEF ll_remove_middle, Freed, Unlinked
<1>9. Follows(q, k) \in Pointer /\ Precedes(q, k) \in Pointer
  BY <1>3, Neighbours
<1>10. ASSUME NEW i \in (1 .. Len(q)) \ {k}
      PROVE  /\ node'[q[i]] \in NodeRecord
             /\ node'[q[i]].data = node[q[i]].data
             /\ node'[q[i]].next = IF i = k - 1 THEN Follows(q, k) ELSE node[q[i]].next
             /\ node'[q[i]].prev = IF i = k + 1 THEN Precedes(q, k) ELSE node[q[i]].prev
  <2>1. /\ q[i] \in Node /\ node[q[i]] \in NodeRecord /\ q[i] # q[k]
        /\ q[i] = Precedes(q, k) <=> i = k - 1
        /\ q[i] = Follows(q, k) <=> i = k + 1
    BY <1>3, Neighbours
  <2>2. node'[q[i]] = fin[q[i]]
    BY <1>8, <2>1 DEF Assign
  <2>3. /\ mid[q[i]] \in NodeRecord
        /\ mid[q[i]].data = node[q[i]].data /\ mid[q[i]].prev = node[q[i]].prev
        /\ mid[q[i]].next = IF i = k - 1 THEN Follows(q, k) ELSE node[q[i]].next
    BY <1>6, <1>9, <2>1, NextSet
  <2>4. /\ fin[q[i]] \in NodeRecord
        /\ fin[q[i]].data = mid[q[i]].data /\ fin[q[i]].next = mid[q[i]].next
        /\ fin[q[i]].prev = IF i = k + 1 THEN Precedes(q, k) ELSE mid[q[i]].prev
    BY <1>7, <1>9, <2>1, <2>3, PrevSet
  <2> QED BY <2>2, <2>3, <2>4
<1>11. DOMAIN node' = Node
  BY <1>8 DEF Assign
<1>12. Unlinks(q, k)
  BY <1>3, <1>8, <1>10 DEF Unlinks
<1> QED BY <1>1, <1>3, <1>8, <1>11, <1>12

LEMMA EmptyChain ==
  ASSUME used = {}, head = NULL, tail = NULL
  PROVE  Chain(<<>>)
  BY EmptySeq DEF Chain, Follows

LEMMA ListInit ==
  ASSUME ll_init
  PROVE  ListInv /\ L!Init
<1>1. Chain(<<>>)
  BY EmptyChain DEF ll_init
<1>2. ListInv
  BY <1>1 DEF ll_init, ListInv
<1>3. Contents \in Seq(Item) /\ Len(Contents) = 0
  BY <1>1, ChainItems
<1> QED BY <1>2, <1>3, EmptySeq DEF ll_init, L!Init

\* What a removal of the k-th node promises.
LEMMA Taken ==
  ASSUME NEW q, Chain(q), NEW k \in 1 .. Len(q), Unlinks(q, k), DOMAIN node' = Node,
         fault' = "none",
         \/ removed' = node[q[k]].data
         \/ (1 < k /\ k < Len(q) /\ removed' = Garbage)
  PROVE  ListInv' /\ L!Next
<1>1. Chain(RemoveAt(q, k))' /\ Contents' = RemoveAt(Contents, k)
  BY UnlinkedChain
<1>2. Len(Contents) = Len(q) /\ Contents[k] = node[q[k]].data
  BY ChainItems
<1>3. node[q[k]].data \in Item
  BY DEF Chain
<1>4. ListInv'
  BY <1>1, <1>3 DEF ListInv
<1>5. L!TakeAt(k)
  BY <1>1, <1>2 DEF L!TakeAt, L!RemoveAt, RemoveAt
<1> QED BY <1>2, <1>4, <1>5 DEF L!Next

\* Every call keeps the list a chain, and does what the sequence promises.
LEMMA ListStep ==
  ASSUME ListInv, ll_call
  PROVE  ListInv' /\ (fault' = "none" => L!Next)
<1>1. PICK q : Chain(q)
  BY DEF ListInv
<1>2. ASSUME NEW v \in Item, ll_push_front(v) PROVE ListInv' /\ L!Next
  <2>1. (\E p : Chain(p))' /\ DOMAIN node' = Node /\ Contents' = <<v>> \o Contents
    BY <1>1, <1>2, PushedFront
  <2>2. UNCHANGED <<removed, fault>>
    BY <1>2 DEF ll_push_front
  <2> QED BY <2>1, <2>2 DEF ListInv, L!Next, L!PushFront
<1>3. ASSUME NEW v \in Item, ll_push_back(v) PROVE ListInv' /\ L!Next
  <2>1. (\E p : Chain(p))' /\ DOMAIN node' = Node /\ Contents' = Append(Contents, v)
    BY <1>1, <1>3, PushedBack
  <2>2. UNCHANGED <<removed, fault>>
    BY <1>3 DEF ll_push_back
  <2> QED BY <2>1, <2>2 DEF ListInv, L!Next, L!PushBack
<1>4. CASE ll_pop_front
  BY <1>1, <1>4, PoppedFront, Taken DEF ll_pop_front
<1>5. CASE ll_pop_back
  BY <1>1, <1>5, PoppedBack, Taken DEF ll_pop_back
<1>6. CASE pop_empty \/ \E pos \in 1 .. Cardinality(Node) : ll_remove_beyond(pos)
  <2>1. UNCHANGED <<head, tail, node, used, removed>> /\ fault' = "null"
    BY <1>6 DEF pop_empty, ll_remove_beyond, links
  <2>2. Chain(q)'
    BY <1>1, <2>1 DEF Chain
  <2> QED BY <2>1, <2>2 DEF ListInv
<1>7. CASE ll_clear
  <2>1. /\ head' = NULL /\ tail' = NULL /\ used' = {} /\ DOMAIN node' = Node
        /\ fault' = "null" /\ removed' = removed
    BY <1>7 DEF ll_clear
  <2>2. Chain(<<>>)'
    BY <2>1, EmptySeq DEF Chain, Follows
  <2> QED BY <2>1, <2>2 DEF ListInv
<1>8. ASSUME NEW pos \in 0 .. Cardinality(Node) - 1, ll_remove_middle(pos)
      PROVE  ListInv' /\ L!Next
  <2>1. PICK k : k = pos + 1
    OBVIOUS
  <2>2. /\ k \in 2 .. Len(q) - 1 /\ Unlinks(q, k)
        /\ removed' \in {node[q[k]].data, Garbage} /\ DOMAIN node' = Node
    BY <1>1, <1>8, <2>1, RemovedMiddle
  <2>3. k \in 1 .. Len(q) /\ 1 < k /\ k < Len(q)
    <3>1. Len(q) \in Nat
      BY <1>1, ChainLength
    <3> QED BY <2>2, <3>1
  <2>4. fault' = "none"
    BY <1>8 DEF ll_remove_middle
  <2> QED BY <1>1, <2>2, <2>3, <2>4, Taken
<1> QED BY <1>2, <1>3, <1>4, <1>5, <1>6, <1>7, <1>8 DEF ll_call

LEMMA ListStutter ==
  ASSUME ListInv, UNCHANGED llVars
  PROVE  ListInv' /\ UNCHANGED <<Contents, removed>>
<1>1. PICK q : Chain(q)
  BY DEF ListInv
<1>2. UNCHANGED <<head, tail, node, used, removed, fault>>
  BY DEF llVars, links
<1>3. Chain(q)'
  BY <1>1, <1>2 DEF Chain
<1>4. ListInv'
  BY <1>2, <1>3 DEF ListInv
<1>5. Contents' = Contents
  <2>1. /\ Contents' \in Seq(Item) /\ Len(Contents') = Len(q)
        /\ \A i \in 1 .. Len(q) : Contents'[i] = node'[q[i]].data
    BY <1>3, ChainsNext DEF ChainsHoldItems
  <2>2. /\ Contents \in Seq(Item) /\ Len(Contents) = Len(q)
        /\ \A i \in 1 .. Len(q) : Contents[i] = node[q[i]].data
    BY <1>1, ChainItems
  <2> QED BY <1>2, <2>1, <2>2, SeqEqual
<1> QED BY <1>2, <1>4, <1>5

LEMMA ListInvariant == LinkedSpec => []ListInv
<1>1. ll_init => ListInv
  BY ListInit
<1>2. ListInv /\ [ll_call]_llVars => ListInv'
  BY ListStep, ListStutter
<1> QED BY <1>1, <1>2, PTL DEF LinkedSpec

(***************************************************************************)
(* Every node in use has its fields set and points into the list or        *)
(* nowhere, whatever l_list.c is called for and whatever its nodes' memory *)
(* held before.                                                            *)
(***************************************************************************)
THEOREM ListTypeCorrect == LinkedSpec => []ListTypeOK
<1>1. ListInv => ListTypeOK
  BY ChainTyped
<1> QED BY <1>1, ListInvariant, PTL

(***************************************************************************)
(* The list of l_list.c reads the same from both ends and consists of      *)
(* exactly the nodes that kmalloc gave out, however many those are.        *)
(***************************************************************************)
THEOREM ListStaysLinked == LinkedSpec => []Linked
<1>1. ListInv => Linked
  BY ChainLinked
<1> QED BY <1>1, ListInvariant, PTL

(***************************************************************************)
(* Up to the first call that reads through NULL, the functions of l_list.c *)
(* do to the nodes what List says of a sequence: pushes at the ends, and   *)
(* removals of the item they return.                                       *)
(***************************************************************************)
THEOREM ListImplementsList == LinkedSpec => ListSpec
<1>1. ll_init => L!Init
  BY ListInit
<1>2. ListInv /\ [ll_call]_llVars => [fault' = "none" => L!Next]_<<Contents, removed>>
  BY ListStep, ListStutter
<1> QED BY <1>1, <1>2, ListInvariant, PTL DEF LinkedSpec, ListSpec

-----------------------------------------------------------------------------
(***************************************************************************)
(* The clock.  The invariant names the times at which the registers of the *)
(* last two passes were read: they lie in order within less than a minute, *)
(* so that two equal seconds are the same second, and everything between   *)
(* them was read in that second.                                           *)
(***************************************************************************)
Window == now - ticks .. now

Pass(s, m, h) == [second |-> Holds("second", s), minute |-> Holds("minute", m),
                  hour |-> Holds("hour", h)]

InOrder(s0, m0, h0, s, m, h) ==
  /\ s0 \in Window /\ m0 \in Window /\ h0 \in Window
  /\ s \in Window /\ m \in Window /\ h \in Window
  /\ s0 <= m0 /\ m0 <= h0 /\ h0 <= s /\ s <= m /\ m <= h

ReadAt(s0, m0, h0, s, m, h) ==
  /\ InOrder(s0, m0, h0, s, m, h)
  /\ last \in {NoPass, Pass(s0, m0, h0)}
  /\ at \in {"minute", "hour", "compare"} => date.second = Holds("second", s)
  /\ at \in {"hour", "compare"} => date.minute = Holds("minute", m)
  /\ at = "compare" => date.hour = Holds("hour", h)

\* What Hour makes of the register: of twelve o'clock on a 12-hour clock, the wrong half.
HourOf(t) == IF ~format.h24 /\ HourAt(t) % 12 = 0 THEN 12 - HourAt(t) ELSE HourAt(t)

DateRead ==
  at = "read" =>
    \E t \in now - ticks .. now :
      date = [second |-> t % Seconds, minute |-> (t \div Seconds) % Minutes,
              hour |-> HourOf(t)]

RtcInv ==
  /\ RtcTypeOK
  /\ ticks <= now
  /\ updating => ticks < MaxTicks
  /\ at \notin Resting => \E s0, m0, h0, s, m, h : ReadAt(s0, m0, h0, s, m, h)
  /\ DateRead

LEMMA Quotient ==
  ASSUME NEW a \in Nat, NEW d \in Nat \ {0}
  PROVE  /\ a \div d \in Nat /\ a % d \in Nat /\ a % d < d
         /\ a = d * (a \div d) + (a % d)
  OBVIOUS

LEMMA SmallMultiple ==
  ASSUME NEW x \in Int, NEW d \in Nat \ {0}, -d < d * x, d * x < d
  PROVE  x = 0
<1>1. CASE x >= 1
  <2>1. d * x >= d
    BY <1>1
  <2> QED BY <2>1
<1>2. CASE x <= -1
  <2>1. d * x <= -d
    BY <1>2
  <2> QED BY <2>1
<1> QED BY <1>1, <1>2

\* Less than a minute apart, the same second is the same time.
LEMMA SameSecond ==
  ASSUME NEW a \in Nat, NEW b \in Nat, NEW d \in Nat \ {0}, a <= b, b - a < d,
         a % d = b % d
  PROVE  a = b
<1>1. PICK x \in Nat : x = a \div d
  BY Quotient
<1>2. PICK y \in Nat : y = b \div d
  BY Quotient
<1>3. PICK r \in Nat : r = a % d
  BY Quotient
<1>4. a = d * x + r /\ b = d * y + r
  BY <1>1, <1>2, <1>3, Quotient
<1>5. b - a = d * (y - x)
  BY <1>4
<1>6. y - x = 0
  BY <1>5, SmallMultiple
<1> QED BY <1>4, <1>6

LEMMA DigitsBack ==
  ASSUME NEW x \in 0 .. 59
  PROVE  Encoded(x) \in 0 .. 127 /\ FromBcd(Encoded(x)) = x
  BY DEF Encoded, FromBcd

\* The parts of a time, in the range of their registers.
LEMMA Parts ==
  ASSUME NEW t \in Nat
  PROVE  /\ t % Seconds \in 0 .. 59
         /\ (t \div Seconds) % Minutes \in 0 .. 59
         /\ HourAt(t) \in 0 .. 23
<1>1. Seconds \in 1 .. 60 /\ Minutes \in 1 .. 60
  BY RtcConstants
<1>2. t % Seconds \in Nat /\ t % Seconds < Seconds /\ t \div Seconds \in Nat
  BY <1>1, Quotient
<1>3. PICK m \in Nat : m = t \div Seconds
  BY <1>2
<1>4. m % Minutes \in Nat /\ m % Minutes < Minutes
  BY <1>1, Quotient
<1>5. PICK d \in Nat \ {0} : d = Seconds * Minutes
  <2>1. Seconds * Minutes \in Nat /\ Seconds * Minutes >= Seconds
    BY <1>1
  <2> QED BY <1>1, <2>1
<1>6. t \div d \in Nat
  BY Quotient
<1>7. HourAt(t) \in 0 .. 23
  BY <1>5, <1>6 DEF HourAt
<1> QED BY <1>1, <1>2, <1>3, <1>4, <1>7

LEMMA HourKept ==
  ASSUME NEW t \in Nat
  PROVE  /\ Holds("hour", t) \in 0 .. 255
         /\ Hour(Holds("hour", t)) = HourOf(t)
<1>1. PICK x \in 0 .. 23 : x = HourAt(t)
  BY Parts
<1>2. CASE format.h24
  <2>1. Holds("hour", t) = Encoded(x)
    BY <1>1, <1>2 DEF Holds
  <2>2. PICK e \in 0 .. 127 : e = Encoded(x) /\ FromBcd(e) = x
    BY DigitsBack
  <2>3. e % 128 = e /\ ~(e >= 128)
    OBVIOUS
  <2>4. Hour(e) = x
    BY <1>2, <2>2, <2>3 DEF Hour
  <2> QED BY <1>1, <1>2, <2>1, <2>2, <2>4 DEF HourOf
<1>3. CASE ~format.h24
  <2>1. PICK y \in 1 .. 12 : y = IF x % 12 = 0 THEN 12 ELSE x % 12
    OBVIOUS
  <2>2. PICK e \in 0 .. 127 : e = Encoded(y) /\ FromBcd(e) = y
    BY DigitsBack
  <2>3. Holds("hour", t) = e + (IF x < 12 THEN 0 ELSE 128)
    BY <1>1, <1>3, <2>1, <2>2 DEF Holds
  <2>4. HourOf(t) = IF x % 12 = 0 THEN 12 - x ELSE x
    BY <1>1, <1>3 DEF HourOf
  <2>5. CASE x < 12
    <3>1. Holds("hour", t) = e /\ e % 128 = e /\ ~(e >= 128)
      BY <2>3, <2>5
    <3>2. Hour(e) = y
      BY <2>2, <3>1 DEF Hour
    <3>3. HourOf(t) = y
      BY <2>1, <2>4, <2>5
    <3> QED BY <3>1, <3>2, <3>3
  <2>6. CASE ~(x < 12)
    <3>1. PICK z \in 128 .. 255 : z = e + 128
      OBVIOUS
    <3>2. Holds("hour", t) = z /\ z % 128 = e /\ z >= 128
      BY <2>3, <2>6, <3>1
    <3>3. Hour(z) = (y + 12) % 24
      BY <1>3, <2>2, <3>2 DEF Hour
    <3>4. HourOf(t) = (y + 12) % 24
      BY <2>1, <2>4, <2>6
    <3> QED BY <3>2, <3>3, <3>4
  <2> QED BY <2>5, <2>6
<1> QED BY <1>2, <1>3

LEMMA HoldsByte ==
  ASSUME NEW t \in Nat, NEW r \in Register
  PROVE  Holds(r, t) \in 0 .. 255
<1>1. CASE r = "second"
  BY <1>1, Parts, DigitsBack DEF Holds
<1>2. CASE r = "minute"
  BY <1>2, Parts, DigitsBack DEF Holds
<1>3. CASE r = "hour"
  BY <1>3, HourKept
<1> QED BY <1>1, <1>2, <1>3 DEF Register

LEMMA ConvertedByte ==
  ASSUME NEW x \in 0 .. 255
  PROVE  FromBcd(x) \in 0 .. 255 /\ Hour(x) \in 0 .. 255
<1>1. FromBcd(x) \in 0 .. 255
  BY DEF FromBcd
<1>2. PICK y \in 0 .. 127 : y = x % 128
  OBVIOUS
<1>3. PICK h \in 0 .. 127 : h = FromBcd(y)
  BY DEF FromBcd
<1>4. Hour(x) \in 0 .. 255
  BY <1>2, <1>3 DEF Hour
<1> QED BY <1>1, <1>4

\* A pass that was read in one second converts to the date of that second.
LEMMA OnePassTrue ==
  ASSUME NEW t \in Nat, NEW d, d = Pass(t, t, t)
  PROVE  Converted(d) = [second |-> t % Seconds, minute |-> (t \div Seconds) % Minutes,
                         hour |-> HourOf(t)]
<1>1. /\ d.second = Encoded(t % Seconds)
      /\ d.minute = Encoded((t \div Seconds) % Minutes)
      /\ d.hour = Holds("hour", t)
  BY DEF Pass, Holds
<1>2. FromBcd(d.second) = t % Seconds /\ FromBcd(d.minute) = (t \div Seconds) % Minutes
  BY <1>1, Parts, DigitsBack
<1>3. Hour(d.hour) = HourOf(t)
  BY <1>1, HourKept
<1> QED BY <1>2, <1>3 DEF Converted

\* Two equal passes within less than a minute were read in one second.
LEMMA EqualPasses ==
  ASSUME RtcInv, at = "compare", Agree
  PROVE  \E t \in Window : t \in Nat /\ date = Pass(t, t, t)
<1>1. PICK s0, m0, h0, s, m, h : ReadAt(s0, m0, h0, s, m, h)
  BY DEF RtcInv, Resting
<1>2. now \in Nat /\ ticks \in Nat /\ ticks < Seconds /\ ticks <= now /\ Seconds \in Nat \ {0}
  BY RtcConstants DEF RtcInv, RtcTypeOK
<1>3. /\ s0 \in Nat /\ m0 \in Nat /\ h0 \in Nat /\ s \in Nat /\ m \in Nat /\ h \in Nat
      /\ s0 <= m0 /\ m0 <= h0 /\ h0 <= s /\ s <= m /\ m <= h
      /\ s - s0 < Seconds /\ s0 \in Window
  BY <1>1, <1>2 DEF ReadAt, InOrder, Window
<1>4. date \in [Register -> 0 .. 255] /\ last = date
  BY DEF RtcInv, RtcTypeOK, Agree
<1>5. last # NoPass
  <2>1. "second" \in DOMAIN date
    BY <1>4 DEF Register
  <2>2. DOMAIN NoPass = {"none"}
    BY DEF NoPass
  <2> QED BY <1>4, <2>1, <2>2
<1>6. date = Pass(s0, m0, h0)
  BY <1>1, <1>4, <1>5 DEF ReadAt
<1>7. Holds("second", s) = Holds("second", s0)
  <2>1. date.second = Holds("second", s)
    BY <1>1 DEF ReadAt
  <2>2. date.second = Holds("second", s0)
    BY <1>6 DEF Pass
  <2> QED BY <2>1, <2>2
<1>8. Encoded(s % Seconds) = Encoded(s0 % Seconds)
  BY <1>7 DEF Holds
<1>9. s % Seconds = s0 % Seconds
  BY <1>3, <1>8, Parts, DigitsBack
<1>10. s0 = s
  <2>1. s0 <= s
    BY <1>3
  <2>2. s0 % Seconds = s % Seconds
    BY <1>9
  <2> QED BY <1>2, <1>3, <2>1, <2>2, SameSecond
<1>11. m0 = s0 /\ h0 = s0
  BY <1>3, <1>10
<1> QED BY <1>3, <1>6, <1>11

-----------------------------------------------------------------------------
LEMMA HoldsKept ==
  ASSUME UNCHANGED format, NEW r, NEW t
  PROVE  Holds(r, t)' = Holds(r, t)
<1>1. \A x : Encoded(x)' = Encoded(x)
  BY DEF Encoded
<1> QED BY <1>1 DEF Holds, HourAt

LEMMA PassKept ==
  ASSUME UNCHANGED format, NEW s, NEW m, NEW h
  PROVE  Pass(s, m, h)' = Pass(s, m, h)
  BY HoldsKept DEF Pass

LEMMA HourOfKept ==
  ASSUME UNCHANGED format, NEW t
  PROVE  HourOf(t)' = HourOf(t)
  BY DEF HourOf, HourAt

\* The chip's own steps.
LEMMA TickKeeps ==
  ASSUME RtcInv, UNCHANGED <<format, at, date, last>>,
         \/ UNCHANGED <<now, ticks>>
         \/ now' = now + 1 /\ ticks' = ticks + 1 /\ updating,
         updating' \in BOOLEAN, updating' => ticks' < MaxTicks
  PROVE  RtcInv'
<1>1. /\ now \in Nat /\ ticks \in 0 .. MaxTicks /\ MaxTicks \in Nat /\ ticks <= now
      /\ updating => ticks < MaxTicks
  BY RtcConstants DEF RtcInv, RtcTypeOK
<1>2. now' \in Nat /\ ticks' \in 0 .. MaxTicks /\ ticks' <= now'
  BY <1>1
<1>3. RtcTypeOK'
  BY <1>2 DEF RtcInv, RtcTypeOK
<1>4. Window \subseteq Window'
  BY <1>1 DEF Window
<1>5. ASSUME at' \notin Resting
      PROVE  (\E s0, m0, h0, s, m, h : ReadAt(s0, m0, h0, s, m, h))'
  <2>1. PICK s0, m0, h0, s, m, h : ReadAt(s0, m0, h0, s, m, h)
    BY <1>5 DEF RtcInv
  <2>2. InOrder(s0, m0, h0, s, m, h)'
    BY <1>4, <2>1 DEF ReadAt, InOrder
  <2>3. ReadAt(s0, m0, h0, s, m, h)'
    BY <2>1, <2>2, HoldsKept, PassKept DEF ReadAt
  <2> QED BY <2>3
<1>6. DateRead'
  <2>1. ASSUME at' = "read"
        PROVE  \E t \in Window' :
                 date' = [second |-> t % Seconds, minute |-> (t \div Seconds) % Minutes,
                          hour |-> HourOf(t)']
    <3>1. PICK t \in Window :
            date = [second |-> t % Seconds, minute |-> (t \div Seconds) % Minutes,
                    hour |-> HourOf(t)]
      BY <2>1 DEF RtcInv, DateRead, Window
    <3>2. HourOf(t)' = HourOf(t)
      BY HourOfKept
    <3> QED BY <1>4, <3>1, <3>2
  <2> QED BY <2>1 DEF DateRead, Window
<1> QED BY <1>2, <1>3, <1>5, <1>6 DEF RtcInv

LEMMA announceKeeps ==
  ASSUME RtcInv, announce
  PROVE  RtcInv'
  BY TickKeeps DEF announce

LEMMA updateKeeps ==
  ASSUME RtcInv, update
  PROVE  RtcInv'
  BY TickKeeps DEF update

LEMMA StartTyped ==
  0 \in 0 .. MaxTicks /\ MaxTicks \in Nat /\ Zero \in [Register -> 0 .. 255]
  BY RtcConstants DEF Zero

\* A read starts with a window of one time.
LEMMA read_rtcKeeps ==
  ASSUME RtcInv, read_rtc
  PROVE  RtcInv'
<1>1. /\ now' \in Nat /\ updating' \in BOOLEAN /\ ticks' = 0 /\ at' = "flag"
      /\ date' = Zero /\ last' = NoPass /\ format' = format
  BY RtcConstants DEF read_rtc
<1>2. RtcTypeOK'
  BY <1>1, StartTyped DEF RtcInv, RtcTypeOK
<1>3. MaxTicks > 0
  BY RtcConstants
<1>4. now' \in Window'
  <2>1. PICK n \in Nat : n = now'
    BY <1>1
  <2>2. n \in n - 0 .. n
    OBVIOUS
  <2> QED BY <1>1, <2>1, <2>2 DEF Window
<1>5. ReadAt(now, now, now, now, now, now)'
  BY <1>1, <1>4 DEF ReadAt, InOrder
<1>6. DateRead'
  BY <1>1 DEF DateRead
<1> QED BY <1>1, <1>2, <1>3, <1>5, <1>6 DEF RtcInv

LEMMA date_usedKeeps ==
  ASSUME RtcInv, date_used
  PROVE  RtcInv'
<1>1. /\ now' = 0 /\ updating' = FALSE /\ ticks' = 0 /\ at' = "unread"
      /\ date' = Zero /\ last' = NoPass /\ format' = format
  BY DEF date_used
<1>2. RtcTypeOK'
  BY <1>1, StartTyped DEF RtcInv, RtcTypeOK, Resting
<1> QED BY <1>1, <1>2 DEF RtcInv, DateRead, Resting

LEMMA await_flagKeeps ==
  ASSUME RtcInv, await_flag
  PROVE  RtcInv'
<1>1. at = "flag" /\ at' = "second" /\ UNCHANGED <<now, format, updating, ticks, date, last>>
  BY DEF await_flag, After, chip
<1>2. RtcTypeOK'
  BY <1>1 DEF RtcInv, RtcTypeOK, Register
<1>3. PICK s0, m0, h0, s, m, h : ReadAt(s0, m0, h0, s, m, h)
  BY <1>1 DEF RtcInv, Resting
<1>4. ReadAt(s0, m0, h0, s, m, h)'
  BY <1>1, <1>3, PassKept DEF ReadAt, InOrder, Window
<1> QED BY <1>1, <1>2, <1>4 DEF RtcInv, DateRead

\* The register read now was read now, and so may be counted those to come.
LEMMA get_RTC_registerKeeps ==
  ASSUME RtcInv, get_RTC_register
  PROVE  RtcInv'
<1>1. /\ at \in Register /\ at' = After[at] /\ date' = [date EXCEPT ![at] = Holds(at, now)]
      /\ UNCHANGED <<now, format, updating, ticks, last>>
  BY DEF get_RTC_register, chip
<1>2. /\ now \in Nat /\ ticks \in Nat /\ date \in [Register -> 0 .. 255]
  BY RtcConstants DEF RtcInv, RtcTypeOK
<1>3. PICK b \in 0 .. 255 : b = Holds(at, now)
  BY <1>1, <1>2, HoldsByte
<1>4. /\ date' \in [Register -> 0 .. 255] /\ date'[at] = b
      /\ \A r \in Register \ {at} : date'[r] = date[r]
  BY <1>1, <1>2, <1>3
<1>5. at' \in {"minute", "hour", "compare"}
  BY <1>1 DEF After, Register
<1>6. RtcTypeOK'
  BY <1>1, <1>4, <1>5 DEF RtcInv, RtcTypeOK, Register
<1>7. PICK s0, m0, h0, s, m, h : ReadAt(s0, m0, h0, s, m, h)
  BY <1>1 DEF RtcInv, Resting, Register
<1>8. /\ now \in Window /\ \A t \in Window : t \in Int /\ t <= now
      /\ Window' = Window
  BY <1>1, <1>2 DEF Window
<1>9. last' \in {NoPass, Pass(s0, m0, h0)'}
  BY <1>1, <1>7, PassKept DEF ReadAt
<1>10. \A r, t : Holds(r, t)' = Holds(r, t)
  BY <1>1, HoldsKept
<1>11. (\E s1, m1, h1, s2, m2, h2 : ReadAt(s1, m1, h1, s2, m2, h2))'
  <2>1. CASE at = "second"
    <3>1. at' = "minute" /\ date'.second = Holds("second", now)
      BY <1>1, <1>3, <1>4, <2>1 DEF After
    <3>2. InOrder(s0, m0, h0, now, now, now)'
      BY <1>1, <1>7, <1>8 DEF ReadAt, InOrder
    <3>3. ReadAt(s0, m0, h0, now, now, now)'
      BY <1>1, <1>9, <1>10, <3>1, <3>2 DEF ReadAt
    <3> QED BY <3>3
  <2>2. CASE at = "minute"
    <3>1. /\ at' = "hour" /\ date'.minute = Holds("minute", now)
          /\ date'.second = Holds("second", s)
      BY <1>1, <1>3, <1>4, <1>7, <2>2 DEF After, ReadAt, Register
    <3>2. InOrder(s0, m0, h0, s, now, now)'
      BY <1>1, <1>7, <1>8 DEF ReadAt, InOrder
    <3>3. ReadAt(s0, m0, h0, s, now, now)'
      BY <1>1, <1>9, <1>10, <3>1, <3>2 DEF ReadAt
    <3> QED BY <3>3
  <2>3. CASE at = "hour"
    <3>1. /\ at' = "compare" /\ date'.hour = Holds("hour", now)
          /\ date'.second = Holds("second", s) /\ date'.minute = Holds("minute", m)
      BY <1>1, <1>3, <1>4, <1>7, <2>3 DEF After, ReadAt, Register
    <3>2. InOrder(s0, m0, h0, s, m, now)'
      BY <1>1, <1>7, <1>8 DEF ReadAt, InOrder
    <3>3. ReadAt(s0, m0, h0, s, m, now)'
      BY <1>1, <1>9, <1>10, <3>1, <3>2 DEF ReadAt
    <3> QED BY <3>3
  <2> QED BY <1>1, <2>1, <2>2, <2>3 DEF Register
<1>12. DateRead'
  BY <1>5 DEF DateRead
<1> QED BY <1>1, <1>6, <1>11, <1>12 DEF RtcInv

LEMMA compare_failsKeeps ==
  ASSUME RtcInv, compare_fails
  PROVE  RtcInv'
<1>1. /\ at = "compare" /\ last' = date /\ at' = "flag"
      /\ UNCHANGED <<now, format, updating, ticks, date>>
  BY DEF compare_fails, chip
<1>2. RtcTypeOK'
  BY <1>1 DEF RtcInv, RtcTypeOK
<1>3. PICK s0, m0, h0, s, m, h : ReadAt(s0, m0, h0, s, m, h)
  BY <1>1 DEF RtcInv, Resting
<1>4. /\ date.second = Holds("second", s) /\ date.minute = Holds("minute", m)
      /\ date.hour = Holds("hour", h)
  BY <1>1, <1>3 DEF ReadAt
<1>5. date = Pass(s, m, h)
  <2>1. date \in [Register -> 0 .. 255] /\ DOMAIN date = Register
    BY DEF RtcInv, RtcTypeOK
  <2> QED BY <1>4, <2>1 DEF Pass, Register
<1>6. InOrder(s, m, h, h, h, h)'
  <2>1. \A t \in Window : t \in Int
    BY DEF Window, RtcInv, RtcTypeOK
  <2>2. Window' = Window
    BY <1>1 DEF Window
  <2> QED BY <1>3, <2>1, <2>2 DEF ReadAt, InOrder
<1>7. ReadAt(s, m, h, h, h, h)'
  BY <1>1, <1>5, <1>6, PassKept DEF ReadAt
<1>8. DateRead'
  BY <1>1 DEF DateRead
<1> QED BY <1>1, <1>2, <1>7, <1>8 DEF RtcInv

LEMMA read_rtc_endsKeeps ==
  ASSUME RtcInv, read_rtc_ends
  PROVE  RtcInv'
<1>1. /\ at = "compare" /\ Agree /\ date' = Converted(date) /\ at' = "read"
      /\ UNCHANGED <<now, format, updating, ticks, last>>
  BY DEF read_rtc_ends, chip
<1>2. date \in [Register -> 0 .. 255]
  BY DEF RtcInv, RtcTypeOK
<1>3. Converted(date) \in [Register -> 0 .. 255]
  <2>1. /\ FromBcd(date.second) \in 0 .. 255 /\ FromBcd(date.minute) \in 0 .. 255
        /\ Hour(date.hour) \in 0 .. 255
    BY <1>2, ConvertedByte DEF Register
  <2> QED BY <2>1 DEF Converted, Register
<1>4. RtcTypeOK'
  BY <1>1, <1>3 DEF RtcInv, RtcTypeOK, Resting
<1>5. PICK t \in Window : t \in Nat /\ date = Pass(t, t, t)
  BY <1>1, EqualPasses
<1>6. date' = [second |-> t % Seconds, minute |-> (t \div Seconds) % Minutes,
               hour |-> HourOf(t)]
  BY <1>1, <1>5, OnePassTrue
<1>7. HourOf(t)' = HourOf(t) /\ t \in Window'
  BY <1>1, <1>5, HourOfKept DEF Window
<1>8. DateRead'
  BY <1>6, <1>7 DEF DateRead, Window
<1> QED BY <1>1, <1>4, <1>8 DEF RtcInv, Resting

LEMMA RtcUnchanged ==
  ASSUME RtcInv, UNCHANGED rtcVars
  PROVE  RtcInv'
<1>1. UNCHANGED <<now, format, updating, ticks, at, date, last>>
  BY DEF rtcVars, chip
<1> QED BY <1>1, TickKeeps DEF RtcInv, RtcTypeOK

LEMMA RtcStart ==
  ASSUME RtcInit
  PROVE  RtcInv
<1>1. RtcTypeOK
  BY StartTyped DEF RtcInit, RtcTypeOK, Resting
<1> QED BY <1>1 DEF RtcInit, RtcInv, DateRead, Resting

-----------------------------------------------------------------------------
(***************************************************************************)
(* The screen.                                                             *)
(***************************************************************************)
\* (The literals are named: the provers know nothing of STRING.)
Char == Letters \cup STRING \cup {Blank, NL, BS, ":", "|", "#", "/"}
Screen == [row : Int, column : Int, cell : [Cell -> Char]]

Clean(t) == \A i \in Visible : i >= Place(t) => t.cell[i] = Blank

\* The text s stands right before the place of the next character.
Tells(t, s) ==
  \A i \in 1 .. Len(s) :
    LET index == Place(t) - Len(s) + i - 1
    IN index >= VGA_WIDTH => index \in Visible /\ t.cell[index] = s[i]

\* At the beginning of a row, which may be the one below the screen.
Rested(t) ==
  /\ t \in Screen /\ Clean(t)
  /\ t.row \in 0 .. VGA_HEIGHT /\ t.column = 0

\* In a row of the screen, or before it by backspaces.
Inside(t) ==
  /\ t \in Screen /\ Clean(t)
  /\ t.row \in 0 .. VGA_HEIGHT - 1 /\ t.column < VGA_WIDTH /\ Place(t) >= 0

(***************************************************************************)
(* The invariant of the console: a line and the keys that wait for it are  *)
(* keys pressed, and each column lost to a backspace is one.               *)
(***************************************************************************)
ConsoleInv ==
  /\ waiting \in Seq(Typed) /\ Len(waiting) <= BUFFER_SIZE
  /\ char \in Typed \cup {NoChar}
  /\ line \in Seq(Typed \ {NL}) /\ Len(line) <= MaxLine
  /\ pc \in {"prompt", "gets", "run"} \cup Actions
  /\ keys \in 0 .. MaxKeys
  /\ Len(line) + Len(waiting) <= keys
  /\ pc # "gets" => Rested(term)
  /\ pc = "gets" =>
       /\ Inside(term) /\ Place(term) >= Len(line)
       /\ Len(waiting) - term.column <= keys
       /\ Tells(term, Shown)

-----------------------------------------------------------------------------
(***************************************************************************)
(* Folds.  FoldLeft is a function on sets of indices that is chosen to     *)
(* satisfy its recursive equation; one exists for every step of type D.    *)
(***************************************************************************)
LEMMA MaxIs ==
  ASSUME NEW S \in SUBSET Nat, NEW m \in S, \A x \in S : x <= m
  PROVE  Max(S) = m
<1>1. \A y \in S : m >= y
  OBVIOUS
<1>2. PICK x \in S : x = Max(S) /\ x >= m
  BY <1>1 DEF Max
<1>3. x \in Nat /\ m \in Nat /\ x <= m
  OBVIOUS
<1> QED BY <1>2, <1>3

FoldsAlong(g, base, e, k) ==
  g = [S \in SUBSET (1 .. k) |->
         IF S = {} THEN base ELSE e[<<g[S \ {Max(S)}], Max(S)>>]]

LEMMA FoldExists ==
  ASSUME NEW D, NEW base \in D, NEW n \in Nat, NEW e \in [D \X (1 .. n) -> D]
  PROVE  \E g \in [SUBSET (1 .. n) -> D] : FoldsAlong(g, base, e, n)
<1> DEFINE Sizes == {k \in 0 .. n : \E g \in [SUBSET (1 .. k) -> D] : FoldsAlong(g, base, e, k)}
<1>1. 0 \in Sizes
  <2> DEFINE g == [S \in SUBSET (1 .. 0) |-> base]
  <2>1. \A S \in SUBSET (1 .. 0) : S = {}
    OBVIOUS
  <2>2. FoldsAlong(g, base, e, 0)
    BY <2>1 DEF FoldsAlong
  <2> QED BY <2>2
<1>2. ASSUME NEW k \in 0 .. n - 1, k \in Sizes PROVE k + 1 \in Sizes
  <2>1. PICK g \in [SUBSET (1 .. k) -> D] : FoldsAlong(g, base, e, k)
    BY <1>2
  <2>2. PICK m \in 1 .. n : m = k + 1
    OBVIOUS
  <2>3. \A S \in SUBSET (1 .. m) : S \ {m} \in SUBSET (1 .. k)
    BY <2>2
  <2> DEFINE Value(S) == IF m \in S THEN e[<<g[S \ {m}], m>>] ELSE g[S]
             h == [S \in SUBSET (1 .. m) |-> Value(S)]
  <2>4. ASSUME NEW S \in SUBSET (1 .. m) PROVE Value(S) \in D
    <3>1. CASE m \in S
      <4>1. g[S \ {m}] \in D
        BY <2>1, <2>3
      <4> QED BY <3>1, <4>1
    <3>2. CASE m \notin S
      BY <2>1, <2>3, <3>2
    <3> QED BY <3>1, <3>2
  <2>5. ASSUME NEW S \in SUBSET (1 .. m)
        PROVE  Value(S) = IF S = {} THEN base ELSE e[<<h[S \ {Max(S)}], Max(S)>>]
    <3>1. CASE m \in S
      <4>1. S \in SUBSET Nat /\ \A x \in S : x <= m
        BY <2>2
      <4>2. Max(S) = m
        BY <3>1, <4>1, MaxIs
      <4>3. h[S \ {m}] = g[S \ {m}]
        <5>1. S \ {m} \in SUBSET (1 .. m) /\ m \notin S \ {m}
          OBVIOUS
        <5> QED BY <5>1
      <4> QED BY <3>1, <4>2, <4>3
    <3>2. CASE m \notin S
      <4>1. S \in SUBSET (1 .. k)
        BY <2>3, <3>2
      <4>2. g[S] = IF S = {} THEN base ELSE e[<<g[S \ {Max(S)}], Max(S)>>]
        BY <2>1, <4>1 DEF FoldsAlong
      <4>3. h[S \ {Max(S)}] = g[S \ {Max(S)}]
        <5>1. S \ {Max(S)} \in SUBSET (1 .. m) /\ m \notin S \ {Max(S)}
          BY <3>2
        <5> QED BY <5>1
      <4> QED BY <3>2, <4>2, <4>3
    <3> QED BY <3>1, <3>2
  <2>6. h \in [SUBSET (1 .. m) -> D]
    BY <2>4
  <2>7. FoldsAlong(h, base, e, m)
    <3> HIDE DEF Value
    <3> QED BY <2>5 DEF FoldsAlong
  <2> HIDE DEF h
  <2> QED BY <2>2, <2>6, <2>7
<1>3. 0 .. n \subseteq Sizes
  <2> HIDE DEF Sizes
  <2> QED BY <1>1, <1>2, EveryStep
<1>4. n \in Sizes
  <2>1. n \in 0 .. n
    OBVIOUS
  <2> HIDE DEF Sizes
  <2> QED BY <1>3, <2>1
<1> QED BY <1>4

-----------------------------------------------------------------------------
(***************************************************************************)
(* One character.                                                          *)
(***************************************************************************)
LEMMA ScreenSizes ==
  /\ VGA_WIDTH \in Nat /\ VGA_WIDTH > 1 /\ VGA_HEIGHT \in Nat \ {0}
  /\ VGA_WIDTH * VGA_HEIGHT \in Nat
  /\ VGA_WIDTH * (VGA_HEIGHT - 1) \in Nat
  /\ VGA_WIDTH * (VGA_HEIGHT + 1) = VGA_WIDTH * VGA_HEIGHT + VGA_WIDTH
  /\ VGA_WIDTH * (VGA_HEIGHT - 1) = VGA_WIDTH * VGA_HEIGHT - VGA_WIDTH
  BY TerminalConstants, ConsoleConstants

LEMMA Chars == {Blank, NL, BS, ":", "|", "#", "/"} \subseteq Char /\ Typed \subseteq Char
  BY DEF Char, Typed

\* The fields of a screen after a write of one of them.
LEMMA ScreenSet ==
  ASSUME NEW t \in Screen, NEW c \in Char
  PROVE  /\ t.row \in Int /\ t.column \in Int /\ t.cell \in [Cell -> Char]
         /\ terminal_putentryat(t, c) \in Screen
         /\ terminal_putentryat(t, c).row = t.row
         /\ terminal_putentryat(t, c).column = t.column
         /\ terminal_putentryat(t, c).cell = [t.cell EXCEPT ![Place(t)] = c]
<1>1. t.row \in Int /\ t.column \in Int /\ t.cell \in [Cell -> Char]
  BY DEF Screen
<1>2. PICK cells : cells = [t.cell EXCEPT ![Place(t)] = c]
  OBVIOUS
<1>3. cells \in [Cell -> Char]
  BY <1>1, <1>2
<1>4. terminal_putentryat(t, c) = [t EXCEPT !.cell = cells]
  BY <1>2 DEF terminal_putentryat
<1> QED BY <1>1, <1>2, <1>3, <1>4 DEF Screen

LEMMA Cells ==
  /\ Visible \subseteq Cell /\ LastLine \subseteq Visible
  /\ \A i \in Visible : i + VGA_WIDTH \in Cell
  /\ \A i \in Visible : i \in LastLine <=> i >= VGA_WIDTH * VGA_HEIGHT - VGA_WIDTH
<1> DEFINE size == VGA_WIDTH * VGA_HEIGHT
<1>1. /\ Visible = 0 .. size - 1 /\ Cell = 0 .. size + VGA_WIDTH - 1
      /\ LastLine = size - VGA_WIDTH .. size - 1
      /\ size \in Nat /\ VGA_WIDTH \in Nat /\ size - VGA_WIDTH \in Nat
  BY ScreenSizes DEF Visible, Cell, LastLine
<1> HIDE DEF size
<1>2. \A i \in Visible : i \in LastLine <=> i >= size - VGA_WIDTH
  BY <1>1
<1>3. \A i \in Visible : i + VGA_WIDTH \in Cell
  BY <1>1
<1> QED BY <1>1, <1>2, <1>3 DEF size

LEMMA Scrolled ==
  ASSUME NEW t \in Screen
  PROVE  /\ terminal_scroll(t) \in Screen
         /\ terminal_scroll(t).row = t.row - 1 /\ terminal_scroll(t).column = 0
         /\ \A i \in Visible :
              terminal_scroll(t).cell[i] =
                IF i \in LastLine THEN Blank
                ELSE IF i >= VGA_WIDTH THEN t.cell[i + VGA_WIDTH] ELSE t.cell[i]
<1>1. t.row \in Int /\ t.cell \in [Cell -> Char]
  BY DEF Screen
<1> DEFINE Moved(i) == IF i \in LastLine THEN Blank
                       ELSE IF i \in Visible /\ i >= VGA_WIDTH
                       THEN t.cell[i + VGA_WIDTH] ELSE t.cell[i]
<1>2. PICK cells : cells = [i \in Cell |-> Moved(i)]
  OBVIOUS
<1>3. ASSUME NEW i \in Cell PROVE Moved(i) \in Char
  BY <1>1, Cells, Chars
<1>4. cells \in [Cell -> Char]
  <2> HIDE DEF Moved
  <2> QED BY <1>2, <1>3
<1>5. terminal_scroll(t) = [row |-> t.row - 1, column |-> 0, cell |-> cells]
  BY <1>2 DEF terminal_scroll
<1>6. \A i \in Visible : cells[i] = Moved(i)
  BY <1>2, Cells
<1>7. t.row - 1 \in Int
  BY <1>1
<1>8. [row |-> t.row - 1, column |-> 0, cell |-> cells] \in Screen
  BY <1>4, <1>7 DEF Screen
<1> QED BY <1>5, <1>6, <1>8

LEMMA AdvancedFields ==
  ASSUME NEW t \in Screen
  PROVE  /\ Advanced(t) \in Screen /\ Advanced(t).cell = t.cell
         /\ IF t.column + 1 = VGA_WIDTH
            THEN Advanced(t).column = 0 /\ Advanced(t).row = t.row + 1
            ELSE Advanced(t).column = t.column + 1 /\ Advanced(t).row = t.row
<1>1. PICK r \in Int, k \in Int, cells \in [Cell -> Char] :
        t = [row |-> r, column |-> k, cell |-> cells]
  BY DEF Screen
<1>2. CASE k + 1 = VGA_WIDTH
  <2>1. Advanced(t) = [row |-> r + 1, column |-> 0, cell |-> cells]
    BY <1>1, <1>2 DEF Advanced
  <2> QED BY <1>1, <1>2, <2>1 DEF Screen
<1>3. CASE k + 1 # VGA_WIDTH
  <2>1. Advanced(t) = [row |-> r, column |-> k + 1, cell |-> cells]
    BY <1>1, <1>3 DEF Advanced
  <2> QED BY <1>1, <1>3, <2>1 DEF Screen
<1> QED BY <1>2, <1>3

LEMMA NewLine ==
  ASSUME NEW t \in Screen
  PROVE  /\ terminal_putchar(t, NL) \in Screen
         /\ terminal_putchar(t, NL).row = t.row + 1
         /\ terminal_putchar(t, NL).column = 0
         /\ terminal_putchar(t, NL).cell = t.cell
<1>1. PICK r \in Int, k \in Int, cells \in [Cell -> Char] :
        t = [row |-> r, column |-> k, cell |-> cells]
  BY DEF Screen
<1>2. terminal_putchar(t, NL) = [row |-> r + 1, column |-> 0, cell |-> cells]
  BY <1>1 DEF terminal_putchar
<1> QED BY <1>1, <1>2 DEF Screen

LEMMA PutTyped ==
  ASSUME NEW t \in Screen, NEW c \in Char
  PROVE  terminal_putchar(t, c) \in Screen
<1>1. CASE c = NL
  BY <1>1, NewLine
<1>2. CASE c # NL
  <2>1. PICK v : v = terminal_putentryat(t, c)
    OBVIOUS
  <2>2. v \in Screen
    BY <2>1, ScreenSet
  <2>3. Advanced(v) \in Screen
    BY <2>2, AdvancedFields
  <2>4. terminal_scroll(Advanced(v)) \in Screen
    BY <2>3, Scrolled
  <2> QED BY <1>2, <2>1, <2>3, <2>4 DEF terminal_putchar
<1> QED BY <1>1, <1>2

LEMMA NewLineRests ==
  ASSUME NEW t, Inside(t)
  PROVE  Rested(terminal_putchar(t, NL))
<1>1. PICK u : u = terminal_putchar(t, NL)
  OBVIOUS
<1>2. /\ t \in Screen /\ t.row \in 0 .. VGA_HEIGHT - 1 /\ t.column < VGA_WIDTH
      /\ t.column \in Int /\ VGA_WIDTH \in Nat /\ VGA_HEIGHT \in Nat
  BY ScreenSizes DEF Inside, Screen
<1>3. u \in Screen /\ u.row = t.row + 1 /\ u.column = 0 /\ u.cell = t.cell
  BY <1>1, <1>2, NewLine
<1>4. Place(t) \in Int /\ Place(u) \in Int /\ Place(u) >= Place(t)
  <2>1. PICK r \in Int : r = t.row
    BY <1>2
  <2>2. /\ Place(t) = r * VGA_WIDTH + t.column
        /\ Place(u) = (r + 1) * VGA_WIDTH
    BY <1>2, <1>3, <2>1 DEF Place
  <2>3. (r + 1) * VGA_WIDTH = r * VGA_WIDTH + VGA_WIDTH /\ r * VGA_WIDTH \in Int
    BY <1>2
  <2> QED BY <1>2, <2>2, <2>3
<1>5. Clean(u)
  <2>1. \A i \in Visible : i \in Int
    BY DEF Visible
  <2> QED BY <1>3, <1>4, <2>1 DEF Clean, Inside
<1> QED BY <1>1, <1>2, <1>3, <1>5 DEF Rested

LEMMA VisibleIs ==
  /\ \A i : i \in Visible <=> i \in Int /\ 0 <= i /\ i < VGA_WIDTH * VGA_HEIGHT
  /\ \A i : i \in Cell <=> i \in Int /\ 0 <= i /\ i < VGA_WIDTH * VGA_HEIGHT + VGA_WIDTH
<1> DEFINE size == VGA_WIDTH * VGA_HEIGHT
<1>1. /\ Visible = 0 .. size - 1 /\ Cell = 0 .. size + VGA_WIDTH - 1
      /\ size \in Nat /\ VGA_WIDTH \in Nat
  BY ScreenSizes DEF Visible, Cell
<1> HIDE DEF size
<1>2. \A i : i \in Visible <=> i \in Int /\ 0 <= i /\ i < size
  BY <1>1
<1>3. \A i : i \in Cell <=> i \in Int /\ 0 <= i /\ i < size + VGA_WIDTH
  BY <1>1
<1> QED BY <1>2, <1>3 DEF size

\* In a row of the screen the next character is put on the screen.
LEMMA PlaceInside ==
  ASSUME NEW t, Inside(t)
  PROVE  Place(t) \in Visible
<1>1. /\ t.row \in 0 .. VGA_HEIGHT - 1 /\ t.column < VGA_WIDTH /\ t.column \in Int
      /\ VGA_WIDTH \in Nat /\ VGA_HEIGHT \in Nat /\ Place(t) >= 0
      /\ Place(t) = t.row * VGA_WIDTH + t.column
  BY ScreenSizes DEF Inside, Screen, Place
<1>2. PICK r \in 0 .. VGA_HEIGHT - 1 : r = t.row
  BY <1>1
<1>3. r * VGA_WIDTH \in Int /\ r * VGA_WIDTH <= VGA_WIDTH * VGA_HEIGHT - VGA_WIDTH
  <2>1. (VGA_HEIGHT - 1 - r) * VGA_WIDTH >= 0
    BY <1>1
  <2>2. (VGA_HEIGHT - 1 - r) * VGA_WIDTH = VGA_WIDTH * VGA_HEIGHT - VGA_WIDTH - r * VGA_WIDTH
    BY <1>1
  <2>3. r * VGA_WIDTH \in Int /\ VGA_WIDTH * VGA_HEIGHT \in Int
    BY <1>1
  <2> QED BY <1>1, <2>1, <2>2, <2>3
<1>4. VGA_WIDTH * VGA_HEIGHT \in Int
  BY <1>1
<1>5. Place(t) \in Int /\ Place(t) < VGA_WIDTH * VGA_HEIGHT
  BY <1>1, <1>2, <1>3, <1>4
<1> QED BY <1>1, <1>5, VisibleIs

(***************************************************************************)
(* A glyph is put in its place, and the next place is the one behind.  Or  *)
(* the lines move up by one row, and the next place with them.             *)
(***************************************************************************)
Puts(t, c, u, up) ==
  /\ Place(u) = Place(t) + 1 - up
  /\ \A i \in Visible : i >= VGA_WIDTH /\ i < Place(u) =>
       /\ i + up \in Visible
       /\ u.cell[i] = IF i + up = Place(t) THEN c ELSE t.cell[i + up]

LEMMA PutInside ==
  ASSUME NEW t, Inside(t), NEW c \in Char, c # NL, NEW u, u = terminal_putchar(t, c)
  PROVE  /\ Inside(u)
         /\ u.column = t.column + 1 \/ u.column = 0
         /\ \E up \in {0, VGA_WIDTH} : Puts(t, c, u, up)
         /\ Place(u) = Place(t) + 1 \/ Place(u) = VGA_WIDTH * (VGA_HEIGHT - 1)
<1> DEFINE W == VGA_WIDTH
           H == VGA_HEIGHT
           size == VGA_WIDTH * VGA_HEIGHT
<1>1. /\ t \in Screen /\ t.row \in 0 .. H - 1 /\ t.column < W /\ Place(t) >= 0
      /\ t.row \in Int /\ t.column \in Int /\ t.cell \in [Cell -> Char]
      /\ W \in Nat /\ W > 1 /\ H \in Nat /\ size \in Nat
      /\ VGA_WIDTH * (VGA_HEIGHT - 1) = size - W
  BY ScreenSizes DEF Inside, Screen
<1>2. Place(t) \in Int /\ 0 <= Place(t) /\ Place(t) < size /\ Place(t) \in Cell
  BY PlaceInside, VisibleIs, Cells
<1>3. PICK v : v = terminal_putentryat(t, c)
  OBVIOUS
<1>4. /\ v \in Screen /\ v.row = t.row /\ v.column = t.column
      /\ v.cell = [t.cell EXCEPT ![Place(t)] = c]
  BY <1>1, <1>3, ScreenSet
<1>5. \A i \in Cell : v.cell[i] = IF i = Place(t) THEN c ELSE t.cell[i]
  BY <1>1, <1>4
<1>6. PICK a : a = Advanced(v)
  OBVIOUS
<1>7. /\ a \in Screen /\ a.cell = v.cell
      /\ IF t.column + 1 = W THEN a.column = 0 /\ a.row = t.row + 1
         ELSE a.column = t.column + 1 /\ a.row = t.row
  BY <1>4, <1>6, AdvancedFields
<1>8. u = IF a.row >= H THEN terminal_scroll(a) ELSE a
  BY <1>3, <1>6 DEF terminal_putchar
<1>9. Place(a) = Place(t) + 1 /\ a.row \in Int /\ a.column \in Int
  <2>1. PICK r \in Int, k \in Int : r = t.row /\ k = t.column
    BY <1>1
  <2>2. Place(t) = r * W + k
    BY <2>1 DEF Place
  <2>3. CASE k + 1 = W
    <3>1. Place(a) = (r + 1) * W + 0
      BY <1>7, <2>1, <2>3 DEF Place
    <3>2. (r + 1) * W = r * W + W /\ r * W \in Int
      BY <1>1
    <3> QED BY <1>7, <2>1, <2>2, <2>3, <3>1, <3>2
  <2>4. CASE k + 1 # W
    <3>1. Place(a) = r * W + (k + 1)
      BY <1>7, <2>1, <2>4 DEF Place
    <3>2. r * W \in Int
      BY <1>1
    <3> QED BY <1>7, <2>1, <2>2, <2>4, <3>1, <3>2
  <2> QED BY <2>3, <2>4
<1>10. \A i \in Visible : i > Place(t) => t.cell[i] = Blank
  BY <1>2, VisibleIs DEF Inside, Clean
<1> HIDE DEF size
<1>11. CASE a.row < H
  <2>1. u = a
    BY <1>1, <1>8, <1>9, <1>11
  <2>2. Place(u) = Place(t) + 1 /\ u.cell = v.cell /\ u \in Screen
    BY <1>7, <1>9, <2>1
  <2>3. Clean(u)
    BY <1>2, <1>5, <1>10, <2>2, Cells, VisibleIs DEF Clean
  <2>4. u.row \in 0 .. H - 1 /\ u.column < W /\ (u.column = t.column + 1 \/ u.column = 0)
    BY <1>1, <1>7, <1>11, <2>1
  <2>5. Inside(u)
    BY <1>2, <2>2, <2>3, <2>4 DEF Inside
  <2>6. Puts(t, c, u, 0)
    <3>1. ASSUME NEW i \in Visible
          PROVE  i + 0 = i /\ u.cell[i] = IF i = Place(t) THEN c ELSE t.cell[i]
      BY <1>5, <2>2, Cells, VisibleIs
    <3>2. Place(u) = Place(t) + 1 - 0
      BY <1>2, <2>2
    <3> QED BY <3>1, <3>2 DEF Puts
  <2> QED BY <2>2, <2>4, <2>5, <2>6
<1>12. CASE ~(a.row < H)
  <2>1. t.column + 1 = W /\ t.row = H - 1
    BY <1>1, <1>7, <1>9, <1>12
  <2>2. Place(t) = size - 1
    <3>1. Place(t) = (H - 1) * W + (W - 1)
      <4>1. t.column = W - 1
        BY <1>1, <2>1
      <4> QED BY <2>1, <4>1 DEF Place
    <3>2. (H - 1) * W = size - W
      BY <1>1
    <3> QED BY <1>1, <3>1, <3>2
  <2>3. u = terminal_scroll(a)
    BY <1>1, <1>8, <1>9, <1>12
  <2>4. /\ u \in Screen /\ u.row = a.row - 1 /\ u.column = 0
        /\ \A i \in Visible :
             u.cell[i] = IF i \in LastLine THEN Blank
                         ELSE IF i >= W THEN a.cell[i + W] ELSE a.cell[i]
    BY <1>7, <2>3, Scrolled
  <2>5. u.row = H - 1
    BY <1>1, <1>7, <2>1, <2>4
  <2>6. Place(u) = size - W
    <3>1. Place(u) = (H - 1) * W + 0
      BY <2>4, <2>5 DEF Place
    <3> QED BY <1>1, <3>1
  <2>7. \A i \in Visible : i \in LastLine <=> i >= size - W
    BY Cells DEF size
  <2>8. Clean(u)
    BY <2>4, <2>6, <2>7 DEF Clean
  <2>9. size - W >= 0
    <3>1. H >= 1
      BY <1>1
    <3> QED BY <1>1, <3>1 DEF size
  <2>10. Inside(u)
    BY <1>1, <2>4, <2>5, <2>6, <2>8, <2>9 DEF Inside
  <2>11. Puts(t, c, u, W)
    <3>1. ASSUME NEW i \in Visible, i >= W, i < Place(u)
          PROVE  i + W \in Visible /\ u.cell[i] = IF i + W = Place(t) THEN c ELSE t.cell[i + W]
      <4>1. i \in Int /\ 0 <= i /\ i < size - W
        BY <2>6, <3>1, VisibleIs
      <4>2. i + W \in Visible
        BY <1>1, <4>1, VisibleIs DEF size
      <4>3. u.cell[i] = v.cell[i + W]
        <5>1. i \notin LastLine
          BY <1>1, <2>7, <4>1
        <5>2. u.cell[i] = a.cell[i + W]
          BY <2>4, <3>1, <5>1
        <5> QED BY <1>7, <5>2
      <4> QED BY <1>5, <4>2, <4>3, Cells
    <3>2. Place(u) = Place(t) + 1 - W
      BY <1>1, <2>2, <2>6
    <3> QED BY <3>1, <3>2 DEF Puts
  <2> QED BY <1>1, <2>4, <2>6, <2>10, <2>11
<1> QED BY <1>1, <1>9, <1>11, <1>12

\* The text on the screen grows by the character put.
LEMMA PutTells ==
  ASSUME NEW t, Inside(t), NEW s \in Seq(Char), Tells(t, s),
         NEW c \in Char, c # NL, NEW u, u = terminal_putchar(t, c)
  PROVE  Tells(u, Append(s, c))
<1>1. PICK up \in {0, VGA_WIDTH} : Puts(t, c, u, up)
  BY PutInside
<1>2. PICK w : w = Append(s, c)
  OBVIOUS
<1>3. /\ Len(s) \in Nat /\ Len(w) = Len(s) + 1 /\ w[Len(s) + 1] = c
      /\ \A i \in 1 .. Len(s) : w[i] = s[i]
  BY <1>2, AppendProperties, LenProperties
<1>4. up \in Int /\ VGA_WIDTH \in Int
  BY ScreenSizes
<1>5. Place(t) \in Int /\ Place(u) = Place(t) + 1 - up
  BY <1>1, PlaceInside, VisibleIs DEF Puts
<1>6. ASSUME NEW i \in 1 .. Len(w), NEW index, index = Place(u) - Len(w) + i - 1,
             index >= VGA_WIDTH
      PROVE  index \in Visible /\ u.cell[index] = w[i]
  <2>1. i \in Int /\ index \in Int /\ index < Place(u) /\ index + up = Place(t) - Len(s) + i - 1
    BY <1>3, <1>4, <1>5, <1>6
  <2>2. index \in Visible
    <3>1. Place(u) \in Visible
      BY PutInside, PlaceInside
    <3>2. Place(u) \in Int /\ Place(u) < VGA_WIDTH * VGA_HEIGHT
      BY <3>1, VisibleIs
    <3>3. VGA_WIDTH * VGA_HEIGHT \in Int /\ 0 <= VGA_WIDTH
      BY ScreenSizes
    <3> QED BY <1>4, <1>6, <2>1, <3>2, <3>3, VisibleIs
  <2>3. u.cell[index] = IF index + up = Place(t) THEN c ELSE t.cell[index + up]
    BY <1>1, <1>6, <2>1, <2>2 DEF Puts
  <2>4. CASE i = Len(s) + 1
    <3>1. index + up = Place(t)
      BY <1>3, <1>5, <2>1, <2>4
    <3> QED BY <1>3, <2>2, <2>3, <2>4, <3>1
  <2>5. CASE i # Len(s) + 1
    <3>1. i \in 1 .. Len(s)
      BY <1>3, <2>5
    <3>2. index + up >= VGA_WIDTH /\ index + up # Place(t)
      BY <1>3, <1>4, <1>5, <1>6, <2>1, <3>1, ScreenSizes
    <3>3. t.cell[Place(t) - Len(s) + i - 1] = s[i]
      BY <2>1, <3>1, <3>2 DEF Tells
    <3> QED BY <1>3, <2>1, <2>2, <2>3, <3>1, <3>2, <3>3
  <2> QED BY <2>4, <2>5
<1>7. Tells(u, w)
  BY <1>6 DEF Tells
<1> QED BY <1>2, <1>7

\* The first character of a row, the one below the screen included.
LEMMA PutRested ==
  ASSUME NEW t, Rested(t), NEW c \in Char, c # NL, NEW u, u = terminal_putchar(t, c)
  PROVE  Inside(u) /\ u.column >= 0
<1> DEFINE W == VGA_WIDTH
           H == VGA_HEIGHT
<1>1. /\ t \in Screen /\ t.row \in 0 .. H /\ t.column = 0 /\ Clean(t)
      /\ t.cell \in [Cell -> Char]
      /\ W \in Nat /\ W > 1 /\ H \in Nat \ {0} /\ W * H \in Nat
  BY ScreenSizes DEF Rested, Screen
<1>2. PICK r \in 0 .. H : r = t.row
  BY <1>1
<1>3. Place(t) = r * W /\ r * W \in Nat
  <2>1. Place(t) = r * W + 0
    BY <1>1, <1>2 DEF Place
  <2>2. r * W \in Nat
    BY <1>1, <1>2
  <2> QED BY <2>1, <2>2
<1>4. CASE r < H
  <2>1. Inside(t)
    BY <1>1, <1>2, <1>3, <1>4 DEF Inside
  <2>2. Inside(u) /\ (u.column = t.column + 1 \/ u.column = 0)
    BY <2>1, PutInside
  <2> QED BY <1>1, <2>2
<1>5. CASE r = H
  <2>1. PICK v : v = terminal_putentryat(t, c)
    OBVIOUS
  <2>2. v \in Screen /\ v.row = H /\ v.column = 0
    BY <1>1, <1>2, <1>5, <2>1, ScreenSet
  <2>3. PICK a : a = Advanced(v)
    OBVIOUS
  <2>4. a \in Screen /\ a.row = H
    <3>1. 0 + 1 # W
      BY <1>1
    <3> QED BY <2>2, <2>3, <3>1, AdvancedFields
  <2>5. u = terminal_scroll(a)
    BY <1>1, <2>1, <2>3, <2>4 DEF terminal_putchar
  <2>6. /\ u \in Screen /\ u.row = H - 1 /\ u.column = 0
        /\ \A i \in LastLine : u.cell[i] = Blank
    BY <2>4, <2>5, Scrolled, Cells
  <2>7. Place(u) = W * H - W /\ Place(u) >= 0
    <3>1. Place(u) = (H - 1) * W + 0
      BY <2>6 DEF Place
    <3>2. (H - 1) * W = W * H - W /\ (H - 1) * W >= 0
      BY <1>1
    <3> QED BY <1>1, <3>1, <3>2
  <2>8. Clean(u)
    BY <2>6, <2>7, Cells DEF Clean
  <2>9. u.row \in 0 .. H - 1 /\ u.column < W
    BY <1>1, <2>6
  <2>10. u.column >= 0
    BY <2>6
  <2> QED BY <2>6, <2>7, <2>8, <2>9, <2>10 DEF Inside
<1>6. r < H \/ r = H
  BY <1>1
<1> QED BY <1>4, <1>5, <1>6

\* A backspace takes the last character of the text from the screen.
LEMMA ErasedTells ==
  ASSUME NEW t, Inside(t), Place(t) > 0, NEW u, u = terminal_remove_last_char(t)
  PROVE  /\ Inside(u) /\ Place(u) = Place(t) - 1 /\ u.column = t.column - 1
         /\ \A s \in Seq(Char) :
              Tells(t, s) /\ Len(s) > 0 => Tells(u, SubSeq(s, 1, Len(s) - 1))
<1>1. PICK r \in Int, k \in Int, cells \in [Cell -> Char] :
        t = [row |-> r, column |-> k, cell |-> cells]
  BY DEF Inside, Screen
<1>2. PICK p \in Visible : p = Place(t)
  BY PlaceInside
<1>3. p \in Int /\ p > 0 /\ p < VGA_WIDTH * VGA_HEIGHT /\ VGA_WIDTH \in Nat
  BY <1>2, VisibleIs, ScreenSizes
<1>4. PICK b : b = [row |-> r, column |-> k - 1, cell |-> cells]
  OBVIOUS
<1>5. b \in Screen /\ b.row = r /\ b.column = k - 1 /\ b.cell = cells
  BY <1>4 DEF Screen
<1>6. Place(b) = p - 1
  <2>1. p = r * VGA_WIDTH + k
    BY <1>1, <1>2 DEF Place
  <2>2. Place(b) = r * VGA_WIDTH + (k - 1)
    BY <1>5 DEF Place
  <2>3. r * VGA_WIDTH \in Int
    BY <1>3
  <2> QED BY <2>1, <2>2, <2>3
<1>7. u = terminal_putentryat(b, Blank)
  <2>1. [t EXCEPT !.column = t.column - 1] = b
    BY <1>1, <1>4
  <2> QED BY <2>1 DEF terminal_remove_last_char
<1>8. /\ u \in Screen /\ u.row = r /\ u.column = k - 1
      /\ u.cell = [cells EXCEPT ![p - 1] = Blank]
  <2>1. Blank \in Char
    BY Chars
  <2>2. /\ u \in Screen /\ u.row = b.row /\ u.column = b.column
        /\ u.cell = [b.cell EXCEPT ![Place(b)] = Blank]
    <3>1. PICK c \in Char : c = Blank
      BY <2>1
    <3>2. PICK v : v = terminal_putentryat(b, c)
      OBVIOUS
    <3>3. /\ v \in Screen /\ v.row = b.row /\ v.column = b.column
          /\ v.cell = [b.cell EXCEPT ![Place(b)] = c]
      BY <1>5, <3>2, ScreenSet
    <3>4. u = v
      BY <1>7, <3>1, <3>2
    <3> QED BY <3>1, <3>3, <3>4
  <2> QED BY <1>5, <1>6, <2>2
<1>9. Place(u) = p - 1
  BY <1>5, <1>6, <1>8 DEF Place
<1>10. \A i \in Visible : u.cell[i] = IF i = p - 1 THEN Blank ELSE cells[i]
  BY <1>1, <1>8, Cells
<1>11. Clean(u)
  <2>1. ASSUME NEW i \in Visible, i >= p - 1 PROVE u.cell[i] = Blank
    <3>1. i \in Int /\ (i = p - 1 \/ i >= p)
      BY <1>3, <2>1, VisibleIs
    <3>2. i >= p => cells[i] = Blank
      BY <1>1, <1>2 DEF Inside, Clean
    <3> QED BY <1>10, <3>1, <3>2
  <2> QED BY <1>9, <2>1 DEF Clean
<1>12. Inside(u)
  <2>1. r \in 0 .. VGA_HEIGHT - 1 /\ k < VGA_WIDTH
    BY <1>1 DEF Inside
  <2>2. k - 1 < VGA_WIDTH /\ p - 1 >= 0
    BY <1>3, <2>1
  <2> QED BY <1>8, <1>9, <1>11, <2>1, <2>2 DEF Inside
<1>13. ASSUME NEW s \in Seq(Char), Tells(t, s), Len(s) > 0
       PROVE  Tells(u, SubSeq(s, 1, Len(s) - 1))
  <2>1. Len(s) \in Nat
    BY LenProperties
  <2>2. PICK w : w = SubSeq(s, 1, Len(s) - 1)
    OBVIOUS
  <2>3. Len(w) = Len(s) - 1 /\ \A i \in 1 .. Len(w) : w[i] = s[i]
    <3>1. PICK n \in Nat : n = Len(s)
      BY <2>1
    <3>2. 1 \in 1 .. n /\ n - 1 \in 0 .. n /\ n > 0
      BY <1>13, <3>1
    <3>3. w = [i \in 1 .. n - 1 |-> s[i]]
      BY <1>13, <2>2, <3>1, <3>2
    <3>4. Len(w) = n - 1
      BY <3>2, <3>3
    <3> QED BY <3>1, <3>3, <3>4
  <2>4. ASSUME NEW i \in 1 .. Len(w), NEW index, index = Place(u) - Len(w) + i - 1,
               index >= VGA_WIDTH
        PROVE  index \in Visible /\ u.cell[index] = w[i]
    <3>1. /\ i \in 1 .. Len(s) /\ index = p - Len(s) + i - 1
          /\ index \in Int /\ index < p - 1
      BY <1>3, <1>9, <2>1, <2>3, <2>4
    <3>2. index \in Visible /\ cells[index] = s[i]
      BY <1>1, <1>2, <1>13, <2>4, <3>1 DEF Tells
    <3>3. u.cell[index] = cells[index]
      BY <1>3, <1>10, <3>1, <3>2
    <3>4. w[i] = s[i]
      BY <2>3
    <3> QED BY <3>2, <3>3, <3>4
  <2>5. Tells(u, w)
    BY <2>4 DEF Tells
  <2> QED BY <2>2, <2>5
<1>14. Place(u) = Place(t) - 1 /\ u.column = t.column - 1
  BY <1>1, <1>2, <1>8, <1>9
<1> QED BY <1>12, <1>13, <1>14

LEMMA MaxMember ==
  ASSUME NEW n \in Nat, NEW S \in SUBSET (1 .. n), S # {}
  PROVE  Max(S) \in S
<1>1. PICK R : R = {n - x : x \in S}
  OBVIOUS
<1>2. R \in SUBSET Nat /\ R # {}
  <2>1. \A x \in S : n - x \in Nat /\ n - x \in R
    BY <1>1
  <2>2. \A y \in R : \E x \in S : y = n - x
    BY <1>1
  <2> QED BY <2>1, <2>2
<1>3. PICK low \in R : \A x \in R : low <= x
  BY <1>2, SmallestNumber
<1>4. PICK m \in S : low = n - m
  BY <1>1, <1>3
<1>5. \A x \in S : x <= m
  <2>1. \A x \in S : n - m <= n - x
    BY <1>1, <1>3, <1>4
  <2> QED BY <2>1
<1>6. S \in SUBSET Nat
  OBVIOUS
<1> QED BY <1>5, <1>6, MaxIs

-----------------------------------------------------------------------------
(***************************************************************************)
(* A text is written character after character.                            *)
(***************************************************************************)
Writing(g, t, s) ==
  g = [S \in SUBSET (DOMAIN s) |->
         IF S = {} THEN t
         ELSE CHOOSE w \in {terminal_putchar(v, s[Max(S)]) : v \in {g[S \ {Max(S)}]}} : TRUE]

LEMMA WriteIsChosen ==
  ASSUME NEW t, NEW s
  PROVE  terminal_write(t, s) = (CHOOSE g : Writing(g, t, s))[DOMAIN s]
  BY Zenon DEF terminal_write, FoldLeft, MapThenFoldSet, Writing

LEMMA WritingExists ==
  ASSUME NEW t \in Screen, NEW s \in Seq(Char)
  PROVE  \E g : Writing(g, t, s)
<1>1. PICK n \in Nat : n = Len(s)
  OBVIOUS
<1>2. DOMAIN s = 1 .. n /\ \A i \in 1 .. n : s[i] \in Char
  BY <1>1
<1>3. PICK e : e = [x \in Screen \X (1 .. n) |-> terminal_putchar(x[1], s[x[2]])]
  OBVIOUS
<1>4. e \in [Screen \X (1 .. n) -> Screen]
  <2>1. ASSUME NEW x \in Screen \X (1 .. n) PROVE terminal_putchar(x[1], s[x[2]]) \in Screen
    BY <1>2, PutTyped
  <2> QED BY <1>3, <2>1
<1>5. PICK g \in [SUBSET (1 .. n) -> Screen] : FoldsAlong(g, t, e, n)
  BY <1>4, FoldExists
<1>6. ASSUME NEW S \in SUBSET (1 .. n), S # {}
      PROVE  g[S] = CHOOSE w \in {terminal_putchar(v, s[Max(S)]) : v \in {g[S \ {Max(S)}]}} : TRUE
  <2>1. PICK m : m = Max(S)
    OBVIOUS
  <2>2. m \in 1 .. n /\ S \ {m} \in SUBSET (1 .. n)
    BY <1>6, <2>1, MaxMember
  <2>3. PICK u \in Screen : u = g[S \ {m}]
    BY <2>2
  <2>4. g[S] = e[<<u, m>>]
    BY <1>5, <1>6, <2>1, <2>3 DEF FoldsAlong
  <2>5. e[<<u, m>>] = terminal_putchar(u, s[m])
    BY <1>3, <2>2
  <2>6. \A a : a = CHOOSE w \in {a} : TRUE
    OBVIOUS
  <2>7. {terminal_putchar(v, s[m]) : v \in {u}} = {terminal_putchar(u, s[m])}
    OBVIOUS
  <2> QED BY <2>1, <2>3, <2>4, <2>5, <2>6, <2>7
<1>7. g[{}] = t
  BY <1>5 DEF FoldsAlong
<1>8. Writing(g, t, s)
  BY <1>2, <1>6, <1>7 DEF Writing
<1> QED BY <1>8

LEMMA WriteSteps ==
  ASSUME NEW t \in Screen, NEW s \in Seq(Char)
  PROVE  \E f : /\ f[0] = t
                /\ \A i \in 1 .. Len(s) : f[i] = terminal_putchar(f[i - 1], s[i])
                /\ f[Len(s)] = terminal_write(t, s)
<1>1. PICK n \in Nat : n = Len(s) /\ DOMAIN s = 1 .. n
  OBVIOUS
<1>2. PICK g : g = CHOOSE h : Writing(h, t, s)
  OBVIOUS
<1>3. Writing(g, t, s)
  BY <1>2, WritingExists
<1>4. PICK f : f = [i \in 0 .. n |-> g[1 .. i]]
  OBVIOUS
<1>5. f[0] = t
  <2>1. 1 .. 0 = {} /\ 1 .. 0 \in SUBSET (1 .. n) /\ 0 \in 0 .. n
    OBVIOUS
  <2>2. g[1 .. 0] = t
    BY <1>1, <1>3, <2>1 DEF Writing
  <2> QED BY <1>4, <2>1, <2>2
<1>6. ASSUME NEW i \in 1 .. n PROVE f[i] = terminal_putchar(f[i - 1], s[i])
  <2>1. PICK S : S = 1 .. i
    OBVIOUS
  <2>2. S \in SUBSET (1 .. n) /\ S \in SUBSET Nat /\ i \in S /\ \A x \in S : x <= i
    BY <2>1
  <2>3. Max(S) = i
    BY <2>2, MaxIs
  <2>4. PICK u : u = g[1 .. i - 1]
    OBVIOUS
  <2>5. S \ {i} = 1 .. i - 1
    BY <2>1
  <2>6. g[S] = CHOOSE w \in {terminal_putchar(v, s[i]) : v \in {u}} : TRUE
    <3>1. PICK m : m = Max(S)
      OBVIOUS
    <3>2. g[S] = CHOOSE w \in {terminal_putchar(v, s[m]) : v \in {g[S \ {m}]}} : TRUE
      <4> DEFINE Value(R) == CHOOSE w \in {terminal_putchar(v, s[Max(R)]) :
                                           v \in {g[R \ {Max(R)}]}} : TRUE
      <4>1. g = [R \in SUBSET (DOMAIN s) |-> IF R = {} THEN t ELSE Value(R)]
        BY <1>3 DEF Writing
      <4>2. g[S] = Value(S)
        <5> HIDE DEF Value
        <5>1. S \in SUBSET (DOMAIN s) /\ S # {}
          BY <1>1, <2>2
        <5> QED BY <4>1, <5>1
      <4> QED BY <3>1, <4>2
    <3> QED BY <2>3, <2>4, <2>5, <3>1, <3>2
  <2>7. \A a : a = CHOOSE w \in {a} : TRUE
    OBVIOUS
  <2>8. {terminal_putchar(v, s[i]) : v \in {u}} = {terminal_putchar(u, s[i])}
    OBVIOUS
  <2>9. f[i] = g[S] /\ f[i - 1] = u
    BY <1>4, <2>1, <2>4
  <2> QED BY <2>6, <2>7, <2>8, <2>9
<1>7. f[n] = terminal_write(t, s)
  <2>1. f[n] = g[1 .. n]
    BY <1>4
  <2> QED BY <1>1, <1>2, <2>1, WriteIsChosen
<1> QED BY <1>1, <1>5, <1>6, <1>7

LEMMA WriteOne ==
  ASSUME NEW t \in Screen, NEW c \in Char
  PROVE  terminal_write(t, <<c>>) = terminal_putchar(t, c)
<1>1. PICK s : s = <<c>>
  OBVIOUS
<1>2. s \in Seq(Char) /\ Len(s) = 1 /\ s[1] = c
  BY <1>1
<1>3. PICK f : /\ f[0] = t
               /\ \A i \in 1 .. Len(s) : f[i] = terminal_putchar(f[i - 1], s[i])
               /\ f[Len(s)] = terminal_write(t, s)
  BY <1>2, WriteSteps
<1>4. 1 \in 1 .. Len(s) /\ 1 - 1 = 0
  BY <1>2
<1>5. f[1] = terminal_putchar(f[1 - 1], s[1])
  BY <1>3, <1>4
<1> QED BY <1>1, <1>2, <1>3, <1>4, <1>5

\* Lines: the last one ends, and none is empty.
Lines(s) ==
  /\ s \in Seq(Char)
  /\ Len(s) > 0 => s[Len(s)] = NL
  /\ \A i \in 1 .. Len(s) : s[i] = NL => i > 1 /\ s[i - 1] # NL

(***************************************************************************)
(* After lines the screen rests, wherever a line began: the character that *)
(* follows a newline scrolls.                                              *)
(***************************************************************************)
LEMMA LinesRest ==
  ASSUME NEW t, Rested(t), NEW s, Lines(s)
  PROVE  Rested(terminal_write(t, s))
<1>1. t \in Screen /\ s \in Seq(Char)
  BY DEF Rested, Lines
<1>2. PICK n \in Nat : n = Len(s)
  BY <1>1
<1>3. \A i \in 1 .. n : s[i] \in Char
  BY <1>1, <1>2
<1>4. PICK f : /\ f[0] = t
               /\ \A i \in 1 .. Len(s) : f[i] = terminal_putchar(f[i - 1], s[i])
               /\ f[Len(s)] = terminal_write(t, s)
  BY <1>1, WriteSteps
<1> DEFINE Ok(i) == IF i = 0 \/ s[i] = NL THEN Rested(f[i]) ELSE Inside(f[i])
           Good == {i \in 0 .. n : Ok(i)}
<1>5. 0 \in Good
  BY <1>4
<1>6. ASSUME NEW i \in 0 .. n - 1, i \in Good PROVE i + 1 \in Good
  <2>1. PICK j \in 1 .. n : j = i + 1 /\ j - 1 = i
    OBVIOUS
  <2>2. f[j] = terminal_putchar(f[i], s[j])
    BY <1>2, <1>4, <2>1
  <2>3. Ok(i)
    BY <1>6
  <2>4. j # 0 /\ s[j] \in Char
    BY <1>3, <2>1
  <2>5. CASE s[j] = NL
    <3>1. j > 1 /\ s[i] # NL
      BY <1>2, <2>1, <2>5 DEF Lines
    <3>2. i # 0
      BY <2>1, <3>1
    <3>3. Inside(f[i])
      BY <2>3, <3>1, <3>2
    <3>4. Rested(f[j])
      BY <2>2, <2>5, <3>3, NewLineRests
    <3> QED BY <2>1, <2>5, <3>4
  <2>6. CASE s[j] # NL
    <3>1. Rested(f[i]) \/ Inside(f[i])
      BY <2>3
    <3>2. Inside(f[j])
      <4>1. CASE Rested(f[i])
        BY <2>2, <2>4, <2>6, <4>1, PutRested
      <4>2. CASE Inside(f[i])
        BY <2>2, <2>4, <2>6, <4>2, PutInside
      <4> QED BY <3>1, <4>1, <4>2
    <3> QED BY <2>1, <2>4, <2>6, <3>2
  <2> QED BY <2>5, <2>6
<1>7. n \in Good
  <2>1. n \in 0 .. n
    OBVIOUS
  <2> HIDE DEF Good
  <2> QED BY <1>5, <1>6, <2>1, EveryStep
<1>8. n = 0 \/ s[n] = NL
  BY <1>2 DEF Lines
<1> QED BY <1>2, <1>4, <1>7, <1>8

(***************************************************************************)
(* A word is shown behind its first character, which a scroll may lose.    *)
(***************************************************************************)
LEMMA WordTells ==
  ASSUME NEW t, Rested(t), NEW s \in Seq(Char), Len(s) > 1,
         \A i \in 1 .. Len(s) : s[i] # NL, NEW u, u = terminal_write(t, s)
  PROVE  Inside(u) /\ u.column >= 0 /\ Tells(u, Tail(s))
<1>1. t \in Screen
  BY DEF Rested
<1>2. PICK n \in Nat : n = Len(s) /\ n > 1
  OBVIOUS
<1>3. \A i \in 1 .. n : s[i] \in Char /\ s[i] # NL
  BY <1>2
<1>4. PICK f : /\ f[0] = t
               /\ \A i \in 1 .. n : f[i] = terminal_putchar(f[i - 1], s[i])
               /\ f[n] = u
  BY <1>1, <1>2, WriteSteps
<1> DEFINE Rest(i) == [j \in 1 .. i - 1 |-> s[j + 1]]
           Ok(i) == Inside(f[i]) /\ f[i].column >= 0 /\ Tells(f[i], Rest(i))
           Good == {i \in 0 .. n : i > 0 => Ok(i)}
<1>5. \A i \in 1 .. n : Rest(i) \in Seq(Char) /\ Len(Rest(i)) = i - 1
  <2>1. ASSUME NEW i \in 1 .. n
        PROVE  i - 1 \in Nat /\ \A j \in 1 .. i - 1 : s[j + 1] \in Char
    BY <1>3
  <2> QED BY <2>1
<1>6. 0 \in Good
  OBVIOUS
<1>7. Ok(1)
  <2>1. 1 \in 1 .. n /\ 1 - 1 = 0
    BY <1>2
  <2>2. f[1] = terminal_putchar(t, s[1])
    BY <1>4, <2>1
  <2>3. Inside(f[1]) /\ f[1].column >= 0
    BY <1>3, <2>1, <2>2, PutRested
  <2>4. Tells(f[1], Rest(1))
    <3>1. Len(Rest(1)) = 0
      BY <1>5, <2>1
    <3> HIDE DEF Rest
    <3> QED BY <3>1 DEF Tells
  <2> QED BY <2>3, <2>4
<1>8. ASSUME NEW i \in 0 .. n - 1, i \in Good PROVE i + 1 \in Good
  <2>1. PICK j \in 1 .. n : j = i + 1 /\ j - 1 = i
    OBVIOUS
  <2>2. CASE i = 0
    BY <1>7, <2>1, <2>2
  <2>3. CASE i > 0
    <3>1. Inside(f[i]) /\ f[i].column >= 0 /\ Tells(f[i], Rest(i))
      BY <1>8, <2>3
    <3>2. f[j] = terminal_putchar(f[i], s[j]) /\ s[j] \in Char /\ s[j] # NL
      BY <1>3, <1>4, <2>1
    <3>3. PICK w \in Seq(Char) : w = Rest(i) /\ Len(w) = i - 1
      <4>1. i \in 1 .. n
        BY <2>3
      <4> HIDE DEF Rest
      <4> QED BY <1>5, <4>1
    <3>4. Tells(f[j], Append(w, s[j]))
      BY <3>1, <3>2, <3>3, PutTells
    <3>5. Append(w, s[j]) = Rest(j)
      BY <2>1, <2>3, <3>3
    <3>6. Inside(f[j]) /\ (f[j].column = f[i].column + 1 \/ f[j].column = 0)
      BY <3>1, <3>2, PutInside
    <3>7. f[j].column >= 0
      <4>1. f[i].column \in Int
        BY <3>1 DEF Inside, Screen
      <4> QED BY <3>1, <3>6, <4>1
    <3>8. Ok(j)
      BY <3>4, <3>5, <3>6, <3>7
    <3> QED BY <2>1, <3>8
  <2> QED BY <2>2, <2>3
<1>9. n \in Good
  <2>1. n \in 0 .. n
    OBVIOUS
  <2> HIDE DEF Good
  <2> QED BY <1>6, <1>8, <2>1, EveryStep
<1>10. Tail(s) = Rest(n)
  <2>1. /\ Tail(s) \in Seq(Char) /\ Len(Tail(s)) = n - 1
        /\ \A j \in 1 .. n - 1 : Tail(s)[j] = s[j + 1]
    BY <1>2
  <2>2. Tail(s) = [j \in 1 .. n - 1 |-> Tail(s)[j]]
    <3>1. PICK w \in Seq(Char) : w = Tail(s) /\ Len(w) = n - 1
      BY <2>1
    <3>2. w = [j \in 1 .. n - 1 |-> w[j]]
      BY <3>1, LenProperties
    <3> QED BY <3>1, <3>2
  <2> QED BY <2>1, <2>2
<1>11. Ok(n)
  <2>1. n > 0
    BY <1>2
  <2> HIDE DEF Ok
  <2> QED BY <1>9, <2>1
<1> QED BY <1>4, <1>10, <1>11

-----------------------------------------------------------------------------
(***************************************************************************)
(* What the commands print are lines.                                      *)
(***************************************************************************)
Word(s) == s \in Seq(Char) /\ \A i \in 1 .. Len(s) : s[i] # NL

LEMMA Literals ==
  "|" # NL /\ "#" # NL /\ "/" # NL /\ ":" # NL /\ BS # NL /\ Blank # NL
  BY DEF NL, BS, Blank

LEMMA Joined ==
  ASSUME NEW s \in Seq(Char), NEW r \in Seq(Char)
  PROVE  /\ s \o r \in Seq(Char) /\ Len(s \o r) = Len(s) + Len(r)
         /\ \A i \in 1 .. Len(s) : (s \o r)[i] = s[i]
         /\ \A i \in 1 .. Len(r) : (s \o r)[Len(s) + i] = r[i]
<1>1. PICK w : w = s \o r
  OBVIOUS
<1>2. PICK n \in Nat, m \in Nat : n = Len(s) /\ m = Len(r)
  OBVIOUS
<1>3. /\ w \in Seq(Char) /\ Len(w) = n + m
      /\ \A i \in 1 .. n : w[i] = s[i]
      /\ \A i \in 1 .. m : w[n + i] = r[i]
  BY <1>1, <1>2
<1> QED BY <1>1, <1>2, <1>3

LEMMA WordLine ==
  ASSUME NEW w, Word(w), NEW x \in Char, x # NL
  PROVE  Lines(w \o <<x, NL>>)
<1>1. PICK n \in Nat : n = Len(w)
  BY DEF Word
<1>2. PICK e : e = <<x, NL>>
  OBVIOUS
<1>3. e \in Seq(Char) /\ Len(e) = 2 /\ e[1] = x /\ e[2] = NL
  BY <1>2, Chars
<1>4. PICK s : s = w \o e
  OBVIOUS
<1>5. /\ s \in Seq(Char) /\ Len(s) = n + 2
      /\ \A i \in 1 .. n : s[i] = w[i]
      /\ s[n + 1] = x /\ s[n + 2] = NL
  <2>1. w \in Seq(Char) /\ 2 \in Nat
    BY DEF Word
  <2>2. /\ s \in Seq(Char) /\ Len(s) = n + 2
        /\ \A i \in 1 .. n : s[i] = w[i]
        /\ \A i \in 1 .. 2 : s[n + i] = e[i]
    <3>1. /\ s \in Seq(Char) /\ Len(s) = Len(w) + Len(e)
          /\ \A i \in 1 .. Len(w) : s[i] = w[i]
          /\ \A i \in 1 .. Len(e) : s[Len(w) + i] = e[i]
      BY <1>3, <1>4, <2>1, Joined, Zenon
    <3> QED BY <1>1, <1>3, <3>1
  <2>3. 1 \in 1 .. 2 /\ 2 \in 1 .. 2
    OBVIOUS
  <2> QED BY <1>3, <2>2, <2>3
<1>6. ASSUME NEW i \in 1 .. n + 2, s[i] = NL PROVE i > 1 /\ s[i - 1] # NL
  <2>1. i \notin 1 .. n /\ i # n + 1
    BY <1>1, <1>5, <1>6 DEF Word
  <2>2. i = n + 2 /\ i - 1 = n + 1
    BY <2>1
  <2> QED BY <1>5, <2>2
<1>7. Lines(s)
  BY <1>5, <1>6 DEF Lines
<1> QED BY <1>2, <1>4, <1>7

LEMMA LinesJoin ==
  ASSUME NEW s, Lines(s), NEW r, Lines(r)
  PROVE  Lines(s \o r)
<1>1. PICK n \in Nat, m \in Nat : n = Len(s) /\ m = Len(r)
  BY DEF Lines
<1>2. PICK w : w = s \o r
  OBVIOUS
<1>3. /\ w \in Seq(Char) /\ Len(w) = n + m
      /\ \A i \in 1 .. n : w[i] = s[i]
      /\ \A i \in 1 .. m : w[n + i] = r[i]
  BY <1>1, <1>2 DEF Lines
<1>4. ASSUME n + m > 0 PROVE w[n + m] = NL
  <2>1. CASE m > 0
    BY <1>1, <1>3, <2>1 DEF Lines
  <2>2. CASE m = 0
    BY <1>1, <1>3, <1>4, <2>2 DEF Lines
  <2> QED BY <2>1, <2>2
<1>5. ASSUME NEW i \in 1 .. n + m, w[i] = NL PROVE i > 1 /\ w[i - 1] # NL
  <2>1. CASE i \in 1 .. n
    <3>1. i > 1 /\ s[i - 1] # NL
      BY <1>1, <1>3, <1>5, <2>1 DEF Lines
    <3>2. i - 1 \in 1 .. n
      BY <2>1, <3>1
    <3> QED BY <1>3, <3>1, <3>2
  <2>2. CASE i \notin 1 .. n
    <3>1. PICK k \in 1 .. m : i = n + k
      <4>1. i - n \in 1 .. m /\ i = n + (i - n)
        BY <2>2
      <4> QED BY <4>1
    <3>2. k > 1 /\ r[k - 1] # NL
      BY <1>1, <1>3, <1>5, <3>1 DEF Lines
    <3>3. k - 1 \in 1 .. m /\ n + (k - 1) = i - 1 /\ i > 1
      BY <3>1, <3>2
    <3> QED BY <1>3, <3>2, <3>3
  <2> QED BY <2>1, <2>2
<1>6. Lines(w)
  BY <1>3, <1>4, <1>5 DEF Lines
<1> QED BY <1>2, <1>6

LEMMA EntryLines ==
  ASSUME NEW i \in DOMAIN Commands
  PROVE  Lines(Entry(Commands[i]))
<1>1. PICK name : name = Commands[i].name
  OBVIOUS
<1>2. name \in Seq(STRING \ {NL})
  <2>1. PICK R : R = [name : Seq(STRING \ {NL}), does : Actions]
    OBVIOUS
  <2>2. Commands \in Seq(R)
    BY <2>1, ConsoleConstants
  <2>3. Commands[i] \in R
    BY <2>2
  <2> QED BY <1>1, <2>1, <2>3
<1>3. Word(<<"|">> \o name)
  <2>1. PICK n \in Nat : n = Len(name)
    BY <1>2
  <2>2. \A j \in 1 .. n : name[j] \in STRING \ {NL}
    BY <1>2, <2>1
  <2>3. name \in Seq(Char)
    BY <1>2, <2>1, <2>2 DEF Char
  <2>4. PICK b : b = <<"|">>
    OBVIOUS
  <2>5. b \in Seq(Char) /\ Len(b) = 1 /\ b[1] = "|"
    BY <2>4, Chars
  <2>6. PICK w : w = b \o name
    OBVIOUS
  <2>7. /\ w \in Seq(Char) /\ Len(w) = n + 1 /\ w[1] = "|"
        /\ \A j \in 1 .. n : w[j + 1] = name[j]
    <3>1. 1 \in Nat /\ 1 \in 1 .. 1
      OBVIOUS
    <3>2. /\ w \in Seq(Char) /\ Len(w) = 1 + n
          /\ \A j \in 1 .. 1 : w[j] = b[j]
          /\ \A j \in 1 .. n : w[1 + j] = name[j]
      <4>1. /\ w \in Seq(Char) /\ Len(w) = Len(b) + Len(name)
            /\ \A j \in 1 .. Len(b) : w[j] = b[j]
            /\ \A j \in 1 .. Len(name) : w[Len(b) + j] = name[j]
        BY <2>3, <2>5, <2>6, Joined, Zenon
      <4> QED BY <2>1, <2>5, <4>1
    <3>3. \A j \in 1 .. n : 1 + j = j + 1
      OBVIOUS
    <3>4. w[1] = "|"
      BY <2>5, <3>1, <3>2
    <3>5. Len(w) = n + 1
      BY <3>2
    <3> QED BY <3>2, <3>3, <3>4, <3>5
  <2>8. ASSUME NEW j \in 1 .. n + 1 PROVE w[j] # NL
    <3>1. CASE j = 1
      BY <2>7, <3>1, Literals
    <3>2. CASE j > 1
      <4>1. j - 1 \in 1 .. n /\ j = (j - 1) + 1
        BY <3>2
      <4>2. w[j] = name[j - 1]
        BY <2>7, <4>1
      <4> QED BY <2>2, <4>1, <4>2
    <3> QED BY <3>1, <3>2
  <2> QED BY <2>4, <2>6, <2>7, <2>8 DEF Word
<1>4. "|" \in Char
  BY Chars
<1> QED BY <1>1, <1>3, <1>4, WordLine, Literals DEF Entry

Helping(g) ==
  g = [S \in SUBSET (DOMAIN Commands) |->
         IF S = {} THEN <<"|", NL>> ELSE g[S \ {Max(S)}] \o Entry(Commands[Max(S)])]

HelpText == FoldLeft(LAMBDA text, command : text \o Entry(command), <<"|", NL>>, Commands)

LEMMA HelpIsChosen == HelpText = (CHOOSE g : Helping(g))[DOMAIN Commands]
  BY Zenon DEF HelpText, FoldLeft, MapThenFoldSet, Helping

LEMMA FirstLine == Lines(<<"|", NL>>)
<1>1. PICK s : s = <<"|", NL>>
  OBVIOUS
<1>2. s \in Seq(Char) /\ Len(s) = 2 /\ s[1] = "|" /\ s[2] = NL
  BY <1>1, Chars
<1>3. \A i \in 1 .. 2 : s[i] = NL => i > 1 /\ s[i - 1] # NL
  BY <1>2, Literals
<1> QED BY <1>1, <1>2, <1>3 DEF Lines

LEMMA HelpingExists == \E g : Helping(g)
<1>1. PICK n \in Nat : n = Len(Commands) /\ DOMAIN Commands = 1 .. n
  BY ConsoleConstants
<1>2. PICK E : E = [i \in 1 .. n |-> Entry(Commands[i])]
  OBVIOUS
<1>3. \A i \in 1 .. n : E[i] \in Seq(Char) /\ E[i] = Entry(Commands[i])
  BY <1>1, <1>2, EntryLines DEF Lines
<1>4. PICK e : e = [x \in Seq(Char) \X (1 .. n) |-> x[1] \o E[x[2]]]
  OBVIOUS
<1>5. e \in [Seq(Char) \X (1 .. n) -> Seq(Char)]
  <2>1. ASSUME NEW x \in Seq(Char) \X (1 .. n) PROVE x[1] \o E[x[2]] \in Seq(Char)
    <3>1. PICK a \in Seq(Char), b \in Seq(Char) : a = x[1] /\ b = E[x[2]]
      BY <1>3
    <3>2. a \o b \in Seq(Char)
      OBVIOUS
    <3> QED BY <3>1, <3>2
  <2> QED BY <1>4, <2>1
<1>6. PICK first \in Seq(Char) : first = <<"|", NL>>
  BY FirstLine DEF Lines
<1>7. PICK g \in [SUBSET (1 .. n) -> Seq(Char)] : FoldsAlong(g, first, e, n)
  BY <1>5, FoldExists
<1>8. ASSUME NEW S \in SUBSET (1 .. n), S # {}
      PROVE  g[S] = g[S \ {Max(S)}] \o Entry(Commands[Max(S)])
  <2>1. PICK m : m = Max(S)
    OBVIOUS
  <2>2. m \in 1 .. n /\ S \ {m} \in SUBSET (1 .. n)
    BY <1>8, <2>1, MaxMember
  <2>3. PICK u \in Seq(Char) : u = g[S \ {m}]
    BY <2>2
  <2>4. g[S] = e[<<u, m>>]
    BY <1>7, <1>8, <2>1, <2>3 DEF FoldsAlong
  <2>5. e[<<u, m>>] = u \o E[m]
    BY <1>4, <2>2
  <2> QED BY <1>3, <2>1, <2>2, <2>3, <2>4, <2>5
<1>9. g[{}] = <<"|", NL>>
  BY <1>6, <1>7 DEF FoldsAlong
<1>10. g = [S \in SUBSET (1 .. n) |-> g[S]]
  OBVIOUS
<1>11. Helping(g)
  BY <1>1, <1>8, <1>9, <1>10 DEF Helping
<1> QED BY <1>11

LEMMA HelpLines == Lines(HelpText)
<1>1. PICK n \in Nat : n = Len(Commands) /\ DOMAIN Commands = 1 .. n
  BY ConsoleConstants
<1>2. PICK g : g = CHOOSE h : Helping(h)
  OBVIOUS
<1>3. Helping(g)
  BY <1>2, HelpingExists
<1> DEFINE Good == {i \in 0 .. n : Lines(g[1 .. i])}
<1>4. 0 \in Good
  <2>1. 1 .. 0 = {} /\ 1 .. 0 \in SUBSET (1 .. n)
    OBVIOUS
  <2>2. g[1 .. 0] = <<"|", NL>>
    BY <1>1, <1>3, <2>1 DEF Helping
  <2> QED BY <2>2, FirstLine
<1>5. ASSUME NEW k \in 0 .. n - 1, k \in Good PROVE k + 1 \in Good
  <2>1. PICK i \in 1 .. n : i = k + 1 /\ i - 1 = k
    OBVIOUS
  <2>2. PICK S : S = 1 .. i
    OBVIOUS
  <2>3. S \in SUBSET (1 .. n) /\ S \in SUBSET Nat /\ i \in S /\ S # {} /\ \A x \in S : x <= i
    BY <2>2
  <2>4. Max(S) = i
    BY <2>3, MaxIs
  <2>5. S \ {i} = 1 .. k
    BY <2>1, <2>2
  <2>6. g[S] = g[S \ {Max(S)}] \o Entry(Commands[Max(S)])
    BY <1>1, <1>3, <2>3 DEF Helping
  <2>7. Lines(g[1 .. k]) /\ Lines(Entry(Commands[i]))
    BY <1>1, <1>5, EntryLines
  <2>8. g[1 .. i] = g[1 .. k] \o Entry(Commands[i])
    BY <2>2, <2>4, <2>5, <2>6
  <2>9. Lines(g[1 .. i])
    BY <2>7, <2>8, LinesJoin
  <2> QED BY <2>1, <2>9
<1>6. n \in Good
  <2>1. n \in 0 .. n
    OBVIOUS
  <2> HIDE DEF Good
  <2> QED BY <1>4, <1>5, <2>1, EveryStep
<1> QED BY <1>1, <1>2, <1>6, HelpIsChosen

-----------------------------------------------------------------------------
(***************************************************************************)
(* The steps of the console.                                               *)
(***************************************************************************)
LEMMA ClearRests ==
  ASSUME NEW t \in Screen
  PROVE  Rested(terminal_clear(t))
<1>1. t.cell \in [Cell -> Char]
  BY DEF Screen
<1>2. PICK cells : cells = [i \in Cell |-> IF i \in Visible THEN Blank ELSE t.cell[i]]
  OBVIOUS
<1>3. cells \in [Cell -> Char] /\ \A i \in Visible : cells[i] = Blank
  BY <1>1, <1>2, Cells, Chars
<1>4. PICK u : u = [row |-> 0, column |-> 0, cell |-> cells]
  OBVIOUS
<1>5. u \in Screen /\ u.row = 0 /\ u.column = 0 /\ u.cell = cells
  BY <1>3, <1>4 DEF Screen
<1>6. Clean(u)
  BY <1>3, <1>5 DEF Clean
<1>7. 0 \in 0 .. VGA_HEIGHT
  BY ScreenSizes
<1>8. Rested(u)
  BY <1>5, <1>6, <1>7 DEF Rested
<1> QED BY <1>2, <1>4, <1>8 DEF terminal_clear

LEMMA PromptIsWord == Word(Prompt) /\ Len(Prompt) \in Nat /\ Len(Prompt) > 1
<1>1. PICK n \in Nat : n = Len(Prompt) /\ n > 1
  BY ConsoleConstants
<1>2. \A i \in 1 .. n : Prompt[i] \in STRING \ {NL}
  BY <1>1, ConsoleConstants
<1>3. Prompt \in Seq(Char)
  BY <1>1, <1>2, ConsoleConstants DEF Char
<1> QED BY <1>1, <1>2, <1>3 DEF Word

\* The line is a word, and so is what the screen shows of it.
LEMMA LineFacts ==
  ASSUME NEW l \in Seq(Typed \ {NL})
  PROVE  /\ Word(l) /\ Tail(Prompt) \in Seq(Char)
         /\ Tail(Prompt) \o l \in Seq(Char)
         /\ Len(Tail(Prompt) \o l) = Len(Tail(Prompt)) + Len(l)
<1>1. PICK n \in Nat : n = Len(l)
  OBVIOUS
<1>2. \A i \in 1 .. n : l[i] \in Typed \ {NL}
  BY <1>1
<1>3. l \in Seq(Char)
  BY <1>1, <1>2, Chars
<1>4. Word(l)
  BY <1>1, <1>2, <1>3 DEF Word
<1>5. Tail(Prompt) \in Seq(Char)
  <2>1. Prompt \in Seq(Char) /\ Prompt # <<>>
    BY PromptIsWord DEF Word
  <2> QED BY <2>1
<1> QED BY <1>3, <1>4, <1>5, Joined

LEMMA ShownGrows ==
  ASSUME NEW l \in Seq(Typed \ {NL}), NEW c \in Typed \ {NL}
  PROVE  Tail(Prompt) \o Append(l, c) = Append(Tail(Prompt) \o l, c)
<1>1. PICK p \in Seq(Char) : p = Tail(Prompt)
  BY LineFacts
<1>2. l \in Seq(Char) /\ c \in Char
  BY LineFacts, Chars DEF Word
<1>3. p \o Append(l, c) = Append(p \o l, c)
  BY <1>2
<1> QED BY <1>1, <1>3

LEMMA ShownShrinks ==
  ASSUME NEW l \in Seq(Typed \ {NL}), Len(l) > 0
  PROVE  Tail(Prompt) \o SubSeq(l, 1, Len(l) - 1) =
           SubSeq(Tail(Prompt) \o l, 1, Len(Tail(Prompt) \o l) - 1)
<1>1. PICK p \in Seq(Char) : p = Tail(Prompt)
  BY LineFacts
<1>2. l \in Seq(Char)
  BY LineFacts DEF Word
<1>3. PICK n \in Nat, m \in Nat : n = Len(l) /\ m = Len(p) /\ n > 0
  OBVIOUS
<1>4. PICK w : w = p \o l
  OBVIOUS
<1>5. /\ w \in Seq(Char) /\ Len(w) = m + n
      /\ \A i \in 1 .. m : w[i] = p[i]
      /\ \A i \in 1 .. n : w[m + i] = l[i]
  BY <1>2, <1>3, <1>4, Joined
<1>6. PICK b : b = SubSeq(l, 1, n - 1)
  OBVIOUS
<1>7. b \in Seq(Char) /\ Len(b) = n - 1 /\ \A i \in 1 .. n - 1 : b[i] = l[i]
  BY <1>2, <1>3, <1>6
<1>8. PICK v : v = p \o b
  OBVIOUS
<1>9. /\ v \in Seq(Char) /\ Len(v) = m + (n - 1)
      /\ \A i \in 1 .. m : v[i] = p[i]
      /\ \A i \in 1 .. n - 1 : v[m + i] = b[i]
  <2>1. /\ v \in Seq(Char) /\ Len(v) = Len(p) + Len(b)
        /\ \A i \in 1 .. Len(p) : v[i] = p[i]
        /\ \A i \in 1 .. Len(b) : v[Len(p) + i] = b[i]
    BY <1>7, <1>8, Joined, Zenon
  <2> QED BY <1>3, <1>7, <2>1
<1>10. PICK r : r = SubSeq(w, 1, m + n - 1)
  OBVIOUS
<1>11. /\ r \in Seq(Char) /\ Len(r) = m + n - 1
       /\ \A i \in 1 .. m + n - 1 : r[i] = w[i]
  BY <1>3, <1>5, <1>10
<1>12. ASSUME NEW i \in 1 .. m + n - 1 PROVE v[i] = r[i]
  <2>1. CASE i \in 1 .. m
    BY <1>5, <1>9, <1>11, <1>12, <2>1
  <2>2. CASE i \notin 1 .. m
    <3>1. PICK k \in 1 .. n - 1 : i = m + k
      <4>1. i - m \in 1 .. n - 1 /\ i = m + (i - m)
        BY <2>2
      <4> QED BY <4>1
    <3>2. k \in 1 .. n
      BY <3>1
    <3> QED BY <1>5, <1>7, <1>9, <1>11, <3>1, <3>2
  <2> QED BY <2>1, <2>2
<1>13. v = r
  <2>1. PICK k \in Nat : k = m + n - 1
    BY <1>3
  <2>2. Len(v) = k /\ Len(r) = k /\ \A i \in 1 .. k : v[i] = r[i]
    BY <1>9, <1>11, <1>12, <2>1
  <2>3. v = [i \in 1 .. k |-> v[i]] /\ r = [i \in 1 .. k |-> r[i]]
    BY <1>9, <1>11, <2>2, LenProperties
  <2> QED BY <2>2, <2>3
<1> QED BY <1>1, <1>3, <1>4, <1>5, <1>6, <1>8, <1>10, <1>13

\* Between two lines of input.
LEMMA GoesOn ==
  ASSUME ConsoleInv, UNCHANGED <<waiting, char, line, keys>>,
         pc' \in {"prompt", "gets", "run"} \cup Actions, pc' # "gets", Rested(term)'
  PROVE  ConsoleInv'
  BY DEF ConsoleInv

LEMMA Prints ==
  ASSUME ConsoleInv, UNCHANGED <<line, kbuff, keys>>, pc # "gets", pc' = "prompt",
         NEW s, Lines(s), printf(s)
  PROVE  ConsoleInv'
<1>1. Rested(term) /\ UNCHANGED <<waiting, char, line, keys>>
  BY DEF ConsoleInv, kbuff
<1>2. term' = terminal_write(term, s)
  BY DEF printf
<1>3. Rested(terminal_write(term, s))
  BY <1>1, LinesRest
<1>4. Rested(term)' <=> Rested(term')
  BY DEF Rested, Clean, Place
<1> QED BY <1>1, <1>2, <1>3, <1>4, GoesOn

\* A key that finds the buffer full makes it forget the oldest.
LEMMA PushFacts ==
  ASSUME NEW q \in Seq(Typed), Len(q) <= BUFFER_SIZE, NEW c \in Typed
  PROVE  /\ Kbuff!Recent(Append(q, c)) \in Seq(Typed)
         /\ Len(Kbuff!Recent(Append(q, c))) <= BUFFER_SIZE
         /\ Len(Kbuff!Recent(Append(q, c))) <= Len(q) + 1
<1>1. PICK w : w = Append(q, c)
  OBVIOUS
<1>2. PICK n \in Nat : n = Len(q)
  OBVIOUS
<1>3. w \in Seq(Typed) /\ Len(w) = n + 1
  BY <1>1, <1>2
<1>4. Tail(w) \in Seq(Typed) /\ Len(Tail(w)) = n
  BY <1>3
<1>5. BUFFER_SIZE \in Nat
  BY ConsoleConstants
<1>6. CASE n + 1 > BUFFER_SIZE
  <2>1. Kbuff!Recent(w) = Tail(w)
    BY <1>3, <1>6 DEF Kbuff!Recent
  <2> QED BY <1>1, <1>2, <1>4, <1>5, <2>1
<1>7. CASE n + 1 <= BUFFER_SIZE
  <2>1. Kbuff!Recent(w) = w
    BY <1>3, <1>5, <1>7 DEF Kbuff!Recent
  <2> QED BY <1>1, <1>2, <1>3, <1>5, <1>7, <2>1
<1> QED BY <1>5, <1>6, <1>7

LEMMA keyboard_handlerKeeps ==
  ASSUME ConsoleInv, NEW c \in Typed, keyboard_handler(c)
  PROVE  ConsoleInv'
<1>1. /\ keys < MaxKeys /\ keys' = keys + 1 /\ waiting' = Kbuff!Recent(Append(waiting, c))
      /\ UNCHANGED <<char, term, line, pc>>
  BY DEF keyboard_handler, Kbuff!PushBack, shell
<1>2. /\ waiting \in Seq(Typed) /\ Len(waiting) \in Nat /\ keys \in 0 .. MaxKeys
      /\ Len(waiting) <= BUFFER_SIZE /\ line \in Seq(Typed \ {NL}) /\ Len(line) \in Nat
      /\ MaxKeys \in Nat
  BY ConsoleConstants DEF ConsoleInv
<1>3. /\ waiting' \in Seq(Typed) /\ Len(waiting') \in Nat
      /\ Len(waiting') <= BUFFER_SIZE /\ Len(waiting') <= Len(waiting) + 1
  <2>1. PICK w : w = Kbuff!Recent(Append(waiting, c))
    OBVIOUS
  <2>2. w \in Seq(Typed) /\ Len(w) <= BUFFER_SIZE /\ Len(w) <= Len(waiting) + 1
    BY <1>2, <2>1, PushFacts
  <2> QED BY <1>1, <2>1, <2>2
<1>4. keys' \in 0 .. MaxKeys /\ Len(line') + Len(waiting') <= keys'
  BY <1>1, <1>2, <1>3 DEF ConsoleInv
<1>5. ASSUME pc = "gets" PROVE Len(waiting') - term.column <= keys'
  <2>1. term.column \in Int
    BY <1>5 DEF ConsoleInv, Inside, Screen
  <2> QED BY <1>1, <1>2, <1>3, <1>5, <2>1 DEF ConsoleInv
<1>6. /\ Rested(term) => Rested(term)'
      /\ Inside(term) => Inside(term)'
      /\ Place(term)' = Place(term) /\ Tells(term, Shown) => Tells(term, Shown)'
  BY <1>1 DEF Rested, Inside, Clean, Tells, Place, Shown
<1> QED BY <1>1, <1>3, <1>4, <1>5, <1>6 DEF ConsoleInv

LEMMA shell_mainKeeps ==
  ASSUME ConsoleInv, shell_main
  PROVE  ConsoleInv'
<1>1. /\ pc = "prompt" /\ term' = terminal_write(term, Prompt) /\ line' = <<>>
      /\ pc' = "gets" /\ UNCHANGED <<waiting, char, keys>>
  BY DEF shell_main, printf, kbuff
<1>2. /\ waiting \in Seq(Typed) /\ Len(waiting) \in Nat /\ keys \in Nat
      /\ line \in Seq(Typed \ {NL}) /\ Len(line) \in Nat /\ Len(line) + Len(waiting) <= keys
      /\ Rested(term)
  BY <1>1, ConsoleConstants DEF ConsoleInv
<1>3. PICK u : u = term'
  OBVIOUS
<1>4. Inside(u) /\ u.column >= 0 /\ Tells(u, Tail(Prompt))
  BY <1>1, <1>2, <1>3, PromptIsWord, WordTells DEF Word
<1>5. line' \in Seq(Typed \ {NL}) /\ Len(line') = 0
  BY <1>1
<1>6. Shown' = Tail(Prompt)
  <2>1. PICK p \in Seq(Char) : p = Tail(Prompt)
    BY <1>2, LineFacts
  <2>2. p \o <<>> = p
    OBVIOUS
  <2> QED BY <1>1, <2>1, <2>2 DEF Shown
<1>7. Inside(term)' /\ (Place(term) >= Len(line))' /\ Tells(term, Shown)'
  BY <1>3, <1>4, <1>5, <1>6 DEF Inside, Clean, Tells, Place
<1>8. Len(line') + Len(waiting') <= keys' /\ Len(waiting') - u.column <= keys'
  <2>1. u.column \in Int
    BY <1>4 DEF Inside, Screen
  <2> QED BY <1>1, <1>2, <1>4, <1>5, <2>1
<1>9. Len(line') <= MaxLine
  BY <1>5, ConsoleConstants
<1> QED BY <1>1, <1>3, <1>5, <1>7, <1>8, <1>9 DEF ConsoleInv

(***************************************************************************)
(* A character popped by gets ends the line, goes from it, or joins it.    *)
(***************************************************************************)
LEMMA PopFacts ==
  ASSUME ConsoleInv, gets
  PROVE  /\ pc = "gets" /\ UNCHANGED keys
         /\ char' \in Typed /\ waiting' \in Seq(Typed)
         /\ Len(waiting') = Len(waiting) - 1 /\ Len(waiting') \in Nat /\ Len(waiting) \in Nat
         /\ line \in Seq(Typed \ {NL}) /\ Len(line) \in Nat
         /\ Len(line) <= MaxLine /\ MaxLine \in Nat
         /\ keys \in 0 .. MaxKeys /\ MaxKeys \in Nat
         /\ Len(line) + Len(waiting) <= keys
         /\ Len(waiting') <= BUFFER_SIZE
         /\ Inside(term) /\ Place(term) \in Int /\ Place(term) >= Len(line)
         /\ term.column \in Int /\ Len(waiting) - term.column <= keys
         /\ Tells(term, Shown)
<1>1. /\ pc = "gets" /\ UNCHANGED keys /\ waiting # <<>>
      /\ char' = waiting[Len(waiting)]
      /\ waiting' = SubSeq(waiting, 1, Len(waiting) - 1)
  BY DEF gets, Kbuff!PopBack
<1>2. /\ waiting \in Seq(Typed) /\ line \in Seq(Typed \ {NL}) /\ keys \in 0 .. MaxKeys
      /\ Len(line) + Len(waiting) <= keys /\ Len(waiting) <= BUFFER_SIZE
      /\ Inside(term) /\ Place(term) >= Len(line)
      /\ Len(waiting) - term.column <= keys /\ Tells(term, Shown)
  BY <1>1 DEF ConsoleInv
<1>3. PICK n \in Nat : n = Len(waiting) /\ n > 0
  BY <1>1, <1>2
<1>4. n \in 1 .. n /\ n - 1 \in Nat
  BY <1>3
<1>5. char' \in Typed
  BY <1>1, <1>2, <1>3, <1>4
<1>6. PICK w : w = SubSeq(waiting, 1, n - 1)
  OBVIOUS
<1>7. w \in Seq(Typed) /\ Len(w) = n - 1
  BY <1>2, <1>3, <1>4, <1>6
<1>8. BUFFER_SIZE \in Nat /\ MaxKeys \in Nat
  BY ConsoleConstants
<1>9. Place(term) \in Int /\ term.column \in Int
  BY <1>2, PlaceInside, VisibleIs DEF Inside, Screen
<1>10. Len(waiting') = Len(waiting) - 1 /\ Len(waiting') \in Nat /\ Len(waiting) \in Nat
  BY <1>1, <1>3, <1>4, <1>6, <1>7
<1>11. Len(waiting') <= BUFFER_SIZE
  BY <1>2, <1>8, <1>10
<1>12. Len(line) \in Nat /\ Len(line) <= MaxLine /\ MaxLine \in Nat
  BY <1>2, ConsoleConstants DEF ConsoleInv
<1>13. waiting' \in Seq(Typed)
  BY <1>1, <1>3, <1>6, <1>7
<1> QED BY <1>1, <1>2, <1>5, <1>8, <1>9, <1>10, <1>11, <1>12, <1>13

LEMMA Shortened ==
  ASSUME NEW S, NEW s \in Seq(S), Len(s) > 0
  PROVE  /\ SubSeq(s, 1, Len(s) - 1) \in Seq(S)
         /\ Len(SubSeq(s, 1, Len(s) - 1)) = Len(s) - 1
<1>1. PICK n \in Nat : n = Len(s) /\ n - 1 \in Nat
  OBVIOUS
<1>2. \A i \in 1 .. n : s[i] \in S
  BY <1>1
<1>3. PICK w : w = SubSeq(s, 1, n - 1)
  OBVIOUS
<1>4. w \in Seq(S) /\ Len(w) = n - 1
  BY <1>1, <1>2, <1>3
<1> QED BY <1>1, <1>3, <1>4

\* The conjuncts of the invariant while gets goes on.
LEMMA Reads ==
  ASSUME ConsoleInv, gets, pc' = "gets", line' \in Seq(Typed \ {NL}), NEW u, u = term',
         Len(line') + Len(waiting') <= keys, Len(line') <= MaxLine, Inside(u), Place(u) >= Len(line'),
         Len(waiting') - u.column <= keys, Tells(u, Shown')
  PROVE  ConsoleInv'
<1>1. /\ waiting' \in Seq(Typed) /\ Len(waiting') <= BUFFER_SIZE /\ char' \in Typed
      /\ keys' = keys /\ keys \in 0 .. MaxKeys
  BY PopFacts
<1>2. Inside(term)' /\ (Place(term) >= Len(line))' /\ Tells(term, Shown)'
  BY DEF Inside, Clean, Tells, Place
<1> QED BY <1>1, <1>2 DEF ConsoleInv

LEMMA getsKeeps ==
  ASSUME ConsoleInv, gets
  PROVE  ConsoleInv'
<1> USE PopFacts
<1>1. CASE char' = NL
  <2>1. term' = terminal_write(term, <<NL>>) /\ pc' = "run" /\ line' = line
    BY <1>1 DEF gets, Erases, printf
  <2>2. term' = terminal_putchar(term, NL)
    <3>1. term \in Screen /\ NL \in Char
      BY Chars DEF Inside
    <3> QED BY <2>1, <3>1, WriteOne
  <2>3. Rested(term)'
    <3>1. Rested(terminal_putchar(term, NL))
      BY NewLineRests
    <3> QED BY <2>2, <3>1 DEF Rested, Clean, Place
  <2>4. Len(line') + Len(waiting') <= keys' /\ Len(line') <= MaxLine
    BY <2>1
  <2> QED BY <2>1, <2>3, <2>4 DEF ConsoleInv
<1>2. CASE char' # NL /\ Erases(char')
  <2>1. /\ term' = terminal_remove_last_char(term)
        /\ line' = SubSeq(line, 1, Len(line) - 1) /\ pc' = "gets"
    BY <1>2 DEF gets
  <2>2. Len(line) > 0 /\ Place(term) > 0
    BY <1>2 DEF Erases
  <2>3. PICK u : u = term'
    OBVIOUS
  <2>4. /\ Inside(u) /\ Place(u) = Place(term) - 1 /\ u.column = term.column - 1
        /\ \A s \in Seq(Char) :
             Tells(term, s) /\ Len(s) > 0 => Tells(u, SubSeq(s, 1, Len(s) - 1))
    BY <2>1, <2>2, <2>3, ErasedTells
  <2>5. PICK l : l = SubSeq(line, 1, Len(line) - 1)
    OBVIOUS
  <2>6. l \in Seq(Typed \ {NL}) /\ Len(l) = Len(line) - 1
    BY <2>2, <2>5, Shortened
  <2>7. Tells(u, Shown')
    <3>1. PICK s : s = Shown
      OBVIOUS
    <3>2. s \in Seq(Char) /\ Len(s) = Len(Tail(Prompt)) + Len(line) /\ Tail(Prompt) \in Seq(Char)
      BY <3>1, LineFacts DEF Shown
    <3>3. Len(s) > 0
      <4>1. Len(Tail(Prompt)) \in Nat
        BY <3>2
      <4> QED BY <2>2, <3>2, <4>1
    <3>4. Shown' = SubSeq(s, 1, Len(s) - 1)
      BY <2>1, <2>2, <3>1, ShownShrinks DEF Shown
    <3> QED BY <2>4, <3>1, <3>2, <3>3, <3>4
  <2>8. /\ Len(line') + Len(waiting') <= keys /\ Place(u) >= Len(line')
        /\ Len(line') <= MaxLine
    <3>1. line' = l
      BY <2>1, <2>5
    <3>2. Len(l) + Len(waiting') <= keys /\ Len(l) <= MaxLine
      BY <2>2, <2>6
    <3>3. Place(u) >= Len(l)
      BY <2>2, <2>4, <2>6
    <3> QED BY <3>1, <3>2, <3>3
  <2>9. Len(waiting') - u.column <= keys
    BY <2>4
  <2> QED BY <2>1, <2>3, <2>4, <2>5, <2>6, <2>7, <2>8, <2>9, Reads
<1>3. CASE char' # NL /\ ~Erases(char')
  <2>1. PICK c \in Typed \ {NL} : c = char'
    BY <1>3
  <2>2. /\ term' = terminal_write(term, <<c>>) /\ line' = Append(line, c) /\ pc' = "gets"
        /\ Len(line) < MaxLine
    BY <1>3, <2>1 DEF gets, printf
  <2>3. PICK u : u = term'
    OBVIOUS
  <2>4. u = terminal_putchar(term, c) /\ c \in Char /\ c # NL
    <3>1. term \in Screen /\ c \in Char
      BY <2>1, Chars DEF Inside
    <3> QED BY <2>1, <2>2, <2>3, <3>1, WriteOne
  <2>5. /\ Inside(u) /\ (u.column = term.column + 1 \/ u.column = 0)
        /\ Place(u) = Place(term) + 1 \/ Place(u) = VGA_WIDTH * (VGA_HEIGHT - 1)
    BY <2>4, PutInside
  <2>6. PICK l : l = Append(line, c)
    OBVIOUS
  <2>7. l \in Seq(Typed \ {NL}) /\ Len(l) = Len(line) + 1
    BY <2>1, <2>6
  <2>8. Tells(u, Shown')
    <3>1. PICK s \in Seq(Char) : s = Shown
      BY LineFacts DEF Shown
    <3>2. Tells(u, Append(s, c))
      BY <2>4, <3>1, PutTells
    <3>3. Shown' = Append(s, c)
      BY <2>1, <2>2, <3>1, ShownGrows DEF Shown
    <3> QED BY <3>2, <3>3
  <2>9. Len(l) + Len(waiting') <= keys /\ Len(l) <= MaxLine
    BY <2>2, <2>7
  <2>10. Place(u) >= Len(l)
    <3>1. MaxLine <= VGA_WIDTH * (VGA_HEIGHT - 1) /\ VGA_WIDTH * (VGA_HEIGHT - 1) \in Nat
      BY ConsoleConstants, ScreenSizes
    <3>2. PICK room \in Nat : room = VGA_WIDTH * (VGA_HEIGHT - 1)
      BY <3>1
    <3>3. Len(l) <= room
      BY <2>7, <2>9, <3>1, <3>2
    <3> QED BY <2>5, <2>7, <3>2, <3>3
  <2>11. Len(waiting') - u.column <= keys
    BY <2>5
  <2> QED BY <2>2, <2>3, <2>5, <2>6, <2>7, <2>8, <2>9, <2>10, <2>11, Reads
<1> QED BY <1>1, <1>2, <1>3

LEMMA FirstAccepted ==
  ASSUME Accepted # {}
  PROVE  Commands[First].does \in Actions
<1>1. PICK R : R = [name : Seq(STRING \ {NL}), does : Actions]
  OBVIOUS
<1>2. Commands \in Seq(R)
  BY <1>1, ConsoleConstants
<1>3. PICK n \in Nat : n = Len(Commands) /\ DOMAIN Commands = 1 .. n
  BY <1>2
<1>4. Accepted \in SUBSET Nat
  BY <1>3 DEF Accepted
<1>5. \E i \in Accepted : \A j \in Accepted : i <= j
  BY <1>4, SmallestNumber
<1>6. First \in Accepted
  BY <1>5 DEF First
<1>7. First \in 1 .. n
  BY <1>3, <1>6 DEF Accepted
<1>8. Commands[First] \in R
  BY <1>2, <1>3, <1>7
<1> QED BY <1>1, <1>8

LEMMA run_programKeeps ==
  ASSUME ConsoleInv, run_program
  PROVE  ConsoleInv'
<1>1. /\ pc = "run" /\ Accepted # {} /\ pc' = Commands[First].does
      /\ UNCHANGED <<term, line, waiting, char, keys>>
  BY DEF run_program, kbuff
<1>2. pc' \in Actions
  BY <1>1, FirstAccepted
<1>3. pc' # "gets"
  BY <1>2 DEF Actions
<1>4. Rested(term)'
  BY <1>1 DEF ConsoleInv, Rested, Clean, Place
<1> QED BY <1>1, <1>2, <1>3, <1>4, GoesOn

LEMMA not_foundKeeps ==
  ASSUME ConsoleInv, not_found
  PROVE  ConsoleInv'
<1>1. Word(line)
  BY LineFacts DEF ConsoleInv
<1>2. Lines(line \o <<":", NL>>)
  BY <1>1, Chars, Literals, WordLine
<1>3. /\ pc # "gets" /\ pc' = "prompt" /\ UNCHANGED <<line, kbuff, keys>>
      /\ printf(line \o <<":", NL>>)
  BY DEF not_found
<1> QED BY <1>2, <1>3, Prints

LEMMA command_helpKeeps ==
  ASSUME ConsoleInv, command_help
  PROVE  ConsoleInv'
<1>1. /\ pc # "gets" /\ pc' = "prompt" /\ UNCHANGED <<line, kbuff, keys>>
      /\ printf(HelpText)
  BY DEF command_help, Done, HelpText
<1> QED BY <1>1, HelpLines, Prints

LEMMA command_clearKeeps ==
  ASSUME ConsoleInv, command_clear
  PROVE  ConsoleInv'
<1>1. /\ pc = "clear" /\ pc' = "prompt" /\ UNCHANGED <<line, waiting, char, keys>>
      /\ term' = terminal_clear(term)
  BY DEF command_clear, Done, kbuff
<1>2. term \in Screen
  BY <1>1 DEF ConsoleInv, Rested
<1>3. Rested(terminal_clear(term))
  BY <1>2, ClearRests
<1>4. Rested(term)'
  BY <1>1, <1>3 DEF Rested, Clean, Place
<1> QED BY <1>1, <1>4, GoesOn

LEMMA clock_command_timesysKeeps ==
  ASSUME ConsoleInv, clock_command_timesys
  PROVE  ConsoleInv'
<1>1. /\ pc # "gets" /\ pc' = "prompt" /\ UNCHANGED <<line, kbuff, keys>>
      /\ printf(<<"#", NL>>)
  BY DEF clock_command_timesys, Done
<1>2. PICK s : s = <<"#", NL>>
  OBVIOUS
<1>3. s \in Seq(Char) /\ Len(s) = 2 /\ s[1] = "#" /\ s[2] = NL
  BY <1>2, Chars
<1>4. \A i \in 1 .. 2 : s[i] = NL => i > 1 /\ s[i - 1] # NL
  BY <1>3, Literals
<1>5. Lines(s)
  BY <1>3, <1>4 DEF Lines
<1> QED BY <1>1, <1>2, <1>5, Prints

LEMMA TableLines ==
  ASSUME NEW k \in Nat
  PROVE  Lines(Table(k))
<1>1. PICK s : s = Table(k)
  OBVIOUS
<1>2. "|" \in Char /\ NL \in Char
  BY Chars
<1>3. /\ DOMAIN s = 1 .. 2 * k /\ 2 * k \in Nat
      /\ \A i \in 1 .. 2 * k : s[i] = IF i % 2 = 1 THEN "|" ELSE NL
  BY <1>1 DEF Table
<1>4. s = [i \in 1 .. 2 * k |-> s[i]]
  BY <1>1, <1>3 DEF Table
<1>5. \A i \in 1 .. 2 * k : s[i] \in Char
  BY <1>2, <1>3
<1>6. s \in Seq(Char) /\ Len(s) = 2 * k
  BY <1>3, <1>4, <1>5
<1>7. ASSUME NEW i \in 1 .. 2 * k, s[i] = NL PROVE i > 1 /\ s[i - 1] # NL
  <2>1. i % 2 = 0
    BY <1>3, <1>7, Literals
  <2>2. i > 1 /\ i - 1 \in 1 .. 2 * k /\ (i - 1) % 2 = 1
    BY <2>1
  <2> QED BY <1>3, <2>2, Literals
<1>8. 2 * k > 0 => s[2 * k] = NL
  <2>1. (2 * k) % 2 = 0
    OBVIOUS
  <2> QED BY <1>3, <2>1
<1> QED BY <1>1, <1>6, <1>7, <1>8 DEF Lines

LEMMA heap_statsKeeps ==
  ASSUME ConsoleInv, heap_stats
  PROVE  ConsoleInv'
<1>1. PICK blocks \in Nat : printf(Table(1 + blocks))
  BY ConsoleConstants DEF heap_stats
<1>2. pc # "gets" /\ pc' = "prompt" /\ UNCHANGED <<line, kbuff, keys>>
  BY DEF heap_stats, Done
<1>3. Lines(Table(1 + blocks))
  BY TableLines
<1> QED BY <1>1, <1>2, <1>3, Prints

LEMMA print_dateKeeps ==
  ASSUME ConsoleInv, print_date
  PROVE  ConsoleInv'
<1>1. /\ pc # "gets" /\ pc' = "prompt" /\ UNCHANGED <<line, kbuff, keys>>
      /\ printf(<<"/", ":", NL>>)
  BY DEF print_date, Done
<1>2. PICK s : s = <<"/", ":", NL>>
  OBVIOUS
<1>3. s \in Seq(Char) /\ Len(s) = 3 /\ s[1] = "/" /\ s[2] = ":" /\ s[3] = NL
  BY <1>2, Chars
<1>4. \A i \in 1 .. 3 : s[i] = NL => i > 1 /\ s[i - 1] # NL
  BY <1>3, Literals
<1>5. Lines(s)
  BY <1>3, <1>4 DEF Lines
<1> QED BY <1>1, <1>2, <1>5, Prints

LEMMA ConsoleUnchanged ==
  ASSUME ConsoleInv, UNCHANGED <<shell, kbuff, keys>>
  PROVE  ConsoleInv'
<1>1. UNCHANGED <<term, line, pc, waiting, char, keys>>
  BY DEF shell, kbuff
<1>2. /\ Rested(term) => Rested(term)'
      /\ Inside(term) => Inside(term)'
      /\ Place(term)' = Place(term)
      /\ Tells(term, Shown) => Tells(term, Shown)'
  BY <1>1 DEF Rested, Inside, Clean, Tells, Place, Shown
<1> QED BY <1>1, <1>2 DEF ConsoleInv

LEMMA ConsoleStart ==
  ASSUME Init
  PROVE  ConsoleInv /\ RtcInv
<1>1. /\ term = terminal_clear(terminal_initialize) /\ waiting = <<>> /\ char = NoChar
      /\ line = <<>> /\ pc = "prompt" /\ keys = 0
  BY DEF Init, Kbuff!Init
<1>2. terminal_initialize \in Screen
  <2>1. PICK cells : cells = [i \in Cell |-> Blank]
    OBVIOUS
  <2>2. cells \in [Cell -> Char]
    BY <2>1, Chars
  <2>3. [row |-> 0, column |-> 0, cell |-> cells] \in Screen
    BY <2>2 DEF Screen
  <2> QED BY <2>1, <2>3 DEF terminal_initialize
<1>3. Rested(term)
  BY <1>1, <1>2, ClearRests
<1>4. BUFFER_SIZE \in Nat /\ 0 \in 0 .. MaxKeys /\ MaxLine \in Nat
  BY ConsoleConstants
<1>5. waiting \in Seq(Typed) /\ Len(waiting) = 0 /\ line \in Seq(Typed \ {NL}) /\ Len(line) = 0
  BY <1>1
<1>6. ConsoleInv
  <2>1. Len(waiting) <= BUFFER_SIZE /\ Len(line) + Len(waiting) <= keys /\ Len(line) <= MaxLine
    BY <1>1, <1>4, <1>5
  <2> QED BY <1>1, <1>3, <1>4, <1>5, <2>1 DEF ConsoleInv
<1> QED BY <1>6, RtcStart DEF Init

(***************************************************************************)
(* Every step of the console keeps its invariant and that of the clock.    *)
(***************************************************************************)
LEMMA ConsoleStep ==
  ASSUME ConsoleInv, RtcInv, Next
  PROVE  ConsoleInv' /\ RtcInv'
<1>1. CASE shell_main
  BY <1>1, shell_mainKeeps, RtcUnchanged DEF shell_main
<1>2. CASE gets
  BY <1>2, getsKeeps, RtcUnchanged DEF gets
<1>3. CASE run_program
  <2>1. read_rtc \/ UNCHANGED rtcVars
    BY <1>3 DEF run_program
  <2> QED BY <1>3, <2>1, run_programKeeps, read_rtcKeeps, RtcUnchanged
<1>4. CASE not_found
  BY <1>4, not_foundKeeps, RtcUnchanged DEF not_found
<1>5. CASE command_help
  BY <1>5, command_helpKeeps, RtcUnchanged DEF command_help
<1>6. CASE command_clear
  BY <1>6, command_clearKeeps, RtcUnchanged DEF command_clear
<1>7. CASE clock_command_timesys \/ heap_stats
  BY <1>7, clock_command_timesysKeeps, heap_statsKeeps, RtcUnchanged
     DEF clock_command_timesys, heap_stats
<1>8. CASE format_date
  <2>1. UNCHANGED <<shell, kbuff, keys>>
    BY <1>8 DEF format_date
  <2>2. await_flag \/ get_RTC_register \/ compare_fails \/ read_rtc_ends
    BY <1>8 DEF format_date, reader
  <2>3. RtcInv'
    BY <2>2, await_flagKeeps, get_RTC_registerKeeps, compare_failsKeeps, read_rtc_endsKeeps
  <2> QED BY <2>1, <2>3, ConsoleUnchanged
<1>9. CASE print_date
  <2>1. date_used
    BY <1>9 DEF print_date
  <2> QED BY <1>9, <2>1, print_dateKeeps, date_usedKeeps
<1>10. CASE chip_announces
  <2>1. announce /\ UNCHANGED <<shell, kbuff, keys>>
    BY <1>10 DEF chip_announces
  <2> QED BY <2>1, ConsoleUnchanged, announceKeeps
<1>11. CASE chip_updates
  <2>1. update /\ UNCHANGED <<shell, kbuff, keys>>
    BY <1>11 DEF chip_updates
  <2> QED BY <2>1, ConsoleUnchanged, updateKeeps
<1>12. ASSUME NEW c \in Typed, keyboard_handler(c) PROVE ConsoleInv' /\ RtcInv'
  <2>1. UNCHANGED rtcVars
    BY <1>12 DEF keyboard_handler
  <2> QED BY <1>12, <2>1, keyboard_handlerKeeps, RtcUnchanged
<1> QED BY <1>1, <1>2, <1>3, <1>4, <1>5, <1>6, <1>7, <1>8, <1>9, <1>10, <1>11, <1>12
     DEF Next, kernel_thread

LEMMA ConsoleInvariant == Spec => [](ConsoleInv /\ RtcInv)
<1>1. Init => ConsoleInv /\ RtcInv
  BY ConsoleStart
<1>2. ConsoleInv /\ RtcInv /\ [Next]_vars => (ConsoleInv /\ RtcInv)'
  <2> SUFFICES ASSUME ConsoleInv, RtcInv, [Next]_vars PROVE ConsoleInv' /\ RtcInv'
    OBVIOUS
  <2>1. CASE Next
    BY <2>1, ConsoleStep
  <2>2. CASE UNCHANGED vars
    <3>1. UNCHANGED <<shell, kbuff, keys>> /\ UNCHANGED rtcVars
      BY <2>2 DEF vars
    <3> QED BY <3>1, ConsoleUnchanged, RtcUnchanged
  <2> QED BY <2>1, <2>2
<1> QED BY <1>1, <1>2, PTL DEF Spec

(***************************************************************************)
(* While the shell runs, gets and the handler keep characters in the line  *)
(* and in the buffer, the row stays on the screen or right below it, and   *)
(* every index into video memory lies in it: the column is below zero by   *)
(* no more than the keys pressed.                                          *)
(***************************************************************************)
THEOREM ConsoleTypeCorrect == Spec => []TypeOK
<1>1. ConsoleInv /\ RtcInv => TypeOK
  <2> SUFFICES ASSUME ConsoleInv, RtcInv PROVE TypeOK
    OBVIOUS
  <2>1. /\ VGA_WIDTH \in Nat /\ VGA_WIDTH > 1 /\ VGA_HEIGHT \in Nat /\ MaxKeys \in Nat
        /\ keys \in 0 .. MaxKeys
    BY ScreenSizes, ConsoleConstants DEF ConsoleInv
  <2>2. term \in Screen /\ term.column \in Int /\ DOMAIN term.cell = Cell
    BY DEF ConsoleInv, Rested, Inside, Screen
  <2>3. CASE pc = "gets"
    <3>1. /\ Inside(term) /\ Len(waiting) - term.column <= keys
          /\ waiting \in Seq(Typed)
      BY <2>3 DEF ConsoleInv
    <3>2. term.row \in 0 .. VGA_HEIGHT /\ term.column < VGA_WIDTH
      BY <2>1, <3>1 DEF Inside
    <3>3. Len(waiting) \in Nat
      BY <3>1
    <3>4. term.column \in -MaxKeys .. VGA_WIDTH - 1
      BY <2>1, <2>2, <3>1, <3>2, <3>3
    <3>5. Place(term) \in Cell
      BY <3>1, PlaceInside, Cells
    <3> QED BY <2>2, <3>2, <3>4, <3>5 DEF ConsoleInv, RtcInv, TypeOK
  <2>4. CASE pc # "gets"
    <3>1. term.row \in 0 .. VGA_HEIGHT /\ term.column = 0
      BY <2>4 DEF ConsoleInv, Rested
    <3>2. term.column \in -MaxKeys .. VGA_WIDTH - 1
      BY <2>1, <3>1
    <3>3. PICK r \in 0 .. VGA_HEIGHT : r = term.row
      BY <3>1
    <3>4. Place(term) = r * VGA_WIDTH + 0
      BY <3>1, <3>3 DEF Place
    <3>5. /\ r * VGA_WIDTH \in Nat
          /\ r * VGA_WIDTH < VGA_WIDTH * VGA_HEIGHT + VGA_WIDTH
      <4>1. (VGA_HEIGHT - r) * VGA_WIDTH >= 0 /\ r * VGA_WIDTH \in Nat
        BY <2>1
      <4>2. (VGA_HEIGHT - r) * VGA_WIDTH = VGA_WIDTH * VGA_HEIGHT - r * VGA_WIDTH
        BY <2>1
      <4>3. VGA_WIDTH * VGA_HEIGHT \in Nat
        BY ScreenSizes
      <4> QED BY <2>1, <4>1, <4>2, <4>3
    <3>6. Place(term) \in Int /\ 0 <= Place(term)
          /\ Place(term) < VGA_WIDTH * VGA_HEIGHT + VGA_WIDTH
      BY <3>4, <3>5
    <3>7. Place(term) \in Cell
      BY <3>6, VisibleIs
    <3> QED BY <2>2, <3>1, <3>2, <3>7 DEF ConsoleInv, RtcInv, TypeOK
  <2> QED BY <2>3, <2>4
<1> QED BY <1>1, ConsoleInvariant, PTL

(***************************************************************************)
(* What stands on the screen while gets waits is the prompt and the line,  *)
(* for every size of the screen, every prompt and all keys pressed: a      *)
(* backspace takes away the character it should.                           *)
(***************************************************************************)
THEOREM LineIsShown == Spec => []Echo
<1>1. ConsoleInv => Echo
  <2> SUFFICES ASSUME ConsoleInv, pc = "gets"
               PROVE  /\ \A i \in DOMAIN Shown :
                           LET index == Place(term) - Len(Shown) + i - 1
                           IN index >= VGA_WIDTH =>
                                index \in Visible /\ term.cell[index] = Shown[i]
                      /\ \A index \in Visible : index >= Place(term) => term.cell[index] = Blank
    BY DEF Echo
  <2>1. Tells(term, Shown) /\ Clean(term) /\ line \in Seq(Typed \ {NL})
    BY DEF ConsoleInv, Inside
  <2>2. PICK s \in Seq(Char) : s = Shown
    BY <2>1, LineFacts DEF Shown
  <2>3. DOMAIN s = 1 .. Len(s)
    BY <2>2
  <2>4. \A i \in DOMAIN Shown :
          LET index == Place(term) - Len(Shown) + i - 1
          IN index >= VGA_WIDTH => index \in Visible /\ term.cell[index] = Shown[i]
    BY <2>1, <2>2, <2>3 DEF Tells
  <2> QED BY <2>1, <2>4 DEF Clean
<1> QED BY <1>1, ConsoleInvariant, PTL

(***************************************************************************)
(* The date that read_rtc hands to the shell is of one moment of the read, *)
(* in each format of the chip and however its updates fall between the     *)
(* reads of its registers: second, minute and dial hour always, the half   *)
(* of the day except at twelve o'clock on a 12-hour clock.                 *)
(***************************************************************************)
THEOREM DateIsTrue == Spec => []DateTrue
<1>1. RtcInv => DateTrue
  <2> SUFFICES ASSUME RtcInv, at = "read" PROVE DateTrue
    BY DEF DateTrue
  <2>1. PICK t \in now - ticks .. now :
          date = [second |-> t % Seconds, minute |-> (t \div Seconds) % Minutes,
                  hour |-> HourOf(t)]
    BY DEF RtcInv, DateRead
  <2>2. t \in Nat
    <3>1. now \in Nat /\ ticks \in Nat /\ ticks <= now
      BY RtcConstants DEF RtcInv, RtcTypeOK
    <3> QED BY <3>1
  <2>3. PICK x \in 0 .. 23 : x = HourAt(t)
    BY <2>2, Parts
  <2>4. date.second = t % Seconds /\ date.minute = (t \div Seconds) % Minutes
    BY <2>1
  <2>5. date.hour = IF ~format.h24 /\ x % 12 = 0 THEN 12 - x ELSE x
    BY <2>1, <2>3 DEF HourOf
  <2>6. date.hour % 12 = x % 12 /\ (format.h24 \/ x % 12 # 0 => date.hour = x)
    BY <2>5
  <2> QED BY <2>3, <2>4, <2>6 DEF DateTrue
<1> QED BY <1>1, ConsoleInvariant, PTL

=============================================================================
