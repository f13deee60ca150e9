------------------------------ MODULE HeapProofs ------------------------------
(***************************************************************************)
(* What Heap checks on five pages, for every address space, page and       *)
(* header size, memory map and request.  The order of the list decides     *)
(* which block a call takes, never whether the heap stays sound: so the    *)
(* invariant speaks of the set of listed blocks.  Beside Disjoint and      *)
(* Backed it says that blocks end inside the address space, and that where *)
(* a block ends within a page another one begins (Followed): without it a  *)
(* block whose first pages go back could leave a USED page with nothing    *)
(* in it.                                                                  *)
(***************************************************************************)
EXTENDS Heap, SequenceTheorems, WellFoundedInduction, TLAPS

(***************************************************************************)
(* Division by a page size that is not a number, and the types of the page *)
(* table.                                                                  *)
(***************************************************************************)
\* The quotient is the last multiple not above a.
LEMMA DivFacts ==
  ASSUME NEW a \in Nat, NEW d \in Nat \ {0}
  PROVE  /\ a \div d \in Nat
         /\ (a \div d) * d <= a
         /\ a < (a \div d + 1) * d
  OBVIOUS

LEMMA MulLess ==
  ASSUME NEW a \in Int, NEW b \in Int, NEW d \in Nat \ {0}, a * d < b * d
  PROVE  a < b
  OBVIOUS

LEMMA MulLeq ==
  ASSUME NEW a \in Int, NEW b \in Int, NEW d \in Nat \ {0}, a <= b
  PROVE  a * d <= b * d
  OBVIOUS

LEMMA ModSmall ==
  ASSUME NEW a \in Nat, NEW d \in Nat \ {0}, a < d
  PROVE  a % d = a
  OBVIOUS

LEMMA ModRange ==
  ASSUME NEW a \in Nat, NEW d \in Nat \ {0}
  PROVE  a % d \in Nat /\ a % d < d
  OBVIOUS

\* The quotient of a multiple.
LEMMA DivExact ==
  ASSUME NEW i \in Nat, NEW d \in Nat \ {0}
  PROVE  (i * d) \div d = i
<1>1. /\ (i * d) \div d \in Nat
      /\ ((i * d) \div d) * d <= i * d
      /\ i * d < ((i * d) \div d + 1) * d
  BY DivFacts
<1>2. i < (i * d) \div d + 1
  BY <1>1, MulLess
<1>3. (i * d) \div d < i + 1
  <2>1. ((i * d) \div d) * d < (i + 1) * d
    BY <1>1
  <2> QED BY <1>1, <2>1, MulLess
<1> QED BY <1>1, <1>2, <1>3

LEMMA AddrSpaceType == AddrSpace \in Nat \ {0}
  BY PageConstants DEF AddrSpace

LEMMA SetPagesType ==
  ASSUME NEW pg \in [Page -> PageStates], NEW R, NEW s \in PageStates
  PROVE  SetPages(pg, R, s) \in [Page -> PageStates]
  BY DEF SetPages

LEMMA InitialTableType ==
  ASSUME NEW pg \in [Page -> PageStates], NEW m
  PROVE  InitialTable(pg, m) \in [Page -> PageStates]
<1>1. {PAGE_FREE, PAGE_SYS, PAGE_NONE} \subseteq PageStates
  BY DEF PageStates
<1> QED BY <1>1, SetPagesType DEF InitialTable, page_set_range

-----------------------------------------------------------------------------

\* On a page boundary, the end of the address space included.
OnBoundary(a) == \E k \in 0 .. PAGE_COUNT : a = k * PAGE_SIZE

PageStart(k) == k * PAGE_SIZE

Touches(b, k) == b.addr < PageStart(k + 1) /\ PageStart(k) < BlockEnd(b)

Covers(b, k) == b.addr <= PageStart(k) /\ PageStart(k + 1) <= BlockEnd(b)

(***************************************************************************)
(* The geometry of a set S of blocks over a page table pg.                 *)
(***************************************************************************)
Separate(S) == \A b, c \in S : b # c => BlockEnd(b) <= c.addr \/ BlockEnd(c) <= b.addr

Inside(S) == \A b \in S : BlockEnd(b) <= AddrSpace

Followed(S) == \A b \in S : OnBoundary(BlockEnd(b)) \/ \E c \in S : c.addr = BlockEnd(b)

Paged(S, pg) == \A k \in Page : pg[k] = PAGE_USED <=> \E b \in S : Touches(b, k)

Laid(S, pg) ==
  /\ S \subseteq Block
  /\ Separate(S) /\ Inside(S) /\ Followed(S)
  /\ pg \in [Page -> PageStates] /\ Paged(S, pg)

\* A FREE block keeps no page that could go back.
LeanBlock(b) == b.state = FREE /\ BlockEnd(b) < AddrSpace => \A k \in Page : ~Covers(b, k)

Lean(S) == \A b \in S : LeanBlock(b)

Distinct(q) == \A i, j \in DOMAIN q : q[i] = q[j] => i = j

Good(h) ==
  /\ h \in Heap
  /\ Distinct(h.blocks)
  /\ Laid(ToSet(h.blocks), h.page)

IInv ==
  /\ Good(State)
  /\ fault = "none" => Lean(ToSet(blocks))
  /\ NeverNull

-----------------------------------------------------------------------------
(***************************************************************************)
(* Sequences: what the two list operations of memory_split and             *)
(* memory_merge do to the set of blocks.                                   *)
(***************************************************************************)
HasInserted(S, s, k, y, t) ==
  /\ t \in Seq(S) /\ Len(t) = Len(s) + 1
  /\ \A j \in 1 .. Len(s) + 1 :
       t[j] = IF j < k THEN s[j] ELSE IF j = k THEN y ELSE s[j - 1]

LEMMA InsertFacts ==
  ASSUME NEW S, NEW s \in Seq(S), NEW k \in 1 .. Len(s) + 1, NEW y \in S
  PROVE  HasInserted(S, s, k, y, InsertAt(s, k, y))
<1>0. PICK t : t = InsertAt(s, k, y)
  OBVIOUS
<1>1. PICK p : p = SubSeq(s, 1, k - 1)
  OBVIOUS
<1>2. p \in Seq(S) /\ Len(p) = k - 1 /\ \A j \in 1 .. k - 1 : p[j] = s[j]
  BY <1>1
<1>3. PICK r : r = SubSeq(s, k, Len(s))
  OBVIOUS
<1>4. r \in Seq(S) /\ Len(r) = Len(s) - k + 1 /\ \A j \in 1 .. Len(s) - k + 1 : r[j] = s[k + j - 1]
  BY <1>3
<1>5. PICK q : q = p \o <<y>>
  OBVIOUS
<1>6. q \in Seq(S) /\ Len(q) = k /\ \A j \in 1 .. k : q[j] = IF j < k THEN s[j] ELSE y
  BY <1>2, <1>5
<1>7. t = q \o r
  BY <1>0, <1>1, <1>3, <1>5 DEF InsertAt
<1>8. t \in Seq(S) /\ Len(t) = Len(s) + 1
  <2>1. t \in Seq(S) /\ Len(t) = Len(q) + Len(r)
    BY <1>4, <1>6, <1>7, ConcatProperties
  <2> QED BY <1>4, <1>6, <2>1
<1>9. ASSUME NEW j \in 1 .. Len(s) + 1
      PROVE  t[j] = IF j < k THEN s[j] ELSE IF j = k THEN y ELSE s[j - 1]
  <2>1. CASE j <= k
    BY <1>4, <1>6, <1>7, <2>1
  <2>2. CASE j > k
    <3>1. t[j] = r[j - k]
      BY <1>4, <1>6, <1>7, <2>2
    <3> QED BY <1>4, <2>2, <3>1
  <2> QED BY <2>1, <2>2
<1> QED BY <1>0, <1>8, <1>9 DEF HasInserted

LEMMA RemoveFacts ==
  ASSUME NEW S, NEW s \in Seq(S), NEW k \in 1 .. Len(s), NEW t, t = RemoveAt(s, k)
  PROVE  /\ t \in Seq(S) /\ Len(t) = Len(s) - 1 /\ Len(t) \in Nat
         /\ \A j \in 1 .. Len(s) - 1 : t[j] = IF j < k THEN s[j] ELSE s[j + 1]
<1>1. PICK p : p = SubSeq(s, 1, k - 1)
  OBVIOUS
<1>2. p \in Seq(S) /\ Len(p) = k - 1 /\ \A j \in 1 .. k - 1 : p[j] = s[j]
  BY <1>1
<1>3. PICK r : r = SubSeq(s, k + 1, Len(s))
  OBVIOUS
<1>4. r \in Seq(S) /\ Len(r) = Len(s) - k /\ \A j \in 1 .. Len(s) - k : r[j] = s[k + j]
  BY <1>3
<1>5. t = p \o r
  BY <1>1, <1>3 DEF RemoveAt
<1>6. t \in Seq(S) /\ Len(t) = Len(s) - 1 /\ Len(t) \in Nat
  BY <1>2, <1>4, <1>5
<1>7. ASSUME NEW j \in 1 .. Len(s) - 1
      PROVE  t[j] = IF j < k THEN s[j] ELSE s[j + 1]
  <2>1. CASE j < k
    BY <1>2, <1>4, <1>5, <2>1
  <2>2. CASE j >= k
    <3>1. t[j] = r[j - k + 1]
      BY <1>2, <1>4, <1>5, <2>2
    <3> QED BY <1>4, <2>2, <3>1
  <2> QED BY <2>1, <2>2
<1> QED BY <1>6, <1>7

LEMMA Indices ==
  ASSUME NEW S, NEW s \in Seq(S)
  PROVE  /\ Len(s) \in Nat /\ DOMAIN s = 1 .. Len(s) /\ ToSet(s) \subseteq S
         /\ \A i \in DOMAIN s : s[i] \in ToSet(s)
         /\ \A e \in ToSet(s) : \E i \in DOMAIN s : e = s[i]
  BY DEF ToSet

LEMMA WrittenSet ==
  ASSUME NEW S, NEW s \in Seq(S), Distinct(s), NEW i \in DOMAIN s, NEW x \in S,
         x \notin ToSet(s) \ {s[i]}, NEW t, t = [s EXCEPT ![i] = x]
  PROVE  /\ t \in Seq(S) /\ Len(t) = Len(s) /\ t[i] = x
         /\ \A j \in DOMAIN s : j # i => t[j] = s[j]
         /\ ToSet(t) = (ToSet(s) \ {s[i]}) \cup {x}
         /\ Distinct(t)
<1>1. /\ t \in Seq(S) /\ Len(t) = Len(s) /\ DOMAIN t = DOMAIN s /\ t[i] = x
      /\ \A j \in DOMAIN s : j # i => t[j] = s[j]
  OBVIOUS
<1>2. \A j \in DOMAIN s : j # i => s[j] # s[i] /\ s[j] # x
  BY Indices DEF Distinct
<1>3. Distinct(t)
  BY <1>1, <1>2 DEF Distinct
<1>4. ASSUME NEW j \in DOMAIN t PROVE t[j] \in (ToSet(s) \ {s[i]}) \cup {x}
  BY <1>1, <1>2, Indices
<1>5. ASSUME NEW e \in ToSet(s) \ {s[i]} PROVE e \in ToSet(t)
  <2>1. PICK j \in DOMAIN s : e = s[j]
    BY Indices
  <2> QED BY <1>1, <2>1, Indices
<1>6. x \in ToSet(t)
  BY <1>1, Indices
<1>7. ToSet(t) \subseteq (ToSet(s) \ {s[i]}) \cup {x}
  BY <1>4 DEF ToSet
<1> QED BY <1>1, <1>3, <1>5, <1>6, <1>7

LEMMA InsertedSet ==
  ASSUME NEW S, NEW s \in Seq(S), Distinct(s), NEW k \in 1 .. Len(s) + 1, NEW y \in S,
         y \notin ToSet(s), NEW t, t = InsertAt(s, k, y)
  PROVE  /\ t \in Seq(S) /\ Len(t) = Len(s) + 1 /\ t[k] = y
         /\ \A j \in DOMAIN s : j < k => t[j] = s[j]
         /\ ToSet(t) = ToSet(s) \cup {y}
         /\ Distinct(t)
<1>1. /\ t \in Seq(S) /\ Len(t) = Len(s) + 1 /\ Len(s) \in Nat
      /\ DOMAIN s = 1 .. Len(s) /\ DOMAIN t = 1 .. Len(s) + 1
      /\ \A j \in 1 .. Len(s) + 1 :
           t[j] = IF j < k THEN s[j] ELSE IF j = k THEN y ELSE s[j - 1]
  <2>1. /\ t \in Seq(S) /\ Len(t) = Len(s) + 1
        /\ \A j \in 1 .. Len(s) + 1 :
             t[j] = IF j < k THEN s[j] ELSE IF j = k THEN y ELSE s[j - 1]
    <3>1. HasInserted(S, s, k, y, InsertAt(s, k, y))
      BY InsertFacts
    <3> QED BY <3>1 DEF HasInserted
  <2>2. Len(s) \in Nat /\ DOMAIN s = 1 .. Len(s)
    BY LenProperties
  <2>3. DOMAIN t = 1 .. Len(t)
    BY <2>1, LenProperties
  <2> QED BY <2>1, <2>2, <2>3
<1>2. \A j \in DOMAIN s : s[j] # y /\ s[j] \in ToSet(s)
  BY Indices
<1>0. \A a, b \in DOMAIN s : a # b => s[a] # s[b]
  BY DEF Distinct
<1>3. t[k] = y /\ k \in DOMAIN t /\ k \in Int
  BY <1>1
<1>4. \A j \in DOMAIN t :
        /\ j < k => j \in DOMAIN s /\ t[j] = s[j]
        /\ j > k => j - 1 \in DOMAIN s /\ t[j] = s[j - 1]
  BY <1>1
<1>5. Distinct(t)
  <2> SUFFICES ASSUME NEW i \in DOMAIN t, NEW j \in DOMAIN t, i < j PROVE t[i] # t[j]
    <3>1. \A i, j \in DOMAIN t : i < j \/ j < i \/ i = j
      BY <1>1
    <3> QED BY <3>1 DEF Distinct
  <2>1. i \in Int /\ j \in Int
    BY <1>1
  <2>2. CASE j < k
    BY <1>0, <1>3, <1>4, <2>1, <2>2
  <2>3. CASE j = k
    BY <1>2, <1>3, <1>4, <2>1, <2>3
  <2>4. CASE j > k /\ i = k
    BY <1>2, <1>3, <1>4, <2>1, <2>4
  <2>5. CASE j > k /\ i < k
    <3>1. i # j - 1
      BY <1>3, <2>1, <2>5
    <3> QED BY <1>0, <1>3, <1>4, <2>1, <2>5, <3>1
  <2>6. CASE j > k /\ i > k
    <3>1. i - 1 # j - 1
      BY <2>1
    <3> QED BY <1>0, <1>3, <1>4, <2>1, <2>6, <3>1
  <2> QED BY <1>3, <2>1, <2>2, <2>3, <2>4, <2>5, <2>6
<1>6. ASSUME NEW j \in DOMAIN t PROVE t[j] \in ToSet(s) \cup {y}
  <2>1. j < k \/ j = k \/ j > k
    BY <1>1
  <2> QED BY <1>2, <1>3, <1>4, <2>1
<1>7. ASSUME NEW j \in DOMAIN s PROVE s[j] \in ToSet(t)
  <2>1. j \in Int /\ j \in DOMAIN t /\ j + 1 \in DOMAIN t
    BY <1>1
  <2>2. CASE j < k
    BY <1>1, <1>4, <2>1, <2>2, Indices
  <2>3. CASE j >= k
    <3>1. j + 1 > k /\ (j + 1) - 1 = j
      BY <1>3, <2>1, <2>3
    <3>2. t[j + 1] = s[j]
      BY <1>4, <2>1, <3>1
    <3> QED BY <1>1, <2>1, <3>2, Indices
  <2> QED BY <1>3, <2>1, <2>2, <2>3
<1>8. ToSet(t) \subseteq ToSet(s) \cup {y}
  BY <1>1, <1>6, Indices
<1>9. ToSet(s) \subseteq ToSet(t)
  BY <1>7, Indices
<1>10. y \in ToSet(t)
  BY <1>1, <1>3, Indices
<1>11. \A j \in DOMAIN s : j < k => j \in DOMAIN t
  BY <1>1
<1> QED BY <1>1, <1>3, <1>4, <1>5, <1>8, <1>9, <1>10, <1>11

\* What get_pages makes of the list.
AtTail(s, y) == Append(s, y)

LEMMA AppendedSet ==
  ASSUME NEW S, NEW s \in Seq(S), Distinct(s), NEW y \in S, y \notin ToSet(s),
         NEW t, t = AtTail(s, y)
  PROVE  /\ t \in Seq(S) /\ Len(t) = Len(s) + 1 /\ Len(t) \in DOMAIN t /\ t[Len(t)] = y
         /\ ToSet(t) = ToSet(s) \cup {y}
         /\ Distinct(t)
<1>1. /\ t \in Seq(S) /\ Len(s) \in Nat /\ Len(t) = Len(s) + 1
      /\ DOMAIN s = 1 .. Len(s) /\ DOMAIN t = 1 .. Len(s) + 1
      /\ t[Len(s) + 1] = y /\ \A j \in DOMAIN s : t[j] = s[j]
  BY DEF AtTail
<1>2. \A j \in DOMAIN s : s[j] # y /\ s[j] \in ToSet(s)
  BY Indices
<1>3. \A j \in DOMAIN t : j \in DOMAIN s \/ j = Len(s) + 1
  BY <1>1
<1>4. (\A j \in DOMAIN s : j \in DOMAIN t) /\ Len(s) + 1 \in DOMAIN t
  BY <1>1
<1>5. Distinct(t)
  BY <1>1, <1>2, <1>3 DEF Distinct
<1>6. ToSet(t) \subseteq ToSet(s) \cup {y}
  BY <1>1, <1>3 DEF ToSet
<1>7. ToSet(s) \cup {y} \subseteq ToSet(t)
  BY <1>1, <1>4 DEF ToSet
<1> QED BY <1>1, <1>4, <1>5, <1>6, <1>7

LEMMA RemovedSet ==
  ASSUME NEW S, NEW s \in Seq(S), Distinct(s), NEW k \in DOMAIN s, NEW t, t = RemoveAt(s, k)
  PROVE  /\ t \in Seq(S) /\ Len(t) = Len(s) - 1
         /\ \A j \in DOMAIN s : j < k => j \in DOMAIN t /\ t[j] = s[j]
         /\ ToSet(t) = ToSet(s) \ {s[k]}
         /\ Distinct(t)
<1>1. /\ t \in Seq(S) /\ Len(t) = Len(s) - 1 /\ Len(s) \in Nat /\ Len(t) \in Nat
      /\ DOMAIN s = 1 .. Len(s) /\ DOMAIN t = 1 .. Len(s) - 1
      /\ \A j \in 1 .. Len(s) - 1 : t[j] = IF j < k THEN s[j] ELSE s[j + 1]
  BY RemoveFacts
<1>2. k \in Int
  BY <1>1
<1>0. \A a, b \in DOMAIN s : a # b => s[a] # s[b]
  BY DEF Distinct
<1>3. \A j \in DOMAIN t :
        /\ j < k => j \in DOMAIN s /\ t[j] = s[j]
        /\ j >= k => j + 1 \in DOMAIN s /\ t[j] = s[j + 1]
  BY <1>1
<1>4. Distinct(t)
  <2> SUFFICES ASSUME NEW i \in DOMAIN t, NEW j \in DOMAIN t, i < j PROVE t[i] # t[j]
    <3>1. \A i, j \in DOMAIN t : i < j \/ j < i \/ i = j
      BY <1>1
    <3> QED BY <3>1 DEF Distinct
  <2>1. i \in Int /\ j \in Int
    BY <1>1
  <2>2. CASE j < k
    BY <1>0, <1>2, <1>3, <2>1, <2>2
  <2>3. CASE i < k /\ j >= k
    <3>1. i # j + 1
      BY <2>1
    <3> QED BY <1>0, <1>2, <1>3, <2>1, <2>3, <3>1
  <2>4. CASE i >= k
    <3>1. i + 1 # j + 1 /\ j >= k
      BY <1>2, <2>1, <2>4
    <3> QED BY <1>0, <1>2, <1>3, <2>1, <2>4, <3>1
  <2> QED BY <1>2, <2>1, <2>2, <2>3, <2>4
<1>5. ASSUME NEW j \in DOMAIN t PROVE t[j] \in ToSet(s) \ {s[k]}
  <2>1. j \in Int
    BY <1>1
  <2>2. CASE j < k
    <3>1. j \in DOMAIN s /\ t[j] = s[j] /\ s[j] # s[k]
      BY <1>0, <1>2, <1>3, <2>1, <2>2
    <3> QED BY <3>1, Indices
  <2>3. CASE j >= k
    <3>1. j + 1 \in DOMAIN s /\ t[j] = s[j + 1] /\ s[j + 1] # s[k]
      BY <1>0, <1>2, <1>3, <2>1, <2>3
    <3> QED BY <3>1, Indices
  <2> QED BY <1>2, <2>1, <2>2, <2>3
<1>6. ASSUME NEW j \in DOMAIN s, j # k PROVE s[j] \in ToSet(t)
  <2>1. j \in Int
    BY <1>1
  <2>2. CASE j < k
    <3>1. j \in DOMAIN t
      BY <1>1, <2>2
    <3> QED BY <1>1, <1>3, <2>1, <2>2, <3>1, Indices
  <2>3. CASE j > k
    <3>1. j - 1 \in DOMAIN t /\ j - 1 >= k /\ (j - 1) + 1 = j
      BY <1>1, <2>1, <2>3
    <3>2. t[j - 1] = s[j]
      BY <1>3, <3>1
    <3> QED BY <1>1, <3>1, <3>2, Indices
  <2> QED BY <1>2, <1>6, <2>1, <2>2, <2>3
<1>7. ToSet(t) \subseteq ToSet(s) \ {s[k]}
  BY <1>1, <1>5, Indices
<1>8. ToSet(s) \ {s[k]} \subseteq ToSet(t)
  BY <1>6, Indices
<1>9. \A j \in DOMAIN s : j < k => j \in DOMAIN t
  BY <1>1
<1> QED BY <1>1, <1>3, <1>4, <1>7, <1>8, <1>9

-----------------------------------------------------------------------------
(***************************************************************************)
(* Geometry: what cutting, joining, marking, adding and dropping a block   *)
(* does to a set of blocks and the pages under it.                         *)
(***************************************************************************)
LEMMA Positive ==
  /\ PAGE_SIZE \in Nat \ {0} /\ PAGE_COUNT \in Nat \ {0} /\ HSIZE \in Nat \ {0}
  /\ PAGE_SIZE > 2 * HSIZE /\ AddrSpace \in Nat \ {0} /\ PAGE_SIZE <= AddrSpace
<1>1. /\ PAGE_SIZE \in Nat \ {0} /\ PAGE_COUNT \in Nat \ {0} /\ HSIZE \in Nat \ {0}
      /\ PAGE_SIZE > 2 * HSIZE /\ AddrSpace \in Nat \ {0}
  BY PageConstants, HeapConstants, AddrSpaceType
<1>2. 1 * PAGE_SIZE <= PAGE_COUNT * PAGE_SIZE
  BY <1>1, MulLeq
<1> QED BY <1>1, <1>2 DEF AddrSpace

LEMMA PageStarts ==
  /\ \A k \in Nat : PageStart(k) \in Nat /\ PageStart(k + 1) = PageStart(k) + PAGE_SIZE
  /\ \A k, l \in Nat : k <= l => PageStart(k) <= PageStart(l)
  /\ \A k, l \in Nat : PageStart(k) < PageStart(l) => k < l
  /\ PageStart(PAGE_COUNT) = AddrSpace
<1>1. PAGE_SIZE \in Nat \ {0}
  BY Positive
<1>2. \A k \in Nat : PageStart(k) \in Nat /\ PageStart(k + 1) = PageStart(k) + PAGE_SIZE
  BY <1>1 DEF PageStart
<1>3. \A k, l \in Nat : k <= l => PageStart(k) <= PageStart(l)
  BY <1>1, MulLeq DEF PageStart
<1>4. \A k, l \in Nat : PageStart(k) < PageStart(l) => k < l
  BY <1>1, MulLess DEF PageStart
<1> QED BY <1>2, <1>3, <1>4 DEF PageStart, AddrSpace

LEMMA PageFacts ==
  ASSUME NEW k \in Page
  PROVE  /\ k \in Nat /\ k + 1 \in Nat
         /\ PageStart(k) \in Nat /\ PageStart(k + 1) \in Nat
         /\ PageStart(k + 1) = PageStart(k) + PAGE_SIZE
         /\ PageStart(k) < PageStart(k + 1) /\ PageStart(k + 1) <= AddrSpace
<1>1. k \in Nat /\ k + 1 \in Nat /\ k + 1 <= PAGE_COUNT /\ PAGE_COUNT \in Nat
  BY Positive DEF Page
<1>2. /\ PageStart(k) \in Nat /\ PageStart(k + 1) \in Nat
      /\ PageStart(k + 1) = PageStart(k) + PAGE_SIZE /\ PageStart(k + 1) <= AddrSpace
  BY <1>1, PageStarts
<1> QED BY <1>1, <1>2, Positive

LEMMA BlockFacts ==
  ASSUME NEW b \in Block
  PROVE  /\ b.addr \in Nat /\ b.size \in Nat /\ b.state \in {FREE, USED}
         /\ BlockEnd(b) \in Nat /\ b.addr < BlockEnd(b)
         /\ b.addr < AddrSpace /\ b.size < AddrSpace
         /\ BlockEnd(b) = b.addr + HSIZE + b.size
  BY Positive DEF Block, BlockEnd

LEMMA Cut ==
  ASSUME NEW S, NEW pg, Laid(S, pg), NEW b \in S, NEW x \in Block, NEW y \in Block,
         x.addr = b.addr, y.addr = BlockEnd(x), BlockEnd(y) = BlockEnd(b)
  PROVE  /\ Laid((S \ {b}) \cup {x, y}, pg)
         /\ x # y /\ x \notin S \ {b} /\ y \notin S
<1> DEFINE T == (S \ {b}) \cup {x, y}
<1>1. S \subseteq Block /\ \A c \in S : c.addr \in Nat /\ BlockEnd(c) \in Nat /\ c.addr < BlockEnd(c)
  BY BlockFacts DEF Laid
<1>2. /\ x.addr \in Nat /\ BlockEnd(x) \in Nat /\ BlockEnd(y) \in Nat
      /\ x.addr < y.addr /\ y.addr < BlockEnd(y)
  BY BlockFacts
<1>3. \A c \in S \ {b} : BlockEnd(c) <= x.addr \/ BlockEnd(y) <= c.addr
  BY DEF Laid, Separate
<1>4. x # y /\ x \notin S \ {b} /\ y \notin S
  BY <1>1, <1>2, <1>3
<1>5. Separate(T)
  <2>1. ASSUME NEW c \in S \ {b}
        PROVE  /\ BlockEnd(c) <= x.addr \/ BlockEnd(x) <= c.addr
               /\ BlockEnd(c) <= y.addr \/ BlockEnd(y) <= c.addr
    BY <1>1, <1>2, <1>3
  <2>2. BlockEnd(x) <= y.addr
    BY <1>2
  <2>3. \A c, d \in S : c # d => BlockEnd(c) <= d.addr \/ BlockEnd(d) <= c.addr
    BY DEF Laid, Separate
  <2> QED BY <2>1, <2>2, <2>3 DEF Separate
<1>6. Inside(T)
  BY <1>2, Positive DEF Laid, Inside
<1>7. Followed(T)
  <2>1. ASSUME NEW c \in S, NEW d \in S, d.addr = BlockEnd(c)
        PROVE  \E e \in T : e.addr = BlockEnd(c)
    BY <2>1
  <2>2. ASSUME NEW c \in S
        PROVE  OnBoundary(BlockEnd(c)) \/ \E e \in T : e.addr = BlockEnd(c)
    BY <2>1 DEF Laid, Followed
  <2> QED BY <2>2 DEF Followed
<1>8. Paged(T, pg)
  <2>1. ASSUME NEW k \in Page PROVE Touches(b, k) <=> Touches(x, k) \/ Touches(y, k)
    <3>1. PageStart(k) \in Nat /\ PageStart(k + 1) \in Nat /\ PageStart(k) < PageStart(k + 1)
      BY PageFacts
    <3> QED BY <1>1, <1>2, <3>1 DEF Touches
  <2> QED BY <2>1 DEF Laid, Paged
<1> QED BY <1>1, <1>4, <1>5, <1>6, <1>7, <1>8 DEF Laid

LEMMA Join ==
  ASSUME NEW S, NEW pg, Laid(S, pg), NEW b \in S, NEW c \in S, NEW x \in Block,
         BlockEnd(b) = c.addr, x.addr = b.addr, BlockEnd(x) = BlockEnd(c)
  PROVE  /\ Laid((S \ {b, c}) \cup {x}, pg)
         /\ b # c /\ x \notin S
<1> DEFINE T == (S \ {b, c}) \cup {x}
<1>1. S \subseteq Block /\ \A d \in S : d.addr \in Nat /\ BlockEnd(d) \in Nat /\ d.addr < BlockEnd(d)
  BY BlockFacts DEF Laid
<1>2. b.addr < c.addr /\ x.addr < BlockEnd(x)
  BY <1>1, BlockFacts
<1>3. \A d, e \in S : d # e => BlockEnd(d) <= e.addr \/ BlockEnd(e) <= d.addr
  BY DEF Laid, Separate
<1>4. \A d \in S \ {b, c} : BlockEnd(d) <= b.addr \/ BlockEnd(c) <= d.addr
  BY <1>1, <1>2, <1>3
<1>5. b # c /\ x \notin S
  <2>1. x # b /\ x # c
    BY <1>1, <1>2
  <2> QED BY <1>1, <1>2, <1>4, <2>1
<1>6. Separate(T)
  <2>1. \A d \in S \ {b, c} : BlockEnd(d) <= x.addr \/ BlockEnd(x) <= d.addr
    BY <1>4
  <2> QED BY <1>3, <2>1 DEF Separate
<1>7. Inside(T)
  BY DEF Laid, Inside
<1>8. Followed(T)
  <2>1. ASSUME NEW d \in S, d # b, NEW e \in S, e.addr = BlockEnd(d)
        PROVE  \E f \in T : f.addr = BlockEnd(d)
    <3>1. e # c
      <4>1. BlockEnd(d) # BlockEnd(b)
        BY <1>1, <1>3, <2>1
      <4> QED BY <2>1, <4>1
    <3> QED BY <2>1, <3>1
  <2>2. ASSUME NEW d \in S, d # b
        PROVE  OnBoundary(BlockEnd(d)) \/ \E f \in T : f.addr = BlockEnd(d)
    BY <2>1, <2>2 DEF Laid, Followed
  <2> QED BY <1>5, <2>2 DEF Followed
<1>9. Paged(T, pg)
  <2>1. ASSUME NEW k \in Page PROVE Touches(x, k) <=> Touches(b, k) \/ Touches(c, k)
    <3>1. PageStart(k) \in Nat /\ PageStart(k + 1) \in Nat /\ PageStart(k) < PageStart(k + 1)
      BY PageFacts
    <3> QED BY <1>1, <1>2, <3>1 DEF Touches
  <2> QED BY <2>1 DEF Laid, Paged
<1> QED BY <1>1, <1>5, <1>6, <1>7, <1>8, <1>9 DEF Laid

\* Only the state of a block changes.
LEMMA Mark ==
  ASSUME NEW S, NEW pg, Laid(S, pg), NEW b \in S, NEW x \in Block,
         x.addr = b.addr, x.size = b.size
  PROVE  Laid((S \ {b}) \cup {x}, pg) /\ x \notin S \ {b}
<1> DEFINE T == (S \ {b}) \cup {x}
<1>1. S \subseteq Block /\ \A d \in S : d.addr \in Nat /\ BlockEnd(d) \in Nat /\ d.addr < BlockEnd(d)
  BY BlockFacts DEF Laid
<1>2. BlockEnd(x) = BlockEnd(b)
  BY DEF BlockEnd
<1>3. x \notin S \ {b}
  BY <1>1, <1>2 DEF Laid, Separate
<1>4. Separate(T) /\ Inside(T)
  BY <1>2 DEF Laid, Separate, Inside
<1>5. Followed(T)
  <2>1. ASSUME NEW c \in S, NEW d \in S, d.addr = BlockEnd(c)
        PROVE  \E e \in T : e.addr = BlockEnd(c)
    BY <2>1
  <2>2. ASSUME NEW c \in S
        PROVE  OnBoundary(BlockEnd(c)) \/ \E e \in T : e.addr = BlockEnd(c)
    BY <2>1 DEF Laid, Followed
  <2> QED BY <1>2, <2>2 DEF Followed
<1>6. Paged(T, pg)
  <2>1. \A k : Touches(x, k) = Touches(b, k)
    BY <1>2 DEF Touches
  <2> QED BY <2>1 DEF Laid, Paged
<1> QED BY <1>1, <1>3, <1>4, <1>5, <1>6 DEF Laid

\* A block goes that starts on a boundary, and the whole pages in it are FREE.
LEMMA Drop ==
  ASSUME NEW S, NEW pg, Laid(S, pg), NEW b \in S, BlockEnd(b) < AddrSpace,
         NEW p \in Nat, NEW q \in Nat, b.addr = PageStart(p),
         PageStart(q) <= BlockEnd(b), BlockEnd(b) < PageStart(q + 1)
  PROVE  Laid(S \ {b}, SetPages(pg, p .. q - 1, PAGE_FREE))
<1> DEFINE T == S \ {b}
           new == SetPages(pg, p .. q - 1, PAGE_FREE)
<1>1. S \subseteq Block /\ \A d \in S : d.addr \in Nat /\ BlockEnd(d) \in Nat /\ d.addr < BlockEnd(d)
  BY BlockFacts DEF Laid
<1>2. \A d \in T : BlockEnd(d) <= b.addr \/ BlockEnd(b) <= d.addr
  BY DEF Laid, Separate
<1>3. PAGE_FREE \in PageStates /\ PAGE_FREE # PAGE_USED
  BY DEF PageStates, PAGE_FREE, PAGE_USED
<1>4. new \in [Page -> PageStates]
  BY <1>3, SetPagesType DEF Laid
<1>5. OnBoundary(b.addr)
  <2>1. PageStart(p) < PageStart(PAGE_COUNT) /\ PAGE_COUNT \in Nat
    BY <1>1, PageStarts, Positive, BlockFacts
  <2>2. p < PAGE_COUNT
    BY <2>1, PageStarts
  <2> QED BY <2>1, <2>2 DEF OnBoundary, PageStart
<1>6. Followed(T)
  BY <1>5 DEF Laid, Followed
<1>7. ASSUME NEW k \in Page, k \in p .. q - 1, NEW d \in T PROVE ~Touches(d, k)
  <2>1. k \in Nat /\ p <= k /\ k + 1 <= q /\ k + 1 \in Nat
    BY <1>7, PageFacts
  <2>2. PageStart(p) <= PageStart(k) /\ PageStart(k + 1) <= PageStart(q)
    BY <2>1, PageStarts
  <2>3. /\ PageStart(p) \in Nat /\ PageStart(q) \in Nat
        /\ PageStart(k) \in Nat /\ PageStart(k + 1) \in Nat
    BY <2>1, PageStarts
  <2> QED BY <1>1, <1>2, <2>2, <2>3 DEF Touches
<1>8. ASSUME NEW k \in Page, k \notin p .. q - 1, Touches(b, k)
      PROVE  \E d \in T : Touches(d, k)
  <2>1. k \in Nat /\ PageStart(p) < PageStart(k + 1) /\ PageStart(k) < PageStart(q + 1)
        /\ k + 1 \in Nat /\ q + 1 \in Nat
    <3>1. PageStart(k) \in Nat /\ k \in Nat /\ PageStart(q + 1) \in Nat
      BY PageFacts, PageStarts
    <3> QED BY <1>1, <1>8, <3>1 DEF Touches
  <2>2. p < k + 1 /\ k < q + 1
    BY <2>1, PageStarts
  <2>3. k = q
    BY <1>8, <2>1, <2>2
  <2>4. ~OnBoundary(BlockEnd(b))
    <3> SUFFICES ASSUME NEW m \in 0 .. PAGE_COUNT, BlockEnd(b) = PageStart(m) PROVE FALSE
      BY DEF OnBoundary, PageStart
    <3>1. m \in Nat /\ PageStart(q) < PageStart(m) /\ PageStart(m) < PageStart(q + 1)
      BY <1>8, <2>3 DEF Touches
    <3>2. q < m /\ m < q + 1
      BY <2>1, <3>1, PageStarts
    <3> QED BY <3>1, <3>2
  <2>5. PICK e \in S : e.addr = BlockEnd(b)
    BY <2>4 DEF Laid, Followed
  <2>6. e # b
    BY <1>1, <2>5
  <2>7. Touches(e, k)
    <3>1. PageStart(q) \in Nat /\ PageStart(q + 1) \in Nat
      BY <2>1, PageStarts
    <3> QED BY <1>1, <2>3, <2>5, <3>1 DEF Touches
  <2> QED BY <2>6, <2>7
<1>9. Paged(T, new)
  <2> SUFFICES ASSUME NEW k \in Page
               PROVE  new[k] = PAGE_USED <=> \E d \in T : Touches(d, k)
    BY DEF Paged
  <2>1. CASE k \in p .. q - 1
    <3>1. new[k] = PAGE_FREE
      BY <2>1 DEF SetPages
    <3> QED BY <1>3, <1>7, <2>1, <3>1
  <2>2. CASE k \notin p .. q - 1
    <3>1. new[k] = pg[k]
      BY <2>2 DEF SetPages
    <3> QED BY <1>8, <2>2, <3>1 DEF Laid, Paged
  <2> QED BY <2>1, <2>2
<1>10. Separate(T) /\ Inside(T) /\ T \subseteq Block
  BY DEF Laid, Separate, Inside
<1> HIDE DEF new
<1> QED BY <1>4, <1>6, <1>9, <1>10 DEF Laid, new

\* A block comes that fills a run of FREE pages.
LEMMA Grow ==
  ASSUME NEW S, NEW pg, Laid(S, pg), NEW x \in Block,
         NEW p \in Nat, NEW n \in Nat \ {0}, p + n <= PAGE_COUNT,
         \A k \in p .. p + n - 1 : pg[k] = PAGE_FREE,
         x.addr = PageStart(p), BlockEnd(x) = PageStart(p + n)
  PROVE  Laid(S \cup {x}, SetPages(pg, p .. p + n - 1, PAGE_USED)) /\ x \notin S
<1> DEFINE T == S \cup {x}
           new == SetPages(pg, p .. p + n - 1, PAGE_USED)
<1>1. S \subseteq Block /\ \A d \in S : d.addr \in Nat /\ BlockEnd(d) \in Nat /\ d.addr < BlockEnd(d)
  BY BlockFacts DEF Laid
<1>2. PAGE_USED \in PageStates /\ PAGE_FREE # PAGE_USED
  BY DEF PageStates, PAGE_FREE, PAGE_USED
<1>3. p + n \in Nat /\ PAGE_COUNT \in Nat /\ p .. p + n - 1 \subseteq Page
  BY Positive DEF Page
<1>4. \A k \in p .. p + n - 1 : \A d \in S : ~Touches(d, k)
  BY <1>2, <1>3 DEF Laid, Paged
<1>5. ASSUME NEW c \in S PROVE BlockEnd(c) <= x.addr \/ BlockEnd(x) <= c.addr
  <2> SUFFICES ASSUME PageStart(p) < BlockEnd(c), c.addr < PageStart(p + n) PROVE FALSE
    <3>1. PageStart(p) \in Nat /\ PageStart(p + n) \in Nat
      BY <1>3, PageStarts
    <3> QED BY <1>1, <3>1
  <2>1. CASE c.addr < PageStart(p + 1)
    <3>1. p \in p .. p + n - 1
      OBVIOUS
    <3>2. Touches(c, p)
      BY <2>1 DEF Touches
    <3> QED BY <1>4, <3>1, <3>2
  <2>2. CASE PageStart(p + 1) <= c.addr
    <3> DEFINE k == c.addr \div PAGE_SIZE
    <3>1. k \in Nat /\ PageStart(k) <= c.addr /\ c.addr < PageStart(k + 1)
      BY <1>1, DivFacts, Positive DEF PageStart
    <3> HIDE DEF k
    <3>2. /\ PageStart(k) \in Nat /\ PageStart(k + 1) \in Nat /\ PageStart(p + n) \in Nat
          /\ PageStart(p + 1) \in Nat /\ p + 1 \in Nat /\ k + 1 \in Nat
      <4>1. p + 1 \in Nat /\ k + 1 \in Nat
        BY <3>1
      <4> QED BY <1>3, <3>1, <4>1, PageStarts
    <3>3. PageStart(k) < PageStart(p + n) /\ PageStart(p + 1) < PageStart(k + 1)
      BY <1>1, <2>2, <3>1, <3>2
    <3>4. k < p + n /\ p + 1 < k + 1
      BY <1>3, <3>1, <3>2, <3>3, PageStarts
    <3>5. k \in p .. p + n - 1
      BY <3>1, <3>4
    <3>6. Touches(c, k)
      BY <1>1, <3>1, <3>2 DEF Touches
    <3> QED BY <1>4, <3>5, <3>6
  <2>3. PageStart(p + 1) \in Nat
    <3>1. p + 1 \in Nat
      OBVIOUS
    <3> QED BY <3>1, PageStarts
  <2> QED BY <1>1, <2>1, <2>2, <2>3
<1>6. x \notin S
  <2>1. Touches(x, p)
    <3>1. /\ PageStart(p) \in Nat /\ PageStart(p + 1) = PageStart(p) + PAGE_SIZE
          /\ PageStart(p) < BlockEnd(x)
      BY PageStarts, BlockFacts
    <3> QED BY <3>1, Positive DEF Touches
  <2>2. p \in p .. p + n - 1
    OBVIOUS
  <2> QED BY <1>4, <2>1, <2>2
<1>7. Separate(T)
  BY <1>5 DEF Laid, Separate
<1>8. Inside(T)
  <2>1. PageStart(p + n) <= AddrSpace
    BY <1>3, PageStarts
  <2> QED BY <2>1 DEF Laid, Inside
<1>9. Followed(T)
  <2>1. OnBoundary(BlockEnd(x))
    BY <1>3 DEF OnBoundary, PageStart
  <2> QED BY <2>1 DEF Laid, Followed
<1>10. Paged(T, new)
  <2> SUFFICES ASSUME NEW k \in Page
               PROVE  new[k] = PAGE_USED <=> \E d \in T : Touches(d, k)
    BY DEF Paged
  <2>1. Touches(x, k) <=> k \in p .. p + n - 1
    <3>1. /\ k \in Nat /\ k + 1 \in Nat /\ PageStart(k) \in Nat /\ PageStart(k + 1) \in Nat
          /\ PageStart(p) \in Nat /\ PageStart(p + n) \in Nat
      BY <1>3, PageFacts, PageStarts
    <3>2. ASSUME Touches(x, k) PROVE p < k + 1 /\ k < p + n
      <4>1. PageStart(p) < PageStart(k + 1) /\ PageStart(k) < PageStart(p + n)
        BY <3>2 DEF Touches
      <4> QED BY <1>3, <3>1, <4>1, PageStarts
    <3>3. ASSUME p <= k, k + 1 <= p + n PROVE Touches(x, k)
      <4>1. PageStart(p) <= PageStart(k) /\ PageStart(k + 1) <= PageStart(p + n)
        BY <1>3, <3>1, <3>3, PageStarts
      <4>2. PageStart(k) < PageStart(k + 1)
        BY PageFacts
      <4> QED BY <3>1, <4>1, <4>2 DEF Touches
    <3> QED BY <3>1, <3>2, <3>3
  <2>2. CASE k \in p .. p + n - 1
    <3>1. new[k] = PAGE_USED
      BY <2>2 DEF SetPages
    <3> QED BY <2>1, <2>2, <3>1
  <2>3. CASE k \notin p .. p + n - 1
    <3>1. new[k] = pg[k]
      BY <2>3 DEF SetPages
    <3> QED BY <2>1, <2>3, <3>1 DEF Laid, Paged
  <2> QED BY <2>2, <2>3
<1>11. new \in [Page -> PageStates]
  BY <1>2, SetPagesType DEF Laid
<1> HIDE DEF new
<1> QED BY <1>1, <1>6, <1>7, <1>8, <1>9, <1>10, <1>11 DEF Laid, new

-----------------------------------------------------------------------------
(***************************************************************************)
(* The helpers of heap.c.                                                  *)
(***************************************************************************)
UsedIn(S) == {b \in S : b.state = USED}

\* What every helper leaves alone: the bytes the heap may use at all.
SameArena(pg, pg1) ==
  \A k \in Page : pg[k] \in {PAGE_FREE, PAGE_USED} <=> pg1[k] \in {PAGE_FREE, PAGE_USED}

LEMMA GoodFacts ==
  ASSUME NEW h, Good(h)
  PROVE  /\ h \in Heap
         /\ h.blocks \in Seq(Block) /\ h.page \in [Page -> PageStates] /\ h.fault \in Faults
         /\ Distinct(h.blocks) /\ Laid(ToSet(h.blocks), h.page)
         /\ DOMAIN h.blocks = 1 .. Len(h.blocks) /\ Len(h.blocks) \in Nat
         /\ \A i \in DOMAIN h.blocks : h.blocks[i] \in Block /\ h.blocks[i] \in ToSet(h.blocks)
<1>1. h \in Heap /\ Distinct(h.blocks) /\ Laid(ToSet(h.blocks), h.page)
  BY DEF Good
<1>2. h.blocks \in Seq(Block) /\ h.page \in [Page -> PageStates] /\ h.fault \in Faults
  BY <1>1 DEF Heap
<1> QED BY <1>1, <1>2, Indices

LEMMA FailedGood ==
  ASSUME NEW h, Good(h), NEW f \in Faults, NEW g, g = Failed(h, f)
  PROVE  Good(g) /\ g.fault = f /\ g.blocks = h.blocks /\ g.page = h.page
<1>1. g.fault = f /\ g.blocks = h.blocks /\ g.page = h.page /\ g \in Heap
  BY DEF Failed, Good, Heap
<1> QED BY <1>1 DEF Good

(***************************************************************************)
(* memory_split on a block large enough cuts it in two, and reports no     *)
(* fault.                                                                  *)
(***************************************************************************)
LEMMA SplitGood ==
  ASSUME NEW h, Good(h), NEW i \in DOMAIN h.blocks, NEW b, b = h.blocks[i],
         b.state = FREE, b.size > HSIZE, NEW size \in Nat, size + HSIZE <= b.size,
         NEW g, g = memory_split(h, i, size)
  PROVE  /\ Good(g) /\ g.fault = h.fault /\ g.page = h.page
         /\ i \in DOMAIN g.blocks /\ i + 1 \in DOMAIN g.blocks
         /\ g.blocks[i] = [b EXCEPT !.size = size]
         /\ g.blocks[i + 1] = [addr |-> b.addr + HSIZE + size,
                               size |-> b.size - size - HSIZE, state |-> FREE]
         /\ ToSet(g.blocks) = (ToSet(h.blocks) \ {b}) \cup {g.blocks[i], g.blocks[i + 1]}
<1> DEFINE x == [b EXCEPT !.size = size]
           y == [addr |-> b.addr + HSIZE + size, size |-> b.size - size - HSIZE, state |-> FREE]
           s == [h.blocks EXCEPT ![i] = x]
           t == InsertAt(s, i + 1, y)
<1>1. /\ b \in Block /\ b \in ToSet(h.blocks) /\ h.blocks \in Seq(Block) /\ Distinct(h.blocks)
      /\ Laid(ToSet(h.blocks), h.page) /\ h.page \in [Page -> PageStates] /\ h.fault \in Faults
      /\ i \in Nat /\ i <= Len(h.blocks)
  BY GoodFacts
<1>2. BlockEnd(b) <= AddrSpace
  BY <1>1 DEF Laid, Inside
<1>3. /\ x \in Block /\ y \in Block /\ x.addr = b.addr /\ y.addr = BlockEnd(x)
      /\ BlockEnd(y) = BlockEnd(b)
  <2>1. /\ b.addr \in Nat /\ b.size \in Nat /\ HSIZE \in Nat /\ AddrSpace \in Nat
        /\ BlockEnd(b) = b.addr + HSIZE + b.size /\ b.size < AddrSpace /\ FREE \in {FREE, USED}
        /\ b.addr < AddrSpace /\ b.state \in {FREE, USED} /\ HSIZE > 0
    BY <1>1, BlockFacts, Positive
  <2>2. /\ x = [addr |-> b.addr, size |-> size, state |-> b.state]
        /\ y.addr = b.addr + HSIZE + size /\ y.size = b.size - size - HSIZE
    BY <1>1 DEF Block
  <2>4. /\ size \in 0 .. AddrSpace - 1 /\ b.addr \in 0 .. AddrSpace - 1
        /\ b.addr + HSIZE + size \in 0 .. AddrSpace - 1
        /\ b.size - size - HSIZE \in 0 .. AddrSpace - 1 /\ b.state \in {FREE, USED}
    <3>1. \A a, n, m, d, e \in Nat :
            d > 0 /\ m + d <= n /\ a + d + n <= e
              => m < e /\ a + d + m \in Nat /\ a + d + m < e /\ n - m - d \in Nat /\ n - m - d < e
      OBVIOUS
    <3>2. size < AddrSpace /\ b.addr + HSIZE + size \in Nat /\ b.addr + HSIZE + size < AddrSpace
          /\ b.size - size - HSIZE \in Nat /\ b.size - size - HSIZE < AddrSpace
      BY <1>2, <2>1, <3>1
    <3>3. \A n \in Nat : n < AddrSpace => n \in 0 .. AddrSpace - 1
      BY <2>1
    <3> QED BY <2>1, <3>2, <3>3
  <2>3. x \in Block /\ y \in Block
    BY <2>1, <2>2, <2>4 DEF Block
  <2> QED BY <2>1, <2>2, <2>3 DEF BlockEnd
<1>4. g = [h EXCEPT !.blocks = t]
  <2>1. b.size \in Nat /\ HSIZE \in Nat
    BY <1>1, BlockFacts, Positive
  <2>2. ~(b.size <= HSIZE \/ b.state # FREE) /\ ~(size + HSIZE > b.size)
    BY <2>1
  <2> QED BY <2>2 DEF memory_split
<1> HIDE DEF x, y
<1>5. /\ Laid((ToSet(h.blocks) \ {b}) \cup {x, y}, h.page)
      /\ x # y /\ x \notin ToSet(h.blocks) \ {b} /\ y \notin ToSet(h.blocks)
  <2>1. PICK S, pg : S = ToSet(h.blocks) /\ pg = h.page
    OBVIOUS
  <2>2. Laid(S, pg) /\ b \in S
    BY <1>1, <2>1
  <2>3. /\ Laid((S \ {b}) \cup {x, y}, pg)
        /\ x # y /\ x \notin S \ {b} /\ y \notin S
    BY <1>3, <2>2, Cut
  <2> QED BY <2>1, <2>3
<1>6. /\ s \in Seq(Block) /\ Len(s) = Len(h.blocks) /\ s[i] = x /\ Distinct(s)
      /\ ToSet(s) = (ToSet(h.blocks) \ {b}) \cup {x}
  BY <1>1, <1>3, <1>5, WrittenSet
<1> HIDE DEF s
<1>7. i + 1 \in 1 .. Len(s) + 1 /\ y \notin ToSet(s) /\ i \in DOMAIN s /\ i < i + 1
  BY <1>1, <1>5, <1>6
<1>8. /\ t \in Seq(Block) /\ Len(t) = Len(s) + 1 /\ t[i + 1] = y /\ t[i] = x
      /\ ToSet(t) = ToSet(s) \cup {y} /\ Distinct(t)
  BY <1>3, <1>6, <1>7, InsertedSet
<1> HIDE DEF t
<1>9. g.blocks = t /\ g.page = h.page /\ g.fault = h.fault /\ g \in Heap
  BY <1>1, <1>4, <1>8 DEF Good, Heap
<1>10. ToSet(t) = (ToSet(h.blocks) \ {b}) \cup {x, y}
  BY <1>6, <1>8
<1>11. Good(g)
  BY <1>5, <1>8, <1>9, <1>10 DEF Good
<1>12. i \in DOMAIN t /\ i + 1 \in DOMAIN t
  BY <1>1, <1>6, <1>8
<1> QED BY <1>8, <1>9, <1>10, <1>11, <1>12 DEF x, y

(***************************************************************************)
(* A list in good order over a table, as memory_merge finds and leaves it; *)
(* what merging may do to it: block i stays FREE, every other block was    *)
(* there before, and no USED one goes.                                     *)
(***************************************************************************)
Sound(bs, pg) == bs \in Seq(Block) /\ Distinct(bs) /\ Laid(ToSet(bs), pg)

Merges(bs, t, i) ==
  /\ i \in DOMAIN t /\ t[i].state = FREE
  /\ \A c \in ToSet(t) : c = t[i] \/ c \in ToSet(bs) \ {bs[i]}
  /\ UsedIn(ToSet(t)) = UsedIn(ToSet(bs))

LEMMA MergeGood ==
  ASSUME NEW bs, NEW pg, Sound(bs, pg), NEW i \in DOMAIN bs, Mergeable(bs, i),
         NEW t, t = memory_merge(bs, i)
  PROVE  Sound(t, pg) /\ Merges(bs, t, i) /\ bs[i + 1] \notin ToSet(t)
<1> DEFINE b == bs[i]
           c == bs[i + 1]
           x == [b EXCEPT !.size = @ + c.size + HSIZE]
           s == [bs EXCEPT ![i] = x]
<1>1. /\ bs \in Seq(Block) /\ Distinct(bs) /\ Laid(ToSet(bs), pg)
      /\ i \in Nat /\ i + 1 \in DOMAIN bs /\ i # i + 1
      /\ b \in Block /\ c \in Block /\ b \in ToSet(bs) /\ c \in ToSet(bs)
      /\ b.state = FREE /\ c.state = FREE /\ BlockEnd(b) = c.addr
  <2>1. bs \in Seq(Block) /\ Distinct(bs) /\ Laid(ToSet(bs), pg)
    BY DEF Sound
  <2>2. i \in Nat /\ i + 1 \in DOMAIN bs /\ i # i + 1
    BY <2>1 DEF Mergeable
  <2> QED BY <2>1, <2>2, Indices DEF Mergeable
<1>2. x \in Block /\ x.addr = b.addr /\ BlockEnd(x) = BlockEnd(c) /\ x.state = FREE
  <2>1. /\ b.addr \in Nat /\ b.size \in Nat /\ c.size \in Nat /\ HSIZE \in Nat /\ AddrSpace \in Nat
        /\ BlockEnd(b) = b.addr + HSIZE + b.size /\ BlockEnd(c) = c.addr + HSIZE + c.size
        /\ b.addr < AddrSpace /\ HSIZE > 0
    BY <1>1, BlockFacts, Positive
  <2>2. BlockEnd(c) <= AddrSpace
    BY <1>1 DEF Laid, Inside
  <2>3. /\ x.addr = b.addr /\ x.size = b.size + c.size + HSIZE /\ x.state = FREE
        /\ x = [addr |-> b.addr, size |-> b.size + c.size + HSIZE, state |-> FREE]
    BY <1>1 DEF Block
  <2>4. b.size + c.size + HSIZE \in Nat /\ b.size + c.size + HSIZE < AddrSpace
    <3>1. \A a, n, m, d, e \in Nat :
            d > 0 /\ a + d + n + d + m <= e => n + m + d \in Nat /\ n + m + d < e
      OBVIOUS
    <3>2. b.addr + HSIZE + b.size + HSIZE + c.size <= AddrSpace
      BY <1>1, <2>1, <2>2
    <3> QED BY <2>1, <3>1, <3>2
  <2>5. \A n \in Nat : n < AddrSpace => n \in 0 .. AddrSpace - 1
    BY <2>1
  <2>6. x \in Block
    BY <2>1, <2>3, <2>4, <2>5 DEF Block
  <2>7. BlockEnd(x) = BlockEnd(c)
    BY <1>1, <2>1, <2>3 DEF BlockEnd
  <2> QED BY <2>3, <2>6, <2>7
<1>3. t = RemoveAt(s, i + 1)
  BY DEF memory_merge
<1> HIDE DEF b, c, x
<1>4. Laid((ToSet(bs) \ {b, c}) \cup {x}, pg) /\ b # c /\ x \notin ToSet(bs)
  <2>1. PICK S : S = ToSet(bs)
    OBVIOUS
  <2>2. Laid((S \ {b, c}) \cup {x}, pg) /\ b # c /\ x \notin S
    BY <1>1, <1>2, <2>1, Join
  <2> QED BY <2>1, <2>2
<1>5. /\ s \in Seq(Block) /\ Len(s) = Len(bs) /\ s[i] = x /\ Distinct(s) /\ s[i + 1] = c
      /\ ToSet(s) = (ToSet(bs) \ {b}) \cup {x}
  <2>1. b = bs[i] /\ c = bs[i + 1]
    BY DEF b, c
  <2>2. x \notin ToSet(bs) \ {bs[i]} /\ x \in Block /\ bs \in Seq(Block) /\ Distinct(bs)
    BY <1>1, <1>2, <1>4
  <2>3. /\ s \in Seq(Block) /\ Len(s) = Len(bs) /\ s[i] = x
        /\ \A j \in DOMAIN bs : j # i => s[j] = bs[j]
        /\ ToSet(s) = (ToSet(bs) \ {bs[i]}) \cup {x}
        /\ Distinct(s)
    BY <2>2, WrittenSet
  <2> QED BY <1>1, <2>1, <2>3
<1> HIDE DEF s
<1>6. i + 1 \in DOMAIN s /\ i \in DOMAIN s /\ i < i + 1
  BY <1>1, <1>5
<1>7. /\ t \in Seq(Block) /\ Distinct(t) /\ i \in DOMAIN t /\ t[i] = x
      /\ ToSet(t) = ToSet(s) \ {c}
  BY <1>3, <1>5, <1>6, RemovedSet
<1>8. ToSet(t) = (ToSet(bs) \ {b, c}) \cup {x}
  BY <1>1, <1>4, <1>5, <1>7
<1>9. Sound(t, pg)
  BY <1>4, <1>7, <1>8 DEF Sound
<1>10. UsedIn(ToSet(t)) = UsedIn(ToSet(bs))
  BY <1>1, <1>2, <1>8 DEF UsedIn, FREE, USED
<1>11. bs[i + 1] \notin ToSet(t) /\ ToSet(t) \subseteq (ToSet(bs) \ {bs[i]}) \cup {x}
  BY <1>1, <1>4, <1>8 DEF b, c
<1> QED BY <1>2, <1>7, <1>9, <1>10, <1>11 DEF Merges

(***************************************************************************)
(* free_pages.  First the release of a block from a page boundary on, then *)
(* its arithmetic: p is the first boundary in or behind the block, and     *)
(* what wraps at the top of the address space makes it do nothing or fail. *)
(***************************************************************************)
\* R are the whole pages of b, which starts on a page boundary.
WholePages(b, R) ==
  /\ BlockEnd(b) < AddrSpace
  /\ \E p, q \in Nat :
       /\ R = p .. q - 1 /\ b.addr = PageStart(p)
       /\ PageStart(q) <= BlockEnd(b) /\ BlockEnd(b) < PageStart(q + 1)

Release(h, i, R) == [h EXCEPT !.blocks = RemoveAt(@, i), !.page = SetPages(@, R, PAGE_FREE)]

LEMMA ReleaseGood ==
  ASSUME NEW h, Good(h), NEW i \in DOMAIN h.blocks, h.blocks[i].state = FREE,
         NEW R, WholePages(h.blocks[i], R)
  PROVE  /\ Good(Release(h, i, R)) /\ Release(h, i, R).fault = h.fault
         /\ ToSet(Release(h, i, R).blocks) = ToSet(h.blocks) \ {h.blocks[i]}
         /\ SameArena(h.page, Release(h, i, R).page)
<1> DEFINE b == h.blocks[i]
           g == Release(h, i, R)
<1>0. PICK p \in Nat, q \in Nat :
        /\ R = p .. q - 1 /\ b.addr = PageStart(p) /\ BlockEnd(b) < AddrSpace
        /\ PageStart(q) <= BlockEnd(b) /\ BlockEnd(b) < PageStart(q + 1)
  BY DEF WholePages
<1>1. /\ h \in Heap /\ h.blocks \in Seq(Block) /\ Distinct(h.blocks) /\ b \in Block
      /\ Laid(ToSet(h.blocks), h.page) /\ h.page \in [Page -> PageStates] /\ b \in ToSet(h.blocks)
  BY GoodFacts
<1>2. PICK t, S, pg, pg1 : /\ t = RemoveAt(h.blocks, i) /\ S = ToSet(h.blocks) /\ pg = h.page
                           /\ pg1 = SetPages(pg, p .. q - 1, PAGE_FREE)
  OBVIOUS
<1>3. t \in Seq(Block) /\ ToSet(t) = S \ {b} /\ Distinct(t)
  BY <1>1, <1>2, RemovedSet
<1>4. Laid(S, pg) /\ b \in S
  BY <1>1, <1>2
<1> HIDE DEF b
<1>5. Laid(S \ {b}, pg1)
  BY <1>0, <1>2, <1>4, Drop
<1>6. /\ g.blocks = t /\ g.page = pg1 /\ g.fault = h.fault
      /\ g = [blocks |-> t, page |-> pg1, fault |-> h.fault]
  <2>1. pg1 = SetPages(h.page, R, PAGE_FREE)
    BY <1>0, <1>2
  <2>2. g = [h EXCEPT !.blocks = t, !.page = pg1]
    BY <1>2, <2>1 DEF Release
  <2> HIDE DEF g
  <2> QED BY <1>1, <2>2 DEF Heap
<1> HIDE DEF g
<1>7. g \in Heap
  BY <1>1, <1>3, <1>5, <1>6 DEF Heap, Laid
<1>8. Good(g)
  BY <1>3, <1>5, <1>6, <1>7 DEF Good
<1>9. SameArena(pg, pg1)
  <2> SUFFICES ASSUME NEW k \in Page, k \in p .. q - 1 PROVE pg[k] = PAGE_USED
    BY <1>0, <1>2 DEF SameArena, SetPages, PAGE_FREE, PAGE_USED
  <2>1. /\ k \in Nat /\ k + 1 \in Nat /\ p <= k /\ k + 1 <= q
        /\ PageStart(p) \in Nat /\ PageStart(q) \in Nat
        /\ PageStart(k) \in Nat /\ PageStart(k + 1) \in Nat /\ PageStart(k) < PageStart(k + 1)
    BY <1>0, PageFacts, PageStarts
  <2>2. PageStart(p) <= PageStart(k) /\ PageStart(k + 1) <= PageStart(q)
    BY <2>1, PageStarts
  <2>3. b.addr \in Nat /\ BlockEnd(b) \in Nat
    BY <1>1, BlockFacts
  <2>4. Touches(b, k)
    BY <1>0, <2>1, <2>2, <2>3 DEF Touches
  <2> QED BY <1>4, <2>4 DEF Laid, Paged
<1> QED BY <1>1, <1>2, <1>3, <1>6, <1>8, <1>9 DEF b, g

\* The page boundary at or behind an address.
LEMMA RoundUp ==
  ASSUME NEW a \in Nat, a < AddrSpace, NEW p, p = (a + PAGE_SIZE - 1) \div PAGE_SIZE
  PROVE  /\ p \in Nat /\ p <= PAGE_COUNT
         /\ PageStart(p) \in Nat /\ a <= PageStart(p) /\ PageStart(p) < a + PAGE_SIZE
         /\ p < PAGE_COUNT => PageStart(p) % AddrSpace = PageStart(p)
         /\ p = PAGE_COUNT => PageStart(p) % AddrSpace = 0
<1> DEFINE n == a + PAGE_SIZE - 1
<1>1. n \in Nat /\ PAGE_SIZE \in Nat \ {0} /\ PAGE_COUNT \in Nat \ {0} /\ AddrSpace \in Nat \ {0}
  BY Positive
<1>2. p \in Nat /\ p * PAGE_SIZE <= n /\ n < (p + 1) * PAGE_SIZE
  <2> HIDE DEF n
  <2> QED BY <1>1, DivFacts DEF n
<1>3. /\ PageStart(p) \in Nat /\ PageStart(p) <= n /\ n < PageStart(p) + PAGE_SIZE
  BY <1>2, PageStarts DEF PageStart
<1>4. a <= PageStart(p) /\ PageStart(p) < a + PAGE_SIZE
  BY <1>1, <1>3
<1>5. PageStart(PAGE_COUNT) = AddrSpace /\ PageStart(PAGE_COUNT + 1) = AddrSpace + PAGE_SIZE
  BY <1>1, PageStarts
<1>6. p <= PAGE_COUNT
  <2>1. PageStart(p) < PageStart(PAGE_COUNT + 1) /\ PAGE_COUNT + 1 \in Nat
    BY <1>1, <1>3, <1>4, <1>5
  <2>2. p < PAGE_COUNT + 1
    BY <1>2, <2>1, PageStarts
  <2> QED BY <1>1, <1>2, <2>2
<1>7. ASSUME p < PAGE_COUNT PROVE PageStart(p) % AddrSpace = PageStart(p)
  <2>1. p + 1 \in Nat /\ p + 1 <= PAGE_COUNT /\ PageStart(p + 1) = PageStart(p) + PAGE_SIZE
    BY <1>1, <1>2, <1>7, PageStarts
  <2>2. PageStart(p + 1) <= AddrSpace
    BY <1>1, <1>5, <2>1, PageStarts
  <2>3. PageStart(p) < AddrSpace
    BY <1>1, <1>3, <2>1, <2>2
  <2> QED BY <1>1, <1>3, <2>3, ModSmall
<1>8. AddrSpace % AddrSpace = 0
  BY <1>1
<1> QED BY <1>2, <1>3, <1>4, <1>5, <1>6, <1>7, <1>8

LEMMA Wraps ==
  ASSUME NEW e \in Nat, e <= AddrSpace
  PROVE  /\ e < AddrSpace => e % AddrSpace = e
         /\ e = AddrSpace => e % AddrSpace = 0
<1>1. AddrSpace \in Nat \ {0}
  BY Positive
<1>2. e < AddrSpace => e % AddrSpace = e
  BY <1>1, ModSmall
<1>3. AddrSpace % AddrSpace = 0
  BY <1>1
<1> QED BY <1>2, <1>3

LEMMA WrapsBelow ==
  ASSUME NEW d \in Int, d < 0, -AddrSpace <= d
  PROVE  d % AddrSpace = d + AddrSpace
  BY Positive

LEMMA FreePagesGood ==
  ASSUME NEW h, Good(h), h.fault = "none", NEW i \in DOMAIN h.blocks,
         NEW b, b = h.blocks[i], b.state = FREE,
         \A c \in ToSet(h.blocks) : c = b \/ LeanBlock(c),
         NEW g, g = free_pages(h, i)
  PROVE  /\ Good(g) /\ g.fault \in {"none", "wild", "top"}
         /\ UsedIn(ToSet(g.blocks)) = UsedIn(ToSet(h.blocks))
         /\ SameArena(h.page, g.page)
         /\ g.fault = "none" => Lean(ToSet(g.blocks))
<1> DEFINE p == (b.addr + PAGE_SIZE - 1) \div PAGE_SIZE
           page_start == (p * PAGE_SIZE) % AddrSpace
           e == BlockEnd(b)
           block_end == e % AddrSpace
           len == (block_end - page_start) % AddrSpace
           cut == (page_start - b.addr - HSIZE) % AddrSpace
           split == memory_split(h, i, cut)
           Released(f, k) == [f EXCEPT !.blocks = RemoveAt(@, k),
                                       !.page = page_set_range(@, page_start, len, PAGE_FREE)]
           q == e \div PAGE_SIZE
<1>1. g = IF ~HoldsPage(page_start, block_end, len) THEN h
          ELSE IF b.addr > page_start THEN Failed(h, "top")
          ELSE IF b.addr = page_start THEN Released(h, i)
          ELSE IF split.fault # "none" THEN split
          ELSE Released(split, i + 1)
  BY DEF free_pages
<1>2. /\ b \in Block /\ b \in ToSet(h.blocks) /\ h.blocks \in Seq(Block)
      /\ Laid(ToSet(h.blocks), h.page) /\ h.page \in [Page -> PageStates]
  BY GoodFacts
<1>3. /\ b.addr \in Nat /\ b.size \in Nat /\ e \in Nat /\ b.addr < e /\ b.addr < AddrSpace
      /\ e = b.addr + HSIZE + b.size /\ b.size < AddrSpace
      /\ PAGE_SIZE \in Nat /\ HSIZE \in Nat /\ HSIZE > 0 /\ PAGE_SIZE > 2 * HSIZE
      /\ AddrSpace \in Nat \ {0} /\ PAGE_COUNT \in Nat
  BY <1>2, BlockFacts, Positive
<1>4. e <= AddrSpace
  BY <1>2 DEF Laid, Inside
<1>5. /\ p \in Nat /\ p <= PAGE_COUNT
      /\ PageStart(p) \in Nat /\ b.addr <= PageStart(p) /\ PageStart(p) < b.addr + PAGE_SIZE
      /\ page_start = PageStart(p) \/ (p = PAGE_COUNT /\ page_start = 0)
  <2>1. /\ p \in Nat /\ p <= PAGE_COUNT
        /\ PageStart(p) \in Nat /\ b.addr <= PageStart(p) /\ PageStart(p) < b.addr + PAGE_SIZE
        /\ p < PAGE_COUNT => PageStart(p) % AddrSpace = PageStart(p)
        /\ p = PAGE_COUNT => PageStart(p) % AddrSpace = 0
    BY <1>3, RoundUp
  <2>2. page_start = PageStart(p) % AddrSpace
    BY DEF PageStart
  <2> HIDE DEF p, page_start
  <2> QED BY <1>3, <2>1, <2>2
<1>6. (e < AddrSpace /\ block_end = e) \/ (e = AddrSpace /\ block_end = 0)
  BY <1>3, <1>4, Wraps
<1>7. q \in Nat /\ PageStart(q) <= e /\ e < PageStart(q + 1)
  <2> HIDE DEF e
  <2> QED BY <1>3, DivFacts DEF PageStart
<1>8. page_start \in Nat /\ page_start < AddrSpace
  <2>1. p * PAGE_SIZE \in Nat
    BY <1>3, <1>5
  <2> QED BY <1>3, <2>1, ModRange
<1> HIDE DEF p, page_start, e, block_end, q
<1>9. CASE ~HoldsPage(page_start, block_end, len)
  <2>1. g = h
    BY <1>1, <1>9
  <2>2. LeanBlock(b)
    <3> SUFFICES ASSUME e < AddrSpace, NEW k \in Page, Covers(b, k) PROVE FALSE
      BY DEF LeanBlock, e
    <3>1. /\ k \in Nat /\ k + 1 \in Nat /\ k < PAGE_COUNT /\ PageStart(k) \in Nat
          /\ PageStart(k + 1) \in Nat /\ PageStart(k + 1) = PageStart(k) + PAGE_SIZE
      BY <1>3, PageFacts DEF Page
    <3>2. b.addr <= PageStart(k) /\ PageStart(k + 1) <= e
      BY DEF Covers, e
    <3>3. PageStart(p) < PageStart(k + 1)
      BY <1>3, <1>5, <3>1, <3>2
    <3>4. p <= k
      <4>1. p < k + 1
        BY <1>5, <3>1, <3>3, PageStarts
      <4> QED BY <1>5, <3>1, <4>1
    <3>5. PageStart(p) <= PageStart(k) /\ page_start = PageStart(p)
      BY <1>3, <1>5, <3>1, <3>4, PageStarts
    <3>6. e - page_start >= PAGE_SIZE /\ block_end = e /\ e - page_start \in Nat /\ e - page_start < AddrSpace
      BY <1>3, <1>5, <1>6, <3>1, <3>2, <3>5
    <3>7. len = e - page_start
      BY <1>3, <3>6, ModSmall
    <3> QED BY <1>3, <1>8, <1>9, <3>6, <3>7 DEF HoldsPage
  <2>3. Lean(ToSet(h.blocks))
    BY <2>2 DEF Lean
  <2> QED BY <2>1, <2>3 DEF SameArena
<1>10. CASE HoldsPage(page_start, block_end, len) /\ b.addr > page_start
  <2>1. g = Failed(h, "top")
    BY <1>1, <1>10
  <2>2. Good(g) /\ g.fault = "top" /\ g.blocks = h.blocks /\ g.page = h.page
    BY <2>1, FailedGood DEF Faults
  <2> QED BY <2>2 DEF SameArena
<1>11. ASSUME HoldsPage(page_start, block_end, len), b.addr <= page_start
       PROVE  /\ e < AddrSpace /\ block_end = e /\ page_start = PageStart(p)
              /\ len = e - page_start /\ len >= PAGE_SIZE
              /\ page_set_range(h.page, page_start, len, PAGE_FREE) = SetPages(h.page, p .. q - 1, PAGE_FREE)
  <2>1. block_end > page_start
    BY <1>11 DEF HoldsPage
  <2>2. e < AddrSpace /\ block_end = e
    BY <1>3, <1>6, <1>8, <2>1
  <2>3. page_start = PageStart(p)
    <3>1. CASE p = PAGE_COUNT
      <4>1. PageStart(p) = AddrSpace
        BY <3>1, PageStarts
      <4>2. page_start = 0 /\ b.addr = 0
        BY <1>3, <1>5, <1>8, <1>11, <4>1
      <4> QED BY <1>3, <1>5, <4>1, <4>2, Positive
    <3> QED BY <1>5, <3>1
  <2>4. e - page_start \in Nat /\ e - page_start < AddrSpace
    BY <1>3, <1>8, <2>1, <2>2
  <2>5. len = e - page_start /\ len >= PAGE_SIZE
    BY <1>3, <1>11, <2>2, <2>4, ModSmall DEF HoldsPage
  <2>6. page_start \div PAGE_SIZE = p
    BY <1>3, <1>5, <2>3, DivExact, Positive DEF PageStart
  <2>7. (page_start + len) % AddrSpace = e
    <3>1. page_start + len = e
      BY <1>3, <1>8, <2>5
    <3> QED BY <1>3, <2>2, <3>1, ModSmall
  <2>8. Region(page_start, len) = p .. q - 1
    BY <2>6, <2>7 DEF Region, q
  <2> QED BY <2>2, <2>3, <2>5, <2>8 DEF page_set_range
<1> HIDE DEF len
<1>12. CASE HoldsPage(page_start, block_end, len) /\ b.addr = page_start
  <2>1. g = Released(h, i)
    BY <1>1, <1>3, <1>12
  <2>2. /\ e < AddrSpace /\ b.addr = PageStart(p)
        /\ page_set_range(h.page, page_start, len, PAGE_FREE) = SetPages(h.page, p .. q - 1, PAGE_FREE)
    BY <1>3, <1>11, <1>12
  <2>3. g = Release(h, i, p .. q - 1)
    BY <2>1, <2>2 DEF Release
  <2>4. /\ Good(g) /\ g.fault = "none" /\ ToSet(g.blocks) = ToSet(h.blocks) \ {b}
        /\ SameArena(h.page, g.page)
    <3>1. WholePages(b, p .. q - 1)
      BY <1>5, <1>7, <2>2 DEF e, WholePages
    <3> QED BY <2>3, <3>1, ReleaseGood
  <2>5. UsedIn(ToSet(g.blocks)) = UsedIn(ToSet(h.blocks))
    BY <2>4 DEF UsedIn, FREE, USED
  <2>6. Lean(ToSet(g.blocks))
    BY <2>4 DEF Lean
  <2> QED BY <2>4, <2>5, <2>6
<1>13. CASE HoldsPage(page_start, block_end, len) /\ b.addr < page_start
  <2>1. /\ e < AddrSpace /\ page_start = PageStart(p) /\ len = e - page_start /\ len >= PAGE_SIZE
        /\ page_set_range(h.page, page_start, len, PAGE_FREE) = SetPages(h.page, p .. q - 1, PAGE_FREE)
    BY <1>3, <1>8, <1>11, <1>13
  <2>2. b.size > HSIZE /\ page_start - b.addr <= b.size
    BY <1>3, <1>8, <1>13, <2>1
  <2>3. g = IF split.fault # "none" THEN split ELSE Released(split, i + 1)
    BY <1>1, <1>3, <1>8, <1>13
  <2>4. CASE page_start - b.addr < HSIZE
    <3>1. cut = page_start - b.addr - HSIZE + AddrSpace /\ cut + HSIZE > b.size
      <4>1. /\ page_start - b.addr - HSIZE \in Int /\ page_start - b.addr - HSIZE < 0
            /\ -AddrSpace <= page_start - b.addr - HSIZE
        BY <1>3, <1>8, <1>13, <2>2, <2>4
      <4>2. cut = page_start - b.addr - HSIZE + AddrSpace
        BY <4>1, WrapsBelow
      <4> QED BY <1>3, <1>8, <1>13, <4>2
    <3>2. split = Failed(h, "wild")
      <4> HIDE DEF cut
      <4>1. ~(b.size <= HSIZE \/ b.state # FREE) /\ cut + HSIZE > b.size
        BY <1>3, <2>2, <3>1
      <4> QED BY <4>1 DEF memory_split
    <3>3. /\ Good(split) /\ split.fault = "wild" /\ split.blocks = h.blocks /\ split.page = h.page
      BY <3>2, FailedGood DEF Faults
    <3>4. g = split
      BY <2>3, <3>3
    <3> QED BY <3>3, <3>4 DEF SameArena
  <2>5. CASE page_start - b.addr >= HSIZE
    <3>1. cut \in Nat /\ cut = page_start - b.addr - HSIZE /\ cut + HSIZE <= b.size
      <4>1. page_start - b.addr - HSIZE \in Nat /\ page_start - b.addr - HSIZE < AddrSpace
        BY <1>3, <1>8, <2>5
      <4>2. cut = page_start - b.addr - HSIZE
        BY <1>3, <4>1, ModSmall
      <4> QED BY <1>3, <1>8, <2>2, <4>1, <4>2
    <3> HIDE DEF cut
    <3> DEFINE x == split.blocks[i]
               y == split.blocks[i + 1]
    <3>2. /\ Good(split) /\ split.fault = "none" /\ split.page = h.page
          /\ i + 1 \in DOMAIN split.blocks
          /\ x = [b EXCEPT !.size = cut]
          /\ y = [addr |-> b.addr + HSIZE + cut, size |-> b.size - cut - HSIZE, state |-> FREE]
          /\ ToSet(split.blocks) = (ToSet(h.blocks) \ {b}) \cup {x, y}
      BY <1>3, <2>2, <3>1, SplitGood, SMTT(20)
    <3>3. /\ x.addr = b.addr /\ x.state = FREE /\ BlockEnd(x) = page_start
          /\ y.addr = PageStart(p) /\ y.state = FREE /\ BlockEnd(y) = e
      <4>1. /\ x.addr = b.addr /\ x.size = cut /\ x.state = FREE
            /\ y.addr = b.addr + HSIZE + cut /\ y.size = b.size - cut - HSIZE /\ y.state = FREE
        BY <1>2, <3>2 DEF Block
      <4> HIDE DEF x, y
      <4>2. BlockEnd(x) = b.addr + HSIZE + cut /\ BlockEnd(y) = b.addr + HSIZE + cut + HSIZE + (b.size - cut - HSIZE)
        BY <4>1 DEF BlockEnd
      <4>3. b.addr + HSIZE + cut = page_start
        BY <1>3, <1>8, <3>1
      <4>4. BlockEnd(y) = e
        BY <1>3, <3>1, <4>2
      <4> QED BY <2>1, <4>1, <4>2, <4>3, <4>4
    <3>4. g = Release(split, i + 1, p .. q - 1)
      <4>1. g = Released(split, i + 1)
        BY <2>3, <3>2
      <4> HIDE DEF split
      <4> QED BY <2>1, <3>2, <4>1 DEF Release
    <3>5. x # y
      BY <1>3, <1>8, <1>13, <2>1, <3>3
    <3> HIDE DEF split, x
    <3>6. /\ Good(g) /\ g.fault = split.fault /\ ToSet(g.blocks) = ToSet(split.blocks) \ {y}
          /\ SameArena(split.page, g.page)
      <4>1. WholePages(y, p .. q - 1)
        BY <1>5, <1>7, <2>1, <3>3 DEF WholePages
      <4> QED BY <3>2, <3>3, <3>4, <4>1, ReleaseGood
    <3> HIDE DEF y
    <3>7. ToSet(g.blocks) \subseteq (ToSet(h.blocks) \ {b}) \cup {x}
      BY <3>2, <3>6
    <3>8. UsedIn(ToSet(g.blocks)) = UsedIn(ToSet(h.blocks))
      BY <3>2, <3>3, <3>6 DEF UsedIn, FREE, USED
    <3>9. LeanBlock(x)
      <4> SUFFICES ASSUME NEW k \in Page, Covers(x, k) PROVE FALSE
        BY DEF LeanBlock
      <4>1. /\ PageStart(k) \in Nat /\ PageStart(k + 1) = PageStart(k) + PAGE_SIZE
            /\ b.addr <= PageStart(k) /\ PageStart(k + 1) <= PageStart(p)
        BY <2>1, <3>3, PageFacts DEF Covers
      <4> QED BY <1>3, <1>5, <4>1
    <3>10. Lean(ToSet(g.blocks))
      BY <3>7, <3>9 DEF Lean
    <3> QED BY <3>2, <3>6, <3>8, <3>10
  <2> QED BY <1>3, <1>8, <2>4, <2>5
<1> QED BY <1>3, <1>8, <1>9, <1>10, <1>12, <1>13

-----------------------------------------------------------------------------
(***************************************************************************)
(* kmalloc.                                                                *)
(***************************************************************************)
LEMMA SmallestNumber ==
  ASSUME NEW S \in SUBSET Nat, S # {}
  PROVE  Min(S) \in S
<1> DEFINE Less == OpToRel(<, Nat)
<1>1. IsWellFoundedOn(Less, Nat)
  BY NatLessThanWellFounded
<1>2. \A x, y \in Nat : x < y => <<x, y>> \in Less
  BY DEF OpToRel
<1> HIDE DEF Less
<1>3. PICK n \in S : \A x \in S : <<x, n>> \notin Less
  BY <1>1, WFMin
<1>4. ASSUME NEW x \in S PROVE n <= x
  <2>1. n \in Nat /\ x \in Nat
    OBVIOUS
  <2>2. ~(x < n)
    BY <1>2, <1>3, <2>1
  <2> QED BY <2>1, <2>2
<1> QED BY <1>4 DEF Min

\* As many pages as the bytes and a header need, and not one more.
LEMMA PagesForFacts ==
  ASSUME NEW size \in Nat
  PROVE  /\ PagesFor(size) \in Nat \ {0}
         /\ size + HSIZE <= PagesFor(size) * PAGE_SIZE
         /\ PagesFor(size) * PAGE_SIZE < size + HSIZE + PAGE_SIZE
<1> DEFINE n == size + HSIZE
           whole == n \div PAGE_SIZE
<1>1. n \in Nat /\ n > 0 /\ PAGE_SIZE \in Nat \ {0}
  BY Positive
<1>2. PagesFor(size) = IF n % PAGE_SIZE > 0 THEN whole + 1 ELSE whole
  BY DEF PagesFor
<1> HIDE DEF n
<1>3. /\ whole \in Nat /\ whole * PAGE_SIZE <= n /\ n < (whole + 1) * PAGE_SIZE
      /\ n = whole * PAGE_SIZE + (n % PAGE_SIZE) /\ n % PAGE_SIZE \in Nat
  BY <1>1, DivFacts
<1> HIDE DEF whole
<1>4. /\ whole * PAGE_SIZE \in Nat /\ (whole + 1) * PAGE_SIZE = whole * PAGE_SIZE + PAGE_SIZE
      /\ whole = 0 => whole * PAGE_SIZE = 0
  BY <1>1, <1>3
<1>5. CASE n % PAGE_SIZE > 0
  <2>1. PagesFor(size) = whole + 1
    BY <1>2, <1>5
  <2>2. whole * PAGE_SIZE < n /\ n <= (whole + 1) * PAGE_SIZE
    BY <1>1, <1>3, <1>4, <1>5
  <2>3. (whole + 1) * PAGE_SIZE < n + PAGE_SIZE
    BY <1>1, <1>3, <1>4, <2>2
  <2> QED BY <1>3, <2>1, <2>2, <2>3 DEF n
<1>6. CASE ~(n % PAGE_SIZE > 0)
  <2>1. PagesFor(size) = whole /\ n = whole * PAGE_SIZE
    BY <1>2, <1>3, <1>4, <1>6
  <2>2. whole # 0
    BY <1>1, <1>4, <2>1
  <2> QED BY <1>1, <1>3, <2>1, <2>2 DEF n
<1> QED BY <1>5, <1>6

\* Block n of g is the one new block, FREE, and less than a page too large.
Claimed(h, g, n, size) ==
  /\ n \in DOMAIN g.blocks /\ g.blocks[n].state = FREE
  /\ size <= g.blocks[n].size /\ g.blocks[n].size < size + PAGE_SIZE
  /\ ToSet(g.blocks) = ToSet(h.blocks) \cup {g.blocks[n]}

LEMMA GetPagesGood ==
  ASSUME NEW h, Good(h), NEW size \in Nat, size + HSIZE < AddrSpace,
         NEW g, g = get_pages(h, size), NEW n, n = Len(g.blocks)
  PROVE  /\ Good(g) /\ SameArena(h.page, g.page)
         /\ \/ g.fault = "panic" /\ g.blocks = h.blocks
            \/ g.fault = h.fault /\ Claimed(h, g, n, size)
<1> DEFINE count == PagesFor(size)
           runs == RunsOf(h.page, count)
           first == Min(runs)
           block == [addr |-> first * PAGE_SIZE, size |-> count * PAGE_SIZE - HSIZE, state |-> FREE]
           bs == Append(h.blocks, block)
           pg == SetPages(h.page, first .. first + count - 1, PAGE_USED)
<1>1. g = IF runs = {} THEN Failed(h, "panic") ELSE [h EXCEPT !.blocks = bs, !.page = pg]
  BY DEF get_pages
<1>2. /\ h \in Heap /\ h.blocks \in Seq(Block) /\ Distinct(h.blocks) /\ h.fault \in Faults
      /\ Laid(ToSet(h.blocks), h.page) /\ h.page \in [Page -> PageStates]
  BY GoodFacts
<1>3. /\ count \in Nat \ {0} /\ size + HSIZE <= count * PAGE_SIZE
      /\ count * PAGE_SIZE < size + HSIZE + PAGE_SIZE
  BY PagesForFacts
<1>4. /\ PAGE_SIZE \in Nat \ {0} /\ HSIZE \in Nat \ {0} /\ PAGE_COUNT \in Nat /\ AddrSpace \in Nat
      /\ PAGE_SIZE > 2 * HSIZE
  BY Positive
<1>5. CASE runs = {}
  <2>1. g = Failed(h, "panic")
    BY <1>1, <1>5
  <2>2. Good(g) /\ g.fault = "panic" /\ g.blocks = h.blocks /\ g.page = h.page
    BY <2>1, FailedGood DEF Faults
  <2> QED BY <2>2 DEF SameArena
<1>6. CASE runs # {}
  <2>1. runs \subseteq Nat
    BY DEF RunsOf, Page
  <2>2. first \in runs
    BY <1>6, <2>1, SmallestNumber
  <2>3. /\ first \in Nat /\ first + count <= PAGE_COUNT
        /\ \A k \in first .. first + count - 1 : h.page[k] = PAGE_FREE
    BY <2>1, <2>2 DEF RunsOf
  <2>4. g = [h EXCEPT !.blocks = bs, !.page = pg]
    BY <1>1, <1>6
  <2> HIDE DEF first, count, runs
  <2>5. /\ first * PAGE_SIZE \in Nat /\ count * PAGE_SIZE \in Nat
        /\ first * PAGE_SIZE + count * PAGE_SIZE = (first + count) * PAGE_SIZE
        /\ (first + count) * PAGE_SIZE <= AddrSpace
    <3>1. (first + count) * PAGE_SIZE <= PAGE_COUNT * PAGE_SIZE
      BY <1>3, <1>4, <2>3, MulLeq
    <3> QED BY <1>3, <1>4, <2>3, <3>1 DEF AddrSpace
  <2>6. /\ block.addr = PageStart(first) /\ block.state = FREE
        /\ block.size = count * PAGE_SIZE - HSIZE /\ block.size \in Nat
        /\ size <= block.size /\ block.size < size + PAGE_SIZE
        /\ BlockEnd(block) = PageStart(first + count)
    BY <1>3, <1>4, <2>5 DEF BlockEnd, PageStart
  <2>7. block \in Block
    <3>1. first * PAGE_SIZE < AddrSpace /\ count * PAGE_SIZE - HSIZE \in Nat /\ count * PAGE_SIZE - HSIZE < AddrSpace
      BY <1>3, <1>4, <2>5
    <3>2. \A m \in Nat : m < AddrSpace => m \in 0 .. AddrSpace - 1
      BY <1>4
    <3>3. first * PAGE_SIZE \in 0 .. AddrSpace - 1 /\ count * PAGE_SIZE - HSIZE \in 0 .. AddrSpace - 1
      BY <2>5, <3>1, <3>2
    <3> QED BY <3>3 DEF Block
  <2> HIDE DEF block
  <2>8. Laid(ToSet(h.blocks) \cup {block}, pg) /\ block \notin ToSet(h.blocks)
    <3>1. PICK S, pg0 : S = ToSet(h.blocks) /\ pg0 = h.page
      OBVIOUS
    <3>2. Laid(S, pg0) /\ \A k \in first .. first + count - 1 : pg0[k] = PAGE_FREE
      BY <1>2, <2>3, <3>1
    <3>3. Laid(S \cup {block}, SetPages(pg0, first .. first + count - 1, PAGE_USED)) /\ block \notin S
      BY <1>3, <2>3, <2>6, <2>7, <3>2, Grow
    <3> QED BY <3>1, <3>3
  <2>9. /\ bs \in Seq(Block) /\ Len(bs) = Len(h.blocks) + 1 /\ Distinct(bs)
        /\ bs[Len(bs)] = block /\ Len(bs) \in DOMAIN bs
        /\ ToSet(bs) = ToSet(h.blocks) \cup {block}
    <3>1. PICK s : s = h.blocks
      OBVIOUS
    <3>2. PICK y : y = block
      OBVIOUS
    <3>3. PICK t : t = AtTail(s, y)
      OBVIOUS
    <3>4. s \in Seq(Block) /\ Distinct(s) /\ y \in Block /\ y \notin ToSet(s)
      BY <1>2, <2>7, <2>8, <3>1, <3>2
    <3>5. /\ t \in Seq(Block) /\ Len(t) = Len(s) + 1 /\ Len(t) \in DOMAIN t /\ t[Len(t)] = y
          /\ ToSet(t) = ToSet(s) \cup {y}
          /\ Distinct(t)
      BY <3>3, <3>4, AppendedSet
    <3> QED BY <3>1, <3>2, <3>3, <3>5 DEF AtTail
  <2> HIDE DEF bs, pg
  <2>10. g.blocks = bs /\ g.page = pg /\ g.fault = h.fault /\ g \in Heap
    BY <1>2, <2>4, <2>8, <2>9 DEF Heap, Laid
  <2>11. Good(g)
    BY <2>8, <2>9, <2>10 DEF Good
  <2>12. SameArena(h.page, pg)
    BY <2>3 DEF SameArena, SetPages, PAGE_FREE, PAGE_USED, pg
  <2>13. Claimed(h, g, n, size)
    BY <2>6, <2>9, <2>10 DEF Claimed
  <2> QED BY <2>10, <2>11, <2>12, <2>13
<1> QED BY <1>5, <1>6

(***************************************************************************)
(* Block i is replaced by x, which lies where it lay.                      *)
(***************************************************************************)
Put(h, i, x) == [h EXCEPT !.blocks = [@ EXCEPT ![i] = x]]

Replaced(S, b, x) == (S \ {b}) \cup {x}

LEMMA PutGood ==
  ASSUME NEW h, Good(h), NEW i \in DOMAIN h.blocks,
         NEW x \in Block, x.addr = h.blocks[i].addr, x.size = h.blocks[i].size
  PROVE  /\ Good(Put(h, i, x)) /\ Put(h, i, x).fault = h.fault /\ Put(h, i, x).page = h.page
         /\ i \in DOMAIN Put(h, i, x).blocks /\ Put(h, i, x).blocks[i] = x
         /\ ToSet(Put(h, i, x).blocks) = Replaced(ToSet(h.blocks), h.blocks[i], x)
         /\ x \notin ToSet(h.blocks) \ {h.blocks[i]}
<1>0. PICK g, b : g = Put(h, i, x) /\ b = h.blocks[i]
  OBVIOUS
<1>1. /\ h \in Heap /\ b \in Block /\ b \in ToSet(h.blocks) /\ h.blocks \in Seq(Block)
      /\ Distinct(h.blocks) /\ Laid(ToSet(h.blocks), h.page)
      /\ h.page \in [Page -> PageStates]
  BY <1>0, GoodFacts
<1>2. PICK S, pg, s, t : /\ S = ToSet(h.blocks) /\ pg = h.page /\ s = h.blocks
                         /\ t = [s EXCEPT ![i] = x]
  OBVIOUS
<1>3. Laid((S \ {b}) \cup {x}, pg) /\ x \notin S \ {b}
  <2>1. Laid(S, pg) /\ b \in S
    BY <1>1, <1>2
  <2>2. x.addr = b.addr /\ x.size = b.size
    BY <1>0
  <2> QED BY <2>1, <2>2, Mark
<1>4. /\ t \in Seq(Block) /\ t[i] = x /\ ToSet(t) = (S \ {b}) \cup {x}
      /\ Distinct(t) /\ i \in DOMAIN t
  <2>1. /\ s \in Seq(Block) /\ Distinct(s) /\ i \in DOMAIN s /\ x \notin ToSet(s) \ {s[i]}
        /\ S = ToSet(s) /\ b = s[i]
    BY <1>0, <1>1, <1>2, <1>3
  <2>2. /\ t \in Seq(Block) /\ Len(t) = Len(s) /\ t[i] = x
        /\ ToSet(t) = (ToSet(s) \ {s[i]}) \cup {x} /\ Distinct(t)
    BY <1>2, <2>1, WrittenSet
  <2>3. DOMAIN t = DOMAIN s
    BY <1>2
  <2> QED BY <2>1, <2>2, <2>3
<1>5. g.blocks = t /\ g.page = pg /\ g.fault = h.fault /\ g \in Heap
  <2>1. g = [h EXCEPT !.blocks = t]
    BY <1>0, <1>2 DEF Put
  <2> QED BY <1>1, <1>2, <1>4, <2>1 DEF Heap
<1>6. Good(g)
  BY <1>3, <1>4, <1>5 DEF Good
<1> QED BY <1>0, <1>2, <1>3, <1>4, <1>5, <1>6 DEF Replaced

\* Block i becomes the caller's.
Taken(h, i) == [h EXCEPT !.blocks[i].state = USED]

LEMMA TakenGood ==
  ASSUME NEW h, Good(h), h.fault = "none", NEW i \in DOMAIN h.blocks,
         NEW b, b = h.blocks[i], b.state = FREE,
         \A c \in ToSet(h.blocks) : c = b \/ LeanBlock(c), NEW g, g = Taken(h, i)
  PROVE  /\ Good(g) /\ g.fault = "none" /\ g.page = h.page /\ Lean(ToSet(g.blocks))
         /\ \E x \in ToSet(g.blocks) :
              /\ x.state = USED /\ x.size = b.size
              /\ UsedIn(ToSet(g.blocks)) = UsedIn(ToSet(h.blocks)) \cup {x}
              /\ x \notin UsedIn(ToSet(h.blocks))
<1>1. h \in Heap /\ b \in Block /\ b \in ToSet(h.blocks) /\ h.page \in [Page -> PageStates]
  BY GoodFacts
<1>2. PICK x \in Block :
        /\ x.state = USED /\ x.addr = h.blocks[i].addr /\ x.size = h.blocks[i].size
        /\ g = Put(h, i, x)
  <2>1. b.addr \in 0 .. AddrSpace - 1 /\ b.size \in 0 .. AddrSpace - 1
    BY <1>1 DEF Block
  <2>2. [b EXCEPT !.state = USED] = [addr |-> b.addr, size |-> b.size, state |-> USED]
    BY <1>1 DEF Block
  <2>3. [b EXCEPT !.state = USED] \in Block
    BY <2>1, <2>2 DEF Block
  <2>4. g = Put(h, i, [b EXCEPT !.state = USED])
    BY DEF Taken, Put
  <2> QED BY <2>2, <2>3, <2>4
<1>3. x # b
  BY <1>2 DEF FREE, USED
<1>5. /\ Good(g) /\ g.fault = h.fault /\ g.page = h.page
      /\ ToSet(g.blocks) = Replaced(ToSet(h.blocks), b, x)
      /\ x \notin ToSet(h.blocks) \ {b}
  BY <1>2, PutGood
<1>6. Lean(ToSet(g.blocks))
  BY <1>2, <1>5 DEF Lean, LeanBlock, Replaced, FREE, USED
<1> QED BY <1>1, <1>2, <1>3, <1>5, <1>6 DEF UsedIn, Replaced, FREE, USED

\* The end of kmalloc: what is left over of the block is split off.
LEMMA ReadyGood ==
  ASSUME NEW h, Good(h), h.fault = "none", NEW i \in DOMAIN h.blocks,
         NEW b, b = h.blocks[i], b.state = FREE, NEW size \in Nat, size <= b.size,
         \A c \in ToSet(h.blocks) : c = b \/ LeanBlock(c),
         LeanBlock(b) \/ b.size < size + PAGE_SIZE,
         NEW r, r = IF b.size > size + HSIZE THEN memory_split(h, i, size) ELSE h,
         NEW g, g = Taken(r, i)
  PROVE  /\ r.fault = "none"
         /\ Good(g) /\ g.fault = "none" /\ g.page = h.page /\ Lean(ToSet(g.blocks))
         /\ \E x \in ToSet(g.blocks) :
              /\ x.state = USED /\ size <= x.size
              /\ UsedIn(ToSet(g.blocks)) = UsedIn(ToSet(h.blocks)) \cup {x}
              /\ x \notin UsedIn(ToSet(h.blocks))
<1>1. /\ b \in Block /\ b.addr \in Nat /\ b.size \in Nat /\ BlockEnd(b) \in Nat
      /\ BlockEnd(b) = b.addr + HSIZE + b.size /\ PAGE_SIZE \in Nat /\ HSIZE \in Nat /\ HSIZE > 0
  BY GoodFacts, BlockFacts, Positive
<1>2. CASE b.size > size + HSIZE
  <2>1. r = memory_split(h, i, size) /\ b.size > HSIZE /\ size + HSIZE <= b.size
    BY <1>1, <1>2
  <2> DEFINE y == r.blocks[i + 1]
             x == r.blocks[i]
  <2>2. /\ Good(r) /\ r.fault = h.fault /\ r.page = h.page
        /\ i \in DOMAIN r.blocks
        /\ x = [b EXCEPT !.size = size]
        /\ y = [addr |-> b.addr + HSIZE + size, size |-> b.size - size - HSIZE, state |-> FREE]
        /\ ToSet(r.blocks) = (ToSet(h.blocks) \ {b}) \cup {x, y}
    BY <2>1, SplitGood
  <2>3. /\ x.state = FREE /\ x.size = size /\ y.state = FREE
        /\ y.addr = b.addr + HSIZE + size /\ BlockEnd(y) = BlockEnd(b)
    <3>1. /\ x.size = size /\ x.state = FREE /\ y.addr = b.addr + HSIZE + size
          /\ y.size = b.size - size - HSIZE /\ y.state = FREE
      BY <1>1, <2>2 DEF Block
    <3> HIDE DEF x, y
    <3>2. BlockEnd(y) = b.addr + HSIZE + size + HSIZE + (b.size - size - HSIZE)
      BY <3>1 DEF BlockEnd
    <3> QED BY <1>1, <3>1, <3>2
  <2> HIDE DEF x, y
  <2>4. LeanBlock(y)
    <3> SUFFICES ASSUME BlockEnd(b) < AddrSpace, NEW k \in Page, Covers(y, k) PROVE FALSE
      BY <2>3 DEF LeanBlock
    <3>1. /\ PageStart(k) \in Nat /\ PageStart(k + 1) = PageStart(k) + PAGE_SIZE
          /\ b.addr + HSIZE + size <= PageStart(k) /\ PageStart(k + 1) <= BlockEnd(b)
      BY <2>3, PageFacts DEF Covers
    <3>2. CASE LeanBlock(b)
      <4>1. Covers(b, k)
        BY <1>1, <3>1 DEF Covers
      <4> QED BY <3>2, <4>1 DEF LeanBlock
    <3>3. CASE b.size < size + PAGE_SIZE
      BY <1>1, <3>1, <3>3
    <3> QED BY <3>2, <3>3
  <2>5. \A c \in ToSet(r.blocks) : c = x \/ LeanBlock(c)
    BY <2>2, <2>4
  <2>6. UsedIn(ToSet(r.blocks)) = UsedIn(ToSet(h.blocks))
    BY <2>2, <2>3 DEF UsedIn, FREE, USED
  <2>7. /\ Good(g) /\ g.fault = "none" /\ g.page = r.page /\ Lean(ToSet(g.blocks))
        /\ \E z \in ToSet(g.blocks) :
             /\ z.state = USED /\ z.size = x.size
             /\ UsedIn(ToSet(g.blocks)) = UsedIn(ToSet(r.blocks)) \cup {z}
             /\ z \notin UsedIn(ToSet(r.blocks))
    <3>1. PICK c : c = x
      OBVIOUS
    <3>2. c = r.blocks[i] /\ c.state = FREE /\ \A d \in ToSet(r.blocks) : d = c \/ LeanBlock(d)
      BY <2>3, <2>5, <3>1 DEF x
    <3>3. Good(r) /\ r.fault = "none" /\ i \in DOMAIN r.blocks
      BY <2>2
    <3> QED BY <3>1, <3>2, <3>3, TakenGood
  <2> QED BY <2>2, <2>3, <2>6, <2>7
<1>3. CASE ~(b.size > size + HSIZE)
  <2>1. r = h
    BY <1>3
  <2>2. /\ Good(g) /\ g.fault = "none" /\ g.page = h.page /\ Lean(ToSet(g.blocks))
        /\ \E z \in ToSet(g.blocks) :
             /\ z.state = USED /\ z.size = b.size
             /\ UsedIn(ToSet(g.blocks)) = UsedIn(ToSet(h.blocks)) \cup {z}
             /\ z \notin UsedIn(ToSet(h.blocks))
    BY <2>1, TakenGood
  <2> QED BY <2>1, <2>2
<1> QED BY <1>2, <1>3

\* A call that gets its memory: one USED block more, large enough, and new.
Obtains(h, g, size) ==
  \E x \in ToSet(g.blocks) :
    /\ x.state = USED /\ size <= x.size
    /\ UsedIn(ToSet(g.blocks)) = UsedIn(ToSet(h.blocks)) \cup {x}
    /\ x \notin UsedIn(ToSet(h.blocks))

LEMMA MallocGood ==
  ASSUME NEW h, Good(h), h.fault = "none", Lean(ToSet(h.blocks)),
         NEW size \in Nat, size + HSIZE < AddrSpace, NEW g, g = Malloc(h, size)
  PROVE  /\ Good(g) /\ SameArena(h.page, g.page)
         /\ \/ g.fault = "panic" /\ g.blocks = h.blocks
            \/ g.fault = "none" /\ Lean(ToSet(g.blocks)) /\ Obtains(h, g, size)
<1> DEFINE fits == Fits(h.blocks, size)
           grown == IF fits = {} THEN get_pages(h, size) ELSE h
           i == IF fits = {} THEN Len(grown.blocks) ELSE Min(fits)
           ready == IF grown.blocks[i].size > size + HSIZE
                    THEN memory_split(grown, i, size) ELSE grown
<1>1. g = IF grown.fault # "none" THEN grown
          ELSE IF ready.fault # "none" THEN ready ELSE Taken(ready, i)
  BY DEF Malloc, Taken
<1>2. ASSUME Good(grown), grown.fault = "none", i \in DOMAIN grown.blocks,
             grown.blocks[i].state = FREE, size <= grown.blocks[i].size,
             \A c \in ToSet(grown.blocks) : c = grown.blocks[i] \/ LeanBlock(c),
             LeanBlock(grown.blocks[i]) \/ grown.blocks[i].size < size + PAGE_SIZE
      PROVE  /\ Good(g) /\ g.page = grown.page /\ g.fault = "none"
             /\ Lean(ToSet(g.blocks)) /\ Obtains(grown, g, size)
  <2>1. PICK w, r, b : w = grown /\ r = ready /\ b = w.blocks[i]
    OBVIOUS
  <2>2. PICK j : j = i
    OBVIOUS
  <2>3. PICK f : f = Taken(r, j)
    OBVIOUS
  <2>4. r = IF b.size > size + HSIZE THEN memory_split(w, j, size) ELSE w
    BY <2>1, <2>2
  <2>5. g = IF r.fault # "none" THEN r ELSE f
    BY <1>1, <1>2, <2>1, <2>2, <2>3
  <2>6. /\ Good(w) /\ w.fault = "none" /\ j \in DOMAIN w.blocks /\ b = w.blocks[j]
        /\ b.state = FREE /\ size <= b.size /\ w.page = grown.page
        /\ \A c \in ToSet(w.blocks) : c = b \/ LeanBlock(c)
        /\ LeanBlock(b) \/ b.size < size + PAGE_SIZE
    BY <1>2, <2>1, <2>2
  <2> HIDE DEF grown, ready, i
  <2>7. /\ r.fault = "none"
        /\ Good(f) /\ f.fault = "none" /\ f.page = w.page /\ Lean(ToSet(f.blocks))
        /\ Obtains(w, f, size)
    BY <2>3, <2>4, <2>6, ReadyGood DEF Obtains
  <2> QED BY <2>1, <2>5, <2>6, <2>7
<1>3. CASE fits # {}
  <2>1. fits \in SUBSET Nat
    BY DEF Fits
  <2>2. Min(fits) \in fits
    BY <1>3, <2>1, SmallestNumber
  <2>3. grown = h /\ i = Min(fits)
    BY <1>3
  <2>4. i \in DOMAIN h.blocks /\ h.blocks[i].state = FREE /\ size <= h.blocks[i].size
    <3>1. i \in Fits(h.blocks, size)
      BY <2>2, <2>3
    <3> HIDE DEF i
    <3>2. DOMAIN h.blocks = 1 .. Len(h.blocks) /\ h.blocks[i] \in Block
      BY <3>1, GoodFacts DEF Fits
    <3>3. h.blocks[i].size \in Nat
      BY <3>2, BlockFacts
    <3> QED BY <3>1, <3>2, <3>3 DEF Fits
  <2>5. h.blocks[i] \in ToSet(h.blocks)
    BY <2>4, GoodFacts
  <2>6. /\ Good(g) /\ g.page = h.page /\ g.fault = "none"
        /\ Lean(ToSet(g.blocks)) /\ Obtains(h, g, size)
    <3> HIDE DEF fits, i
    <3>1. Good(grown) /\ grown.fault = "none" /\ i \in DOMAIN grown.blocks
          /\ grown.blocks[i].state = FREE /\ size <= grown.blocks[i].size
          /\ (\A c \in ToSet(grown.blocks) : c = grown.blocks[i] \/ LeanBlock(c))
          /\ LeanBlock(grown.blocks[i])
      BY <2>3, <2>4, <2>5 DEF Lean
    <3> HIDE DEF grown
    <3> QED BY <1>2, <2>3, <3>1
  <2> QED BY <2>6 DEF SameArena
<1>4. CASE fits = {}
  <2>1. grown = get_pages(h, size) /\ i = Len(grown.blocks)
    BY <1>4
  <2> HIDE DEF fits, grown, ready
  <2>2. PICK w, n : w = grown /\ n = Len(w.blocks)
    OBVIOUS
  <2>3. /\ Good(w) /\ SameArena(h.page, w.page)
        /\ \/ w.fault = "panic" /\ w.blocks = h.blocks
           \/ w.fault = h.fault /\ Claimed(h, w, n, size)
    <3>1. w = get_pages(h, size)
      BY <2>1, <2>2
    <3> HIDE DEF i
    <3> QED BY <2>2, <3>1, GetPagesGood
  <2>4. CASE w.fault = "panic"
    <3>1. g = w
      BY <1>1, <2>2, <2>4
    <3> QED BY <2>3, <2>4, <3>1
  <2>5. CASE w.fault # "panic"
    <3>1. i = n
      BY <2>1, <2>2
    <3> HIDE DEF i
    <3>2. /\ Good(g) /\ g.page = w.page /\ g.fault = "none"
          /\ Lean(ToSet(g.blocks)) /\ Obtains(w, g, size)
      BY <1>2, <2>2, <2>3, <2>5, <3>1 DEF Lean, Claimed
    <3>3. UsedIn(ToSet(w.blocks)) = UsedIn(ToSet(h.blocks))
      BY <2>3, <2>5 DEF UsedIn, Claimed, FREE, USED
    <3> QED BY <2>3, <3>2, <3>3 DEF Obtains
  <2> QED BY <2>4, <2>5
<1> QED BY <1>3, <1>4

-----------------------------------------------------------------------------
(***************************************************************************)
(* kfree and krealloc.                                                     *)
(***************************************************************************)
LEMMA MergeNextGood ==
  ASSUME NEW bs, NEW pg, Sound(bs, pg), NEW i \in DOMAIN bs, bs[i].state = FREE,
         NEW t, t = MergeNext(bs, i)
  PROVE  Sound(t, pg) /\ Merges(bs, t, i)
<1>1. CASE Mergeable(bs, i)
  BY <1>1, MergeGood DEF MergeNext
<1>2. CASE ~Mergeable(bs, i)
  <2>1. t = bs
    BY <1>2 DEF MergeNext
  <2> QED BY <2>1 DEF Merges
<1> QED BY <1>1, <1>2

JoinsPrevious(bs, i) == i > 1 /\ Mergeable(bs, i - 1)

\* Both merges of kfree: block k of the result is the only new one.
LEMMA MergesGood ==
  ASSUME NEW bs, NEW pg, Sound(bs, pg), NEW i \in DOMAIN bs, bs[i].state = FREE,
         NEW after, after = MergeNext(bs, i),
         NEW t, t = IF JoinsPrevious(after, i) THEN memory_merge(after, i - 1) ELSE after,
         NEW k, k = IF JoinsPrevious(after, i) THEN i - 1 ELSE i
  PROVE  /\ Sound(t, pg) /\ k \in DOMAIN t /\ t[k].state = FREE
         /\ \A c \in ToSet(t) : c = t[k] \/ c \in ToSet(bs) \ {bs[i]}
         /\ UsedIn(ToSet(t)) = UsedIn(ToSet(bs))
<1>1. Sound(after, pg) /\ Merges(bs, after, i)
  BY MergeNextGood
<1>2. CASE ~JoinsPrevious(after, i)
  BY <1>1, <1>2 DEF Merges
<1>3. CASE JoinsPrevious(after, i)
  <2>1. i \in Nat /\ i > 1 /\ Mergeable(after, i - 1) /\ k = i - 1 /\ t = memory_merge(after, k)
    BY <1>3 DEF Sound, JoinsPrevious
  <2>2. k \in DOMAIN after /\ k + 1 = i /\ Mergeable(after, k)
    BY <1>1, <2>1 DEF Sound, Mergeable
  <2>3. Sound(t, pg) /\ Merges(after, t, k) /\ after[i] \notin ToSet(t)
    BY <1>1, <2>1, <2>2, MergeGood
  <2> QED BY <1>1, <2>3 DEF Merges
<1> QED BY <1>2, <1>3

\* A call that frees block b: it is no longer the caller's, and all others are.
Frees(h, g, b) == UsedIn(ToSet(g.blocks)) = UsedIn(ToSet(h.blocks)) \ {b}

LEMMA FreeGood ==
  ASSUME NEW h, Good(h), h.fault = "none", Lean(ToSet(h.blocks)),
         NEW i \in DOMAIN h.blocks, h.blocks[i].state = USED, NEW g, g = FreeBlock(h, i)
  PROVE  /\ Good(g) /\ SameArena(h.page, g.page) /\ g.fault \in {"none", "wild", "top"}
         /\ g.fault = "none" => Lean(ToSet(g.blocks))
         /\ Frees(h, g, h.blocks[i])
<1>1. PICK b, freed, after, merged, k :
        /\ b = h.blocks[i]
        /\ freed = [h.blocks EXCEPT ![i].state = FREE]
        /\ after = MergeNext(freed, i)
        /\ merged = IF JoinsPrevious(after, i) THEN memory_merge(after, i - 1) ELSE after
        /\ k = IF JoinsPrevious(after, i) THEN i - 1 ELSE i
  OBVIOUS
<1>2. g = free_pages([h EXCEPT !.blocks = merged], k)
  BY <1>1 DEF FreeBlock, JoinsPrevious, FREE, USED
<1>3. /\ h \in Heap /\ b \in Block /\ b \in ToSet(h.blocks) /\ b.state = USED
      /\ h.page \in [Page -> PageStates]
  BY <1>1, GoodFacts
<1>4. PICK x \in Block :
        /\ x.state = FREE /\ x.addr = h.blocks[i].addr /\ x.size = h.blocks[i].size
        /\ freed = Put(h, i, x).blocks
  <2>1. b.addr \in 0 .. AddrSpace - 1 /\ b.size \in 0 .. AddrSpace - 1
    BY <1>3 DEF Block
  <2>2. [b EXCEPT !.state = FREE] = [addr |-> b.addr, size |-> b.size, state |-> FREE]
    BY <1>3 DEF Block
  <2>3. [b EXCEPT !.state = FREE] \in Block
    BY <2>1, <2>2 DEF Block
  <2>4. freed = Put(h, i, [b EXCEPT !.state = FREE]).blocks
    BY <1>1, <1>3 DEF Put, Heap
  <2> QED BY <1>1, <2>2, <2>3, <2>4
<1>5. PICK p : p = Put(h, i, x)
  OBVIOUS
<1>6. /\ Good(p) /\ p.page = h.page /\ p.blocks = freed
      /\ i \in DOMAIN freed /\ freed[i] = x
      /\ ToSet(freed) = Replaced(ToSet(h.blocks), h.blocks[i], x)
  BY <1>4, <1>5, PutGood
<1>7. Sound(freed, h.page)
  BY <1>6 DEF Good, Heap, Sound
<1>8. /\ Sound(merged, h.page) /\ k \in DOMAIN merged /\ merged[k].state = FREE
      /\ \A c \in ToSet(merged) : c = merged[k] \/ c \in ToSet(freed) \ {x}
      /\ UsedIn(ToSet(merged)) = UsedIn(ToSet(freed))
  <2>1. PICK pg : pg = h.page
    OBVIOUS
  <2>2. /\ Sound(freed, pg) /\ i \in DOMAIN freed /\ freed[i].state = FREE
        /\ after = MergeNext(freed, i)
        /\ merged = IF JoinsPrevious(after, i) THEN memory_merge(after, i - 1) ELSE after
        /\ k = IF JoinsPrevious(after, i) THEN i - 1 ELSE i
    BY <1>1, <1>4, <1>6, <1>7, <2>1
  <2>3. /\ Sound(merged, pg) /\ k \in DOMAIN merged /\ merged[k].state = FREE
        /\ \A c \in ToSet(merged) : c = merged[k] \/ c \in ToSet(freed) \ {freed[i]}
        /\ UsedIn(ToSet(merged)) = UsedIn(ToSet(freed))
    BY <2>2, MergesGood
  <2> QED BY <1>6, <2>1, <2>3
<1>9. PICK w : w = [h EXCEPT !.blocks = merged]
  OBVIOUS
<1>10. w.blocks = merged /\ w.page = h.page /\ w.fault = "none" /\ w \in Heap
  BY <1>3, <1>8, <1>9 DEF Heap, Sound
<1>11. Good(w)
  BY <1>8, <1>10 DEF Good, Sound
<1>12. \A c \in ToSet(merged) : c = merged[k] \/ LeanBlock(c)
  BY <1>6, <1>8 DEF Replaced, Lean
<1>13. UsedIn(ToSet(merged)) = UsedIn(ToSet(h.blocks)) \ {b}
  BY <1>1, <1>4, <1>6, <1>8 DEF UsedIn, Replaced, FREE, USED
<1>14. /\ Good(g) /\ g.fault \in {"none", "wild", "top"}
       /\ UsedIn(ToSet(g.blocks)) = UsedIn(ToSet(w.blocks))
       /\ SameArena(w.page, g.page)
       /\ g.fault = "none" => Lean(ToSet(g.blocks))
  <2>1. PICK c : c = w.blocks[k]
    OBVIOUS
  <2>2. c.state = FREE /\ k \in DOMAIN w.blocks /\ \A d \in ToSet(w.blocks) : d = c \/ LeanBlock(d)
    BY <1>8, <1>10, <1>12, <2>1
  <2>3. g = free_pages(w, k)
    BY <1>2, <1>9
  <2> QED BY <1>10, <1>11, <2>1, <2>2, <2>3, FreePagesGood
<1> QED BY <1>1, <1>10, <1>13, <1>14 DEF Frees

\* No two listed blocks have the same address.
LEMMA SameAddress ==
  ASSUME NEW h, Good(h), NEW b \in ToSet(h.blocks), NEW c \in ToSet(h.blocks), b.addr = c.addr
  PROVE  b = c
<1>1. PICK S : S = ToSet(h.blocks)
  OBVIOUS
<1>2. b \in Block /\ c \in Block /\ (b # c => BlockEnd(b) <= c.addr \/ BlockEnd(c) <= b.addr)
  BY <1>1, GoodFacts DEF Laid, Separate
<1> QED BY <1>2, BlockFacts

\* The memory a caller gets was nobody's, and the heap may use it.
NewBlock(h, x) ==
  /\ x \in Block /\ BlockEnd(x) <= AddrSpace
  /\ \A l \in UsedIn(ToSet(h.blocks)) : BlockEnd(x) <= l.addr \/ BlockEnd(l) <= x.addr
  /\ \A k \in Page : Touches(x, k) => h.page[k] \in {PAGE_FREE, PAGE_USED}

LEMMA ObtainsNew ==
  ASSUME NEW h, NEW g, Good(h), Good(g), SameArena(h.page, g.page),
         NEW x \in ToSet(g.blocks),
         UsedIn(ToSet(g.blocks)) = UsedIn(ToSet(h.blocks)) \cup {x},
         x \notin UsedIn(ToSet(h.blocks))
  PROVE  NewBlock(h, x)
<1>1. PICK S, pg : S = ToSet(g.blocks) /\ pg = g.page
  OBVIOUS
<1>2. Laid(S, pg) /\ x \in S
  BY <1>1, GoodFacts
<1>3. x \in Block /\ BlockEnd(x) <= AddrSpace
  BY <1>2 DEF Laid, Inside
<1>4. ASSUME NEW l \in UsedIn(ToSet(h.blocks)) PROVE BlockEnd(x) <= l.addr \/ BlockEnd(l) <= x.addr
  <2>1. l \in S /\ l # x
    BY <1>1 DEF UsedIn
  <2> QED BY <1>2, <2>1 DEF Laid, Separate
<1>5. ASSUME NEW k \in Page, Touches(x, k) PROVE h.page[k] \in {PAGE_FREE, PAGE_USED}
  <2>1. g.page[k] = PAGE_USED
    BY <1>1, <1>2, <1>5 DEF Laid, Paged
  <2> QED BY <2>1 DEF SameArena
<1> QED BY <1>3, <1>4, <1>5 DEF NewBlock

\* A call that moves block old to new memory.
MovesTo(h, g, old, x) ==
  /\ x.state = USED /\ NewBlock(h, x) /\ x \notin UsedIn(ToSet(h.blocks))
  /\ UsedIn(ToSet(g.blocks)) = (UsedIn(ToSet(h.blocks)) \ {old}) \cup {x}

LEMMA ReallocGood ==
  ASSUME NEW h, Good(h), h.fault = "none", Lean(ToSet(h.blocks)),
         NEW i \in DOMAIN h.blocks, NEW old, old = h.blocks[i], old.state = USED,
         NEW size \in Nat, size + HSIZE < AddrSpace, NEW g, g = Realloc(h, i, size)
  PROVE  /\ Good(g) /\ SameArena(h.page, g.page) /\ g.fault # "null"
         /\ g.fault = "none" => Lean(ToSet(g.blocks))
         /\ \/ g.blocks = h.blocks
            \/ \E x : MovesTo(h, g, old, x)
<1>1. PICK got, j : got = Malloc(h, size) /\ j = PositionOf(got.blocks, old.addr)
  OBVIOUS
<1>2. /\ g = h \/ (g = got /\ got.fault # "none") \/ (g = FreeBlock(got, j) /\ got.fault = "none")
  BY <1>1 DEF Realloc
<1>3. /\ Good(got) /\ SameArena(h.page, got.page)
      /\ \/ got.fault = "panic" /\ got.blocks = h.blocks
         \/ got.fault = "none" /\ Lean(ToSet(got.blocks)) /\ Obtains(h, got, size)
  BY <1>1, MallocGood
<1>4. CASE g = h
  BY <1>4 DEF SameArena
<1>5. CASE g = got /\ got.fault # "none"
  BY <1>3, <1>5
<1>6. CASE g = FreeBlock(got, j) /\ got.fault = "none"
  <2>1. Lean(ToSet(got.blocks)) /\ Obtains(h, got, size)
    BY <1>3, <1>6
  <2>2. PICK x \in ToSet(got.blocks) :
          /\ x.state = USED /\ size <= x.size
          /\ UsedIn(ToSet(got.blocks)) = UsedIn(ToSet(h.blocks)) \cup {x}
          /\ x \notin UsedIn(ToSet(h.blocks))
    BY <2>1 DEF Obtains
  <2>3. old \in UsedIn(ToSet(h.blocks)) /\ old \in ToSet(got.blocks) /\ old # x
    <3>1. old \in UsedIn(ToSet(h.blocks))
      BY GoodFacts DEF UsedIn
    <3> QED BY <2>2, <3>1 DEF UsedIn
  <2>4. PICK k \in DOMAIN got.blocks : old = got.blocks[k]
    BY <1>3, <2>3, GoodFacts, Indices
  <2>5. j \in DOMAIN got.blocks /\ got.blocks[j].addr = old.addr
    <3>1. k \in 1 .. Len(got.blocks) /\ DOMAIN got.blocks = 1 .. Len(got.blocks)
      BY <1>3, <2>4, GoodFacts
    <3>2. \E m \in 1 .. Len(got.blocks) : got.blocks[m].addr = old.addr
      BY <2>4, <3>1
    <3> QED BY <1>1, <3>1, <3>2 DEF PositionOf
  <2>6. got.blocks[j] = old
    <3>1. got.blocks[j] \in ToSet(got.blocks)
      BY <1>3, <2>5, GoodFacts
    <3> QED BY <1>3, <2>3, <2>5, <3>1, SameAddress
  <2>7. /\ Good(g) /\ SameArena(got.page, g.page) /\ g.fault \in {"none", "wild", "top"}
        /\ g.fault = "none" => Lean(ToSet(g.blocks))
        /\ Frees(got, g, got.blocks[j])
    BY <1>3, <1>6, <2>1, <2>5, <2>6, FreeGood
  <2>8. UsedIn(ToSet(g.blocks)) = (UsedIn(ToSet(h.blocks)) \ {old}) \cup {x}
    BY <2>2, <2>3, <2>6, <2>7 DEF Frees
  <2>9. NewBlock(h, x)
    BY <1>3, <2>2, ObtainsNew
  <2>10. SameArena(h.page, g.page)
    BY <1>3, <2>7 DEF SameArena
  <2>11. MovesTo(h, g, old, x)
    BY <2>2, <2>8, <2>9 DEF MovesTo
  <2> QED BY <2>7, <2>10, <2>11
<1> QED BY <1>2, <1>4, <1>5, <1>6

-----------------------------------------------------------------------------
(***************************************************************************)
(* The state machine: IInv holds at first and every call keeps it.         *)
(***************************************************************************)
LEMMA InitTableNotUsed ==
  ASSUME NEW m, NEW pg, pg = InitialTable([i \in Page |-> PAGE_FREE], m), NEW k \in Page
  PROVE  pg[k] # PAGE_USED
  BY DEF InitialTable, page_set_range, SetPages, PAGE_FREE, PAGE_USED, PAGE_SYS, PAGE_NONE

LEMMA IInvInit == Init => IInv
<1> SUFFICES ASSUME Init PROVE IInv
  OBVIOUS
<1>1. PICK m \in MemoryMaps : page = InitialTable([i \in Page |-> PAGE_FREE], m)
  BY DEF Init
<1>2. blocks = <<>> /\ fault = "none" /\ blocks \in Seq(Block) /\ DOMAIN blocks = {}
  BY DEF Init
<1>3. page \in [Page -> PageStates]
  <2>1. [i \in Page |-> PAGE_FREE] \in [Page -> PageStates]
    BY DEF PageStates
  <2> QED BY <1>1, <2>1, InitialTableType
<1>4. ToSet(blocks) = {} /\ Distinct(blocks)
  BY <1>2 DEF ToSet, Distinct
<1>5. Laid({}, page)
  BY <1>1, <1>3, InitTableNotUsed DEF Laid, Separate, Inside, Followed, Paged
<1>6. Good(State)
  BY <1>2, <1>3, <1>4, <1>5 DEF Good, State, Heap, Faults
<1> QED BY <1>2, <1>4, <1>6 DEF IInv, Lean, NeverNull

LEMMA StateFacts ==
  /\ State.blocks = blocks /\ State.page = page /\ State.fault = fault
  /\ State'.blocks = blocks' /\ State'.page = page' /\ State'.fault = fault'
  BY DEF State

LEMMA BecomesGood ==
  ASSUME NEW g, Good(g), g.fault # "null", g.fault = "none" => Lean(ToSet(g.blocks)), Becomes(g)
  PROVE  IInv' /\ blocks' = g.blocks /\ page' = g.page /\ fault' = g.fault
<1>1. blocks' = g.blocks /\ page' = g.page /\ fault' = g.fault
  BY DEF Becomes
<1>2. g = [blocks |-> g.blocks, page |-> g.page, fault |-> g.fault]
  BY DEF Good, Heap
<1>3. State' = g
  BY <1>1, <1>2 DEF State
<1>4. Good(State')
  BY <1>3
<1> QED BY <1>1, <1>4 DEF IInv, NeverNull, Good, Lean, LeanBlock, Laid, Separate, Inside, Followed, Paged, Distinct

\* Block by block, what a step does to what the callers hold.
Gets(x) ==
  /\ x.state = USED /\ NewBlock(State, x) /\ x \notin UsedIn(ToSet(blocks))
  /\ x \in UsedIn(ToSet(blocks'))

StepAlloc(x) == Gets(x) /\ UsedIn(ToSet(blocks')) = UsedIn(ToSet(blocks)) \cup {x}
StepFree(b)  == UsedIn(ToSet(blocks')) = UsedIn(ToSet(blocks)) \ {b}
StepMove(b, x) == Gets(x) /\ UsedIn(ToSet(blocks')) = (UsedIn(ToSet(blocks)) \ {b}) \cup {x}

LEMMA MallocStep ==
  ASSUME IInv, NEW size \in Sizes, kmalloc(size)
  PROVE  /\ IInv' /\ SameArena(page, page')
         /\ \/ fault' # "none" /\ blocks' = blocks
            \/ \E x : StepAlloc(x) /\ size <= x.size
<1>1. PICK h, g : h = State /\ g = Malloc(h, size)
  OBVIOUS
<1>2. /\ Good(h) /\ h.fault = "none" /\ Lean(ToSet(h.blocks)) /\ Becomes(g)
      /\ h.blocks = blocks /\ h.page = page
  BY <1>1, StateFacts DEF IInv, kmalloc
<1>3. size \in Nat /\ size + HSIZE < AddrSpace
  BY HeapConstants
<1>4. /\ Good(g) /\ SameArena(h.page, g.page)
      /\ \/ g.fault = "panic" /\ g.blocks = h.blocks
         \/ g.fault = "none" /\ Lean(ToSet(g.blocks)) /\ Obtains(h, g, size)
  BY <1>1, <1>2, <1>3, MallocGood
<1>5. IInv' /\ blocks' = g.blocks /\ page' = g.page /\ fault' = g.fault
  BY <1>2, <1>4, BecomesGood
<1>6. CASE g.fault = "panic"
  BY <1>2, <1>4, <1>5, <1>6
<1>7. CASE g.fault # "panic"
  <2>1. PICK x \in ToSet(g.blocks) :
          /\ x.state = USED /\ size <= x.size
          /\ UsedIn(ToSet(g.blocks)) = UsedIn(ToSet(h.blocks)) \cup {x}
          /\ x \notin UsedIn(ToSet(h.blocks))
    BY <1>4, <1>7 DEF Obtains
  <2>2. NewBlock(h, x)
    BY <1>2, <1>4, <2>1, ObtainsNew
  <2>3. StepAlloc(x)
    BY <1>1, <1>2, <1>5, <2>1, <2>2 DEF StepAlloc, Gets
  <2> QED BY <1>2, <1>4, <1>5, <2>1, <2>3
<1> QED BY <1>6, <1>7

LEMMA FreeStep ==
  ASSUME IInv, NEW i \in 1 .. Len(blocks), kfree(i)
  PROVE  /\ IInv' /\ SameArena(page, page')
         /\ \/ blocks' = blocks
            \/ \E b \in UsedIn(ToSet(blocks)) : StepFree(b)
<1>1. PICK h, g : h = State /\ g = FreeBlock(h, i)
  OBVIOUS
<1>2. /\ Good(h) /\ h.fault = "none" /\ Lean(ToSet(h.blocks)) /\ Becomes(g)
      /\ h.blocks = blocks /\ h.page = page
  BY <1>1, StateFacts DEF IInv, kfree
<1>3. i \in DOMAIN h.blocks /\ h.blocks[i] \in ToSet(h.blocks)
  BY <1>2, GoodFacts
<1>4. CASE h.blocks[i].state = USED
  <2>1. /\ Good(g) /\ SameArena(h.page, g.page) /\ g.fault \in {"none", "wild", "top"}
        /\ g.fault = "none" => Lean(ToSet(g.blocks))
        /\ Frees(h, g, h.blocks[i])
    BY <1>1, <1>2, <1>3, <1>4, FreeGood
  <2>2. IInv' /\ blocks' = g.blocks /\ page' = g.page
    BY <1>2, <2>1, BecomesGood
  <2>3. StepFree(h.blocks[i]) /\ h.blocks[i] \in UsedIn(ToSet(blocks))
    BY <1>2, <1>3, <1>4, <2>1, <2>2 DEF StepFree, Frees, UsedIn
  <2> QED BY <1>2, <2>1, <2>2, <2>3
<1>5. CASE h.blocks[i].state # USED
  <2>1. g = h
    BY <1>1, <1>5 DEF FreeBlock
  <2>2. IInv' /\ blocks' = g.blocks /\ page' = g.page
    BY <1>2, <2>1, BecomesGood
  <2> QED BY <1>2, <2>1, <2>2 DEF SameArena
<1> QED BY <1>4, <1>5

LEMMA ReallocStep ==
  ASSUME IInv, NEW i \in 1 .. Len(blocks), NEW size \in Sizes, krealloc(i, size)
  PROVE  /\ IInv' /\ SameArena(page, page')
         /\ \/ blocks' = blocks
            \/ \E b \in UsedIn(ToSet(blocks)) : \E x : StepMove(b, x)
<1>1. PICK h, g, old : h = State /\ g = Realloc(h, i, size) /\ old = h.blocks[i]
  OBVIOUS
<1>2. /\ Good(h) /\ h.fault = "none" /\ Lean(ToSet(h.blocks)) /\ Becomes(g)
      /\ h.blocks = blocks /\ h.page = page /\ old.state = USED
  BY <1>1, StateFacts DEF IInv, krealloc
<1>3. i \in DOMAIN h.blocks /\ old \in UsedIn(ToSet(h.blocks))
  BY <1>1, <1>2, GoodFacts DEF UsedIn
<1>4. size \in Nat /\ size + HSIZE < AddrSpace
  BY HeapConstants
<1>5. /\ Good(g) /\ SameArena(h.page, g.page) /\ g.fault # "null"
      /\ g.fault = "none" => Lean(ToSet(g.blocks))
      /\ \/ g.blocks = h.blocks
         \/ \E x : MovesTo(h, g, old, x)
  BY <1>1, <1>2, <1>3, <1>4, ReallocGood
<1>6. IInv' /\ blocks' = g.blocks /\ page' = g.page
  BY <1>2, <1>5, BecomesGood
<1>7. ASSUME NEW x, MovesTo(h, g, old, x)
      PROVE  StepMove(old, x)
  BY <1>1, <1>2, <1>6, <1>7 DEF MovesTo, StepMove, Gets
<1> QED BY <1>2, <1>3, <1>5, <1>6, <1>7

LEMMA UnchangedStep == IInv /\ UNCHANGED vars => IInv' /\ SameArena(page, page') /\ blocks' = blocks
  BY DEF IInv, vars, State, Good, NeverNull, Lean, LeanBlock, Laid, Separate, Inside,
         Followed, Paged, Distinct, SameArena

LEMMA NextStep ==
  ASSUME IInv, [Next]_vars
  PROVE  /\ IInv' /\ SameArena(page, page')
         /\ \/ blocks' = blocks
            \/ \E x : StepAlloc(x)
            \/ \E b \in UsedIn(ToSet(blocks)) : StepFree(b)
            \/ \E b \in UsedIn(ToSet(blocks)) : \E x : StepMove(b, x)
<1>1. CASE UNCHANGED vars
  BY <1>1, UnchangedStep
<1>2. ASSUME NEW size \in Sizes, kmalloc(size)
      PROVE  /\ IInv' /\ SameArena(page, page')
             /\ blocks' = blocks \/ \E x : StepAlloc(x)
  BY <1>2, MallocStep
<1>3. ASSUME NEW i \in 1 .. Len(blocks), kfree(i)
      PROVE  /\ IInv' /\ SameArena(page, page')
             /\ blocks' = blocks \/ \E b \in UsedIn(ToSet(blocks)) : StepFree(b)
  BY <1>3, FreeStep
<1>4. ASSUME NEW i \in 1 .. Len(blocks), NEW size \in Sizes, krealloc(i, size)
      PROVE  /\ IInv' /\ SameArena(page, page')
             /\ blocks' = blocks \/ \E b \in UsedIn(ToSet(blocks)) : \E x : StepMove(b, x)
  BY <1>4, ReallocStep
<1> QED BY <1>1, <1>2, <1>3, <1>4 DEF Next

LEMMA HeapInvariant == Spec => []IInv
<1>1. IInv /\ [Next]_vars => IInv'
  BY NextStep
<1> QED BY <1>1, IInvInit, PTL DEF Spec

-----------------------------------------------------------------------------
(***************************************************************************)
(* What the invariant says in the terms of Heap.                           *)
(***************************************************************************)
LEMMA Listed ==
  ASSUME IInv
  PROVE  /\ blocks \in Seq(Block) /\ Distinct(blocks) /\ Laid(ToSet(blocks), page)
         /\ DOMAIN blocks = Positions
         /\ \A i \in Positions : blocks[i] \in ToSet(blocks) /\ blocks[i] \in Block
         /\ \A b \in ToSet(blocks) : b \in Block /\ \E i \in Positions : b = blocks[i]
<1>1. PICK h : h = State
  OBVIOUS
<1>2. Good(h) /\ h.blocks = blocks /\ h.page = page
  BY <1>1, StateFacts DEF IInv
<1>3. /\ blocks \in Seq(Block) /\ Distinct(blocks) /\ Laid(ToSet(blocks), page)
      /\ DOMAIN blocks = 1 .. Len(blocks)
  BY <1>2, GoodFacts
<1>4. ToSet(blocks) \subseteq Block
  BY <1>3 DEF Laid
<1>5. /\ \A i \in DOMAIN blocks : blocks[i] \in ToSet(blocks)
      /\ \A b \in ToSet(blocks) : \E i \in DOMAIN blocks : b = blocks[i]
  BY <1>3, Indices
<1> QED BY <1>3, <1>4, <1>5 DEF Positions

\* The page of an address.
LEMMA PageOf ==
  ASSUME NEW a \in Nat, NEW k \in Nat
  PROVE  /\ a \div PAGE_SIZE <= k <=> a < PageStart(k + 1)
         /\ k <= a \div PAGE_SIZE <=> PageStart(k) <= a
<1> DEFINE d == a \div PAGE_SIZE
<1>1. /\ PAGE_SIZE \in Nat \ {0} /\ d \in Nat /\ PageStart(d) <= a /\ a < PageStart(d + 1)
  BY Positive, DivFacts DEF PageStart
<1> HIDE DEF d
<1>2. d + 1 \in Nat /\ k + 1 \in Nat
  BY <1>1
<1>3. /\ PageStart(d) \in Nat /\ PageStart(d + 1) \in Nat
      /\ PageStart(k) \in Nat /\ PageStart(k + 1) \in Nat
  BY <1>1, <1>2, PageStarts
<1>4. (d <= k => PageStart(d + 1) <= PageStart(k + 1)) /\ (k <= d => PageStart(k) <= PageStart(d))
  <2>1. d <= k => d + 1 <= k + 1
    BY <1>1
  <2> QED BY <1>1, <1>2, <2>1, PageStarts
<1>5. (PageStart(d) < PageStart(k + 1) => d < k + 1) /\ (PageStart(k) < PageStart(d + 1) => k < d + 1)
  BY <1>1, <1>2, PageStarts
<1>6. d <= k => a < PageStart(k + 1)
  BY <1>1, <1>3, <1>4
<1>7. a < PageStart(k + 1) => d <= k
  BY <1>1, <1>3, <1>5
<1>8. k <= d => PageStart(k) <= a
  BY <1>1, <1>3, <1>4
<1>9. PageStart(k) <= a => k <= d
  BY <1>1, <1>3, <1>5
<1> QED BY <1>6, <1>7, <1>8, <1>9 DEF d

LEMMA InvTypes == IInv => TypeOK
  BY DEF IInv, Good, Heap, State, TypeOK

LEMMA InvDisjoint == IInv => Disjoint
<1> SUFFICES ASSUME IInv, NEW i \in Positions, NEW j \in Positions, i # j
             PROVE  BlockBytes(blocks[i]) \cap BlockBytes(blocks[j]) = {}
  BY DEF Disjoint
<1>1. PICK b, c : b = blocks[i] /\ c = blocks[j]
  OBVIOUS
<1>2. /\ b \in ToSet(blocks) /\ c \in ToSet(blocks) /\ b # c /\ b \in Block /\ c \in Block
  BY <1>1, Listed DEF Distinct
<1>3. BlockEnd(b) <= c.addr \/ BlockEnd(c) <= b.addr
  BY <1>2, Listed DEF Laid, Separate
<1>4. /\ b.addr \in Nat /\ c.addr \in Nat /\ BlockEnd(b) \in Nat /\ BlockEnd(c) \in Nat
  BY <1>2, BlockFacts
<1>5. BlockBytes(b) \cap BlockBytes(c) = {}
  BY <1>3, <1>4 DEF BlockBytes
<1> QED BY <1>1, <1>5

LEMMA UnderTouches ==
  ASSUME NEW b \in Block, BlockEnd(b) <= AddrSpace, NEW k
  PROVE  k \in PagesUnder(b) <=> k \in Page /\ Touches(b, k)
<1>1. /\ b.addr \in Nat /\ BlockEnd(b) \in Nat /\ b.addr < BlockEnd(b) /\ BlockEnd(b) - 1 \in Nat
  BY BlockFacts
<1>2. PICK e : e = BlockEnd(b) - 1
  OBVIOUS
<1>3. e \in Nat /\ BlockEnd(b) = e + 1 /\ e < AddrSpace
  BY <1>1, <1>2, Positive
<1>4. b.addr \div PAGE_SIZE \in Nat /\ e \div PAGE_SIZE \in Nat /\ PAGE_COUNT \in Nat
  BY <1>1, <1>3, Positive, DivFacts
<1>5. PagesUnder(b) = b.addr \div PAGE_SIZE .. e \div PAGE_SIZE
  BY <1>2 DEF PagesUnder
<1>6. ASSUME NEW l \in Nat PROVE l \in PagesUnder(b) <=> Touches(b, l)
  <2>1. /\ b.addr \div PAGE_SIZE <= l <=> b.addr < PageStart(l + 1)
        /\ l <= e \div PAGE_SIZE <=> PageStart(l) <= e
    BY <1>1, <1>3, PageOf
  <2>2. PageStart(l) \in Nat
    BY PageStarts
  <2>3. PageStart(l) <= e <=> PageStart(l) < BlockEnd(b)
    BY <1>3, <2>2
  <2> QED BY <1>4, <1>5, <2>1, <2>3 DEF Touches
<1>7. k \in PagesUnder(b) => k \in Nat
  BY <1>4, <1>5
<1>8. k \in Page => k \in Nat
  BY DEF Page
<1>9. ASSUME k \in Nat, Touches(b, k) PROVE k \in Page
  <2>1. PageStart(k) < PageStart(PAGE_COUNT)
    <3>1. PageStart(k) \in Nat /\ PageStart(PAGE_COUNT) = AddrSpace /\ AddrSpace \in Nat
      BY <1>9, PageStarts, Positive
    <3> QED BY <1>1, <1>9, <3>1 DEF Touches
  <2>2. k < PAGE_COUNT
    BY <1>4, <1>9, <2>1, PageStarts
  <2> QED BY <1>4, <1>9, <2>2 DEF Page
<1> QED BY <1>6, <1>7, <1>8, <1>9

LEMMA InvBacked == IInv => Backed
<1> SUFFICES ASSUME IInv
             PROVE  {k \in Page : page[k] = PAGE_USED} = UNION {PagesUnder(blocks[i]) : i \in Positions}
  BY DEF Backed
<1>1. ASSUME NEW i \in Positions, NEW k
      PROVE  k \in PagesUnder(blocks[i]) <=> k \in Page /\ Touches(blocks[i], k)
  <2>1. blocks[i] \in Block /\ BlockEnd(blocks[i]) <= AddrSpace
    BY Listed DEF Laid, Inside
  <2> QED BY <2>1, UnderTouches
<1>2. ASSUME NEW k \in Page, page[k] = PAGE_USED
      PROVE  \E i \in Positions : k \in PagesUnder(blocks[i])
  <2>1. PICK b \in ToSet(blocks) : Touches(b, k)
    BY <1>2, Listed DEF Laid, Paged
  <2>2. PICK i \in Positions : b = blocks[i]
    BY Listed
  <2> QED BY <1>1, <2>1, <2>2
<1>3. ASSUME NEW i \in Positions, NEW k \in PagesUnder(blocks[i])
      PROVE  k \in Page /\ page[k] = PAGE_USED
  <2>1. k \in Page /\ Touches(blocks[i], k) /\ blocks[i] \in ToSet(blocks)
    BY <1>1, Listed
  <2> QED BY <2>1, Listed DEF Laid, Paged
<1> QED BY <1>2, <1>3

LEMMA InvNoWholeFreePage == IInv => NoWholeFreePage
<1> SUFFICES ASSUME IInv, fault = "none", NEW i \in Positions, blocks[i].state = FREE,
                    BlockEnd(blocks[i]) < AddrSpace, NEW k \in Page,
                    k * PAGE_SIZE .. (k + 1) * PAGE_SIZE - 1 \subseteq BlockBytes(blocks[i])
             PROVE  FALSE
  BY DEF NoWholeFreePage
<1>1. PICK b : b = blocks[i]
  OBVIOUS
<1>2. /\ b \in Block /\ b \in ToSet(blocks) /\ b.state = FREE /\ BlockEnd(b) < AddrSpace
      /\ PageStart(k) .. PageStart(k + 1) - 1 \subseteq BlockBytes(b)
  BY <1>1, Listed DEF PageStart
<1>3. ~Covers(b, k)
  BY <1>2 DEF IInv, Lean, LeanBlock
<1>4. /\ PageStart(k) \in Nat /\ PageStart(k + 1) \in Nat /\ PageStart(k) < PageStart(k + 1)
      /\ b.addr \in Nat /\ BlockEnd(b) \in Nat
  BY <1>2, PageFacts, BlockFacts
<1>5. PageStart(k) \in BlockBytes(b) /\ PageStart(k + 1) - 1 \in BlockBytes(b)
  <2>1. /\ PageStart(k) \in PageStart(k) .. PageStart(k + 1) - 1
        /\ PageStart(k + 1) - 1 \in PageStart(k) .. PageStart(k + 1) - 1
    BY <1>4
  <2> QED BY <1>2, <2>1
<1> QED BY <1>3, <1>4, <1>5 DEF BlockBytes, Covers

(***************************************************************************)
(* Blocks stay blocks of the address space and pages keep a legal state,   *)
(* whatever is split, merged, claimed and given back.                      *)
(***************************************************************************)
THEOREM HeapTypeCorrect == Spec => []TypeOK
  BY HeapInvariant, InvTypes, PTL

(***************************************************************************)
(* No two blocks of heap.c's list overlap, headers included: what one      *)
(* caller writes into its memory never reaches a header or the memory of   *)
(* another caller.                                                         *)
(***************************************************************************)
THEOREM BlocksDisjoint == Spec => []Disjoint
  BY HeapInvariant, InvDisjoint, PTL

(***************************************************************************)
(* The heap and the page table agree: the USED pages are those the listed  *)
(* blocks lie in, not one more and not one less, also after free_pages has *)
(* given back the middle of what once was claimed.                         *)
(***************************************************************************)
THEOREM PagesBacked == Spec => []Backed
  BY HeapInvariant, InvBacked, PTL

(***************************************************************************)
(* kfree gives back every whole page it can: a FREE block never covers one *)
(* (but for a block at the very top, where block_end wraps).               *)
(***************************************************************************)
THEOREM NoPageKept == Spec => []NoWholeFreePage
  BY HeapInvariant, InvNoWholeFreePage, PTL

(***************************************************************************)
(* memory_split never answers NULL to kmalloc or free_pages, which both    *)
(* use its answer unchecked.                                               *)
(***************************************************************************)
THEOREM SplitNeverNull == Spec => []NeverNull
<1>1. IInv => NeverNull
  BY DEF IInv
<1> QED BY <1>1, HeapInvariant, PTL

-----------------------------------------------------------------------------
(***************************************************************************)
(* What callers see: the heap implements Allocator.                        *)
(***************************************************************************)
ExtentOf(b) == [addr |-> b.addr + HSIZE, size |-> b.size]

LiveOf(U) == {ExtentOf(b) : b \in U}

LEMMA LiveIs ==
  ASSUME NEW s, NEW S, s \in Seq(S)
  PROVE  {[addr |-> b.addr + HSIZE, size |-> b.size] :
            b \in {s[i] : i \in {j \in 1 .. Len(s) : s[j].state = USED}}} = LiveOf(UsedIn(ToSet(s)))
<1>1. {s[i] : i \in {j \in 1 .. Len(s) : s[j].state = USED}} = UsedIn(ToSet(s))
  BY DEF ToSet, UsedIn
<1> QED BY <1>1 DEF LiveOf, ExtentOf

LEMMA LiveNow == IInv => Live = LiveOf(UsedIn(ToSet(blocks)))
  BY Listed, LiveIs DEF Live, Positions

LEMMA LiveNext == IInv' => Live' = LiveOf(UsedIn(ToSet(blocks')))
<1> SUFFICES ASSUME IInv' PROVE Live' = LiveOf(UsedIn(ToSet(blocks')))
  OBVIOUS
<1>1. blocks' \in Seq(Block)
  BY DEF IInv, Good, Heap, State
<1> QED BY <1>1, LiveIs DEF Live, Positions

LEMMA ArenaSame == SameArena(page, page') => Arena' = Arena
<1> SUFFICES ASSUME SameArena(page, page') PROVE Arena' = Arena
  OBVIOUS
<1>1. ASSUME NEW a \in 0 .. AddrSpace - 1 PROVE a \div PAGE_SIZE \in Page
  <2>1. a \in Nat /\ a < PAGE_COUNT * PAGE_SIZE /\ PAGE_COUNT \in Nat /\ PAGE_SIZE \in Nat \ {0}
    BY Positive DEF AddrSpace
  <2>2. a \div PAGE_SIZE \in Nat /\ (a \div PAGE_SIZE) * PAGE_SIZE <= a
    BY <2>1, DivFacts
  <2>3. (a \div PAGE_SIZE) * PAGE_SIZE < PAGE_COUNT * PAGE_SIZE
    BY <2>1, <2>2
  <2>4. a \div PAGE_SIZE < PAGE_COUNT
    BY <2>1, <2>2, <2>3, MulLess
  <2> QED BY <2>1, <2>2, <2>4 DEF Page
<1>2. \A a \in 0 .. AddrSpace - 1 :
        page'[a \div PAGE_SIZE] \in {PAGE_FREE, PAGE_USED} <=> page[a \div PAGE_SIZE] \in {PAGE_FREE, PAGE_USED}
  BY <1>1 DEF SameArena
<1> QED BY <1>2 DEF Arena

\* An extent names its block.
LEMMA ExtentInjective ==
  ASSUME IInv, NEW b \in ToSet(blocks), NEW c \in ToSet(blocks), ExtentOf(b) = ExtentOf(c)
  PROVE  b = c
<1>1. PICK h : h = State
  OBVIOUS
<1>2. Good(h) /\ h.blocks = blocks
  BY <1>1, StateFacts DEF IInv
<1>3. b \in Block /\ c \in Block
  BY Listed
<1>4. b.addr + HSIZE = c.addr + HSIZE
  BY DEF ExtentOf
<1>5. b.addr = c.addr
  BY <1>3, <1>4, BlockFacts, Positive
<1> QED BY <1>2, <1>5, SameAddress

\* What a caller gets is fresh in the sense of Allocator.
LEMMA GetsFresh ==
  ASSUME IInv, IInv', NEW x, Gets(x)
  PROVE  A!Fresh(ExtentOf(x)) /\ ExtentOf(x) \in Live' \ Live
<1> DEFINE e == ExtentOf(x)
<1>1. x \in Block /\ BlockEnd(x) <= AddrSpace
  BY DEF Gets, NewBlock
<1>2. /\ x.addr \in Nat /\ x.size \in Nat /\ BlockEnd(x) \in Nat /\ HSIZE \in Nat /\ HSIZE > 0
      /\ BlockEnd(x) = x.addr + HSIZE + x.size /\ AddrSpace \in Nat
      /\ e.addr = x.addr + HSIZE /\ e.size = x.size
  BY <1>1, BlockFacts, Positive DEF ExtentOf
<1>3. Live = LiveOf(UsedIn(ToSet(blocks))) /\ Live' = LiveOf(UsedIn(ToSet(blocks')))
  BY LiveNow, LiveNext
<1> HIDE DEF e
<1>4. ASSUME NEW l \in Live
      PROVE  e.addr # l.addr /\ A!ExtentBytes(e) \cap A!ExtentBytes(l) = {}
  <2>1. PICK b \in UsedIn(ToSet(blocks)) : l = ExtentOf(b)
    BY <1>3, <1>4 DEF LiveOf
  <2>2. b \in Block /\ (BlockEnd(x) <= b.addr \/ BlockEnd(b) <= x.addr)
    <3>1. b \in ToSet(blocks)
      BY DEF UsedIn
    <3> QED BY <3>1, Listed, StateFacts DEF Gets, NewBlock
  <2>3. /\ b.addr \in Nat /\ b.size \in Nat /\ BlockEnd(b) = b.addr + HSIZE + b.size
        /\ l.addr = b.addr + HSIZE /\ l.size = b.size
    BY <2>1, <2>2, BlockFacts DEF ExtentOf
  <2> QED BY <1>2, <2>2, <2>3 DEF A!ExtentBytes
<1>5. A!ExtentBytes(e) \subseteq Arena
  <2> SUFFICES ASSUME NEW a \in A!ExtentBytes(e) PROVE a \in Arena
    OBVIOUS
  <2>1. a \in Nat /\ x.addr <= a /\ a < BlockEnd(x) /\ a \in 0 .. AddrSpace - 1
    BY <1>1, <1>2 DEF A!ExtentBytes
  <2>2. PICK k : k = a \div PAGE_SIZE
    OBVIOUS
  <2>3. k \in Nat /\ PageStart(k) \in Nat /\ PageStart(k + 1) \in Nat
        /\ PageStart(k) <= a /\ a < PageStart(k + 1)
    <3>1. k \in Nat /\ PageStart(k) <= a /\ a < PageStart(k + 1)
      BY <2>1, <2>2, DivFacts, Positive DEF PageStart
    <3>2. k + 1 \in Nat
      BY <3>1
    <3> QED BY <3>1, <3>2, PageStarts
  <2>4. Touches(x, k)
    BY <1>2, <2>1, <2>3 DEF Touches
  <2>5. k \in Page
    <3>1. PageStart(k) < PageStart(PAGE_COUNT) /\ PAGE_COUNT \in Nat
      BY <1>2, <2>1, <2>3, PageStarts, Positive
    <3>2. k < PAGE_COUNT
      BY <2>3, <3>1, PageStarts
    <3> QED BY <2>3, <3>1, <3>2 DEF Page
  <2>6. page[k] \in {PAGE_FREE, PAGE_USED}
    BY <2>4, <2>5, StateFacts DEF Gets, NewBlock
  <2> QED BY <2>1, <2>2, <2>6 DEF Arena
<1>6. e \in Live'
  BY <1>3 DEF Gets, LiveOf, e
<1>7. e \notin Live
  BY <1>4
<1>8. A!Fresh(e)
  BY <1>4, <1>5 DEF A!Fresh
<1> QED BY <1>6, <1>7, <1>8 DEF e

LEMMA AllocImplements ==
  ASSUME IInv, IInv', NEW x, StepAlloc(x)
  PROVE  A!Alloc
<1>1. A!Fresh(ExtentOf(x)) /\ ExtentOf(x) \in Live' \ Live
  BY GetsFresh DEF StepAlloc
<1>2. Live' = Live \cup {ExtentOf(x)}
  BY LiveNow, LiveNext DEF StepAlloc, LiveOf
<1> QED BY <1>1, <1>2 DEF A!Alloc, A!Obtained

LEMMA FreeImplements ==
  ASSUME IInv, IInv', NEW b \in UsedIn(ToSet(blocks)), StepFree(b)
  PROVE  A!Free
<1>1. \A c \in UsedIn(ToSet(blocks)) : ExtentOf(b) = ExtentOf(c) => b = c
  BY ExtentInjective DEF UsedIn
<1>2. Live' = Live \ {ExtentOf(b)} /\ ExtentOf(b) \in Live
  BY <1>1, LiveNow, LiveNext DEF StepFree, LiveOf
<1> QED BY <1>2 DEF A!Free

LEMMA MoveImplements ==
  ASSUME IInv, IInv', NEW b \in UsedIn(ToSet(blocks)), NEW x, StepMove(b, x)
  PROVE  A!Move
<1>1. \A c \in UsedIn(ToSet(blocks)) : ExtentOf(b) = ExtentOf(c) => b = c
  BY ExtentInjective DEF UsedIn
<1>2. A!Fresh(ExtentOf(x)) /\ ExtentOf(x) \in Live' \ Live
  BY GetsFresh DEF StepMove
<1>3. Live' = (Live \ {ExtentOf(b)}) \cup {ExtentOf(x)} /\ ExtentOf(b) \in Live
  BY <1>1, LiveNow, LiveNext DEF StepMove, LiveOf
<1> QED BY <1>2, <1>3 DEF A!Move, A!Obtained

LEMMA NextImplements ==
  ASSUME IInv, [Next]_vars
  PROVE  [A!Next]_A!allocVars
<1>1. IInv' /\ Arena' = Arena
  BY NextStep, ArenaSame
<1>2. CASE blocks' = blocks
  <2>1. Live' = Live
    BY <1>1, <1>2, LiveNow, LiveNext
  <2> QED BY <1>1, <2>1 DEF A!allocVars
<1>3. ASSUME NEW x, StepAlloc(x) PROVE A!Next
  BY <1>1, <1>3, AllocImplements DEF A!Next
<1>4. ASSUME NEW b \in UsedIn(ToSet(blocks)), StepFree(b) PROVE A!Next
  BY <1>1, <1>4, FreeImplements DEF A!Next
<1>5. ASSUME NEW b \in UsedIn(ToSet(blocks)), NEW x, StepMove(b, x) PROVE A!Next
  BY <1>1, <1>5, MoveImplements DEF A!Next
<1> QED BY <1>2, <1>3, <1>4, <1>5, NextStep

(***************************************************************************)
(* The heap implements Allocator, with the memory behind the headers of    *)
(* its USED blocks for live and the bytes outside the kernel's and the     *)
(* reserved pages for arena: every kmalloc and krealloc that succeeds      *)
(* hands out memory nobody holds, from where the heap may take it, and no  *)
(* call disturbs what another caller holds.  A panic changes nothing a     *)
(* caller sees.                                                            *)
(***************************************************************************)
THEOREM HeapAllocates == Spec => AllocatorSpec
<1>1. Init => A!Init
  <2> SUFFICES ASSUME Init PROVE Live = {} /\ Arena \in SUBSET Nat
    BY DEF A!Init
  <2>1. blocks = <<>>
    BY DEF Init
  <2>2. Live = {}
    BY <2>1 DEF Live, Positions
  <2>3. Arena \in SUBSET Nat
    BY Positive DEF Arena
  <2> QED BY <2>2, <2>3
<1>2. IInv /\ [Next]_vars => [A!Next]_A!allocVars
  BY NextImplements
<1> QED BY <1>1, <1>2, HeapInvariant, PTL DEF Spec, AllocatorSpec, A!Spec

(***************************************************************************)
(* The memory that a kmalloc which does not fail leaves its caller with is *)
(* as large as was asked for, whether the block was found, split or newly  *)
(* claimed.                                                                *)
(***************************************************************************)
THEOREM MallocSufficient == Spec => Sufficient
<1> DEFINE Enough == \A n \in Sizes :
                       kmalloc(n) /\ fault' = "none" => \E e \in Live' \ Live : e.size >= n
<1>1. IInv /\ [Next]_vars => [Enough]_vars
  <2> SUFFICES ASSUME IInv, [Next]_vars, NEW n \in Sizes, kmalloc(n), fault' = "none", vars' # vars
               PROVE  \E e \in Live' \ Live : e.size >= n
    OBVIOUS
  <2>1. IInv' /\ \E x : StepAlloc(x) /\ n <= x.size
    BY MallocStep
  <2>2. PICK x : StepAlloc(x) /\ n <= x.size
    BY <2>1
  <2>3. ExtentOf(x) \in Live' \ Live
    BY <2>1, <2>2, GetsFresh DEF StepAlloc
  <2>4. ExtentOf(x).size = x.size
    BY DEF ExtentOf
  <2>5. n \in Nat /\ x.size \in Nat
    <3>1. x \in Block
      BY <2>2 DEF StepAlloc, Gets, NewBlock
    <3> QED BY <3>1, HeapConstants, BlockFacts
  <2> QED BY <2>2, <2>3, <2>4, <2>5
<1> QED BY <1>1, HeapInvariant, PTL DEF Spec, Sufficient

===============================================================================
