--------------------------- MODULE PageMapProofs ---------------------------
(***************************************************************************)
(* The packed table implements the table of Pages, for every number of     *)
(* pages that fills its bytes.  The arithmetic is in PackedWrite: writing  *)
(* one part of a byte leaves the other three as they are.  Lifted to a     *)
(* whole byte and then to the table it gives UnpackedSet: to set a range   *)
(* in the packed table and to read it back is to set it in the table.      *)
(***************************************************************************)
EXTENDS PageMap, TLAPS

Byte == 0 .. 255
Parts == 0 .. 3

LEMMA States == PageStates = 0 .. 3
  BY DEF PageStates, PAGE_FREE, PAGE_USED, PAGE_SYS, PAGE_NONE

\* A byte as its four parts.
LEMMA Digits ==
  ASSUME NEW b \in Byte
  PROVE  \E x, y, z, w \in Parts : b = 64 * x + 16 * y + 4 * z + w
<1> DEFINE x == b \div 64
           y == (b \div 16) % 4
           z == (b \div 4) % 4
           w == b % 4
<1>1. x \in Parts /\ y \in Parts /\ z \in Parts /\ w \in Parts
  BY DEF Byte, Parts
<1>2. b = 64 * x + 16 * y + 4 * z + w
  BY DEF Byte
<1> QED BY <1>1, <1>2

LEMMA ReadDigits ==
  ASSUME NEW x \in Parts, NEW y \in Parts, NEW z \in Parts, NEW w \in Parts
  PROVE  LET b == 64 * x + 16 * y + 4 * z + w
         IN /\ GetPart(b, 0) = x /\ GetPart(b, 1) = y
            /\ GetPart(b, 2) = z /\ GetPart(b, 3) = w
  BY DEF GetPart, Weight, Parts

LEMMA PackedWrite ==
  ASSUME NEW b \in Byte, NEW part \in Parts, NEW s \in Parts
  PROVE  /\ SetPart(b, part, s) \in Byte
         /\ \A q \in Parts : GetPart(SetPart(b, part, s), q) =
                               IF q = part THEN s ELSE GetPart(b, q)
<1>1. PICK x, y, z, w \in Parts : b = 64 * x + 16 * y + 4 * z + w
  BY Digits
<1>2. /\ GetPart(b, 0) = x /\ GetPart(b, 1) = y
      /\ GetPart(b, 2) = z /\ GetPart(b, 3) = w
  BY <1>1, ReadDigits
<1>3. CASE part = 0
  <2>1. SetPart(b, part, s) = 64 * s + 16 * y + 4 * z + w
    BY <1>1, <1>2, <1>3 DEF SetPart, Weight, Parts
  <2> QED BY <1>2, <1>3, <2>1, ReadDigits DEF Parts, Byte
<1>4. CASE part = 1
  <2>1. SetPart(b, part, s) = 64 * x + 16 * s + 4 * z + w
    BY <1>1, <1>2, <1>4 DEF SetPart, Weight, Parts
  <2> QED BY <1>2, <1>4, <2>1, ReadDigits DEF Parts, Byte
<1>5. CASE part = 2
  <2>1. SetPart(b, part, s) = 64 * x + 16 * y + 4 * s + w
    BY <1>1, <1>2, <1>5 DEF SetPart, Weight, Parts
  <2> QED BY <1>2, <1>5, <2>1, ReadDigits DEF Parts, Byte
<1>6. CASE part = 3
  <2>1. SetPart(b, part, s) = 64 * x + 16 * y + 4 * z + s
    BY <1>1, <1>2, <1>6 DEF SetPart, Weight, Parts
  <2> QED BY <1>2, <1>6, <2>1, ReadDigits DEF Parts, Byte
<1> QED BY <1>3, <1>4, <1>5, <1>6 DEF Parts

LEMMA ConditionalWrite ==
  ASSUME NEW v \in Byte, NEW b \in Nat, NEW part \in Parts, NEW R, NEW s \in Parts
  PROVE  /\ SetIf(v, b, part, R, s) \in Byte
         /\ \A q \in Parts : GetPart(SetIf(v, b, part, R, s), q) =
                IF q = part /\ PAGE_PER_STATUS_BYTE * b + part \in R
                THEN s ELSE GetPart(v, q)
  BY PackedWrite DEF SetIf

LEMMA ByteWrite ==
  ASSUME NEW v \in Byte, NEW b \in Nat, NEW R, NEW s \in Parts
  PROVE  /\ SetByte(v, b, R, s) \in Byte
         /\ \A q \in Parts : GetPart(SetByte(v, b, R, s), q) =
                IF PAGE_PER_STATUS_BYTE * b + q \in R THEN s ELSE GetPart(v, q)
<1> DEFINE w0 == SetIf(v, b, 0, R, s)
           w1 == SetIf(w0, b, 1, R, s)
           w2 == SetIf(w1, b, 2, R, s)
           w3 == SetIf(w2, b, 3, R, s)
<1>0. 0 \in Parts /\ 1 \in Parts /\ 2 \in Parts /\ 3 \in Parts
  BY DEF Parts
<1>1. /\ w0 \in Byte
      /\ \A q \in Parts : GetPart(w0, q) =
           IF q = 0 /\ PAGE_PER_STATUS_BYTE * b + 0 \in R THEN s ELSE GetPart(v, q)
  BY <1>0, ConditionalWrite
<1> HIDE DEF w0
<1>2. /\ w1 \in Byte
      /\ \A q \in Parts : GetPart(w1, q) =
           IF q = 1 /\ PAGE_PER_STATUS_BYTE * b + 1 \in R THEN s ELSE GetPart(w0, q)
  BY <1>0, <1>1, ConditionalWrite
<1> HIDE DEF w1
<1>3. /\ w2 \in Byte
      /\ \A q \in Parts : GetPart(w2, q) =
           IF q = 2 /\ PAGE_PER_STATUS_BYTE * b + 2 \in R THEN s ELSE GetPart(w1, q)
  BY <1>0, <1>2, ConditionalWrite
<1> HIDE DEF w2
<1>4. /\ w3 \in Byte
      /\ \A q \in Parts : GetPart(w3, q) =
           IF q = 3 /\ PAGE_PER_STATUS_BYTE * b + 3 \in R THEN s ELSE GetPart(w2, q)
  BY <1>0, <1>3, ConditionalWrite
<1> HIDE DEF w3
<1>5. SetByte(v, b, R, s) = w3
  BY DEF SetByte, w0, w1, w2, w3
<1>6. ASSUME NEW q \in Parts
      PROVE  GetPart(w3, q) =
               IF PAGE_PER_STATUS_BYTE * b + q \in R THEN s ELSE GetPart(v, q)
  <2>1. q = 0 \/ q = 1 \/ q = 2 \/ q = 3
    BY DEF Parts
  <2> QED BY <1>1, <1>2, <1>3, <1>4, <2>1
<1> QED BY <1>4, <1>5, <1>6

\* Where page i is kept.
LEMMA PageOfByte ==
  ASSUME NEW i \in Page
  PROVE  /\ i \div PAGE_PER_STATUS_BYTE \in Bytes
         /\ i % PAGE_PER_STATUS_BYTE \in Parts
         /\ PAGE_PER_STATUS_BYTE * (i \div PAGE_PER_STATUS_BYTE)
              + (i % PAGE_PER_STATUS_BYTE) = i
  BY PageConstants, PackedConstants DEF Page, Bytes, Parts, PAGE_PER_STATUS_BYTE

LEMMA PackedType ==
  ASSUME NEW mm \in [Bytes -> Byte], NEW R, NEW s \in Parts
  PROVE  SetPacked(mm, R, s) \in [Bytes -> Byte]
<1> SUFFICES ASSUME NEW b \in Bytes PROVE SetByte(mm[b], b, R, s) \in Byte
  BY DEF SetPacked
<1>1. b \in Nat
  BY DEF Bytes
<1> QED BY <1>1, ByteWrite

LEMMA UnpackedSet ==
  ASSUME NEW mm \in [Bytes -> Byte], NEW R, NEW s \in Parts
  PROVE  Unpacked(SetPacked(mm, R, s)) = SetPages(Unpacked(mm), R, s)
<1> SUFFICES ASSUME NEW i \in Page
             PROVE  page_get_at_index(SetPacked(mm, R, s), i) =
                      IF i \in R THEN s ELSE page_get_at_index(mm, i)
  BY DEF Unpacked, SetPages
<1> DEFINE b == i \div PAGE_PER_STATUS_BYTE
           q == i % PAGE_PER_STATUS_BYTE
<1>1. b \in Bytes /\ b \in Nat /\ q \in Parts /\ PAGE_PER_STATUS_BYTE * b + q = i
  <2>1. b \in Bytes /\ q \in Parts /\ PAGE_PER_STATUS_BYTE * b + q = i
    BY PageOfByte
  <2> HIDE DEF b, q
  <2> QED BY <2>1 DEF Bytes
<1>2. page_get_at_index(SetPacked(mm, R, s), i) = GetPart(SetByte(mm[b], b, R, s), q)
  BY <1>1 DEF page_get_at_index, SetPacked
<1>3. mm[b] \in Byte
  BY <1>1
<1> HIDE DEF b, q
<1>4. GetPart(SetByte(mm[b], b, R, s), q) =
        IF PAGE_PER_STATUS_BYTE * b + q \in R THEN s ELSE GetPart(mm[b], q)
  BY <1>1, <1>3, ByteWrite
<1>5. page_get_at_index(mm, i) = GetPart(mm[b], q)
  BY DEF page_get_at_index, b, q
<1> QED BY <1>1, <1>2, <1>4, <1>5

LEMMA UnpackedZero == Unpacked([b \in Bytes |-> 0]) = [i \in Page |-> PAGE_FREE]
<1> SUFFICES ASSUME NEW i \in Page
             PROVE  page_get_at_index([b \in Bytes |-> 0], i) = PAGE_FREE
  BY DEF Unpacked
<1>1. page_get_at_index([b \in Bytes |-> 0], i) = GetPart(0, i % PAGE_PER_STATUS_BYTE)
  BY PageOfByte DEF page_get_at_index
<1>2. \A q \in Parts : GetPart(0, q) = 0
  BY DEF GetPart, Weight, Parts
<1> QED BY <1>1, <1>2, PageOfByte DEF PAGE_FREE

-----------------------------------------------------------------------------
(***************************************************************************)
(* The step of every action, read through Unpacked.                        *)
(***************************************************************************)
MapTypeOK == memory_map \in [Bytes -> Byte]

\* Pages sees the same vocabulary through P.
LEMMA SameVocabulary ==
  /\ P!Page = Page /\ P!AddrSpace = AddrSpace
  /\ P!PAGE_FREE = PAGE_FREE /\ P!PAGE_USED = PAGE_USED
  /\ \A pg, m : P!InitialTable(pg, m) = InitialTable(pg, m)
  /\ \A pg, R, s : P!SetPages(pg, R, s) = SetPages(pg, R, s)
  /\ \A pg, a, n, s : P!page_set_range(pg, a, n, s) = page_set_range(pg, a, n, s)
  /\ \A pg, count : P!RunsOf(pg, count) = RunsOf(pg, count)
  /\ \A pg, count, i : P!IsFirstRun(pg, count, i) <=> IsFirstRun(pg, count, i)
<1>1. P!Page = Page /\ P!AddrSpace = AddrSpace
  BY DEF P!Page, Page, P!AddrSpace, AddrSpace
<1>2. /\ P!PAGE_FREE = PAGE_FREE /\ P!PAGE_USED = PAGE_USED
      /\ P!PAGE_SYS = PAGE_SYS /\ P!PAGE_NONE = PAGE_NONE
  BY DEF P!PAGE_FREE, PAGE_FREE, P!PAGE_USED, PAGE_USED,
         P!PAGE_SYS, PAGE_SYS, P!PAGE_NONE, PAGE_NONE
<1>3. \A pg, R, s : P!SetPages(pg, R, s) = SetPages(pg, R, s)
  BY <1>1 DEF P!SetPages, SetPages
<1>4. \A a, n : P!Region(a, n) = Region(a, n)
  BY <1>1 DEF P!Region, Region
<1>5. \A pg, a, n, s : P!page_set_range(pg, a, n, s) = page_set_range(pg, a, n, s)
  BY <1>3, <1>4 DEF P!page_set_range, page_set_range
<1>6. \A m : P!RegisteredPages(m) = RegisteredPages(m)
  BY <1>1, <1>4 DEF P!RegisteredPages, RegisteredPages, P!AVAILABLE, AVAILABLE
<1>7. \A pg, m : P!InitialTable(pg, m) = InitialTable(pg, m)
  BY <1>1, <1>2, <1>3, <1>5, <1>6 DEF P!InitialTable, InitialTable
<1>8. \A pg, count : P!RunsOf(pg, count) = RunsOf(pg, count)
  BY <1>1, <1>2 DEF P!RunsOf, RunsOf
<1>9. \A pg, count, i : P!IsFirstRun(pg, count, i) <=> IsFirstRun(pg, count, i)
  BY <1>8 DEF P!IsFirstRun, IsFirstRun
<1> QED BY <1>1, <1>2, <1>3, <1>5, <1>7, <1>8, <1>9

LEMMA BootMaps ==
  ASSUME MapTypeOK, paging_initialize
  PROVE  P!paging_initialize /\ MapTypeOK'
<1> DEFINE free == SetPacked(memory_map, Region(0, AddrSpace - 1), PAGE_FREE)
           sys  == SetPacked(free, Region(0, HEAP_START), PAGE_SYS)
           all  == SetPacked(sys, RegisteredPages(mmap), PAGE_NONE)
<1>0. PAGE_FREE \in Parts /\ PAGE_SYS \in Parts /\ PAGE_NONE \in Parts
  BY DEF Parts, PAGE_FREE, PAGE_SYS, PAGE_NONE
<1>1. /\ free \in [Bytes -> Byte]
      /\ Unpacked(free) = SetPages(Unpacked(memory_map), Region(0, AddrSpace - 1), PAGE_FREE)
  BY <1>0, PackedType, UnpackedSet DEF MapTypeOK
<1> HIDE DEF free
<1>2. /\ sys \in [Bytes -> Byte]
      /\ Unpacked(sys) = SetPages(Unpacked(free), Region(0, HEAP_START), PAGE_SYS)
  BY <1>0, <1>1, PackedType, UnpackedSet
<1> HIDE DEF sys
<1>3. /\ all \in [Bytes -> Byte]
      /\ Unpacked(all) = SetPages(Unpacked(sys), RegisteredPages(mmap), PAGE_NONE)
  BY <1>0, <1>2, PackedType, UnpackedSet
<1> HIDE DEF all
<1>4. memory_map' = all
  BY DEF paging_initialize, all, sys, free
<1>5. Unpacked(memory_map)' = InitialTable(Unpacked(memory_map), mmap)
  BY <1>1, <1>2, <1>3, <1>4 DEF InitialTable, page_set_range
<1> QED BY <1>3, <1>4, <1>5, SameVocabulary DEF paging_initialize, P!paging_initialize, MapTypeOK

LEMMA ClaimMaps ==
  ASSUME MapTypeOK, NEW count, page_claim(count)
  PROVE  P!page_claim(count) /\ MapTypeOK'
<1>0. PAGE_USED \in Parts
  BY DEF Parts, PAGE_USED
<1>1. PICK i \in Page :
        /\ IsFirstRun(Unpacked(memory_map), count, i)
        /\ memory_map' = SetPacked(memory_map, i .. i + count - 1, PAGE_USED)
        /\ held' = [k \in Page |-> IF k \in i .. i + count - 1
                                   THEN held[k] + 1 ELSE held[k]]
  BY DEF page_claim
<1>2. /\ memory_map' \in [Bytes -> Byte]
      /\ Unpacked(memory_map)' =
           SetPages(Unpacked(memory_map), i .. i + count - 1, PAGE_USED)
  BY <1>0, <1>1, PackedType, UnpackedSet DEF MapTypeOK
<1> QED BY <1>1, <1>2, SameVocabulary DEF page_claim, P!page_claim, MapTypeOK

LEMMA ReleaseMaps ==
  ASSUME MapTypeOK, NEW i, NEW len, release(i, len)
  PROVE  P!release(i, len) /\ MapTypeOK'
<1>0. PAGE_FREE \in Parts
  BY DEF Parts, PAGE_FREE
<1>1. /\ memory_map' \in [Bytes -> Byte]
      /\ Unpacked(memory_map)' =
           page_set_range(Unpacked(memory_map), i * PAGE_SIZE, len, PAGE_FREE)
  BY <1>0, PackedType, UnpackedSet DEF MapTypeOK, release, page_set_range
<1> QED BY <1>1, SameVocabulary DEF release, P!release, MapTypeOK

LEMMA StepMaps ==
  ASSUME MapTypeOK, [Next]_vars
  PROVE  [P!Next]_P!vars /\ MapTypeOK'
<1>1. CASE paging_initialize
  BY <1>1, BootMaps DEF P!Next
<1>2. ASSUME NEW count \in P!ClaimSizes, page_claim(count)
      PROVE  P!Next /\ MapTypeOK'
  BY <1>2, ClaimMaps DEF P!Next
<1>3. ASSUME NEW count \in P!ClaimSizes, page_claim_panic(count)
      PROVE  P!Next /\ MapTypeOK'
  <2>1. P!page_claim_panic(count)
    BY <1>3, SameVocabulary DEF page_claim_panic, P!page_claim_panic
  <2> QED BY <1>3, <2>1 DEF P!Next, MapTypeOK, page_claim_panic
<1>4. ASSUME NEW i \in Page, NEW len \in P!ReleaseSizes, release(i, len)
      PROVE  P!Next /\ MapTypeOK'
  BY <1>4, ReleaseMaps, SameVocabulary DEF P!Next
<1>5. CASE UNCHANGED vars
  BY <1>5 DEF vars, P!vars, MapTypeOK
<1> QED BY <1>1, <1>2, <1>3, <1>4, <1>5 DEF Next

LEMMA InitMaps == Init => P!Init /\ MapTypeOK
<1> SUFFICES ASSUME Init PROVE P!Init /\ MapTypeOK
  OBVIOUS
<1>1. MapTypeOK
  BY DEF Init, MapTypeOK, Byte
<1>2. Unpacked(memory_map) = [i \in Page |-> PAGE_FREE]
  BY UnpackedZero DEF Init
<1> QED BY <1>1, <1>2, SameVocabulary DEF Init, P!Init

(***************************************************************************)
(* Four pages to a byte behave as one entry per page: every step of the    *)
(* packed table is the same step of Pages.                                 *)
(***************************************************************************)
THEOREM PackedImplementsPages == Spec => PagesSpec
<1>1. Init => P!Init /\ MapTypeOK
  BY InitMaps
<1>2. MapTypeOK /\ [Next]_vars => [P!Next]_P!vars /\ MapTypeOK'
  BY StepMaps
<1> QED BY <1>1, <1>2, PTL DEF Spec, PagesSpec, P!Spec
-----------------------------------------------------------------------------
(***************************************************************************)
(* What PagesProofs proves of the table thus holds of the packed bytes     *)
(* too.  PP gives the proofs' lemmas for the unpacked table; it has its    *)
(* own copy of every definition of Pages, and the next lemmas identify     *)
(* the two copies.                                                         *)
(***************************************************************************)
PP == INSTANCE PagesProofs WITH page <- Unpacked(memory_map)

LEMMA SameInit == P!Init <=> PP!Init
  BY DEF P!Init, PP!Init, P!Page, PP!Page, P!PAGE_FREE, PP!PAGE_FREE

LEMMA SameBoot == P!paging_initialize <=> PP!paging_initialize
  BY DEF P!paging_initialize, PP!paging_initialize,
         P!AddrSpace, PP!AddrSpace, P!Page, PP!Page, P!PAGE_FREE, PP!PAGE_FREE,
         P!PAGE_SYS, PP!PAGE_SYS, P!PAGE_NONE, PP!PAGE_NONE, P!AVAILABLE, PP!AVAILABLE,
         P!Region, PP!Region, P!SetPages, PP!SetPages, P!page_set_range, PP!page_set_range,
         P!RegisteredPages, PP!RegisteredPages, P!InitialTable, PP!InitialTable

LEMMA SameClaim ==
  ASSUME NEW count
  PROVE  /\ P!page_claim(count) <=> PP!page_claim(count)
         /\ P!page_claim_panic(count) <=> PP!page_claim_panic(count)
  BY DEF P!page_claim, PP!page_claim, P!page_claim_panic, PP!page_claim_panic,
         P!Page, PP!Page, P!PAGE_FREE, PP!PAGE_FREE, P!PAGE_USED, PP!PAGE_USED,
         P!SetPages, PP!SetPages, P!RunsOf, PP!RunsOf, P!IsFirstRun, PP!IsFirstRun

LEMMA SameRelease ==
  ASSUME NEW i, NEW len
  PROVE  P!release(i, len) <=> PP!release(i, len)
  BY DEF P!release, PP!release,
         P!AddrSpace, PP!AddrSpace, P!Page, PP!Page, P!PAGE_FREE, PP!PAGE_FREE,
         P!Region, PP!Region, P!SetPages, PP!SetPages, P!page_set_range, PP!page_set_range,
         P!WholePages, PP!WholePages, P!TouchedPages, PP!TouchedPages

LEMMA SameNext == [P!Next]_P!vars => [PP!Next]_PP!vars
<1>1. /\ P!Page = PP!Page /\ P!ClaimSizes = PP!ClaimSizes
      /\ P!ReleaseSizes = PP!ReleaseSizes
  BY DEF P!Page, PP!Page, P!AddrSpace, PP!AddrSpace, P!ClaimSizes, PP!ClaimSizes,
         P!ReleaseSizes, PP!ReleaseSizes
<1>2. P!Next => PP!Next
  BY <1>1, SameBoot, SameClaim, SameRelease DEF P!Next, PP!Next
<1> QED BY <1>2 DEF P!vars, PP!vars

LEMMA SamePromises ==
  /\ PP!KernelReserved => KernelReserved
  /\ PP!RegisteredReserved => RegisteredReserved
  /\ PP!Exclusive => Exclusive
<1>1. PP!KernelReserved => KernelReserved
  BY DEF KernelReserved, P!KernelReserved, PP!KernelReserved, P!KernelPages,
         PP!KernelPages, P!PAGE_SYS, PP!PAGE_SYS, P!PAGE_NONE, PP!PAGE_NONE
<1>2. PP!RegisteredReserved => RegisteredReserved
  BY DEF RegisteredReserved, P!RegisteredReserved, PP!RegisteredReserved,
         P!EndsBelowTop, PP!EndsBelowTop, P!EndedPages, PP!EndedPages,
         P!Page, PP!Page, P!AddrSpace, PP!AddrSpace, P!AVAILABLE, PP!AVAILABLE,
         P!PAGE_NONE, PP!PAGE_NONE
<1>3. PP!Exclusive => Exclusive
  BY DEF Exclusive, P!Exclusive, PP!Exclusive, P!Page, PP!Page, P!PAGE_USED, PP!PAGE_USED
<1> QED BY <1>1, <1>2, <1>3

\* The instances of Pages' facts need the instance of its assumption.
LEMMA PagesFacts ==
  /\ PP!Init => PP!IInv
  /\ PP!IInv /\ [PP!Next]_PP!vars => PP!IInv'
<1>1. PP!PageConstants
  BY PageConstants DEF PP!PageConstants, PP!MmapEntry, MmapEntry, PP!MmapTypes, MmapTypes,
                       PP!AVAILABLE, AVAILABLE
<1>2. PP!Init => PP!IInv
  BY <1>1, PP!InitIInv
<1>3. PP!IInv /\ [PP!Next]_PP!vars => PP!IInv'
  BY <1>1, PP!NextIInv
<1> QED BY <1>2, <1>3

LEMMA PackedInvariant == Spec => [](MapTypeOK /\ PP!IInv)
<1>1. Init => MapTypeOK /\ PP!IInv
  BY InitMaps, SameInit, PagesFacts
<1>2. MapTypeOK /\ PP!IInv /\ [Next]_vars => (MapTypeOK /\ PP!IInv)'
  <2> SUFFICES ASSUME MapTypeOK, PP!IInv, [Next]_vars
               PROVE  MapTypeOK' /\ PP!IInv'
    OBVIOUS
  <2>1. MapTypeOK' /\ [P!Next]_P!vars
    BY StepMaps
  <2>2. [PP!Next]_PP!vars
    BY <2>1, SameNext
  <2>3. PP!IInv'
    BY <2>2, PagesFacts
  <2> QED BY <2>1, <2>3
<1> QED BY <1>1, <1>2, PTL DEF Spec

(***************************************************************************)
(* The bytes stay bytes, whatever is masked out of them and ORed into them,*)
(* and the ledger, the stage and the map keep their types.                 *)
(***************************************************************************)
THEOREM PackedTypeCorrect == Spec => []TypeOK
<1>1. MapTypeOK /\ PP!IInv => TypeOK
  BY DEF MapTypeOK, Byte, TypeOK, PP!IInv, PP!TypeOK, PP!Stages, Page, PP!Page
<1> QED BY <1>1, PackedInvariant, PTL

(***************************************************************************)
(* The packed table never lets the heap have the kernel's memory,          *)
(***************************************************************************)
THEOREM PackedKernelReserved == Spec => []KernelReserved
<1>1. PP!IInv => KernelReserved
  BY SamePromises DEF PP!IInv
<1> QED BY <1>1, PackedInvariant, PTL

(***************************************************************************)
(* nor a page that a registered region reaches the end of,                 *)
(***************************************************************************)
THEOREM PackedRegisteredReserved == Spec => []RegisteredReserved
<1>1. PP!IInv => RegisteredReserved
  BY SamePromises DEF PP!IInv
<1> QED BY <1>1, PackedInvariant, PTL

(***************************************************************************)
(* nor a page that somebody holds already.                                 *)
(***************************************************************************)
THEOREM PackedExclusive == Spec => []Exclusive
<1>1. PP!IInv => Exclusive
  BY SamePromises DEF PP!IInv
<1> QED BY <1>1, PackedInvariant, PTL

LEMMA PackedReservedStep ==
  ASSUME PP!IInv, [P!Next]_P!vars, NEW i \in Page, stage # "boot",
         Unpacked(memory_map)[i] \in {PAGE_SYS, PAGE_NONE}
  PROVE  Unpacked(memory_map)'[i] = Unpacked(memory_map)[i]
<1>1. PP!PageConstants
  BY PageConstants DEF PP!PageConstants, PP!MmapEntry, MmapEntry, PP!MmapTypes, MmapTypes,
                       PP!AVAILABLE, AVAILABLE
<1>2. [PP!Next]_PP!vars
  BY SameNext
<1>3. i \in PP!Page
  BY DEF Page, PP!Page
<1>4. Unpacked(memory_map)[i] \in {PP!PAGE_SYS, PP!PAGE_NONE}
  BY DEF PAGE_SYS, PAGE_NONE, PP!PAGE_SYS, PP!PAGE_NONE
<1> QED BY <1>1, <1>2, <1>3, <1>4, PP!ReservedStep

(***************************************************************************)
(* After boot, no step of the packed table changes a page set aside, not   *)
(* even one that shares its byte with pages that do change.                *)
(***************************************************************************)
THEOREM PackedReservedNeverChanges == Spec => ReservedForever
<1>1. Init => MapTypeOK /\ PP!IInv
  BY InitMaps, SameInit, PagesFacts
<1>2. MapTypeOK /\ PP!IInv /\ [Next]_vars =>
        [\A i \in P!Page : stage # "boot" /\ Unpacked(memory_map)[i] \in {P!PAGE_SYS, P!PAGE_NONE}
                             => Unpacked(memory_map)'[i] = Unpacked(memory_map)[i]]_P!vars
  <2> SUFFICES ASSUME MapTypeOK, PP!IInv, [Next]_vars,
                      NEW i \in P!Page, stage # "boot",
                      Unpacked(memory_map)[i] \in {P!PAGE_SYS, P!PAGE_NONE}
               PROVE  Unpacked(memory_map)'[i] = Unpacked(memory_map)[i]
    OBVIOUS
  <2>1. [P!Next]_P!vars
    BY StepMaps
  <2>2. i \in Page /\ Unpacked(memory_map)[i] \in {PAGE_SYS, PAGE_NONE}
    BY DEF Page, P!Page, P!PAGE_SYS, P!PAGE_NONE, PAGE_SYS, PAGE_NONE
  <2> QED BY <2>1, <2>2, PackedReservedStep
<1> QED BY <1>1, <1>2, PackedInvariant, PTL DEF Spec, ReservedForever, P!ReservedForever
=============================================================================
