-------------------------- MODULE RingBufferProofs --------------------------
(***************************************************************************)
(* The circular buffer, used by one caller at a time, is a Deque for every *)
(* capacity and every set of characters.  Everything rests on two facts:   *)
(* the indexes count modulo the capacity, and the full bit is set only     *)
(* when they meet, so that they determine how many items there are.        *)
(***************************************************************************)
EXTENDS RingBuffer, SequenceTheorems, TLAPS

\* A buffer that was never created still has the zeros of .bss.
UncreatedIsZero == cb.capacity = 0 => cb.begin = 0 /\ cb.end = 0 /\ cb.full = 0

IInv == TypeOK /\ FullMeansMet /\ UncreatedIsZero

-----------------------------------------------------------------------------
(***************************************************************************)
(* Arithmetic modulo the capacity.                                         *)
(***************************************************************************)
LEMMA ModOnce ==
  ASSUME NEW n \in Nat \ {0}, NEW x \in Nat, n <= x, x < 2 * n
  PROVE  x % n = x - n
<1> DEFINE q == x \div n
           r == x % n
<1>1. q \in Int /\ r \in Nat /\ r < n /\ x = q * n + r
  OBVIOUS
<1> HIDE DEF q, r
<1>2. q > 0
  <2>1. ASSUME q <= 0 PROVE FALSE
    <3>1. q * n <= 0
      BY <1>1, <2>1
    <3> QED BY <1>1, <3>1
  <2> QED BY <1>1, <2>1
<1>3. q < 2
  <2>1. ASSUME q >= 2 PROVE FALSE
    <3>1. q * n >= 2 * n
      BY <1>1, <2>1
    <3> QED BY <1>1, <3>1
  <2> QED BY <1>1, <2>1
<1>4. q = 1
  BY <1>1, <1>2, <1>3
<1>5. r = x - n
  BY <1>1, <1>4
<1> QED BY <1>5 DEF r

LEMMA ModNone ==
  ASSUME NEW n \in Nat \ {0}, NEW x \in Nat, x < n
  PROVE  x % n = x
  OBVIOUS

\* An index that has wrapped at most once.
Wrapped(x) == IF x < BUFFER_SIZE THEN x ELSE x - BUFFER_SIZE

LEMMA WrapOnce ==
  ASSUME NEW x \in 0 .. 2 * BUFFER_SIZE - 1
  PROVE  x % BUFFER_SIZE = Wrapped(x)
<1> USE RingConstants
<1>1. CASE x < BUFFER_SIZE
  BY <1>1, ModNone DEF Wrapped
<1>2. CASE x >= BUFFER_SIZE
  <2>1. x \in Nat /\ BUFFER_SIZE <= x /\ x < 2 * BUFFER_SIZE
    BY <1>2
  <2>2. x % BUFFER_SIZE = x - BUFFER_SIZE
    BY <2>1, ModOnce
  <2> QED BY <1>2, <2>2 DEF Wrapped
<1> QED BY <1>1, <1>2

LEMMA Next1Is ==
  ASSUME NEW x \in Slot
  PROVE  Next1(x) = (IF x = BUFFER_SIZE - 1 THEN 0 ELSE x + 1) /\ Next1(x) \in Slot
<1>1. x + 1 \in 0 .. 2 * BUFFER_SIZE - 1
  BY RingConstants DEF Slot
<1>2. (x + 1) % BUFFER_SIZE = Wrapped(x + 1)
  BY <1>1, WrapOnce
<1> QED BY <1>2, RingConstants DEF Next1, Slot, Wrapped

LEMMA Prev1Is ==
  ASSUME NEW x \in Slot
  PROVE  Prev1(x) = (IF x = 0 THEN BUFFER_SIZE - 1 ELSE x - 1) /\ Prev1(x) \in Slot
<1>1. x + BUFFER_SIZE - 1 \in 0 .. 2 * BUFFER_SIZE - 1
  BY RingConstants DEF Slot
<1>2. (x + BUFFER_SIZE - 1) % BUFFER_SIZE = Wrapped(x + BUFFER_SIZE - 1)
  BY <1>1, WrapOnce
<1> QED BY <1>2, RingConstants DEF Prev1, Slot, Wrapped

-----------------------------------------------------------------------------
(***************************************************************************)
(* What Items says, without the modulo: the slot of the k-th item, and how *)
(* many items there are.                                                   *)
(***************************************************************************)
At(b, k) == Wrapped(b.begin + k - 1)
Size(b) == IF b.full = 1 THEN BUFFER_SIZE
           ELSE IF b.begin <= b.end THEN b.end - b.begin
                                    ELSE b.end + BUFFER_SIZE - b.begin

LEMMA CountIs ==
  ASSUME NEW b \in Buffer
  PROVE  Count(b) = Size(b) /\ Size(b) \in 0 .. BUFFER_SIZE
<1> USE RingConstants
<1>1. b.begin \in Slot /\ b.end \in Slot
  BY DEF Buffer
<1>2. b.end + BUFFER_SIZE - b.begin \in 0 .. 2 * BUFFER_SIZE - 1
  BY <1>1 DEF Slot
<1>3. (b.end + BUFFER_SIZE - b.begin) % BUFFER_SIZE = Wrapped(b.end + BUFFER_SIZE - b.begin)
  BY <1>2, WrapOnce
<1> QED BY <1>1, <1>3 DEF Count, Size, Wrapped, Slot

LEMMA AtIsSlot ==
  ASSUME NEW b \in Buffer, NEW k \in 1 .. BUFFER_SIZE
  PROVE  At(b, k) \in Slot /\ (b.begin + k - 1) % BUFFER_SIZE = At(b, k)
<1> USE RingConstants
<1>1. b.begin \in Slot
  BY DEF Buffer
<1>2. b.begin + k - 1 \in 0 .. 2 * BUFFER_SIZE - 1
  BY <1>1 DEF Slot
<1>3. (b.begin + k - 1) % BUFFER_SIZE = Wrapped(b.begin + k - 1)
  BY <1>2, WrapOnce
<1> QED BY <1>1, <1>3 DEF At, Wrapped, Slot

LEMMA ItemsAre ==
  ASSUME NEW b \in Buffer
  PROVE  /\ Items(b) \in Seq(Char)
         /\ Len(Items(b)) = Size(b)
         /\ Size(b) \in 0 .. BUFFER_SIZE
         /\ \A k \in 1 .. Size(b) : Items(b)[k] = b.ptr[At(b, k)]
<1> USE RingConstants
<1>1. Count(b) = Size(b) /\ Size(b) \in 0 .. BUFFER_SIZE
  BY CountIs
<1>2. \A k \in 1 .. Size(b) : At(b, k) \in Slot /\ (b.begin + k - 1) % BUFFER_SIZE = At(b, k)
  BY <1>1, AtIsSlot
<1>3. Items(b) = [k \in 1 .. Size(b) |-> b.ptr[(b.begin + k - 1) % BUFFER_SIZE]]
  BY <1>1 DEF Items
<1>4. \A k \in 1 .. Size(b) : Items(b)[k] = b.ptr[At(b, k)] /\ Items(b)[k] \in Char
  BY <1>2, <1>3 DEF Buffer
<1>5. Items(b) \in [1 .. Size(b) -> Char]
  BY <1>3, <1>4
<1>6. Items(b) \in Seq(Char) /\ DOMAIN Items(b) = 1 .. Size(b)
  BY <1>1, <1>3, <1>5
<1> QED BY <1>1, <1>4, <1>6, LenProperties

-----------------------------------------------------------------------------
(***************************************************************************)
(* The operations, one by one: what they do to the items.                  *)
(***************************************************************************)
Sound(b) == b \in Buffer /\ b.capacity = BUFFER_SIZE /\ (b.full = 1 => b.begin = b.end)

LEMMA ValidBuffer == ASSUME NEW b, Sound(b) PROVE ~Invalid(b)
  BY RingConstants DEF Sound, Invalid, Buffer, Slot

\* A push when there is room: one more item, the others where they were.
LEMMA PushRoom ==
  ASSUME NEW b, Sound(b), b.full = 0, NEW v \in Char
  PROVE  LET c == circular_buffer_push_back(b, v)
         IN Sound(c) /\ Items(c) = Append(Items(b), v)
<1> USE RingConstants
<1> DEFINE c == circular_buffer_push_back(b, v)
<1>1. /\ b \in Buffer /\ b.begin \in Slot /\ b.end \in Slot /\ b.ptr \in [Slot -> Char]
      /\ b.capacity = BUFFER_SIZE
  BY DEF Sound, Buffer
<1>2. c = [b EXCEPT !.ptr[b.end] = v, !.begin = b.begin, !.end = Next1(b.end),
                    !.full = FullBit(b.begin, Next1(b.end))]
  BY ValidBuffer DEF circular_buffer_push_back
<1>n. Next1(b.end) = (IF b.end = BUFFER_SIZE - 1 THEN 0 ELSE b.end + 1) /\ Next1(b.end) \in Slot
  BY <1>1, Next1Is
<1>f. c = [ptr |-> [b.ptr EXCEPT ![b.end] = v], begin |-> b.begin, end |-> Next1(b.end),
          capacity |-> b.capacity, full |-> FullBit(b.begin, Next1(b.end))]
  BY <1>1, <1>2 DEF Buffer
<1>3. /\ c.ptr = [b.ptr EXCEPT ![b.end] = v] /\ c.begin = b.begin
      /\ c.end = Next1(b.end) /\ c.full = FullBit(b.begin, Next1(b.end))
      /\ c.capacity = b.capacity /\ c \in Buffer
  BY <1>1, <1>n, <1>f DEF Buffer, FullBit
<1> HIDE DEF c
<1>4. Sound(c)
  BY <1>1, <1>3 DEF Sound, FullBit
<1>5. Size(c) = Size(b) + 1 /\ Size(b) \in 0 .. BUFFER_SIZE - 1
  <2>1. b.begin \in 0 .. BUFFER_SIZE - 1 /\ b.end \in 0 .. BUFFER_SIZE - 1
    BY <1>1 DEF Slot
  <2>2. Size(b) = IF b.begin <= b.end THEN b.end - b.begin
                                      ELSE b.end + BUFFER_SIZE - b.begin
    BY DEF Size
  <2>3. CASE Next1(b.end) = b.begin
    <3>1. c.full = 1
      BY <1>3, <2>3 DEF FullBit
    <3> QED BY <1>n, <2>1, <2>2, <2>3, <3>1 DEF Size
  <2>4. CASE Next1(b.end) # b.begin
    <3>1. c.full = 0
      BY <1>3, <2>4 DEF FullBit
    <3>2. Size(c) = IF b.begin <= Next1(b.end) THEN Next1(b.end) - b.begin
                                      ELSE Next1(b.end) + BUFFER_SIZE - b.begin
      BY <1>3, <3>1 DEF Size
    <3> QED BY <1>n, <2>1, <2>2, <2>4, <3>2
  <2> QED BY <2>3, <2>4
<1>6. ASSUME NEW k \in 1 .. Size(c)
      PROVE  Items(c)[k] = Append(Items(b), v)[k]
  <2>1. Items(c)[k] = c.ptr[At(c, k)] /\ At(c, k) = At(b, k) /\ At(b, k) \in Slot
    BY <1>1, <1>3, <1>5, <1>6, ItemsAre, AtIsSlot DEF At
  <2>2. CASE k <= Size(b)
    <3>1. At(b, k) # b.end
      BY <1>1, <1>5, <1>6, <2>2 DEF Buffer, At, Wrapped, Size, Slot
    <3>2. Items(b)[k] = b.ptr[At(b, k)] /\ Items(b) \in Seq(Char) /\ Len(Items(b)) = Size(b)
      BY <1>1, <1>5, <1>6, <2>2, ItemsAre
    <3> QED BY <1>1, <1>3, <2>1, <2>2, <3>1, <3>2
  <2>3. CASE k = Size(b) + 1
    <3>1. At(b, k) = b.end
      BY <1>1, <1>5, <2>3 DEF Buffer, At, Wrapped, Size, Slot
    <3>2. Items(b) \in Seq(Char) /\ Len(Items(b)) = Size(b)
      BY <1>1, ItemsAre
    <3> QED BY <1>1, <1>3, <2>1, <2>3, <3>1, <3>2
  <2>4. k <= Size(b) \/ k = Size(b) + 1
    BY <1>5, <1>6
  <2> QED BY <2>2, <2>3, <2>4, Zenon
<1>7. /\ Items(c) \in Seq(Char) /\ Len(Items(c)) = Size(c)
      /\ Append(Items(b), v) \in Seq(Char) /\ Len(Append(Items(b), v)) = Size(b) + 1
  BY <1>1, <1>3, ItemsAre
<1>8. Items(c) = Append(Items(b), v)
  BY <1>5, <1>6, <1>7, SeqEqual
<1> QED BY <1>4, <1>8 DEF c

\* A push on a full buffer: the oldest item makes place for the new one.
LEMMA PushFull ==
  ASSUME NEW b, Sound(b), b.full = 1, NEW v \in Char
  PROVE  LET c == circular_buffer_push_back(b, v)
         IN Sound(c) /\ Items(c) = Tail(Append(Items(b), v)) /\ Len(Items(b)) = BUFFER_SIZE
<1> USE RingConstants
<1> DEFINE c == circular_buffer_push_back(b, v)
<1>1. /\ b \in Buffer /\ b.begin \in Slot /\ b.end = b.begin /\ b.ptr \in [Slot -> Char]
      /\ b.capacity = BUFFER_SIZE
  BY DEF Sound, Buffer
<1>2. c = [b EXCEPT !.ptr[b.begin] = v, !.begin = Next1(b.begin), !.end = Next1(b.end),
                    !.full = FullBit(Next1(b.begin), Next1(b.end))]
  BY ValidBuffer DEF circular_buffer_push_back
<1>n. Next1(b.begin) = (IF b.begin = BUFFER_SIZE - 1 THEN 0 ELSE b.begin + 1)
      /\ Next1(b.begin) \in Slot
  BY <1>1, Next1Is
<1>f. c = [ptr |-> [b.ptr EXCEPT ![b.begin] = v], begin |-> Next1(b.begin),
          end |-> Next1(b.begin), capacity |-> b.capacity, full |-> 1]
  BY <1>1, <1>2 DEF Buffer, FullBit
<1>3. /\ c.ptr = [b.ptr EXCEPT ![b.begin] = v] /\ c.begin = Next1(b.begin)
      /\ c.end = Next1(b.begin) /\ c.full = 1
      /\ c.capacity = b.capacity /\ c \in Buffer
  BY <1>1, <1>n, <1>f DEF Buffer, FullBit
<1> HIDE DEF c
<1>4. Sound(c)
  BY <1>1, <1>3 DEF Sound
<1>5. Size(c) = BUFFER_SIZE /\ Size(b) = BUFFER_SIZE
  BY <1>3 DEF Size
<1>6. /\ Items(c) \in Seq(Char) /\ Len(Items(c)) = BUFFER_SIZE
      /\ Items(b) \in Seq(Char) /\ Len(Items(b)) = BUFFER_SIZE
  BY <1>1, <1>3, <1>5, ItemsAre
<1>7. /\ Append(Items(b), v) \in Seq(Char) /\ Append(Items(b), v) # <<>>
      /\ Len(Append(Items(b), v)) = BUFFER_SIZE + 1
  BY <1>6
<1>8. /\ Tail(Append(Items(b), v)) \in Seq(Char)
      /\ Len(Tail(Append(Items(b), v))) = BUFFER_SIZE
      /\ \A k \in 1 .. BUFFER_SIZE :
           Tail(Append(Items(b), v))[k] = Append(Items(b), v)[k + 1]
  BY <1>7
<1>9. ASSUME NEW k \in 1 .. BUFFER_SIZE
      PROVE  Items(c)[k] = Append(Items(b), v)[k + 1]
  <2>1. Items(c)[k] = c.ptr[At(c, k)] /\ At(c, k) \in Slot
    BY <1>3, <1>5, <1>9, ItemsAre, AtIsSlot
  <2>2. CASE k < BUFFER_SIZE
    <3>1. At(c, k) = At(b, k + 1) /\ At(c, k) # b.begin
      BY <1>1, <1>3, <1>n, <1>9, <2>2 DEF At, Wrapped, Slot
    <3>2. Items(b)[k + 1] = b.ptr[At(b, k + 1)]
      BY <1>1, <1>5, <1>9, <2>2, ItemsAre
    <3> QED BY <1>1, <1>3, <1>6, <2>1, <2>2, <3>1, <3>2
  <2>3. CASE k = BUFFER_SIZE
    <3>1. At(c, k) = b.begin
      BY <1>1, <1>3, <1>n, <1>9, <2>3 DEF At, Wrapped, Slot
    <3> QED BY <1>1, <1>3, <1>6, <2>1, <2>3, <3>1
  <2>4. k < BUFFER_SIZE \/ k = BUFFER_SIZE
    BY <1>9
  <2> QED BY <2>2, <2>3, <2>4, Zenon
<1>10. Items(c) = Tail(Append(Items(b), v))
  BY <1>6, <1>8, <1>9, SeqEqual
<1> QED BY <1>4, <1>6, <1>10 DEF c

\* A pop finds an item: what "not empty" says of the indexes.
LEMMA NotEmpty ==
  ASSUME NEW b, Sound(b), circular_buffer_empty(b) = 0
  PROVE  Size(b) \in 1 .. BUFFER_SIZE
<1> USE RingConstants
<1>1. b \in Buffer /\ b.begin \in Slot /\ b.end \in Slot /\ b.full \in {0, 1}
  BY DEF Sound, Buffer
<1>2. ~(b.full = 0 /\ b.end = b.begin)
  BY ValidBuffer DEF circular_buffer_empty
<1>3. Size(b) \in 0 .. BUFFER_SIZE
  BY <1>1, CountIs
<1>4. Size(b) # 0
  BY <1>1, <1>2 DEF Size, Slot
<1> QED BY <1>3, <1>4

\* pop_front gives the oldest item and leaves the others.
LEMMA PopsFront ==
  ASSUME NEW b, Sound(b), circular_buffer_empty(b) = 0
  PROVE  /\ Sound(DropFront(b)) /\ Items(b) # <<>>
         /\ b.ptr[b.begin] = Items(b)[1] /\ Items(DropFront(b)) = Tail(Items(b))
<1> USE RingConstants
<1> DEFINE c == DropFront(b)
<1>1. /\ b \in Buffer /\ b.begin \in Slot /\ b.end \in Slot /\ b.ptr \in [Slot -> Char]
      /\ b.capacity = BUFFER_SIZE /\ b.full \in {0, 1} /\ (b.full = 1 => b.begin = b.end)
  BY DEF Sound, Buffer
<1>2. Next1(b.begin) = (IF b.begin = BUFFER_SIZE - 1 THEN 0 ELSE b.begin + 1)
      /\ Next1(b.begin) \in Slot
  BY <1>1, Next1Is
<1>3. c = [ptr |-> b.ptr, begin |-> Next1(b.begin), end |-> b.end,
           capacity |-> b.capacity, full |-> 0]
  <2>1. c = [b EXCEPT !.begin = Next1(b.begin), !.full = 0]
    BY DEF DropFront
  <2>2. b = [ptr |-> b.ptr, begin |-> b.begin, end |-> b.end,
             capacity |-> b.capacity, full |-> b.full]
    BY <1>1 DEF Buffer
  <2> HIDE DEF c
  <2> QED BY <2>1, <2>2
<1>4. /\ c.ptr = b.ptr /\ c.begin = Next1(b.begin) /\ c.end = b.end /\ c.full = 0
      /\ c.capacity = b.capacity /\ c \in Buffer
  BY <1>1, <1>2, <1>3 DEF Buffer
<1> HIDE DEF c
<1>5. Sound(c)
  BY <1>1, <1>4 DEF Sound
<1>6. Size(b) \in 1 .. BUFFER_SIZE
  BY NotEmpty
<1>7. Size(c) = Size(b) - 1
  <2>1. Size(c) = IF c.begin <= c.end THEN c.end - c.begin
                                      ELSE c.end + BUFFER_SIZE - c.begin
    BY <1>4 DEF Size
  <2>2. CASE b.full = 1
    BY <1>1, <1>2, <1>4, <2>1, <2>2 DEF Size, Slot
  <2>3. CASE b.full = 0
    BY <1>1, <1>2, <1>4, <1>6, <2>1, <2>3 DEF Size, Slot
  <2> QED BY <1>1, <2>2, <2>3
<1>8. /\ Items(b) \in Seq(Char) /\ Len(Items(b)) = Size(b)
      /\ Items(c) \in Seq(Char) /\ Len(Items(c)) = Size(c)
  BY <1>1, <1>4, ItemsAre
<1>9. Items(b) # <<>>
  BY <1>6, <1>8
<1>10. /\ Tail(Items(b)) \in Seq(Char) /\ Len(Tail(Items(b))) = Size(b) - 1
       /\ \A k \in 1 .. Size(c) : Tail(Items(b))[k] = Items(b)[k + 1]
  BY <1>6, <1>7, <1>8, <1>9
<1>11. b.ptr[b.begin] = Items(b)[1]
  <2>1. At(b, 1) = b.begin
    BY <1>1 DEF At, Wrapped, Slot
  <2> QED BY <1>1, <1>6, <2>1, ItemsAre
<1>12. ASSUME NEW k \in 1 .. Size(c)
       PROVE  Items(c)[k] = Items(b)[k + 1]
  <2>1. k \in 1 .. BUFFER_SIZE - 1 /\ k + 1 \in 1 .. Size(b)
    BY <1>6, <1>7, <1>12
  <2>2. At(c, k) = At(b, k + 1)
    BY <1>1, <1>2, <1>4, <2>1 DEF At, Wrapped, Slot
  <2>3. Items(c)[k] = c.ptr[At(c, k)] /\ Items(b)[k + 1] = b.ptr[At(b, k + 1)]
    BY <1>1, <1>4, <1>12, <2>1, ItemsAre
  <2> QED BY <1>4, <2>2, <2>3
<1>13. Items(c) = Tail(Items(b))
  BY <1>7, <1>8, <1>10, <1>12, SeqEqual
<1> QED BY <1>5, <1>9, <1>11, <1>13 DEF c

\* pop_back gives the newest item and leaves the others.
LEMMA PopsBack ==
  ASSUME NEW b, Sound(b), circular_buffer_empty(b) = 0
  PROVE  /\ Sound(DropBack(b)) /\ Items(b) # <<>>
         /\ b.ptr[Prev1(b.end)] = Items(b)[Len(Items(b))]
         /\ Items(DropBack(b)) = SubSeq(Items(b), 1, Len(Items(b)) - 1)
<1> USE RingConstants
<1> DEFINE c == DropBack(b)
<1>1. /\ b \in Buffer /\ b.begin \in Slot /\ b.end \in Slot /\ b.ptr \in [Slot -> Char]
      /\ b.capacity = BUFFER_SIZE /\ b.full \in {0, 1} /\ (b.full = 1 => b.begin = b.end)
  BY DEF Sound, Buffer
<1>2. Prev1(b.end) = (IF b.end = 0 THEN BUFFER_SIZE - 1 ELSE b.end - 1)
      /\ Prev1(b.end) \in Slot
  BY <1>1, Prev1Is
<1>3. c = [ptr |-> b.ptr, begin |-> b.begin, end |-> Prev1(b.end),
           capacity |-> b.capacity, full |-> 0]
  <2>1. c = [b EXCEPT !.end = Prev1(b.end), !.full = 0]
    BY DEF DropBack
  <2>2. b = [ptr |-> b.ptr, begin |-> b.begin, end |-> b.end,
             capacity |-> b.capacity, full |-> b.full]
    BY <1>1 DEF Buffer
  <2> HIDE DEF c
  <2> QED BY <2>1, <2>2
<1>4. /\ c.ptr = b.ptr /\ c.begin = b.begin /\ c.end = Prev1(b.end) /\ c.full = 0
      /\ c.capacity = b.capacity /\ c \in Buffer
  BY <1>1, <1>2, <1>3 DEF Buffer
<1> HIDE DEF c
<1>5. Sound(c)
  BY <1>1, <1>4 DEF Sound
<1>6. Size(b) \in 1 .. BUFFER_SIZE
  BY NotEmpty
<1>7. Size(c) = Size(b) - 1
  <2>1. Size(c) = IF c.begin <= c.end THEN c.end - c.begin
                                      ELSE c.end + BUFFER_SIZE - c.begin
    BY <1>4 DEF Size
  <2>2. CASE b.full = 1
    BY <1>1, <1>2, <1>4, <2>1, <2>2 DEF Size, Slot
  <2>3. CASE b.full = 0
    BY <1>1, <1>2, <1>4, <1>6, <2>1, <2>3 DEF Size, Slot
  <2> QED BY <1>1, <2>2, <2>3
<1>8. /\ Items(b) \in Seq(Char) /\ Len(Items(b)) = Size(b)
      /\ Items(c) \in Seq(Char) /\ Len(Items(c)) = Size(c)
  BY <1>1, <1>4, ItemsAre
<1>9. Items(b) # <<>>
  BY <1>6, <1>8
<1>10. /\ SubSeq(Items(b), 1, Size(b) - 1) \in Seq(Char)
       /\ Len(SubSeq(Items(b), 1, Size(b) - 1)) = Size(c)
       /\ \A k \in 1 .. Size(c) : SubSeq(Items(b), 1, Size(b) - 1)[k] = Items(b)[k]
  BY <1>6, <1>7, <1>8
<1>11. b.ptr[Prev1(b.end)] = Items(b)[Size(b)]
  <2>1. At(b, Size(b)) = Prev1(b.end)
    BY <1>1, <1>2, <1>6 DEF At, Wrapped, Size, Slot
  <2> QED BY <1>1, <1>6, <2>1, ItemsAre
<1>12. ASSUME NEW k \in 1 .. Size(c)
       PROVE  Items(c)[k] = Items(b)[k]
  <2>1. k \in 1 .. Size(b) /\ At(c, k) = At(b, k)
    BY <1>4, <1>6, <1>7, <1>12 DEF At
  <2>2. Items(c)[k] = c.ptr[At(c, k)] /\ Items(b)[k] = b.ptr[At(b, k)]
    BY <1>1, <1>4, <1>12, <2>1, ItemsAre
  <2> QED BY <1>4, <2>1, <2>2
<1>13. Items(c) = SubSeq(Items(b), 1, Size(b) - 1)
  BY <1>8, <1>10, <1>12, SeqEqual
<1> QED BY <1>5, <1>8, <1>9, <1>11, <1>13 DEF c

-----------------------------------------------------------------------------
LEMMA SoundOnceCreated ==
  ASSUME IInv
  PROVE  \/ cb.capacity = BUFFER_SIZE /\ Sound(cb)
         \/ Invalid(cb) /\ cb.capacity = 0 /\ Items(cb) = <<>>
<1>1. CASE cb.capacity = 0
  <2>1. Size(cb) = 0 /\ Len(Items(cb)) = Size(cb) /\ Items(cb) \in Seq(Char)
    BY <1>1, ItemsAre DEF IInv, TypeOK, UncreatedIsZero, Size
  <2> QED BY <1>1, <2>1 DEF Invalid
<1>2. CASE cb.capacity # 0
  BY <1>2 DEF IInv, TypeOK, FullMeansMet, Sound, Buffer
<1> QED BY <1>1, <1>2

LEMMA InitImplements == Init => IInv /\ D!Init
<1> SUFFICES ASSUME Init PROVE IInv /\ D!Init
  OBVIOUS
<1>1. cb = Zeroed /\ got = NoItem
  BY DEF Init
<1>2. IInv
  BY <1>1, RingConstants
  DEF IInv, TypeOK, FullMeansMet, UncreatedIsZero, Zeroed, Buffer, Slot
<1>3. Items(cb) = <<>>
  BY <1>1, <1>2, SoundOnceCreated, RingConstants DEF Zeroed
<1> QED BY <1>1, <1>2, <1>3 DEF D!Init

LEMMA CreateImplements ==
  ASSUME IInv, create
  PROVE  IInv' /\ UNCHANGED D!dequeVars
<1> USE RingConstants
<1>1. /\ cb \in Buffer /\ cb.begin = 0 /\ cb.end = 0 /\ cb.full = 0 /\ cb.capacity = 0
  BY DEF IInv, TypeOK, UncreatedIsZero, create
<1>2. cb' = [cb EXCEPT !.begin = 0, !.end = 0, !.capacity = BUFFER_SIZE, !.full = 0]
  BY DEF create, circular_buffer_create
<1>3. /\ cb' \in Buffer /\ cb'.begin = 0 /\ cb'.end = 0 /\ cb'.full = 0
      /\ cb'.capacity = BUFFER_SIZE
  BY <1>1, <1>2 DEF Buffer, Slot
<1>4. IInv' /\ Sound(cb')
  BY <1>3 DEF IInv, TypeOK, FullMeansMet, UncreatedIsZero, create, Sound
<1>5. Size(cb') = 0 /\ Items(cb') \in Seq(Char) /\ Len(Items(cb')) = 0
  BY <1>3, ItemsAre DEF Size
<1>6. Items(cb') = <<>> /\ Items(cb) = <<>>
  BY <1>1, <1>5, SoundOnceCreated
<1> QED BY <1>4, <1>6 DEF D!dequeVars, create

LEMMA PushImplements ==
  ASSUME IInv, NEW value \in Char, push_back(value)
  PROVE  IInv' /\ [D!Next]_D!dequeVars
<1> USE RingConstants
<1>1. CASE Sound(cb)
  <2>0. cb \in Buffer /\ cb.full \in {0, 1} /\ cb' = circular_buffer_push_back(cb, value)
    BY <1>1 DEF Sound, Buffer, push_back
  <2>1. Items(cb) \in Seq(Char) /\ Len(Items(cb)) = Size(cb) /\ Size(cb) \in 0 .. BUFFER_SIZE
    BY <2>0, ItemsAre
  <2>2. ASSUME cb.full = 0
       PROVE  Sound(cb') /\ D!PushBack(value)
    <3>1. Sound(cb') /\ Items(cb') = Append(Items(cb), value)
      BY <1>1, <2>0, <2>2, PushRoom
    <3>2. Len(Items(cb')) = Size(cb') /\ Size(cb') \in 0 .. BUFFER_SIZE
      BY <3>1, ItemsAre DEF Sound
    <3>3. ~(Len(Append(Items(cb), value)) > BUFFER_SIZE)
      BY <3>1, <3>2
    <3>4. Items(cb') = D!Recent(Append(Items(cb), value))
      BY <3>1, <3>3 DEF D!Recent
    <3> QED BY <3>1, <3>4 DEF D!PushBack, push_back
  <2>3. ASSUME cb.full = 1
       PROVE  Sound(cb') /\ D!PushBack(value)
    <3>1. /\ Sound(cb') /\ Items(cb') = Tail(Append(Items(cb), value))
          /\ Len(Items(cb)) = BUFFER_SIZE
      BY <1>1, <2>0, <2>3, PushFull
    <3>2. Len(Append(Items(cb), value)) > BUFFER_SIZE
      BY <2>1, <3>1
    <3>3. Items(cb') = D!Recent(Append(Items(cb), value))
      BY <3>1, <3>2 DEF D!Recent
    <3> QED BY <3>1, <3>3 DEF D!PushBack, push_back
  <2>4. Sound(cb') /\ D!PushBack(value)
    BY <2>0, <2>2, <2>3
  <2>5. IInv'
    BY <2>4 DEF IInv, TypeOK, FullMeansMet, UncreatedIsZero, Sound, push_back
  <2> QED BY <2>4, <2>5 DEF D!Next
<1>2. CASE Invalid(cb)
  <2>1. cb' = cb /\ got' = got
    BY <1>2 DEF push_back, circular_buffer_push_back
  <2> QED BY <2>1 DEF IInv, TypeOK, FullMeansMet, UncreatedIsZero, D!dequeVars
<1> QED BY <1>1, <1>2, SoundOnceCreated

LEMMA NotEmptyIsSound ==
  ASSUME IInv, circular_buffer_empty(cb) = 0
  PROVE  Sound(cb)
  BY SoundOnceCreated DEF circular_buffer_empty

LEMMA PopFrontImplements ==
  ASSUME IInv, pop_front
  PROVE  IInv' /\ D!PopFront
<1>1. Sound(cb) /\ circular_buffer_empty(cb) = 0
  BY NotEmptyIsSound DEF pop_front
<1>2. /\ Sound(cb') /\ Items(cb) # <<>> /\ got' = Items(cb)[1]
      /\ Items(cb') = Tail(Items(cb)) /\ got' = cb.ptr[cb.begin]
  BY <1>1, PopsFront DEF pop_front
<1>3. got' \in Char
  BY <1>1, <1>2 DEF Sound, Buffer
<1>4. IInv'
  BY <1>2, <1>3, RingConstants DEF IInv, TypeOK, FullMeansMet, UncreatedIsZero, Sound
<1> QED BY <1>2, <1>4 DEF D!PopFront

LEMMA PopBackImplements ==
  ASSUME IInv, pop_back
  PROVE  IInv' /\ D!PopBack
<1>1. Sound(cb) /\ circular_buffer_empty(cb) = 0
  BY NotEmptyIsSound DEF pop_back
<1>2. /\ Sound(cb') /\ Items(cb) # <<>> /\ got' = Items(cb)[Len(Items(cb))]
      /\ Items(cb') = SubSeq(Items(cb), 1, Len(Items(cb)) - 1)
      /\ got' = cb.ptr[Prev1(cb.end)]
  BY <1>1, PopsBack DEF pop_back
<1>3. got' \in Char
  BY <1>1, <1>2, Prev1Is DEF Sound, Buffer
<1>4. IInv'
  BY <1>2, <1>3, RingConstants DEF IInv, TypeOK, FullMeansMet, UncreatedIsZero, Sound
<1> QED BY <1>2, <1>4 DEF D!PopBack

LEMMA PopErrorImplements ==
  ASSUME IInv, pop_error
  PROVE  IInv' /\ D!PopNothing
<1>1. Items(cb) = <<>>
  <2>1. CASE Sound(cb)
    <3>1. cb \in Buffer /\ cb.full = 0 /\ cb.begin = cb.end
      BY <2>1, ValidBuffer DEF pop_error, circular_buffer_empty, Sound, Buffer
    <3>2. Size(cb) = 0
      BY <3>1, RingConstants DEF Size, Buffer, Slot
    <3> QED BY <3>1, <3>2, ItemsAre
  <2> QED BY <2>1, SoundOnceCreated
<1>2. cb' = cb /\ got' = NoItem
  BY DEF pop_error
<1>3. IInv'
  BY <1>2 DEF IInv, TypeOK, FullMeansMet, UncreatedIsZero
<1> QED BY <1>1, <1>2, <1>3 DEF D!PopNothing

LEMMA NextImplements == IInv /\ [Next]_vars => IInv' /\ [D!Next]_D!dequeVars
<1> SUFFICES ASSUME IInv, [Next]_vars PROVE IInv' /\ [D!Next]_D!dequeVars
  OBVIOUS
<1>1. CASE create
  BY <1>1, CreateImplements
<1>2. ASSUME NEW value \in Char, push_back(value)
      PROVE  IInv' /\ [D!Next]_D!dequeVars
  BY <1>2, PushImplements
<1>3. CASE pop_front
  BY <1>3, PopFrontImplements DEF D!Next
<1>4. CASE pop_back
  BY <1>4, PopBackImplements DEF D!Next
<1>5. CASE pop_error
  BY <1>5, PopErrorImplements DEF D!Next
<1>6. CASE UNCHANGED vars
  BY <1>6 DEF vars, IInv, TypeOK, FullMeansMet, UncreatedIsZero, D!dequeVars
<1> QED BY <1>1, <1>2, <1>3, <1>4, <1>5, <1>6 DEF Next

(***************************************************************************)
(* The indexes stay inside the buffer, whatever the calls.                 *)
(***************************************************************************)
THEOREM RingTypeCorrect == Spec => []TypeOK
<1>1. IInv => TypeOK
  BY DEF IInv
<1> QED BY <1>1, InitImplements, NextImplements, PTL DEF Spec

(***************************************************************************)
(* The full bit is set only when begin and end meet.                       *)
(***************************************************************************)
THEOREM RingFullMeansMet == Spec => []FullMeansMet
<1>1. IInv => FullMeansMet
  BY DEF IInv
<1> QED BY <1>1, InitImplements, NextImplements, PTL DEF Spec

(***************************************************************************)
(* The circular buffer of any capacity is a bounded deque that forgets its *)
(* oldest item: buffer.c loses, invents and reorders nothing else.         *)
(***************************************************************************)
THEOREM RingImplementsDeque == Spec => DequeSpec
  BY InitImplements, NextImplements, PTL DEF Spec, DequeSpec, D!Spec
=============================================================================
