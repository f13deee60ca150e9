--------------------------- MODULE KeyboardProofs ---------------------------
(***************************************************************************)
(* What Keyboard checks on two slots and four keys, for every capacity and *)
(* every number of keys, with the interrupt between any two accesses.      *)
(*                                                                         *)
(* Two arguments are kept apart.  Whatever the interleaving, each key      *)
(* press pays for two characters, the one it puts into the buffer and the  *)
(* one that pop_back can make up when it comes inside a pop (Paid).  As    *)
(* long as none does, the keys that wait are the items of the buffer and   *)
(* the one that pop_back has taken out of it (Held).                       *)
(***************************************************************************)
EXTENDS Keyboard, FiniteSetTheorems, SequenceTheorems, TLAPS

Ring == INSTANCE RingBufferProofs WITH Nul <- NoChar, NoItem <- Two, got <- reg.char

NotEmpty(b) == b.full = 1 \/ b.end # b.begin

Cleared(b) == [b EXCEPT !.full = 0]

Between == {"aim", "fetch", "test", "clear"}

\* How many items there are, without the modulo.
Size(b) == IF b.full = 1 THEN BUFFER_SIZE
           ELSE IF b.begin <= b.end THEN b.end - b.begin
                                    ELSE b.end + BUFFER_SIZE - b.begin

\* How many there are up to the slot before end, counted from begin.
UpTo(b, end) == IF b.begin < end THEN end - b.begin
                                 ELSE end + BUFFER_SIZE - b.begin

\* What circular_buffer_empty has read is still so.
Fresh ==
  /\ reg.full \in {cb.full, Unread}
  /\ reg.begin \in {cb.begin, Unread}
  /\ reg.stop \in {cb.end, Unread}
Nothing == reg.full = Unread /\ reg.begin = Unread /\ reg.stop = Unread

(***************************************************************************)
(* The buffer: it has no capacity before init_keyboard, and only between   *)
(* pop_back's store and its clear can the full bit stand on indexes that   *)
(* differ.  What a poll has read is still so, or a push has come since and *)
(* there is an item; every check starts by reading anew.                   *)
(***************************************************************************)
BufferOK ==
  /\ cb \in Buffer
  /\ IF pc = "boot" THEN cb = Zeroed /\ delivered = <<>> ELSE cb.capacity = BUFFER_SIZE
  /\ pc \notin Between /\ cb.full = 1 => cb.begin = cb.end
  /\ pc = "poll" => Fresh \/ NotEmpty(cb)
  /\ pc \in {"entry", "check", "reload", "store"} => NotEmpty(cb)
  /\ pc \in {"boot", "entry"} => Nothing

\* What pop_back has read is still so.
UpToDate == reg.end = cb.end /\ Fresh

Paid ==
  /\ pc \notin Between \cup {"deliver"} => Len(delivered) + Size(cb) <= 2 * keys
  /\ pc = "check" => UpToDate \/ Len(delivered) + Size(cb) < 2 * keys
  /\ pc \in {"check", "reload", "store"} => Len(delivered) + UpTo(cb, reg.end) <= 2 * keys
  /\ pc \in Between => Len(delivered) + Size(Cleared(cb)) < 2 * keys
  /\ pc = "deliver" => Len(delivered) + Size(cb) < 2 * keys
  /\ len <= Len(delivered)

(***************************************************************************)
(* The history of the keys, while none came inside a pop.                  *)
(***************************************************************************)
Waiting == KeysWith("waiting")
Read == KeysWith("read")

\* The items the buffer will have when the pop under way has ended, and
\* what that pop took.
Stored == Items(IF pc \in Between THEN Cleared(cb) ELSE cb)
Taken == CASE pc \in {"aim", "fetch"} -> {cb.ptr[cb.end]}
           [] pc \in {"test", "clear", "deliver"} -> {reg.char}
           [] OTHER -> {}

Held ==
  /\ Increasing(Stored)
  /\ Waiting = Values(Stored) \cup Taken
  /\ Values(Stored) \cap Taken = {}
  /\ Values(delivered) = Read
  /\ Len(delivered) = Cardinality(Read)

Pressed == \A k \in Key : fate[k] = "unpressed" <=> k > keys

Undisturbed ==
  /\ pc \in {"check", "reload", "store"} => UpToDate
  /\ pc \in {"aim", "fetch"} => reg.slot = cb.end

InOrder ==
  /\ Increasing(delivered)
  /\ Cardinality(Waiting) <= 1
  /\ \A r \in Read, w \in Waiting : r < w

IInv ==
  /\ TypeOK
  /\ BufferOK
  /\ Paid
  /\ ~raced => Held /\ Undisturbed /\ Pressed
  /\ ~raced /\ ~crowded => InOrder

-----------------------------------------------------------------------------
(***************************************************************************)
(* The buffer's operations.  RingBufferProofs has them for any buffer and  *)
(* any characters.                                                         *)
(***************************************************************************)
LEMMA KeyFacts ==
  /\ Key \subseteq Nat \ {0} /\ Key \subseteq Char
  /\ NoChar \in Char /\ NoChar \notin Key /\ Two \in Char /\ Two \notin Key
  /\ IsFiniteSet(Key)
<1>1. IsFiniteSet(Key)
  BY KeyboardConstants, FS_Interval DEF Key
<1> QED BY <1>1, KeyboardConstants DEF Key, NoChar, Two, Char

LEMMA RingAssumption == Ring!RingConstants
  BY KeyboardConstants, KeyFacts DEF Ring!RingConstants

LEMMA Indexes ==
  ASSUME NEW x \in Slot
  PROVE  /\ Next1(x) = (IF x = BUFFER_SIZE - 1 THEN 0 ELSE x + 1) /\ Next1(x) \in Slot
         /\ Prev1(x) = (IF x = 0 THEN BUFFER_SIZE - 1 ELSE x - 1) /\ Prev1(x) \in Slot
<1>1. x \in Ring!Slot
  BY DEF Slot, Ring!Slot
<1>2. Ring!Next1(x) = Next1(x) /\ Ring!Prev1(x) = Prev1(x) /\ Ring!Slot = Slot
  BY DEF Next1, Ring!Next1, Prev1, Ring!Prev1, Slot, Ring!Slot
<1>3. Ring!Next1(x) = (IF x = BUFFER_SIZE - 1 THEN 0 ELSE x + 1) /\ Ring!Next1(x) \in Ring!Slot
  BY <1>1, RingAssumption, Ring!Next1Is
<1>4. Ring!Prev1(x) = (IF x = 0 THEN BUFFER_SIZE - 1 ELSE x - 1) /\ Ring!Prev1(x) \in Ring!Slot
  BY <1>1, RingAssumption, Ring!Prev1Is
<1> QED BY <1>2, <1>3, <1>4

Valid(b) == b \in Buffer /\ b.capacity = BUFFER_SIZE

\* A valid buffer that is not in the middle of a pop.
Sound(b) == Valid(b) /\ (b.full = 1 => b.begin = b.end)

LEMMA Fields ==
  ASSUME NEW b \in Buffer
  PROVE  /\ b.begin \in Slot /\ b.end \in Slot /\ b.full \in {0, 1}
         /\ b.ptr \in [Slot -> Char]
         /\ Slot \subseteq Nat /\ \A x \in Slot : x < BUFFER_SIZE
  BY KeyboardConstants DEF Buffer, Slot

LEMMA ValidBuffer == ASSUME NEW b, Valid(b) PROVE ~Invalid(b)
  BY KeyboardConstants DEF Valid, Invalid, Buffer, Slot

\* A push makes any buffer sound again: it computes the full bit anew.
LEMMA Pushed ==
  ASSUME NEW b, Valid(b), NEW v \in Char,
         NEW c, c = circular_buffer_push_back(b, v)
  PROVE  /\ Sound(c) /\ NotEmpty(c)
         /\ c.end = Next1(b.end)
         /\ c.begin = IF b.full = 0 THEN b.begin ELSE Next1(b.begin)
         /\ c.full = FullBit(c.begin, c.end)
<1>1. ~Invalid(b)
  BY ValidBuffer
<1>2. b.begin \in Slot /\ b.end \in Slot /\ b.full \in {0, 1} /\ b.ptr \in [Slot -> Char]
  BY Fields DEF Valid
<1>3. PICK slot, begin : /\ slot = (IF b.full = 0 THEN b.end ELSE b.begin)
                         /\ begin = (IF b.full = 0 THEN b.begin ELSE Next1(b.begin))
  OBVIOUS
<1>4. slot \in Slot /\ begin \in Slot /\ Next1(b.end) \in Slot
  BY <1>2, <1>3, Indexes
<1>5. c = [b EXCEPT !.ptr[slot] = v, !.begin = begin, !.end = Next1(b.end),
                    !.full = FullBit(begin, Next1(b.end))]
  BY <1>1, <1>3 DEF circular_buffer_push_back, Valid, Buffer
<1>6. FullBit(begin, Next1(b.end)) \in {0, 1}
  BY DEF FullBit
<1>7. c \in Buffer /\ c.capacity = BUFFER_SIZE
  <2>1. PICK ptr : ptr = [b.ptr EXCEPT ![slot] = v]
    OBVIOUS
  <2>2. ptr \in [Slot -> Char]
    BY <1>2, <1>4, <2>1
  <2>3. c = [b EXCEPT !.ptr = ptr, !.begin = begin, !.end = Next1(b.end),
                      !.full = FullBit(begin, Next1(b.end))]
    BY <1>5, <2>1 DEF Valid, Buffer
  <2> QED BY <1>4, <1>6, <2>2, <2>3 DEF Valid, Buffer
<1>8. c.end = Next1(b.end) /\ c.begin = begin /\ c.full = FullBit(begin, Next1(b.end))
  BY <1>5 DEF Valid, Buffer
<1> QED BY <1>3, <1>7, <1>8 DEF Sound, Valid, NotEmpty, FullBit

\* How many items there are, before and after.
LEMMA Sizes ==
  ASSUME NEW b, Valid(b)
  PROVE  /\ Size(b) \in 0 .. BUFFER_SIZE /\ Size(Cleared(b)) \in 0 .. BUFFER_SIZE - 1
         /\ b.full = 0 => Size(Cleared(b)) = Size(b)
         /\ \A x \in Slot : UpTo(b, x) \in 1 .. BUFFER_SIZE
         /\ Sound(b) /\ NotEmpty(b) => UpTo(b, b.end) = Size(b)
         /\ Sound(Cleared(b))
<1>1. b.begin \in Slot /\ b.end \in Slot /\ b.full \in {0, 1} /\ Cleared(b).begin = b.begin
      /\ Cleared(b).end = b.end /\ Cleared(b).full = 0
  BY Fields DEF Valid, Buffer, Cleared
<1>2. Sound(Cleared(b))
  BY DEF Sound, Valid, Buffer, Cleared
<1> QED BY <1>1, <1>2, KeyboardConstants DEF Size, UpTo, Slot, NotEmpty, Sound

LEMMA PushSizes ==
  ASSUME NEW b, Valid(b), NEW v \in Char,
         NEW c, c = circular_buffer_push_back(b, v)
  PROVE  /\ Sound(b) => Size(c) <= Size(b) + 1
         /\ Size(Cleared(c)) <= Size(Cleared(b)) + 1
         /\ \A x \in Slot : UpTo(c, x) <= UpTo(b, x) \/ UpTo(c, x) <= Size(b)
<1>1. b.begin \in Slot /\ b.end \in Slot /\ b.full \in {0, 1}
  BY Fields DEF Valid
<1>2. /\ c.end = Next1(b.end) /\ c.begin = (IF b.full = 0 THEN b.begin ELSE Next1(b.begin))
      /\ c.full = FullBit(c.begin, c.end) /\ Sound(c)
  BY Pushed
<1>3. /\ Next1(b.end) = IF b.end = BUFFER_SIZE - 1 THEN 0 ELSE b.end + 1
      /\ Next1(b.begin) = IF b.begin = BUFFER_SIZE - 1 THEN 0 ELSE b.begin + 1
  BY <1>1, Indexes
<1>4. /\ Cleared(b).begin = b.begin /\ Cleared(b).end = b.end /\ Cleared(b).full = 0
      /\ Cleared(c).begin = c.begin /\ Cleared(c).end = c.end /\ Cleared(c).full = 0
  BY <1>2 DEF Valid, Sound, Buffer, Cleared
<1>5. Sound(b) => Size(c) <= Size(b) + 1
  BY <1>1, <1>2, <1>3, KeyboardConstants DEF Size, Slot, FullBit, Sound
<1>6. Size(Cleared(c)) <= Size(Cleared(b)) + 1
  <2>1. /\ Size(Cleared(b)) = (IF b.begin <= b.end THEN b.end - b.begin
                                                   ELSE b.end + BUFFER_SIZE - b.begin)
        /\ Size(Cleared(c)) = (IF c.begin <= c.end THEN c.end - c.begin
                                                   ELSE c.end + BUFFER_SIZE - c.begin)
    BY <1>4 DEF Size
  <2>2. CASE b.full = 0
    BY <1>1, <1>2, <1>3, <2>1, <2>2, KeyboardConstants DEF Slot
  <2>3. CASE b.full = 1
    BY <1>1, <1>2, <1>3, <2>1, <2>3, KeyboardConstants DEF Slot
  <2> QED BY <1>1, <2>2, <2>3
<1>7. ASSUME NEW x \in Slot
      PROVE  UpTo(c, x) <= UpTo(b, x) \/ UpTo(c, x) <= Size(b)
  BY <1>1, <1>2, <1>3, KeyboardConstants DEF Size, UpTo, Slot
<1> QED BY <1>5, <1>6, <1>7

\* pop_back's store, at an end that may be out of date.
Moved(b, x) == [b EXCEPT !.end = Prev1(x)]

LEMMA Stores ==
  ASSUME NEW b, Valid(b), NEW x \in Slot
  PROVE  Valid(Moved(b, x)) /\ Size(Cleared(Moved(b, x))) < UpTo(b, x)
<1>1. b.begin \in Slot /\ Prev1(x) \in Slot /\ Prev1(x) = IF x = 0 THEN BUFFER_SIZE - 1 ELSE x - 1
  BY Fields, Indexes DEF Valid
<1>2. Valid(Moved(b, x))
  BY <1>1 DEF Moved, Valid, Buffer
<1>3. Cleared(Moved(b, x)).full = 0 /\ Cleared(Moved(b, x)).begin = b.begin
      /\ Cleared(Moved(b, x)).end = Prev1(x)
  BY DEF Moved, Valid, Buffer, Cleared
<1> QED BY <1>1, <1>2, <1>3, KeyboardConstants DEF Size, UpTo, Slot

LEMMA SameRing ==
  ASSUME NEW b
  PROVE  /\ Ring!Items(b) = Items(b)
         /\ Ring!Sound(b) <=> Sound(b)
         /\ Ring!DropBack(b) = DropBack(b)
         /\ \A v : Ring!circular_buffer_push_back(b, v) = circular_buffer_push_back(b, v)
<1>1. Ring!Slot = Slot /\ \A x : Ring!Prev1(x) = Prev1(x) /\ Ring!Next1(x) = Next1(x)
  BY DEF Ring!Slot, Slot, Ring!Prev1, Prev1, Ring!Next1, Next1
<1>2. Ring!Count(b) = Count(b)
  BY DEF Ring!Count, Count
<1>3. Ring!Items(b) = Items(b)
  BY <1>2 DEF Ring!Items, Items
<1>4. Ring!Buffer = Buffer
  BY <1>1 DEF Ring!Buffer, Buffer
<1>5. Ring!Sound(b) <=> Sound(b)
  BY <1>4 DEF Ring!Sound, Sound, Valid
<1>6. Ring!DropBack(b) = DropBack(b)
  BY <1>1 DEF Ring!DropBack, DropBack
<1>7. ASSUME NEW v
      PROVE  Ring!circular_buffer_push_back(b, v) = circular_buffer_push_back(b, v)
  BY <1>1 DEF Ring!circular_buffer_push_back, circular_buffer_push_back, Ring!Invalid, Invalid,
              Ring!FullBit, FullBit
<1> QED BY <1>3, <1>5, <1>6, <1>7

LEMMA ItemsTyped ==
  ASSUME NEW b, Sound(b)
  PROVE  Items(b) \in Seq(Char) /\ Len(Items(b)) \in Nat
<1>1. b \in Ring!Buffer
  BY DEF Sound, Valid, Ring!Buffer, Buffer, Ring!Slot, Slot
<1>2. Ring!Items(b) \in Seq(Char)
  BY <1>1, RingAssumption, Ring!ItemsAre
<1> QED BY <1>2, SameRing, LenProperties

LEMMA PushItems ==
  ASSUME NEW b, Sound(b), NEW v \in Char,
         NEW c, c = circular_buffer_push_back(b, v)
  PROVE  IF b.full = 0 THEN Items(c) = Append(Items(b), v)
         ELSE Items(c) = Tail(Append(Items(b), v)) /\ Items(b)[1] = b.ptr[b.begin]
              /\ Items(b) # <<>>
<1>1. Ring!Sound(b) /\ c = Ring!circular_buffer_push_back(b, v) /\ Ring!Items(c) = Items(c)
      /\ Ring!Items(b) = Items(b)
  BY SameRing
<1>2. CASE b.full = 0
  <2>1. Ring!Items(c) = Append(Ring!Items(b), v)
    BY <1>1, <1>2, RingAssumption, Ring!PushRoom
  <2> QED BY <1>1, <1>2, <2>1
<1>3. CASE b.full # 0
  <2>1. b.full = 1 /\ b.begin \in Slot
    BY <1>3, Fields DEF Sound, Valid
  <2>2. Ring!Items(c) = Tail(Append(Ring!Items(b), v))
    BY <1>1, <2>1, RingAssumption, Ring!PushFull
  <2>3. Items(b) = [k \in 1 .. BUFFER_SIZE |-> b.ptr[(b.begin + k - 1) % BUFFER_SIZE]]
    BY <2>1 DEF Items, Count
  <2>4. Items(b)[1] = b.ptr[(b.begin + 1 - 1) % BUFFER_SIZE] /\ Items(b) # <<>>
    BY <2>3, KeyboardConstants
  <2>5. (b.begin + 1 - 1) % BUFFER_SIZE = b.begin
    BY <2>1, KeyboardConstants DEF Slot
  <2> QED BY <1>1, <1>3, <2>2, <2>4, <2>5
<1> QED BY <1>2, <1>3

LEMMA PopItems ==
  ASSUME NEW b, Sound(b), NotEmpty(b)
  PROVE  /\ Sound(Cleared(Moved(b, b.end))) /\ Items(b) # <<>>
         /\ b.ptr[Prev1(b.end)] = Items(b)[Len(Items(b))]
         /\ Items(Cleared(Moved(b, b.end))) = SubSeq(Items(b), 1, Len(Items(b)) - 1)
<1>1. Cleared(Moved(b, b.end)) = DropBack(b)
  BY DEF Cleared, Moved, DropBack, Sound, Valid, Buffer
<1>2. Ring!circular_buffer_empty(b) = 0
  <2>1. ~Ring!Invalid(b)
    BY ValidBuffer DEF Sound, Invalid, Ring!Invalid
  <2> QED BY <2>1 DEF NotEmpty, Ring!circular_buffer_empty
<1>3. Ring!Sound(b) /\ Ring!Items(b) = Items(b) /\ Ring!DropBack(b) = DropBack(b)
      /\ Ring!Prev1(b.end) = Prev1(b.end) /\ (Ring!Sound(DropBack(b)) <=> Sound(DropBack(b)))
      /\ Ring!Items(DropBack(b)) = Items(DropBack(b))
  BY SameRing DEF Ring!Prev1, Prev1
<1>4. /\ Ring!Sound(Ring!DropBack(b)) /\ Ring!Items(b) # <<>>
      /\ b.ptr[Ring!Prev1(b.end)] = Ring!Items(b)[Len(Ring!Items(b))]
      /\ Ring!Items(Ring!DropBack(b)) = SubSeq(Ring!Items(b), 1, Len(Ring!Items(b)) - 1)
  BY <1>2, <1>3, RingAssumption, Ring!PopsBack
<1> QED BY <1>1, <1>3, <1>4

-----------------------------------------------------------------------------
(***************************************************************************)
(* Increasing sequences, as sets.                                          *)
(***************************************************************************)
AtTail(q, v) == Append(q, v)

LEMMA AppendValues ==
  ASSUME NEW S, NEW q \in Seq(S), NEW v \in S
  PROVE  Values(AtTail(q, v)) = Values(q) \cup {v}
<1>1. PICK r : r = AtTail(q, v)
  OBVIOUS
<1>2. /\ Len(q) \in Nat /\ DOMAIN q = 1 .. Len(q) /\ DOMAIN r = 1 .. Len(q) + 1
      /\ r[Len(q) + 1] = v /\ \A i \in 1 .. Len(q) : r[i] = q[i]
  <2>1. Len(q) \in Nat /\ DOMAIN q = 1 .. Len(q)
    OBVIOUS
  <2>2. /\ DOMAIN r = 1 .. Len(q) + 1 /\ r[Len(q) + 1] = v
        /\ \A i \in 1 .. Len(q) : r[i] = q[i]
    BY <1>1 DEF AtTail
  <2> QED BY <2>1, <2>2
<1>3. ASSUME NEW x PROVE x \in Values(r) <=> x \in Values(q) \cup {v}
  <2>1. ASSUME NEW i \in DOMAIN r, x = r[i] PROVE x \in Values(q) \cup {v}
    <3>1. CASE i = Len(q) + 1
      BY <1>2, <2>1, <3>1
    <3>2. CASE i # Len(q) + 1
      <4>1. i \in DOMAIN q /\ x = q[i]
        BY <1>2, <2>1, <3>2
      <4> QED BY <4>1 DEF Values
    <3> QED BY <3>1, <3>2
  <2>2. ASSUME NEW i \in DOMAIN q, x = q[i] PROVE x \in Values(r)
    <3>1. i \in DOMAIN r /\ x = r[i]
      BY <1>2, <2>2
    <3> QED BY <3>1 DEF Values
  <2>3. v \in Values(r)
    <3>1. Len(q) + 1 \in DOMAIN r
      BY <1>2
    <3> QED BY <1>2, <3>1 DEF Values
  <2> QED BY <2>1, <2>2, <2>3 DEF Values
<1> QED BY <1>1, <1>3

LEMMA AppendIncreasing ==
  ASSUME NEW q \in Seq(Nat), NEW v \in Nat, Increasing(q), \A x \in Values(q) : x < v
  PROVE  Increasing(AtTail(q, v))
<1>1. PICK r : r = AtTail(q, v)
  OBVIOUS
<1>2. /\ Len(q) \in Nat /\ DOMAIN q = 1 .. Len(q) /\ DOMAIN r = 1 .. Len(q) + 1
      /\ r[Len(q) + 1] = v /\ \A i \in 1 .. Len(q) : r[i] = q[i]
  <2>1. Len(q) \in Nat /\ DOMAIN q = 1 .. Len(q)
    OBVIOUS
  <2>2. /\ DOMAIN r = 1 .. Len(q) + 1 /\ r[Len(q) + 1] = v
        /\ \A i \in 1 .. Len(q) : r[i] = q[i]
    BY <1>1 DEF AtTail
  <2> QED BY <2>1, <2>2
<1>3. ASSUME NEW i \in DOMAIN r, NEW j \in DOMAIN r, i < j PROVE r[i] < r[j]
  <2>1. i \in 1 .. Len(q) /\ r[i] = q[i]
    BY <1>2, <1>3
  <2>2. CASE j = Len(q) + 1
    BY <1>2, <2>1, <2>2 DEF Values
  <2>3. CASE j # Len(q) + 1
    <3>1. j \in 1 .. Len(q) /\ r[j] = q[j]
      BY <1>2, <2>3
    <3> QED BY <1>2, <1>3, <2>1, <3>1 DEF Increasing
  <2> QED BY <2>2, <2>3
<1> QED BY <1>1, <1>3 DEF Increasing

LEMMA TailValues ==
  ASSUME NEW q \in Seq(Nat), q # <<>>, Increasing(q)
  PROVE  /\ Increasing(Tail(q)) /\ Values(Tail(q)) = Values(q) \ {q[1]}
         /\ Tail(q) \in Seq(Nat)
<1>1. PICK r : r = Tail(q)
  OBVIOUS
<1>2. /\ Len(q) \in Nat \ {0} /\ DOMAIN q = 1 .. Len(q) /\ r \in Seq(Nat)
      /\ Len(r) = Len(q) - 1 /\ DOMAIN r = 1 .. Len(q) - 1
      /\ \A i \in 1 .. Len(q) - 1 : r[i] = q[i + 1]
  BY <1>1, HeadTailProperties, EmptySeq
<1>3. \A i \in DOMAIN q : q[i] \in Nat
  BY <1>2
<1>4. Increasing(r)
  <2> SUFFICES ASSUME NEW i \in DOMAIN r, NEW j \in DOMAIN r, i < j PROVE r[i] < r[j]
    BY DEF Increasing
  <2>1. Len(q) \in Nat /\ i \in 1 .. Len(q) - 1 /\ j \in 1 .. Len(q) - 1
    BY <1>2
  <2>2. r[i] = q[i + 1] /\ r[j] = q[j + 1]
    BY <1>2, <2>1
  <2>3. i + 1 \in 1 .. Len(q) /\ j + 1 \in 1 .. Len(q) /\ i + 1 < j + 1
    BY <2>1
  <2>4. i + 1 \in DOMAIN q /\ j + 1 \in DOMAIN q
    BY <1>2, <2>3
  <2> QED BY <2>2, <2>3, <2>4 DEF Increasing
<1>5. ASSUME NEW x PROVE x \in Values(r) <=> x \in Values(q) \ {q[1]}
  <2>1. ASSUME NEW i \in DOMAIN r, x = r[i] PROVE x \in Values(q) \ {q[1]}
    <3>1. i + 1 \in DOMAIN q /\ 1 \in DOMAIN q /\ 1 < i + 1 /\ x = q[i + 1]
      BY <1>2, <2>1
    <3>2. q[1] < x /\ q[1] \in Nat /\ x \in Nat
      BY <1>3, <3>1 DEF Increasing
    <3> QED BY <3>1, <3>2 DEF Values
  <2>2. ASSUME NEW i \in DOMAIN q, x = q[i], x # q[1] PROVE x \in Values(r)
    <3>1. i - 1 \in DOMAIN r /\ x = r[i - 1]
      BY <1>2, <2>2
    <3> QED BY <3>1 DEF Values
  <2> QED BY <2>1, <2>2 DEF Values
<1> QED BY <1>1, <1>2, <1>4, <1>5

LEMMA FrontValues ==
  ASSUME NEW q \in Seq(Nat), q # <<>>, Increasing(q), NEW r, r = SubSeq(q, 1, Len(q) - 1)
  PROVE  /\ Increasing(r) /\ Values(r) = Values(q) \ {q[Len(q)]}
         /\ q[Len(q)] \in Values(q)
<1>1. /\ Len(q) \in Nat \ {0} /\ DOMAIN q = 1 .. Len(q) /\ DOMAIN r = 1 .. Len(q) - 1
      /\ \A i \in 1 .. Len(q) - 1 : r[i] = q[i]
  BY EmptySeq
<1>2. \A i \in DOMAIN q : q[i] \in Nat
  BY <1>1
<1>3. Increasing(r)
  BY <1>1 DEF Increasing
<1>4. Len(q) \in DOMAIN q
  BY <1>1
<1>5. ASSUME NEW x PROVE x \in Values(r) <=> x \in Values(q) \ {q[Len(q)]}
  <2>1. ASSUME NEW i \in DOMAIN r, x = r[i] PROVE x \in Values(q) \ {q[Len(q)]}
    <3>1. i \in DOMAIN q /\ i < Len(q) /\ x = q[i]
      BY <1>1, <2>1
    <3>2. x < q[Len(q)] /\ q[Len(q)] \in Nat /\ x \in Nat
      BY <1>2, <1>4, <3>1 DEF Increasing
    <3> QED BY <3>1, <3>2 DEF Values
  <2>2. ASSUME NEW i \in DOMAIN q, x = q[i], x # q[Len(q)] PROVE x \in Values(r)
    <3>1. i \in DOMAIN r /\ x = r[i]
      BY <1>1, <2>2
    <3> QED BY <3>1 DEF Values
  <2> QED BY <2>1, <2>2 DEF Values
<1> QED BY <1>3, <1>4, <1>5 DEF Values

-----------------------------------------------------------------------------
(***************************************************************************)
(* The steps of the kernel thread that write no buffer.                    *)
(***************************************************************************)
LEMMA Quiet ==
  ASSUME UNCHANGED <<keys, history>>, Stored' = Stored, Taken' = Taken
  PROVE  /\ Pressed => Pressed'
         /\ Held => Held'
         /\ InOrder => InOrder'
  BY DEF history, Pressed, Held, InOrder, Waiting, Read, KeysWith

LEMMA RegFields ==
  ASSUME TypeOK
  PROVE  /\ reg.full \in {0, 1, Unread} /\ reg.begin \in Slot \cup {Unread}
         /\ reg.stop \in Slot \cup {Unread}
         /\ reg.end \in Slot /\ reg.slot \in Slot /\ reg.char \in Char
         /\ 0 \in Slot /\ Unread \notin Slot /\ Unread \notin {0, 1}
  BY KeyboardConstants DEF TypeOK, Registers, Slot, Unread

LEMMA ReadStep == IInv /\ read_for_empty => IInv'
<1> SUFFICES ASSUME IInv, read_for_empty PROVE IInv'
  OBVIOUS
<1> USE DEF read_for_empty, ReadFull, ReadBegin, ReadEnd
<1>1. TypeOK /\ BufferOK /\ Paid
  BY DEF IInv
<1>2. pc \in {"poll", "check"} /\ pc' = pc /\ cb' = cb /\ UNCHANGED <<len, keys, kind, history>>
  OBVIOUS
<1>3. cb.full \in {0, 1} /\ cb.begin \in Slot /\ cb.end \in Slot /\ cb \in Buffer
  BY <1>1, Fields DEF BufferOK
<1>4. /\ reg' \in Registers
      /\ reg'.end = reg.end /\ reg'.slot = reg.slot /\ reg'.char = reg.char
      /\ reg'.full \in {reg.full, cb.full}
      /\ reg'.begin \in {reg.begin, cb.begin}
      /\ reg'.stop \in {reg.stop, cb.end}
  <2>1. reg \in Registers
    BY <1>1 DEF TypeOK
  <2>2. CASE ReadFull
    BY <1>3, <2>1, <2>2 DEF Registers
  <2>3. CASE ReadBegin
    BY <1>3, <2>1, <2>3 DEF Registers
  <2>4. CASE ReadEnd
    BY <1>3, <2>1, <2>4 DEF Registers
  <2> QED BY <2>2, <2>3, <2>4
<1>5. TypeOK'
  BY <1>1, <1>2, <1>4 DEF TypeOK, history
<1>6. BufferOK'
  BY <1>1, <1>2, <1>3, <1>4 DEF BufferOK, Fresh, Between, history
<1>7. Paid'
  BY <1>1, <1>2, <1>4 DEF Paid, UpToDate, Fresh, Between, history
<1>8. Stored' = Stored /\ Taken' = Taken
  BY <1>2, <1>4 DEF Stored, Taken
<1>9. (Undisturbed => Undisturbed') /\ exposed' = exposed /\ crowded' = crowded
  BY <1>2, <1>4 DEF Undisturbed, UpToDate, Fresh, history
<1> QED BY <1>1, <1>2, <1>5, <1>6, <1>7, <1>8, <1>9, Quiet DEF IInv, raced

LEMMA PollStep == IInv /\ gets_poll => IInv'
<1> SUFFICES ASSUME IInv, gets_poll PROVE IInv'
  OBVIOUS
<1> USE DEF gets_poll
<1>1. TypeOK /\ BufferOK /\ Paid
  BY DEF IInv
<1>2. /\ pc = "poll" /\ pc' \in {"poll", "entry"} /\ cb' = cb
      /\ UNCHANGED <<len, keys, kind, history>>
  OBVIOUS
<1>3. /\ reg' \in Registers
      /\ Nothing' /\ reg'.char = reg.char
  BY <1>1 DEF TypeOK, Registers, Forget, Nothing
<1>4. pc' = "entry" => NotEmpty(cb)
  BY <1>1, <1>2, RegFields DEF AllRead, SaysEmpty, BufferOK, Fresh, NotEmpty
<1>5. TypeOK'
  BY <1>1, <1>2, <1>3 DEF TypeOK, history, Labels
<1>6. BufferOK'
  BY <1>1, <1>2, <1>3, <1>4 DEF BufferOK, Fresh, Nothing, Between, history
<1>7. Paid'
  BY <1>1, <1>2 DEF Paid, Between, history
<1>8. Stored' = Stored /\ Taken' = Taken
  BY <1>2 DEF Stored, Taken, Between
<1>9. Undisturbed' /\ exposed' = exposed /\ crowded' = crowded
  BY <1>2 DEF Undisturbed, history
<1> QED BY <1>1, <1>2, <1>5, <1>6, <1>7, <1>8, <1>9, Quiet DEF IInv, raced

LEMMA EntryStep == IInv /\ pop_back_entry => IInv'
<1> SUFFICES ASSUME IInv, pop_back_entry PROVE IInv'
  OBVIOUS
<1> USE DEF pop_back_entry
<1>1. TypeOK /\ BufferOK /\ Paid
  BY DEF IInv
<1>2. /\ pc = "entry" /\ pc' = "check" /\ cb' = cb
      /\ UNCHANGED <<len, keys, kind, history>>
  OBVIOUS
<1>3. Sound(cb) /\ NotEmpty(cb) /\ cb.end \in Slot
  BY <1>1, <1>2, Fields DEF BufferOK, Sound, Valid, Between
<1>4. /\ reg' \in Registers
      /\ Nothing' /\ reg'.char = reg.char /\ reg'.end = cb.end
  BY <1>1, <1>2, <1>3 DEF TypeOK, Registers, BufferOK, Nothing
<1>5. TypeOK'
  BY <1>1, <1>2, <1>4 DEF TypeOK, history, Labels, InPop
<1>6. BufferOK'
  BY <1>1, <1>2, <1>4 DEF BufferOK, Between, history
<1>7. (NotEmpty(cb) /\ UpToDate)'
  BY <1>2, <1>3, <1>4 DEF UpToDate, Fresh, Nothing, NotEmpty
<1>8. Paid'
  <2>1. UpTo(cb, cb.end) = Size(cb)
    BY <1>3, Sizes DEF Sound
  <2> QED BY <1>1, <1>2, <1>4, <1>7, <2>1 DEF Paid, Between, history
<1>9. Stored' = Stored /\ Taken' = Taken
  BY <1>2 DEF Stored, Taken, Between
<1>10. Undisturbed' /\ exposed' = exposed /\ crowded' = crowded
  BY <1>2, <1>7 DEF Undisturbed, history
<1> QED BY <1>1, <1>2, <1>5, <1>6, <1>8, <1>9, <1>10, Quiet DEF IInv, raced

LEMMA CheckStep == IInv /\ pop_back_check => IInv'
<1> SUFFICES ASSUME IInv, pop_back_check PROVE IInv'
  OBVIOUS
<1> USE DEF pop_back_check
<1>1. TypeOK /\ BufferOK /\ Paid
  BY DEF IInv
<1>2. /\ pc = "check" /\ pc' \in {"reload", "deliver"} /\ cb' = cb
      /\ UNCHANGED <<len, keys, kind, history>>
  OBVIOUS
<1>3. NotEmpty(cb) /\ cb.full \in {0, 1}
  BY <1>1, <1>2, Fields DEF BufferOK
<1>4. /\ reg' \in Registers
      /\ Nothing' /\ reg'.end = reg.end
      /\ pc' = "reload" => reg'.char = reg.char
  BY <1>1, KeyFacts DEF TypeOK, Registers, Forget, Nothing
<1>5. pc' = "deliver" => ~UpToDate
  BY <1>1, <1>2, <1>3, RegFields DEF AllRead, SaysEmpty, UpToDate, Fresh, NotEmpty
<1>6. TypeOK'
  BY <1>1, <1>2, <1>4 DEF TypeOK, history, Labels, InPop
<1>7. BufferOK'
  BY <1>1, <1>2, <1>3 DEF BufferOK, Between, history
<1>8. Paid'
  BY <1>1, <1>2, <1>4, <1>5 DEF Paid, Between, history
<1>9. exposed' = exposed /\ crowded' = crowded
  BY <1>2 DEF history
<1>10. Pressed => Pressed'
  BY <1>2 DEF Pressed, history
<1>11. ASSUME ~raced
       PROVE  Held' /\ Undisturbed' /\ (~crowded => InOrder')
  <2>1. Held /\ Undisturbed /\ (~crowded => InOrder)
    BY <1>11 DEF IInv
  <2>2. UpToDate /\ pc' = "reload"
    BY <1>2, <1>5, <2>1 DEF Undisturbed
  <2>3. Stored' = Stored /\ Taken' = Taken
    BY <1>2, <2>2 DEF Stored, Taken, Between
  <2>4. Undisturbed'
    BY <1>2, <1>4, <2>2 DEF Undisturbed, UpToDate, Fresh, Nothing
  <2> QED BY <1>2, <2>1, <2>3, <2>4, Quiet
<1> QED BY <1>6, <1>7, <1>8, <1>9, <1>10, <1>11 DEF IInv, raced

LEMMA FetchStep == IInv /\ pop_back_fetch => IInv'
<1> SUFFICES ASSUME IInv, pop_back_fetch PROVE IInv'
  OBVIOUS
<1>1. TypeOK /\ BufferOK /\ Paid
  BY DEF IInv
<1>2. /\ pc = "fetch" /\ pc' = "test" /\ cb' = cb
      /\ UNCHANGED <<len, keys, kind, history>>
  BY DEF pop_back_fetch
<1>3. reg' = [reg EXCEPT !.char = cb.ptr[reg.slot]]
  BY DEF pop_back_fetch
<1>4. cb.ptr[reg.slot] \in Char
  BY <1>1, RegFields, Fields DEF BufferOK
<1>5. /\ reg' \in Registers
      /\ reg'.char = cb.ptr[reg.slot]
  BY <1>1, <1>3, <1>4 DEF TypeOK, Registers
<1>6. TypeOK'
  BY <1>1, <1>2, <1>5 DEF TypeOK, history, Labels, InPop
<1>7. BufferOK'
  BY <1>1, <1>2 DEF BufferOK, Between, history
<1>8. Paid'
  BY <1>1, <1>2 DEF Paid, Between, history
<1>9. exposed' = exposed /\ crowded' = crowded
  BY <1>2 DEF history
<1>10. Pressed => Pressed'
  BY <1>2 DEF Pressed, history
<1>11. ASSUME ~raced
       PROVE  Held' /\ Undisturbed' /\ (~crowded => InOrder')
  <2>1. Held /\ Undisturbed /\ (~crowded => InOrder)
    BY <1>11 DEF IInv
  <2>2. reg.slot = cb.end
    BY <1>2, <2>1 DEF Undisturbed
  <2>3. Stored' = Stored /\ Taken' = Taken
    BY <1>2, <1>5, <2>2 DEF Stored, Taken, Between
  <2>4. Undisturbed'
    BY <1>2 DEF Undisturbed
  <2> QED BY <1>2, <2>1, <2>3, <2>4, Quiet
<1> QED BY <1>6, <1>7, <1>8, <1>9, <1>10, <1>11 DEF IInv, raced

LEMMA ReloadStep == IInv /\ pop_back_reload => IInv'
<1> SUFFICES ASSUME IInv, pop_back_reload PROVE IInv'
  OBVIOUS
<1>1. TypeOK /\ BufferOK /\ Paid
  BY DEF IInv
<1>2. /\ pc = "reload" /\ pc' = "store" /\ cb' = cb
      /\ UNCHANGED <<len, keys, kind, history>>
  BY DEF pop_back_reload
<1>3. PICK end \in {reg.end, cb.end} : reg' = [reg EXCEPT !.end = end]
  BY DEF pop_back_reload
<1>4. Sound(cb) /\ Valid(cb) /\ NotEmpty(cb) /\ end \in Slot
  BY <1>1, <1>2, RegFields, Fields DEF BufferOK, Sound, Valid, Between
<1>5. /\ reg' \in Registers /\ reg'.end = end /\ reg'.full = reg.full
      /\ reg'.begin = reg.begin /\ reg'.stop = reg.stop /\ reg'.char = reg.char
  BY <1>1, <1>3, <1>4 DEF TypeOK, Registers
<1>6. TypeOK'
  BY <1>1, <1>2, <1>5 DEF TypeOK, history, Labels, InPop
<1>7. BufferOK'
  BY <1>1, <1>2 DEF BufferOK, Between, history
<1>8. Paid'
  <2>1. UpTo(cb, cb.end) = Size(cb)
    BY <1>4, Sizes
  <2>2. Len(delivered) + UpTo(cb, end) <= 2 * keys
    BY <1>1, <1>2, <1>3, <2>1 DEF Paid, Between
  <2> QED BY <1>1, <1>2, <1>5, <2>2 DEF Paid, Between, history
<1>9. Stored' = Stored /\ Taken' = Taken
  BY <1>2 DEF Stored, Taken, Between
<1>10. (Undisturbed => Undisturbed') /\ exposed' = exposed /\ crowded' = crowded
  BY <1>2, <1>3, <1>5 DEF Undisturbed, UpToDate, Fresh, history
<1> QED BY <1>1, <1>2, <1>6, <1>7, <1>8, <1>9, <1>10, Quiet DEF IInv, raced

LEMMA AimStep == IInv /\ pop_back_aim => IInv'
<1> SUFFICES ASSUME IInv, pop_back_aim PROVE IInv'
  OBVIOUS
<1>1. TypeOK /\ BufferOK /\ Paid
  BY DEF IInv
<1>2. /\ pc = "aim" /\ pc' = "fetch" /\ cb' = cb
      /\ UNCHANGED <<len, keys, kind, history>>
  BY DEF pop_back_aim
<1>3. PICK slot \in {reg.slot, cb.end} : reg' = [reg EXCEPT !.slot = slot]
  BY DEF pop_back_aim
<1>4. slot \in Slot
  BY <1>1, RegFields, Fields DEF BufferOK
<1>5. reg' \in Registers /\ reg'.slot = slot
  BY <1>1, <1>3, <1>4 DEF TypeOK, Registers
<1>6. TypeOK'
  BY <1>1, <1>2, <1>5 DEF TypeOK, history, Labels, InPop
<1>7. BufferOK'
  BY <1>1, <1>2 DEF BufferOK, Between, history
<1>8. Paid'
  BY <1>1, <1>2 DEF Paid, Between, history
<1>9. Stored' = Stored /\ Taken' = Taken
  BY <1>2 DEF Stored, Taken, Between
<1>10. (Undisturbed => Undisturbed') /\ exposed' = exposed /\ crowded' = crowded
  BY <1>2, <1>3, <1>5 DEF Undisturbed, history
<1> QED BY <1>1, <1>2, <1>6, <1>7, <1>8, <1>9, <1>10, Quiet DEF IInv, raced

LEMMA TestStep == IInv /\ pop_back_test => IInv'
<1> SUFFICES ASSUME IInv, pop_back_test PROVE IInv'
  OBVIOUS
<1> USE DEF pop_back_test
<1>1. TypeOK /\ BufferOK /\ Paid
  BY DEF IInv
<1>2. /\ pc = "test" /\ pc' = (IF cb.full = 1 THEN "clear" ELSE "deliver") /\ cb' = cb
      /\ reg' = reg /\ UNCHANGED <<len, keys, kind, history>>
  OBVIOUS
<1>3. Valid(cb) /\ cb.full \in {0, 1}
  BY <1>1, <1>2, Fields DEF BufferOK, Valid
<1>4. cb.full = 0 => Cleared(cb) = cb
  BY <1>3 DEF Valid, Buffer, Cleared
<1>5. TypeOK'
  BY <1>1, <1>2 DEF TypeOK, history, Labels, InPop
<1>6. BufferOK'
  BY <1>1, <1>2, <1>3 DEF BufferOK, Between, history
<1>7. Paid'
  BY <1>1, <1>2, <1>3, <1>4 DEF Paid, Between, history
<1>8. Stored' = Stored /\ Taken' = Taken
  BY <1>2, <1>3, <1>4 DEF Stored, Taken, Between
<1>9. Undisturbed' /\ exposed' = exposed /\ crowded' = crowded
  BY <1>2 DEF Undisturbed, history
<1> QED BY <1>1, <1>2, <1>5, <1>6, <1>7, <1>8, <1>9, Quiet DEF IInv, raced

-----------------------------------------------------------------------------
(***************************************************************************)
(* The steps of the kernel thread that write the buffer.                   *)
(***************************************************************************)
LEMMA InitStep == IInv /\ init_keyboard => IInv'
<1> SUFFICES ASSUME IInv, init_keyboard PROVE IInv'
  OBVIOUS
<1> USE DEF init_keyboard
<1>1. TypeOK /\ BufferOK /\ Paid
  BY DEF IInv
<1>2. /\ pc = "boot" /\ pc' = "poll" /\ reg' = reg /\ UNCHANGED <<len, keys, kind, history>>
      /\ cb' = [cb EXCEPT !.begin = 0, !.end = 0, !.capacity = BUFFER_SIZE, !.full = 0]
  BY DEF circular_buffer_create
<1>3. /\ cb'.ptr = cb.ptr /\ cb'.begin = cb.begin /\ cb'.end = cb.end /\ cb'.full = cb.full
      /\ cb'.full = 0 /\ cb'.capacity = BUFFER_SIZE
  <2>1. cb = Zeroed /\ cb \in Buffer
    BY <1>1, <1>2 DEF BufferOK
  <2>2. cb.begin = 0 /\ cb.end = 0 /\ cb.full = 0
    BY <2>1 DEF Zeroed
  <2> QED BY <1>2, <2>1, <2>2 DEF Buffer
<1>4. cb' \in Buffer
  <2>1. cb \in Buffer /\ 0 \in Slot
    BY <1>1, RegFields DEF BufferOK
  <2> QED BY <1>2, <2>1 DEF Buffer
<1>5. TypeOK'
  BY <1>1, <1>2, <1>4 DEF TypeOK, history, Labels
<1>6. BufferOK'
  BY <1>1, <1>2, <1>3, <1>4 DEF BufferOK, Fresh, Nothing, Between, history
<1>7. Size(cb') = Size(cb) /\ Items(cb') = Items(cb)
  BY <1>3 DEF Size, Items, Count
<1>8. Paid'
  BY <1>1, <1>2, <1>7 DEF Paid, Between, history
<1>9. Stored' = Stored /\ Taken' = Taken
  BY <1>2, <1>7 DEF Stored, Taken, Between
<1>10. Undisturbed' /\ exposed' = exposed /\ crowded' = crowded
  BY <1>2 DEF Undisturbed, history
<1> QED BY <1>1, <1>2, <1>5, <1>6, <1>8, <1>9, <1>10, Quiet DEF IInv, raced

LEMMA ClearStep == IInv /\ pop_back_clear => IInv'
<1> SUFFICES ASSUME IInv, pop_back_clear PROVE IInv'
  OBVIOUS
<1> USE DEF pop_back_clear
<1>1. TypeOK /\ BufferOK /\ Paid
  BY DEF IInv
<1>2. /\ pc = "clear" /\ pc' = "deliver" /\ cb' = Cleared(cb)
      /\ reg' = reg /\ UNCHANGED <<len, keys, kind, history>>
  BY DEF Cleared
<1>3. Valid(cb)
  BY <1>1, <1>2 DEF BufferOK, Valid
<1>4. Valid(cb') /\ cb'.full = 0
  BY <1>2, <1>3 DEF Valid, Buffer, Cleared
<1>5. TypeOK'
  BY <1>1, <1>2, <1>4 DEF TypeOK, history, Labels, InPop, Valid
<1>6. BufferOK'
  BY <1>1, <1>2, <1>4 DEF BufferOK, Between, history, Valid
<1>7. Paid'
  BY <1>1, <1>2 DEF Paid, Between, history
<1>8. Stored' = Stored /\ Taken' = Taken
  BY <1>2 DEF Stored, Taken, Between
<1>9. Undisturbed' /\ exposed' = exposed /\ crowded' = crowded
  BY <1>2 DEF Undisturbed, history
<1> QED BY <1>1, <1>2, <1>5, <1>6, <1>7, <1>8, <1>9, Quiet DEF IInv, raced

LEMMA Numbers ==
  ASSUME NEW b, Sound(b)
  PROVE  Items(b) \in Seq(Nat) /\ Len(Items(b)) \in Nat
<1>1. Char \subseteq Nat
  BY KeyFacts, KeyboardConstants DEF Char, NoChar, Two
<1>2. Items(b) \in Seq(Char)
  BY ItemsTyped
<1>3. Items(b) \in Seq(Nat)
  <2>1. Len(Items(b)) \in Nat /\ Items(b) \in [1 .. Len(Items(b)) -> Char]
    BY <1>2
  <2>2. Items(b) \in [1 .. Len(Items(b)) -> Nat]
    BY <1>1, <2>1
  <2> QED BY <2>1, <2>2
<1> QED BY <1>3

LEMMA StoreStep == IInv /\ pop_back_store => IInv'
<1> SUFFICES ASSUME IInv, pop_back_store PROVE IInv'
  OBVIOUS
<1>1. TypeOK /\ BufferOK /\ Paid
  BY DEF IInv
<1>2. /\ pc = "store" /\ pc' = "aim" /\ UNCHANGED <<len, keys, kind, history>>
  BY DEF pop_back_store
<1>3. PICK end : /\ end = reg.end
                 /\ cb' = Moved(cb, end) /\ reg' = [reg EXCEPT !.slot = Prev1(end)]
  BY DEF pop_back_store, Moved
<1>4. Sound(cb) /\ Valid(cb) /\ NotEmpty(cb) /\ cb.end \in Slot /\ end \in Slot
  BY <1>1, <1>2, <1>3, RegFields, Fields DEF BufferOK, Sound, Valid, Between
<1>5. Valid(cb') /\ cb'.ptr = cb.ptr /\ cb'.end = Prev1(end) /\ Prev1(end) \in Slot
  BY <1>3, <1>4, Stores, Indexes DEF Moved, Valid, Buffer
<1>6. reg' \in Registers
      /\ reg'.slot = Prev1(end)
  BY <1>1, <1>3, <1>5 DEF TypeOK, Registers
<1>7. TypeOK'
  BY <1>1, <1>2, <1>5, <1>6 DEF TypeOK, history, Labels, InPop, Valid
<1>8. BufferOK'
  BY <1>2, <1>5 DEF BufferOK, Between, Valid
<1>9. Paid'
  <2>1. Size(Cleared(cb')) < UpTo(cb, end)
    BY <1>3, <1>4, Stores
  <2>2. Len(delivered) + UpTo(cb, end) <= 2 * keys
    BY <1>1, <1>2, <1>3 DEF Paid
  <2>3. /\ UpTo(cb, end) \in Nat /\ Size(Cleared(cb')) \in Nat /\ Len(delivered) \in Nat
        /\ keys \in Nat
    <3>1. UpTo(cb, end) \in 1 .. BUFFER_SIZE
      BY <1>4, Sizes
    <3>2. Size(Cleared(cb')) \in 0 .. BUFFER_SIZE - 1
      BY <1>5, Sizes
    <3>3. delivered \in Seq(Char) /\ keys \in 0 .. MaxKeys
      BY <1>1 DEF TypeOK
    <3> QED BY <3>1, <3>2, <3>3, KeyboardConstants
  <2>4. Len(delivered) + Size(Cleared(cb')) < 2 * keys
    BY <2>1, <2>2, <2>3
  <2> QED BY <1>1, <1>2, <2>4 DEF Paid, Between, history
<1>10. exposed' = exposed /\ crowded' = crowded
  BY <1>2 DEF history
<1>11. Pressed => Pressed'
  BY <1>2 DEF Pressed, history
<1>12. ASSUME ~raced
       PROVE  Held' /\ Undisturbed' /\ (~crowded => InOrder')
  <2>1. Held /\ Undisturbed /\ (~crowded => InOrder)
    BY <1>12 DEF IInv
  <2>2. end = cb.end
    BY <1>2, <1>3, <2>1 DEF Undisturbed, UpToDate
  <2>3. PICK q : q = Items(cb)
    OBVIOUS
  <2>4. Stored = q /\ Taken = {} /\ Increasing(q) /\ q \in Seq(Nat)
    BY <1>2, <1>4, <2>1, <2>3, Numbers DEF Stored, Taken, Between, Held
  <2>5. /\ q # <<>> /\ cb.ptr[Prev1(cb.end)] = q[Len(q)]
        /\ Items(Cleared(cb')) = SubSeq(q, 1, Len(q) - 1)
    BY <1>3, <1>4, <2>2, <2>3, PopItems
  <2>6. Stored' = SubSeq(q, 1, Len(q) - 1) /\ Taken' = {q[Len(q)]}
    <3>1. Stored' = Items(Cleared(cb')) /\ Taken' = {cb'.ptr[cb'.end]}
      BY <1>2 DEF Stored, Taken, Between
    <3>2. cb'.ptr[cb'.end] = cb.ptr[Prev1(cb.end)]
      BY <1>5, <2>2
    <3> QED BY <2>5, <3>1, <3>2
  <2>7. Increasing(Stored') /\ Values(Stored') = Values(q) \ {q[Len(q)]} /\ q[Len(q)] \in Values(q)
    BY <2>4, <2>5, <2>6, FrontValues
  <2>8. Waiting' = Waiting /\ Read' = Read /\ delivered' = delivered
    BY <1>2 DEF Waiting, Read, KeysWith, history
  <2>9. Held'
    BY <2>1, <2>4, <2>6, <2>7, <2>8 DEF Held
  <2>10. InOrder => InOrder'
    BY <2>8 DEF InOrder
  <2>11. Undisturbed'
    BY <1>2, <1>5, <1>6 DEF Undisturbed
  <2> QED BY <2>1, <2>9, <2>10, <2>11
<1> QED BY <1>7, <1>8, <1>9, <1>10, <1>11, <1>12 DEF IInv, raced

LEMMA OneWaits ==
  ASSUME NEW S, S \subseteq Key, Cardinality(S) <= 1, NEW c \in S
  PROVE  S = {c}
<1>1. IsFiniteSet(S)
  BY KeyFacts, FS_Subset
<1>2. IsFiniteSet(S \ {c}) /\ Cardinality(S \ {c}) = Cardinality(S) - 1 /\ Cardinality(S) \in Nat
      /\ Cardinality(S \ {c}) \in Nat
  BY <1>1, FS_RemoveElement, FS_CardinalityType
<1>3. Cardinality(S \ {c}) = 0
  BY <1>2
<1>4. S \ {c} = {}
  BY <1>2, <1>3, FS_EmptySet
<1> QED BY <1>4

LEMMA DeliverStep == IInv /\ gets_deliver => IInv'
<1> SUFFICES ASSUME IInv, gets_deliver PROVE IInv'
  OBVIOUS
<1>1. TypeOK /\ BufferOK /\ Paid
  BY DEF IInv
<1>2. /\ pc = "deliver" /\ pc' = "poll" /\ cb' = cb /\ delivered' = AtTail(delivered, reg.char)
      /\ len' = NewLength(KindOf(reg.char)) /\ reg' = NothingRead
      /\ fate' = [k \in Key |-> IF k = reg.char THEN "read" ELSE fate[k]]
      /\ UNCHANGED <<cb, keys, kind, exposed, crowded>>
  BY DEF gets_deliver, AtTail
<1>3. reg.char \in Char /\ delivered \in Seq(Char) /\ keys \in Nat /\ keys <= MaxKeys
      /\ fate \in [Key -> Fates] /\ Len(delivered) \in Nat
  BY <1>1, RegFields, KeyboardConstants DEF TypeOK
<1>4. delivered' \in Seq(Char) /\ Len(delivered') = Len(delivered) + 1
  BY <1>2, <1>3 DEF AtTail
<1>5. Valid(cb) /\ Size(cb) \in Nat
  <2>1. Valid(cb)
    BY <1>1, <1>2 DEF BufferOK, Valid
  <2> QED BY <2>1, Sizes, KeyboardConstants
<1>6. Len(delivered) + Size(cb) < 2 * keys
  BY <1>1, <1>2 DEF Paid
<1>7. len' \in Nat /\ len' <= len + 1 /\ len \in Nat /\ len <= Len(delivered)
  BY <1>1, <1>2, KeyboardConstants DEF NewLength, TypeOK, Paid
<1>8. TypeOK'
  <2>1. len' <= 2 * MaxKeys
    BY <1>3, <1>5, <1>6, <1>7, KeyboardConstants
  <2>2. len' \in 0 .. 2 * MaxKeys
    BY <1>7, <2>1, KeyboardConstants
  <2>3. fate' \in [Key -> Fates]
    BY <1>2, <1>3 DEF Fates
  <2>4. NothingRead \in Registers
    BY RegFields, <1>1, KeyFacts DEF NothingRead, Registers
  <2> QED BY <1>1, <1>2, <1>4, <2>2, <2>3, <2>4 DEF TypeOK, Labels
<1>9. BufferOK'
  BY <1>1, <1>2 DEF BufferOK, Fresh, Between, NothingRead
<1>10. Paid'
  BY <1>2, <1>3, <1>4, <1>5, <1>6, <1>7 DEF Paid, Between
<1>11. ASSUME ~raced
       PROVE  Held' /\ Undisturbed' /\ Pressed' /\ (~crowded => InOrder')
  <2>1. Held /\ Undisturbed /\ Pressed /\ (~crowded => InOrder)
    BY <1>11 DEF IInv
  <2>2. PICK c : c = reg.char
    OBVIOUS
  <2>3. Stored' = Stored /\ Taken = {c} /\ Taken' = {}
    BY <1>2, <2>2 DEF Stored, Taken, Between
  <2>4. c \in Waiting /\ c \in Key /\ c \in Nat /\ c \notin Read /\ Waiting \subseteq Key
        /\ Read \subseteq Key
    BY <2>1, <2>3, KeyFacts DEF Held, Waiting, Read, KeysWith
  <2>5. Waiting' = Waiting \ {c} /\ Read' = Read \cup {c}
    BY <1>2, <2>2, <2>4 DEF Waiting, Read, KeysWith
  <2>6. Values(delivered') = Values(delivered) \cup {c}
    BY <1>2, <1>3, <2>2, AppendValues
  <2>7. IsFiniteSet(Read) /\ Cardinality(Read \cup {c}) = Cardinality(Read) + 1
    <3>1. IsFiniteSet(Read)
      BY <2>4, KeyFacts, FS_Subset
    <3> QED BY <2>4, <3>1, FS_AddElement
  <2>8. Held'
    BY <1>4, <2>1, <2>3, <2>5, <2>6, <2>7 DEF Held
  <2>9. Undisturbed'
    BY <1>2 DEF Undisturbed
  <2>10. Pressed'
    BY <1>2, <2>1, <2>2, <2>4 DEF Pressed, Waiting, KeysWith
  <2>11. ASSUME ~crowded PROVE InOrder'
    <3>1. InOrder /\ Waiting = {c}
      BY <2>1, <2>4, <2>11, OneWaits DEF InOrder
    <3>2. delivered \in Seq(Nat)
      <4>1. ASSUME NEW i \in 1 .. Len(delivered) PROVE delivered[i] \in Nat
        <5>1. delivered[i] \in Values(delivered)
          BY <1>3 DEF Values
        <5>2. Values(delivered) \subseteq Nat
          BY <2>1, <2>4, KeyFacts DEF Held
        <5> QED BY <5>1, <5>2
      <4>2. delivered \in [1 .. Len(delivered) -> Nat]
        BY <1>3, <4>1
      <4> QED BY <1>3, <4>2
    <3>3. Increasing(delivered) /\ \A x \in Values(delivered) : x < c
      BY <2>1, <3>1 DEF InOrder, Held
    <3>4. Increasing(delivered')
      BY <1>2, <2>2, <2>4, <3>2, <3>3, AppendIncreasing
    <3>5. Waiting' = {} /\ Cardinality({}) = 0
      BY <2>5, <3>1, FS_EmptySet
    <3> QED BY <3>4, <3>5 DEF InOrder
  <2> QED BY <2>8, <2>9, <2>10, <2>11
<1> QED BY <1>2, <1>8, <1>9, <1>10, <1>11 DEF IInv, raced

-----------------------------------------------------------------------------
(***************************************************************************)
(* The interrupt handler.                                                  *)
(***************************************************************************)
\* A push of a key later than all in the buffer: it is the newest item, and
\* only the item it overwrites is gone.
LEMMA PushHeld ==
  ASSUME NEW b, Sound(b), NEW key \in Key, Increasing(Items(b)),
         \A x \in Values(Items(b)) : x < key,
         NEW c, c = circular_buffer_push_back(b, key)
  PROVE  /\ Increasing(Items(c))
         /\ b.full = 0 => Values(Items(c)) = Values(Items(b)) \cup {key}
         /\ b.full # 0 => /\ Values(Items(c)) = (Values(Items(b)) \ {b.ptr[b.begin]}) \cup {key}
                          /\ b.ptr[b.begin] \in Values(Items(b))
<1>1. PICK q : q = Items(b)
  OBVIOUS
<1>2. q \in Seq(Nat) /\ key \in Nat /\ key \in Char
  BY <1>1, Numbers, KeyFacts
<1>3. PICK r : r = AtTail(q, key)
  OBVIOUS
<1>4. Increasing(r)
  BY <1>1, <1>2, <1>3, AppendIncreasing
<1>5. Values(r) = Values(q) \cup {key}
  BY <1>2, <1>3, AppendValues
<1>6. CASE b.full = 0
  <2>1. Items(c) = r
    BY <1>1, <1>2, <1>3, <1>6, PushItems DEF AtTail
  <2> QED BY <1>1, <1>4, <1>5, <1>6, <2>1
<1>7. CASE b.full # 0
  <2>1. Items(c) = Tail(r) /\ q[1] = b.ptr[b.begin] /\ q # <<>>
    BY <1>1, <1>2, <1>3, <1>7, PushItems DEF AtTail
  <2>2. Len(q) \in Nat \ {0} /\ 1 \in DOMAIN q
    BY <1>2, <2>1, EmptySeq
  <2>3. r \in Seq(Nat) /\ r # <<>> /\ r[1] = q[1]
    BY <1>2, <1>3, <2>2 DEF AtTail
  <2>4. q[1] \in Values(q) /\ q[1] # key
    <3>1. q[1] \in Values(q)
      BY <2>2 DEF Values
    <3>2. q[1] < key /\ q[1] \in Nat
      BY <1>1, <1>2, <2>2, <3>1
    <3> QED BY <1>2, <3>1, <3>2
  <2>5. Increasing(Tail(r)) /\ Values(Tail(r)) = Values(r) \ {r[1]}
    BY <1>4, <2>3, TailValues
  <2>6. Values(Tail(r)) = (Values(q) \ {q[1]}) \cup {key}
    BY <1>5, <2>3, <2>4, <2>5
  <2> QED BY <1>1, <1>7, <2>1, <2>4, <2>5, <2>6
<1> QED BY <1>6, <1>7

LEMMA PressStep == ASSUME NEW what \in Kinds
                   PROVE  IInv /\ keyboard_handler(what) => IInv'
<1> SUFFICES ASSUME IInv, keyboard_handler(what) PROVE IInv'
  OBVIOUS
<1>1. TypeOK /\ BufferOK /\ Paid
  BY DEF IInv
<1>2. PICK key : key = keys + 1
  OBVIOUS
<1>3. /\ keys < MaxKeys /\ keys' = key /\ kind' = [kind EXCEPT ![key] = what]
      /\ cb' = circular_buffer_push_back(cb, key)
      /\ fate' = [k \in Key |-> IF k = key THEN (IF Invalid(cb) THEN "ignored" ELSE "waiting")
                                ELSE IF k \in Lost THEN "overwritten" ELSE fate[k]]
      /\ exposed' = exposed \cup (IF pc \in InPop THEN {k \in Key : fate'[k] = "waiting"} ELSE {})
      /\ crowded' = (crowded \/ Cardinality({k \in Key : fate'[k] = "waiting"}) > 1)
      /\ pc' = pc /\ reg' = reg /\ len' = len /\ delivered' = delivered
  BY <1>2 DEF keyboard_handler, thread
<1>4. keys \in Nat /\ key \in Key /\ key \in Char /\ Len(delivered) \in Nat
      /\ delivered \in Seq(Char) /\ fate \in [Key -> Fates]
  BY <1>1, <1>2, <1>3, KeyFacts, KeyboardConstants DEF TypeOK, Key
<1>5. pc = "boot" => /\ cb' = cb /\ Lost = {} /\ Invalid(cb) /\ Size(cb) = 0
                     /\ Len(delivered) = 0
  <2> SUFFICES ASSUME pc = "boot"
               PROVE  /\ cb' = cb /\ Lost = {} /\ Invalid(cb) /\ Size(cb) = 0
                      /\ Len(delivered) = 0
    OBVIOUS
  <2>1. cb = Zeroed /\ delivered = <<>>
    BY <1>1 DEF BufferOK
  <2>2. cb.capacity = 0 /\ cb.full = 0 /\ cb.begin = 0 /\ cb.end = 0
    BY <2>1 DEF Zeroed
  <2> QED BY <1>3, <2>1, <2>2 DEF circular_buffer_push_back, Lost, Invalid, Size
<1>6. ASSUME pc # "boot"
      PROVE  /\ Valid(cb) /\ ~Invalid(cb) /\ Sound(cb') /\ Valid(cb') /\ NotEmpty(cb')
             /\ pc \notin Between => Sound(cb)
  <2>1. Valid(cb) /\ (pc \notin Between => Sound(cb))
    BY <1>1, <1>6 DEF BufferOK, Valid, Sound
  <2>2. Sound(cb') /\ NotEmpty(cb')
    BY <1>3, <1>4, <2>1, Pushed
  <2> QED BY <2>1, <2>2, ValidBuffer DEF Sound
<1>7. TypeOK'
  <2>1. cb' \in Buffer
    BY <1>1, <1>5, <1>6 DEF TypeOK, Valid
  <2>2. kind' \in [Key -> Kinds] /\ fate' \in [Key -> Fates]
    BY <1>1, <1>3, <1>4 DEF TypeOK, Fates
  <2>3. keys' \in 0 .. MaxKeys
    BY <1>3, <1>4 DEF Key
  <2>4. exposed' \subseteq Key
    BY <1>1, <1>3 DEF TypeOK
  <2>5. crowded' \in BOOLEAN
    BY <1>3
  <2> QED BY <1>1, <1>3, <2>1, <2>2, <2>3, <2>4, <2>5 DEF TypeOK
<1>8. BufferOK'
  <2>1. CASE pc = "boot"
    BY <1>1, <1>3, <1>5, <2>1 DEF BufferOK, Nothing
  <2>2. CASE pc # "boot"
    BY <1>1, <1>3, <1>6, <2>2 DEF BufferOK, Nothing, Sound, Valid
  <2> QED BY <2>1, <2>2
<1>9. Paid'
  <2>1. len' <= Len(delivered') /\ Len(delivered') = Len(delivered) /\ keys' = keys + 1
    BY <1>1, <1>2, <1>3 DEF Paid
  <2>2. CASE pc = "boot"
    BY <1>3, <1>4, <1>5, <2>1, <2>2 DEF Paid, Between
  <2>3. ASSUME pc # "boot"
        PROVE  /\ Size(cb') \in Nat /\ Size(cb) \in Nat /\ Size(Cleared(cb)) \in Nat
               /\ Size(Cleared(cb')) \in Nat
               /\ UpTo(cb, reg.end) \in Nat /\ UpTo(cb', reg.end) \in Nat
               /\ pc \notin Between => Size(cb') <= Size(cb) + 1
               /\ Size(Cleared(cb')) <= Size(Cleared(cb)) + 1
               /\ UpTo(cb', reg.end) <= UpTo(cb, reg.end) \/ UpTo(cb', reg.end) <= Size(cb)
    <3>1. reg.end \in Slot
      BY <1>1, RegFields
    <3>2. /\ pc \notin Between => Size(cb') <= Size(cb) + 1
          /\ Size(Cleared(cb')) <= Size(Cleared(cb)) + 1
          /\ UpTo(cb', reg.end) <= UpTo(cb, reg.end) \/ UpTo(cb', reg.end) <= Size(cb)
      BY <1>3, <1>4, <1>6, <2>3, <3>1, PushSizes
    <3> QED BY <1>6, <2>3, <3>1, <3>2, Sizes, KeyboardConstants
  <2>4. CASE pc \in Between
    <3>1. pc # "boot" /\ Len(delivered) + Size(Cleared(cb)) < 2 * keys
      BY <1>1, <2>4 DEF Between, Paid
    <3>2. Len(delivered) + Size(Cleared(cb')) < 2 * (keys + 1)
      BY <1>4, <2>3, <3>1
    <3> QED BY <1>3, <2>1, <2>4, <3>2 DEF Paid, Between
  <2>5. CASE pc = "deliver"
    <3>1. pc # "boot" /\ pc \notin Between /\ Len(delivered) + Size(cb) < 2 * keys
      BY <1>1, <2>5 DEF Between, Paid
    <3>2. Len(delivered) + Size(cb') < 2 * (keys + 1)
      BY <1>4, <2>3, <3>1
    <3> QED BY <1>3, <2>1, <2>5, <3>2 DEF Paid, Between
  <2>6. CASE pc \notin Between \cup {"boot", "deliver"}
    <3>1. Len(delivered) + Size(cb) <= 2 * keys
      BY <1>1, <2>6 DEF Between, Paid
    <3>2. Len(delivered) + Size(cb') < 2 * (keys + 1)
      BY <1>4, <2>3, <2>6, <3>1
    <3>3. pc \in {"check", "reload", "store"} => Len(delivered) + UpTo(cb', reg.end) <= 2 * (keys + 1)
      <4>1. pc \in {"check", "reload", "store"} => Len(delivered) + UpTo(cb, reg.end) <= 2 * keys
        BY <1>1 DEF Paid
      <4> QED BY <1>4, <2>3, <2>6, <3>1, <4>1
    <3>4. Len(delivered) + Size(cb') <= 2 * (keys + 1)
      BY <1>4, <2>3, <2>6, <3>2
    <3> QED BY <1>3, <2>1, <2>6, <3>2, <3>3, <3>4 DEF Paid
  <2> QED BY <2>2, <2>4, <2>5, <2>6
<1>10. ASSUME ~raced'
       PROVE  Held' /\ Undisturbed' /\ Pressed' /\ (~crowded' => InOrder')
  <2>1. ~raced /\ pc \notin InPop /\ Held /\ Pressed /\ (~crowded => InOrder)
    <3>1. exposed = {} /\ (pc \in InPop => {k \in Key : fate'[k] = "waiting"} = {})
      BY <1>3, <1>10 DEF raced
    <3>2. pc \in InPop => fate'[key] = "waiting"
      BY <1>3, <1>4, <1>6 DEF InPop
    <3>3. pc \notin InPop
      BY <1>4, <3>1, <3>2
    <3> QED BY <3>1, <3>3 DEF IInv, raced
  <2>2. pc \notin Between /\ pc \notin {"check", "reload", "store"}
    BY <2>1 DEF InPop, Between
  <2>3. Stored = Items(cb) /\ Stored' = Items(cb') /\ Taken' = Taken
    BY <1>3, <2>2 DEF Stored, Taken, Between
  <2>4. key \notin Waiting /\ key \notin Read /\ \A k \in Waiting \cup Read : k < key /\ k \in Key
    BY <1>2, <1>4, <2>1, KeyFacts DEF Pressed, Waiting, Read, KeysWith
  <2>5. Lost \subseteq Waiting /\ Lost \cap Taken = {} /\ Increasing(Stored')
        /\ Values(Stored') = (Values(Stored) \ Lost) \cup (IF pc = "boot" THEN {} ELSE {key})
    <3>1. CASE pc = "boot"
      BY <1>5, <2>1, <2>3, <3>1 DEF Held
    <3>2. CASE pc # "boot"
      <4>1. Sound(cb) /\ Increasing(Items(cb)) /\ \A x \in Values(Items(cb)) : x < key
        BY <1>6, <2>1, <2>2, <2>3, <2>4, <3>2 DEF Held
      <4>2. /\ Increasing(Items(cb'))
            /\ cb.full = 0 => Values(Items(cb')) = Values(Items(cb)) \cup {key}
            /\ cb.full # 0 => /\ Values(Items(cb')) = (Values(Items(cb)) \ {cb.ptr[cb.begin]}) \cup {key}
                              /\ cb.ptr[cb.begin] \in Values(Items(cb))
        BY <1>3, <1>4, <4>1, PushHeld
      <4>3. cb.full \in {0, 1}
        BY <1>6, <3>2, Fields DEF Valid
      <4>4. CASE cb.full = 0
        <5>1. Lost = {}
          BY <4>4 DEF Lost
        <5> QED BY <2>3, <3>2, <4>2, <4>4, <5>1
      <4>5. CASE cb.full = 1
        <5>1. Lost = {cb.ptr[cb.begin]}
          BY <4>5 DEF Lost
        <5> QED BY <2>1, <2>3, <3>2, <4>2, <4>5, <5>1 DEF Held
      <4> QED BY <4>3, <4>4, <4>5
    <3> QED BY <3>1, <3>2
  <2>6. Waiting' = (Waiting \ Lost) \cup (IF pc = "boot" THEN {} ELSE {key})
    BY <1>3, <1>4, <1>5, <1>6, <2>4, <2>5 DEF Waiting, KeysWith
  <2>7. Read' = Read
    BY <1>3, <1>4, <2>4, <2>5 DEF Waiting, Read, KeysWith
  <2>8. Held'
    <3>1. Taken \subseteq Waiting /\ Waiting = Values(Stored) \cup Taken
          /\ Values(Stored) \cap Taken = {}
      BY <2>1 DEF Held
    <3>2. Waiting' = Values(Stored') \cup Taken' /\ Values(Stored') \cap Taken' = {}
      BY <2>3, <2>4, <2>5, <2>6, <3>1
    <3>3. Values(delivered') = Read' /\ Len(delivered') = Cardinality(Read')
      BY <1>3, <2>1, <2>7 DEF Held
    <3> QED BY <2>5, <3>2, <3>3 DEF Held
  <2>9. Undisturbed'
    BY <1>3, <2>2 DEF Undisturbed, Between
  <2>10. Pressed'
    <3> SUFFICES ASSUME NEW k \in Key PROVE (fate'[k] = "unpressed" <=> k > keys')
      BY DEF Pressed
    <3>1. k \in Nat /\ (fate[k] = "unpressed" <=> k > keys)
      BY <2>1, KeyFacts DEF Pressed
    <3>2. k \in Lost => fate[k] = "waiting" /\ k # key
      BY <2>4, <2>5 DEF Waiting, KeysWith
    <3> QED BY <1>2, <1>3, <1>4, <3>1, <3>2
  <2>11. ASSUME ~crowded' PROVE InOrder'
    <3>1. InOrder /\ Increasing(delivered')
      BY <1>3, <2>1, <2>11 DEF InOrder
    <3>2. Waiting' \subseteq Key /\ IsFiniteSet(Waiting') /\ Cardinality(Waiting') \in Nat
      <4>1. Waiting' \subseteq Key
        BY DEF Waiting, KeysWith
      <4>2. IsFiniteSet(Waiting')
        BY <4>1, KeyFacts, FS_Subset
      <4> QED BY <4>1, <4>2, FS_CardinalityType
    <3>3. Cardinality(Waiting') <= 1
      <4>1. ~(Cardinality({k \in Key : fate'[k] = "waiting"}) > 1)
        BY <1>3, <2>11
      <4>2. Waiting' = {k \in Key : fate'[k] = "waiting"}
        BY DEF Waiting, KeysWith
      <4>3. ~(Cardinality(Waiting') > 1)
        BY <4>1, <4>2
      <4> QED BY <3>2, <4>3
    <3>4. \A r \in Read', w \in Waiting' : r < w
      BY <2>4, <2>6, <2>7, <3>1 DEF InOrder
    <3> QED BY <3>1, <3>3, <3>4 DEF InOrder
  <2> QED BY <2>8, <2>9, <2>10, <2>11
<1> QED BY <1>7, <1>8, <1>9, <1>10 DEF IInv, raced

-----------------------------------------------------------------------------
(***************************************************************************)
(* The theorems.                                                           *)
(***************************************************************************)
LEMMA InitIInv == Init => IInv
<1> SUFFICES ASSUME Init PROVE IInv
  OBVIOUS
<1>1. /\ cb = Zeroed /\ pc = "boot" /\ reg = NothingRead /\ len = 0 /\ keys = 0
      /\ kind = [k \in Key |-> "printable"] /\ fate = [k \in Key |-> "unpressed"]
      /\ delivered = <<>> /\ exposed = {} /\ crowded = FALSE
  BY DEF Init
<1>2. Zeroed \in Buffer /\ 0 \in Slot /\ Len(delivered) = 0
  BY <1>1, KeyFacts, KeyboardConstants DEF Zeroed, Buffer, Slot
<1>3. NothingRead \in Registers
  BY <1>2, KeyFacts DEF NothingRead, Registers
<1>4. TypeOK
  <2>1. kind \in [Key -> Kinds] /\ fate \in [Key -> Fates]
    BY <1>1 DEF Kinds, Fates
  <2>2. len \in 0 .. 2 * MaxKeys /\ keys \in 0 .. MaxKeys
    BY <1>1, KeyboardConstants
  <2>3. delivered \in Seq(Char)
    <3>1. <<>> \in Seq(Char)
      OBVIOUS
    <3> QED BY <1>1, <3>1
  <2>4. exposed \subseteq Key /\ crowded \in BOOLEAN
    BY <1>1
  <2>5. cb \in Buffer /\ pc \in Labels
    BY <1>1, <1>2 DEF Labels
  <2> QED BY <1>1, <1>3, <2>1, <2>2, <2>3, <2>4, <2>5 DEF TypeOK
<1>5. cb.full = 0 /\ cb.begin = 0 /\ cb.end = 0 /\ Size(cb) = 0
  BY <1>1 DEF Zeroed, Size
<1>6. BufferOK
  BY <1>1, <1>2, <1>5 DEF BufferOK, NothingRead, Nothing, Between
<1>7. Paid
  BY <1>1, <1>2, <1>5 DEF Paid, Between
<1>8. Pressed /\ Undisturbed
  BY <1>1, KeyFacts DEF Pressed, Undisturbed
<1>9. Waiting = {} /\ Read = {} /\ Cardinality({}) = 0
  BY <1>1, FS_EmptySet DEF Waiting, Read, KeysWith
<1>10. Values(<<>>) = {} /\ Increasing(<<>>)
  BY DEF Values, Increasing
<1>11. Stored = <<>> /\ Taken = {}
  <2>1. Count(cb) = 0
    BY <1>5, KeyboardConstants DEF Count
  <2> QED BY <1>1, <2>1 DEF Stored, Taken, Items, Between
<1>12. Held /\ InOrder
  BY <1>1, <1>2, <1>9, <1>10, <1>11 DEF Held, InOrder
<1> QED BY <1>4, <1>6, <1>7, <1>8, <1>12 DEF IInv

LEMMA NextIInv == IInv /\ [Next]_vars => IInv'
<1> SUFFICES ASSUME IInv, [Next]_vars PROVE IInv'
  OBVIOUS
<1>1. CASE kernel_thread
  BY <1>1, InitStep, ReadStep, PollStep, EntryStep, CheckStep, ReloadStep, StoreStep,
     AimStep, FetchStep, TestStep, ClearStep, DeliverStep DEF kernel_thread
<1>2. CASE \E what \in Kinds : keyboard_handler(what)
  BY <1>2, PressStep, KeyboardConstants
<1>3. CASE UNCHANGED vars
  <2>1. /\ UNCHANGED <<cb, pc, reg, len, keys, kind, fate, delivered, exposed, crowded>>
    BY <1>3 DEF vars, thread, history
  <2> QED BY <2>1 DEF IInv, raced, TypeOK, BufferOK, Nothing, Fresh, Paid, Pressed,
                     Undisturbed, UpToDate, Held, InOrder, Stored, Taken, Waiting, Read, KeysWith
<1> QED BY <1>1, <1>2, <1>3 DEF Next

LEMMA KeyboardInvariant == Spec => []IInv
  BY InitIInv, NextIInv, PTL DEF Spec

(***************************************************************************)
(* The buffer and everything the kernel thread has read of it keep their   *)
(* types, whatever comes in between, and gets never has more than two      *)
(* characters in its line for each key that was pressed.                   *)
(***************************************************************************)
THEOREM KeyboardTypeCorrect == Spec => []TypeOK
<1>1. IInv => TypeOK
  BY DEF IInv
<1> QED BY <1>1, KeyboardInvariant, PTL

(***************************************************************************)
(* Whatever the interleaving, and whatever the compiler keeps in registers,*)
(* the full bit stands on indexes that differ only inside a pop.           *)
(***************************************************************************)
THEOREM RingStaysConsistent == Spec => []RingConsistent
<1>1. IInv => RingConsistent
  BY DEF IInv, BufferOK, Between, RingConsistent
<1> QED BY <1>1, KeyboardInvariant, PTL

(***************************************************************************)
(* While no key comes inside a pop, every key pressed waits in the buffer, *)
(* in order, was overwritten by a later one when the buffer was full, or   *)
(* was given to gets, once.                                                *)
(***************************************************************************)
THEOREM KeysAccounted == Spec => []Accounted
<1>1. IInv => Accounted
  <2> SUFFICES ASSUME IInv, ~raced, pc \notin {"aim", "fetch", "test", "clear", "deliver"}
               PROVE  /\ Increasing(Items(cb)) /\ Values(Items(cb)) = KeysWith("waiting")
                      /\ Values(delivered) = KeysWith("read")
                      /\ Len(delivered) = Cardinality(KeysWith("read"))
    BY DEF Accounted
  <2>1. Stored = Items(cb) /\ Taken = {} /\ Held
    BY DEF IInv, Stored, Taken, Between
  <2> QED BY <2>1 DEF Held, Waiting, Read
<1> QED BY <1>1, KeyboardInvariant, PTL

(***************************************************************************)
(* With never two keys waiting, gets reads them in the order they were     *)
(* typed, although it pops at the end the handler pushes at.               *)
(***************************************************************************)
THEOREM KeysInOrder == Spec => []TypedOrder
<1>1. IInv => TypedOrder
  BY DEF IInv, InOrder, TypedOrder
<1> QED BY <1>1, KeyboardInvariant, PTL
=============================================================================
