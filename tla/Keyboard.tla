------------------------------ MODULE Keyboard ------------------------------
(***************************************************************************)
(* The keyboard path: IRQ 1 runs keyboard_handler, which pushes a character*)
(* into the circular buffer, while the shell's gets polls the buffer and   *)
(* pops from it with interrupts enabled.  The handler runs with interrupts *)
(* off, so a push is one step; it can come between any two memory accesses *)
(* of the poll and of circular_buffer_pop_back, which are steps of their   *)
(* own here.                                                               *)
(*                                                                         *)
(* The fields are plain memory, so the compiler may read them in another   *)
(* order or keep a value it has read: circular_buffer_empty reads the full *)
(* bit and the two indexes in any order, and pop_back uses the end it read *)
(* on entry, or has stored, or reads it again.                             *)
(*                                                                         *)
(* Characters are the serial numbers of the key presses; kind says what a  *)
(* key is to gets.                                                         *)
(***************************************************************************)
EXTENDS Integers, Sequences, FiniteSets

CONSTANTS
  BUFFER_SIZE,
  MaxKeys        \* bound on the number of key presses

Kinds == {"printable", "backspace", "newline"}

ASSUME KeyboardConstants ==
  /\ BUFFER_SIZE \in Nat \ {0}
  /\ MaxKeys \in Nat \ {0}

Key == 1 .. MaxKeys
NoChar == 0             \* what a zeroed slot holds
Two == MaxKeys + 1      \* the character 2 that pop_back returns on an empty buffer
Char == Key \cup {NoChar, Two}
Fates == {"unpressed", "ignored", "waiting", "overwritten", "read"}

INSTANCE RingOps WITH Nul <- NoChar

VARIABLES
  cb,         \* the keyboard buffer kbuff
  pc,         \* where the kernel thread is in gets and pop_back
  reg,        \* what it has read so far
  len,        \* gets: characters in the line
  keys,       \* key presses so far
  kind,       \* what each of them is
  fate,       \* history: what became of each key
  delivered,  \* history: the characters gets has been given, in order
  exposed,    \* history: the keys that waited when one came inside a pop
  crowded     \* history: two keys have waited at once

thread == <<pc, reg, len>>
history == <<fate, delivered, exposed, crowded>>
vars == <<cb, thread, keys, kind, history>>

(***************************************************************************)
(* full, begin and stop are what circular_buffer_empty has read of the     *)
(* full bit, begin and end; end, slot and char belong to pop_back.         *)
(***************************************************************************)
Unread == -1
Registers == [full : {0, 1, Unread}, begin : Slot \cup {Unread},
              stop : Slot \cup {Unread}, end : Slot, slot : Slot, char : Char]
NothingRead == [full |-> Unread, begin |-> Unread, stop |-> Unread,
                end |-> 0, slot |-> 0, char |-> NoChar]

\* The steps of circular_buffer_pop_back from its first read of end on.
InPop == {"check", "reload", "store", "aim", "fetch", "test", "clear"}
Labels == {"boot", "poll", "entry", "deliver"} \cup InPop

TypeOK ==
  /\ cb \in Buffer
  /\ pc \in Labels
  /\ reg \in Registers
  /\ len \in 0 .. 2 * MaxKeys
  /\ keys \in 0 .. MaxKeys
  /\ kind \in [Key -> Kinds]
  /\ fate \in [Key -> Fates]
  /\ delivered \in Seq(Char)
  /\ exposed \subseteq Key
  /\ crowded \in BOOLEAN

Init ==
  /\ cb = Zeroed
  /\ pc = "boot"
  /\ reg = NothingRead
  /\ len = 0
  /\ keys = 0
  /\ kind = [k \in Key |-> "printable"]
  /\ fate = [k \in Key |-> "unpressed"]
  /\ delivered = <<>>
  /\ exposed = {} /\ crowded = FALSE

-----------------------------------------------------------------------------
(***************************************************************************)
(* keyboard_handler on the press of a key that has a character.            *)
(***************************************************************************)
Lost == IF cb.full = 1 THEN {cb.ptr[cb.begin]} ELSE {}

keyboard_handler(what) ==
  LET key == keys + 1 IN
  /\ keys < MaxKeys
  /\ keys' = key
  /\ kind' = [kind EXCEPT ![key] = what]
  /\ cb' = circular_buffer_push_back(cb, key)
  /\ fate' = [k \in Key |->
                IF k = key THEN (IF Invalid(cb) THEN "ignored" ELSE "waiting")
                ELSE IF k \in Lost THEN "overwritten" ELSE fate[k]]
  /\ LET waiting == {k \in Key : fate'[k] = "waiting"}
     IN /\ exposed' = exposed \cup (IF pc \in InPop THEN waiting ELSE {})
        /\ crowded' = (crowded \/ Cardinality(waiting) > 1)
  /\ UNCHANGED <<thread, delivered>>

\* Keys pressed before its end find no capacity; the controller's tests are left out.
init_keyboard ==
  /\ pc = "boot"
  /\ cb' = circular_buffer_create(cb)
  /\ pc' = "poll"
  /\ UNCHANGED <<reg, len, keys, kind, history>>

-----------------------------------------------------------------------------
(***************************************************************************)
(* circular_buffer_empty reads the full bit and each index once.           *)
(***************************************************************************)
ReadFull == reg.full = Unread /\ reg' = [reg EXCEPT !.full = cb.full]
ReadBegin == reg.begin = Unread /\ reg' = [reg EXCEPT !.begin = cb.begin]
ReadEnd == reg.stop = Unread /\ reg' = [reg EXCEPT !.stop = cb.end]

AllRead == Unread \notin {reg.full, reg.begin, reg.stop}
\* Slip: equal indexes are taken for an empty buffer, full bit or not.
SaysEmpty_NoFullBit == reg.begin = reg.stop

SaysEmpty == reg.full = 0 /\ reg.begin = reg.stop
Forget == [reg EXCEPT !.full = Unread, !.begin = Unread, !.stop = Unread]

read_for_empty ==
  /\ pc \in {"poll", "check"}
  /\ ReadFull \/ ReadBegin \/ ReadEnd
  /\ UNCHANGED <<cb, pc, len, keys, kind, history>>

\* gets: if(!circular_buffer_empty(kbuff))
gets_poll ==
  /\ pc = "poll" /\ AllRead
  /\ pc' = IF SaysEmpty THEN "poll" ELSE "entry"
  /\ reg' = Forget
  /\ UNCHANGED <<cb, len, keys, kind, history>>

\* pop_back's own check of its argument reads end.
pop_back_entry ==
  /\ pc = "entry"
  /\ pc' = "check"
  /\ reg' = [reg EXCEPT !.end = cb.end]
  /\ UNCHANGED <<cb, len, keys, kind, history>>

pop_back_check ==
  /\ pc = "check" /\ AllRead
  /\ IF SaysEmpty THEN pc' = "deliver" /\ reg' = [Forget EXCEPT !.char = Two]
                  ELSE pc' = "reload" /\ reg' = Forget
  /\ UNCHANGED <<cb, len, keys, kind, history>>

\* The end of the assignment: the one read on entry, or read again.
pop_back_reload ==
  /\ pc = "reload"
  /\ pc' = "store"
  /\ \E end \in {reg.end, cb.end} : reg' = [reg EXCEPT !.end = end]
  /\ UNCHANGED <<cb, len, keys, kind, history>>

\* Slip: the index is used, but not moved.
pop_back_store_NotMoved ==
  /\ pc = "store"
  /\ pc' = "aim"
  /\ reg' = [reg EXCEPT !.slot = Prev1(reg.end)]
  /\ UNCHANGED <<cb, len, keys, kind, history>>

\* a->end = (a->end+a->capacity-1)%a->capacity
pop_back_store ==
  /\ pc = "store"
  /\ pc' = "aim"
  /\ cb' = [cb EXCEPT !.end = Prev1(reg.end)]
  /\ reg' = [reg EXCEPT !.slot = Prev1(reg.end)]
  /\ UNCHANGED <<len, keys, kind, history>>

\* a->ptr+(a->end): the end just stored, or read again.
pop_back_aim ==
  /\ pc = "aim"
  /\ pc' = "fetch"
  /\ \E slot \in {reg.slot, cb.end} : reg' = [reg EXCEPT !.slot = slot]
  /\ UNCHANGED <<cb, len, keys, kind, history>>

\* poped_value = *(a->ptr+(a->end))
pop_back_fetch ==
  /\ pc = "fetch"
  /\ pc' = "test"
  /\ reg' = [reg EXCEPT !.char = cb.ptr[reg.slot]]
  /\ UNCHANGED <<cb, len, keys, kind, history>>

\* Slip: the full bit is never cleared.
pop_back_test_NoClear ==
  /\ pc = "test"
  /\ pc' = "deliver"
  /\ UNCHANGED <<cb, reg, len, keys, kind, history>>

\* if(circular_buffer_full(a)) a->full = 0
pop_back_test ==
  /\ pc = "test"
  /\ pc' = IF cb.full = 1 THEN "clear" ELSE "deliver"
  /\ UNCHANGED <<cb, reg, len, keys, kind, history>>

pop_back_clear ==
  /\ pc = "clear"
  /\ cb' = [cb EXCEPT !.full = 0]
  /\ pc' = "deliver"
  /\ UNCHANGED <<reg, len, keys, kind, history>>

(***************************************************************************)
(* gets uses the character: a newline ends the line (the shell runs it and *)
(* calls gets again), a backspace takes one off a line that is not empty,  *)
(* anything else is stored, without regard to the size of the text.        *)
(***************************************************************************)
KindOf(c) == IF c \in Key THEN kind[c] ELSE "printable"

\* Slip: a backspace on an empty line counts too.
NewLength_Unguarded(what) ==
  CASE what = "newline" -> 0 [] what = "backspace" -> len - 1 [] OTHER -> len + 1

NewLength(what) ==
  IF what = "newline" THEN 0
  ELSE IF what = "backspace" /\ len > 0 THEN len - 1
  ELSE len + 1

gets_deliver ==
  /\ pc = "deliver"
  /\ pc' = "poll"
  /\ len' = NewLength(KindOf(reg.char))
  /\ delivered' = Append(delivered, reg.char)
  /\ fate' = [k \in Key |-> IF k = reg.char THEN "read" ELSE fate[k]]
  /\ reg' = NothingRead
  /\ UNCHANGED <<cb, keys, kind, exposed, crowded>>

kernel_thread ==
  \/ init_keyboard
  \/ read_for_empty
  \/ gets_poll
  \/ pop_back_entry
  \/ pop_back_check
  \/ pop_back_reload
  \/ pop_back_store
  \/ pop_back_aim
  \/ pop_back_fetch
  \/ pop_back_test
  \/ pop_back_clear
  \/ gets_deliver

Next == kernel_thread \/ \E what \in Kinds : keyboard_handler(what)

(***************************************************************************)
(* The kernel thread is the only one and is never blocked: its next step   *)
(* comes.  Nobody has to press a key.                                      *)
(***************************************************************************)
Spec == Init /\ [][Next]_vars /\ WF_vars(kernel_thread)

-----------------------------------------------------------------------------
(***************************************************************************)
(* Whatever interleaving, the buffer is never left with its full bit set   *)
(* on indexes that differ: only pop_back's own store and clear are apart.  *)
(* (That it still holds every key that waits is Accounted, and true only   *)
(* while no key comes inside a pop.)                                       *)
(***************************************************************************)
RingConsistent ==
  pc \notin {"aim", "fetch", "test", "clear"} /\ cb.full = 1 => cb.begin = cb.end

(***************************************************************************)
(* As long as no key comes inside a pop, the buffer holds exactly the keys *)
(* that wait, in the order they were pressed, and gets was given each read *)
(* key once and nothing else: a key is only ever lost to the overflow of a *)
(* full buffer.                                                            *)
(***************************************************************************)
raced == exposed # {}
Increasing(s) == \A i, j \in DOMAIN s : i < j => s[i] < s[j]
Values(s) == {s[i] : i \in DOMAIN s}
KeysWith(f) == {k \in Key : fate[k] = f}

Accounted ==
  ~raced /\ pc \notin {"aim", "fetch", "test", "clear", "deliver"} =>
    /\ Increasing(Items(cb)) /\ Values(Items(cb)) = KeysWith("waiting")
    /\ Values(delivered) = KeysWith("read")
    /\ Len(delivered) = Cardinality(KeysWith("read"))

(***************************************************************************)
(* gets pops at the end the handler pushes at, so a line comes out in the  *)
(* order it was typed only as long as no two keys ever wait at once.       *)
(***************************************************************************)
TypedOrder == ~raced /\ ~crowded => Increasing(delivered)

(***************************************************************************)
(* A key that waits does not wait for ever, also when nothing else is      *)
(* typed, unless it is there when a key comes inside a pop: gets goes on   *)
(* polling, sees that the buffer is not empty, full or not, and reads the  *)
(* key, if a later one does not overwrite it.  This holds of keys pressed  *)
(* after such a race as well: the buffer has recovered.  Of those that are *)
(* there it is false: pop_back may clear the full bit of a buffer that the *)
(* handler has just filled (buffer.c:107), and all of them are forgotten.  *)
(* (As only MaxKeys keys are pressed, said of all keys this is said of     *)
(* each one.)                                                              *)
(***************************************************************************)
Unheard == {k \in Key : fate[k] = "waiting" /\ k \notin exposed}

Heard == Unheard # {} ~> Unheard = {}
=============================================================================
