--------------------------- MODULE ThreadsProofs ---------------------------
(***************************************************************************)
(* What Threads checks on five threads, for any number of them, of ids and *)
(* of handlers.  The calls move the head of a list whatever thread they    *)
(* are given, so that everything rests on which threads can be heads: the  *)
(* active and the waiting list are in the order of creation (Ordered), no  *)
(* thread is in two lists (Apart), and of the active ones only the first   *)
(* may have run (Turning).                                                 *)
(***************************************************************************)
EXTENDS Threads, SequenceTheorems, WellFoundedInduction, TLAPS

Increasing(q) == \A i, j \in DOMAIN q : i < j => q[i] < q[j]

Distinct(q) == \A i, j \in DOMAIN q : q[i] = q[j] => i = j

Ordered ==
  /\ Increasing(active) /\ Increasing(waiting)
  /\ \A d \in ToSet(active), e \in ToSet(waiting) : d < e

Apart ==
  /\ Distinct(terminated)
  /\ ToSet(terminated) \cap (ToSet(active) \cup ToSet(waiting)) = {}

Listing == ToSet(active) \cup ToSet(waiting) \cup ToSet(terminated)

Ended == \A o \in Live : thread[o].state = "END" => o \in ToSet(terminated)

Named ==
  /\ \A id \in Held : threads_ids[id] \in Live /\ thread[threads_ids[id]].id = id
  /\ \A o \in Live : threads_ids[thread[o].id] = o

Turning ==
  /\ active # <<>>
  /\ thread[running].state = "RUNNING"
  /\ running \notin ToSet(Tail(active)) \cup ToSet(waiting)
  /\ \A o \in ToSet(active) \cup ToSet(waiting) :
       o = running \/ thread[o].state = "WAITING"

\* What holds as long as nothing has gone wrong.
Sound == Ordered /\ Apart /\ Listing = Live /\ Ended /\ Named /\ Turning

\* What the lists hold in every state, also in the one that stops the kernel.
Laid ==
  /\ Ordered /\ Apart
  /\ IF fault = "dangling"
     THEN \E lost \in Live, stale \in freed : Listing = (Live \ {lost}) \cup {stale}
     ELSE Listing = Live /\ Ended

IInv ==
  /\ TypeOK
  /\ Laid
  /\ fault = "none" => Sound

-----------------------------------------------------------------------------
(***************************************************************************)
(* Sequences.                                                              *)
(***************************************************************************)
LEMMA TailFacts ==
  ASSUME NEW S, NEW s \in Seq(S), s # <<>>
  PROVE  /\ Len(s) \in Nat \ {0} /\ DOMAIN s = 1 .. Len(s)
         /\ Head(s) = s[1] /\ Head(s) \in S
         /\ Tail(s) \in Seq(S) /\ Len(Tail(s)) = Len(s) - 1
         /\ DOMAIN Tail(s) = 1 .. Len(s) - 1
         /\ \A i \in DOMAIN Tail(s) : i + 1 \in DOMAIN s /\ Tail(s)[i] = s[i + 1]
  OBVIOUS

LEMMA TailSet ==
  ASSUME NEW S, NEW s \in Seq(S), s # <<>>
  PROVE  ToSet(s) = {Head(s)} \cup ToSet(Tail(s))
<1>1. ASSUME NEW i \in DOMAIN s PROVE s[i] \in {Head(s)} \cup ToSet(Tail(s))
  <2>1. CASE i = 1
    BY <2>1, TailFacts
  <2>2. CASE i # 1
    <3>1. i - 1 \in DOMAIN Tail(s) /\ Tail(s)[i - 1] = s[i]
      BY <2>2, TailFacts
    <3> QED BY <3>1 DEF ToSet
  <2> QED BY <2>1, <2>2
<1>2. Head(s) \in ToSet(s)
  BY TailFacts DEF ToSet
<1>3. ToSet(Tail(s)) \subseteq ToSet(s)
  BY TailFacts DEF ToSet
<1> QED BY <1>1, <1>2, <1>3 DEF ToSet

LEMMA AppendFacts ==
  ASSUME NEW S, NEW s \in Seq(S), NEW e \in S
  PROVE  /\ Append(s, e) \in Seq(S) /\ Append(s, e) # <<>>
         /\ Len(s) \in Nat /\ DOMAIN s = 1 .. Len(s)
         /\ Len(Append(s, e)) = Len(s) + 1
         /\ DOMAIN Append(s, e) = 1 .. Len(s) + 1
         /\ \A i \in DOMAIN s : Append(s, e)[i] = s[i]
         /\ Append(s, e)[Len(s) + 1] = e
  OBVIOUS

LEMMA AppendSet ==
  ASSUME NEW S, NEW s \in Seq(S), NEW e \in S
  PROVE  ToSet(Append(s, e)) = ToSet(s) \cup {e}
<1>1. \A i \in DOMAIN Append(s, e) : i \in DOMAIN s \/ i = Len(s) + 1
  BY AppendFacts
<1>2. \A i \in DOMAIN s : i \in DOMAIN Append(s, e)
  BY AppendFacts
<1>3. Len(s) + 1 \in DOMAIN Append(s, e)
  BY AppendFacts
<1> QED BY <1>1, <1>2, <1>3, AppendFacts DEF ToSet

LEMMA AppendTail ==
  ASSUME NEW S, NEW s \in Seq(S), NEW e \in S, s # <<>>
  PROVE  ToSet(Tail(Append(s, e))) = ToSet(Tail(s)) \cup {e}
<1>1. PICK t \in Seq(S) : t = Tail(s)
  BY TailFacts
<1>2. Tail(Append(s, e)) = Append(t, e)
  BY <1>1, HeadTailAppend
<1>3. ToSet(Append(t, e)) = ToSet(t) \cup {e}
  BY AppendSet
<1> QED BY <1>1, <1>2, <1>3

LEMMA SetOfTyped ==
  ASSUME NEW S, NEW s \in Seq(S)
  PROVE  ToSet(s) \subseteq S /\ (ToSet(s) = {} => s = <<>>) /\ ToSet(<<>>) = {}
<1>1. ToSet(s) \subseteq S
  BY DEF ToSet
<1>2. s # <<>> => Head(s) \in ToSet(s)
  BY TailSet
<1> QED BY <1>1, <1>2 DEF ToSet

LEMMA IncreasingTail ==
  ASSUME NEW s \in Seq(Int), s # <<>>, Increasing(s)
  PROVE  /\ Increasing(Tail(s))
         /\ Head(s) \notin ToSet(Tail(s))
         /\ \A e \in ToSet(Tail(s)) : Head(s) < e
<1>1. Increasing(Tail(s))
  BY TailFacts DEF Increasing
<1>2. ASSUME NEW i \in DOMAIN Tail(s) PROVE Head(s) < Tail(s)[i]
  <2>1. 1 \in DOMAIN s /\ i + 1 \in DOMAIN s /\ 1 < i + 1 /\ Tail(s)[i] = s[i + 1]
    BY TailFacts
  <2> QED BY <2>1, TailFacts DEF Increasing
<1>3. \A i \in DOMAIN Tail(s) : Tail(s)[i] # Head(s)
  <2> SUFFICES ASSUME NEW i \in DOMAIN Tail(s) PROVE Tail(s)[i] # Head(s)
    OBVIOUS
  <2>1. Tail(s)[i] \in Int /\ Head(s) \in Int
    BY TailFacts
  <2> QED BY <1>2, <2>1
<1> QED BY <1>1, <1>2, <1>3 DEF ToSet

LEMMA IncreasingAppend ==
  ASSUME NEW s \in Seq(Int), NEW e \in Int, Increasing(s), \A d \in ToSet(s) : d < e
  PROVE  Increasing(Append(s, e))
<1>1. \A i \in DOMAIN s : s[i] < e
  BY DEF ToSet
<1> QED BY <1>1, AppendFacts DEF Increasing

LEMMA DistinctTail ==
  ASSUME NEW S, NEW s \in Seq(S), s # <<>>, Distinct(s)
  PROVE  Distinct(Tail(s)) /\ Head(s) \notin ToSet(Tail(s))
<1>1. Distinct(Tail(s))
  BY TailFacts DEF Distinct
<1>2. ASSUME NEW i \in DOMAIN Tail(s) PROVE Tail(s)[i] # Head(s)
  <2>1. 1 \in DOMAIN s /\ i + 1 \in DOMAIN s /\ 1 # i + 1 /\ Tail(s)[i] = s[i + 1]
    BY TailFacts
  <2> QED BY <2>1, TailFacts DEF Distinct
<1> QED BY <1>1, <1>2 DEF ToSet

LEMMA DistinctAppend ==
  ASSUME NEW S, NEW s \in Seq(S), NEW e \in S, Distinct(s), e \notin ToSet(s)
  PROVE  Distinct(Append(s, e))
<1>1. \A i \in DOMAIN s : s[i] # e
  BY DEF ToSet
<1> QED BY <1>1, AppendFacts DEF Distinct

\* Concatenation.
LEMMA ConcatFacts ==
  ASSUME NEW S, NEW s \in Seq(S), NEW t \in Seq(S)
  PROVE  /\ s \o t \in Seq(S)
         /\ Len(s) \in Nat /\ DOMAIN s = 1 .. Len(s)
         /\ Len(t) \in Nat /\ DOMAIN t = 1 .. Len(t)
         /\ DOMAIN (s \o t) = 1 .. Len(s) + Len(t)
         /\ \A i \in DOMAIN (s \o t) :
              \/ i \in DOMAIN s /\ (s \o t)[i] = s[i]
              \/ i > Len(s) /\ i - Len(s) \in DOMAIN t /\ (s \o t)[i] = t[i - Len(s)]
         /\ \A i \in DOMAIN s : i \in DOMAIN (s \o t) /\ (s \o t)[i] = s[i]
         /\ \A i \in DOMAIN t : Len(s) + i \in DOMAIN (s \o t) /\ (s \o t)[Len(s) + i] = t[i]
  OBVIOUS

LEMMA ConcatSet ==
  ASSUME NEW S, NEW s \in Seq(S), NEW t \in Seq(S)
  PROVE  ToSet(s \o t) = ToSet(s) \cup ToSet(t)
<1>1. ToSet(s \o t) \subseteq ToSet(s) \cup ToSet(t)
  BY ConcatFacts DEF ToSet
<1>2. ToSet(s) \subseteq ToSet(s \o t)
  BY ConcatFacts DEF ToSet
<1>3. ToSet(t) \subseteq ToSet(s \o t)
  <2> SUFFICES ASSUME NEW i \in DOMAIN t PROVE t[i] \in ToSet(s \o t)
    BY DEF ToSet
  <2>1. Len(s) + i \in DOMAIN (s \o t) /\ (s \o t)[Len(s) + i] = t[i]
    BY ConcatFacts
  <2> QED BY <2>1 DEF ToSet
<1> QED BY <1>1, <1>2, <1>3

LEMMA IncreasingConcat ==
  ASSUME NEW s \in Seq(Int), NEW t \in Seq(Int), Increasing(s), Increasing(t),
         \A d \in ToSet(s), e \in ToSet(t) : d < e
  PROVE  Increasing(s \o t)
<1> SUFFICES ASSUME NEW i \in DOMAIN (s \o t), NEW j \in DOMAIN (s \o t), i < j
             PROVE  (s \o t)[i] < (s \o t)[j]
  BY DEF Increasing
<1>1. CASE i \in DOMAIN s /\ j \in DOMAIN s
  BY <1>1, ConcatFacts DEF Increasing
<1>2. CASE i \in DOMAIN s /\ j \notin DOMAIN s
  <2>1. j - Len(s) \in DOMAIN t /\ (s \o t)[j] = t[j - Len(s)] /\ (s \o t)[i] = s[i]
    BY <1>2, ConcatFacts
  <2> QED BY <1>2, <2>1 DEF ToSet
<1>3. CASE i \notin DOMAIN s
  <2>1. /\ i > Len(s) /\ i - Len(s) \in DOMAIN t /\ (s \o t)[i] = t[i - Len(s)]
        /\ Len(s) \in Nat /\ i \in Int /\ j \in Int /\ DOMAIN s = 1 .. Len(s)
    BY <1>3, ConcatFacts
  <2>2. j \notin DOMAIN s
    BY <2>1
  <2>3. j - Len(s) \in DOMAIN t /\ (s \o t)[j] = t[j - Len(s)]
    BY <2>2, ConcatFacts
  <2>4. i - Len(s) < j - Len(s)
    BY <2>1
  <2> QED BY <2>1, <2>3, <2>4 DEF Increasing
<1> QED BY <1>1, <1>2, <1>3

LEMMA DistinctConcat ==
  ASSUME NEW S, NEW s \in Seq(S), NEW t \in Seq(S), Distinct(s), Distinct(t),
         ToSet(s) \cap ToSet(t) = {}
  PROVE  Distinct(s \o t)
<1> SUFFICES ASSUME NEW i \in DOMAIN (s \o t), NEW j \in DOMAIN (s \o t),
                    (s \o t)[i] = (s \o t)[j]
             PROVE  i = j
  BY DEF Distinct
<1>1. \A k \in DOMAIN s, l \in DOMAIN t : s[k] # t[l]
  BY DEF ToSet
<1>2. PICK c : c = s \o t
  OBVIOUS
<1>3. /\ \A k \in DOMAIN c :
           \/ k \in DOMAIN s /\ c[k] = s[k]
           \/ k > Len(s) /\ k - Len(s) \in DOMAIN t /\ c[k] = t[k - Len(s)]
      /\ i \in DOMAIN c /\ j \in DOMAIN c /\ c[i] = c[j]
      /\ Len(s) \in Nat /\ DOMAIN s = 1 .. Len(s) /\ i \in Int /\ j \in Int
  BY <1>2, ConcatFacts
<1>4. CASE i \in DOMAIN s
  <2>1. c[i] = s[i]
    BY <1>3, <1>4
  <2>2. ~(j - Len(s) \in DOMAIN t /\ c[j] = t[j - Len(s)])
    BY <1>1, <1>3, <1>4, <2>1
  <2>3. j \in DOMAIN s /\ c[j] = s[j]
    BY <1>3, <2>2
  <2> QED BY <1>3, <1>4, <2>1, <2>3 DEF Distinct
<1>5. CASE i \notin DOMAIN s
  <2>1. i - Len(s) \in DOMAIN t /\ c[i] = t[i - Len(s)]
    BY <1>3, <1>5
  <2>2. ~(j \in DOMAIN s /\ c[j] = s[j])
    BY <1>1, <1>3, <2>1
  <2>3. j - Len(s) \in DOMAIN t /\ c[j] = t[j - Len(s)]
    BY <1>3, <2>2
  <2>4. i - Len(s) = j - Len(s)
    BY <1>3, <2>1, <2>3 DEF Distinct
  <2> QED BY <1>3, <2>4
<1> QED BY <1>4, <1>5

LEMMA IncreasingDistinct ==
  ASSUME NEW s \in Seq(Int), Increasing(s)
  PROVE  Distinct(s)
<1> SUFFICES ASSUME NEW i \in DOMAIN s, NEW j \in DOMAIN s, i # j
             PROVE  s[i] # s[j]
  BY DEF Distinct
<1>1. i \in Int /\ j \in Int /\ s[i] \in Int /\ s[j] \in Int
  OBVIOUS
<1>2. i < j \/ j < i
  BY <1>1
<1>3. s[i] < s[j] \/ s[j] < s[i]
  BY <1>2 DEF Increasing
<1> QED BY <1>1, <1>3

\* An element that occurs, but not behind the head, is the head.
LEMMA OnlyHead ==
  ASSUME NEW S, NEW s \in Seq(S), NEW e \in ToSet(s), ~Contains(Tail(s), e)
  PROVE  s # <<>> /\ e = Head(s)
<1>1. s # <<>>
  BY SetOfTyped
<1>2. e \notin ToSet(Tail(s))
  BY <1>1, TailFacts DEF ToSet, Contains
<1> QED BY <1>1, <1>2, TailSet

-----------------------------------------------------------------------------
(***************************************************************************)
(* What the types say.                                                     *)
(***************************************************************************)
States == {"WAITING", "READY", "RUNNING", "END"}
Record == [id : Id, state : States]

LEMMA Numbers ==
  ASSUME TypeOK
  PROVE  /\ thread \in Seq(Record)
         /\ Len(thread) \in Nat \ {0} /\ DOMAIN thread = 1 .. Len(thread)
         /\ \A o \in DOMAIN thread : o \in Int /\ thread[o] \in Record
<1>1. thread \in Seq(Record) /\ Len(thread) \in 1 .. MaxThreads
  BY DEF TypeOK, Thread, Record, States
<1>2. Len(thread) \in Nat \ {0} /\ DOMAIN thread = 1 .. Len(thread)
  BY <1>1
<1>3. \A o \in DOMAIN thread : o \in Int /\ thread[o] \in Record
  BY <1>1, <1>2
<1> QED BY <1>1, <1>2, <1>3

LEMMA Queues ==
  ASSUME TypeOK
  PROVE  /\ active \in Seq(DOMAIN thread) /\ active \in Seq(Int)
         /\ waiting \in Seq(DOMAIN thread) /\ waiting \in Seq(Int)
         /\ terminated \in Seq(DOMAIN thread)
         /\ \A S : DOMAIN thread \subseteq S =>
              active \in Seq(S) /\ waiting \in Seq(S) /\ terminated \in Seq(S)
<1>1. DOMAIN thread \subseteq Int
  BY Numbers
<1>2. \A S : \A q \in Seq(DOMAIN thread) : DOMAIN thread \subseteq S => q \in Seq(S)
  BY SeqMonotonic
<1> QED BY <1>1, <1>2 DEF TypeOK

\* Writing the states of two threads, one after the other.
Switched(t, o, n) == [t EXCEPT ![o].state = "END", ![n].state = "RUNNING"]

LEMMA StatesWritten ==
  ASSUME NEW t \in Seq(Record), NEW o \in DOMAIN t, NEW n \in DOMAIN t, o # n,
         NEW u, u = Switched(t, o, n)
  PROVE  /\ u \in Seq(Record) /\ DOMAIN u = DOMAIN t /\ Len(u) = Len(t)
         /\ u[o].state = "END" /\ u[n].state = "RUNNING"
         /\ \A e \in DOMAIN t : u[e].id = t[e].id
         /\ \A e \in DOMAIN t : e # o /\ e # n => u[e] = t[e]
<1> DEFINE ended == [t[o] EXCEPT !.state = "END"]
           given == [t[n] EXCEPT !.state = "RUNNING"]
           v     == [t EXCEPT ![o] = ended]
<1>1. o \in 1 .. Len(t) /\ n \in 1 .. Len(t) /\ DOMAIN t = 1 .. Len(t)
  OBVIOUS
<1>2. t[o] \in Record /\ t[n] \in Record
  OBVIOUS
<1>3. ended \in Record /\ ended.state = "END" /\ ended.id = t[o].id
  BY <1>2 DEF Record, States
<1>4. given \in Record /\ given.state = "RUNNING" /\ given.id = t[n].id
  BY <1>2 DEF Record, States
<1>5. v[n] = t[n] /\ v = [t EXCEPT ![o] = ended]
  BY <1>1
<1>6. u = [v EXCEPT ![n] = given]
  BY <1>5 DEF Switched
<1> HIDE DEF ended, given, v
<1>7. /\ v \in Seq(Record) /\ Len(v) = Len(t) /\ DOMAIN v = 1 .. Len(t)
      /\ \A j \in 1 .. Len(t) : v[j] = IF j = o THEN ended ELSE t[j]
  BY <1>1, <1>3, <1>5, ExceptSeq
<1>8. /\ u \in Seq(Record) /\ Len(u) = Len(t) /\ DOMAIN u = 1 .. Len(t)
      /\ \A j \in 1 .. Len(t) : u[j] = IF j = n THEN given ELSE v[j]
  BY <1>1, <1>4, <1>6, <1>7, ExceptSeq
<1> QED BY <1>1, <1>3, <1>4, <1>7, <1>8

\* A call on an id in use is a call on a thread of the lists.
LEMMA Called ==
  ASSUME TypeOK, Sound, NEW id \in Held
  PROVE  /\ threads_ids[id] \in Live /\ thread[threads_ids[id]].id = id
         /\ threads_ids[id] \in DOMAIN thread
         /\ \A o \in Live : thread[o].id = id => o = threads_ids[id]
  BY DEF Sound, Named, Live

\* The list that find_node_with_id searches holds the thread called.
LEMMA Listed ==
  ASSUME TypeOK, Sound, NEW id \in Held, NEW q \in {active, waiting, terminated}, Lists(q, id)
  PROVE  q # <<>> /\ threads_ids[id] \in ToSet(q)
<1>1. PICK i \in DOMAIN q : thread[q[i]].id = id
  BY DEF Lists
<1>2. q[i] \in ToSet(q) /\ q # <<>>
  BY <1>1 DEF ToSet
<1>3. q[i] \in Live
  BY <1>2 DEF Sound, Apart, Listing
<1> QED BY <1>1, <1>2, <1>3, Called

-----------------------------------------------------------------------------
(***************************************************************************)
(* The calls, one by one.                                                  *)
(***************************************************************************)
LEMMA SmallestNumber ==
  ASSUME NEW S \in SUBSET Nat, S # {}
  PROVE  Min(S) \in S /\ \A x \in S : Min(S) <= x
<1> DEFINE Less == OpToRel(<, Nat)
<1>1. IsWellFoundedOn(Less, Nat)
  BY NatLessThanWellFounded
<1>2. \A x, y \in Nat : x < y => <<x, y>> \in Less
  BY DEF OpToRel
<1> HIDE DEF Less
<1>3. PICK n \in S : \A x \in S : <<x, n>> \notin Less
  BY <1>1, WFMin
<1>4. ASSUME NEW x \in S PROVE n <= x
  <2>1. n \in Nat /\ x \in Nat
    OBVIOUS
  <2>2. ~(x < n)
    BY <1>2, <1>3, <2>1
  <2> QED BY <2>1, <2>2
<1> QED BY <1>4 DEF Min

\* find_thread_id hands out an id that is not in use.
LEMMA FreshId ==
  ASSUME TypeOK, FreeIds # {}
  PROVE  NewId \in Id /\ threads_ids[NewId] = NULL
<1> DEFINE found == Min(FreeIds)
<1>1. FreeIds \subseteq Nat
  BY ThreadsConstants DEF FreeIds, TypeOK, Id
<1>2. found \in FreeIds
  BY <1>1, SmallestNumber
<1>3. threads_ids[found % MaxCount] = NULL /\ found \in Nat
  BY <1>1, <1>2 DEF FreeIds
<1> HIDE DEF found
<1>4. found % MaxCount \in Id
  BY <1>3, ThreadsConstants DEF Id
<1>5. NewId = found % MaxCount
  BY DEF NewId, found
<1> QED BY <1>3, <1>4, <1>5

LEMMA CreateType ==
  ASSUME TypeOK, create_thread
  PROVE  TypeOK' /\ DOMAIN thread' = DOMAIN thread \cup {Len(thread')}
         /\ Len(thread') = Len(thread) + 1
<1> DEFINE new == [id |-> NewId, state |-> "WAITING"]
<1>1. NewId \in Id
  BY FreshId DEF create_thread
<1>2. thread \in Seq(Record) /\ new \in Record
  BY <1>1, Numbers DEF Record, States
<1>3. thread' = Append(thread, new)
  BY DEF create_thread
<1> HIDE DEF new
<1>4. /\ thread' \in Seq(Record) /\ Len(thread') = Len(thread) + 1
      /\ DOMAIN thread = 1 .. Len(thread) /\ DOMAIN thread' = 1 .. Len(thread) + 1
      /\ Len(thread) \in Nat
  BY <1>2, <1>3, AppendFacts
<1>5. DOMAIN thread' = DOMAIN thread \cup {Len(thread')} /\ DOMAIN thread \subseteq DOMAIN thread'
  BY <1>4
<1>6. Len(thread') \in Thread /\ Len(thread') \in DOMAIN thread'
  BY <1>4, ThreadsConstants DEF create_thread, Thread
<1>7. \A q \in {waiting, active, terminated} : q \in Seq(DOMAIN thread')
  BY <1>5, Queues
<1>8. waiting' \in Seq(DOMAIN thread')
  BY <1>6, <1>7, AppendFacts DEF create_thread
<1>9. \A q \in {waiting', active', terminated'} : q \in Seq(DOMAIN thread')
  BY <1>7, <1>8 DEF create_thread
<1>10. threads_ids' \in [Id -> Thread \cup {NULL}] /\ last_id' \in Id
  BY <1>1, <1>6 DEF TypeOK, create_thread
<1>11. freed' \subseteq DOMAIN thread' /\ running' \in DOMAIN thread'
  BY <1>5 DEF TypeOK, create_thread
<1>12. TypeOK'
  BY <1>4, <1>6, <1>9, <1>10, <1>11 DEF TypeOK, create_thread, Record, States
<1> QED BY <1>4, <1>5, <1>12

LEMMA CreateSound ==
  ASSUME TypeOK, Sound, create_thread
  PROVE  Sound'
<1> DEFINE o == Len(thread')
<1>1. /\ TypeOK' /\ DOMAIN thread' = DOMAIN thread \cup {o} /\ o = Len(thread) + 1
  BY CreateType
<1>2. /\ o \notin DOMAIN thread /\ o \in Int /\ o # NULL
      /\ \A e \in DOMAIN thread : e < o /\ e # NULL
      /\ thread'[o] = [id |-> NewId, state |-> "WAITING"]
      /\ \A e \in DOMAIN thread : thread'[e] = thread[e]
  <2>1. /\ Len(thread) \in Nat \ {0} /\ DOMAIN thread = 1 .. Len(thread)
    BY Numbers
  <2> QED BY <1>1, <2>1, AppendFacts DEF create_thread, TypeOK, NULL
<1> HIDE DEF o
<1>3. Live' = Live \cup {o} /\ o \notin Live /\ Live \subseteq DOMAIN thread
  BY <1>1, <1>2 DEF Live, TypeOK, create_thread
<1>4. /\ ToSet(waiting') = ToSet(waiting) \cup {o}
      /\ active' = active /\ terminated' = terminated
  <2>1. waiting \in Seq(DOMAIN thread \cup {o})
    BY Queues
  <2> QED BY <2>1, AppendSet DEF create_thread, o
<1>5. ToSet(active) \cup ToSet(waiting) \cup ToSet(terminated) = Live
  BY DEF Sound, Apart, Listing
<1>6. Ordered'
  <2>1. \A d \in Live : d < o
    BY <1>2, <1>3
  <2>2. Increasing(waiting')
    BY <1>2, <1>5, <2>1, Queues, IncreasingAppend DEF create_thread, o, Sound, Ordered
  <2> QED BY <1>4, <1>5, <2>1, <2>2 DEF Sound, Ordered
<1>7. Apart' /\ Listing' = Live'
  BY <1>3, <1>4, <1>5 DEF Sound, Apart, Listing
<1>8. Ended'
  BY <1>2, <1>3, <1>4 DEF Sound, Ended
<1>9. Named'
  <2>1. /\ NewId \in Id /\ threads_ids[NewId] = NULL
        /\ threads_ids' = [threads_ids EXCEPT ![NewId] = o]
    BY FreshId DEF create_thread, o
  <2>2. /\ threads_ids'[NewId] = o
        /\ \A id \in Id : id # NewId => threads_ids'[id] = threads_ids[id]
    BY <2>1 DEF TypeOK
  <2>3. \A e \in Live : thread[e].id \in Id /\ thread[e].id # NewId
    BY <1>2, <1>3, <2>1, Numbers DEF Sound, Named, Record
  <2>4. Held' = Held \cup {NewId} /\ Held \subseteq Id
    BY <1>2, <2>1, <2>2 DEF Held
  <2>5. \A e \in Live' : threads_ids'[thread'[e].id] = e
    BY <1>2, <1>3, <2>2, <2>3 DEF Sound, Named
  <2>6. \A id \in Held : id # NewId
    BY <2>1 DEF Held
  <2>7. \A id \in Held' : threads_ids'[id] \in Live' /\ thread'[threads_ids'[id]].id = id
    BY <1>2, <1>3, <2>2, <2>4, <2>6 DEF Sound, Named
  <2> QED BY <2>5, <2>7 DEF Named
<1>10. Turning'
  <2>1. running' = running /\ running \in DOMAIN thread
    BY DEF TypeOK, create_thread
  <2> QED BY <1>2, <1>3, <1>4, <1>5, <2>1 DEF Sound, Turning
<1> QED BY <1>6, <1>7, <1>8, <1>9, <1>10 DEF Sound

LEMMA StartStep ==
  ASSUME TypeOK, Sound, NEW id \in Held, start_thread(id)
  PROVE  TypeOK' /\ Sound'
<1> DEFINE o == Head(waiting)
<1>1. waiting # <<>>
  BY Listed DEF start_thread
<1>2. /\ o \in DOMAIN thread /\ o \in Int
      /\ active' = Append(active, o) /\ waiting' = Tail(waiting)
      /\ active \in Seq(DOMAIN thread) /\ active \in Seq(Int)
      /\ active' \in Seq(DOMAIN thread) /\ waiting' \in Seq(DOMAIN thread)
  BY <1>1, Queues, Numbers, TailFacts, AppendFacts DEF start_thread
<1>3. /\ ToSet(waiting) = {o} \cup ToSet(waiting')
      /\ ToSet(active') = ToSet(active) \cup {o}
      /\ Increasing(waiting') /\ o \notin ToSet(waiting')
      /\ \A e \in ToSet(waiting') : o < e
  BY <1>1, <1>2, Queues, TailSet, AppendSet, IncreasingTail DEF Sound, Ordered
<1> HIDE DEF o
<1>4. /\ UNCHANGED <<thread, ids, terminated, freed, running, joining, handlers, ticks, fault>>
      /\ Live' = Live /\ Held' = Held
  BY DEF start_thread, ids, Live, Held
<1>5. TypeOK'
  BY <1>2, <1>4 DEF TypeOK, ids
<1>6. Ordered'
  <2>1. Increasing(active')
    BY <1>2, <1>3, Queues, IncreasingAppend DEF Sound, Ordered
  <2> QED BY <1>3, <2>1 DEF Sound, Ordered
<1>7. Apart' /\ Listing' = Live'
  BY <1>3, <1>4 DEF Sound, Apart, Listing
<1>8. Ended' /\ Named'
  BY <1>4 DEF Sound, Ended, Named, ids
<1>9. Turning'
  <2>1. active # <<>> /\ active' # <<>>
    BY <1>2, AppendFacts DEF Sound, Turning
  <2>2. ToSet(Tail(active')) = ToSet(Tail(active)) \cup {o}
    BY <1>2, <2>1, AppendTail
  <2>3. o # running
    BY <1>3 DEF Sound, Turning
  <2> QED BY <1>3, <1>4, <2>1, <2>2, <2>3 DEF Sound, Turning
<1> QED BY <1>5, <1>6, <1>7, <1>8, <1>9 DEF Sound

(***************************************************************************)
(* The head of the active list moves to the terminated ones, as it does    *)
(* when a thread is terminated, be it the one meant or not.                *)
(***************************************************************************)
MovesHead ==
  /\ active' = Tail(active)
  /\ terminated' = Append(terminated, Head(active))
  /\ waiting' = waiting /\ freed' = freed

LEMMA MovedHead ==
  ASSUME TypeOK, Sound, MovesHead, DOMAIN thread' = DOMAIN thread
  PROVE  /\ active' \in Seq(DOMAIN thread) /\ terminated' \in Seq(DOMAIN thread)
         /\ Head(active) \in Live /\ Head(active) \notin ToSet(active')
         /\ Head(active) \notin ToSet(waiting) /\ Head(active) \notin ToSet(terminated)
         /\ ToSet(active) = {Head(active)} \cup ToSet(active')
         /\ ToSet(terminated') = ToSet(terminated) \cup {Head(active)}
         /\ Ordered' /\ Apart' /\ Listing' = Live'
<1> DEFINE o == Head(active)
<1>1. active # <<>>
  BY DEF Sound, Turning
<1>2. /\ o \in DOMAIN thread /\ o \in Int
      /\ active' \in Seq(DOMAIN thread) /\ terminated' \in Seq(DOMAIN thread)
  BY <1>1, Queues, Numbers, TailFacts, AppendFacts DEF MovesHead
<1>3. /\ ToSet(active) = {o} \cup ToSet(active')
      /\ ToSet(terminated') = ToSet(terminated) \cup {o}
      /\ Increasing(active') /\ o \notin ToSet(active')
  BY <1>1, <1>2, Queues, TailSet, AppendSet, IncreasingTail DEF Sound, Ordered, MovesHead
<1>4. o \in Live /\ o \notin ToSet(terminated)
  BY <1>3 DEF Sound, Apart, Listing
<1>5. o \notin ToSet(waiting)
  <2>1. \A e \in ToSet(waiting) : e \in Int /\ o < e
    BY <1>3, Queues, SetOfTyped DEF Sound, Ordered
  <2> QED BY <1>2, <2>1
<1>6. Live' = Live
  BY DEF Live, MovesHead
<1>7. Distinct(terminated')
  BY <1>2, <1>4, Queues, DistinctAppend DEF Sound, Apart, Listing, MovesHead
<1> HIDE DEF o
<1>8. Ordered'
  BY <1>3 DEF Sound, Ordered, MovesHead
<1>9. Apart' /\ Listing' = Live'
  BY <1>3, <1>4, <1>5, <1>6, <1>7 DEF Sound, Apart, Listing, MovesHead
<1> QED BY <1>2, <1>3, <1>4, <1>5, <1>8, <1>9 DEF o

LEMMA TerminateOtherStep ==
  ASSUME TypeOK, Sound, NEW id \in Held, terminate_other(id)
  PROVE  TypeOK' /\ Sound'
<1>1. MovesHead /\ UNCHANGED <<thread, ids, running, joining, handlers, ticks, fault>>
  BY DEF terminate_other, MovesHead
<1>2. /\ active' \in Seq(DOMAIN thread) /\ terminated' \in Seq(DOMAIN thread)
      /\ ToSet(active) = {Head(active)} \cup ToSet(active')
      /\ ToSet(terminated') = ToSet(terminated) \cup {Head(active)}
      /\ Ordered' /\ Apart' /\ Listing' = Live'
  BY <1>1, MovedHead
<1>3. TypeOK'
  BY <1>1, <1>2 DEF TypeOK, ids, MovesHead
<1>4. Live' = Live /\ Held' = Held
  BY <1>1 DEF Live, Held, ids, MovesHead
<1>5. Ended' /\ Named'
  BY <1>1, <1>2, <1>4 DEF Sound, Ended, Named, ids
<1>6. Turning'
  <2>1. active' # <<>>
    <3>1. PICK i \in DOMAIN active : thread[active[i]].id = id
      BY DEF terminate_other, Lists
    <3>2. active[i] # Head(active)
      BY <3>1 DEF terminate_other, IsCurrent
    <3>3. active[i] \in ToSet(active')
      BY <1>2, <3>2 DEF ToSet
    <3> QED BY <1>2, <3>3, SetOfTyped
  <2>2. ToSet(Tail(active')) \subseteq ToSet(active')
    BY <1>2, <2>1, TailSet
  <2>3. running \notin ToSet(active')
    BY <1>1 DEF Sound, Turning, MovesHead
  <2> QED BY <1>1, <1>2, <2>1, <2>2, <2>3 DEF Sound, Turning, MovesHead
<1> QED BY <1>2, <1>3, <1>5, <1>6 DEF Sound

(***************************************************************************)
(* find_next_thread, the processor's change of hands.  The next thread is  *)
(* the second of the active list, which waits for its first run.           *)
(***************************************************************************)
LEMMA NextThreadStep ==
  ASSUME TypeOK, Sound, find_next_thread, Len(active) # 1
  PROVE  TypeOK' /\ Sound' /\ UNCHANGED <<handlers, fault>>
<1> DEFINE o == Head(active)
           next == active[2]
<1>1. active # <<>> /\ active \in Seq(DOMAIN thread)
  BY Queues DEF Sound, Turning
<1>2. /\ 2 \in DOMAIN active /\ o = active[1] /\ 1 \in DOMAIN active
      /\ next = Head(Tail(active)) /\ Tail(active) # <<>>
      /\ o \in DOMAIN thread /\ next \in DOMAIN thread
  <2>1. /\ Len(active) \in Nat \ {0} /\ DOMAIN active = 1 .. Len(active)
        /\ Tail(active) \in Seq(DOMAIN thread) /\ Len(Tail(active)) = Len(active) - 1
        /\ o = active[1]
    BY <1>1, TailFacts
  <2>2. 1 \in DOMAIN active /\ 2 \in DOMAIN active /\ Len(Tail(active)) >= 1
    BY <2>1
  <2>3. Tail(active) # <<>> /\ 1 \in DOMAIN Tail(active)
    BY <2>1, <2>2
  <2>4. Tail(active)[1] = active[2] /\ Head(Tail(active)) = Tail(active)[1]
    BY <1>1, <2>1, <2>3, TailFacts
  <2>5. active[1] \in DOMAIN thread /\ active[2] \in DOMAIN thread
    BY <1>1, <2>2
  <2> QED BY <2>1, <2>2, <2>3, <2>4, <2>5
<1>3. next \in ToSet(Tail(active)) /\ next # o
  <2>1. next \in ToSet(Tail(active))
    BY <1>1, <1>2, TailFacts, TailSet
  <2>2. o \notin ToSet(Tail(active))
    BY <1>1, Queues, IncreasingTail DEF Sound, Ordered
  <2> QED BY <2>1, <2>2
<1>4. next # running /\ thread[next].state = "WAITING"
  <2>1. next \in ToSet(active)
    BY <1>1, <1>3, TailSet
  <2> QED BY <1>3, <2>1 DEF Sound, Turning
<1>5. Given(next)
  BY <1>4 DEF Given
<1> HIDE DEF o, next
<1>6. /\ thread' = [thread EXCEPT ![o].state = "END", ![next].state = "RUNNING"]
      /\ running' = next
      /\ MovesHead
      /\ UNCHANGED <<ids, waiting, freed, joining, handlers, ticks, fault>>
  BY <1>5 DEF find_next_thread, MovesHead, o, next
<1>7. /\ DOMAIN thread' = DOMAIN thread /\ Len(thread') = Len(thread)
      /\ thread'[o].state = "END" /\ thread'[next].state = "RUNNING"
      /\ \A e \in DOMAIN thread : e # o /\ e # next => thread'[e] = thread[e]
      /\ \A e \in DOMAIN thread : thread'[e].id = thread[e].id
      /\ thread' \in Seq(Record)
  <2>1. thread \in Seq(Record)
    BY Numbers
  <2>2. thread' = Switched(thread, o, next)
    BY <1>6 DEF Switched
  <2> QED BY <1>2, <1>3, <2>1, <2>2, StatesWritten
<1>8. /\ active' \in Seq(DOMAIN thread) /\ terminated' \in Seq(DOMAIN thread)
      /\ o \in Live /\ o \notin ToSet(active') /\ o \notin ToSet(waiting)
      /\ ToSet(active) = {o} \cup ToSet(active')
      /\ ToSet(terminated') = ToSet(terminated) \cup {o}
      /\ Ordered' /\ Apart' /\ Listing' = Live'
  BY <1>6, <1>7, MovedHead DEF o
<1>9. TypeOK'
  <2>1. thread' \in Seq([id : Id, state : {"WAITING", "READY", "RUNNING", "END"}])
    BY <1>7 DEF Record, States
  <2>2. \A q \in {waiting', active', terminated'} : q \in Seq(DOMAIN thread')
    BY <1>6, <1>7, <1>8, Queues
  <2> QED BY <1>2, <1>6, <1>7, <2>1, <2>2 DEF TypeOK, ids, MovesHead
<1>10. Live' = Live /\ Held' = Held /\ Live \subseteq DOMAIN thread
  BY <1>6, <1>7 DEF Live, Held, ids, MovesHead
<1>11. Ended'
  BY <1>2, <1>6, <1>7, <1>8, <1>10 DEF Sound, Ended
<1>12. Named'
  <2>1. threads_ids' = threads_ids /\ Named
    BY <1>6 DEF Sound, ids
  <2>2. \A id \in Held : threads_ids[id] \in DOMAIN thread
    BY <1>10, <2>1 DEF Named
  <2> QED BY <1>7, <1>10, <2>1, <2>2 DEF Named
<1>13. Turning'
  <2>1. active' = Tail(active) /\ active' # <<>> /\ Increasing(active') /\ Head(active') = next
    BY <1>2, <1>6, <1>8 DEF MovesHead, Ordered, o, next
  <2>2. ToSet(active') \cup ToSet(waiting) \subseteq Live
    BY <1>8, <1>10 DEF Sound, Apart, Listing
  <2>3. next \notin ToSet(Tail(active'))
    <3>1. active' \in Seq(Int)
      BY <1>1, <2>1, Queues, TailFacts
    <3> QED BY <2>1, <3>1, IncreasingTail
  <2>4. next \notin ToSet(waiting)
    <3>1. \A e \in ToSet(waiting) : e \in Int /\ next \in Int /\ next < e
      BY <1>2, <1>3, <1>8, <2>1, Queues, SetOfTyped, Numbers DEF Sound, Ordered
    <3> QED BY <3>1
  <2>5. \A e \in ToSet(active') \cup ToSet(waiting) : e # next => thread'[e].state = "WAITING"
    <3> SUFFICES ASSUME NEW e \in ToSet(active') \cup ToSet(waiting), e # next
                 PROVE  thread'[e].state = "WAITING"
      OBVIOUS
    <3>1. e \in DOMAIN thread /\ e # o
      BY <1>8, <1>10, <2>2
    <3>2. e # running
      BY <2>1 DEF Sound, Turning
    <3>3. thread[e].state = "WAITING"
      BY <1>8, <3>2 DEF Sound, Turning
    <3> QED BY <1>7, <3>1, <3>3
  <2> QED BY <1>6, <1>7, <2>1, <2>3, <2>4, <2>5 DEF Turning
<1> QED BY <1>6, <1>8, <1>9, <1>11, <1>12, <1>13 DEF Sound

(***************************************************************************)
(* destroy_thread frees the thread it was called for, whose id is free     *)
(* again.  If nothing is left dangling, that thread was the head; if it    *)
(* is left, the head is out of the lists instead.                          *)
(***************************************************************************)
LEMMA FreeType ==
  ASSUME TypeOK, Sound, NEW id \in Held, NEW rest, Free(threads_ids[id], rest)
  PROVE  /\ threads_ids' \in [Id -> Thread \cup {NULL}]
         /\ freed' \subseteq DOMAIN thread'
         /\ fault' \in {"none", "wild", "dangling"}
<1>1. threads_ids[id] \in DOMAIN thread
  BY Called
<1>2. PICK c \in BOOLEAN : c = Contains(rest, threads_ids[id])
  BY DEF Contains
<1>3. fault' \in {"none", "wild", "dangling"}
  BY <1>2 DEF Free
<1>4. threads_ids' \in [Id -> Thread \cup {NULL}]
  BY DEF Free, TypeOK
<1>5. freed' \subseteq DOMAIN thread'
  BY <1>1 DEF Free, TypeOK
<1> QED BY <1>3, <1>4, <1>5

LEMMA Freed ==
  ASSUME TypeOK, Sound, NEW id \in Held, NEW rest, Free(threads_ids[id], rest)
  PROVE  /\ (fault' = "dangling") <=> Contains(rest, threads_ids[id])
         /\ threads_ids[id] \in freed'
         /\ Live' = Live \ {threads_ids[id]}
         /\ Named'
<1> DEFINE o == threads_ids[id]
<1>1. /\ o \in Live /\ thread[o].id = id /\ id \in Id
      /\ \A e \in Live : thread[e].id = id => e = o
  BY Called DEF Held
<1>2. /\ freed' = freed \cup {o} /\ thread' = thread
      /\ threads_ids' = [threads_ids EXCEPT ![id] = NULL]
  BY <1>1 DEF Free
<1>3. (fault' = "dangling") <=> Contains(rest, o)
  <2>1. PICK c \in BOOLEAN : c = Contains(rest, o)
    BY DEF Contains
  <2> QED BY <2>1 DEF Free
<1> HIDE DEF o
<1>4. Live' = Live \ {o}
  BY <1>2 DEF Live
<1>5. threads_ids'[id] = NULL /\ \A k \in Id : k # id => threads_ids'[k] = threads_ids[k]
  BY <1>1, <1>2 DEF TypeOK
<1>6. Held' = Held \ {id} /\ Held \subseteq Id
  BY <1>1, <1>5 DEF Held
<1>7. \A k \in Held' : threads_ids'[k] \in Live' /\ thread'[threads_ids'[k]].id = k
  BY <1>1, <1>2, <1>4, <1>5, <1>6 DEF Sound, Named
<1>8. \A e \in Live' : threads_ids'[thread'[e].id] = e
  <2> SUFFICES ASSUME NEW e \in Live' PROVE threads_ids'[thread[e].id] = e
    BY <1>2
  <2>1. e \in Live /\ thread[e].id # id /\ thread[e].id \in Id
    BY <1>1, <1>4, Numbers DEF Live, Record
  <2> QED BY <1>5, <2>1 DEF Sound, Named
<1> QED BY <1>2, <1>3, <1>4, <1>7, <1>8 DEF Named, o

LEMMA DestroyWaitingStep ==
  ASSUME TypeOK, Sound, NEW id \in Held, destroy_waiting(id)
  PROVE  TypeOK' /\ Laid' /\ (fault' = "none" => Sound')
<1> DEFINE o == threads_ids[id]
<1>1. /\ waiting # <<>> /\ o \in ToSet(waiting)
      /\ waiting' = Tail(waiting) /\ waiting' \in Seq(DOMAIN thread)
      /\ Free(o, waiting')
      /\ UNCHANGED <<thread, active, terminated, running, joining, handlers, ticks, last_id>>
  <2>1. waiting # <<>> /\ o \in ToSet(waiting)
    BY Listed DEF destroy_waiting
  <2> QED BY <2>1, Queues, TailFacts DEF destroy_waiting, Free
<1>2. /\ threads_ids' \in [Id -> Thread \cup {NULL}]
      /\ freed' \subseteq DOMAIN thread' /\ fault' \in {"none", "wild", "dangling"}
  BY <1>1, FreeType
<1>3. TypeOK'
  BY <1>1, <1>2 DEF TypeOK, Faults
<1>4. ASSUME fault' # "dangling" PROVE Sound'
  <2>1. ~Contains(waiting', o) /\ Live' = Live \ {o} /\ Named'
    BY <1>1, <1>4, Freed
  <2> HIDE DEF o
  <2>2. /\ o = Head(waiting) /\ ToSet(waiting) = {o} \cup ToSet(waiting')
        /\ Increasing(waiting') /\ o \notin ToSet(waiting')
    <3>1. o = Head(waiting)
      BY <1>1, <2>1, Queues, OnlyHead
    <3> QED BY <1>1, <3>1, Queues, TailSet, IncreasingTail DEF Sound, Ordered
  <2>3. o \notin ToSet(active) /\ o \notin ToSet(terminated)
    <3>1. \A d \in ToSet(active) : d \in Int /\ d < o
      BY <1>1, Queues, SetOfTyped DEF Sound, Ordered
    <3>2. o \in Int
      BY <1>1, Queues, SetOfTyped
    <3> QED BY <1>1, <3>1, <3>2 DEF Sound, Apart, Listing
  <2>4. Ordered'
    BY <1>1, <2>2 DEF Sound, Ordered
  <2>5. Apart' /\ Listing' = Live'
    BY <1>1, <2>1, <2>2, <2>3 DEF Sound, Apart, Listing
  <2>6. Ended'
    BY <1>1, <2>1 DEF Sound, Ended
  <2>7. Turning'
    BY <1>1, <2>2 DEF Sound, Turning
  <2> QED BY <2>1, <2>4, <2>5, <2>6, <2>7 DEF Sound
<1>5. ASSUME fault' = "dangling" PROVE Laid'
  <2>1. Contains(waiting', o) /\ Live' = Live \ {o} /\ o \in freed'
    BY <1>1, <1>5, Freed
  <2> DEFINE h == Head(waiting)
  <2> HIDE DEF o
  <2>2. /\ ToSet(waiting) = {h} \cup ToSet(waiting') /\ h \notin ToSet(waiting')
        /\ Increasing(waiting')
    BY <1>1, Queues, TailSet, IncreasingTail DEF Sound, Ordered
  <2> HIDE DEF h
  <2>3. o \in ToSet(waiting') /\ o # h
    <3>1. DOMAIN waiting' = 1 .. Len(waiting')
      BY <1>1
    <3> QED BY <2>1, <2>2, <3>1 DEF Contains, ToSet
  <2>4. h \notin ToSet(active) /\ h \notin ToSet(terminated)
    <3>1. \A d \in ToSet(active) : d \in Int /\ d < h
      BY <2>2, Queues, SetOfTyped DEF Sound, Ordered
    <3>2. h \in Int
      BY <2>2, Queues, SetOfTyped
    <3> QED BY <2>2, <3>1, <3>2 DEF Sound, Apart
  <2>5. Ordered' /\ Apart'
    BY <1>1, <2>2 DEF Sound, Ordered, Apart
  <2>6. h \in Live' /\ Listing' = (Live' \ {h}) \cup {o}
    BY <1>1, <2>1, <2>2, <2>3, <2>4 DEF Sound, Listing
  <2> QED BY <1>5, <2>1, <2>5, <2>6 DEF Laid
<1>6. Sound' => Ordered' /\ Apart' /\ Listing' = Live' /\ Ended'
  BY DEF Sound
<1> QED BY <1>3, <1>4, <1>5, <1>6 DEF Laid

LEMMA DestroyEndedStep ==
  ASSUME TypeOK, Sound, NEW id \in Held, destroy_ended(id)
  PROVE  TypeOK' /\ Laid' /\ (fault' = "none" => Sound')
<1> DEFINE o == threads_ids[id]
<1>1. /\ terminated # <<>> /\ o \in ToSet(terminated)
      /\ terminated' = Tail(terminated) /\ terminated' \in Seq(DOMAIN thread)
      /\ Free(o, terminated')
      /\ UNCHANGED <<thread, active, waiting, running, joining, handlers, ticks, last_id>>
  <2>1. terminated # <<>> /\ o \in ToSet(terminated)
    BY Listed DEF destroy_ended
  <2> QED BY <2>1, Queues, TailFacts DEF destroy_ended, Free
<1>2. /\ threads_ids' \in [Id -> Thread \cup {NULL}]
      /\ freed' \subseteq DOMAIN thread' /\ fault' \in {"none", "wild", "dangling"}
  BY <1>1, FreeType
<1>3. TypeOK'
  BY <1>1, <1>2 DEF TypeOK, Faults
<1>4. ASSUME fault' # "dangling" PROVE Sound'
  <2>1. ~Contains(terminated', o) /\ Live' = Live \ {o} /\ Named'
    BY <1>1, <1>4, Freed
  <2> HIDE DEF o
  <2>2. /\ o = Head(terminated) /\ ToSet(terminated) = {o} \cup ToSet(terminated')
        /\ Distinct(terminated') /\ o \notin ToSet(terminated')
    <3>1. o = Head(terminated)
      BY <1>1, <2>1, Queues, OnlyHead
    <3> QED BY <1>1, <3>1, Queues, TailSet, DistinctTail DEF Sound, Apart, Listing
  <2>3. Ordered'
    BY <1>1 DEF Sound, Ordered
  <2>4. Apart' /\ Listing' = Live'
    BY <1>1, <2>1, <2>2 DEF Sound, Apart, Listing
  <2>5. Ended'
    BY <1>1, <2>1, <2>2 DEF Sound, Ended
  <2>6. Turning'
    BY <1>1 DEF Sound, Turning
  <2> QED BY <2>1, <2>3, <2>4, <2>5, <2>6 DEF Sound
<1>5. ASSUME fault' = "dangling" PROVE Laid'
  <2>1. Contains(terminated', o) /\ Live' = Live \ {o} /\ o \in freed'
    BY <1>1, <1>5, Freed
  <2> DEFINE h == Head(terminated)
  <2> HIDE DEF o
  <2>2. /\ ToSet(terminated) = {h} \cup ToSet(terminated') /\ h \notin ToSet(terminated')
        /\ Distinct(terminated')
    BY <1>1, Queues, TailSet, DistinctTail DEF Sound, Apart
  <2> HIDE DEF h
  <2>3. o \in ToSet(terminated') /\ o # h
    <3>1. DOMAIN terminated' = 1 .. Len(terminated')
      BY <1>1
    <3> QED BY <2>1, <2>2, <3>1 DEF Contains, ToSet
  <2>4. h \notin ToSet(active) /\ h \notin ToSet(waiting)
    BY <2>2 DEF Sound, Apart
  <2>5. Ordered' /\ Apart'
    BY <1>1, <2>2 DEF Sound, Ordered, Apart
  <2>6. h \in Live' /\ Listing' = (Live' \ {h}) \cup {o}
    BY <1>1, <2>1, <2>2, <2>3, <2>4 DEF Sound, Listing
  <2> QED BY <1>5, <2>1, <2>5, <2>6 DEF Laid
<1>6. Sound' => Ordered' /\ Apart' /\ Listing' = Live' /\ Ended'
  BY DEF Sound
<1> QED BY <1>3, <1>4, <1>5, <1>6 DEF Laid

-----------------------------------------------------------------------------
(***************************************************************************)
(* The invariant is inductive.                                             *)
(***************************************************************************)

\* As long as nothing has gone wrong the lists are as they should be.
LEMMA SoundLaid ==
  ASSUME Sound', fault' = "none"
  PROVE  Laid'
  BY DEF Sound, Laid

\* What IInv reads and an action that only stops, joins or ticks leaves alone.
LEMMA StillSound ==
  ASSUME IInv, UNCHANGED <<thread, ids, queues, freed, running, handlers>>,
         joining' \in BOOLEAN, ticks' \in 0 .. Wrap - 1, fault' \in Faults,
         fault' = fault \/ (fault = "none" /\ fault' # "dangling")
  PROVE  IInv'
<1>1. TypeOK'
  BY DEF IInv, TypeOK, ids, queues
<1>2. Live' = Live /\ Held' = Held /\ Listing' = Listing
  BY DEF Live, Held, Listing, ids, queues
<1>3. Ordered' = Ordered /\ Apart' = Apart /\ Ended' = Ended
  BY <1>2 DEF Ordered, Apart, Ended, queues
<1>4. Sound => Sound'
  BY <1>2, <1>3 DEF Sound, Named, Turning, ids, queues
<1>5. Laid'
  <2>1. CASE fault' = fault
    BY <1>2, <1>3, <2>1 DEF IInv, Laid
  <2>2. CASE fault = "none" /\ fault' # "dangling"
    BY <1>2, <1>3, <2>2 DEF IInv, Laid
  <2> QED BY <2>1, <2>2
<1> QED BY <1>1, <1>4, <1>5 DEF IInv

LEMMA StopsSafely ==
  ASSUME IInv, Calls, NEW f \in Faults \ {"dangling"}, Stops(f)
  PROVE  IInv'
  BY StillSound DEF Stops, IInv, TypeOK, Calls, kernelVars, ids, queues

LEMMA NextThread ==
  ASSUME IInv, Calls, find_next_thread
  PROVE  IInv'
<1>1. CASE Len(active) = 1
  BY <1>1, StopsSafely DEF find_next_thread, Faults
<1>2. CASE Len(active) # 1
  <2>1. TypeOK' /\ Sound' /\ fault' = "none"
    BY <1>2, NextThreadStep DEF IInv, Calls
  <2>2. Laid'
    BY <2>1, SoundLaid
  <2> QED BY <2>1, <2>2 DEF IInv
<1> QED BY <1>1, <1>2

LEMMA Inductive ==
  ASSUME IInv, [Next]_vars
  PROVE  IInv'
<1>1. CASE create_thread
  <2>1. TypeOK' /\ Sound' /\ fault' = "none"
    BY <1>1, CreateType, CreateSound DEF IInv, Calls, create_thread
  <2> QED BY <2>1, SoundLaid DEF IInv
<1>2. CASE create_thread_panic
  BY <1>2, StopsSafely DEF create_thread_panic, Faults
<1>3. CASE on_thread_close
  BY <1>3, NextThread DEF on_thread_close
<1>4. ASSUME NEW id \in Held, start_thread(id) PROVE IInv'
  <2>1. TypeOK' /\ Sound' /\ fault' = "none"
    BY <1>4, StartStep DEF IInv, Calls, start_thread
  <2> QED BY <2>1, SoundLaid DEF IInv
<1>5. ASSUME NEW id \in Held, start_thread_panic(id) PROVE IInv'
  BY <1>5, StopsSafely DEF start_thread_panic, Faults
<1>6. ASSUME NEW id \in Held, terminate_current(id) \/ destroy_running(id) PROVE IInv'
  BY <1>6, NextThread DEF terminate_current, destroy_running
<1>7. ASSUME NEW id \in Held, terminate_other(id) PROVE IInv'
  <2>1. TypeOK' /\ Sound' /\ fault' = "none"
    BY <1>7, TerminateOtherStep DEF IInv, Calls, terminate_other
  <2> QED BY <2>1, SoundLaid DEF IInv
<1>8. ASSUME NEW id \in Held, terminate_panic(id) \/ destroy_panic(id) PROVE IInv'
  BY <1>8, StopsSafely DEF terminate_panic, destroy_panic, Faults
<1>9. ASSUME NEW id \in Held, destroy_waiting(id) PROVE IInv'
  BY <1>9, DestroyWaitingStep DEF IInv, Calls, destroy_waiting
<1>10. ASSUME NEW id \in Held, destroy_ended(id) PROVE IInv'
  BY <1>10, DestroyEndedStep DEF IInv, Calls, destroy_ended
<1>11. ASSUME NEW id \in Held, join_thread(id) PROVE IInv'
  BY <1>11, StillSound DEF join_thread, IInv, TypeOK, ids, queues
<1>12. CASE irq0
  <2>1. fault = "none" /\ fault' \in {"none", "hang"}
    <3>1. PICK c \in BOOLEAN : c = Contains(Dispatched, "scheduler")
      BY DEF Contains
    <3> QED BY <1>12, <3>1 DEF irq0
  <2>2. ticks' \in 0 .. Wrap - 1
    BY <1>12, ThreadsConstants DEF irq0, IInv, TypeOK
  <2> QED BY <1>12, <2>1, <2>2, StillSound DEF irq0, IInv, TypeOK, Faults, kernelVars, ids, queues
<1>13. CASE UNCHANGED vars
  BY <1>13, StillSound DEF IInv, TypeOK, vars, kernelVars, ids, queues
<1> QED BY <1>1, <1>2, <1>3, <1>4, <1>5, <1>6, <1>7, <1>8, <1>9, <1>10, <1>11, <1>12, <1>13 DEF Next

LEMMA InitSound == Init => IInv
<1> SUFFICES ASSUME Init PROVE IInv
  OBVIOUS
<1>1. /\ MaxCount \in Nat \ {0} /\ MaxHandlers \in Nat \ {0} /\ MaxThreads \in Nat \ {0}
      /\ Wrap \in Nat \ {0, 1} /\ 0 \in Id /\ 1 \in Thread
  BY ThreadsConstants DEF Id, Thread
<1>2. /\ thread = <<[id |-> 0, state |-> "RUNNING"]>> /\ DOMAIN thread = {1}
      /\ Len(thread) = 1 /\ thread[1] = [id |-> 0, state |-> "RUNNING"]
  BY DEF Init
<1>3. thread \in Seq([id : Id, state : {"WAITING", "READY", "RUNNING", "END"}])
  <2>1. [id |-> 0, state |-> "RUNNING"] \in [id : Id, state : {"WAITING", "READY", "RUNNING", "END"}]
    BY <1>1
  <2> QED BY <1>2, <2>1
<1>4. /\ active = <<1>> /\ waiting = <<>> /\ terminated = <<>> /\ freed = {} /\ running = 1
      /\ active \in Seq({1}) /\ waiting \in Seq({1}) /\ terminated \in Seq({1})
  BY DEF Init, Kernel
<1>5. /\ handlers \in Seq({"clock", "scheduler"}) /\ Len(handlers) <= MaxHandlers
      /\ handlers = Registered(Registered(<<>>, "clock"), "scheduler")
  <2>1. /\ Registered(<<>>, "clock") = <<"clock">> /\ <<"clock">> \in Seq({"clock", "scheduler"})
        /\ Len(<<"clock">>) = 1
    BY <1>1 DEF Registered
  <2>2. handlers = IF MaxHandlers = 1 THEN <<"clock">> ELSE Append(<<"clock">>, "scheduler")
    BY <2>1 DEF Init, Registered
  <2>3. /\ Append(<<"clock">>, "scheduler") \in Seq({"clock", "scheduler"})
        /\ Len(Append(<<"clock">>, "scheduler")) = 2
    BY <2>1, AppendFacts
  <2> QED BY <1>1, <2>1, <2>2, <2>3 DEF Init
<1>6. threads_ids \in [Id -> Thread \cup {NULL}] /\ last_id \in Id
  BY <1>1 DEF Init, Kernel
<1>7. TypeOK
  <2>1. \A q \in {waiting, active, terminated} : q \in Seq(DOMAIN thread)
    BY <1>2, <1>4
  <2>2. freed \subseteq DOMAIN thread /\ running \in DOMAIN thread /\ Len(thread) \in Thread
    BY <1>1, <1>2, <1>4
  <2>3. joining \in BOOLEAN /\ ticks \in 0 .. Wrap - 1 /\ fault \in Faults
    BY <1>1 DEF Init, Faults
  <2> QED BY <1>3, <1>5, <1>6, <2>1, <2>2, <2>3 DEF TypeOK
<1>8. Live = {1} /\ Held = {0}
  BY <1>1, <1>2, <1>4 DEF Live, Held, Init, Kernel, NULL
<1>9. /\ ToSet(active) = {1} /\ ToSet(waiting) = {} /\ ToSet(terminated) = {}
      /\ ToSet(Tail(active)) = {} /\ active # <<>>
  BY <1>4 DEF ToSet
<1>10. Ordered
  BY <1>4, <1>9 DEF Ordered, Increasing
<1>11. Apart /\ Listing = Live
  BY <1>4, <1>8, <1>9 DEF Apart, Listing, Distinct
<1>12. Ended /\ Named
  BY <1>1, <1>2, <1>8 DEF Ended, Named, Init, Kernel
<1>13. Turning
  BY <1>2, <1>4, <1>9 DEF Turning
<1>14. fault = "none"
  BY DEF Init
<1> QED BY <1>7, <1>10, <1>11, <1>12, <1>13, <1>14 DEF IInv, Sound, Laid

LEMMA Safe == Spec => []IInv
  BY InitSound, Inductive, PTL DEF Spec

-----------------------------------------------------------------------------
(***************************************************************************)
(* The theorems.                                                           *)
(***************************************************************************)

\* The thread table, the ids and the lists keep their shape whatever the
\* threads call, also in the state that stops the kernel.
THEOREM ThreadsTypeCorrect == Spec => []TypeOK
<1>1. IInv => TypeOK
  BY DEF IInv
<1> QED BY <1>1, Safe, PTL

\* find_thread_id never hands out the id of a thread that is still there:
\* ids and threads not freed name each other, for any THREAD_MAX_COUNT.
THEOREM IdsNameThreads == Spec => []Identified
<1>1. IInv => Identified
  BY DEF IInv, Identified, Sound, Named
<1> QED BY <1>1, Safe, PTL

\* The calls move the head of a list and not the thread they name; still no thread
\* is listed twice, and the lists hold the threads not freed, save that the call of
\* destroy_thread that frees a thread behind the head puts that one in the head's place.
THEOREM ThreadsStayPlaced == Spec => []Placed
<1>1. IInv => Placed
  <2> DEFINE all == active \o waiting \o terminated
  <2> SUFFICES ASSUME TypeOK, Laid
               PROVE  /\ IsInjective(all)
                      /\ ToSet(all) = Listing
                      /\ \A o \in ToSet(terminated) : Contains(terminated, o)
    BY Zenon DEF IInv, Laid, Ended, Placed
  <2>1. /\ active \in Seq(Int) /\ waiting \in Seq(Int) /\ terminated \in Seq(Int)
        /\ active \o waiting \in Seq(Int)
    <3>1. DOMAIN thread \subseteq Int
      BY Numbers
    <3>2. active \in Seq(Int) /\ waiting \in Seq(Int) /\ terminated \in Seq(Int)
      BY <3>1, Queues
    <3> QED BY <3>2, ConcatFacts
  <2>2. ToSet(active \o waiting) = ToSet(active) \cup ToSet(waiting)
    BY <2>1, ConcatSet
  <2>3. ToSet(all) = Listing
    <3>1. ToSet((active \o waiting) \o terminated) = ToSet(active \o waiting) \cup ToSet(terminated)
      BY <2>1, ConcatSet
    <3> QED BY <2>2, <3>1 DEF Listing
  <2>4. Distinct(active \o waiting)
    BY <2>1, IncreasingConcat, IncreasingDistinct DEF Laid, Ordered
  <2>5. Distinct(all)
    BY <2>1, <2>2, <2>4, DistinctConcat DEF Laid, Apart
  <2>6. \A o \in ToSet(terminated) : Contains(terminated, o)
    <3>1. DOMAIN terminated = 1 .. Len(terminated)
      BY <2>1
    <3> QED BY <3>1 DEF ToSet, Contains
  <2> QED BY <2>3, <2>5, <2>6 DEF IsInjective, Distinct
<1> QED BY <1>1, Safe, PTL

\* The processor is only ever given to a thread that waits for its first run, so
\* that find_next_thread never takes the case that gives it to nobody.
THEOREM TurnsAreFirstRuns == Spec => []Turns
<1>1. IInv => Turns
  <2> SUFFICES ASSUME TypeOK, Sound
               PROVE  /\ active # <<>>
                      /\ thread[running].state = "RUNNING"
                      /\ \A i \in DOMAIN active :
                           \/ i = 1 /\ active[i] = running
                           \/ active[i] # running /\ thread[active[i]].state = "WAITING"
                      /\ \A i \in DOMAIN waiting : thread[waiting[i]].state = "WAITING"
    BY DEF IInv, Turns
  <2>1. active # <<>> /\ active \in Seq(Int) /\ thread[running].state = "RUNNING"
    BY Queues DEF Sound, Turning
  <2>2. ASSUME NEW i \in DOMAIN active, i # 1 PROVE active[i] # running
    <3>1. i - 1 \in DOMAIN Tail(active) /\ Tail(active)[i - 1] = active[i]
      BY <2>1, <2>2, TailFacts
    <3>2. active[i] \in ToSet(Tail(active))
      BY <3>1 DEF ToSet
    <3> QED BY <3>2 DEF Sound, Turning
  <2>3. \A i \in DOMAIN active : active[i] = running \/ thread[active[i]].state = "WAITING"
    BY DEF Sound, Turning, ToSet
  <2>4. \A i \in DOMAIN waiting : thread[waiting[i]].state = "WAITING"
    BY DEF Sound, Turning, ToSet
  <2> QED BY <2>1, <2>2, <2>3, <2>4
<1> QED BY <1>1, Safe, PTL

\* Threads get the processor in the order of their creation, however many there
\* are and in whatever order they are started.
THEOREM TurnsInOrder == Spec => []Fifo
<1>1. IInv => Fifo
  <2> SUFFICES ASSUME TypeOK, Sound PROVE Increasing(active \o waiting)
    BY DEF IInv, Fifo, Increasing
  <2> QED BY Queues, IncreasingConcat DEF Sound, Ordered
<1> QED BY <1>1, Safe, PTL
=============================================================================
