------------------------------ MODULE Threads ------------------------------
(***************************************************************************)
(* threads.c with the interrupt dispatch of isr.c and the tick of clock.c: *)
(* the kernel's threads, from the moment kernel_main has called init_clock *)
(* and init_threads.  A thread_t is its number in the order of creation.   *)
(* The lists are sequences, as LinkedList shows them to be.                *)
(*                                                                         *)
(* sys_cli and sys_sti are hlt (boot.s:73): they wait for an interrupt and *)
(* exclude none.  In the handler of one, where the processor accepts no    *)
(* interrupt, hlt never returns.                                           *)
(***************************************************************************)
EXTENDS Integers, Sequences, SequencesExt, FiniteSetsExt

CONSTANTS
  MaxCount,       \* THREAD_MAX_COUNT
  MaxHandlers,    \* MAX_HANDLERS_COUNT
  MaxThreads,     \* bound: how many threads are created
  Wrap            \* bound: ticks are counted modulo Wrap

ASSUME ThreadsConstants ==
  /\ {MaxCount, MaxHandlers, MaxThreads} \subseteq Nat \ {0}
  /\ Wrap \in Nat \ {0, 1}

VARIABLES
  thread,         \* every thread_t created: [id, state]
  threads_ids,    \* [id -> thread], or NULL
  last_id,        \* the static of find_thread_id
  waiting, active, terminated,
  freed,          \* threads whose memory kfree got back
  running,        \* the thread on the processor
  joining,        \* it spins in join_thread
  handlers,       \* interrupt_handlers[IRQ0]
  ticks,
  fault           \* how the behaviour stopped, or "none"

queues == <<waiting, active, terminated>>
ids == <<threads_ids, last_id>>
kernelVars == <<thread, ids, queues, freed, running, joining>>
vars == <<kernelVars, handlers, ticks, fault>>

NULL == 0
Kernel == 1
Id == 0 .. MaxCount - 1
Thread == 1 .. MaxThreads

\* A freed thread left in a list (dangling), kfree(NULL) (wild), NULL read
\* through (null), kernel_panic (panic), hlt with interrupts off (hang).
Faults == {"none", "panic", "null", "dangling", "wild", "hang"}

(***************************************************************************)
(* Types.                                                                  *)
(***************************************************************************)
TypeOK ==
  /\ thread \in Seq([id : Id, state : {"WAITING", "READY", "RUNNING", "END"}])
  /\ Len(thread) \in Thread
  /\ threads_ids \in [Id -> Thread \cup {NULL}] /\ last_id \in Id
  /\ \A q \in {waiting, active, terminated} : q \in Seq(DOMAIN thread)
  /\ freed \subseteq DOMAIN thread
  /\ running \in DOMAIN thread /\ joining \in BOOLEAN
  /\ handlers \in Seq({"clock", "scheduler"}) /\ Len(handlers) <= MaxHandlers
  /\ ticks \in 0 .. Wrap - 1
  /\ fault \in Faults

\* register_interrupt_handler for IRQ0
Registered(hs, handler) == IF Len(hs) = MaxHandlers THEN hs ELSE Append(hs, handler)

Init ==
  /\ thread = <<[id |-> 0, state |-> "RUNNING"]>>     \* create_kernel_thread
  /\ threads_ids = [id \in Id |-> IF id = 0 THEN Kernel ELSE NULL]
  /\ last_id = 0
  /\ active = <<Kernel>> /\ waiting = <<>> /\ terminated = <<>>
  /\ freed = {}
  /\ running = Kernel /\ joining = FALSE
  /\ handlers = Registered(Registered(<<>>, "clock"), "scheduler")
  /\ ticks = 0
  /\ fault = "none"

-----------------------------------------------------------------------------
\* The thread on the processor calls; ids come from create_thread.
Calls == fault = "none" /\ ~joining
Held == {id \in Id : threads_ids[id] # NULL}

Stops(f) == fault' = f /\ UNCHANGED <<kernelVars, handlers, ticks>>

\* find_node_with_id finds a thread, or panics.  The position it reports is
\* 0 always: *id_at_list++ moves the pointer, not the count behind it.
Lists(q, id) == \E i \in DOMAIN q : thread[q[i]].id = id

\* Slip: an id in use counts as free.
FreeIds_Used == last_id .. last_id + MaxCount - 1

\* Where find_thread_id finds a free id, counted on from the last one.
FreeIds == {i \in last_id .. last_id + MaxCount - 1 :
              threads_ids[i % MaxCount] = NULL}

\* Slip: the position is taken for the id.
NewId_NoWrap == Min(FreeIds)

\* find_thread_id
NewId == Min(FreeIds) % MaxCount

create_thread ==
  /\ Calls
  /\ FreeIds # {}
  /\ Len(thread) < MaxThreads
  /\ thread' = Append(thread, [id |-> NewId, state |-> "WAITING"])
  /\ threads_ids' = [threads_ids EXCEPT ![NewId] = Len(thread')]
  /\ last_id' = NewId
  /\ waiting' = Append(waiting, Len(thread'))
  /\ UNCHANGED <<active, terminated, freed, running, joining, handlers, ticks, fault>>

create_thread_panic == Calls /\ FreeIds = {} /\ Stops("panic")

\* Slip: the thread started goes to the front.
start_thread_Front(id) ==
  /\ Calls /\ Lists(waiting, id)
  /\ active' = <<Head(waiting)>> \o active
  /\ waiting' = Tail(waiting)
  /\ UNCHANGED <<thread, ids, terminated, freed, running, joining, handlers, ticks, fault>>

start_thread(id) ==
  /\ Calls /\ Lists(waiting, id)
  /\ active' = Append(active, Head(waiting))
  /\ waiting' = Tail(waiting)
  /\ UNCHANGED <<thread, ids, terminated, freed, running, joining, handlers, ticks, fault>>

start_thread_panic(id) == Calls /\ ~Lists(waiting, id) /\ Stops("panic")

-----------------------------------------------------------------------------
(***************************************************************************)
(* find_next_thread(THREAD_END): the front of the active list ends and the *)
(* next one gets the processor.  THREAD_READY is the scheduler's, which    *)
(* never comes that far.  Of the states that the next thread may have, the *)
(* code gives the processor to the first two.                              *)
(***************************************************************************)
Given(o) == thread[o].state \in {"WAITING", "READY"}

\* Slip: the ended thread stays in the active list.
find_next_thread_Stays ==
  /\ thread' = [thread EXCEPT ![Head(active)].state = "END"]
  /\ UNCHANGED <<ids, queues, freed, running, joining, handlers, ticks, fault>>

find_next_thread ==
  IF Len(active) = 1
  THEN Stops("null")
  ELSE LET next == active[2] IN
       /\ thread' = [thread EXCEPT
                       ![Head(active)].state = "END",
                       ![next].state = IF Given(next) THEN "RUNNING" ELSE @]
       /\ running' = IF Given(next) THEN next ELSE running
       /\ active' = Tail(active)
       /\ terminated' = Append(terminated, Head(active))
       /\ UNCHANGED <<ids, waiting, freed, joining, handlers, ticks, fault>>

\* on_thread_close: where a task other than the kernel's returns to.
on_thread_close == Calls /\ running # Kernel /\ find_next_thread

IsCurrent(id) == thread[Head(active)].id = id      \* get_current_thread

terminate_current(id) == Calls /\ IsCurrent(id) /\ find_next_thread

\* Slip: the thread is taken from the active list and put nowhere.
terminate_other_Lost(id) ==
  /\ Calls /\ ~IsCurrent(id) /\ Lists(active, id)
  /\ active' = Tail(active)
  /\ UNCHANGED <<thread, ids, waiting, terminated, freed, running, joining, handlers, ticks, fault>>

terminate_other(id) ==
  /\ Calls /\ ~IsCurrent(id) /\ Lists(active, id)
  /\ active' = Tail(active)
  /\ terminated' = Append(terminated, Head(active))
  /\ UNCHANGED <<thread, ids, waiting, freed, running, joining, handlers, ticks, fault>>

terminate_panic(id) ==
  /\ Calls /\ ~IsCurrent(id) /\ ~Lists(active, id)
  /\ Stops("panic")

-----------------------------------------------------------------------------
\* The end of destroy_thread.  The kernel's thread has no stack to free.
Free(o, rest) ==
  /\ freed' = freed \cup {o}
  /\ threads_ids' = [threads_ids EXCEPT ![thread[o].id] = NULL]
  /\ fault' = CASE Contains(rest, o) -> "dangling"
                [] ~Contains(rest, o) /\ o = Kernel -> "wild"
                [] OTHER -> "none"
  /\ UNCHANGED <<thread, last_id, active, running, joining, handlers, ticks>>

destroy_waiting(id) ==
  /\ Calls /\ thread[threads_ids[id]].state = "WAITING" /\ Lists(waiting, id)
  /\ waiting' = Tail(waiting)
  /\ Free(threads_ids[id], waiting')
  /\ UNCHANGED terminated

destroy_ended(id) ==
  /\ Calls /\ thread[threads_ids[id]].state = "END" /\ Lists(terminated, id)
  /\ terminated' = Tail(terminated)
  /\ Free(threads_ids[id], terminated')
  /\ UNCHANGED waiting

\* A running thread is terminated first.  Terminating the current one gives
\* the processor away for good (Turns), so that the rest is never reached.
destroy_running(id) ==
  /\ Calls /\ thread[threads_ids[id]].state \in {"READY", "RUNNING"} /\ IsCurrent(id)
  /\ find_next_thread

destroy_panic(id) ==
  /\ Calls
  /\ LET state == thread[threads_ids[id]].state IN
     \/ state = "WAITING" /\ ~Lists(waiting, id)
     \/ state \in {"READY", "RUNNING"} /\ ~IsCurrent(id) /\ ~Lists(active, id)
  /\ Stops("panic")

join_thread(id) ==
  /\ Calls /\ thread[threads_ids[id]].state # "END"
  /\ joining' = TRUE
  /\ UNCHANGED <<thread, ids, queues, freed, running, handlers, ticks, fault>>

-----------------------------------------------------------------------------
\* irq_handler: count || 0 is 1 as soon as there is a handler.
Dispatched == SubSeq(handlers, 1, IF handlers = <<>> THEN 0 ELSE 1)

irq0 ==
  /\ fault = "none"
  /\ ticks' = IF Contains(Dispatched, "clock") THEN (ticks + 1) % Wrap ELSE ticks
  /\ fault' = IF Contains(Dispatched, "scheduler") THEN "hang" ELSE "none"
  /\ UNCHANGED <<kernelVars, handlers>>

Next ==
  \/ create_thread \/ create_thread_panic
  \/ on_thread_close
  \/ \E id \in Held :
       \/ start_thread(id) \/ start_thread_panic(id)
       \/ terminate_current(id) \/ terminate_other(id) \/ terminate_panic(id)
       \/ destroy_waiting(id) \/ destroy_ended(id)
       \/ destroy_running(id) \/ destroy_panic(id)
       \/ join_thread(id)
  \/ irq0

\* The timer interrupts for as long as the machine runs.
Spec == Init /\ [][Next]_vars /\ WF_vars(irq0)

-----------------------------------------------------------------------------
Live == DOMAIN thread \ freed

(***************************************************************************)
(* An id names one thread, which is not freed, and knows its id; every     *)
(* thread not freed has such an id: find_thread_id hands out none in use.  *)
(***************************************************************************)
Identified ==
  fault = "none" =>
    /\ \A id \in Held : threads_ids[id] \in Live /\ thread[threads_ids[id]].id = id
    /\ \A o \in Live : threads_ids[thread[o].id] = o

(***************************************************************************)
(* No thread is in two lists or twice in one.  Whichever threads the calls *)
(* really moved, the lists together hold every thread not freed, and one   *)
(* that ended is where destroy_thread looks, until destroy_thread is given *)
(* a thread that is not the first of its list (threads.c:99): then exactly *)
(* one thread, the first of that list, has left the lists while it lives,  *)
(* and exactly one that is freed, the thread given, is still in them.      *)
(***************************************************************************)
Placed ==
  LET all == active \o waiting \o terminated IN
  /\ IsInjective(all)
  /\ IF fault = "dangling"
     THEN \E lost \in Live, stale \in freed : ToSet(all) = (Live \ {lost}) \cup {stale}
     ELSE /\ ToSet(all) = Live
          /\ \A o \in Live : thread[o].state = "END" => Contains(terminated, o)

(***************************************************************************)
(* The thread on the processor is RUNNING; in the active list it can only  *)
(* be the first, and all behind the first wait for their first run.  So no *)
(* switch falls through the two cases of find_next_thread, and none goes   *)
(* to a thread that ran before.                                            *)
(***************************************************************************)
Turns ==
  fault = "none" =>
    /\ active # <<>>
    /\ thread[running].state = "RUNNING"
    /\ \A i \in DOMAIN active :
         \/ i = 1 /\ active[i] = running
         \/ active[i] # running /\ thread[active[i]].state = "WAITING"
    /\ \A i \in DOMAIN waiting : thread[waiting[i]].state = "WAITING"

(***************************************************************************)
(* Threads get the processor in the order they were created, whatever the  *)
(* order and the ids of the calls of start_thread.                         *)
(***************************************************************************)
Fifo ==
  LET queue == active \o waiting IN
  fault = "none" => \A i, j \in DOMAIN queue : i < j => queue[i] < queue[j]

(***************************************************************************)
(* threads.c:166 "Round Robin threads time scheduler": every active thread *)
(* gets its turn as long as the timer runs.  It does not: the scheduler is *)
(* never called.                                                           *)
(***************************************************************************)
RoundRobin ==
  \A o \in Thread :
    Contains(active, o) ~> (running = o \/ ~Contains(active, o) \/ fault # "none")
=============================================================================
