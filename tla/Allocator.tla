----------------------------- MODULE Allocator -----------------------------
(***************************************************************************)
(* What callers of kmalloc, krealloc and kfree may rely on.  live is the   *)
(* set of extents handed out and not yet freed; an allocation is a fresh   *)
(* extent of the arena that shares no byte (and no address) with a live    *)
(* one, and it stays where and as it is until its owner frees or moves it. *)
(***************************************************************************)
EXTENDS Integers, FiniteSets

VARIABLES
  live,       \* set of [addr, size]
  arena       \* the bytes the allocator may hand out, fixed at boot

allocVars == <<live, arena>>

Extent == [addr : Nat, size : Nat]
ExtentBytes(e) == e.addr .. e.addr + e.size - 1

TypeOK == live \subseteq Extent /\ arena \subseteq Nat

Init == live = {} /\ arena \in SUBSET Nat

Fresh(e) ==
  /\ ExtentBytes(e) \subseteq arena
  /\ \A l \in live : e.addr # l.addr /\ ExtentBytes(e) \cap ExtentBytes(l) = {}

Obtained == live' \ live

Alloc == \E e \in Obtained : Fresh(e) /\ live' = live \cup {e}
Free  == \E l \in live : live' = live \ {l}
Move  == \E l \in live, e \in Obtained : Fresh(e) /\ live' = (live \ {l}) \cup {e}

Next == (Alloc \/ Free \/ Move) /\ UNCHANGED arena

Spec == Init /\ [][Next]_allocVars

(***************************************************************************)
(* No byte belongs to two owners.                                          *)
(***************************************************************************)
Separate ==
  \A e, l \in live : e # l => ExtentBytes(e) \cap ExtentBytes(l) = {}
=============================================================================
