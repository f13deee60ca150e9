---------------------------- MODULE MCContainers ----------------------------
(***************************************************************************)
(* The two containers of the kernel, one after the other: the list is used *)
(* until it is empty again, then the buffer is created and used.           *)
(***************************************************************************)
EXTENDS RingBuffer, LinkedList

listStep == cb.capacity = 0 /\ ll_call /\ UNCHANGED vars
bufferStep == used = {} /\ Next /\ UNCHANGED llVars

containersInit == Init /\ ll_init
containersNext == listStep \/ bufferStep

ContainersSpec == containersInit /\ [][containersNext]_<<vars, llVars>>
=============================================================================
