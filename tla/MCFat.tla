------------------------------- MODULE MCFat -------------------------------
(***************************************************************************)
(* A table of three sectors of two entries; a root directory of three      *)
(* slots that is empty, or has its first slot taken and is full after one  *)
(* more entry; a disk shorter than its table, whose last sector is free or *)
(* in use.  Memory may hold any mixture of free, end of chain, another     *)
(* cluster and a number beyond the table.                                  *)
(***************************************************************************)
EXTENDS Fat

MCLeftover == {0, 3, OffDisk, EOC}
MCRoots == {{}, {0}}
MCFatsOnDisk == {{0, 1, 2}, {0, 1, 2, 4}}
=============================================================================
