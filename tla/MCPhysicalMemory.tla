-------------------------- MODULE MCPhysicalMemory ---------------------------
(***************************************************************************)
(* Physical memory on either kind of target, one in each behaviour: with   *)
(* the memory manager of source/memory.c, or with the firmware's own       *)
(* (TARGET_HAS_MM).                                                        *)
(***************************************************************************)
EXTENDS Memory, EfiMemory

(* Instances of the memory manager for TLC.                                *)
(* The memory map: unaligned, overlapping and adjacent entries. *)
MCEntries ==
  {[start |-> 0, size |-> 4], [start |-> 3, size |-> 8], [start |-> 12, size |-> 7]}

MCReservations == {[start |-> 7, size |-> 1]}

(* Areas that are protected: page-aligned, and with a page between them. *)
MCAreas == {[start |-> 2, size |-> 4], [start |-> 12, size |-> 1]}

(* Two areas side by side. *)
MCAdjacentAreas == {[start |-> 4, size |-> 4], [start |-> 8, size |-> 2]}

MCRequests ==
  {Request(2, 0, 0, 0, MEMORY_TYPE_ALLOCATED, FALSE),
   Request(4, 4, 0, 0, MEMORY_TYPE_ALLOCATED, FALSE),
   Request(4, 0, 0, 0, MEMORY_TYPE_ALLOCATED, TRUE),
   Request(2, 4, 0, 10, MEMORY_TYPE_ALLOCATED, TRUE),
   Request(2, 0, 8, 10, MEMORY_TYPE_ALLOCATED, FALSE),
   Request(2, 0, 5, 0, MEMORY_TYPE_INTERNAL, TRUE)}

(* A request larger than the addresses below the range it is tried on. *)
MCLargeRequests == {Request(8, 0, 0, 0, MEMORY_TYPE_ALLOCATED, TRUE)}

-----------------------------------------------------------------------------

(* An instance of memory on EFI for TLC.                                   *)
(* Pages 2..4 and 6..9, of which the last two are out of reach; page 5     *)
(* does not exist.                                                         *)
MCFirmwareMap ==
  [p \in {2, 3, 4, 6, 7, 8, 9} |->
     IF p = 6 THEN "image" ELSE IF p = 8 THEN "runtime" ELSE "conventional"]

MCEfiRequests ==
  {Request(2, 0, 0, 0, MEMORY_TYPE_ALLOCATED, FALSE),
   Request(4, 4, 0, 0, MEMORY_TYPE_ALLOCATED, TRUE),
   Request(2, 4, 0, 12, MEMORY_TYPE_INTERNAL, TRUE),
   Request(4, 0, 6, 0, MEMORY_TYPE_INTERNAL, FALSE)}
(* What the memory of the heap may hold where a map entry is not written:  *)
(* a free range that is long gone, and nothing of use.                     *)
MCJunk ==
  {[start |-> 4, size |-> 6, type |-> "conventional"],
   [start |-> 0, size |-> 0, type |-> "runtime"]}

(* Upwards, downwards and two mixed orders of the addresses below 22. *)
MCOrders == {[a \in 0 .. 21 |-> (a * k) % 23] : k \in {1, 22, 5, 9}}

-----------------------------------------------------------------------------

VARIABLE target   \* the one that is built; the other rests

PhysicalInit ==
  /\ target \in {"bios", "efi"}
  /\ Init /\ EfiInit

PhysicalNext ==
  \/ target = "bios" /\ Next /\ UNCHANGED <<target, efiVars>>
  \/ target = "efi" /\ EfiNext /\ UNCHANGED <<target, vars>>

PhysicalSpec ==
  /\ PhysicalInit /\ [][PhysicalNext]_<<target, vars, efiVars>>
  /\ LoopFairness
=============================================================================
