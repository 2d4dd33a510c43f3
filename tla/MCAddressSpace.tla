--------------------------- MODULE MCAddressSpace ---------------------------
(***************************************************************************)
(* A kernel's virtual address space, one part in each behaviour: the       *)
(* allocator of its addresses, the page tables that map them, and the      *)
(* loader that lays a kernel out with both.                                *)
(***************************************************************************)
EXTENDS Allocator, Mmu, KBootSpace

(* Instances of the kernel address space for TLC.                          *)
Tag(base, size) == [base |-> base, size |-> size, given |-> TRUE]
NoTag == [base |-> 0, size |-> 0, given |-> FALSE]
Seg(start, size) == [start |-> start, size |-> size]
Want(virt, size, phys) == [virt |-> virt, size |-> size, phys |-> phys]

MCLoader == Seg(10, 4)

(* 64-bit: 0..15 and 48..63 are canonical; a slot is 8 addresses. *)
MCLoadTags64 == {NoTag, Tag(0, 0), Tag(0, 8), Tag(4, 10), Tag(48, 14), Tag(8, 16), Tag(3, 4), Tag(4, 0)}
MCKernels64 ==
  {<<Seg(8, 2)>>, <<Seg(48, 4), Seg(54, 2)>>, <<Seg(2, 2), Seg(2, 2)>>, <<Seg(14, 4)>>,
   <<Seg(10, 2), Seg(2, 4)>>}
MCMappings64 ==
  BoundedSeq({Want(ANY, 2, NO_PHYS), Want(ANY, 4, 2), Want(56, 4, 0), Want(6, 4, 0), Want(0, 2, 2),
              Want(62, 4, 0), Want(12, 2, 1), Want(ANY, 3, 0)}, 2)

(* 32-bit: 0..31, a slot is 8 addresses. *)
MCLoadTags32 == {NoTag, Tag(0, 8), Tag(6, 10), Tag(16, 16), Tag(24, 16), Tag(3, 4), Tag(0, 0)}
MCKernels32 == {<<Seg(8, 2)>>, <<Seg(16, 4), Seg(22, 2)>>, <<Seg(28, 6)>>}
MCMappings32 ==
  BoundedSeq({Want(ANY, 2, NO_PHYS), Want(ANY, 4, 2), Want(30, 2, 0), Want(4, 2, 0), Want(6, 4, NO_PHYS),
              Want(31, 2, 0), Want(20, 2, 1), Want(ANY, 2, 32)}, 2)

ByMode(for64, for32) == [m \in {"64", "32"} |-> IF m = "64" THEN for64 ELSE for32]
MCLoadTags == ByMode(MCLoadTags64, MCLoadTags32)
MCKernels == ByMode(MCKernels64, MCKernels32)
MCMappings == ByMode(MCMappings64, MCMappings32)

(* The load tag that leaves the range to the loader. *)
MCDefaultTag == ByMode({}, {Tag(0, 0)})

-----------------------------------------------------------------------------

(* Instances of the address allocator for TLC.                             *)
(* Regions inside the managed range, over either end of it, and outside. *)
MCFixed == {Region(8, 4), Region(10, 4), Region(2, 4), Region(22, 4)}
MCBlocked == {Region(0, 6), Region(12, 2), Region(18, 6), Region(24, 2)}

-----------------------------------------------------------------------------

(* Instances of the page tables for TLC.                                   *)
(* Pairs of addresses with the same and with different offsets from a      *)
(* large page, in both halves of a 64-bit address space; the calls overlap *)
(* in small pages, in large ones and in one of each.                       *)
MCMaps64 == [virt : {0, 2, 6, 48}, phys : {4, 6}, size : {2, 8}]
MCMaps32 ==
  [virt : {0, 2, 6, 20}, phys : {4, 6}, size : {2, 10}] \cup {[virt |-> 24, phys |-> 24, size |-> 8]}

MCOps64 == [addr : {0, 3, 53}, size : {1, 9}, op : {"set", "copy"}]
MCOps32 == [addr : {0, 3, 23}, size : {1, 9}, op : {"set", "copy"}]
MCMaps == [m \in {"64", "32", "arm64"} |-> IF m = "32" THEN MCMaps32 ELSE MCMaps64]
MCOps == [m \in {"64", "32", "arm64"} |-> IF m = "32" THEN MCOps32 ELSE MCOps64]

-----------------------------------------------------------------------------

VARIABLE part   \* the one under way; the others rest

TablesRest == MmuInit /\ context = "64"
LayoutRests == KBootInit /\ mode = "64"

SpaceInit ==
  \/ part = "allocator" /\ AllocatorInit /\ TablesRest /\ LayoutRests
  \/ part = "tables" /\ MmuInit /\ AllocatorInit /\ LayoutRests
  \/ part = "layout" /\ KBootInit /\ AllocatorInit /\ TablesRest

SpaceNext ==
  \/ part = "allocator" /\ AllocatorNext /\ UNCHANGED <<part, mmuVars, kbootVars>>
  \/ part = "tables" /\ MmuNext /\ UNCHANGED <<part, allocatorVars, kbootVars>>
  \/ part = "layout" /\ KBootNext /\ UNCHANGED <<part, allocatorVars, mmuVars>>

SpaceSpec == SpaceInit /\ [][SpaceNext]_<<part, allocatorVars, mmuVars, kbootVars>>
=============================================================================
