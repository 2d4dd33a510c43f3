----------------------------- MODULE Allocator ------------------------------
(***************************************************************************)
(* The virtual address allocator of source/lib/allocator.c, which the      *)
(* KBoot loader uses to lay out the kernel's address space.                *)
(*                                                                         *)
(* allocator_alloc() and allocator_insert() failing is a boot_error() in   *)
(* every caller: nothing happens after it.                                 *)
(***************************************************************************)
EXTENDS RegionList, FiniteSets

CONSTANTS
  Base, Size,      \* the range managed: [Base, Base + Size)
  AllocSizes,      \* sizes asked of allocator_alloc()
  Aligns,          \* alignments asked of it, 0 for none
  Fixed,           \* regions given to allocator_insert(): [start, size]
  Blocked          \* regions given to allocator_reserve(): [start, size]

ASSUME AllocatorAssumption ==
  /\ Base \in Addr /\ Base % PAGE_SIZE = 0
  /\ Size \in Addr /\ Size % PAGE_SIZE = 0
  /\ Base + Size <= AddrMod /\ (Base # 0 => Size # 0)

(* The assertions on entry to allocator_alloc(), allocator_insert() and    *)
(* allocator_reserve(); check_mapping() has refused a region that wraps    *)
(* around the end of the address space.                                    *)
ASSUME RequestAssumption ==
  /\ \A n \in AllocSizes : n \in Addr /\ n # 0 /\ n % PAGE_SIZE = 0
  /\ \A align \in Aligns : align \in Addr /\ align % PAGE_SIZE = 0
  /\ Fixed \cup Blocked \subseteq [start : Addr, size : Addr]
  /\ \A b \in Fixed \cup Blocked :
       /\ b.start % PAGE_SIZE = 0 /\ b.size % PAGE_SIZE = 0
       /\ b.size # 0 /\ b.start + b.size <= AddrMod

VARIABLES
  region_list,  \* the regions, in the order of their addresses
  granted,      \* what allocator_alloc() and allocator_insert() gave out
  reserved,     \* what allocator_reserve() was called on
  refused       \* the request that failed, if one did

allocatorVars == <<region_list, granted, reserved, refused>>

(* The last address managed; a size of 0 is the whole address space. *)
AllocEnd == Wrap(Base + Size - 1)

Region(start, size) == [start |-> start, size |-> size]

SpanOf(b) == b.start .. (b.start + b.size - 1)

-----------------------------------------------------------------------------
(***************************************************************************)
(* The operations.                                                         *)
(***************************************************************************)

(* allocator_init(): one free region. *)
AllocatorInit ==
  /\ region_list = InsertRegion(<<>>, Base, Size, MEMORY_TYPE_FREE, 0)
  /\ granted = {}
  /\ reserved = {}
  /\ refused = {}

(* allocator_alloc(): the first free region it fits into. *)
Alloc(size, align) ==
  LET step  == IF align = 0 THEN PAGE_SIZE ELSE align
      i     == FindRegion(region_list, size, step)
      start == round_up(region_list[i].start, step)
  IN
  /\ refused = {}
  /\ i # 0
  /\ region_list' = InsertRegion(region_list, start, size, MEMORY_TYPE_ALLOCATED, i)
  /\ granted' = granted \cup {Region(start, size)}
  /\ UNCHANGED <<reserved, refused>>

AllocFails(size, align) ==
  LET step == IF align = 0 THEN PAGE_SIZE ELSE align IN
  /\ refused = {}
  /\ FindRegion(region_list, size, step) = 0
  /\ refused' = {[size |-> size, align |-> step]}
  /\ UNCHANGED <<region_list, granted, reserved>>

(* allocator_insert(). *)
Insert(b) ==
  /\ refused = {}
  /\ ~Conflicts(region_list, b.start, b.size)
  /\ region_list' = Block(region_list, Base, AllocEnd, b.start, b.size)
  /\ granted' = granted \cup {b}
  /\ UNCHANGED <<reserved, refused>>

InsertFails(b) ==
  /\ refused = {}
  /\ Conflicts(region_list, b.start, b.size)
  /\ refused' = {b}
  /\ UNCHANGED <<region_list, granted, reserved>>

Reserve(b) ==
  /\ refused = {}
  /\ region_list' = Block(region_list, Base, AllocEnd, b.start, b.size)
  /\ reserved' = reserved \cup {b}
  /\ UNCHANGED <<granted, refused>>

AllocatorNext ==
  \/ \E size \in AllocSizes, align \in Aligns : Alloc(size, align) \/ AllocFails(size, align)
  \/ \E b \in Fixed : Insert(b) \/ InsertFails(b)
  \/ \E b \in Blocked : Reserve(b)

AllocatorSpec == AllocatorInit /\ [][AllocatorNext]_allocatorVars

-----------------------------------------------------------------------------
(***************************************************************************)
(* Properties.                                                             *)
(***************************************************************************)
Managed == Base .. AllocEnd

(* Address space is given out once: what allocator_alloc() and             *)
(* allocator_insert() add was free, or is not managed, the moment before;  *)
(* so a reservation made earlier is respected too.                         *)
GrantsAreFresh ==
  [][\A b \in granted' : b \in granted \/
       \A x \in SpanOf(b) \cap Managed : TypeAt(region_list, x) = MEMORY_TYPE_FREE]_allocatorVars

(* The regions cover the range managed from end to end, without a gap or   *)
(* an overlap, however insert_region() had to cut them; and what           *)
(* allocator_alloc() returned lies in the range and, like everything       *)
(* inserted or reserved, is allocated from then on.                        *)
GrantsStay ==
  /\ region_list[1].start = Base
  /\ EndOf(region_list[Len(region_list)]) = AllocEnd
  /\ \A i \in 1 .. Len(region_list) : region_list[i].start <= EndOf(region_list[i])
  /\ \A i \in 1 .. Len(region_list) - 1 : EndOf(region_list[i]) + 1 = region_list[i + 1].start
  /\ \A b \in granted \cup reserved : \A x \in SpanOf(b) \cap Managed :
       TypeAt(region_list, x) = MEMORY_TYPE_ALLOCATED
  /\ \A b \in granted : b \in Fixed \/ SpanOf(b) \subseteq Managed

(* A request is refused only if nothing free would satisfy it: no run of   *)
(* free addresses for allocator_alloc(), an address in use for             *)
(* allocator_insert().  Nothing is lost to the way regions are cut.        *)
RefusedForAReason ==
  \A req \in refused :
    IF req \in Fixed
    THEN \E x \in SpanOf(req) : TypeAt(region_list, x) = MEMORY_TYPE_ALLOCATED
    ELSE ~\E s \in Managed :
           /\ s % req.align = 0
           /\ \A x \in s .. (s + req.size - 1) : TypeAt(region_list, x) = MEMORY_TYPE_FREE
=============================================================================
