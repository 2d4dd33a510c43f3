----------------------------- MODULE KBootSpace -----------------------------
(***************************************************************************)
(* How the KBoot loader lays out a kernel's virtual address space:         *)
(* kboot_loader_load() of source/loader/kboot.c from the checks of the     *)
(* load tag to the virtual memory tags, with kboot_map_virtual(),          *)
(* kboot_alloc_virtual(), the loading of the kernel image of kboot_elf.h,  *)
(* and the x86 kboot_arch_check_load_params() and kboot_arch_setup().      *)
(*                                                                         *)
(* The load runs once, from the first step to the last or to a             *)
(* boot_error(); what varies is the kernel image: its load tag, its        *)
(* segments and its mapping tags.  The page tables themselves are the      *)
(* subject of module Mmu; here a page directory slot is present when a     *)
(* mapping with a physical address reaches into it.                        *)
(***************************************************************************)
EXTENDS RegionList, FiniteSets, Canonical

CONSTANTS
  SLOT,           \* range of one top-level entry: a PML4 or directory entry
  LoadTags,       \* by mode, the virtual map ranges kernels ask for: [base, size, given]
  Kernels,        \* by mode, sequences of segments mapped for the image: [start, size]
  MappingTags,    \* by mode, sequences of mapping tags: [virt, size, phys]
  LoaderArea,     \* where the loader itself runs: [start, size]
  TAGS_SIZE,      \* KBOOT_TAGS_SIZE
  FbSizes,        \* sizes of framebuffer mappings
  FdtSizes        \* sizes of device tree mappings

ASSUME KBootAssumption ==
  /\ SLOT \in Nat \ {0} /\ SLOT % PAGE_SIZE = 0 /\ LIMIT % SLOT = 0 /\ HALF % SLOT = 0
  /\ LIMIT < AddrMod /\ AddrMod % (2 * HALF) = 0

ANY == -1      \* a mapping tag's virtual address that asks for an allocation
NO_PHYS == -1  \* a mapping tag's physical address that reserves the range only

(* What the fields of the image can hold, and what the loader itself asks  *)
(* for: loader_start and loader_size are whole pages.  The range of a      *)
(* 32-bit kernel does not end at the very last of the 64-bit addresses,    *)
(* where the sum that check_virt_map_params() compares is 0.               *)
ASSUME ImageAssumption ==
  \A m \in {"64", "32"} :
    /\ \A tag \in LoadTags[m] :
         /\ tag.base \in Addr /\ tag.size \in Addr
         /\ ~tag.given => tag.base = 0 /\ tag.size = 0
         /\ m = "32" => tag.base + tag.size # AddrMod
    /\ Kernels[m] \subseteq Seq([start : Addr, size : Addr])
    /\ MappingTags[m] \subseteq
         Seq([virt : Addr \cup {ANY}, size : Addr, phys : Addr \cup {NO_PHYS}])

ASSUME LoaderAssumption ==
  /\ LoaderArea \in [start : Addr, size : Addr \ {0}]
  /\ LoaderArea.start % PAGE_SIZE = 0 /\ LoaderArea.size % PAGE_SIZE = 0
  /\ LoaderArea.start + LoaderArea.size <= AddrMod
  /\ TAGS_SIZE \in Addr /\ FbSizes \cup FdtSizes \subseteq Addr

VARIABLES
  mode,       \* "64" or "32", from the class of the image
  stage,      \* the step of kboot_loader_load()
  load,       \* the virtual map range in use: [base, size]
  todo,       \* segments or mapping tags still to be mapped
  regions,    \* the address allocator
  mappings,   \* the mapping list: [start, size, phys, by]
  recursive,  \* the slot of the recursive page table mapping, none yet: {}
  status      \* "ok" or the boot_error()

kbootVars == <<mode, stage, load, todo, regions, mappings, recursive, status>>

(* Indices of top-level entries. *)
Slots == 0 .. ((IF mode = "64" THEN 2 * HALF ELSE LIMIT) \div SLOT) - 1
SlotOf(addr) == (addr \div SLOT) % (IF mode = "64" THEN Cardinality(Slots) ELSE AddrMod)
SlotsOf(m) == {SlotOf(m.start + k) : k \in 0 .. m.size - 1}

LoadEnd == Wrap(load.base + load.size - 1)

Fail(what) == status' = what /\ UNCHANGED <<mode, load, todo, regions, mappings, recursive, stage>>

-----------------------------------------------------------------------------
(***************************************************************************)
(* Mapping: kboot_map_virtual() and kboot_alloc_virtual().                 *)
(***************************************************************************)

(* check_mapping(): what every mapping must meet, and what an address the  *)
(* kernel chose must meet as well.                                         *)
CheckPages(phys, size) ==
  size # 0 /\ size % PAGE_SIZE = 0 /\ (phys # NO_PHYS => phys % PAGE_SIZE = 0)

CheckMapping(addr, phys, size) ==
  /\ CheckPages(phys, size) /\ addr % PAGE_SIZE = 0
  /\ Wrap(addr + size - 1) >= addr
  /\ mode = "32" => Wrap(addr + size - 1) < LIMIT

(* mmu_map(), called when there is something to map, accepts the range: it *)
(* fails, or for a virtual address of a 32-bit kernel stops at an assert.  *)
MmuAccepts(addr, phys, size) ==
  phys # NO_PHYS =>
    IF mode = "64" THEN is_canonical_range(addr, size)
    ELSE Wrap(addr + size) <= LIMIT /\ phys + size <= LIMIT

(* add_mapping(): the list is kept in address order. *)
AddMapping(list, m) ==
  LET i == SelectInSeq(list, LAMBDA other : m.start <= other.start)
  IN  InsertAt(list, IF i = 0 THEN Len(list) + 1 ELSE i, m)

(* A mapping at an address the kernel chose. *)
MapVirtual(addr, phys, size) ==
  /\ CheckMapping(addr, phys, size)
  /\ ~Conflicts(regions, addr, size)
  /\ MmuAccepts(addr, phys, size)
  /\ regions' = Block(regions, load.base, LoadEnd, addr, size)
  /\ mappings' = AddMapping(mappings, [start |-> addr, size |-> size, phys |-> phys, by |-> "kernel"])

MapVirtualFails(addr, phys, size) ==
  \/ ~CheckMapping(addr, phys, size)
  \/ Conflicts(regions, addr, size)
  \/ ~MmuAccepts(addr, phys, size)

(* A mapping at an address from the allocator; list is the allocator. *)
AllocVirtualIn(list, phys, size, by) ==
  LET i     == FindRegion(list, size, PAGE_SIZE)
      start == round_up(list[i].start, PAGE_SIZE)
  IN
  /\ CheckPages(phys, size)
  /\ i # 0
  /\ MmuAccepts(start, phys, size)
  /\ regions' = InsertRegion(list, start, size, MEMORY_TYPE_ALLOCATED, i)
  /\ mappings' = AddMapping(mappings, [start |-> start, size |-> size, phys |-> phys, by |-> by])

AllocVirtualFailsIn(list, phys, size) ==
  LET i == FindRegion(list, size, PAGE_SIZE) IN
  \/ ~CheckPages(phys, size)
  \/ i = 0
  \/ i # 0 /\ ~MmuAccepts(round_up(list[i].start, PAGE_SIZE), phys, size)

-----------------------------------------------------------------------------
(***************************************************************************)
(* The steps of kboot_loader_load().                                       *)
(***************************************************************************)

(* check_virt_map_params(), of a load tag that is there, and               *)
(* kboot_arch_check_load_params().                                         *)
ParamsValid(tag) == tag.given =>
  /\ tag.base % PAGE_SIZE = 0 /\ tag.size % PAGE_SIZE = 0
  /\ ~(tag.base # 0 /\ tag.size = 0)
  /\ Wrap(tag.base + tag.size - 1) >= tag.base
  /\ mode = "32" => Wrap(tag.base + tag.size) <= LIMIT
  /\ mode = "64" /\ tag.size # 0 => is_canonical_range(tag.base, tag.size)

(* A range of size 0 becomes the lower half, or 4 GiB.  Without a load     *)
(* tag, a 32-bit kernel's stays 0: to the allocator, all of load_ptr_t.    *)
DefaultRange(tag) ==
  [base |-> tag.base,
   size |-> CASE tag.size # 0                    -> tag.size
              [] tag.size = 0 /\ mode = "64" -> HALF
              [] tag.size = 0 /\ mode = "32" -> IF tag.given THEN LIMIT ELSE 0]

(* The allocator over the range, without the page at address 0. *)
FreshRegions(range) ==
  Block(InsertRegion(<<>>, range.base, range.size, MEMORY_TYPE_FREE, 0),
        range.base, Wrap(range.base + range.size - 1), 0, PAGE_SIZE)

CheckParams(tag, kernel) ==
  /\ stage = "params" /\ status = "ok"
  /\ IF ParamsValid(tag)
     THEN /\ load' = DefaultRange(tag)
          /\ regions' = FreshRegions(load')
          /\ todo' = kernel
          /\ stage' = "kernel"
          /\ UNCHANGED <<mode, mappings, recursive, status>>
     ELSE Fail("bad_params")

(* The image: one mapping, or one for each segment of a fixed kernel. *)
LoadSegment ==
  /\ stage = "kernel" /\ status = "ok" /\ todo # <<>>
  /\ \/ /\ MapVirtual(todo[1].start, 0, todo[1].size)
        /\ todo' = Tail(todo)
        /\ UNCHANGED <<mode, stage, load, recursive, status>>
     \/ /\ MapVirtualFails(todo[1].start, 0, todo[1].size)
        /\ Fail("bad_segment")

KernelLoaded(tags) ==
  /\ stage = "kernel" /\ status = "ok" /\ todo = <<>>
  /\ stage' = "tags"
  /\ todo' = tags
  /\ UNCHANGED <<mode, load, regions, mappings, recursive, status>>

(* The mapping tags, in the order of the image. *)
MapTag ==
  LET tag == todo[1] IN
  /\ stage = "tags" /\ status = "ok" /\ todo # <<>>
  /\ \/ /\ tag.virt = ANY /\ AllocVirtualIn(regions, tag.phys, tag.size, "alloc")
        /\ todo' = Tail(todo)
        /\ UNCHANGED <<mode, stage, load, recursive, status>>
     \/ /\ tag.virt # ANY /\ MapVirtual(tag.virt, tag.phys, tag.size)
        /\ todo' = Tail(todo)
        /\ UNCHANGED <<mode, stage, load, recursive, status>>
     \/ /\ tag.virt = ANY /\ AllocVirtualFailsIn(regions, tag.phys, tag.size)
        /\ Fail("bad_mapping")
     \/ /\ tag.virt # ANY /\ MapVirtualFails(tag.virt, tag.phys, tag.size)
        /\ Fail("bad_mapping")

(* kboot_arch_setup(): the highest slot that is neither present nor in the *)
(* virtual map range.                                                      *)
PresentSlots == UNION {SlotsOf(mappings[i]) : i \in {j \in 1 .. Len(mappings) : mappings[j].phys # NO_PHYS}}

SpareSlots == Slots \ (PresentSlots \cup (SlotOf(load.base) .. SlotOf(LoadEnd)))

ArchSetup ==
  /\ stage = "tags" /\ status = "ok" /\ todo = <<>>
  /\ IF SpareSlots # {}
     THEN /\ recursive' = {CHOOSE s \in SpareSlots : \A t \in SpareSlots : t <= s}
          /\ stage' = "taglist"
          /\ UNCHANGED <<mode, load, todo, regions, mappings, status>>
     ELSE Fail("no_slot")

AllocStage(at, list, size, by, next) ==
  /\ stage = at /\ status = "ok"
  /\ \/ /\ AllocVirtualIn(list, 0, size, by)
        /\ stage' = next
        /\ UNCHANGED <<mode, load, todo, recursive, status>>
     \/ /\ AllocVirtualFailsIn(list, 0, size)
        /\ Fail("no_space")

MapTagList == AllocStage("taglist", regions, TAGS_SIZE, "alloc", "stack")

MapStack == AllocStage("stack", regions, PAGE_SIZE, "alloc", "trampoline")

(* setup_trampoline(): keep clear of the loader's addresses, then map a    *)
(* page; a temporary address space maps that page and the loader.          *)
AvoidLoaderMutant == regions
AvoidLoader == Block(regions, load.base, LoadEnd, LoaderArea.start, LoaderArea.size)

SetupTrampoline == AllocStage("trampoline", AvoidLoader, PAGE_SIZE, "trampoline", "video")

(* set_video_mode(), add_serial_tag() and add_fdt_tag() map the            *)
(* framebuffer, the registers and a copy of the tree, where there is one.  *)
SetVideoMode(size) == AllocStage("video", regions, size, "alloc", "serial")
AddSerialTag == AllocStage("serial", regions, PAGE_SIZE, "alloc", "fdt")
AddFdtTag(size) == AllocStage("fdt", regions, size, "alloc", "done")

Without(at, next) ==
  /\ stage = at /\ status = "ok"
  /\ stage' = next
  /\ UNCHANGED <<mode, load, todo, regions, mappings, recursive, status>>

NoVideoMode == Without("video", "serial")
NoSerialPort == Without("serial", "fdt")
NoFdt == Without("fdt", "done")

KBootInit ==
  /\ mode \in {"64", "32"}
  /\ stage = "params"
  /\ load = [base |-> 0, size |-> 0]
  /\ todo = <<>>
  /\ regions = <<>>
  /\ mappings = <<>>
  /\ recursive = {}
  /\ status = "ok"

KBootNext ==
  \/ \E tag \in LoadTags[mode], kernel \in Kernels[mode] : CheckParams(tag, kernel)
  \/ LoadSegment
  \/ \E tags \in MappingTags[mode] : KernelLoaded(tags)
  \/ MapTag
  \/ ArchSetup
  \/ MapTagList
  \/ MapStack
  \/ SetupTrampoline
  \/ \E size \in FbSizes : SetVideoMode(size)
  \/ NoVideoMode
  \/ AddSerialTag
  \/ NoSerialPort
  \/ \E size \in FdtSizes : AddFdtTag(size)
  \/ NoFdt

KBootSpec == KBootInit /\ [][KBootNext]_kbootVars

-----------------------------------------------------------------------------
(***************************************************************************)
(* Properties.                                                             *)
(***************************************************************************)
BytesOf(m) == {Wrap(m.start + k) : k \in 0 .. m.size - 1}

Chosen(by) == {i \in 1 .. Len(mappings) : mappings[i].by \in by}

(* No two mappings share an address of the virtual map range. *)
RangeDisjoint ==
  \A i, j \in 1 .. Len(mappings) :
    i # j => BytesOf(mappings[i]) \cap BytesOf(mappings[j]) \cap (load.base .. LoadEnd) = {}

(* What the loader places itself lies in the virtual map range of the load *)
(* tag, and never at address 0, which a kernel takes for a null pointer.   *)
AllocationsInRange ==
  \A i \in Chosen({"alloc", "trampoline"}) :
    /\ BytesOf(mappings[i]) \subseteq load.base .. LoadEnd
    /\ mappings[i].start # 0

(* The trampoline page and the loader fit into one address space.          *)
TrampolineClear ==
  \A i \in Chosen({"trampoline"}) :
    BytesOf(mappings[i]) \cap LoaderArea.start .. (LoaderArea.start + LoaderArea.size - 1) = {}

(* The slot of the recursive mapping is the kernel's alone at the end: no  *)
(* mapping made before or after it was chosen reaches into it.             *)
RecursiveClear ==
  \A s \in recursive : \A i \in 1 .. Len(mappings) :
    mappings[i].phys # NO_PHYS => s \notin SlotsOf(mappings[i])

(* The kernel's address space is laid out soundly, whoever chose an        *)
(* address and in whatever order: kboot_map_virtual() stops a kernel that  *)
(* asks for an address twice, kboot_alloc_virtual() never gives one out    *)
(* twice, setup_trampoline() keeps clear of the loader, and the slot that  *)
(* kboot_arch_setup() takes stays the kernel's alone.                      *)
LayoutSound == RangeDisjoint /\ AllocationsInRange /\ TrampolineClear /\ RecursiveClear

(* A kernel that leaves the virtual map range to the loader can be loaded: *)
(* the search for a recursive slot does not fail while slots are unused.   *)
DefaultRangeLoads ==
  status = "no_slot" => PresentSlots = Slots
=============================================================================
