----------------------------- MODULE EfiMemory ------------------------------
(***************************************************************************)
(* Physical memory on EFI: source/platform/efi/memory.c, which allocates   *)
(* through the firmware and keeps the types of its allocations itself, and *)
(* the end of boot services in source/platform/efi/services.c.             *)
(*                                                                         *)
(* The firmware is external: its memory map is a function from pages to    *)
(* types, it reports the map as descriptors in an order of its own, and it *)
(* allocates and frees pages for itself between any two calls the loader   *)
(* makes of it.  Each of those calls is a step: GetMemoryMap() is called   *)
(* once for the size of the map and again for the map.                     *)
(***************************************************************************)
EXTENDS Placement, FiniteSets

CONSTANTS
  FirmwareMap,    \* the map at the start: page number -> type
  FwPages,        \* the pages the firmware allocates and frees for itself
  EfiRequests,    \* calls of memory_alloc(): [size, align, min, max, type, high]
  Orders,         \* ranks of start addresses, by which the firmware may list its descriptors
  JunkDescriptors, \* what uninitialised entries of a map may hold
  MaxRanges,      \* bound on the number of allocations held at a time
  MaxChanges      \* bound on the changes by the firmware during one call of the loader

VARIABLES
  fw,                 \* the firmware's memory map
  efi_memory_ranges,  \* the allocations the loader tracks, in list order
  efi_held,           \* the blocks callers of memory_alloc() hold
  stage,              \* what the loader does next, see below
  asked, chosen,      \* memory_alloc(): the request, and the address chosen for it
  num_entries,        \* the size GetMemoryMap() gave at first
  map_key,            \* the key it gave: the number of changes it had seen
  kernel_map,         \* the map memory_finalize() returned
  efi_map,            \* the map read for ExitBootServices()
  tries,              \* calls of ExitBootServices() that failed
  efi_status          \* "ok" or the error that stopped the loader

(* History variables, which no step of the loader reads.                   *)
VARIABLES
  changes,            \* firmware changes since the running call began
  torn,               \* the kernel's map has uninitialised entries
  unsure              \* pages that became runtime memory once the map was final

efiVars == <<fw, efi_memory_ranges, efi_held, stage, asked, chosen, num_entries, map_key,
             kernel_map, efi_map, tries, efi_status, changes, torn, unsure>>

callVars == <<asked, chosen, num_entries, map_key, changes>>
finalVars == <<kernel_map, efi_map, tries, torn, unsure>>

(* "run": between two calls of memory_alloc() or memory_free().  "final":  *)
(* memory_finalize() has returned.  "exited", "left": without the firmware *)
(* or back in it.  The others are inside a call: the size of the map is    *)
(* known, the place is chosen, the map is read, or ExitBootServices() has  *)
(* failed once.                                                            *)
Sized == {"alloc_size", "final_size", "exit_size"}
Between == {"run", "final"}
MapBuilt == stage \in {"final", "exit_size", "exit_map", "exit_retry", "exited"}
Stages == Sized \cup Between \cup {"alloc_pages", "exit_map", "exit_retry", "exited", "left"}

(* EFI_LOADER_CODE, of the loader itself, and EFI_LOADER_DATA, of its      *)
(* allocations; both kinds of boot services memory are "boot".             *)
FwTypes == {"conventional", "image", "loader", "boot", "runtime"}

(* What the kernel may use once boot services have ended. *)
Usable == FwTypes \ {"runtime"}

(* The firmware's map is of pages of the address space, which is not all   *)
(* memory, and the loader has allocated nothing at the start; callers of   *)
(* memory_alloc() keep its assertions.                                     *)
ASSUME EfiAssumption ==
  /\ FirmwareMap \in [DOMAIN FirmwareMap -> FwTypes \ {"loader"}]
  /\ DOMAIN FirmwareMap \subseteq 0 .. (AddrMod \div PAGE_SIZE) - 1
  /\ DOMAIN FirmwareMap # 0 .. (AddrMod \div PAGE_SIZE) - 1
  /\ FwPages \subseteq DOMAIN FirmwareMap
  /\ \A r \in EfiRequests :
       /\ r \in [size : Addr, align : Addr, min : Addr, max : Addr,
                 type : MemoryTypes, high : BOOLEAN]
       /\ r.size # 0 /\ r.size % PAGE_SIZE = 0 /\ r.align % PAGE_SIZE = 0
       /\ r.type # MEMORY_TYPE_FREE
  /\ \A rank \in Orders : \A p, q \in DOMAIN FirmwareMap :
       /\ rank[p * PAGE_SIZE] \in Nat
       /\ rank[p * PAGE_SIZE] = rank[q * PAGE_SIZE] => p = q
  /\ JunkDescriptors \subseteq [start : Addr, size : Addr, type : FwTypes]
  /\ JunkDescriptors # {}
  /\ MaxRanges \in Nat /\ MaxChanges \in Nat

PagesOf(b) == {p \in DOMAIN fw : b.start <= p * PAGE_SIZE /\ p * PAGE_SIZE < b.start + b.size}
Covered(b) == Cardinality(PagesOf(b)) * PAGE_SIZE = b.size
Retype(S, type) == [p \in DOMAIN fw |-> IF p \in S THEN type ELSE fw[p]]

EfiCanRun == stage = "run" /\ efi_status = "ok"

NoRequest == Request(0, 0, 0, 0, MEMORY_TYPE_FREE, FALSE)

-----------------------------------------------------------------------------
(***************************************************************************)
(* The firmware.                                                           *)
(***************************************************************************)

(* GetMemoryMap(): a descriptor for each longest run of pages of one type. *)
OneType(p, q) == \A r \in p .. q : r \in DOMAIN fw /\ fw[r] = fw[p]

Longest(p, q) ==
  /\ p <= q /\ OneType(p, q)
  /\ p - 1 \notin DOMAIN fw \/ fw[p - 1] # fw[p]
  /\ q + 1 \notin DOMAIN fw \/ fw[q + 1] # fw[p]

Descriptor(p, q) == [start |-> p * PAGE_SIZE, size |-> (q - p + 1) * PAGE_SIZE, type |-> fw[p]]

Descriptors ==
  UNION {{Descriptor(p, q) : q \in {q \in DOMAIN fw : Longest(p, q)}} : p \in DOMAIN fw}

(* They come in the order of their ranks. *)
ListPlace(d, rank) == Cardinality({e \in Descriptors : rank[e.start] <= rank[d.start]})
Listed(rank) ==
  [i \in 1 .. Cardinality(Descriptors) |-> CHOOSE d \in Descriptors : ListPlace(d, rank) = i]

(* A driver takes a page or gives one back, whatever the loader is doing.  *)
FwChange(p, type) ==
  /\ efi_status = "ok" /\ stage \notin {"exited", "left"}
  /\ \/ fw[p] = "conventional" /\ type \in {"boot", "runtime"}
     \/ fw[p] = "boot" /\ type = "conventional"
  /\ stage \notin Between => changes < MaxChanges
  /\ fw' = Retype({p}, type)
  /\ changes' = IF stage \in Between THEN 0 ELSE changes + 1
  /\ unsure' = IF type = "runtime" /\ MapBuilt THEN unsure \cup {p} ELSE unsure
  /\ UNCHANGED <<efi_memory_ranges, efi_held, stage, asked, chosen, num_entries, map_key,
                 kernel_map, efi_map, tries, efi_status, torn>>

-----------------------------------------------------------------------------
(***************************************************************************)
(* efi_get_memory_map(), and the same two calls in the loop of             *)
(* efi_exit_boot_services(): the number of entries is of the first call.   *)
(***************************************************************************)
GetMapSize(next, since) ==
  /\ num_entries' = Cardinality(Descriptors)
  /\ map_key' = since
  /\ changes' = since
  /\ stage' = next

(* The buffer is too small if there are more descriptors by now, which no  *)
(* caller takes.                                                           *)
MapGrew ==
  /\ efi_status = "ok" /\ stage \in Sized
  /\ Cardinality(Descriptors) > num_entries
  /\ efi_status' = "map_failed"
  /\ UNCHANGED <<fw, efi_memory_ranges, efi_held, stage, callVars, finalVars>>

(* If there are fewer, the last entries of the buffer are never written.   *)
MapFits == Cardinality(Descriptors) <= num_entries
Unwritten == [1 .. num_entries - Cardinality(Descriptors) -> JunkDescriptors]

-----------------------------------------------------------------------------
(***************************************************************************)
(* memory_alloc() and memory_free().                                       *)
(***************************************************************************)
EfiSuitable(d, req) == d.type = "conventional" /\ Suitable(d, req)

(* The first descriptor that will do, in the order of the sort.            *)
BestDescriptorMutant(req, map) ==
  LET fit == {d \in map : EfiSuitable(d, req)}
  IN  {d \in fit : \A e \in fit : d.start <= e.start}
BestDescriptor(req, map) ==
  LET fit == {d \in map : EfiSuitable(d, req)}
  IN  {d \in fit : \A e \in fit : IF req.high THEN e.start <= d.start ELSE d.start <= e.start}

EfiMemoryAlloc(call) ==
  /\ EfiCanRun /\ Len(efi_memory_ranges) < MaxRanges
  /\ GetMapSize("alloc_size", 0)
  /\ asked' = WithDefaults(call)
  /\ UNCHANGED <<fw, efi_memory_ranges, efi_held, chosen, efi_status, finalVars>>

(* The map is read and a place chosen, ...                                 *)
EfiAllocChoose(junk) ==
  /\ efi_status = "ok" /\ stage = "alloc_size" /\ MapFits
  /\ \E d \in BestDescriptor(asked, Descriptors \cup Range(junk)) :
       chosen' = AllocStart(d, asked)
  /\ map_key' = changes
  /\ stage' = "alloc_pages"
  /\ UNCHANGED <<fw, efi_memory_ranges, efi_held, asked, num_entries, efi_status, changes,
                 finalVars>>

Return ==
  /\ stage' = "run" /\ asked' = NoRequest /\ chosen' = 0
  /\ num_entries' = 0 /\ map_key' = 0 /\ changes' = 0

(* ... or there is none, which is an error unless the caller allows it.    *)
EfiAllocFails(junk) ==
  /\ efi_status = "ok" /\ stage = "alloc_size" /\ MapFits
  /\ BestDescriptor(asked, Descriptors \cup Range(junk)) = {}
  /\ efi_status' \in {"ok", "no_memory"}
  /\ Return
  /\ UNCHANGED <<fw, efi_memory_ranges, efi_held, finalVars>>

(* AllocatePages() of the exact address refuses what is not free.          *)
Granted(b) ==
  /\ b.start % PAGE_SIZE = 0 /\ Covered(b)
  /\ \A p \in PagesOf(b) : fw[p] = "conventional"

EfiAllocPages ==
  LET b == [start |-> chosen, size |-> asked.size, type |-> asked.type] IN
  /\ efi_status = "ok" /\ stage = "alloc_pages"
  /\ IF Granted(b)
     THEN /\ fw' = Retype(PagesOf(b), "loader")
          /\ efi_memory_ranges' = Append(efi_memory_ranges, b)
          /\ efi_held' = efi_held \cup {b}
          /\ Return
          /\ UNCHANGED efi_status
     ELSE /\ efi_status' = "alloc_failed"
          /\ UNCHANGED <<fw, efi_memory_ranges, efi_held, stage, callVars>>
  /\ UNCHANGED finalVars

(* The tracked range is found by its start and must have the same size.    *)
RangeAtMutant(b) == SelectInSeq(efi_memory_ranges, LAMBDA r : r.start <= b.start)
RangeAt(b) == SelectInSeq(efi_memory_ranges, LAMBDA r : r.start = b.start)

EfiMemoryFree(b) ==
  LET i == RangeAt(b) IN
  /\ EfiCanRun
  /\ IF i = 0 \/ efi_memory_ranges[i].size # b.size
     THEN /\ efi_status' = "bad_free"
          /\ UNCHANGED <<fw, efi_memory_ranges, efi_held>>
     ELSE /\ fw' = Retype(PagesOf(b), "conventional")
          /\ efi_memory_ranges' = RemoveAt(efi_memory_ranges, i)
          /\ efi_held' = efi_held \ {b}
          /\ UNCHANGED efi_status
  /\ UNCHANGED <<stage, callVars, finalVars>>

-----------------------------------------------------------------------------
(***************************************************************************)
(* memory_finalize(), efi_exit() and efi_exit_boot_services().             *)
(***************************************************************************)

(* get_memory_map() for memory_finalize(): what can be used is free, then  *)
(* the tracked ranges go over it with their types.                         *)
KernelType(type) == IF type = MEMORY_TYPE_INTERNAL THEN MEMORY_TYPE_FREE ELSE type

AddUsable(order) ==
  FoldLeft(LAMBDA map, d : IF d.type \in Usable
                           THEN MapInsert(map, d.start, d.size, MEMORY_TYPE_FREE)
                           ELSE map,
           <<>>, order)

AddTracked(map, ranges) ==
  FoldLeft(LAMBDA m, r : MapInsert(m, r.start, r.size, KernelType(r.type)), map, ranges)

EfiMemoryFinalize ==
  /\ EfiCanRun
  /\ GetMapSize("final_size", 0)
  /\ UNCHANGED <<fw, efi_memory_ranges, efi_held, asked, chosen, efi_status, finalVars>>

BuildKernelMap(rank, junk) ==
  /\ efi_status = "ok" /\ stage = "final_size" /\ MapFits
  /\ kernel_map' = AddTracked(AddUsable(Listed(rank) \o junk), efi_memory_ranges)
  /\ torn' = (junk # <<>>)
  /\ stage' = "final" /\ num_entries' = 0 /\ map_key' = 0 /\ changes' = 0
  /\ UNCHANGED <<fw, efi_memory_ranges, efi_held, asked, chosen, efi_map, tries, efi_status,
                 unsure>>

(* efi_exit(), with efi_memory_cleanup(). *)
CleanupMutant(ranges) == IF ranges = <<>> THEN {} ELSE PagesOf(ranges[1])
Cleanup(ranges) == UNION {PagesOf(ranges[i]) : i \in 1 .. Len(ranges)}

EfiExit ==
  /\ EfiCanRun
  /\ fw' = Retype(Cleanup(efi_memory_ranges), "conventional")
  /\ efi_memory_ranges' = <<>>
  /\ stage' = "left"
  /\ UNCHANGED <<efi_held, efi_status, callVars, finalVars>>

(* An attempt to end boot services: get the size of the map, ...           *)
ExitMapSize ==
  /\ efi_status = "ok"
  /\ \/ stage = "final" /\ GetMapSize("exit_size", 0)
     \/ stage = "exit_retry" /\ GetMapSize("exit_size", changes)
  /\ UNCHANGED <<fw, efi_memory_ranges, efi_held, asked, chosen, efi_status, finalVars>>

(* ... read it, and its key, ...                                           *)
ExitGetMap ==
  /\ efi_status = "ok" /\ stage = "exit_size" /\ MapFits
  /\ efi_map' = fw
  /\ map_key' = changes
  /\ stage' = "exit_map"
  /\ UNCHANGED <<fw, efi_memory_ranges, efi_held, asked, chosen, num_entries, changes,
                 kernel_map, tries, efi_status, torn, unsure>>

(* ... and call ExitBootServices() with the key, which the firmware        *)
(* accepts if the map has not changed since.  There are two attempts.      *)
RetryMutant == stage' = "exit_map"
Retry == stage' = "exit_retry"

ExitCall ==
  /\ efi_status = "ok" /\ stage = "exit_map"
  /\ IF map_key = changes
     THEN stage' = "exited" /\ UNCHANGED <<tries, efi_status>>
     ELSE /\ Retry
          /\ tries' = tries + 1
          /\ efi_status' = IF tries' = 2 THEN "exit_failed" ELSE "ok"
  /\ UNCHANGED <<fw, efi_memory_ranges, efi_held, callVars, kernel_map, efi_map, torn, unsure>>

EfiInit ==
  /\ fw = FirmwareMap
  /\ efi_memory_ranges = <<>>
  /\ efi_held = {}
  /\ stage = "run"
  /\ asked = NoRequest /\ chosen = 0
  /\ num_entries = 0 /\ map_key = 0
  /\ kernel_map = <<>>
  /\ efi_map = FirmwareMap
  /\ tries = 0
  /\ efi_status = "ok"
  /\ changes = 0 /\ torn = FALSE /\ unsure = {}

EfiNext ==
  \/ \E p \in FwPages, type \in FwTypes : FwChange(p, type)
  \/ MapGrew
  \/ \E call \in EfiRequests : EfiMemoryAlloc(call)
  \/ \E junk \in Unwritten : EfiAllocChoose(junk) \/ EfiAllocFails(junk)
  \/ EfiAllocPages
  \/ \E b \in efi_held : EfiMemoryFree(b)
  \/ EfiMemoryFinalize
  \/ \E rank \in Orders : \E junk \in Unwritten : BuildKernelMap(rank, junk)
  \/ EfiExit
  \/ ExitMapSize
  \/ ExitGetMap
  \/ ExitCall

EfiSpec == EfiInit /\ [][EfiNext]_efiVars

-----------------------------------------------------------------------------
(***************************************************************************)
(* Properties.                                                             *)
(***************************************************************************)

(* internal_error() is the firmware's doing, never the loader's own: a     *)
(* block is found again when it is freed, AllocatePages() "should succeed  *)
(* as it is marked in the memory map as free" and a buffer of the size     *)
(* asked for holds the map unless the firmware changed its map under this  *)
(* very call, and efi_exit_boot_services() gives up only if the firmware   *)
(* did so under each of its two attempts.                                  *)
NoInternalError ==
  /\ efi_status # "bad_free"
  /\ efi_status \in {"alloc_failed", "map_failed"} => changes > tries
  /\ efi_status = "exit_failed" => changes >= 2

(* "Allocate highest possible address": memory_alloc() leaves no place for *)
(* the request above the one it took, or below it without the flag, if the *)
(* firmware does not change its map during the call.                       *)
PlaceFits(at, req) ==
  /\ at % req.align = 0 /\ req.min <= at /\ at + req.size - 1 <= req.max
  /\ Covered([start |-> at, size |-> req.size])
  /\ \A p \in PagesOf([start |-> at, size |-> req.size]) : fw[p] = "conventional"

ExtremePlace ==
  [][EfiAllocPages /\ changes = 0 =>
       \A b \in efi_held' \ efi_held : \A at \in Addr :
         PlaceFits(at, asked) => IF asked.high THEN at <= b.start ELSE at >= b.start]_efiVars

(* The map a kernel gets stays true until boot services have ended, in     *)
(* whatever order the firmware listed its descriptors and whatever boot    *)
(* services memory it still takes: kernel allocations have their type, the *)
(* rest is free exactly where the firmware does not need it, and the list  *)
(* is sorted and merged.  Two things are beyond it: pages the firmware     *)
(* takes for runtime memory after memory_finalize(), and a firmware map    *)
(* that shrinks between the two calls of efi_get_memory_map(), whose last  *)
(* entries are then memory nobody wrote.                                   *)
ExpectedType(p) ==
  LET owners == {b \in efi_held : p \in PagesOf(b)} IN
  IF owners # {} THEN KernelType((CHOOSE b \in owners : TRUE).type)
  ELSE IF fw[p] \in Usable THEN MEMORY_TYPE_FREE ELSE NoMemory

KernelMapFaithful ==
  MapBuilt /\ ~torn =>
    /\ Sorted(kernel_map) /\ Merged(kernel_map)
    /\ \A p \in DOMAIN fw \ unsure : TypeAt(kernel_map, p * PAGE_SIZE) = ExpectedType(p)

(* The loader goes on without the firmware only with the firmware's last   *)
(* map in hand, and gives everything back if it exits to the firmware.     *)
CleanHandover ==
  /\ stage = "exited" => efi_map = fw
  /\ stage = "left" => \A p \in DOMAIN fw : fw[p] # "loader"
=============================================================================
