-------------------------------- MODULE Mmu ---------------------------------
(***************************************************************************)
(* The page tables the loader builds for a kernel: mmu_map() and the       *)
(* memory operations (mmu_memset(), mmu_memcpy_to(), mmu_memcpy_from()) of *)
(* source/arch/x86/mmu.c, and mmu_map() of source/arch/arm64/mmu.c, which  *)
(* has no memory operations yet.                                           *)
(*                                                                         *)
(* A page directory entry covers one large page: it is absent, a large     *)
(* page, or points to a page table.  In 64-bit mode a directory is reached *)
(* through the two upper levels, which exist for it or not (dirs).  In     *)
(* 32-bit mode there is one directory and large pages may be unsupported.  *)
(* On ARM64 the two halves of the address space have tables of their own,  *)
(* and "directory" stands for a table of the second level.                 *)
(* The memory operations walk the tables with pointers they cache from one *)
(* iteration to the next, so each iteration is a step.                     *)
(***************************************************************************)
EXTENDS Canonical, Sequences, FiniteSets, SequencesExt, FiniteSetsExt

CONSTANTS
  PSE,              \* large pages supported (they always are in 64-bit mode)
  LARGE_PAGE_SIZE,  \* also the range of one page table
  PDIR_RANGE,       \* range of one page directory (64-bit mode)
  MapRequests,      \* calls of mmu_map() in each mode: [virt, phys, size]
  OpRequests,       \* memory operations in each mode: [addr, size, op]
  MaxMaps           \* bound on the number of mappings made

ASSUME MmuAssumption ==
  /\ PSE \in BOOLEAN
  /\ LARGE_PAGE_SIZE \in Nat \ {0} /\ PDIR_RANGE \in Nat \ {0}
  /\ LARGE_PAGE_SIZE % PAGE_SIZE = 0 /\ PDIR_RANGE % LARGE_PAGE_SIZE = 0
  /\ HALF % PDIR_RANGE = 0 /\ LIMIT % LARGE_PAGE_SIZE = 0 /\ AddrMod % (2 * HALF) = 0
  /\ MaxMaps \in Nat

(* Calls keep the assertions of mmu_map(), and no range is one that wraps, *)
(* that spans both halves of an ARM64 address space (is_kernel_range()) or *)
(* that is all of a 32-bit one, which has an image in it.                  *)
ASSUME MmuCallsAssumption ==
  \A c \in {"64", "32", "arm64"} :
    /\ \A r \in MapRequests[c] :
         /\ r \in [virt : Addr, phys : Nat, size : Addr \ {0}]
         /\ r.virt % PAGE_SIZE = 0 /\ r.phys % PAGE_SIZE = 0 /\ r.size % PAGE_SIZE = 0
         /\ r.virt + r.size <= AddrMod
         /\ c = "arm64" /\ r.virt < HALF => r.virt + r.size <= AddrMod - HALF
         /\ c = "32" => r.size < LIMIT
    /\ \A q \in OpRequests[c] :
         /\ q \in [addr : Addr, size : Addr, op : {"set", "copy"}]
         /\ q.addr + q.size <= AddrMod
         /\ c = "32" => q.size < LIMIT

VARIABLES
  context,  \* the mode of the context: "64" or "32", or "arm64"
  dirs,     \* the directories that exist
  pde,      \* directory entries, by large page
  pte,      \* page table entries, by page
  maps,     \* the mappings mmu_map() accepted, in the order of the calls
  strays,   \* large pages (physical) into which a page table entry was written
  work,     \* the memory operation in progress, or Idle
  touched   \* bytes accessed by the last operation: <<physical, value>>

mmuVars == <<context, dirs, pde, pte, maps, strays, work, touched>>

Idle == [op |-> "none"]
Absent == [kind |-> "absent"]
Table == [kind |-> "table"]
Large(phys) == [kind |-> "large", phys |-> phys]
Small(phys) == [kind |-> "small", phys |-> phys]

(* The part of an address the tables are indexed with; on ARM64 the top    *)
(* bit chooses between two of them (get_ttl2()).                           *)
IndexMod == IF context = "32" THEN LIMIT ELSE 2 * HALF
Index(virt) ==
  IF context = "arm64" THEN (IF virt >= AddrMod \div 2 THEN HALF ELSE 0) + (virt % HALF)
  ELSE virt % IndexMod
DirOf(virt) == Index(virt) \div PDIR_RANGE
PdeOf(virt) == Index(virt) \div LARGE_PAGE_SIZE
PteOf(virt) == Index(virt) \div PAGE_SIZE

-----------------------------------------------------------------------------
(***************************************************************************)
(* mmu_map(): small pages up to a large page boundary, then large pages,   *)
(* then small pages for the rest; only small pages if the two addresses    *)
(* differ in their offset, or large pages are not supported.               *)
(***************************************************************************)
UseLarge(virt, phys) ==
  /\ context # "32" \/ PSE
  /\ virt % LARGE_PAGE_SIZE = phys % LARGE_PAGE_SIZE

HeadSize(virt, phys, size) ==
  IF UseLarge(virt, phys)
  THEN Min({size, (LARGE_PAGE_SIZE - (virt % LARGE_PAGE_SIZE)) % LARGE_PAGE_SIZE})
  ELSE 0

LargeSizeMutant(virt, phys, size) ==
  IF UseLarge(virt, phys) THEN (size \div LARGE_PAGE_SIZE) * LARGE_PAGE_SIZE ELSE 0
LargeSize(virt, phys, size) ==
  IF UseLarge(virt, phys)
  THEN ((size - HeadSize(virt, phys, size)) \div LARGE_PAGE_SIZE) * LARGE_PAGE_SIZE
  ELSE 0

(* The offsets into the mapping at which small and large pages are made. *)
LargeOffsets(r) ==
  LET head == HeadSize(r.virt, r.phys, r.size)
      body == LargeSize(r.virt, r.phys, r.size)
  IN  {head + k * LARGE_PAGE_SIZE : k \in 0 .. (body \div LARGE_PAGE_SIZE) - 1}

SmallOffsets(r) ==
  LET head == HeadSize(r.virt, r.phys, r.size)
      body == LargeSize(r.virt, r.phys, r.size)
  IN  {o \in {k * PAGE_SIZE : k \in 0 .. (r.size \div PAGE_SIZE) - 1} :
         o < head \/ o >= head + body}

(* map_large_64(), map_large_32() and map_large(): the entry is            *)
(* overwritten, and with it what was mapped there by a table.              *)
(* map_small_64(), map_small_32() and map_small(): a new page table where  *)
(* there is no entry.  An entry for a large page is followed as if it were *)
(* a table: what is written is memory of the large page, not of a table.   *)
(* On ARM64 map_small() asserts that there is none.                        *)
IsLarge(virt) == pde[PdeOf(virt)].kind = "large"

MapPdes(r) ==
  LET large == {PdeOf(r.virt + o) : o \in LargeOffsets(r)}
      small == {PdeOf(r.virt + o) : o \in SmallOffsets(r)}
      physOf(e) == r.phys + (CHOOSE o \in LargeOffsets(r) : PdeOf(r.virt + o) = e)
  IN  [e \in DOMAIN pde |->
         IF e \in large THEN Large(physOf(e))
         ELSE IF e \in small /\ pde[e] = Absent THEN Table
         ELSE pde[e]]

MapPtes(r) ==
  LET offs == SmallOffsets(r)
      pages == {PteOf(r.virt + o) : o \in {o \in offs : ~IsLarge(r.virt + o)}}
  IN  [p \in DOMAIN pte |->
         IF p \in pages
         THEN Small(r.phys + (CHOOSE o \in offs : PteOf(r.virt + o) = p))
         ELSE pte[p]]

(* The memory that is taken for a page table. *)
MapStrays(r) ==
  {pde[PdeOf(r.virt + o)].phys : o \in {o \in SmallOffsets(r) : IsLarge(r.virt + o)}}

(* Is the call refused? *)
MapValid(r) ==
  CASE context = "64" -> is_canonical_range(r.virt, r.size)
    [] context = "arm64" -> is_valid_range(r.virt, r.size)
    [] context = "32" -> r.phys < LIMIT /\ r.phys + r.size <= LIMIT

(* The assertion of map_small() on ARM64; the loader stops if it fails.    *)
SmallAsserts(r) == context = "arm64" => \A o \in SmallOffsets(r) : ~IsLarge(r.virt + o)

(* mmu_map_32() and mmu_mem_op_32() take a 32-bit size. *)
Narrow(r) == IF context = "32" THEN [r EXCEPT !.size = @ % LIMIT] ELSE r

(* Callers keep mappings page-aligned, and in 32-bit mode below 4 GiB      *)
(* (check_mapping()), but not apart: a kernel may ask for any addresses    *)
(* outside the virtual map range, which is all allocator_insert() watches. *)
MmuMap(r) ==
  /\ work = Idle
  /\ Len(maps) < MaxMaps
  /\ context = "32" => r.virt + r.size <= LIMIT
  /\ MapValid(r) /\ SmallAsserts(r)
  /\ pde' = MapPdes(Narrow(r))
  /\ pte' = MapPtes(Narrow(r))
  /\ dirs' = IF context = "32" THEN dirs
             ELSE dirs \cup {DirOf(r.virt + k * PAGE_SIZE) : k \in 0 .. (r.size \div PAGE_SIZE) - 1}
  /\ maps' = Append(maps, r)
  /\ strays' = strays \cup MapStrays(Narrow(r))
  /\ UNCHANGED <<context, work, touched>>

-----------------------------------------------------------------------------
(***************************************************************************)
(* The memory operations.                                                  *)
(***************************************************************************)
OpValid(q) ==
  IF context = "64"
  THEN is_canonical_range(q.addr, q.size)
  ELSE q.addr < LIMIT /\ q.addr + q.size <= LIMIT

OpBegin(q) ==
  /\ work = Idle /\ context # "arm64"
  /\ OpValid(q)
  /\ work' = [op |-> q.op, addr |-> q.addr, size |-> Narrow(q).size, value |-> 0,
              pdir |-> {}, ptbl |-> {}, request |-> q]
  /\ touched' = <<>>
  /\ UNCHANGED <<context, dirs, pde, pte, maps, strays>>

(* The directory an iteration uses: the cached one unless there is none or *)
(* the address is at the start of a directory's range.  There is one       *)
(* directory in 32-bit mode.                                               *)
PdirMutant(w) == IF w.pdir = {} THEN {DirOf(w.addr)} ELSE w.pdir
Pdir(w) ==
  IF context = "32" THEN {0}
  ELSE IF w.pdir = {} \/ w.addr % PDIR_RANGE = 0 THEN {DirOf(w.addr)} ELSE w.pdir

FreshTable(w) == w.ptbl = {} \/ w.addr % LARGE_PAGE_SIZE = 0

(* The directory entry the iteration looks at: the index comes from the    *)
(* address, the directory from the cache.                                  *)
EntryOf(w) ==
  IF context = "32" THEN PdeOf(w.addr)
  ELSE (CHOOSE d \in Pdir(w) : TRUE) * (PDIR_RANGE \div LARGE_PAGE_SIZE) +
         (w.addr % PDIR_RANGE) \div LARGE_PAGE_SIZE

(* The cached page table, by the directory entry it came from; none if the *)
(* iteration is on a large page.                                           *)
Ptbl(w) ==
  IF ~FreshTable(w) THEN w.ptbl
  ELSE IF pde[EntryOf(w)].kind = "large" THEN {} ELSE {EntryOf(w)}

PteAt(w) ==
  (CHOOSE e \in Ptbl(w) : TRUE) * (LARGE_PAGE_SIZE \div PAGE_SIZE) +
    (w.addr % LARGE_PAGE_SIZE) \div PAGE_SIZE

(* Why an iteration gives up: a structure on the way is not present. *)
Unmapped(w) ==
  \/ context = "64" /\ Pdir(w) \cap dirs = {}
  \/ FreshTable(w) /\ pde[EntryOf(w)] = Absent
  \/ Ptbl(w) # {} /\ pte[PteAt(w)] = Absent

(* The page found: its address for this access, and the bytes up to its    *)
(* end.                                                                    *)
PageAddr(w) ==
  IF Ptbl(w) = {} THEN pde[EntryOf(w)].phys + (w.addr % LARGE_PAGE_SIZE)
  ELSE pte[PteAt(w)].phys + (w.addr % PAGE_SIZE)
PageLeft(w) ==
  IF Ptbl(w) = {} THEN LARGE_PAGE_SIZE - (w.addr % LARGE_PAGE_SIZE)
  ELSE PAGE_SIZE - (w.addr % PAGE_SIZE)

ChunkSize(w) == Min({PageLeft(w), w.size})

(* One iteration of mmu_mem_op_64() or mmu_mem_op_32() with do_mem_op(). *)
OpStep ==
  LET n == ChunkSize(work)
      copies == work.op # "set"
  IN
  /\ work # Idle /\ work.size # 0
  /\ ~Unmapped(work)
  /\ touched' = touched \o
       [k \in 1 .. n |-> <<PageAddr(work) + k - 1,
                           IF copies THEN work.value + k - 1 ELSE work.value>>]
  /\ work' = [work EXCEPT !.addr = (@ + n) % AddrMod, !.size = @ - n,
                          !.value = IF copies THEN @ + n ELSE @,
                          !.pdir = Pdir(work), !.ptbl = Ptbl(work)]
  /\ UNCHANGED <<context, dirs, pde, pte, maps, strays>>

(* The operation returns: TRUE, or FALSE at the first page not mapped. *)
OpEnd ==
  /\ work # Idle
  /\ work.size = 0 \/ Unmapped(work)
  /\ work' = Idle
  /\ UNCHANGED <<context, dirs, pde, pte, maps, strays, touched>>

(* mmu_context_create(). *)
MmuInit ==
  /\ context \in {"64", "32", "arm64"}
  /\ dirs = IF context = "32" THEN {0} ELSE {}
  /\ pde = [e \in 0 .. (IndexMod \div LARGE_PAGE_SIZE) - 1 |-> Absent]
  /\ pte = [p \in 0 .. (IndexMod \div PAGE_SIZE) - 1 |-> Absent]
  /\ maps = <<>>
  /\ strays = {}
  /\ work = Idle
  /\ touched = <<>>

MmuNext ==
  \/ \E r \in MapRequests[context] : MmuMap(r)
  \/ \E q \in OpRequests[context] : OpBegin(q)
  \/ OpStep
  \/ OpEnd

MmuSpec == MmuInit /\ [][MmuNext]_mmuVars

-----------------------------------------------------------------------------
(***************************************************************************)
(* Properties.                                                             *)
(***************************************************************************)

(* Does a mapping have an address, and does it have all of the large page  *)
(* around it, with physical memory that can be a large page?               *)
Includes(m, addr) == addr \in m.virt .. (m.virt + m.size - 1)
Mapped(addr) == \E k \in 1 .. Len(maps) : Includes(maps[k], addr)

LargeBase(addr) == addr - (addr % LARGE_PAGE_SIZE)
IncludesLarge(m, addr) ==
  /\ UseLarge(m.virt, m.phys)
  /\ m.virt <= LargeBase(addr) /\ LargeBase(addr) + LARGE_PAGE_SIZE <= m.virt + m.size

Target(m, addr) == m.phys + (addr - m.virt)

(* The call that an address is mapped by: the last one that has it.  But   *)
(* once a large page has it, a small one no longer changes that, and it is *)
(* the last with a large page.                                             *)
MappedBy(k, addr) ==
  /\ Includes(maps[k], addr)
  /\ IF IncludesLarge(maps[k], addr)
     THEN \A j \in 1 .. Len(maps) : j > k => ~IncludesLarge(maps[j], addr)
     ELSE \A j \in 1 .. Len(maps) :
            ~IncludesLarge(maps[j], addr) /\ (j > k => ~Includes(maps[j], addr))

(* What the processor makes of the tables: the physical address of a       *)
(* virtual one, -1 if it faults.                                           *)
Walk(addr) ==
  LET e == pde[PdeOf(addr)]
      p == pte[PteOf(addr)]
  IN  CASE context # "32" /\ DirOf(addr) \notin dirs -> -1
        [] e.kind = "large" -> e.phys + (addr % LARGE_PAGE_SIZE)
        [] e.kind = "table" /\ p.kind = "small" -> p.phys + (addr % PAGE_SIZE)
        [] OTHER -> -1

(* The tables mean what mmu_map() was asked for, whatever mix of small and *)
(* large pages was used, whatever else shares its tables and however calls *)
(* overlap: an address leads to the physical address of the call it is     *)
(* mapped by, and faults if there is none.  Entries are written outside    *)
(* tables only for a call that puts a small page into the large page of an *)
(* earlier one, and then into that page's memory.                          *)
Addresses == 0 .. (IF context = "32" THEN LIMIT ELSE AddrMod) - 1
Walkable == {addr \in Addresses : context # "32" => is_canonical_addr(addr)}

TablesFaithful ==
  /\ \A addr \in Walkable :
       /\ \A k \in 1 .. Len(maps) : MappedBy(k, addr) => Walk(addr) = Target(maps[k], addr)
       /\ ~Mapped(addr) => Walk(addr) = -1
  /\ \A x \in strays : \E j, k \in 1 .. Len(maps) : \E addr \in Walkable :
       /\ j < k /\ IncludesLarge(maps[j], addr) /\ Includes(maps[k], addr)
       /\ x = Target(maps[j], LargeBase(addr))

(* A memory operation accesses the bytes of the range in order, each at    *)
(* its own physical address with its own byte of the buffer, though it     *)
(* looks up directories and tables only now and then; and it gives up only *)
(* on an address that is not mapped.                                       *)
OpFaithful ==
  work # Idle =>
    LET q == work.request IN
    /\ Len(touched) = q.size - work.size
    /\ \A i \in 1 .. Len(touched) :
         touched[i] = <<Walk((q.addr + i - 1) % AddrMod), IF q.op = "set" THEN 0 ELSE i - 1>>
    /\ work.size # 0 /\ Unmapped(work) => ~Mapped(work.addr)
=============================================================================
