------------------------------ MODULE Multiboot ------------------------------
(***************************************************************************)
(* The Multiboot loader, source/arch/x86/loader/multiboot.c, from the call *)
(* of multiboot_loader_load() to the kernel's entry, with the part of it   *)
(* that is different on BIOS and on EFI (multiboot_platform_load()).       *)
(*                                                                         *)
(* The configuration is a machine (its platform, the pages in use, the     *)
(* firmware's memory map), an image whose headers are consistent with its  *)
(* file, a command line and the modules.  Strings and tables are areas of  *)
(* the information page, with the sizes they take there.                   *)
(***************************************************************************)
EXTENDS LoadMemory

CONSTANTS INFO_ALIGN, INFO_STRUCT, INFO_NAME, SHDR_SIZE, MOD_SIZE, MMAP_SIZE, VBE_SIZE

VARIABLE loader   \* multiboot_loader_t and the structures it points to

NewLoader ==
  [base |-> 0, offset |-> 0, full |-> FALSE, areas |-> <<>>, next |-> 1, kernel_end |-> 0,
   shdrs |-> <<>>, mods |-> <<>>, mmap |-> <<>>, lower |-> 0, upper |-> 0, boot_device |-> <<>>]

Kernel == config.kernel

(* multiboot_alloc_info(), and what is copied to the place it returns.     *)
AllocInfo(l, what, size) ==
  IF l.full \/ round_up(size, INFO_ALIGN) > PAGE_SIZE - l.offset
  THEN [l EXCEPT !.full = TRUE]
  ELSE [l EXCEPT !.offset = @ + round_up(size, INFO_ALIGN),
                 !.areas = Append(@, [what |-> what, start |-> l.base + l.offset, size |-> size])]

WriteInfo(mem, l, done) ==
  [a \in DOMAIN mem |->
     LET in == {i \in done + 1 .. Len(l.areas) : a \in l.areas[i].start .. l.areas[i].start + l.areas[i].size - 1}
     IN IF in = {} THEN mem[a] ELSE LET area == l.areas[CHOOSE i \in in : TRUE] IN <<area.what, a - area.start>>]

(* The step goes on with the loader l, or ends in internal_error().        *)
Continue(l, mem, next, taken) ==
  IF l.full THEN Abandon("internal_error") /\ UNCHANGED loader
  ELSE /\ loader' = l /\ cells' = WriteInfo(mem, l, Len(loader.areas)) /\ pages' = taken /\ stage' = next
       /\ UNCHANGED <<part, config, status>>

(* multiboot_loader_load() up to the image: the information page, the      *)
(* information structure, the loader's name, the command line.             *)
MultibootBegin ==
  LET base == AllocLow(PAGE_SIZE, 0, LOW, HIGH)
      l    == [NewLoader EXCEPT !.base = base]
  IN
  /\ AtStage("multiboot")
  /\ IF base = NOWHERE THEN Abandon("boot_error") /\ UNCHANGED loader
     ELSE Continue(AllocInfo(AllocInfo(AllocInfo(l, "info", INFO_STRUCT), "name", INFO_NAME), "cmdline", config.cmdline),
                   Cleared(cells, base, PAGE_SIZE), IF Kernel.aout THEN "kludge" ELSE "segments",
                   Taken(base, PAGE_SIZE, "reclaimable"))

(* The pages that hold size cells at an address of the image.              *)
ImagePagesMutant(addr, size) == [base |-> PageOf(addr), size |-> round_up(size, PAGE_SIZE)]
ImagePages(addr, size) ==
  [base |-> PageOf(addr), size |-> round_up(addr + size, PAGE_SIZE) - PageOf(addr)]

LoadAt(area, mem, end, next) ==
  IF AllocLow(area.size, 0, area.base, area.base + area.size) = NOWHERE
  THEN Abandon(RefusedWith(area.size)) /\ UNCHANGED loader
  ELSE /\ pages' = Taken(area.base, area.size, "allocated")
       /\ cells' = mem
       /\ loader' = [loader EXCEPT !.kernel_end = end, !.next = @ + 1]
       /\ stage' = next
       /\ UNCHANGED <<part, config, status>>

(* load_kernel_kludge().                                                   *)
KludgeValid(h) ==
  /\ h.header_addr >= h.load_addr
  /\ h.load_end_addr = 0 \/ h.load_end_addr >= h.load_addr
  /\ h.bss_end_addr = 0 \/ h.bss_end_addr >= h.load_end_addr
KludgeOffset(h) == Kernel.header_offset - (h.header_addr - h.load_addr)
KludgeSize(h) ==
  IF h.load_end_addr # 0 THEN h.load_end_addr - h.load_addr ELSE Kernel.size - KludgeOffset(h)
KludgeBss(h) == IF h.bss_end_addr # 0 THEN (h.bss_end_addr - h.load_addr) - KludgeSize(h) ELSE 0

LoadKludge ==
  LET h    == Kernel.header
      area == ImagePages(h.load_addr, KludgeSize(h) + KludgeBss(h))
  IN
  /\ AtStage("kludge")
  /\ IF ~KludgeValid(h) \/ KludgeSize(h) > Kernel.size - KludgeOffset(h)
     THEN Abandon("boot_error") /\ UNCHANGED loader
     ELSE LoadAt(area,
                 Cleared(ReadIn(cells, h.load_addr, KludgeSize(h), "kernel", KludgeOffset(h)),
                         h.load_addr + KludgeSize(h), KludgeBss(h)),
                 area.base + area.size, "modules")

(* load_kernel_elf(), one segment at a time.                               *)
LoadSegment ==
  LET h    == Kernel.phdrs[loader.next]
      area == ImagePages(h.paddr, h.memsz)
  IN
  /\ AtStage("segments") /\ loader.next <= Len(Kernel.phdrs)
  /\ IF ~h.load \/ h.memsz = 0
     THEN loader' = [loader EXCEPT !.next = @ + 1] /\ UNCHANGED loadVars
     ELSE LoadAt(area,
                 Cleared(ReadIn(cells, h.paddr, h.filesz, "kernel", h.offset), h.paddr + h.filesz, h.memsz - h.filesz),
                 Max({loader.kernel_end, area.base + area.size}), "segments")

(* The section headers, then the sections that no segment has loaded.      *)
LoadSectionHeaders ==
  LET l == [loader EXCEPT !.shdrs = Kernel.shdrs, !.next = 1] IN
  /\ AtStage("segments") /\ loader.next > Len(Kernel.phdrs)
  /\ IF Kernel.shdrs = <<>>
     THEN stage' = "modules" /\ UNCHANGED <<part, config, status, pages, cells, loader>>
     ELSE Continue(AllocInfo(l, "shdrs", Len(Kernel.shdrs) * SHDR_SIZE), cells, "sections", pages)

LoadSection ==
  LET h    == loader.shdrs[loader.next]
      size == round_up(h.size, PAGE_SIZE)
      phys == AllocLow(size, round_up(h.align, PAGE_SIZE), loader.kernel_end, 0)
  IN
  /\ AtStage("sections") /\ loader.next <= Len(loader.shdrs)
  /\ IF h.addr # 0 \/ h.size = 0
     THEN loader' = [loader EXCEPT !.next = @ + 1] /\ UNCHANGED loadVars
     ELSE IF phys = NOWHERE THEN Abandon("boot_error") /\ UNCHANGED loader
     ELSE /\ pages' = Taken(phys, size, "allocated")
          /\ cells' = IF h.nobits THEN Cleared(cells, phys, h.size) ELSE ReadIn(cells, phys, h.size, "kernel", h.offset)
          /\ loader' = [loader EXCEPT !.shdrs[loader.next].addr = phys, !.next = @ + 1]
          /\ UNCHANGED <<part, config, stage, status>>

SectionsDone ==
  /\ AtStage("sections") /\ loader.next > Len(loader.shdrs)
  /\ stage' = "modules" /\ UNCHANGED <<part, config, status, pages, cells, loader>>

(* The modules: their table, then each of them and its command line.       *)
ModuleTable ==
  /\ AtStage("modules")
  /\ IF config.modules = <<>>
     THEN stage' = "platform" /\ UNCHANGED <<part, config, status, pages, cells, loader>>
     ELSE Continue(AllocInfo([loader EXCEPT !.next = 1], "mods", Len(config.modules) * MOD_SIZE), cells, "module", pages)

LoadModule ==
  LET m    == config.modules[loader.next]
      size == round_up(m.size, PAGE_SIZE)
      phys == AllocLow(size, 0, loader.kernel_end, 0)
      l    == [loader EXCEPT !.mods = Append(@, [start |-> phys, end |-> phys + size]), !.next = @ + 1]
  IN
  /\ AtStage("module") /\ loader.next <= Len(config.modules)
  /\ IF phys = NOWHERE THEN Abandon(RefusedWith(size)) /\ UNCHANGED loader
     ELSE Continue(AllocInfo(l, <<"arguments", loader.next>>, m.cmdline),
                   ReadIn(cells, phys, m.size, <<"module", loader.next>>, 0), "module", Taken(phys, size, "modules"))

AllModulesLoaded ==
  /\ AtStage("module") /\ loader.next > Len(config.modules)
  /\ stage' = "platform" /\ UNCHANGED <<part, config, status, pages, cells, loader>>

(* Any of the reads above may fail.                                        *)
MultibootReadFails ==
  /\ status = "ok"
  /\ \/ stage = "kludge"
     \/ stage \in {"segments", "sections", "module"}
        /\ loader.next <= Len(CASE stage = "segments" -> Kernel.phdrs [] stage = "sections" -> loader.shdrs
                                [] OTHER -> config.modules)
  /\ Abandon("boot_error") /\ UNCHANGED loader

-----------------------------------------------------------------------------
(***************************************************************************)
(* multiboot_platform_load(): the memory map, and the video mode.          *)
(***************************************************************************)

(* EFI: the types of E820, and neighbours of one type put together.        *)
EfiType(type) ==
  CASE type \in {"loader", "boot", "conventional"} -> "free"
    [] type = "unusable" -> "bad"
    [] type \in {"acpi_reclaim", "acpi_nvs"} -> type
    [] OTHER -> "reserved"

Coalesce(map, desc) ==
  LET last == map[Len(map)] IN
  IF map # <<>> /\ last.type = EfiType(desc.type) /\ desc.start = last.start + last.size
  THEN [map EXCEPT ![Len(map)].size = @ + desc.size]
  ELSE Append(map, [desc EXCEPT !.type = EfiType(@)])

GivenMap == IF config.platform = "efi" THEN FoldLeft(Coalesce, <<>>, config.firmware) ELSE config.firmware

(* mem_lower and mem_upper: the last entry that decides each.              *)
MemLimits(l, entry) ==
  IF entry.type # "free" THEN l
  ELSE IF entry.start <= HIGH /\ entry.start + entry.size > HIGH
  THEN [l EXCEPT !.upper = entry.start + entry.size - HIGH]
  ELSE IF entry.start = 0 THEN [l EXCEPT !.lower = Min({entry.size, HIGH})] ELSE l

(* On BIOS, the number of the disk booted from and its partition, if any.  *)
BiosBootDevice == IF config.platform = "bios" THEN config.device ELSE <<>>

(* Two structures of VBE, filled in from the firmware or made up.          *)
VideoInfo(l) == IF config.video THEN AllocInfo(AllocInfo(l, "vbe_control", VBE_SIZE), "vbe_mode", VBE_SIZE) ELSE l

MultibootPlatformLoad ==
  LET l == FoldLeft(MemLimits, [loader EXCEPT !.mmap = GivenMap, !.boot_device = BiosBootDevice], GivenMap) IN
  /\ AtStage("platform")
  /\ Continue(VideoInfo(AllocInfo(l, "mmap", Len(GivenMap) * MMAP_SIZE)), cells, "entered", pages)

MultibootNext ==
  /\ part = "multiboot"
  /\ \/ MultibootBegin \/ LoadKludge \/ LoadSegment \/ LoadSectionHeaders \/ LoadSection \/ SectionsDone
     \/ ModuleTable \/ LoadModule \/ AllModulesLoaded \/ MultibootReadFails \/ MultibootPlatformLoad

-----------------------------------------------------------------------------
(* The memory map and the upper memory size describe each address as the   *)
(* firmware does, in one entry, and count nothing that is not free.        *)
MapFaithful ==
  LET E820(type) == IF config.platform = "efi" THEN EfiType(type) ELSE type
      In(map, a) == {i \in 1 .. Len(map) : a \in map[i].start .. map[i].start + map[i].size - 1}
  IN \A a \in Addresses :
       LET given == In(loader.mmap, a) told == In(config.firmware, a) IN
       /\ {E820(config.firmware[i].type) : i \in told} = {loader.mmap[i].type : i \in given}
       /\ Cardinality(given) = Cardinality(told)
       /\ a \in HIGH .. HIGH + loader.upper - 1 => \A i \in given : loader.mmap[i].type = "free"

ImageIntact ==
  /\ Kernel.aout =>
       LET h == Kernel.header IN
       /\ HasFile(h.load_addr, KludgeSize(h), "kernel", KludgeOffset(h))
       /\ HasZeros(h.load_addr + KludgeSize(h), KludgeBss(h))
  /\ \A i \in 1 .. Len(Kernel.phdrs) :
       LET h == Kernel.phdrs[i] IN
       h.load /\ h.memsz # 0 =>
         /\ HasFile(h.paddr, h.filesz, "kernel", h.offset)
         /\ HasZeros(h.paddr + h.filesz, h.memsz - h.filesz)
         /\ \A j \in 1 .. Len(loader.mods) : loader.mods[j].start >= h.paddr + h.memsz
  /\ \A i \in 1 .. Len(loader.shdrs) :
       LET h == loader.shdrs[i] IN
       h.size # 0 /\ Kernel.shdrs[i].addr = 0 =>
         IF h.nobits THEN HasZeros(h.addr, h.size) ELSE HasFile(h.addr, h.size, "kernel", h.offset)

ModulesIntact ==
  /\ Len(loader.mods) = Len(config.modules)
  /\ \A i \in 1 .. Len(loader.mods) :
       /\ HasFile(loader.mods[i].start, config.modules[i].size, <<"module", i>>, 0)
       /\ loader.mods[i].end >= loader.mods[i].start + config.modules[i].size

(* What a Multiboot kernel finds when it is entered is what was            *)
(* configured: its image is at the addresses its headers give, with the    *)
(* zeroed parts zero, every section and module is where the tables say,    *)
(* the modules are above the image, the map is the firmware's, and no      *)
(* string or table of the information page has been overwritten by what    *)
(* was loaded after it.                                                    *)
MultibootIntact ==
  part = "multiboot" /\ stage = "entered" =>
    /\ ImageIntact /\ ModulesIntact /\ MapFaithful
    /\ \A i \in 1 .. Len(loader.areas) : HasFile(loader.areas[i].start, loader.areas[i].size, loader.areas[i].what, 0)
=============================================================================
