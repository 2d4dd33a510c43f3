-------------------------------- MODULE Linux --------------------------------
(***************************************************************************)
(* The Linux loader: linux_arch_load() of source/arch/x86/loader/linux.c,  *)
(* with linux_initrd_load() of source/loader/linux.c and the two           *)
(* linux_platform_load(), from the parameter page to the kernel's entry.   *)
(* A header's version is a number: 3 is boot protocol 2.03.                *)
(***************************************************************************)
EXTENDS LoadMemory

CONSTANTS
  SECTOR,            \* 512, the unit of the setup code's size
  DEFAULT_CMDLINE,   \* 255, the longest command line before protocol 2.06
  E820_MAX,          \* entries of e820_map
  EXT_MEM_MAX,       \* 0xfc00, what ext_mem_k holds
  HANDOVER_OFFSET    \* from the 32-bit EFI entry point to the one used

LINUX_BZIMAGE_ADDR == HIGH

VARIABLE params      \* linux_params_t, and where the parts of the kernel are

NoParams ==
  [at |-> 0, cmdline |-> 0, cmdline_size |-> 0, kernel |-> 0, kernel_size |-> 0, align |-> 0, code32_start |-> 0,
   image |-> 0, image_size |-> 0, e820 |-> <<>>, alt_mem |-> 0, ext_mem |-> 0, screen |-> "none", entry |-> 0]

Header == config.kernel
SetupSize == (IF Header.setup_sects # 0 THEN Header.setup_sects + 1 ELSE 5) * SECTOR
LoadSize == Header.size - SetupSize

Step(p, mem, taken, next) ==
  /\ params' = p /\ cells' = mem /\ pages' = taken /\ stage' = next
  /\ UNCHANGED <<part, config, status>>
Halt(why) == Abandon(why) /\ UNCHANGED params

(* The "zero page", with the header read into it.                          *)
AllocParams ==
  LET at == AllocLow(PAGE_SIZE, 0, LOW, LOW_END) IN
  /\ AtStage("linux")
  /\ IF at = NOWHERE THEN Halt("boot_error")
     ELSE Step([NoParams EXCEPT !.at = at, !.align = Header.align],
               Written(cells, at, PAGE_SIZE, LAMBDA k : <<"params", k>>), Taken(at, PAGE_SIZE, "reclaimable"), "cmdline")

(* The command line.  strncpy() fills all of the allocation, and the       *)
(* terminator that follows is written to the cell after it.                *)
MaxCmdline == IF Header.version >= 6 THEN Header.cmdline_size ELSE DEFAULT_CMDLINE

CopyCmdline(mem, at, size) ==
  Written(Written(mem, at, size, LAMBDA k : IF k < config.cmdline THEN <<"cmdline", k>> ELSE "zero"),
          at + size, 1, LAMBDA k : "zero")

CmdlineSizeMutant == round_up(MaxCmdline, PAGE_SIZE)
CmdlineSize == round_up(MaxCmdline + 1, PAGE_SIZE)

SetCmdline ==
  LET size == CmdlineSize
      at   == AllocLow(size, 0, LOW, LOW_END)
  IN
  /\ AtStage("cmdline")
  /\ IF config.cmdline > MaxCmdline \/ at = NOWHERE THEN Halt("boot_error")
     ELSE Step([params EXCEPT !.cmdline = at, !.cmdline_size = size], CopyCmdline(cells, at, size),
               Taken(at, size, "reclaimable"), "kernel")

(* allocate_kernel(): where the image goes, and the alignment that allowed *)
(* it.  The room is what the kernel needs to decompress itself.            *)
Relocatable == Header.version >= 5 /\ Header.relocatable
MinAlign == IF Header.version >= 10 THEN Header.min_align ELSE Header.align
PrefAddr ==
  IF Header.version >= 10 THEN Header.pref_address
  ELSE IF Relocatable THEN round_up(LINUX_BZIMAGE_ADDR, Header.align) ELSE LINUX_BZIMAGE_ADDR

KernelRoom ==
  IF Header.version >= 10 THEN round_up(Header.init_size, PAGE_SIZE) ELSE round_up(LoadSize, PAGE_SIZE) * 3

(* The alignments tried: powers of two, down to the least allowed.         *)
Alignments ==
  {a \in MinAlign .. Header.align : a >= PAGE_SIZE /\ \E n \in 0 .. 30 : a = Header.align \div 2 ^ n}
PlacedWith(a) == AllocLow(KernelRoom, a, HIGH, 0)

KernelPlace ==
  LET pref == AllocLow(KernelRoom, 0, PrefAddr, PrefAddr + KernelRoom)
      fit  == {a \in Alignments : PlacedWith(a) # NOWHERE}
  IN
  IF pref # NOWHERE THEN [at |-> pref, align |-> Header.align]
  ELSE IF ~Relocatable \/ fit = {} THEN [at |-> NOWHERE, align |-> 0]
  ELSE [at |-> PlacedWith(Max(fit)), align |-> Max(fit)]

LoadLinux ==
  LET place == KernelPlace IN
  /\ AtStage("kernel")
  /\ IF Header.version >= 10 /\ Header.init_size < LoadSize THEN Halt("assert")
     ELSE IF place.at = NOWHERE THEN Halt("boot_error")
     ELSE Step([params EXCEPT !.kernel = place.at, !.kernel_size = KernelRoom, !.align = place.align,
                  !.code32_start = place.at + Header.code32_start - LINUX_BZIMAGE_ADDR],
               ReadIn(cells, place.at, LoadSize, "kernel", SetupSize), Taken(place.at, KernelRoom, "allocated"), "initrd")

(* The initrds, one after the other, as high as the kernel allows.         *)
AddSize(n, size) == n + size
InitrdSize == FoldLeft(AddSize, 0, config.initrds)
InitrdStart(i) == FoldLeft(AddSize, 0, SubSeq(config.initrds, 1, i - 1))

InitrdsRead(at) ==
  [a \in DOMAIN cells |->
     LET in == {i \in 1 .. Len(config.initrds) :
                  a - at \in InitrdStart(i) .. InitrdStart(i) + config.initrds[i] - 1}
         i  == CHOOSE i \in in : TRUE
     IN  IF in = {} THEN cells[a] ELSE FromFile(<<"initrd", i>>, 0, a - (at + InitrdStart(i)))]

LoadInitrd ==
  LET size == round_up(InitrdSize, PAGE_SIZE)
      at   == AllocHigh(size, 0, HIGH, Header.initrd_addr_max + 1)
  IN
  /\ AtStage("initrd")
  /\ IF InitrdSize = 0 THEN Step(params, cells, pages, "platform")
     ELSE IF at = NOWHERE THEN Halt("boot_error")
     ELSE Step([params EXCEPT !.image = at, !.image_size = InitrdSize], InitrdsRead(at),
               Taken(at, size, "modules"), "platform")

LinuxReadFails ==
  /\ status = "ok" /\ (stage \in {"linux", "kernel"} \/ (stage = "initrd" /\ InitrdSize # 0))
  /\ Halt("boot_error")

-----------------------------------------------------------------------------
(* linux_platform_load() of source/platform/bios/loader/linux.c: the       *)
(* memory map, then the screen, whose record is cleared first and with it  *)
(* the size of extended memory found with the map.                         *)
MemoryInfo(p, entry) ==
  LET upper == IF entry.start <= HIGH /\ entry.start + entry.size > HIGH
               THEN entry.start + entry.size - HIGH ELSE 0
  IN [p EXCEPT
        !.alt_mem = IF upper # 0 THEN upper ELSE @,
        !.ext_mem = IF upper # 0 THEN Min({upper, EXT_MEM_MAX}) ELSE @,
        !.e820 = IF Len(@) < E820_MAX THEN Append(@, entry) ELSE @]

ScreenInfo(p) == [p EXCEPT !.ext_mem = 0, !.screen = config.mode]

BiosEnter ==
  /\ AtStage("platform") /\ config.platform = "bios"
  /\ LET p == ScreenInfo(FoldLeft(MemoryInfo, params, config.firmware))
     IN Step([p EXCEPT !.entry = p.code32_start], cells, pages, "entered")

(* That of source/platform/efi: the handover entry point.                  *)
EfiEnter ==
  /\ AtStage("platform") /\ config.platform = "efi"
  /\ Step([params EXCEPT !.entry = params.code32_start + Header.handover_offset + HANDOVER_OFFSET], cells, pages, "entered")

LinuxNext ==
  /\ part = "linux"
  /\ \/ AllocParams \/ SetCmdline \/ LoadLinux \/ LoadInitrd \/ LinuxReadFails \/ BiosEnter \/ EfiEnter

(* What the loader is started with: an image with a part to load, whose    *)
(* header gives addresses and alignments of whole pages, as they are in    *)
(* every kernel that is built.                                             *)
LinuxConfig(c) ==
  LET h == c.kernel IN
  /\ {h.version, h.size, h.setup_sects, h.cmdline_size, h.align, h.min_align, h.pref_address, h.init_size,
      h.initrd_addr_max, c.cmdline, SECTOR, DEFAULT_CMDLINE} \subseteq Nat
  /\ (IF h.setup_sects # 0 THEN h.setup_sects + 1 ELSE 5) * SECTOR < h.size
  /\ h.version >= 5 /\ h.relocatable => h.align # 0 /\ h.align % PAGE_SIZE = 0
  /\ h.pref_address % PAGE_SIZE = 0 /\ (h.initrd_addr_max + 1) % PAGE_SIZE = 0
  /\ c.initrds \in Seq(Nat) /\ c.firmware \in Seq([start : Nat, size : Nat, type : STRING])

LinuxInit ==
  /\ part = "linux" /\ stage = "linux" /\ status = "ok" /\ params = NoParams
  /\ LinuxConfig(config)
  /\ pages \in [{a \in Addresses : a % PAGE_SIZE = 0} -> {"free", "busy"}]
  /\ cells \in [Addresses -> {"old"}]

linuxVars == <<loadVars, params>>
LinuxSpec == LinuxInit /\ [][LinuxNext]_linuxVars

-----------------------------------------------------------------------------
(* A Linux kernel is entered with its image whole at an address it         *)
(* accepts, the preferred one or one with the alignment it is told, with   *)
(* room to decompress itself that neither the initrd nor its parameters    *)
(* reach into, with the initrds in order and not above the address it can  *)
(* reach, and with a terminated command line: the terminator that is       *)
(* written after the allocation never lands on any of them.                *)
LinuxIntact ==
  part = "linux" /\ stage = "entered" =>
    LET room == params.kernel .. params.kernel + params.kernel_size - 1 IN
    /\ HasFile(params.kernel, LoadSize, "kernel", SetupSize)
    /\ \/ params.kernel = PrefAddr
       \/ Relocatable /\ params.kernel % params.align = 0 /\ params.align >= MinAlign
    /\ params.kernel_size >= LoadSize /\ (Header.version >= 10 => params.kernel_size >= Header.init_size)
    /\ HasFile(params.at, PAGE_SIZE, "params", 0)
    /\ HasFile(params.cmdline, config.cmdline, "cmdline", 0)
    /\ cells[params.cmdline + config.cmdline] = "zero"
    /\ pages[PageOf(params.cmdline + config.cmdline)] = "reclaimable"
    /\ \A i \in 1 .. Len(config.initrds) : HasFile(params.image + InitrdStart(i), config.initrds[i], <<"initrd", i>>, 0)
    /\ params.image_size = InitrdSize
    /\ InitrdSize # 0 => /\ params.image + InitrdSize <= Header.initrd_addr_max + 1
                         /\ (params.image .. params.image + InitrdSize - 1) \cap room = {}
    /\ \A a \in {params.at, params.cmdline} : a \notin room
=============================================================================
