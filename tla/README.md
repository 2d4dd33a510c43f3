# Verification of the KBoot boot loader

KBoot loads operating system kernels on BIOS and EFI PCs and on a few ARM64
boards. This directory holds TLA+ models of it, TLC configurations that check
them on small instances, and proofs, checked by TLAPS, of the properties of its
heap, its physical memory manager on BIOS and EFI, its address allocator, its page
tables, the address space of a kernel, the handles of its open files, its network
files, its loader commands and the load of a Linux kernel for every instance. Every
definition is translated from the code under `source/`; `PROJECT.json` maps each one to
its lines.

## 1. The system

KBoot is one program without threads. What makes it hard is not concurrency of
its own but that

* everything it does rests on a few data structures that are cut, merged and
  walked in place (heap chunks, memory ranges, address regions, page tables),
  and a mistake shows only after a long sequence of legal calls, often in the
  kernel that is booted;
* it shares the machine with firmware that allocates and frees memory between
  two calls of the loader and may refuse to let go of it, with disks and servers
  whose reads fail, and with a terminal that sends its keys byte by byte;
* it keeps global state that is valid for one object at a time (the one gzip
  decompressor, the one network transfer, cached page table pointers, a loop's
  next node, the current menu and environment) and code that is entered again
  from within itself;
* it draws by updating what is on the screen, on two kinds of console at once;
* addresses are fixed-width, and ranges end at the very top of them.

### Inventory

| Component | State | Operations | Interacts with | What makes it correct |
|---|---|---|---|---|
| Heap (`memory.c`) | chunk list in a static array | `malloc`, `realloc`, `free` | everyone | chunks tile the array, stay coalesced; a block's bytes stay its owner's; it fails only when full |
| Physical memory (`memory.c`, platform probes) | sorted range list, large chunks | `memory_add`, `memory_remove`, `memory_protect`, `memory_alloc`, `memory_free`, `malloc_large`, `free_large`, `memory_finalize` | firmware maps, all loaders | sorted, merged, disjoint; live allocations untouched; lowest/highest place; the kernel's map is true |
| EFI memory and services (`platform/efi/memory.c`, `services.c`) | tracked ranges, map key | `memory_alloc/free/finalize`, `efi_exit`, `efi_exit_boot_services` | firmware | the map stays true until boot services end; everything is given back on exit |
| Address allocator (`lib/allocator.c`) | region list | `allocator_init/alloc/insert/reserve` | KBoot loader | regions tile the range; an address is given out once; no false refusal |
| MMU (`arch/x86/mmu.c`, `arch/arm64/mmu.c`) | page tables | `mmu_map`, `mmu_memset`, `mmu_memcpy_to/from` | KBoot loader, memory | tables mean what was asked; operations reach exactly the mapped bytes |
| Disks and partitions (`device.c`, `disk.c`, `partition/`, `platform/*/disk.c`) | device list, boot device | register, probe, block reads, disk images | filesystems, firmware | reads return the right bytes; probing ends; the boot device is found |
| ext2, FAT, ISO9660, TAR (`fs/`) | mounts, symlink count | mount, iterate, open, read | disks, `fs.c` | what is opened and read is what the volume holds |
| Network (`net.c`, `platform/bios/pxe.c`, `platform/efi/net.c`) | current transfer | register, open, sequential read | `fs.c`, firmware | each handle reads its own file |
| Filesystem core (`fs.c`), environments' device and directory | reference-counted handles | `fs_open`, `fs_close`, `fs_read`, `cd`, `device` | all filesystems, all loaders | no handle freed under its holder |
| Decompression (`fs/decompress.c`) | one global decompressor | `decompress_open/read/close` | `fs.c`, and itself through disk images | each handle reads its own data; reads end |
| Configuration (`config.c`) | parser position, environments, error handler | parse, substitute, execute, `set`, `include`, `config`, ... | menu, shell, loaders | the menu is the one the text describes; it settles |
| Menu, shell, boot errors (`menu.c`, `shell.c`, `error.c`) | current menu, selection, countdown | keys, timeout, sub-menus, configuration of entries | configuration, UI | what is booted is what was chosen; no assertion fails |
| UI and line editor (`ui.c`, `lib/line_editor.c`) | stack of windows, selection, edited text | keys, partial and full drawing | consoles | the screen shows what drawing anew would |
| Consoles (`console.c`, `drivers/console/`) | cells, region, cursor, escape state | put character, scroll, poll | UI | both consoles show the same; keys arrive as pressed |
| KBoot loader (`loader/kboot*`, `arch/x86/loader/kboot.c`) | image tags, options, mapping list, tag list | `kboot` command, the steps of `kboot_loader_load` | allocator, MMU, memory, filesystem | no conflicting mappings; the kernel finds every tag with the value chosen |
| Linux, Multiboot, chain, EFI loaders | placement of an image | command, load, enter | memory, filesystem, firmware | what was configured is in memory, whole, when the kernel is entered; a command that fails holds nothing |
| Framebuffer, video modes, device tree, drivers, library, entry code | - | pixels, modes, strings, registers | everyone | functional |

Status and reasons per component are in `PROJECT.json`, "components"; the
hazards, each at its line, are there under "hazards".

## 2. Modules and code

A run merges related modules: an `MC...` module lets each behaviour be that of
one part while the others rest in a fixed state. So the parts do not multiply
each other's states and each keeps its own variables. A part uses what another
one promises, and that promise is what the other is checked for.

**Heap** (`heap`). `heap_chunks` is the list of the code, a chunk being its
address, size and flag. `blocks` (what callers hold) and `mem` (what the array
holds, headers included) are history that lets ownership be stated of bytes. A
request is never larger than the heap itself (`RequestsAssumption`): the first
`malloc()` takes the initial segment without a look at its size.

**RangeList, Placement, Memory, PageMap** (`memory`). `RangeList` has
`insert_range()` in its three parts (find the place, cut the predecessor, swallow
what follows) and `merge_ranges()`. `Placement` is `is_suitable_range()`. In
`Memory` every operation is an action, except that an iteration of the loops of
`memory_protect()` and `memory_finalize()` is one: the loops stand on a node of
the list they change. A node is named by its start, and `FREED` is a node that is
gone. `PageMap` is what the manager promises: a type per page, the lowest or
highest place that satisfies a request, failure only if there is none.

**EfiMemory** (`memory`). The firmware is external: a function from pages to
types, reported as descriptors in any of several orders. Each call the loader makes of
it is a step: the size of the map, the map, `AllocatePages()`, `ExitBootServices()`. So
`memory_alloc()` is three steps (`EfiMemoryAlloc`, `EfiAllocChoose` or `EfiAllocFails`,
`EfiAllocPages`), `memory_finalize()` two and an attempt to end boot services three, and
`FwChange` may come between any two of them. A map that has grown since its size was
asked for is an error (`MapGrew`); of one that has shrunk, the loader takes as many
entries as there were at first, and the last ones are memory that nobody wrote
(`Unwritten`: any of `JunkDescriptors`). `changes`, `torn` and `unsure` are history: how
often the map changed under the running call, that the kernel's map has such entries, and
the pages that became runtime memory after it was made.

**RegionList, Allocator** (`address_space`). `allocator.c` with wrapping addresses;
a failed call is the last one, since all callers stop with a boot error.

**Canonical, Mmu** (`address_space`). A directory entry is absent, a large page or
a table. The 64- and 32-bit modes of x86 and ARM64 are values of `context`. A
memory operation is a sequence of steps, one per chunk, that carries the directory
and the table looked up last, as the C locals do. In 32-bit mode addresses and
sizes are narrowed as in the code. Calls of `mmu_map()` may overlap: the allocator
keeps mappings apart only inside the virtual map range, and a kernel may ask for any
others. A large page overwrites what was there; a small page in a large one is
written into the large page's memory (`strays`), or asserted not to happen on ARM64.
Cache attributes are left out.

**KBootSpace** (`address_space`). One load, step by step as in
`kboot_loader_load()`. The image is what varies: mode, load tag, segments, mapping
tags. A top-level slot is present when a mapping with a physical address reaches
into it (the tables are `Mmu`'s).

**Disk** (`storage`). Drives of BIOS and EFI machines are registered and probed:
filesystem, GPT or MBR table, extended partitions, partitions within partitions,
and disk images. Each read that probing makes may fail (`MaxFaults`). `probing` is
the stack of `probe_disk()` calls under way. A byte of a disk is its disk and
place; the firmware refuses what is past the end of a medium. A name is a sequence,
and a partition's is cut to `NAME_SIZE`. The boot directory that `device_init()` opens is
part of the environment and not in this module. Where the code reads fields of a partition it never initialised, the model
ends in a state of its own (`wild_write`, `null_read`).

**Outcome, Ext2, Fat, Iso9660, Tar, Volumes** (`storage`). A filesystem is a set of
operators on a volume: mount, look a name up, read; `Outcome` is the status with
what is returned through a pointer. `Volumes` puts them behind `fs_open()` and
`fs_read()`: mount, open, read and close in any order, with places of the device
that cannot be read. A volume also carries what is on it (`files`), written down
independently of how it is laid out, and that is what lookups and reads are
compared with. FAT tables are bytes, packed 12, 16 or 32 bits; ext2 files have
direct, indirect, doubly indirect blocks, extents and holes.

**Network** (`storage`). The firmware's transfer (`tftp`, external) is kept apart
from what the loader believes of it (`current_pxe_handle` and a handle's
`packet_number`); reading a packet is a step, and any call of the firmware may
fail.

**Decompress, FileSystem** (`storage`). `Decompress` is a record with the global
variables of `decompress.c` and operators from one record to the next: the code is
entered again from within itself when a file lies on a compressed disk image
(`ReadImage`). A byte is where it comes from: `<<"out", f, k>>` is byte k of what f
decompresses to. Of tinfl (`3rdparty/miniz/tinfl.c`) what matters is how much input a
call takes and how much output it gives: `Stream` says what output there is after
each input byte, and `Ahead` how many more bytes are in the bit buffer when the
output is full there (a coded byte is decoded before it is known to have no room,
and input is taken two or four bytes at a time; a stored block takes none ahead). `FileSystem` has handles at addresses that are reused, with their 8-bit
reference counts.

**Parser, Boot, Menu** (`boot`). `Parser` goes over a text character by character
as `config_parse()` does, nested lists, strings, blocks and comments included,
and gives commands or an error or `hang`; the alphabet is what the parser tells
apart, and whole words stand for their letters. `Boot` is the rest of `config.c`:
environments, variables and substitution, commands, and `stack`, the calls under
way, one frame each: loading a file, executing a list, an `entry`, an `include`.
`Menu` adds `menu_select()`, `do_menu()`, countdown, hidden menus, sub-menus, the
configuration window, the shell and `boot_error()`. The user is `UserStep`.

**LoadMemory, Multiboot, Linux** (`boot`). Memory is cells that hold bytes of a file,
zeroes or something else, in pages that are given out by `memory_alloc()` as
`Memory` promises it. Each stage of a load is an action, and reads may fail.

**KBootTags, LoaderCommands** (`boot`). The options of an image, their defaults, the
environment, the configuration window and the list of tags as cells of memory that
the kernel walks. `LoaderCommands` has the commands of all loaders from their
arguments to success or to the labels at which they undo what they did, with a
count of everything held.

**Console, Ui** (`terminal`). The VGA console and the terminal behind the
serial line are two pictures of cells, each computed from what its driver does
with the same calls: the driver's registers and regions for one, escape sequences
as a terminal understands them (external) for the other. `Ui` has windows, lists,
text boxes, choosers, the text view, their partial updates and the line editor.

**SerialInput** (`terminal`). Bytes on a line, time, and `serial_console_poll()` with
its escape state and timeout. The terminal sends the bytes of a key in less than the
timeout, but they may wait unread for as long as the loader draws; `late` (a ghost)
has the keys for which the timeout passed in that while.

`MC...` modules hold the constants of the instances and the merged behaviours;
`ListLemmas`, `FoldLemmas` and the `...Proofs` modules hold the theorems (section 4)
and no model.

## 3. Runs

| Run | Question | Distinct states |
|---|---|---|
| `heap` | any sequence of calls of two owners on a 24-byte heap with 4-byte headers | 85,136 |
| `memory` | firmware entries that overlap, protections, allocations from both ends, finalization; EFI allocations and exit while the firmware changes its map | 88,468 |
| `address_space` | allocator, page tables, layout of a KBoot kernel | 478,104 |
| `storage` | disks, volumes, network files, open and compressed files | 114,419 |
| `boot` | configuration and menu; loader commands, Multiboot, Linux and KBoot loads | 45,358 |
| `terminal` | windows on two consoles; keys from the serial line | 74,384 |
| `memory_underflow` (violation) | a request from the top that is larger than what lies below a range's end | |
| `memory_adjacent` (violation) | protecting two areas side by side | |
| `kboot_default32` (violation) | a 32-bit kernel that leaves the range to the loader | |
| `files_tail` (violation) | a stream whose last byte is consumed with a full dictionary | |
| `files_image` (violation) | files on a compressed disk image | |
| `menu_assert` (violation) | the shell entered from a hidden menu | |

What they show, property by property:

* `heap`: `ChunksTileHeap` and `BlocksAreChunks` are the structure; `DataIntact`
  says it of the bytes, across moves; `NoFalseExhaustion` that splitting and
  coalescing never hide memory.
* `memory`: `HeldIntact` (nothing given out or protected is touched or given out
  twice), `KernelMapClean`, `LoopsEnd` (loops that change their list end) and the
  refinement `ImplementsPageMap`; on EFI `NoInternalError`, `KernelMapFaithful`,
  `CleanHandover`, and `ExtremePlace` (whatever the order of descriptors).
* `address_space`: `GrantsStay`, `GrantsAreFresh` (an action property: what a call
  gives out was free the moment before), `RefusedForAReason`; `TablesFaithful` (a
  page walk of every address gives what the call that maps it asked for, the last one or
  in a large page the last for all of it, and faults elsewhere; what is written outside
  tables is accounted for),
  `OpFaithful`; `LayoutSound` (a kernel's mappings, the loader's choices, the
  trampoline and the recursive slot do not meet).
* `storage`: `ReadExact`, `BootFound`, `StopsForAReason`, `ProbeEnds` of disks;
  `OpenTrue`, `ReadTrue` of volumes; `TransferTrue` of the network; `NoDangling`,
  `ReadCorrect`, `ReadsEnd` (the loop never spins: it ends, if only at the assertion of
  `files_tail`) of files.
* `boot`: `MenuMeant` compares the environments and entries built from a file with
  the meaning of the same file given as a tree; `BootsChosen`, `NoAssertion`,
  `Settles`; `MultibootIntact`, `LinuxIntact`, `TagsDelivered` say what a kernel
  finds when it is entered; `NothingLost` that commands undo what they did.
* `terminal`: `Shown` (partial updates draw what a full one would), `SameOnSerial`,
  `BufferFits`, `KeysArrive` (every key as it was pressed, and one the loader was late
  for as Escape and the characters after it, none lost).

### Disagreements met

1. `memory_underflow`: `memory.c:447` wraps for a request from the top that is
   larger than the address of the range's end, and non-existent memory is handed
   out.
2. `memory_adjacent`: `memory_protect()` iterates with a cached next node that
   `merge_ranges()` may free.
3. `kboot_default32`: with the default virtual map range of a 32-bit kernel there
   is never a slot for the recursive page table mapping.
4. `files_tail`: `decompress_read()` asserts that input is left while output is
   pending; tinfl may have consumed all of it at a multiple of 32 KiB of output.
   Compiled with the repository's `tinfl.c`, the loop meets the assertion for the
   gzip of 32,868 zeros.
5. `files_image`: opening a file on a compressed disk image overwrites input the
   image is still being decompressed from.
6. `menu_assert`: `shell_main()` is called from within a hidden menu and does not
   return; a configuration loaded from that shell meets the assertions about the
   current menu.

Faults that the models carry and a property states as an exception, or that the
instances keep clear of so that they do not hide everything else:

* `fs/ext2.c:382`: `symlink_count` is not decremented when the limit is met; each
  such failure lowers the limit for all later opens. `fs/ext2.c:349` returns
  `false`, which is success, without a handle.
* `platform/efi/net.c:103`: the buffer of a file whose transfer failed is kept, so
  the next read succeeds with whatever it holds (the exception in `TransferTrue`).
* `disk.c:192`: a partition's own list of partitions and its table type are never
  initialised (`wild_write`, `null_read`). `disk.c:287`: the padding of an image's
  last block is what there is of the file and not what is missing.
* `partition/mbr.c:58`: start and size of an entry are added in 32 bits (`Overlong` in
  `ReadExact`).
* `partition/gpt.c:82`: a read that fails amid a GPT leaves partitions registered, and
  listing them follows the null pointer of their disk's scheme; `disk.c:207`: the name of
  a partition is cut to 15 characters, so that the partitions of an image with a long name
  meet a name that is taken, an internal error; `disk.c:210`: the list of a partition's own
  partitions is not initialised (all three in `StopsForAReason`).
* `arch/x86/loader/multiboot.c:505`: the kernel's handle is kept when the second
  argument is not a list, and `loader/kboot_elfxx.h:44` keeps the ELF header
  (`LeftBehind` in `NothingLost`).
* `arch/x86/loader/linux.c:183`: the terminator is written one byte past the
  allocation (`LinuxIntact` shows that nothing of the load is there).
* `loader/kboot.c`: a `kboot` command that is refused leaves the options read so
  far in the environment.
* `config.c`: a comment that ends with the file is not ended by it, and the parser
  hangs (`phase = "hang"`, the exception in `Settles`).
* `arch/x86/mmu.c:116`: the entry for a large page is followed as if it were a table: a
  small page mapped into it is not mapped, and one entry's bytes of the large page's memory are
  overwritten (the last part of `TablesFaithful`).
* `lib/allocator.c:151`: the end of a large request wraps; `arch/x86/mmu.c:200`: a
  mapping of all 4 GiB is cut to nothing. `loader/kboot.c:281`: for a range that ends at
  2^64 the sum is 0, and a 32-bit kernel may have it, its addresses cut to 32 bits later
  (`ImageAssumption` keeps such ranges out).

Found by reading only: disk numbers are 8 bits wide (`disk.c:254`), the count of clusters of
a FAT is off by two (`fs/fat.c:171`), a directory record or entry of length 0 is
read for ever (ext2, ISO9660), TAR iteration goes on after a match (`fs/tar.c:76`),
a path with an opening and no closing parenthesis leaves a null pointer
(`fs.c:165`), the tail of an unaligned area is not protected (`memory.c:581`), an
integer option is asserted to be a string (`loader/kboot.c:454`; `ui.c:785` when the
entry is configured), offsets and sizes in an a.out header are subtracted in 32 bits
without a check (`multiboot.c:89`; the headers of the instance agree with their file), an empty module is
an allocation of 0 bytes, which is asserted not to happen (`memory.c:503`), an empty
file has the magic number of the file before it (`fs/decompress.c:145`), the packet
size a server agrees to when a file is opened again is not the one the start was
computed with (`platform/bios/pxe.c:148`).

### Bounds

Constants are scaled down so that every boundary is met within a few steps: pages
of 2 bytes, large pages of 2 pages, directories of 2 large pages, a dictionary of
4 and an input buffer of 3 bytes (2 in `files_tail` and `files_image`), disk blocks of 4 bytes, ext2 blocks of 2 bytes
with 2 pointers and 1 direct block, FAT types told apart at 8 and 10 clusters,
packets of 2 bytes, a screen of 12 by 9 cells, an editor that grows by 4 characters,
tags in cells of 2. Addresses are few enough (32 or 64) for ranges to reach their
top and wrap. The bounds of the behaviours are named constants: `MaxMaps` = 3 (a
table, a large page over it and a small page within that), `MaxRanges` = 3, `MaxChanges` =
2 (changes by the firmware during one call of the loader: enough for both attempts to
end boot services to fail), `MaxFaults` and `MaxNetFaults` = 1 (one failing call at any place),
`NetSlots` = 2 (two files that compete for the transfer), `MaxKeys` = 5 and
`MaxEnvs` = 24 in menus, `MaxEdits` = 2, `MaxTyped` = 3, `MaxModules` and
`MaxTags` = 2, `MaxHandles`. The other parts are bounded by their sets of
requests and by the memory there is.

Memory managers, page tables and lists are uniform: what happens at one boundary
happens at every other of its kind, and the instances have two of each kind or
more. In `storage`, a stream ends in more bytes without output than are taken
ahead of it; `files_tail` drops that. The images of disks are whole blocks, requests to the allocator do not
wrap and the ext2 volume has no ring of links, for the reasons given above.

`CHECK_DEADLOCK FALSE` is given where the system really stops: after an error,
after the kernel was entered, and when a scenario is used up.

### Fairness

* `LoopFairness` (`Memory`), `WF_vars(ReadStep)` (`FileSystem`), `ProbeFairness`
  (`Disk`): weak fairness of the steps of a loop or of probing that has begun. The
  program is sequential and nothing preempts it.
* `BootFairness` (`Menu`): the loader goes on when it is not waiting for a key, and
  its countdowns pass. Nothing is assumed of the user.
* `LineFairness` (`SerialInput`): the line delivers what was sent, time passes, and
  the loader, which waits for a key, polls in the end, however late. It is stated of the polls that change
  something (`CanPoll`).

No fairness is assumed of callers, firmware or reads.

## 4. Proofs

Each theorem is about the specification of one component and holds for every value
of the constants that satisfies the assumptions named in the module that declares
them.

| Theorem | Property | Module |
|---|---|---|
| `HeapInvariant` | `HeapInv`, inductive | `HeapProofs` |
| `HeapTypeOK`, `HeapCoalesced`, `HeapAsserts` | `TypeOK`, `FullyCoalesced`, `AssertsHold` | `HeapProofs` |
| `HeapTiled` | `ChunksTileHeap` | `HeapProofs` |
| `HeapOwned` | `BlocksAreChunks` | `HeapProofs` |
| `HeapDataIntact` | `DataIntact` | `HeapProofs` |
| `HeapNoFalseExhaustion` | `NoFalseExhaustion` | `HeapProofs` |
| `AllocatorGrantsStay` | `GrantsStay` | `AddressSpaceProofs` |
| `AllocatorGrantsAreFresh` | `GrantsAreFresh`, an action property | `AddressSpaceProofs` |
| `AllocatorRefusesForAReason` | `RefusedForAReason` | `AddressSpaceProofs` |
| `KBootLayoutSound` | `LayoutSound` | `AddressSpaceProofs` |
| `MmuTablesFaithful` | `TablesFaithful` | `AddressSpaceProofs` |
| `MmuOpFaithful` | `OpFaithful` | `AddressSpaceProofs` |
| `MemoryInvariant` | `MemoryInv`, inductive | `MemoryProofs` |
| `MemoryHeldIntact` | `HeldIntact` | `MemoryProofs` |
| `MemoryKernelMapClean` | `KernelMapClean` | `MemoryProofs` |
| `MemoryImplementsPageMap` | `ImplementsPageMap`, the refinement | `MemoryProofs` |
| `EfiNoInternalError` | `NoInternalError` | `MemoryProofs` |
| `EfiCleanHandover` | `CleanHandover` | `MemoryProofs` |
| `EfiKernelMapFaithful` | `KernelMapFaithful` | `MemoryProofs` |
| `EfiExtremePlace` | `ExtremePlace`, an action property | `MemoryProofs` |
| `EfiRefusals` | `EfiRefusesForAReason`, an action property, stated in the proofs only | `MemoryProofs` |
| `NetworkTransferTrue` | `TransferTrue` | `StorageProofs` |
| `HandlesNeverDangle` | `NoDangling` | `StorageProofs` |
| `CommandsLoseNothing` | `NothingLost` | `LoaderProofs` |
| `LinuxLoadsIntact` | `LinuxIntact` | `LoaderProofs` |

### Assumptions

Assumptions on the constants are what the code asserts or what its types and callers
grant, and TLC evaluates them on every run: `HeapAssumption` and `RequestsAssumption`
of the heap (section 2), `AddressSpaceAssumption` (pages divide the address space),
`AllocatorAssumption` and `RequestAssumption` (the assertions on entry to
`allocator_init/alloc/insert/reserve()`; `check_mapping()` has refused a region that
wraps), `MemoryAssumption` (no empty area, none in the last page of the address
space), `RequestsAssumption` of `Memory` (the assertions of `memory_alloc()`),
`NetworkAssumption` (the types of `fs_read()`; a packet has a size; a PXE reply names
the server it came from), `CanonicalAssumption` and `KBootAssumption` (pages divide
slots, slots the halves and the limit of 32-bit mode, which is below the end of the
address space), `ImageAssumption` (the types of the image's fields; without a load tag
the structure is zero, and no 32-bit range ends at 2^64), `LoaderAssumption` (the loader's own area is whole pages, as
`setup_trampoline()` rounds it, and does not wrap), `EfiAssumption` (the firmware's map
is of pages of the address space but not all of them, no two descriptors have the same
place in its order; callers keep the assertions of `memory_alloc()`), `MmuAssumption`
and `MmuCallsAssumption` (pages, large pages and directories divide each other and the
address space; callers keep the assertions of `mmu_map()`; no range wraps or spans both
halves of ARM64, which `is_kernel_range()` decides by its start alone, and no range of a
32-bit kernel is all of its 4 GiB, which would be cut to nothing and leave no room for
the image), `LoadMemoryAssumption` (the fixed addresses of the Linux and Multiboot
loaders are whole pages in order), `FileSystemAssumption` (what a directory or a root
names exists and has an owner; there is room for what is mounted; a disk image is a
compressed file that was opened after that, and compressed files are not empty). Of a Linux boot, `LinuxConfig` says that the image is
longer than its setup code and that the addresses and alignments in its header are whole
pages, as they are in every kernel that is built; `LinuxBootsAssumption` checks that the
boots of the run are such.

Five hypotheses are not granted by the code, and stand in the theorems:

* `NoWrap` (the theorems about the allocator): the end of a request is computed
  without wrapping wherever in the managed range it is tried. `allocator_alloc()` does
  not test for it (`lib/allocator.c:151`). The instance of `address_space` satisfies it.
* `[]MappingsEnd` (`KBootLayoutSound`): no mapping wraps around the end of the address
  space. `check_mapping()` sees to that for addresses a kernel chose; for those from
  `allocator_alloc()` it is the same untested sum, but asked only of the places it
  does give out, so that a virtual map range may end where the address space ends. It
  holds in every state of `address_space`.
* `[]PlacesComputed` (`MemoryProofs`): the range `memory_alloc()` chooses for a
  request is not one that is suitable only because the place computed in it wraps.
  This leaves out exactly what the run `memory_underflow` shows and nothing else;
  the instance of `memory` satisfies it in every state. `[]EfiPlacesComputed` is the
  same of the descriptor that `memory_alloc()` chooses on EFI, whose
  `is_suitable_range()` has the same subtraction.
* `[]CountsBelow` (`HandlesNeverDangle`): no 8-bit count of references comes within two
  of its width. The code does not see to it: `environ_destroy()` never closes the
  directory of the environment (`config.c:651`), so the count of a directory that is
  inherited over and over only grows. It holds in every state of `storage`.
* `AlignedAreas` (`MemoryHeldIntact` only): areas given to `memory_protect()` start
  on a page. It computes the end of an area from the start it has rounded down
  (`memory.c:581`), so the last bytes of another area may stay free. The other
  theorems about memory hold for any areas.

### The heap

None of the properties is inductive alone. That the chunk a caller frees exists
needs ownership; that ownership survives a merge needs that chunks do not share
addresses, which is address order; order between neighbours follows from tiling but
order between any two does not without an induction, so `Ordered` is a conjunct of
its own; that a split leaves no two free neighbours needs coalescing before it; and
that the assertions of `free()` hold is tiling at the moment of the merge. `HeapInv`
is the conjunction.

The argument goes by list updates, not by calls. `ListLemmas` says what inserting
into, removing from and replacing in a sequence does to its elements. `SplitTiles`,
`SplitCoalesces`, `MergeTiles`, `MergeFlags` carry the parts of the invariant
through the two structural updates; `TakeFact` and `FreeFact` put them together
for `malloc()` and `free()`; `OwnedTake` and `OwnedFree` do the same for the
blocks. One lemma per action follows (`MallocStep`, `FreeStep`, `ReallocInPlaceStep`,
`ReallocMoveStep`, `ErrorStep`), the moving `realloc()` being a take and a free with
an intermediate list. `HeapInvariant` combines them.

`DataIntact` needs of `HeapInv` that the bytes a step writes (headers of a split, the
payload it returns, the copy of a move) lie in no other owner's block.
`NoFalseExhaustion` needs that a run of bytes outside allocated chunks lies in one
free chunk, which is coalescing, and that its chunk is then large enough, which
would have made first fit succeed.

### Range lists, the allocator, the layout of a kernel and physical memory

A range list is looked at through one relation, `Holds(s, x, type)`: some range of s
holds address x with that type. `RangeListProofs` says what `insert_range()` (place
found, predecessor cut or split, successors swallowed) and `merge_ranges()` do to it:
the inserted range gets its type and every other address keeps what it had; and that
the list stays sorted, disjoint and typed (`Apart`), of whole pages, and merged
(`ListOK`). Both `Allocator` and `Memory` use those lemmas.

The allocator's invariant `AllocInv` adds that the regions hold exactly the managed
addresses and that no free region is followed by another, without which a refusal
could be false: a place across two free regions would be overlooked. Freshness is a
property of a step and follows from the place that the step found.

For a kernel's layout the regions must agree with the list of mappings. `KBootInv` says
that, once there is a virtual map range, it is whole pages in one canonical half, the
regions are whole pages without a free page at 0 (`RegionsFit`), every address of the
range that is mapped is allocated, and no two mappings meet there (`Layout`). A mapping
adds addresses that were free, at the kernel's choice because `kboot_map_virtual()`
found no conflict, at the loader's because it took them from a free region
(`MapVirtualFact`, `AllocVirtualFact`, `AddToLayout`). Mappings the kernel chose outside
the range are no part of this: `LayoutSound` does not claim them disjoint, nor does the
code. For the recursive slot the invariant has that it lies outside the slots of the
range, and the arithmetic of slots (`SlotOrder`) that addresses in a range of one half
have their slots between those of its ends; so nothing placed later reaches into it.

`MemoryInv` has, beside the list, a part for each loop: up to the node it stands on
(`Passed`), `memory_protect()` has left nothing free in its area and
`memory_finalize()` nothing internal. That node is still in the list after the range
it has just changed was merged with its neighbours, or is the one `merge_ranges()`
has freed, which is where the loop of `memory_protect()` goes astray
(`memory_adjacent`) and takes no further step. The rest accounts for what was given
out and protected: whole pages, each only once, of the type asked for until
`memory_finalize()` frees what is internal.

The refinement maps a list to the function from pages to types that `Holds` defines.
The first state maps to a first state, and each step to a step of `PageMap` or to a
stutter: an iteration of `memory_finalize()` to `Reclaim`, one of `memory_protect()`
to `Probe`, the begin and end of those loops and a refused call to a stutter, and
`memory_alloc()` to the choice of the lowest or highest run of free pages. For that a
suitable place in the list is one on the pages and the other way round (the list is
merged, so a run of free pages lies in one range), and the range found first or last
has the extreme one.

### Memory on EFI

`EfiInv` ties the loader's list of ranges to the firmware's map: the ranges are whole
blocks that do not meet, and the pages the firmware calls the loader's are exactly
theirs. So a block that a caller frees is found, and giving back every range leaves
nothing behind. What the loader has read is good unless the firmware changed its map
since: the number of entries is that of the map while there were no changes after the
size was asked for, the place chosen is free while there were none since the call began
(`PlaceInv`), and each failed attempt to end boot services has a change of its own
(`ExitInv`). Hence an internal error means that the firmware changed its map under that
very call. The firmware's
descriptors are the longest runs of pages of one type, in any order; `DescriptorsApart`
says that no page is in two of them, from which follow the extreme place and the
refusals. The kernel's map is built by two loops over descriptors and
ranges, which the model writes as folds: the invariant of each is that the pages of what
was added so far have their type and the others what they had, by the lemmas on range
lists that `Memory` uses.

### Page tables and memory operations

`TablesInv` says what the calls of `mmu_map()` so far, in their order, have made of every
entry: the pages of all are present (`MapsPresent`); a large page has the memory of the
last call that has all of it (`LargeLinked`); a page that no call has as part of a large
one has the memory of the last call that has it (`SmallLinked`); a large entry is one of
some call (`LargeOwned`), entries outside all mappings are absent (`Unlinked`), and the
memory that was taken for a table is that of a large page with a later call in it
(`StraysOwned`). It is kept because a call makes a large page only where it has all of it,
and because nothing makes a table of a large page again. That the offsets at which
`mmu_map()` makes large pages are exactly the large pages the call has all of is
`LargeAtIs`; the walk of an address then gives what `MappedBy` says. A memory
operation goes chunk by chunk and keeps the directory and the table it looked up before;
`Cached` is what makes that right: unless the address has just passed the end of a
directory (or table), the one kept is the one of this address. The bytes reached so far
are those behind the addresses passed, which is `InProgress`.

### Loading Linux

`LinuxInv` says, stage by stage, what is in memory (`Progress`): the parameters, then the
command line, the image in its room, the initrds in order, each in pages of its own. A
write into pages just taken leaves the other parts alone because those pages were free.
One write is not into its own pages: the terminator after a command line that fills its
allocation (`arch/x86/loader/linux.c:183`). It lands in the page after, and could only
hit the parameters, the one part that is there by then; they are the lowest free place
above the same limit (`ParamsLowest`), hence below the command line. That the initrds are
in order is about the sums of their sizes, a fold (`InitrdsInOrder`). The parts that the
kernel's own memory map reports are kept by the last step, another fold over the
firmware's entries (`MapKeepsParts`).

### Loops over lists

The loops of the model are `FoldLeft`. The definition of that operator in the community
modules is a recursive function on sets of positions, about which the library's
induction theorems cannot be used. `FoldLemmas` takes the operation as a constant and
proves, once, what a loop is: the result after n + 1 elements is the operation applied
to the result after n, and what holds before the loop and is kept by each element holds
after it. A proof about a loop is `INSTANCE FoldLemmas WITH Op <- ...`, the name of the
iteration; the operations take everything they use from their two arguments or the state.

### Network files

`NetInv` is what the loader believes about the firmware's transfer: unless the
firmware has given it up after a failure, it is that of the current handle's file and
has come as far as the handle's `packet_number` (`CurrentInv`), whatever was opened,
closed and read before. A read under way (`Progress`) has copied the file's bytes
from where the request starts up to where it is; before the packet of its start it
has copied nothing, and after it, it stands at a packet's start. `OnePacket` is the
arithmetic of one packet and `JoinBytes` puts its bytes to what was there.

### Handles of open files

`FilesInv` rests on `Good`: the count of every handle is at least the number of
references there are to it, from environments, compressed files, mounts, a disk image and
whoever opened it, every permanent node has its handle, a compressed file reads from a
handle that is not itself one, and the directory of an environment is a directory of its
device. `NoDangling` follows, but is not inductive: within one call of `fs_open()` the
walk holds the directory it has come to, which no variable of the state shows. `Good`
therefore takes the table, the holders and the environments as parameters, and the walk
keeps `Good` with one more holder (`WalkInv`); each step of it opens the next entry and
then closes the directory, a `FoldLeft` of `WalkStep`. Making and freeing a compressed
file moves the reference of a command to the compressed file and back (`Sourced`). The
decompressor's `current` handle is one that reads compressed data (`CurrentOpen`), though
opening a file on a disk image may decompress through it on the way.

### Loader commands

The sum of what a command has taken and given back is not inductive by itself: the
ways out of a command fall through labels, each of which gives back a part.
`CommandInv` says what is held as a function of where the command is (`HeldInv`):
its structure and strings until it has returned, the kernel's handle up to its label,
the headers of a KBoot image between reading them and `err_itags`, and as many modules
and image tags as are listed. Every module listed has a handle but for the last of
`multiboot`, which is listed before it is opened (`ListsInv`), and the two ways out
that leave something behind are named (`OddInv`). One lemma per action carries it.

### Only model-checked

Out of the prover's reach, and left to TLC for good: liveness under fairness
(`LoopsEnd`, `ReadsEnd`, `ProbeEnds`, `Settles`, `KeysArrive`), statements that need
`ENABLED`, and what recursive definitions compute for every input (the parser, path
walks in a volume, the FAT and ext2 lookups, the walk over tags, drawing). The safety properties of
`Disk`, `Volumes`, `Menu`, `Multiboot`, `KBootTags` and `Ui`, and `ReadCorrect` of
`FileSystem`, have no theorem: those of `Volumes`, `Menu` and `KBootTags` compare what such
definitions compute with a reference; the others could be proved, and are checked by TLC
only.

## 5. Not modelled

* The framebuffer console and video modes: pixels, glyphs and hardware registers.
  What a mode changes for a kernel enters `KBootTags` and `Multiboot` as whether
  there is one.
* The device tree: it is walked and not changed; the memory it reports is an input of
  `Memory`.
* UART, mailbox and interrupt registers, exceptions, backtraces, assembly entry code
  and boot sectors: pure I/O or processor state.
* Strings, formatting, sorting and character sets: pure functions of the usual
  meaning, taken from TLA+.
* The vendored libraries (compiler-rt, libfdt, miniz but for what tinfl takes and gives) and the host tools.
* Commands that only print (`ls`, `cat`, `env`, `help`, `lsmemory`, ...), and the
  choice of consoles by command.
