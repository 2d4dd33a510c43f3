-------------------------------- MODULE Disk ---------------------------------
(***************************************************************************)
(* Devices and disks: source/device.c, source/disk.c, the partition tables *)
(* (source/partition/), the disks of the BIOS and of EFI firmware, and     *)
(* disk images.                                                            *)
(*                                                                         *)
(* A disk's contents are what its blocks hold: a filesystem, a partition   *)
(* table or data.  A byte that is read is the place it comes from, so that *)
(* what a read returns says where it was read.                             *)
(***************************************************************************)
EXTENDS Integers, Sequences, SequencesExt, FiniteSets

CONSTANTS
  Machines,      \* what the firmware offers: [platform, drives, boot, ...]
  Contents,      \* disk or image -> block -> what is there
  Files,         \* image -> size in bytes of the file it is in
  ImageNames,    \* names given to the diskimage command, as sequences
  Reads,         \* given to device_read(): [offset, count, align]
  LBA_MOD,       \* block numbers in a partition table are this wide
  ID_MOD,        \* disk and partition ids are this wide: 2^8
  OFFSET_MOD,    \* offsets in bytes are this wide: 2^64
  NAME_SIZE,     \* what the buffer for a partition's name holds
  ALIGNMENT,     \* of the buffers some backends need: 8
  TRANSFER,      \* blocks_per_transfer() of the BIOS
  CDROM_BLOCK,   \* block size of a CD: 2048
  IMAGE_BLOCK,   \* block size of an image that is not on a disk: 512
  MaxFaults,     \* bound on the failing reads of a probe
  ABSENT

VARIABLES
  machine,   \* one of the Machines
  todo,      \* disks the platform has found and not registered yet
  devices,   \* device_list, in order
  next_ids,  \* next_disk_ids
  boot,      \* boot_device, 0 for none
  probing,   \* the probe_disk() calls under way, innermost first
  faults,    \* reads that have failed while probing
  phase,     \* "probe", "use", "image" while one is mounted, or why the loader has stopped
  last       \* the answer to the last request

diskVars == <<machine, todo, devices, next_ids, boot, probing, faults, phase, last>>

DiskTypes == {"hd", "cdrom", "floppy"}
BytesOf(root, from, count) == [i \in 1 .. count |-> <<root, from + i - 1>>]
Zero == <<"zero", 0>>
Zeroes(count) == [i \in 1 .. count |-> Zero]
Failure == <<"error", 0>>   \* in place of data: the read has failed
Least(a, b) == IF a < b THEN a ELSE b
RoundUp(n, m) == ((n + m - 1) \div m) * m

-----------------------------------------------------------------------------
(***************************************************************************)
(* Disks of the BIOS.  A drive answers the calls about it, or does not.    *)
(***************************************************************************)
(* add_disk(): <<>> if the drive is passed over.  The size of a CD is not  *)
(* known; one that emulates another kind of drive is a boot error, here a  *)
(* disk that cannot be registered.  `end' is where the medium really ends. *)
BiosDisk(type, blocks, size, d, is_boot) ==
  [type |-> type, blocks |-> blocks, size |-> size, boot |-> is_boot, root |-> d.root, end |-> d.blocks]
AddBiosDisk(m, d) ==
  IF d.id = m.boot /\ d.cd
  THEN <<BiosDisk(IF d.emulation THEN "emulated" ELSE "cdrom", LBA_MOD - 1, CDROM_BLOCK, d, TRUE)>>
  ELSE IF ~d.extensions \/ d.blocks = 0 THEN <<>>
  ELSE <<BiosDisk("hd", d.blocks, d.size, d, d.id = m.boot)>>

(* bios_disk_init(): drives 128 on are counted by the BIOS, and the boot   *)
(* device is added if it is not one of them.                               *)
BiosDisks(m) ==
  LET counted == SelectSeq(m.drives, LAMBDA d : d.id \in 128 .. 127 + m.count)
      extra == SelectSeq(m.drives, LAMBDA d :
                 d.id = m.boot /\ m.boot # 0 /\ (m.boot < 127 \/ m.boot >= 128 + m.count))
  IN FlattenSeq([i \in 1 .. Len(counted \o extra) |-> AddBiosDisk(m, (counted \o extra)[i])])

(* bios_disk_read_blocks(): transfers of at most TRANSFER blocks.          *)
BiosReadBlocks(root, size, count, lba) ==
  LET transfers == RoundUp(count, TRANSFER) \div TRANSFER
      Transfer(i) == BytesOf(root, (lba + i * TRANSFER) * size,
                           size * Least(count - i * TRANSFER, TRANSFER))
  IN FlattenSeq([i \in 1 .. transfers |-> Transfer(i - 1)])

-----------------------------------------------------------------------------
(***************************************************************************)
(* Disks of EFI firmware: a handle for every disk and every partition.     *)
(***************************************************************************)
IsChildNode(parent, child) == IsPrefix(parent, child) /\ parent # child

(* Network cards, handles with no path and those whose block I/O protocol  *)
(* cannot be opened are passed over.                                       *)
BlockHandles(m) == SelectSeq(m.drives, LAMBDA h : ~h.net /\ h.path # <<>> /\ h.opens)

GuessType(h) ==
  IF Last(h.path) = "acpi" THEN IF h.floppy THEN "floppy" ELSE "hd"
  ELSE IF h.removable /\ h.readonly /\ h.size = CDROM_BLOCK THEN "cdrom" ELSE "hd"

RawDisk(m, h) ==
  [type |-> GuessType(h), blocks |-> IF h.present THEN h.blocks ELSE 0, size |-> h.size,
   boot |-> h.handle = m.boot, root |-> h.root, end |-> h.blocks, handle |-> h.handle, path |-> h.path,
   boot_lba |-> 0]

(* What a partition's handle tells of the disk it is on.                   *)
FromChild(m, d, c) ==
  LET boots == c.handle = m.boot IN
  IF ~IsChildNode(d.path, c.path) THEN d
  ELSE [d EXCEPT !.boot = @ \/ boots,
                 !.type = IF c.media \in {"hd", "cdrom"} THEN c.media ELSE @,
                 !.boot_lba = IF c.media = "hd" /\ boots THEN c.start ELSE @]

EfiDisks(m) ==
  LET raw == SelectSeq(BlockHandles(m), LAMBDA h : ~h.logical)
      children == SelectSeq(BlockHandles(m), LAMBDA h : h.logical)
  IN [i \in 1 .. Len(raw) |->
        FoldLeft(LAMBDA d, c : FromChild(m, d, c), RawDisk(m, raw[i]), children)]

DisksOf(m) == IF m.platform = "bios" THEN BiosDisks(m) ELSE EfiDisks(m)

-----------------------------------------------------------------------------
(***************************************************************************)
(* Devices.  A disk device is [name, type, ops, info, size, blocks,        *)
(* parent, offset, mount, table, listed]: `info' is what its backend keeps *)
(* of it, `listed' whether its list of partitions is initialised.          *)
(***************************************************************************)
device_lookup(list, name) ==
  LET found == {i \in 1 .. Len(list) : list[i].name = name}
  IN IF found = {} THEN 0 ELSE CHOOSE i \in found : \A j \in found : i <= j

(* uuid: and label: look at the filesystem on the device.                  *)
LookupMount(list, field, value) ==
  LET found == {i \in 1 .. Len(list) : list[i].mount # ABSENT /\ value # ABSENT /\ list[i].mount[field] = value}
  IN IF found = {} THEN 0 ELSE CHOOSE i \in found : \A j \in found : i <= j

RootOf(list, d) == list[d].info.root

RECURSIVE Start(_, _)
Start(list, d) ==
  IF list[d].parent = 0 THEN 0 ELSE list[d].offset + Start(list, list[d].parent)

(* What the first blocks of a device hold.                                 *)
At(list, d, block) ==
  LET contents == Contents[RootOf(list, d)]
      place == Start(list, d) + block
  IN IF place \in DOMAIN contents THEN contents[place] ELSE [kind |-> "data"]

is_boot_partitionMutant(d, id, lba) ==
  CASE d.ops = "bios" -> IF machine.multiboot THEN id = machine.partition ELSE lba = machine.partition
    [] d.ops = "efi" -> d.info.boot
    [] d.ops = "image" -> id = 1
    [] d.ops = "partition" -> FALSE

is_boot_partition(d, id, lba) ==
  CASE d.ops = "bios" -> IF machine.multiboot THEN id = machine.partition ELSE lba = machine.partition
    [] d.ops = "efi" -> d.info.boot /\ lba = d.info.boot_lba
    [] d.ops = "image" -> id = 1
    [] d.ops = "partition" -> FALSE

Frame(d) == [dev |-> d, step |-> "fs", i |-> 0, ebr |-> 0, base |-> 0, id |-> 4, seen |-> FALSE]

(* device_register(): a name that is taken is an internal error.           *)
DeviceRegister(d, is_boot) ==
  IF device_lookup(devices, d.name) # 0
  THEN /\ phase' = "internal_error"
       /\ UNCHANGED <<devices, boot, probing>>
  ELSE /\ devices' = Append(devices, d)
       /\ boot' = IF is_boot THEN Len(devices) + 1 ELSE boot
       /\ probing' = <<Frame(Len(devices) + 1)>> \o probing
       /\ UNCHANGED phase

(* disk_device_register().                                                 *)
Register ==
  /\ phase = "probe" /\ probing = <<>> /\ todo # <<>>
  /\ Head(todo).type \in DiskTypes
  /\ LET d == Head(todo)
         id == next_ids[d.type]
     IN /\ next_ids' = [next_ids EXCEPT ![d.type] = (@ + 1) % ID_MOD]
        /\ DeviceRegister([name |-> <<d.type, id>>, type |-> "disk", ops |-> machine.platform, info |-> d,
                           size |-> d.size, blocks |-> d.blocks, parent |-> 0, offset |-> 0, id |-> id,
                           mount |-> ABSENT, table |-> ABSENT, listed |-> TRUE], d.boot)
  /\ todo' = Tail(todo)
  /\ UNCHANGED <<machine, faults, last>>

RegisterFails ==
  /\ phase = "probe" /\ probing = <<>> /\ todo # <<>>
  /\ Head(todo).type \notin DiskTypes
  /\ phase' = "boot_error"
  /\ UNCHANGED <<machine, todo, devices, next_ids, boot, probing, faults, last>>

-----------------------------------------------------------------------------
(***************************************************************************)
(* probe_disk().  Each step reads the disk once, and the read may fail.    *)
(***************************************************************************)
Probe == Head(probing)
Here == devices[Probe.dev]
Probing(step) == phase \in {"probe", "image"} /\ probing # <<>> /\ Probe.step = step

Return == probing' = Tail(probing)
Resume(frame) == probing' = <<frame>> \o Tail(probing)

(* A read returns TRUE or FALSE in `ok'.                                   *)
ReadGoes(ok) ==
  /\ ok \in BOOLEAN
  /\ ~ok => faults < MaxFaults
  /\ faults' = IF ok THEN faults ELSE faults + 1

Step == UNCHANGED <<machine, todo, next_ids, last>>
NoneFound == UNCHANGED <<devices, boot, phase>>

ProbeFs ==
  /\ Probing("fs")
  /\ IF Here.blocks = 0 THEN Return /\ NoneFound /\ UNCHANGED faults
     ELSE \E ok \in BOOLEAN :
       /\ ReadGoes(ok)
       /\ IF ok /\ At(devices, Probe.dev, 0).kind = "fs"
          THEN /\ devices' = [devices EXCEPT ![Probe.dev].mount = At(devices, Probe.dev, 0)]
               /\ Return
               /\ UNCHANGED <<boot, phase>>
          ELSE Resume([Probe EXCEPT !.step = "table"]) /\ NoneFound
  /\ Step

IsProtective(mbr) == mbr.parts[1].type = "gpt"

(* The first block, and the second if the first is a protective MBR.       *)
ProbeTable ==
  /\ Probing("table")
  /\ \E ok \in BOOLEAN :
       LET mbr == At(devices, Probe.dev, 0)
           header == At(devices, Probe.dev, 1)
       IN /\ ReadGoes(ok)
          /\ IF ~ok \/ mbr.kind # "mbr" THEN Return
             ELSE IF ~IsProtective(mbr) THEN Resume([Probe EXCEPT !.step = "mbr"])
             ELSE IF header.kind = "gpt" THEN Resume([Probe EXCEPT !.step = "gpt"])
             ELSE Return
  /\ NoneFound /\ Step

(* The name of a partition is cut where its buffer ends.                   *)
PartitionName(d, id) == SubSeq(Append(d.name, id), 1, Least(Len(d.name) + 1, NAME_SIZE))

(* add_partition(): the partition is probed before the next is looked at.  *)
(* Only a disk's own list of partitions is initialised; linking into that  *)
(* of a partition writes where its memory happens to point.                *)
add_partition(frame, id, lba, count) ==
  LET d == Probe.dev
      p == [name |-> PartitionName(Here, id), type |-> "disk", ops |-> "partition", info |-> Here.info,
            size |-> Here.size, blocks |-> count, parent |-> d, offset |-> lba, id |-> id,
            mount |-> ABSENT, table |-> ABSENT, listed |-> FALSE]
      resumed == <<frame>> \o Tail(probing)
  IN \/ IF device_lookup(devices, p.name) # 0
        THEN phase' = "internal_error" /\ UNCHANGED <<devices, boot, probing>>
        ELSE /\ devices' = Append(devices, p)
             /\ boot' = IF boot = d /\ is_boot_partition(Here, id, lba) THEN Len(devices) + 1 ELSE boot
             /\ probing' = <<Frame(Len(devices) + 1)>> \o resumed
             /\ UNCHANGED phase
     \/ /\ ~Here.listed
        /\ phase' = "wild_write"
        /\ UNCHANGED <<devices, boot, probing>>

SchemeMutant(name) ==
  /\ Return
  /\ NoneFound /\ UNCHANGED faults

(* The table has been gone through: iterate() returns TRUE.                *)
Scheme(name) ==
  /\ devices' = [devices EXCEPT ![Probe.dev].table = name]
  /\ Return
  /\ UNCHANGED <<boot, phase, faults>>

GptOutside(e) ==
  LET count == (e.last - e.start + 1) % LBA_MOD
  IN e.start >= Here.blocks \/ (e.start + count) % LBA_MOD > Here.blocks

GptEntry ==
  /\ Probing("gpt")
  /\ LET entries == At(devices, Probe.dev, 1).entries
         e == entries[Probe.i + 1]
         next == [Probe EXCEPT !.i = @ + 1]
     IN IF Probe.i = Len(entries) THEN Scheme("GPT")
        ELSE \E ok \in BOOLEAN :
               /\ ReadGoes(ok)
               /\ IF ~ok THEN Return /\ NoneFound
                  ELSE IF e.unused \/ GptOutside(e) THEN Resume(next) /\ NoneFound
                  ELSE add_partition(next, Probe.i % ID_MOD, e.start, (e.last - e.start + 1) % LBA_MOD)
  /\ Step

is_valid(p) ==
  /\ p.type # "none" /\ p.flag
  /\ p.start # 0
  /\ p.start < Here.blocks
  /\ (p.start + p.count) % LBA_MOD <= Here.blocks
is_extended(p) == p.type = "extended"

MbrEntry ==
  /\ Probing("mbr")
  /\ LET parts == At(devices, Probe.dev, 0).parts
         p == parts[Probe.i + 1]
         next == [Probe EXCEPT !.i = @ + 1]
     IN IF Probe.i = Len(parts) THEN Scheme("MBR")
        ELSE IF ~is_valid(p) \/ (is_extended(p) /\ Probe.seen)
        THEN Resume(next) /\ NoneFound /\ UNCHANGED faults
        ELSE IF is_extended(p)
        THEN /\ Resume([next EXCEPT !.step = "ebr", !.ebr = p.start, !.base = p.start, !.seen = TRUE])
             /\ NoneFound /\ UNCHANGED faults
        ELSE add_partition(next, Probe.i, p.start, p.count) /\ UNCHANGED faults
  /\ Step

NextEbrMutant(ebr) ==
  LET link == [ebr.parts[2] EXCEPT !.start = (@ + Probe.base) % LBA_MOD]
  IN IF is_valid(link) /\ is_extended(link) THEN link.start ELSE 0

(* handle_extended(): a chain of EBRs, which must go up.                   *)
NextEbr(ebr) ==
  LET link == [ebr.parts[2] EXCEPT !.start = (@ + Probe.base) % LBA_MOD]
  IN IF is_valid(link) /\ is_extended(link) /\ link.start > Probe.ebr THEN link.start ELSE 0

EbrEntry ==
  /\ Probing("ebr")
  /\ IF Probe.ebr = 0
     THEN Resume([Probe EXCEPT !.step = "mbr"]) /\ NoneFound /\ UNCHANGED faults
     ELSE \E ok \in BOOLEAN :
       /\ ReadGoes(ok)
       /\ LET ebr == At(devices, Probe.dev, Probe.ebr)
              p == [ebr.parts[1] EXCEPT !.start = (@ + Probe.ebr) % LBA_MOD]
              next == [Probe EXCEPT !.ebr = NextEbr(ebr)]
          IN IF ~ok \/ ebr.kind # "mbr"
             THEN Resume([Probe EXCEPT !.step = "mbr"]) /\ NoneFound
             ELSE IF ~is_valid(p) THEN Resume(next) /\ NoneFound
             ELSE add_partition([next EXCEPT !.id = @ + 1], Probe.id % ID_MOD, p.start, p.count)
  /\ Step

(* The list of devices prints what each is, a partition by the name of its *)
(* parent's scheme: with none set, that name is read from nowhere.         *)
SchemesSet ==
  \A d \in 1 .. Len(devices) : devices[d].parent # 0 => devices[devices[d].parent].table # ABSENT
print_device_list == phase' = "null_read" /\ ~SchemesSet

(* device_init(): the boot device becomes the environment's.               *)
DeviceInit ==
  /\ phase = "probe" /\ probing = <<>> /\ todo = <<>>
  /\ \/ print_device_list
     \/ phase' = IF boot = 0 \/ (boot # 0 /\ devices[boot].mount = ABSENT) THEN "boot_error" ELSE "use"
  /\ UNCHANGED <<machine, todo, devices, next_ids, boot, probing, faults, last>>

(* lsdevice, for all devices or for one.                                   *)
ListDevices ==
  /\ phase = "use"
  /\ \/ print_device_list
     \/ \E d \in 1 .. Len(devices) :
          /\ devices[d].parent # 0 /\ devices[devices[d].parent].table = ABSENT
          /\ phase' = "null_read"
  /\ UNCHANGED <<machine, todo, devices, next_ids, boot, probing, faults, last>>

-----------------------------------------------------------------------------
(***************************************************************************)
(* Disk images: config_cmd_diskimage() and disk_image_register().  The     *)
(* image is probed like any disk.                                          *)
(***************************************************************************)
ImageMount ==
  /\ phase = "use" /\ last.status = "none"
  /\ \E file \in DOMAIN Files, name \in ImageNames, on \in 1 .. Len(devices) :
       LET size == IF devices[on].type = "disk" THEN devices[on].size ELSE IMAGE_BLOCK
       IN /\ devices[on].mount # ABSENT
          /\ device_lookup(devices, name) = 0
          /\ devices' = Append(devices,
               [name |-> name, type |-> "virtual", ops |-> "image", info |-> [root |-> file],
                size |-> size, blocks |-> RoundUp(Files[file], size) \div size,
                parent |-> 0, offset |-> 0, id |-> 0, mount |-> ABSENT, table |-> ABSENT, listed |-> TRUE])
          /\ probing' = <<Frame(Len(devices) + 1)>>
  /\ phase' = "image"
  /\ UNCHANGED <<machine, todo, next_ids, boot, faults, last>>

ImageMounted ==
  /\ phase = "image" /\ probing = <<>>
  /\ phase' = "use"
  /\ UNCHANGED <<machine, todo, devices, next_ids, boot, probing, faults, last>>

-----------------------------------------------------------------------------
(***************************************************************************)
(* Reading.  ReadBlocks() is the read_blocks() of the device's backend.    *)
(***************************************************************************)
(* fs_read() of the file an image is in, and padding.                      *)
ImageReadBlocks(d, count, block) ==
  LET size == count * d.size
      offset == block * d.size
      file == Files[d.info.root]
      padding == IF offset + size > file THEN file - offset ELSE 0
  IN IF offset + size - padding > file THEN <<Failure>>
     ELSE BytesOf(d.info.root, offset, size - padding) \o Zeroes(padding)

(* The firmware refuses to read past the end of the medium.                *)
RECURSIVE ReadBlocks(_, _, _, _)
ReadBlocks(list, d, count, lba) ==
  LET here == list[d] IN
  CASE here.ops \in {"bios", "efi"} /\ lba + count > here.info.end -> <<Failure>>
    [] here.ops = "bios" -> BiosReadBlocks(RootOf(list, d), here.size, count, lba)
    [] here.ops = "efi" -> BytesOf(RootOf(list, d), lba * here.size, count * here.size)
    [] here.ops = "image" -> ImageReadBlocks(here, count, lba)
    [] here.ops = "partition" -> ReadBlocks(list, here.parent, count, lba + here.offset)

(* The loop over full blocks: one at a time if the buffer is not aligned.  *)
FullBlocksMutant(list, d, r, align) ==
  LET RECURSIVE Loop(_)
      Loop(s) ==
        LET size == list[d].size
            n == IF (align + Len(s.data)) % ALIGNMENT # 0 THEN 1 ELSE s.count \div size
        IN IF s.count \div size = 0 THEN s
           ELSE Loop([data |-> s.data \o ReadBlocks(list, d, n, s.start),
                      count |-> s.count - n * size, start |-> s.start + 1])
  IN Loop(r)

FullBlocks(list, d, r, align) ==
  LET RECURSIVE Loop(_)
      Loop(s) ==
        LET size == list[d].size
            n == IF (align + Len(s.data)) % ALIGNMENT # 0 THEN 1 ELSE s.count \div size
        IN IF s.count \div size = 0 THEN s
           ELSE Loop([data |-> s.data \o ReadBlocks(list, d, n, s.start),
                      count |-> s.count - n * size, start |-> s.start + n])
  IN Loop(r)

PartOf(block, from, to) == IF Contains(block, Failure) THEN block ELSE SubSeq(block, from, to)

(* disk_device_read(): a partial first block, full blocks, what is left.   *)
DeviceRead(list, d, offset, count, align) ==
  LET size == list[d].size
      start == offset \div size
      end == ((offset + count - 1) % OFFSET_MOD) \div size
      skip == offset % size
      partial == IF start = end THEN count ELSE size - skip
      first == IF skip = 0 THEN [data |-> <<>>, count |-> count, start |-> start]
               ELSE [data |-> PartOf(ReadBlocks(list, d, 1, start), skip + 1, skip + partial),
                     count |-> count - partial, start |-> start + 1]
      full == FullBlocks(list, d, first, align)
  IN full.data \o (IF full.count = 0 THEN <<>>
                   ELSE PartOf(ReadBlocks(list, d, 1, full.start), 1, full.count))

InDevice(d, r) == (r.offset + r.count) % OFFSET_MOD <= (d.blocks * d.size) % OFFSET_MOD

Read ==
  /\ phase = "use" /\ last.status = "none"
  /\ \E d \in 1 .. Len(devices), r \in Reads :
       last' = IF r.count = 0 THEN [status |-> "success", dev |-> d, read |-> r, data |-> <<>>]
               ELSE IF ~InDevice(devices[d], r) THEN [status |-> "end_of_file", dev |-> d, read |-> r]
               ELSE LET data == DeviceRead(devices, d, r.offset, r.count, r.align)
                    IN [status |-> IF Contains(data, Failure) THEN "failed" ELSE "success",
                        dev |-> d, read |-> r, data |-> data]
  /\ UNCHANGED <<machine, todo, devices, next_ids, boot, probing, faults, phase>>

(***************************************************************************)
(* efi_device_get_handle(): the firmware's handle for a device, which for  *)
(* a partition is found by where it starts.                                *)
(***************************************************************************)
EfiHandle(list, d) ==
  LET disk == IF list[d].parent = 0 THEN list[d] ELSE list[list[d].parent]
      handles == {i \in 1 .. Len(machine.drives) :
                    /\ machine.drives[i].path # <<>>
                    /\ IsChildNode(disk.info.path, machine.drives[i].path)
                    /\ machine.drives[i].media = "hd"
                    /\ machine.drives[i].start = list[d].offset}
  IN IF list[d].type # "disk" \/ disk.ops # "efi" THEN 0
     ELSE IF list[d].parent = 0 THEN disk.info.handle
     ELSE IF handles = {} THEN 0
     ELSE machine.drives[CHOOSE i \in handles : \A j \in handles : i <= j].handle

(* bios_disk_get_id(), for the loaders that hand the device on.            *)
Lookup ==
  /\ phase = "use" /\ last.status = "none"
  /\ \E d \in 1 .. Len(devices) :
       last' = [status |-> "lookup", dev |-> d,
                byname |-> device_lookup(devices, devices[d].name),
                byuuid |-> IF devices[d].mount = ABSENT THEN 0
                           ELSE LookupMount(devices, "uuid", devices[d].mount.uuid),
                handle |-> IF machine.platform = "efi" THEN EfiHandle(devices, d) ELSE 0]
  /\ UNCHANGED <<machine, todo, devices, next_ids, boot, probing, faults, phase>>

(* The caller takes the answer.                                            *)
Taken ==
  /\ last.status # "none"
  /\ last' = [status |-> "none"]
  /\ UNCHANGED <<machine, todo, devices, next_ids, boot, probing, faults, phase>>

-----------------------------------------------------------------------------
DiskInit ==
  /\ machine \in Machines
  /\ todo = DisksOf(machine)
  /\ devices = <<>>
  /\ next_ids = [t \in DiskTypes |-> 0]
  /\ boot = 0
  /\ probing = <<>>
  /\ faults = 0
  /\ phase = "probe"
  /\ last = [status |-> "none"]

ProbeStep == Register \/ RegisterFails \/ ProbeFs \/ ProbeTable \/ GptEntry \/ MbrEntry \/ EbrEntry \/ DeviceInit \/ ImageMounted
DiskNext == ProbeStep \/ ImageMount \/ ListDevices \/ Read \/ Lookup \/ Taken

(* The loader does one thing at a time, and probing waits for nothing.     *)
ProbeFairness == WF_diskVars(ProbeStep)

-----------------------------------------------------------------------------
(***************************************************************************)
(* Properties.                                                             *)
(***************************************************************************)
(* A read returns the bytes of the disk that are at that place of the      *)
(* device, whatever the device is a part of, wherever the request starts   *)
(* and ends and however the buffer is aligned (disk_device_read() and the  *)
(* read_blocks() of every backend); an image is followed by zeroes.  A     *)
(* read within the device is not refused, and the drive is never asked for *)
(* more than it has: partitions lie within their disks (is_valid(),        *)
(* gpt_partition_iterate()), but for a CD, whose size is not known, and    *)
(* for a partition whose end does not fit the sum that is compared.        *)
Byte(d, place) ==
  LET root == RootOf(devices, d)
      from == Start(devices, d) * devices[d].size + place
  IN IF root \in DOMAIN Files /\ from >= Files[root] THEN Zero ELSE <<root, from>>

Within(d, r) == r.offset + r.count <= devices[d].blocks * devices[d].size

RECURSIVE Overlong(_)
Overlong(d) ==
  IF devices[d].parent = 0 THEN devices[d].blocks = LBA_MOD - 1
  ELSE devices[d].offset + devices[d].blocks >= LBA_MOD \/ Overlong(devices[d].parent)

ReadExact ==
  /\ last.status = "end_of_file" => ~Within(last.dev, last.read)
  /\ last.status = "failed" => ~Within(last.dev, last.read) \/ Overlong(last.dev)
  /\ last.status = "success" =>
       last.data = [i \in 1 .. last.read.count |-> Byte(last.dev, last.read.offset + i - 1)]

(* When probing ends, the boot device is the partition the firmware loaded *)
(* us from if that has been found: by the handle of the loaded image under *)
(* EFI, by where it starts or its number under the BIOS (add_partition(),  *)
(* is_boot_partition()).  Reads that fail may keep it from being found,    *)
(* but never lead to another one.                                          *)
Booted(d) ==
  IF machine.platform = "efi" THEN EfiHandle(devices, d) = machine.boot
  ELSE /\ devices[d].parent # 0 /\ devices[devices[d].parent].parent = 0
       /\ devices[devices[d].parent].ops = "bios" /\ devices[d].info.boot
       /\ machine.partition = IF machine.multiboot THEN devices[d].id ELSE devices[d].offset

BootFound ==
  (phase # "probe" /\ \E d \in 1 .. Len(devices) : Booted(d)) => Booted(boot)

(* Probing stops the loader only for what it makes no provision for: two   *)
(* devices have one name only where names do not fit their buffer or ids   *)
(* their width (add_partition(), disk_device_register()); a device without *)
(* a partition scheme is listed as a parent only after a read has failed   *)
(* amid its GPT (gpt_partition_iterate()); and memory is overwritten only  *)
(* for a table within a partition.                                         *)
HasTable(d) == At(devices, d, 0).kind = "mbr"
IdsWrap ==
  \/ \E t \in DiskTypes : Len(SelectSeq(devices, LAMBDA d : d.name[1] = t)) >= ID_MOD
  \/ \E d \in 1 .. Len(devices) : \/ HasTable(d) /\ At(devices, d, 1).kind = "gpt"
                                    /\ Len(At(devices, d, 1).entries) > ID_MOD
                                 \/ Len(SelectSeq(devices, LAMBDA p : p.parent = d)) >= ID_MOD

StopsForAReason ==
  /\ phase = "internal_error" => IdsWrap \/ \E d \in 1 .. Len(devices) : Len(devices[d].name) >= NAME_SIZE
  /\ phase = "null_read" =>
       faults > 0 /\ \E d \in 1 .. Len(devices) : HasTable(d) /\ IsProtective(At(devices, d, 0))
  /\ phase = "wild_write" => \E d \in 1 .. Len(devices) : devices[d].parent # 0 /\ HasTable(d)

(* Probing ends, whatever the tables say: no chain of extended boot        *)
(* records is followed for ever (handle_extended()).                       *)
ProbeEnds == phase \in {"probe", "image"} ~> phase \notin {"probe", "image"}
=============================================================================
