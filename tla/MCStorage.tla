------------------------------ MODULE MCStorage ------------------------------
(***************************************************************************)
(* Everything between a drive and the bytes of a file, one level in each   *)
(* behaviour: disks and their partitions, a filesystem on one of them,     *)
(* files of a network server, and the files that loaders and commands have *)
(* open.  The levels meet in device_read() and fs_read(), whose promises   *)
(* are what the level below is checked for.                                *)
(***************************************************************************)
EXTENDS Disk, Volumes, Network, FileSystem, TLC

(* Instances of the files: a disk whose filesystem allocates a handle for  *)
(* each open, and a TAR archive which shares them.                         *)
(* r1/a.gz, r1/s/b on the disk; r2/c.gz, r2/t/ in the archive. *)
MCTree ==
  ("r1" :> [a |-> "a.gz", s |-> "s"]) @@ ("s" :> [b |-> "b"]) @@
  ("r2" :> [c |-> "c.gz", t |-> "t"]) @@ ("t" :> [x \in {} |-> NONE])
MCRoot == [d1 |-> "r1", d2 |-> "r2"]
MCOwner ==
  [n \in {"r1", "a.gz", "s", "b"} |-> "d1"] @@ [n \in {"r2", "c.gz", "t"} |-> "d2"]
(* The last byte of a payload holds the end of the stream. *)
MCStream == ("a.gz" :> <<4, 5, 6, 9, 9, 9>>) @@ ("c.gz" :> <<2, 5, 5>>)
MCAhead == ("a.gz" :> <<0, 1, 2, 1, 0, 0>>) @@ ("c.gz" :> <<2, 0, 0>>)
MCRawSize == ("a.gz" :> 9) @@ ("c.gz" :> 6) @@ ("b" :> 4)
NoImage == [x \in {} |-> NONE]

Path(device, absolute, names) == [device |-> device, absolute |-> absolute, names |-> names]

(* Two compressed files and a plain one are opened, read and closed. *)
Reading ==
  [paths |-> {Path("d1", TRUE, <<"a">>), Path("d2", TRUE, <<"c">>),
              Path(NONE, TRUE, <<"s", ".", "b">>)},
   reads |-> {<<0, 2>>, <<3, 6>>}, held |-> 2, envs |-> 1]

(* Devices and directories are changed in nested environments. *)
Browsing ==
  [paths |-> {Path(NONE, FALSE, <<"s">>), Path(NONE, FALSE, <<"b">>), Path("d2", TRUE, <<"t">>),
              Path("d1", TRUE, <<"a", "b">>), Path("d1", TRUE, <<"s">>)},
   reads |-> {<<0, 2>>}, held |-> 1, envs |-> 3]

MCScenarios == {Reading, Browsing}

(* The last bytes of output are coded in the byte that ends the stream. *)
MCTailStream == ("a.gz" :> <<0, 3, 6, 9>>) @@ ("c.gz" :> <<2, 5>>)
NotAhead(stream) == [f \in DOMAIN stream |-> [n \in DOMAIN stream[f] |-> 0]]
MCTailAhead == NotAhead(MCTailStream)
MCTailRawSize == ("a.gz" :> 7) @@ ("c.gz" :> 5) @@ ("b" :> 4)
OneFile ==
  [paths |-> {Path("d1", TRUE, <<"a">>)}, reads |-> {<<0, 2>>, <<3, 2>>, <<1, 8>>},
   held |-> 1, envs |-> 1]
MCTailScenarios == {OneFile}

(* The second device is a disk image, compressed as i.gz: it holds a file  *)
(* b at 2, and one that is compressed itself, g.gz, at 6.                  *)
MCImageTree == ("r1" :> [i |-> "i.gz"]) @@ ("r2" :> [b |-> "b", g |-> "g.gz"])
MCImageOwner == [n \in {"r1", "i.gz"} |-> "d1"] @@ [n \in {"r2", "b", "g.gz"} |-> "d2"]
MCImageStream == ("i.gz" :> <<4, 8, 12, 12>>) @@ ("g.gz" :> <<3, 3>>)
MCImageAhead == NotAhead(MCImageStream)
MCImageRawSize == ("i.gz" :> 7) @@ ("b" :> 4) @@ ("g.gz" :> 5)
MCImage ==
  ("b" :> [file |-> "i.gz", base |-> 2]) @@ ("g.gz" :> [file |-> "i.gz", base |-> 6])
ImageReading ==
  [paths |-> {Path("d2", TRUE, <<"b">>), Path("d2", TRUE, <<"g">>)},
   reads |-> {<<0, 2>>, <<0, 4>>}, held |-> 2, envs |-> 1]
MCImageScenarios == {ImageReading}

-----------------------------------------------------------------------------

(* Small machines for Disk: each has tables that do not fit their disk.     *)
Part(type, start, count) == [type |-> type, flag |-> TRUE, start |-> start, count |-> count]
Empty == [type |-> "none", flag |-> TRUE, start |-> 0, count |-> 0]
Fs(name) == [kind |-> "fs", uuid |-> name, label |-> name]
Mbr(parts) == [kind |-> "mbr", parts |-> parts]
Entry(start, end) == [unused |-> FALSE, start |-> start, last |-> end]
UnusedEntry == [unused |-> TRUE, start |-> 0, last |-> 0]
Protective == Mbr(<<Part("gpt", 1, 11), Empty, Empty, Empty>>)

(* An MBR with an extended partition whose chain goes back, and with one   *)
(* that ends outside the disk; a GPT with the same; a table in a partition. *)
MCContents ==
  [mbr |-> (0 :> Mbr(<<Part("data", 1, 2), Part("extended", 3, 9), Part("data", 10, 5), Part("extended", 5, 1)>>)
            @@ 1 :> Fs("a")
            @@ 3 :> Mbr(<<Part("data", 1, 2), Part("extended", 3, 3)>>) @@ 4 :> Fs("b")
            @@ 6 :> Mbr(<<Part("data", 1, 9), Part("extended", 5, 3)>>)
            @@ 8 :> Mbr(<<Part("data", 1, 2), Part("extended", 0, 3)>>) @@ 9 :> Fs("c")),
   gpt |-> (0 :> Protective
            @@ 1 :> [kind |-> "gpt", entries |-> <<Entry(3, 5), UnusedEntry, Entry(9, 12), Entry(6, 9), Entry(8, 6)>>]
            @@ 3 :> Mbr(<<Part("data", 1, 1), Empty, Empty, Empty>>) @@ 4 :> Fs("c")
            @@ 6 :> Fs("a")),
   cd |-> (0 :> Fs("b")),
   img |-> (0 :> Mbr(<<Empty, Part("data", 1, 1), Part("extended", 2, 2), Empty>>) @@ 1 :> Fs("d")
            @@ 2 :> Mbr(<<Empty, Part("extended", 0, 1)>>))]

Drive(id, root, blocks) ==
  [id |-> id, cd |-> FALSE, emulation |-> FALSE, extensions |-> TRUE, blocks |-> blocks, size |-> 4, root |-> root]
Bios(drives, count, bootid, multiboot, partition) ==
  [platform |-> "bios", drives |-> drives, count |-> count, boot |-> bootid,
   multiboot |-> multiboot, partition |-> partition]

Handle(h, path, root, blocks, size) ==
  [handle |-> h, path |-> path, net |-> FALSE, opens |-> TRUE, present |-> TRUE, logical |-> FALSE, removable |-> FALSE,
   readonly |-> FALSE, floppy |-> FALSE, media |-> ABSENT, start |-> 0, root |-> root, blocks |-> blocks,
   size |-> size]
Child(h, path, root, media, start) ==
  [Handle(h, path, root, 3, 4) EXCEPT !.logical = TRUE, !.media = media, !.start = start]
EfiHandles ==
  <<Child(5, <<"pci", "sata", "p2">>, "gpt", "hd", 6), Handle(1, <<"pci", "sata">>, "gpt", 12, 4),
    [Handle(2, <<"pci", "ahci">>, "cd", 8, CDROM_BLOCK) EXCEPT !.removable = TRUE, !.readonly = TRUE],
    Child(6, <<"pci", "ahci", "e">>, "cd", "cdrom", 0), Child(4, <<"pci", "sata", "p1">>, "gpt", "hd", 3),
    [Handle(3, <<"pci", "acpi">>, "cd", 8, 4) EXCEPT !.floppy = TRUE, !.present = FALSE],
    [Handle(7, <<"pci", "net">>, "cd", 8, 4) EXCEPT !.net = TRUE],
    [Handle(9, <<"pci", "raid">>, "mbr", 12, 4) EXCEPT !.opens = FALSE],
    Handle(8, <<"pci", "usb">>, "mbr", 12, 4)>>
Efi(h) == [platform |-> "efi", drives |-> EfiHandles, boot |-> h]

MCMachines ==
  {Bios(<<Drive(128, "mbr", 12)>>, 1, 128, FALSE, 4),
   Bios(<<Drive(128, "gpt", 12), Drive(129, "mbr", 12)>>, 2, 129, TRUE, 5),
   Bios(<<[Drive(10, "cd", 3) EXCEPT !.cd = TRUE, !.emulation = TRUE]>>, 0, 10, FALSE, 0),
   Bios(<<[Drive(10, "cd", 8) EXCEPT !.cd = TRUE], [Drive(128, "gpt", 12) EXCEPT !.extensions = FALSE],
          Drive(129, "mbr", 12)>>, 2, 10, FALSE, 0),
   Bios(<<Drive(128, "cd", 0)>>, 1, 0, FALSE, 0)}
  \cup {Efi(h) : h \in {4, 5, 6}}

(* The last read wraps around the end of all offsets.                       *)
MCReads ==
  {[offset |-> o, count |-> c, align |-> a] : o \in {0, 3}, c \in {0, 2, 9, 14}, a \in {0, 1}}
  \cup {[offset |-> 510, count |-> 3, align |-> 0]}
MCFiles == [img |-> 16]
(* The second name fills the buffer for a partition's.                      *)
MCImageNames == {<<"i">>, <<"i", "m", "a", "g">>}

-----------------------------------------------------------------------------

(* Small volumes of every kind.                                             *)
Map(S, F(_)) == [s \in S |-> F(s)]
Places(from, n) == [i \in 1 .. n |-> from + i - 1]
At2(block) == <<<<block, 0>>, <<block, 1>>>>
Hole == <<<<0, 0>>, <<0, 0>>>>
Dir == [type |-> "dir", bytes |-> <<>>]
Reg(bytes) == [type |-> "reg", bytes |-> bytes]

(* ext2: a file with direct, indirect and doubly indirect blocks and       *)
(* holes, one with a tree of extents, links within the limit.              *)
Inode(type, size) ==
  [type |-> type, size |-> size, extents |-> FALSE, block |-> <<20, 0, 0>>, tree |-> 0, fast |-> TRUE,
   absolute |-> FALSE, dest |-> <<>>, dir |-> <<>>]
Ent(name, num) == [name |-> name, inode |-> num, known |-> TRUE, last |-> FALSE]
Link(dest) == [Inode("lnk", 2) EXCEPT !.dest = dest]
Ptrs(a, b) == [extent |-> FALSE, ptrs |-> <<a, b>>]
ExtentTree(depth, entries) == [extent |-> TRUE, depth |-> depth, entries |-> entries]

Ext2Inodes ==
  2 :> [Inode("dir", 2) EXCEPT !.dir = <<Ent(".", 2), Ent("..", 2), [Ent("gone", 5) EXCEPT !.inode = 0],
         Ent("a", 12), Ent("e", 13), Ent("d", 3), Ent("l", 14), Ent("m", 15), Ent("x", 16), Ent("far", 99),
         [Ent("end", 0) EXCEPT !.last = TRUE], Ent("hidden", 12)>>]
  @@ 3 :> [Inode("dir", 2) EXCEPT !.dir = <<Ent("..", 2), Ent("f", 17), Ent("k", 18), Ent("u", 19)>>]
  @@ 12 :> [Inode("reg", 13) EXCEPT !.block = <<21, 30, 31>>]
  @@ 13 :> [Inode("reg", 10) EXCEPT !.extents = TRUE,
              !.tree = ExtentTree(1, <<[first |-> 0, leaf |-> 33], [first |-> 3, leaf |-> 34]>>)]
  @@ 14 :> Link(<<"d", "f">>) @@ 15 :> [Link(<<"l">>) EXCEPT !.fast = FALSE] @@ 16 :> Link(<<"nothing">>)
  @@ 17 :> Inode("reg", 1) @@ 18 :> [Link(<<"a">>) EXCEPT !.absolute = TRUE]
  @@ 19 :> Inode("fifo", 0)
  @@ 99 :> Inode("reg", 1)

Ext2Files ==
  LET a == At2(21) \o At2(22) \o Hole \o At2(23) \o Hole \o At2(24) \o <<<<25, 0>>>>
      e == At2(40) \o At2(41) \o Hole \o At2(50) \o At2(51)
  IN <<>> :> Dir @@ <<"a">> :> Reg(a) @@ <<"e">> :> Reg(e) @@ <<"d">> :> Dir @@ <<"d", "..">> :> Dir
     @@ <<"l">> :> Reg(<<<<20, 0>>>>) @@ <<"m">> :> Reg(<<<<20, 0>>>>) @@ <<"d", "f">> :> Reg(<<<<20, 0>>>>)
     @@ <<"d", "k">> :> Reg(a)

Ext2Volume ==
  [kind |-> "ext2", good |-> TRUE,
   super |-> [magic |-> TRUE, dynamic |-> TRUE, features |-> TRUE, descriptors |-> TRUE],
   inodes |-> Ext2Inodes, files |-> Ext2Files,
   blocks |-> 30 :> Ptrs(22, 0) @@ 31 :> Ptrs(32, 35) @@ 32 :> Ptrs(23, 0) @@ 35 :> Ptrs(24, 25)
              @@ 33 :> ExtentTree(0, <<[first |-> 0, len |-> 2, start |-> 40]>>)
              @@ 34 :> ExtentTree(0, <<[first |-> 3, len |-> 2, start |-> 50]>>),
   paths |-> DOMAIN Ext2Files \cup {<<"x">>, <<"hidden">>, <<"d", "u">>, <<"far">>, <<"a", "f">>, <<"l", "x">>},
   faults |-> {<<"super", 0>>, <<"groups", 0>>, <<"block", 20>>, <<"block", 23>>, <<"block", 31>>, <<"block", 34>>}]

Ext2Others == {[Ext2Volume EXCEPT !.super[f] = FALSE, !.good = FALSE] :
                 f \in {"magic", "dynamic", "features", "descriptors"}}

(* FAT, with 7, 9 and 11 clusters: chains that go up and down, long names  *)
(* in order, out of order and left over from another file.                 *)
Lfn(start, id, sum, part) == [kind |-> "lfn", start |-> start, id |-> id, sum |-> sum, part |-> part]
Slot(kind, name, ext, sum, cluster, size) ==
  [kind |-> kind, name |-> name, ext |-> ext, sum |-> sum, cluster |-> cluster, size |-> size]
Blank == <<" ">>

FatSlots ==
  <<Slot("volume", <<"v">>, Blank, 0, 0, 0),
    Lfn(TRUE, 2, 1, <<"b">>), Lfn(FALSE, 1, 1, <<"a">>), Slot("file", <<"A", "~">>, <<"c">>, 1, 2, 20),
    Lfn(TRUE, 1, 3, <<"z">>), Slot("file", <<"g", " ">>, <<"h">>, 2, 4, 3),
    Lfn(TRUE, 2, 4, <<"y">>), Slot("dir", <<"d", " ">>, Blank, 4, 6, 0),
    Slot("deleted", <<"q">>, Blank, 0, 4, 1), [kind |-> "end"], Slot("file", <<"o">>, Blank, 0, 4, 1)>>
FatDir == <<Slot("dir", <<".">>, Blank, 0, 6, 0), Slot("file", <<"s", " ">>, Blank, 0, 4, 8)>>

Pack12(t) == FlattenSeq([i \in 1 .. Len(t) \div 2 |->
  LET a == t[2 * i - 1] b == t[2 * i] IN <<a % 256, a \div 256 + (b % 16) * 16, b \div 16>>])
Pack16(t) == FlattenSeq([i \in 1 .. Len(t) |-> <<t[i] % 256, t[i] \div 256>>])
Pack32(t) == FlattenSeq([i \in 1 .. Len(t) |->
  <<t[i] % 256, (t[i] \div 256) % 256, (t[i] \div 65536) % 256, t[i] \div 16777216 + 240>>])

Bpb(clusters, roots) ==
  [fats |-> 2, media |-> TRUE, sector |-> 8, per_cluster |-> 1, reserved |-> 1, per_fat |-> 6,
   total |-> 13 + (roots + 1) \div 2 + clusters, roots |-> roots, root_cluster |-> 7]

FatData(clusters, roots) == 8 * (13 + (roots + 1) \div 2)
FatFiles(clusters, roots) ==
  LET C(c) == Places(FatData(clusters, roots) + 8 * (c - 2), 8)
  IN <<>> :> Dir @@ <<<<"a", "b">>>> :> Reg(C(2) \o C(5) \o SubSeq(C(3), 1, 4))
     @@ <<<<"g", ".", "h">>>> :> Reg(SubSeq(C(4), 1, 3)) @@ <<<<"d">>>> :> Dir
     @@ <<<<"d">>, <<"s">>>> :> Reg(C(4))
FatNames == {<<<<"A", "~", ".", "c">>>>, <<<<"z">>>>, <<<<"o">>>>, <<<<"v">>>>, <<<<"g", ".", "h">>, <<"x">>>>}

FatVolume(clusters, roots, Pack(_), end, slots, root) ==
  [kind |-> "fat", good |-> TRUE, bpb |-> Bpb(clusters, roots),
   bytes |-> Pack(<<end, end, 5, end, end, 3, end, 8, 9, 10, end, end>>),
   slots |-> (6 :> FatDir) @@ slots, root |-> root,
   files |-> FatFiles(clusters, roots), paths |-> DOMAIN FatFiles(clusters, roots) \cup FatNames,
   faults |-> {<<"bpb", 0>>, <<"root", 0>>, <<"fat", 2>>, <<"cluster", 3>>, <<"cluster", 6>>, <<"cluster", 9>>}]
NoSlots == [c \in {} |-> <<>>]
Fat32Root ==
  7 :> SubSeq(FatSlots, 1, 2) @@ 8 :> SubSeq(FatSlots, 3, 4) @@ 9 :> SubSeq(FatSlots, 5, 6)
  @@ 10 :> SubSeq(FatSlots, 7, 8)
FatVolumes ==
  {FatVolume(7, 12, Pack12, 4095, NoSlots, FatSlots), FatVolume(9, 12, Pack16, 65535, NoSlots, FatSlots),
   FatVolume(12, 0, Pack32, 268435455, Fat32Root, <<>>)}
FatOthers == {[v EXCEPT !.bpb[f] = 0, !.good = FALSE] : v \in FatVolumes, f \in {"fats", "reserved", "per_cluster"}}

(* ISO9660, with and without Joliet.                                       *)
Record(len, dir, name, extent, size) ==
  [len |-> len, hidden |-> FALSE, special |-> FALSE, dir |-> dir, name |-> name, extent |-> extent, size |-> size]
Special(name, extent) == [Record(1, TRUE, name, extent, 8) EXCEPT !.special = TRUE]
NoRecord == Record(0, FALSE, <<>>, 0, 0)
IsoRecords ==
  5 :> (0 :> Special(<<".">>, 5) @@ 1 :> Special(<<".", ".">>, 5) @@ 2 :> Record(1, TRUE, <<"d">>, 6, 4)
        @@ 3 :> NoRecord @@ 4 :> Record(3, FALSE, <<"a", ".", ";", "1">>, 9, 6) @@ 7 :> NoRecord)
  @@ 6 :> (0 :> Special(<<".">>, 6) @@ 1 :> Special(<<".", ".">>, 5)
        @@ 2 :> [Record(1, FALSE, <<"h">>, 8, 3) EXCEPT !.hidden = TRUE] @@ 3 :> Record(1, FALSE, <<"b", ";", "2">>, 8, 3))
IsoFiles ==
  <<>> :> Dir @@ <<<<"d">>>> :> Dir @@ <<<<"d">>, <<".", ".">>>> :> Dir @@ <<<<"a">>>> :> Reg(Places(36, 6))
  @@ <<<<"d">>, <<"b", ";", "2">>>> :> Reg(Places(32, 3))
Primary(extent) == [type |-> "primary", joliet |-> FALSE, root |-> Special(<<".">>, extent)]
Supp(joliet, extent) == [type |-> "supplementary", joliet |-> joliet, root |-> Special(<<".">>, extent)]
EndDesc == [type |-> "end", joliet |-> FALSE, root |-> NoRecord]
BootDesc == [EndDesc EXCEPT !.type = "boot"]
IsoVolume(descriptors, good) ==
  [kind |-> "iso9660", good |-> good, descriptors |-> descriptors, records |-> IsoRecords, files |-> IsoFiles,
   paths |-> DOMAIN IsoFiles \cup {<<<<"h">>>>, <<<<"a">>, <<"x">>>>, <<<<"d">>, <<"h">>>>},
   faults |-> {<<"descriptor", 1>>, <<"extent", 6>>, <<"extent", 9>>}]
IsoVolumes ==
  {IsoVolume(<<Primary(5), EndDesc>>, TRUE), IsoVolume(<<BootDesc, Primary(6), Supp(FALSE, 6), Supp(TRUE, 5), EndDesc>>, TRUE),
   IsoVolume(<<Primary(5), Primary(5), EndDesc>>, FALSE), IsoVolume(<<EndDesc>>, FALSE),
   IsoVolume(<<Primary(5)>>, FALSE)}

(* TAR.                                                                    *)
Header(name, type, size) == [magic |-> TRUE, end |-> FALSE, name |-> name, type |-> type, size |-> size]
EndHeader == [Header(<<>>, "end", 0) EXCEPT !.end = TRUE]
TarVolume(headers, good) ==
  [kind |-> "tar", good |-> good, headers |-> headers,
   files |-> <<>> :> Dir @@ <<"d">> :> Dir @@ <<"d", "f">> :> Reg(Places(20, 6)) @@ <<"g">> :> Reg(Places(32, 3)),
   paths |-> {<<>>, <<"d">>, <<"d", "f">>, <<"g">>, <<"g", "x">>, <<"n">>},
   faults |-> {<<"header", 1>>, <<"header", 3>>}]
TarHeads == <<Header(<<>>, "dir", 0), Header(<<"d">>, "dir", 0), Header(<<"x">>, "pax", 3), Header(<<"d", "f">>, "reg", 6),
              Header(<<"g">>, "reg", 3), EndHeader>>
TarVolumes ==
  {TarVolume(TarHeads, TRUE), TarVolume(Front(TarHeads), FALSE),
   TarVolume(<<Header(<<"n", "f">>, "reg", 1), EndHeader>>, FALSE),
   TarVolume(<<[Header(<<"d">>, "dir", 0) EXCEPT !.magic = FALSE]>>, FALSE),
   TarVolume(<<Header(<<"d">>, "dir", 0), [EndHeader EXCEPT !.end = FALSE, !.magic = FALSE]>>, FALSE)}

MCVolumeSet == {Ext2Volume} \cup Ext2Others \cup FatVolumes \cup FatOthers \cup IsoVolumes \cup TarVolumes
MCFileReads == {[offset |-> o, count |-> c] : o \in {0, 1, 5, 9}, c \in {0, 1, 3, 4, 8, 13}}

-----------------------------------------------------------------------------

(* Small networks: under the BIOS one card, under EFI a card of each kind   *)
(* the loader passes over and two it takes, with servers of their own.      *)
PxeHost(loaded, installed) ==
  [platform |-> "bios", loaded |-> loaded, cards |-> <<[installed |-> installed, reply |-> "s1"]>>]
Card(reply, proxy, ack) ==
  [path |-> TRUE, protocol |-> TRUE, started |-> TRUE, ipv6 |-> FALSE, reply |-> reply, proxy |-> proxy, ack |-> ack]
EfiHost(loaded) ==
  [platform |-> "efi", loaded |-> loaded,
   cards |-> <<[Card("s1", "s2", "s2") EXCEPT !.path = FALSE], [Card("s1", "s2", "s2") EXCEPT !.protocol = FALSE],
               Card(NoServer, "s2", "s1"), [Card("s1", "s2", "s2") EXCEPT !.started = FALSE],
               [Card("s1", "s2", "s2") EXCEPT !.ipv6 = TRUE], Card(NoServer, NoServer, NoServer),
               Card(NoServer, NoServer, "s1")>>]
MCHosts == {PxeHost(1, TRUE), PxeHost(1, FALSE), PxeHost(0, TRUE), EfiHost(7), EfiHost(0)}

MCServerFiles == [s \in {"s1", "s2"} |-> IF s = "s1" THEN [f \in {"a", "b"} |-> IF f = "a" THEN 5 ELSE 3]
                                         ELSE [f \in {"a"} |-> 4]]
MCPacket == [s \in {"s1", "s2"} |-> 2]
MCNetRequests == [offset : {0, 1, 2, 3, 4}, count : {1, 2, 5}]

-----------------------------------------------------------------------------

VARIABLE level   \* the one under way; the others rest

DisksRest ==
  /\ machine = 0 /\ todo = <<>> /\ devices = <<>> /\ next_ids = [t \in DiskTypes |-> 0] /\ boot = 0
  /\ probing = <<>> /\ faults = 0 /\ phase = "rest" /\ last = [status |-> "none"]
VolumesRest ==
  volume = 0 /\ bad = {} /\ mount = Unmounted /\ symlinks = 0 /\ handle = Closed /\ answer = NoAnswer
FilesRest ==
  /\ scenario = 0 /\ handles = [h \in Ids |-> Unused] /\ held = [h \in Ids |-> 0] /\ envs = <<>> /\ created = 0
  /\ gz = InitState /\ work = Idle /\ done = NoRead

NetworkRests ==
  /\ host = 0 /\ net_up = FALSE /\ net_devices = <<>> /\ net_boot = 0
  /\ net_handles = [s \in 1 .. NetSlots |-> FreeSlot] /\ current_pxe_handle = 0 /\ tftp = NoTransfer
  /\ net_work = NoNetWork /\ net_answer = NoNetAnswer /\ net_faults = 0

StorageInit ==
  \/ level = "disks" /\ DiskInit /\ VolumesRest /\ FilesRest /\ NetworkRests
  \/ level = "volumes" /\ VolumeInit /\ DisksRest /\ FilesRest /\ NetworkRests
  \/ level = "files" /\ Init /\ DisksRest /\ VolumesRest /\ NetworkRests
  \/ level = "network" /\ NetworkInit /\ DisksRest /\ VolumesRest /\ FilesRest

StorageNext ==
  \/ level = "disks" /\ DiskNext /\ UNCHANGED <<level, volumeVars, vars, netVars>>
  \/ level = "volumes" /\ VolumeNext /\ UNCHANGED <<level, diskVars, vars, netVars>>
  \/ level = "files" /\ Next /\ UNCHANGED <<level, diskVars, volumeVars, netVars>>
  \/ level = "network" /\ NetworkNext /\ UNCHANGED <<level, diskVars, volumeVars, vars>>

storageVars == <<level, diskVars, volumeVars, vars, netVars>>

StorageSpec ==
  /\ StorageInit /\ [][StorageNext]_storageVars
  /\ level = "disks" => ProbeFairness
  /\ level = "files" => WF_vars(ReadStep)
=============================================================================
