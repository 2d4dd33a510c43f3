--------------------------------- MODULE Fat ---------------------------------
(***************************************************************************)
(* source/fs/fat.c.  A volume v is                                         *)
(*   v.bpb     [fats, media, sector, per_cluster, total, reserved,         *)
(*              per_fat, roots, root_cluster], as far as it is looked at   *)
(*   v.bytes   the file allocation table, byte by byte                     *)
(*   v.root    slots of the root directory of FAT12 and FAT16              *)
(*   v.slots   cluster -> its slots, for clusters of directories           *)
(* A slot is a directory entry: [kind, ...], of kind "end", "deleted",     *)
(* "unknown", "lfn", "volume", "file" or "dir".                            *)
(***************************************************************************)
EXTENDS Integers, Sequences, SequencesExt, FiniteSets, Outcome

CONSTANTS
  FAT_SECTORS,     \* sector sizes that are accepted
  FAT12_CLUSTERS,  \* fewer clusters than this is FAT12: 4085
  FAT16_CLUSTERS,  \* fewer than this is FAT16: 65525
  FAT_ENTRY,       \* bytes of a directory entry: 32
  FAT_LFN_MAX      \* LFN sequence numbers are below this: 32

IsPow2(n) == \E k \in 0 .. 16 : n = 2^k
FatRoundUp(n, m) == ((n + m - 1) \div m) * m

(***************************************************************************)
(* fat_mount(): the geometry, in sectors, and the type that follows from   *)
(* the number of clusters.                                                 *)
(***************************************************************************)
FatGeometry(b) ==
  LET root == b.reserved + b.per_fat * b.fats
      roots == FatRoundUp(b.roots * FAT_ENTRY, b.sector) \div b.sector
      data == root + roots
      clusters == (b.total - data) \div b.per_cluster
      type == IF clusters < FAT12_CLUSTERS THEN 12 ELSE IF clusters < FAT16_CLUSTERS THEN 16 ELSE 32
  IN [cluster |-> b.sector * b.per_cluster, clusters |-> clusters, type |-> type,
      end |-> CASE type = 12 -> 4088 [] type = 16 -> 65528 [] type = 32 -> 268435448,
      fat |-> b.reserved * b.sector, root |-> root * b.sector, data |-> data * b.sector,
      root_cluster |-> IF type = 32 THEN b.root_cluster ELSE 0]

FatLooksRight(b) ==
  /\ b.fats # 0 /\ b.media
  /\ b.sector \in FAT_SECTORS
  /\ b.per_cluster # 0 /\ IsPow2(b.sector * b.per_cluster)
  /\ b.reserved # 0

(***************************************************************************)
(* Following a chain of clusters.  An entry of the table has 12, 16 or 32  *)
(* bits, those of FAT12 being packed two to three bytes.                   *)
(***************************************************************************)
Word(bytes, at, n) ==
  LET B(i) == IF i < n /\ at + i < Len(bytes) THEN bytes[at + i + 1] ELSE 0
  IN B(0) + B(1) * 256 + B(2) * 65536 + (B(3) % 16) * 16777216

FatEntryMutant(v, g, c) ==
  CASE g.type = 12 -> Word(v.bytes, c + c \div 2, 2) % 4096
    [] g.type = 16 -> Word(v.bytes, c * 2, 2)
    [] g.type = 32 -> Word(v.bytes, c * 4, 4)

FatEntry(v, g, c) ==
  CASE g.type = 12 -> LET w == Word(v.bytes, c + c \div 2, 2)
                      IN IF c % 2 = 1 THEN w \div 16 ELSE w % 4096
    [] g.type = 16 -> Word(v.bytes, c * 2, 2)
    [] g.type = 32 -> Word(v.bytes, c * 4, 4)

(* The cluster after c.                                                    *)
NextCluster(v, g, c, bad) ==
  LET e == FatEntry(v, g, c)
  IN IF <<"fat", c>> \in bad THEN Fail("device_error")
     ELSE IF e >= g.end THEN Fail("end_of_file")
     ELSE IF e < 2 \/ e >= g.clusters THEN Fail("corrupt_fs")
     ELSE Ok(e)

(* fat_read(): the bytes, each as its place on the device.                 *)
RECURSIVE FatChain(_, _, _, _, _, _, _)
FatChain(v, g, logical, physical, count, offset, bad) ==
  LET skip == offset % g.cluster
      part == IF logical < offset \div g.cluster THEN 0
              ELSE IF count < g.cluster - skip THEN count ELSE g.cluster - skip
      here == [i \in 1 .. part |-> g.data + g.cluster * (physical - 2) + skip + i - 1]
  IN IF count = 0 THEN Ok(<<>>)
     ELSE IF part # 0 /\ <<"cluster", physical>> \in bad THEN Fail("device_error")
     ELSE IF part = count THEN Ok(here)
     ELSE Then(NextCluster(v, g, physical, bad), LAMBDA next :
            Then(FatChain(v, g, logical + 1, next, count - part, offset + part, bad), LAMBDA rest : Ok(here \o rest)))

fat_read(v, node, count, offset, bad) ==
  LET g == FatGeometry(v.bpb)
  IN IF node.cluster = 0
     THEN IF <<"root", 0>> \in bad THEN Fail("device_error")
          ELSE Ok([i \in 1 .. count |-> g.root + offset + i - 1])
     ELSE FatChain(v, g, 0, node.cluster, count, offset, bad)

(***************************************************************************)
(* next_dir_entry().  What is at a place of the device, as a slot.         *)
(***************************************************************************)
SlotAt(v, place) ==
  LET g == FatGeometry(v.bpb)
      c == (place - g.data) \div g.cluster + 2
      i == ((place - g.data) % g.cluster) \div FAT_ENTRY + 1
      r == (place - g.root) \div FAT_ENTRY + 1
  IN IF place < g.data THEN IF r <= Len(v.root) THEN v.root[r] ELSE [kind |-> "end"]
     ELSE IF c \in DOMAIN v.slots THEN v.slots[c][i] ELSE [kind |-> "end"]

NoLfn == [seq |-> 0, num |-> 0, sum |-> 0, parts |-> <<>>]

(* parse_long_name(): parts come last first, under one checksum.           *)
parse_long_name(l, s) ==
  LET first == [seq |-> s.id, num |-> s.id, sum |-> s.sum, parts |-> [i \in 1 .. s.id |-> ""]]
      use == IF s.start THEN first ELSE l
      wrong == IF s.start THEN l.num # 0 \/ s.id >= FAT_LFN_MAX \/ s.id = 0
               ELSE l.num = 0 \/ s.id # l.seq \/ s.sum # l.sum
  IN IF wrong THEN NoLfn
     ELSE [use EXCEPT !.seq = @ - 1, !.parts = [@ EXCEPT ![use.seq] = s.part]]

(* Whether the long name read so far is the entry's.                       *)
LfnBelongs(l, s) == l.num # 0 /\ l.seq = 0 /\ l.sum = s.sum

RECURSIVE TrimEnd(_)
TrimEnd(s) == IF s # <<>> /\ Last(s) = " " THEN TrimEnd(Front(s)) ELSE s

(* parse_short_name(): blanks are dropped from name and extension, and the *)
(* dot if no extension is left.                                            *)
parse_short_name(s) ==
  LET name == IF s.kind = "volume" THEN s.name ELSE Append(TrimEnd(s.name), ".")
      all == TrimEnd(name \o s.ext)
  IN IF s.kind # "volume" /\ Len(all) = Len(name) /\ Len(name) > 1 THEN Front(all) ELSE all

EntryName(l, s) == IF LfnBelongs(l, s) THEN FlattenSeq(l.parts) ELSE parse_short_name(s)

(* The end of the directory's clusters is the end of its entries.          *)
FatSlot(raw, Slot(_)) ==
  IF Succeeds(raw) THEN Slot(raw.value[1])
  ELSE [status |-> IF raw.status = "end_of_file" THEN "success" ELSE raw.status, value |-> <<>>]

(* The entries of a directory from slot idx on, files, directories and     *)
(* volume labels, up to the end or to the first that cannot be read.       *)
RECURSIVE FatEntries(_, _, _, _, _)
FatEntries(v, dir, idx, lfn, bad) ==
  FatSlot(fat_read(v, dir, FAT_ENTRY, idx * FAT_ENTRY, bad), LAMBDA place :
    LET s == SlotAt(v, place)
        from(l) == FatEntries(v, dir, idx + 1, l, bad)
    IN CASE s.kind = "end" -> Ok(<<>>)
         [] s.kind \in {"unknown", "deleted"} -> from(lfn)
         [] s.kind = "lfn" -> from(parse_long_name(lfn, s))
         [] OTHER -> [from(NoLfn) EXCEPT !.value = <<[name |-> EntryName(lfn, s), slot |-> s]>> \o @])

(* fat_iterate() and get_volume_label() stop at what they look for: the    *)
(* first entry of that kind for which Wanted(e) holds.                     *)
FirstOf(all, found) ==
  IF found # <<>> THEN Ok(Head(found)) ELSE IF Succeeds(all) THEN Fail("not_found") ELSE Fail(all.status)

FirstEntry(v, dir, Wanted(_), bad) ==
  LET all == FatEntries(v, dir, 0, NoLfn, bad) IN FirstOf(all, SelectSeq(all.value, Wanted))

fat_iterate(v, dir, name, bad) ==
  FirstEntry(v, dir, LAMBDA e : e.slot.kind # "volume" /\ e.name = name, bad)

get_volume_label(v, root, bad) == FirstEntry(v, root, LAMBDA e : e.slot.kind = "volume", bad)

FatRoot(v) ==
  LET g == FatGeometry(v.bpb)
  IN [type |-> "dir", size |-> g.data - g.root, cluster |-> g.root_cluster]

Labelled(label, root) == IF label.status \in {"success", "not_found"} THEN Ok(root) ELSE label

fat_mount(v, bad) ==
  IF <<"bpb", 0>> \in bad THEN Fail("device_error")
  ELSE IF ~FatLooksRight(v.bpb) THEN Fail("unknown_fs")
  ELSE Labelled(get_volume_label(v, FatRoot(v), bad), FatRoot(v))

(* fat_open_entry(): the directory itself and the root are open already,   *)
(* and are known by their first cluster.                                   *)
fat_open_entry(v, owner, s) ==
  IF s.cluster = owner.cluster THEN owner
  ELSE IF s.cluster = FatRoot(v).cluster THEN FatRoot(v)
  ELSE [type |-> IF s.kind = "dir" THEN "dir" ELSE "reg", size |-> s.size, cluster |-> s.cluster]
=============================================================================
