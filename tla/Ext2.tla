-------------------------------- MODULE Ext2 ---------------------------------
(***************************************************************************)
(* source/fs/ext2.c.  A volume v is what ext2_mount() finds on the device: *)
(*   v.super    [magic, dynamic, incompat, desc_ok]                        *)
(*   v.inodes   number -> [type, size, extents, block, fast, dest, dir]    *)
(*   v.blocks   block number -> pointers, or an extent tree's node         *)
(* A link's destination and a directory's entries are given with the inode *)
(* (the data they are read from is looked up all the same).  `bad' is the  *)
(* set of places on the device that cannot be read.                        *)
(***************************************************************************)
EXTENDS Integers, Sequences, SequencesExt, FiniteSets, Outcome

CONSTANTS
  EXT2_BLOCK,          \* bytes in a block
  EXT2_NDIR_BLOCKS,    \* direct blocks of an inode: 12
  EXT2_PER_BLOCK,      \* block numbers in a block
  EXT2_SYMLINK_LIMIT,  \* 8
  EXT2_GROUPS          \* inode numbers beyond this are in no group

EXT2_ROOT_INO == 2
Garbage == -1   \* what a handle variable holds that was never set

(* read_raw_block(): the pointers or the tree node in a block.             *)
ReadNode(v, num, bad) ==
  IF <<"block", num>> \in bad THEN Fail("device_error")
  ELSE IF num \in DOMAIN v.blocks THEN Ok(v.blocks[num])
  ELSE Ok([extent |-> FALSE, ptrs |-> [i \in 1 .. EXT2_PER_BLOCK |-> 0]])

(***************************************************************************)
(* The block a block of a file is in, 0 if the file has none there.        *)
(***************************************************************************)
(* The last entry of a node that starts at the block or before it.         *)
Covering(entries, block) ==
  LET later == {i \in 1 .. Len(entries) : block < entries[i].first}
  IN IF later = {} THEN Len(entries) ELSE (CHOOSE i \in later : \A j \in later : i <= j) - 1

RECURSIVE find_leaf_extent(_, _, _, _)
find_leaf_extent(v, node, block, bad) ==
  LET i == Covering(node.entries, block)
  IN IF ~node.extent THEN Fail("corrupt_fs")
     ELSE IF node.depth = 0 THEN Ok(node)
     ELSE IF i = 0 THEN Fail("corrupt_fs")
     ELSE Then(ReadNode(v, node.entries[i].leaf, bad), LAMBDA child : find_leaf_extent(v, child, block, bad))

InExtent(extent, block) ==
  IF block - extent.first < extent.len THEN block - extent.first + extent.start ELSE 0

ExtentToRaw(v, inode, block, bad) ==
  Then(find_leaf_extent(v, inode.tree, block, bad),
       LAMBDA leaf : LET i == Covering(leaf.entries, block)
                     IN IF i = 0 THEN Fail("corrupt_fs") ELSE Ok(InExtent(leaf.entries[i], block)))

Indirect(v, num, index, bad) ==
  IF num = 0 THEN Ok(0) ELSE Then(ReadNode(v, num, bad), LAMBDA node : Ok(node.ptrs[index + 1]))

BlockMap(v, inode, block, bad) ==
  LET ind == block - EXT2_NDIR_BLOCKS
      dind == ind - EXT2_PER_BLOCK
  IN IF block < EXT2_NDIR_BLOCKS THEN Ok(inode.block[block + 1])
     ELSE IF ind < EXT2_PER_BLOCK THEN Indirect(v, inode.block[EXT2_NDIR_BLOCKS + 1], ind, bad)
     ELSE IF dind < EXT2_PER_BLOCK * EXT2_PER_BLOCK
     THEN Then(Indirect(v, inode.block[EXT2_NDIR_BLOCKS + 2], dind \div EXT2_PER_BLOCK, bad),
               LAMBDA num : Indirect(v, num, dind % EXT2_PER_BLOCK, bad))
     ELSE Fail("not_supported")

inode_block_to_raw(v, inode, block, bad) ==
  IF inode.extents THEN ExtentToRaw(v, inode, block, bad) ELSE BlockMap(v, inode, block, bad)

(* read_inode_block(): a block the file has none for reads as zeroes.      *)
read_inode_block(v, inode, num, offset, count, bad) ==
  IF num >= (inode.size + EXT2_BLOCK - 1) \div EXT2_BLOCK THEN Fail("end_of_file")
  ELSE Then(inode_block_to_raw(v, inode, num, bad),
            LAMBDA raw : IF raw = 0 THEN Ok([i \in 1 .. count |-> <<0, 0>>])
                         ELSE IF <<"block", raw>> \in bad THEN Fail("device_error")
                         ELSE Ok([i \in 1 .. count |-> <<raw, offset + i - 1>>]))

RECURSIVE ext2_read(_, _, _, _, _)
ext2_read(v, inode, count, offset, bad) ==
  LET skip == offset % EXT2_BLOCK
      part == IF count < EXT2_BLOCK - skip THEN count ELSE EXT2_BLOCK - skip
  IN IF count = 0 THEN Ok(<<>>)
     ELSE Then(read_inode_block(v, inode, offset \div EXT2_BLOCK, skip, part, bad),
               LAMBDA first : Then(ext2_read(v, inode, count - part, offset + part, bad), LAMBDA rest : Ok(first \o rest)))

(***************************************************************************)
(* ext2_iterate(): the entries a directory shows, in order.  An entry that *)
(* is not used and has no length ends it.                                  *)
(***************************************************************************)
Shown(e) == e.inode # 0 /\ e.known /\ e.name # ""

RECURSIVE Listed(_)
Listed(entries) ==
  IF entries = <<>> THEN <<>>
  ELSE IF Shown(Head(entries)) THEN <<Head(entries)>> \o Listed(Tail(entries))
  ELSE IF Head(entries).last THEN <<>> ELSE Listed(Tail(entries))

ext2_iterate(v, num, bad) ==
  Then(ext2_read(v, v.inodes[num], v.inodes[num].size, 0, bad), LAMBDA data : Ok(Listed(v.inodes[num].dir)))

(***************************************************************************)
(* open_inode() and fs_open() call each other to follow links.  The result *)
(* carries symlink_count, which the mount keeps.                           *)
(***************************************************************************)
Result(s, node, count) == [status |-> s, value |-> node, count |-> count]
Counted(r, count) == Result(r.status, r.value, count)

ReadLink(v, inode, bad) == IF inode.fast THEN Ok(inode.dest) ELSE ext2_read(v, inode, inode.size, 0, bad)

(* The count goes back down whatever became of the link.                   *)
FollowedMutant(r) == IF Succeeds(r) THEN [r EXCEPT !.count = @ - 1] ELSE r
Followed(r) == [r EXCEPT !.count = @ - 1]

(* An inode that cannot be read returns "false", which is STATUS_SUCCESS,  *)
(* and sets no handle.                                                     *)
RECURSIVE open_inode(_, _, _, _, _), Ext2Walk(_, _, _, _, _)
open_inode(v, id, owner, count, bad) ==
  LET inode == v.inodes[id]
  IN IF id > EXT2_GROUPS THEN Result("corrupt_fs", 0, count)
     ELSE IF <<"inode", id>> \in bad THEN Result("success", Garbage, count)
     ELSE CASE inode.type \in {"reg", "dir"} -> Result("success", id, count)
            [] inode.type = "lnk" ->
                 Then(Counted(ReadLink(v, inode, bad), count), LAMBDA link :
                   IF count >= EXT2_SYMLINK_LIMIT THEN Result("symlink_limit", 0, count + 1)
                   ELSE Followed(Ext2Walk(v, inode.dest, IF inode.absolute THEN EXT2_ROOT_INO ELSE owner, count + 1, bad)))
            [] OTHER -> Result("not_supported", 0, count)

(* ext2_open_entry(): the directory itself and the root are open already.  *)
ext2_open_entry(v, num, owner, count, bad) ==
  IF num \in {owner, EXT2_ROOT_INO} THEN Result("success", num, count)
  ELSE open_inode(v, num, owner, count, bad)

ThenIn(r, Rest(_)) == IF Succeeds(r) /\ r.value # Garbage THEN Rest(r) ELSE r

Ext2Walk(v, names, from, count, bad) ==
  IF names = <<>> THEN Result("success", from, count)
  ELSE IF v.inodes[from].type # "dir" THEN Result("not_dir", 0, count)
  ELSE Then(Counted(ext2_iterate(v, from, bad), count), LAMBDA list :
         LET found == SelectSeq(list, LAMBDA e : e.name = Head(names))
         IN IF found = <<>> THEN Result("not_found", 0, count)
            ELSE ThenIn(ext2_open_entry(v, Head(found).inode, from, count, bad),
                        LAMBDA next : Ext2Walk(v, Tail(names), next.value, next.count, bad)))

(* ext2_mount(): what it checks, and the root it opens.                    *)
ext2_mount(v, bad) ==
  IF <<"super", 0>> \in bad THEN Fail("device_error")
  ELSE IF ~v.super.magic THEN Fail("unknown_fs")
  ELSE IF ~v.super.dynamic \/ ~v.super.features THEN Fail("not_supported")
  ELSE IF ~v.super.descriptors THEN Fail("corrupt_fs")
  ELSE IF <<"groups", 0>> \in bad THEN Fail("device_error")
  ELSE open_inode(v, EXT2_ROOT_INO, 0, 0, bad)
=============================================================================
