------------------------------ MODULE Volumes --------------------------------
(***************************************************************************)
(* The filesystems (Ext2, Fat, Iso9660, Tar) behind fs_open() and          *)
(* fs_read(): a volume is mounted, and its files are opened and read in    *)
(* any order.  A volume also says what is on it: v.files gives for each    *)
(* path the type of what is there and the places of its bytes.             *)
(***************************************************************************)
EXTENDS Ext2, Fat, Iso9660, Tar

CONSTANTS
  VolumeSet,   \* [kind, files, paths, faults, and what the kind needs]
  FileReads    \* given to fs_read(): [offset, count]

VARIABLES
  volume,    \* the one on the device
  bad,       \* places of the device that cannot be read
  mount,     \* the result of mounting it
  symlinks,  \* symlink_count of the mount
  handle,    \* the file that is open: its path and what open returned
  answer     \* the last read

volumeVars == <<volume, bad, mount, symlinks, handle, answer>>

Unmounted == [status |-> "none", value |-> 0]
Closed == [path |-> <<>>, status |-> "closed", value |-> 0]
Answer(r, data) == [status |-> data.status, read |-> r, value |-> data.value]
NoAnswer == [status |-> "none", value |-> <<>>]

MountVolume(v) ==
  CASE v.kind = "ext2" -> ext2_mount(v, bad)
    [] v.kind = "fat" -> fat_mount(v, bad)
    [] v.kind = "iso9660" -> iso9660_mount(v, bad)
    [] v.kind = "tar" -> tar_mount(v, bad)

(* fs_open() on FAT and ISO9660, where nothing is followed.                *)
Look(v, dir, name) ==
  IF v.kind = "fat"
  THEN Then(fat_iterate(v, dir, name, bad), LAMBDA e : Ok(fat_open_entry(v, dir, e.slot)))
  ELSE Then(iso9660_iterate(v, dir, name, bad), LAMBDA r : Ok(iso9660_open_entry(dir, mount.value, r)))

RECURSIVE PlainWalk(_, _, _)
PlainWalk(v, from, names) ==
  IF names = <<>> THEN Ok(from)
  ELSE IF from.type # "dir" THEN Fail("not_dir")
  ELSE Then(Look(v, from, Head(names)), LAMBDA next : PlainWalk(v, next, Tail(names)))

FindPath(v, names) ==
  CASE v.kind = "ext2" -> Ext2Walk(v, names, EXT2_ROOT_INO, symlinks, bad)
    [] v.kind = "tar" -> TarWalk(mount.value, 1, names)
    [] OTHER -> PlainWalk(v, mount.value, names)

NodeType(v, node) ==
  CASE v.kind = "ext2" -> v.inodes[node].type
    [] v.kind = "tar" -> mount.value[node].type
    [] OTHER -> node.type

NodeSize(v, node) ==
  CASE v.kind = "ext2" -> v.inodes[node].size
    [] v.kind = "tar" -> mount.value[node].size
    [] OTHER -> node.size

ReadNodeData(v, node, count, offset) ==
  CASE v.kind = "ext2" -> ext2_read(v, v.inodes[node], count, offset, bad)
    [] v.kind = "fat" -> fat_read(v, node, count, offset, bad)
    [] v.kind = "iso9660" -> iso9660_read(node, count, offset, bad)
    [] v.kind = "tar" -> tar_read(mount.value[node], count, offset)

-----------------------------------------------------------------------------
VolumeInit ==
  /\ volume \in VolumeSet
  /\ bad \in {{}} \cup {{p} : p \in volume.faults}
  /\ mount = Unmounted
  /\ symlinks = 0
  /\ handle = Closed
  /\ answer = NoAnswer

Mount ==
  /\ mount.status = "none"
  /\ mount' = MountVolume(volume)
  /\ UNCHANGED <<volume, bad, symlinks, handle, answer>>

Open ==
  /\ mount.status = "success" /\ handle.status = "closed"
  /\ \E path \in volume.paths : \E r \in {FindPath(volume, path)} :
       /\ handle' = [path |-> path, status |-> r.status, value |-> r.value]
       /\ symlinks' = IF volume.kind = "ext2" THEN r.count ELSE symlinks
  /\ UNCHANGED <<volume, bad, mount, answer>>

Unset(node) == volume.kind = "ext2" /\ node = Garbage
IsOpen == handle.status = "success" /\ ~Unset(handle.value)

(* fs_read() checks the size; the filesystem does the rest.                *)
ReadFile ==
  /\ IsOpen /\ answer.status = "none"
  /\ NodeType(volume, handle.value) = "reg"
  /\ \E r \in FileReads :
       /\ r.offset + r.count <= NodeSize(volume, handle.value)
       /\ answer' = Answer(r, ReadNodeData(volume, handle.value, r.count, r.offset))
  /\ UNCHANGED <<volume, bad, mount, symlinks, handle>>

CloseFile ==
  /\ handle.status # "closed"
  /\ handle' = Closed
  /\ answer' = NoAnswer
  /\ UNCHANGED <<volume, bad, mount, symlinks>>

VolumeNext == Mount \/ Open \/ ReadFile \/ CloseFile

-----------------------------------------------------------------------------
(* On a device that can be read everywhere a volume mounts if it is one of *)
(* those the loader takes, and fs_open() finds exactly what is there, of   *)
(* the type it has, after any number of other opens, through links as well *)
(* (symlink_count) and by long and short names (next_dir_entry()).  An     *)
(* error is only ever reported for a path that is not there or a place     *)
(* that cannot be read, and no handle is returned with it.                 *)
OpenTrue ==
  /\ (mount.status # "none" /\ bad = {}) => (mount.status = "success" <=> volume.good)
  /\ handle.status = "success" =>
       /\ ~Unset(handle.value)
       /\ handle.path \in DOMAIN volume.files
       /\ NodeType(volume, handle.value) = volume.files[handle.path].type
  /\ (handle.status # "closed" /\ bad = {} /\ handle.path \in DOMAIN volume.files) => handle.status = "success"

(* A read that succeeds returns the bytes of the file at that offset, with *)
(* its holes as zeroes, wherever its blocks are (inode_block_to_raw(), the *)
(* cluster chain of fat_read()), and it succeeds on a device that can be   *)
(* read.                                                                   *)
ReadTrue ==
  answer.status # "none" =>
    LET bytes == volume.files[handle.path].bytes
        r == answer.read
    IN /\ answer.status = "success" => answer.value = SubSeq(bytes, r.offset + 1, r.offset + r.count)
       /\ bad = {} => answer.status = "success"
=============================================================================
