---------------------------- MODULE FileSystem ------------------------------
(***************************************************************************)
(* Files: source/fs.c, with the device and the directory of an environment *)
(* (source/config.c) and decompression (Decompress).                       *)
(*                                                                         *)
(* Handles are allocated objects with a reference count of their own.  A   *)
(* handle is an address here, taken and reused as malloc() would, so that  *)
(* a reference that outlives its handle is seen to reach another one.      *)
(***************************************************************************)
EXTENDS Decompress, FiniteSets

CONSTANTS
  COUNT_MOD,     \* the reference count of a handle is this wide: 2^8
  Tree,          \* directory -> name -> file or directory
  Root,          \* mounted device -> its root directory
  Shared,        \* devices whose filesystem opens an entry by taking a reference (TAR)
  Owner,         \* file or directory -> device
  RawSize,       \* file -> size on its filesystem
  Corrupt,       \* gzip files the decompressor may find an error in
  ImageHandle,   \* the handle a disk image is read through, 0 if there is no image
  MaxHandles,    \* number of handles there is room for
  Scenarios      \* what the users do, and how much of it: [paths, reads, held, envs], with
                 \*   paths  given to fs_open(): [device, absolute, names]
                 \*   reads  given to fs_read(): <<offset, count>>
                 \*   held   bound on the handles held by loaders and commands
                 \*   envs   bound on the environments ever created

VARIABLES
  scenario,  \* one of the Scenarios
  handles,   \* address -> handle
  held,      \* address -> references held by loaders and commands
  envs,      \* the chain of environments, the innermost being current
  created,   \* environments created so far
  gz,        \* the decompressor
  work,      \* the decompress_read() under way
  done       \* the last fs_read() of a loader or command

vars == <<scenario, handles, held, envs, created, gz, work, done>>

Ids == 1 .. MaxHandles
Unused == [node |-> NONE, count |-> 0, source |-> 0]
Idle == [handle |-> 0]
NoRead == [ok |-> FALSE]

IsDir(node) == node \in DOMAIN Tree
Compressed(t, h) == t[h].source # 0
SizeOf(t, h) ==
  IF ~Compressed(t, h) THEN RawSize[t[h].node]
  ELSE IF IsGzip(t[h].node) THEN OutSize(t[h].node) ELSE 1

(* The objects there are from the mount on: the root, and every entry of   *)
(* a filesystem that is read as a whole.                                   *)
Permanent(node) == node \in {Root[d] : d \in DOMAIN Root} \/ Owner[node] \in Shared
HandleOf(t, node) == CHOOSE h \in Ids : t[h].node = node /\ t[h].source = 0

FreeIds(t) == {h \in Ids : t[h] = Unused}
Fresh(t) == Min(FreeIds(t))

-----------------------------------------------------------------------------
(***************************************************************************)
(* fs_retain(), fs_close() and opening of an entry.                        *)
(***************************************************************************)
Retain(t, h) == [t EXCEPT ![h].count = (@ + 1) % COUNT_MOD]
Release(t, h) == IF t[h].count = 1 THEN [t EXCEPT ![h] = Unused] ELSE [t EXCEPT ![h].count = @ - 1]

(* fs_close(), with decompress_close() for the last reference to a         *)
(* compressed file.                                                        *)
LastReference(t, h) == Compressed(t, h) /\ t[h].count = 1
Close(t, h) ==
  IF LastReference(t, h) THEN Release(Release(t, h), t[h].source) ELSE Release(t, h)

Forget(z, t, h) == IF LastReference(t, h) /\ z.current = h THEN [z EXCEPT !.current = 0] ELSE z

OpenEntry(t, node) ==
  IF Permanent(node) THEN Retain(t, HandleOf(t, node))
  ELSE [t EXCEPT ![Fresh(t)] = [node |-> node, count |-> 1, source |-> 0]]
Opened(t, node) == IF Permanent(node) THEN HandleOf(t, node) ELSE Fresh(t)

(***************************************************************************)
(* fs_open(): the directories on the way are held only while the next      *)
(* entry is opened.  `fails' is the number of the entry that cannot be     *)
(* read, 0 if all can.                                                     *)
(***************************************************************************)
WalkStep(w, name) ==
  LET node == w.t[w.h].node IN
  IF w.status # "success" THEN w
  ELSE IF ~IsDir(node) THEN [w EXCEPT !.t = Release(w.t, w.h), !.status = "not_dir"]
  ELSE IF name = "." THEN [w EXCEPT !.n = @ + 1]
  ELSE IF name \notin DOMAIN Tree[node] \/ w.n = w.fails
       THEN [w EXCEPT !.t = Release(w.t, w.h), !.status = "not_found"]
  ELSE [t |-> Release(OpenEntry(w.t, Tree[node][name]), w.h),
        h |-> Opened(w.t, Tree[node][name]), status |-> "success", n |-> w.n + 1, fails |-> w.fails]

DeviceOf(env, path) == IF path.device = NONE THEN env.device ELSE path.device
From(t, env, path) ==
  IF path.absolute \/ path.device # NONE \/ env.directory = 0
  THEN HandleOf(t, Root[DeviceOf(env, path)])
  ELSE env.directory

Walk(t, env, path, fails) ==
  LET from == From(t, env, path) IN
  FoldLeft(WalkStep, [t |-> Retain(t, from), h |-> from, status |-> "success", n |-> 1, fails |-> fails], path.names)

(* post_open(): the required type.                                         *)
CheckType(w, dir) ==
  IF w.status = "success" /\ IsDir(w.t[w.h].node) # dir
  THEN [w EXCEPT !.t = Release(w.t, w.h), !.status = "wrong_type"]
  ELSE w

OpenPath(t, env, path, dir, fails) == CheckType(Walk(t, env, path, fails), dir)

-----------------------------------------------------------------------------
(***************************************************************************)
(* decompress_open().                                                      *)
(***************************************************************************)

(* fs_read() of a file's own bytes, into the payload buffer or elsewhere:  *)
(* what it does to the decompressor.                                       *)
RawRead(z, f, start, count, into) ==
  IF f \in DOMAIN Image
  THEN ReadImage(z, ImageHandle, Image[f].file, count, Image[f].base + start, into)
  ELSE [z |-> IF into THEN [z EXCEPT !.payload_buffer = Overwrite(@, 0, RawBytes(f, start, count))]
              ELSE z,
        bytes |-> RawBytes(f, start, count)]

(* The header is read into the payload buffer, which the handle that is    *)
(* current depends on.                                                     *)
ReadHeaderMutant(z, f) ==
  RawRead(z, f, 0, Min({RawSize[f], GZIP_HEADER}), TRUE).z
ReadHeader(z, f) ==
  RawRead([z EXCEPT !.current = 0], f, 0, Min({RawSize[f], GZIP_HEADER}), TRUE).z

(* Is there the magic number of a gzip file in the buffer? *)
HasMagic(z) == z.payload_buffer[0] \in {RawByte(g, 0) : g \in DOMAIN Stream}

(* The last bytes of the file, its size when decompressed. *)
ReadTrailer(z, f) == RawRead(z, f, RawSize[f] - 1, 1, FALSE).z

(* The handles loaders and commands hold. *)
HeldNow == FoldFunction(+, 0, held)

(* `error' is whether one of these reads fails or the header is not one    *)
(* that is supported: the file is then taken for one that is not           *)
(* compressed.                                                             *)
FsOpen(path, decompress, fails, error) ==
  LET w == OpenPath(handles, Last(envs), path, FALSE, fails)
      f == w.t[w.h].node
      z1 == ReadHeader(gz, f)
      wrap == Fresh(w.t)
  IN
  /\ work = Idle
  /\ DeviceOf(Last(envs), path) \in DOMAIN Root
  /\ Cardinality(FreeIds(handles)) >= Len(path.names) + 2
  /\ HeldNow < scenario.held
  /\ IF w.status # "success"
     THEN /\ ~error
          /\ handles' = w.t
          /\ UNCHANGED <<held, gz>>
     ELSE IF ~decompress
     THEN /\ ~error
          /\ handles' = w.t
          /\ held' = [held EXCEPT ![w.h] = @ + 1]
          /\ UNCHANGED gz
     ELSE IF error \/ ~HasMagic(z1)
     THEN /\ handles' = w.t
          /\ held' = [held EXCEPT ![w.h] = @ + 1]
          /\ gz' = z1
     ELSE /\ handles' = [w.t EXCEPT ![wrap] = [node |-> f, count |-> 1, source |-> w.h]]
          /\ held' = [held EXCEPT ![wrap] = @ + 1]
          /\ gz' = ReadTrailer(z1, f)
  /\ UNCHANGED <<scenario, envs, created, work, done>>

FsClose(h) ==
  /\ work = Idle
  /\ held[h] > 0
  /\ held' = [held EXCEPT ![h] = @ - 1]
  /\ handles' = Close(handles, h)
  /\ gz' = Forget(gz, handles, h)
  /\ UNCHANGED <<scenario, envs, created, work, done>>

-----------------------------------------------------------------------------
(***************************************************************************)
(* fs_read().                                                              *)
(***************************************************************************)
Finish(w, ok) ==
  [ok |-> ok, file |-> handles[w.handle].node, compressed |-> Compressed(handles, w.handle),
   start |-> w.start, bytes |-> w.bytes]

(* A file that is not compressed is read by its filesystem. *)
ReadPlain(h, offset, count) ==
  LET f == handles[h].node IN
  /\ work = Idle
  /\ held[h] > 0 /\ ~IsDir(f) /\ ~Compressed(handles, h)
  /\ offset + count <= SizeOf(handles, h)
  /\ LET r == RawRead(gz, f, offset, count, FALSE) IN
       /\ gz' = r.z
       /\ done' = Finish([handle |-> h, start |-> offset, bytes |-> r.bytes], TRUE)
  /\ UNCHANGED <<scenario, handles, held, envs, created, work>>

ReadBegin(h, offset, count) ==
  /\ work = Idle
  /\ held[h] > 0 /\ Compressed(handles, h)
  /\ offset + count <= SizeOf(handles, h)
  /\ gz' = Seek(gz, h, offset)
  /\ work' = [handle |-> h, offset |-> offset, count |-> count, start |-> offset, bytes |-> <<>>]
  /\ UNCHANGED <<scenario, handles, held, envs, created, done>>

(* An iteration of decompress_read().  It ends the call when all has been  *)
(* copied, when the source cannot be read, and when the decompressor       *)
(* reports an error.                                                       *)
Source == handles[work.handle].node
After == Deliver(gz, work.count, work.offset)
Bytes == work.bytes \o Copied(gz, work.count, work.offset)
Left == work.count - CopySize(gz, work.count, work.offset)

ReadDone ==
  /\ work # Idle
  /\ Left = 0
  /\ gz' = After
  /\ done' = Finish([work EXCEPT !.bytes = Bytes], TRUE)
  /\ work' = Idle
  /\ UNCHANGED <<scenario, handles, held, envs, created>>

ReadFails ==
  /\ work # Idle
  /\ Left # 0
  /\ AtBoundary(After)
  /\ gz' = After
  /\ done' = Finish([work EXCEPT !.bytes = Bytes], FALSE)
  /\ work' = Idle
  /\ UNCHANGED <<scenario, handles, held, envs, created>>

Refilled ==
  LET in == InSize(After, Source) IN
  IF ~AtBoundary(After) THEN After
  ELSE RawRead(After, Source, GZIP_HEADER + After.payload_offset, in, TRUE).z

ReadMore ==
  LET in == InSize(After, Source)
      out == OutRoom(After)
  IN
  /\ work # Idle
  /\ Left # 0
  /\ IsGzip(Source) /\ After.payload_offset < PayloadSize(Source)
  /\ gz' = Inflate(Refilled, Source, in, out)
  /\ work' = [work EXCEPT !.bytes = Bytes, !.count = Left,
                          !.offset = @ + CopySize(gz, work.count, work.offset)]
  /\ UNCHANGED <<scenario, handles, held, envs, created, done>>

InflateFails ==
  LET in == InSize(After, Source) IN
  /\ work # Idle
  /\ Left # 0
  /\ IsGzip(Source) /\ After.payload_offset < PayloadSize(Source)
  /\ Source \in Corrupt \/ ~Fits(Refilled, Source, in, OutRoom(After))
  /\ gz' = [Refilled EXCEPT !.current = 0]
  /\ done' = Finish([work EXCEPT !.bytes = Bytes], FALSE)
  /\ work' = Idle
  /\ UNCHANGED <<scenario, handles, held, envs, created>>

-----------------------------------------------------------------------------
(***************************************************************************)
(* Environments: environ_create(), environ_destroy(), environ_set_device() *)
(* and environ_set_directory() of the `cd' command.                        *)
(***************************************************************************)
Top == Len(envs)

EnvCreate ==
  LET parent == Last(envs) IN
  /\ work = Idle
  /\ created < scenario.envs
  /\ created' = created + 1
  /\ envs' = Append(envs, parent)
  /\ handles' = IF parent.directory = 0 THEN handles ELSE Retain(handles, parent.directory)
  /\ UNCHANGED <<scenario, held, gz, work, done>>

(* The directory is not closed. *)
EnvDestroy ==
  /\ work = Idle
  /\ Top > 1
  /\ envs' = Front(envs)
  /\ UNCHANGED <<scenario, handles, held, created, gz, work, done>>

CloseDirectory(t, env) == IF env.directory = 0 THEN t ELSE Release(t, env.directory)

WithDevice(env, device) == [device |-> device, directory |-> 0]

SetDevice(device) ==
  /\ work = Idle
  /\ handles' = CloseDirectory(handles, Last(envs))
  /\ envs' = [envs EXCEPT ![Top] = WithDevice(@, device)]
  /\ UNCHANGED <<scenario, held, created, gz, work, done>>

(* The old directory is closed first, then a reference is taken.           *)
SetDirectoryMutant(t, env, h) == CloseDirectory(t, env)
SetDirectory(t, env, h) == Retain(CloseDirectory(t, env), h)

Cd(path, fails) ==
  LET env == Last(envs)
      w == OpenPath(handles, env, path, TRUE, fails)
      sameDevice == Owner[w.t[w.h].node] = env.device
  IN
  /\ work = Idle
  /\ DeviceOf(env, path) \in DOMAIN Root
  /\ Cardinality(FreeIds(handles)) >= Len(path.names) + 1
  /\ IF w.status # "success"
     THEN handles' = w.t /\ UNCHANGED envs
     ELSE IF ~sameDevice
     THEN handles' = Release(w.t, w.h) /\ UNCHANGED envs
     ELSE /\ handles' = Release(SetDirectory(w.t, env, w.h), w.h)
          /\ envs' = [envs EXCEPT ![Top].directory = w.h]
  /\ UNCHANGED <<scenario, held, created, gz, work, done>>

-----------------------------------------------------------------------------
(* Everything is mounted, the first device is the boot device, and a disk  *)
(* image is registered if there is one.                                    *)
ImageFile == Image[CHOOSE f \in DOMAIN Image : TRUE].file
PermanentNodes == {n \in DOMAIN Owner : Permanent(n)}

Mounted(seq) ==
  [h \in Ids |->
     IF h <= Len(seq) THEN [node |-> seq[h], count |-> 1, source |-> 0]
     ELSE IF h = ImageHandle THEN [node |-> ImageFile, count |-> 1, source |-> h + 1]
     ELSE IF ImageHandle # 0 /\ h = ImageHandle + 1 THEN [node |-> ImageFile, count |-> 1, source |-> 0]
     ELSE Unused]

Init ==
  /\ scenario \in Scenarios
  /\ handles = Mounted(SetToSeq(PermanentNodes))
  /\ held = [h \in Ids |-> 0]
  /\ \E device \in DOMAIN Root : envs = <<[device |-> device, directory |-> 0]>>
  /\ created = 1
  /\ gz = InitState
  /\ work = Idle
  /\ done = NoRead

(* What is in the tree is owned, and a disk image is a file that was       *)
(* opened after everything was mounted.                                    *)
ASSUME FileSystemAssumption ==
  /\ COUNT_MOD \in Nat /\ MaxHandles \in Nat
  /\ IsFiniteSet(DOMAIN Owner) /\ NONE \notin DOMAIN Owner
  /\ \A d \in DOMAIN Root : Root[d] \in DOMAIN Owner
  /\ \A n \in DOMAIN Tree : \A name \in DOMAIN Tree[n] : Tree[n][name] \in DOMAIN Owner
  /\ Cardinality(PermanentNodes) <= MaxHandles
  /\ ImageHandle # 0 => /\ ImageHandle \in Cardinality(PermanentNodes) + 1 .. MaxHandles - 1
                        /\ ImageFile \in DOMAIN Owner \ PermanentNodes
  /\ \A s \in Scenarios : \A path \in s.paths : path.names \in Seq(STRING)
  /\ \A f \in DOMAIN Image : Image[f].file \in DOMAIN Stream
  /\ \A f \in DOMAIN Stream : Stream[f] \in Seq(Nat) \ {<<>>} /\ Ahead[f] \in [1 .. Len(Stream[f]) -> Nat]

ReadStep == ReadDone \/ ReadFails \/ ReadMore \/ InflateFails

Next ==
  \/ \E path \in scenario.paths, fails \in 0 .. 1, decompress, error \in BOOLEAN :
       FsOpen(path, decompress, fails, error)
  \/ \E h \in Ids : FsClose(h)
  \/ \E h \in Ids, r \in scenario.reads : ReadPlain(h, r[1], r[2]) \/ ReadBegin(h, r[1], r[2])
  \/ ReadStep
  \/ EnvCreate
  \/ EnvDestroy
  \/ \E device \in {Owner[n] : n \in DOMAIN Owner} : SetDevice(device)
  \/ \E path \in scenario.paths, fails \in 0 .. 1 : Cd(path, fails)

Spec == Init /\ [][Next]_vars /\ WF_vars(ReadStep)

-----------------------------------------------------------------------------
(***************************************************************************)
(* Properties.                                                             *)
(***************************************************************************)

(* The references there are to a handle. *)
References(h) ==
  held[h]
    + Cardinality({i \in 1 .. Len(envs) : envs[i].directory = h})
    + Cardinality({w \in Ids : handles[w].source = h})
    + Cardinality({n \in PermanentNodes : handles[h].node = n /\ handles[h].source = 0})
    + (IF h = ImageHandle THEN 1 ELSE 0)

(* No handle is freed under someone who still has it: it counts at least   *)
(* the references of mounts, environments, loaders and commands, and of    *)
(* compressed files to their source, and the decompressor is that of a     *)
(* handle that is open.  And the directory of an environment, from which   *)
(* fs_open() starts on the mount of the device, is a directory of that     *)
(* device, whatever `cd' and `device' commands came before and in          *)
(* whichever environments.                                                 *)
NoDangling ==
  /\ \A h \in Ids : References(h) <= handles[h].count
  /\ gz.current # 0 => Compressed(handles, gz.current)
  /\ \A i \in 1 .. Len(envs) : envs[i].directory # 0 =>
       LET node == handles[envs[i].directory].node IN IsDir(node) /\ Owner[node] = envs[i].device

(* A read that succeeds returns the data of the file that was opened,      *)
(* whatever else has been opened, read, closed or has failed since.        *)
ReadCorrect ==
  done.ok =>
    \A k \in 1 .. Len(done.bytes) :
      done.bytes[k] = IF done.compressed THEN OutByte(done.file, done.start + k - 1)
                      ELSE RawByte(done.file, done.start + k - 1)

(* decompress_read() asserts that there is input left whenever it needs    *)
(* more output.                                                            *)
InputLeft ==
  work # Idle /\ Left # 0 => After.payload_offset < PayloadSize(Source)

(* Every read of a compressed file comes to an end, with its data, with an *)
(* error or at the assertion above: each turn of the loop takes input or   *)
(* gives output, whatever the dictionary, the input buffer and the bytes   *)
(* the decompressor has taken ahead, so the loop never spins.              *)
ReadsEnd == work # Idle ~> work = Idle \/ ~InputLeft
=============================================================================
