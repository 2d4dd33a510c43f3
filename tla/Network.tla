------------------------------ MODULE Network --------------------------------
(***************************************************************************)
(* Files from a TFTP server: source/net.c with PXE under the BIOS          *)
(* (platform/bios/pxe.c) and the PXE base code of EFI                      *)
(* (platform/efi/net.c).  A PXE firmware has one transfer at a time, which *)
(* only goes forward, packet by packet, and all handles share it; one of   *)
(* EFI only transfers whole files.  Reading a packet is a step.            *)
(***************************************************************************)
EXTENDS Integers, Sequences, FiniteSets, SequencesExt

CONSTANTS
  Hosts,         \* [platform, cards, loaded]: network cards in order, the one booted from or 0
  ServerFiles,   \* server -> file -> its size
  PACKET,        \* server -> the size of a packet it agrees to
  NetRequests,   \* given to fs_read(): [offset, count]
  NetSlots,      \* bound on the handles open at a time
  MaxNetFaults   \* bound on the calls of the firmware that fail

(* Of fs_read() and of a server: what their types allow.  A PXE firmware   *)
(* has loaded this program from the server its reply names.                *)
ASSUME NetworkAssumption ==
  /\ NetRequests \subseteq [offset : Nat, count : Nat]
  /\ \A s \in DOMAIN ServerFiles : PACKET[s] \in Nat \ {0}
  /\ \A h \in Hosts : h.platform = "bios" => h.cards[1].reply \in DOMAIN ServerFiles

VARIABLES
  host,                \* the machine
  net_up,              \* the devices have been looked for
  net_devices,         \* those that are registered, in order: [card, server]
  net_boot,            \* boot_device, if it is one of them, or 0
  net_handles,         \* open files by slot
  current_pxe_handle,  \* the slot of the transfer under way, or 0
  tftp,                \* the firmware's transfer, or NoTransfer
  net_work,            \* pxe_fs_read() under way, or NoNetWork
  net_answer,          \* the last call: [op, status, ...]
  net_faults           \* how many calls have failed

netVars == <<host, net_up, net_devices, net_boot, net_handles, current_pxe_handle, tftp, net_work, net_answer,
             net_faults>>

NoServer == "none"
NoTransfer == [next |-> -1]
NoNetWork == [handle |-> 0]
NoNetAnswer == [op |-> "none", status |-> "none"]
FreeSlot == [device |-> 0, file |-> "none"]
ServerOf(h) == net_devices[h.device].server
NetSize(h) == ServerFiles[ServerOf(h)][h.file]

-----------------------------------------------------------------------------
(***************************************************************************)
(* Registration.  pxe_init() also keeps the firmware's memory from being   *)
(* used, which is Memory's memory_protect().                               *)
(***************************************************************************)
net_device_register(card, server) == [card |-> card, server |-> server]

pxe_init ==
  /\ host.platform = "bios" /\ ~net_up
  /\ net_up' = TRUE
  /\ net_devices' = IF host.loaded = 1 /\ host.cards[1].installed
                    THEN <<net_device_register(1, host.cards[1].reply)>> ELSE <<>>
  /\ net_boot' = Len(net_devices')
  /\ UNCHANGED <<host, net_handles, current_pxe_handle, tftp, net_work, net_answer, net_faults>>

(* The first answer the firmware has kept, of three.                       *)
ConfigServer(card) ==
  IF card.reply # NoServer THEN card.reply
  ELSE IF card.proxy # NoServer THEN card.proxy ELSE card.ack
UsableCard(card) == card.path /\ card.protocol /\ card.started /\ ~card.ipv6 /\ ConfigServer(card) # NoServer

efi_net_init ==
  /\ host.platform = "efi" /\ ~net_up
  /\ net_up' = TRUE
  /\ \E used \in {SelectSeq([i \in DOMAIN host.cards |-> i], LAMBDA i : UsableCard(host.cards[i]))} :
       /\ net_devices' = [i \in DOMAIN used |-> net_device_register(used[i], ConfigServer(host.cards[used[i]]))]
       /\ net_boot' = SelectInSeq(used, LAMBDA i : i = host.loaded)
  /\ UNCHANGED <<host, net_handles, current_pxe_handle, tftp, net_work, net_answer, net_faults>>

-----------------------------------------------------------------------------
(* A call of the firmware fails; `what' is the call of the loader that     *)
(* then fails.                                                             *)
NetFault(what) ==
  /\ net_faults < MaxNetFaults
  /\ net_faults' = net_faults + 1
  /\ net_answer' = [op |-> what, status |-> "device_error"]

NetReady == net_up /\ net_work = NoNetWork
NetOpened(slot) == net_handles[slot] # FreeSlot
NewSlot == CHOOSE s \in 1 .. NetSlots : ~NetOpened(s)
NewHandle(d, file) == [device |-> d, file |-> file, packet_number |-> 0, data |-> "none"]
Transfer(h) == [server |-> ServerOf(h), file |-> h.file, next |-> 0]

(* set_current_handle(): what is current is closed; the new one, if any,   *)
(* starts at its first packet.                                             *)
SetCurrent(slot, h) ==
  /\ current_pxe_handle' = slot
  /\ tftp' = IF slot = 0 THEN NoTransfer ELSE Transfer(h)

(* pxe_fs_open_path() closes the transfer before it asks for the size.     *)
pxe_fs_open_path(d, file) ==
  LET h == NewHandle(d, file) IN
  \/ /\ file \in DOMAIN ServerFiles[net_devices[d].server]
     /\ net_handles' = [net_handles EXCEPT ![NewSlot] = h]
     /\ SetCurrent(NewSlot, h)
     /\ net_answer' = [op |-> "open", status |-> "success"]
     /\ UNCHANGED net_faults
  \/ /\ file \notin DOMAIN ServerFiles[net_devices[d].server]
     /\ SetCurrent(0, h)
     /\ net_answer' = [op |-> "open", status |-> "not_found"]
     /\ UNCHANGED <<net_handles, net_faults>>
  \/ NetFault("open") /\ SetCurrent(0, h) /\ UNCHANGED net_handles

efi_net_fs_open_path(d, file) ==
  /\ \/ /\ file \in DOMAIN ServerFiles[net_devices[d].server]
        /\ net_handles' = [net_handles EXCEPT ![NewSlot] = NewHandle(d, file)]
        /\ net_answer' = [op |-> "open", status |-> "success"]
        /\ UNCHANGED net_faults
     \/ /\ file \notin DOMAIN ServerFiles[net_devices[d].server]
        /\ net_answer' = [op |-> "open", status |-> "not_found"]
        /\ UNCHANGED <<net_handles, net_faults>>
     \/ NetFault("open") /\ UNCHANGED net_handles
  /\ UNCHANGED <<current_pxe_handle, tftp>>

NetOpen ==
  /\ NetReady /\ \E s \in 1 .. NetSlots : ~NetOpened(s)
  /\ \E d \in DOMAIN net_devices : \E file \in UNION {DOMAIN ServerFiles[s] : s \in DOMAIN ServerFiles} :
       IF host.platform = "bios" THEN pxe_fs_open_path(d, file) ELSE efi_net_fs_open_path(d, file)
  /\ UNCHANGED <<host, net_up, net_devices, net_boot, net_work>>

NetClose ==
  /\ NetReady
  /\ \E slot \in {s \in 1 .. NetSlots : NetOpened(s)} :
       /\ net_handles' = [net_handles EXCEPT ![slot] = FreeSlot]
       /\ IF current_pxe_handle = slot THEN SetCurrent(0, FreeSlot) ELSE UNCHANGED <<current_pxe_handle, tftp>>
  /\ net_answer' = NoNetAnswer
  /\ UNCHANGED <<host, net_up, net_devices, net_boot, net_work, net_faults>>

(* What fs_read() passes on.                                               *)
NetReadable(slot, r) == NetOpened(slot) /\ r.count # 0 /\ r.offset + r.count <= NetSize(net_handles[slot])
NetDone(slot, r, data) == [op |-> "read", status |-> "success", handle |-> slot, read |-> r, data |-> data]

(* pxe_fs_read(), before its loop: unless the transfer is this file's and  *)
(* not past the packet, it is started anew.                                *)
StartsAnewMutant(slot, start) == slot # current_pxe_handle
StartsAnew(slot, start) == slot # current_pxe_handle \/ net_handles[slot].packet_number > start

PxeRead(slot, r) ==
  LET h == net_handles[slot]
      start == r.offset \div PACKET[ServerOf(h)]
      begin == net_work' = [handle |-> slot, start |-> start, offset |-> r.offset, count |-> r.count, buf |-> <<>>,
                            request |-> r]
  IN
  \/ /\ ~StartsAnew(slot, start) /\ begin
     /\ net_answer' = NoNetAnswer
     /\ UNCHANGED <<net_handles, current_pxe_handle, tftp, net_faults>>
  \/ /\ StartsAnew(slot, start) /\ begin
     /\ SetCurrent(slot, h)
     /\ net_handles' = [net_handles EXCEPT ![slot].packet_number = 0]
     /\ net_answer' = NoNetAnswer
     /\ UNCHANGED net_faults
  \/ /\ StartsAnew(slot, start) /\ NetFault("read")
     /\ SetCurrent(0, h)
     /\ UNCHANGED <<net_handles, net_work>>

(* One packet: read_packet() gets the next one of the firmware's transfer, *)
(* whatever the loader thinks it is; before the start it is passed over.   *)
PacketSize == PACKET[ServerOf(net_handles[net_work.handle])]
PacketBytes(n) ==
  [k \in 1 .. n |-> <<tftp.server, tftp.file, tftp.next * PacketSize + (net_work.offset % PacketSize) + k - 1>>]

ReadPacket ==
  LET slot == net_work.handle
      size == IF net_handles[slot].packet_number < net_work.start THEN 0
              ELSE LET left == PacketSize - (net_work.offset % PacketSize)
                   IN IF net_work.count < left THEN net_work.count ELSE left
      buf == net_work.buf \o PacketBytes(size)
      over == size = net_work.count
  IN
  /\ net_work # NoNetWork /\ tftp # NoTransfer
  /\ tftp' = [tftp EXCEPT !.next = @ + 1]
  /\ net_handles' = [net_handles EXCEPT ![slot].packet_number = @ + 1]
  /\ net_work' = IF over THEN NoNetWork
                 ELSE [net_work EXCEPT !.offset = @ + size, !.count = @ - size, !.buf = buf]
  /\ net_answer' = IF over THEN NetDone(slot, net_work.request, buf) ELSE NoNetAnswer
  /\ UNCHANGED <<host, net_up, net_devices, net_boot, current_pxe_handle, net_faults>>

(* The firmware may give up the transfer with the packet, and then has no  *)
(* other until the file is opened again.                                   *)
ReadPacketFails ==
  /\ net_work # NoNetWork
  /\ \/ NetFault("read") /\ tftp' \in {tftp, NoTransfer}
     \/ /\ tftp = NoTransfer
        /\ net_answer' = [op |-> "read", status |-> "device_error"]
        /\ UNCHANGED <<tftp, net_faults>>
  /\ net_work' = NoNetWork
  /\ UNCHANGED <<host, net_up, net_devices, net_boot, net_handles, current_pxe_handle>>

(* efi_net_fs_read(): the file is transferred by the first read, into the  *)
(* caller's buffer if that is for all of it and else into one that is      *)
(* kept, which after a failure is kept too ("junk").                       *)
FileBytes(h, r) == [k \in 1 .. r.count |-> <<ServerOf(h), h.file, r.offset + k - 1>>]
EfiNetRead(slot, r) ==
  LET h == net_handles[slot]
      keep == r.offset # 0 \/ r.count # NetSize(h)
      kept(data) == [net_handles EXCEPT ![slot].data = IF keep THEN data ELSE @]
      junk == [k \in 1 .. r.count |-> <<"junk", h.file, k>>]
  IN
  /\ \/ /\ h.data = "none"
        /\ net_handles' = kept("whole")
        /\ net_answer' = NetDone(slot, r, FileBytes(h, r))
        /\ UNCHANGED net_faults
     \/ h.data = "none" /\ NetFault("read") /\ net_handles' = kept("junk")
     \/ /\ h.data # "none"
        /\ net_answer' = NetDone(slot, r, IF h.data = "whole" THEN FileBytes(h, r) ELSE junk)
        /\ UNCHANGED <<net_handles, net_faults>>
  /\ UNCHANGED <<current_pxe_handle, tftp, net_work>>

NetRead ==
  /\ NetReady
  /\ \E slot \in 1 .. NetSlots, r \in NetRequests :
       /\ NetReadable(slot, r)
       /\ IF host.platform = "bios" THEN PxeRead(slot, r) ELSE EfiNetRead(slot, r)
  /\ UNCHANGED <<host, net_up, net_devices, net_boot>>

-----------------------------------------------------------------------------
NetworkInit ==
  /\ host \in Hosts
  /\ net_up = FALSE /\ net_devices = <<>> /\ net_boot = 0
  /\ net_handles = [s \in 1 .. NetSlots |-> FreeSlot]
  /\ current_pxe_handle = 0 /\ tftp = NoTransfer
  /\ net_work = NoNetWork /\ net_answer = NoNetAnswer /\ net_faults = 0

NetworkNext ==
  pxe_init \/ efi_net_init \/ NetOpen \/ NetClose \/ NetRead \/ ReadPacket \/ ReadPacketFails

NetworkSpec == NetworkInit /\ [][NetworkNext]_netVars

-----------------------------------------------------------------------------
(* A read returns the bytes of its own file on its device's server, though *)
(* all handles share one transfer that only goes forward, and whatever has *)
(* been opened, read, closed or has failed in between; only a call of the  *)
(* firmware that fails makes one fail.  One exception is what the code     *)
(* does: under EFI a file whose transfer has failed once reads as whatever *)
(* its buffer held (efi_net_fs_read()).                                    *)
TransferTrue ==
  /\ (net_answer.op = "read" /\ net_answer.status = "success") =>
       LET h == net_handles[net_answer.handle] IN
       h.data = "junk" \/ net_answer.data = FileBytes(h, net_answer.read)
  /\ net_faults = 0 => net_answer.status # "device_error"
  /\ current_pxe_handle # 0 => NetOpened(current_pxe_handle)
=============================================================================
