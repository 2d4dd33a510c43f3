---------------------------- MODULE StorageProofs ---------------------------
(***************************************************************************)
(* Proofs about files.  First those of a network server (source/net.c,     *)
(* platform/bios/pxe.c, platform/efi/net.c), for all servers, files,       *)
(* packet sizes, requests and numbers of handles and failures; then the    *)
(* handles of open files and directories (source/fs.c, lib/gzip.c and the  *)
(* environments of config.c), for all trees of files, paths, and numbers   *)
(* of handles and environments.                                            *)
(***************************************************************************)
EXTENDS Network, FileSystem, ListLemmas, FiniteSetTheorems, TLAPS

(* Bytes from .. from + n - 1 of a file.                                   *)
ByteOf(server, file, x) == <<server, file, x>>
NetBytes(server, file, from, n) == [k \in 1 .. n |-> ByteOf(server, file, from + k - 1)]

(* What is copied from one packet: n bytes, of those that are left.  The   *)
(* packet is the one the next byte is in, and unless the read is over, the *)
(* next one is copied from its start.                                      *)
CopiedFrom(pn, start, size, off, left) ==
  IF pn < start THEN 0 ELSE IF left < size - (off % size) THEN left ELSE size - (off % size)
Reached(pn, start, size, first, off) == IF pn <= start THEN off = first ELSE off = size * pn

BeforePacket(pn, start, size, first, off, left) ==
  /\ size \in Nat \ {0} /\ first \in Nat /\ off \in Nat /\ left \in Nat \ {0} /\ pn \in Nat
  /\ start = first \div size /\ Reached(pn, start, size, first, off)
AfterPacket(pn, start, size, first, off, left, n) ==
  /\ n \in Nat /\ n <= left
  /\ n # 0 => pn * size + (off % size) = off
  /\ n # left => Reached(pn + 1, start, size, first, off + n)

LEMMA OnePacket ==
  ASSUME NEW size, NEW first, NEW off, NEW left, NEW pn, NEW start,
         BeforePacket(pn, start, size, first, off, left)
  PROVE  AfterPacket(pn, start, size, first, off, left, CopiedFrom(pn, start, size, off, left))
<1> USE DEF CopiedFrom, Reached
<1> DEFINE n == CopiedFrom(pn, start, size, off, left)
<1> SUFFICES /\ n \in Nat /\ n <= left
             /\ n # 0 => pn * size + (off % size) = off
             /\ n # left => Reached(pn + 1, start, size, first, off + n)
  BY Zenon DEF AfterPacket
<1> size \in Nat \ {0} /\ first \in Nat /\ off \in Nat /\ left \in Nat \ {0} /\ pn \in Nat
    /\ start = first \div size /\ Reached(pn, start, size, first, off)
  BY DEF BeforePacket
<1>1. /\ start \in Nat /\ first % size \in Nat /\ first = size * start + (first % size)
  BY DivMod
<1>2. off % size \in Nat /\ off % size < size
  BY DivMod
<1>3. size * pn = pn * size /\ size * pn \in Nat /\ size * (pn + 1) = size * pn + size
  OBVIOUS
<1>4. CASE pn < start
  BY <1>1, <1>4
<1>5. CASE pn >= start
  <2>1. off = size * pn + (off % size)
    <3>1. CASE pn = start
      BY <1>1, <3>1
    <3>2. CASE pn # start
      <4>1. off = size * pn
        BY <1>1, <1>5, <3>2
      <4>2. (size * pn) % size = 0
        BY Multiple
      <4> QED BY <1>3, <4>1, <4>2
    <3> QED BY <3>1, <3>2
  <2>2. ~(pn < start) /\ ~(pn + 1 <= start)
    BY <1>1, <1>5
  <2> DEFINE m == off % size
  <2>3. n = IF left < size - m THEN left ELSE size - m
    BY <2>2
  <2>4. m \in Nat /\ m < size /\ off = size * pn + m
    BY <1>2, <2>1
  <2> DEFINE v == size * pn
  <2>5. v \in Nat /\ off = v + m
    BY <1>3, <2>4
  <2> HIDE DEF m, v
  <2>6. n \in Nat /\ n <= left /\ (n # left => off + n = v + size)
    BY <2>3, <2>4, <2>5
  <2> QED BY <1>3, <2>2, <2>5, <2>6 DEF m, v
<1> QED BY <1>1, <1>4, <1>5

Triples(server, file) == {ByteOf(server, file, x) : x \in Int}

IsBytes(t, server, file, from, n) ==
  /\ t \in Seq(Triples(server, file)) /\ Len(t) = n
  /\ \A j \in 1 .. n : t[j] = ByteOf(server, file, from + j - 1)

LEMMA BytesFact ==
  ASSUME NEW server, NEW file, NEW from \in Nat, NEW n \in Nat
  PROVE  IsBytes(NetBytes(server, file, from, n), server, file, from, n)
<1> DEFINE t == NetBytes(server, file, from, n)
<1>1. \A j \in 1 .. n : ByteOf(server, file, from + j - 1) \in Triples(server, file)
  BY DEF Triples
<1>2. \A j \in 1 .. n : t[j] = ByteOf(server, file, from + j - 1)
  BY DEF NetBytes
<1>3. t \in [1 .. n -> Triples(server, file)]
  <2>1. t = [j \in 1 .. n |-> t[j]]
    BY DEF NetBytes
  <2>2. \A j \in 1 .. n : t[j] \in Triples(server, file)
    BY <1>1, <1>2
  <2> QED BY <2>1, <2>2, Zenon
<1>4. t \in Seq(Triples(server, file)) /\ Len(t) = n
  <2> DEFINE S == Triples(server, file)
  <2> HIDE DEF S
  <2>1. \A f \in [1 .. n -> S] : f \in Seq(S) /\ Len(f) = n
    OBVIOUS
  <2> QED BY <1>3, <2>1 DEF S
<1> QED BY <1>2, <1>4, Zenon DEF IsBytes

(* Two sequences that are a third one when put together.                   *)
LEMMA JoinedSeqs ==
  ASSUME NEW S, NEW s \in Seq(S), NEW t \in Seq(S), NEW u \in Seq(S),
         Len(u) = Len(s) + Len(t),
         \A j \in 1 .. Len(s) : u[j] = s[j],
         \A j \in 1 .. Len(t) : u[Len(s) + j] = t[j]
  PROVE  s \o t = u
<1>1. /\ s \o t \in Seq(S) /\ Len(s \o t) = Len(s) + Len(t)
      /\ \A j \in 1 .. Len(s) + Len(t) :
           (s \o t)[j] = IF j <= Len(s) THEN s[j] ELSE t[j - Len(s)]
  BY ConcatElements
<1>2. Len(s) \in Nat /\ Len(t) \in Nat
  OBVIOUS
<1>3. ASSUME NEW j \in 1 .. Len(s) + Len(t) PROVE (s \o t)[j] = u[j]
  <2>1. CASE j <= Len(s)
    BY <1>1, <1>2, <2>1
  <2>2. CASE j > Len(s)
    <3>1. j - Len(s) \in 1 .. Len(t) /\ Len(s) + (j - Len(s)) = j
      BY <1>2, <2>2
    <3>2. u[j] = t[j - Len(s)]
      BY <3>1
    <3> QED BY <1>1, <1>2, <2>2, <3>2
  <2> QED BY <1>2, <2>1, <2>2
<1> QED BY <1>1, <1>3

LEMMA JoinIsBytes ==
  ASSUME NEW server, NEW file, NEW from \in Nat, NEW m \in Nat, NEW n \in Nat,
         NEW mid \in Nat, NEW all \in Nat, NEW s, NEW t, NEW u,
         IsBytes(s, server, file, from, m), IsBytes(t, server, file, mid, n),
         IsBytes(u, server, file, from, all), mid = from + m, all = m + n
  PROVE  s \o t = u
<1> DEFINE S == Triples(server, file)
<1>1. /\ s \in Seq(S) /\ Len(s) = m /\ t \in Seq(S) /\ Len(t) = n
      /\ u \in Seq(S) /\ Len(u) = all
  BY Zenon DEF IsBytes
<1>2. \A j \in 1 .. m : s[j] = ByteOf(server, file, from + j - 1)
  BY Zenon DEF IsBytes
<1>3. \A j \in 1 .. n : t[j] = ByteOf(server, file, mid + j - 1)
  BY Zenon DEF IsBytes
<1>4. \A j \in 1 .. all : u[j] = ByteOf(server, file, from + j - 1)
  BY Zenon DEF IsBytes
<1> HIDE DEF S
<1>5. ASSUME NEW j \in 1 .. n PROVE u[m + j] = t[j]
  <2>1. m + j \in 1 .. all /\ from + (m + j) - 1 = mid + j - 1
    OBVIOUS
  <2> QED BY <1>3, <1>4, <2>1
<1>6. ASSUME NEW j \in 1 .. m PROVE u[j] = s[j]
  <2>1. j \in 1 .. all
    OBVIOUS
  <2> QED BY <1>2, <1>4, <2>1
<1>7. \A j \in 1 .. Len(s) : u[j] = s[j]
  BY <1>1, <1>6
<1>8. \A j \in 1 .. Len(t) : u[Len(s) + j] = t[j]
  BY <1>1, <1>5
<1>9. Len(u) = Len(s) + Len(t)
  BY <1>1
<1>10. s \in Seq(S) /\ t \in Seq(S) /\ u \in Seq(S)
  BY <1>1
<1> QED BY <1>7, <1>8, <1>9, <1>10, JoinedSeqs, Zenon

Adjacent(from, m, mid, n, all) ==
  /\ from \in Nat /\ m \in Nat /\ n \in Nat /\ mid \in Nat /\ all \in Nat
  /\ mid = from + m /\ all = m + n

Joined(server, file, from, m, mid, n, all) ==
  NetBytes(server, file, from, m) \o NetBytes(server, file, mid, n) = NetBytes(server, file, from, all)

LEMMA JoinBytes ==
  ASSUME NEW server, NEW file, NEW from, NEW m, NEW n, NEW mid, NEW all,
         Adjacent(from, m, mid, n, all)
  PROVE  Joined(server, file, from, m, mid, n, all)
<1> DEFINE s == NetBytes(server, file, from, m)
           t == NetBytes(server, file, mid, n)
           u == NetBytes(server, file, from, all)
<1>0. /\ from \in Nat /\ m \in Nat /\ n \in Nat /\ mid \in Nat /\ all \in Nat
      /\ mid = from + m /\ all = m + n
  BY DEF Adjacent
<1>1. IsBytes(s, server, file, from, m)
  BY <1>0, BytesFact
<1>2. IsBytes(t, server, file, mid, n)
  BY <1>0, BytesFact
<1>3. IsBytes(u, server, file, from, all)
  BY <1>0, BytesFact
<1> HIDE DEF s, t, u
<1>4. s \o t = u
  BY <1>0, <1>1, <1>2, <1>3, JoinIsBytes
<1> QED BY <1>4 DEF s, t, u, Joined

-----------------------------------------------------------------------------
(***************************************************************************)
(* The invariant.                                                          *)
(***************************************************************************)
IsHandle(h) ==
  \E d, f : \E n \in Nat : \E data \in {"none", "whole", "junk"} :
    h = [device |-> d, file |-> f, packet_number |-> n, data |-> data]

(* Packets of the device a handle is on have a size.                       *)
PacketOf(h) == PACKET[ServerOf(h)]
OnBios == host.platform = "bios"

HandlesInv ==
  /\ net_handles = [s \in 1 .. NetSlots |-> net_handles[s]]
  /\ \A s \in 1 .. NetSlots : net_handles[s] = FreeSlot \/ IsHandle(net_handles[s])
  /\ OnBios => \A s \in 1 .. NetSlots :
                 net_handles[s] # FreeSlot => PacketOf(net_handles[s]) \in Nat \ {0}

DevicesInv ==
  /\ host \in Hosts
  /\ OnBios => \A d \in DOMAIN net_devices : PACKET[net_devices[d].server] \in Nat \ {0}

(* Before devices are looked for there is nothing, and there are transfers *)
(* only under the BIOS.                                                    *)
RestInv ==
  /\ ~net_up => /\ \A s \in 1 .. NetSlots : net_handles[s] = FreeSlot
                /\ net_answer = NoNetAnswer
  /\ ~net_up \/ ~OnBios => current_pxe_handle = 0 /\ net_work = NoNetWork

(* The firmware's transfer is that of the current handle and has come as   *)
(* far as the handle says, unless the firmware has given it up.            *)
CurrentInv ==
  current_pxe_handle # 0 =>
    LET h == net_handles[current_pxe_handle] IN
    /\ current_pxe_handle \in 1 .. NetSlots /\ h # FreeSlot
    /\ \/ tftp = [server |-> ServerOf(h), file |-> h.file, next |-> h.packet_number]
       \/ tftp = NoTransfer /\ net_faults # 0

(* A read of n packets that has come to packet pn: what was copied are the *)
(* bytes from where the request starts, up to a packet's end.              *)
Progress(w, slot, r, server, file, size, pn) ==
  \E off \in Nat, left \in Nat \ {0} :
    /\ w = [handle |-> slot, start |-> r.offset \div size, offset |-> off, count |-> left,
            buf |-> NetBytes(server, file, r.offset, off - r.offset), request |-> r]
    /\ r.offset <= off /\ off + left = r.offset + r.count
    /\ Reached(pn, r.offset \div size, size, r.offset, off)

WorkInv ==
  net_work # NoNetWork =>
    LET h == net_handles[current_pxe_handle] IN
    /\ current_pxe_handle # 0
    /\ \E r \in NetRequests :
         Progress(net_work, current_pxe_handle, r, ServerOf(h), h.file, PacketOf(h),
                  h.packet_number)

NetInv ==
  /\ net_faults \in Nat
  /\ HandlesInv /\ DevicesInv /\ RestInv /\ CurrentInv /\ WorkInv /\ TransferTrue

LEMMA NetworkStarts == NetworkInit => NetInv
<1> SUFFICES ASSUME NetworkInit PROVE NetInv
  OBVIOUS
<1>1. /\ host \in Hosts /\ net_up = FALSE /\ net_devices = <<>>
      /\ net_handles = [s \in 1 .. NetSlots |-> FreeSlot]
      /\ current_pxe_handle = 0 /\ net_work = NoNetWork /\ net_answer = NoNetAnswer
      /\ net_faults = 0
  BY DEF NetworkInit
<1>2. HandlesInv /\ DevicesInv
  BY <1>1 DEF HandlesInv, DevicesInv
<1>3. RestInv /\ CurrentInv /\ WorkInv
  BY <1>1 DEF RestInv, CurrentInv, WorkInv
<1>4. TransferTrue
  BY <1>1 DEF TransferTrue, NoNetAnswer
<1> QED BY <1>1, <1>2, <1>3, <1>4 DEF NetInv

(* pxe_init() and efi_net_init().                                          *)
LEMMA RegisterStep ==
  ASSUME NetInv, pxe_init \/ efi_net_init
  PROVE  NetInv'
<1>1. /\ ~net_up /\ net_up'
      /\ UNCHANGED <<host, net_handles, current_pxe_handle, tftp, net_work, net_answer, net_faults>>
  BY DEF pxe_init, efi_net_init
<1>2. /\ \A s \in 1 .. NetSlots : net_handles[s] = FreeSlot
      /\ net_answer = NoNetAnswer /\ current_pxe_handle = 0 /\ net_work = NoNetWork
  BY <1>1 DEF NetInv, RestInv
<1>3. HandlesInv'
  BY <1>1, <1>2 DEF NetInv, HandlesInv
<1>4. DevicesInv'
  <2>1. host' \in Hosts
    BY <1>1 DEF NetInv, DevicesInv
  <2>2. ASSUME host.platform = "bios", NEW d \in DOMAIN net_devices'
        PROVE  PACKET[net_devices'[d].server] \in Nat \ {0}
    <3>1. pxe_init
      BY <2>2 DEF efi_net_init
    <3>2. net_devices' = <<net_device_register(1, host.cards[1].reply)>>
      BY <2>2, <3>1 DEF pxe_init
    <3>3. net_devices'[d].server = host.cards[1].reply
      BY <2>2, <3>2 DEF net_device_register
    <3> QED BY <1>1, <2>1, <2>2, <3>3, NetworkAssumption
  <2> QED BY <1>1, <2>1, <2>2 DEF DevicesInv, OnBios
<1>5. RestInv' /\ CurrentInv' /\ WorkInv' /\ TransferTrue'
  BY <1>1, <1>2 DEF RestInv, CurrentInv, WorkInv, TransferTrue, NoNetAnswer
<1> QED BY <1>1, <1>3, <1>4, <1>5 DEF NetInv

(* A new handle, or none.                                                  *)
LEMMA OpenStep ==
  ASSUME NetInv, NetOpen
  PROVE  NetInv'
<1>1. /\ net_up /\ net_work = NoNetWork
      /\ UNCHANGED <<host, net_up, net_devices, net_boot, net_work>>
  BY DEF NetOpen, NetReady
<1>2. PICK d \in DOMAIN net_devices,
           file \in UNION {DOMAIN ServerFiles[s] : s \in DOMAIN ServerFiles} :
        IF host.platform = "bios" THEN pxe_fs_open_path(d, file) ELSE efi_net_fs_open_path(d, file)
  BY DEF NetOpen
<1> DEFINE slot == NewSlot
           h == NewHandle(d, file)
<1>3. slot \in 1 .. NetSlots /\ slot # 0 /\ net_handles[slot] = FreeSlot
  BY DEF NetOpen, NewSlot, NetOpened
<1>4. IsHandle(h) /\ h # FreeSlot /\ h.device = d /\ h.file = file /\ h.packet_number = 0
  BY DEF IsHandle, NewHandle, FreeSlot
<1>5. OnBios => PACKET[net_devices[d].server] \in Nat \ {0}
  BY DEF NetInv, DevicesInv
<1>6. /\ net_handles' \in {net_handles, [net_handles EXCEPT ![slot] = h]}
      /\ net_faults' \in Nat
      /\ net_answer'.op = "open" /\ (net_answer'.status = "device_error" => net_faults' # 0)
  <2>1. net_faults \in Nat
    BY DEF NetInv
  <2> QED BY <1>2, <2>1 DEF pxe_fs_open_path, efi_net_fs_open_path, NetFault
<1>7. CASE host.platform = "bios"
  <2>1. pxe_fs_open_path(d, file)
    BY <1>2, <1>7
  <2>2. \/ current_pxe_handle' = 0
        \/ /\ current_pxe_handle' = slot /\ tftp' = Transfer(h)
           /\ net_handles' = [net_handles EXCEPT ![slot] = h]
    BY <2>1 DEF pxe_fs_open_path, SetCurrent
  <2> HIDE DEF slot, h
  <2>3. HandlesInv'
    BY <1>1, <1>3, <1>4, <1>5, <1>6 DEF NetInv, HandlesInv, PacketOf, ServerOf, OnBios
  <2>4. CurrentInv'
    <3> SUFFICES ASSUME current_pxe_handle' # 0 PROVE CurrentInv'
      BY DEF CurrentInv
    <3>1. net_handles'[slot] = h /\ current_pxe_handle' = slot
      BY <1>3, <2>2 DEF NetInv, HandlesInv
    <3>2. tftp' = [server |-> net_devices[d].server, file |-> h.file, next |-> h.packet_number]
      BY <1>4, <2>2 DEF Transfer, ServerOf
    <3> QED BY <1>1, <1>3, <1>4, <3>1, <3>2 DEF CurrentInv, ServerOf
  <2>5. RestInv' /\ WorkInv' /\ DevicesInv'
    BY <1>1, <1>7 DEF NetInv, RestInv, WorkInv, DevicesInv, OnBios
  <2>6. TransferTrue'
    BY <1>6, <2>4 DEF TransferTrue, CurrentInv, NetOpened
  <2> QED BY <1>6, <2>3, <2>4, <2>5, <2>6 DEF NetInv
<1>8. CASE host.platform # "bios"
  <2>1. UNCHANGED <<current_pxe_handle, tftp>> /\ current_pxe_handle = 0
    BY <1>2, <1>8 DEF efi_net_fs_open_path, NetInv, RestInv, OnBios
  <2> HIDE DEF slot, h
  <2>2. HandlesInv'
    BY <1>1, <1>3, <1>4, <1>6, <1>8 DEF NetInv, HandlesInv, OnBios
  <2>3. RestInv' /\ WorkInv' /\ DevicesInv' /\ CurrentInv'
    BY <1>1, <1>8, <2>1 DEF NetInv, RestInv, WorkInv, DevicesInv, CurrentInv, OnBios
  <2>4. TransferTrue'
    BY <1>6, <2>1 DEF TransferTrue
  <2> QED BY <1>6, <2>2, <2>3, <2>4 DEF NetInv
<1> QED BY <1>7, <1>8

LEMMA CloseStep ==
  ASSUME NetInv, NetClose
  PROVE  NetInv'
<1>1. /\ net_up /\ net_work = NoNetWork /\ net_answer' = NoNetAnswer
      /\ UNCHANGED <<host, net_up, net_devices, net_boot, net_work, net_faults>>
  BY DEF NetClose, NetReady
<1>2. PICK slot \in 1 .. NetSlots :
        /\ net_handles' = [net_handles EXCEPT ![slot] = FreeSlot]
        /\ IF current_pxe_handle = slot THEN SetCurrent(0, FreeSlot)
           ELSE UNCHANGED <<current_pxe_handle, tftp>>
  BY DEF NetClose
<1>3. HandlesInv'
  BY <1>1, <1>2 DEF NetInv, HandlesInv, PacketOf, ServerOf, OnBios
<1>4. CurrentInv'
  <2> SUFFICES ASSUME current_pxe_handle' # 0 PROVE CurrentInv'
    BY DEF CurrentInv
  <2>1. current_pxe_handle # slot /\ UNCHANGED <<current_pxe_handle, tftp>>
    BY <1>2 DEF SetCurrent
  <2>2. current_pxe_handle # 0 /\ current_pxe_handle \in 1 .. NetSlots
    BY <2>1 DEF NetInv, CurrentInv
  <2>3. net_handles'[current_pxe_handle] = net_handles[current_pxe_handle]
    BY <1>2, <2>1, <2>2 DEF NetInv, HandlesInv
  <2> QED BY <1>1, <2>1, <2>2, <2>3 DEF NetInv, CurrentInv, ServerOf
<1>5. RestInv' /\ WorkInv' /\ DevicesInv'
  BY <1>1, <1>2 DEF NetInv, RestInv, WorkInv, DevicesInv, OnBios, SetCurrent
<1>6. TransferTrue'
  BY <1>1, <1>4 DEF TransferTrue, CurrentInv, NetOpened, NoNetAnswer
<1> QED BY <1>1, <1>3, <1>4, <1>5, <1>6 DEF NetInv

(* A packet that does not come ends the read; the transfer, if it goes on, *)
(* is where it was.                                                        *)
LEMMA PacketFailsStep ==
  ASSUME NetInv, ReadPacketFails
  PROVE  NetInv'
<1>1. /\ net_work # NoNetWork /\ net_work' = NoNetWork
      /\ UNCHANGED <<host, net_up, net_devices, net_boot, net_handles, current_pxe_handle>>
  BY DEF ReadPacketFails
<1>2. current_pxe_handle # 0 /\ net_faults \in Nat
  BY <1>1 DEF NetInv, WorkInv
<1>3. /\ net_faults' \in Nat /\ net_faults' # 0 /\ tftp' \in {tftp, NoTransfer}
      /\ net_answer' = [op |-> "read", status |-> "device_error"]
  <2>1. CASE NetFault("read") /\ tftp' \in {tftp, NoTransfer}
    BY <1>2, <2>1 DEF NetFault
  <2>2. CASE /\ tftp = NoTransfer
             /\ net_answer' = [op |-> "read", status |-> "device_error"]
             /\ UNCHANGED <<tftp, net_faults>>
    <3>1. net_faults # 0
      BY <1>2, <2>2 DEF NetInv, CurrentInv, NoTransfer
    <3> QED BY <1>2, <2>2, <3>1
  <2> QED BY <2>1, <2>2 DEF ReadPacketFails
<1>4. HandlesInv' /\ DevicesInv' /\ RestInv' /\ WorkInv'
  BY <1>1 DEF NetInv, HandlesInv, DevicesInv, RestInv, WorkInv, PacketOf, ServerOf, OnBios
<1>5. CurrentInv'
  BY <1>1, <1>3 DEF NetInv, CurrentInv, ServerOf
<1>6. TransferTrue'
  BY <1>1, <1>3, <1>5 DEF TransferTrue, CurrentInv, NetOpened
<1> QED BY <1>3, <1>4, <1>5, <1>6 DEF NetInv
(* Another value for a field of one of the handles.                        *)
Handle(d, f, n, data) == [device |-> d, file |-> f, packet_number |-> n, data |-> data]

OthersKept(old, new, slot, h) ==
  /\ new = [s \in 1 .. NetSlots |-> new[s]] /\ new[slot] = h
  /\ \A s \in 1 .. NetSlots : s # slot => new[s] = old[s]

LEMMA OneHandle ==
  ASSUME NEW hs, hs = [s \in 1 .. NetSlots |-> hs[s]], NEW slot \in 1 .. NetSlots, NEW h,
         NEW new, new = [hs EXCEPT ![slot] = h]
  PROVE  OthersKept(hs, new, slot, h)
BY DEF OthersKept

LEMMA SetData ==
  ASSUME NEW hs, hs = [s \in 1 .. NetSlots |-> hs[s]], NEW slot \in 1 .. NetSlots,
         NEW d, NEW f, NEW n, NEW was, hs[slot] = Handle(d, f, n, was), NEW data
  PROVE  OthersKept(hs, [hs EXCEPT ![slot].data = data], slot, Handle(d, f, n, data))
<1>1. [hs[slot] EXCEPT !.data = data] = Handle(d, f, n, data)
  BY DEF Handle
<1>2. [hs EXCEPT ![slot].data = data] = [hs EXCEPT ![slot] = [hs[slot] EXCEPT !.data = data]]
  OBVIOUS
<1> QED BY <1>1, <1>2, OneHandle

LEMMA SetPacketNumber ==
  ASSUME NEW hs, hs = [s \in 1 .. NetSlots |-> hs[s]], NEW slot \in 1 .. NetSlots,
         NEW d, NEW f, NEW n, NEW data, hs[slot] = Handle(d, f, n, data), NEW m
  PROVE  OthersKept(hs, [hs EXCEPT ![slot].packet_number = m], slot, Handle(d, f, m, data))
<1>1. [hs[slot] EXCEPT !.packet_number = m] = Handle(d, f, m, data)
  BY DEF Handle
<1>2. [hs EXCEPT ![slot].packet_number = m]
        = [hs EXCEPT ![slot] = [hs[slot] EXCEPT !.packet_number = m]]
  OBVIOUS
<1> QED BY <1>1, <1>2, OneHandle

(* One handle goes on with another packet number or other data.            *)
LEMMA HandleChanges ==
  ASSUME NetInv, UNCHANGED <<host, net_devices>>, NEW slot \in 1 .. NetSlots,
         NEW d, NEW f, NEW n, NEW was, net_handles[slot] = Handle(d, f, n, was),
         NEW m \in Nat, NEW data \in {"none", "whole", "junk"},
         OthersKept(net_handles, net_handles', slot, Handle(d, f, m, data))
  PROVE  HandlesInv'
<1>1. \A s \in 1 .. NetSlots : net_handles'[s] = FreeSlot \/ IsHandle(net_handles'[s])
  <2>1. IsHandle(net_handles'[slot])
    BY Zenon DEF IsHandle, OthersKept, Handle
  <2> QED BY <2>1 DEF NetInv, HandlesInv, OthersKept
<1>2. ASSUME OnBios, NEW s \in 1 .. NetSlots, net_handles'[s] # FreeSlot
      PROVE  PACKET[net_devices[net_handles'[s].device].server] \in Nat \ {0}
  <2>1. CASE s = slot
    <3>1. net_handles'[s].device = net_handles[s].device
      BY <2>1 DEF OthersKept, Handle
    <3>2. net_handles[s] # FreeSlot
      BY <2>1 DEF Handle, FreeSlot
    <3> QED BY <1>2, <3>1, <3>2 DEF NetInv, HandlesInv, PacketOf, ServerOf
  <2>2. CASE s # slot
    <3>1. net_handles'[s] = net_handles[s]
      BY <2>2 DEF OthersKept
    <3> QED BY <1>2, <3>1 DEF NetInv, HandlesInv, PacketOf, ServerOf
  <2> QED BY <2>1, <2>2
<1>3. net_handles' = [s \in 1 .. NetSlots |-> net_handles'[s]]
  BY DEF OthersKept
<1> QED BY <1>1, <1>2, <1>3 DEF HandlesInv, PacketOf, ServerOf, OnBios

(* efi_net_fs_read().                                                      *)
LEMMA EfiReadStep ==
  ASSUME NetInv, NetReady, host.platform # "bios", NEW slot \in 1 .. NetSlots,
         NEW r \in NetRequests, NetReadable(slot, r), EfiNetRead(slot, r),
         UNCHANGED <<host, net_up, net_devices, net_boot>>
  PROVE  NetInv'
<1> DEFINE h == net_handles[slot]
<1>1. h # FreeSlot /\ IsHandle(h) /\ net_handles = [s \in 1 .. NetSlots |-> net_handles[s]]
  BY DEF NetReadable, NetOpened, NetInv, HandlesInv
<1>2. /\ UNCHANGED <<current_pxe_handle, tftp, net_work>>
      /\ current_pxe_handle = 0 /\ net_work = NoNetWork /\ net_up /\ net_faults \in Nat
  BY DEF EfiNetRead, NetReady, NetInv, RestInv, OnBios
<1> PICK d, f : \E n \in Nat, was \in {"none", "whole", "junk"} : h = Handle(d, f, n, was)
  BY <1>1 DEF IsHandle, Handle
<1>3. PICK n \in Nat, was \in {"none", "whole", "junk"} : h = Handle(d, f, n, was)
  OBVIOUS
<1>4. h.data = was /\ h.file = f /\ h.device = d
  BY <1>3 DEF Handle
<1>5. PICK data \in {"none", "whole", "junk"} :
        /\ OthersKept(net_handles, net_handles', slot, Handle(d, f, n, data))
        /\ was # "none" => data = was
  <2> HIDE DEF h
  <2>1. CASE \E v \in {"whole", "junk"}, keep \in BOOLEAN :
               /\ was = "none"
               /\ net_handles' = [net_handles EXCEPT ![slot].data = IF keep THEN v ELSE @]
    <3>1. PICK v \in {"whole", "junk", "none"} :
            net_handles' = [net_handles EXCEPT ![slot].data = v]
      BY <1>4, <2>1 DEF h
    <3> QED BY <1>1, <1>3, <2>1, <3>1, SetData DEF h
  <2>2. CASE net_handles' = net_handles
    BY <1>1, <1>3, <2>2 DEF OthersKept, h
  <2> QED BY <1>4, <2>1, <2>2 DEF EfiNetRead, h
<1>6. HandlesInv'
  BY <1>3, <1>5, HandleChanges
<1>7. RestInv' /\ WorkInv' /\ CurrentInv' /\ DevicesInv'
  BY <1>2 DEF NetInv, RestInv, WorkInv, CurrentInv, DevicesInv, OnBios
<1>8. /\ net_faults' \in Nat
      /\ \/ net_answer' = NetDone(slot, r, FileBytes(h, r))
         \/ net_answer'.status = "device_error" /\ net_faults' # 0
         \/ /\ data = "junk"
            /\ \E junk : net_answer' = NetDone(slot, r, junk)
  <2> HIDE DEF h
  <2>1. CASE net_answer' = NetDone(slot, r, FileBytes(h, r)) /\ UNCHANGED net_faults
    BY <1>2, <2>1
  <2>2. CASE NetFault("read")
    BY <1>2, <2>2 DEF NetFault
  <2>3. CASE /\ was # "none" /\ UNCHANGED net_faults
             /\ \E junk : net_answer' = NetDone(slot, r, IF was = "whole" THEN FileBytes(h, r) ELSE junk)
    BY <1>2, <1>5, <2>3
  <2> QED BY <1>4, <2>1, <2>2, <2>3 DEF EfiNetRead, h
<1>9. /\ net_handles'[slot] = Handle(d, f, n, data)
      /\ net_handles'[slot].data = data
      /\ net_handles'[slot].file = f /\ net_handles'[slot].device = d
  BY <1>5 DEF OthersKept, Handle
<1>10. TransferTrue'
  <2>1. CASE net_answer' = NetDone(slot, r, FileBytes(h, r))
    <3>1. /\ net_answer'.handle = slot /\ net_answer'.data = FileBytes(h, r)
          /\ net_answer'.read = r /\ net_answer'.status = "success"
      BY <2>1 DEF NetDone
    <3>2. FileBytes(h, r) = [k \in 1 .. r.count |-> <<net_devices'[d].server, f, r.offset + k - 1>>]
      BY <1>4 DEF FileBytes, ServerOf
    <3>3. (FileBytes(net_handles[net_answer.handle], net_answer.read))' = FileBytes(h, r)
      BY <1>9, <3>1, <3>2 DEF FileBytes, ServerOf
    <3> QED BY <1>2, <3>1, <3>3 DEF TransferTrue
  <2>2. CASE net_answer'.status = "device_error" /\ net_faults' # 0
    BY <1>2, <2>2 DEF TransferTrue
  <2>3. CASE data = "junk" /\ \E junk : net_answer' = NetDone(slot, r, junk)
    <3>1. net_answer'.handle = slot /\ net_answer'.status = "success"
      BY <2>3 DEF NetDone
    <3> QED BY <1>2, <1>9, <2>3, <3>1 DEF TransferTrue
  <2> QED BY <1>8, <2>1, <2>2, <2>3
<1> QED BY <1>6, <1>7, <1>8, <1>10 DEF NetInv

(* pxe_fs_read() up to its loop: no byte is copied.                        *)
LEMMA NothingYet ==
  ASSUME NEW slot, NEW r \in NetRequests, r.count # 0, NEW server, NEW file,
         NEW size \in Nat \ {0}, NEW pn \in Nat, pn <= r.offset \div size
  PROVE  Progress([handle |-> slot, start |-> r.offset \div size, offset |-> r.offset,
                   count |-> r.count, buf |-> <<>>, request |-> r],
                  slot, r, server, file, size, pn)
<1>1. r.offset \in Nat /\ r.count \in Nat \ {0}
  BY NetworkAssumption
<1>2. NetBytes(server, file, r.offset, r.offset - r.offset) = <<>>
  <2>1. 1 .. (r.offset - r.offset) = {}
    BY <1>1
  <2> QED BY <2>1 DEF NetBytes
<1> DEFINE start == r.offset \div size
<1>3. pn <= start
  OBVIOUS
<1> HIDE DEF start
<1>4. \E off \in Nat, left \in Nat \ {0} :
        /\ [handle |-> slot, start |-> start, offset |-> r.offset,
            count |-> r.count, buf |-> <<>>, request |-> r] =
           [handle |-> slot, start |-> start, offset |-> off, count |-> left,
            buf |-> NetBytes(server, file, r.offset, off - r.offset), request |-> r]
        /\ r.offset <= off /\ off + left = r.offset + r.count
        /\ Reached(pn, start, size, r.offset, off)
  <2> USE <1>1
  <2> WITNESS r.offset \in Nat, r.count \in Nat \ {0}
  <2> QED BY <1>1, <1>2, <1>3 DEF Reached
<1> QED BY <1>4 DEF Progress, start

LEMMA PxeReadStep ==
  ASSUME NetInv, NetReady, host.platform = "bios", NEW slot \in 1 .. NetSlots,
         NEW r \in NetRequests, NetReadable(slot, r), PxeRead(slot, r),
         UNCHANGED <<host, net_up, net_devices, net_boot>>
  PROVE  NetInv'
<1> DEFINE h == net_handles[slot]
           size == PacketOf(h)
           start == r.offset \div size
           w == [handle |-> slot, start |-> start, offset |-> r.offset, count |-> r.count,
                 buf |-> <<>>, request |-> r]
<1>1. h # FreeSlot /\ IsHandle(h) /\ size \in Nat \ {0} /\ r.count # 0
      /\ net_handles = [s \in 1 .. NetSlots |-> net_handles[s]]
  BY DEF NetReadable, NetOpened, NetInv, HandlesInv, OnBios
<1>2. r.offset \in Nat /\ r.count \in Nat \ {0} /\ start \in Nat
  <2>1. r.offset \in Nat /\ r.count \in Nat \ {0}
    BY <1>1, NetworkAssumption
  <2> HIDE DEF size
  <2> QED BY <1>1, <2>1, DivMod
<1>3. net_work = NoNetWork /\ net_up /\ net_faults \in Nat /\ slot # 0
  BY DEF NetReady, NetInv
<1> PICK d, f : \E n \in Nat, data \in {"none", "whole", "junk"} : h = Handle(d, f, n, data)
  BY <1>1 DEF IsHandle, Handle
<1>4. PICK n \in Nat, data \in {"none", "whole", "junk"} : h = Handle(d, f, n, data)
  OBVIOUS
<1>5. /\ h.device = d /\ h.file = f /\ h.packet_number = n
      /\ ServerOf(h) = net_devices[d].server
      /\ size = PACKET[net_devices[d].server]
  BY <1>4 DEF Handle, ServerOf, PacketOf
<1>6. DevicesInv'
  BY DEF NetInv, DevicesInv, OnBios
<1>7. CASE ~StartsAnew(slot, start) /\ net_work' = w /\ net_answer' = NoNetAnswer
           /\ UNCHANGED <<net_handles, current_pxe_handle, tftp, net_faults>>
  <2>1. slot = current_pxe_handle /\ n <= start
    <3> HIDE DEF start, h
    <3> QED BY <1>2, <1>5, <1>7 DEF StartsAnew, h
  <2>2. HandlesInv' /\ CurrentInv'
    BY <1>7 DEF NetInv, HandlesInv, CurrentInv, PacketOf, ServerOf, OnBios
  <2>3. WorkInv'
    <3>1. Progress(w, slot, r, ServerOf(h), h.file, size, h.packet_number)
      <4> HIDE DEF size, h
      <4> QED BY <1>1, <1>5, <2>1, NothingYet
    <3> HIDE DEF w
    <3> QED BY <1>3, <1>7, <2>1, <3>1 DEF WorkInv, PacketOf, ServerOf
  <2>4. RestInv' /\ TransferTrue'
    BY <1>3, <1>7, <2>1, <2>2 DEF NetInv, RestInv, TransferTrue, CurrentInv, NetOpened, NoNetAnswer, OnBios
  <2> QED BY <1>3, <1>6, <1>7, <2>2, <2>3, <2>4 DEF NetInv
<1>8. CASE /\ net_work' = w /\ SetCurrent(slot, h) /\ net_answer' = NoNetAnswer
           /\ net_handles' = [net_handles EXCEPT ![slot].packet_number = 0]
           /\ UNCHANGED net_faults
  <2> DEFINE new == Handle(d, f, 0, data)
  <2>1. OthersKept(net_handles, net_handles', slot, new)
    BY <1>1, <1>4, <1>8, SetPacketNumber
  <2>2. /\ current_pxe_handle' = slot
        /\ tftp' = [server |-> net_devices[d].server, file |-> f, next |-> 0]
    BY <1>3, <1>5, <1>8 DEF SetCurrent, Transfer
  <2>3. /\ net_handles'[slot] = new /\ new # FreeSlot
        /\ new.device = d /\ new.file = f /\ new.packet_number = 0
    BY <2>1 DEF OthersKept, Handle, FreeSlot
  <2>4. HandlesInv'
    BY <1>4, <2>1, HandleChanges
  <2> HIDE DEF new
  <2>5. CurrentInv'
    BY <1>3, <2>2, <2>3 DEF CurrentInv, ServerOf
  <2>6. WorkInv'
    <3>1. Progress(w, slot, r, net_devices[d].server, f, PACKET[net_devices[d].server], 0)
      <4>1. 0 \in Nat /\ 0 <= start
        BY <1>2
      <4> HIDE DEF size
      <4>2. Progress(w, slot, r, net_devices[d].server, f, size, 0)
        BY <1>1, <4>1, NothingYet
      <4> QED BY <1>5, <4>2
    <3> HIDE DEF w
    <3> QED BY <1>3, <1>8, <2>2, <2>3, <3>1 DEF WorkInv, PacketOf, ServerOf
  <2>7. RestInv' /\ TransferTrue'
    BY <1>3, <1>8, <2>2, <2>5 DEF NetInv, RestInv, TransferTrue, CurrentInv, NetOpened, NoNetAnswer, OnBios
  <2> QED BY <1>3, <1>6, <1>8, <2>4, <2>5, <2>6, <2>7 DEF NetInv
<1>9. CASE /\ NetFault("read") /\ SetCurrent(0, h) /\ UNCHANGED <<net_handles, net_work>>
  <2>1. /\ net_faults' \in Nat /\ net_faults' # 0 /\ current_pxe_handle' = 0
        /\ net_answer' = [op |-> "read", status |-> "device_error"]
    BY <1>3, <1>9 DEF NetFault, SetCurrent
  <2>2. HandlesInv' /\ CurrentInv' /\ WorkInv' /\ RestInv'
    BY <1>3, <1>9, <2>1 DEF NetInv, HandlesInv, CurrentInv, WorkInv, RestInv, PacketOf, ServerOf, OnBios
  <2>3. TransferTrue'
    BY <2>1 DEF TransferTrue
  <2> QED BY <1>6, <2>1, <2>2, <2>3 DEF NetInv
<1> QED BY <1>7, <1>8, <1>9 DEF PxeRead, PacketOf

(***************************************************************************)
(* One packet of the loop of pxe_fs_read().                                *)
(***************************************************************************)
(* What PacketBytes() takes from the packet is what comes next in the file.*)
Part(server, file, base, m, n) == [k \in 1 .. n |-> <<server, file, base + m + k - 1>>]
NextPart(base, m, off, n) ==
  base \in Nat /\ off \in Nat /\ m \in Nat /\ n \in Nat /\ (n # 0 => base + m = off)

LEMMA PacketIsNext ==
  ASSUME NEW server, NEW file, NEW base, NEW off, NEW m, NEW n, NextPart(base, m, off, n)
  PROVE  Part(server, file, base, m, n) = NetBytes(server, file, off, n)
<1>0. base \in Nat /\ off \in Nat /\ m \in Nat /\ n \in Nat /\ (n # 0 => base + m = off)
  BY DEF NextPart
<1>1. CASE n = 0
  <2>1. 1 .. n = {}
    BY <1>1
  <2> QED BY <2>1 DEF NetBytes, Part
<1>2. CASE n # 0
  <2>1. \A k \in 1 .. n : base + m + k - 1 = off + k - 1
    BY <1>0, <1>2
  <2>2. \A k \in 1 .. n : <<server, file, base + m + k - 1>> = <<server, file, off + k - 1>>
    BY <2>1, Zenon
  <2> DEFINE a == [k \in 1 .. n |-> <<server, file, base + m + k - 1>>]
             b == [k \in 1 .. n |-> <<server, file, off + k - 1>>]
  <2>3. a = b
    BY <2>2, Zenon
  <2> QED BY <2>3, Zenon DEF NetBytes, ByteOf, Part
<1> QED BY <1>1, <1>2

Advances(r, server, file, size, pn, off, left, n) ==
  LET got == NetBytes(server, file, r.offset, off - r.offset)
               \o Part(server, file, pn * size, off % size, n)
  IN
  /\ n = left => got = NetBytes(server, file, r.offset, r.count)
  /\ n # left => /\ off + n \in Nat /\ left - n \in Nat \ {0}
                 /\ got = NetBytes(server, file, r.offset, (off + n) - r.offset)
                 /\ r.offset <= off + n /\ (off + n) + (left - n) = r.offset + r.count
                 /\ Reached(pn + 1, r.offset \div size, size, r.offset, off + n)

LEMMA PacketAdvances ==
  ASSUME NEW r \in NetRequests, NEW server, NEW file, NEW size \in Nat \ {0}, NEW pn \in Nat,
         NEW off \in Nat, NEW left \in Nat \ {0},
         r.offset <= off, off + left = r.offset + r.count,
         Reached(pn, r.offset \div size, size, r.offset, off)
  PROVE  Advances(r, server, file, size, pn, off, left,
                  CopiedFrom(pn, r.offset \div size, size, off, left))
<1> DEFINE start == r.offset \div size
           n == CopiedFrom(pn, start, size, off, left)
           m == off % size
           base == pn * size
<1>1. r.offset \in Nat /\ r.count \in Nat
  BY NetworkAssumption
<1>2. /\ n \in Nat /\ n <= left
      /\ n # 0 => base + m = off
      /\ n # left => Reached(pn + 1, start, size, r.offset, off + n)
  <2> HIDE DEF n, start
  <2>0. start = r.offset \div size
    BY DEF start
  <2>1. BeforePacket(pn, start, size, r.offset, off, left)
    BY <1>1, <2>0 DEF BeforePacket
  <2>2. AfterPacket(pn, start, size, r.offset, off, left, n)
    BY <2>1, OnePacket, Zenon DEF n
  <2> QED BY <2>2 DEF AfterPacket
<1>3. m \in Nat /\ base \in Nat
  BY DivMod
<1> HIDE DEF n, m, base, start
<1>4. Part(server, file, base, m, n) = NetBytes(server, file, off, n)
  <2>1. NextPart(base, m, off, n)
    BY <1>2, <1>3 DEF NextPart
  <2> QED BY <2>1, PacketIsNext
<1>5. NetBytes(server, file, r.offset, off - r.offset) \o NetBytes(server, file, off, n)
        = NetBytes(server, file, r.offset, (off + n) - r.offset)
  <2> DEFINE from == r.offset
             so_far == off - r.offset
             all == (off + n) - r.offset
  <2>1. Adjacent(from, so_far, off, n, all)
    BY <1>1, <1>2 DEF Adjacent
  <2> HIDE DEF from, so_far, all
  <2>2. Joined(server, file, from, so_far, off, n, all)
    BY <2>1, JoinBytes, Zenon
  <2> QED BY <2>2, Zenon DEF Joined, from, so_far, all
<1>6. NetBytes(server, file, r.offset, off - r.offset) \o Part(server, file, base, m, n)
        = NetBytes(server, file, r.offset, (off + n) - r.offset)
  BY <1>4, <1>5, Zenon
<1>7. n = left => (off + n) - r.offset = r.count
  BY <1>1, <1>2
<1>8. n # left => /\ off + n \in Nat /\ left - n \in Nat \ {0}
                  /\ r.offset <= off + n /\ (off + n) + (left - n) = r.offset + r.count
  BY <1>1, <1>2
<1> DEFINE got == NetBytes(server, file, r.offset, off - r.offset) \o Part(server, file, base, m, n)
<1>9. got = NetBytes(server, file, r.offset, (off + n) - r.offset)
  BY <1>6
<1> HIDE DEF got
<1>10. /\ n = left => got = NetBytes(server, file, r.offset, r.count)
       /\ n # left => /\ off + n \in Nat /\ left - n \in Nat \ {0}
                      /\ got = NetBytes(server, file, r.offset, (off + n) - r.offset)
                      /\ r.offset <= off + n /\ (off + n) + (left - n) = r.offset + r.count
                      /\ Reached(pn + 1, start, size, r.offset, off + n)
  BY <1>2, <1>7, <1>8, <1>9
<1>11. Advances(r, server, file, size, pn, off, left, n)
  BY <1>10, Zenon DEF Advances, got, base, m, start
<1> QED BY <1>11 DEF n, start

Work(slot, start, off, left, buf, r) ==
  [handle |-> slot, start |-> start, offset |-> off, count |-> left, buf |-> buf, request |-> r]

LEMMA PacketStep ==
  ASSUME NetInv, ReadPacket
  PROVE  NetInv'
<1> DEFINE slot == current_pxe_handle
           h == net_handles[slot]
<1>1. /\ net_work # NoNetWork /\ tftp # NoTransfer
      /\ UNCHANGED <<host, net_up, net_devices, net_boot, current_pxe_handle, net_faults>>
  BY DEF ReadPacket
<1>2. PICK r \in NetRequests :
        /\ slot # 0
        /\ Progress(net_work, slot, r, ServerOf(h), h.file, PacketOf(h), h.packet_number)
  BY <1>1 DEF NetInv, WorkInv
<1>3. /\ slot \in 1 .. NetSlots /\ h # FreeSlot /\ IsHandle(h) /\ OnBios /\ net_up
      /\ net_handles = [s \in 1 .. NetSlots |-> net_handles[s]]
      /\ PacketOf(h) \in Nat \ {0}
      /\ tftp = [server |-> ServerOf(h), file |-> h.file, next |-> h.packet_number]
  BY <1>1, <1>2 DEF NetInv, CurrentInv, HandlesInv, RestInv
<1> PICK d, f : \E n \in Nat, data \in {"none", "whole", "junk"} : h = Handle(d, f, n, data)
  BY <1>3 DEF IsHandle, Handle
<1>4. PICK pn \in Nat, data \in {"none", "whole", "junk"} : h = Handle(d, f, pn, data)
  OBVIOUS
<1> DEFINE server == net_devices[d].server
           size == PACKET[server]
           start == r.offset \div size
<1>5. /\ h.device = d /\ h.file = f /\ h.packet_number = pn /\ h.data = data
      /\ ServerOf(h) = server /\ PacketOf(h) = size
  BY <1>4 DEF Handle, ServerOf, PacketOf
<1>6. size \in Nat \ {0} /\ tftp = [server |-> server, file |-> f, next |-> pn]
  BY <1>3, <1>5
<1>7. Progress(net_work, slot, r, server, f, size, pn)
  BY <1>2, <1>5
<1> HIDE DEF slot, h, server, size
<1>8. PICK off \in Nat, left \in Nat \ {0} :
        /\ net_work = Work(slot, start, off, left, NetBytes(server, f, r.offset, off - r.offset), r)
        /\ r.offset <= off /\ off + left = r.offset + r.count
        /\ Reached(pn, start, size, r.offset, off)
  BY <1>7, Zenon DEF Progress, Work
<1> DEFINE old == NetBytes(server, f, r.offset, off - r.offset)
           n == CopiedFrom(pn, start, size, off, left)
           got == old \o Part(server, f, pn * size, off % size, n)
<1>9. Advances(r, server, f, size, pn, off, left, n)
  BY <1>6, <1>8, PacketAdvances
<1> HIDE DEF start
<1>10. /\ net_work.handle = slot /\ net_work.start = start /\ net_work.offset = off
       /\ net_work.count = left /\ net_work.buf = old /\ net_work.request = r
  <2> HIDE DEF old
  <2> QED BY <1>8 DEF Work, old
<1>11. PacketSize = size
  BY <1>5, <1>10 DEF PacketSize, PacketOf, h
<1>12. PacketBytes(n) = Part(server, f, pn * size, off % size, n)
  <2> HIDE DEF n
  <2>1. tftp.server = server /\ tftp.file = f /\ tftp.next = pn
    BY <1>6
  <2> QED BY <1>10, <1>11, <2>1, Zenon DEF PacketBytes, Part
<1>13. /\ tftp' = [tftp EXCEPT !.next = @ + 1]
       /\ net_handles' = [net_handles EXCEPT ![slot].packet_number = pn + 1]
       /\ net_work' = IF n = left THEN NoNetWork
                      ELSE [net_work EXCEPT !.offset = off + n, !.count = left - n, !.buf = got]
       /\ net_answer' = IF n = left THEN NetDone(slot, r, got) ELSE NoNetAnswer
  <2> DEFINE m == IF net_handles[net_work.handle].packet_number < net_work.start THEN 0
                  ELSE LET rest == PacketSize - (net_work.offset % PacketSize)
                       IN IF net_work.count < rest THEN net_work.count ELSE rest
             buf == net_work.buf \o PacketBytes(m)
  <2>1. m = n
    BY <1>5, <1>10, <1>11 DEF CopiedFrom, h
  <2> HIDE DEF m
  <2>2. /\ net_handles' = [net_handles EXCEPT ![net_work.handle].packet_number = @ + 1]
        /\ net_work' = IF m = net_work.count THEN NoNetWork
                       ELSE [net_work EXCEPT !.offset = @ + m, !.count = @ - m, !.buf = buf]
        /\ net_answer' = IF m = net_work.count THEN NetDone(net_work.handle, net_work.request, buf)
                         ELSE NoNetAnswer
    BY Zenon DEF ReadPacket, m
  <2>3. buf = got
    BY <1>10, <1>12, <2>1
  <2> HIDE DEF buf, got, n
  <2>4. net_handles' = [net_handles EXCEPT ![slot].packet_number = pn + 1]
    BY <1>5, <1>10, <2>2 DEF h
  <2>5. tftp' = [tftp EXCEPT !.next = @ + 1]
    BY DEF ReadPacket
  <2> QED BY <1>10, <2>1, <2>2, <2>3, <2>4, <2>5
<1> HIDE DEF n, old, got
<1>14. OthersKept(net_handles, net_handles', slot, Handle(d, f, pn + 1, data))
  BY <1>3, <1>4, <1>13, SetPacketNumber DEF h
<1>15. /\ net_handles'[slot].device = d /\ net_handles'[slot].file = f
       /\ net_handles'[slot].packet_number = pn + 1 /\ net_handles'[slot] # FreeSlot
  <2> DEFINE next == pn + 1
             new == Handle(d, f, next, data)
  <2> HIDE DEF next
  <2>1. net_handles'[slot] = new
    BY <1>14, Zenon DEF OthersKept, next
  <2>2. new.device = d /\ new.file = f /\ new.packet_number = next /\ new # FreeSlot
    BY DEF Handle, FreeSlot
  <2> HIDE DEF new
  <2> QED BY <2>1, <2>2 DEF next
<1>16. HandlesInv'
  BY <1>1, <1>3, <1>4, <1>14, HandleChanges DEF h
<1>17. DevicesInv' /\ RestInv'
  BY <1>1, <1>3 DEF NetInv, DevicesInv, RestInv, OnBios
<1>18. CurrentInv'
  <2>1. tftp' = [server |-> server, file |-> f, next |-> pn + 1]
    BY <1>6, <1>13
  <2>2. net_devices'[d].server = server /\ current_pxe_handle' = slot
    BY <1>1 DEF server, slot
  <2> QED BY <1>3, <1>15, <2>1, <2>2 DEF CurrentInv, ServerOf
<1>19. CASE n = left
  <2>1. got = NetBytes(server, f, r.offset, r.count)
    BY <1>9, <1>19, Zenon DEF Advances, got, old
  <2>2. /\ net_answer'.op = "read" /\ net_answer'.status = "success"
        /\ net_answer'.handle = slot /\ net_answer'.read = r /\ net_answer'.data = got
    BY <1>13, <1>19 DEF NetDone
  <2>3. (FileBytes(net_handles[net_answer.handle], net_answer.read))' = NetBytes(server, f, r.offset, r.count)
    <3>1. net_devices'[net_handles'[slot].device].server = server
      BY <1>1, <1>15 DEF server
    <3> QED BY <1>15, <2>2, <3>1, Zenon DEF FileBytes, ServerOf, NetBytes, ByteOf
  <2>4. TransferTrue'
    BY <1>18, <2>1, <2>2, <2>3 DEF TransferTrue, CurrentInv, NetOpened
  <2>5. WorkInv'
    BY <1>13, <1>19 DEF WorkInv
  <2> QED BY <1>1, <1>16, <1>17, <1>18, <2>4, <2>5 DEF NetInv
<1>20. CASE n # left
  <2> DEFINE off2 == off + n
             left2 == left - n
  <2>1. /\ off2 \in Nat /\ left2 \in Nat \ {0}
        /\ got = NetBytes(server, f, r.offset, off2 - r.offset)
        /\ r.offset <= off2 /\ off2 + left2 = r.offset + r.count
        /\ Reached(pn + 1, start, size, r.offset, off2)
    BY <1>9, <1>20, Zenon DEF Advances, got, old, start
  <2> HIDE DEF off2, left2
  <2>2. net_work' = Work(slot, start, off2, left2, got, r)
    <3>1. net_work' = [net_work EXCEPT !.offset = off2, !.count = left2, !.buf = got]
      BY <1>13, <1>20 DEF off2, left2
    <3>2. net_work = Work(slot, start, off, left, old, r)
      BY <1>8 DEF old
    <3> QED BY <3>1, <3>2 DEF Work
  <2>3. Progress(Work(slot, start, off2, left2, got, r), slot, r, server, f, size, pn + 1)
    BY <2>1, Zenon DEF Progress, Work, start
  <2>4. WorkInv'
    <3>1. /\ net_devices'[net_handles'[slot].device].server = server
          /\ current_pxe_handle' = slot
      BY <1>1, <1>15 DEF server, slot
    <3>2. Progress(net_work', slot, r, server, f, PACKET[server], pn + 1)
      BY <2>2, <2>3 DEF size
    <3> QED BY <1>2, <1>15, <3>1, <3>2 DEF WorkInv, ServerOf, PacketOf
  <2>5. TransferTrue'
    BY <1>13, <1>18, <1>20 DEF TransferTrue, CurrentInv, NetOpened, NoNetAnswer
  <2> QED BY <1>1, <1>16, <1>17, <1>18, <2>4, <2>5 DEF NetInv
<1> QED BY <1>19, <1>20

LEMMA NetworkSteps ==
  ASSUME NetInv, [NetworkNext]_netVars
  PROVE  NetInv'
<1>1. CASE pxe_init \/ efi_net_init
  BY <1>1, RegisterStep
<1>2. CASE NetOpen
  BY <1>2, OpenStep
<1>3. CASE NetClose
  BY <1>3, CloseStep
<1>4. CASE NetRead
  <2>1. PICK slot \in 1 .. NetSlots, r \in NetRequests :
          /\ NetReadable(slot, r)
          /\ IF host.platform = "bios" THEN PxeRead(slot, r) ELSE EfiNetRead(slot, r)
    BY <1>4 DEF NetRead
  <2>2. NetReady /\ UNCHANGED <<host, net_up, net_devices, net_boot>>
    BY <1>4 DEF NetRead
  <2>3. CASE host.platform = "bios"
    BY <2>1, <2>2, <2>3, PxeReadStep
  <2>4. CASE host.platform # "bios"
    BY <2>1, <2>2, <2>4, EfiReadStep
  <2> QED BY <2>3, <2>4
<1>5. CASE ReadPacket
  BY <1>5, PacketStep
<1>6. CASE ReadPacketFails
  BY <1>6, PacketFailsStep
<1>7. CASE UNCHANGED netVars
  BY <1>7 DEF netVars, NetInv, HandlesInv, DevicesInv, RestInv, CurrentInv, WorkInv, TransferTrue,
              PacketOf, ServerOf, OnBios, NetOpened, FileBytes
<1> QED BY <1>1, <1>2, <1>3, <1>4, <1>5, <1>6, <1>7 DEF NetworkNext

(* A read returns the bytes of its own file on its device's server, though *)
(* all handles of pxe.c share one transfer that only goes forward, and     *)
(* only a call of the firmware that fails makes one fail; the exception is *)
(* the file of efi/net.c whose transfer has failed once.                   *)
THEOREM NetworkTransferTrue == NetworkSpec => []TransferTrue
<1>1. NetInv => TransferTrue
  BY DEF NetInv
<1>2. NetInv /\ [NetworkNext]_netVars => NetInv'
  BY NetworkSteps
<1> QED BY <1>1, <1>2, NetworkStarts, PTL DEF NetworkSpec

-----------------------------------------------------------------------------
(***************************************************************************)
(* Counting.                                                               *)
(***************************************************************************)
One(b) == IF b THEN 1 ELSE 0
CountAt(D, f, v) == Cardinality({x \in D : f[x] = v})

LEMMA CountType ==
  ASSUME NEW D, IsFiniteSet(D), NEW f, NEW v
  PROVE  CountAt(D, f, v) \in Nat /\ (CountAt(D, f, v) = 0 => \A x \in D : f[x] # v)
<1> DEFINE S == {x \in D : f[x] = v}
<1>1. IsFiniteSet(S)
  BY FS_Subset
<1>2. Cardinality(S) \in Nat /\ (Cardinality(S) = 0 <=> S = {})
  <2> HIDE DEF S
  <2> QED BY <1>1, FS_CardinalityType, FS_EmptySet
<1> QED BY <1>2 DEF CountAt

LEMMA CountSame ==
  ASSUME NEW D, NEW f, NEW g, \A x \in D : f[x] = g[x]
  PROVE  \A v : CountAt(D, f, v) = CountAt(D, g, v)
<1> SUFFICES ASSUME NEW v PROVE CountAt(D, f, v) = CountAt(D, g, v)
  OBVIOUS
<1>1. {x \in D : f[x] = v} = {x \in D : g[x] = v}
  OBVIOUS
<1> QED BY <1>1 DEF CountAt

(* One more element.                                                       *)
LEMMA CountMore ==
  ASSUME NEW D, IsFiniteSet(D), NEW i, i \notin D, NEW f, NEW v
  PROVE  CountAt(D \cup {i}, f, v) = CountAt(D, f, v) + One(f[i] = v)
<1> DEFINE S == {x \in D : f[x] = v}
           T == {x \in D \cup {i} : f[x] = v}
<1>1. IsFiniteSet(S) /\ Cardinality(S) \in Nat
  <2>1. IsFiniteSet(S)
    BY FS_Subset
  <2> HIDE DEF S
  <2> QED BY <2>1, FS_CardinalityType
<1>2. CASE f[i] = v
  <2>1. T = S \cup {i} /\ i \notin S
    BY <1>2
  <2>2. Cardinality(S \cup {i}) = Cardinality(S) + 1
    <3> HIDE DEF S
    <3> QED BY <1>1, <2>1, FS_AddElement
  <2> HIDE DEF S, T
  <2>3. Cardinality(T) = Cardinality(S) + 1
    BY <2>1, <2>2
  <2> QED BY <1>2, <2>3 DEF CountAt, One, S, T
<1>3. CASE f[i] # v
  <2>1. T = S
    BY <1>3
  <2> HIDE DEF S, T
  <2>2. Cardinality(T) = Cardinality(S) + 0
    BY <1>1, <2>1
  <2> QED BY <1>3, <2>2 DEF CountAt, One, S, T
<1> QED BY <1>2, <1>3

(* One element changes.                                                    *)
LEMMA CountChange ==
  ASSUME NEW D, IsFiniteSet(D), NEW i \in D, NEW f, NEW g, \A x \in D \ {i} : g[x] = f[x], NEW v
  PROVE  CountAt(D, g, v) + One(f[i] = v) = CountAt(D, f, v) + One(g[i] = v)
<1> DEFINE R == D \ {i}
<1>1. IsFiniteSet(R) /\ i \notin R /\ R \cup {i} = D
  BY FS_RemoveElement
<1>2. CountAt(R, f, v) = CountAt(R, g, v)
  BY CountSame
<1> HIDE DEF R
<1>3. CountAt(D, f, v) = CountAt(R, f, v) + One(f[i] = v)
  BY <1>1, CountMore
<1>4. CountAt(D, g, v) = CountAt(R, g, v) + One(g[i] = v)
  BY <1>1, CountMore
<1>5. CountAt(R, f, v) \in Nat /\ One(f[i] = v) \in Nat /\ One(g[i] = v) \in Nat
  BY <1>1, CountType DEF One
<1> QED BY <1>2, <1>3, <1>4, <1>5

-----------------------------------------------------------------------------
(***************************************************************************)
(* References.  Those of loaders and commands are H, those of environments *)
(* E; the walk of fs_open() holds its directory as a command would.        *)
(***************************************************************************)
Nodes == DOMAIN Owner
FileHandle == [node : Nodes \cup {NONE}, count : Nat, source : {0} \cup Ids]
Devices == DOMAIN Root \cup {Owner[n] : n \in DOMAIN Owner}
Environment == [device : Devices, directory : {0} \cup Ids]

EnvRefs(E, h) == Cardinality({i \in 1 .. Len(E) : E[i].directory = h})
SourceRefs(t, h) == Cardinality({w \in Ids : t[w].source = h})
MountRefs(t, h) == Cardinality({n \in PermanentNodes : t[h].node = n /\ t[h].source = 0})
ImageRefs(h) == IF h = ImageHandle THEN 1 ELSE 0
Refs(t, H, E, h) == H[h] + EnvRefs(E, h) + SourceRefs(t, h) + MountRefs(t, h) + ImageRefs(h)

IsMounted(r) == r.node \in PermanentNodes /\ r.source = 0
DirectoryOf(t, env) ==
  /\ t[env.directory].source = 0 /\ IsDir(t[env.directory].node)
  /\ Owner[t[env.directory].node] = env.device

(* The table of handles and all references to them.                        *)
Good(t, H, E) ==
  /\ t \in [Ids -> FileHandle] /\ H \in [Ids -> Nat] /\ E \in Seq(Environment)
  /\ \A h \in Ids : Refs(t, H, E, h) <= t[h].count
  /\ \A h \in Ids : t[h].source # 0 => t[t[h].source].source = 0
  /\ \A n \in PermanentNodes : \E h \in Ids : t[h].node = n /\ t[h].source = 0
  /\ ImageHandle # 0 => t[ImageHandle].source # 0
  /\ \A i \in 1 .. Len(E) : E[i].directory # 0 => DirectoryOf(t, E[i])

LEMMA IdsFact ==
  IsFiniteSet(Ids) /\ 0 \notin Ids /\ Ids \subseteq Nat /\ (ImageHandle # 0 => ImageHandle \in Ids)
  /\ PermanentNodes \subseteq Nodes /\ IsFiniteSet(PermanentNodes) /\ NONE \notin PermanentNodes /\ NONE \notin Nodes
<1>1. MaxHandles \in Nat
  BY FileSystemAssumption
<1>2. IsFiniteSet(1 .. MaxHandles)
  BY <1>1, FS_Interval
<1>3. PermanentNodes \subseteq Nodes /\ IsFiniteSet(Nodes) /\ NONE \notin Nodes
  BY FileSystemAssumption DEF PermanentNodes, Nodes
<1>4. IsFiniteSet(PermanentNodes)
  BY <1>3, FS_Subset
<1>5. ImageHandle # 0 => ImageHandle \in 1 .. MaxHandles
  <2> DEFINE n == Cardinality(PermanentNodes)
  <2>1. n \in Nat
    BY <1>4, FS_CardinalityType
  <2>2. ImageHandle # 0 => ImageHandle \in n + 1 .. MaxHandles - 1
    BY FileSystemAssumption
  <2> HIDE DEF n
  <2> QED BY <1>1, <2>1, <2>2
<1> QED BY <1>1, <1>2, <1>3, <1>4, <1>5 DEF Ids

LEMMA MountCount ==
  ASSUME NEW t, NEW h
  PROVE  MountRefs(t, h) = One(IsMounted(t[h]))
<1> DEFINE S == {n \in PermanentNodes : t[h].node = n /\ t[h].source = 0}
<1>1. CASE IsMounted(t[h])
  <2>1. S = {t[h].node}
    BY <1>1 DEF IsMounted
  <2>2. Cardinality({t[h].node}) = 1
    BY FS_Singleton
  <2> HIDE DEF S
  <2> QED BY <1>1, <2>1, <2>2 DEF MountRefs, One, S
<1>2. CASE ~IsMounted(t[h])
  <2>1. S = {}
    BY <1>2 DEF IsMounted
  <2> HIDE DEF S
  <2> QED BY <1>2, <2>1, FS_EmptySet DEF MountRefs, One, S
<1> QED BY <1>1, <1>2

LEMMA EnvCount ==
  ASSUME NEW E \in Seq(Environment)
  PROVE  \A h : /\ EnvRefs(E, h) = CountAt(1 .. Len(E), [i \in 1 .. Len(E) |-> E[i].directory], h)
                /\ EnvRefs(E, h) \in Nat
                /\ EnvRefs(E, h) = 0 => \A i \in 1 .. Len(E) : E[i].directory # h
<1> SUFFICES ASSUME NEW h
             PROVE  /\ EnvRefs(E, h) = CountAt(1 .. Len(E), [i \in 1 .. Len(E) |-> E[i].directory], h)
                    /\ EnvRefs(E, h) \in Nat
                    /\ EnvRefs(E, h) = 0 => \A i \in 1 .. Len(E) : E[i].directory # h
  OBVIOUS
<1> DEFINE D == 1 .. Len(E)
           f == [i \in D |-> E[i].directory]
<1>1. {i \in D : E[i].directory = h} = {i \in D : f[i] = h}
  OBVIOUS
<1>2. EnvRefs(E, h) = CountAt(D, f, h)
  BY <1>1 DEF EnvRefs, CountAt
<1>3. IsFiniteSet(D)
  <2>1. Len(E) \in Int /\ 1 \in Int
    OBVIOUS
  <2> QED BY <2>1, FS_Interval
<1>4. \A i \in D : f[i] = E[i].directory
  OBVIOUS
<1> HIDE DEF f, D
<1>5. CountAt(D, f, h) \in Nat /\ (CountAt(D, f, h) = 0 => \A x \in D : f[x] # h)
  BY <1>3, CountType
<1> QED BY <1>2, <1>4, <1>5 DEF D, f

LEMMA SourceCount ==
  ASSUME NEW t
  PROVE  \A h : /\ SourceRefs(t, h) = CountAt(Ids, [w \in Ids |-> t[w].source], h)
                /\ SourceRefs(t, h) \in Nat
                /\ SourceRefs(t, h) = 0 => \A w \in Ids : t[w].source # h
<1> SUFFICES ASSUME NEW h
             PROVE  /\ SourceRefs(t, h) = CountAt(Ids, [w \in Ids |-> t[w].source], h)
                    /\ SourceRefs(t, h) \in Nat
                    /\ SourceRefs(t, h) = 0 => \A w \in Ids : t[w].source # h
  OBVIOUS
<1> DEFINE f == [w \in Ids |-> t[w].source]
<1>1. {i \in Ids : t[i].source = h} = {i \in Ids : f[i] = h}
  OBVIOUS
<1>2. SourceRefs(t, h) = CountAt(Ids, f, h)
  BY <1>1 DEF SourceRefs, CountAt
<1>3. IsFiniteSet(Ids)
  BY IdsFact
<1>4. \A i \in Ids : f[i] = t[i].source
  OBVIOUS
<1> HIDE DEF f
<1>5. CountAt(Ids, f, h) \in Nat /\ (CountAt(Ids, f, h) = 0 => \A x \in Ids : f[x] # h)
  BY <1>3, CountType
<1> QED BY <1>2, <1>4, <1>5 DEF f

(* What each part of the count can be, and what it is to have no other.    *)
LEMMA RefsParts ==
  ASSUME NEW t, NEW H, NEW E, Good(t, H, E), NEW h \in Ids
  PROVE  /\ H[h] \in Nat /\ EnvRefs(E, h) \in Nat /\ SourceRefs(t, h) \in Nat /\ t[h].count \in Nat
         /\ One(IsMounted(t[h])) \in Nat /\ ImageRefs(h) \in Nat
         /\ Refs(t, H, E, h) = H[h] + EnvRefs(E, h) + SourceRefs(t, h) + One(IsMounted(t[h])) + ImageRefs(h)
         /\ Refs(t, H, E, h) <= t[h].count
<1>1. H[h] \in Nat /\ t[h] \in FileHandle /\ E \in Seq(Environment)
  BY DEF Good
<1>2. t[h].count \in Nat
  BY <1>1 DEF FileHandle
<1>3. One(IsMounted(t[h])) \in Nat /\ ImageRefs(h) \in Nat
  BY DEF One, ImageRefs
<1>4. MountRefs(t, h) = One(IsMounted(t[h]))
  BY MountCount
<1>5. EnvRefs(E, h) \in Nat /\ SourceRefs(t, h) \in Nat
  BY <1>1, EnvCount, SourceCount
<1>6. Refs(t, H, E, h) <= t[h].count
  BY DEF Good
<1> QED BY <1>1, <1>2, <1>3, <1>4, <1>5, <1>6 DEF Refs

Alone(t, H, E, h) ==
  /\ EnvRefs(E, h) = 0 /\ SourceRefs(t, h) = 0 /\ ~IsMounted(t[h]) /\ h # ImageHandle

LEMMA LastOne ==
  ASSUME NEW t, NEW H, NEW E, Good(t, H, E), NEW h \in Ids, t[h].count <= H[h]
  PROVE  Alone(t, H, E, h) /\ t[h].count = H[h]
<1>1. /\ H[h] \in Nat /\ EnvRefs(E, h) \in Nat /\ SourceRefs(t, h) \in Nat /\ t[h].count \in Nat
      /\ One(IsMounted(t[h])) \in Nat /\ ImageRefs(h) \in Nat
      /\ H[h] + EnvRefs(E, h) + SourceRefs(t, h) + One(IsMounted(t[h])) + ImageRefs(h) <= t[h].count
  BY RefsParts
<1>2. /\ EnvRefs(E, h) = 0 /\ SourceRefs(t, h) = 0 /\ One(IsMounted(t[h])) = 0 /\ ImageRefs(h) = 0
      /\ t[h].count = H[h]
  BY <1>1
<1> QED BY <1>2 DEF Alone, One, ImageRefs

-----------------------------------------------------------------------------
(***************************************************************************)
(* A step that changes one handle and who holds it.                        *)
(***************************************************************************)
Elsewhere(t, t2, H, H2, h) == \A x \in Ids \ {h} : t2[x] = t[x] /\ H2[x] = H[x]

(* The handle stays what it is, or nobody else has it.                     *)
LEMMA OneHandleStep ==
  ASSUME NEW t, NEW H, NEW E, Good(t, H, E), NEW h \in Ids,
         NEW t2 \in [Ids -> FileHandle], NEW H2 \in [Ids -> Nat], Elsewhere(t, t2, H, H2, h),
         t2[h].source = t[h].source,
         \/ t2[h].node = t[h].node /\ H2[h] + t[h].count <= H[h] + t2[h].count
         \/ Alone(t, H, E, h) /\ t2[h].node \notin PermanentNodes /\ H2[h] <= t2[h].count
  PROVE  Good(t2, H2, E)
<1>1. /\ t \in [Ids -> FileHandle] /\ H \in [Ids -> Nat] /\ E \in Seq(Environment)
      /\ \A x \in Ids : t[x].source # 0 => t[t[x].source].source = 0
      /\ \A n \in PermanentNodes : \E x \in Ids : t[x].node = n /\ t[x].source = 0
      /\ ImageHandle # 0 => t[ImageHandle].source # 0
      /\ \A i \in 1 .. Len(E) : E[i].directory # 0 => DirectoryOf(t, E[i])
  BY DEF Good
<1>2. \A x \in Ids : t2[x].source = t[x].source
  BY DEF Elsewhere
<1>3. \A x : SourceRefs(t2, x) = SourceRefs(t, x)
  <2> SUFFICES ASSUME NEW x PROVE SourceRefs(t2, x) = SourceRefs(t, x)
    OBVIOUS
  <2>1. {w \in Ids : t2[w].source = x} = {w \in Ids : t[w].source = x}
    BY <1>2
  <2> QED BY <2>1 DEF SourceRefs
<1>4. ASSUME NEW x \in Ids PROVE Refs(t2, H2, E, x) <= t2[x].count
  <2>1. /\ H[x] \in Nat /\ EnvRefs(E, x) \in Nat /\ SourceRefs(t, x) \in Nat /\ t[x].count \in Nat
        /\ One(IsMounted(t[x])) \in Nat /\ ImageRefs(x) \in Nat
        /\ H[x] + EnvRefs(E, x) + SourceRefs(t, x) + One(IsMounted(t[x])) + ImageRefs(x) <= t[x].count
    BY RefsParts
  <2>2. Refs(t2, H2, E, x) = H2[x] + EnvRefs(E, x) + SourceRefs(t, x) + One(IsMounted(t2[x])) + ImageRefs(x)
    BY <1>3, MountCount DEF Refs
  <2>3. H2[x] \in Nat /\ t2[x].count \in Nat
    BY DEF FileHandle
  <2>4. CASE x # h
    <3>1. t2[x] = t[x] /\ H2[x] = H[x]
      BY <2>4 DEF Elsewhere
    <3> QED BY <2>1, <2>2, <3>1
  <2>5. CASE x = h /\ t2[h].node = t[h].node /\ H2[h] + t[h].count <= H[h] + t2[h].count
    <3>1. One(IsMounted(t2[x])) = One(IsMounted(t[x]))
      BY <1>2, <2>5 DEF IsMounted
    <3> QED BY <2>1, <2>2, <2>3, <2>5, <3>1
  <2>6. CASE x = h /\ Alone(t, H, E, h) /\ t2[h].node \notin PermanentNodes /\ H2[h] <= t2[h].count
    <3>1. One(IsMounted(t2[x])) = 0 /\ EnvRefs(E, x) = 0 /\ SourceRefs(t, x) = 0 /\ ImageRefs(x) = 0
      BY <2>6 DEF IsMounted, Alone, One, ImageRefs
    <3> QED BY <2>2, <2>3, <2>6, <3>1
  <2> QED BY <2>4, <2>5, <2>6
<1>5. ASSUME NEW x \in Ids, x # h \/ ~Alone(t, H, E, h) PROVE t2[x].node = t[x].node
  BY <1>5 DEF Elsewhere
<1>6. ASSUME NEW n \in PermanentNodes PROVE \E x \in Ids : t2[x].node = n /\ t2[x].source = 0
  <2>1. PICK x \in Ids : t[x].node = n /\ t[x].source = 0
    BY <1>1
  <2>2. x # h \/ ~Alone(t, H, E, h)
    BY <2>1 DEF Alone, IsMounted
  <2> QED BY <1>2, <1>5, <2>1, <2>2
<1>7. ASSUME NEW i \in 1 .. Len(E), E[i].directory # 0 PROVE DirectoryOf(t2, E[i])
  <2> DEFINE d == E[i].directory
  <2>1. d \in Ids /\ DirectoryOf(t, E[i])
    <3>1. E[i] \in Environment
      BY <1>1
    <3> QED BY <1>1, <1>7, <3>1 DEF Environment
  <2>2. d # h \/ ~Alone(t, H, E, h)
    BY <1>1, EnvCount, ZenonT(30) DEF Alone
  <2>3. t2[d].node = t[d].node /\ t2[d].source = t[d].source
    BY <1>2, <1>5, <2>1, <2>2
  <2> QED BY <2>1, <2>3 DEF DirectoryOf
<1>8. \A x \in Ids : t2[x].source # 0 => t2[t2[x].source].source = 0
  <2> SUFFICES ASSUME NEW x \in Ids, t2[x].source # 0 PROVE t2[t2[x].source].source = 0
    OBVIOUS
  <2>1. t[x] \in FileHandle
    BY <1>1
  <2>2. t[x].source \in Ids
    BY <1>2, <2>1 DEF FileHandle
  <2> QED BY <1>1, <1>2, <2>2, ZenonT(30)
<1>9. ImageHandle # 0 => t2[ImageHandle].source # 0
  BY <1>1, <1>2, IdsFact
<1> QED BY <1>1, <1>4, <1>6, <1>7, <1>8, <1>9 DEF Good

More(H, h) == [H EXCEPT ![h] = @ + 1]
Less(H, h) == [H EXCEPT ![h] = @ - 1]

LEMMA MoreFact ==
  ASSUME NEW H \in [Ids -> Nat], NEW h \in Ids
  PROVE  More(H, h) \in [Ids -> Nat] /\ \A x \in Ids : More(H, h)[x] = IF x = h THEN H[h] + 1 ELSE H[x]
BY DEF More

LEMMA LessFact ==
  ASSUME NEW H \in [Ids -> Nat], NEW h \in Ids, H[h] # 0
  PROVE  Less(H, h) \in [Ids -> Nat] /\ \A x \in Ids : Less(H, h)[x] = IF x = h THEN H[h] - 1 ELSE H[x]
BY DEF Less

(* fs_retain().                                                            *)
LEMMA RetainOK ==
  ASSUME NEW t, NEW H, NEW E, Good(t, H, E), NEW h \in Ids, t[h].count + 1 < COUNT_MOD
  PROVE  /\ Good(Retain(t, h), More(H, h), E)
         /\ \A x \in Ids : /\ Retain(t, h)[x].node = t[x].node /\ Retain(t, h)[x].source = t[x].source
                           /\ Retain(t, h)[x].count = IF x = h THEN t[h].count + 1 ELSE t[x].count
<1> DEFINE t2 == Retain(t, h)
           H2 == More(H, h)
           c == (t[h].count + 1) % COUNT_MOD
<1>1. t \in [Ids -> FileHandle] /\ H \in [Ids -> Nat] /\ t[h] \in FileHandle
  BY DEF Good
<1>2. t[h].count \in Nat /\ t[h].node \in Nodes \cup {NONE} /\ t[h].source \in {0} \cup Ids
  BY <1>1 DEF FileHandle
<1>3. c = t[h].count + 1 /\ c \in Nat
  <2> DEFINE n == t[h].count + 1
  <2>1. n \in Nat /\ n < COUNT_MOD /\ COUNT_MOD \in Nat
    BY <1>2, FileSystemAssumption
  <2> HIDE DEF n
  <2>2. n % COUNT_MOD = n
    BY <2>1
  <2> QED BY <2>1, <2>2 DEF n
<1> HIDE DEF c
<1>4. t2 = [t EXCEPT ![h].count = c]
  BY DEF Retain, c
<1>5. t2[h] = [node |-> t[h].node, count |-> c, source |-> t[h].source]
  BY <1>1, <1>4 DEF FileHandle
<1>6. \A x \in Ids \ {h} : t2[x] = t[x]
  BY <1>1, <1>4
<1>7. t2 \in [Ids -> FileHandle]
  <2>1. [node |-> t[h].node, count |-> c, source |-> t[h].source] \in FileHandle
    BY <1>2, <1>3 DEF FileHandle
  <2>2. t2 = [t EXCEPT ![h] = [node |-> t[h].node, count |-> c, source |-> t[h].source]]
    BY <1>1, <1>4, <1>5, <1>6
  <2> QED BY <1>1, <2>1, <2>2
<1> HIDE DEF t2
<1>8. H2 \in [Ids -> Nat] /\ H2[h] = H[h] + 1 /\ \A x \in Ids \ {h} : H2[x] = H[x]
  BY <1>1, MoreFact
<1>9. H[h] \in Nat
  BY <1>1
<1> HIDE DEF H2
<1>10. /\ t2[h].source = t[h].source /\ t2[h].node = t[h].node /\ t2[h].count = t[h].count + 1
       /\ H2[h] + t[h].count <= H[h] + t2[h].count
  BY <1>2, <1>3, <1>5, <1>8, <1>9
<1>11. Elsewhere(t, t2, H, H2, h)
  BY <1>6, <1>8 DEF Elsewhere
<1>12. Good(t2, H2, E)
  BY <1>7, <1>8, <1>10, <1>11, OneHandleStep
<1> QED BY <1>6, <1>10, <1>12 DEF t2, H2

(* fs_close() of a handle that is not compressed, or has other references. *)
LEMMA ReleaseOK ==
  ASSUME NEW t, NEW H, NEW E, Good(t, H, E), NEW h \in Ids, H[h] # 0, t[h].source = 0 \/ t[h].count # 1
  PROVE  /\ Good(Release(t, h), Less(H, h), E)
         /\ \A x \in Ids : /\ Release(t, h)[x].source = t[x].source
                           /\ Less(H, h)[x] # 0 \/ x # h => Release(t, h)[x].node = t[x].node
                           /\ Release(t, h)[x].count = IF x = h THEN t[h].count - 1 ELSE t[x].count
         /\ \A x \in Ids : t[x] = Unused => Release(t, h)[x] = Unused
         /\ t[h].count # 0
<1> DEFINE t2 == Release(t, h)
           H2 == Less(H, h)
<1>1. t \in [Ids -> FileHandle] /\ H \in [Ids -> Nat] /\ t[h] \in FileHandle /\ H[h] \in Nat
  BY DEF Good
<1>2. t[h].count \in Nat /\ t[h].node \in Nodes \cup {NONE} /\ t[h].source \in {0} \cup Ids
  BY <1>1 DEF FileHandle
<1>3. H2 \in [Ids -> Nat] /\ H2[h] = H[h] - 1 /\ \A x \in Ids \ {h} : H2[x] = H[x]
  BY <1>1, LessFact
<1>4. H[h] <= t[h].count
  <2>1. /\ H[h] \in Nat /\ EnvRefs(E, h) \in Nat /\ SourceRefs(t, h) \in Nat /\ t[h].count \in Nat
        /\ One(IsMounted(t[h])) \in Nat /\ ImageRefs(h) \in Nat
        /\ H[h] + EnvRefs(E, h) + SourceRefs(t, h) + One(IsMounted(t[h])) + ImageRefs(h) <= t[h].count
    BY RefsParts
  <2> QED BY <2>1
<1>5. t[h].count # 0 /\ t[h] # Unused
  BY <1>1, <1>2, <1>4 DEF Unused
<1>6. CASE t[h].count = 1
  <2>1. t2 = [t EXCEPT ![h] = Unused] /\ t[h].source = 0
    BY <1>6 DEF Release
  <2>2. Unused \in FileHandle /\ Unused.node = NONE /\ Unused.count = 0 /\ Unused.source = 0
    BY DEF Unused, FileHandle
  <2>3. t2 \in [Ids -> FileHandle] /\ t2[h] = Unused /\ \A x \in Ids \ {h} : t2[x] = t[x]
    BY <1>1, <2>1, <2>2
  <2> HIDE DEF t2, H2
  <2>4. H[h] = 1 /\ H2[h] = 0
    BY <1>1, <1>3, <1>4, <1>6
  <2>5. Alone(t, H, E, h)
    <3>1. t[h].count <= H[h]
      BY <1>6, <2>4
    <3> QED BY <3>1, LastOne
  <2>6. t2[h].node \notin PermanentNodes /\ t2[h].source = t[h].source /\ t2[h].count = 0 /\ H2[h] <= t2[h].count
    BY <2>1, <2>2, <2>3, <2>4, IdsFact
  <2>7. Elsewhere(t, t2, H, H2, h)
    BY <1>3, <2>3 DEF Elsewhere
  <2>8. Good(t2, H2, E)
    BY <1>3, <2>3, <2>5, <2>6, <2>7, OneHandleStep
  <2> QED BY <1>3, <1>5, <1>6, <2>1, <2>3, <2>4, <2>6, <2>8 DEF t2, H2
<1>7. CASE t[h].count # 1
  <2> DEFINE c == t[h].count - 1
  <2>1. c \in Nat
    BY <1>2, <1>5
  <2>2. t2 = [t EXCEPT ![h].count = c]
    BY <1>7 DEF Release
  <2> HIDE DEF c
  <2>3. t2[h] = [node |-> t[h].node, count |-> c, source |-> t[h].source]
    BY <1>1, <2>2 DEF FileHandle
  <2>4. \A x \in Ids \ {h} : t2[x] = t[x]
    BY <1>1, <2>2
  <2>5. t2 \in [Ids -> FileHandle]
    <3>1. [node |-> t[h].node, count |-> c, source |-> t[h].source] \in FileHandle
      BY <1>2, <2>1 DEF FileHandle
    <3>2. t2 = [t EXCEPT ![h] = [node |-> t[h].node, count |-> c, source |-> t[h].source]]
      BY <1>1, <2>2, <2>3, <2>4
    <3> QED BY <1>1, <3>1, <3>2
  <2> HIDE DEF t2, H2
  <2>6. /\ t2[h].source = t[h].source /\ t2[h].node = t[h].node /\ t2[h].count = t[h].count - 1
        /\ H2[h] + t[h].count <= H[h] + t2[h].count
    BY <1>1, <1>2, <1>3, <2>3 DEF c
  <2>7. Elsewhere(t, t2, H, H2, h)
    BY <1>3, <2>4 DEF Elsewhere
  <2>8. Good(t2, H2, E)
    BY <1>3, <2>5, <2>6, <2>7, OneHandleStep
  <2> QED BY <1>5, <2>4, <2>6, <2>8 DEF t2, H2
<1> QED BY <1>6, <1>7

(* malloc() of a handle.                                                   *)
NewEntry(t, t2, h, n) == t2 = [t EXCEPT ![h] = [node |-> n, count |-> 1, source |-> 0]]

LEMMA NewOK ==
  ASSUME NEW t, NEW H, NEW E, Good(t, H, E), NEW h \in Ids, t[h] = Unused, NEW n \in Nodes \ PermanentNodes,
         NEW t2, NewEntry(t, t2, h, n)
  PROVE  /\ Good(t2, More(H, h), E)
         /\ t2[h].node = n /\ t2[h].source = 0 /\ t2[h].count = 1 /\ t[h].count = 0 /\ t[h].source = 0
         /\ \A x \in Ids \ {h} : t2[x] = t[x]
<1> DEFINE H2 == More(H, h)
           v == [node |-> n, count |-> 1, source |-> 0]
<1>1. t \in [Ids -> FileHandle] /\ H \in [Ids -> Nat] /\ H[h] \in Nat
  BY DEF Good
<1>2. v \in FileHandle /\ v.node = n /\ v.count = 1 /\ v.source = 0
  BY DEF FileHandle
<1>3. t2 \in [Ids -> FileHandle] /\ t2[h] = v /\ \A x \in Ids \ {h} : t2[x] = t[x]
  BY <1>1, <1>2 DEF NewEntry
<1>4. t[h].count = 0 /\ t[h].source = 0
  BY DEF Unused
<1> HIDE DEF v
<1>5. Alone(t, H, E, h) /\ H[h] = 0
  <2>1. t[h].count <= H[h]
    BY <1>1, <1>4
  <2> QED BY <1>4, <2>1, LastOne
<1>6. H2 \in [Ids -> Nat] /\ H2[h] = 1 /\ \A x \in Ids \ {h} : H2[x] = H[x]
  BY <1>1, <1>5, MoreFact
<1> HIDE DEF H2
<1>7. Elsewhere(t, t2, H, H2, h)
  BY <1>3, <1>6 DEF Elsewhere
<1>8. Good(t2, H2, E)
  <2>1. t2[h].node \notin PermanentNodes /\ t2[h].source = t[h].source /\ H2[h] <= t2[h].count
    BY <1>2, <1>3, <1>4, <1>6
  <2> QED BY <1>3, <1>5, <1>6, <1>7, <2>1, OneHandleStep
<1> QED BY <1>2, <1>3, <1>4, <1>8 DEF H2

-----------------------------------------------------------------------------
(***************************************************************************)
(* Steps that make and free a compressed file: its reference to the file   *)
(* it reads from was, or becomes, one that a command holds.                *)
(***************************************************************************)
Sourced(t, H, t2, H2, h, s) ==
  /\ t2 \in [Ids -> FileHandle] /\ H2 \in [Ids -> Nat] /\ h \in Ids /\ s \in Ids /\ h # s /\ t[s].source = 0
  /\ \A x \in Ids \ {h} : t2[x] = t[x]
  /\ \A x \in Ids \ {h, s} : H2[x] = H[x]
  /\ ~IsMounted(t2[h]) /\ H2[h] <= t2[h].count
  /\ \/ t[h].source = s /\ t2[h].source = 0 /\ H2[s] = H[s] + 1
     \/ t[h].source = 0 /\ t2[h].source = s /\ H2[s] + 1 = H[s]

LEMMA SourceStep ==
  ASSUME NEW t, NEW H, NEW E, Good(t, H, E), NEW h, NEW s, Alone(t, H, E, h),
         NEW t2, NEW H2, Sourced(t, H, t2, H2, h, s)
  PROVE  Good(t2, H2, E)
<1> USE DEF Sourced
<1>1. /\ t \in [Ids -> FileHandle] /\ H \in [Ids -> Nat] /\ E \in Seq(Environment)
      /\ \A x \in Ids : t[x].source # 0 => t[t[x].source].source = 0
      /\ \A n \in PermanentNodes : \E x \in Ids : t[x].node = n /\ t[x].source = 0
      /\ ImageHandle # 0 => t[ImageHandle].source # 0
      /\ \A i \in 1 .. Len(E) : E[i].directory # 0 => DirectoryOf(t, E[i])
  BY DEF Good
<1>2. s # 0 /\ h # 0
  BY IdsFact
<1>3. ASSUME NEW x \in Ids
      PROVE  SourceRefs(t2, x) + One(t[h].source = x) = SourceRefs(t, x) + One(t2[h].source = x)
  <2> DEFINE f == [w \in Ids |-> t[w].source]
             g == [w \in Ids |-> t2[w].source]
  <2>1. SourceRefs(t, x) = CountAt(Ids, f, x) /\ SourceRefs(t2, x) = CountAt(Ids, g, x)
    BY SourceCount
  <2>2. f[h] = t[h].source /\ g[h] = t2[h].source /\ \A w \in Ids \ {h} : g[w] = f[w]
    OBVIOUS
  <2> HIDE DEF f, g
  <2>3. CountAt(Ids, g, x) + One(f[h] = x) = CountAt(Ids, f, x) + One(g[h] = x)
    BY <2>2, CountChange, IdsFact, SMTT(30)
  <2> QED BY <2>1, <2>2, <2>3
<1>4. ASSUME NEW x \in Ids PROVE Refs(t2, H2, E, x) <= t2[x].count
  <2>1. /\ H[x] \in Nat /\ EnvRefs(E, x) \in Nat /\ SourceRefs(t, x) \in Nat /\ t[x].count \in Nat
        /\ One(IsMounted(t[x])) \in Nat /\ ImageRefs(x) \in Nat
        /\ H[x] + EnvRefs(E, x) + SourceRefs(t, x) + One(IsMounted(t[x])) + ImageRefs(x) <= t[x].count
    BY RefsParts
  <2>2. Refs(t2, H2, E, x) = H2[x] + EnvRefs(E, x) + SourceRefs(t2, x) + One(IsMounted(t2[x])) + ImageRefs(x)
    BY MountCount DEF Refs
  <2>3. H2[x] \in Nat /\ t2[x].count \in Nat /\ SourceRefs(t2, x) \in Nat
    BY SourceCount DEF FileHandle
  <2>4. SourceRefs(t2, x) + One(t[h].source = x) = SourceRefs(t, x) + One(t2[h].source = x)
    BY <1>3
  <2>5. CASE x # h /\ x # s
    <3>1. t2[x] = t[x] /\ H2[x] = H[x] /\ One(t[h].source = x) = 0 /\ One(t2[h].source = x) = 0
      BY <1>2, <2>5, IdsFact DEF One
    <3> QED BY <2>1, <2>2, <2>3, <2>4, <3>1
  <2>6. CASE x = s
    <3>1. t2[x] = t[x]
      BY <2>6
    <3>2. H2[x] + SourceRefs(t2, x) = H[x] + SourceRefs(t, x)
      <4>1. CASE t[h].source = s /\ t2[h].source = 0 /\ H2[s] = H[s] + 1
        <5>1. One(t[h].source = x) = 1 /\ One(t2[h].source = x) = 0
          BY <1>2, <2>6, <4>1 DEF One
        <5> QED BY <2>1, <2>3, <2>4, <2>6, <4>1, <5>1
      <4>2. CASE t[h].source = 0 /\ t2[h].source = s /\ H2[s] + 1 = H[s]
        <5>1. One(t[h].source = x) = 0 /\ One(t2[h].source = x) = 1
          BY <1>2, <2>6, <4>2 DEF One
        <5> QED BY <2>1, <2>3, <2>4, <2>6, <4>2, <5>1
      <4> QED BY <4>1, <4>2
    <3> QED BY <2>1, <2>2, <2>3, <3>1, <3>2
  <2>7. CASE x = h
    <3>1. One(t[h].source = x) = 0 /\ One(t2[h].source = x) = 0
      BY <1>2, <2>7 DEF One
    <3>2. EnvRefs(E, x) = 0 /\ SourceRefs(t, x) = 0 /\ One(IsMounted(t2[x])) = 0 /\ ImageRefs(x) = 0
      BY <2>7 DEF Alone, One, ImageRefs
    <3> QED BY <2>2, <2>3, <2>4, <2>7, <3>1, <3>2
  <2> QED BY <2>5, <2>6, <2>7
<1>5. ASSUME NEW n \in PermanentNodes PROVE \E x \in Ids : t2[x].node = n /\ t2[x].source = 0
  <2>1. PICK x \in Ids : t[x].node = n /\ t[x].source = 0
    BY <1>1
  <2>2. x # h
    BY <2>1 DEF Alone, IsMounted
  <2> QED BY <2>1, <2>2
<1>6. ASSUME NEW i \in 1 .. Len(E), E[i].directory # 0 PROVE DirectoryOf(t2, E[i])
  <2> DEFINE d == E[i].directory
  <2>1. d \in Ids /\ DirectoryOf(t, E[i])
    <3>1. E[i] \in Environment
      BY <1>1
    <3> QED BY <1>1, <1>6, <3>1 DEF Environment
  <2>2. d # h
    <3>1. EnvRefs(E, h) = 0
      BY DEF Alone
    <3>2. \A j \in 1 .. Len(E) : E[j].directory # h
      BY <1>1, <3>1, EnvCount, ZenonT(30)
    <3> QED BY <3>2
  <2> QED BY <2>1, <2>2 DEF DirectoryOf
<1>7. \A x \in Ids : t2[x].source # 0 => t2[t2[x].source].source = 0
  <2> SUFFICES ASSUME NEW x \in Ids, t2[x].source # 0 PROVE t2[t2[x].source].source = 0
    OBVIOUS
  <2>1. CASE x = h
    BY <2>1
  <2>2. CASE x # h
    <3>1. t2[x] = t[x] /\ t[x] \in FileHandle
      BY <1>1, <2>2
    <3>2. t[x].source \in Ids /\ t[t[x].source].source = 0
      BY <1>1, <3>1 DEF FileHandle
    <3>3. t[x].source # h
      <4>1. SourceRefs(t, h) = 0
        BY DEF Alone
      <4>2. SourceRefs(t, h) = 0 => \A w \in Ids : t[w].source # h
        BY SourceCount
      <4> QED BY <4>1, <4>2
    <3> QED BY <3>1, <3>2, <3>3
  <2> QED BY <2>1, <2>2
<1>8. ImageHandle # 0 => t2[ImageHandle].source # 0
  BY <1>1, IdsFact DEF Alone
<1> QED BY <1>1, <1>4, <1>5, <1>6, <1>7, <1>8 DEF Good

(* decompress_close(): fs_close() of the last reference.                   *)
LEMMA CloseLast ==
  ASSUME NEW t, NEW H, NEW E, Good(t, H, E), NEW h \in Ids, H[h] # 0, t[h].source # 0, t[h].count = 1
  PROVE  /\ Good(Close(t, h), Less(H, h), E)
         /\ \A x \in Ids \ {h} : Close(t, h)[x].source = t[x].source
<1> DEFINE s == t[h].source
           t2 == Release(t, h)
           H1 == Less(H, h)
           H2 == More(H1, s)
<1>1. t \in [Ids -> FileHandle] /\ H \in [Ids -> Nat] /\ t[h] \in FileHandle /\ H[h] \in Nat
  BY DEF Good
<1>2. s \in Ids /\ t[s].source = 0 /\ s # h
  <2>1. s \in Ids
    BY <1>1 DEF FileHandle
  <2> QED BY <2>1 DEF Good
<1>3. t2 = [t EXCEPT ![h] = Unused]
  BY DEF Release
<1>4. Unused \in FileHandle /\ Unused.node = NONE /\ Unused.count = 0 /\ Unused.source = 0
  BY DEF Unused, FileHandle
<1>5. t2 \in [Ids -> FileHandle] /\ t2[h] = Unused /\ \A x \in Ids \ {h} : t2[x] = t[x]
  BY <1>1, <1>3, <1>4
<1>6. Close(t, h) = Release(t2, s)
  BY DEF Close, LastReference, Compressed
<1> HIDE DEF t2
<1>7. H1 \in [Ids -> Nat] /\ H1[h] = H[h] - 1 /\ \A x \in Ids \ {h} : H1[x] = H[x]
  BY <1>1, LessFact
<1> HIDE DEF H1
<1>8. H2 \in [Ids -> Nat] /\ H2[s] = H1[s] + 1 /\ \A x \in Ids \ {s} : H2[x] = H1[x]
  BY <1>2, <1>7, MoreFact
<1>9. Alone(t, H, E, h) /\ H[h] = 1
  <2>1. t[h].count <= H[h]
    BY <1>1
  <2> QED BY <2>1, LastOne
<1>10. Less(H2, s) = H1
  <2>1. H1[s] \in Nat /\ (H1[s] + 1) - 1 = H1[s]
    BY <1>2, <1>7
  <2>2. Less(H2, s) = [x \in Ids |-> IF x = s THEN H2[s] - 1 ELSE H2[x]]
    BY <1>8 DEF Less
  <2>3. H1 = [x \in Ids |-> H1[x]]
    BY <1>7
  <2> HIDE DEF H2
  <2>4. \A x \in Ids : (IF x = s THEN H2[s] - 1 ELSE H2[x]) = H1[x]
    BY <1>8, <2>1
  <2>5. [x \in Ids |-> IF x = s THEN H2[s] - 1 ELSE H2[x]] = [x \in Ids |-> H1[x]]
    BY <2>4
  <2> QED BY <2>2, <2>3, <2>5, Zenon
<1> HIDE DEF s, H2
<1>11. Good(t2, H2, E)
  <2>1. ~IsMounted(t2[h]) /\ H2[h] <= t2[h].count
    BY <1>2, <1>4, <1>5, <1>7, <1>8, <1>9, IdsFact DEF IsMounted
  <2>2. t[h].source = s /\ t2[h].source = 0 /\ H2[s] = H[s] + 1
    BY <1>2, <1>4, <1>5, <1>7, <1>8 DEF s
  <2>3. \A x \in Ids \ {h, s} : H2[x] = H[x]
    BY <1>7, <1>8
  <2>4. Sourced(t, H, t2, H2, h, s)
    BY <1>2, <1>5, <1>8, <2>1, <2>2, <2>3 DEF Sourced
  <2> QED BY <1>9, <2>4, SourceStep
<1>12. t2[s].source = 0 /\ H2[s] # 0
  <2>1. H1[s] \in Nat
    BY <1>2, <1>7
  <2> QED BY <1>2, <1>5, <1>8, <2>1
<1>13. Good(Release(t2, s), Less(H2, s), E) /\ \A x \in Ids : Release(t2, s)[x].source = t2[x].source
  BY <1>2, <1>11, <1>12, ReleaseOK
<1> QED BY <1>5, <1>6, <1>10, <1>13 DEF H1

(* decompress_open(): the file that was opened is now the new handle's.    *)
NewSource(t, t2, h, n, s) == t2 = [t EXCEPT ![h] = [node |-> n, count |-> 1, source |-> s]]

LEMMA WrapOK ==
  ASSUME NEW t, NEW H, NEW E, NEW s \in Ids, Good(t, More(H, s), E), H \in [Ids -> Nat], t[s].source = 0,
         NEW h \in Ids, t[h] = Unused, NEW n \in Nodes \cup {NONE},
         NEW t2, NewSource(t, t2, h, n, s)
  PROVE  /\ Good(t2, More(H, h), E) /\ t2[h].source # 0
         /\ \A x \in Ids \ {h} : t2[x].source = t[x].source
<1> DEFINE H1 == More(H, s)
           H2 == More(H, h)
           v == [node |-> n, count |-> 1, source |-> s]
<1>1. t \in [Ids -> FileHandle]
  BY DEF Good
<1>2. v \in FileHandle /\ v.count = 1 /\ v.source = s
  BY DEF FileHandle
<1>3. t2 \in [Ids -> FileHandle] /\ t2[h] = v /\ \A x \in Ids \ {h} : t2[x] = t[x]
  BY <1>1, <1>2 DEF NewSource
<1>4. t[h].count = 0 /\ t[h].source = 0
  BY DEF Unused
<1> HIDE DEF v
<1>5. H1 \in [Ids -> Nat] /\ H1[s] = H[s] + 1 /\ \A x \in Ids \ {s} : H1[x] = H[x]
  BY MoreFact
<1>6. H2 \in [Ids -> Nat] /\ H2[h] = H[h] + 1 /\ \A x \in Ids \ {h} : H2[x] = H[x]
  BY MoreFact
<1>7. Good(t, H1, E)
  OBVIOUS
<1> HIDE DEF H1, H2
<1>8. Alone(t, H1, E, h) /\ H1[h] = 0
  <2>1. H1[h] \in Nat
    BY <1>5
  <2>2. t[h].count <= H1[h]
    BY <1>4, <2>1
  <2> QED BY <1>4, <1>7, <2>2, LastOne
<1>9. H[s] \in Nat /\ H[h] \in Nat
  OBVIOUS
<1>10. h # s /\ H[h] = 0
  BY <1>5, <1>8, <1>9
<1>11. s # 0
  BY IdsFact
<1>12. ~IsMounted(t2[h]) /\ H2[h] <= t2[h].count /\ t[h].source = 0 /\ t2[h].source = s /\ H2[s] + 1 = H1[s]
  BY <1>2, <1>3, <1>4, <1>5, <1>6, <1>9, <1>10, <1>11 DEF IsMounted
<1>13. \A x \in Ids \ {h, s} : H2[x] = H1[x]
  BY <1>5, <1>6
<1>14. Good(t2, H2, E)
  <2>1. t2 \in [Ids -> FileHandle] /\ H2 \in [Ids -> Nat] /\ \A x \in Ids \ {h} : t2[x] = t[x]
    BY <1>3, <1>6
  <2>2. \/ t[h].source = s /\ t2[h].source = 0 /\ H2[s] = H1[s] + 1
        \/ t[h].source = 0 /\ t2[h].source = s /\ H2[s] + 1 = H1[s]
    BY <1>12
  <2>3. ~IsMounted(t2[h]) /\ H2[h] <= t2[h].count /\ h # s /\ Alone(t, H1, E, h) /\ t[s].source = 0
    BY <1>8, <1>10, <1>12
  <2>4. Sourced(t, H1, t2, H2, h, s)
    BY <1>13, <2>1, <2>2, <2>3 DEF Sourced
  <2> QED BY <1>7, <2>3, <2>4, SourceStep
<1> QED BY <1>3, <1>11, <1>12, <1>14 DEF H2

-----------------------------------------------------------------------------
(***************************************************************************)
(* Environments.                                                           *)
(***************************************************************************)

(* The current environment gets another device or directory.               *)
EnvReplaced(E, E2, e) ==
  /\ E2 \in Seq(Environment) /\ Len(E2) = Len(E) /\ E2[Len(E)] = e
  /\ \A i \in 1 .. Len(E) : i # Len(E) => E2[i] = E[i]

LEMMA EnvArith ==
  ASSUME NEW h \in Nat, NEW h2 \in Nat, NEW p \in Nat, NEW q \in Nat, NEW a \in Nat, NEW b \in Nat,
         NEW k \in Nat, NEW l \in Nat, NEW m \in Nat, NEW c \in Nat,
         p + a = q + b, h2 + b <= h + a, h + q + k + l + m <= c
  PROVE  h2 + p + k + l + m <= c
OBVIOUS

LEMMA EnvSetTo ==
  ASSUME NEW t, NEW H, NEW E, Good(t, H, E), E # <<>>, NEW e \in Environment, NEW H2 \in [Ids -> Nat],
         \A x \in Ids : H2[x] + One(e.directory = x) <= H[x] + One(E[Len(E)].directory = x),
         e.directory # 0 => DirectoryOf(t, e),
         NEW E2, EnvReplaced(E, E2, e)
  PROVE  Good(t, H2, E2)
<1> DEFINE n == Len(E)
<1>1. /\ t \in [Ids -> FileHandle] /\ H \in [Ids -> Nat] /\ E \in Seq(Environment)
      /\ \A x \in Ids : t[x].source # 0 => t[t[x].source].source = 0
      /\ \A m \in PermanentNodes : \E x \in Ids : t[x].node = m /\ t[x].source = 0
      /\ ImageHandle # 0 => t[ImageHandle].source # 0
      /\ \A i \in 1 .. n : E[i].directory # 0 => DirectoryOf(t, E[i])
  BY DEF Good
<1>2. n \in Nat /\ n \in 1 .. n
  BY <1>1
<1>3. E2 \in Seq(Environment) /\ Len(E2) = n /\ E2[n] = e /\ \A i \in 1 .. n : i # n => E2[i] = E[i]
  BY DEF EnvReplaced
<1>4. \A i \in 1 .. n : E2[i].directory # 0 => DirectoryOf(t, E2[i])
  BY <1>1, <1>3
<1>5. ASSUME NEW x \in Ids
      PROVE  EnvRefs(E2, x) + One(E[n].directory = x) = EnvRefs(E, x) + One(e.directory = x)
  <2> DEFINE D == 1 .. n
             f == [i \in D |-> E[i].directory]
             g == [i \in D |-> E2[i].directory]
  <2>1. EnvRefs(E, x) = CountAt(D, f, x) /\ EnvRefs(E2, x) = CountAt(D, g, x)
    <3>1. EnvRefs(E, x) = CountAt(D, f, x)
      BY <1>1, EnvCount
    <3>2. EnvRefs(E2, x) = CountAt(1 .. Len(E2), [i \in 1 .. Len(E2) |-> E2[i].directory], x)
      BY <1>3, EnvCount
    <3> QED BY <1>3, <3>1, <3>2
  <2>2. f[n] = E[n].directory /\ g[n] = e.directory /\ n \in D /\ \A i \in D \ {n} : g[i] = f[i]
    <3>1. n \in D /\ f[n] = E[n].directory /\ g[n] = E2[n].directory
      BY <1>2
    <3>2. \A i \in D \ {n} : E2[i] = E[i]
      BY <1>3
    <3>3. \A i \in D \ {n} : g[i] = f[i]
      BY <3>2
    <3> QED BY <1>3, <3>1, <3>3
  <2>3. IsFiniteSet(D)
    BY <1>2, FS_Interval
  <2> HIDE DEF f, g, D
  <2>4. CountAt(D, g, x) + One(f[n] = x) = CountAt(D, f, x) + One(g[n] = x)
    BY <2>2, <2>3, CountChange
  <2> QED BY <2>1, <2>2, <2>4
<1>6. ASSUME NEW x \in Ids PROVE Refs(t, H2, E2, x) <= t[x].count
  <2>1. /\ H[x] \in Nat /\ EnvRefs(E, x) \in Nat /\ SourceRefs(t, x) \in Nat /\ t[x].count \in Nat
        /\ One(IsMounted(t[x])) \in Nat /\ ImageRefs(x) \in Nat
        /\ H[x] + EnvRefs(E, x) + SourceRefs(t, x) + One(IsMounted(t[x])) + ImageRefs(x) <= t[x].count
    BY RefsParts
  <2>2. Refs(t, H2, E2, x) = H2[x] + EnvRefs(E2, x) + SourceRefs(t, x) + One(IsMounted(t[x])) + ImageRefs(x)
    BY MountCount DEF Refs
  <2>3. /\ H2[x] \in Nat /\ EnvRefs(E2, x) \in Nat
        /\ One(E[n].directory = x) \in Nat /\ One(e.directory = x) \in Nat
    BY <1>3, EnvCount DEF One
  <2> DEFINE a == One(E[n].directory = x)
             b == One(e.directory = x)
  <2>4. EnvRefs(E2, x) + a = EnvRefs(E, x) + b /\ H2[x] + b <= H[x] + a /\ a \in Nat /\ b \in Nat
    BY <1>5, <2>3
  <2> DEFINE p == EnvRefs(E2, x)
             q == EnvRefs(E, x)
             k == SourceRefs(t, x)
             l == One(IsMounted(t[x]))
             m == ImageRefs(x)
             c == t[x].count
             u == H[x]
             v == H2[x]
  <2>5. /\ u \in Nat /\ v \in Nat /\ p \in Nat /\ q \in Nat /\ a \in Nat /\ b \in Nat
        /\ k \in Nat /\ l \in Nat /\ m \in Nat /\ c \in Nat
        /\ p + a = q + b /\ v + b <= u + a /\ u + q + k + l + m <= c
    BY <2>1, <2>3, <2>4
  <2>6. Refs(t, H2, E2, x) = v + p + k + l + m
    BY <2>2
  <2> HIDE DEF a, b, p, q, k, l, m, u, v
  <2>7. v + p + k + l + m <= c
    <3> HIDE DEF c
    <3> QED BY <2>5, EnvArith
  <2> QED BY <2>6, <2>7
<1> QED BY <1>1, <1>3, <1>4, <1>6 DEF Good

EnvNow(E, E2, e) == E2 = [E EXCEPT ![Len(E)] = e]

LEMMA EnvSet ==
  ASSUME NEW t, NEW H, NEW E, Good(t, H, E), E # <<>>, NEW e \in Environment, NEW H2 \in [Ids -> Nat],
         \A x \in Ids : H2[x] + One(e.directory = x) <= H[x] + One(E[Len(E)].directory = x),
         e.directory # 0 => DirectoryOf(t, e),
         NEW E2, EnvNow(E, E2, e)
  PROVE  Good(t, H2, E2) /\ Len(E2) = Len(E) /\ E2[Len(E)] = e
<1>1. E \in Seq(Environment)
  BY DEF Good
<1>2. Len(E) \in Nat /\ Len(E) \in 1 .. Len(E)
  BY <1>1
<1>3. EnvReplaced(E, E2, e)
  BY <1>1, <1>2 DEF EnvReplaced, EnvNow
<1>4. Good(t, H2, E2)
  BY <1>3, EnvSetTo
<1> QED BY <1>3, <1>4 DEF EnvReplaced

(* environ_create(): a copy of the parent's, with a reference of its own.  *)
LEMMA EnvAppend ==
  ASSUME NEW t, NEW H, NEW E, Good(t, H, E), NEW e \in Environment, NEW H2 \in [Ids -> Nat],
         \A x \in Ids : H2[x] + One(e.directory = x) <= H[x],
         e.directory # 0 => DirectoryOf(t, e)
  PROVE  Good(t, H2, Append(E, e))
<1> DEFINE n == Len(E)
           E2 == Append(E, e)
<1>1. /\ t \in [Ids -> FileHandle] /\ H \in [Ids -> Nat] /\ E \in Seq(Environment)
      /\ \A x \in Ids : t[x].source # 0 => t[t[x].source].source = 0
      /\ \A m \in PermanentNodes : \E x \in Ids : t[x].node = m /\ t[x].source = 0
      /\ ImageHandle # 0 => t[ImageHandle].source # 0
      /\ \A i \in 1 .. n : E[i].directory # 0 => DirectoryOf(t, E[i])
  BY DEF Good
<1>2. n \in Nat /\ n + 1 \notin 1 .. n /\ 1 .. n + 1 = (1 .. n) \cup {n + 1}
  BY <1>1
<1>3. E2 \in Seq(Environment) /\ Len(E2) = n + 1 /\ E2[n + 1] = e /\ \A i \in 1 .. n : E2[i] = E[i]
  BY <1>1, <1>2
<1> HIDE DEF E2
<1>4. \A i \in 1 .. Len(E2) : E2[i].directory # 0 => DirectoryOf(t, E2[i])
  BY <1>1, <1>2, <1>3, SMTT(30)
<1>5. ASSUME NEW x \in Ids
      PROVE  EnvRefs(E2, x) = EnvRefs(E, x) + One(e.directory = x)
  <2> DEFINE D == 1 .. n
             k == n + 1
             D2 == 1 .. k
             f == [i \in D |-> E[i].directory]
             g == [i \in D2 |-> E2[i].directory]
  <2>1. EnvRefs(E, x) = CountAt(D, f, x) /\ EnvRefs(E2, x) = CountAt(D2, g, x)
    <3>1. EnvRefs(E, x) = CountAt(D, f, x)
      BY <1>1, EnvCount
    <3>2. EnvRefs(E2, x) = CountAt(1 .. Len(E2), [i \in 1 .. Len(E2) |-> E2[i].directory], x)
      BY <1>3, EnvCount
    <3> QED BY <1>3, <3>1, <3>2
  <2>2. g[k] = e.directory /\ \A i \in D : g[i] = f[i]
    BY <1>2, <1>3
  <2>3. D2 = D \cup {k} /\ k \notin D
    BY <1>2
  <2>4. IsFiniteSet(D)
    BY <1>2, FS_Interval
  <2> HIDE DEF f, g, D, D2, k
  <2>5. CountAt(D, g, x) = CountAt(D, f, x)
    BY <2>2, CountSame
  <2>6. CountAt(D \cup {k}, g, x) = CountAt(D, g, x) + One(g[k] = x)
    BY <2>3, <2>4, CountMore
  <2> QED BY <2>1, <2>2, <2>3, <2>5, <2>6
<1>6. ASSUME NEW x \in Ids PROVE Refs(t, H2, E2, x) <= t[x].count
  <2>1. /\ H[x] \in Nat /\ EnvRefs(E, x) \in Nat /\ SourceRefs(t, x) \in Nat /\ t[x].count \in Nat
        /\ One(IsMounted(t[x])) \in Nat /\ ImageRefs(x) \in Nat
        /\ H[x] + EnvRefs(E, x) + SourceRefs(t, x) + One(IsMounted(t[x])) + ImageRefs(x) <= t[x].count
    BY RefsParts
  <2>2. Refs(t, H2, E2, x) = H2[x] + EnvRefs(E2, x) + SourceRefs(t, x) + One(IsMounted(t[x])) + ImageRefs(x)
    BY MountCount DEF Refs
  <2>3. H2[x] \in Nat /\ EnvRefs(E2, x) \in Nat /\ One(e.directory = x) \in Nat
    BY <1>3, EnvCount DEF One
  <2>4. /\ EnvRefs(E2, x) = EnvRefs(E, x) + One(e.directory = x)
        /\ H2[x] + One(e.directory = x) <= H[x]
    BY <1>5
  <2> QED BY <2>1, <2>2, <2>3, <2>4
<1> QED BY <1>1, <1>3, <1>4, <1>6 DEF Good, E2

(* environ_destroy().                                                      *)
LEMMA EnvFront ==
  ASSUME NEW t, NEW H, NEW E, Good(t, H, E), E # <<>>
  PROVE  Good(t, H, Front(E)) /\ Len(Front(E)) = Len(E) - 1
<1> DEFINE n == Len(E)
           m == n - 1
           E2 == Front(E)
<1>1. /\ t \in [Ids -> FileHandle] /\ H \in [Ids -> Nat] /\ E \in Seq(Environment)
      /\ \A x \in Ids : t[x].source # 0 => t[t[x].source].source = 0
      /\ \A k \in PermanentNodes : \E x \in Ids : t[x].node = k /\ t[x].source = 0
      /\ ImageHandle # 0 => t[ImageHandle].source # 0
      /\ \A i \in 1 .. n : E[i].directory # 0 => DirectoryOf(t, E[i])
  BY DEF Good
<1>2. n \in Nat /\ m \in Nat /\ \A i \in 1 .. m : i \in 1 .. n
  BY <1>1
<1>3. E2 \in Seq(Environment) /\ Len(E2) = m /\ \A i \in 1 .. m : E2[i] = E[i]
  <2>1. E2 = SubSeq(E, 1, m)
    BY DEF Front
  <2>2. 1 \in 1 .. Len(E) + 1 /\ m \in 1 - 1 .. Len(E) /\ m - 1 + 1 = m
    BY <1>2
  <2> HIDE DEF m, E2
  <2>3. /\ SubSeq(E, 1, m) \in Seq(Environment) /\ Len(SubSeq(E, 1, m)) = m - 1 + 1
        /\ \A j \in 1 .. m - 1 + 1 : SubSeq(E, 1, m)[j] = E[1 + j - 1]
    BY <1>1, <2>2, SubSeqElements
  <2>4. \A i \in 1 .. m : 1 + i - 1 = i
    BY <1>2
  <2> QED BY <2>1, <2>2, <2>3, <2>4
<1> HIDE DEF E2, m
<1>4. \A i \in 1 .. Len(E2) : E2[i].directory # 0 => DirectoryOf(t, E2[i])
  BY <1>1, <1>2, <1>3
<1>5. ASSUME NEW x \in Ids PROVE EnvRefs(E2, x) <= EnvRefs(E, x)
  <2> DEFINE S == {i \in 1 .. n : E[i].directory = x}
             T == {i \in 1 .. m : E2[i].directory = x}
  <2>1. T \subseteq S
    BY <1>2, <1>3
  <2>2. IsFiniteSet(S)
    <3>1. IsFiniteSet(1 .. n)
      BY <1>2, FS_Interval
    <3> QED BY <3>1, FS_Subset
  <2>3. EnvRefs(E, x) = Cardinality(S) /\ EnvRefs(E2, x) = Cardinality(T)
    BY <1>3 DEF EnvRefs
  <2> HIDE DEF S, T
  <2> QED BY <2>1, <2>2, <2>3, FS_Subset
<1>6. ASSUME NEW x \in Ids PROVE Refs(t, H, E2, x) <= t[x].count
  <2>1. /\ H[x] \in Nat /\ EnvRefs(E, x) \in Nat /\ SourceRefs(t, x) \in Nat /\ t[x].count \in Nat
        /\ One(IsMounted(t[x])) \in Nat /\ ImageRefs(x) \in Nat
        /\ H[x] + EnvRefs(E, x) + SourceRefs(t, x) + One(IsMounted(t[x])) + ImageRefs(x) <= t[x].count
    BY RefsParts
  <2>2. Refs(t, H, E2, x) = H[x] + EnvRefs(E2, x) + SourceRefs(t, x) + One(IsMounted(t[x])) + ImageRefs(x)
    BY MountCount DEF Refs
  <2>3. EnvRefs(E2, x) \in Nat /\ EnvRefs(E2, x) <= EnvRefs(E, x)
    BY <1>3, <1>5, EnvCount
  <2> QED BY <2>1, <2>2, <2>3, SMTT(30)
<1> QED BY <1>1, <1>3, <1>4, <1>6 DEF Good, E2, m

-----------------------------------------------------------------------------
(***************************************************************************)
(* Opening an entry.                                                       *)
(***************************************************************************)
LEMMA MoreLess ==
  ASSUME NEW H \in [Ids -> Nat], NEW a \in Ids
  PROVE  Less(More(H, a), a) = H /\ \A b \in Ids : Less(More(More(H, a), b), a) = More(H, b)
<1>1. More(H, a) \in [Ids -> Nat] /\ \A x \in Ids : More(H, a)[x] = IF x = a THEN H[a] + 1 ELSE H[x]
  BY MoreFact
<1>2. \A x \in Ids : H[x] \in Nat /\ (H[x] + 1) - 1 = H[x] /\ (H[x] + 1 + 1) - 1 = H[x] + 1
  OBVIOUS
<1>3. Less(More(H, a), a) = H
  <2> DEFINE G == More(H, a)
  <2>1. Less(G, a) = [x \in Ids |-> IF x = a THEN G[a] - 1 ELSE G[x]]
    BY <1>1 DEF Less
  <2>2. H = [x \in Ids |-> H[x]]
    OBVIOUS
  <2>3. \A x \in Ids : (IF x = a THEN G[a] - 1 ELSE G[x]) = H[x]
    BY <1>1, <1>2
  <2> HIDE DEF G
  <2>4. [x \in Ids |-> IF x = a THEN G[a] - 1 ELSE G[x]] = [x \in Ids |-> H[x]]
    BY <2>3
  <2> QED BY <2>1, <2>2, <2>4, Zenon DEF G
<1>4. ASSUME NEW b \in Ids PROVE Less(More(More(H, a), b), a) = More(H, b)
  <2> DEFINE F == More(H, a)
             G == More(F, b)
             K == More(H, b)
  <2>1. F \in [Ids -> Nat] /\ \A x \in Ids : F[x] = IF x = a THEN H[a] + 1 ELSE H[x]
    BY <1>1
  <2>2. K \in [Ids -> Nat] /\ \A x \in Ids : K[x] = IF x = b THEN H[b] + 1 ELSE H[x]
    BY MoreFact
  <2> HIDE DEF F, K
  <2>3. G \in [Ids -> Nat] /\ \A x \in Ids : G[x] = IF x = b THEN F[b] + 1 ELSE F[x]
    BY <2>1, MoreFact
  <2> HIDE DEF G
  <2>4. Less(G, a) = [x \in Ids |-> IF x = a THEN G[a] - 1 ELSE G[x]]
    BY <2>3 DEF Less
  <2>5. K = [x \in Ids |-> K[x]]
    BY <2>2
  <2>6. \A x \in Ids : (IF x = a THEN G[a] - 1 ELSE G[x]) = K[x]
    BY <1>2, <2>1, <2>2, <2>3
  <2>7. [x \in Ids |-> IF x = a THEN G[a] - 1 ELSE G[x]] = [x \in Ids |-> K[x]]
    BY <2>6
  <2> QED BY <2>4, <2>5, <2>7, Zenon DEF F, G, K
<1> QED BY <1>3, <1>4

LEMMA HandleOfOK ==
  ASSUME NEW t, NEW H, NEW E, Good(t, H, E), NEW n \in PermanentNodes
  PROVE  HandleOf(t, n) \in Ids /\ t[HandleOf(t, n)].node = n /\ t[HandleOf(t, n)].source = 0
<1>1. \E h \in Ids : t[h].node = n /\ t[h].source = 0
  BY DEF Good
<1> QED BY <1>1 DEF HandleOf

LEMMA FreshOK ==
  ASSUME NEW t, FreeIds(t) # {}
  PROVE  Fresh(t) \in Ids /\ t[Fresh(t)] = Unused /\ Fresh(t) \in FreeIds(t)
<1>1. FreeIds(t) \subseteq Nat
  BY IdsFact DEF FreeIds
<1>2. Min(FreeIds(t)) \in FreeIds(t)
  BY <1>1, MinElement
<1> QED BY <1>2 DEF Fresh, FreeIds

LEMMA FreeCount ==
  ASSUME NEW t
  PROVE  IsFiniteSet(FreeIds(t)) /\ Cardinality(FreeIds(t)) \in Nat /\ (FreeIds(t) = {} => Cardinality(FreeIds(t)) = 0)
<1>1. FreeIds(t) \subseteq Ids /\ IsFiniteSet(Ids)
  BY IdsFact DEF FreeIds
<1>2. IsFiniteSet(FreeIds(t))
  BY <1>1, FS_Subset
<1> QED BY <1>2, FS_CardinalityType, FS_EmptySet

(* At most one handle is taken.                                            *)
LEMMA FreeLess ==
  ASSUME NEW t, NEW t2, NEW h, \A x \in Ids : x # h /\ t[x] = Unused => t2[x] = Unused
  PROVE  Cardinality(FreeIds(t)) <= Cardinality(FreeIds(t2)) + 1
<1> DEFINE A == FreeIds(t)
           B == FreeIds(t2)
<1>1. A \subseteq B \cup {h}
  BY DEF FreeIds
<1>2. IsFiniteSet(A) /\ IsFiniteSet(B) /\ Cardinality(A) \in Nat /\ Cardinality(B) \in Nat
  BY FreeCount
<1> HIDE DEF A, B
<1>3. IsFiniteSet(B \cup {h}) /\ Cardinality(B \cup {h}) \in Nat /\ Cardinality(B \cup {h}) <= Cardinality(B) + 1
  <2>1. /\ IsFiniteSet(B \cup {h})
        /\ Cardinality(B \cup {h}) = IF h \in B THEN Cardinality(B) ELSE Cardinality(B) + 1
    BY <1>2, FS_AddElement
  <2> QED BY <1>2, <2>1
<1>4. Cardinality(A) <= Cardinality(B \cup {h})
  BY <1>1, <1>3, FS_Subset
<1>5. Cardinality(A) <= Cardinality(B) + 1
  BY <1>2, <1>3, <1>4
<1> QED BY <1>5 DEF A, B

LEMMA PermanentFact ==
  ASSUME NEW n \in Nodes
  PROVE  Permanent(n) <=> n \in PermanentNodes
BY DEF PermanentNodes, Nodes

(* The filesystem's open().                                                *)
LEMMA OpenOK ==
  ASSUME NEW t, NEW H, NEW E, Good(t, H, E), NEW n \in Nodes, FreeIds(t) # {},
         \A x \in Ids : t[x].count + 1 < COUNT_MOD,
         NEW t2, t2 = OpenEntry(t, n), NEW h, h = Opened(t, n)
  PROVE  /\ h \in Ids /\ Good(t2, More(H, h), E) /\ t2[h].source = 0
         /\ \A x \in Ids : /\ t2[x].source = t[x].source
                           /\ t2[x].count = IF x = h THEN t[h].count + 1 ELSE t[x].count
         /\ \A x \in Ids : x # h /\ t[x] = Unused => t2[x] = Unused
<1>1. CASE n \in PermanentNodes
  <2>1. t2 = Retain(t, h) /\ h = HandleOf(t, n)
    BY <1>1, PermanentFact DEF OpenEntry, Opened
  <2>2. h \in Ids /\ t[h].source = 0
    BY <1>1, <2>1, HandleOfOK
  <2>3. /\ Good(Retain(t, h), More(H, h), E)
        /\ \A x \in Ids : /\ Retain(t, h)[x].node = t[x].node /\ Retain(t, h)[x].source = t[x].source
                          /\ Retain(t, h)[x].count = IF x = h THEN t[h].count + 1 ELSE t[x].count
    BY <2>2, RetainOK
  <2>4. \A x \in Ids : x # h => t2[x] = t[x]
    <3>1. t \in [Ids -> FileHandle]
      BY DEF Good
    <3> QED BY <2>1, <3>1 DEF Retain
  <2> QED BY <2>1, <2>2, <2>3, <2>4
<1>2. CASE n \notin PermanentNodes
  <2>1. t2 = [t EXCEPT ![h] = [node |-> n, count |-> 1, source |-> 0]] /\ h = Fresh(t)
    BY <1>2, PermanentFact DEF OpenEntry, Opened
  <2>2. h \in Ids /\ t[h] = Unused
    BY <2>1, FreshOK
  <2>3. /\ Good(t2, More(H, h), E)
        /\ t2[h].node = n /\ t2[h].source = 0 /\ t2[h].count = 1 /\ t[h].count = 0 /\ t[h].source = 0
        /\ \A x \in Ids \ {h} : t2[x] = t[x]
    <3>1. n \in Nodes \ PermanentNodes
      BY <1>2
    <3> HIDE DEF Nodes
    <3>2. NewEntry(t, t2, h, n)
      BY <2>1 DEF NewEntry
    <3> QED BY <2>2, <3>1, <3>2, NewOK
  <2> QED BY <2>2, <2>3
<1> QED BY <1>1, <1>2

-----------------------------------------------------------------------------
(***************************************************************************)
(* The walk of a path.  The directory it has come to is held.              *)
(***************************************************************************)
Walks == INSTANCE FoldLemmas WITH Op <- WalkStep

Walker(w) == w = [t |-> w.t, h |-> w.h, status |-> w.status, n |-> w.n, fails |-> w.fails]

(* The walk has come to w, from the handles t; room handles are left.      *)
WalkInv(w, t, H, E, room) ==
  /\ Walker(w)
  /\ w.status = "success" => w.h \in Ids /\ Good(w.t, More(H, w.h), E) /\ w.t[w.h].source = 0
  /\ w.status # "success" => Good(w.t, H, E)
  /\ \A x \in Ids : /\ w.t[x].source = t[x].source
                    /\ w.t[x].count <= t[x].count + One(w.status = "success" /\ x = w.h)
  /\ room <= Cardinality(FreeIds(w.t))

Low(t) == \A x \in Ids : t[x].count + 2 < COUNT_MOD

(* The entry does not match: the directory is closed.                      *)
Ended(w, w2, status) == w2 = [w EXCEPT !.t = Release(w.t, w.h), !.status = status]

LEMMA WalkEnds ==
  ASSUME NEW t, NEW H, NEW E, NEW room, NEW w, WalkInv(w, t, H, E, room), H \in [Ids -> Nat],
         t \in [Ids -> FileHandle], w.status = "success", NEW status, status # "success", room \in Nat,
         NEW w2, Ended(w, w2, status)
  PROVE  WalkInv(w2, t, H, E, room) /\ w2.t = Release(w.t, w.h) /\ w2.status = status
<1> DEFINE t2 == Release(w.t, w.h)
<1>1. Walker(w) /\ w.h \in Ids /\ Good(w.t, More(H, w.h), E) /\ w.t[w.h].source = 0
  BY DEF WalkInv
<1>2. w2 = [t |-> t2, h |-> w.h, status |-> status, n |-> w.n, fails |-> w.fails]
  BY <1>1 DEF Walker, Ended
<1>3. w2.t = t2 /\ w2.h = w.h /\ w2.status = status /\ Walker(w2)
  BY <1>2 DEF Walker
<1>4. More(H, w.h)[w.h] # 0
  <2>1. H[w.h] \in Nat
    BY <1>1
  <2>2. More(H, w.h)[w.h] = H[w.h] + 1
    BY <1>1, MoreFact
  <2> QED BY <2>1, <2>2
<1>5. /\ Good(t2, Less(More(H, w.h), w.h), E)
      /\ \A x \in Ids : /\ t2[x].source = w.t[x].source
                        /\ t2[x].count = IF x = w.h THEN w.t[w.h].count - 1 ELSE w.t[x].count
      /\ \A x \in Ids : w.t[x] = Unused => t2[x] = Unused
  BY <1>1, <1>4, ReleaseOK
<1>6. Less(More(H, w.h), w.h) = H
  BY <1>1, MoreLess
<1> HIDE DEF t2
<1>7. FreeIds(w.t) \subseteq FreeIds(t2)
  BY <1>5 DEF FreeIds
<1>8. room <= Cardinality(FreeIds(t2))
  <2>1. /\ IsFiniteSet(FreeIds(t2)) /\ Cardinality(FreeIds(t2)) \in Nat /\ Cardinality(FreeIds(w.t)) \in Nat
    BY FreeCount
  <2>2. Cardinality(FreeIds(w.t)) <= Cardinality(FreeIds(t2))
    BY <1>7, <2>1, FS_Subset
  <2>3. room <= Cardinality(FreeIds(w.t))
    BY DEF WalkInv
  <2> QED BY <2>1, <2>2, <2>3
<1>9. ASSUME NEW x \in Ids
      PROVE  t2[x].source = t[x].source /\ t2[x].count <= t[x].count + One(w2.status = "success" /\ x = w2.h)
  <2>1. /\ w.t[x].source = t[x].source /\ w.t[x].count <= t[x].count + One(x = w.h)
        /\ t2[x].source = w.t[x].source
    BY <1>5 DEF WalkInv
  <2>2. One(w2.status = "success" /\ x = w2.h) = 0
    BY <1>3 DEF One
  <2>3. w.t[x].count \in Nat /\ t[x].count \in Nat
    <3>1. w.t \in [Ids -> FileHandle]
      BY <1>1 DEF Good
    <3> QED BY <3>1 DEF FileHandle
  <2>4. CASE x = w.h
    <3>1. One(x = w.h) = 1 /\ t2[x].count = w.t[x].count - 1
      BY <1>5, <2>4 DEF One
    <3> QED BY <2>1, <2>2, <2>3, <3>1
  <2>5. CASE x # w.h
    <3>1. One(x = w.h) = 0 /\ t2[x].count = w.t[x].count
      BY <1>5, <2>5 DEF One
    <3> QED BY <2>1, <2>2, <2>3, <3>1
  <2> QED BY <2>4, <2>5
<1> QED BY <1>3, <1>5, <1>6, <1>8, <1>9 DEF WalkInv, t2

LEMMA WalkRoom ==
  ASSUME NEW t, NEW H, NEW E, NEW room \in Nat, NEW w, WalkInv(w, t, H, E, room + 1)
  PROVE  WalkInv(w, t, H, E, room)
<1>1. room <= Cardinality(FreeIds(w.t))
  BY FreeCount DEF WalkInv
<1> QED BY <1>1 DEF WalkInv

(* The next entry is opened, and then the directory is closed.             *)
Entered(w, w2, node) ==
  w2 = [t |-> Release(OpenEntry(w.t, node), w.h), h |-> Opened(w.t, node), status |-> "success",
        n |-> w.n + 1, fails |-> w.fails]

LEMMA WalkEnters ==
  ASSUME NEW t, NEW H, NEW E, NEW room \in Nat, NEW w, WalkInv(w, t, H, E, room + 1), H \in [Ids -> Nat],
         t \in [Ids -> FileHandle], Low(t), w.status = "success", NEW node \in Nodes,
         NEW w2, Entered(w, w2, node)
  PROVE  WalkInv(w2, t, H, E, room)
<1> DEFINE t2 == OpenEntry(w.t, node)
           h2 == Opened(w.t, node)
           t3 == Release(t2, w.h)
           H1 == More(H, w.h)
           H2 == More(H1, h2)
<1>1. w.h \in Ids /\ Good(w.t, H1, E) /\ w.t[w.h].source = 0 /\ room + 1 <= Cardinality(FreeIds(w.t))
  BY DEF WalkInv
<1>2. w2.t = t3 /\ w2.h = h2 /\ w2.status = "success" /\ Walker(w2)
  BY DEF Walker, Entered
<1>3. H1 \in [Ids -> Nat] /\ H1[w.h] = H[w.h] + 1 /\ H[w.h] \in Nat
  BY <1>1, MoreFact
<1>4. w.t \in [Ids -> FileHandle]
  BY <1>1 DEF Good
<1>5. ASSUME NEW x \in Ids
      PROVE  /\ w.t[x].source = t[x].source /\ w.t[x].count <= t[x].count + One(x = w.h)
             /\ w.t[x].count \in Nat /\ t[x].count \in Nat /\ One(x = w.h) \in {0, 1}
  BY <1>4 DEF WalkInv, FileHandle, One
<1>6. \A x \in Ids : w.t[x].count + 1 < COUNT_MOD
  <2> SUFFICES ASSUME NEW x \in Ids PROVE w.t[x].count + 1 < COUNT_MOD
    OBVIOUS
  <2>1. t[x].count + 2 < COUNT_MOD /\ COUNT_MOD \in Nat
    BY FileSystemAssumption DEF Low
  <2> QED BY <1>5, <2>1
<1>7. FreeIds(w.t) # {}
  <2>1. Cardinality(FreeIds(w.t)) \in Nat
    BY FreeCount
  <2>2. Cardinality(FreeIds(w.t)) # 0
    BY <1>1, <2>1
  <2> QED BY <2>2, FreeCount
<1> HIDE DEF H1
<1>8. /\ h2 \in Ids /\ Good(t2, H2, E) /\ t2[h2].source = 0
      /\ \A x \in Ids : /\ t2[x].source = w.t[x].source
                        /\ t2[x].count = IF x = h2 THEN w.t[h2].count + 1 ELSE w.t[x].count
      /\ \A x \in Ids : x # h2 /\ w.t[x] = Unused => t2[x] = Unused
  BY <1>1, <1>6, <1>7, OpenOK
<1> HIDE DEF t2, h2
<1>9. H2[w.h] # 0
  <2>1. H2[w.h] = IF w.h = h2 THEN H1[h2] + 1 ELSE H1[w.h]
    BY <1>1, <1>3, <1>8, MoreFact
  <2> QED BY <1>3, <2>1
<1> HIDE DEF H2
<1>10. /\ Good(t3, Less(H2, w.h), E)
       /\ \A x \in Ids : /\ t3[x].source = t2[x].source
                         /\ t3[x].count = IF x = w.h THEN t2[w.h].count - 1 ELSE t2[x].count
       /\ \A x \in Ids : t2[x] = Unused => t3[x] = Unused
  <2>1. t2[w.h].source = 0
    BY <1>1, <1>8
  <2> QED BY <1>1, <1>8, <1>9, <2>1, ReleaseOK
<1>11. Less(H2, w.h) = More(H, h2)
  BY <1>1, <1>8, MoreLess DEF H1, H2
<1> HIDE DEF t3
<1>12. room <= Cardinality(FreeIds(t3))
  <2>1. \A x \in Ids : x # h2 /\ w.t[x] = Unused => t3[x] = Unused
    BY <1>8, <1>10
  <2>2. Cardinality(FreeIds(w.t)) <= Cardinality(FreeIds(t3)) + 1
    BY <2>1, FreeLess
  <2>3. Cardinality(FreeIds(w.t)) \in Nat /\ Cardinality(FreeIds(t3)) \in Nat
    BY FreeCount
  <2> QED BY <1>1, <2>2, <2>3
<1>13. ASSUME NEW x \in Ids
       PROVE  t3[x].source = t[x].source /\ t3[x].count <= t[x].count + One(x = h2)
  <2>1. t3[x].source = t[x].source
    BY <1>5, <1>8, <1>10
  <2>2. w.t[x].count <= t[x].count + One(x = w.h) /\ w.t[x].count \in Nat /\ t[x].count \in Nat
    BY <1>5
  <2>3. t2[x].count = w.t[x].count + One(x = h2)
    BY <1>8, <2>2 DEF One
  <2>4. t3[x].count = t2[x].count - One(x = w.h)
    BY <1>10, <2>2, <2>3 DEF One
  <2>5. One(x = w.h) \in Nat /\ One(x = h2) \in Nat
    BY DEF One
  <2> QED BY <2>1, <2>2, <2>3, <2>4, <2>5
<1>14. \A x \in Ids : One(w2.status = "success" /\ x = w2.h) = One(x = h2)
  BY <1>2 DEF One
<1>15. t3[h2].source = 0
  BY <1>8, <1>10
<1> QED BY <1>2, <1>8, <1>10, <1>11, <1>12, <1>13, <1>14, <1>15 DEF WalkInv

LEMMA WalkStepOK ==
  ASSUME NEW t, NEW H, NEW E, NEW room \in Nat, NEW w, WalkInv(w, t, H, E, room + 1), H \in [Ids -> Nat],
         t \in [Ids -> FileHandle], Low(t), NEW name
  PROVE  WalkInv(WalkStep(w, name), t, H, E, room)
<1> DEFINE node == w.t[w.h].node
           w2 == WalkStep(w, name)
<1>1. WalkInv(w, t, H, E, room)
  BY WalkRoom
<1>2. CASE w.status # "success"
  <2>1. w2 = w
    BY <1>2 DEF WalkStep
  <2> QED BY <1>1, <2>1
<1>3. ASSUME NEW status, status # "success", w.status = "success",
             w2 = [w EXCEPT !.t = Release(w.t, w.h), !.status = status]
      PROVE  WalkInv(w2, t, H, E, room)
  <2>1. Ended(w, w2, status)
    BY <1>3 DEF Ended
  <2> HIDE DEF w2
  <2> QED BY <1>1, <1>3, <2>1, WalkEnds
<1>4. CASE w.status = "success" /\ ~IsDir(node)
  <2>1. w2 = [w EXCEPT !.t = Release(w.t, w.h), !.status = "not_dir"]
    BY <1>4 DEF WalkStep
  <2>2. "not_dir" # "success"
    OBVIOUS
  <2> HIDE DEF w2
  <2>3. WalkInv(w2, t, H, E, room)
    BY <1>3, <1>4, <2>1, <2>2, Zenon
  <2> QED BY <2>3 DEF w2
<1>5. CASE w.status = "success" /\ IsDir(node) /\ name = "."
  <2>1. w2 = [w EXCEPT !.n = @ + 1]
    BY <1>5 DEF WalkStep
  <2>2. Walker(w)
    BY DEF WalkInv
  <2>3. w2 = [t |-> w.t, h |-> w.h, status |-> w.status, n |-> w.n + 1, fails |-> w.fails]
    BY <2>1, <2>2 DEF Walker
  <2> HIDE DEF w2
  <2>4. Walker(w2) /\ w2.t = w.t /\ w2.h = w.h /\ w2.status = w.status
    BY <2>3 DEF Walker
  <2>5. WalkInv(w2, t, H, E, room)
    BY <1>1, <2>4 DEF WalkInv
  <2> QED BY <2>5 DEF w2
<1>6. CASE w.status = "success" /\ IsDir(node) /\ name # "." /\ (name \notin DOMAIN Tree[node] \/ w.n = w.fails)
  <2>1. w2 = [w EXCEPT !.t = Release(w.t, w.h), !.status = "not_found"]
    BY <1>6 DEF WalkStep
  <2>2. "not_found" # "success"
    OBVIOUS
  <2> HIDE DEF w2
  <2>3. WalkInv(w2, t, H, E, room)
    BY <1>3, <1>6, <2>1, <2>2, Zenon
  <2> QED BY <2>3 DEF w2
<1>7. CASE w.status = "success" /\ IsDir(node) /\ name # "." /\ name \in DOMAIN Tree[node] /\ w.n # w.fails
  <2> DEFINE next == Tree[node][name]
  <2>1. Entered(w, w2, next)
    BY <1>7 DEF WalkStep, Entered
  <2>2. next \in Nodes
    BY <1>7, FileSystemAssumption DEF IsDir, Nodes
  <2> HIDE DEF next, w2
  <2>3. WalkInv(w2, t, H, E, room)
    BY <1>7, <2>1, <2>2, WalkEnters
  <2> QED BY <2>3 DEF w2
<1> QED BY <1>2, <1>4, <1>5, <1>6, <1>7

LEMMA WalksAreFolds ==
  \A base, names : FoldLeft(WalkStep, base, names) = Walks!Fold(base, names)
BY DEF Walks!Fold, WalkStep, FoldLeft, MapThenFoldSet, Max, Walks!FoldLeft, Walks!MapThenFoldSet, Walks!Max

(* All of a path.                                                          *)
LEMMA WalkOK ==
  ASSUME NEW t, NEW H, NEW E, H \in [Ids -> Nat], t \in [Ids -> FileHandle], Low(t), NEW room \in Nat,
         NEW names \in Seq(STRING), NEW base, WalkInv(base, t, H, E, room + Len(names))
  PROVE  WalkInv(FoldLeft(WalkStep, base, names), t, H, E, room)
<1> DEFINE n == Len(names)
<1>1. PICK g : Walks!Stages(g, base, names) /\ Walks!Fold(base, names) = g[n]
  BY Walks!FoldStages
<1>2. n \in Nat
  OBVIOUS
<1>3. g[0] = base /\ \A k \in 1 .. n : g[k] = WalkStep(g[k - 1], names[k])
  BY <1>1 DEF Walks!Stages
<1> HIDE DEF n
<1> DEFINE P(k) == WalkInv(g[k], t, H, E, room + (n - k))
<1>4. P(0)
  <2>1. room + (n - 0) = room + n
    BY <1>2
  <2> QED BY <1>3, <2>1 DEF n
<1>5. ASSUME NEW k \in 1 .. n, P(k - 1) PROVE P(k)
  <2> DEFINE r == room + (n - k)
             j == k - 1
  <2>1. r \in Nat /\ r + 1 = room + (n - j)
    BY <1>2
  <2>2. WalkInv(g[j], t, H, E, room + (n - j))
    BY <1>5
  <2>3. g[k] = WalkStep(g[j], names[k])
    BY <1>3
  <2> HIDE DEF r, j
  <2>4. WalkInv(g[j], t, H, E, r + 1)
    BY <2>1, <2>2
  <2>5. WalkInv(g[k], t, H, E, r)
    BY <2>1, <2>3, <2>4, WalkStepOK
  <2> QED BY <2>5 DEF r
<1> HIDE DEF P
<1>6. P(n)
  <2> DEFINE S == {k \in 0 .. n : P(k)}
  <2>1. 0 \in S /\ n \in 0 .. n
    BY <1>2, <1>4
  <2>2. \A k \in 1 .. n : k - 1 \in S => k \in S
    BY <1>2, <1>5
  <2>3. \A k \in 0 .. n : k \in S
    <3> HIDE DEF S
    <3> QED BY <1>2, <2>1, <2>2, UpTo
  <2> QED BY <2>1, <2>3
<1>7. room + (n - n) = room
  BY <1>2
<1> QED BY <1>1, <1>6, <1>7, WalksAreFolds DEF P

-----------------------------------------------------------------------------
(***************************************************************************)
(* fs_open() up to the check of the type.                                  *)
(***************************************************************************)
LEMMA FromOK ==
  ASSUME NEW t, NEW H, NEW E, Good(t, H, E), E # <<>>, NEW path, DeviceOf(Last(E), path) \in DOMAIN Root
  PROVE  From(t, Last(E), path) \in Ids /\ t[From(t, Last(E), path)].source = 0
<1> DEFINE env == Last(E)
           root == Root[DeviceOf(env, path)]
           n == Len(E)
<1>1. E \in Seq(Environment) /\ n \in 1 .. n /\ env = E[n]
  <2>1. E \in Seq(Environment)
    BY DEF Good
  <2> QED BY <2>1 DEF Last
<1>2. env \in Environment /\ (env.directory # 0 => DirectoryOf(t, env))
  BY <1>1 DEF Good
<1>3. env.directory # 0 => env.directory \in Ids /\ t[env.directory].source = 0
  BY <1>2 DEF Environment, DirectoryOf
<1>4. root \in PermanentNodes
  <2>1. root \in DOMAIN Owner
    BY FileSystemAssumption
  <2>2. Permanent(root)
    BY DEF Permanent
  <2> QED BY <2>1, <2>2 DEF PermanentNodes
<1>5. HandleOf(t, root) \in Ids /\ t[HandleOf(t, root)].source = 0
  BY <1>4, HandleOfOK
<1> HIDE DEF env, root
<1> QED BY <1>3, <1>5 DEF From, env, root

LEMMA OpenPathOK ==
  ASSUME NEW t, NEW H, NEW E, Good(t, H, E), E # <<>>, Low(t), NEW path, path.names \in Seq(STRING),
         DeviceOf(Last(E), path) \in DOMAIN Root, NEW room \in Nat,
         Cardinality(FreeIds(t)) >= Len(path.names) + (room + 1), NEW dir, NEW fails,
         NEW w, w = OpenPath(t, Last(E), path, dir, fails)
  PROVE  WalkInv(w, t, H, E, room) /\ (w.status = "success" => IsDir(w.t[w.h].node) = dir)
<1> DEFINE from == From(t, Last(E), path)
           t1 == Retain(t, from)
           base == [t |-> t1, h |-> from, status |-> "success", n |-> 1, fails |-> fails]
           v == Walk(t, Last(E), path, fails)
           k == Len(path.names)
<1>1. from \in Ids /\ t[from].source = 0
  BY FromOK
<1>2. t \in [Ids -> FileHandle] /\ H \in [Ids -> Nat]
  BY DEF Good
<1>3. t[from].count + 1 < COUNT_MOD
  <2>1. t[from].count + 2 < COUNT_MOD /\ COUNT_MOD \in Nat
    BY <1>1, FileSystemAssumption DEF Low
  <2>2. t[from].count \in Nat
    BY <1>1, <1>2 DEF FileHandle
  <2> QED BY <2>1, <2>2
<1>4. v = FoldLeft(WalkStep, base, path.names)
  BY DEF Walk
<1>5. w = CheckType(v, dir)
  BY DEF OpenPath
<1> HIDE DEF from, v
<1>6. /\ Good(t1, More(H, from), E)
      /\ \A x \in Ids : /\ t1[x].node = t[x].node /\ t1[x].source = t[x].source
                        /\ t1[x].count = IF x = from THEN t[from].count + 1 ELSE t[x].count
  BY <1>1, <1>3, RetainOK
<1>7. \A x \in Ids : x # from /\ t[x] = Unused => t1[x] = Unused
  BY <1>1, <1>2 DEF Retain
<1> HIDE DEF t1
<1>8. k \in Nat
  OBVIOUS
<1> HIDE DEF k
<1>9. room + k <= Cardinality(FreeIds(t1))
  <2>1. Cardinality(FreeIds(t)) <= Cardinality(FreeIds(t1)) + 1
    BY <1>7, FreeLess
  <2>2. Cardinality(FreeIds(t)) \in Nat /\ Cardinality(FreeIds(t1)) \in Nat
    BY FreeCount
  <2>3. Cardinality(FreeIds(t)) >= k + (room + 1)
    BY DEF k
  <2> QED BY <1>8, <2>1, <2>2, <2>3
<1>10. base.t = t1 /\ base.h = from /\ base.status = "success" /\ Walker(base)
  BY DEF Walker
<1> HIDE DEF base
<1>11. ASSUME NEW x \in Ids
       PROVE  t1[x].source = t[x].source /\ t1[x].count <= t[x].count + One(base.status = "success" /\ x = base.h)
  <2>1. t[x].count \in Nat
    BY <1>2 DEF FileHandle
  <2> QED BY <1>6, <1>10, <2>1 DEF One
<1>12. t1[from].source = 0
  BY <1>1, <1>6
<1>13. WalkInv(base, t, H, E, room + k)
  BY <1>1, <1>6, <1>9, <1>10, <1>11, <1>12 DEF WalkInv
<1>14. WalkInv(v, t, H, E, room)
  BY <1>2, <1>4, <1>13, WalkOK DEF k
<1>15. CASE v.status = "success" /\ IsDir(v.t[v.h].node) # dir
  <2>1. w = [v EXCEPT !.t = Release(v.t, v.h), !.status = "wrong_type"]
    BY <1>5, <1>15 DEF CheckType
  <2>2. Ended(v, w, "wrong_type") /\ "wrong_type" # "success"
    BY <2>1 DEF Ended
  <2>3. WalkInv(w, t, H, E, room) /\ w.status = "wrong_type"
    BY <1>2, <1>14, <1>15, <2>2, WalkEnds, SMTT(30)
  <2> QED BY <2>3
<1>16. CASE ~(v.status = "success" /\ IsDir(v.t[v.h].node) # dir)
  <2>1. w = v
    BY <1>5, <1>16 DEF CheckType
  <2> QED BY <1>14, <1>16, <2>1
<1> QED BY <1>15, <1>16

-----------------------------------------------------------------------------
(***************************************************************************)
(* Whose the decompressor is.                                              *)
(***************************************************************************)
Images == INSTANCE FoldLemmas WITH Op <- Iterate

Whose(z, c) == "current" \in DOMAIN z /\ z.current = c

LEMMA SeekWhose ==
  ASSUME NEW z, NEW c, Whose(z, c), NEW h, NEW offset
  PROVE  Whose(Seek(z, h, offset), h)
BY DEF Whose, Seek

LEMMA DeliverWhose ==
  ASSUME NEW z, NEW c, Whose(z, c), NEW count, NEW offset
  PROVE  Whose(Deliver(z, count, offset), c)
BY DEF Whose, Deliver

LEMMA BufferWhose ==
  ASSUME NEW z, NEW c, Whose(z, c), NEW b
  PROVE  Whose([z EXCEPT !.payload_buffer = b], c)
BY DEF Whose

LEMMA InflateWhose ==
  ASSUME NEW z, NEW c, Whose(z, c), NEW f, NEW in, NEW out
  PROVE  Whose(Inflate(z, f, in, out), c)
<1>1. CASE Fits(z, f, in, out)
  BY <1>1 DEF Whose, Inflate
<1>2. CASE ~Fits(z, f, in, out)
  BY <1>2 DEF Whose, Inflate
<1> QED BY <1>1, <1>2

Reading(r, c) ==
  /\ r = [image |-> r.image, into |-> r.into, z |-> r.z, count |-> r.count, offset |-> r.offset, bytes |-> r.bytes]
  /\ Whose(r.z, c)

LEMMA IterateWhose ==
  ASSUME NEW r, NEW c, Reading(r, c), NEW i
  PROVE  Reading(Iterate(r, i), c)
<1> DEFINE g == r.image
           bytes == Copied(r.z, r.count, r.offset)
           z1 == Deliver(r.z, r.count, r.offset)
           z2 == IF r.into THEN [z1 EXCEPT !.payload_buffer = Overwrite(@, Len(r.bytes), bytes)] ELSE z1
           in == InSize(z2, g)
           z3 == IF AtBoundary(z2) THEN Refill(z2, g, in) ELSE z2
           left == r.count - Len(bytes)
           z4 == IF left = 0 THEN z2 ELSE Inflate(z3, g, in, OutRoom(z2))
<1>1. Whose(z1, c)
  BY DeliverWhose DEF Reading
<1> HIDE DEF z1
<1>2. Whose(z2, c)
  BY <1>1, BufferWhose
<1> HIDE DEF z2
<1>3. Whose(z3, c)
  BY <1>2, BufferWhose DEF Refill
<1> HIDE DEF z3
<1>4. Whose(z4, c)
  BY <1>2, <1>3, InflateWhose
<1>5. CASE r.count = 0
  BY <1>5 DEF Iterate
<1>6. CASE r.count # 0
  <2>1. Iterate(r, i) = [r EXCEPT !.z = z4, !.count = left, !.offset = @ + Len(bytes), !.bytes = @ \o bytes]
    BY <1>6 DEF Iterate, z1, z2, z3
  <2> HIDE DEF z4, left, bytes
  <2>2. Iterate(r, i) = [image |-> r.image, into |-> r.into, z |-> z4, count |-> left,
                         offset |-> r.offset + Len(bytes), bytes |-> r.bytes \o bytes]
    BY <2>1 DEF Reading
  <2> QED BY <1>4, <2>2 DEF Reading
<1> QED BY <1>5, <1>6

LEMMA ImagesAreFolds ==
  \A base, seq : FoldLeft(Iterate, base, seq) = Images!Fold(base, seq)
BY DEF Images!Fold, Iterate, FoldLeft, MapThenFoldSet, Max, Images!FoldLeft, Images!MapThenFoldSet, Images!Max

LEMMA ReadImageWhose ==
  ASSUME NEW z, NEW c, Whose(z, c), NEW h, NEW g \in DOMAIN Stream, NEW count, NEW offset, NEW into
  PROVE  Whose(ReadImage(z, h, g, count, offset, into).z, h)
<1> DEFINE n == PayloadSize(g) + OutSize(g)
           seq == [i \in 1 .. n |-> i]
           base == [image |-> g, into |-> into, z |-> Seek(z, h, offset), count |-> count, offset |-> offset,
                    bytes |-> <<>>]
<1>1. n \in Nat
  <2>1. Stream[g] \in Seq(Nat) /\ Stream[g] # <<>>
    BY FileSystemAssumption
  <2>2. Len(Stream[g]) \in Nat /\ Stream[g][Len(Stream[g])] \in Nat
    BY <2>1
  <2> QED BY <2>2 DEF PayloadSize, OutSize, Last
<1> HIDE DEF n
<1>2. seq \in Seq(Nat) /\ Len(seq) = n
  BY <1>1
<1>3. ReadImage(z, h, g, count, offset, into) = Images!Fold(base, seq)
  BY ImagesAreFolds DEF ReadImage, n
<1>4. Reading(base, h)
  BY SeekWhose DEF Reading
<1> HIDE DEF base, seq
<1>5. PICK s : Images!Stages(s, base, seq) /\ Images!Fold(base, seq) = s[Len(seq)]
  BY <1>2, Images!FoldStages
<1>6. s[0] = base /\ \A k \in 1 .. n : s[k] = Iterate(s[k - 1], seq[k])
  BY <1>2, <1>5 DEF Images!Stages
<1> DEFINE S == {k \in 0 .. n : Reading(s[k], h)}
<1>7. 0 \in S /\ n \in 0 .. n
  BY <1>1, <1>4, <1>6
<1>8. \A k \in 1 .. n : k - 1 \in S => k \in S
  <2> SUFFICES ASSUME NEW k \in 1 .. n, k - 1 \in S PROVE Reading(s[k], h)
    BY <1>1
  <2>1. Reading(s[k - 1], h) /\ s[k] = Iterate(s[k - 1], seq[k])
    BY <1>6
  <2> QED BY <2>1, IterateWhose
<1>9. \A k \in 0 .. n : k \in S
  <2> HIDE DEF S
  <2> QED BY <1>1, <1>7, <1>8, UpTo
<1>10. Reading(s[n], h)
  BY <1>7, <1>9
<1> QED BY <1>2, <1>3, <1>5, <1>10 DEF Reading

LEMMA RawReadWhose ==
  ASSUME NEW z, NEW c, Whose(z, c), NEW f, NEW start, NEW count, NEW into
  PROVE  \E d \in {c, ImageHandle} : Whose(RawRead(z, f, start, count, into).z, d)
<1>1. CASE f \in DOMAIN Image
  <2>1. Image[f].file \in DOMAIN Stream
    BY <1>1, FileSystemAssumption
  <2>2. Whose(ReadImage(z, ImageHandle, Image[f].file, count, Image[f].base + start, into).z, ImageHandle)
    BY <2>1, ReadImageWhose
  <2> QED BY <1>1, <2>2 DEF RawRead
<1>2. CASE f \notin DOMAIN Image
  <2> DEFINE z2 == IF into THEN [z EXCEPT !.payload_buffer = Overwrite(@, 0, RawBytes(f, start, count))] ELSE z
  <2>1. Whose(z2, c)
    BY BufferWhose
  <2>2. RawRead(z, f, start, count, into).z = z2
    BY <1>2 DEF RawRead
  <2> QED BY <2>1, <2>2
<1> QED BY <1>1, <1>2

-----------------------------------------------------------------------------
(***************************************************************************)
(* The invariant, and each action.                                         *)
(***************************************************************************)
CurrentOpen(z, t) ==
  "current" \in DOMAIN z /\ (z.current # 0 => z.current \in Ids /\ t[z.current].source # 0)

FilesInv ==
  /\ scenario \in Scenarios /\ envs # <<>>
  /\ Good(handles, held, envs) /\ CurrentOpen(gz, handles)

(* No count of references comes near its width.                            *)
CountsBelow == \A h \in Ids : handles[h].count + 2 < COUNT_MOD

LEMMA RawReadOpen ==
  ASSUME NEW t, NEW H, NEW E, Good(t, H, E), NEW z, CurrentOpen(z, t),
         NEW f, NEW start, NEW count, NEW into
  PROVE  CurrentOpen(RawRead(z, f, start, count, into).z, t)
<1>1. Whose(z, z.current)
  BY DEF CurrentOpen, Whose
<1>2. PICK d \in {z.current, ImageHandle} : Whose(RawRead(z, f, start, count, into).z, d)
  BY <1>1, RawReadWhose
<1>3. ImageHandle # 0 => ImageHandle \in Ids /\ t[ImageHandle].source # 0
  BY IdsFact DEF Good
<1> QED BY <1>2, <1>3 DEF CurrentOpen, Whose

LEMMA OpenHeld ==
  ASSUME NEW z, NEW t, NEW t2, CurrentOpen(z, t), \A x \in Ids : t[x].source # 0 => t2[x].source # 0
  PROVE  CurrentOpen(z, t2)
BY DEF CurrentOpen

LEMMA LastEnv ==
  ASSUME NEW t, NEW H, NEW E, Good(t, H, E), E # <<>>
  PROVE  /\ Len(E) \in Nat \ {0} /\ Last(E) = E[Len(E)] /\ E[Len(E)] \in Environment
         /\ E[Len(E)].directory # 0 => DirectoryOf(t, E[Len(E)]) /\ E[Len(E)].directory \in Ids
         /\ H \in [Ids -> Nat] /\ t \in [Ids -> FileHandle]
<1>1. E \in Seq(Environment)
  BY DEF Good
<1>2. Len(E) \in Nat \ {0} /\ Last(E) = E[Len(E)] /\ E[Len(E)] \in Environment
  BY <1>1 DEF Last
<1> QED BY <1>2 DEF Good, Environment

LEMMA FsOpenStep ==
  ASSUME FilesInv, CountsBelow, NEW path \in scenario.paths, NEW decompress, NEW fails, NEW error,
         FsOpen(path, decompress, fails, error)
  PROVE  FilesInv'
<1> DEFINE w == OpenPath(handles, Last(envs), path, FALSE, fails)
           f == w.t[w.h].node
           z0 == [gz EXCEPT !.current = 0]
           z1 == ReadHeader(gz, f)
           wrap == Fresh(w.t)
<1>1. /\ Good(handles, held, envs) /\ CurrentOpen(gz, handles) /\ envs # <<>> /\ Low(handles)
      /\ path.names \in Seq(STRING)
  <2>1. path.names \in Seq(STRING)
    BY FileSystemAssumption DEF FilesInv
  <2> QED BY <2>1 DEF FilesInv, CountsBelow, Low
<1>2. /\ DeviceOf(Last(envs), path) \in DOMAIN Root /\ Cardinality(FreeIds(handles)) >= Len(path.names) + 2
      /\ UNCHANGED <<scenario, envs>>
      /\ IF w.status # "success" THEN handles' = w.t /\ UNCHANGED <<held, gz>>
         ELSE IF ~decompress THEN handles' = w.t /\ held' = [held EXCEPT ![w.h] = @ + 1] /\ UNCHANGED gz
         ELSE IF error \/ ~HasMagic(z1)
         THEN handles' = w.t /\ held' = [held EXCEPT ![w.h] = @ + 1] /\ gz' = z1
         ELSE /\ handles' = [w.t EXCEPT ![wrap] = [node |-> f, count |-> 1, source |-> w.h]]
              /\ held' = [held EXCEPT ![wrap] = @ + 1]
              /\ gz' = ReadTrailer(z1, f)
  BY DEF FsOpen
<1> HIDE DEF w
<1>3. WalkInv(w, handles, held, envs, 1)
  <2>1. Len(path.names) + 2 = Len(path.names) + (1 + 1) /\ 1 \in Nat
    BY <1>1
  <2>2. Cardinality(FreeIds(handles)) >= Len(path.names) + (1 + 1)
    BY <1>2, <2>1
  <2> QED BY <1>1, <1>2, <2>1, <2>2, OpenPathOK DEF w
<1>4. \A x \in Ids : w.t[x].source = handles[x].source
  BY <1>3 DEF WalkInv
<1>5. CurrentOpen(gz, w.t)
  BY <1>1, <1>4, OpenHeld
<1>6. ASSUME w.status # "success" PROVE FilesInv'
  <2>1. handles' = w.t /\ held' = held /\ gz' = gz /\ envs' = envs /\ scenario' = scenario
    BY <1>2, <1>6
  <2>2. Good(w.t, held, envs)
    BY <1>3, <1>6 DEF WalkInv
  <2> QED BY <1>5, <2>1, <2>2 DEF FilesInv
<1>7. ASSUME w.status = "success" PROVE FilesInv'
  <2>1. w.h \in Ids /\ Good(w.t, More(held, w.h), envs) /\ w.t[w.h].source = 0 /\ 1 <= Cardinality(FreeIds(w.t))
    BY <1>3, <1>7 DEF WalkInv
  <2>2. CurrentOpen(z0, w.t) /\ z1 = RawRead(z0, f, 0, Min({RawSize[f], GZIP_HEADER}), TRUE).z
    BY <1>1 DEF CurrentOpen, ReadHeader
  <2> HIDE DEF z0, z1, f
  <2>3. CurrentOpen(z1, w.t)
    BY <2>1, <2>2, RawReadOpen
  <2>4. CASE handles' = w.t /\ held' = [held EXCEPT ![w.h] = @ + 1] /\ (gz' = gz \/ gz' = z1)
    <3>1. held' = More(held, w.h)
      BY <2>4 DEF More
    <3>2. CurrentOpen(gz', handles')
      BY <1>5, <2>3, <2>4
    <3> QED BY <1>2, <2>1, <2>4, <3>1, <3>2 DEF FilesInv
  <2>5. CASE /\ handles' = [w.t EXCEPT ![wrap] = [node |-> f, count |-> 1, source |-> w.h]]
             /\ held' = [held EXCEPT ![wrap] = @ + 1]
             /\ gz' = ReadTrailer(z1, f)
    <3>1. wrap \in Ids /\ w.t[wrap] = Unused
      <4>1. Cardinality(FreeIds(w.t)) # 0
        BY <2>1
      <4> QED BY <4>1, FreeCount, FreshOK
    <3> HIDE DEF wrap
    <3>2. f \in Nodes \cup {NONE} /\ held \in [Ids -> Nat]
      <4>1. w.t[w.h] \in FileHandle
        BY <2>1 DEF Good
      <4> QED BY <1>1, <4>1 DEF FileHandle, f, Good
    <3>3. /\ Good(handles', More(held, wrap), envs) /\ handles'[wrap].source # 0
          /\ \A x \in Ids \ {wrap} : handles'[x].source = w.t[x].source
      <4>1. NewSource(w.t, handles', wrap, f, w.h)
        BY <2>5 DEF NewSource
      <4> QED BY <2>1, <3>1, <3>2, <4>1, WrapOK
    <3>4. CurrentOpen(z1, handles')
      <4>1. \A x \in Ids : w.t[x].source # 0 => handles'[x].source # 0
        BY <3>3
      <4> QED BY <2>3, <4>1, OpenHeld
    <3>5. CurrentOpen(gz', handles')
      BY <2>5, <3>3, <3>4, RawReadOpen DEF ReadTrailer
    <3>6. held' = More(held, wrap)
      BY <2>5 DEF More
    <3> QED BY <1>2, <3>3, <3>5, <3>6 DEF FilesInv
  <2> QED BY <1>2, <1>7, <2>4, <2>5
<1> QED BY <1>6, <1>7

LEMMA FsCloseStep ==
  ASSUME FilesInv, NEW h \in Ids, FsClose(h)
  PROVE  FilesInv'
<1>1. Good(handles, held, envs) /\ CurrentOpen(gz, handles)
  BY DEF FilesInv
<1>2. held[h] \in Nat /\ handles[h].count \in Nat
  <2>1. handles[h] \in FileHandle
    BY <1>1 DEF Good
  <2> QED BY <1>1, <2>1 DEF Good, FileHandle
<1>3. /\ held[h] # 0 /\ held' = Less(held, h) /\ handles' = Close(handles, h) /\ gz' = Forget(gz, handles, h)
      /\ UNCHANGED <<scenario, envs>>
  BY <1>2 DEF FsClose, Less
<1>4. CASE LastReference(handles, h)
  <2>1. handles[h].source # 0 /\ handles[h].count = 1
    BY <1>4 DEF LastReference, Compressed
  <2>2. /\ Good(handles', held', envs)
        /\ \A x \in Ids \ {h} : handles'[x].source = handles[x].source
    BY <1>1, <1>3, <2>1, CloseLast
  <2>3. CASE gz.current = h
    <3>1. gz' = [gz EXCEPT !.current = 0]
      BY <1>3, <1>4, <2>3 DEF Forget
    <3>2. CurrentOpen(gz', handles')
      BY <1>1, <3>1 DEF CurrentOpen
    <3> QED BY <1>3, <2>2, <3>2 DEF FilesInv
  <2>4. CASE gz.current # h
    <3>1. gz' = gz
      BY <1>3, <2>4 DEF Forget
    <3>2. CurrentOpen(gz', handles')
      BY <1>1, <2>2, <2>4, <3>1 DEF CurrentOpen
    <3> QED BY <1>3, <2>2, <3>2 DEF FilesInv
  <2> QED BY <2>3, <2>4
<1>5. CASE ~LastReference(handles, h)
  <2>1. handles' = Release(handles, h) /\ gz' = gz
    BY <1>3, <1>5 DEF Close, Forget
  <2>2. handles[h].source = 0 \/ handles[h].count # 1
    BY <1>5 DEF LastReference, Compressed
  <2>3. /\ Good(Release(handles, h), Less(held, h), envs)
        /\ \A x \in Ids : Release(handles, h)[x].source = handles[x].source
    BY <1>1, <1>3, <2>2, ReleaseOK
  <2>4. CurrentOpen(gz', handles')
    BY <1>1, <2>1, <2>3, OpenHeld
  <2> QED BY <1>3, <2>1, <2>3, <2>4 DEF FilesInv
<1> QED BY <1>4, <1>5

LEMMA DeliverOpen ==
  ASSUME NEW t, NEW z, CurrentOpen(z, t), NEW count, NEW offset
  PROVE  CurrentOpen(Deliver(z, count, offset), t)
<1>1. Whose(z, z.current)
  BY DEF CurrentOpen, Whose
<1>2. Whose(Deliver(z, count, offset), z.current)
  BY <1>1, DeliverWhose
<1> QED BY <1>2 DEF CurrentOpen, Whose

LEMMA InflateOpen ==
  ASSUME NEW t, NEW z, CurrentOpen(z, t), NEW f, NEW in, NEW out
  PROVE  CurrentOpen(Inflate(z, f, in, out), t)
<1>1. Whose(z, z.current)
  BY DEF CurrentOpen, Whose
<1>2. Whose(Inflate(z, f, in, out), z.current)
  BY <1>1, InflateWhose
<1> QED BY <1>2 DEF CurrentOpen, Whose

LEMMA ReadSteps ==
  ASSUME FilesInv,
         \/ ReadStep
         \/ \E h \in Ids, r \in scenario.reads : ReadPlain(h, r[1], r[2]) \/ ReadBegin(h, r[1], r[2])
  PROVE  FilesInv'
<1>1. Good(handles, held, envs) /\ CurrentOpen(gz, handles)
  BY DEF FilesInv
<1>2. CurrentOpen(After, handles)
  BY <1>1, DeliverOpen DEF After
<1>3. CurrentOpen(Refilled, handles)
  <2>1. CASE AtBoundary(After)
    <3>1. Refilled = RawRead(After, Source, GZIP_HEADER + After.payload_offset, InSize(After, Source), TRUE).z
      BY <2>1 DEF Refilled
    <3> QED BY <1>1, <1>2, <3>1, RawReadOpen
  <2>2. CASE ~AtBoundary(After)
    BY <1>2, <2>2 DEF Refilled
  <2> QED BY <2>1, <2>2
<1>4. UNCHANGED <<scenario, handles, held, envs>>
  BY DEF ReadStep, ReadDone, ReadFails, ReadMore, InflateFails, ReadPlain, ReadBegin
<1>5. ASSUME CurrentOpen(gz', handles) PROVE FilesInv'
  BY <1>4, <1>5 DEF FilesInv
<1>6. CASE ReadDone \/ ReadFails
  <2>1. gz' = After
    BY <1>6 DEF ReadDone, ReadFails
  <2> QED BY <1>2, <1>5, <2>1
<1>7. CASE ReadMore
  <2>1. gz' = Inflate(Refilled, Source, InSize(After, Source), OutRoom(After))
    BY <1>7 DEF ReadMore
  <2>2. CurrentOpen(gz', handles)
    BY <1>3, <2>1, InflateOpen
  <2> QED BY <1>5, <2>2
<1>8. CASE InflateFails
  <2>1. gz' = [Refilled EXCEPT !.current = 0]
    BY <1>8 DEF InflateFails
  <2>2. CurrentOpen(gz', handles)
    BY <1>3, <2>1 DEF CurrentOpen
  <2> QED BY <1>5, <2>2
<1>9. ASSUME NEW h \in Ids, NEW r \in scenario.reads, ReadPlain(h, r[1], r[2]) PROVE FilesInv'
  <2>1. gz' = RawRead(gz, handles[h].node, r[1], r[2], FALSE).z
    BY <1>9 DEF ReadPlain
  <2>2. CurrentOpen(gz', handles)
    BY <1>1, <2>1, RawReadOpen
  <2> QED BY <1>5, <2>2
<1>10. ASSUME NEW h \in Ids, NEW r \in scenario.reads, ReadBegin(h, r[1], r[2]) PROVE FilesInv'
  <2>1. gz' = Seek(gz, h, r[1]) /\ handles[h].source # 0
    BY <1>10 DEF ReadBegin, Compressed
  <2>2. Whose(gz, gz.current)
    BY <1>1 DEF CurrentOpen, Whose
  <2>3. Whose(gz', h)
    BY <2>1, <2>2, SeekWhose
  <2>4. CurrentOpen(gz', handles)
    BY <2>1, <2>3 DEF CurrentOpen, Whose
  <2> QED BY <1>5, <2>4
<1> QED BY <1>6, <1>7, <1>8, <1>9, <1>10 DEF ReadStep

-----------------------------------------------------------------------------
(***************************************************************************)
(* Environments.                                                           *)
(***************************************************************************)
LEMMA EnvCreateStep ==
  ASSUME FilesInv, CountsBelow, EnvCreate
  PROVE  FilesInv'
<1> DEFINE n == Len(envs)
           parent == envs[n]
           d == parent.directory
<1>1. Good(handles, held, envs) /\ CurrentOpen(gz, handles) /\ envs # <<>>
  BY DEF FilesInv
<1>2. /\ n \in Nat \ {0} /\ Last(envs) = parent /\ parent \in Environment
      /\ d # 0 => DirectoryOf(handles, parent) /\ d \in Ids
      /\ held \in [Ids -> Nat] /\ handles \in [Ids -> FileHandle]
  BY <1>1, LastEnv
<1>3. /\ envs' = Append(envs, parent) /\ handles' = IF d = 0 THEN handles ELSE Retain(handles, d)
      /\ UNCHANGED <<scenario, held, gz>>
  BY <1>2 DEF EnvCreate
<1>4. envs \in Seq(Environment)
  BY <1>1 DEF Good
<1> HIDE DEF parent
<1>5. envs' # <<>>
  <2>1. Len(Append(envs, parent)) = n + 1
    BY <1>4
  <2> QED BY <1>2, <1>3, <2>1
<1>6. CASE d = 0
  <2>1. \A x \in Ids : held[x] + One(d = x) <= held[x]
    BY <1>2, <1>6, IdsFact DEF One
  <2>2. Good(handles, held, Append(envs, parent))
    BY <1>1, <1>2, <1>6, <2>1, EnvAppend
  <2> QED BY <1>1, <1>3, <1>5, <1>6, <2>2 DEF FilesInv
<1>7. CASE d # 0
  <2> DEFINE t == Retain(handles, d)
             G == More(held, d)
  <2>1. d \in Ids /\ DirectoryOf(handles, parent)
    BY <1>2, <1>7
  <2>2. handles[d].count + 1 < COUNT_MOD
    <3>1. handles[d].count + 2 < COUNT_MOD /\ COUNT_MOD \in Nat
      BY <2>1, FileSystemAssumption DEF CountsBelow
    <3>2. handles[d].count \in Nat
      BY <1>2, <2>1 DEF FileHandle
    <3> QED BY <3>1, <3>2
  <2>3. /\ Good(t, G, envs)
        /\ \A x \in Ids : t[x].node = handles[x].node /\ t[x].source = handles[x].source
    BY <1>1, <2>1, <2>2, RetainOK
  <2>4. \A x \in Ids : G[x] = IF x = d THEN held[d] + 1 ELSE held[x]
    BY <1>2, <2>1, MoreFact
  <2> HIDE DEF t, G
  <2>5. \A x \in Ids : held[x] + One(d = x) <= G[x]
    BY <1>2, <2>4 DEF One
  <2>6. DirectoryOf(t, parent)
    BY <2>1, <2>3 DEF DirectoryOf
  <2>7. Good(t, held, Append(envs, parent))
    BY <1>2, <2>3, <2>5, <2>6, EnvAppend
  <2>8. CurrentOpen(gz, t)
    BY <1>1, <2>3, OpenHeld
  <2> QED BY <1>1, <1>3, <1>5, <1>7, <2>7, <2>8 DEF FilesInv, t
<1> QED BY <1>6, <1>7

LEMMA EnvDestroyStep ==
  ASSUME FilesInv, EnvDestroy
  PROVE  FilesInv'
<1>1. Good(handles, held, envs) /\ CurrentOpen(gz, handles) /\ envs # <<>>
  BY DEF FilesInv
<1>2. Len(envs) > 1 /\ envs' = Front(envs) /\ UNCHANGED <<scenario, handles, held, gz>>
  BY DEF EnvDestroy, Top
<1>3. Good(handles, held, envs') /\ Len(envs') = Len(envs) - 1
  BY <1>1, <1>2, EnvFront
<1>4. Len(envs) \in Nat
  BY <1>1, LastEnv
<1>5. envs' # <<>>
  BY <1>2, <1>3, <1>4
<1> QED BY <1>1, <1>2, <1>3, <1>5 DEF FilesInv

(* The current environment gives its directory up and has it closed.       *)
LEMMA CloseDirectoryOK ==
  ASSUME NEW t, NEW H, NEW E, Good(t, H, E), E # <<>>, NEW e \in Environment, e.directory = 0,
         NEW E2, EnvNow(E, E2, e), NEW t2, t2 = CloseDirectory(t, E[Len(E)])
  PROVE  /\ Good(t2, H, E2) /\ Len(E2) = Len(E) /\ E2[Len(E)] = e
         /\ \A x \in Ids : /\ t2[x].source = t[x].source
                           /\ H[x] # 0 => t2[x].node = t[x].node
                           /\ t2[x].count <= t[x].count
<1> DEFINE n == Len(E)
           d == E[n].directory
<1>1. /\ d # 0 => DirectoryOf(t, E[n]) /\ d \in Ids
      /\ H \in [Ids -> Nat] /\ t \in [Ids -> FileHandle]
  BY LastEnv
<1>2. \A x \in Ids : H[x] \in Nat /\ t[x].count \in Nat /\ x # 0
  BY <1>1, IdsFact DEF FileHandle
<1>3. CASE d = 0
  <2>1. t2 = t
    BY <1>3 DEF CloseDirectory
  <2>2. \A x \in Ids : H[x] + One(e.directory = x) <= H[x] + One(E[Len(E)].directory = x)
    BY <1>2, <1>3 DEF One
  <2>3. Good(t, H, E2) /\ Len(E2) = Len(E) /\ E2[Len(E)] = e
    BY <1>1, <2>2, EnvSet
  <2> QED BY <1>2, <2>1, <2>3
<1>4. CASE d # 0
  <2> DEFINE G == More(H, d)
  <2>1. t2 = Release(t, d) /\ d \in Ids /\ t[d].source = 0
    BY <1>1, <1>4 DEF CloseDirectory, DirectoryOf
  <2>2. G \in [Ids -> Nat] /\ \A x \in Ids : G[x] = IF x = d THEN H[d] + 1 ELSE H[x]
    BY <1>1, <2>1, MoreFact
  <2>3. Less(G, d) = H
    BY <1>1, <2>1, MoreLess
  <2> HIDE DEF G
  <2>4. \A x \in Ids : G[x] + One(e.directory = x) <= H[x] + One(E[Len(E)].directory = x)
    BY <1>2, <2>2 DEF One
  <2>5. Good(t, G, E2) /\ Len(E2) = Len(E) /\ E2[Len(E)] = e
    BY <2>2, <2>4, EnvSet
  <2>6. G[d] # 0
    BY <1>2, <2>1, <2>2
  <2>7. /\ Good(t2, Less(G, d), E2)
        /\ \A x \in Ids : /\ t2[x].source = t[x].source
                          /\ Less(G, d)[x] # 0 \/ x # d => t2[x].node = t[x].node
                          /\ t2[x].count = IF x = d THEN t[d].count - 1 ELSE t[x].count
    BY <2>1, <2>5, <2>6, ReleaseOK
  <2>8. \A x \in Ids : t2[x].count <= t[x].count
    BY <1>2, <2>1, <2>7
  <2> QED BY <2>3, <2>5, <2>7, <2>8
<1> QED BY <1>3, <1>4

LEMMA SetDeviceStep ==
  ASSUME FilesInv, NEW device \in {Owner[m] : m \in DOMAIN Owner}, SetDevice(device)
  PROVE  FilesInv'
<1> DEFINE n == Len(envs)
           e == [device |-> device, directory |-> 0]
<1>1. Good(handles, held, envs) /\ CurrentOpen(gz, handles) /\ envs # <<>>
  BY DEF FilesInv
<1>2. n \in Nat \ {0} /\ Last(envs) = envs[n]
  BY <1>1, LastEnv
<1>3. /\ handles' = CloseDirectory(handles, envs[n]) /\ envs' = [envs EXCEPT ![n] = e]
      /\ UNCHANGED <<scenario, held, gz>>
  BY <1>2 DEF SetDevice, WithDevice, Top
<1>4. e \in Environment /\ e.directory = 0
  BY DEF Environment, Devices
<1> HIDE DEF e
<1>5. /\ Good(handles', held, envs') /\ Len(envs') = n
      /\ \A x \in Ids : handles'[x].source = handles[x].source
  <2>1. EnvNow(envs, envs', e)
    BY <1>3 DEF EnvNow
  <2> QED BY <1>1, <1>3, <1>4, <2>1, CloseDirectoryOK
<1>6. CurrentOpen(gz, handles') /\ envs' # <<>>
  <2>1. CurrentOpen(gz, handles')
    BY <1>1, <1>5, OpenHeld
  <2> QED BY <1>2, <1>5, <2>1
<1> QED BY <1>3, <1>5, <1>6 DEF FilesInv

LEMMA CdStep ==
  ASSUME FilesInv, CountsBelow, NEW path \in scenario.paths, NEW fails, Cd(path, fails)
  PROVE  FilesInv'
<1> DEFINE n == Len(envs)
           env == Last(envs)
           w == OpenPath(handles, Last(envs), path, TRUE, fails)
<1>1. /\ Good(handles, held, envs) /\ CurrentOpen(gz, handles) /\ envs # <<>> /\ Low(handles)
      /\ path.names \in Seq(STRING)
  <2>1. path.names \in Seq(STRING)
    BY FileSystemAssumption DEF FilesInv
  <2> QED BY <2>1 DEF FilesInv, CountsBelow, Low
<1>2. /\ DeviceOf(Last(envs), path) \in DOMAIN Root /\ Cardinality(FreeIds(handles)) >= Len(path.names) + 1
      /\ UNCHANGED <<scenario, held, gz>>
      /\ IF w.status # "success" THEN handles' = w.t /\ UNCHANGED envs
         ELSE IF Owner[w.t[w.h].node] # env.device THEN handles' = Release(w.t, w.h) /\ UNCHANGED envs
         ELSE /\ handles' = Release(SetDirectory(w.t, env, w.h), w.h)
              /\ envs' = [envs EXCEPT ![n].directory = w.h]
  BY DEF Cd, Top
<1>3. /\ n \in Nat \ {0} /\ env = envs[n] /\ env \in Environment
      /\ held \in [Ids -> Nat] /\ handles \in [Ids -> FileHandle]
  BY <1>1, LastEnv
<1> HIDE DEF w, env
<1>4. WalkInv(w, handles, held, envs, 0) /\ (w.status = "success" => IsDir(w.t[w.h].node) = TRUE)
  <2> DEFINE room == 0
             dir == TRUE
  <2>1. room \in Nat /\ Cardinality(FreeIds(handles)) >= Len(path.names) + (room + 1)
    BY <1>1, <1>2
  <2>2. w = OpenPath(handles, Last(envs), path, dir, fails)
    BY DEF w
  <2> HIDE DEF room, dir
  <2>3. WalkInv(w, handles, held, envs, room) /\ (w.status = "success" => IsDir(w.t[w.h].node) = dir)
    BY <1>1, <1>2, <2>1, <2>2, OpenPathOK
  <2> QED BY <2>3 DEF room, dir
<1>5. \A x \in Ids : w.t[x].source = handles[x].source
  BY <1>4 DEF WalkInv
<1>6. ASSUME w.status # "success" PROVE FilesInv'
  <2>1. handles' = w.t /\ held' = held /\ gz' = gz /\ envs' = envs /\ scenario' = scenario
    BY <1>2, <1>6
  <2>2. Good(w.t, held, envs)
    BY <1>4, <1>6 DEF WalkInv
  <2>3. CurrentOpen(gz, w.t)
    BY <1>1, <1>5, OpenHeld
  <2> QED BY <2>1, <2>2, <2>3 DEF FilesInv
<1>7. ASSUME w.status = "success", Owner[w.t[w.h].node] # env.device PROVE FilesInv'
  <2> DEFINE w2 == [w EXCEPT !.t = Release(w.t, w.h), !.status = "closed"]
  <2>1. WalkInv(w2, handles, held, envs, 0) /\ w2.t = Release(w.t, w.h) /\ w2.status = "closed"
    <3>1. Ended(w, w2, "closed") /\ "closed" # "success" /\ 0 \in Nat
      BY DEF Ended
    <3> HIDE DEF w2
    <3> QED BY <1>3, <1>4, <1>7, <3>1, WalkEnds
  <2> HIDE DEF w2
  <2>2. Good(w2.t, held, envs) /\ \A x \in Ids : w2.t[x].source = handles[x].source
    BY <2>1 DEF WalkInv
  <2>3. CurrentOpen(gz, w2.t)
    BY <1>1, <2>2, OpenHeld
  <2>4. handles' = w2.t /\ held' = held /\ gz' = gz /\ envs' = envs /\ scenario' = scenario
    BY <1>2, <1>7, <2>1
  <2> QED BY <2>2, <2>3, <2>4 DEF FilesInv
<1>8. ASSUME w.status = "success", Owner[w.t[w.h].node] = env.device PROVE FilesInv'
  <2> DEFINE h == w.h
             G == More(held, h)
             GG == More(G, h)
             e1 == [device |-> env.device, directory |-> 0]
             e2 == [device |-> env.device, directory |-> h]
             E1 == [envs EXCEPT ![n] = e1]
             E2 == [E1 EXCEPT ![Len(E1)] = e2]
             t1 == CloseDirectory(w.t, envs[n])
             t2 == Retain(t1, h)
             t3 == Release(t2, h)
  <2>1. h \in Ids /\ Good(w.t, G, envs) /\ w.t[h].source = 0 /\ IsDir(w.t[h].node)
    BY <1>4, <1>8 DEF WalkInv
  <2>2. handles' = t3 /\ envs' = [envs EXCEPT ![n].directory = h] /\ UNCHANGED <<scenario, held, gz>>
    BY <1>2, <1>3, <1>8 DEF SetDirectory
  <2> HIDE DEF h
  <2>3. e1 \in Environment /\ e1.directory = 0 /\ e2 \in Environment /\ e2.directory = h /\ e2.device = env.device
    BY <1>3, <2>1 DEF Environment
  <2>4. envs' = [envs EXCEPT ![n] = e2]
    <3>1. envs[n] = [device |-> env.device, directory |-> env.directory]
      BY <1>3 DEF Environment
    <3>2. [envs[n] EXCEPT !.directory = h] = e2
      BY <3>1
    <3> HIDE DEF e2
    <3> QED BY <2>2, <3>2
  <2> HIDE DEF e1, e2
  <2>5. envs \in Seq(Environment)
    BY <1>1 DEF Good
  <2>6. /\ Good(t1, G, E1) /\ Len(E1) = n /\ E1[n] = e1
        /\ \A x \in Ids : /\ t1[x].source = w.t[x].source /\ (G[x] # 0 => t1[x].node = w.t[x].node)
                          /\ t1[x].count <= w.t[x].count
    <3>1. EnvNow(envs, E1, e1)
      BY DEF EnvNow
    <3> HIDE DEF E1, t1, G
    <3>2. t1 = CloseDirectory(w.t, envs[Len(envs)])
      BY DEF t1
    <3> QED BY <1>1, <2>1, <2>3, <3>1, <3>2, CloseDirectoryOK
  <2>7. E2 = [envs EXCEPT ![n] = e2]
    BY <2>5, <2>6
  <2> HIDE DEF t1, E1
  <2>8. G \in [Ids -> Nat] /\ G[h] = held[h] + 1 /\ held[h] \in Nat
    BY <1>3, <2>1, MoreFact
  <2>9. t1[h].source = 0 /\ t1[h].node = w.t[h].node
    BY <2>1, <2>6, <2>8
  <2>10. t1[h].count + 1 < COUNT_MOD
    <3>1. handles[h].count + 2 < COUNT_MOD /\ COUNT_MOD \in Nat
      BY <1>1, <2>1, FileSystemAssumption DEF Low
    <3>2. w.t[h].count <= handles[h].count + One(w.status = "success" /\ h = w.h)
      BY <1>4, <2>1 DEF WalkInv
    <3>3. One(w.status = "success" /\ h = w.h) \in {0, 1}
      BY DEF One
    <3>4. t1[h].count <= w.t[h].count
      BY <2>1, <2>6
    <3>5. t1[h].count \in Nat /\ w.t[h].count \in Nat /\ handles[h].count \in Nat
      <4>1. t1[h] \in FileHandle /\ w.t[h] \in FileHandle /\ handles[h] \in FileHandle
        BY <1>3, <2>1, <2>6 DEF Good
      <4> QED BY <4>1 DEF FileHandle
    <3> HIDE DEF h
    <3> QED BY <3>1, <3>2, <3>3, <3>4, <3>5
  <2> HIDE DEF G
  <2>11. /\ Good(t2, GG, E1)
         /\ \A x \in Ids : t2[x].node = t1[x].node /\ t2[x].source = t1[x].source
    BY <2>1, <2>6, <2>10, RetainOK
  <2> HIDE DEF t2
  <2>12. DirectoryOf(t2, e2)
    <3>1. t2[h].source = 0 /\ t2[h].node = w.t[h].node
      BY <2>1, <2>9, <2>11
    <3>2. Owner[w.t[h].node] = env.device
      BY <1>8 DEF h
    <3> QED BY <2>1, <2>3, <3>1, <3>2 DEF DirectoryOf
  <2>13. \A x \in Ids : GG[x] = IF x = h THEN G[h] + 1 ELSE G[x]
    BY <2>1, <2>8, MoreFact
  <2>14. Less(G, h) = held
    BY <1>3, <2>1, MoreLess DEF G
  <2> HIDE DEF GG
  <2>15. \A x \in Ids : G[x] + One(e2.directory = x) <= GG[x] + One(E1[Len(E1)].directory = x)
    <3>1. \A x \in Ids : One(e2.directory = x) = One(x = h) /\ One(E1[Len(E1)].directory = x) = 0
      BY <2>3, <2>6, IdsFact DEF One
    <3>2. \A x \in Ids : G[x] \in Nat
      BY <2>8
    <3> QED BY <2>8, <2>13, <3>1, <3>2 DEF One
  <2>16. Good(t2, G, E2) /\ Len(E2) = Len(E1)
    <3>1. E1 # <<>>
      BY <1>3, <2>6
    <3>2. EnvNow(E1, E2, e2)
      BY DEF EnvNow
    <3> HIDE DEF E2
    <3> QED BY <2>3, <2>8, <2>11, <2>12, <2>15, <3>1, <3>2, EnvSet
  <2>17. Good(t3, held, E2) /\ \A x \in Ids : t3[x].source = t2[x].source
    <3>1. G[h] # 0 /\ t2[h].source = 0
      BY <2>1, <2>8, <2>9, <2>11
    <3>2. Good(t3, Less(G, h), E2) /\ \A x \in Ids : t3[x].source = t2[x].source
      BY <2>1, <2>16, <3>1, ReleaseOK
    <3> QED BY <2>14, <3>2
  <2>18. CurrentOpen(gz, t3)
    <3>1. \A x \in Ids : t3[x].source = handles[x].source
      BY <1>5, <2>6, <2>11, <2>17
    <3> HIDE DEF t3
    <3> QED BY <1>1, <3>1, OpenHeld
  <2>19. envs' = E2 /\ E2 # <<>>
    BY <1>3, <2>4, <2>6, <2>7, <2>16
  <2> HIDE DEF t3, E2
  <2> QED BY <2>2, <2>17, <2>18, <2>19 DEF FilesInv
<1> QED BY <1>6, <1>7, <1>8

-----------------------------------------------------------------------------
(***************************************************************************)
(* The start: everything is mounted.                                       *)
(***************************************************************************)
LEMMA MountSeq ==
  LET s == SetToSeq(PermanentNodes)
      n == Cardinality(PermanentNodes)
  IN  /\ n \in Nat /\ s \in [1 .. n -> PermanentNodes] /\ Len(s) = n
      /\ \A m \in PermanentNodes : \E i \in 1 .. n : s[i] = m
<1> DEFINE S == PermanentNodes
           n == Cardinality(S)
           D == 1 .. n
           s == SetToSeq(S)
<1>1. n \in Nat /\ ExistsBijection(D, S) /\ IsFiniteSet(S)
  BY IdsFact, FS_CardinalityType
<1>2. \E f \in [D -> S] : IsInjective(f)
  BY <1>1 DEF ExistsBijection, Bijection, Injection
<1>3. s \in [D -> S] /\ IsInjective(s)
  <2>1. s = CHOOSE f \in [D -> S] : IsInjective(f)
    BY DEF SetToSeq
  <2> HIDE DEF s
  <2> QED BY <1>2, <2>1
<1>4. Cardinality(D) = n
  BY <1>1, FS_Interval
<1> HIDE DEF s, D, n
<1>5. s \in Injection(D, S)
  BY <1>3 DEF Injection
<1>6. s \in Surjection(D, S)
  <2>1. Cardinality(D) = Cardinality(S) <=> s \in Surjection(D, S)
    BY <1>1, <1>5, FS_Injection
  <2> QED BY <1>4, <2>1 DEF n
<1>7. \A m \in S : \E i \in D : s[i] = m
  BY <1>6 DEF Surjection
<1>8. Len(s) = n
  BY <1>1, <1>3 DEF D
<1> QED BY <1>1, <1>3, <1>7, <1>8 DEF s, D, n

LEMMA FilesStart == Init => FilesInv
<1> SUFFICES ASSUME Init PROVE FilesInv
  OBVIOUS
<1> DEFINE s == SetToSeq(PermanentNodes)
           n == Cardinality(PermanentNodes)
           I == ImageHandle
<1>1. /\ n \in Nat /\ s \in [1 .. n -> PermanentNodes] /\ Len(s) = n
      /\ \A m \in PermanentNodes : \E i \in 1 .. n : s[i] = m
  BY MountSeq
<1>2. n <= MaxHandles /\ MaxHandles \in Nat /\ (I # 0 => I \in n + 1 .. MaxHandles - 1)
  BY FileSystemAssumption
<1>3. I # 0 => ImageFile \in Nodes /\ ImageFile \notin PermanentNodes
  BY FileSystemAssumption DEF Nodes
<1>4. handles = Mounted(s)
  BY DEF Init
<1> HIDE DEF s, n
<1>51. \A h \in Ids : h <= n => handles[h] = [node |-> s[h], count |-> 1, source |-> 0]
  BY <1>1, <1>4 DEF Mounted
<1>52. \A h \in Ids : ~(h <= n) /\ h = I => handles[h] = [node |-> ImageFile, count |-> 1, source |-> h + 1]
  BY <1>1, <1>4 DEF Mounted
<1>53. \A h \in Ids : ~(h <= n) /\ h # I /\ I # 0 /\ h = I + 1 => handles[h] = [node |-> ImageFile, count |-> 1, source |-> 0]
  BY <1>1, <1>4 DEF Mounted
<1>54. \A h \in Ids : ~(h <= n) /\ h # I /\ ~(I # 0 /\ h = I + 1) => handles[h] = Unused
  BY <1>1, <1>4 DEF Mounted
<1>55. ASSUME NEW h \in Ids, h <= n PROVE handles[h].count = 1 /\ handles[h].source = 0
  <2> DEFINE m == s[h]
  <2>1. handles[h] = [node |-> m, count |-> 1, source |-> 0]
    BY <1>51, <1>55
  <2> HIDE DEF m
  <2> QED BY <2>1
<1>6. Ids = 1 .. MaxHandles /\ PermanentNodes \subseteq Nodes
  BY IdsFact DEF Ids
<1>7. ASSUME NEW h \in Ids PROVE handles[h] \in FileHandle
  <2>0. h \in Nat
    BY <1>6
  <2>1. CASE h <= n
    <3>1. s[h] \in Nodes
      BY <1>1, <1>6, <2>0, <2>1
    <3>2. [node |-> s[h], count |-> 1, source |-> 0] \in FileHandle
      BY <3>1 DEF FileHandle
    <3> QED BY <1>51, <2>1, <3>2
  <2>2. CASE ~(h <= n) /\ h = I
    <3>1. h + 1 \in Ids
      BY <1>1, <1>2, <1>6, <2>0, <2>2
    <3>2. [node |-> ImageFile, count |-> 1, source |-> h + 1] \in FileHandle
      BY <1>3, <1>6, <2>0, <2>2, <3>1 DEF FileHandle
    <3> QED BY <1>52, <2>2, <3>2
  <2>3. CASE ~(h <= n) /\ h # I /\ I # 0 /\ h = I + 1
    <3>1. [node |-> ImageFile, count |-> 1, source |-> 0] \in FileHandle
      BY <1>3, <2>3 DEF FileHandle
    <3> QED BY <1>53, <2>3, <3>1
  <2>4. CASE ~(h <= n) /\ h # I /\ ~(I # 0 /\ h = I + 1)
    <3>1. Unused \in FileHandle
      BY DEF FileHandle, Unused
    <3> QED BY <1>54, <2>4, <3>1
  <2> QED BY <2>1, <2>2, <2>3, <2>4
<1>8. handles \in [Ids -> FileHandle]
  <2>1. handles = [h \in Ids |-> handles[h]]
    BY <1>4 DEF Mounted
  <2> QED BY <1>7, <2>1
<1>9. held = [h \in Ids |-> 0] /\ held \in [Ids -> Nat] /\ gz = InitState /\ scenario \in Scenarios
  BY DEF Init
<1>10. PICK device \in DOMAIN Root : envs = <<[device |-> device, directory |-> 0]>>
  BY DEF Init
<1>11. envs \in Seq(Environment) /\ Len(envs) = 1 /\ envs[1].directory = 0 /\ envs # <<>>
  <2>1. [device |-> device, directory |-> 0] \in Environment
    BY DEF Environment, Devices
  <2> QED BY <1>10, <2>1
<1>12. ASSUME NEW h \in Ids PROVE EnvRefs(envs, h) = 0
  <2>1. {i \in 1 .. Len(envs) : envs[i].directory = h} = {}
    BY <1>11, IdsFact
  <2> QED BY <2>1, FS_EmptySet DEF EnvRefs
<1>13. ASSUME NEW h \in Ids, handles[h].source # 0
       PROVE  h = I /\ I # 0 /\ handles[h].source = I + 1 /\ handles[I].count = 1 /\ ~(h <= n)
  <2>1. h \in Nat /\ h # 0
    BY <1>6
  <2>2. ~(h <= n)
    BY <1>13, <1>55
  <2>3. h = I
    <3>1. Unused.source = 0
      BY DEF Unused
    <3> QED BY <1>13, <1>53, <1>54, <2>2, <3>1
  <2>4. handles[h] = [node |-> ImageFile, count |-> 1, source |-> h + 1]
    BY <1>52, <2>2, <2>3
  <2>5. handles[h].source = h + 1 /\ handles[h].count = 1
    BY <2>4
  <2> QED BY <2>1, <2>2, <2>3, <2>5
<1>14. I # 0 => /\ I \in Ids /\ I + 1 \in Ids /\ ~(I <= n) /\ ~(I + 1 <= n) /\ I + 1 # I /\ I + 1 # 0
                /\ handles[I].source = I + 1 /\ handles[I].count = 1
                /\ handles[I + 1].source = 0 /\ handles[I + 1].count = 1 /\ handles[I + 1].node = ImageFile
  <2> SUFFICES ASSUME I # 0
               PROVE  /\ I \in Ids /\ I + 1 \in Ids /\ ~(I <= n) /\ ~(I + 1 <= n) /\ I + 1 # I /\ I + 1 # 0
                      /\ handles[I].source = I + 1 /\ handles[I].count = 1
                      /\ handles[I + 1].source = 0 /\ handles[I + 1].count = 1 /\ handles[I + 1].node = ImageFile
    OBVIOUS
  <2>1. I \in Ids /\ I + 1 \in Ids /\ ~(I <= n) /\ ~(I + 1 <= n) /\ I + 1 # I /\ I + 1 # 0
    BY <1>1, <1>2, <1>6
  <2>2. handles[I] = [node |-> ImageFile, count |-> 1, source |-> I + 1]
    BY <1>52, <2>1
  <2>3. handles[I + 1] = [node |-> ImageFile, count |-> 1, source |-> 0]
    BY <1>53, <2>1
  <2> QED BY <2>1, <2>2, <2>3
<1>15. ASSUME NEW h \in Ids PROVE SourceRefs(handles, h) = One(I # 0 /\ h = I + 1)
  <2> DEFINE W == {w \in Ids : handles[w].source = h}
  <2>1. h # 0
    BY IdsFact
  <2>2. CASE I # 0 /\ h = I + 1
    <3>1. W = {I}
      BY <1>13, <1>14, <2>1, <2>2
    <3> QED BY <2>2, <3>1, FS_Singleton DEF SourceRefs, One
  <2>3. CASE ~(I # 0 /\ h = I + 1)
    <3>1. W = {}
      BY <1>13, <2>1, <2>3
    <3> QED BY <2>3, <3>1, FS_EmptySet DEF SourceRefs, One
  <2> QED BY <2>2, <2>3
<1>16. ASSUME NEW h \in Ids PROVE Refs(handles, held, envs, h) <= handles[h].count
  <2> DEFINE a == One(I # 0 /\ h = I + 1)
             b == One(IsMounted(handles[h]))
             c == ImageRefs(h)
  <2>1. Refs(handles, held, envs, h) = 0 + 0 + a + b + c
    <3>1. held[h] = 0 /\ EnvRefs(envs, h) = 0 /\ SourceRefs(handles, h) = a /\ MountRefs(handles, h) = b
      BY <1>9, <1>12, <1>15, MountCount
    <3> QED BY <3>1 DEF Refs
  <2>2. h \in Nat /\ h # 0 /\ a \in Nat /\ b \in Nat /\ c \in Nat /\ handles[h].count \in Nat
    <3>1. handles[h].count \in Nat
      BY <1>7 DEF FileHandle
    <3> QED BY <1>6, <3>1 DEF One, ImageRefs
  <2>3. CASE h <= n
    <3>1. handles[h].count = 1
      BY <1>55, <2>3
    <3>2. a = 0 /\ c = 0 /\ b <= 1
      BY <1>14, <2>2, <2>3 DEF One, ImageRefs
    <3> HIDE DEF a, b, c
    <3> QED BY <2>1, <2>2, <3>1, <3>2
  <2>4. CASE ~(h <= n) /\ h = I
    <3>1. handles[h].count = 1 /\ a = 0 /\ b = 0 /\ c = 1
      BY <1>14, <2>2, <2>4 DEF One, ImageRefs, IsMounted
    <3> HIDE DEF a, b, c
    <3> QED BY <2>1, <2>2, <3>1
  <2>5. CASE ~(h <= n) /\ h # I /\ I # 0 /\ h = I + 1
    <3>1. handles[h].count = 1 /\ a = 1 /\ b = 0 /\ c = 0
      BY <1>3, <1>14, <2>2, <2>5 DEF One, ImageRefs, IsMounted
    <3> HIDE DEF a, b, c
    <3> QED BY <2>1, <2>2, <3>1
  <2>6. CASE ~(h <= n) /\ h # I /\ ~(I # 0 /\ h = I + 1)
    <3>1. handles[h] = Unused
      BY <1>54, <2>6
    <3>2. handles[h].count = 0 /\ a = 0 /\ b = 0 /\ c = 0
      BY <2>2, <2>6, <3>1, IdsFact DEF One, ImageRefs, IsMounted, Unused
    <3> HIDE DEF a, b, c
    <3> QED BY <2>1, <2>2, <3>2
  <2> QED BY <2>3, <2>4, <2>5, <2>6
<1>17. ASSUME NEW m \in PermanentNodes PROVE \E h \in Ids : handles[h].node = m /\ handles[h].source = 0
  <2>1. PICK i \in 1 .. n : s[i] = m
    BY <1>1
  <2>2. i \in Ids /\ i <= n
    BY <1>1, <1>2, <1>6
  <2>3. handles[i] = [node |-> s[i], count |-> 1, source |-> 0]
    BY <1>51, <2>2
  <2> QED BY <2>1, <2>2, <2>3
<1>18. \A h \in Ids : handles[h].source # 0 => handles[handles[h].source].source = 0
  BY <1>13, <1>14
<1>19. \A i \in 1 .. Len(envs) : envs[i].directory # 0 => DirectoryOf(handles, envs[i])
  BY <1>11
<1>20. Good(handles, held, envs)
  BY <1>8, <1>9, <1>11, <1>14, <1>16, <1>17, <1>18, <1>19 DEF Good
<1>21. CurrentOpen(gz, handles)
  BY <1>9 DEF CurrentOpen, InitState
<1> QED BY <1>9, <1>11, <1>20, <1>21 DEF FilesInv

LEMMA FilesStep == FilesInv /\ CountsBelow /\ [Next]_vars => FilesInv'
<1> SUFFICES ASSUME FilesInv, CountsBelow, [Next]_vars PROVE FilesInv'
  OBVIOUS
<1>1. CASE \E path \in scenario.paths, fails \in 0 .. 1, decompress, error \in BOOLEAN :
             FsOpen(path, decompress, fails, error)
  BY <1>1, FsOpenStep
<1>2. CASE \E h \in Ids : FsClose(h)
  BY <1>2, FsCloseStep
<1>3. CASE \/ ReadStep
           \/ \E h \in Ids, r \in scenario.reads : ReadPlain(h, r[1], r[2]) \/ ReadBegin(h, r[1], r[2])
  BY <1>3, ReadSteps
<1>4. CASE EnvCreate
  BY <1>4, EnvCreateStep
<1>5. CASE EnvDestroy
  BY <1>5, EnvDestroyStep
<1>6. CASE \E device \in {Owner[n] : n \in DOMAIN Owner} : SetDevice(device)
  BY <1>6, SetDeviceStep
<1>7. CASE \E path \in scenario.paths, fails \in 0 .. 1 : Cd(path, fails)
  BY <1>7, CdStep
<1>8. CASE UNCHANGED vars
  BY <1>8 DEF vars, FilesInv
<1> QED BY <1>1, <1>2, <1>3, <1>4, <1>5, <1>6, <1>7, <1>8 DEF Next

LEMMA FilesImply == FilesInv => NoDangling
<1> SUFFICES ASSUME FilesInv PROVE NoDangling
  OBVIOUS
<1>1. Good(handles, held, envs) /\ CurrentOpen(gz, handles)
  BY DEF FilesInv
<1>2. ASSUME NEW h \in Ids PROVE References(h) <= handles[h].count
  <2>1. References(h) = Refs(handles, held, envs, h)
    BY DEF References, Refs, EnvRefs, SourceRefs, MountRefs, ImageRefs
  <2> QED BY <1>1, <2>1 DEF Good
<1>3. gz.current # 0 => Compressed(handles, gz.current)
  BY <1>1 DEF CurrentOpen, Compressed
<1>4. \A i \in 1 .. Len(envs) : envs[i].directory # 0 =>
        IsDir(handles[envs[i].directory].node) /\ Owner[handles[envs[i].directory].node] = envs[i].device
  BY <1>1 DEF Good, DirectoryOf
<1> QED BY <1>2, <1>3, <1>4 DEF NoDangling

(* No handle is freed under a mount, an environment, a loader, a command   *)
(* or a compressed file that refers to it, the decompressor is never that  *)
(* of a handle that was closed, and the directory of an environment is one *)
(* of its device, for every tree of files and directories and all          *)
(* sequences of calls in which no count of references wraps.               *)
THEOREM HandlesNeverDangle == Spec /\ []CountsBelow => []NoDangling
<1>1. FilesInv => NoDangling
  BY FilesImply
<1>2. FilesInv /\ CountsBelow /\ [Next]_vars => FilesInv'
  BY FilesStep
<1> QED BY <1>1, <1>2, FilesStart, PTL DEF Spec
=============================================================================
