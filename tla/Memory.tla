------------------------------- MODULE Memory -------------------------------
(***************************************************************************)
(* The physical memory manager of source/memory.c (targets without         *)
(* TARGET_HAS_MM) and its probing by platform/bios/memory.c: memory_add(), *)
(* memory_remove(), memory_protect(), memory_alloc(), memory_free(),       *)
(* malloc_large(), free_large() and memory_finalize().                     *)
(*                                                                         *)
(* The loops of memory_protect() and memory_finalize() change the list     *)
(* they walk, so each of their iterations is a step of its own and the     *)
(* node they stand on is part of the state.  A node is identified by the   *)
(* start of its range, which a loop body changes only for nodes it is done *)
(* with.                                                                   *)
(***************************************************************************)
EXTENDS Placement, FiniteSets

CONSTANTS
  Entries,           \* free E820 entries: [start, size]
  Reservations,      \* areas memory_remove() is called on: [start, size]
  Areas,             \* areas memory_protect() is called on: [start, size]
  AllocRequests,     \* calls of memory_alloc(): [size, align, min, max, type, high]
  LargeSizes         \* sizes asked of malloc_large()

(* Of the areas: none is empty, and none reaches into the last page of the *)
(* address space.  Of the requests: what memory_alloc() asserts, an empty  *)
(* one failing the assertion that compares max_addr - min_addr with        *)
(* size - 1.                                                               *)
ASSUME MemoryAssumption ==
  /\ Entries \subseteq [start : Addr, size : Addr]
  /\ \A a \in Reservations \cup Areas :
       /\ a \in [start : Addr, size : Addr]
       /\ a.size # 0 /\ a.start + a.size + PAGE_SIZE <= AddrMod

ASSUME RequestsAssumption ==
  /\ TARGET_PHYS_MIN \in Addr /\ TARGET_PHYS_MAX \in Addr
  /\ \A r \in AllocRequests :
       /\ r \in [size : Addr, align : Addr, min : Addr, max : Addr,
                 type : MemoryTypes, high : BOOLEAN]
       /\ r.size # 0 /\ r.size % PAGE_SIZE = 0 /\ r.align % PAGE_SIZE = 0
       /\ r.type # MEMORY_TYPE_FREE
  /\ \A n \in LargeSizes : n \in Addr /\ n # 0 /\ n + PAGE_SIZE <= AddrMod

VARIABLES
  memory_ranges,   \* the range list
  phase,           \* "probe", "protect", "run", "finalize", "done"
  loop,            \* the loop in progress
  protected,       \* the areas memory_protect() has returned for
  held,            \* what memory_alloc() gave out: [start, size, type]
  large_chunks,    \* what malloc_large() gave out: [start, size, type]
  status,          \* "ok" or the error that stopped the loader
  want             \* the request that failed, if one did

vars == <<memory_ranges, phase, loop, protected, held, large_chunks, status, want>>

HEAD == -1        \* the list head: the loop is over
FREED == -2       \* a node that was removed from the list

Idle == [op |-> "none"]

(* The node behind position i of the list. *)
NodeAfter(map, i) == IF i < Len(map) THEN map[i + 1].start ELSE HEAD

NodePos(map, start) == SelectInSeq(map, LAMBDA r : r.start = start)

-----------------------------------------------------------------------------
(***************************************************************************)
(* target_memory_probe() and memory_init().                                *)
(***************************************************************************)

(* A free E820 entry is shrunk to whole pages; page 0 is left out. *)
ProbeStart(e) ==
  IF round_up(e.start, PAGE_SIZE) = 0 THEN PAGE_SIZE ELSE round_up(e.start, PAGE_SIZE)
ProbeEnd(e) == round_down(Wrap(e.start + e.size), PAGE_SIZE)

ProbeAdd(e) ==
  /\ phase = "probe"
  /\ ProbeEnd(e) > ProbeStart(e)
  /\ memory_ranges' = MapInsert(memory_ranges, ProbeStart(e),
                                ProbeEnd(e) - ProbeStart(e), MEMORY_TYPE_FREE)
  /\ UNCHANGED <<phase, loop, protected, held, large_chunks, status, want>>

ProbeDone ==
  /\ phase = "probe"
  /\ phase' = "protect"
  /\ UNCHANGED <<memory_ranges, loop, protected, held, large_chunks, status, want>>

(* A device tree reservation is grown to whole pages and removed. *)
Reserve(a) ==
  LET start == round_down(a.start, PAGE_SIZE)
      end   == round_up(Wrap(a.start + a.size), PAGE_SIZE)
  IN
  /\ phase = "protect" /\ loop = Idle
  /\ memory_ranges' = MapRemove(memory_ranges, start, end - start)
  /\ UNCHANGED <<phase, loop, protected, held, large_chunks, status, want>>

(* memory_protect(): the bounds are rounded, then the list is walked.  The *)
(* end is computed from the start that was already rounded.                *)
ProtectBeginMutant(a) ==
  LET start == round_down(a.start, PAGE_SIZE) IN
  /\ phase = "protect" /\ loop = Idle
  /\ loop' = [op |-> "protect", area |-> a, start |-> start, end |-> start + a.size - 1,
              at |-> NodeAfter(memory_ranges, 0)]
  /\ UNCHANGED <<memory_ranges, phase, protected, held, large_chunks, status, want>>
ProtectBegin(a) ==
  LET start == round_down(a.start, PAGE_SIZE)
      end   == round_up(Wrap(start + a.size), PAGE_SIZE) - 1
  IN
  /\ phase = "protect" /\ loop = Idle
  /\ loop' = [op |-> "protect", area |-> a, start |-> start, end |-> end,
              at |-> NodeAfter(memory_ranges, 0)]
  /\ UNCHANGED <<memory_ranges, phase, protected, held, large_chunks, status, want>>

(* One iteration.  The following node is fetched before the body; the body *)
(* removes it from the list when it merges it into the new range, and the  *)
(* loop then stands on a node that only leads to itself: no step follows.  *)
ProtectStep ==
  LET i     == NodePos(memory_ranges, loop.at)
      range == memory_ranges[i]
      next  == NodeAfter(memory_ranges, i)
      from  == IF loop.start > range.start THEN loop.start ELSE range.start
      to    == IF loop.end < EndOf(range) THEN loop.end ELSE EndOf(range)
  IN
  /\ loop.op = "protect" /\ loop.at \notin {HEAD, FREED}
  /\ memory_ranges' = IF range.type # MEMORY_TYPE_FREE \/ to <= from
                      THEN memory_ranges
                      ELSE MapInsert(memory_ranges, from, to - from + 1,
                                     MEMORY_TYPE_INTERNAL)
  /\ loop' = [loop EXCEPT !.at =
                IF next # HEAD /\ NodePos(memory_ranges', next) = 0 THEN FREED ELSE next]
  /\ UNCHANGED <<phase, protected, held, large_chunks, status, want>>

ProtectEnd ==
  /\ loop.op = "protect" /\ loop.at = HEAD
  /\ loop' = Idle
  /\ protected' = protected \cup {loop.area}
  /\ UNCHANGED <<memory_ranges, phase, held, large_chunks, status, want>>

InitDone ==
  /\ phase = "protect" /\ loop = Idle
  /\ phase' = "run"
  /\ UNCHANGED <<memory_ranges, loop, protected, held, large_chunks, status, want>>

-----------------------------------------------------------------------------
(***************************************************************************)
(* memory_alloc().                                                         *)
(***************************************************************************)

IsSuitable(range, req) == range.type = MEMORY_TYPE_FREE /\ Suitable(range, req)

(* The range memory_alloc() uses: the first one, or the last one if the    *)
(* highest address is wanted.                                              *)
FindRange(map, req) ==
  IF req.high
  THEN SelectLastInSeq(map, LAMBDA r : IsSuitable(r, req))
  ELSE SelectInSeq(map, LAMBDA r : IsSuitable(r, req))

(* The allocation made for req from a list: the block and the new list. *)
Place(map, req) ==
  LET start == AllocStart(map[FindRange(map, req)], req)
  IN  [block |-> [start |-> start, size |-> req.size, type |-> req.type],
       map   |-> MapInsert(map, start, req.size, req.type)]

CanRun == phase = "run" /\ status = "ok"

MemoryAlloc(call) ==
  LET req == WithDefaults(call) IN
  /\ CanRun
  /\ FindRange(memory_ranges, req) # 0
  /\ memory_ranges' = Place(memory_ranges, req).map
  /\ held' = held \cup {Place(memory_ranges, req).block}
  /\ UNCHANGED <<phase, loop, protected, large_chunks, status, want>>

(* boot_error(); with MEMORY_ALLOC_CAN_FAIL nothing changes instead. *)
Insufficient(req) ==
  /\ CanRun
  /\ FindRange(memory_ranges, req) = 0
  /\ status' = "no_memory"
  /\ want' = {req}
  /\ UNCHANGED <<memory_ranges, phase, loop, protected, held, large_chunks>>

AllocFails(call) == Insufficient(WithDefaults(call))

-----------------------------------------------------------------------------
(***************************************************************************)
(* malloc_large(), free_large() and, through it, memory_free().            *)
(***************************************************************************)
LargeRequest(size) ==
  WithDefaults([size |-> round_up(size, PAGE_SIZE), align |-> 0, min |-> 0, max |-> 0,
                type |-> MEMORY_TYPE_INTERNAL, high |-> TRUE])

MallocLarge(size) ==
  LET req == LargeRequest(size) IN
  /\ CanRun
  /\ FindRange(memory_ranges, req) # 0
  /\ memory_ranges' = Place(memory_ranges, req).map
  /\ large_chunks' = large_chunks \cup {Place(memory_ranges, req).block}
  /\ UNCHANGED <<phase, loop, protected, held, status, want>>

MallocLargeFails(size) == Insufficient(LargeRequest(size))

(* memory_free() accepts a block that lies inside one range in use. *)
FreeAccepts(map, b) ==
  \E i \in 1 .. Len(map) :
    /\ map[i].type # MEMORY_TYPE_FREE
    /\ b.start >= map[i].start
    /\ Wrap(b.start + b.size - 1) <= EndOf(map[i])

FreeLarge(chunk) ==
  /\ CanRun
  /\ IF FreeAccepts(memory_ranges, chunk)
     THEN /\ memory_ranges' = MapInsert(memory_ranges, chunk.start, chunk.size,
                                        MEMORY_TYPE_FREE)
          /\ large_chunks' = large_chunks \ {chunk}
          /\ UNCHANGED status
     ELSE /\ status' = "bad_free"
          /\ UNCHANGED <<memory_ranges, large_chunks>>
  /\ UNCHANGED <<phase, loop, protected, held, want>>

(* free_large() of what is not, or no longer, a large chunk. *)
FreeLargeTwice(addr) ==
  /\ CanRun
  /\ \A chunk \in large_chunks : chunk.start # addr
  /\ status' = "double_free"
  /\ UNCHANGED <<memory_ranges, phase, loop, protected, held, large_chunks, want>>

-----------------------------------------------------------------------------
(***************************************************************************)
(* memory_finalize(): internal ranges become free, one by one, and are     *)
(* merged with their neighbours as the loop goes.                          *)
(***************************************************************************)
FinalizeBegin ==
  /\ CanRun
  /\ phase' = "finalize"
  /\ loop' = [op |-> "finalize", at |-> NodeAfter(memory_ranges, 0)]
  /\ UNCHANGED <<memory_ranges, protected, held, large_chunks, status, want>>

ReclaimMutant(front, range, back) == MergeRanges(front, range, back)
Reclaim(front, range, back) == MergeRanges(front, [range EXCEPT !.type = MEMORY_TYPE_FREE], back)

FinalizeCachedMutant ==
  LET i     == NodePos(memory_ranges, loop.at)
      front == SubSeq(memory_ranges, 1, i - 1)
      back  == SubSeq(memory_ranges, i + 1, Len(memory_ranges))
      next  == NodeAfter(memory_ranges, i)
  IN
  /\ loop.op = "finalize" /\ loop.at \notin {HEAD, FREED}
  /\ memory_ranges' = IF memory_ranges[i].type = MEMORY_TYPE_INTERNAL
                      THEN Reclaim(front, memory_ranges[i], back) ELSE memory_ranges
  /\ loop' = [loop EXCEPT !.at =
                IF next # HEAD /\ NodePos(memory_ranges', next) = 0 THEN FREED ELSE next]
  /\ UNCHANGED <<phase, protected, held, large_chunks, status, want>>
FinalizeStep ==
  LET i     == NodePos(memory_ranges, loop.at)
      front == SubSeq(memory_ranges, 1, i - 1)
      range == memory_ranges[i]
      back  == SubSeq(memory_ranges, i + 1, Len(memory_ranges))
  IN
  /\ loop.op = "finalize" /\ loop.at # HEAD
  /\ memory_ranges' = IF range.type = MEMORY_TYPE_INTERNAL
                      THEN Reclaim(front, range, back) ELSE memory_ranges
  /\ loop' = [loop EXCEPT !.at =
                NodeAfter(memory_ranges',
                          SelectLastInSeq(memory_ranges', LAMBDA r : r.start <= range.start))]
  /\ UNCHANGED <<phase, protected, held, large_chunks, status, want>>

FinalizeEnd ==
  /\ loop.op = "finalize" /\ loop.at = HEAD
  /\ loop' = Idle
  /\ phase' = "done"
  /\ UNCHANGED <<memory_ranges, protected, held, large_chunks, status, want>>

-----------------------------------------------------------------------------
Init ==
  /\ memory_ranges = <<>>
  /\ phase = "probe"
  /\ loop = Idle
  /\ protected = {}
  /\ held = {}
  /\ large_chunks = {}
  /\ status = "ok"
  /\ want = {}

LoopStep == ProtectStep \/ ProtectEnd \/ FinalizeStep \/ FinalizeEnd

Next ==
  \/ \E e \in Entries : ProbeAdd(e)
  \/ ProbeDone
  \/ \E a \in Reservations : Reserve(a)
  \/ \E a \in Areas : ProtectBegin(a)
  \/ InitDone
  \/ \E call \in AllocRequests : MemoryAlloc(call) \/ AllocFails(call)
  \/ \E size \in LargeSizes : MallocLarge(size) \/ MallocLargeFails(size)
  \/ \E chunk \in large_chunks : FreeLarge(chunk)
  \/ \E b \in held : FreeLargeTwice(b.start)
  \/ FinalizeBegin
  \/ LoopStep

(* A loop that can take its next iteration takes it. *)
LoopFairness == WF_vars(LoopStep)

Spec == Init /\ [][Next]_vars /\ LoopFairness

-----------------------------------------------------------------------------
(***************************************************************************)
(* Properties.                                                             *)
(***************************************************************************)
Finalizing == phase \in {"finalize", "done"}

(* The allocations nobody may touch: memory_finalize() takes back what is  *)
(* internal.                                                               *)
Live ==
  LET given == held \cup large_chunks
  IN  IF Finalizing THEN {b \in given : b.type # MEMORY_TYPE_INTERNAL} ELSE given

BytesOf(b) == b.start .. (b.start + b.size - 1)

(* Memory given out keeps its type until it is given back, can be reached  *)
(* by the loader, and is not given out twice; and once memory_protect()    *)
(* has returned, no byte of the area is free memory, until                 *)
(* memory_finalize().                                                      *)
HeldIntact ==
  /\ \A b \in Live : \A x \in BytesOf(b) :
       x <= TARGET_PHYS_MAX /\ TypeAt(memory_ranges, x) = b.type
  /\ \A b, c \in Live : b # c => BytesOf(b) \cap BytesOf(c) = {}
  /\ ~Finalizing => \A a \in protected : \A x \in BytesOf(a) :
                      TypeAt(memory_ranges, x) # MEMORY_TYPE_FREE

(* The map handed to the kernel shows no internal memory, wherever in the  *)
(* list memory_finalize() met it, and what malloc_large() had is free.     *)
KernelMapClean ==
  phase = "done" =>
    /\ \A i \in 1 .. Len(memory_ranges) : memory_ranges[i].type # MEMORY_TYPE_INTERNAL
    /\ \A b \in large_chunks : \A x \in BytesOf(b) :
         TypeAt(memory_ranges, x) = MEMORY_TYPE_FREE

(* memory_protect() and memory_finalize() return. *)
LoopsEnd == loop # Idle ~> loop = Idle

(* The manager implements the page map: every allocation is the lowest (or *)
(* highest) possible one, fails only if no free run satisfies it, and no   *)
(* operation changes the type of a page it does not own.                   *)
PM == INSTANCE PageMap WITH
  Pages <- 0 .. (AddrMod \div PAGE_SIZE) - 1,
  Requests <- {WithDefaults(call) : call \in AllocRequests} \cup
              {LargeRequest(size) : size \in LargeSizes},
  Free <- MEMORY_TYPE_FREE,
  Internal <- MEMORY_TYPE_INTERNAL,
  None <- NoMemory,
  pages <- [p \in 0 .. (AddrMod \div PAGE_SIZE) - 1 |->
              TypeAt(memory_ranges, p * PAGE_SIZE)],
  live <- Live,
  want <- want,
  stage <- CASE phase \in {"probe", "protect"} -> "probe"
             [] phase = "run" -> "run"
             [] OTHER -> "reclaim"

ImplementsPageMap == PM!Spec
=============================================================================
