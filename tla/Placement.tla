----------------------------- MODULE Placement ------------------------------
(***************************************************************************)
(* How memory_alloc() places a request in a free range.  source/memory.c   *)
(* and source/platform/efi/memory.c hold the same code, over ranges of     *)
(* their own and over descriptors of the firmware.                         *)
(***************************************************************************)
EXTENDS RangeList

CONSTANTS
  TARGET_PHYS_MIN,   \* lowest address given out by default
  TARGET_PHYS_MAX    \* highest address the loader can reach

(* The arguments of memory_alloc(), 0 for a default. *)
Request(size, align, min, max, type, high) ==
  [size |-> size, align |-> align, min |-> min, max |-> max, type |-> type, high |-> high]

(* The defaults memory_alloc() fills in. *)
WithDefaults(req) ==
  [req EXCEPT
     !.align = IF @ = 0 THEN PAGE_SIZE ELSE @,
     !.min = IF @ = 0 THEN TARGET_PHYS_MIN ELSE @,
     !.max = IF @ = 0 \/ @ > TARGET_PHYS_MAX THEN TARGET_PHYS_MAX ELSE @]

(* is_suitable_range(): the part of the range inside the limits, the       *)
(* address chosen in it, and whether the allocation fits there.            *)
MatchStart(range, req) == IF req.min > range.start THEN req.min ELSE range.start
MatchEnd(range, req) == IF req.max < EndOf(range) THEN req.max ELSE EndOf(range)

AllocStart(range, req) ==
  IF req.high
  THEN round_down(Wrap((MatchEnd(range, req) - req.size) + 1), req.align)
  ELSE round_up(MatchStart(range, req), req.align)

Suitable(range, req) ==
  /\ MatchEnd(range, req) > MatchStart(range, req)
  /\ IF req.high
     THEN AllocStart(range, req) >= MatchStart(range, req)
     ELSE Wrap(AllocStart(range, req) + req.size - 1) <= MatchEnd(range, req)
=============================================================================
