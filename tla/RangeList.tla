----------------------------- MODULE RangeList ------------------------------
(***************************************************************************)
(* The list of physical memory ranges of source/memory.c: insert_range(),  *)
(* merge_ranges(), memory_map_insert() and memory_map_remove() as          *)
(* operators on a sequence of ranges in list order.                        *)
(***************************************************************************)
EXTENDS AddressSpace, Sequences, SequencesExt

MEMORY_TYPE_FREE == "free"
MEMORY_TYPE_ALLOCATED == "allocated"
MEMORY_TYPE_INTERNAL == "internal"

(* All types of include/memory.h. *)
MemoryTypes ==
  {MEMORY_TYPE_FREE, MEMORY_TYPE_ALLOCATED, MEMORY_TYPE_INTERNAL,
   "reclaimable", "pagetables", "stack", "modules"}

(* The last byte of a range. *)
EndOf(r) == Wrap(r.start + r.size - 1)

round_down(val, align) == val - (val % align)
round_up(val, align) ==
  IF val % align # 0 THEN Wrap(round_down(val, align) + align) ELSE val

-----------------------------------------------------------------------------
(***************************************************************************)
(* insert_range(): the new range goes in front of the first range that     *)
(* does not start below it; the range before it is cut short, or cut in    *)
(* two; the ranges behind it are swallowed as far as it reaches.           *)
(***************************************************************************)

(* Where the new range goes in the list. *)
InsertPos(map, start) ==
  LET i == SelectInSeq(map, LAMBDA r : start <= r.start)
  IN  IF i = 0 THEN Len(map) + 1 ELSE i

(* Does a range that goes in at pos start inside the range before it? *)
OverlapsPrev(map, pos, start) == pos # 1 /\ start <= EndOf(map[pos - 1])

(* The ranges in front of the new one. *)
TrimPrev(map, pos, start) ==
  LET front == SubSeq(map, 1, pos - 1)
  IN  IF OverlapsPrev(map, pos, start)
      THEN [front EXCEPT ![pos - 1].size = start - front[pos - 1].start]
      ELSE front

(* What is left of the previous range behind the new one. *)
SplitPrevMutant(map, pos, start, end) == <<>>
SplitPrev(map, pos, start, end) ==
  IF OverlapsPrev(map, pos, start) /\ EndOf(map[pos - 1]) > end
  THEN <<[start |-> Wrap(end + 1), size |-> EndOf(map[pos - 1]) - end,
          type |-> map[pos - 1].type]>>
  ELSE <<>>

(* The ranges behind the new one that it does not cover, the first of them *)
(* without the part that it does.                                          *)
Swallow(rest, end) ==
  LET stop == SelectInSeq(rest, LAMBDA r : r.start > end \/ EndOf(r) > end)
      left == SubSeq(rest, stop, Len(rest))
  IN  CASE stop = 0 -> <<>>
        [] stop # 0 /\ rest[stop].start > end -> left
        [] OTHER -> [left EXCEPT ![1] = [start |-> Wrap(end + 1),
                                         size |-> EndOf(@) - end,
                                         type |-> @.type]]

(* The list with a range put in at pos, as the part in front of the new    *)
(* range, the new range and the part behind it.                            *)
PlaceRange(map, pos, start, size, type) ==
  LET end == Wrap(start + size - 1)
  IN  [front |-> TrimPrev(map, pos, start),
       range |-> [start |-> start, size |-> size, type |-> type],
       back  |-> Swallow(SplitPrev(map, pos, start, end) \o
                           SubSeq(map, pos, Len(map)), end)]

InsertRange(map, start, size, type) ==
  PlaceRange(map, InsertPos(map, start), start, size, type)

-----------------------------------------------------------------------------
(***************************************************************************)
(* merge_ranges(): the range swallows a neighbour of its own type on       *)
(* either side that lies directly against it.                              *)
(***************************************************************************)
Touches(a, b) == Wrap(a.start + a.size) = b.start /\ a.type = b.type

MergeFront(front, range) ==
  IF front # <<>> /\ Touches(front[Len(front)], range)
  THEN [front |-> SubSeq(front, 1, Len(front) - 1),
        range |-> [range EXCEPT !.start = front[Len(front)].start,
                                !.size = Wrap(@ + front[Len(front)].size)]]
  ELSE [front |-> front, range |-> range]

MergeBack(range, back) ==
  IF back # <<>> /\ Touches(range, back[1])
  THEN [range |-> [range EXCEPT !.size = Wrap(@ + back[1].size)],
        back  |-> Tail(back)]
  ELSE [range |-> range, back |-> back]

MergeRanges(front, range, back) ==
  LET f == MergeFront(front, range)
      b == MergeBack(f.range, back)
  IN  f.front \o <<b.range>> \o b.back

(* memory_map_insert() and memory_map_remove(). *)
MapInsert(map, start, size, type) ==
  LET ins == InsertRange(map, start, size, type)
  IN  MergeRanges(ins.front, ins.range, ins.back)

MapRemove(map, start, size) ==
  LET ins == InsertRange(map, start, size, MEMORY_TYPE_INTERNAL)
  IN  ins.front \o ins.back

-----------------------------------------------------------------------------
(* The ranges are nonempty, page-aligned, in address order and disjoint.   *)
Sorted(map) ==
  /\ \A i \in 1 .. Len(map) :
       /\ map[i].size > 0 /\ map[i].size % PAGE_SIZE = 0
       /\ map[i].start % PAGE_SIZE = 0
       /\ map[i].start <= EndOf(map[i])
  /\ \A i, j \in 1 .. Len(map) : i < j => EndOf(map[i]) < map[j].start

(* No two neighbours could be one range. *)
Merged(map) == \A i \in 1 .. Len(map) - 1 : ~Touches(map[i], map[i + 1])

(* The type of the memory at an address, none if no range holds it. *)
NoMemory == "none"
TypeAt(map, addr) ==
  IF \E i \in 1 .. Len(map) : addr \in map[i].start .. EndOf(map[i])
  THEN map[CHOOSE i \in 1 .. Len(map) : addr \in map[i].start .. EndOf(map[i])].type
  ELSE NoMemory
=============================================================================
