----------------------------- MODULE RegionList -----------------------------
(***************************************************************************)
(* The region list of source/lib/allocator.c, as operators: its regions    *)
(* are free or allocated and cover the range an allocator manages.         *)
(* insert_region() cuts the regions a new one overlaps just as             *)
(* insert_range() of source/memory.c cuts ranges, so the operators of      *)
(* RangeList are used for it; neighbours are not merged.                   *)
(***************************************************************************)
EXTENDS RangeList

(* insert_region(): in front of or behind location if it is given (not 0), *)
(* otherwise in front of the first region that does not start below.       *)
InsertRegion(list, start, size, type, location) ==
  LET pos == IF location = 0 THEN InsertPos(list, start)
             ELSE IF start <= list[location].start THEN location ELSE location + 1
      ins == PlaceRange(list, pos, start, size, type)
  IN  ins.front \o <<ins.range>> \o ins.back

(* Does the allocation fit into a region? *)
FitsMutant(region, size, align) ==
  /\ region.type = MEMORY_TYPE_FREE
  /\ Wrap(region.start + size - 1) <= EndOf(region)
Fits(region, size, align) ==
  /\ region.type = MEMORY_TYPE_FREE
  /\ Wrap(round_up(region.start, align) + size - 1) <= EndOf(region)

FindRegionMutant(list, size, align) ==
  LET i == SelectInSeq(list, LAMBDA r : r.type = MEMORY_TYPE_FREE)
  IN  IF i # 0 /\ Fits(list[i], size, align) THEN i ELSE 0
FindRegion(list, size, align) == SelectInSeq(list, LAMBDA r : Fits(r, size, align))

(* The conflict test of allocator_insert(). *)
Conflicts(list, addr, size) ==
  LET end == Wrap(addr + size - 1) IN
  \E i \in 1 .. Len(list) :
    /\ list[i].type = MEMORY_TYPE_ALLOCATED
    /\ addr <= EndOf(list[i]) /\ list[i].start <= end

(* allocator_reserve(): trim the region to the range managed, base .. last,*)
(* and insert what is left, if anything.                                   *)
BlockMutant(list, base, last, addr, size) ==
  LET from == IF addr > base THEN addr ELSE base
      to   == IF Wrap(addr + size - 1) < last THEN Wrap(addr + size - 1) ELSE last
  IN  IF to < from THEN list
      ELSE InsertRegion(list, from, size, MEMORY_TYPE_ALLOCATED, 0)
Block(list, base, last, addr, size) ==
  LET from == IF addr > base THEN addr ELSE base
      to   == IF Wrap(addr + size - 1) < last THEN Wrap(addr + size - 1) ELSE last
  IN  IF to < from THEN list
      ELSE InsertRegion(list, from, Wrap(to - from + 1), MEMORY_TYPE_ALLOCATED, 0)

=============================================================================
