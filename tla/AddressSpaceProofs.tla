------------------------- MODULE AddressSpaceProofs -------------------------
(***************************************************************************)
(* Proofs about a kernel's virtual address space: the address allocator of *)
(* source/lib/allocator.c, for every range managed and all requests whose  *)
(* end can be computed without wrapping around the end of the address      *)
(* space; the layout that the KBoot loader makes with it, for every load   *)
(* tag, kernel image and sequence of mapping tags; and the page tables of  *)
(* that address space, for all sizes of pages and sets of mappings, with   *)
(* the memory operations that go through them.                             *)
(***************************************************************************)
EXTENDS Allocator, KBootSpace, Mmu, RangeListProofs, FiniteSetTheorems

-----------------------------------------------------------------------------
(***************************************************************************)
(* The region list.                                                        *)
(***************************************************************************)

(* The regions hold exactly the addresses from base to last, each of them  *)
(* free or allocated, and a free region is not followed by another: the    *)
(* list is never cut but to put an allocated region in.                    *)
Regions(s, base, last) ==
  /\ s \in Seq(MemoryRange) /\ Apart(s)
  /\ \A x \in Int : base <= x /\ x <= last <=>
       Holds(s, x, MEMORY_TYPE_FREE) \/ Holds(s, x, MEMORY_TYPE_ALLOCATED)
  /\ \A i \in 1 .. Len(s) : s[i].type \in {MEMORY_TYPE_FREE, MEMORY_TYPE_ALLOCATED}
  /\ \A i \in 1 .. Len(s) :
       s[i].type = MEMORY_TYPE_FREE => ~Holds(s, EndOf(s[i]) + 1, MEMORY_TYPE_FREE)

LEMMA TypesDiffer ==
  /\ MEMORY_TYPE_FREE # MEMORY_TYPE_ALLOCATED
  /\ MEMORY_TYPE_FREE \in MemoryTypes /\ MEMORY_TYPE_ALLOCATED \in MemoryTypes
BY DEF MEMORY_TYPE_FREE, MEMORY_TYPE_ALLOCATED, MemoryTypes

(* insert_region() for an allocated region inside the range.               *)
LEMMA PlaceRegion ==
  ASSUME NEW s, NEW base \in Int, NEW last \in Int, Regions(s, base, last),
         NEW start \in Addr, NEW size \in Addr, NEW end \in Addr,
         end = Wrap(start + size - 1), start <= end, base <= start, end <= last,
         NEW pos, RightPos(s, pos, start),
         NEW p, p = PlaceRange(s, pos, start, size, MEMORY_TYPE_ALLOCATED),
         NEW t, t = p.front \o <<p.range>> \o p.back
  PROVE  /\ Regions(t, base, last) /\ Updated(s, t, start, end, MEMORY_TYPE_ALLOCATED)
         /\ EndsAmong(t, s, {start - 1, end})
<1> DEFINE A == MEMORY_TYPE_ALLOCATED
           F == MEMORY_TYPE_FREE
<1>1. s \in Seq(MemoryRange) /\ Apart(s)
  BY DEF Regions
<1>2. Updated(s, t, start, end, A)
      /\ Parts(s, start, end, p.front, p.back)
      /\ p.range \in MemoryRange /\ EndOf(p.range) = end
  BY <1>1, TypesDiffer, PlaceUpdates
<1>3. EndsAmong(t, s, {start - 1, end})
  BY <1>2, JoinEnds
<1>4. /\ t \in Seq(MemoryRange) /\ Apart(t)
      /\ \A x \in Int : \A ty : Holds(t, x, ty) <=>
           IF start <= x /\ x <= end THEN ty = A ELSE Holds(s, x, ty)
  BY <1>2 DEF Updated
<1>5. /\ \A x \in Int : base <= x /\ x <= last <=> Holds(s, x, F) \/ Holds(s, x, A)
      /\ \A i \in 1 .. Len(s) : s[i].type \in {F, A}
      /\ \A i \in 1 .. Len(s) : s[i].type = F => ~Holds(s, EndOf(s[i]) + 1, F)
  BY DEF Regions
<1>6. F # A /\ start \in Nat /\ end \in Nat
  BY TypesDiffer, AddrNat
<1> HIDE DEF A, F
<1>7. ASSUME NEW x \in Int
      PROVE  base <= x /\ x <= last <=> Holds(t, x, F) \/ Holds(t, x, A)
  <2>1. CASE start <= x /\ x <= end
    <3>1. base <= x /\ x <= last
      BY <1>6, <2>1
    <3> QED BY <1>4, <2>1, <3>1
  <2>2. CASE ~(start <= x /\ x <= end)
    BY <1>4, <1>5, <2>2
  <2> QED BY <2>1, <2>2
<1>8. ASSUME NEW i \in 1 .. Len(t) PROVE t[i].type \in {F, A}
  <2>0. t \in Seq(MemoryRange) /\ Apart(t)
    BY <1>4
  <2> DEFINE x == t[i].start
  <2>1. Holds(t, x, t[i].type)
    BY <2>0, HoldsEnds
  <2>2. x \in Nat
    BY <2>0, HoldsEnds
  <2> HIDE DEF x
  <2>3. x \in Int
    BY <2>2
  <2>4. t[i].type = A \/ Holds(s, x, t[i].type)
    BY <1>4, <2>1, <2>3
  <2> QED BY <1>5, <2>4 DEF Holds
<1>9. ASSUME NEW i \in 1 .. Len(t), t[i].type = F PROVE ~Holds(t, EndOf(t[i]) + 1, F)
  <2> DEFINE e == EndOf(t[i])
  <2>1. Holds(t, e, F) /\ e \in Nat
    BY <1>4, <1>9, HoldsEnds
  <2>2. \/ e \in {start - 1, end}
        \/ \E j \in 1 .. Len(s) : s[j].type = F /\ EndOf(s[j]) = e
    BY <1>3, <1>9 DEF EndsAmong
  <2> HIDE DEF e
  <2>3. ~(start <= e /\ e <= end)
    BY <1>4, <1>6, <2>1, SMTT(30)
  <2>4. CASE e = start - 1
    <3>1. start <= e + 1 /\ e + 1 <= end /\ e + 1 \in Int
      BY <1>6, <2>4
    <3> QED BY <1>4, <1>6, <3>1 DEF e
  <2>5. CASE \E j \in 1 .. Len(s) : s[j].type = F /\ EndOf(s[j]) = e
    <3>1. ~Holds(s, e + 1, F) /\ e + 1 \in Int
      BY <1>5, <2>1, <2>5
    <3> QED BY <1>4, <1>6, <3>1 DEF e
  <2>6. e # end
    BY <1>6, <2>3
  <2> QED BY <2>2, <2>4, <2>5, <2>6
<1>10. Regions(t, base, last)
  BY <1>4, <1>7, <1>8, <1>9 DEF Regions, A, F
<1> QED BY <1>2, <1>3, <1>10 DEF A

(* The regions follow one another without a gap.                           *)
LEMMA RegionsTile ==
  ASSUME NEW s, NEW base \in Nat, NEW last \in Nat, base <= last, Regions(s, base, last)
  PROVE  /\ s[1].start = base /\ EndOf(s[Len(s)]) = last
         /\ \A i \in 1 .. Len(s) : s[i].start <= EndOf(s[i])
         /\ \A i \in 1 .. Len(s) - 1 : EndOf(s[i]) + 1 = s[i + 1].start
<1> DEFINE A == MEMORY_TYPE_ALLOCATED
           F == MEMORY_TYPE_FREE
           n == Len(s)
<1>1. /\ s \in Seq(MemoryRange) /\ Apart(s) /\ n \in Nat
      /\ \A x \in Int : base <= x /\ x <= last <=> Holds(s, x, F) \/ Holds(s, x, A)
      /\ \A i \in 1 .. n : s[i].type \in {F, A}
  BY DEF Regions
<1>2. /\ \A i \in 1 .. n : s[i].start <= EndOf(s[i])
      /\ \A i, j \in 1 .. n : i < j => EndOf(s[i]) < s[j].start
      /\ \A i \in 1 .. n : s[i].start \in Nat /\ EndOf(s[i]) \in Nat
  BY <1>1, ListFields DEF Apart
<1>3. ASSUME NEW x \in Int
      PROVE  base <= x /\ x <= last <=> \E i \in 1 .. n : s[i].start <= x /\ x <= EndOf(s[i])
  BY <1>1 DEF Holds, InRange
<1> HIDE DEF n
<1>4. ASSUME NEW i \in 1 .. n PROVE base <= s[i].start /\ EndOf(s[i]) <= last
  <2>1. /\ s[i].start <= s[i].start /\ s[i].start <= EndOf(s[i])
        /\ EndOf(s[i]) <= EndOf(s[i]) /\ s[i].start \in Int /\ EndOf(s[i]) \in Int
    BY <1>2
  <2> QED BY <1>3, <2>1
<1>5. PICK a \in 1 .. n : s[a].start <= base /\ base <= EndOf(s[a])
  BY <1>3
<1>6. PICK z \in 1 .. n : s[z].start <= last /\ last <= EndOf(s[z])
  BY <1>3
<1>7. 1 \in 1 .. n /\ n \in 1 .. n
  BY <1>1, <1>5
<1>8. s[1].start = base
  <2>1. a = 1 \/ 1 < a
    BY <1>5
  <2> QED BY <1>2, <1>4, <1>5, <1>7, <2>1
<1>9. EndOf(s[n]) = last
  <2>1. z = n \/ z < n
    BY <1>1, <1>6
  <2> QED BY <1>2, <1>4, <1>6, <1>7, <2>1
<1>10. ASSUME NEW i \in 1 .. n - 1 PROVE EndOf(s[i]) + 1 = s[i + 1].start
  <2> DEFINE e == EndOf(s[i]) + 1
  <2>1. i \in 1 .. n /\ i + 1 \in 1 .. n /\ i < i + 1
    BY <1>1, <1>10
  <2>2. /\ e \in Int /\ EndOf(s[i]) < s[i + 1].start /\ EndOf(s[i + 1]) <= last
        /\ base <= s[i].start /\ s[i].start <= EndOf(s[i]) /\ e = EndOf(s[i]) + 1
        /\ s[i + 1].start <= EndOf(s[i + 1])
        /\ s[i].start \in Nat /\ EndOf(s[i]) \in Nat
        /\ s[i + 1].start \in Nat /\ EndOf(s[i + 1]) \in Nat
    BY <1>2, <1>4, <2>1
  <2> HIDE DEF e
  <2>3. base <= e /\ e <= last
    BY <2>2
  <2>4. PICK j \in 1 .. n : s[j].start <= e /\ e <= EndOf(s[j])
    BY <1>3, <2>2, <2>3
  <2>5. s[j].start \in Nat /\ EndOf(s[j]) \in Nat
    BY <1>2
  <2>6. CASE j < i
    BY <1>2, <2>1, <2>2, <2>4, <2>5, <2>6
  <2>7. CASE j = i
    BY <2>2, <2>4, <2>7
  <2>8. CASE j = i + 1
    BY <2>2, <2>4, <2>8 DEF e
  <2>9. CASE i + 1 < j
    BY <1>2, <2>1, <2>2, <2>4, <2>5, <2>9
  <2>10. j < i \/ j = i \/ j = i + 1 \/ i + 1 < j
    BY <2>1
  <2> QED BY <2>6, <2>7, <2>8, <2>9, <2>10
<1> QED BY <1>2, <1>8, <1>9, <1>10 DEF n

(* allocator_reserve() and the end of allocator_insert(): of the region    *)
(* asked for, what lies in the range is allocated afterwards.              *)
Taken(s, t, base, last, first, final) ==
  \A x \in Int : \A ty : Holds(t, x, ty) <=>
    IF base <= x /\ x <= last /\ first <= x /\ x <= final
    THEN ty = MEMORY_TYPE_ALLOCATED ELSE Holds(s, x, ty)

(* All regions end at the end of a page.                                   *)
WholePages(s) == \A i \in 1 .. Len(s) : (EndOf(s[i]) + 1) % PAGE_SIZE = 0

LEMMA PlacedPages ==
  ASSUME NEW s, NEW t, NEW start \in Int, NEW end \in Int, EndsAmong(t, s, {start - 1, end}),
         WholePages(s), start % PAGE_SIZE = 0, (end + 1) % PAGE_SIZE = 0
  PROVE  WholePages(t)
<1>1. ASSUME NEW i \in 1 .. Len(t) PROVE (EndOf(t[i]) + 1) % PAGE_SIZE = 0
  <2>1. \/ EndOf(t[i]) \in {start - 1, end}
        \/ \E j \in 1 .. Len(s) : s[j].type = t[i].type /\ EndOf(s[j]) = EndOf(t[i])
    BY DEF EndsAmong
  <2>2. (start - 1) + 1 = start
    OBVIOUS
  <2> QED BY <2>1, <2>2 DEF WholePages
<1> QED BY <1>1 DEF WholePages

LEMMA BlockFact ==
  ASSUME NEW base \in Addr, NEW last \in Addr, base <= last,
         NEW s, Regions(s, base, last),
         NEW addr \in Addr, NEW size \in Addr, size # 0, addr + size <= AddrMod,
         NEW t, t = Block(s, base, last, addr, size)
  PROVE  /\ Regions(t, base, last) /\ Taken(s, t, base, last, addr, addr + size - 1)
         /\ /\ WholePages(s) /\ base % PAGE_SIZE = 0 /\ (last + 1) % PAGE_SIZE = 0
            /\ addr % PAGE_SIZE = 0 /\ (addr + size) % PAGE_SIZE = 0
            => WholePages(t)
<1> DEFINE final == addr + size - 1
           from == IF addr > base THEN addr ELSE base
           to == IF final < last THEN final ELSE last
           n == Wrap(to - from + 1)
<1>1. /\ base \in Nat /\ last \in Nat /\ last < AddrMod /\ addr \in Nat /\ size \in Nat
      /\ AddrMod \in Nat /\ final \in Nat /\ final < AddrMod
  BY AddrNat
<1>2. Wrap(final) = final
  <2> HIDE DEF final
  <2> QED BY <1>1, AddrNat, WrapSmall
<1>3. t = IF to < from THEN s
          ELSE InsertRegion(s, from, n, MEMORY_TYPE_ALLOCATED, 0)
  BY <1>2 DEF Block
<1> HIDE DEF final
<1>4. /\ from \in Addr /\ to \in Addr /\ from \in Nat /\ to \in Nat
      /\ base <= from /\ to <= last
      /\ \A x \in Int : base <= x /\ x <= last /\ addr <= x /\ x <= final <=> from <= x /\ x <= to
  BY <1>1, AddrNat
<1> HIDE DEF from, to
<1>5. CASE to < from
  <2>1. \A x \in Int : ~(from <= x /\ x <= to)
    BY <1>4, <1>5
  <2>2. t = s
    BY <1>3, <1>5
  <2>3. Taken(s, t, base, last, addr, final)
    BY <1>4, <2>1, <2>2 DEF Taken
  <2> QED BY <2>2, <2>3 DEF final
<1>6. CASE ~(to < from)
  <2> DEFINE r == [start |-> from, size |-> n, type |-> MEMORY_TYPE_ALLOCATED]
             pos == InsertPos(s, from)
             p == PlaceRange(s, pos, from, n, MEMORY_TYPE_ALLOCATED)
  <2>1. from <= to
    BY <1>4, <1>6
  <2>2. r \in MemoryRange /\ EndOf(r) = to
    BY <1>4, <2>1, TypesDiffer, RangeFromTo
  <2>3. n \in Addr /\ Wrap(from + n - 1) = to
    BY <2>2 DEF MemoryRange, EndOf
  <2> HIDE DEF n
  <2>4. s \in Seq(MemoryRange) /\ Apart(s)
    BY DEF Regions
  <2>5. RightPos(s, pos, from)
    BY <1>4, <2>4, InsertPosFact
  <2>6. t = p.front \o <<p.range>> \o p.back
    BY <1>3, <1>6 DEF InsertRegion
  <2> HIDE DEF pos, p
  <2>7. p = PlaceRange(s, pos, from, n, MEMORY_TYPE_ALLOCATED)
    BY DEF p
  <2>8. /\ Regions(t, base, last) /\ Updated(s, t, from, to, MEMORY_TYPE_ALLOCATED)
        /\ EndsAmong(t, s, {from - 1, to})
    <3>1. /\ base \in Int /\ last \in Int /\ from \in Addr /\ to \in Addr /\ n \in Addr
          /\ to = Wrap(from + n - 1) /\ from <= to /\ base <= from /\ to <= last
      BY <1>1, <1>4, <2>1, <2>3
    <3> QED BY <2>5, <2>6, <2>7, <3>1, PlaceRegion
  <2>9. Taken(s, t, base, last, addr, final)
    BY <1>4, <2>8 DEF Taken, Updated
  <2>10. ASSUME WholePages(s), base % PAGE_SIZE = 0, (last + 1) % PAGE_SIZE = 0,
                addr % PAGE_SIZE = 0, (addr + size) % PAGE_SIZE = 0
         PROVE  WholePages(t)
    <3>1. from % PAGE_SIZE = 0 /\ (to + 1) % PAGE_SIZE = 0
      <4>1. final + 1 = addr + size
        BY <1>1 DEF final
      <4> QED BY <2>10, <4>1 DEF from, to
    <3> QED BY <1>4, <2>8, <2>10, <3>1, PlacedPages
  <2> QED BY <2>8, <2>9, <2>10 DEF final
<1> QED BY <1>5, <1>6

(* The search of allocator_alloc().                                        *)
LEMMA FindRegionFact ==
  ASSUME NEW s \in Seq(MemoryRange), NEW size, NEW step, NEW i, i = FindRegion(s, size, step)
  PROVE  /\ i # 0 => i \in 1 .. Len(s) /\ Fits(s[i], size, step)
         /\ i = 0 => \A j \in 1 .. Len(s) : ~Fits(s[j], size, step)
<1> DEFINE I == {j \in 1 .. Len(s) : Fits(s[j], size, step)}
<1>1. i = IF I # {} THEN Min(I) ELSE 0
  BY DEF FindRegion, SelectInSeq
<1>2. I \subseteq Nat /\ I \subseteq 1 .. Len(s)
  OBVIOUS
<1>3. CASE I = {}
  BY <1>1, <1>3
<1>4. CASE I # {}
  <2>1. Min(I) \in I
    <3> HIDE DEF I
    <3> QED BY <1>2, <1>4, MinElement
  <2> QED BY <1>1, <1>2, <1>4, <2>1
<1> QED BY <1>3, <1>4

(* What a free region has room for, when nothing wraps.                    *)
LEMMA FitsFact ==
  ASSUME NEW r \in MemoryRange, r.start <= EndOf(r), NEW size \in Addr, size # 0,
         NEW step \in Nat \ {0}, EndOf(r) + size + step <= AddrMod,
         NEW start, start = round_up(r.start, step), NEW end, end = start + size - 1
  PROVE  /\ start \in Addr /\ start \in Nat /\ end \in Addr /\ end \in Nat
         /\ r.start <= start /\ start <= end /\ Wrap(start + size - 1) = end
         /\ Fits(r, size, step) <=> r.type = MEMORY_TYPE_FREE /\ end <= EndOf(r)
         /\ \A m \in Nat : r.start <= m /\ m % step = 0 => start <= m
<1>1. /\ r.start \in Nat /\ EndOf(r) \in Nat /\ size \in Nat /\ size >= 1
      /\ r.start + step <= AddrMod /\ AddrMod \in Nat
  BY RangeFields, AddrNat
<1>2. /\ start \in Nat /\ r.start <= start /\ start < r.start + step
      /\ \A m \in Nat : r.start <= m /\ m % step = 0 => start <= m
  BY <1>1, RoundUpFact
<1>3. /\ end \in Nat /\ start <= end /\ end < AddrMod /\ start < AddrMod
  BY <1>1, <1>2
<1>4. start \in Addr /\ end \in Addr
  BY <1>2, <1>3, AddrNat
<1>5. Wrap(start + size - 1) = end
  BY <1>4, WrapSmall
<1>6. Fits(r, size, step) <=> r.type = MEMORY_TYPE_FREE /\ end <= EndOf(r)
  BY <1>5 DEF Fits
<1> QED BY <1>2, <1>3, <1>4, <1>5, <1>6

(* allocator_init(): one free region.                                      *)
LEMMA FreshFact ==
  ASSUME NEW base \in Addr, NEW size \in Addr, NEW last \in Addr,
         last = Wrap(base + size - 1), base <= last,
         NEW u, u = InsertRegion(<<>>, base, size, MEMORY_TYPE_FREE, 0)
  PROVE  /\ Regions(u, base, last)
         /\ (last + 1) % PAGE_SIZE = 0 => WholePages(u)
<1> DEFINE F == MEMORY_TYPE_FREE
           A == MEMORY_TYPE_ALLOCATED
           e0 == <<>>
           pos == InsertPos(e0, base)
           p == PlaceRange(e0, pos, base, size, F)
           t == p.front \o <<p.range>> \o p.back
<1>0. u = t
  BY DEF InsertRegion
<1>1. base \in Nat /\ last \in Nat
  BY AddrNat
<1>2. e0 \in Seq(MemoryRange) /\ Apart(e0) /\ \A x, ty : ~Holds(e0, x, ty)
  BY DEF Apart, Holds
<1>3. Len(e0) = 0
  OBVIOUS
<1> HIDE DEF e0
<1>4. RightPos(e0, pos, base)
  BY <1>2, InsertPosFact
<1> HIDE DEF pos
<1>5. p = PlaceRange(e0, pos, base, size, F) /\ t = p.front \o <<p.range>> \o p.back
  OBVIOUS
<1>6. F # A /\ F \in MemoryTypes
  BY TypesDiffer
<1> HIDE DEF p, F, A
<1>7. /\ Updated(e0, p.front \o <<p.range>> \o p.back, base, last, F)
      /\ Parts(e0, base, last, p.front, p.back)
      /\ p.range \in MemoryRange /\ EndOf(p.range) = last
  BY <1>2, <1>4, <1>5, <1>6, PlaceUpdates
<1>8. EndsAmong(t, e0, {base - 1, last})
  BY <1>5, <1>7, JoinEnds
<1>9. /\ t \in Seq(MemoryRange) /\ Apart(t)
      /\ \A x \in Int : \A ty : Holds(t, x, ty) <=> base <= x /\ x <= last /\ ty = F
  BY <1>2, <1>5, <1>7 DEF Updated
<1> HIDE DEF t
<1>10. ASSUME NEW i \in 1 .. Len(t)
       PROVE  t[i].type = F /\ ~Holds(t, EndOf(t[i]) + 1, F) /\ EndOf(t[i]) = last
  <2>1. t \in Seq(MemoryRange) /\ Apart(t)
    BY <1>9
  <2>2. /\ Holds(t, t[i].start, t[i].type) /\ Holds(t, EndOf(t[i]), t[i].type)
        /\ t[i].start \in Nat /\ EndOf(t[i]) \in Nat
    BY <2>1, HoldsEnds
  <2>3. t[i].type = F /\ base <= EndOf(t[i])
    BY <1>9, <2>2
  <2>4. EndOf(t[i]) \in {base - 1, last}
    BY <1>3, <1>8 DEF EndsAmong
  <2>5. EndOf(t[i]) = last
    BY <1>1, <2>2, <2>3, <2>4
  <2>6. last + 1 \in Int /\ ~(last + 1 <= last)
    BY <1>1
  <2> QED BY <1>9, <2>3, <2>5, <2>6
<1>11. Regions(t, base, last)
  <2>1. \A x \in Int : base <= x /\ x <= last <=> Holds(t, x, F) \/ Holds(t, x, A)
    BY <1>6, <1>9
  <2> QED BY <1>9, <1>10, <2>1 DEF Regions, F, A
<1> QED BY <1>0, <1>10, <1>11 DEF WholePages

(* Free addresses from start to end of the range become allocated.         *)
TakesFree(s, t, base, last, start, end) ==
  /\ base <= start /\ end <= last /\ start <= end
  /\ Regions(t, base, last)
  /\ Updated(s, t, start, end, MEMORY_TYPE_ALLOCATED)
  /\ \A x \in Int : start <= x /\ x <= end => Holds(s, x, MEMORY_TYPE_FREE)
  /\ EndsAmong(t, s, {start - 1, end})

(* Taking addresses of a free region, from its start or behind it.         *)
LEMMA TakeInRegion ==
  ASSUME NEW base \in Addr, NEW last \in Addr, base <= last,
         NEW s, Regions(s, base, last), NEW i \in 1 .. Len(s),
         NEW size \in Addr, size # 0, NEW start \in Addr, s[i].start <= start,
         NEW end, end = start + size - 1, end <= EndOf(s[i]), s[i].type = MEMORY_TYPE_FREE,
         NEW t, t = InsertRegion(s, start, size, MEMORY_TYPE_ALLOCATED, i)
  PROVE  TakesFree(s, t, base, last, start, end)
<1> DEFINE pos == IF start <= s[i].start THEN i ELSE i + 1
           p == PlaceRange(s, pos, start, size, MEMORY_TYPE_ALLOCATED)
<1>1. s \in Seq(MemoryRange) /\ Apart(s)
  BY DEF Regions
<1>2. i \in 1 .. Len(s) /\ s[i].type = MEMORY_TYPE_FREE /\ end <= EndOf(s[i])
  OBVIOUS
<1>3. /\ \A j \in 1 .. Len(s) : s[j].start \in Nat /\ EndOf(s[j]) \in Nat
      /\ \A j \in 1 .. Len(s) : s[j].start <= EndOf(s[j])
      /\ \A j, k \in 1 .. Len(s) : j < k => EndOf(s[j]) < s[k].start
      /\ base \in Nat /\ last \in Nat /\ AddrMod \in Nat /\ size \in Nat
      /\ s[i] \in MemoryRange /\ EndOf(s[i]) < AddrMod
  BY <1>1, <1>2, ListFields, AddrNat DEF Apart
<1>4. base <= s[i].start /\ EndOf(s[i]) <= last
  <2>1. /\ Holds(s, s[i].start, s[i].type) /\ Holds(s, EndOf(s[i]), s[i].type)
        /\ s[i].start \in Int /\ EndOf(s[i]) \in Int
        /\ s[i].type \in {MEMORY_TYPE_FREE, MEMORY_TYPE_ALLOCATED}
    BY <1>1, <1>2, <1>3, HoldsEnds DEF Regions
  <2> QED BY <2>1 DEF Regions
<1>6. /\ start \in Addr /\ start \in Nat /\ end \in Addr /\ end \in Nat
      /\ s[i].start <= start /\ start <= end /\ Wrap(start + size - 1) = end
  <2>1. start \in Nat /\ end \in Nat /\ start <= end
    BY <1>3, AddrNat
  <2>2. end < AddrMod
    <3> QED BY <1>2, <1>3, <2>1
  <2>3. end \in Addr
    <3> QED BY <2>1, <2>2, AddrNat
  <2> QED BY <2>1, <2>3, WrapSmall
<1>7. RightPos(s, pos, start)
  <2>1. CASE start <= s[i].start
    <3>1. pos = i /\ start = s[i].start
      BY <1>2, <1>3, <1>6, <2>1, SMTT(30)
    <3>3. ASSUME NEW j \in 1 .. Len(s)
          PROVE  IF j < pos THEN s[j].start < start ELSE start <= s[j].start
      <4>1. j < i \/ j = i \/ i < j
        BY <1>2
      <4>2. s[j].start \in Nat /\ EndOf(s[j]) \in Nat /\ s[j].start <= EndOf(s[j])
        BY <1>3
      <4>3. /\ j < i => EndOf(s[j]) < s[i].start
            /\ i < j => EndOf(s[i]) < s[j].start
        BY <1>2, <1>3
      <4>4. s[i].start \in Nat /\ EndOf(s[i]) \in Nat /\ s[i].start <= EndOf(s[i])
        BY <1>2, <1>3
      <4> HIDE DEF pos
      <4>5. CASE j < i
        BY <1>2, <3>1, <4>2, <4>3, <4>4, <4>5
      <4>6. CASE ~(j < i)
        <5>1. start <= s[j].start
          BY <1>2, <3>1, <4>1, <4>2, <4>3, <4>4, <4>6
        <5> QED BY <3>1, <4>6, <5>1
      <4> QED BY <4>5, <4>6
    <3> QED BY <1>1, <1>2, <3>1, <3>3 DEF RightPos
  <2>2. CASE ~(start <= s[i].start)
    <3>1. pos = i + 1 /\ pos \in 1 .. Len(s) + 1
      BY <1>1, <1>2, <2>2
    <3>2. start <= EndOf(s[i])
      BY <1>2, <1>3, <1>6
    <3>3. ASSUME NEW j \in 1 .. Len(s)
          PROVE  IF j < pos THEN s[j].start < start ELSE start <= s[j].start
      <4>1. j < i \/ j = i \/ i < j
        BY <1>2
      <4>2. s[j].start \in Nat /\ EndOf(s[j]) \in Nat /\ s[j].start <= EndOf(s[j])
        BY <1>3
      <4>3. /\ j < i => EndOf(s[j]) < s[i].start
            /\ i < j => EndOf(s[i]) < s[j].start
        BY <1>2, <1>3
      <4>4. s[i].start \in Nat /\ EndOf(s[i]) \in Nat /\ s[i].start <= EndOf(s[i])
        BY <1>2, <1>3
      <4> HIDE DEF pos
      <4>5. start \in Int /\ s[i].start < start
        BY <1>6, <2>2, <4>4
      <4>6. CASE j < i
        <5>1. s[j].start < start /\ j < pos
          BY <1>2, <3>1, <4>2, <4>3, <4>4, <4>5, <4>6, SMTT(30)
        <5> QED BY <5>1
      <4>7. CASE j = i
        <5>1. j < pos
          BY <1>2, <3>1, <4>7
        <5> QED BY <4>5, <4>7, <5>1
      <4>8. CASE i < j
        <5>1. ~(j < pos)
          BY <1>2, <3>1, <4>8
        <5>2. start <= s[j].start
          BY <3>2, <4>2, <4>3, <4>4, <4>5, <4>8
        <5> QED BY <5>1, <5>2
      <4> QED BY <4>1, <4>6, <4>7, <4>8
    <3> QED BY <3>1, <3>3 DEF RightPos
  <2> QED BY <2>1, <2>2
<1>8. t = p.front \o <<p.range>> \o p.back
  <2>1. i # 0
    BY <1>2
  <2> QED BY <2>1 DEF InsertRegion
<1>9. p = PlaceRange(s, pos, start, size, MEMORY_TYPE_ALLOCATED)
  OBVIOUS
<1>10. \A x \in Int : start <= x /\ x <= end => Holds(s, x, MEMORY_TYPE_FREE)
  <2>1. s[i].type = MEMORY_TYPE_FREE /\ end <= EndOf(s[i])
    BY <1>2
  <2>2. /\ s[i].start \in Int /\ EndOf(s[i]) \in Int /\ start \in Int /\ end \in Int
        /\ s[i].start <= start
    BY <1>2, <1>3, <1>6
  <2>3. ASSUME NEW x \in Int, start <= x, x <= end PROVE InRange(s[i], x)
    BY <2>1, <2>2, <2>3 DEF InRange
  <2> QED BY <1>2, <2>1, <2>3 DEF Holds
<1> HIDE DEF pos, p
<1>11. base <= start /\ end <= last
  BY <1>2, <1>3, <1>4, <1>6, SMTT(30)
<1>12. /\ Regions(t, base, last) /\ Updated(s, t, start, end, MEMORY_TYPE_ALLOCATED)
       /\ EndsAmong(t, s, {start - 1, end})
  <2>1. /\ base \in Int /\ last \in Int /\ start \in Addr /\ end \in Addr /\ size \in Addr
        /\ end = Wrap(start + size - 1) /\ start <= end /\ base <= start /\ end <= last
    BY <1>3, <1>6, <1>11
  <2> QED BY <1>7, <1>8, <1>9, <2>1, PlaceRegion, ZenonT(30)
<1> QED BY <1>6, <1>10, <1>11, <1>12 DEF TakesFree

(* allocator_alloc() when it finds a region: it takes free addresses.      *)
LEMMA AllocFact ==
  ASSUME NEW base \in Addr, NEW last \in Addr, base <= last,
         NEW s, Regions(s, base, last),
         NEW size \in Addr, size # 0, NEW step \in Nat \ {0},
         last + size + step <= AddrMod,
         NEW i, i = FindRegion(s, size, step), i # 0,
         NEW start, start = round_up(s[i].start, step),
         NEW t, t = InsertRegion(s, start, size, MEMORY_TYPE_ALLOCATED, i)
  PROVE  /\ start \in Addr /\ base <= start /\ start + size - 1 <= last
         /\ start <= start + size - 1
         /\ Regions(t, base, last)
         /\ Updated(s, t, start, start + size - 1, MEMORY_TYPE_ALLOCATED)
         /\ \A x \in Int : start <= x /\ x <= start + size - 1 => Holds(s, x, MEMORY_TYPE_FREE)
<1> DEFINE end == start + size - 1
<1>1. s \in Seq(MemoryRange) /\ Apart(s)
  BY DEF Regions
<1>2. i \in 1 .. Len(s) /\ Fits(s[i], size, step)
  BY <1>1, FindRegionFact
<1>3. /\ \A j \in 1 .. Len(s) : s[j].start \in Nat /\ EndOf(s[j]) \in Nat
      /\ \A j \in 1 .. Len(s) : s[j].start <= EndOf(s[j])
      /\ \A j, k \in 1 .. Len(s) : j < k => EndOf(s[j]) < s[k].start
      /\ base \in Nat /\ last \in Nat /\ AddrMod \in Nat /\ size \in Nat
      /\ s[i] \in MemoryRange
  BY <1>1, <1>2, ListFields, AddrNat DEF Apart
<1>4. base <= s[i].start /\ EndOf(s[i]) <= last
  <2>1. /\ Holds(s, s[i].start, s[i].type) /\ Holds(s, EndOf(s[i]), s[i].type)
        /\ s[i].start \in Int /\ EndOf(s[i]) \in Int
        /\ s[i].type \in {MEMORY_TYPE_FREE, MEMORY_TYPE_ALLOCATED}
    BY <1>1, <1>2, <1>3, HoldsEnds DEF Regions
  <2> QED BY <2>1 DEF Regions
<1>5. EndOf(s[i]) + size + step <= AddrMod
  BY <1>2, <1>3, <1>4
<1>6. /\ start \in Addr /\ start \in Nat /\ end \in Addr /\ end \in Nat
      /\ s[i].start <= start /\ start <= end /\ Wrap(start + size - 1) = end
      /\ Fits(s[i], size, step) <=> s[i].type = MEMORY_TYPE_FREE /\ end <= EndOf(s[i])
  <2> DEFINE r == s[i]
  <2>1. r \in MemoryRange /\ r.start <= EndOf(r) /\ EndOf(r) + size + step <= AddrMod
        /\ start = round_up(r.start, step) /\ end = start + size - 1
    BY <1>2, <1>3, <1>5
  <2> HIDE DEF r, end
  <2>2. /\ start \in Addr /\ start \in Nat /\ end \in Addr /\ end \in Nat
        /\ r.start <= start /\ start <= end /\ Wrap(start + size - 1) = end
        /\ Fits(r, size, step) <=> r.type = MEMORY_TYPE_FREE /\ end <= EndOf(r)
    BY <2>1, FitsFact
  <2> QED BY <2>2 DEF r
<1>7. s[i].type = MEMORY_TYPE_FREE /\ end <= EndOf(s[i])
  BY <1>2, <1>6
<1>8. start \in Addr /\ s[i].start <= start /\ end = start + size - 1
  BY <1>6
<1> HIDE DEF end
<1>9. TakesFree(s, t, base, last, start, end)
  BY <1>2, <1>7, <1>8, TakeInRegion
<1> QED BY <1>8, <1>9 DEF TakesFree

-----------------------------------------------------------------------------
(***************************************************************************)
(* The invariant.                                                          *)
(***************************************************************************)

(* The end of a request is computed without wrapping wherever in the range *)
(* it is tried.  allocator_alloc() does not test for it: a range that ends *)
(* at the top of the address space is outside of what is proved here.      *)
NoWrap ==
  \A size \in AllocSizes, align \in Aligns :
    AllocEnd + size + (IF align = 0 THEN PAGE_SIZE ELSE align) <= AddrMod

(* The regions cover what is managed; what was given out or reserved is    *)
(* allocated as far as it is managed, and what was searched for is managed.*)
AllocInv ==
  /\ Regions(region_list, Base, AllocEnd)
  /\ granted \cup reserved \subseteq [start : Addr, size : Addr]
  /\ \A b \in granted \cup reserved : \A x \in SpanOf(b) \cap Managed :
       Holds(region_list, x, MEMORY_TYPE_ALLOCATED)
  /\ \A b \in granted : b \in Fixed \/ SpanOf(b) \subseteq Managed

LEMMA ManagedFact ==
  /\ Base \in Addr /\ AllocEnd \in Addr /\ Base <= AllocEnd
  /\ Base \in Nat /\ AllocEnd \in Nat /\ Size \in Addr
  /\ AllocEnd = Wrap(Base + Size - 1)
<1>1. Base \in Addr /\ Size \in Addr /\ Base \in Nat /\ Size \in Nat /\ AddrMod \in Nat
  BY AllocatorAssumption, AddrNat
<1>2. AllocEnd \in Addr
  BY <1>1, WrapType DEF AllocEnd
<1>3. Base <= AllocEnd
  <2>1. CASE Size = 0
    BY <1>2, <2>1, AllocatorAssumption, AddrNat
  <2>2. CASE Size # 0
    <3>1. Base + Size - 1 \in Nat /\ Base + Size - 1 < AddrMod
      BY <1>1, <2>2, AllocatorAssumption
    <3>2. AllocEnd = Base + Size - 1
      BY <3>1, AddrNat, WrapSmall DEF AllocEnd
    <3> QED BY <1>1, <2>2, <3>2
  <2> QED BY <2>1, <2>2
<1> QED BY <1>1, <1>2, <1>3, AddrNat DEF AllocEnd

LEMMA SpanFact ==
  ASSUME NEW b \in [start : Addr, size : Addr]
  PROVE  /\ b.start \in Addr /\ b.size \in Addr /\ b.start \in Nat /\ b.size \in Nat
         /\ \A x : x \in SpanOf(b) <=> x \in Int /\ b.start <= x /\ x <= b.start + b.size - 1
<1>1. b.start \in Addr /\ b.size \in Addr
  OBVIOUS
<1>2. b.start \in Nat /\ b.size \in Nat
  BY <1>1, AddrNat
<1> QED BY <1>1, <1>2 DEF SpanOf

LEMMA AllocatorStarts == AllocatorInit => AllocInv
<1> SUFFICES ASSUME AllocatorInit PROVE AllocInv
  OBVIOUS
<1>1. /\ region_list = InsertRegion(<<>>, Base, Size, MEMORY_TYPE_FREE, 0)
      /\ granted = {} /\ reserved = {}
  BY DEF AllocatorInit
<1>2. Regions(region_list, Base, AllocEnd)
  BY <1>1, ManagedFact, FreshFact
<1> QED BY <1>1, <1>2 DEF AllocInv

(* What is allocated and granted by allocator_alloc() and                  *)
(* allocator_insert(): the addresses had been free, or are not managed.    *)
FreshSpan(b) ==
  \A x \in SpanOf(b) \cap Managed : Holds(region_list, x, MEMORY_TYPE_FREE)

LEMMA AllocStep ==
  ASSUME NoWrap, AllocInv, NEW size \in AllocSizes, NEW align \in Aligns, Alloc(size, align)
  PROVE  AllocInv' /\ \A b \in granted' : b \in granted \/ FreshSpan(b)
<1> DEFINE step == IF align = 0 THEN PAGE_SIZE ELSE align
           i == FindRegion(region_list, size, step)
           start == round_up(region_list[i].start, step)
           t == InsertRegion(region_list, start, size, MEMORY_TYPE_ALLOCATED, i)
           new == Region(start, size)
<1>1. /\ i # 0 /\ region_list' = t /\ granted' = granted \cup {new} /\ reserved' = reserved
  BY DEF Alloc
<1>2. size \in Addr /\ size # 0 /\ step \in Nat \ {0} /\ AllocEnd + size + step <= AddrMod
  BY RequestAssumption, AddressSpaceAssumption, AddrNat DEF NoWrap
<1>3. Regions(region_list, Base, AllocEnd)
  BY DEF AllocInv
<1>4. i = FindRegion(region_list, size, step) /\ start = round_up(region_list[i].start, step)
      /\ t = InsertRegion(region_list, start, size, MEMORY_TYPE_ALLOCATED, i)
  OBVIOUS
<1>5. new.start = start /\ new.size = size /\ new = [start |-> start, size |-> size]
  BY DEF Region
<1> HIDE DEF step, i, start, t, new
<1>6. /\ start \in Addr /\ Base <= start /\ start + size - 1 <= AllocEnd
      /\ start <= start + size - 1
      /\ Regions(t, Base, AllocEnd)
      /\ Updated(region_list, t, start, start + size - 1, MEMORY_TYPE_ALLOCATED)
      /\ \A x \in Int : start <= x /\ x <= start + size - 1
           => Holds(region_list, x, MEMORY_TYPE_FREE)
  BY <1>1, <1>2, <1>3, <1>4, ManagedFact, AllocFact
<1>7. new \in [start : Addr, size : Addr]
  BY <1>2, <1>5, <1>6
<1>8. \A x : x \in SpanOf(new) <=> x \in Int /\ start <= x /\ x <= start + size - 1
  BY <1>5, <1>7, SpanFact
<1>9. \A x \in Int : \A ty : Holds(t, x, ty) <=>
        IF start <= x /\ x <= start + size - 1 THEN ty = MEMORY_TYPE_ALLOCATED
        ELSE Holds(region_list, x, ty)
  BY <1>6 DEF Updated
<1>10. SpanOf(new) \subseteq Managed
  <2> DEFINE end == start + size - 1
  <2>1. start \in Nat /\ end \in Int /\ end <= AllocEnd
    BY <1>2, <1>6, AddrNat
  <2>2. \A x \in SpanOf(new) : x \in Int /\ start <= x /\ x <= end
    BY <1>8
  <2> HIDE DEF end
  <2> QED BY <1>6, <2>1, <2>2, ManagedFact DEF Managed
<1>11. FreshSpan(new)
  BY <1>6, <1>8 DEF FreshSpan
<1>12. ASSUME NEW b \in granted' \cup reserved', NEW x \in SpanOf(b) \cap Managed
       PROVE  Holds(t, x, MEMORY_TYPE_ALLOCATED)
  <2>1. x \in Int
    BY ManagedFact DEF Managed
  <2>2. CASE b = new
    BY <1>8, <1>9, <2>1, <2>2
  <2>3. CASE b \in granted \cup reserved
    <3>1. Holds(region_list, x, MEMORY_TYPE_ALLOCATED)
      BY <2>3 DEF AllocInv
    <3> QED BY <1>9, <2>1, <3>1
  <2> QED BY <1>1, <2>2, <2>3
<1>13. AllocInv'
  <2>1. granted' \cup reserved' \subseteq [start : Addr, size : Addr]
    BY <1>1, <1>7 DEF AllocInv
  <2>2. \A b \in granted' : b \in Fixed \/ SpanOf(b) \subseteq Managed
    BY <1>1, <1>10 DEF AllocInv
  <2> QED BY <1>1, <1>6, <1>12, <2>1, <2>2 DEF AllocInv
<1> QED BY <1>1, <1>11, <1>13

(* Making a region allocated keeps every promise and makes a new one.      *)
LEMMA BlockStep ==
  ASSUME AllocInv, NEW b \in Fixed \cup Blocked,
         region_list' = Block(region_list, Base, AllocEnd, b.start, b.size)
  PROVE  /\ Regions(region_list', Base, AllocEnd)
         /\ b \in [start : Addr, size : Addr]
         /\ \A c \in granted \cup reserved \cup {b} : \A x \in SpanOf(c) \cap Managed :
              Holds(region_list', x, MEMORY_TYPE_ALLOCATED)
<1> DEFINE t == Block(region_list, Base, AllocEnd, b.start, b.size)
<1>1. /\ b \in [start : Addr, size : Addr] /\ b.size # 0 /\ b.start + b.size <= AddrMod
  BY RequestAssumption
<1>2. /\ b.start \in Addr /\ b.size \in Addr
      /\ \A x : x \in SpanOf(b) <=> x \in Int /\ b.start <= x /\ x <= b.start + b.size - 1
  BY <1>1, SpanFact
<1>3. Regions(region_list, Base, AllocEnd)
  BY DEF AllocInv
<1>4. t = Block(region_list, Base, AllocEnd, b.start, b.size) /\ region_list' = t
  OBVIOUS
<1> HIDE DEF t
<1>5. /\ Regions(t, Base, AllocEnd)
      /\ Taken(region_list, t, Base, AllocEnd, b.start, b.start + b.size - 1)
  BY <1>1, <1>2, <1>3, <1>4, ManagedFact, BlockFact
<1>6. ASSUME NEW c \in granted \cup reserved \cup {b}, NEW x \in SpanOf(c) \cap Managed
      PROVE  Holds(t, x, MEMORY_TYPE_ALLOCATED)
  <2>1. x \in Int /\ Base <= x /\ x <= AllocEnd
    BY ManagedFact DEF Managed
  <2>2. CASE c = b
    BY <1>2, <1>5, <2>1, <2>2 DEF Taken
  <2>3. CASE c \in granted \cup reserved
    <3>1. Holds(region_list, x, MEMORY_TYPE_ALLOCATED)
      BY <2>3 DEF AllocInv
    <3> QED BY <1>5, <2>1, <3>1 DEF Taken
  <2> QED BY <2>2, <2>3
<1> QED BY <1>1, <1>4, <1>5, <1>6

LEMMA InsertStep ==
  ASSUME AllocInv, NEW b \in Fixed, Insert(b)
  PROVE  AllocInv' /\ \A c \in granted' : c \in granted \/ FreshSpan(c)
<1>1. /\ ~Conflicts(region_list, b.start, b.size)
      /\ region_list' = Block(region_list, Base, AllocEnd, b.start, b.size)
      /\ granted' = granted \cup {b} /\ reserved' = reserved
  BY DEF Insert
<1>2. /\ Regions(region_list', Base, AllocEnd)
      /\ b \in [start : Addr, size : Addr]
      /\ \A c \in granted \cup reserved \cup {b} : \A x \in SpanOf(c) \cap Managed :
           Holds(region_list', x, MEMORY_TYPE_ALLOCATED)
  BY <1>1, BlockStep
<1>3. AllocInv'
  BY <1>1, <1>2 DEF AllocInv
<1>4. FreshSpan(b)
  <2> SUFFICES ASSUME NEW x \in SpanOf(b) \cap Managed
               PROVE  Holds(region_list, x, MEMORY_TYPE_FREE)
    BY DEF FreshSpan
  <2> DEFINE end == b.start + b.size - 1
  <2>1. x \in Int /\ b.start <= x /\ x <= end /\ b.start \in Nat /\ b.size \in Nat
    BY <1>2, SpanFact
  <2>2. end \in Nat /\ end < AddrMod
    <3>1. b.size # 0 /\ b.start + b.size <= AddrMod
      BY RequestAssumption
    <3> QED BY <2>1, <3>1, AddrNat
  <2>3. Wrap(b.start + b.size - 1) = end
    BY <2>2, AddrNat, WrapSmall
  <2>4. Base <= x /\ x <= AllocEnd
    BY ManagedFact DEF Managed
  <2>5. /\ Holds(region_list, x, MEMORY_TYPE_FREE)
             \/ Holds(region_list, x, MEMORY_TYPE_ALLOCATED)
        /\ region_list \in Seq(MemoryRange)
    BY <2>1, <2>4 DEF AllocInv, Regions
  <2> HIDE DEF end
  <2>6. ASSUME Holds(region_list, x, MEMORY_TYPE_ALLOCATED) PROVE FALSE
    <3>1. PICK i \in 1 .. Len(region_list) :
            /\ region_list[i].start <= x /\ x <= EndOf(region_list[i])
            /\ region_list[i].type = MEMORY_TYPE_ALLOCATED
      BY <2>6 DEF Holds, InRange
    <3>2. region_list[i].start \in Nat /\ EndOf(region_list[i]) \in Nat
      BY <2>5, ListFields
    <3>3. b.start <= EndOf(region_list[i]) /\ region_list[i].start <= end
      BY <2>1, <2>2, <3>1, <3>2
    <3> QED BY <1>1, <2>3, <3>1, <3>3 DEF Conflicts
  <2> QED BY <2>5, <2>6
<1> QED BY <1>1, <1>3, <1>4

LEMMA ReserveStep ==
  ASSUME AllocInv, NEW b \in Blocked, Reserve(b)
  PROVE  AllocInv'
<1>1. /\ region_list' = Block(region_list, Base, AllocEnd, b.start, b.size)
      /\ granted' = granted /\ reserved' = reserved \cup {b}
  BY DEF Reserve
<1>2. /\ Regions(region_list', Base, AllocEnd)
      /\ b \in [start : Addr, size : Addr]
      /\ \A c \in granted \cup reserved \cup {b} : \A x \in SpanOf(c) \cap Managed :
           Holds(region_list', x, MEMORY_TYPE_ALLOCATED)
  BY <1>1, BlockStep
<1> QED BY <1>1, <1>2 DEF AllocInv

LEMMA AllocatorSteps ==
  ASSUME NoWrap, AllocInv, [AllocatorNext]_allocatorVars
  PROVE  AllocInv' /\ \A b \in granted' : b \in granted \/ FreshSpan(b)
<1>1. CASE UNCHANGED <<region_list, granted, reserved>>
  BY <1>1 DEF AllocInv
<1>2. CASE UNCHANGED allocatorVars
  BY <1>1, <1>2 DEF allocatorVars
<1>3. ASSUME NEW size \in AllocSizes, NEW align \in Aligns, Alloc(size, align)
      PROVE  AllocInv' /\ \A b \in granted' : b \in granted \/ FreshSpan(b)
  BY <1>3, AllocStep
<1>4. ASSUME NEW size \in AllocSizes, NEW align \in Aligns, AllocFails(size, align)
      PROVE  AllocInv' /\ \A b \in granted' : b \in granted \/ FreshSpan(b)
  BY <1>1, <1>4 DEF AllocFails
<1>5. ASSUME NEW b \in Fixed, Insert(b)
      PROVE  AllocInv' /\ \A c \in granted' : c \in granted \/ FreshSpan(c)
  BY <1>5, InsertStep
<1>6. ASSUME NEW b \in Fixed, InsertFails(b)
      PROVE  AllocInv' /\ \A c \in granted' : c \in granted \/ FreshSpan(c)
  BY <1>1, <1>6 DEF InsertFails
<1>7. ASSUME NEW b \in Blocked, Reserve(b)
      PROVE  AllocInv' /\ \A c \in granted' : c \in granted \/ FreshSpan(c)
  <2>1. granted' = granted
    BY <1>7 DEF Reserve
  <2> QED BY <1>7, <2>1, ReserveStep
<1> QED BY <1>2, <1>3, <1>4, <1>5, <1>6, <1>7 DEF AllocatorNext

(* allocator_alloc() fails: no aligned run of free addresses is as long as *)
(* the request.  A run lies in one region, as no free region follows       *)
(* another, and in it the rounded start of the region comes first.         *)
LEMMA NoRoom ==
  ASSUME NEW base \in Addr, NEW last \in Addr, NEW s, Regions(s, base, last),
         NEW size \in Addr, size # 0, NEW step \in Nat \ {0},
         last + size + step <= AddrMod, FindRegion(s, size, step) = 0,
         NEW a \in Nat, a % step = 0,
         \A x \in Int : a <= x /\ x <= a + size - 1 => Holds(s, x, MEMORY_TYPE_FREE)
  PROVE  FALSE
<1>1. /\ s \in Seq(MemoryRange) /\ Apart(s) /\ size \in Nat /\ size >= 1
      /\ last \in Nat /\ AddrMod \in Nat
  BY AddrNat DEF Regions
<1>2. \A j \in 1 .. Len(s) : ~Fits(s[j], size, step)
  BY <1>1, FindRegionFact
<1>3. Holds(s, a, MEMORY_TYPE_FREE)
  BY <1>1
<1>4. PICK i \in 1 .. Len(s) :
        s[i].start <= a /\ a <= EndOf(s[i]) /\ s[i].type = MEMORY_TYPE_FREE
  BY <1>3 DEF Holds, InRange
<1> DEFINE r == s[i]
           e == EndOf(r)
           start == round_up(r.start, step)
           end == start + size - 1
<1>5. r \in MemoryRange /\ r.start \in Nat /\ e \in Nat /\ r.start <= e
  BY <1>1, ListFields DEF Apart
<1>6. e <= last
  <2>1. Holds(s, e, MEMORY_TYPE_FREE) /\ e \in Int
    BY <1>1, <1>4, HoldsEnds
  <2> QED BY <2>1 DEF Regions
<1>7. ~Holds(s, e + 1, MEMORY_TYPE_FREE)
  BY <1>4 DEF Regions
<1>8. a + size - 1 <= e
  <2> HIDE DEF e
  <2>1. a <= e
    BY <1>4 DEF e
  <2> QED BY <1>1, <1>5, <1>7, <2>1
<1>9. e + size + step <= AddrMod
  BY <1>1, <1>5, <1>6
<1>10. start = round_up(r.start, step) /\ end = start + size - 1 /\ e = EndOf(r)
  OBVIOUS
<1>11. r.type = MEMORY_TYPE_FREE /\ ~Fits(r, size, step) /\ r.start <= a
  BY <1>2, <1>4
<1> HIDE DEF r, start, end, e
<1>12. /\ start \in Nat
       /\ Fits(r, size, step) <=> r.type = MEMORY_TYPE_FREE /\ end <= EndOf(r)
       /\ \A m \in Nat : r.start <= m /\ m % step = 0 => start <= m
  <2>1. r.start <= EndOf(r) /\ EndOf(r) + size + step <= AddrMod
    BY <1>5, <1>9, <1>10
  <2> QED BY <1>5, <1>10, <2>1, FitsFact
<1>13. start <= a
  BY <1>11, <1>12
<1>14. end <= e
  BY <1>1, <1>5, <1>8, <1>10, <1>12, <1>13
<1> QED BY <1>10, <1>11, <1>12, <1>14

LEMMA AllocFailsStep ==
  ASSUME NoWrap, AllocInv, NEW size \in AllocSizes, NEW align \in Aligns,
         AllocFails(size, align)
  PROVE  RefusedForAReason'
<1> DEFINE step == IF align = 0 THEN PAGE_SIZE ELSE align
           req == [size |-> size, align |-> step]
<1>1. /\ FindRegion(region_list, size, step) = 0 /\ refused' = {req}
      /\ region_list' = region_list
  BY DEF AllocFails
<1>2. size \in Addr /\ size # 0 /\ step \in Nat \ {0} /\ AllocEnd + size + step <= AddrMod
  BY RequestAssumption, AddressSpaceAssumption, AddrNat DEF NoWrap
<1>3. Regions(region_list, Base, AllocEnd)
  BY DEF AllocInv
<1>4. req \notin Fixed
  <2>1. ASSUME req \in [start : Addr, size : Addr] PROVE FALSE
    <3>1. DOMAIN req = {"start", "size"}
      BY <2>1
    <3>2. "align" \in DOMAIN req
      OBVIOUS
    <3> QED BY <3>1, <3>2
  <2> QED BY <2>1, RequestAssumption
<1>5. req.size = size /\ req.align = step
  OBVIOUS
<1> HIDE DEF req, step
<1>6. ASSUME NEW a \in Managed, a % step = 0,
             \A x \in a .. (a + size - 1) : TypeAt(region_list, x) = MEMORY_TYPE_FREE
      PROVE  FALSE
  <2>1. a \in Nat
    BY ManagedFact DEF Managed
  <2>2. ASSUME NEW x \in Int, a <= x, x <= a + size - 1
        PROVE  Holds(region_list, x, MEMORY_TYPE_FREE)
    <3>1. size \in Nat
      BY <1>2, AddrNat
    <3>2. x \in a .. (a + size - 1)
      BY <2>1, <2>2, <3>1
    <3>3. TypeAt(region_list, x) = MEMORY_TYPE_FREE
      BY <1>6, <3>2
    <3> QED BY <1>3, <3>3, TypeAtHolds, TypesDiffer DEF Regions
  <2> QED BY <1>1, <1>2, <1>3, <1>6, <2>1, <2>2, ManagedFact, NoRoom
<1> QED BY <1>1, <1>4, <1>5, <1>6 DEF RefusedForAReason

LEMMA InsertFailsStep ==
  ASSUME AllocInv, NEW b \in Fixed, InsertFails(b)
  PROVE  RefusedForAReason'
<1> DEFINE end == b.start + b.size - 1
<1>1. /\ Conflicts(region_list, b.start, b.size) /\ refused' = {b}
      /\ region_list' = region_list
  BY DEF InsertFails
<1>2. b \in [start : Addr, size : Addr] /\ b.size # 0 /\ b.start + b.size <= AddrMod
  BY RequestAssumption
<1>3. /\ b.start \in Nat /\ b.size \in Nat
      /\ \A x : x \in SpanOf(b) <=> x \in Int /\ b.start <= x /\ x <= end
  BY <1>2, SpanFact
<1>4. end \in Nat /\ end < AddrMod /\ b.start <= end
  BY <1>2, <1>3, AddrNat
<1>5. Wrap(b.start + b.size - 1) = end
  BY <1>4, AddrNat, WrapSmall
<1> HIDE DEF end
<1>6. PICK i \in 1 .. Len(region_list) :
        /\ region_list[i].type = MEMORY_TYPE_ALLOCATED
        /\ b.start <= EndOf(region_list[i]) /\ region_list[i].start <= end
  BY <1>1, <1>5 DEF Conflicts
<1>7. region_list \in Seq(MemoryRange) /\ Apart(region_list)
  BY DEF AllocInv, Regions
<1>8. /\ region_list[i].start \in Nat /\ EndOf(region_list[i]) \in Nat
      /\ region_list[i].start <= EndOf(region_list[i])
  BY <1>7, ListFields DEF Apart
<1>9. PICK x \in Int : /\ b.start <= x /\ x <= end
                       /\ region_list[i].start <= x /\ x <= EndOf(region_list[i])
  <2>1. CASE b.start <= region_list[i].start
    BY <1>3, <1>4, <1>6, <1>8, <2>1
  <2>2. CASE region_list[i].start <= b.start
    BY <1>3, <1>4, <1>6, <1>8, <2>2
  <2> QED BY <1>3, <1>8, <2>1, <2>2
<1>10. Holds(region_list, x, MEMORY_TYPE_ALLOCATED)
  BY <1>6, <1>9 DEF Holds, InRange
<1>11. TypeAt(region_list, x) = MEMORY_TYPE_ALLOCATED
  BY <1>7, <1>10, TypeAtHolds, TypesDiffer
<1>12. x \in SpanOf(b)
  BY <1>3, <1>9
<1> QED BY <1>1, <1>11, <1>12 DEF RefusedForAReason

LEMMA RefusalSteps ==
  ASSUME NoWrap, AllocInv, RefusedForAReason, [AllocatorNext]_allocatorVars
  PROVE  RefusedForAReason'
<1>1. CASE UNCHANGED allocatorVars
  BY <1>1 DEF allocatorVars, RefusedForAReason
<1>2. CASE refused' = refused /\ refused = {}
  BY <1>2 DEF RefusedForAReason
<1>3. ASSUME NEW size \in AllocSizes, NEW align \in Aligns, Alloc(size, align)
      PROVE  RefusedForAReason'
  BY <1>2, <1>3 DEF Alloc
<1>4. ASSUME NEW size \in AllocSizes, NEW align \in Aligns, AllocFails(size, align)
      PROVE  RefusedForAReason'
  BY <1>4, AllocFailsStep
<1>5. ASSUME NEW b \in Fixed, Insert(b) PROVE RefusedForAReason'
  BY <1>2, <1>5 DEF Insert
<1>6. ASSUME NEW b \in Fixed, InsertFails(b) PROVE RefusedForAReason'
  BY <1>6, InsertFailsStep
<1>7. ASSUME NEW b \in Blocked, Reserve(b) PROVE RefusedForAReason'
  BY <1>2, <1>7 DEF Reserve
<1> QED BY <1>1, <1>3, <1>4, <1>5, <1>6, <1>7 DEF AllocatorNext

-----------------------------------------------------------------------------
(***************************************************************************)
(* The theorems.                                                           *)
(***************************************************************************)
LEMMA AllocatorInvariant ==
  ASSUME NoWrap
  PROVE  AllocatorSpec => []AllocInv
<1>1. AllocInv /\ [AllocatorNext]_allocatorVars => AllocInv'
  BY AllocatorSteps
<1> QED BY <1>1, AllocatorStarts, PTL DEF AllocatorSpec

(* The regions of the allocator always cover the range it manages from end *)
(* to end without a gap or an overlap, and what was given out or reserved  *)
(* stays allocated, whatever the order of the calls of allocator_alloc(),  *)
(* allocator_insert() and allocator_reserve().                             *)
THEOREM AllocatorGrantsStay ==
  ASSUME NoWrap
  PROVE  AllocatorSpec => []GrantsStay
<1>1. AllocInv => GrantsStay
  <2> SUFFICES ASSUME AllocInv PROVE GrantsStay
    OBVIOUS
  <2>1. Regions(region_list, Base, AllocEnd)
    BY DEF AllocInv
  <2>2. /\ region_list[1].start = Base /\ EndOf(region_list[Len(region_list)]) = AllocEnd
        /\ \A i \in 1 .. Len(region_list) : region_list[i].start <= EndOf(region_list[i])
        /\ \A i \in 1 .. Len(region_list) - 1 :
             EndOf(region_list[i]) + 1 = region_list[i + 1].start
    BY <2>1, ManagedFact, RegionsTile
  <2>3. ASSUME NEW b \in granted \cup reserved, NEW x \in SpanOf(b) \cap Managed
        PROVE  TypeAt(region_list, x) = MEMORY_TYPE_ALLOCATED
    <3>1. Holds(region_list, x, MEMORY_TYPE_ALLOCATED) /\ x \in Int
      BY ManagedFact DEF AllocInv, Managed
    <3> QED BY <2>1, <3>1, TypeAtHolds, TypesDiffer DEF Regions
  <2>4. \A b \in granted : b \in Fixed \/ SpanOf(b) \subseteq Managed
    BY DEF AllocInv
  <2> QED BY <2>2, <2>3, <2>4 DEF GrantsStay
<1> QED BY <1>1, AllocatorInvariant, PTL

(* No address is given out twice: what allocator_alloc() returns and       *)
(* allocator_insert() accepts was free the moment before.                  *)
THEOREM AllocatorGrantsAreFresh ==
  ASSUME NoWrap
  PROVE  AllocatorSpec => GrantsAreFresh
<1> DEFINE Fresh(b) ==
      \A x \in SpanOf(b) \cap Managed : TypeAt(region_list, x) = MEMORY_TYPE_FREE
<1>1. ASSUME AllocInv, [AllocatorNext]_allocatorVars
      PROVE  [\A b \in granted' : b \in granted \/ Fresh(b)]_allocatorVars
  <2>1. ASSUME NEW b, FreshSpan(b) PROVE Fresh(b)
    <3> SUFFICES ASSUME NEW x \in SpanOf(b) \cap Managed
                 PROVE  TypeAt(region_list, x) = MEMORY_TYPE_FREE
      OBVIOUS
    <3>1. Holds(region_list, x, MEMORY_TYPE_FREE) /\ x \in Int
      BY <2>1, ManagedFact DEF FreshSpan, Managed
    <3> QED BY <1>1, <3>1, TypeAtHolds, TypesDiffer DEF AllocInv, Regions
  <2> HIDE DEF Fresh
  <2> QED BY <1>1, <2>1, AllocatorSteps
<1> QED BY <1>1, AllocatorInvariant, PTL DEF AllocatorSpec, GrantsAreFresh

(* A refused request could not have been satisfied: allocator_alloc() only *)
(* fails when there is no aligned run of free addresses of the size, and   *)
(* allocator_insert() when an address of the region is in use.             *)
THEOREM AllocatorRefusesForAReason ==
  ASSUME NoWrap
  PROVE  AllocatorSpec => []RefusedForAReason
<1>1. AllocatorInit => RefusedForAReason
  BY DEF AllocatorInit, RefusedForAReason
<1>2. AllocInv /\ RefusedForAReason /\ [AllocatorNext]_allocatorVars => RefusedForAReason'
  BY RefusalSteps
<1> QED BY <1>1, <1>2, AllocatorInvariant, PTL DEF AllocatorSpec

-----------------------------------------------------------------------------
(***************************************************************************)
(* Top-level entries: addresses in order have their slots in order.        *)
(***************************************************************************)

(* Where a quotient lies.                                                  *)
LEMMA QuotientBounds ==
  ASSUME NEW d \in Nat \ {0}, NEW x \in Nat, NEW k \in Nat
  PROVE  /\ d * k <= x => k <= x \div d
         /\ x < d * k => x \div d < k
         /\ x \div d \in Nat
<1> DEFINE q == x \div d
           w == x % d
<1>1. q \in Nat /\ w \in Nat /\ w < d /\ x = d * q + w /\ d * q \in Nat /\ d * k \in Nat
  BY DivMod
<1> HIDE DEF q, w
<1>2. ASSUME d * k <= x PROVE k <= q
  <2>1. CASE k >= q + 1
    <3>1. PICK e \in Nat : k = q + 1 + e
      <4>1. k - (q + 1) \in Nat /\ k = q + 1 + (k - (q + 1))
        BY <1>1, <2>1
      <4> QED BY <4>1
    <3>2. d * k = d * q + d + d * e /\ d * e \in Nat
      BY <1>1, <3>1
    <3> QED BY <1>1, <1>2, <3>2
  <2> QED BY <1>1, <2>1
<1>3. ASSUME x < d * k PROVE q < k
  <2>1. CASE q >= k
    <3>1. PICK e \in Nat : q = k + e
      <4>1. q - k \in Nat /\ q = k + (q - k)
        BY <1>1, <2>1
      <4> QED BY <4>1
    <3>2. d * q = d * k + d * e /\ d * e \in Nat
      BY <1>1, <3>1
    <3> QED BY <1>1, <1>3, <3>2
  <2> QED BY <1>1, <2>1
<1> QED BY <1>1, <1>2, <1>3 DEF q

LEMMA QuotientOrder ==
  ASSUME NEW d \in Nat \ {0}, NEW x \in Nat, NEW y \in Nat, x <= y
  PROVE  x \div d \in Nat /\ y \div d \in Nat /\ x \div d <= y \div d
<1>1. x \div d \in Nat /\ x % d \in Nat /\ x = d * (x \div d) + (x % d)
  BY DivMod
<1>2. d * (x \div d) <= y
  BY <1>1
<1> QED BY <1>1, <1>2, QuotientBounds

(* Remainders are in order as long as the quotient is the same.            *)
LEMMA RemainderOrder ==
  ASSUME NEW n \in Nat \ {0}, NEW k \in Nat, NEW p \in Nat, NEW q \in Nat, p <= q,
         n * k <= p, q < n * k + n
  PROVE  p % n \in Nat /\ q % n \in Nat /\ p % n <= q % n
<1>1. n * (k + 1) = n * k + n /\ n * k \in Nat /\ k + 1 \in Nat
  OBVIOUS
<1>2. ASSUME NEW y \in Nat, n * k <= y, y < n * k + n PROVE y % n \in Nat /\ y = n * k + (y % n)
  <2>1. k <= y \div n /\ y \div n < k + 1 /\ y \div n \in Nat
    BY <1>1, <1>2, QuotientBounds
  <2>2. y \div n = k
    BY <2>1
  <2> QED BY <2>2, DivMod
<1>3. n * k <= q /\ p < n * k + n
  BY <1>1
<1>4. p = n * k + (p % n) /\ q = n * k + (q % n) /\ p % n \in Nat /\ q % n \in Nat
  BY <1>2, <1>3
<1> QED BY <1>1, <1>4

(* The number of slots of a 64-bit address space, and the whole of it in   *)
(* slots.                                                                  *)
LEMMA SlotCount ==
  ASSUME NEW n, n = (2 * HALF) \div SLOT
  PROVE  /\ n \in Nat \ {0} /\ SLOT \in Nat \ {0} /\ 2 * HALF = SLOT * n
         /\ \E m \in Nat : AddrMod = SLOT * (n * m + n)
<1>1. /\ SLOT \in Nat \ {0} /\ HALF \in Nat \ {0} /\ HALF % SLOT = 0 /\ AddrMod \in Nat
      /\ AddrMod % (2 * HALF) = 0 /\ 2 * HALF <= AddrMod
  BY KBootAssumption, CanonicalAssumption, AddressSpaceAssumption
<1>2. HALF = SLOT * (HALF \div SLOT) /\ HALF \div SLOT \in Nat
  BY <1>1, DivMod
<1> DEFINE h == HALF \div SLOT
<1>3. h \in Nat /\ h # 0 /\ 2 * HALF = SLOT * (2 * h) /\ 2 * h \in Nat /\ 2 * HALF \in Nat
  BY <1>1, <1>2
<1> HIDE DEF h
<1>4. n = 2 * h
  <2>1. 2 * h <= (2 * HALF) \div SLOT /\ (2 * HALF) \div SLOT \in Nat
    BY <1>1, <1>3, QuotientBounds
  <2>2. SLOT * (2 * h + 1) = SLOT * (2 * h) + SLOT /\ 2 * h + 1 \in Nat
    BY <1>1, <1>3
  <2>3. 2 * HALF < SLOT * (2 * h + 1)
    BY <1>1, <1>3, <2>2
  <2>4. (2 * HALF) \div SLOT < 2 * h + 1
    BY <1>1, <1>3, <2>2, <2>3, QuotientBounds
  <2> QED BY <1>3, <2>1, <2>4
<1>5. n \in Nat \ {0} /\ 2 * HALF = SLOT * n
  BY <1>3, <1>4
<1>6. 2 * HALF \in Nat \ {0}
  BY <1>1
<1> DEFINE r == AddrMod \div (2 * HALF)
<1>7. AddrMod = (2 * HALF) * r /\ r \in Nat
  BY <1>1, <1>6, DivMod
<1> HIDE DEF r
<1>8. r # 0
  BY <1>1, <1>6, <1>7
<1>9. r - 1 \in Nat /\ AddrMod = SLOT * (n * (r - 1) + n)
  <2>1. r - 1 \in Nat /\ n * (r - 1) + n = n * r
    BY <1>5, <1>7, <1>8
  <2>2. AddrMod = (SLOT * n) * r
    BY <1>5, <1>7
  <2> QED BY <1>1, <1>5, <1>7, <2>1, <2>2
<1> QED BY <1>1, <1>5, <1>9

(* The addresses of a range that lies in one half, or in 32-bit mode of    *)
(* any, have the slots from that of the first to that of the last one.     *)
OneHalf(base, last) == mode = "64" => last < HALF \/ base >= AddrMod - HALF

LEMMA SlotOrder ==
  ASSUME mode \in {"64", "32"}, NEW base \in Addr, NEW last \in Addr, OneHalf(base, last),
         NEW x \in Int, base <= x, x <= last
  PROVE  /\ SlotOf(base) \in Int /\ SlotOf(x) \in Int /\ SlotOf(last) \in Int
         /\ SlotOf(base) <= SlotOf(x) /\ SlotOf(x) <= SlotOf(last)
<1> DEFINE a == base \div SLOT
           b == x \div SLOT
           c == last \div SLOT
<1>1. /\ SLOT \in Nat \ {0} /\ base \in Nat /\ last \in Nat /\ last < AddrMod /\ AddrMod \in Nat
      /\ x \in Nat
  BY KBootAssumption, AddrNat
<1>2. a \in Nat /\ b \in Nat /\ c \in Nat /\ a <= b /\ b <= c
  BY <1>1, QuotientOrder
<1>3. CASE mode = "32"
  <2>1. /\ SlotOf(base) = a % AddrMod /\ SlotOf(x) = b % AddrMod /\ SlotOf(last) = c % AddrMod
    BY <1>3 DEF SlotOf
  <2>2. c <= last
    <3>1. last = SLOT * c + (last % SLOT) /\ last % SLOT \in Nat
      BY <1>1, DivMod
    <3> HIDE DEF c
    <3>2. SLOT * c >= c
      BY <1>1, <1>2
    <3> QED BY <1>1, <1>2, <3>1, <3>2
  <2> HIDE DEF a, b, c
  <2>3. a \in Addr /\ b \in Addr /\ c \in Addr
    BY <1>1, <1>2, <2>2, AddrNat
  <2>4. a % AddrMod = a /\ b % AddrMod = b /\ c % AddrMod = c
    BY <2>3, WrapSmall DEF Wrap
  <2> QED BY <1>2, <2>1, <2>4
<1>4. CASE mode = "64"
  <2> DEFINE n == (2 * HALF) \div SLOT
  <2>1. /\ n \in Nat \ {0} /\ 2 * HALF = SLOT * n
        /\ \E m \in Nat : AddrMod = SLOT * (n * m + n)
    BY SlotCount
  <2>2. Cardinality(Slots) = n
    <3>1. Slots = 0 .. n - 1
      BY <1>4 DEF Slots
    <3> HIDE DEF n
    <3>2. Cardinality(0 .. n - 1) = n
      <4>1. 0 \in Int /\ n - 1 \in Int
        BY <2>1
      <4>2. Cardinality(0 .. n - 1) = IF 0 > n - 1 THEN 0 ELSE n - 1 - 0 + 1
        BY <4>1, FS_Interval
      <4> QED BY <2>1, <4>2
    <3> QED BY <3>1, <3>2
  <2>3. SlotOf(base) = a % n /\ SlotOf(x) = b % n /\ SlotOf(last) = c % n
    BY <1>4, <2>2 DEF SlotOf
  <2>4. \E k \in Nat : n * k <= a /\ c < n * k + n
    <3>1. HALF \in Nat /\ 2 * HALF <= AddrMod
      BY CanonicalAssumption
    <3>2. CASE last < HALF
      <4>1. last < SLOT * n
        BY <1>1, <2>1, <3>1, <3>2
      <4> HIDE DEF n
      <4>2. c < n
        BY <1>1, <2>1, <4>1, QuotientBounds
      <4>3. n * 0 <= a /\ c < n * 0 + n
        BY <1>2, <2>1, <4>2
      <4> QED BY <4>3
    <3>3. CASE base >= AddrMod - HALF
      <4>1. PICK m \in Nat : AddrMod = SLOT * (n * m + n)
        BY <2>1
      <4> HIDE DEF n
      <4>2. n * m \in Nat /\ n * m + n \in Nat
        BY <2>1
      <4>3. SLOT * (n * m + n) = SLOT * (n * m) + SLOT * n /\ SLOT * (n * m) \in Nat
        BY <1>1, <2>1, <4>2
      <4>4. SLOT * (n * m) <= base
        BY <1>1, <2>1, <3>1, <3>3, <4>1, <4>3
      <4>5. n * m <= a
        BY <1>1, <4>2, <4>4, QuotientBounds
      <4>6. c < n * m + n
        BY <1>1, <4>1, <4>2, QuotientBounds
      <4> QED BY <4>5, <4>6
    <3> QED BY <1>4, <3>2, <3>3 DEF OneHalf
  <2>5. PICK k \in Nat : n * k <= a /\ c < n * k + n
    BY <2>4
  <2> HIDE DEF n, a, b, c
  <2>6. n * k \in Nat
    BY <2>1
  <2>7. n * k <= b /\ b < n * k + n
    BY <1>2, <2>1, <2>5, <2>6
  <2>8. a % n \in Nat /\ b % n \in Nat /\ a % n <= b % n
    BY <1>2, <2>1, <2>5, <2>7, RemainderOrder
  <2>9. c % n \in Nat /\ b % n <= c % n
    BY <1>2, <2>1, <2>5, <2>7, RemainderOrder
  <2> QED BY <2>3, <2>8, <2>9
<1> QED BY <1>3, <1>4

-----------------------------------------------------------------------------
(***************************************************************************)
(* The mappings.                                                           *)
(***************************************************************************)
Mapping ==
  [start : Addr, size : Addr, phys : Addr \cup {NO_PHYS}, by : {"kernel", "alloc", "trampoline"}]

Covers(m, x) == m.start <= x /\ x <= m.start + m.size - 1

LEMMA MappingFields ==
  ASSUME NEW m \in Mapping
  PROVE  m.start \in Addr /\ m.size \in Addr /\ m.start \in Nat /\ m.size \in Nat
<1>1. m.start \in Addr /\ m.size \in Addr
  BY DEF Mapping
<1> QED BY <1>1, AddrNat

(* add_mapping() puts the mapping somewhere into the list.                 *)
LEMMA AddMappingFact ==
  ASSUME NEW list \in Seq(Mapping), NEW m \in Mapping, NEW u, u = AddMapping(list, m)
  PROVE  u \in Seq(Mapping) /\ \E k \in 1 .. Len(list) + 1 : Inserted(u, list, k, m)
<1> DEFINE I == {j \in 1 .. Len(list) : m.start <= list[j].start}
           i == SelectInSeq(list, LAMBDA other : m.start <= other.start)
           k == IF i = 0 THEN Len(list) + 1 ELSE i
<1>1. i = IF I # {} THEN Min(I) ELSE 0
  BY DEF SelectInSeq
<1>2. u = InsertAt(list, k, m)
  BY DEF AddMapping
<1>3. I \subseteq Nat /\ I \subseteq 1 .. Len(list) /\ Len(list) \in Nat
  OBVIOUS
<1> HIDE DEF i
<1>4. k \in 1 .. Len(list) + 1
  <2>1. CASE I = {}
    BY <1>1, <1>3, <2>1
  <2>2. CASE I # {}
    <3>1. Min(I) \in I
      <4> HIDE DEF I
      <4> QED BY <1>3, <2>2, MinElement
    <3> QED BY <1>1, <1>3, <2>2, <3>1
  <2> QED BY <2>1, <2>2
<1> HIDE DEF k
<1>5. u \in Seq(Mapping) /\ Inserted(u, list, k, m)
  BY <1>2, <1>4, InsertAtElements
<1> QED BY <1>4, <1>5

(* The layout: the regions s, the mappings ms and the range agree.         *)
RegionsFit(s, base, last) ==
  Regions(s, base, last) /\ WholePages(s) /\ ~Holds(s, 0, MEMORY_TYPE_FREE)

(* One mapping: it does not wrap, its part of the range is allocated, and  *)
(* where the loader has chosen it, it is in the range.                     *)
MappingFits(m, s, base, last) ==
  /\ m.size # 0 /\ m.start + m.size <= AddrMod
  /\ \A x \in Int : Covers(m, x) /\ base <= x /\ x <= last => Holds(s, x, MEMORY_TYPE_ALLOCATED)
  /\ m.by # "kernel" => base <= m.start /\ m.start + m.size - 1 <= last /\ m.start # 0
  /\ m.by = "trampoline" => \A x \in Int : ~(Covers(m, x) /\ Covers(LoaderArea, x))

Meet(m, o, base, last) ==
  \E x \in Int : Covers(m, x) /\ Covers(o, x) /\ base <= x /\ x <= last

Layout(s, ms, base, last) ==
  /\ RegionsFit(s, base, last)
  /\ ms \in Seq(Mapping)
  /\ \A i \in 1 .. Len(ms) : MappingFits(ms[i], s, base, last)
  /\ \A i, j \in 1 .. Len(ms) : i # j => ~Meet(ms[i], ms[j], base, last)

(* A new mapping: free addresses of s become allocated in t.               *)
NewMapping(m, s, t, base, last) ==
  /\ m \in Mapping
  /\ \A x \in Int : Holds(s, x, MEMORY_TYPE_ALLOCATED) => Holds(t, x, MEMORY_TYPE_ALLOCATED)
  /\ \A x \in Int : Covers(m, x) /\ base <= x /\ x <= last => Holds(s, x, MEMORY_TYPE_FREE)
  /\ MappingFits(m, t, base, last)

LEMMA AddToLayout ==
  ASSUME NEW base \in Int, NEW last \in Int, NEW s, NEW ms, Layout(s, ms, base, last),
         NEW t, RegionsFit(t, base, last), NEW m, NewMapping(m, s, t, base, last),
         NEW u, u = AddMapping(ms, m)
  PROVE  Layout(t, u, base, last)
<1>1. /\ ms \in Seq(Mapping) /\ m \in Mapping
      /\ \A i \in 1 .. Len(ms) : MappingFits(ms[i], s, base, last)
      /\ \A i, j \in 1 .. Len(ms) : i # j => ~Meet(ms[i], ms[j], base, last)
  BY DEF Layout, NewMapping
<1>2. u \in Seq(Mapping) /\ \E k \in 1 .. Len(ms) + 1 : Inserted(u, ms, k, m)
  BY <1>1, AddMappingFact
<1>3. PICK k \in 1 .. Len(ms) + 1 : Inserted(u, ms, k, m)
  BY <1>2
<1>4. \A j \in 1 .. Len(u) :
        /\ j < k => j \in 1 .. Len(ms) /\ u[j] = ms[j]
        /\ j = k => u[j] = m
        /\ j > k => j - 1 \in 1 .. Len(ms) /\ u[j] = ms[j - 1]
  BY <1>1, <1>3 DEF Inserted
<1>5. ASSUME NEW i \in 1 .. Len(ms) PROVE MappingFits(ms[i], t, base, last)
  <2>1. MappingFits(ms[i], s, base, last)
    BY <1>1
  <2> QED BY <2>1 DEF MappingFits, NewMapping
<1>6. ASSUME NEW i \in 1 .. Len(ms) PROVE ~Meet(ms[i], m, base, last) /\ ~Meet(m, ms[i], base, last)
  <2>1. ASSUME NEW x \in Int, Covers(ms[i], x), Covers(m, x), base <= x, x <= last PROVE FALSE
    <3>1. Holds(s, x, MEMORY_TYPE_ALLOCATED)
      <4>1. MappingFits(ms[i], s, base, last)
        BY <1>1
      <4> QED BY <2>1, <4>1 DEF MappingFits
    <3>2. Holds(s, x, MEMORY_TYPE_FREE)
      BY <2>1 DEF NewMapping
    <3>3. s \in Seq(MemoryRange) /\ Apart(s)
      BY DEF Layout, RegionsFit, Regions
    <3> QED BY <3>1, <3>2, <3>3, TypeAtHolds, TypesDiffer
  <2> QED BY <2>1 DEF Meet
<1>7. ASSUME NEW i \in 1 .. Len(u) PROVE MappingFits(u[i], t, base, last)
  <2>1. MappingFits(m, t, base, last)
    BY DEF NewMapping
  <2>2. i < k \/ i = k \/ i > k
    BY <1>2
  <2> QED BY <1>4, <1>5, <2>1, <2>2
<1>8. ASSUME NEW i \in 1 .. Len(u), NEW j \in 1 .. Len(u), i # j
      PROVE  ~Meet(u[i], u[j], base, last)
  <2>1. /\ i < k \/ i = k \/ i > k
        /\ j < k \/ j = k \/ j > k
    BY <1>2
  <2>2. CASE i = k
    <3>1. u[i] = m /\ \E a \in 1 .. Len(ms) : u[j] = ms[a]
      BY <1>4, <1>8, <2>1, <2>2
    <3> QED BY <1>6, <3>1
  <2>3. CASE j = k
    <3>1. u[j] = m /\ \E a \in 1 .. Len(ms) : u[i] = ms[a]
      BY <1>4, <1>8, <2>1, <2>3
    <3> QED BY <1>6, <3>1
  <2>4. CASE i # k /\ j # k
    <3>1. \E a, b \in 1 .. Len(ms) : a # b /\ u[i] = ms[a] /\ u[j] = ms[b]
      <4> DEFINE a == IF i < k THEN i ELSE i - 1
                 b == IF j < k THEN j ELSE j - 1
      <4>1. a \in 1 .. Len(ms) /\ b \in 1 .. Len(ms) /\ u[i] = ms[a] /\ u[j] = ms[b]
        BY <1>4, <2>1, <2>4
      <4>2. a # b
        BY <1>8, <2>1, <2>4
      <4> HIDE DEF a, b
      <4> QED BY <4>1, <4>2
    <3> QED BY <1>1, <3>1
  <2> QED BY <2>2, <2>3, <2>4
<1> QED BY <1>2, <1>7, <1>8 DEF Layout

(* The regions start on pages.                                             *)
LEMMA StartsOnPages ==
  ASSUME NEW base \in Nat, NEW last \in Nat, base <= last, base % PAGE_SIZE = 0,
         NEW s, RegionsFit(s, base, last), NEW i \in 1 .. Len(s)
  PROVE  s[i].start % PAGE_SIZE = 0
<1>1. /\ s[1].start = base
      /\ \A j \in 1 .. Len(s) - 1 : EndOf(s[j]) + 1 = s[j + 1].start
  BY RegionsTile DEF RegionsFit
<1>2. Len(s) \in Nat
  BY DEF RegionsFit, Regions
<1>3. CASE i = 1
  BY <1>1, <1>3
<1>4. CASE i # 1
  <2> DEFINE j == i - 1
  <2>1. j \in 1 .. Len(s) - 1 /\ j \in 1 .. Len(s) /\ j + 1 = i
    BY <1>2, <1>4
  <2> HIDE DEF j
  <2>2. EndOf(s[j]) + 1 = s[i].start
    BY <1>1, <2>1
  <2>3. (EndOf(s[j]) + 1) % PAGE_SIZE = 0
    BY <2>1 DEF RegionsFit, WholePages
  <2> QED BY <2>2, <2>3
<1> QED BY <1>3, <1>4

LEMMA SumMultiple ==
  ASSUME NEW a \in Int, NEW b \in Int, a % PAGE_SIZE = 0, b % PAGE_SIZE = 0
  PROVE  (a + b) % PAGE_SIZE = 0
<1>1. PAGE_SIZE \in Nat \ {0}
  BY AddressSpaceAssumption
<1>2. a = PAGE_SIZE * (a \div PAGE_SIZE) /\ a \div PAGE_SIZE \in Int
  BY <1>1, Multiple
<1>3. b = PAGE_SIZE * (b \div PAGE_SIZE) /\ b \div PAGE_SIZE \in Int
  BY <1>1, Multiple
<1> DEFINE k == (a \div PAGE_SIZE) + (b \div PAGE_SIZE)
<1>4. k \in Int /\ a + b = PAGE_SIZE * k
  BY <1>1, <1>2, <1>3
<1> HIDE DEF k
<1> QED BY <1>1, <1>4, Multiple

(* The virtual map range: whole pages, and it does not wrap.               *)
RangeOK(base, last) ==
  /\ base \in Addr /\ last \in Addr /\ base <= last
  /\ base % PAGE_SIZE = 0 /\ (last + 1) % PAGE_SIZE = 0

(* allocator_reserve() of whole pages.                                     *)
LEMMA BlockFits ==
  ASSUME NEW base, NEW last, RangeOK(base, last), NEW s, RegionsFit(s, base, last),
         NEW addr \in Addr, NEW size \in Addr, size # 0, addr + size <= AddrMod,
         addr % PAGE_SIZE = 0, size % PAGE_SIZE = 0,
         NEW t, t = Block(s, base, last, addr, size)
  PROVE  /\ RegionsFit(t, base, last) /\ Taken(s, t, base, last, addr, addr + size - 1)
         /\ \A x \in Int : Holds(s, x, MEMORY_TYPE_ALLOCATED) => Holds(t, x, MEMORY_TYPE_ALLOCATED)
<1>1. (addr + size) % PAGE_SIZE = 0
  BY SumMultiple, AddrNat
<1>2. /\ Regions(t, base, last) /\ Taken(s, t, base, last, addr, addr + size - 1)
      /\ WholePages(t)
  BY <1>1, BlockFact DEF RangeOK, RegionsFit
<1>3. ~Holds(t, 0, MEMORY_TYPE_FREE)
  BY <1>2, TypesDiffer DEF Taken, RegionsFit
<1>4. \A x \in Int : Holds(s, x, MEMORY_TYPE_ALLOCATED) => Holds(t, x, MEMORY_TYPE_ALLOCATED)
  BY <1>2 DEF Taken
<1> QED BY <1>2, <1>3, <1>4 DEF RegionsFit

(* A range whose last address is not below its first does not wrap.        *)
LEMMA EndAbove ==
  ASSUME NEW addr \in Addr, NEW size \in Addr, size # 0, Wrap(addr + size - 1) >= addr
  PROVE  /\ Wrap(addr + size - 1) = addr + size - 1 /\ addr + size <= AddrMod
         /\ addr <= addr + size - 1 /\ addr + size - 1 \in Addr
<1> DEFINE end == addr + size - 1
<1>1. addr \in Nat /\ size \in Nat /\ addr < AddrMod /\ size < AddrMod /\ AddrMod \in Nat
  BY AddrNat
<1>2. end \in Nat /\ addr <= end /\ end + 1 = addr + size
  BY <1>1
<1>3. Wrap(end) >= addr
  OBVIOUS
<1>4. end < AddrMod
  <2>1. CASE end >= AddrMod
    <3> DEFINE over == end - AddrMod
    <3>1. over \in Nat /\ over < addr /\ end = over + AddrMod
      BY <1>1, <1>2, <2>1
    <3> HIDE DEF over, end
    <3>2. Wrap(end) = over
      BY <1>1, <3>1, AddrNat, WrapAbove
    <3> QED BY <1>1, <1>3, <3>1, <3>2
  <2> HIDE DEF end
  <2> QED BY <1>1, <1>2, <2>1
<1>5. end \in Addr /\ Wrap(end) = end
  <2> HIDE DEF end
  <2> QED BY <1>2, <1>4, AddrNat, WrapSmall
<1> QED BY <1>1, <1>2, <1>4, <1>5

(* kboot_map_virtual().                                                    *)
LEMMA MapVirtualFact ==
  ASSUME NEW base, NEW last, RangeOK(base, last),
         NEW s, NEW ms, Layout(s, ms, base, last),
         NEW addr \in Addr, NEW size \in Addr, NEW phys \in Addr \cup {NO_PHYS},
         CheckMapping(addr, phys, size), ~Conflicts(s, addr, size),
         NEW t, t = Block(s, base, last, addr, size),
         NEW u, u = AddMapping(ms, [start |-> addr, size |-> size, phys |-> phys, by |-> "kernel"])
  PROVE  Layout(t, u, base, last)
<1> DEFINE m == [start |-> addr, size |-> size, phys |-> phys, by |-> "kernel"]
           end == addr + size - 1
<1>1. /\ addr % PAGE_SIZE = 0 /\ size % PAGE_SIZE = 0 /\ size # 0 /\ Wrap(end) >= addr
  BY DEF CheckMapping, CheckPages
<1>2. addr \in Nat /\ size \in Nat /\ AddrMod \in Nat
  BY AddrNat
<1>3. end \in Nat /\ addr <= end /\ end + 1 = addr + size
  BY <1>1, <1>2
<1>4. Wrap(addr + size - 1) = end /\ addr + size <= AddrMod
  BY <1>1, EndAbove
<1>6. RegionsFit(s, base, last) /\ s \in Seq(MemoryRange)
  BY DEF Layout, RegionsFit, Regions
<1>7. /\ RegionsFit(t, base, last) /\ Taken(s, t, base, last, addr, end)
      /\ \A x \in Int : Holds(s, x, MEMORY_TYPE_ALLOCATED) => Holds(t, x, MEMORY_TYPE_ALLOCATED)
  BY <1>1, <1>4, <1>6, BlockFits
<1>8. /\ m \in Mapping /\ m.size # 0 /\ m.start + m.size <= AddrMod /\ m.by = "kernel"
      /\ \A x : Covers(m, x) <=> addr <= x /\ x <= end
  BY <1>1, <1>4 DEF Mapping, Covers
<1>9. u = AddMapping(ms, m)
  OBVIOUS
<1> HIDE DEF m, end
<1>10. ASSUME NEW x \in Int, addr <= x, x <= end, base <= x, x <= last
       PROVE  Holds(s, x, MEMORY_TYPE_FREE)
  <2>1. Holds(s, x, MEMORY_TYPE_FREE) \/ Holds(s, x, MEMORY_TYPE_ALLOCATED)
    BY <1>6, <1>10 DEF RegionsFit, Regions
  <2>2. ASSUME Holds(s, x, MEMORY_TYPE_ALLOCATED) PROVE FALSE
    <3>1. PICK i \in 1 .. Len(s) : /\ s[i].start <= x /\ x <= EndOf(s[i])
                                   /\ s[i].type = MEMORY_TYPE_ALLOCATED
      BY <2>2 DEF Holds, InRange
    <3>2. s[i].start \in Nat /\ EndOf(s[i]) \in Nat
      BY <1>6, ListFields
    <3>3. addr <= EndOf(s[i]) /\ s[i].start <= end
      BY <1>2, <1>3, <1>10, <3>1, <3>2
    <3> QED BY <1>4, <3>1, <3>3 DEF Conflicts
  <2> QED BY <2>1, <2>2
<1>11. MappingFits(m, t, base, last)
  BY <1>7, <1>8 DEF MappingFits, Taken
<1>12. NewMapping(m, s, t, base, last)
  BY <1>7, <1>8, <1>10, <1>11 DEF NewMapping
<1>13. base \in Int /\ last \in Int
  BY AddrNat DEF RangeOK
<1> QED BY <1>7, <1>9, <1>12, <1>13, AddToLayout

(* kboot_alloc_virtual(), when the place it gets does not wrap.            *)
LEMMA AllocVirtualFact ==
  ASSUME NEW base, NEW last, RangeOK(base, last),
         NEW s, NEW ms, Layout(s, ms, base, last),
         NEW list, RegionsFit(list, base, last),
         \A x \in Int : Holds(s, x, MEMORY_TYPE_ALLOCATED) => Holds(list, x, MEMORY_TYPE_ALLOCATED),
         NEW size \in Addr, NEW phys \in Addr \cup {NO_PHYS}, CheckPages(phys, size),
         NEW by \in {"alloc", "trampoline"},
         by = "trampoline" => \A x \in Int : Covers(LoaderArea, x) /\ base <= x /\ x <= last
                                => Holds(list, x, MEMORY_TYPE_ALLOCATED),
         NEW i, i = FindRegion(list, size, PAGE_SIZE), i # 0,
         NEW start, start = round_up(list[i].start, PAGE_SIZE), start + size <= AddrMod,
         NEW t, t = InsertRegion(list, start, size, MEMORY_TYPE_ALLOCATED, i),
         NEW m, m = [start |-> start, size |-> size, phys |-> phys, by |-> by],
         NEW u, u = AddMapping(ms, m)
  PROVE  Layout(t, u, base, last) /\ base <= start /\ start + size - 1 <= last /\ start \in Nat
<1> DEFINE end == start + size - 1
           A == MEMORY_TYPE_ALLOCATED
           F == MEMORY_TYPE_FREE
<1>1. /\ size # 0 /\ size % PAGE_SIZE = 0 /\ size \in Nat
      /\ base \in Addr /\ last \in Addr /\ base <= last /\ base \in Nat /\ last \in Nat
      /\ base % PAGE_SIZE = 0
  BY AddrNat DEF CheckPages, RangeOK
<1>2. list \in Seq(MemoryRange) /\ Apart(list) /\ Regions(list, base, last) /\ WholePages(list)
      /\ ~Holds(list, 0, F)
  BY DEF RegionsFit, Regions
<1>3. i \in 1 .. Len(list) /\ Fits(list[i], size, PAGE_SIZE)
  BY <1>2, FindRegionFact
<1>4. list[i].start % PAGE_SIZE = 0
  BY <1>1, <1>3, StartsOnPages
<1>5. start = list[i].start
  BY <1>4 DEF round_up
<1>6. start \in Addr /\ start \in Nat /\ AddrMod \in Nat
  BY <1>2, <1>3, <1>5, ListFields, AddrNat
<1>7. end \in Nat /\ end < AddrMod /\ end + 1 = start + size /\ start <= end
  BY <1>1, <1>6
<1>8. Wrap(start + size - 1) = end
  BY <1>7, AddrNat, WrapSmall
<1>9. list[i].type = F /\ end <= EndOf(list[i])
  BY <1>3, <1>8 DEF Fits
<1>10. end = start + size - 1 /\ list[i].start <= start
  BY <1>5, <1>6
<1> HIDE DEF end
<1>11. TakesFree(list, t, base, last, start, end)
  BY <1>1, <1>2, <1>3, <1>6, <1>9, <1>10, TakeInRegion
<1>12. /\ base <= start /\ end <= last /\ Regions(t, base, last)
       /\ \A x \in Int : \A ty : Holds(t, x, ty) <=>
            IF start <= x /\ x <= end THEN ty = A ELSE Holds(list, x, ty)
       /\ \A x \in Int : start <= x /\ x <= end => Holds(list, x, F)
       /\ EndsAmong(t, list, {start - 1, end})
  BY <1>11 DEF TakesFree, Updated
<1>13. RegionsFit(t, base, last)
  <2>1. start % PAGE_SIZE = 0 /\ (end + 1) % PAGE_SIZE = 0
    BY <1>1, <1>4, <1>5, <1>6, <1>7, SumMultiple
  <2>2. WholePages(t)
    BY <1>2, <1>6, <1>7, <1>12, <2>1, PlacedPages
  <2>3. ~Holds(t, 0, F)
    BY <1>2, <1>12, TypesDiffer
  <2> QED BY <1>12, <2>2, <2>3 DEF RegionsFit
<1>14. /\ m \in Mapping /\ m.start = start /\ m.size = size /\ m.by = by
       /\ \A x : Covers(m, x) <=> start <= x /\ x <= end
  BY <1>6, <1>10 DEF Mapping, Covers
<1>15. start # 0
  <2>1. Holds(list, start, F)
    BY <1>6, <1>7, <1>12
  <2> QED BY <1>2, <2>1
<1>16. ASSUME NEW x \in Int, Holds(list, x, F), Holds(list, x, A) PROVE FALSE
  BY <1>2, <1>16, TypeAtHolds, TypesDiffer
<1>17. MappingFits(m, t, base, last)
  <2>1. ASSUME NEW x \in Int, Covers(m, x) PROVE Holds(t, x, A)
    BY <1>12, <1>14, <2>1
  <2>2. ASSUME by = "trampoline", NEW x \in Int, Covers(m, x), Covers(LoaderArea, x) PROVE FALSE
    <3>1. start <= x /\ x <= end
      BY <1>14, <2>2
    <3>2. base <= x /\ x <= last
      BY <1>1, <1>6, <1>7, <1>12, <3>1
    <3>3. Holds(list, x, A) /\ Holds(list, x, F)
      BY <1>12, <2>2, <3>1, <3>2
    <3> QED BY <1>16, <3>3
  <2> QED BY <1>1, <1>10, <1>12, <1>14, <1>15, <2>1, <2>2 DEF MappingFits
<1>18. NewMapping(m, s, t, base, last)
  <2>1. ASSUME NEW x \in Int, Holds(s, x, A) PROVE Holds(t, x, A)
    BY <1>12, <2>1
  <2>2. ASSUME NEW x \in Int, Covers(m, x), base <= x, x <= last PROVE Holds(s, x, F)
    <3>1. Holds(list, x, F)
      BY <1>12, <1>14, <2>2
    <3>2. ~Holds(s, x, A)
      BY <1>16, <3>1
    <3>3. Holds(s, x, F) \/ Holds(s, x, A)
      BY <2>2 DEF Layout, RegionsFit, Regions
    <3> QED BY <3>2, <3>3
  <2> QED BY <1>14, <1>17, <2>1, <2>2 DEF NewMapping
<1>19. Layout(t, u, base, last)
  BY <1>1, <1>13, <1>18, AddToLayout
<1> QED BY <1>6, <1>10, <1>12, <1>19

-----------------------------------------------------------------------------
(***************************************************************************)
(* The inductive invariant of the layout.                                  *)
(***************************************************************************)

(* No mapping wraps around the end of the address space.  check_mapping()  *)
(* refuses one at an address the kernel chose; allocator_alloc() does not  *)
(* test for it.                                                            *)
MappingsEnd == \A i \in 1 .. Len(mappings) : mappings[i].start + mappings[i].size <= AddrMod

(* The virtual map range is set up and what is mapped agrees with it.      *)
Laid ==
  /\ RangeOK(load.base, LoadEnd) /\ OneHalf(load.base, LoadEnd)
  /\ Layout(regions, mappings, load.base, LoadEnd)

Segments == [start : Addr, size : Addr]
Requests == [virt : Addr \cup {ANY}, size : Addr, phys : Addr \cup {NO_PHYS}]

TodoOK ==
  /\ stage = "kernel" => todo \in Seq(Segments)
  /\ stage = "tags" => todo \in Seq(Requests)

(* The recursive slot, once there is one, is outside the range: nothing    *)
(* that the allocator gives out later reaches into it.                     *)
SlotApart ==
  /\ recursive # {} => stage \notin {"params", "kernel", "tags"}
  /\ \A s \in recursive : s \notin SlotOf(load.base) .. SlotOf(LoadEnd)
  /\ RecursiveClear

KBootInv ==
  /\ mode \in {"64", "32"}
  /\ stage = "params" => mappings = <<>>
  /\ stage # "params" => Laid
  /\ TodoOK
  /\ SlotApart

(* The addresses of a mapping that does not wrap.                          *)
LEMMA BytesFact ==
  ASSUME NEW m \in Mapping, m.start + m.size <= AddrMod
  PROVE  \A x : x \in BytesOf(m) <=> x \in Int /\ Covers(m, x)
<1>1. m.start \in Nat /\ m.size \in Nat /\ AddrMod \in Nat
  BY MappingFields, AddrNat
<1> DEFINE b == m.start
           n == m.size
<1> HIDE DEF b, n
<1>2. b \in Nat /\ n \in Nat /\ b + n <= AddrMod
  BY <1>1 DEF b, n
<1>3. ASSUME NEW k \in 0 .. n - 1 PROVE Wrap(b + k) = b + k
  <2>1. b + k \in Nat /\ b + k < AddrMod
    BY <1>1, <1>2
  <2> QED BY <2>1, AddrNat, WrapSmall
<1>4. BytesOf(m) = {Wrap(b + k) : k \in 0 .. n - 1}
  BY DEF BytesOf, b, n
<1>5. \A x : Covers(m, x) <=> b <= x /\ x <= b + n - 1
  BY DEF Covers, b, n
<1>6. ASSUME NEW x, x \in BytesOf(m) PROVE x \in Int /\ Covers(m, x)
  <2>1. PICK k \in 0 .. n - 1 : x = Wrap(b + k)
    BY <1>4, <1>6
  <2>2. x = b + k
    BY <1>3, <2>1
  <2>3. x \in Int /\ b <= x /\ x <= b + n - 1
    BY <1>2, <2>2
  <2> QED BY <1>5, <2>3
<1>7. ASSUME NEW x \in Int, Covers(m, x) PROVE x \in BytesOf(m)
  <2>1. b <= x /\ x <= b + n - 1
    BY <1>5, <1>7
  <2> DEFINE k == x - b
  <2>2. k \in 0 .. n - 1 /\ x = b + k
    BY <1>2, <2>1
  <2> HIDE DEF k
  <2>3. x = Wrap(b + k)
    BY <1>3, <2>2
  <2> QED BY <1>4, <2>2, <2>3
<1> QED BY <1>6, <1>7

(* The invariant implies the property.                                     *)
LEMMA LayoutFollows == KBootInv => LayoutSound
<1> SUFFICES ASSUME KBootInv PROVE LayoutSound
  OBVIOUS
<1>1. RecursiveClear
  BY DEF KBootInv, SlotApart
<1>2. CASE stage = "params"
  <2>1. mappings = <<>> /\ Len(mappings) = 0
    BY <1>2 DEF KBootInv
  <2>2. 1 .. Len(mappings) = {}
    BY <2>1
  <2> QED BY <1>1, <2>2 DEF LayoutSound, RangeDisjoint, AllocationsInRange, TrampolineClear, Chosen
<1>3. CASE stage # "params"
  <2>1. RangeOK(load.base, LoadEnd) /\ Layout(regions, mappings, load.base, LoadEnd)
    BY <1>3 DEF KBootInv, Laid
  <2> DEFINE base == load.base
             last == LoadEnd
  <2>2. base \in Int /\ last \in Int
    <3>1. base \in Addr /\ last \in Addr
      BY <2>1 DEF RangeOK
    <3> HIDE DEF base, last
    <3> QED BY <3>1, AddrNat
  <2>3. /\ mappings \in Seq(Mapping)
        /\ \A i \in 1 .. Len(mappings) : MappingFits(mappings[i], regions, base, last)
        /\ \A i, j \in 1 .. Len(mappings) : i # j => ~Meet(mappings[i], mappings[j], base, last)
    BY <2>1 DEF Layout
  <2> HIDE DEF base, last
  <2>4. ASSUME NEW i \in 1 .. Len(mappings)
        PROVE  /\ mappings[i] \in Mapping
               /\ \A x : x \in BytesOf(mappings[i]) <=> x \in Int /\ Covers(mappings[i], x)
    <3>1. mappings[i] \in Mapping
      BY <2>3
    <3>2. mappings[i].start + mappings[i].size <= AddrMod
      BY <2>3 DEF MappingFits
    <3> QED BY <3>1, <3>2, BytesFact
  <2>5. RangeDisjoint
    <3>1. ASSUME NEW i \in 1 .. Len(mappings), NEW j \in 1 .. Len(mappings), i # j,
                 NEW x, x \in BytesOf(mappings[i]), x \in BytesOf(mappings[j]), x \in base .. last
          PROVE  FALSE
      <4>1. x \in Int /\ Covers(mappings[i], x) /\ Covers(mappings[j], x)
        BY <2>4, <3>1
      <4>2. base <= x /\ x <= last
        BY <2>2, <3>1
      <4>3. Meet(mappings[i], mappings[j], base, last)
        BY <4>1, <4>2 DEF Meet
      <4> QED BY <2>3, <3>1, <4>3
    <3> QED BY <3>1 DEF RangeDisjoint, base, last
  <2>6. AllocationsInRange
    <3>1. ASSUME NEW i \in 1 .. Len(mappings), mappings[i].by # "kernel"
          PROVE  BytesOf(mappings[i]) \subseteq base .. last /\ mappings[i].start # 0
      <4>1. /\ base <= mappings[i].start /\ mappings[i].start + mappings[i].size - 1 <= last
            /\ mappings[i].start # 0
        BY <2>3, <3>1 DEF MappingFits
      <4>2. mappings[i].start \in Nat /\ mappings[i].size \in Nat
        BY <2>4, MappingFields
      <4>3. ASSUME NEW x, x \in BytesOf(mappings[i]) PROVE x \in base .. last
        <5>1. x \in Int /\ mappings[i].start <= x /\ x <= mappings[i].start + mappings[i].size - 1
          BY <2>4, <4>3 DEF Covers
        <5> QED BY <2>2, <4>1, <4>2, <5>1
      <4> QED BY <4>1, <4>3
    <3>2. \A i \in Chosen({"alloc", "trampoline"}) :
            i \in 1 .. Len(mappings) /\ mappings[i].by # "kernel"
      BY DEF Chosen
    <3> QED BY <3>1, <3>2 DEF AllocationsInRange, base, last
  <2>7. TrampolineClear
    <3>1. ASSUME NEW i \in 1 .. Len(mappings), mappings[i].by = "trampoline",
                 NEW x, x \in BytesOf(mappings[i]),
                 x \in LoaderArea.start .. (LoaderArea.start + LoaderArea.size - 1)
          PROVE  FALSE
      <4>1. x \in Int /\ Covers(mappings[i], x)
        BY <2>4, <3>1
      <4>2. LoaderArea.start \in Nat /\ LoaderArea.size \in Nat
        BY LoaderAssumption, AddrNat
      <4>3. Covers(LoaderArea, x)
        BY <3>1, <4>2 DEF Covers
      <4> QED BY <2>3, <3>1, <4>1, <4>3 DEF MappingFits
    <3>2. \A i \in Chosen({"trampoline"}) :
            i \in 1 .. Len(mappings) /\ mappings[i].by = "trampoline"
      BY DEF Chosen
    <3> QED BY <3>1, <3>2 DEF TrampolineClear
  <2> QED BY <1>1, <2>5, <2>6, <2>7 DEF LayoutSound
<1> QED BY <1>2, <1>3

-----------------------------------------------------------------------------
(***************************************************************************)
(* The checks of the load tag.                                             *)
(***************************************************************************)

(* A range from address 0.                                                 *)
LEMMA FromZero ==
  ASSUME NEW n \in Nat \ {0}, n < AddrMod, n % PAGE_SIZE = 0
  PROVE  Wrap(0 + n - 1) = n - 1 /\ RangeOK(0, n - 1)
<1>1. PAGE_SIZE \in Nat \ {0} /\ AddrMod \in Nat
  BY AddressSpaceAssumption
<1>2. n - 1 \in Nat /\ n - 1 < AddrMod /\ n - 1 + 1 = n /\ 0 + n - 1 = n - 1
  BY <1>1
<1>3. n - 1 \in Addr /\ 0 \in Addr
  BY <1>1, <1>2, AddrNat
<1>4. 0 % PAGE_SIZE = 0
  BY <1>1
<1> QED BY <1>2, <1>3, <1>4, WrapSmall DEF RangeOK

(* The halves, the limit of 32-bit mode and the address space are whole    *)
(* pages.                                                                  *)
LEMMA WholeHalves ==
  /\ HALF \in Nat \ {0} /\ HALF < AddrMod /\ HALF % PAGE_SIZE = 0
  /\ LIMIT \in Nat \ {0} /\ LIMIT < AddrMod /\ LIMIT % PAGE_SIZE = 0
  /\ RangeOK(0, AddrMod - 1) /\ Wrap(0 + 0 - 1) = AddrMod - 1
<1>1. /\ PAGE_SIZE \in Nat \ {0} /\ AddrMod \in Nat /\ AddrMod % PAGE_SIZE = 0 /\ AddrMod > PAGE_SIZE
      /\ HALF \in Nat \ {0} /\ LIMIT \in Nat \ {0} /\ SLOT \in Nat \ {0} /\ SLOT % PAGE_SIZE = 0
      /\ HALF % SLOT = 0 /\ LIMIT % SLOT = 0 /\ 2 * HALF <= AddrMod /\ LIMIT < AddrMod
  BY AddressSpaceAssumption, CanonicalAssumption, KBootAssumption
<1>2. HALF % PAGE_SIZE = 0 /\ LIMIT % PAGE_SIZE = 0
  <2>1. HALF \in Int /\ LIMIT \in Int
    BY <1>1
  <2>2. HALF % PAGE_SIZE = 0
    BY <1>1, <2>1, MultipleOfMultiple
  <2>3. LIMIT % PAGE_SIZE = 0
    BY <1>1, <2>1, MultipleOfMultiple
  <2> QED BY <2>2, <2>3
<1>3. HALF < AddrMod
  BY <1>1
<1>4. AddrMod - 1 \in Addr /\ 0 \in Addr /\ 0 <= AddrMod - 1 /\ AddrMod - 1 + 1 = AddrMod
  BY <1>1, AddrNat
<1>5. Wrap(0 + 0 - 1) = AddrMod - 1
  <2>1. (AddrMod - 1) - AddrMod = 0 + 0 - 1
    BY <1>1
  <2> QED BY <1>4, <2>1, WrapAbove
<1>6. 0 % PAGE_SIZE = 0
  BY <1>1
<1> QED BY <1>1, <1>2, <1>3, <1>4, <1>5, <1>6 DEF RangeOK

(* What ParamsValid and DefaultRange make of a load tag.                   *)
LEMMA LoadRangeFact ==
  ASSUME mode \in {"64", "32"}, NEW tag \in LoadTags[mode], ParamsValid(tag),
         NEW range, range = DefaultRange(tag),
         NEW last, last = Wrap(range.base + range.size - 1)
  PROVE  RangeOK(range.base, last) /\ OneHalf(range.base, last) /\ range.size \in Addr
<1>1. /\ tag.base \in Addr /\ tag.size \in Addr
      /\ ~tag.given => tag.base = 0 /\ tag.size = 0
  BY ImageAssumption
<1>2. range.base = tag.base
  BY DEF DefaultRange
<1>3. CASE tag.size # 0
  <2>1. tag.given
    BY <1>1, <1>3
  <2>2. /\ tag.base % PAGE_SIZE = 0 /\ tag.size % PAGE_SIZE = 0
        /\ Wrap(tag.base + tag.size - 1) >= tag.base
        /\ mode = "64" => is_canonical_range(tag.base, tag.size)
    BY <1>3, <2>1 DEF ParamsValid
  <2>3. range.size = tag.size
    BY <1>3, Zenon DEF DefaultRange
  <2>4. /\ last = tag.base + tag.size - 1 /\ tag.base <= last /\ last \in Addr
    BY <1>1, <1>2, <1>3, <2>2, <2>3, EndAbove
  <2>5. (last + 1) % PAGE_SIZE = 0
    <3>1. tag.base \in Int /\ tag.size \in Int
      <4>1. tag.base \in Nat /\ tag.size \in Nat
        BY <1>1, AddrNat, Zenon
      <4> QED BY <4>1
    <3>2. last + 1 = tag.base + tag.size
      BY <2>4, <3>1
    <3> QED BY <2>2, <3>1, <3>2, SumMultiple
  <2>6. OneHalf(tag.base, last)
    <3>1. ASSUME mode = "64" PROVE last < HALF \/ tag.base >= AddrMod - HALF
      <4>1. is_canonical_range(tag.base, tag.size) /\ last = Wrap(tag.base + tag.size - 1)
        BY <1>2, <2>2, <2>3, <3>1
      <4>2. /\ tag.base < HALF \/ tag.base >= AddrMod - HALF
            /\ tag.base < HALF <=> last < HALF
        BY <4>1 DEF is_canonical_range, is_canonical_addr
      <4> QED BY <4>2
    <3> QED BY <3>1 DEF OneHalf
  <2> QED BY <1>1, <1>2, <2>2, <2>3, <2>4, <2>5, <2>6 DEF RangeOK
<1>4. CASE tag.size = 0
  <2>1. tag.base = 0
    <3>1. CASE tag.given
      BY <1>4, <3>1 DEF ParamsValid
    <3>2. CASE ~tag.given
      BY <1>1, <3>2
    <3> QED BY <3>1, <3>2
  <2>2. CASE mode = "64"
    <3>1. range.size = HALF
      BY <1>4, <2>2, Zenon DEF DefaultRange
    <3>2. last = HALF - 1 /\ RangeOK(0, last)
      BY <1>2, <2>1, <3>1, WholeHalves, FromZero
    <3>3. HALF \in Addr /\ last < HALF
      BY <3>2, WholeHalves, AddrNat
    <3> QED BY <1>2, <2>1, <3>1, <3>2, <3>3 DEF OneHalf
  <2>3. CASE mode = "32" /\ tag.given
    <3>1. range.size = LIMIT
      BY <1>4, <2>3, Zenon DEF DefaultRange
    <3>2. last = LIMIT - 1 /\ RangeOK(0, last)
      BY <1>2, <2>1, <3>1, WholeHalves, FromZero
    <3>3. LIMIT \in Addr
      BY WholeHalves, AddrNat
    <3> QED BY <1>2, <2>1, <2>3, <3>1, <3>2, <3>3 DEF OneHalf
  <2>4. CASE mode = "32" /\ ~tag.given
    <3>1. range.size = 0
      BY <1>4, <2>4, Zenon DEF DefaultRange
    <3>2. RangeOK(0, last)
      BY <1>2, <2>1, <3>1, WholeHalves
    <3>3. 0 \in Addr
      BY <3>2 DEF RangeOK
    <3> QED BY <1>2, <2>1, <2>4, <3>1, <3>2, <3>3 DEF OneHalf
  <2> QED BY <2>2, <2>3, <2>4
<1> QED BY <1>3, <1>4

(* The allocator over a range, with the page at address 0 taken out.       *)
LEMMA FreshLayout ==
  ASSUME NEW base, NEW size \in Addr, NEW last, last = Wrap(base + size - 1), RangeOK(base, last),
         NEW u, u = InsertRegion(<<>>, base, size, MEMORY_TYPE_FREE, 0),
         NEW t, t = Block(u, base, last, 0, PAGE_SIZE)
  PROVE  Layout(t, <<>>, base, last)
<1>1. /\ base \in Addr /\ last \in Addr /\ base <= last
      /\ base % PAGE_SIZE = 0 /\ (last + 1) % PAGE_SIZE = 0
  BY DEF RangeOK
<1>2. /\ PAGE_SIZE \in Nat \ {0} /\ PAGE_SIZE \in Addr /\ 0 \in Addr /\ 0 + PAGE_SIZE <= AddrMod
      /\ 0 % PAGE_SIZE = 0 /\ (0 + PAGE_SIZE) % PAGE_SIZE = 0
  BY AddressSpaceAssumption, AddrNat
<1>3. Regions(u, base, last) /\ WholePages(u)
  BY <1>1, FreshFact
<1>4. /\ Regions(t, base, last) /\ Taken(u, t, base, last, 0, 0 + PAGE_SIZE - 1)
      /\ WholePages(t)
  BY <1>1, <1>2, <1>3, BlockFact
<1>5. ~Holds(t, 0, MEMORY_TYPE_FREE)
  <2>1. base \in Nat /\ last \in Nat
    BY <1>1, AddrNat
  <2>2. CASE base = 0
    <3>1. base <= 0 /\ 0 <= last /\ 0 <= 0 /\ 0 <= 0 + PAGE_SIZE - 1 /\ 0 \in Int
      BY <1>1, <1>2, <2>1, <2>2
    <3>2. \A ty : Holds(t, 0, ty) => ty = MEMORY_TYPE_ALLOCATED
      BY <1>4, <3>1 DEF Taken
    <3> QED BY <3>2, TypesDiffer
  <2>3. CASE base # 0
    <3>1. ~(base <= 0) /\ 0 \in Int
      BY <2>1, <2>3
    <3> QED BY <1>4, <3>1 DEF Regions
  <2> QED BY <2>2, <2>3
<1>6. RegionsFit(t, base, last)
  BY <1>4, <1>5 DEF RegionsFit
<1>7. <<>> \in Seq(Mapping) /\ 1 .. Len(<<>>) = {}
  OBVIOUS
<1> QED BY <1>6, <1>7 DEF Layout

-----------------------------------------------------------------------------
(***************************************************************************)
(* The steps of the load.                                                  *)
(***************************************************************************)
LEMMA KBootStarts == KBootInit => KBootInv
<1> SUFFICES ASSUME KBootInit PROVE KBootInv
  OBVIOUS
<1>1. mode \in {"64", "32"} /\ stage = "params" /\ mappings = <<>> /\ recursive = {}
  BY DEF KBootInit
<1>2. TodoOK
  BY <1>1 DEF TodoOK
<1>3. SlotApart
  BY <1>1, Zenon DEF SlotApart, RecursiveClear
<1> QED BY <1>1, <1>2, <1>3 DEF KBootInv

(* While there is no recursive slot, there is nothing to keep clear.       *)
LEMMA NoSlotYet ==
  ASSUME KBootInv, stage \in {"params", "kernel", "tags"}, recursive' = recursive
  PROVE  SlotApart'
<1>1. recursive' = {}
  BY DEF KBootInv, SlotApart
<1> QED BY <1>1, Zenon DEF SlotApart, RecursiveClear

(* boot_error(): the load stops where it is.                               *)
LEMMA FailStep ==
  ASSUME KBootInv, NEW what, Fail(what)
  PROVE  KBootInv'
<1>1. UNCHANGED <<mode, load, todo, regions, mappings, recursive, stage>>
  BY DEF Fail
<1> QED BY <1>1 DEF KBootInv, Laid, LoadEnd, OneHalf, TodoOK, SlotApart, RecursiveClear,
     SlotsOf, SlotOf, Slots

LEMMA CheckParamsStep ==
  ASSUME KBootInv, NEW tag \in LoadTags[mode], NEW kernel \in Kernels[mode],
         CheckParams(tag, kernel)
  PROVE  KBootInv'
<1>1. stage = "params" /\ mode \in {"64", "32"} /\ mappings = <<>>
  BY DEF CheckParams, KBootInv
<1>2. CASE ParamsValid(tag)
  <2> DEFINE range == DefaultRange(tag)
             last == Wrap(range.base + range.size - 1)
             u == InsertRegion(<<>>, range.base, range.size, MEMORY_TYPE_FREE, 0)
  <2>1. /\ load' = range /\ todo' = kernel /\ stage' = "kernel"
        /\ regions' = FreshRegions(load')
        /\ mode' = mode /\ mappings' = mappings /\ recursive' = recursive
    BY <1>2 DEF CheckParams
  <2>2. regions' = Block(u, range.base, last, 0, PAGE_SIZE)
    BY <2>1 DEF FreshRegions
  <2>3. load'.base = range.base /\ LoadEnd' = last
    BY <2>1 DEF LoadEnd
  <2>4. RangeOK(range.base, last) /\ OneHalf(range.base, last) /\ range.size \in Addr
    <3> HIDE DEF range
    <3> QED BY <1>1, <1>2, LoadRangeFact DEF range
  <2>5. Layout(regions', <<>>, range.base, last)
    <3> DEFINE b == range.base
               n == range.size
    <3> HIDE DEF range, b, n
    <3>1. /\ last = Wrap(b + n - 1) /\ n \in Addr /\ RangeOK(b, last)
          /\ u = InsertRegion(<<>>, b, n, MEMORY_TYPE_FREE, 0)
          /\ regions' = Block(u, b, last, 0, PAGE_SIZE)
      BY <2>2, <2>4 DEF b, n
    <3> HIDE DEF last, u
    <3>2. Layout(regions', <<>>, b, last)
      BY <3>1, FreshLayout
    <3> QED BY <3>2 DEF b
  <2>6. Laid'
    <3> HIDE DEF range, last
    <3>1. OneHalf(load.base, LoadEnd)'
      BY <2>1, <2>3, <2>4 DEF OneHalf
    <3> QED BY <1>1, <2>1, <2>3, <2>4, <2>5, <3>1 DEF Laid
  <2>7. kernel \in Seq(Segments)
    BY <1>1, ImageAssumption DEF Segments
  <2>8. TodoOK'
    BY <2>1, <2>7 DEF TodoOK
  <2>9. SlotApart'
    BY <1>1, <2>1, NoSlotYet
  <2> QED BY <1>1, <2>1, <2>6, <2>8, <2>9 DEF KBootInv
<1>3. CASE ~ParamsValid(tag)
  BY <1>3, FailStep DEF CheckParams
<1> QED BY <1>2, <1>3

(* A mapping at an address the kernel chose.                               *)
LEMMA MapVirtualStep ==
  ASSUME KBootInv, stage \in {"kernel", "tags"},
         NEW addr \in Addr, NEW size \in Addr, NEW phys \in Addr \cup {NO_PHYS},
         MapVirtual(addr, phys, size),
         UNCHANGED <<mode, stage, load, recursive>>, TodoOK'
  PROVE  KBootInv'
<1>1. /\ RangeOK(load.base, LoadEnd) /\ OneHalf(load.base, LoadEnd)
      /\ Layout(regions, mappings, load.base, LoadEnd)
      /\ mode \in {"64", "32"}
  BY DEF KBootInv, Laid
<1>2. load'.base = load.base /\ LoadEnd' = LoadEnd
  BY DEF LoadEnd
<1>3. Layout(regions', mappings', load.base, LoadEnd)
  <2> DEFINE base == load.base
             last == LoadEnd
  <2>1. /\ RangeOK(base, last) /\ Layout(regions, mappings, base, last)
        /\ regions' = Block(regions, base, last, addr, size)
        /\ CheckMapping(addr, phys, size) /\ ~Conflicts(regions, addr, size)
        /\ mappings' = AddMapping(mappings,
             [start |-> addr, size |-> size, phys |-> phys, by |-> "kernel"])
    BY <1>1 DEF MapVirtual
  <2> HIDE DEF base, last
  <2>2. Layout(regions', mappings', base, last)
    BY <2>1, MapVirtualFact
  <2> QED BY <2>2 DEF base, last
<1>4. Laid'
  BY <1>1, <1>2, <1>3 DEF Laid, OneHalf
<1>5. SlotApart'
  BY NoSlotYet
<1> QED BY <1>1, <1>4, <1>5 DEF KBootInv

LEMMA TailKept ==
  ASSUME NEW S, NEW s \in Seq(S), s # <<>>
  PROVE  s[1] \in S /\ Tail(s) \in Seq(S)
OBVIOUS

LEMMA LoadSegmentStep ==
  ASSUME KBootInv, LoadSegment
  PROVE  KBootInv'
<1>1. stage = "kernel" /\ todo # <<>> /\ todo \in Seq(Segments)
  BY DEF LoadSegment, KBootInv, TodoOK
<1>2. todo[1] \in Segments /\ Tail(todo) \in Seq(Segments)
  BY <1>1, TailKept
<1>3. todo[1].start \in Addr /\ todo[1].size \in Addr /\ 0 \in Addr
  BY <1>2, AddrNat, AddressSpaceAssumption DEF Segments
<1>4. CASE /\ MapVirtual(todo[1].start, 0, todo[1].size)
           /\ todo' = Tail(todo) /\ UNCHANGED <<mode, stage, load, recursive, status>>
  <2>1. TodoOK'
    BY <1>1, <1>2, <1>4 DEF TodoOK
  <2> QED BY <1>1, <1>3, <1>4, <2>1, MapVirtualStep
<1>5. CASE Fail("bad_segment")
  BY <1>5, FailStep
<1> QED BY <1>4, <1>5 DEF LoadSegment

LEMMA KernelLoadedStep ==
  ASSUME KBootInv, NEW tags \in MappingTags[mode], KernelLoaded(tags)
  PROVE  KBootInv'
<1>1. /\ stage = "kernel" /\ stage' = "tags" /\ todo' = tags
      /\ UNCHANGED <<mode, load, regions, mappings, recursive>>
  BY DEF KernelLoaded
<1>2. mode \in {"64", "32"} /\ Laid
  BY <1>1 DEF KBootInv
<1>3. tags \in Seq(Requests)
  BY <1>2, ImageAssumption DEF Requests
<1>4. Laid'
  BY <1>1, <1>2 DEF Laid, LoadEnd, OneHalf
<1>5. SlotApart'
  BY <1>1, NoSlotYet
<1> QED BY <1>1, <1>2, <1>3, <1>4, <1>5 DEF KBootInv, TodoOK

(* The address from the allocator, before it is known not to wrap.         *)
LEMMA AllocStart ==
  ASSUME NEW base, NEW last, RangeOK(base, last), NEW list, RegionsFit(list, base, last),
         NEW size, NEW i, i = FindRegion(list, size, PAGE_SIZE), i # 0,
         NEW start, start = round_up(list[i].start, PAGE_SIZE)
  PROVE  start \in Addr
<1>1. base \in Nat /\ last \in Nat /\ base <= last /\ base % PAGE_SIZE = 0
  BY AddrNat DEF RangeOK
<1>2. list \in Seq(MemoryRange)
  BY DEF RegionsFit, Regions
<1>3. i \in 1 .. Len(list)
  BY <1>2, FindRegionFact
<1>4. list[i].start % PAGE_SIZE = 0
  BY <1>1, <1>3, StartsOnPages
<1>5. start = list[i].start
  BY <1>4 DEF round_up
<1> QED BY <1>2, <1>3, <1>5, ListFields

(* What there is besides in a list with one more mapping.                  *)
AddedInRange(ms, u, base, last) ==
  \E m \in Mapping : \E k \in 1 .. Len(ms) + 1 :
    /\ Inserted(u, ms, k, m)
    /\ base <= m.start /\ m.start + m.size - 1 <= last

(* What the allocator is searched in: all that is mapped is allocated      *)
(* there, and for the trampoline the loader's own area is as well.         *)
Searched(list, by, base, last) ==
  /\ RegionsFit(list, base, last)
  /\ \A x \in Int : Holds(regions, x, MEMORY_TYPE_ALLOCATED) => Holds(list, x, MEMORY_TYPE_ALLOCATED)
  /\ by \in {"alloc", "trampoline"}
  /\ by = "trampoline" =>
       \A x \in Int : Covers(LoaderArea, x) /\ base <= x /\ x <= last
         => Holds(list, x, MEMORY_TYPE_ALLOCATED)

LEMMA AllocVirtualStep ==
  ASSUME Laid, MappingsEnd', NEW list, NEW by, Searched(list, by, load.base, LoadEnd),
         NEW size \in Addr, NEW phys \in Addr \cup {NO_PHYS},
         AllocVirtualIn(list, phys, size, by), UNCHANGED <<mode, load>>
  PROVE  Laid' /\ AddedInRange(mappings, mappings', load.base, LoadEnd)
<1> DEFINE base == load.base
           last == LoadEnd
           i == FindRegion(list, size, PAGE_SIZE)
           start == round_up(list[i].start, PAGE_SIZE)
           m == [start |-> start, size |-> size, phys |-> phys, by |-> by]
<1>1. /\ RangeOK(base, last) /\ OneHalf(base, last)
      /\ Layout(regions, mappings, base, last)
  BY DEF Laid
<1>2. load'.base = base /\ LoadEnd' = last
  BY DEF LoadEnd
<1>3. /\ CheckPages(phys, size) /\ i # 0
      /\ regions' = InsertRegion(list, start, size, MEMORY_TYPE_ALLOCATED, i)
      /\ mappings' = AddMapping(mappings, m)
  BY DEF AllocVirtualIn
<1>4. /\ RegionsFit(list, base, last) /\ by \in {"alloc", "trampoline"}
      /\ \A x \in Int : Holds(regions, x, MEMORY_TYPE_ALLOCATED) => Holds(list, x, MEMORY_TYPE_ALLOCATED)
      /\ by = "trampoline" =>
           \A x \in Int : Covers(LoaderArea, x) /\ base <= x /\ x <= last
             => Holds(list, x, MEMORY_TYPE_ALLOCATED)
  BY DEF Searched
<1> HIDE DEF base, last
<1>5. start \in Addr
  <2> HIDE DEF i
  <2>1. i = FindRegion(list, size, PAGE_SIZE)
    BY DEF i
  <2> QED BY <1>1, <1>3, <1>4, <2>1, AllocStart
<1> HIDE DEF i, start
<1>6. m \in Mapping /\ m.start = start /\ m.size = size
  BY <1>4, <1>5 DEF Mapping
<1> HIDE DEF m
<1>7. mappings \in Seq(Mapping)
  BY <1>1 DEF Layout
<1>8. \E k \in 1 .. Len(mappings) + 1 : Inserted(mappings', mappings, k, m)
  BY <1>3, <1>6, <1>7, AddMappingFact
<1>9. PICK k \in 1 .. Len(mappings) + 1 : Inserted(mappings', mappings, k, m)
  BY <1>8
<1>10. start + size <= AddrMod
  <2>1. Len(mappings') = Len(mappings) + 1 /\ mappings'[k] = m
    BY <1>9 DEF Inserted
  <2>2. k \in 1 .. Len(mappings')
    BY <2>1
  <2>3. mappings'[k].start + mappings'[k].size <= AddrMod
    BY <2>2 DEF MappingsEnd
  <2> QED BY <1>6, <2>1, <2>3
<1>11. /\ i = FindRegion(list, size, PAGE_SIZE) /\ start = round_up(list[i].start, PAGE_SIZE)
       /\ m = [start |-> start, size |-> size, phys |-> phys, by |-> by]
  BY DEF i, start, m
<1>12. /\ Layout(regions', mappings', base, last)
       /\ base <= start /\ start + size - 1 <= last
  BY <1>1, <1>3, <1>4, <1>10, <1>11, AllocVirtualFact
<1>13. Laid'
  BY <1>1, <1>2, <1>12 DEF Laid, OneHalf, base, last
<1>14. AddedInRange(mappings, mappings', base, last)
  BY <1>6, <1>9, <1>12 DEF AddedInRange
<1> QED BY <1>13, <1>14 DEF base, last

(* The allocator itself is searched for all but the trampoline.            *)
LEMMA SearchRegions ==
  ASSUME Laid
  PROVE  Searched(regions, "alloc", load.base, LoadEnd)
BY DEF Laid, Layout, Searched

LEMMA MapTagStep ==
  ASSUME KBootInv, MappingsEnd', MapTag
  PROVE  KBootInv'
<1> DEFINE tag == todo[1]
<1>1. stage = "tags" /\ todo # <<>> /\ todo \in Seq(Requests)
  BY DEF MapTag, KBootInv, TodoOK
<1>2. tag \in Requests /\ Tail(todo) \in Seq(Requests)
  BY <1>1, TailKept
<1>3. tag.virt \in Addr \cup {ANY} /\ tag.size \in Addr /\ tag.phys \in Addr \cup {NO_PHYS}
  BY <1>2 DEF Requests
<1>4. Laid /\ mode \in {"64", "32"}
  BY <1>1 DEF KBootInv
<1>5. ASSUME todo' = Tail(todo), UNCHANGED <<mode, stage, load, recursive, status>> PROVE TodoOK'
  BY <1>1, <1>2, <1>5 DEF TodoOK
<1>6. CASE /\ tag.virt = ANY /\ AllocVirtualIn(regions, tag.phys, tag.size, "alloc")
           /\ todo' = Tail(todo) /\ UNCHANGED <<mode, stage, load, recursive, status>>
  <2>1. Laid'
    BY <1>3, <1>4, <1>6, SearchRegions, AllocVirtualStep
  <2>2. SlotApart'
    BY <1>1, <1>6, NoSlotYet
  <2> QED BY <1>1, <1>4, <1>5, <1>6, <2>1, <2>2 DEF KBootInv
<1>7. CASE /\ tag.virt # ANY /\ MapVirtual(tag.virt, tag.phys, tag.size)
           /\ todo' = Tail(todo) /\ UNCHANGED <<mode, stage, load, recursive, status>>
  <2>1. tag.virt \in Addr
    BY <1>3, <1>7
  <2> HIDE DEF tag
  <2> QED BY <1>1, <1>3, <1>5, <1>7, <2>1, MapVirtualStep
<1>8. CASE Fail("bad_mapping")
  BY <1>8, FailStep
<1> QED BY <1>6, <1>7, <1>8 DEF MapTag

(* There is a highest spare slot, so that it is the one chosen.            *)
LEMMA HighestSlot ==
  ASSUME mode \in {"64", "32"}, SpareSlots # {},
         NEW c, c = CHOOSE s \in SpareSlots : \A t \in SpareSlots : t <= s
  PROVE  c \in SpareSlots
<1> DEFINE n == (IF mode = "64" THEN 2 * HALF ELSE LIMIT) \div SLOT
           T == {n - s : s \in SpareSlots}
<1>1. n \in Nat
  BY KBootAssumption, CanonicalAssumption, DivMod
<1>2. SpareSlots \subseteq 0 .. n - 1
  BY DEF SpareSlots, Slots
<1> HIDE DEF n
<1>3. T \subseteq Nat /\ T # {}
  <2>1. ASSUME NEW s \in SpareSlots PROVE n - s \in Nat
    BY <1>1, <1>2
  <2>2. \E s : s \in SpareSlots
    OBVIOUS
  <2> QED BY <2>1, <2>2
<1>4. Min(T) \in T /\ \A y \in T : Min(T) <= y
  <2> HIDE DEF T
  <2> QED BY <1>3, MinElement
<1>5. PICK s \in SpareSlots : Min(T) = n - s
  BY <1>4
<1>6. \A t \in SpareSlots : t <= s
  <2>1. ASSUME NEW t \in SpareSlots PROVE t <= s
    <3>1. n - t \in T
      OBVIOUS
    <3>2. n - s <= n - t
      BY <1>4, <1>5, <3>1
    <3>3. s \in Int /\ t \in Int
      BY <1>2
    <3> QED BY <1>1, <3>2, <3>3
  <2> QED BY <2>1
<1> QED BY <1>6

LEMMA ArchSetupStep ==
  ASSUME KBootInv, ArchSetup
  PROVE  KBootInv'
<1>1. CASE SpareSlots = {}
  BY <1>1, FailStep DEF ArchSetup
<1>2. CASE SpareSlots # {}
  <2> DEFINE c == CHOOSE s \in SpareSlots : \A t \in SpareSlots : t <= s
  <2>1. /\ stage = "tags" /\ stage' = "taglist" /\ recursive' = {c}
        /\ UNCHANGED <<mode, load, todo, regions, mappings>>
    BY <1>2 DEF ArchSetup
  <2>2. mode \in {"64", "32"} /\ Laid
    BY <2>1 DEF KBootInv
  <2>3. c \in SpareSlots
    BY <1>2, <2>2, HighestSlot
  <2> HIDE DEF c
  <2>4. /\ c \notin SlotOf(load.base) .. SlotOf(LoadEnd)
        /\ c \notin PresentSlots
    BY <2>3 DEF SpareSlots
  <2>5. \A i \in 1 .. Len(mappings) : mappings[i].phys # NO_PHYS => c \notin SlotsOf(mappings[i])
    BY <2>4 DEF PresentSlots
  <2>6. (\A s \in recursive : s \notin SlotOf(load.base) .. SlotOf(LoadEnd))'
    BY <2>1, <2>4 DEF SlotOf, Slots, LoadEnd
  <2>7. RecursiveClear'
    BY <2>1, <2>5 DEF RecursiveClear, SlotsOf, SlotOf, Slots
  <2>8. SlotApart'
    BY <2>1, <2>6, <2>7 DEF SlotApart
  <2>9. Laid'
    BY <2>1, <2>2 DEF Laid, LoadEnd, OneHalf
  <2> QED BY <2>1, <2>2, <2>8, <2>9 DEF KBootInv, TodoOK
<1> QED BY <1>1, <1>2

(* A mapping in the virtual map range stays out of the recursive slot.     *)
LEMMA SlotKept ==
  ASSUME mode \in {"64", "32"}, Laid, SlotApart,
         AddedInRange(mappings, mappings', load.base, LoadEnd),
         UNCHANGED <<mode, load, recursive>>, stage' \notin {"params", "kernel", "tags"}
  PROVE  SlotApart'
<1> DEFINE base == load.base
           last == LoadEnd
<1>1. /\ base \in Addr /\ last \in Addr /\ OneHalf(base, last)
      /\ mappings \in Seq(Mapping)
  BY DEF Laid, RangeOK, Layout
<1>2. \A s \in recursive : s \notin SlotOf(base) .. SlotOf(last)
  BY DEF SlotApart
<1>3. PICK m \in Mapping, k \in 1 .. Len(mappings) + 1 :
        /\ Inserted(mappings', mappings, k, m)
        /\ base <= m.start /\ m.start + m.size - 1 <= last
  BY Zenon DEF AddedInRange
<1> HIDE DEF base, last
<1>4. m.start \in Nat /\ m.size \in Nat /\ base \in Nat /\ last \in Nat
  BY <1>1, MappingFields, AddrNat
<1>5. ASSUME NEW s \in recursive PROVE s \notin SlotsOf(m)
  <2>1. ASSUME NEW j \in 0 .. m.size - 1 PROVE SlotOf(m.start + j) \in SlotOf(base) .. SlotOf(last)
    <3> DEFINE x == m.start + j
    <3>1. x \in Int /\ base <= x /\ x <= last
      BY <1>3, <1>4
    <3> HIDE DEF x
    <3>2. /\ SlotOf(base) \in Int /\ SlotOf(x) \in Int /\ SlotOf(last) \in Int
          /\ SlotOf(base) <= SlotOf(x) /\ SlotOf(x) <= SlotOf(last)
      BY <1>1, <3>1, SlotOrder
    <3>3. SlotOf(x) \in SlotOf(base) .. SlotOf(last)
      BY <3>2
    <3> QED BY <3>3 DEF x
  <2>2. SlotsOf(m) \subseteq SlotOf(base) .. SlotOf(last)
    BY <2>1 DEF SlotsOf
  <2> QED BY <1>2, <2>2
<1>6. ASSUME NEW s \in recursive, NEW i \in 1 .. Len(mappings'), mappings'[i].phys # NO_PHYS
      PROVE  s \notin SlotsOf(mappings'[i])
  <2>1. \/ mappings'[i] = m
        \/ \E a \in 1 .. Len(mappings) : mappings'[i] = mappings[a]
    BY <1>1, <1>3 DEF Inserted
  <2>2. CASE mappings'[i] = m
    BY <1>5, <2>2
  <2>3. ASSUME NEW a \in 1 .. Len(mappings), mappings'[i] = mappings[a]
        PROVE  s \notin SlotsOf(mappings'[i])
    BY <1>6, <2>3 DEF SlotApart, RecursiveClear
  <2> QED BY <2>1, <2>2, <2>3
<1>7. RecursiveClear'
  BY <1>6 DEF RecursiveClear, SlotsOf, SlotOf, Slots
<1>8. (\A s \in recursive : s \notin SlotOf(load.base) .. SlotOf(LoadEnd))'
  BY <1>2 DEF SlotOf, Slots, LoadEnd, base, last
<1> QED BY <1>7, <1>8 DEF SlotApart

LEMMA AllocStageStep ==
  ASSUME KBootInv, MappingsEnd', NEW at, NEW next, {at, next} \cap {"params", "kernel", "tags"} = {},
         NEW list, NEW by, Laid => Searched(list, by, load.base, LoadEnd),
         NEW size \in Addr, AllocStage(at, list, size, by, next)
  PROVE  KBootInv'
<1>1. CASE Fail("no_space")
  BY <1>1, FailStep
<1>2. CASE /\ AllocVirtualIn(list, 0, size, by) /\ stage' = next
           /\ UNCHANGED <<mode, load, todo, recursive, status>>
  <2>1. stage = at /\ stage \notin {"params", "kernel", "tags"}
    BY DEF AllocStage
  <2>2. mode \in {"64", "32"} /\ Laid /\ SlotApart
    BY <2>1 DEF KBootInv
  <2>3. 0 \in Addr
    BY AddressSpaceAssumption, AddrNat
  <2>4. Laid' /\ AddedInRange(mappings, mappings', load.base, LoadEnd)
    BY <1>2, <2>2, <2>3, AllocVirtualStep
  <2>5. stage' \notin {"params", "kernel", "tags"}
    BY <1>2
  <2>6. SlotApart'
    BY <1>2, <2>2, <2>4, <2>5, SlotKept
  <2> QED BY <1>2, <2>2, <2>4, <2>5, <2>6 DEF KBootInv, TodoOK
<1> QED BY <1>1, <1>2 DEF AllocStage

(* setup_trampoline() searches with the loader's own area taken out.       *)
LEMMA SearchAvoids ==
  ASSUME Laid
  PROVE  Searched(AvoidLoader, "trampoline", load.base, LoadEnd)
<1> DEFINE base == load.base
           last == LoadEnd
           addr == LoaderArea.start
           size == LoaderArea.size
<1>1. /\ RangeOK(base, last) /\ RegionsFit(regions, base, last)
      /\ AvoidLoader = Block(regions, base, last, addr, size)
  BY DEF Laid, Layout, AvoidLoader
<1>2. /\ addr \in Addr /\ size \in Addr /\ size # 0 /\ addr + size <= AddrMod
      /\ addr % PAGE_SIZE = 0 /\ size % PAGE_SIZE = 0
  BY LoaderAssumption
<1>3. \A x : Covers(LoaderArea, x) <=> addr <= x /\ x <= addr + size - 1
  BY DEF Covers
<1> HIDE DEF base, last, addr, size
<1>4. /\ RegionsFit(AvoidLoader, base, last)
      /\ Taken(regions, AvoidLoader, base, last, addr, addr + size - 1)
      /\ \A x \in Int :
           Holds(regions, x, MEMORY_TYPE_ALLOCATED) => Holds(AvoidLoader, x, MEMORY_TYPE_ALLOCATED)
  BY <1>1, <1>2, BlockFits
<1>5. \A x \in Int : Covers(LoaderArea, x) /\ base <= x /\ x <= last
        => Holds(AvoidLoader, x, MEMORY_TYPE_ALLOCATED)
  BY <1>3, <1>4 DEF Taken
<1> QED BY <1>4, <1>5 DEF Searched, base, last

LEMMA WithoutStep ==
  ASSUME KBootInv, NEW at, NEW next, {at, next} \cap {"params", "kernel", "tags"} = {},
         Without(at, next)
  PROVE  KBootInv'
<1>1. /\ stage = at /\ stage' = next /\ UNCHANGED <<mode, load, regions, mappings, recursive>>
      /\ stage \notin {"params", "kernel", "tags"} /\ stage' \notin {"params", "kernel", "tags"}
  BY DEF Without
<1>2. Laid'
  BY <1>1 DEF KBootInv, Laid, LoadEnd, OneHalf
<1>3. SlotApart'
  BY <1>1 DEF KBootInv, SlotApart, RecursiveClear, SlotsOf, SlotOf, Slots, LoadEnd
<1> QED BY <1>1, <1>2, <1>3 DEF KBootInv, TodoOK

LEMMA KBootSteps ==
  ASSUME KBootInv, MappingsEnd', [KBootNext]_kbootVars
  PROVE  KBootInv'
<1> DEFINE Early == {"params", "kernel", "tags"}
<1>0. TAGS_SIZE \in Addr /\ PAGE_SIZE \in Addr /\ FbSizes \subseteq Addr /\ FdtSizes \subseteq Addr
  BY LoaderAssumption, AddressSpaceAssumption, AddrNat
<1>1. CASE UNCHANGED kbootVars
  BY <1>1 DEF kbootVars, KBootInv, Laid, LoadEnd, OneHalf, TodoOK, SlotApart, RecursiveClear,
     SlotsOf, SlotOf, Slots
<1>2. ASSUME NEW tag \in LoadTags[mode], NEW kernel \in Kernels[mode], CheckParams(tag, kernel)
      PROVE  KBootInv'
  BY <1>2, CheckParamsStep
<1>3. CASE LoadSegment
  BY <1>3, LoadSegmentStep
<1>4. ASSUME NEW tags \in MappingTags[mode], KernelLoaded(tags) PROVE KBootInv'
  BY <1>4, KernelLoadedStep
<1>5. CASE MapTag
  BY <1>5, MapTagStep
<1>6. CASE ArchSetup
  BY <1>6, ArchSetupStep
<1>7. CASE MapTagList
  <2>1. {"taglist", "stack"} \cap Early = {}
    OBVIOUS
  <2> QED BY <1>0, <1>7, <2>1, SearchRegions, AllocStageStep DEF MapTagList
<1>8. CASE MapStack
  <2>1. {"stack", "trampoline"} \cap Early = {}
    OBVIOUS
  <2> QED BY <1>0, <1>8, <2>1, SearchRegions, AllocStageStep DEF MapStack
<1>9. CASE SetupTrampoline
  <2>1. {"trampoline", "video"} \cap Early = {}
    OBVIOUS
  <2> QED BY <1>0, <1>9, <2>1, SearchAvoids, AllocStageStep DEF SetupTrampoline
<1>10. ASSUME NEW size \in FbSizes, SetVideoMode(size) PROVE KBootInv'
  <2>1. {"video", "serial"} \cap Early = {}
    OBVIOUS
  <2> QED BY <1>0, <1>10, <2>1, SearchRegions, AllocStageStep DEF SetVideoMode
<1>11. CASE NoVideoMode
  <2>1. {"video", "serial"} \cap Early = {}
    OBVIOUS
  <2> QED BY <1>11, <2>1, WithoutStep DEF NoVideoMode
<1>12. CASE AddSerialTag
  <2>1. {"serial", "fdt"} \cap Early = {}
    OBVIOUS
  <2> QED BY <1>0, <1>12, <2>1, SearchRegions, AllocStageStep DEF AddSerialTag
<1>13. CASE NoSerialPort
  <2>1. {"serial", "fdt"} \cap Early = {}
    OBVIOUS
  <2> QED BY <1>13, <2>1, WithoutStep DEF NoSerialPort
<1>14. ASSUME NEW size \in FdtSizes, AddFdtTag(size) PROVE KBootInv'
  <2>1. {"fdt", "done"} \cap Early = {}
    OBVIOUS
  <2> QED BY <1>0, <1>14, <2>1, SearchRegions, AllocStageStep DEF AddFdtTag
<1>15. CASE NoFdt
  <2>1. {"fdt", "done"} \cap Early = {}
    OBVIOUS
  <2> QED BY <1>15, <2>1, WithoutStep DEF NoFdt
<1> QED BY <1>1, <1>2, <1>3, <1>4, <1>5, <1>6, <1>7, <1>8, <1>9, <1>10, <1>11, <1>12, <1>13,
     <1>14, <1>15 DEF KBootNext

(* However the kernel image asks for its mappings, the address space       *)
(* kboot_loader_load() lays out is sound at every step: mappings are       *)
(* disjoint in the virtual map range, what the loader places lies in the   *)
(* range and not at address 0, the trampoline stays clear of the loader,   *)
(* and no mapping reaches into the recursive slot.                         *)
THEOREM KBootLayoutSound == KBootSpec /\ []MappingsEnd => []LayoutSound
<1>1. KBootInv /\ MappingsEnd' /\ [KBootNext]_kbootVars => KBootInv'
  BY KBootSteps
<1> QED BY <1>1, KBootStarts, LayoutFollows, PTL DEF KBootSpec

-----------------------------------------------------------------------------
(***************************************************************************)
(* Page tables.  An address is cut to the index of its entries, and what   *)
(* follows is said of such cut addresses.                                  *)
(***************************************************************************)
Contexts == {"64", "32", "arm64"}

(* The last multiple of d up to x.                                         *)
Floor(d, x) == d * (x \div d)

LEMMA FloorFact ==
  ASSUME NEW d \in Nat \ {0}, NEW x \in Nat
  PROVE  /\ Floor(d, x) \in Nat /\ Floor(d, x) <= x /\ x < Floor(d, x) + d
         /\ x % d = x - Floor(d, x) /\ Floor(d, x) % d = 0
         /\ x \div d \in Nat /\ Floor(d, x) \div d = x \div d
<1> DEFINE q == x \div d
           w == x % d
<1>1. q \in Nat /\ w \in Nat /\ w < d /\ x = d * q + w /\ d * q \in Nat
  BY DivMod
<1>2. (d * q) % d = 0 /\ q \in Int
  BY <1>1, Multiple
<1>3. (d * q) \div d = q
  <2> HIDE DEF q
  <2> QED BY <1>1
<1> HIDE DEF q, w
<1>4. d * q <= x /\ x < d * q + d /\ w = x - d * q
  BY <1>1
<1> QED BY <1>1, <1>2, <1>3, <1>4 DEF Floor, q, w

LEMMA FloorIs ==
  ASSUME NEW d \in Nat \ {0}, NEW x \in Nat, NEW y \in Nat, y % d = 0, y <= x, x < y + d
  PROVE  Floor(d, x) = y /\ x \div d = y \div d /\ x % d = x - y
<1>1. y = d * (y \div d) /\ y \div d \in Nat
  BY Multiple, DivMod
<1> DEFINE k == y \div d
<1> HIDE DEF k
<1>2. k \in Nat /\ y = d * k /\ d * (k + 1) = d * k + d /\ k + 1 \in Nat
  BY <1>1 DEF k
<1>3. d * k <= x /\ x < d * (k + 1)
  BY <1>2
<1>4. k <= x \div d /\ x \div d < k + 1 /\ x \div d \in Nat
  BY <1>2, <1>3, QuotientBounds
<1>5. x \div d = k
  BY <1>2, <1>4
<1>6. Floor(d, x) = y
  BY <1>2, <1>5 DEF Floor
<1> QED BY <1>5, <1>6, FloorFact DEF k

(* The part after the last multiple of a larger page is cut the same way.  *)
LEMMA FloorOfFloor ==
  ASSUME NEW a \in Nat \ {0}, NEW b \in Nat \ {0}, NEW x \in Nat, b % a = 0
  PROVE  /\ Floor(b, x) <= Floor(a, x) /\ Floor(a, x) + a <= Floor(b, x) + b
         /\ Floor(b, x) % a = 0
<1>1. /\ Floor(a, x) \in Nat /\ Floor(a, x) <= x /\ x < Floor(a, x) + a /\ Floor(a, x) % a = 0
  BY FloorFact
<1>2. /\ Floor(b, x) \in Nat /\ Floor(b, x) <= x /\ x < Floor(b, x) + b /\ Floor(b, x) % b = 0
  BY FloorFact
<1>3. Floor(b, x) % a = 0
  BY <1>2, MultipleOfMultiple
<1>4. Floor(b, x) + b \in Nat /\ (Floor(b, x) + b) % a = 0
  <2>1. (Floor(b, x) + b) % a = 0
    BY <1>2, <1>3, MultipleSum
  <2> QED BY <1>2, <2>1
<1>5. Floor(b, x) <= Floor(a, x)
  <2>1. CASE Floor(a, x) < Floor(b, x)
    <3>1. Floor(a, x) + a <= Floor(b, x)
      BY <1>1, <1>2, <1>3, <2>1, MultipleGap
    <3> QED BY <1>1, <1>2, <3>1
  <2> QED BY <1>1, <1>2, <2>1
<1>6. Floor(a, x) + a <= Floor(b, x) + b
  <2>1. Floor(a, x) < Floor(b, x) + b
    BY <1>1, <1>2
  <2> QED BY <1>1, <1>4, <2>1, MultipleGap
<1> QED BY <1>3, <1>5, <1>6

-----------------------------------------------------------------------------
Gap == AddrMod - 2 * HALF

LEMMA TableSizes ==
  /\ PAGE_SIZE \in Nat \ {0} /\ LARGE_PAGE_SIZE \in Nat \ {0} /\ PDIR_RANGE \in Nat \ {0}
  /\ HALF \in Nat \ {0} /\ LIMIT \in Nat \ {0} /\ AddrMod \in Nat /\ Gap \in Nat /\ LIMIT <= AddrMod
  /\ LARGE_PAGE_SIZE % PAGE_SIZE = 0 /\ PDIR_RANGE % LARGE_PAGE_SIZE = 0 /\ PDIR_RANGE % PAGE_SIZE = 0
  /\ \A d \in {PAGE_SIZE, LARGE_PAGE_SIZE, PDIR_RANGE} :
       HALF % d = 0 /\ (2 * HALF) % d = 0 /\ Gap % d = 0
  /\ \A d \in {PAGE_SIZE, LARGE_PAGE_SIZE} : LIMIT % d = 0
  /\ Gap % (2 * HALF) = 0 /\ (AddrMod - HALF) % HALF = 0
<1>1. /\ PAGE_SIZE \in Nat \ {0} /\ LARGE_PAGE_SIZE \in Nat \ {0} /\ PDIR_RANGE \in Nat \ {0}
      /\ HALF \in Nat \ {0} /\ LIMIT \in Nat \ {0} /\ AddrMod \in Nat /\ Gap \in Nat /\ LIMIT <= AddrMod
      /\ LARGE_PAGE_SIZE % PAGE_SIZE = 0 /\ PDIR_RANGE % LARGE_PAGE_SIZE = 0
      /\ HALF % PDIR_RANGE = 0 /\ LIMIT % LARGE_PAGE_SIZE = 0 /\ AddrMod % (2 * HALF) = 0
  BY AddressSpaceAssumption, CanonicalAssumption, MmuAssumption DEF Gap
<1>0. PDIR_RANGE \in Int /\ HALF \in Int /\ LIMIT \in Int /\ AddrMod \in Int
  BY <1>1
<1>2. PDIR_RANGE % PAGE_SIZE = 0
  BY <1>0, <1>1, MultipleOfMultiple, Zenon
<1>3. HALF % LARGE_PAGE_SIZE = 0
  BY <1>0, <1>1, MultipleOfMultiple, Zenon
<1>4. HALF % PAGE_SIZE = 0
  BY <1>0, <1>1, <1>3, MultipleOfMultiple, Zenon
<1>5. LIMIT % PAGE_SIZE = 0
  BY <1>0, <1>1, MultipleOfMultiple, Zenon
<1>6. Gap % (2 * HALF) = 0
  <2> DEFINE h == 2 * HALF
  <2>1. h \in Nat \ {0} /\ h \in Int /\ AddrMod \in Int /\ AddrMod % h = 0
    BY <1>1
  <2>2. h % h = 0
    <3> HIDE DEF h
    <3>1. (h * 1) % h = 0
      BY <2>1, Multiple
    <3> QED BY <2>1, <3>1
  <2> HIDE DEF h
  <2>3. (AddrMod - h) % h = 0
    BY <2>1, <2>2, MultipleSum
  <2> QED BY <2>3 DEF h, Gap
<1>7. (2 * HALF) % HALF = 0 /\ 2 * HALF \in Nat \ {0}
  <2>1. (HALF * 2) % HALF = 0
    BY <1>1, Multiple
  <2> QED BY <1>1, <2>1
<1>8. AddrMod % HALF = 0 /\ (AddrMod - HALF) % HALF = 0
  <2>1. AddrMod % HALF = 0
    BY <1>0, <1>1, <1>7, MultipleOfMultiple, Zenon
  <2>2. (HALF * 1) % HALF = 0
    BY <1>1, Multiple
  <2>3. HALF % HALF = 0 /\ HALF \in Int /\ AddrMod \in Int
    BY <1>1, <2>2
  <2> QED BY <1>1, <2>1, <2>3, MultipleSum
<1>9. ASSUME NEW d \in Nat \ {0}, HALF % d = 0
      PROVE  (2 * HALF) % d = 0 /\ Gap % d = 0
  <2>1. (HALF + HALF) % d = 0
    BY <1>0, <1>9, MultipleSum, Zenon
  <2>2. (2 * HALF) % d = 0
    BY <1>1, <2>1
  <2>3. Gap \in Int
    BY <1>1
  <2> QED BY <1>6, <1>7, <2>2, <2>3, MultipleOfMultiple
<1>10. /\ (2 * HALF) % PAGE_SIZE = 0 /\ Gap % PAGE_SIZE = 0
       /\ (2 * HALF) % LARGE_PAGE_SIZE = 0 /\ Gap % LARGE_PAGE_SIZE = 0
       /\ (2 * HALF) % PDIR_RANGE = 0 /\ Gap % PDIR_RANGE = 0
  BY <1>1, <1>3, <1>4, <1>9
<1> QED BY <1>1, <1>2, <1>3, <1>4, <1>5, <1>6, <1>8, <1>10

(* An address that can be mapped, and whether it is in the lower half.     *)
Reach(a) == a \in Addresses /\ (context # "32" => is_canonical_addr(a))
Low(a) == context = "32" \/ a < HALF

LEMMA IndexForm ==
  ASSUME context \in Contexts, NEW a, Reach(a)
  PROVE  /\ a \in Nat /\ a < AddrMod /\ (context = "32" => a < LIMIT)
         /\ Index(a) = IF Low(a) THEN a ELSE a - Gap
         /\ ~Low(a) => a >= HALF + Gap
         /\ Index(a) \in Nat /\ Index(a) < IndexMod
<1>1. /\ HALF \in Nat \ {0} /\ LIMIT \in Nat \ {0} /\ AddrMod \in Nat /\ Gap \in Nat /\ LIMIT <= AddrMod
      /\ AddrMod = Gap + 2 * HALF
  BY TableSizes DEF Gap
<1>2. a \in Nat /\ a < AddrMod /\ (context = "32" => a < LIMIT)
  BY <1>1 DEF Reach, Addresses
<1>3. CASE context = "32"
  <2>1. a % LIMIT = a
    BY <1>1, <1>2, <1>3
  <2> QED BY <1>2, <1>3, <2>1 DEF Index, IndexMod, Low
<1>4. ASSUME context # "32" PROVE a < HALF \/ a >= HALF + Gap
  BY <1>1, <1>2, <1>4 DEF Reach, is_canonical_addr
<1>5. CASE context = "64"
  <2>1. IndexMod = 2 * HALF /\ Index(a) = a % (2 * HALF)
    BY <1>5 DEF Index, IndexMod
  <2>2. CASE a < HALF
    <3>1. a % (2 * HALF) = a
      BY <1>1, <1>2, <2>2
    <3> QED BY <1>1, <1>2, <1>5, <2>1, <2>2, <3>1 DEF Low
  <2>3. CASE ~(a < HALF)
    <3>1. a >= HALF + Gap /\ a < Gap + 2 * HALF /\ Gap <= a
      BY <1>1, <1>2, <1>4, <1>5, <2>3
    <3>2. 2 * HALF \in Nat \ {0} /\ Gap % (2 * HALF) = 0
      BY <1>1, TableSizes
    <3>3. a % (2 * HALF) = a - Gap
      BY <1>1, <1>2, <3>1, <3>2, FloorIs
    <3> QED BY <1>1, <1>2, <1>5, <2>1, <2>3, <3>1, <3>3 DEF Low
  <2> QED BY <2>2, <2>3
<1>6. CASE context = "arm64"
  <2>1. /\ IndexMod = 2 * HALF
        /\ Index(a) = (IF a >= AddrMod \div 2 THEN HALF ELSE 0) + (a % HALF)
    BY <1>6 DEF Index, IndexMod
  <2>2. HALF <= AddrMod \div 2 /\ AddrMod \div 2 <= HALF + Gap
    BY <1>1
  <2>3. CASE a < HALF
    <3>1. a % HALF = a /\ ~(a >= AddrMod \div 2)
      BY <1>1, <1>2, <2>2, <2>3
    <3> QED BY <1>1, <1>2, <1>6, <2>1, <2>3, <3>1 DEF Low
  <2>4. CASE ~(a < HALF)
    <3> DEFINE y == AddrMod - HALF
    <3>1. y \in Nat /\ y = Gap + HALF /\ y % HALF = 0 /\ a >= y /\ a < y + HALF
      BY <1>1, <1>2, <1>4, <1>6, <2>4, TableSizes
    <3>2. a % HALF = a - y
      <4> HIDE DEF y
      <4> QED BY <1>1, <1>2, <3>1, FloorIs
    <3>3. a >= AddrMod \div 2
      BY <1>1, <1>2, <2>2, <3>1
    <3> QED BY <1>1, <1>2, <1>6, <2>1, <2>4, <3>1, <3>2, <3>3 DEF Low
  <2> QED BY <2>3, <2>4
<1> QED BY <1>3, <1>5, <1>6 DEF Contexts

(* A mapping of whole pages in one half of the address space.              *)
At(r) == Index(r.virt)

GoodMap(r) ==
  /\ r.virt \in Nat /\ r.phys \in Nat /\ r.size \in Nat \ {0}
  /\ r.virt % PAGE_SIZE = 0 /\ r.size % PAGE_SIZE = 0
  /\ \A o \in 0 .. r.size - 1 : Reach(r.virt + o) /\ Index(r.virt + o) = At(r) + o

LEMMA GoodMapFields ==
  ASSUME context \in Contexts, NEW r, GoodMap(r)
  PROVE  /\ At(r) \in Nat /\ At(r) + r.size <= IndexMod /\ IndexMod \in Nat
         /\ At(r) % PAGE_SIZE = 0
         /\ At(r) = r.virt \/ At(r) = r.virt - Gap
<1>1. /\ r.virt \in Nat /\ r.size \in Nat /\ r.size > 0 /\ r.virt % PAGE_SIZE = 0
      /\ \A o \in 0 .. r.size - 1 : Reach(r.virt + o) /\ Index(r.virt + o) = At(r) + o
  BY DEF GoodMap
<1>2. IndexMod \in Nat
  BY TableSizes DEF IndexMod
<1>3. Reach(r.virt)
  <2>1. 0 \in 0 .. r.size - 1 /\ r.virt + 0 = r.virt
    BY <1>1
  <2> QED BY <1>1, <2>1
<1>4. At(r) \in Nat /\ (At(r) = r.virt \/ At(r) = r.virt - Gap)
  BY <1>3, IndexForm DEF At
<1>5. At(r) + r.size <= IndexMod
  <2> DEFINE z == r.size - 1
  <2>1. z \in 0 .. r.size - 1
    BY <1>1
  <2>2. Reach(r.virt + z) /\ Index(r.virt + z) = At(r) + z
    BY <1>1, <2>1
  <2>3. Index(r.virt + z) < IndexMod
    BY <2>2, IndexForm
  <2> QED BY <1>1, <1>2, <1>4, <2>2, <2>3
<1>6. At(r) % PAGE_SIZE = 0
  <2>1. PAGE_SIZE \in Nat \ {0} /\ Gap % PAGE_SIZE = 0 /\ Gap \in Int /\ r.virt \in Int
    BY <1>1, TableSizes
  <2>2. (r.virt - Gap) % PAGE_SIZE = 0
    BY <1>1, <2>1, MultipleSum
  <2> QED BY <1>1, <1>4, <2>2
<1> QED BY <1>2, <1>4, <1>5, <1>6

(* Addresses of one half keep their distance when they are cut.            *)
LEMMA RangeIndex ==
  ASSUME context \in Contexts, NEW v \in Nat, NEW s \in Nat, v + s <= AddrMod,
         context = "32" => v + s <= LIMIT,
         context # "32" /\ s # 0 => v + s <= HALF \/ v >= HALF + Gap
  PROVE  \A o \in 0 .. s - 1 : Reach(v + o) /\ Index(v + o) = Index(v) + o
<1>1. /\ HALF \in Nat \ {0} /\ LIMIT \in Nat \ {0} /\ AddrMod \in Nat /\ LIMIT <= AddrMod
      /\ Gap \in Nat /\ AddrMod = Gap + 2 * HALF
  BY TableSizes DEF Gap
<1>2. ASSUME NEW o \in 0 .. s - 1
      PROVE  Reach(v + o) /\ (Low(v + o) <=> Low(v))
  <2>1. o \in Nat /\ v + o \in Nat /\ v + o < AddrMod /\ s # 0
    BY <1>1
  <2>2. CASE context = "32"
    BY <1>1, <2>1, <2>2 DEF Reach, Addresses, Low
  <2>3. CASE context # "32"
    <3>1. v + o \in 0 .. AddrMod - 1
      BY <1>1, <2>1
    <3>2. is_canonical_addr(v + o) /\ (v + o < HALF <=> v < HALF)
      BY <1>1, <2>1, <2>3 DEF is_canonical_addr
    <3> QED BY <2>3, <3>1, <3>2 DEF Reach, Addresses, Low
  <2> QED BY <2>2, <2>3
<1>3. ASSUME NEW o \in 0 .. s - 1
      PROVE  Index(v + o) = Index(v) + o
  <2>1. 0 \in 0 .. s - 1 /\ v + 0 = v /\ o \in Nat
    OBVIOUS
  <2>2. Reach(v) /\ Reach(v + o) /\ (Low(v + o) <=> Low(v))
    BY <1>2, <2>1
  <2>3. Index(v) = IF Low(v) THEN v ELSE v - Gap
    BY <2>2, IndexForm
  <2>4. Index(v + o) = IF Low(v + o) THEN v + o ELSE (v + o) - Gap
    BY <2>2, IndexForm
  <2> QED BY <1>1, <2>1, <2>2, <2>3, <2>4
<1> QED BY <1>2, <1>3

(* What mmu_map() accepts is such a mapping.                               *)
LEMMA CallGood ==
  ASSUME context \in Contexts, NEW r \in MapRequests[context], MapValid(r),
         context = "32" => r.virt + r.size <= LIMIT
  PROVE  GoodMap(r) /\ Narrow(r) = r
<1>1. /\ r \in [virt : Addr, phys : Nat, size : Addr \ {0}]
      /\ r.virt % PAGE_SIZE = 0 /\ r.phys % PAGE_SIZE = 0 /\ r.size % PAGE_SIZE = 0
      /\ r.virt + r.size <= AddrMod
      /\ context = "arm64" /\ r.virt < HALF => r.virt + r.size <= AddrMod - HALF
      /\ context = "32" => r.size < LIMIT
  BY MmuCallsAssumption DEF Contexts
<1>2. /\ HALF \in Nat \ {0} /\ LIMIT \in Nat \ {0} /\ AddrMod \in Nat /\ LIMIT <= AddrMod
      /\ Gap \in Nat /\ AddrMod = Gap + 2 * HALF
  BY TableSizes DEF Gap
<1>3. r.virt \in Nat /\ r.phys \in Nat /\ r.size \in Nat \ {0} /\ r.virt < AddrMod
  BY <1>1, <1>2 DEF Addr
<1>4. Wrap(r.virt + r.size - 1) = r.virt + r.size - 1
  <2> DEFINE z == r.virt + r.size - 1
  <2>1. z \in Nat /\ z < AddrMod
    BY <1>1, <1>2, <1>3
  <2> HIDE DEF z
  <2>2. z % AddrMod = z
    BY <1>2, <2>1
  <2> QED BY <2>2 DEF z, Wrap
<1>5. ASSUME context # "32"
      PROVE  \/ r.virt + r.size <= HALF
             \/ r.virt >= HALF + Gap
  <2>1. CASE context = "64"
    <3>1. /\ is_canonical_addr(r.virt) /\ is_canonical_addr(r.virt + r.size - 1)
          /\ r.virt < HALF <=> r.virt + r.size - 1 < HALF
      BY <1>4, <2>1 DEF MapValid, is_canonical_range
    <3> QED BY <1>2, <1>3, <3>1 DEF is_canonical_addr
  <2>2. CASE context = "arm64"
    <3>1. is_canonical_addr(r.virt) /\ is_canonical_addr(r.virt + r.size - 1)
      BY <1>4, <2>2 DEF MapValid, is_valid_range
    <3> QED BY <1>1, <1>2, <1>3, <2>2, <3>1 DEF is_canonical_addr
  <2> QED BY <1>5, <2>1, <2>2 DEF Contexts
<1>6. \A o \in 0 .. r.size - 1 : Reach(r.virt + o) /\ Index(r.virt + o) = Index(r.virt) + o
  BY <1>1, <1>3, <1>5, RangeIndex
<1>8. Narrow(r) = r
  <2>1. context = "32" => r.size % LIMIT = r.size
    BY <1>1, <1>2, <1>3
  <2> QED BY <1>1, <2>1 DEF Narrow
<1> QED BY <1>1, <1>3, <1>6, <1>8 DEF GoodMap, At

(* An address is in a mapping if its index is.                             *)
InMap(r, i) == At(r) <= i /\ i < At(r) + r.size

LEMMA AddressInMap ==
  ASSUME context \in Contexts, NEW r, GoodMap(r), NEW a, Reach(a)
  PROVE  /\ a \in r.virt .. r.virt + r.size - 1 <=> InMap(r, Index(a))
         /\ a \in r.virt .. r.virt + r.size - 1 => Index(a) - At(r) = a - r.virt
<1>1. /\ r.virt \in Nat /\ r.size \in Nat
      /\ \A o \in 0 .. r.size - 1 : Reach(r.virt + o) /\ Index(r.virt + o) = At(r) + o
  BY DEF GoodMap
<1>2. At(r) \in Nat
  BY GoodMapFields
<1>3. a \in Nat /\ Index(a) \in Nat
  BY IndexForm
<1>4. ASSUME a \in r.virt .. r.virt + r.size - 1
      PROVE  InMap(r, Index(a)) /\ Index(a) - At(r) = a - r.virt
  <2> DEFINE o == a - r.virt
  <2>1. o \in 0 .. r.size - 1 /\ r.virt + o = a
    BY <1>1, <1>3, <1>4
  <2>2. Index(a) = At(r) + o
    BY <1>1, <2>1
  <2> QED BY <1>1, <1>2, <1>3, <2>1, <2>2 DEF InMap
<1>5. ASSUME InMap(r, Index(a)) PROVE a \in r.virt .. r.virt + r.size - 1
  <2> DEFINE o == Index(a) - At(r)
             b == r.virt + o
  <2>1. o \in 0 .. r.size - 1
    BY <1>1, <1>2, <1>3, <1>5 DEF InMap
  <2>2. Reach(b) /\ Index(b) = Index(a)
    <3>1. Reach(b) /\ Index(b) = At(r) + o
      BY <1>1, <2>1
    <3> QED BY <1>2, <1>3, <3>1
  <2>3. b = a
    <3> HIDE DEF b
    <3>1. /\ b \in Nat /\ Index(b) = IF Low(b) THEN b ELSE b - Gap
          /\ ~Low(b) => b >= HALF + Gap
      BY <2>2, IndexForm
    <3>2. /\ Index(a) = IF Low(a) THEN a ELSE a - Gap
          /\ ~Low(a) => a >= HALF + Gap
      BY IndexForm
    <3>3. Low(a) /\ ~Low(b) => a < HALF
      BY DEF Low
    <3>4. Low(b) /\ ~Low(a) => b < HALF
      BY DEF Low
    <3>5. Gap \in Nat /\ HALF \in Nat
      BY TableSizes
    <3>6. CASE Low(a) /\ Low(b)
      BY <2>2, <3>1, <3>2, <3>6
    <3>7. CASE ~Low(a) /\ ~Low(b)
      <4>1. a - Gap = b - Gap
        BY <2>2, <3>1, <3>2, <3>7
      <4> QED BY <1>3, <3>1, <3>5, <4>1
    <3>8. CASE Low(a) /\ ~Low(b)
      <4>1. a = b - Gap /\ a < HALF /\ b >= HALF + Gap
        BY <2>2, <3>1, <3>2, <3>3, <3>8
      <4> QED BY <1>3, <3>1, <3>5, <4>1
    <3>9. CASE ~Low(a) /\ Low(b)
      <4>1. b = a - Gap /\ b < HALF /\ a >= HALF + Gap
        BY <2>2, <3>1, <3>2, <3>4, <3>9
      <4> QED BY <1>3, <3>1, <3>5, <4>1
    <3> QED BY <3>6, <3>7, <3>8, <3>9
  <2> QED BY <1>1, <1>3, <2>1, <2>3
<1> QED BY <1>4, <1>5

-----------------------------------------------------------------------------
(* The offsets at which a mapping has small and large pages.               *)
HeadOf(r) == HeadSize(r.virt, r.phys, r.size)
BodyOf(r) == LargeSize(r.virt, r.phys, r.size)

LEMMA HeadAndBody ==
  ASSUME context \in Contexts, NEW r, GoodMap(r)
  PROVE  /\ HeadOf(r) \in Nat /\ BodyOf(r) \in Nat /\ HeadOf(r) % PAGE_SIZE = 0
         /\ BodyOf(r) % LARGE_PAGE_SIZE = 0 /\ HeadOf(r) + BodyOf(r) <= r.size
         /\ BodyOf(r) # 0 => (At(r) + HeadOf(r)) % LARGE_PAGE_SIZE = 0
<1>1. /\ r.virt \in Nat /\ r.size \in Nat /\ r.virt % PAGE_SIZE = 0 /\ r.size % PAGE_SIZE = 0
  BY DEF GoodMap
<1>2. /\ LARGE_PAGE_SIZE \in Nat \ {0} /\ PAGE_SIZE \in Nat \ {0} /\ LARGE_PAGE_SIZE % PAGE_SIZE = 0
      /\ Gap \in Nat /\ Gap % LARGE_PAGE_SIZE = 0
  BY TableSizes
<1> DEFINE L == LARGE_PAGE_SIZE
           f == Floor(L, r.virt)
           x == (L - (r.virt % L)) % L
<1>3. /\ f \in Nat /\ f <= r.virt /\ r.virt < f + L /\ f % L = 0
      /\ r.virt % L = r.virt - f
  BY <1>1, <1>2, FloorFact
<1>4. /\ x \in Nat /\ (r.virt + x) % L = 0 /\ x < L
  <2>1. CASE r.virt = f
    <3>1. r.virt % L = 0
      BY <1>3, <2>1
    <3>2. (L * 1) % L = 0
      BY <1>2, Multiple
    <3>3. x = 0
      BY <1>2, <3>1, <3>2
    <3> HIDE DEF x, f
    <3> QED BY <1>1, <1>2, <3>1, <3>3
  <2>2. CASE r.virt # f
    <3> DEFINE y == L - (r.virt - f)
    <3>1. y \in Nat /\ y < L /\ r.virt + y = f + L
      <4> DEFINE v == r.virt
      <4>1. f \in Nat /\ v \in Nat /\ L \in Nat /\ f < v /\ v < f + L
        <5> HIDE DEF f
        <5> QED BY <1>1, <1>2, <1>3, <2>2
      <4> HIDE DEF f, v, L
      <4>2. L - (v - f) \in Nat /\ L - (v - f) < L /\ v + (L - (v - f)) = f + L
        BY <4>1
      <4> QED BY <4>2 DEF v
    <3>2. y % L = y
      <4> HIDE DEF y
      <4> QED BY <1>2, <3>1
    <3>3. x = y
      BY <1>3, <3>2
    <3>4. (L * 1) % L = 0 /\ L \in Int /\ f \in Int
      BY <1>2, <1>3, Multiple
    <3>5. L % L = 0
      BY <1>2, <3>4
    <3>6. (f + L) % L = 0
      BY <1>2, <1>3, <3>4, <3>5, MultipleSum
    <3> QED BY <3>1, <3>3, <3>6
  <2> QED BY <2>1, <2>2
<1>5. x % PAGE_SIZE = 0
  <2>1. r.virt + x \in Int /\ r.virt \in Int
    BY <1>1, <1>4
  <2>2. (r.virt + x) % PAGE_SIZE = 0
    BY <1>2, <1>4, <2>1, MultipleOfMultiple
  <2>3. ((r.virt + x) - r.virt) % PAGE_SIZE = 0
    BY <1>1, <1>2, <2>1, <2>2, MultipleSum
  <2> HIDE DEF x
  <2>4. (r.virt + x) - r.virt = x
    BY <1>1, <1>4
  <2> QED BY <2>3, <2>4
<1>6. (At(r) + x) % L = 0
  <2> HIDE DEF x
  <2>1. At(r) = r.virt \/ At(r) = r.virt - Gap
    BY GoodMapFields
  <2>2. CASE At(r) = r.virt
    BY <1>4, <2>2
  <2>3. CASE At(r) = r.virt - Gap
    <3>1. ((r.virt + x) - Gap) % L = 0
      <4>1. r.virt + x \in Int /\ Gap \in Int
        BY <1>1, <1>2, <1>4
      <4> QED BY <1>2, <1>4, <4>1, MultipleSum
    <3>2. At(r) + x = (r.virt + x) - Gap
      BY <1>1, <1>2, <1>4, <2>3
    <3> QED BY <3>1, <3>2
  <2> QED BY <2>1, <2>2, <2>3
<1> HIDE DEF x, f
<1>7. CASE ~UseLarge(r.virt, r.phys)
  <2>1. HeadOf(r) = 0 /\ BodyOf(r) = 0
    BY <1>7 DEF HeadOf, BodyOf, HeadSize, LargeSize
  <2>2. 0 % PAGE_SIZE = 0 /\ 0 % LARGE_PAGE_SIZE = 0
    BY <1>2
  <2> QED BY <1>1, <2>1, <2>2
<1>8. CASE UseLarge(r.virt, r.phys)
  <2> DEFINE h == HeadOf(r)
             b == (r.size - h) \div L
  <2>1. h = Min({r.size, x})
    BY <1>8 DEF HeadOf, HeadSize, x
  <2>2. h \in {r.size, x} /\ h <= r.size /\ h <= x
    <3>1. {r.size, x} \subseteq Nat /\ {r.size, x} # {}
      BY <1>1, <1>4
    <3>2. Min({r.size, x}) \in {r.size, x} /\ \A y \in {r.size, x} : Min({r.size, x}) <= y
      BY <3>1, MinElement
    <3> QED BY <2>1, <3>2
  <2>3. h \in Nat /\ h % PAGE_SIZE = 0
    BY <1>1, <1>4, <1>5, <2>2
  <2>4. BodyOf(r) = b * L
    BY <1>8 DEF BodyOf, LargeSize, HeadOf
  <2> HIDE DEF h
  <2>5. r.size - h \in Nat
    BY <1>1, <2>2, <2>3
  <2>6. b \in Nat /\ L * b <= r.size - h
    <3>1. b \in Nat /\ Floor(L, r.size - h) <= r.size - h
      BY <1>2, <2>5, FloorFact
    <3> QED BY <3>1 DEF Floor
  <2> HIDE DEF b
  <2>7. BodyOf(r) = L * b /\ BodyOf(r) \in Nat /\ BodyOf(r) % L = 0
    <3>1. b \in Int /\ b * L = L * b /\ L * b \in Nat
      BY <1>2, <2>6
    <3>2. (L * b) % L = 0
      BY <1>2, <3>1, Multiple
    <3> QED BY <2>4, <3>1, <3>2
  <2>8. h + BodyOf(r) <= r.size
    BY <1>1, <2>3, <2>6, <2>7
  <2>9. ASSUME BodyOf(r) # 0 PROVE h = x
    BY <1>1, <1>4, <2>2, <2>3, <2>7, <2>8, <2>9
  <2> QED BY <1>6, <2>3, <2>7, <2>8, <2>9 DEF h
<1> QED BY <1>7, <1>8

(* The multiples of d below n, by their quotients.                         *)
LEMMA StepsBelow ==
  ASSUME NEW d \in Nat \ {0}, NEW n \in Nat, n % d = 0
  PROVE  /\ \A k \in 0 .. (n \div d) - 1 : k * d \in Nat /\ k * d < n /\ (k * d) % d = 0
         /\ \A x \in Nat : x < n /\ x % d = 0 => \E k \in 0 .. (n \div d) - 1 : x = k * d
<1> DEFINE q == n \div d
<1>1. q \in Nat /\ n = d * q
  BY Multiple, DivMod
<1> HIDE DEF q
<1>2. ASSUME NEW k \in 0 .. q - 1 PROVE k * d \in Nat /\ k * d < n /\ (k * d) % d = 0
  <2>1. k \in Nat /\ k < q /\ k \in Int /\ k * d = d * k /\ d * k \in Nat
    BY <1>1
  <2>2. (d * k) % d = 0
    BY <2>1, Multiple
  <2>3. ~(n < d * k)
    <3>1. n < d * k => n \div d < k
      BY <2>1, QuotientBounds
    <3> QED BY <1>1, <2>1, <3>1 DEF q
  <2>4. d * k # d * q
    <3>1. PICK e \in Nat : q = k + 1 + e
      <4>1. q - (k + 1) \in Nat /\ q = k + 1 + (q - (k + 1))
        BY <1>1, <2>1
      <4> QED BY <4>1
    <3>2. d * q = d * k + d + d * e /\ d * e \in Nat
      BY <2>1, <3>1
    <3> QED BY <2>1, <3>2
  <2> QED BY <1>1, <2>1, <2>2, <2>3, <2>4
<1>3. ASSUME NEW x \in Nat, x < n, x % d = 0 PROVE \E k \in 0 .. q - 1 : x = k * d
  <2> DEFINE k == x \div d
  <2>1. x = d * k /\ k \in Nat
    BY <1>3, Multiple, DivMod
  <2>2. k < q
    BY <1>1, <1>3, QuotientBounds
  <2> HIDE DEF k
  <2>3. x = k * d /\ k \in 0 .. q - 1
    BY <1>1, <2>1, <2>2
  <2> QED BY <2>3
<1> QED BY <1>2, <1>3 DEF q

LEMMA SmallSet ==
  ASSUME context \in Contexts, NEW r, GoodMap(r), NEW o
  PROVE  o \in SmallOffsets(r) <=>
           /\ o \in Nat /\ o < r.size /\ o % PAGE_SIZE = 0
           /\ o < HeadOf(r) \/ o >= HeadOf(r) + BodyOf(r)
<1> DEFINE K == 0 .. (r.size \div PAGE_SIZE) - 1
<1>1. SmallOffsets(r) = {x \in {k * PAGE_SIZE : k \in K} : x < HeadOf(r) \/ x >= HeadOf(r) + BodyOf(r)}
  BY DEF SmallOffsets, HeadOf, BodyOf
<1>2. r.size \in Nat /\ r.size % PAGE_SIZE = 0 /\ PAGE_SIZE \in Nat \ {0}
  BY TableSizes DEF GoodMap
<1>3. /\ \A k \in K : k * PAGE_SIZE \in Nat /\ k * PAGE_SIZE < r.size /\ (k * PAGE_SIZE) % PAGE_SIZE = 0
      /\ \A x \in Nat : x < r.size /\ x % PAGE_SIZE = 0 => \E k \in K : x = k * PAGE_SIZE
  BY <1>2, StepsBelow
<1> HIDE DEF K
<1> QED BY <1>1, <1>3, Zenon

LEMMA LargeSet ==
  ASSUME context \in Contexts, NEW r, GoodMap(r), NEW o
  PROVE  o \in LargeOffsets(r) <=>
           /\ o \in Nat /\ HeadOf(r) <= o /\ o < HeadOf(r) + BodyOf(r)
           /\ (o - HeadOf(r)) % LARGE_PAGE_SIZE = 0
<1> DEFINE K == 0 .. (BodyOf(r) \div LARGE_PAGE_SIZE) - 1
           h == HeadOf(r)
           b == BodyOf(r)
<1>1. LargeOffsets(r) = {h + k * LARGE_PAGE_SIZE : k \in K}
  BY DEF LargeOffsets, HeadOf, BodyOf
<1>2. h \in Nat /\ b \in Nat /\ b % LARGE_PAGE_SIZE = 0 /\ LARGE_PAGE_SIZE \in Nat \ {0}
  BY TableSizes, HeadAndBody
<1>3. /\ \A k \in K : k * LARGE_PAGE_SIZE \in Nat /\ k * LARGE_PAGE_SIZE < b
                      /\ (k * LARGE_PAGE_SIZE) % LARGE_PAGE_SIZE = 0
      /\ \A x \in Nat : x < b /\ x % LARGE_PAGE_SIZE = 0 => \E k \in K : x = k * LARGE_PAGE_SIZE
  BY <1>2, StepsBelow
<1> HIDE DEF K, h, b
<1>4. ASSUME o \in LargeOffsets(r)
      PROVE  o \in Nat /\ h <= o /\ o < h + b /\ (o - h) % LARGE_PAGE_SIZE = 0
  <2>1. PICK k \in K : o = h + k * LARGE_PAGE_SIZE
    BY <1>1, <1>4
  <2> DEFINE x == k * LARGE_PAGE_SIZE
  <2>2. x \in Nat /\ x < b /\ x % LARGE_PAGE_SIZE = 0 /\ o = h + x
    BY <1>3, <2>1
  <2> HIDE DEF x
  <2>3. o - h = x
    BY <1>2, <2>2
  <2> QED BY <1>2, <2>2, <2>3
<1>5. ASSUME o \in Nat, h <= o, o < h + b, (o - h) % LARGE_PAGE_SIZE = 0
      PROVE  o \in LargeOffsets(r)
  <2>1. o - h \in Nat /\ o - h < b
    BY <1>2, <1>5
  <2>2. PICK k \in K : o - h = k * LARGE_PAGE_SIZE
    BY <1>3, <1>5, <2>1
  <2>3. o = h + k * LARGE_PAGE_SIZE
    <3> DEFINE x == k * LARGE_PAGE_SIZE
    <3>1. o - h = x /\ x \in Nat
      BY <2>1, <2>2
    <3> HIDE DEF x
    <3>2. o = h + x
      BY <1>2, <1>5, <3>1
    <3> QED BY <3>2 DEF x
  <2> QED BY <1>1, <2>3
<1> QED BY <1>4, <1>5 DEF h, b

(* The entry of an offset, if it starts one.                               *)
LEMMA EntryIs ==
  ASSUME context \in Contexts, NEW r, GoodMap(r), NEW d \in Nat \ {0}, NEW i \in Nat,
         NEW o \in Nat, o < r.size, (At(r) + o) % d = 0
  PROVE  /\ Index(r.virt + o) \div d = i \div d <=> Floor(d, i) = At(r) + o
<1>1. o \in 0 .. r.size - 1 /\ At(r) \in Nat
  BY GoodMapFields DEF GoodMap
<1>2. Index(r.virt + o) = At(r) + o
  BY <1>1 DEF GoodMap
<1> DEFINE y == At(r) + o
<1>3. y \in Nat /\ y % d = 0
  BY <1>1
<1> HIDE DEF y
<1>4. y = d * (y \div d)
  BY <1>3, Multiple
<1>5. i \div d \in Nat /\ y \div d \in Nat /\ Floor(d, i) \div d = i \div d
  BY <1>3, FloorFact
<1>6. y \div d = i \div d => Floor(d, i) = y
  BY <1>4 DEF Floor
<1>7. Floor(d, i) = y => y \div d = i \div d
  BY <1>5
<1> QED BY <1>2, <1>6, <1>7 DEF y

(* The page of an address in a mapping.                                    *)
PageOffset(r, i) == Floor(PAGE_SIZE, i) - At(r)
LargeAt(r, i) == Floor(LARGE_PAGE_SIZE, i) - At(r) \in LargeOffsets(r)

LEMMA PageIn ==
  ASSUME context \in Contexts, NEW r, GoodMap(r), NEW i \in Nat
  PROVE  /\ InMap(r, i) => PageOffset(r, i) \in Nat /\ PageOffset(r, i) < r.size
                           /\ PageOffset(r, i) % PAGE_SIZE = 0
         /\ \A o \in Nat : o < r.size /\ o % PAGE_SIZE = 0 /\ Floor(PAGE_SIZE, i) = At(r) + o => InMap(r, i)
<1> DEFINE y == Floor(PAGE_SIZE, i)
           a == At(r)
           z == a + r.size
<1>1. /\ PAGE_SIZE \in Nat \ {0} /\ r.size \in Nat /\ r.size % PAGE_SIZE = 0
      /\ a \in Nat /\ a % PAGE_SIZE = 0
  BY TableSizes, GoodMapFields DEF GoodMap
<1>2. /\ y \in Nat /\ y <= i /\ i < y + PAGE_SIZE /\ y % PAGE_SIZE = 0
  BY <1>1, FloorFact
<1>3. z \in Nat /\ z % PAGE_SIZE = 0
  <2>1. a \in Int /\ r.size \in Int
    BY <1>1
  <2>2. (a + r.size) % PAGE_SIZE = 0
    BY <1>1, <2>1, MultipleSum
  <2> QED BY <1>1, <2>2
<1> HIDE DEF y, a, z
<1>4. ASSUME InMap(r, i) PROVE y - a \in Nat /\ y - a < r.size /\ (y - a) % PAGE_SIZE = 0
  <2>1. a <= i /\ i < z
    BY <1>4 DEF InMap, a, z
  <2>2. a <= y
    <3>1. CASE y < a
      <4>1. y \in Int /\ a \in Int
        BY <1>1, <1>2
      <4>2. y + PAGE_SIZE <= a
        BY <1>1, <1>2, <3>1, <4>1, MultipleGap, Zenon
      <4> QED BY <1>1, <1>2, <2>1, <4>2
    <3> QED BY <1>1, <1>2, <3>1
  <2>3. (y - a) % PAGE_SIZE = 0
    <3>1. y \in Int /\ a \in Int
      BY <1>1, <1>2
    <3> QED BY <1>1, <1>2, <3>1, MultipleSum
  <2>4. y - a \in Nat /\ y - a < r.size
    <3>1. z = a + r.size
      BY DEF z, a
    <3> QED BY <1>1, <1>2, <2>1, <2>2, <3>1
  <2> QED BY <2>3, <2>4
<1>5. ASSUME NEW o \in Nat, o < r.size, o % PAGE_SIZE = 0, y = a + o PROVE InMap(r, i)
  <2>1. z = a + r.size
    BY DEF z, a
  <2>2. y < z
    BY <1>1, <1>5, <2>1
  <2>3. y + PAGE_SIZE <= z
    <3>1. y \in Int /\ z \in Int
      BY <1>2, <1>3
    <3> QED BY <1>1, <1>2, <1>3, <2>2, <3>1, MultipleGap, Zenon
  <2>4. a <= i /\ i < z
    BY <1>1, <1>2, <1>3, <1>5, <2>3
  <2> QED BY <2>1, <2>4 DEF InMap, a
<1> QED BY <1>4, <1>5 DEF y, a, PageOffset

(* A page of a mapping that lies in no large page of it is small.          *)
LEMMA SmallOrLarge ==
  ASSUME context \in Contexts, NEW r, GoodMap(r), NEW i \in Nat, InMap(r, i)
  PROVE  PageOffset(r, i) \in SmallOffsets(r) \/ LargeAt(r, i)
<1> DEFINE p == Floor(PAGE_SIZE, i)
           y == Floor(LARGE_PAGE_SIZE, i)
           a == At(r)
           h == HeadOf(r)
           b == BodyOf(r)
           L == LARGE_PAGE_SIZE
<1>1. /\ PAGE_SIZE \in Nat \ {0} /\ L \in Nat \ {0} /\ L % PAGE_SIZE = 0 /\ a \in Nat
  BY TableSizes, GoodMapFields
<1>2. /\ p \in Nat /\ p <= i
  BY <1>1, FloorFact
<1>3. y \in Nat /\ y <= i /\ i < y + L /\ y % L = 0
  BY <1>1, FloorFact
<1>4. y <= p
  BY <1>1, FloorOfFloor
<1>5. h \in Nat /\ b \in Nat /\ b % L = 0 /\ (b # 0 => (a + h) % L = 0)
  BY HeadAndBody
<1>6. PageOffset(r, i) = p - a /\ p - a \in Nat /\ p - a < r.size /\ (p - a) % PAGE_SIZE = 0
  BY PageIn DEF PageOffset
<1> HIDE DEF p, y, a, h, b, L
<1>7. CASE p - a < h \/ p - a >= h + b
  <2>1. PageOffset(r, i) \in SmallOffsets(r)
    BY <1>6, <1>7, SmallSet DEF h, b
  <2> QED BY <2>1
<1>8. CASE p - a >= h /\ p - a < h + b
  <2>1. b # 0 /\ a + h <= i /\ a + h \in Nat /\ (a + h) % L = 0
    BY <1>1, <1>2, <1>5, <1>6, <1>8
  <2>2. a + h <= y
    <3>1. CASE y < a + h
      <4>1. y + L <= a + h
        BY <1>1, <1>3, <2>1, <3>1, MultipleGap
      <4> QED BY <1>1, <1>3, <2>1, <4>1
    <3> QED BY <1>3, <2>1, <3>1
  <2>3. (y - (a + h)) % L = 0
    <3>1. y \in Int /\ a + h \in Int
      BY <1>3, <2>1
    <3> QED BY <1>1, <1>3, <2>1, <3>1, MultipleSum
  <2>4. /\ y - a \in Nat /\ h <= y - a /\ y - a < h + b /\ (y - a) - h = y - (a + h)
    BY <1>1, <1>2, <1>3, <1>4, <1>5, <1>8, <2>2
  <2>5. ((y - a) - h) % L = 0
    BY <2>3, <2>4
  <2>6. LargeAt(r, i)
    BY <2>4, <2>5, LargeSet DEF LargeAt, y, a, h, b, L
  <2> QED BY <2>6
<1> QED BY <1>1, <1>2, <1>5, <1>6, <1>7, <1>8

(* A large page of a mapping starts at a multiple and lies in the mapping. *)
LEMMA LargeWithin ==
  ASSUME context \in Contexts, NEW r, GoodMap(r), NEW o \in LargeOffsets(r)
  PROVE  /\ o \in Nat /\ o < r.size /\ (At(r) + o) % LARGE_PAGE_SIZE = 0
         /\ At(r) + o + LARGE_PAGE_SIZE <= At(r) + r.size
<1> DEFINE a == At(r)
           h == HeadOf(r)
           b == BodyOf(r)
           L == LARGE_PAGE_SIZE
<1>1. L \in Nat \ {0} /\ a \in Nat /\ r.size \in Nat
  BY TableSizes, GoodMapFields DEF GoodMap
<1>2. o \in Nat /\ h <= o /\ o < h + b /\ (o - h) % L = 0
  BY LargeSet
<1>3. h \in Nat /\ b \in Nat /\ b % L = 0 /\ h + b <= r.size /\ (b # 0 => (a + h) % L = 0)
  BY HeadAndBody
<1> HIDE DEF a, h, b, L
<1>4. (a + h) % L = 0 /\ a + h \in Int /\ o - h \in Int /\ b \in Int
  BY <1>1, <1>2, <1>3
<1>5. ((a + h) + (o - h)) % L = 0
  BY <1>1, <1>2, <1>4, MultipleSum
<1>6. ((a + h) + b) % L = 0
  BY <1>1, <1>3, <1>4, MultipleSum
<1> DEFINE x == a + o
           y == (a + h) + b
<1>7. x = (a + h) + (o - h) /\ x \in Nat /\ y \in Nat /\ x < y
  BY <1>1, <1>2, <1>3
<1>8. x % L = 0 /\ y % L = 0
  BY <1>5, <1>6, <1>7
<1> HIDE DEF x, y
<1>9. x + L <= y
  BY <1>1, <1>7, <1>8, MultipleGap
<1>10. x + L <= a + r.size
  BY <1>1, <1>2, <1>3, <1>9 DEF x, y
<1>11. o < r.size
  BY <1>1, <1>2, <1>3
<1> QED BY <1>2, <1>8, <1>10, <1>11 DEF x, a, L

-----------------------------------------------------------------------------
(***************************************************************************)
(* What mmu_map() does to the entries of every address.                    *)
(***************************************************************************)
Indices == 0 .. IndexMod - 1

TableDomains ==
  /\ pde = [e \in 0 .. (IndexMod \div LARGE_PAGE_SIZE) - 1 |-> pde[e]]
  /\ pte = [p \in 0 .. (IndexMod \div PAGE_SIZE) - 1 |-> pte[p]]

LEMMA InTables ==
  ASSUME context \in Contexts, TableDomains
  PROVE  /\ DOMAIN pde = 0 .. (IndexMod \div LARGE_PAGE_SIZE) - 1
         /\ DOMAIN pte = 0 .. (IndexMod \div PAGE_SIZE) - 1
         /\ \A i \in Indices : i \in Nat /\ i \div LARGE_PAGE_SIZE \in DOMAIN pde
                               /\ i \div PAGE_SIZE \in DOMAIN pte
<1>1. /\ DOMAIN pde = 0 .. (IndexMod \div LARGE_PAGE_SIZE) - 1
      /\ DOMAIN pte = 0 .. (IndexMod \div PAGE_SIZE) - 1
  BY Zenon DEF TableDomains
<1>2. /\ LARGE_PAGE_SIZE \in Nat \ {0} /\ PAGE_SIZE \in Nat \ {0}
      /\ IndexMod \in Nat /\ IndexMod % PAGE_SIZE = 0 /\ IndexMod % LARGE_PAGE_SIZE = 0
  BY TableSizes DEF IndexMod
<1>3. ASSUME NEW i \in Indices, NEW d \in Nat \ {0}, IndexMod % d = 0
      PROVE  i \in Nat /\ i \div d \in 0 .. (IndexMod \div d) - 1
  <2>1. i \in Nat /\ i < IndexMod
    BY <1>2 DEF Indices
  <2> DEFINE k == IndexMod \div d
  <2>2. IndexMod = d * k /\ k \in Nat
    BY <1>2, <1>3, Multiple, DivMod
  <2> HIDE DEF k
  <2>3. i \div d < k /\ i \div d \in Nat
    BY <2>1, <2>2, QuotientBounds
  <2> QED BY <2>1, <2>2, <2>3 DEF k
<1> QED BY <1>1, <1>2, <1>3

(* The small page of an address lies in the large page around it.          *)
LEMMA PageInLarge ==
  ASSUME NEW i \in Nat
  PROVE  Floor(PAGE_SIZE, i) \in Nat /\ Floor(PAGE_SIZE, i) \div LARGE_PAGE_SIZE = i \div LARGE_PAGE_SIZE
<1> DEFINE L == LARGE_PAGE_SIZE
           f == Floor(PAGE_SIZE, i)
           y == Floor(L, i)
<1>1. L \in Nat \ {0} /\ PAGE_SIZE \in Nat \ {0} /\ L % PAGE_SIZE = 0
  BY TableSizes
<1>2. f \in Nat /\ f <= i
  BY <1>1, FloorFact
<1>3. y <= f
  BY <1>1, FloorOfFloor
<1>4. y \in Nat /\ i < y + L /\ y % L = 0 /\ y \div L = i \div L
  BY <1>1, FloorFact
<1> HIDE DEF f, y, L
<1>5. f < y + L
  BY <1>1, <1>2, <1>4
<1>6. f \div L = y \div L
  BY <1>1, <1>2, <1>3, <1>4, <1>5, FloorIs
<1> QED BY <1>2, <1>4, <1>6 DEF f, L

LEMMA MapPtesAt ==
  ASSUME context \in Contexts, TableDomains, NEW r, GoodMap(r), NEW i \in Indices
  PROVE  /\ ~InMap(r, i) \/ pde[i \div LARGE_PAGE_SIZE].kind = "large" =>
              MapPtes(r)[i \div PAGE_SIZE] = pte[i \div PAGE_SIZE]
         /\ InMap(r, i) /\ PageOffset(r, i) \in SmallOffsets(r) /\ pde[i \div LARGE_PAGE_SIZE].kind # "large" =>
              MapPtes(r)[i \div PAGE_SIZE] = Small(r.phys + PageOffset(r, i))
         /\ \/ MapPtes(r)[i \div PAGE_SIZE] = pte[i \div PAGE_SIZE]
            \/ MapPtes(r)[i \div PAGE_SIZE] = Small(r.phys + PageOffset(r, i))
<1> DEFINE p == i \div PAGE_SIZE
           e == i \div LARGE_PAGE_SIZE
           all == SmallOffsets(r)
           offs == {o \in all : ~IsLarge(r.virt + o)}
           pages == {PteOf(r.virt + o) : o \in offs}
           chosen == CHOOSE o \in all : PteOf(r.virt + o) = p
<1>1. i \in Nat /\ p \in DOMAIN pte
  BY InTables
<1>2. MapPtes(r)[p] = IF p \in pages THEN Small(r.phys + chosen) ELSE pte[p]
  BY <1>1, Zenon DEF MapPtes
<1>3. At(r) \in Nat /\ PAGE_SIZE \in Nat \ {0} /\ At(r) % PAGE_SIZE = 0
  BY TableSizes, GoodMapFields
<1>4. ASSUME NEW o \in all
      PROVE  /\ o \in Nat /\ o < r.size /\ o % PAGE_SIZE = 0
             /\ PteOf(r.virt + o) = p <=> Floor(PAGE_SIZE, i) = At(r) + o
             /\ Index(r.virt + o) = At(r) + o
  <2>1. o \in Nat /\ o < r.size /\ o % PAGE_SIZE = 0
    BY SmallSet
  <2>2. (At(r) + o) % PAGE_SIZE = 0
    <3>1. At(r) \in Int /\ o \in Int
      BY <1>3, <2>1
    <3> QED BY <1>3, <2>1, <3>1, MultipleSum
  <2>3. Index(r.virt + o) \div PAGE_SIZE = p <=> Floor(PAGE_SIZE, i) = At(r) + o
    BY <1>1, <1>3, <2>1, <2>2, EntryIs
  <2>4. o \in 0 .. r.size - 1
    BY <2>1 DEF GoodMap
  <2>5. Index(r.virt + o) = At(r) + o
    BY <2>4 DEF GoodMap
  <2> QED BY <2>1, <2>3, <2>5 DEF PteOf
<1>5. Floor(PAGE_SIZE, i) \in Nat /\ Floor(PAGE_SIZE, i) \div LARGE_PAGE_SIZE = e
  BY <1>1, PageInLarge
<1>6. ASSUME NEW o \in all, PteOf(r.virt + o) = p
      PROVE  /\ InMap(r, i) /\ o = PageOffset(r, i)
             /\ IsLarge(r.virt + o) <=> pde[e].kind = "large"
  <2>1. /\ o \in Nat /\ o < r.size /\ o % PAGE_SIZE = 0 /\ Floor(PAGE_SIZE, i) = At(r) + o
        /\ Index(r.virt + o) = At(r) + o
    BY <1>4, <1>6
  <2>2. InMap(r, i)
    BY <1>1, <2>1, PageIn
  <2>3. PdeOf(r.virt + o) = e
    BY <1>5, <2>1 DEF PdeOf
  <2>4. o = PageOffset(r, i)
    <3> DEFINE f == Floor(PAGE_SIZE, i)
    <3>1. f \in Nat /\ f = At(r) + o
      BY <1>5, <2>1
    <3> HIDE DEF f
    <3>2. o = f - At(r)
      BY <1>3, <2>1, <3>1
    <3> QED BY <3>2 DEF f, PageOffset
  <2> QED BY <2>2, <2>3, <2>4 DEF IsLarge
<1> HIDE DEF p, e, all
<1>7. ASSUME p \in pages
      PROVE  InMap(r, i) /\ pde[e].kind # "large" /\ chosen = PageOffset(r, i)
  <2>1. PICK o \in offs : PteOf(r.virt + o) = p
    BY <1>7
  <2>2. o \in all /\ ~IsLarge(r.virt + o)
    BY <2>1
  <2>3. InMap(r, i) /\ pde[e].kind # "large"
    BY <1>6, <2>1, <2>2
  <2>4. chosen \in all /\ PteOf(r.virt + chosen) = p
    BY <2>1, <2>2
  <2> HIDE DEF chosen
  <2> QED BY <1>6, <2>3, <2>4
<1>8. ASSUME PageOffset(r, i) \in all, pde[e].kind # "large" PROVE p \in pages
  <2> DEFINE x == PageOffset(r, i)
  <2>1. x \in all
    BY <1>8
  <2>2. Floor(PAGE_SIZE, i) = At(r) + x
    BY <1>3, <1>5 DEF PageOffset
  <2> HIDE DEF x
  <2>3. PteOf(r.virt + x) = p
    BY <1>4, <2>1, <2>2
  <2>4. ~IsLarge(r.virt + x)
    BY <1>6, <1>8, <2>1, <2>3
  <2> QED BY <2>1, <2>3, <2>4
<1> HIDE DEF pages, chosen
<1> QED BY <1>2, <1>7, <1>8 DEF p, e, all

LEMMA MapPdesAt ==
  ASSUME context \in Contexts, TableDomains, NEW r, GoodMap(r), NEW i \in Indices
  PROVE  /\ LargeAt(r, i) =>
              /\ MapPdes(r)[i \div LARGE_PAGE_SIZE] =
                   Large(r.phys + (Floor(LARGE_PAGE_SIZE, i) - At(r)))
              /\ At(r) <= Floor(LARGE_PAGE_SIZE, i)
              /\ Floor(LARGE_PAGE_SIZE, i) + LARGE_PAGE_SIZE <= At(r) + r.size
         /\ ~LargeAt(r, i) =>
              \/ MapPdes(r)[i \div LARGE_PAGE_SIZE] = pde[i \div LARGE_PAGE_SIZE]
              \/ /\ pde[i \div LARGE_PAGE_SIZE] = Absent
                 /\ MapPdes(r)[i \div LARGE_PAGE_SIZE] = Table
         /\ ~LargeAt(r, i) /\ InMap(r, i) =>
              MapPdes(r)[i \div LARGE_PAGE_SIZE] =
                IF pde[i \div LARGE_PAGE_SIZE] = Absent THEN Table ELSE pde[i \div LARGE_PAGE_SIZE]
<1> DEFINE L == LARGE_PAGE_SIZE
           e == i \div L
           y == Floor(L, i)
           offs == LargeOffsets(r)
           large == {PdeOf(r.virt + o) : o \in offs}
           small == {PdeOf(r.virt + o) : o \in SmallOffsets(r)}
           chosen == CHOOSE o \in offs : PdeOf(r.virt + o) = e
<1>1. i \in Nat /\ e \in DOMAIN pde
  BY InTables
<1>2. MapPdes(r)[e] = IF e \in large THEN Large(r.phys + chosen)
                      ELSE IF e \in small /\ pde[e] = Absent THEN Table ELSE pde[e]
  BY <1>1, Zenon DEF MapPdes
<1>3. /\ At(r) \in Nat /\ L \in Nat \ {0} /\ PAGE_SIZE \in Nat \ {0} /\ L % PAGE_SIZE = 0
      /\ y \in Nat
  BY <1>1, TableSizes, GoodMapFields, FloorFact
<1>4. ASSUME NEW o \in offs
      PROVE  /\ o \in Nat /\ At(r) + o + L <= At(r) + r.size
             /\ PdeOf(r.virt + o) = e <=> y = At(r) + o
  <2>1. o \in Nat /\ o < r.size /\ (At(r) + o) % L = 0 /\ At(r) + o + L <= At(r) + r.size
    BY LargeWithin
  <2>2. Index(r.virt + o) \div L = e <=> y = At(r) + o
    BY <1>1, <1>3, <2>1, EntryIs
  <2> QED BY <2>1, <2>2 DEF PdeOf
<1> HIDE DEF e, offs, y, chosen
<1>5. ASSUME e \in large PROVE LargeAt(r, i)
  <2>1. PICK o \in offs : PdeOf(r.virt + o) = e
    BY <1>5
  <2>2. o \in Nat /\ y = At(r) + o
    BY <1>4, <2>1
  <2>3. y - At(r) = o
    BY <1>3, <2>2
  <2> QED BY <2>3 DEF LargeAt, y, offs
<1>6. ASSUME LargeAt(r, i)
      PROVE  e \in large /\ chosen = y - At(r) /\ At(r) <= y /\ y + L <= At(r) + r.size
  <2> DEFINE x == y - At(r)
  <2>1. x \in offs /\ y = At(r) + x
    BY <1>3, <1>6 DEF LargeAt, y, offs
  <2>2. x \in Nat /\ At(r) + x + L <= At(r) + r.size /\ PdeOf(r.virt + x) = e
    BY <1>4, <2>1
  <2>3. e \in large
    BY <2>1, <2>2
  <2>4. chosen \in offs /\ PdeOf(r.virt + chosen) = e
    BY <2>1, <2>2 DEF chosen
  <2>5. chosen \in Nat /\ y = At(r) + chosen
    BY <1>4, <2>4
  <2>6. chosen = x
    BY <1>3, <2>5
  <2>7. At(r) <= y /\ y + L <= At(r) + r.size
    BY <1>3, <2>1, <2>2
  <2> QED BY <2>3, <2>6, <2>7
<1>7. ASSUME InMap(r, i), ~LargeAt(r, i) PROVE e \in small
  <2> DEFINE o == PageOffset(r, i)
             f == Floor(PAGE_SIZE, i)
  <2>1. o \in SmallOffsets(r)
    BY <1>1, <1>7, SmallOrLarge
  <2>2. o \in 0 .. r.size - 1
    BY <2>1, SmallSet DEF GoodMap
  <2>3. Index(r.virt + o) = At(r) + o
    BY <2>2 DEF GoodMap
  <2>4. f \in Nat /\ f <= i /\ y <= f
    BY <1>1, <1>3, FloorFact, FloorOfFloor DEF y
  <2>5. i < y + L /\ y % L = 0 /\ y \div L = e
    BY <1>1, <1>3, FloorFact DEF y, e
  <2>6. At(r) + o = f
    BY <1>3, <2>4 DEF PageOffset
  <2> HIDE DEF f, o
  <2>7. f < y + L
    BY <1>1, <1>3, <2>4, <2>5
  <2>8. f \div L = y \div L
    BY <1>3, <2>4, <2>5, <2>7, FloorIs
  <2>9. PdeOf(r.virt + o) = e
    BY <2>3, <2>5, <2>6, <2>8 DEF PdeOf
  <2> QED BY <2>1, <2>9
<1> HIDE DEF large, small
<1>8. ASSUME LargeAt(r, i) PROVE MapPdes(r)[e] = Large(r.phys + (y - At(r)))
  BY <1>2, <1>6, <1>8
<1>9. ASSUME ~LargeAt(r, i) PROVE MapPdes(r)[e] = pde[e] \/ (pde[e] = Absent /\ MapPdes(r)[e] = Table)
  <2>1. e \notin large
    BY <1>5, <1>9
  <2> QED BY <1>2, <2>1
<1>10. ASSUME ~LargeAt(r, i), InMap(r, i)
       PROVE  MapPdes(r)[e] = IF pde[e] = Absent THEN Table ELSE pde[e]
  <2>1. e \notin large /\ e \in small
    BY <1>5, <1>7, <1>10
  <2> QED BY <1>2, <2>1
<1> QED BY <1>6, <1>8, <1>9, <1>10 DEF e, y

-----------------------------------------------------------------------------
(***************************************************************************)
(* The inductive invariant.  A large page that was mapped stays one, with  *)
(* the memory of the last call that mapped it; a page that none of them    *)
(* has is in a table, with the memory of the last call that has it; an     *)
(* entry that leads anywhere is one of a call; and entries that were       *)
(* written into a large page are those of a later call within it.          *)
(***************************************************************************)
Calls == 1 .. Len(maps)
PdeAt(i) == pde[i \div LARGE_PAGE_SIZE]
PteEntry(i) == pte[i \div PAGE_SIZE]
LargePhys(m, i) == m.phys + (Floor(LARGE_PAGE_SIZE, i) - At(m))

EntryKinds ==
  \A i \in Indices :
    /\ PdeAt(i) = Absent \/ PdeAt(i) = Table \/ \E x \in Int : PdeAt(i) = Large(x)
    /\ PteEntry(i) = Absent \/ \E x \in Int : PteEntry(i) = Small(x)
MapsSeq == maps \in Seq(UNION {MapRequests[c] : c \in Contexts})
MapsGood == \A k \in Calls : GoodMap(maps[k])

Present(i) ==
  /\ context # "32" => i \div PDIR_RANGE \in dirs
  /\ PdeAt(i) # Absent
  /\ PdeAt(i) = Table => PteEntry(i) # Absent
MapsPresent == \A k \in Calls : \A i \in Indices : InMap(maps[k], i) => Present(i)

NoLarge(i) == \A j \in Calls : ~LargeAt(maps[j], i)
LastLarge(k, i) == LargeAt(maps[k], i) /\ \A j \in Calls : j > k => ~LargeAt(maps[j], i)
LastSmall(k, i) == InMap(maps[k], i) /\ NoLarge(i) /\ \A j \in Calls : j > k => ~InMap(maps[j], i)

LargeLinked ==
  \A k \in Calls : \A i \in Indices :
    LastLarge(k, i) => PdeAt(i) = Large(LargePhys(maps[k], i))
SmallLinked ==
  \A k \in Calls : \A i \in Indices :
    LastSmall(k, i) => PdeAt(i) = Table /\ PteEntry(i) = Small(maps[k].phys + PageOffset(maps[k], i))
LargeOwned ==
  \A i \in Indices : PdeAt(i).kind = "large" =>
    \E k \in Calls : LargeAt(maps[k], i) /\ PdeAt(i) = Large(LargePhys(maps[k], i))
Unlinked == \A i \in Indices : (\A k \in Calls : ~InMap(maps[k], i)) => PteEntry(i) = Absent

Strayed(x) ==
  \E j, k \in Calls : \E i \in Indices :
    j < k /\ LargeAt(maps[j], i) /\ InMap(maps[k], i) /\ x = LargePhys(maps[j], i)
StraysOwned == \A x \in strays : Strayed(x)

TablesInv ==
  /\ context \in Contexts /\ TableDomains /\ EntryKinds /\ MapsSeq
  /\ MapsGood /\ MapsPresent /\ LargeLinked /\ SmallLinked
  /\ LargeOwned /\ Unlinked /\ StraysOwned

LEMMA SameContext ==
  ASSUME context' = context
  PROVE  /\ Indices' = Indices
         /\ \A m : At(m)' = At(m)
         /\ \A m : GoodMap(m)' <=> GoodMap(m)
         /\ \A m, i : (InMap(m, i)' <=> InMap(m, i)) /\ PageOffset(m, i)' = PageOffset(m, i)
         /\ \A m, i : LargeAt(m, i)' <=> LargeAt(m, i)
<1>1. IndexMod' = IndexMod /\ Indices' = Indices
  BY DEF IndexMod, Indices
<1>2. \A a : Index(a)' = Index(a)
  BY DEF Index, IndexMod
<1>3. \A a : Reach(a)' <=> Reach(a)
  BY DEF Reach, Addresses
<1>4. \A m : At(m)' = At(m)
  BY <1>2 DEF At
<1>5. \A m : LargeOffsets(m)' = LargeOffsets(m)
  BY DEF LargeOffsets, HeadSize, LargeSize, UseLarge
<1>6. \A m, i : LargeAt(m, i)' <=> LargeAt(m, i)
  BY <1>4, <1>5, Zenon DEF LargeAt
<1> QED BY <1>1, <1>2, <1>3, <1>4, <1>6, Zenon DEF GoodMap, InMap, PageOffset

LEMMA InMapDirs ==
  ASSUME context \in Contexts, NEW r, GoodMap(r), NEW i \in Nat, InMap(r, i)
  PROVE  i \div PDIR_RANGE \in
           {DirOf(r.virt + k * PAGE_SIZE) : k \in 0 .. (r.size \div PAGE_SIZE) - 1}
<1> DEFINE o == PageOffset(r, i)
           f == Floor(PAGE_SIZE, i)
           D == PDIR_RANGE
           y == Floor(D, i)
<1>1. o \in Nat /\ o < r.size /\ o % PAGE_SIZE = 0
  BY PageIn
<1>2. /\ PAGE_SIZE \in Nat \ {0} /\ D \in Nat \ {0} /\ D % PAGE_SIZE = 0
      /\ At(r) \in Nat /\ At(r) % PAGE_SIZE = 0
      /\ r.size \in Nat /\ r.size % PAGE_SIZE = 0
  BY TableSizes, GoodMapFields DEF GoodMap
<1>3. f \in Nat /\ f <= i /\ f % PAGE_SIZE = 0 /\ f \div PAGE_SIZE = i \div PAGE_SIZE
  BY <1>2, FloorFact
<1>4. y \in Nat /\ y <= i /\ i < y + D /\ y % D = 0 /\ y \div D = i \div D
  BY <1>2, FloorFact
<1>5. y <= f
  BY <1>2, FloorOfFloor
<1>6. f < y + D
  <2> HIDE DEF f, y, D
  <2> QED BY <1>2, <1>3, <1>4
<1>7. f \div D = i \div D
  <2>1. f \div D = y \div D
    <3> HIDE DEF f, y, D
    <3> QED BY <1>2, <1>3, <1>4, <1>5, <1>6, FloorIs
  <2> QED BY <1>4, <2>1
<1>8. Index(r.virt + o) = f
  <2>1. o \in 0 .. r.size - 1
    BY <1>1, <1>2
  <2>2. Index(r.virt + o) = At(r) + o
    BY <2>1 DEF GoodMap
  <2> QED BY <1>2, <1>3, <2>2 DEF PageOffset
<1> HIDE DEF o, f, y, D
<1>9. PICK k \in 0 .. (r.size \div PAGE_SIZE) - 1 : o = k * PAGE_SIZE
  BY <1>1, <1>2, StepsBelow
<1>10. DirOf(r.virt + k * PAGE_SIZE) = i \div D
  BY <1>3, <1>7, <1>8, <1>9 DEF DirOf, D
<1> QED BY <1>10 DEF D

LEMMA EntriesDiffer ==
  /\ Absent # Table /\ Table.kind = "table" /\ Absent.kind = "absent"
  /\ \A x : Large(x) # Absent /\ Large(x) # Table /\ Large(x).kind = "large" /\ Large(x).phys = x
  /\ \A x : Small(x) # Absent /\ Small(x).kind = "small" /\ Small(x).phys = x
<1>1. Absent.kind = "absent" /\ Table.kind = "table"
  BY DEF Absent, Table
<1>2. \A x : Large(x).kind = "large" /\ Large(x).phys = x
  BY DEF Large
<1>3. \A x : Small(x).kind = "small" /\ Small(x).phys = x
  BY DEF Small
<1> QED BY <1>1, <1>2, <1>3

LEMMA TablesStart == MmuInit => TablesInv
<1> SUFFICES ASSUME MmuInit PROVE TablesInv
  OBVIOUS
<1>1. /\ context \in Contexts /\ maps = <<>> /\ strays = {}
      /\ pde = [e \in 0 .. (IndexMod \div LARGE_PAGE_SIZE) - 1 |-> Absent]
      /\ pte = [p \in 0 .. (IndexMod \div PAGE_SIZE) - 1 |-> Absent]
  BY DEF MmuInit, Contexts
<1>2. TableDomains
  BY <1>1, Zenon DEF TableDomains
<1>3. \A i \in Indices : i \div LARGE_PAGE_SIZE \in DOMAIN pde /\ i \div PAGE_SIZE \in DOMAIN pte
  BY <1>1, <1>2, InTables
<1>4. \A i \in Indices : PdeAt(i) = Absent /\ PteEntry(i) = Absent
  BY <1>1, <1>3, Zenon DEF PdeAt, PteEntry
<1>5. Absent.kind # "large"
  BY DEF Absent
<1>6. Calls = {} /\ MapsSeq
  BY <1>1 DEF Calls, MapsSeq
<1>7. EntryKinds /\ LargeOwned /\ Unlinked
  BY <1>4, <1>5 DEF EntryKinds, LargeOwned, Unlinked
<1>8. MapsGood /\ MapsPresent /\ LargeLinked /\ SmallLinked
  BY <1>6 DEF MapsGood, MapsPresent, LargeLinked, SmallLinked
<1> QED BY <1>1, <1>2, <1>6, <1>7, <1>8 DEF TablesInv, StraysOwned

(* A large page of a mapping is all in it.                                 *)
LEMMA LargeInMap ==
  ASSUME context \in Contexts, TableDomains, NEW r, GoodMap(r), NEW i \in Indices, LargeAt(r, i)
  PROVE  InMap(r, i)
<1> DEFINE y == Floor(LARGE_PAGE_SIZE, i)
<1>1. At(r) <= y /\ y + LARGE_PAGE_SIZE <= At(r) + r.size
  BY MapPdesAt
<1>2. /\ LARGE_PAGE_SIZE \in Nat \ {0} /\ At(r) \in Nat /\ r.size \in Nat /\ i \in Nat
  BY InTables, TableSizes, GoodMapFields DEF GoodMap
<1>3. y \in Nat /\ y <= i /\ i < y + LARGE_PAGE_SIZE
  BY <1>2, FloorFact
<1> HIDE DEF y
<1> QED BY <1>1, <1>2, <1>3 DEF InMap

(* mmu_map() in a state where the tables are as they should be.            *)
LEMMA MapStep ==
  ASSUME TablesInv, NEW r \in MapRequests[context], MmuMap(r)
  PROVE  TablesInv'
<1>1. /\ context \in Contexts /\ TableDomains /\ EntryKinds /\ MapsSeq
      /\ MapsGood /\ MapsPresent /\ LargeLinked /\ SmallLinked
      /\ LargeOwned /\ Unlinked /\ StraysOwned
  BY DEF TablesInv
<1>2. /\ context = "32" => r.virt + r.size <= LIMIT
      /\ MapValid(r) /\ pde' = MapPdes(Narrow(r)) /\ pte' = MapPtes(Narrow(r))
      /\ dirs' = IF context = "32" THEN dirs
                 ELSE dirs \cup {DirOf(r.virt + k * PAGE_SIZE) : k \in 0 .. (r.size \div PAGE_SIZE) - 1}
      /\ maps' = Append(maps, r) /\ strays' = strays \cup MapStrays(Narrow(r)) /\ context' = context
  BY DEF MmuMap
<1>3. GoodMap(r) /\ Narrow(r) = r
  BY <1>1, <1>2, CallGood
<1>4. pde' = MapPdes(r) /\ pte' = MapPtes(r) /\ strays' = strays \cup MapStrays(r)
  BY <1>2, <1>3
<1>5. /\ Indices' = Indices
      /\ \A m : At(m)' = At(m)
      /\ \A m : GoodMap(m)' <=> GoodMap(m)
      /\ \A m, i : (InMap(m, i)' <=> InMap(m, i)) /\ PageOffset(m, i)' = PageOffset(m, i)
      /\ \A m, i : LargeAt(m, i)' <=> LargeAt(m, i)
  BY <1>2, SameContext
<1>6. \A i \in Indices : i \in Nat
  BY <1>1, InTables
<1> DEFINE n == Len(maps)
           new == n + 1
<1>7. /\ MapsSeq' /\ n \in Nat /\ Calls = 1 .. n /\ Calls' = 1 .. new
      /\ maps'[new] = r /\ \A k \in Calls : maps'[k] = maps[k]
  <2>1. r \in UNION {MapRequests[c] : c \in Contexts}
    BY <1>1
  <2> DEFINE S == UNION {MapRequests[c] : c \in Contexts}
  <2>2. maps \in Seq(S) /\ r \in S /\ S' = S
    BY <1>1, <2>1 DEF MapsSeq
  <2> HIDE DEF S
  <2>3. maps' \in Seq(S) /\ Len(maps') = n + 1 /\ n \in Nat
    BY <1>2, <2>2
  <2>4. maps'[n + 1] = r /\ \A k \in 1 .. n : maps'[k] = maps[k]
    BY <1>2, <2>2
  <2> QED BY <2>2, <2>3, <2>4 DEF MapsSeq, Calls, S
<1> HIDE DEF n
<1>8. /\ new \in Calls' /\ Calls \subseteq Calls' /\ \A k \in Calls' : k \in Calls \/ k = new
      /\ \A k \in Calls : k < new /\ k \in Nat
  BY <1>7
<1> HIDE DEF new
<1>9. \A k \in Calls' : GoodMap(maps'[k])
  BY <1>1, <1>3, <1>7, <1>8 DEF MapsGood
<1>10. \A m, i : LargePhys(m, i)' = LargePhys(m, i)
  BY <1>5 DEF LargePhys
<1>11. ASSUME NEW i \in Indices
       PROVE  /\ LargeAt(r, i) => PdeAt(i)' = Large(LargePhys(r, i))
              /\ ~LargeAt(r, i) => PdeAt(i)' = PdeAt(i) \/ (PdeAt(i) = Absent /\ PdeAt(i)' = Table)
              /\ ~LargeAt(r, i) /\ InMap(r, i) => PdeAt(i)' = IF PdeAt(i) = Absent THEN Table ELSE PdeAt(i)
              /\ PteEntry(i)' = PteEntry(i) \/ PteEntry(i)' = Small(r.phys + PageOffset(r, i))
              /\ ~InMap(r, i) => PteEntry(i)' = PteEntry(i)
              /\ InMap(r, i) /\ ~LargeAt(r, i) /\ PdeAt(i).kind # "large" =>
                   PteEntry(i)' = Small(r.phys + PageOffset(r, i))
  <2>1. PdeAt(i)' = MapPdes(r)[i \div LARGE_PAGE_SIZE] /\ PteEntry(i)' = MapPtes(r)[i \div PAGE_SIZE]
    BY <1>4 DEF PdeAt, PteEntry
  <2>2. InMap(r, i) /\ ~LargeAt(r, i) => PageOffset(r, i) \in SmallOffsets(r)
    BY <1>1, <1>3, <1>6, SmallOrLarge
  <2>3. /\ LargeAt(r, i) => PdeAt(i)' = Large(LargePhys(r, i))
        /\ ~LargeAt(r, i) => PdeAt(i)' = PdeAt(i) \/ (PdeAt(i) = Absent /\ PdeAt(i)' = Table)
        /\ ~LargeAt(r, i) /\ InMap(r, i) => PdeAt(i)' = IF PdeAt(i) = Absent THEN Table ELSE PdeAt(i)
    BY <1>1, <1>3, <2>1, MapPdesAt DEF PdeAt, LargePhys
  <2>4. /\ PteEntry(i)' = PteEntry(i) \/ PteEntry(i)' = Small(r.phys + PageOffset(r, i))
        /\ ~InMap(r, i) => PteEntry(i)' = PteEntry(i)
        /\ InMap(r, i) /\ PageOffset(r, i) \in SmallOffsets(r) /\ PdeAt(i).kind # "large" =>
             PteEntry(i)' = Small(r.phys + PageOffset(r, i))
    BY <1>1, <1>3, <2>1, MapPtesAt DEF PdeAt, PteEntry
  <2> QED BY <2>2, <2>3, <2>4
<1>12. Absent' = Absent /\ Table' = Table
  BY DEF Absent, Table
<1>13. TableDomains'
  <2>1. DOMAIN pde = 0 .. (IndexMod \div LARGE_PAGE_SIZE) - 1
        /\ DOMAIN pte = 0 .. (IndexMod \div PAGE_SIZE) - 1
    BY <1>1, InTables
  <2>2. DOMAIN pde' = DOMAIN pde /\ pde' = [e \in DOMAIN pde' |-> pde'[e]]
    BY <1>4 DEF MapPdes
  <2>3. DOMAIN pte' = DOMAIN pte /\ pte' = [e \in DOMAIN pte' |-> pte'[e]]
    BY <1>4 DEF MapPtes
  <2>4. IndexMod' = IndexMod
    BY <1>2 DEF IndexMod
  <2> QED BY <2>1, <2>2, <2>3, <2>4 DEF TableDomains
<1>14. EntryKinds'
  <2>1. ASSUME NEW i \in Indices
        PROVE  /\ PdeAt(i)' = Absent \/ PdeAt(i)' = Table \/ \E x \in Int : PdeAt(i)' = Large(x)
               /\ PteEntry(i)' = Absent \/ \E x \in Int : PteEntry(i)' = Small(x)
    <3>1. LargePhys(r, i) \in Int /\ r.phys + PageOffset(r, i) \in Int
      <4>1. r.phys \in Nat /\ At(r) \in Nat /\ i \in Nat
        BY <1>1, <1>3, <1>6, GoodMapFields DEF GoodMap
      <4>2. Floor(LARGE_PAGE_SIZE, i) \in Nat /\ Floor(PAGE_SIZE, i) \in Nat
        BY <4>1, FloorFact, TableSizes
      <4> QED BY <4>1, <4>2 DEF LargePhys, PageOffset
    <3>2. /\ PdeAt(i) = Absent \/ PdeAt(i) = Table \/ \E x \in Int : PdeAt(i) = Large(x)
          /\ PteEntry(i) = Absent \/ \E x \in Int : PteEntry(i) = Small(x)
      BY <1>1 DEF EntryKinds
    <3>3. PdeAt(i)' = Absent \/ PdeAt(i)' = Table \/ \E x \in Int : PdeAt(i)' = Large(x)
      BY <1>11, <3>1, <3>2, Zenon
    <3>4. PteEntry(i)' = Absent \/ \E x \in Int : PteEntry(i)' = Small(x)
      BY <1>11, <3>1, <3>2, Zenon
    <3> QED BY <3>3, <3>4
  <2> QED BY <1>5, <1>12, <2>1, Zenon DEF EntryKinds, Large, Small
<1>15. MapsGood'
  BY <1>5, <1>9 DEF MapsGood
<1>16. MapsPresent'
  <2>1. ASSUME NEW k \in Calls', NEW i \in Indices, InMap(maps'[k], i)
        PROVE  /\ context # "32" => i \div PDIR_RANGE \in dirs'
               /\ PdeAt(i)' # Absent /\ (PdeAt(i)' = Table => PteEntry(i)' # Absent)
    <3>1. CASE k \in Calls
      <4>1. Present(i)
        BY <1>1, <1>7, <2>1, <3>1 DEF MapsPresent
      <4>2. context # "32" => i \div PDIR_RANGE \in dirs'
        BY <1>2, <4>1 DEF Present
      <4>3. PdeAt(i) # Absent /\ (PdeAt(i) = Table => PteEntry(i) # Absent)
        BY <4>1 DEF Present
      <4>4. PdeAt(i)' = Large(LargePhys(r, i)) \/ PdeAt(i)' = PdeAt(i)
        BY <1>11, <4>3
      <4>5. PdeAt(i)' # Absent /\ (PdeAt(i)' = Table => PdeAt(i) = Table)
        BY <4>3, <4>4, EntriesDiffer
      <4>6. PdeAt(i)' = Table => PteEntry(i)' # Absent
        BY <1>11, <4>3, <4>5, EntriesDiffer
      <4> QED BY <4>2, <4>5, <4>6
    <3>2. CASE k = new
      <4>1. InMap(r, i)
        BY <1>7, <2>1, <3>2
      <4>2. context # "32" => i \div PDIR_RANGE \in dirs'
        <5>1. i \div PDIR_RANGE \in {DirOf(r.virt + z * PAGE_SIZE) : z \in 0 .. (r.size \div PAGE_SIZE) - 1}
          BY <1>1, <1>3, <1>6, <4>1, InMapDirs
        <5> QED BY <1>2, <5>1
      <4>3. CASE LargeAt(r, i)
        <5>1. PdeAt(i)' # Absent /\ PdeAt(i)' # Table
          BY <1>11, <4>3, EntriesDiffer
        <5> QED BY <4>2, <5>1
      <4>4. CASE ~LargeAt(r, i)
        <5>1. PdeAt(i)' = IF PdeAt(i) = Absent THEN Table ELSE PdeAt(i)
          BY <1>11, <4>1, <4>4
        <5>2. PdeAt(i)' # Absent
          BY <5>1, EntriesDiffer
        <5>3. ASSUME PdeAt(i)' = Table PROVE PteEntry(i)' # Absent
          <6>1. PdeAt(i) = Absent \/ PdeAt(i) = Table
            BY <5>1, <5>3
          <6>2. PdeAt(i).kind # "large"
            BY <6>1, EntriesDiffer
          <6>3. PteEntry(i)' = Small(r.phys + PageOffset(r, i))
            BY <1>11, <4>1, <4>4, <6>2
          <6> QED BY <6>3, EntriesDiffer
        <5> QED BY <4>2, <5>2, <5>3
      <4> QED BY <4>3, <4>4
    <3> QED BY <1>8, <3>1, <3>2
  <2> QED BY <1>2, <1>5, <1>12, <2>1, Zenon DEF MapsPresent, Present
<1>17. LargeLinked'
  <2>1. ASSUME NEW k \in Calls', NEW i \in Indices, LargeAt(maps'[k], i),
               \A j \in Calls' : j > k => ~LargeAt(maps'[j], i)
        PROVE  PdeAt(i)' = Large(LargePhys(maps'[k], i))
    <3>1. CASE k \in Calls
      <4>1. ~LargeAt(r, i)
        BY <1>7, <1>8, <2>1, <3>1
      <4>2. LastLarge(k, i)
        BY <1>7, <1>8, <2>1, <3>1 DEF LastLarge
      <4>3. PdeAt(i) = Large(LargePhys(maps[k], i))
        BY <1>1, <3>1, <4>2 DEF LargeLinked
      <4>4. PdeAt(i)' = PdeAt(i)
        BY <1>11, <4>1, <4>3, EntriesDiffer
      <4> QED BY <1>7, <3>1, <4>3, <4>4
    <3>2. CASE k = new
      BY <1>7, <1>11, <2>1, <3>2
    <3> QED BY <1>8, <3>1, <3>2
  <2>2. ASSUME NEW k \in Calls', NEW i \in Indices PROVE Large(LargePhys(maps[k], i))' = Large(LargePhys(maps'[k], i))
    BY <1>5 DEF Large, LargePhys
  <2> QED BY <1>5, <2>1, <2>2, Zenon DEF LargeLinked, LastLarge
<1>18. SmallLinked'
  <2>1. ASSUME NEW k \in Calls', NEW i \in Indices, InMap(maps'[k], i),
               \A j \in Calls' : ~LargeAt(maps'[j], i),
               \A j \in Calls' : j > k => ~InMap(maps'[j], i)
        PROVE  PdeAt(i)' = Table /\ PteEntry(i)' = Small(maps'[k].phys + PageOffset(maps'[k], i))
    <3>1. ~LargeAt(r, i) /\ NoLarge(i)
      BY <1>7, <1>8, <2>1 DEF NoLarge
    <3>2. CASE k \in Calls
      <4>1. ~InMap(r, i)
        BY <1>7, <1>8, <2>1, <3>2
      <4>2. LastSmall(k, i)
        BY <1>7, <1>8, <2>1, <3>1, <3>2 DEF LastSmall
      <4>3. PdeAt(i) = Table /\ PteEntry(i) = Small(maps[k].phys + PageOffset(maps[k], i))
        BY <1>1, <3>2, <4>2 DEF SmallLinked
      <4>4. PdeAt(i)' = PdeAt(i) /\ PteEntry(i)' = PteEntry(i)
        BY <1>11, <3>1, <4>1, <4>3, EntriesDiffer
      <4> QED BY <1>7, <3>2, <4>3, <4>4
    <3>3. CASE k = new
      <4>1. InMap(r, i)
        BY <1>7, <2>1, <3>3
      <4>2. PdeAt(i).kind # "large"
        BY <1>1, <3>1 DEF LargeOwned, NoLarge
      <4>3. PdeAt(i) = Absent \/ PdeAt(i) = Table
        BY <1>1, <4>2, EntriesDiffer DEF EntryKinds
      <4>4. PdeAt(i)' = Table
        BY <1>11, <3>1, <4>1, <4>3
      <4>5. PteEntry(i)' = Small(r.phys + PageOffset(r, i))
        BY <1>11, <3>1, <4>1, <4>2
      <4> QED BY <1>7, <3>3, <4>4, <4>5
    <3> QED BY <1>8, <3>2, <3>3
  <2>2. ASSUME NEW k \in Calls', NEW i \in Indices
        PROVE Small(maps[k].phys + PageOffset(maps[k], i))' = Small(maps'[k].phys + PageOffset(maps'[k], i))
    BY <1>5 DEF Small, PageOffset
  <2> QED BY <1>5, <1>12, <2>1, <2>2, Zenon DEF SmallLinked, LastSmall, NoLarge
<1>19. LargeOwned'
  <2>1. ASSUME NEW i \in Indices, PdeAt(i)'.kind = "large"
        PROVE  \E k \in Calls' : LargeAt(maps'[k], i) /\ PdeAt(i)' = Large(LargePhys(maps'[k], i))
    <3>1. CASE LargeAt(r, i)
      <4>1. LargeAt(maps'[new], i) /\ PdeAt(i)' = Large(LargePhys(maps'[new], i))
        BY <1>7, <1>11, <3>1
      <4> QED BY <1>8, <4>1
    <3>2. CASE ~LargeAt(r, i)
      <4>1. PdeAt(i)' = PdeAt(i)
        BY <1>11, <2>1, <3>2, EntriesDiffer
      <4>2. PICK k \in Calls : LargeAt(maps[k], i) /\ PdeAt(i) = Large(LargePhys(maps[k], i))
        BY <1>1, <2>1, <4>1 DEF LargeOwned
      <4> QED BY <1>7, <1>8, <4>1, <4>2
    <3> QED BY <3>1, <3>2
  <2>2. ASSUME NEW k \in Calls', NEW i \in Indices PROVE Large(LargePhys(maps[k], i))' = Large(LargePhys(maps'[k], i))
    BY <1>5 DEF Large, LargePhys
  <2>3. ASSUME NEW i \in Indices, PdeAt(i)'.kind = "large"
        PROVE  \E k \in Calls' : LargeAt(maps[k], i)' /\ PdeAt(i)' = Large(LargePhys(maps[k], i))'
    <3>1. PICK k \in Calls' : LargeAt(maps'[k], i) /\ PdeAt(i)' = Large(LargePhys(maps'[k], i))
      BY <2>1, <2>3
    <3>2. LargeAt(maps[k], i)'
      BY <1>5, <3>1, Zenon
    <3> QED BY <2>2, <3>1, <3>2, Zenon
  <2> QED BY <1>5, <2>3, Zenon DEF LargeOwned
<1>20. Unlinked'
  <2>1. ASSUME NEW i \in Indices, \A k \in Calls' : ~InMap(maps'[k], i)
        PROVE  PteEntry(i)' = Absent
    <3>1. ~InMap(r, i) /\ \A k \in Calls : ~InMap(maps[k], i)
      BY <1>7, <1>8, <2>1
    <3>2. PteEntry(i)' = PteEntry(i)
      BY <1>11, <3>1
    <3> QED BY <1>1, <3>1, <3>2 DEF Unlinked
  <2> QED BY <1>5, <1>12, <2>1, Zenon DEF Unlinked
<1>21. StraysOwned'
  <2>1. ASSUME NEW x \in strays'
        PROVE  \E j, k \in Calls' : \E i \in Indices :
                 j < k /\ LargeAt(maps'[j], i) /\ InMap(maps'[k], i) /\ x = LargePhys(maps'[j], i)
    <3>1. CASE x \in strays
      <4>1. PICK j \in Calls, k \in Calls, i \in Indices :
              j < k /\ LargeAt(maps[j], i) /\ InMap(maps[k], i) /\ x = LargePhys(maps[j], i)
        BY <1>1, <3>1 DEF StraysOwned, Strayed
      <4>2. maps'[j] = maps[j] /\ maps'[k] = maps[k] /\ j \in Calls' /\ k \in Calls'
        BY <1>7, <1>8
      <4> QED BY <4>1, <4>2
    <3>2. CASE x \in MapStrays(r)
      <4>1. PICK o \in SmallOffsets(r) : IsLarge(r.virt + o) /\ x = pde[PdeOf(r.virt + o)].phys
        BY <3>2 DEF MapStrays
      <4>2. o \in 0 .. r.size - 1
        BY <1>1, <1>3, SmallSet DEF GoodMap
      <4> DEFINE i == At(r) + o
      <4>3. Index(r.virt + o) = i
        BY <1>3, <4>2 DEF GoodMap
      <4>4. i \in Indices /\ InMap(r, i)
        <5>1. /\ At(r) \in Nat /\ At(r) + r.size <= IndexMod /\ IndexMod \in Nat /\ r.size \in Nat
          BY <1>1, <1>3, GoodMapFields DEF GoodMap
        <5> QED BY <4>2, <5>1 DEF Indices, InMap
      <4>5. pde[PdeOf(r.virt + o)] = PdeAt(i)
        BY <4>3 DEF PdeOf, PdeAt
      <4> HIDE DEF i
      <4>6. PdeAt(i).kind = "large" /\ x = PdeAt(i).phys
        BY <4>1, <4>5 DEF IsLarge
      <4>7. PICK j \in Calls : LargeAt(maps[j], i) /\ PdeAt(i) = Large(LargePhys(maps[j], i))
        BY <1>1, <4>4, <4>6 DEF LargeOwned
      <4>8. x = LargePhys(maps[j], i)
        BY <4>6, <4>7, EntriesDiffer
      <4>9. /\ maps'[j] = maps[j] /\ j \in Calls' /\ j < new /\ new \in Calls' /\ maps'[new] = r
        BY <1>7, <1>8
      <4> QED BY <4>4, <4>7, <4>8, <4>9
    <3> QED BY <1>4, <3>1, <3>2
  <2>2. \A k, i : LargePhys(maps[k], i)' = LargePhys(maps'[k], i)
    BY <1>5 DEF LargePhys
  <2>3. ASSUME NEW x \in strays' PROVE Strayed(x)'
    <3>1. PICK j \in Calls', k \in Calls', i \in Indices :
            j < k /\ LargeAt(maps'[j], i) /\ InMap(maps'[k], i) /\ x = LargePhys(maps'[j], i)
      BY <2>1, <2>3
    <3>2. LargeAt(maps[j], i)' /\ InMap(maps[k], i)' /\ LargePhys(maps[j], i)' = LargePhys(maps'[j], i)
      BY <1>5, <2>2, <3>1, Zenon
    <3>3. i \in Indices' /\ j < k /\ x = LargePhys(maps[j], i)'
      BY <1>5, <3>1, <3>2
    <3> QED BY <3>2, <3>3, Zenon DEF Strayed
  <2> QED BY <2>3 DEF StraysOwned
<1> QED BY <1>1, <1>2, <1>7, <1>13, <1>14, <1>15, <1>16, <1>17, <1>18, <1>19, <1>20, <1>21
    DEF TablesInv, Contexts

LEMMA TablesSame ==
  ASSUME TablesInv, UNCHANGED <<context, dirs, pde, pte, maps, strays>>
  PROVE  TablesInv'
<1>1. /\ Indices' = Indices
      /\ \A m : At(m)' = At(m)
      /\ \A m : GoodMap(m)' <=> GoodMap(m)
      /\ \A m, i : (InMap(m, i)' <=> InMap(m, i)) /\ PageOffset(m, i)' = PageOffset(m, i)
      /\ \A m, i : LargeAt(m, i)' <=> LargeAt(m, i)
  BY SameContext
<1>2. IndexMod' = IndexMod /\ Calls' = Calls /\ \A i : PdeAt(i)' = PdeAt(i) /\ PteEntry(i)' = PteEntry(i)
  BY DEF IndexMod, Calls, PdeAt, PteEntry
<1>3. /\ \A i : Present(i)' <=> Present(i)
      /\ \A m, i : LargePhys(m, i)' = LargePhys(m, i)
      /\ Absent' = Absent /\ Table' = Table
  BY <1>1, <1>2 DEF Present, LargePhys, Absent, Table
<1>4. TableDomains' /\ MapsSeq'
  BY <1>2 DEF TableDomains, TablesInv, MapsSeq
<1>5. EntryKinds'
  BY <1>1, <1>2, <1>3, Zenon DEF TablesInv, EntryKinds, Large, Small
<1>6. MapsGood' /\ MapsPresent'
  BY <1>1, <1>2, <1>3 DEF TablesInv, MapsGood, MapsPresent
<1>7. /\ \A k, i : LastLarge(k, i)' <=> LastLarge(k, i)
      /\ \A k, i : LastSmall(k, i)' <=> LastSmall(k, i)
      /\ \A x : Strayed(x)' <=> Strayed(x)
  BY <1>1, <1>2, <1>3, Zenon DEF LastLarge, LastSmall, NoLarge, Strayed
<1>8. LargeLinked' /\ SmallLinked'
  BY <1>1, <1>2, <1>3, <1>7, Zenon DEF TablesInv, LargeLinked, SmallLinked, Large, Small
<1>9. LargeOwned' /\ Unlinked' /\ StraysOwned'
  BY <1>1, <1>2, <1>3, <1>7, Zenon DEF TablesInv, LargeOwned, Unlinked, StraysOwned, Large
<1> QED BY <1>4, <1>5, <1>6, <1>8, <1>9 DEF TablesInv

LEMMA IndexOffset ==
  ASSUME context \in Contexts, NEW a, Reach(a),
         NEW d \in {PAGE_SIZE, LARGE_PAGE_SIZE, PDIR_RANGE}
  PROVE  a % d = Index(a) - Floor(d, Index(a)) /\ Floor(d, Index(a)) \in Nat /\ a % d = Index(a) % d
<1> DEFINE i == Index(a)
           y == Floor(d, i)
<1>1. a \in Nat /\ i \in Nat /\ (i = a \/ i = a - Gap)
  BY IndexForm
<1>2. d \in Nat \ {0} /\ Gap % d = 0 /\ Gap \in Nat
  BY TableSizes
<1>3. y \in Nat /\ y <= i /\ i < y + d /\ y % d = 0 /\ i % d = i - y
  BY <1>1, <1>2, FloorFact
<1> HIDE DEF i, y
<1>4. CASE i = a
  BY <1>3, <1>4 DEF i, y
<1>5. CASE i = a - Gap
  <2> DEFINE z == y + Gap
  <2>1. y \in Int /\ Gap \in Int
    BY <1>2, <1>3
  <2>2. z % d = 0
    BY <1>2, <1>3, <2>1, MultipleSum
  <2>3. z \in Nat /\ z <= a /\ a < z + d /\ a - z = i - y
    BY <1>1, <1>2, <1>3, <1>5
  <2> HIDE DEF z
  <2>4. a % d = a - z
    BY <1>1, <1>2, <2>2, <2>3, FloorIs
  <2> QED BY <1>3, <2>3, <2>4 DEF i, y
<1> QED BY <1>1, <1>4, <1>5

(* An address and the start of the large page around it.                   *)
LEMMA BaseIs ==
  ASSUME context \in Contexts, NEW a, Reach(a)
  PROVE  /\ LargeBase(a) \in Nat /\ Reach(LargeBase(a)) /\ LargeBase(a) % LARGE_PAGE_SIZE = 0
         /\ Index(LargeBase(a)) = Floor(LARGE_PAGE_SIZE, Index(a))
<1> DEFINE L == LARGE_PAGE_SIZE
           i == Index(a)
           y == Floor(L, i)
           b == LargeBase(a)
<1>1. /\ a \in Nat /\ a < AddrMod /\ (context = "32" => a < LIMIT)
      /\ i = IF Low(a) THEN a ELSE a - Gap
      /\ ~Low(a) => a >= HALF + Gap
      /\ i \in Nat
  BY IndexForm
<1>2. /\ HALF \in Nat \ {0} /\ LIMIT \in Nat \ {0} /\ AddrMod \in Nat /\ Gap \in Nat /\ AddrMod = Gap + 2 * HALF
      /\ L \in Nat \ {0} /\ HALF % L = 0 /\ Gap % L = 0
  BY TableSizes DEF Gap
<1>3. y \in Nat /\ y <= i /\ i < y + L /\ y % L = 0
  BY <1>1, <1>2, FloorFact
<1>4. a % L = i - y
  BY IndexOffset
<1>5. b = a - (a % L)
  BY DEF LargeBase
<1>6. (y + Gap) % L = 0
  <2>1. y \in Int /\ Gap \in Int
    BY <1>2, <1>3
  <2> QED BY <1>2, <1>3, <2>1, MultipleSum
<1> HIDE DEF b, y, i, L
<1>7. CASE Low(a)
  <2>1. b = y /\ b <= a
    BY <1>1, <1>3, <1>4, <1>5, <1>7
  <2>2. Reach(b) /\ Low(b)
    <3>1. CASE context = "32"
      BY <1>1, <1>2, <1>3, <2>1, <3>1 DEF Reach, Addresses, Low
    <3>2. CASE context # "32"
      <4>1. a < HALF
        BY <1>7, <3>2 DEF Low
      <4>2. b \in 0 .. AddrMod - 1 /\ b < HALF
        BY <1>1, <1>2, <1>3, <2>1, <4>1
      <4> QED BY <3>2, <4>2 DEF Reach, Addresses, Low, is_canonical_addr
    <3> QED BY <3>1, <3>2
  <2>3. Index(b) = b
    BY <2>2, IndexForm
  <2> QED BY <1>3, <2>1, <2>2, <2>3 DEF b, y, i, L
<1>8. CASE ~Low(a)
  <2>1. context # "32" /\ i = a - Gap /\ a >= HALF + Gap
    BY <1>1, <1>8 DEF Low
  <2>2. b = y + Gap /\ b <= a /\ b \in Nat
    BY <1>1, <1>2, <1>3, <1>4, <1>5, <2>1
  <2>3. HALF <= y
    <3>1. CASE y < HALF
      <4>1. y + L <= HALF
        <5>1. y \in Int /\ HALF \in Int
          BY <1>2, <1>3
        <5> QED BY <1>2, <1>3, <3>1, <5>1, MultipleGap
      <4> QED BY <1>1, <1>2, <1>3, <2>1, <4>1
    <3> QED BY <1>2, <1>3, <3>1
  <2>4. b \in 0 .. AddrMod - 1 /\ b >= HALF + Gap /\ ~(b < HALF)
    BY <1>1, <1>2, <1>3, <2>2, <2>3
  <2>5. is_canonical_addr(b)
    BY <1>2, <2>4 DEF is_canonical_addr
  <2>6. Reach(b) /\ ~Low(b)
    BY <2>1, <2>4, <2>5 DEF Reach, Addresses, Low
  <2>7. Index(b) = b - Gap
    BY <2>6, IndexForm
  <2>8. b - Gap = y /\ b % L = 0
    BY <1>2, <1>3, <1>6, <2>2
  <2> QED BY <2>2, <2>6, <2>7, <2>8 DEF b, y, i, L
<1> QED BY <1>7, <1>8

(* The large pages of a mapping are those it has all of.                   *)
LEMMA LargeAtIs ==
  ASSUME context \in Contexts, TableDomains, NEW m, GoodMap(m), NEW a, Reach(a)
  PROVE  /\ IncludesLarge(m, a) <=> LargeAt(m, Index(a))
         /\ IncludesLarge(m, a) => LargeBase(a) - m.virt = Floor(LARGE_PAGE_SIZE, Index(a)) - At(m)
<1> DEFINE L == LARGE_PAGE_SIZE
           i == Index(a)
           y == Floor(L, i)
           b == LargeBase(a)
           v == m.virt
           s == m.size
           x == b - v
           h0 == (L - (v % L)) % L
<1>1. b \in Nat /\ Reach(b) /\ b % L = 0 /\ Index(b) = y
  BY BaseIs
<1>2. L \in Nat \ {0} /\ v \in Nat /\ s \in Nat \ {0} /\ At(m) \in Nat
  BY TableSizes, GoodMapFields DEF GoodMap
<1>3. /\ b \in v .. v + s - 1 <=> At(m) <= y /\ y < At(m) + s
      /\ b \in v .. v + s - 1 => y - At(m) = x
  BY <1>1, AddressInMap DEF InMap
<1>4. i \in Indices /\ y \in Nat
  <2>1. i \in Nat /\ i < IndexMod /\ IndexMod \in Nat
    BY IndexForm, TableSizes DEF IndexMod
  <2>2. i \in Indices
    <3> HIDE DEF i
    <3> QED BY <2>1 DEF Indices
  <2>3. y \in Nat
    BY <1>2, <2>1, FloorFact
  <2> QED BY <2>2, <2>3
<1>5. IncludesLarge(m, a) <=> UseLarge(v, m.phys) /\ v <= b /\ b + L <= v + s
  BY DEF IncludesLarge
<1>6. LargeAt(m, i) <=> y - At(m) \in LargeOffsets(m)
  BY DEF LargeAt
<1> HIDE DEF b, y, i, v, s
<1>7. ASSUME LargeAt(m, i) PROVE IncludesLarge(m, a)
  <2>1. At(m) <= y /\ y + L <= At(m) + s
    BY <1>4, <1>7, MapPdesAt DEF y, s
  <2>2. b \in v .. v + s - 1 /\ y - At(m) = x
    <3> HIDE DEF L
    <3> QED BY <1>2, <1>3, <1>4, <2>1
  <2>3. v <= b /\ b + L <= v + s
    <3> HIDE DEF L
    <3> QED BY <1>1, <1>2, <1>4, <2>1, <2>2
  <2>4. UseLarge(v, m.phys)
    <3>1. HeadOf(m) \in Nat /\ BodyOf(m) \in Nat /\ HeadOf(m) <= y - At(m) /\ y - At(m) < HeadOf(m) + BodyOf(m)
      BY <1>6, <1>7, HeadAndBody, LargeSet
    <3>2. BodyOf(m) # 0
      BY <1>2, <1>4, <3>1
    <3> QED BY <3>2 DEF BodyOf, LargeSize, v
  <2> QED BY <1>5, <2>3, <2>4
<1>8. ASSUME IncludesLarge(m, a) PROVE LargeAt(m, i) /\ x = y - At(m)
  <2>1. UseLarge(v, m.phys) /\ v <= b /\ b + L <= v + s
    BY <1>5, <1>8
  <2>2. b \in v .. v + s - 1
    <3> HIDE DEF L
    <3> QED BY <1>1, <1>2, <2>1
  <2>3. y - At(m) = x /\ x \in Nat /\ x + L <= s
    <3> HIDE DEF L
    <3> QED BY <1>1, <1>2, <1>3, <2>1, <2>2
  <2>4. h0 \in Nat /\ h0 < L /\ (v + h0) % L = 0
    <3> DEFINE f == Floor(L, v)
    <3>1. f \in Nat /\ f <= v /\ v < f + L /\ v % L = v - f /\ f % L = 0
      BY <1>2, FloorFact
    <3>2. L % L = 0
      <4>1. (L * 1) % L = 0
        BY <1>2, Multiple
      <4> QED BY <1>2, <4>1
    <3>3. (f + L) % L = 0
      <4>1. f \in Int /\ L \in Int
        BY <1>2, <3>1
      <4> QED BY <1>2, <3>1, <3>2, <4>1, MultipleSum
    <3> HIDE DEF f, L
    <3>4. CASE v = f
      <4>1. h0 = 0
        BY <1>2, <3>1, <3>2, <3>4
      <4>2. v + h0 = f
        BY <3>1, <3>4, <4>1
      <4> QED BY <1>2, <3>1, <4>1, <4>2
    <3>5. CASE v # f
      <4>1. L - (v % L) \in Nat /\ L - (v % L) < L /\ L - (v % L) = (f + L) - v
        BY <1>2, <3>1, <3>5
      <4>2. h0 = (f + L) - v
        BY <1>2, <4>1
      <4>3. v + h0 = f + L
        BY <1>2, <3>1, <4>2
      <4> QED BY <1>2, <3>3, <4>1, <4>2, <4>3
    <3> QED BY <3>4, <3>5
  <2> HIDE DEF h0
  <2>5. v + h0 <= b
    <3>1. CASE b < v + h0
      <4>1. v + h0 \in Nat
        BY <1>2, <2>4
      <4>2. b + L <= v + h0
        <5>1. b \in Int /\ v + h0 \in Int
          BY <1>1, <4>1
        <5> QED BY <1>1, <1>2, <2>4, <3>1, <5>1, MultipleGap
      <4> HIDE DEF L
      <4> QED BY <1>1, <1>2, <2>1, <2>4, <4>2
    <3> QED BY <1>1, <1>2, <2>4, <3>1
  <2>6. HeadOf(m) = h0
    <3>1. HeadOf(m) = Min({s, h0})
      BY <2>1 DEF HeadOf, HeadSize, h0, v, s
    <3>2. h0 <= s /\ s \in Nat /\ h0 \in Nat
      <4> HIDE DEF L
      <4> QED BY <1>1, <1>2, <2>1, <2>4, <2>5
    <3>3. Min({s, h0}) = h0
      <4>1. {s, h0} \subseteq Nat /\ {s, h0} # {}
        BY <3>2
      <4>2. Min({s, h0}) \in {s, h0} /\ \A n \in {s, h0} : Min({s, h0}) <= n
        BY <4>1, MinElement
      <4> QED BY <3>2, <4>2
    <3> QED BY <3>1, <3>3
  <2> DEFINE z == s - h0
             g == Floor(L, z)
  <2>7. z \in Nat /\ x - h0 \in Nat /\ (x - h0) + L <= z
    <3> HIDE DEF L
    <3> QED BY <1>1, <1>2, <2>1, <2>3, <2>4, <2>5
  <2>8. BodyOf(m) = g
    <3>1. BodyOf(m) = (z \div L) * L
      BY <2>1, <2>6 DEF BodyOf, HeadOf, LargeSize, v, s
    <3>2. z \div L \in Nat
      BY <1>2, <2>7, FloorFact
    <3> HIDE DEF L, z
    <3>3. (z \div L) * L = L * (z \div L)
      BY <1>2, <3>2
    <3> QED BY <3>1, <3>3 DEF Floor
  <2>9. g \in Nat /\ z < g + L
    BY <1>2, <2>7, FloorFact
  <2>10. (x - h0) % L = 0
    <3>1. b \in Int /\ v + h0 \in Int
      BY <1>1, <1>2, <2>4
    <3>2. (b - (v + h0)) % L = 0
      BY <1>1, <1>2, <2>4, <3>1, MultipleSum
    <3>3. b - (v + h0) = x - h0
      BY <1>1, <1>2, <2>4
    <3> QED BY <3>2, <3>3
  <2>11. h0 <= x /\ x < h0 + g
    <3> HIDE DEF L, z, g, x
    <3> QED BY <1>2, <2>3, <2>4, <2>7, <2>9
  <2>12. x \in LargeOffsets(m)
    BY <2>3, <2>6, <2>8, <2>10, <2>11, LargeSet
  <2> QED BY <1>6, <2>3, <2>12
<1> QED BY <1>7, <1>8 DEF i, y, b, v

LEMMA FaithfulTables == TablesInv => TablesFaithful
<1> SUFFICES ASSUME TablesInv PROVE TablesFaithful
  OBVIOUS
<1>1. /\ context \in Contexts /\ TableDomains /\ EntryKinds /\ MapsSeq
      /\ MapsGood /\ MapsPresent /\ LargeLinked /\ SmallLinked
      /\ LargeOwned /\ Unlinked /\ StraysOwned
  BY DEF TablesInv
<1>2. Calls = 1 .. Len(maps)
  BY DEF Calls
<1>3. ASSUME NEW addr \in Walkable
      PROVE  /\ \A k \in 1 .. Len(maps) : MappedBy(k, addr) => Walk(addr) = Target(maps[k], addr)
             /\ ~Mapped(addr) => Walk(addr) = -1
  <2> DEFINE i == Index(addr)
             e == i \div LARGE_PAGE_SIZE
             p == i \div PAGE_SIZE
  <2>1. Reach(addr)
    BY DEF Reach, Walkable
  <2>2. addr \in Nat /\ i \in Nat /\ i < IndexMod /\ IndexMod \in Nat
    BY <1>1, <2>1, IndexForm, TableSizes DEF IndexMod
  <2>3. i \in Indices
    BY <2>2 DEF Indices
  <2>4. \A d \in {PAGE_SIZE, LARGE_PAGE_SIZE} : addr % d = i - Floor(d, i) /\ Floor(d, i) \in Nat
    BY <1>1, <2>1, IndexOffset
  <2>5. ASSUME NEW k \in Calls
        PROVE  /\ Includes(maps[k], addr) <=> InMap(maps[k], i)
               /\ Includes(maps[k], addr) => i - At(maps[k]) = addr - maps[k].virt
               /\ IncludesLarge(maps[k], addr) <=> LargeAt(maps[k], i)
               /\ maps[k].phys \in Nat /\ At(maps[k]) \in Nat /\ maps[k].virt \in Nat
    <3> DEFINE m == maps[k]
    <3>1. GoodMap(m)
      BY <1>1 DEF MapsGood
    <3> HIDE DEF m
    <3>2. m.phys \in Nat /\ At(m) \in Nat /\ m.virt \in Nat
      BY <1>1, <3>1, GoodMapFields DEF GoodMap
    <3>3. /\ addr \in m.virt .. m.virt + m.size - 1 <=> InMap(m, i)
          /\ addr \in m.virt .. m.virt + m.size - 1 => i - At(m) = addr - m.virt
      BY <1>1, <2>1, <3>1, AddressInMap
    <3>4. IncludesLarge(m, addr) <=> LargeAt(m, i)
      BY <1>1, <2>1, <3>1, LargeAtIs
    <3> QED BY <3>2, <3>3, <3>4 DEF Includes, m
  <2>6. Walk(addr) = CASE context # "32" /\ i \div PDIR_RANGE \notin dirs -> -1
                       [] PdeAt(i).kind = "large" -> PdeAt(i).phys + (addr % LARGE_PAGE_SIZE)
                       [] PdeAt(i).kind = "table" /\ PteEntry(i).kind = "small" ->
                            PteEntry(i).phys + (addr % PAGE_SIZE)
                       [] OTHER -> -1
    BY DEF Walk, PdeOf, PteOf, DirOf, PdeAt, PteEntry
  <2> HIDE DEF i
  <2>7. ASSUME NEW k \in Calls, MappedBy(k, addr) PROVE Walk(addr) = Target(maps[k], addr)
    <3> DEFINE m == maps[k]
    <3>1. Includes(m, addr)
      BY <2>7 DEF MappedBy
    <3>2. InMap(m, i) /\ i - At(m) = addr - m.virt /\ m.phys \in Nat /\ At(m) \in Nat /\ m.virt \in Nat
      BY <2>5, <3>1
    <3>3. context # "32" => i \div PDIR_RANGE \in dirs
      BY <1>1, <2>3, <3>2 DEF MapsPresent, Present
    <3>4. CASE IncludesLarge(m, addr)
      <4> DEFINE y == Floor(LARGE_PAGE_SIZE, i)
      <4>1. LastLarge(k, i)
        BY <1>2, <2>5, <2>7, <3>4 DEF LastLarge, MappedBy
      <4>2. PdeAt(i) = Large(m.phys + (y - At(m)))
        BY <1>1, <2>3, <4>1 DEF LargeLinked, LargePhys
      <4>3. PdeAt(i).kind = "large" /\ PdeAt(i).phys = m.phys + (y - At(m))
        BY <4>2, EntriesDiffer
      <4>4. Walk(addr) = PdeAt(i).phys + (addr % LARGE_PAGE_SIZE)
        BY <2>6, <3>3, <4>3
      <4>5. addr % LARGE_PAGE_SIZE = i - y /\ y \in Nat
        BY <2>4
      <4> HIDE DEF y, m
      <4>6. (m.phys + (y - At(m))) + (i - y) = m.phys + (addr - m.virt)
        BY <2>2, <3>2, <4>5
      <4> QED BY <4>3, <4>4, <4>5, <4>6 DEF Target, m
    <3>5. CASE ~IncludesLarge(m, addr)
      <4> DEFINE y == Floor(PAGE_SIZE, i)
      <4>1. \A j \in Calls : ~IncludesLarge(maps[j], addr) /\ (j > k => ~Includes(maps[j], addr))
        BY <1>2, <2>7, <3>5 DEF MappedBy
      <4>2. LastSmall(k, i)
        BY <2>5, <3>2, <4>1 DEF LastSmall, NoLarge
      <4>3. PdeAt(i) = Table /\ PteEntry(i) = Small(m.phys + (y - At(m)))
        BY <1>1, <2>3, <4>2 DEF SmallLinked, PageOffset
      <4>4. PdeAt(i).kind = "table" /\ PteEntry(i).kind = "small" /\ PteEntry(i).phys = m.phys + (y - At(m))
        BY <4>3, EntriesDiffer
      <4>5. Walk(addr) = PteEntry(i).phys + (addr % PAGE_SIZE)
        BY <2>6, <3>3, <4>4
      <4>6. addr % PAGE_SIZE = i - y /\ y \in Nat
        BY <2>4
      <4> HIDE DEF y, m
      <4>7. (m.phys + (y - At(m))) + (i - y) = m.phys + (addr - m.virt)
        BY <2>2, <3>2, <4>6
      <4> QED BY <4>4, <4>5, <4>6, <4>7 DEF Target, m
    <3> QED BY <3>4, <3>5
  <2>8. ASSUME ~Mapped(addr) PROVE Walk(addr) = -1
    <3>1. \A k \in Calls : ~InMap(maps[k], i)
      BY <1>2, <2>5, <2>8 DEF Mapped
    <3>2. PdeAt(i).kind # "large"
      <4>1. ASSUME PdeAt(i).kind = "large" PROVE FALSE
        <5>1. PICK k \in Calls : LargeAt(maps[k], i)
          BY <1>1, <2>3, <4>1 DEF LargeOwned
        <5>2. InMap(maps[k], i)
          BY <1>1, <2>3, <5>1, LargeInMap DEF MapsGood
        <5> QED BY <3>1, <5>2
      <4> QED BY <4>1
    <3>3. PteEntry(i) = Absent
      BY <1>1, <2>3, <3>1 DEF Unlinked
    <3>4. PteEntry(i).kind # "small"
      BY <3>3, EntriesDiffer
    <3> QED BY <2>6, <3>2, <3>4
  <2> QED BY <1>2, <2>7, <2>8
<1>4. ASSUME NEW x \in strays
      PROVE  \E j, k \in 1 .. Len(maps) : \E addr \in Walkable :
               /\ j < k /\ IncludesLarge(maps[j], addr) /\ Includes(maps[k], addr)
               /\ x = Target(maps[j], LargeBase(addr))
  <2>1. PICK j \in Calls, k \in Calls, i \in Indices :
          j < k /\ LargeAt(maps[j], i) /\ InMap(maps[k], i) /\ x = LargePhys(maps[j], i)
    BY <1>1 DEF StraysOwned, Strayed
  <2> DEFINE m == maps[j]
             n == maps[k]
             o == i - At(n)
             addr == n.virt + o
  <2>2. GoodMap(m) /\ GoodMap(n) /\ i \in Nat
    BY <1>1, <2>1, InTables DEF MapsGood
  <2>3. At(n) \in Nat /\ n.size \in Nat /\ At(m) \in Nat /\ m.phys \in Nat /\ n.virt \in Nat
    BY <1>1, <2>2, GoodMapFields DEF GoodMap
  <2>4. At(n) <= i /\ i < At(n) + n.size
    BY <2>1 DEF InMap
  <2> HIDE DEF m, n
  <2>5. o \in 0 .. n.size - 1 /\ At(n) + o = i
    BY <2>2, <2>3, <2>4
  <2>6. Reach(addr) /\ Index(addr) = i
    BY <2>2, <2>5 DEF GoodMap
  <2>7. addr \in Walkable /\ Includes(n, addr)
    <3>1. addr \in n.virt .. n.virt + n.size - 1
      BY <2>3, <2>5
    <3> QED BY <2>6, <3>1 DEF Reach, Walkable, Includes
  <2> HIDE DEF addr
  <2>8. IncludesLarge(m, addr) /\ LargeBase(addr) - m.virt = Floor(LARGE_PAGE_SIZE, i) - At(m)
    <3>1. LargeAt(m, Index(addr))
      BY <2>1, <2>6 DEF m
    <3>2. IncludesLarge(m, addr)
      BY <1>1, <2>2, <2>6, <3>1, LargeAtIs
    <3>3. LargeBase(addr) - m.virt = Floor(LARGE_PAGE_SIZE, Index(addr)) - At(m)
      BY <1>1, <2>2, <2>6, <3>2, LargeAtIs
    <3> QED BY <2>6, <3>2, <3>3
  <2>9. x = Target(m, LargeBase(addr))
    BY <2>1, <2>8 DEF Target, LargePhys, m
  <2> QED BY <1>2, <2>1, <2>7, <2>8, <2>9 DEF m, n
<1> QED BY <1>3, <1>4 DEF TablesFaithful

LEMMA TablesSteps ==
  ASSUME TablesInv, [MmuNext]_mmuVars
  PROVE  TablesInv'
<1>1. CASE \E r \in MapRequests[context] : MmuMap(r)
  BY <1>1, MapStep
<1>2. CASE \E q \in OpRequests[context] : OpBegin(q)
  BY <1>2, TablesSame DEF OpBegin
<1>3. CASE OpStep
  BY <1>3, TablesSame DEF OpStep
<1>4. CASE OpEnd
  BY <1>4, TablesSame DEF OpEnd
<1>5. CASE UNCHANGED mmuVars
  BY <1>5, TablesSame DEF mmuVars
<1> QED BY <1>1, <1>2, <1>3, <1>4, <1>5 DEF MmuNext

(* The page tables mean what mmu_map() was asked for, in all three modes   *)
(* and for all sequences of calls, overlapping ones too: an address leads  *)
(* to its physical address in the last call that maps it, but in a large   *)
(* page to that in the last call for the whole page; all others fault; and *)
(* page table entries that land in a large page's memory are those of a    *)
(* later call for a small page within it.                                  *)
THEOREM MmuTablesFaithful == MmuSpec => []TablesFaithful
<1>1. TablesInv /\ [MmuNext]_mmuVars => TablesInv'
  BY TablesSteps
<1> QED BY <1>1, TablesStart, FaithfulTables, PTL DEF MmuSpec

-----------------------------------------------------------------------------
(***************************************************************************)
(* The memory operations.                                                  *)
(***************************************************************************)

(* An index of small pages from that of large ones.                        *)
LEMMA QuotientSplit ==
  ASSUME NEW a \in Nat \ {0}, NEW b \in Nat \ {0}, b % a = 0, NEW x \in Nat
  PROVE  (x \div b) * (b \div a) + ((x % b) \div a) = x \div a
<1> DEFINE q == x \div b
           w == x % b
           c == b \div a
           u == w \div a
           v == w % a
           k == q * c + u
<1>1. q \in Nat /\ w \in Nat /\ x = b * q + w
  BY DivMod
<1>2. c \in Nat /\ b = a * c
  BY Multiple, DivMod
<1>3. u \in Nat /\ v \in Nat /\ v < a /\ w = a * u + v
  BY <1>1, DivMod
<1> HIDE DEF q, w, c, u, v
<1>4. k \in Nat /\ x = a * k + v /\ a * k \in Nat
  <2>1. q * c \in Nat /\ b * q = a * (q * c)
    BY <1>1, <1>2
  <2>2. a * k = a * (q * c) + a * u
    BY <1>3, <2>1
  <2>3. a * (q * c) \in Nat /\ a * u \in Nat
    BY <1>3, <2>1
  <2> HIDE DEF k
  <2>4. x = a * k + v /\ a * k \in Nat
    BY <1>1, <1>3, <2>1, <2>2, <2>3
  <2> QED BY <1>3, <2>1, <2>4 DEF k
<1> HIDE DEF k
<1>5. a * k <= x /\ x < a * k + a /\ k \in Int
  BY <1>3, <1>4
<1>6. (a * k) % a = 0
  BY <1>5, Multiple
<1>7. x \div a = (a * k) \div a
  BY <1>4, <1>5, <1>6, FloorIs
<1>8. (a * k) \div a = k
  BY <1>4
<1> QED BY <1>7, <1>8 DEF k, q, u, w, c

(* What the cached pointers of an operation are good for.                  *)
Cached(w) ==
  /\ context # "32" /\ w.pdir # {} /\ w.addr % PDIR_RANGE # 0 => w.pdir = {DirOf(w.addr)}
  /\ w.ptbl # {} /\ w.addr % LARGE_PAGE_SIZE # 0 =>
       w.ptbl = {PdeOf(w.addr)} /\ pde[PdeOf(w.addr)] = Table

LEMMA Lookup ==
  ASSUME TablesInv, NEW w, Reach(w.addr), Cached(w), NEW i, i = Index(w.addr)
  PROVE  /\ context # "32" => Pdir(w) = {i \div PDIR_RANGE}
         /\ EntryOf(w) = i \div LARGE_PAGE_SIZE
         /\ Ptbl(w) = IF pde[i \div LARGE_PAGE_SIZE].kind = "large" THEN {} ELSE {i \div LARGE_PAGE_SIZE}
         /\ Ptbl(w) # {} => PteAt(w) = i \div PAGE_SIZE
         /\ FreshTable(w) \/ pde[i \div LARGE_PAGE_SIZE] = Table
<1> DEFINE a == w.addr
           L == LARGE_PAGE_SIZE
           D == PDIR_RANGE
           e == i \div L
<1>1. context \in Contexts /\ i \in Nat
  BY IndexForm DEF TablesInv
<1>2. L \in Nat \ {0} /\ D \in Nat \ {0} /\ PAGE_SIZE \in Nat \ {0} /\ D % L = 0 /\ L % PAGE_SIZE = 0
  BY TableSizes
<1>3. a % D = i % D /\ a % L = i % L
  BY <1>1, IndexOffset
<1>4. DirOf(a) = i \div D /\ PdeOf(a) = e /\ PteOf(a) = i \div PAGE_SIZE
  BY DEF DirOf, PdeOf, PteOf
<1>5. ASSUME context # "32" PROVE Pdir(w) = {i \div D}
  BY <1>4, <1>5 DEF Pdir, Cached
<1>6. EntryOf(w) = e
  <2>1. CASE context = "32"
    BY <1>4, <2>1 DEF EntryOf
  <2>2. CASE context # "32"
    <3>1. (CHOOSE d \in Pdir(w) : TRUE) = i \div D
      BY <1>5, <2>2
    <3>2. EntryOf(w) = (i \div D) * (D \div L) + ((i % D) \div L)
      BY <1>3, <2>2, <3>1 DEF EntryOf
    <3> QED BY <1>1, <1>2, <3>2, QuotientSplit
  <2> QED BY <2>1, <2>2
<1>7. FreshTable(w) \/ (w.ptbl = {e} /\ pde[e] = Table)
  BY <1>4 DEF FreshTable, Cached
<1> HIDE DEF e
<1>8. Ptbl(w) = IF pde[e].kind = "large" THEN {} ELSE {e}
  <2>1. CASE FreshTable(w)
    BY <1>6, <2>1 DEF Ptbl
  <2>2. CASE ~FreshTable(w)
    <3>1. Ptbl(w) = {e} /\ pde[e].kind # "large"
      BY <1>7, <2>2, EntriesDiffer DEF Ptbl
    <3> QED BY <3>1
  <2> QED BY <2>1, <2>2
<1>9. ASSUME Ptbl(w) # {} PROVE PteAt(w) = i \div PAGE_SIZE
  <2>1. (CHOOSE x \in Ptbl(w) : TRUE) = e
    BY <1>8, <1>9
  <2>2. PteAt(w) = e * (L \div PAGE_SIZE) + ((i % L) \div PAGE_SIZE)
    BY <1>3, <2>1 DEF PteAt
  <2> QED BY <1>1, <1>2, <2>2, QuotientSplit DEF e
<1> QED BY <1>5, <1>6, <1>7, <1>8, <1>9 DEF e

LEMMA IndexInside ==
  ASSUME context \in Contexts, NEW a, Reach(a)
  PROVE  Index(a) \in Indices
<1>1. Index(a) \in Nat /\ Index(a) < IndexMod /\ IndexMod \in Nat
  BY IndexForm, TableSizes DEF IndexMod
<1> QED BY <1>1 DEF Indices

(* An operation gives up on an address that is not mapped.                 *)
LEMMA GivesUp ==
  ASSUME TablesInv, NEW w, Reach(w.addr), Cached(w), Unmapped(w)
  PROVE  ~Mapped(w.addr)
<1> DEFINE i == Index(w.addr)
           e == i \div LARGE_PAGE_SIZE
<1>1. /\ context # "32" => Pdir(w) = {i \div PDIR_RANGE}
      /\ EntryOf(w) = e
      /\ Ptbl(w) = IF pde[e].kind = "large" THEN {} ELSE {e}
      /\ Ptbl(w) # {} => PteAt(w) = i \div PAGE_SIZE
  BY Lookup
<1>2. context \in Contexts /\ EntryKinds /\ MapsGood /\ MapsPresent /\ i \in Indices
  BY IndexInside DEF TablesInv
<1>3. ASSUME NEW k \in Calls, Includes(maps[k], w.addr) PROVE FALSE
  <2>1. InMap(maps[k], i)
    BY <1>2, <1>3, AddressInMap DEF MapsGood, Includes
  <2>2. Present(i)
    BY <1>2, <2>1 DEF MapsPresent
  <2>3. context # "32" => i \div PDIR_RANGE \in dirs
    BY <2>2 DEF Present
  <2>4. pde[e] # Absent
    BY <2>2 DEF Present, PdeAt
  <2>5. pde[e].kind # "large" => pte[i \div PAGE_SIZE] # Absent
    <3>1. PdeAt(i) = Table \/ \E x \in Int : PdeAt(i) = Large(x)
      BY <1>2, <2>4 DEF EntryKinds, PdeAt
    <3>2. PdeAt(i) = Table \/ PdeAt(i).kind = "large"
      BY <3>1, EntriesDiffer
    <3> QED BY <2>2, <3>2 DEF Present, PdeAt, PteEntry
  <2> HIDE DEF i, e
  <2>6. ~(context = "64" /\ Pdir(w) \cap dirs = {})
    BY <1>1, <2>3
  <2>7. ~(Ptbl(w) # {} /\ pte[PteAt(w)] = Absent)
    BY <1>1, <2>5
  <2> QED BY <1>1, <2>4, <2>6, <2>7 DEF Unmapped
<1> QED BY <1>3 DEF Mapped, Calls

(* Two addresses with one entry.                                           *)
LEMMA SameEntry ==
  ASSUME context \in Contexts, NEW a, Reach(a), NEW b, Reach(b), NEW k \in Nat,
         Index(b) = Index(a) + k, NEW d \in {PAGE_SIZE, LARGE_PAGE_SIZE, PDIR_RANGE},
         Index(a) + k < Floor(d, Index(a)) + d
  PROVE  Index(b) \div d = Index(a) \div d /\ b % d = (a % d) + k
<1> DEFINE i == Index(a)
           j == Index(b)
           y == Floor(d, i)
<1>1. d \in Nat \ {0} /\ i \in Nat /\ j \in Nat /\ j = i + k /\ i + k < y + d
  BY IndexForm, TableSizes
<1>2. y \in Nat /\ y <= i /\ y % d = 0 /\ y \div d = i \div d
  BY <1>1, FloorFact
<1>3. a % d = i - y
  BY IndexOffset
<1>4. b % d = j % d
  BY IndexOffset
<1> HIDE DEF i, j, y
<1>5. y <= j /\ j < y + d
  BY <1>1, <1>2
<1>6. j \div d = y \div d /\ j % d = j - y
  BY <1>1, <1>2, <1>5, FloorIs
<1>7. j - y = (i - y) + k
  BY <1>1, <1>2
<1> QED BY <1>2, <1>3, <1>4, <1>6, <1>7 DEF i, j

(* The page an operation finds is the one the processor finds, for all of  *)
(* the bytes up to its end.                                                *)
LEMMA Found ==
  ASSUME TablesInv, context # "arm64", NEW w, Reach(w.addr), Cached(w), ~Unmapped(w),
         NEW i, i = Index(w.addr)
  PROVE  /\ PageLeft(w) \in Nat \ {0}
         /\ i + PageLeft(w) <= Floor(PDIR_RANGE, i) + PDIR_RANGE
         /\ Ptbl(w) # {} => /\ i + PageLeft(w) <= Floor(LARGE_PAGE_SIZE, i) + LARGE_PAGE_SIZE
                            /\ pde[i \div LARGE_PAGE_SIZE] = Table
         /\ \A k \in Nat : k < PageLeft(w) /\ Reach(w.addr + k) /\ Index(w.addr + k) = i + k =>
              Walk(w.addr + k) = PageAddr(w) + k
<1> DEFINE a == w.addr
           L == LARGE_PAGE_SIZE
           D == PDIR_RANGE
           P == PAGE_SIZE
           e == i \div L
           p == i \div P
<1>1. context \in Contexts /\ EntryKinds
  BY DEF TablesInv
<1>2. i \in Indices /\ i \in Nat
  BY <1>1, IndexInside, IndexForm
<1>3. L \in Nat \ {0} /\ D \in Nat \ {0} /\ P \in Nat \ {0} /\ D % L = 0 /\ L % P = 0
  BY TableSizes
<1>4. /\ context # "32" => Pdir(w) = {i \div D}
      /\ EntryOf(w) = e
      /\ Ptbl(w) = IF pde[e].kind = "large" THEN {} ELSE {e}
      /\ Ptbl(w) # {} => PteAt(w) = p
      /\ FreshTable(w) \/ pde[e] = Table
  BY Lookup
<1>5. /\ Floor(L, i) \in Nat /\ Floor(L, i) <= i /\ i < Floor(L, i) + L
  BY <1>2, <1>3, FloorFact
<1>6. /\ Floor(P, i) \in Nat /\ Floor(P, i) <= i /\ i < Floor(P, i) + P
  BY <1>2, <1>3, FloorFact
<1>7. Floor(D, i) \in Nat
  BY <1>2, <1>3, FloorFact
<1>8. Floor(L, i) + L <= Floor(D, i) + D
  BY <1>2, <1>3, FloorOfFloor
<1>9. Floor(P, i) + P <= Floor(L, i) + L
  BY <1>2, <1>3, FloorOfFloor
<1>10. a % L = i - Floor(L, i)
  BY <1>1, IndexOffset
<1>11. a % P = i - Floor(P, i)
  BY <1>1, IndexOffset
<1> HIDE DEF e, p
<1>12. context # "32" => i \div D \in dirs
  <2>1. context # "32" => context = "64"
    BY <1>1 DEF Contexts
  <2> QED BY <1>4, <2>1 DEF Unmapped
<1>13. pde[e] # Absent
  <2>1. FreshTable(w) => pde[e] # Absent
    BY <1>4 DEF Unmapped
  <2> QED BY <1>4, <2>1, EntriesDiffer
<1>14. pde[e] = Table \/ \E x \in Int : pde[e] = Large(x)
  BY <1>1, <1>2, <1>13 DEF EntryKinds, PdeAt, e
<1>15. pte[p] = Absent \/ \E x \in Int : pte[p] = Small(x)
  BY <1>1, <1>2 DEF EntryKinds, PteEntry, p
<1>16. ASSUME NEW k \in Nat, Reach(a + k), Index(a + k) = i + k, i + k < Floor(D, i) + D
       PROVE  context # "32" => DirOf(a + k) \in dirs
  <2>1. Index(a + k) \div D = i \div D
    BY <1>1, <1>16, SameEntry
  <2> QED BY <1>12, <2>1 DEF DirOf
<1>17. CASE pde[e].kind = "large"
  <2>1. Ptbl(w) = {} /\ PageLeft(w) = L - (i - Floor(L, i)) /\ PageAddr(w) = pde[e].phys + (i - Floor(L, i))
    BY <1>4, <1>10, <1>17 DEF PageLeft, PageAddr
  <2>2. pde[e].phys \in Int
    <3>1. pde[e] # Table
      BY <1>17, EntriesDiffer
    <3>2. PICK x \in Int : pde[e] = Large(x)
      BY <1>14, <3>1
    <3> QED BY <3>2, EntriesDiffer
  <2> DEFINE y == Floor(L, i)
             z == Floor(D, i) + D
             left == PageLeft(w)
             f == pde[e].phys
  <2>3. /\ y \in Nat /\ y <= i /\ i < y + L /\ left = L - (i - y) /\ y + L <= z /\ z \in Nat
        /\ PageAddr(w) = f + (i - y) /\ f \in Int
    BY <1>3, <1>5, <1>7, <1>8, <2>1, <2>2
  <2>4. ASSUME NEW k \in Nat, k < left, Reach(a + k), Index(a + k) = i + k
        PROVE  Walk(a + k) = PageAddr(w) + k
    <3>1. i + k < y + L /\ i + k < z
      <4> HIDE DEF y, z, left, f, L
      <4> QED BY <1>2, <1>3, <2>3, <2>4
    <3>2. (context # "32" => DirOf(a + k) \in dirs)
      BY <1>16, <2>4, <3>1
    <3>3. Index(a + k) \div L = e /\ (a + k) % L = (a % L) + k
      BY <1>1, <2>4, <3>1, SameEntry DEF e
    <3>4. PdeOf(a + k) = e
      BY <3>3 DEF PdeOf
    <3>5. Walk(a + k) = f + ((a + k) % L)
      BY <1>17, <3>2, <3>4 DEF Walk
    <3>6. (a + k) % L = (i - y) + k
      BY <1>10, <3>3
    <3> HIDE DEF y, f
    <3>7. f + ((i - y) + k) = (f + (i - y)) + k
      BY <1>2, <2>3
    <3> QED BY <2>3, <3>5, <3>6, <3>7
  <2>5. left \in Nat \ {0} /\ i + left <= z
    <3> HIDE DEF y, z, left, f, L
    <3> QED BY <1>2, <1>3, <2>3
  <2> QED BY <2>1, <2>4, <2>5
<1>18. CASE pde[e] = Table
  <2>1. pde[e].kind # "large" /\ pde[e].kind = "table"
    BY <1>18, EntriesDiffer
  <2>2. /\ Ptbl(w) = {e} /\ Ptbl(w) # {} /\ PteAt(w) = p
    BY <1>4, <2>1
  <2>3. PageLeft(w) = P - (i - Floor(P, i)) /\ PageAddr(w) = pte[p].phys + (i - Floor(P, i))
    BY <1>11, <2>2 DEF PageLeft, PageAddr
  <2>4. pte[p] # Absent
    BY <2>2 DEF Unmapped
  <2>5. pte[p].phys \in Int /\ pte[p].kind = "small"
    <3>1. PICK x \in Int : pte[p] = Small(x)
      BY <1>15, <2>4
    <3> QED BY <3>1, EntriesDiffer
  <2> DEFINE y == Floor(P, i)
             t == Floor(L, i) + L
             z == Floor(D, i) + D
             left == PageLeft(w)
             f == pte[p].phys
  <2>6. /\ y \in Nat /\ y <= i /\ i < y + P /\ left = P - (i - y) /\ y + P <= t /\ t <= z /\ z \in Nat
        /\ t \in Nat /\ PageAddr(w) = f + (i - y) /\ f \in Int
    BY <1>3, <1>5, <1>6, <1>7, <1>8, <1>9, <2>3, <2>5
  <2>7. ASSUME NEW k \in Nat, k < left, Reach(a + k), Index(a + k) = i + k
        PROVE  Walk(a + k) = PageAddr(w) + k
    <3>1. i + k < y + P /\ i + k < z /\ i + k < t
      <4> HIDE DEF y, z, t, left, f, P
      <4> QED BY <1>2, <1>3, <2>6, <2>7
    <3>2. (context # "32" => DirOf(a + k) \in dirs)
      BY <1>16, <2>7, <3>1
    <3>3. Index(a + k) \div L = e
      BY <1>1, <2>7, <3>1, SameEntry DEF e
    <3>4. Index(a + k) \div P = p /\ (a + k) % P = (a % P) + k
      BY <1>1, <2>7, <3>1, SameEntry DEF p
    <3>5. PdeOf(a + k) = e /\ PteOf(a + k) = p
      BY <3>3, <3>4 DEF PdeOf, PteOf
    <3>6. Walk(a + k) = f + ((a + k) % P)
      BY <2>1, <2>5, <3>2, <3>5 DEF Walk
    <3>7. (a + k) % P = (i - y) + k
      BY <1>11, <3>4
    <3> HIDE DEF y, f
    <3>8. f + ((i - y) + k) = (f + (i - y)) + k
      BY <1>2, <2>6
    <3> QED BY <2>6, <3>6, <3>7, <3>8
  <2>8. left \in Nat \ {0} /\ i + left <= z /\ i + left <= t
    <3> HIDE DEF y, z, t, left, f, P
    <3> QED BY <1>2, <1>3, <2>6
  <2> QED BY <1>18, <2>7, <2>8 DEF e
<1>19. pde[e] = Table \/ pde[e].kind = "large"
  BY <1>14, EntriesDiffer
<1> QED BY <1>17, <1>18, <1>19

(* The pointers an iteration leaves are good for the next.                 *)
LEMMA CachesKept ==
  ASSUME TablesInv, context # "arm64", NEW w, Reach(w.addr), Cached(w), ~Unmapped(w),
         NEW c \in Nat, c <= PageLeft(w), Reach(w.addr + c), Index(w.addr + c) = Index(w.addr) + c,
         NEW v, v.addr = w.addr + c, v.pdir = Pdir(w), v.ptbl = Ptbl(w)
  PROVE  Cached(v)
<1> DEFINE a == w.addr
           i == Index(a)
           b == a + c
           L == LARGE_PAGE_SIZE
           D == PDIR_RANGE
           e == i \div L
<1>1. context \in Contexts /\ i \in Nat
  BY IndexForm DEF TablesInv
<1>2. L \in Nat \ {0} /\ D \in Nat \ {0}
  BY TableSizes
<1>3. /\ context # "32" => Pdir(w) = {i \div D}
      /\ Ptbl(w) = IF pde[e].kind = "large" THEN {} ELSE {e}
  BY Lookup
<1>4. /\ PageLeft(w) \in Nat \ {0} /\ i + PageLeft(w) <= Floor(D, i) + D
      /\ Ptbl(w) # {} => i + PageLeft(w) <= Floor(L, i) + L /\ pde[e] = Table
  BY Found
<1>5. ASSUME NEW d \in {L, D}, i + PageLeft(w) <= Floor(d, i) + d, b % d # 0
      PROVE  Index(b) \div d = i \div d
  <2> DEFINE y == Floor(d, i)
             z == y + d
  <2>1. d \in Nat \ {0} /\ y \in Nat /\ y % d = 0
    BY <1>1, <1>2, <1>5, FloorFact
  <2>2. z % d = 0 /\ z \in Nat
    <3>1. (d * 1) % d = 0
      BY <2>1, Multiple
    <3>2. d % d = 0 /\ d \in Int /\ y \in Int
      BY <2>1, <3>1
    <3>3. (y + d) % d = 0
      BY <2>1, <3>2, MultipleSum
    <3> QED BY <2>1, <3>3
  <2>3. b % d = (i + c) % d
    BY <1>1, IndexOffset
  <2> HIDE DEF y
  <2>4. i + c <= z
    <3>1. i + PageLeft(w) <= z
      BY <1>5 DEF y
    <3> HIDE DEF i, z
    <3> QED BY <1>1, <1>4, <2>2, <3>1
  <2>5. i + c # z
    BY <1>5, <2>2, <2>3
  <2>6. i + c < Floor(d, i) + d
    <3> HIDE DEF i
    <3> QED BY <1>1, <2>1, <2>2, <2>4, <2>5 DEF y
  <2> QED BY <1>1, <2>6, SameEntry
<1>6. ASSUME context # "32", b % D # 0 PROVE v.pdir = {DirOf(b)}
  <2>1. Index(b) \div D = i \div D
    BY <1>4, <1>5, <1>6
  <2> QED BY <1>3, <1>6, <2>1 DEF DirOf
<1>7. ASSUME v.ptbl # {}, b % L # 0 PROVE v.ptbl = {PdeOf(b)} /\ pde[PdeOf(b)] = Table
  <2>1. Ptbl(w) # {} /\ Ptbl(w) = {e} /\ pde[e] = Table
    BY <1>3, <1>4, <1>7
  <2>2. Index(b) \div L = e
    BY <1>4, <1>5, <1>7, <2>1
  <2> QED BY <2>1, <2>2 DEF PdeOf
<1> QED BY <1>6, <1>7 DEF Cached

-----------------------------------------------------------------------------
(***************************************************************************)
(* An operation in progress: the first n bytes of the range are done, and  *)
(* the pointers it keeps are good for the next one.                        *)
(***************************************************************************)
GoodOp(q) ==
  /\ q.addr \in Nat /\ q.size \in Nat /\ q.addr + q.size <= AddrMod /\ q.op \in {"set", "copy"}
  /\ \A o \in 0 .. q.size - 1 : Reach(q.addr + o) /\ Index(q.addr + o) = Index(q.addr) + o

Byte(q, k) == <<Walk((q.addr + k - 1) % AddrMod), IF q.op = "set" THEN 0 ELSE k - 1>>

Done(w) == w.request.size - w.size

InProgress(w, t) ==
  LET q == w.request
      n == Done(w)
  IN  /\ GoodOp(q)
      /\ w = [op |-> q.op, addr |-> (q.addr + n) % AddrMod, size |-> w.size,
              value |-> IF q.op = "set" THEN 0 ELSE n, pdir |-> w.pdir, ptbl |-> w.ptbl, request |-> q]
      /\ w.size \in 0 .. q.size
      /\ t = [k \in 1 .. n |-> Byte(q, k)]
      /\ w.size # 0 => Cached(w)

OpInv ==
  work # Idle =>
    context # "arm64" /\ \A w, t : w = work /\ t = touched => InProgress(w, t)

LEMMA InProgressSame ==
  ASSUME UNCHANGED <<context, dirs, pde, pte>>
  PROVE  \A w, t : InProgress(w, t)' <=> InProgress(w, t)
<1>1. \A a : Index(a)' = Index(a)
  BY DEF Index, IndexMod
<1>2. \A a : Reach(a)' <=> Reach(a)
  BY DEF Reach, Addresses
<1>3. \A q : GoodOp(q)' <=> GoodOp(q)
  BY <1>1, <1>2, Zenon DEF GoodOp
<1>4. \A a : DirOf(a)' = DirOf(a) /\ PdeOf(a)' = PdeOf(a) /\ PteOf(a)' = PteOf(a)
  BY <1>1, Zenon DEF DirOf, PdeOf, PteOf
<1>5. \A a : Walk(a)' = Walk(a)
  BY <1>4, Zenon DEF Walk
<1>6. \A q, k : Byte(q, k)' = Byte(q, k)
  BY <1>5, Zenon DEF Byte
<1>7. \A w : Cached(w)' <=> Cached(w)
  BY <1>4, Zenon DEF Cached, Table
<1> QED BY <1>3, <1>6, <1>7, Zenon DEF InProgress, Done

LEMMA OpGood ==
  ASSUME context \in Contexts, context # "arm64", NEW q \in OpRequests[context], OpValid(q)
  PROVE  GoodOp(q) /\ Narrow(q).size = q.size
<1>1. /\ q \in [addr : Addr, size : Addr, op : {"set", "copy"}]
      /\ q.addr + q.size <= AddrMod
      /\ context = "32" => q.size < LIMIT
  BY MmuCallsAssumption DEF Contexts
<1>2. /\ HALF \in Nat \ {0} /\ LIMIT \in Nat \ {0} /\ AddrMod \in Nat /\ LIMIT <= AddrMod
      /\ Gap \in Nat /\ AddrMod = Gap + 2 * HALF
  BY TableSizes DEF Gap
<1>3. q.addr \in Nat /\ q.size \in Nat /\ q.addr < AddrMod /\ q.op \in {"set", "copy"}
  BY <1>1, <1>2 DEF Addr
<1>4. ASSUME context # "32", q.size # 0
      PROVE  \/ q.addr + q.size <= HALF
             \/ q.addr >= HALF + Gap
  <2> DEFINE z == q.addr + q.size - 1
  <2>1. z \in Nat /\ z < AddrMod
    BY <1>1, <1>2, <1>3, <1>4
  <2>2. Wrap(z) = z
    <3> HIDE DEF z
    <3> QED BY <1>2, <2>1 DEF Wrap
  <2>3. context = "64"
    BY <1>4 DEF Contexts
  <2>4. is_canonical_addr(q.addr) /\ is_canonical_addr(z) /\ (q.addr < HALF <=> z < HALF)
    BY <2>2, <2>3 DEF OpValid, is_canonical_range
  <2> QED BY <1>2, <1>3, <2>4 DEF is_canonical_addr
<1>5. context = "32" => q.addr + q.size <= LIMIT
  BY DEF OpValid
<1>6. \A o \in 0 .. q.size - 1 : Reach(q.addr + o) /\ Index(q.addr + o) = Index(q.addr) + o
  BY <1>1, <1>3, <1>4, <1>5, RangeIndex
<1>7. Narrow(q).size = q.size
  <2>1. context = "32" => q.size % LIMIT = q.size
    BY <1>1, <1>2, <1>3
  <2> QED BY <1>1, <2>1 DEF Narrow
<1> QED BY <1>1, <1>3, <1>6, <1>7 DEF GoodOp

LEMMA OpBegins ==
  ASSUME TablesInv, NEW q \in OpRequests[context], OpBegin(q)
  PROVE  OpInv'
<1>1. context \in Contexts /\ context # "arm64" /\ OpValid(q)
  BY DEF TablesInv, OpBegin
<1>2. GoodOp(q) /\ Narrow(q).size = q.size
  BY <1>1, OpGood
<1>3. q.addr \in Nat /\ q.size \in Nat /\ q.addr < AddrMod /\ AddrMod \in Nat
  BY <1>1, MmuCallsAssumption, TableSizes DEF Contexts, Addr
<1> SUFFICES ASSUME NEW w, NEW t, w = work', t = touched' PROVE InProgress(w, t)
  <2>1. UNCHANGED <<context, dirs, pde, pte>>
    BY DEF OpBegin
  <2> QED BY <1>1, <2>1, InProgressSame, Zenon DEF OpInv
<1>4. w = [op |-> q.op, addr |-> q.addr, size |-> q.size, value |-> 0,
           pdir |-> {}, ptbl |-> {}, request |-> q]
  BY <1>2 DEF OpBegin
<1>5. t = <<>>
  BY DEF OpBegin
<1>6. w.request = q /\ w.size = q.size /\ w.pdir = {} /\ w.ptbl = {} /\ Done(w) = 0
  BY <1>3, <1>4 DEF Done
<1>7. (q.addr + 0) % AddrMod = q.addr
  BY <1>3
<1>8. t = [k \in 1 .. Done(w) |-> Byte(q, k)]
  <2>1. 1 .. 0 = {}
    OBVIOUS
  <2> QED BY <1>5, <1>6, <2>1
<1>9. w = [op |-> q.op, addr |-> (q.addr + Done(w)) % AddrMod, size |-> w.size,
           value |-> IF q.op = "set" THEN 0 ELSE Done(w), pdir |-> w.pdir, ptbl |-> w.ptbl,
           request |-> q]
  BY <1>4, <1>6, <1>7
<1>10. w.size \in 0 .. q.size
  BY <1>3, <1>6
<1>11. Cached(w)
  BY <1>6 DEF Cached
<1> QED BY <1>2, <1>6, <1>8, <1>9, <1>10, <1>11, Zenon DEF InProgress

LEMMA OpContinues ==
  ASSUME TablesInv, OpInv, OpStep
  PROVE  OpInv'
<1>1. PICK w, t : w = work /\ t = touched
  OBVIOUS
<1>2. context # "arm64" /\ InProgress(w, t)
  BY <1>1, Zenon DEF OpInv, OpStep
<1> DEFINE q == w.request
           n == Done(w)
           c == ChunkSize(w)
           a == q.addr + n
           copies == w.op # "set"
<1>3. /\ GoodOp(q)
      /\ w = [op |-> q.op, addr |-> a % AddrMod, size |-> w.size,
              value |-> IF q.op = "set" THEN 0 ELSE n, pdir |-> w.pdir, ptbl |-> w.ptbl, request |-> q]
      /\ w.size \in 0 .. q.size
      /\ t = [k \in 1 .. n |-> Byte(q, k)]
      /\ w.size # 0 /\ Cached(w) /\ ~Unmapped(w)
  BY <1>1, <1>2, Zenon DEF InProgress, OpStep
<1>4. /\ q.addr \in Nat /\ q.size \in Nat /\ q.addr + q.size <= AddrMod /\ q.op \in {"set", "copy"}
      /\ \A o \in 0 .. q.size - 1 : Reach(q.addr + o) /\ Index(q.addr + o) = Index(q.addr) + o
  BY <1>3 DEF GoodOp
<1>5. AddrMod \in Nat /\ n \in 0 .. q.size - 1 /\ n \in Nat /\ w.size = q.size - n /\ w.size \in Nat
  <2>1. n = q.size - w.size /\ AddrMod \in Nat
    BY TableSizes DEF Done
  <2>2. w.size \in 0 .. q.size /\ w.size # 0
    BY <1>3
  <2> HIDE DEF n, q
  <2> QED BY <1>4, <2>1, <2>2
<1>6. a \in Nat /\ a < AddrMod
  BY <1>4, <1>5
<1>7. w.addr = a /\ w.op = q.op /\ w.value = IF q.op = "set" THEN 0 ELSE n
  <2>1. a % AddrMod = a
    <3> HIDE DEF a
    <3> QED BY <1>5, <1>6
  <2> QED BY <1>3, <2>1
<1>8. Reach(w.addr) /\ Index(w.addr) = Index(q.addr) + n
  BY <1>4, <1>5, <1>7
<1>9. Index(q.addr) \in Nat
  <2>1. 0 \in 0 .. q.size - 1 /\ q.addr + 0 = q.addr
    BY <1>4, <1>5
  <2> QED BY <1>4, <2>1, IndexForm DEF TablesInv
<1>10. /\ PageLeft(w) \in Nat \ {0}
       /\ \A k \in Nat : k < PageLeft(w) /\ Reach(w.addr + k) /\ Index(w.addr + k) = Index(w.addr) + k =>
            Walk(w.addr + k) = PageAddr(w) + k
  BY <1>2, <1>3, <1>8, Found
<1>11. c \in Nat \ {0} /\ c <= PageLeft(w) /\ c <= w.size
  <2> DEFINE T == {PageLeft(w), w.size}
  <2>1. T \subseteq Nat /\ T # {} /\ \A x \in T : x # 0
    BY <1>3, <1>5, <1>10
  <2>2. c = Min(T)
    BY DEF ChunkSize
  <2> HIDE DEF T, c
  <2>3. Min(T) \in T /\ \A y \in T : Min(T) <= y
    BY <2>1, MinElement
  <2> QED BY <2>1, <2>2, <2>3 DEF T
<1> HIDE DEF c
<1>12. ASSUME NEW o \in 0 .. w.size - 1
       PROVE  Reach(w.addr + o) /\ Index(w.addr + o) = Index(w.addr) + o
  <2> DEFINE d == n + o
             x == Index(q.addr)
  <2>1. d \in 0 .. q.size - 1 /\ q.addr + d = w.addr + o
    <3> HIDE DEF q, n
    <3> QED BY <1>4, <1>5, <1>7
  <2>2. Reach(w.addr + o) /\ Index(w.addr + o) = x + d
    BY <1>4, <2>1
  <2>3. x + d = (x + n) + o /\ Index(w.addr) = x + n
    <3>1. Index(w.addr) = x + n /\ x \in Nat
      BY <1>8, <1>9
    <3> HIDE DEF x, q, n
    <3> QED BY <1>5, <3>1
  <2> QED BY <2>2, <2>3
<1> DEFINE chunk == [k \in 1 .. c |-> <<PageAddr(w) + k - 1, IF copies THEN w.value + k - 1 ELSE w.value>>]
<1>13. ASSUME NEW k \in 1 .. c
       PROVE  chunk[k] = Byte(q, n + k)
  <2> DEFINE o == k - 1
  <2>1. o \in Nat /\ o \in 0 .. w.size - 1 /\ o < PageLeft(w)
    BY <1>5, <1>10, <1>11
  <2>2. Walk(w.addr + o) = PageAddr(w) + o
    BY <1>10, <1>12, <2>1
  <2>3. q.addr + (n + k) - 1 = w.addr + o /\ (w.addr + o) % AddrMod = w.addr + o
    <3> HIDE DEF q, n
    <3>1. q.addr + (n + k) - 1 = w.addr + o /\ w.addr + o \in Nat /\ w.addr + o < AddrMod
      BY <1>4, <1>5, <1>7, <1>11
    <3> QED BY <1>5, <3>1
  <2>4. Walk((q.addr + (n + k) - 1) % AddrMod) = PageAddr(w) + k - 1
    BY <2>2, <2>3
  <2>5. (IF copies THEN w.value + k - 1 ELSE w.value) = IF q.op = "set" THEN 0 ELSE (n + k) - 1
    <3> HIDE DEF q, n
    <3> QED BY <1>5, <1>7
  <2> QED BY <2>4, <2>5 DEF Byte
<1> DEFINE u == touched'
           m == n + c
<1>14. m \in Nat /\ m <= q.size /\ m \in 0 .. q.size
  BY <1>4, <1>5, <1>11
<1>15. touched' = t \o chunk
  BY <1>1 DEF OpStep, c
<1>16. touched' = [k \in 1 .. m |-> Byte(q, k)]
  <2> DEFINE S == {Byte(q, k) : k \in 1 .. q.size}
             B(k) == Byte(q, k)
  <2>1. t \in Seq(S) /\ Len(t) = n /\ \A k \in 1 .. n : t[k] = B(k)
    <3>1. \A k \in 1 .. n : B(k) \in S
      BY <1>4, <1>5
    <3>2. t = [k \in 1 .. n |-> B(k)]
      BY <1>3
    <3> HIDE DEF S, B, n
    <3> QED BY <1>5, <3>1, <3>2
  <2>2. chunk \in Seq(S) /\ Len(chunk) = c /\ \A k \in 1 .. c : chunk[k] = B(n + k)
    <3>1. \A k \in 1 .. c : B(n + k) \in S
      <4> TAKE k \in 1 .. c
      <4>1. n + k \in 1 .. q.size
        <5>1. n + c <= q.size
          BY <1>14
        <5> HIDE DEF n, q
        <5> QED BY <1>4, <1>5, <1>11, <5>1
      <4> QED BY <4>1
    <3>2. \A k \in 1 .. c : chunk[k] = B(n + k)
      BY <1>13
    <3>3. chunk = [k \in 1 .. c |-> chunk[k]]
      OBVIOUS
    <3> HIDE DEF S, B, n, chunk
    <3>4. \A k \in 1 .. c : chunk[k] \in S
      BY <3>1, <3>2
    <3> QED BY <1>11, <3>2, <3>3, <3>4
  <2> HIDE DEF S, B, n, chunk, m
  <2>3. /\ t \o chunk \in Seq(S) /\ Len(t \o chunk) = n + c
        /\ \A j \in 1 .. n + c : (t \o chunk)[j] = IF j <= n THEN t[j] ELSE chunk[j - n]
    BY <2>1, <2>2, ConcatElements
  <2>4. ASSUME NEW j \in 1 .. n + c PROVE (t \o chunk)[j] = B(j)
    <3>1. CASE j <= n
      BY <1>5, <1>11, <2>1, <2>3, <3>1
    <3>2. CASE ~(j <= n)
      <4>1. j - n \in 1 .. c /\ n + (j - n) = j
        BY <1>5, <1>11, <3>2
      <4> QED BY <2>2, <2>3, <3>2, <4>1
    <3> QED BY <3>1, <3>2
  <2>5. t \o chunk = [j \in 1 .. n + c |-> B(j)]
    <3> DEFINE z == t \o chunk
    <3>1. n + c \in Nat
      BY <1>5, <1>11
    <3>2. z \in Seq(S) /\ Len(z) = n + c /\ \A j \in 1 .. n + c : z[j] = B(j)
      BY <2>3, <2>4
    <3> HIDE DEF z
    <3>3. z = [j \in 1 .. Len(z) |-> z[j]]
      BY <3>2
    <3>4. z = [j \in 1 .. n + c |-> B(j)]
      BY <3>2, <3>3
    <3> QED BY <3>4 DEF z
  <2> QED BY <1>15, <2>5 DEF B, m
<1> SUFFICES ASSUME NEW v, NEW s, v = work', s = touched' PROVE InProgress(v, s)
  <2>1. UNCHANGED <<context, dirs, pde, pte>>
    BY DEF OpStep
  <2> QED BY <1>2, <2>1, InProgressSame, Zenon DEF OpInv
<1>17. v = [op |-> q.op, addr |-> (w.addr + c) % AddrMod, size |-> w.size - c,
            value |-> IF q.op = "set" THEN 0 ELSE n + c, pdir |-> Pdir(w), ptbl |-> Ptbl(w), request |-> q]
  <2>1. v = [w EXCEPT !.addr = (@ + c) % AddrMod, !.size = @ - c,
                      !.value = IF copies THEN @ + c ELSE @, !.pdir = Pdir(w), !.ptbl = Ptbl(w)]
    BY <1>1 DEF OpStep, c
  <2> HIDE DEF q, n, a
  <2>2. w = [op |-> q.op, addr |-> w.addr, size |-> w.size, value |-> w.value,
             pdir |-> w.pdir, ptbl |-> w.ptbl, request |-> q]
    BY <1>3, <1>7
  <2>3. (IF copies THEN w.value + c ELSE w.value) = IF q.op = "set" THEN 0 ELSE n + c
    BY <1>7
  <2>4. v = [op |-> w.op, addr |-> (w.addr + c) % AddrMod, size |-> w.size - c,
             value |-> IF copies THEN w.value + c ELSE w.value, pdir |-> Pdir(w), ptbl |-> Ptbl(w),
             request |-> w.request]
    <3> DEFINE f1 == (w.addr + c) % AddrMod
               f2 == w.size - c
               f3 == IF copies THEN w.value + c ELSE w.value
               f4 == Pdir(w)
               f5 == Ptbl(w)
    <3>1. v = [w EXCEPT !.addr = f1, !.size = f2, !.value = f3, !.pdir = f4, !.ptbl = f5]
      BY <2>1
    <3> HIDE DEF f1, f2, f3, f4, f5
    <3>2. v = [op |-> w.op, addr |-> f1, size |-> f2, value |-> f3, pdir |-> f4, ptbl |-> f5,
               request |-> w.request]
      BY <2>2, <3>1
    <3> QED BY <3>2 DEF f1, f2, f3, f4, f5
  <2> QED BY <2>3, <2>4, <1>7 DEF q
<1>18. /\ v.request = q /\ v.size = w.size - c /\ v.addr = (w.addr + c) % AddrMod
       /\ v.pdir = Pdir(w) /\ v.ptbl = Ptbl(w)
  BY <1>17
<1>19. Done(v) = m
  <2> HIDE DEF q, n
  <2>1. q.size - (w.size - c) = n + c
    BY <1>4, <1>5, <1>11
  <2> QED BY <1>18, <2>1 DEF Done
<1>20. v.size \in 0 .. q.size
  <2> HIDE DEF q, n
  <2> QED BY <1>4, <1>5, <1>11, <1>18
<1>21. q.addr + m = w.addr + c
  <2> HIDE DEF q, n
  <2> QED BY <1>4, <1>5, <1>7, <1>11
<1>22. v = [op |-> q.op, addr |-> (q.addr + m) % AddrMod, size |-> v.size,
            value |-> IF q.op = "set" THEN 0 ELSE m, pdir |-> v.pdir, ptbl |-> v.ptbl, request |-> q]
  BY <1>17, <1>18, <1>21
<1>23. ASSUME v.size # 0 PROVE Cached(v)
  <2>1. c \in 0 .. w.size - 1
    BY <1>5, <1>11, <1>18, <1>23
  <2>2. Reach(w.addr + c) /\ Index(w.addr + c) = Index(w.addr) + c
    BY <1>12, <2>1
  <2>3. w.addr + c \in Nat /\ w.addr + c < AddrMod
    BY <2>2, IndexForm DEF TablesInv
  <2>4. v.addr = w.addr + c
    BY <1>5, <1>18, <2>3
  <2> QED BY <1>2, <1>3, <1>8, <1>11, <1>18, <2>2, <2>4, CachesKept
<1> HIDE DEF m, n
<1>24. s = [k \in 1 .. Done(v) |-> Byte(v.request, k)]
  BY <1>16, <1>18, <1>19
<1> QED BY <1>3, <1>18, <1>19, <1>20, <1>22, <1>23, <1>24, Zenon DEF InProgress

LEMMA OpSteps ==
  ASSUME TablesInv, OpInv, [MmuNext]_mmuVars
  PROVE  OpInv'
<1>1. CASE \E r \in MapRequests[context] : MmuMap(r)
  BY <1>1, Zenon DEF MmuMap, OpInv, Idle
<1>2. CASE \E q \in OpRequests[context] : OpBegin(q)
  BY <1>2, OpBegins
<1>3. CASE OpStep
  BY <1>3, OpContinues
<1>4. CASE OpEnd
  BY <1>4, Zenon DEF OpEnd, OpInv, Idle
<1>5. CASE UNCHANGED mmuVars
  <2>1. UNCHANGED <<context, dirs, pde, pte>> /\ work' = work /\ touched' = touched
    BY <1>5 DEF mmuVars
  <2>2. \A w, t : InProgress(w, t)' <=> InProgress(w, t)
    BY <2>1, InProgressSame
  <2> QED BY <2>1, <2>2, Zenon DEF OpInv, Idle
<1> QED BY <1>1, <1>2, <1>3, <1>4, <1>5 DEF MmuNext

LEMMA FaithfulOp == TablesInv /\ OpInv => OpFaithful
<1> SUFFICES ASSUME TablesInv, OpInv, work # Idle
             PROVE  LET q == work.request IN
                    /\ Len(touched) = q.size - work.size
                    /\ \A i \in 1 .. Len(touched) : touched[i] = Byte(q, i)
                    /\ work.size # 0 /\ Unmapped(work) => ~Mapped(work.addr)
  BY Zenon DEF OpFaithful, Byte
<1>1. PICK w, t : w = work /\ t = touched
  OBVIOUS
<1>2. context # "arm64" /\ InProgress(w, t)
  BY <1>1, Zenon DEF OpInv
<1> DEFINE q == w.request
           n == Done(w)
<1>3. /\ GoodOp(q) /\ w.size \in 0 .. q.size
      /\ w.addr = (q.addr + n) % AddrMod
      /\ t = [k \in 1 .. n |-> Byte(q, k)]
      /\ w.size # 0 => Cached(w)
  <2>1. w = [op |-> q.op, addr |-> (q.addr + n) % AddrMod, size |-> w.size,
              value |-> IF q.op = "set" THEN 0 ELSE n, pdir |-> w.pdir, ptbl |-> w.ptbl, request |-> q]
    BY <1>2, Zenon DEF InProgress
  <2>2. w.addr = (q.addr + n) % AddrMod
    <3> HIDE DEF q, n
    <3> QED BY <2>1
  <2> QED BY <1>2, <2>2, Zenon DEF InProgress
<1>4. /\ q.addr \in Nat /\ q.size \in Nat /\ q.addr + q.size <= AddrMod
      /\ \A o \in 0 .. q.size - 1 : Reach(q.addr + o)
  BY <1>3 DEF GoodOp
<1>5. n \in Nat /\ n = q.size - w.size /\ AddrMod \in Nat /\ w.size \in Nat
  <2>1. n = q.size - w.size /\ AddrMod \in Nat
    BY TableSizes DEF Done
  <2>2. w.size \in 0 .. q.size
    BY <1>3
  <2> HIDE DEF n, q
  <2> QED BY <1>4, <2>1, <2>2
<1>6. Len(t) = n /\ \A i \in 1 .. Len(t) : t[i] = Byte(q, i)
  <2> DEFINE B(k) == Byte(q, k)
  <2>1. t = [k \in 1 .. n |-> B(k)]
    BY <1>3
  <2> HIDE DEF n, B
  <2>2. Len(t) = n /\ \A i \in 1 .. Len(t) : t[i] = B(i)
    BY <1>5, <2>1
  <2> QED BY <2>2 DEF B
<1>7. ASSUME w.size # 0, Unmapped(w) PROVE ~Mapped(w.addr)
  <2>1. n \in 0 .. q.size - 1 /\ q.addr + n \in Nat /\ q.addr + n < AddrMod
    BY <1>4, <1>5, <1>7
  <2>2. w.addr = q.addr + n
    <3> HIDE DEF n
    <3> QED BY <1>3, <1>5, <2>1
  <2>3. Reach(w.addr)
    BY <1>4, <2>1, <2>2
  <2> QED BY <1>3, <1>7, <2>3, GivesUp
<1> QED BY <1>1, <1>5, <1>6, <1>7

(* A memory operation accesses the bytes of its range in order, each at    *)
(* the physical address the tables give it and with its own byte of the    *)
(* buffer, whatever it keeps from one iteration to the next, and gives up  *)
(* only on an address that is not mapped.                                  *)
THEOREM MmuOpFaithful == MmuSpec => []OpFaithful
<1>1. MmuInit => TablesInv /\ OpInv
  BY TablesStart DEF MmuInit, OpInv
<1>2. TablesInv /\ OpInv /\ [MmuNext]_mmuVars => TablesInv' /\ OpInv'
  BY TablesSteps, OpSteps
<1> QED BY <1>1, <1>2, FaithfulOp, PTL DEF MmuSpec
=============================================================================
